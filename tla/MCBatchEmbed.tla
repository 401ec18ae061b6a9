---------------------------- MODULE MCBatchEmbed -----------------------------
(* BatchEmbed for TLC.                                                     *)
EXTENDS BatchEmbed

=============================================================================
