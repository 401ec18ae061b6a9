----------------------------- MODULE MCIndexLock -----------------------------
(* IndexLock for TLC.                                                      *)
EXTENDS IndexLock

=============================================================================
