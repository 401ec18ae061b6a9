------------------------------ MODULE MCSchema -------------------------------
(* Schema for TLC: an older and a newer binary, and migrations of both     *)
(* kinds in an order like the code's: 17, 18, 21, 22 cannot run twice.   *)
EXTENDS Schema

MCRerunnable == {1, 2, 4}

=============================================================================
