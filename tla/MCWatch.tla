------------------------------- MODULE MCWatch -------------------------------
(* Watch for TLC: a file that is there from the start, and one in a          *)
(* directory that is created later.                                          *)
EXTENDS Watch

CONSTANTS a, late

=============================================================================
