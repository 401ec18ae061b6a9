----------------------------- MODULE MCIndexRun ------------------------------
(* IndexRun for TLC: two files that may use each other's symbol.           *)
EXTENDS IndexRun, TLC

CONSTANTS a, b

\* The same symbol with and without uses, and moved to another line.
MCContent == {[pos |-> 1, uses |-> {}], [pos |-> 1, uses |-> {a, b}],
              [pos |-> 2, uses |-> {}]}

\* No content and no property tells the two files apart.
FileSymmetry == Permutations({a, b})

=============================================================================
