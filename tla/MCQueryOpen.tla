----------------------------- MODULE MCQueryOpen -----------------------------
(* QueryOpen for TLC: two files, of which one may change without a full      *)
(* reindex; two directories, two events between any steps of the processes.  *)
EXTENDS QueryOpen

MCFiles == {"a.go", "b.go"}

=============================================================================
