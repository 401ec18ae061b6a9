------------------------------- MODULE MCEdit --------------------------------
(* Edit for TLC: files with a namesake in another file, in the same file,    *)
(* in a group, in a function's body, and in another case.                    *)
EXTENDS Edit

D(i, k, ns, in) == [id |-> i, kind |-> k, names |-> ns, inner |-> in, body |-> {}]

MCFold(n) == IF n \in {"get", "GET"} THEN "Get" ELSE n

\* "f" is in the path of both files.
MCPathHas(f, text) == text \in {f, "f"}

MCNames == {"Get", "get", "Set"}

MCTrees ==
  {[f1 |-> a, f2 |-> <<b>>] :
     a \in {<<D(1, "func", {"Get"}, {}), D(2, "func", {"Set"}, {})>>,
            <<D(1, "func", {"Get"}, {}), D(2, "func", {"Get"}, {})>>,
            <<D(1, "func", {"Set"}, {"Get"}), D(2, "gen", {"Get"}, {})>>,
            <<D(1, "gen", {"Get", "Set"}, {}), D(2, "proto", {"get"}, {})>>},
     b \in {D(3, "func", {"Get"}, {}), D(3, "gen", {"get"}, {})}}

R(n, at, f, op, code) == [name |-> n, at |-> at, file |-> f, op |-> op, code |-> code]

MCRequests ==
  {R(n, at, "", op, code) : n \in {"Get", "Set"}, at \in {0, 2}, op \in
     {"replace_body", "replace_full", "insert_after", "insert_before"}, code \in {"func", "stmt"}}
  \cup {R(n, 0, f, op, code) : n \in {"GET", "Get"}, f \in {"", "f1", "f"}, op \in
     {"replace_full", "insert_before"}, code \in {"func", "gen"}}
  \cup {R("Get", 0, "f1", op, "empty") : op \in {"replace_body", "replace_full"}}

=============================================================================
