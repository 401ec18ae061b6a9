---------------------------- MODULE MCExtractRun -----------------------------
(* ExtractRun for TLC: p with an interface, its own and an external test, q *)
(* with a type that implements it, r with a caller.                        *)
EXTENDS ExtractRun

CONSTANTS p, q, r, m, testdata

MCPkgs == << <<m, p>>, <<m, q>>, <<m, r>>, <<m, testdata, p>> >>
F(pkg, test, ext) == [pkg |-> pkg, test |-> test, ext |-> ext]
MCFile == << F(1, FALSE, FALSE), F(1, TRUE, FALSE), F(1, TRUE, TRUE), F(2, FALSE, FALSE), F(3, FALSE, FALSE),
             F(3, FALSE, FALSE), F(4, FALSE, FALSE) >>

D(name, kind, of, line, last) ==
  [name |-> name, kind |-> kind, of |-> of, line |-> line, col |-> IF kind = "const" THEN 2 ELSE 6, last |-> last,
   body |-> TRUE, sig |-> {}, embeds |-> {}]
P == <<1, FALSE>>
K(pkg, of, name) == [pkg |-> pkg, of |-> of, name |-> name]
U(key, line, at) == [key |-> key, line |-> line, col |-> 9, at |-> at]
T == [pkg |-> P, name |-> "T"]
C(decls, uses) == [decls |-> decls, uses |-> uses, ops |-> {}, imports |-> {}, literals |-> {}, tagged |-> FALSE, clause |-> 9]

\* p/a.go; a new constant moves all that follows down a line.
A(extra, sig) ==
  LET at == IF extra THEN 1 ELSE 0
  IN C((IF extra THEN {D("C0", "const", "", 3, 3)} ELSE {}) \cup
       {D("C1", "const", "", 3 + at, 3 + at), D("C2", "const", "", 4 + at, 4 + at), D("T", "struct", "", 6 + at, 6 + at),
        D("I", "interface", "", 8 + at, 10 + at), [D("M", "imethod", "I", 9 + at, 9 + at) EXCEPT !.sig = sig],
        D("F", "func", "", 12 + at, 13 + at)}, {U(K(P, "I", "M"), 13 + at, 13 + at)})
\* p/a_test.go makes T implement I, and has a fake.
ATest == C({D("TestF", "func", "", 3, 5), [D("M", "method", "T", 7, 7) EXCEPT !.sig = {T}],
            D("Fake", "struct", "", 9, 9), D("M", "method", "Fake", 11, 11)}, {U(K(P, "", "F"), 4, 4), U(K(P, "I", "M"), 5, 4)})
XTest == C({D("TestX", "func", "", 3, 6)}, {U(K(P, "", "F"), 4, 4), U(K(P, "", "T"), 5, 0)})
\* q/b.go; S embeds B.
B(line, sig) ==
  C({[D("S", "struct", "", 3, 3) EXCEPT !.embeds = {"B"}], [D("M", "method", "S", line, line + 1) EXCEPT !.sig = sig],
     D("B", "struct", "", 9, 9), D("N", "method", "B", 11, 11)}, {[U(T, 3, 0) EXCEPT !.key = K(P, "", "T")]})
G(line) == [C({D("G", "func", "", line, line + 5)},
              {U(K(P, "", "F"), line + 1, line + 1), U(K(P, "I", "M"), line + 3, line + 2), U(K(P, "", "T"), line, 0),
               U(K(P, "", "C1"), line + 4, 0), [U(K(P, "", "C2"), line + 4, 0) EXCEPT !.col = 15]})
            EXCEPT !.ops = {[line |-> line + 2, col |-> 2, ctx |-> "go"]}, !.imports = {P},
                   !.literals = {[value |-> 1, shape |-> "const", fixture |-> TRUE, line |-> 1],
                                 [value |-> 2, shape |-> "arg", fixture |-> TRUE, line |-> line + 1],
                                 [value |-> 3, shape |-> "arg", fixture |-> FALSE, line |-> line + 1]}]
H(tagged) == [C({D("H", "func", "", 3, 4)}, {}) EXCEPT !.tagged = tagged]

MCContents == << {A(FALSE, {T}), A(TRUE, {T}), A(FALSE, {})}, {ATest, Absent}, {XTest, Absent}, {B(5, {T}), B(6, {T}), B(5, {})},
                 {G(3), G(4)}, {H(FALSE), H(TRUE)}, {C({}, {})} >>
MCTrees == {<<A(FALSE, {T}), ATest, XTest, B(5, {T}), G(3), H(FALSE), C({}, {})>>,
            <<A(TRUE, {T}), Absent, Absent, B(5, {T}), G(3), H(TRUE), C({}, {})>>}
=============================================================================
