---------------------------- MODULE MCQuerySession ----------------------------
(* Packages mod/a and mod/c, a type with a method, two functions F, a test, *)
(* the helper file latest.go and a call through an interface, for TLC; and *)
(* four trees: the first one, a file in which the method and F have moved  *)
(* and changed with a new file, a changed line, another go.mod and no test *)
(* file, and every file but the test changed.                              *)
EXTENDS Review

S(name, kind, of, pkg, file, line, last) ==
  [name |-> name, kind |-> kind, of |-> of, ptr |-> of # 0, pkg |-> pkg, file |-> file, line |-> line, col |-> 6,
   first |-> line, last |-> last, left |-> 1, right |-> 2]
A == <<11, 12>>
C == <<11, 13>>
MCSym == << S(1, "struct", 0, A, 1, 1, 3), S(2, "method", 1, A, 1, 5, 6), S(3, "func", 0, A, 1, 8, 9),
            S(3, "func", 0, C, 2, 1, 3), S(5, "func", 0, A, 4, 1, 5), S(6, "func", 0, C, 3, 1, 4),
            S(7, "interface", 0, A, 2, 5, 7),
            S(2, "method", 1, A, 1, 7, 8), S(3, "func", 0, A, 1, 10, 11), S(10, "struct", 0, A, 5, 1, 4), S(12, "func", 0, A, 5, 5, 6),
            S(14, "field", 0, A, 5, 3, 3) >>
MCCalls == << [from |-> 6, to |-> 3, line |-> 2], [from |-> 6, to |-> 3, line |-> 3], [from |-> 5, to |-> 6, line |-> 2],
              [from |-> 5, to |-> 2, line |-> 3], [from |-> 4, to |-> 3, line |-> 2],
              [from |-> 4, to |-> 2, line |-> 3],
            [from |-> 6, to |-> 9, line |-> 2], [from |-> 6, to |-> 9, line |-> 3], [from |-> 5, to |-> 8, line |-> 3],
            [from |-> 4, to |-> 9, line |-> 2], [from |-> 4, to |-> 8, line |-> 3],
            [from |-> 9, to |-> 11, line |-> 11], [from |-> 11, to |-> 9, line |-> 6] >>
R(sym, enc, file, line, col, ctx) == [sym |-> sym, enc |-> enc, file |-> file, line |-> line, col |-> col, ctx |-> ctx]
MCRefs == << R(3, 6, 3, 2, 1, ""), R(3, 6, 3, 3, 1, ""), R(6, 5, 4, 2, 1, ""), R(2, 5, 4, 3, 1, ""),
             R(3, 4, 2, 2, 1, ""), R(1, 4, 2, 1, 9, "typedecl"), R(6, 6, 3, 2, 5, "go"),
             R(9, 6, 3, 2, 1, ""), R(9, 6, 3, 3, 1, ""), R(8, 5, 4, 3, 1, ""), R(9, 4, 2, 2, 1, ""), R(11, 9, 1, 11, 1, ""), R(9, 11, 5, 6, 1, ""),
             R(10, 11, 5, 5, 9, "typedecl"), R(10, 11, 5, 6, 3, "lit"), R(10, 9, 1, 10, 5, "new"), R(10, 9, 1, 11, 3, "call:Delete"),
             R(10, 5, 4, 4, 2, ""), R(10, 0, 5, 7, 3, "lit"), R(10, 0, 5, 7, 7, "typedecl"), R(1, 0, 5, 2, 3, "typedecl") >>
I(file, pkg, by) == [file |-> file, pkg |-> pkg, by |-> by]
MCImports == << I(2, A, C), I(3, A, C), I(4, A, A \o <<14>>), I(1, <<20>>, A), I(1, C, A) >>
MCLits == << [value |-> 1, file |-> 2, line |-> 4, enc |-> 4], [value |-> 1, file |-> 1, line |-> 9, enc |-> 3],
             [value |-> 1, file |-> 3, line |-> 4, enc |-> 6], [value |-> 9, file |-> 4, line |-> 4, enc |-> 5] >>

\* F and the unexported f fold to one name.
MCFold == [n \in 1..20 |-> IF n = 4 THEN 3 ELSE n]

MCMethods == [i \in {7} |-> {2}]
MCDirectory == <<>>

With(R0, X) == [syms |-> X, refs |-> {r \in R0 : MCRefs[r].sym \in X /\ MCRefs[r].enc \in X},
                calls |-> {c \in 1..6 : MCCalls[c].from \in X /\ c \in R0}]
MCStart == {With(R0, 1..7) : R0 \in {1..7} \cup {(1..7) \ {r} : r \in {1, 3}} \cup {(1..7) \ {1, 2}, {5, 6}, {}}}
           \cup {With(R0, (1..7) \ {4}) : R0 \in {1..7, {5, 6}}}

Name(n) == [form |-> "plain", pkg |-> <<>>, type |-> 0, ptr |-> FALSE, name |-> n]
Path(p, n) == [Name(n) EXCEPT !.form = "path", !.pkg = p]
InPkg(p, n) == [Name(n) EXCEPT !.form = "dotted", !.type = p]
Method(t, n) == [Name(n) EXCEPT !.form = "paren", !.type = t, !.ptr = TRUE]
Id(i) == [form |-> "id", id |-> i]
Q(verb, arg, how, lim) == [verb |-> verb, arg |-> arg, how |-> how, lim |-> lim, sel |-> "all", room |-> 0, keep |-> "",
                           given |-> TRUE, text |-> FALSE]

Questions == {<<"refs", Path(A, 3)>>, <<"refs", Name(4)>>, <<"callers", Path(A, 3)>>, <<"callees", Name(6)>>, <<"tests", InPkg(12, 3)>>,
              <<"tests", Method(1, 2)>>, <<"impl", Name(7)>>, <<"impact", Name(1)>>, <<"impact", Id(3)>>, <<"imports", 1>>,
              <<"importers", A>>, <<"lits", 1>>, <<"lits", 2>>, <<"pkg", <<12>>>>,
              <<"file", {1}>>, <<"exports", A>>}
Ways == {"advice", "raise", "stride", "once"}
MCSessions ==
  {Q(q[1], q[2], how, lim) : q \in Questions, how \in Ways, lim \in {1, 2}}
  \cup {Q("lits", 1, "raise", 3)}
  \cup {[Q("refs", Path(A, 3), "once", 2) EXCEPT !.sel = "best"], [Q("refs", Path(A, 3), "raise", 1) EXCEPT !.keep = "method"],
        [Q("callers", Id(3), "raise", 1) EXCEPT !.room = 1], [Q("impact", Id(3), "stride", 1) EXCEPT !.room = 2]}
  \cup {[Q(q[1], q[2], how, 3) EXCEPT !.text = TRUE, !.given = FALSE] :
          q \in {q \in Questions : q[1] # "pkg"}, how \in {"raise", "advice"}}

\* Trees: the lines of each file, and the symbols they have.
T(f1, f2, f3, f4, f5) ==
  LET texts == <<f1, f2, f3, f4, f5>> IN [f \in {f \in 1..5 : texts[f] # <<>>} |-> texts[f]]
MCTree ==
  LET f1 == <<1, 2, 3, 4, 5, 6, 7, 8, 9>>
      f1b == <<1, 2, 3, 4, 50, 51, 5, 52, 7, 8, 53>>
      f2 == <<21, 22, 23, 24, 25, 26, 27>>
      f2b == <<21, 60, 23, 24, 25, 26, 27>>
      f3 == <<31, 32, 33, 34>>
      f4 == <<41, 42, 43, 44, 45>>
      f5 == <<71, 72, 73, 74, 75, 76, 77>>
  IN << [text |-> T(f1, f2, f3, f4, <<>>), syms |-> 1..7, conf |-> 0],
        [text |-> T(f1b, f2, f3, f4, f5), syms |-> (1..12) \ {2, 3}, conf |-> 0],
        [text |-> T(f1, f2b, f3, <<>>, <<>>), syms |-> (1..7) \ {5}, conf |-> 1],
        [text |-> T(f1b, f2b, <<31, 61, 33, 34>>, f4, f5), syms |-> (1..12) \ {2, 3}, conf |-> 0] >>

Commit(author, types, files) == [author |-> author, types |-> types, files |-> files]
MCLog ==
  LET first == <<Commit(1, {}, 1..4)>>
  IN << first, <<Commit(2, {"feature", "bug"}, {1, 5})>> \o first, <<Commit(1, {"chore"}, {2})>> \o first,
        <<Commit(2, {"bug"}, {1, 2, 3}), Commit(1, {"feature", "bug"}, {1, 5})>> \o first >>

MCCyclo == [i \in 1..12 |-> i]
MCNameVerb == [i \in 1..12 |-> CASE i = 11 -> "create" [] i = 9 -> "mutate" [] OTHER -> ""]

\* Cards: small pages, a name that is misspelt, and names that begin alike.
MCCaps == [sym |-> [refs |-> 2, calls |-> 2], pack |-> [refs |-> 1, calls |-> 1], explain |-> [refs |-> 1, calls |-> 1],
           siblings |-> 1, preview |-> 1, package |-> 8, offered |-> 2, key |-> 2, context |-> 2, steps |-> 3]
MCSpelling == [n \in 1..20 |-> IF n = 13 THEN 3 :> 1 @@ 5 :> 2 ELSE <<>>]
MCBeginnings == [n \in 1..20 |-> CASE n = 5 -> {60, 61} [] n = 6 -> {60} [] n = 3 -> {61} [] OTHER -> {}]
MCModule == <<11>>

W(tree, head, main, index, full) == [work |-> tree, head |-> head, main |-> main, built |-> index, full |-> full]
MCSettings == {W(1, 1, 1, 1, 1), W(2, 2, 1, 2, 2), W(4, 4, 1, 4, 1),                             \* clean
               W(2, 1, 1, 1, 1), W(4, 1, 1, 1, 1), W(3, 1, 1, 1, 1),                            \* edited
               W(1, 2, 1, 2, 2), W(4, 2, 3, 2, 2),                                              \* elsewhere, behind
               W(2, 2, 1, Unborn, 1), W(2, Unborn, 1, 2, 2)}
Place(file, line, col) == [form |-> "at", at |-> [file |-> file, line |-> line, col |-> col]]
Pairs(reviews, settings) == reviews \X settings
MCCases ==
  Pairs({[verb |-> "risk", base |-> "main", head |-> "HEAD"], [verb |-> "verify", base |-> ""]}, MCSettings)
  \cup Pairs({[verb |-> "risk", base |-> "HEAD", head |-> "main"], [verb |-> "risk", base |-> "main", head |-> "gone"],
              [verb |-> "verify", base |-> "main"]}, {W(4, 4, 1, 4, 4), W(2, 1, 1, 1, 1)})
  \cup Pairs({[verb |-> "plan", arg |-> a, change |-> c, cap |-> n] :
                a \in {Path(A, 3), Id(6), Id(8)}, c \in {"signature", "delete"}, n \in {-1, 0, 2}}
             \cup {[verb |-> "plan", arg |-> Id(6), change |-> "behavior", cap |-> 0]}
             \cup {[verb |-> "lifecycle", arg |-> a, includeTests |-> b, depth |-> n] : a \in {Id(1), Id(10)}, b \in BOOLEAN, n \in {1, 3}},
             {W(1, 1, 1, 1, 1), W(2, 2, 1, 2, 2)})
  \cup Pairs({[verb |-> "plan", arg |-> Id(6), change |-> "delete", cap |-> 0],
              [verb |-> "lifecycle", arg |-> Id(10), includeTests |-> TRUE, depth |-> 0]}, {W(2, 2, 1, Unborn, 1)})
  \cup Pairs({[verb |-> "pack", args |-> a, depth |-> "pack"] :
                a \in {<<Id(2), Id(4), Id(8)>>, <<Id(3), Name(3)>>, <<InPkg(12, 3)>>, <<Path(A, 3)>>, <<Id(1)>>, <<Name(13)>>, <<Place(2, 1, 6)>>}}
             \cup {[verb |-> "pack", args |-> <<Path(A, 3)>>, depth |-> "sym"],
                  [verb |-> "pack", args |-> <<InPkg(12, 3)>>, depth |-> "explain"]}
             \cup {[verb |-> "pack", args |-> <<Id(i)>>, depth |-> "explain"] : i \in {2, 10}}
             \cup {[verb |-> "def", args |-> <<a>>, sel |-> "best"] : a \in {Name(3), Name(4), Name(13)}}
             \cup {[verb |-> "def", args |-> <<a>>, sel |-> "all"] :
                     a \in {Name(3), [form |-> "file", files |-> {1}, name |-> 3], [form |-> "pkg", pkg |-> A, name |-> 3],
                           [form |-> "pkg", pkg |-> C, name |-> 2]}}
             \cup {[verb |-> "types", args |-> <<a>>] : a \in {Name(10), Id(3)}}
             \cup {[verb |-> v, pkg |-> p] : v \in {"package", "types of package"}, p \in {A, <<13>>}},
             {W(2, 1, 1, 1, 1), W(2, 2, 1, 2, 2)})
  \cup Pairs({[verb |-> "def", args |-> <<Name(5)>>, sel |-> "all"], [verb |-> "package", pkg |-> A]}, {W(2, 2, 1, Unborn, 1)})
=============================================================================
