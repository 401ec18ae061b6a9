-------------------------------- MODULE Lookup --------------------------------
(***************************************************************************)
(* How the query commands find the symbol that a user's text or position   *)
(* means: internal/query lookup.go, position.go and resolve.go.            *)
(*                                                                         *)
(* A text is a record.  form tells its punctuation: "plain" for F, "dotted"*)
(* for T.M, pkg.F and pkg.T.M, "path" for a/b.F, "paren" for a receiver in *)
(* parentheses, which has a star if ptr.  pkg holds the segments before    *)
(* the type or the name, type is 0 if the text has none; pkg.F is read     *)
(* with its first part as the type.                                        *)
(***************************************************************************)
EXTENDS QueryTables

CONSTANTS
  Fold,       \* the name that COLLATE NOCASE cannot tell from a name
  Main, Dot   \* the segments "main" and "."

ASSUME FoldAssumption == \A n \in DOMAIN Fold : Fold[n] \in DOMAIN Fold /\ Fold[Fold[n]] = Fold[n]

KindRank == [const |-> 1, field |-> 2, func |-> 3, interface |-> 4, method |-> 5, struct |-> 6, type |-> 7, var |-> 8]
ASSUME KindsAssumption == \A s \in Syms : Sym[s].kind \in DOMAIN KindRank
ByKind(S) == OrderBy(S, LAMBDA s : <<KindRank[Sym[s].kind], Sym[s].file, Sym[s].first>>)
\* The rows of the first query that returns any.
FirstOf(rows, others) == IF rows # <<>> THEN rows ELSE others

lookupSimple(d, name) ==
  FirstOf(ByKind({s \in d.syms : Sym[s].name = name}), ByKind({s \in d.syms : Fold[Sym[s].name] = Fold[name]}))

Qualified(d, pkg, name) ==
  FirstOf(ByKind({s \in d.syms : Sym[s].name = name /\ Sym[s].pkg = pkg}),
          ByKind({s \in d.syms : Sym[s].name = name /\ EndsIn(Sym[s].pkg, pkg)}))
lookupQualified(d, pkg, name) == Qualified(d, pkg, name)
LookupByNameInPkg(d, name, pkg) == Qualified(d, pkg, name)
\* The files a pattern is part of the path of.
LookupByNameInFile(d, name, files) == ByKind({s \in d.syms : Sym[s].name = name /\ Sym[s].file \in files})

\* A receiver without a star also means the one with it.
lookupMethod(d, t) ==
  OrderBy({s \in d.syms : /\ Sym[s].name = t.name /\ Sym[s].of = t.type /\ t.type # 0
                          /\ Sym[s].ptr \/ ~t.ptr
                          /\ t.pkg = <<>> \/ Sym[s].pkg = t.pkg \/ EndsIn(Sym[s].pkg, t.pkg)},
          LAMBDA s : <<Sym[s].file, Sym[s].first>>)

\* No package path has the dot of a prefix pkg.T.
LookupByName(d, t) ==
  CASE t.form = "paren"  -> lookupMethod(d, t)
    [] t.form = "dotted" -> FirstOf(lookupMethod(d, t), IF t.pkg = <<>> THEN lookupQualified(d, <<t.type>>, t.name) ELSE <<>>)
    [] t.form = "path"   -> IF t.type = 0 THEN lookupQualified(d, t.pkg, t.name) ELSE <<>>
    [] t.form = "plain"  -> lookupSimple(d, t.name)

-----------------------------------------------------------------------------
(* Positions.                                                              *)

\* What a query found, or else the next one.
OrElse(found, next) == IF found # 0 THEN found ELSE next
Distance(a, b) == IF a < b THEN b - a ELSE a - b

MutantResolvePosition(d, p) ==
  LET here(s)   == Sym[s].file = p.file
      names     == {s \in d.syms : here(s) /\ Sym[s].line = p.line}
      refs      == {r \in d.refs : Refs[r].file = p.file /\ Refs[r].line = p.line}
      target(r) == IF r = 0 THEN 0 ELSE Refs[r].sym
  IN OrElse(First(OrderBy({s \in names : Sym[s].col = p.col}, LAMBDA s : <<>>)),
     OrElse(First(OrderBy(names, LAMBDA s : <<Distance(Sym[s].col, p.col), Sym[s].col>>)),
     OrElse(target(First(OrderBy({r \in refs : Refs[r].col = p.col}, LAMBDA r : <<>>))),
     OrElse(target(First(OrderBy(refs, LAMBDA r : <<Distance(Refs[r].col, p.col), Refs[r].col>>))),
     OrElse(First(OrderBy({s \in d.syms : here(s) /\ Sym[s].first = p.line /\ Sym[s].left <= p.col /\ p.col <= Sym[s].right},
                        LAMBDA s : <<>>)),
          First(OrderBy({s \in d.syms : here(s) /\ Sym[s].first <= p.line /\ p.line <= Sym[s].last},
                        LAMBDA s : <<Sym[s].last - Sym[s].first, Sym[s].name>>)))))))

\* refs --at: a name, a reference, the nearest of each on the line, a
\* definition that starts there, the narrowest one around; 0 for none.
ResolvePosition(d, p) ==
  LET here(s)   == Sym[s].file = p.file
      names     == {s \in d.syms : here(s) /\ Sym[s].line = p.line}
      refs      == {r \in d.refs : Refs[r].file = p.file /\ Refs[r].line = p.line}
      target(r) == IF r = 0 THEN 0 ELSE Refs[r].sym
  IN OrElse(First(OrderBy({s \in names : Sym[s].col = p.col}, LAMBDA s : <<>>)),
     OrElse(target(First(OrderBy({r \in refs : Refs[r].col = p.col}, LAMBDA r : <<>>))),
     OrElse(First(OrderBy(names, LAMBDA s : <<Distance(Sym[s].col, p.col), Sym[s].col>>)),
     OrElse(target(First(OrderBy(refs, LAMBDA r : <<Distance(Refs[r].col, p.col), Refs[r].col>>))),
     OrElse(First(OrderBy({s \in d.syms : here(s) /\ Sym[s].first = p.line /\ Sym[s].left <= p.col /\ p.col <= Sym[s].right},
                        LAMBDA s : <<>>)),
          First(OrderBy({s \in d.syms : here(s) /\ Sym[s].first <= p.line /\ p.line <= Sym[s].last},
                        LAMBDA s : <<Sym[s].last - Sym[s].first, Sym[s].name>>)))))))

Around(d, file, line, Keep(_)) ==
  First(OrderBy({s \in d.syms : Sym[s].file = file /\ Sym[s].first <= line /\ line <= Sym[s].last /\ Keep(s)},
                LAMBDA s : <<Sym[s].last - Sym[s].first, Sym[s].first>>))

\* impact --at and the rows of text search.
FindSymbolAtPosition(d, file, line) == Around(d, file, line, LAMBDA s : TRUE)

Scope(s) == Sym[s].kind \in {"func", "method", "type", "struct", "interface"}
DocReach == 20
FindEnclosingSymbol(d, file, line) ==
  LET around == Around(d, file, line, Scope)
      below  == {s \in d.syms : Scope(s) /\ Sym[s].file = file /\ Sym[s].first \in (line + 1)..(line + DocReach)}
  IN IF around # 0 THEN around ELSE First(OrderBy(below, LAMBDA s : <<Sym[s].first>>))

-----------------------------------------------------------------------------
(* Package patterns.                                                       *)

Packages(d) == {Sym[s].pkg : s \in d.syms}
Shortest(paths) == CHOOSE p \in paths : \A q \in paths : Len(p) < Len(q) \/ (Len(p) = Len(q) /\ ~Before(q, p))

resolveMain(d) == Shortest(Packages(d))
resolveShortName(d, pat) == LET ending == {p \in Packages(d) : EndsIn(p, pat)} IN IF ending = {} THEN pat ELSE Shortest(ending)
\* A pattern of one segment is a short name; dir is the directory of ".".
ResolvePkgPattern(d, pat, dir) ==
  CASE pat = <<Main>> -> IF d.syms = {} THEN pat ELSE resolveMain(d)
    [] pat = <<Dot>>     -> IF d.syms = {} THEN pat ELSE resolveMain(d) \o dir
    [] OTHER            -> IF Len(pat) = 1 THEN resolveShortName(d, pat) ELSE pat
=============================================================================
