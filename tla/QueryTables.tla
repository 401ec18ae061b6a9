----------------------------- MODULE QueryTables ------------------------------
(***************************************************************************)
(* The statements of internal/query over the tables of one index.          *)
(*                                                                         *)
(* A name, a file and a line are numbers, ordered as SQLite orders them; a *)
(* package is the sequence of the segments of its path.  Rows are numbered *)
(* in the order they were inserted, which is the order SQLite returns rows *)
(* that its ORDER BY leaves equal.  An index d says which of the possible  *)
(* rows it holds; ID and foreign key columns are the numbers themselves.   *)
(***************************************************************************)
EXTENDS Naturals, FiniteSets, SequencesExt, TLC

CONSTANTS
  Sym,        \* symbols: [name, kind, of, ptr, pkg, file, line, col, first, last, left, right]
  Calls,      \* call_graph: [from, to, line]
  Refs,       \* refs: [sym, enc, file, line, col, ctx]
  Imports,    \* imports: [file, pkg, by]
  Lits,       \* string_refs: [value, file, line, enc]
  Exported,   \* names that GLOB '[A-Z]*' matches
  TestName,   \* names of testFuncFilterFor
  TestFile,   \* files that GLOB '*_test.go' matches
  LikeTest,   \* files that LIKE '%_test.go' matches: its _ is any character
  Cached      \* files of the build cache

Syms == DOMAIN Sym
Files == {Sym[s].file : s \in Syms} \cup {Refs[r].file : r \in DOMAIN Refs}

\* The name of a symbol is in its lines, and a reference in the file of the
\* function around it.
ASSUME TablesAssumption ==
  /\ Sym \in Seq([name : Nat, kind : STRING, of : Nat, ptr : BOOLEAN, pkg : Seq(Nat), file : Nat, line : Nat, col : Nat,
                  first : Nat, last : Nat, left : Nat, right : Nat])
  /\ Calls \in Seq([from : Syms, to : Syms, line : Nat])
  /\ Refs \in Seq([sym : Syms, enc : Syms \cup {0}, file : Nat, line : Nat, col : Nat, ctx : STRING])
  /\ Imports \in Seq([file : Nat, pkg : Seq(Nat), by : Seq(Nat)])
  /\ Lits \in Seq([value : Nat, file : Nat, line : Nat, enc : Syms \cup {0}])
  /\ \A s \in Syms : Sym[s].line \in Sym[s].first..Sym[s].last
  /\ \A r \in DOMAIN Refs : Refs[r].enc # 0 => Refs[r].file = Sym[Refs[r].enc].file
  /\ TestFile \subseteq LikeTest

\* refs that are not the go statements and channel operations of a function.
Real(r) == Refs[r].ctx \notin {"go", "chan"}

\* What a run leaves (ExtractRun): no reference and no call to or from a symbol that is
\* gone, and every call of a function with the reference it was extracted
\* with, on the call's line or below.  A call through an interface is an edge
\* to each method that implements it and a reference to none of them.  A go
\* statement and a channel operation refer to the function they are in.  Each
\* identifier, keyword and operator is one row at most.
Spot(row) == <<row.file, row.line, row.col>>
Consistent(d) ==
  /\ \A i, j \in d.syms : Spot(Sym[i]) = Spot(Sym[j]) => i = j
  /\ \A q, r \in d.refs : Spot(Refs[q]) = Spot(Refs[r]) => q = r
  /\ \A r \in d.refs : (Real(r) \/ Refs[r].enc = Refs[r].sym) /\ \A i \in d.syms : Spot(Refs[r]) # Spot(Sym[i])
  /\ \A r \in d.refs : Refs[r].sym \in d.syms /\ Refs[r].enc \in d.syms \cup {0}
  /\ \A c \in d.calls :
       /\ Calls[c].from \in d.syms /\ Calls[c].to \in d.syms
       /\ Sym[Calls[c].to].kind # "method" =>
            \E r \in d.refs : /\ Refs[r].sym = Calls[c].to /\ Refs[r].enc = Calls[c].from
                              /\ Refs[r].line >= Calls[c].line /\ Real(r)
Indexes == {d \in [syms : SUBSET Syms, calls : SUBSET DOMAIN Calls, refs : SUBSET DOMAIN Refs] : Consistent(d)}

-----------------------------------------------------------------------------
(* SQL.                                                                    *)

Before(a, b) == \E i \in 1..Len(a) : a[i] < b[i] /\ \A j \in 1..(i - 1) : a[j] = b[j]

\* The members of S by their keys, all different.
Ordered(S, key) ==
  LET rank == [e \in S |-> Cardinality({x \in S : Before(key[x], key[e])}) + 1]
  IN [i \in 1..Cardinality(S) |-> CHOOSE e \in S : rank[e] = i]
\* ORDER BY a key, rows that are equal under it as inserted.
OrderBy(S, Key(_)) == Ordered(S, [e \in S |-> Append(Key(e), e)])
Inserted(S) == OrderBy(S, LAMBDA i : <<>>)
\* LIMIT and OFFSET.
Least(a, b) == IF a < b THEN a ELSE b
Page(rows, limit, offset) ==
  LET held == IF offset < Len(rows) THEN Len(rows) - offset ELSE 0
  IN [i \in 1..Least(limit, held) |-> rows[offset + i]]
\* The first row of an order, 0 if there is none.
First(rows) == IF rows = <<>> THEN 0 ELSE rows[1]
Column(rows, F(_)) == [i \in DOMAIN rows |-> F(rows[i])]
\* The rows that a test keeps.
Where(rows, Test(_)) == Column(Inserted({k \in DOMAIN rows : Test(rows[k])}), LAMBDA k : rows[k])
\* What is left of a list when repetitions are dropped.
Once(list) == Column(Inserted({k \in DOMAIN list : \A j \in 1..(k - 1) : list[j] # list[k]}), LAMBDA k : list[k])

MethodIDs(d, type) == {s \in d.syms : Sym[s].kind = "method" /\ Sym[s].of = type}
IsType(s) == Sym[s].kind \in {"struct", "type"}

-----------------------------------------------------------------------------
(* References and calls.                                                   *)

FindRefs(d, s) ==
  OrderBy({r \in d.refs : Refs[r].sym = s /\ Real(r)},
          LAMBDA r : <<IF Refs[r].file = Sym[s].file THEN 0 ELSE 1, Refs[r].file, Refs[r].line>>)

GetRefCount(d, s) == Cardinality({r \in d.refs : Refs[r].sym = s /\ Real(r)})

CallSites(d, s) == OrderBy({r \in d.refs : Refs[r].sym = s /\ Real(r)}, LAMBDA r : <<Refs[r].file, Refs[r].line, Refs[r].col>>)

\* CountCallSites: the references outside of files like _test.go.
NonTest(d, s) == {r \in d.refs : Refs[r].sym = s /\ Real(r) /\ Refs[r].file \notin LikeTest}

FindCallers(d, targets) ==
  OrderBy({c \in d.calls : Calls[c].to \in targets}, LAMBDA c : <<Sym[Calls[c].from].file, Calls[c].line>>)
FindCallees(d, sources) ==
  OrderBy({c \in d.calls : Calls[c].from \in sources}, LAMBDA c : <<Calls[c].line>>)
FindCallersForType(d, type) == FindCallers(d, MethodIDs(d, type))
FindCalleesForType(d, type) == FindCallees(d, MethodIDs(d, type))
CountCallers(d, s) == Cardinality({c \in d.calls : Calls[c].to = s})

-----------------------------------------------------------------------------
(* Callers at one and two hops, in code and in tests.                      *)

\* Rows of a two-hop query: the caller, and the edges it was found by.
Hop1(d, targets, kept) == {<<1, Calls[c].from, c, c>> : c \in {c \in d.calls : Calls[c].to \in targets /\ Calls[c].from \in kept}}
Hop2(d, targets, kept) ==
  LET last  == {c \in d.calls : Calls[c].to \in targets}
      first == {c \in d.calls : Calls[c].from \in kept}
  IN {<<2, Calls[e[2]].from, e[1], e[2]>> : e \in {e \in last \X first : Calls[e[2]].to = Calls[e[1]].from}}
Hops(d, targets, direct, kept) ==
  LET near == Hop1(d, targets, kept)
      rows == near \cup (IF direct THEN {} ELSE {h \in Hop2(d, targets, kept) : \A e \in near : e[2] # h[2]})
  IN Ordered(rows, [h \in rows |-> <<h[1], Sym[h[2]].file, Sym[h[2]].name, h[2], h[3], h[4]>>])
Ids(hops) == Column(hops, LAMBDA h : h[2])

InCode(s) == Sym[s].file \notin TestFile
IsTest(s) == Sym[s].file \in TestFile /\ Sym[s].name \in TestName

\* FindImpactCallers lists a caller once per path to it, the variant for the
\* methods of a type and both test queries once.
FindImpactCallers(d, targets, direct) ==
  LET ids == Ids(Hops(d, targets, direct, {s \in d.syms : InCode(s)})) IN IF Cardinality(targets) > 1 THEN Once(ids) ELSE ids
FindTests(d, targets, direct) == Once(Ids(Hops(d, targets, direct, {s \in d.syms : IsTest(s)})))

\* FindImpactRefs: the code that mentions a type.
FindImpactRefs(d, s) ==
  OrderBy({e \in {Refs[r].enc : r \in {r \in d.refs : Refs[r].sym = s}} \ {0, s} : InCode(e)},
          LAMBDA e : <<Sym[e].file, Sym[e].name>>)

-----------------------------------------------------------------------------
(* Types.                                                                  *)

\* FindImplementers, from the method names that the interface's source has:
\* types of a package all of whose methods those names are.
FindImplementers(d, s, names) ==
  LET Has(t, n) == \E m \in MethodIDs(d, Sym[t].name) : Sym[m].pkg = Sym[t].pkg /\ Sym[m].name = n
      Cooccurs(t) == \E r \in d.refs : Refs[r].sym = s /\ Refs[r].file = Sym[t].file
      found == IF names = {} THEN {t \in d.syms : IsType(t) /\ Cooccurs(t)}
               ELSE {t \in d.syms : IsType(t) /\ (\A n \in names : Has(t, n))
                                  /\ ~(Sym[t].name = Sym[s].name /\ Sym[t].pkg = Sym[s].pkg)}
  IN OrderBy(found, LAMBDA t : <<Sym[t].file, Sym[t].name>>)

\* Methods by the name of the type: those of other packages' types too.
GetMethodsForType(d, s) == OrderBy({m \in MethodIDs(d, Sym[s].name) : Sym[m].name \in Exported}, LAMBDA m : <<Sym[m].name>>)

-----------------------------------------------------------------------------
(* Packages and imports.                                                   *)

\* LIKE '%/pat' and LIKE '%pat%', of whole segments.
EndsIn(path, pat) == Len(pat) < Len(path) /\ IsSuffix(pat, path)
Has(path, pat) == \E i \in 0..(Len(path) - Len(pat)) : SubSeq(path, i + 1, i + Len(pat)) = pat

\* Exact, suffix and substring match, the first that returns a row.
Cascade(rows, limit, offset) ==
  LET page == [tier \in 1..3 |-> Page(rows[tier], limit, offset)]
  IN IF page[1] # <<>> THEN page[1] ELSE IF page[2] # <<>> THEN page[2] ELSE page[3]

Matches(tier, path, pat) == CASE tier = 1 -> path = pat [] tier = 2 -> EndsIn(path, pat) [] tier = 3 -> Has(path, pat)

Usage(d, s) == Cardinality({r \in d.refs : Refs[r].sym = s}) + CountCallers(d, s)
Most == Len(Refs) + Len(Calls)

FindPackageSymbolsByUsage(d, pat, limit, offset) ==
  LET rows(tier) == {s \in d.syms : /\ Matches(tier, Sym[s].pkg, pat) /\ Sym[s].name \in Exported
                                    /\ Sym[s].kind # "field" /\ Sym[s].file \notin LikeTest}
  IN Cascade([tier \in 1..3 |-> OrderBy(rows(tier), LAMBDA s : <<Most - Usage(d, s), Sym[s].name>>)], limit, offset)

KindOrder == [interface |-> 1, struct |-> 2, type |-> 3, method |-> 4, func |-> 5, const |-> 6, var |-> 7]
FindPackageSymbols(d, pat, limit, offset) ==
  LET rows(tier) == {s \in d.syms : Matches(tier, Sym[s].pkg, pat) /\ Sym[s].name \in Exported /\ Sym[s].kind # "field"}
  IN Cascade([tier \in 1..3 |-> OrderBy(rows(tier), LAMBDA s : <<KindOrder[Sym[s].kind], Sym[s].name, Sym[s].file, Sym[s].first>>)],
             limit, offset)

\* The symbols of the files that a pattern is part of the path of.
FindSymbolsInFile(d, files) ==
  OrderBy({s \in d.syms : Sym[s].file \in files /\ Sym[s].kind # "field"}, LAMBDA s : <<Sym[s].file, Sym[s].first>>)

\* Importers of a package: rows of imports, by file.
FindImportsByPackage(pat) ==
  OrderBy({i \in DOMAIN Imports : Imports[i].pkg = pat \/ EndsIn(Imports[i].pkg, pat)}, LAMBDA i : <<Imports[i].file>>)

\* Importers of a directory: of its package and of those below it.
FindImportersByDirectory(dir) == OrderBy({i \in DOMAIN Imports : Has(Imports[i].pkg, dir)}, LAMBDA i : <<Imports[i].file>>)

\* Rows of the build cache are dropped from a page that was read.
scanImportRows(page) == Where(page, LAMBDA i : Imports[i].file \notin Cached)
FindImports(file) == OrderBy({i \in DOMAIN Imports : Imports[i].file = file}, LAMBDA i : <<i>>)

\* FindPackageDeps and FindDepGraph for the packages of module mod.
Inside(path, mod) == Len(mod) < Len(path) /\ IsPrefix(mod, path)
Dependents(pkg, mod) == {Imports[i].by : i \in {i \in DOMAIN Imports : Imports[i].pkg = pkg /\ Inside(Imports[i].by, mod)}}
Dependencies(pkg, mod) == {Imports[i].pkg : i \in {i \in DOMAIN Imports : Imports[i].by = pkg /\ Inside(Imports[i].pkg, mod)}}
DepGraph(mod) == {<<Imports[i].by, Imports[i].pkg>> :
                    i \in {i \in DOMAIN Imports : /\ IsPrefix(mod, Imports[i].by) /\ Inside(Imports[i].pkg, mod)
                                                  /\ Imports[i].by # Imports[i].pkg}}

\* The most used exported types and functions of a package; prefixed are the
\* names that GLOB 'Test*' or 'Bench*' match.
TopTypesByRefs(d, path, limit) ==
  Page(OrderBy({s \in d.syms : Sym[s].pkg = path /\ Sym[s].kind \in {"struct", "type", "interface"} /\ Sym[s].name \in Exported},
               LAMBDA s : <<Most - Cardinality({r \in d.refs : Refs[r].sym = s}), Sym[s].name>>), limit, 0)
TopFuncsByCallCount(d, path, limit, prefixed) ==
  Page(OrderBy({s \in d.syms : Sym[s].pkg = path /\ Sym[s].kind \in {"func", "method"} /\ Sym[s].name \in Exported \ prefixed},
               LAMBDA s : <<Most - CountCallers(d, s), Sym[s].name>>), limit, 0)

-----------------------------------------------------------------------------
(* Boundaries, dead code, literals.                                        *)

\* queryDirection: references from packages A to packages B, by symbol.
Crossing(d, A, B) == {r \in d.refs : /\ Refs[r].enc # 0
                                     /\ Sym[Refs[r].enc].pkg \in A /\ Sym[Refs[r].sym].pkg \in B
                                     /\ Sym[Refs[r].enc].pkg # Sym[Refs[r].sym].pkg}
BoundaryCount(d, A, B, s) == Cardinality({r \in Crossing(d, A, B) : Refs[r].sym = s})

\* FindDeadExports.
Counted(d, s, includeTests) == IF includeTests THEN GetRefCount(d, s) ELSE Cardinality(NonTest(d, s))
FindDeadExports(d, includeTests) ==
  {s \in d.syms : /\ Sym[s].name \in Exported /\ Sym[s].kind \in {"func", "method", "type", "const", "var"}
                  /\ Sym[s].file \notin LikeTest /\ Counted(d, s, includeTests) = 0}

FindLiteralRefs(value) ==
  OrderBy({i \in DOMAIN Lits : Lits[i].value = value}, LAMBDA i : <<Lits[i].file, Lits[i].line>>)
=============================================================================
