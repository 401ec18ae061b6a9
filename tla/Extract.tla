-------------------------------- MODULE Extract --------------------------------
(***************************************************************************)
(* What an index run makes of the source (internal/index): packages are    *)
(* loaded in chunks, each as up to three units, and every extractor walks  *)
(* the files of every unit.                                                *)
(*                                                                         *)
(* A package is a number in the order of the list; its path and that of    *)
(* its external test, <<p, TRUE>>, are two package paths.  A file's        *)
(* content says what it declares and uses; a use names what it means by a  *)
(* key, [pkg, of, name].  A symbol's ID is <<file, line, column, kind>>.   *)
(* Trees compile, and no package that a test imports imports the tested    *)
(* one.  What may happen between the steps of a run is IndexRun's subject. *)
(***************************************************************************)
EXTENDS Naturals, FiniteSets, SequencesExt

CONSTANTS
  Pkgs,       \* packages: the segments of their paths, as go list sorts them
  Excluded,   \* segments of DefaultExclude
  File,       \* files: [pkg, test, ext]
  Contents,   \* for each file, the contents it may have
  Absent      \* no such file

Files == DOMAIN File
PkgPath(f) == <<File[f].pkg, File[f].ext>>
Key(f, d) == [pkg |-> PkgPath(f), of |-> d.of, name |-> d.name]

HasSymbol(d) == d.kind # "imethod"
IsFunc(d) == d.kind \in {"func", "method"}

\* Formatted source: what is declared or used has its own place, not in the
\* first column, and no function begins on a line that another declaration
\* is on or around.
WellFormed(c) ==
  /\ \A d \in c.decls : /\ d.line \in Nat /\ d.last \in Nat /\ d.line <= d.last /\ d.col \in Nat /\ d.col > 1
                        /\ \A e \in c.decls : /\ d.line = e.line /\ d.col = e.col => d = e
                                              /\ IsFunc(d) /\ e.line <= d.line /\ d.line <= e.last => d = e
                        /\ \A t \in d.sig : t = [pkg |-> t.pkg, name |-> t.name]
  /\ \A e \in c.uses : /\ e.line \in Nat /\ e.at \in Nat /\ e.at <= e.line
                       /\ e.key = [pkg |-> e.key.pkg, of |-> e.key.of, name |-> e.key.name]
                       /\ \A u \in c.uses : <<u.line, u.col>> = <<e.line, e.col>> => u = e
  /\ \A o \in c.ops : /\ o.line \in Nat /\ o.ctx # ""
                      /\ \A u \in c.ops : <<u.line, u.col, u.ctx>> = <<o.line, o.col, o.ctx>> => u = o

ASSUME FilesAssumption ==
  /\ Len(Pkgs) \in Nat /\ DOMAIN Pkgs = 1..Len(Pkgs)
  /\ \A f \in Files : /\ File[f].pkg \in DOMAIN Pkgs
                      /\ {File[f].test, File[f].ext} \subseteq BOOLEAN /\ (File[f].ext => File[f].test)
                      /\ \A c \in Contents[f] \ {Absent} : WellFormed(c)

-----------------------------------------------------------------------------
(* Loading.                                                                *)

\* filterPackages: none with an excluded segment.
Listed == {p \in DOMAIN Pkgs : Range(Pkgs[p]) \cap Excluded = {}}

\* The files of a tree that the build includes.
IsBuilt(tree, f) == tree[f] # Absent /\ ~tree[f].tagged /\ File[f].pkg \in Listed
Built(tree) == {f \in Files : IsBuilt(tree, f)}

\* The list is loaded in chunks; it also names the generated test binary of a
\* package with tests, of which nothing is kept.
Chunk(tree, p, size) ==
  LET before == {q \in Listed : q < p}
      tested == {q \in before : \E f \in Files : File[f].pkg = q /\ File[f].test /\ IsBuilt(tree, f)}
  IN (Cardinality(before) + Cardinality(tested)) \div size

\* The package, the package with its own tests, the external test: those that
\* have a file of their own.  The second has the files of the first, too.
Variant(f) == IF File[f].ext THEN "ext" ELSE IF File[f].test THEN "test" ELSE "plain"
FilesOf(tree, p, v) ==
  {f \in Files : File[f].pkg = p /\ IsBuilt(tree, f) /\ (Variant(f) = v \/ (v = "test" /\ Variant(f) = "plain"))}
Loaded(tree) == {<<File[f].pkg, Variant(f)>> : f \in Built(tree)}
Sources(tree, u) == FilesOf(tree, u[1], u[2])

\* The package of a key as the type checker sees it from unit u: the checker
\* of one chunk knows the package itself and the package with its tests as two.
Seen(tree, u, pkg, size) ==
  <<Chunk(tree, u[1], size), pkg,
    IF pkg[1] # u[1] THEN "plain"
    ELSE IF u[2] = "ext" /\ ~pkg[2] THEN IF <<u[1], "test">> \in Loaded(tree) THEN "test" ELSE "plain"
    ELSE u[2]>>

-----------------------------------------------------------------------------
(* Symbols.                                                                *)

generateID(f, d) == <<f, d.line, d.col, d.kind>>

Decls(tree, f) == tree[f].decls
Symbol(f, d) == [id |-> generateID(f, d), name |-> d.name, of |-> d.of, pkg |-> PkgPath(f), first |-> d.line, last |-> d.last]
ExtractSymbols(tree) ==
  UNION {{Symbol(f, d) : d \in {d \in Decls(tree, f) : HasSymbol(d)}} : f \in UNION {Sources(tree, u) : u \in Loaded(tree)}}

\* What a key means: the file and the declaration, no pair if there is none.
Meaning(tree, key) ==
  UNION {{<<f, d>> : d \in {d \in Decls(tree, f) : d.name = key.name /\ d.of = key.of}} :
           f \in {f \in Files : PkgPath(f) = key.pkg /\ IsBuilt(tree, f)}}

\* obj.Pos(): a package of the same chunk was checked from source, the others
\* are known from export data, which has no columns.
DefPos(tree, x, u, size) == <<x[1], x[2].line, IF Chunk(tree, File[x[1]].pkg, size) = Chunk(tree, u[1], size) THEN x[2].col ELSE 1>>

\* SymbolPosIndex: by position, then, in column 1, the first function of the
\* line.  The set is empty or has one ID.
OnLine(symbols, pos) == {i \in {s.id : s \in symbols} : i[1] = pos[1] /\ i[2] = pos[2]}
MutantLookup(symbols, pos) == {i \in OnLine(symbols, pos) : i[3] = pos[3]}
Lookup(symbols, pos) ==
  LET exact == {i \in OnLine(symbols, pos) : i[3] = pos[3]}
      line  == {i \in OnLine(symbols, pos) : i[4] \in {"func", "method"}}
  IN IF exact # {} \/ pos[3] # 1 THEN exact ELSE {i \in line : \A j \in line : i[3] <= j[3]}

\* The function around a line, from its func keyword on; none without a body.
Enclosing(tree, f, line) ==
  {generateID(f, d) : d \in {d \in Decls(tree, f) : IsFunc(d) /\ d.body /\ d.line <= line /\ line <= d.last}}

-----------------------------------------------------------------------------
(* References and calls of the files of unit u that are in only.           *)

Ref(f, e, sym, enc, ctx) == [file |-> f, line |-> e.line, col |-> e.col, sym |-> sym, enc |-> enc, ctx |-> ctx]

\* go statements and channel operations refer to the function around them.
extractConcurrencyRefs(tree, f) ==
  UNION {{Ref(f, o, i, {i}, o.ctx) : i \in Enclosing(tree, f, o.line)} : o \in tree[f].ops}

MutantExtractRefs(tree, symbols, size, u, only) ==
  UNION {extractConcurrencyRefs(tree, f) \cup
         UNION {UNION {{Ref(f, e, i, Enclosing(tree, f, e.line), "") : i \in MutantLookup(symbols, DefPos(tree, x, u, size))} :
                         x \in Meaning(tree, e.key)} : e \in tree[f].uses} :
           f \in Sources(tree, u) \cap only}
ExtractRefs(tree, symbols, size, u, only) ==
  UNION {extractConcurrencyRefs(tree, f) \cup
         UNION {UNION {{Ref(f, e, i, Enclosing(tree, f, e.line), "") : i \in Lookup(symbols, DefPos(tree, x, u, size))} :
                         x \in Meaning(tree, e.key)} : e \in tree[f].uses} :
           f \in Sources(tree, u) \cap only}

\* The methods of an interface, and those of a type and the types it embeds,
\* with the types that a signature names as unit u sees them: types.Implements.
Sig(tree, u, d, size) == <<d.name, {<<Seen(tree, u, t.pkg, size), t.name>> : t \in d.sig}>>
InterfaceSet(tree, u, x, size) ==
  {Sig(tree, u, d, size) : d \in {d \in Decls(tree, x[1]) : d.kind = "imethod" /\ d.of = x[2].of}}
MethodSet(tree, u, type, size) ==
  LET decls == UNION {Decls(tree, f) : f \in Sources(tree, u)}
      types == {type} \cup UNION {d.embeds : d \in {d \in decls : d.name = type}}
  IN {Sig(tree, u, d, size) : d \in {d \in decls : d.kind = "method" /\ d.of \in types}}

\* The former heuristic: packages that the caller's unit imports.
MutantDispatch(tree, size, u, x) ==
  LET near == {u[1]} \cup {i[1] : i \in UNION {tree[f].imports : f \in Sources(tree, u)}}
  IN UNION {UNION {{generateID(f, d) : d \in {d \in Decls(tree, f) : d.kind = "method" /\ d.name = x[2].name}} :
              f \in Sources(tree, v)} : v \in {v \in Loaded(tree) : v[1] \in near}}

\* A call that resolved to an interface's method goes to every method of that
\* name whose receiver implements the interface, in whichever unit.
Dispatch(tree, size, u, x) ==
  UNION {UNION {{generateID(f, d) : d \in {d \in Decls(tree, f) :
                   /\ d.kind = "method" /\ d.name = x[2].name
                   /\ InterfaceSet(tree, u, x, size) \subseteq MethodSet(tree, v, d.of, size)}} :
           f \in Sources(tree, v)} : v \in Loaded(tree)}

\* The callee is an identifier or a selector; calls outside of functions are
\* not recorded.
Callees(tree, symbols, size, u, x) ==
  LET found == Lookup(symbols, DefPos(tree, x, u, size))
  IN IF found # {} THEN found ELSE IF x[2].kind = "imethod" THEN Dispatch(tree, size, u, x) ELSE {}
ExtractCallGraph(tree, symbols, size, u, only) ==
  UNION {UNION {UNION {{[file |-> f, line |-> e.at, from |-> i, to |-> j] :
                          i \in Enclosing(tree, f, e.line), j \in Callees(tree, symbols, size, u, x)} :
                  x \in Meaning(tree, e.key)} : e \in {e \in tree[f].uses : e.at # 0}} :
           f \in Sources(tree, u) \cap only}

-----------------------------------------------------------------------------
(* Imports, literals and the package of a file.                            *)

ExtractImports(tree, only) ==
  UNION {UNION {{[file |-> f, pkg |-> i, by |-> PkgPath(f)] : i \in tree[f].imports} : f \in Sources(tree, u) \cap only} : u \in Loaded(tree)}

\* A literal is indexed as the argument of os.Getenv, as a constant or as a
\* path that looks like a fixture: the first of these that it is.  Its
\* function is the last that covers its line.
LiteralKind(l) == IF l.shape \in {"env", "const"} THEN l.shape ELSE IF l.fixture THEN "fixture" ELSE "none"
Covering(tree, f, line) ==
  LET at == {d \in Decls(tree, f) : IsFunc(d) /\ d.line <= line /\ line <= d.last}
  IN {generateID(f, d) : d \in {d \in at : \A e \in at : <<e.line, e.col>> # <<d.line, d.col>> => e.line < d.line \/ (e.line = d.line /\ e.col < d.col)}}
ExtractLiterals(tree, only) ==
  UNION {UNION {{[file |-> f, line |-> l.line, value |-> l.value, kind |-> LiteralKind(l), enc |-> Covering(tree, f, l.line)] :
                   l \in {l \in tree[f].literals : LiteralKind(l) # "none"}} :
           f \in Sources(tree, u) \cap only} : u \in Loaded(tree)}

\* The loader's row wins; the package clause is all that is known of a file
\* that the build leaves out.
LoaderRows(tree) == UNION {{[file |-> f, pkg |-> PkgPath(f), source |-> "loader"] : f \in Sources(tree, u)} : u \in Loaded(tree)}
HeaderRows(tree) == {[file |-> f, pkg |-> <<tree[f].clause, FALSE>>, source |-> "header"] : f \in {f \in Files : tree[f] # Absent}}
Replaced(rows, new) == {r \in rows : \A n \in new : n.file # r.file} \cup new
Ignored(rows, new) == rows \cup {n \in new : \A r \in rows : r.file # n.file}
NotFrom(rows, source) == {r \in rows : r.source # source}
WriteFilePackages(rows, tree) ==
  Ignored(NotFrom(Replaced(NotFrom(rows, "loader"), LoaderRows(tree)), "header"), HeaderRows(tree))
=============================================================================
