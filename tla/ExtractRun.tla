------------------------------ MODULE ExtractRun ------------------------------
(***************************************************************************)
(* The tables that index runs build over a tree that is edited between     *)
(* them: full runs extract everything, incremental ones the files that     *)
(* changed, and rows of the other files stay as they are.                  *)
(***************************************************************************)
EXTENDS Extract

CONSTANTS
  Trees,      \* the trees to start with
  ChunkSizes, \* how many packages are loaded at a time
  MaxEdits    \* bound: edits

VARIABLES
  size,     \* the chunk size
  tree,     \* the content of each file
  stored,   \* the files table: the contents that were indexed
  db,       \* symbols, refs, calls, imports, literals, packages
  lost,     \* history: for each file what was re-minted since it was extracted
  whole,    \* history: the last run that changed anything was a full one
  edits     \* edits so far

vars == <<size, tree, stored, db, lost, whole, edits>>

NoFiles == [f \in Files |-> Absent]
Tables == [symbols |-> {}, refs |-> {}, calls |-> {}, imports |-> {}, literals |-> {}, packages |-> {}]

\* walkGoFiles passes over the excluded directories.
Walked(t) == {f \in Files : t[f] # Absent /\ File[f].pkg \in Listed}
Compiles(t) == \A f \in Built(t) : \A e \in t[f].uses : \E x \in Meaning(t, e.key) : Meaning(t, e.key) = {x}
\* A tree that no run has to look at again.
Current == Compiles(tree) /\ \A f \in Files : File[f].pkg \in Listed => stored[f] = tree[f]

Init == /\ size \in ChunkSizes /\ tree \in Trees
        /\ stored = NoFiles /\ db = Tables
        /\ lost = [f \in Files |-> {}] /\ whole = FALSE /\ edits = 0

Edit(f, c) == /\ edits < MaxEdits /\ c # tree[f]
              /\ tree' = [tree EXCEPT ![f] = c] /\ edits' = edits + 1
              /\ UNCHANGED <<size, stored, db, lost, whole>>

ASSUME TreesAssumption ==
  /\ \A t \in Trees : DOMAIN t = Files /\ \A f \in Files : t[f] \in Contents[f] \cup {Absent}
  /\ ChunkSizes \subseteq Nat \ {0}

-----------------------------------------------------------------------------
Changed == {f \in Walked(tree) : stored[f] # tree[f]}
Deleted == {f \in Files : stored[f] # Absent} \ Walked(tree)
MostlyChanged == LET all == Walked(tree) \cup Deleted IN (Cardinality(Changed \cup Deleted) * 100) \div Cardinality(all) > 50

Links(symbols, only) ==
  [refs  |-> UNION {ExtractRefs(tree, symbols, size, u, only) : u \in Loaded(tree)},
   calls |-> UNION {ExtractCallGraph(tree, symbols, size, u, only) : u \in Loaded(tree)}]
IdsOf(symbols) == {s.id : s \in symbols}

\* The end of a run: what it read is stored, what it re-minted is remembered.
Reminted == {k \in UNION {{Key(f, d) : d \in Decls(stored, f)} : f \in Built(stored)} :
               {generateID(x[1], x[2]) : x \in Meaning(stored, k)} # {generateID(x[1], x[2]) : x \in Meaning(tree, k)}}
Finish == /\ stored' = [f \in Files |-> IF f \in Walked(tree) THEN tree[f] ELSE Absent]
          /\ UNCHANGED <<size, tree, edits>>

FullRun ==
  /\ Compiles(tree) /\ Walked(tree) # {}
  /\ \E symbols \in {ExtractSymbols(tree)} : \E links \in {Links(symbols, Files)} :
       db' = [symbols |-> symbols, refs |-> links.refs, calls |-> links.calls,
              imports |-> ExtractImports(tree, Files), literals |-> ExtractLiterals(tree, Files),
              packages |-> WriteFilePackages(db.packages, tree)]
  /\ lost' = [f \in Files |-> {}] /\ whole' = TRUE
  /\ Finish

\* Rows of the changed and the deleted files are replaced, then references
\* and calls to or from symbols that are gone are swept.
Sweep(links, ids) == [refs |-> {r \in links.refs : r.sym \in ids}, calls |-> {c \in links.calls : {c.from, c.to} \subseteq ids}]
runIncrementalIndex ==
  /\ Compiles(tree) /\ Changed \cup Deleted # {} /\ {f \in Files : stored[f] # Absent} # {} /\ ~MostlyChanged
  /\ \E gone \in {Changed \cup Deleted} : \E all \in {IF Changed = {} THEN {} ELSE ExtractSymbols(tree)} :
     LET Rest(rows) == {r \in rows : r.file \notin gone}
         symbols  == {s \in db.symbols : s.id[1] \notin gone} \cup {s \in all : s.id[1] \in Changed}
         new      == Links(all, Changed)
         links    == Sweep([refs |-> Rest(db.refs) \cup new.refs, calls |-> Rest(db.calls) \cup new.calls], IdsOf(symbols))
     IN db' = [symbols |-> symbols, refs |-> links.refs, calls |-> links.calls,
               imports  |-> Rest(db.imports) \cup ExtractImports(tree, Changed),
               literals |-> Rest(db.literals) \cup ExtractLiterals(tree, Changed),
               packages |-> IF Changed = {} THEN db.packages ELSE WriteFilePackages(db.packages, tree)]
  /\ \E keys \in {Reminted} :
       lost' = [f \in Files |-> IF f \in Changed THEN {} ELSE lost[f] \cup keys]
  /\ whole' = FALSE
  /\ Finish

Next == (\E f \in Files : \E c \in Contents[f] : Edit(f, c)) \/ FullRun \/ runIncrementalIndex

Spec == Init /\ [][Next]_vars

-----------------------------------------------------------------------------
(* What the queries may rely on.                                           *)

\* The rows that the primary keys call one are equal, so that INSERT OR IGNORE
\* drops nothing although each file is walked once for every unit it is in;
\* rows point at symbols; the call of a function has a reference in the same
\* function, on the call's line or below; and after a run each file of the
\* tree has one package, the loader's if the build has the file, and imports
\* and literals are those of the tree.
TablesAgree ==
  LET ids == IdsOf(db.symbols)
      functions == {i \in ids : i[4] = "func"}
  IN /\ \A s, z \in db.symbols : s.id = z.id => s = z
     /\ \A r, z \in db.refs : <<r.file, r.line, r.col, r.ctx>> = <<z.file, z.line, z.col, z.ctx>> => r = z
     /\ \A r \in db.refs : {r.sym} \cup r.enc \subseteq ids
     /\ \A c \in db.calls : /\ {c.from, c.to} \subseteq ids
                            /\ c.to \in functions =>
                                 \E r \in db.refs : r.sym = c.to /\ r.enc = {c.from} /\ r.line >= c.line /\ r.ctx = ""
     /\ Current /\ (\E f \in Files : stored[f] # Absent) =>
          /\ {r \in db.packages : r.file \in Walked(tree)} =
               {[file |-> f, pkg |-> IF f \in Built(tree) THEN PkgPath(f) ELSE <<tree[f].clause, FALSE>>,
                 source |-> IF f \in Built(tree) THEN "loader" ELSE "header"] : f \in Walked(tree)}
          /\ db.imports = ExtractImports(tree, Files) /\ db.literals = ExtractLiterals(tree, Files)

\* All packages are loaded at once.
OneLoad == size >= 2 * Len(Pkgs)
\* What a use in file f should give, and whether its place is sure to be seen:
\* in other chunks only the places of functions are known.
Sighted(f, x) == HasSymbol(x[2]) /\ (IsFunc(x[2]) \/ File[f].pkg = File[x[1]].pkg \/ OneLoad)
Right(f, e, x) == Ref(f, e, generateID(x[1], x[2]), Enclosing(tree, f, e.line), "")
Kept(f, e) == e.key \notin lost[f]

\* After a run every identifier refers to what it means and every static call
\* is an edge, whatever the chunks, and a reference is to what the identifier
\* means, except in a file that has not changed since an ID it used was
\* re-minted; references to types, constants and variables of packages of
\* other chunks are missing.
RefsRight ==
  Current =>
  /\ \A f \in Built(tree) : \A e \in tree[f].uses : \A x \in Meaning(tree, e.key) :
       Sighted(f, x) /\ Kept(f, e) =>
         /\ Right(f, e, x) \in db.refs
         /\ e.at # 0 => \A i \in Enclosing(tree, f, e.line) :
                          [file |-> f, line |-> e.at, from |-> i, to |-> generateID(x[1], x[2])] \in db.calls
  /\ \A r \in {r \in db.refs : r.ctx = ""} :
       \E e \in tree[r.file].uses : <<e.line, e.col>> = <<r.line, r.col>> /\
         (Kept(r.file, e) => \E x \in Meaning(tree, e.key) : r = Right(r.file, e, x))

\* The methods of the interface that x is one of; what a type has of them in
\* some files of its package, the methods of the types it embeds included.
Named(decls) == {<<d.name, d.sig>> : d \in decls}
Interface(t, x) == {d \in Decls(t, x[1]) : d.kind = "imethod" /\ d.of = x[2].of}
Package(t, g) == {h \in Built(t) : PkgPath(h) = PkgPath(g)}
Production(t, g) == {h \in Package(t, g) : ~File[h].test}
Implements(t, type, files, x) ==
  LET decls == UNION {Decls(t, h) : h \in files}
      types == {type} \cup UNION {d.embeds : d \in {d \in decls : d.name = type}}
  IN Named(Interface(t, x)) \subseteq Named({m \in decls : m.kind = "method" /\ m.of \in types})

\* A method d of file g is what x of an interface may come to, and does when
\* called from production code f: with production code alone, and with the
\* tests unless a signature names a type of a package that is tested, which
\* the checker then has twice.
Candidate(t, x, g, d) == d.kind = "method" /\ d.name = x[2].name /\ Implements(t, d.of, Package(t, g), x)
Reaches(t, f, x, g, d) ==
  /\ Candidate(t, x, g, d)
  /\ \/ ~File[g].test /\ Implements(t, d.of, Production(t, g), x)
     \/ PkgPath(g) = PkgPath(f)
     \/ \A i \in Interface(t, x) : \A s \in i.sig : s.pkg[1] # File[g].pkg
\* All packages were loaded at once or the signatures name no types.
SameTypes(t, x) == OneLoad \/ \A i \in Interface(t, x) : i.sig = {}

\* After a full run a call through an interface leads to methods of types that
\* implement it and to no others, and a call in production code to each that
\* Reaches names; all other calls lead to what they name.  (A method that a
\* type inherits counts if the type it is declared for implements the
\* interface.)
DispatchComplete ==
  Current /\ whole =>
    /\ \A c \in db.calls : \E e \in tree[c.file].uses : \E x \in Meaning(tree, e.key) :
         /\ e.at = c.line /\ c.from \in Enclosing(tree, c.file, e.line)
         /\ \/ c.to = generateID(x[1], x[2])
            \/ /\ x[2].kind = "imethod"
               /\ \E g \in Built(tree) : \E d \in Decls(tree, g) : c.to = generateID(g, d) /\ Candidate(tree, x, g, d)
    /\ \A f \in {f \in Built(tree) : ~File[f].test} : \A e \in {e \in tree[f].uses : e.at # 0} :
       \A x \in {x \in Meaning(tree, e.key) : x[2].kind = "imethod" /\ SameTypes(tree, x)} :
       \A i \in Enclosing(tree, f, e.line) : \A g \in Built(tree) : \A d \in Decls(tree, g) :
         Reaches(tree, f, x, g, d) => [file |-> f, line |-> e.at, from |-> i, to |-> generateID(g, d)] \in db.calls

\* "refs from unchanged files may still point at symbols whose defining files
\* were changed, where the symbol no longer exists": if that is all that can be
\* wrong, then a reference that is left is to what its identifier means.
LinksCorrect ==
  Current => \A r \in {r \in db.refs : r.ctx = ""} :
    \E e \in tree[r.file].uses : \E x \in Meaning(tree, e.key) : r = Right(r.file, e, x)
=============================================================================
