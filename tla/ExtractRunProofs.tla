-------------------------- MODULE ExtractRunProofs ---------------------------
(***************************************************************************)
(* What the tables of an index are worth, for any packages, contents,      *)
(* chunk sizes and edits: rows that agree with each other, references and  *)
(* calls that are right, and interface calls that reach what implements.   *)
(*                                                                         *)
(* The argument: each run leaves the symbols, imports and literals of the  *)
(* tree that it stored (SymbolsOf, FactsOf, PackagesOf), and the rows of a *)
(* file that it did not extract are those of the last run that did.  Such  *)
(* a reference is to the ID that its identifier meant then, and that is    *)
(* still its meaning unless a run in between re-minted the ID, which lost  *)
(* remembers (RefsOf).  For the last part: a unit of the caller and one of *)
(* the method see the types of the signatures as the same (UnitsThatAgree),*)
(* and the checker tells different types apart (SeenApart).                *)
(***************************************************************************)
EXTENDS ExtractRun, FiniteSetTheorems, TLAPS

\* A tree: what each file contains, if there is one.
TreeOK(t) == DOMAIN t = Files /\ \A f \in Files : t[f] = Absent \/ WellFormed(t[f])

-----------------------------------------------------------------------------
(* Units.                                                                  *)

\* Every file of the build is in a unit, and units have no other files.
LEMMA Units ==
  ASSUME NEW t
  PROVE  /\ \A u \in Loaded(t) : Sources(t, u) \subseteq Built(t) /\ \A f \in Sources(t, u) : File[f].pkg = u[1]
         /\ \A f \in Built(t) : \E u \in Loaded(t) : f \in Sources(t, u)
  <1>1. \A u : Sources(t, u) \subseteq Built(t) /\ \A f \in Sources(t, u) : File[f].pkg = u[1]
    BY DEF Sources, FilesOf, Built
  <1>2. ASSUME NEW f \in Built(t) PROVE \E u \in Loaded(t) : f \in Sources(t, u)
    <2>1. <<File[f].pkg, Variant(f)>> \in Loaded(t)
      BY DEF Loaded
    <2>2. f \in Sources(t, <<File[f].pkg, Variant(f)>>)
      BY DEF Sources, FilesOf, Built
    <2> QED BY <2>1, <2>2
  <1> QED BY <1>1, <1>2

\* The rows of each table, without the units.
LEMMA SymbolRows ==
  ASSUME NEW t, NEW s
  PROVE  s \in ExtractSymbols(t) <=> \E f \in Built(t) : \E d \in Decls(t, f) : HasSymbol(d) /\ s = Symbol(f, d)
  <1>1. UNION {Sources(t, u) : u \in Loaded(t)} = Built(t)
    BY Units
  <1> QED BY <1>1 DEF ExtractSymbols

ImportsOf(t, f) == {[file |-> f, pkg |-> i, by |-> PkgPath(f)] : i \in t[f].imports}
LiteralsOf(t, f) ==
  {[file |-> f, line |-> l.line, value |-> l.value, kind |-> LiteralKind(l), enc |-> Covering(t, f, l.line)] :
     l \in {l \in t[f].literals : LiteralKind(l) # "none"}}

LEMMA ImportRows ==
  ASSUME NEW t, NEW only
  PROVE  ExtractImports(t, only) = UNION {ImportsOf(t, f) : f \in Built(t) \cap only}
  <1>1. ASSUME NEW r PROVE r \in ExtractImports(t, only) <=> \E f \in Built(t) \cap only : r \in ImportsOf(t, f)
    <2>1. r \in ExtractImports(t, only) <=> \E u \in Loaded(t) : \E f \in Sources(t, u) \cap only : r \in ImportsOf(t, f)
      BY DEF ExtractImports, ImportsOf
    <2> QED BY <2>1, Units
  <1> QED BY <1>1

LEMMA LiteralRows ==
  ASSUME NEW t, NEW only
  PROVE  ExtractLiterals(t, only) = UNION {LiteralsOf(t, f) : f \in Built(t) \cap only}
  <1>1. ASSUME NEW r PROVE r \in ExtractLiterals(t, only) <=> \E f \in Built(t) \cap only : r \in LiteralsOf(t, f)
    <2>1. r \in ExtractLiterals(t, only) <=> \E u \in Loaded(t) : \E f \in Sources(t, u) \cap only : r \in LiteralsOf(t, f)
      BY DEF ExtractLiterals, LiteralsOf
    <2> QED BY <2>1, Units
  <1> QED BY <1>1

LEMMA LoaderRow ==
  ASSUME NEW t
  PROVE  LoaderRows(t) = {[file |-> f, pkg |-> PkgPath(f), source |-> "loader"] : f \in Built(t)}
  <1>1. ASSUME NEW r
        PROVE  r \in LoaderRows(t) <=> \E f \in Built(t) : r = [file |-> f, pkg |-> PkgPath(f), source |-> "loader"]
    <2>1. r \in LoaderRows(t) <=>
            \E u \in Loaded(t) : \E f \in Sources(t, u) : r = [file |-> f, pkg |-> PkgPath(f), source |-> "loader"]
      BY DEF LoaderRows
    <2> QED BY <2>1, Units
  <1> QED BY <1>1

-----------------------------------------------------------------------------
(* Positions.                                                              *)

LEMMA MeaningIs ==
  ASSUME NEW t, NEW key, NEW x
  PROVE  x \in Meaning(t, key) <=>
           \E f \in Built(t) : \E d \in Decls(t, f) : PkgPath(f) = key.pkg /\ d.name = key.name /\ d.of = key.of /\ x = <<f, d>>
BY DEF Meaning, Built, Decls

LEMMA DeclOK ==
  ASSUME NEW t, TreeOK(t), NEW f \in Built(t)
  PROVE  f \in Files /\ t[f] # Absent /\ WellFormed(t[f])
BY DEF TreeOK, Built, IsBuilt

LEMMA DeclsOK ==
  ASSUME NEW t, TreeOK(t), NEW f \in Built(t), NEW d \in Decls(t, f), NEW e \in Decls(t, f)
  PROVE  /\ d.line \in Nat /\ d.last \in Nat /\ d.line <= d.last /\ d.col \in Nat /\ d.col > 1
         /\ d.line = e.line /\ d.col = e.col => d = e
         /\ IsFunc(d) /\ e.line <= d.line /\ d.line <= e.last => d = e
  <1>1. WellFormed(t[f]) /\ d \in t[f].decls /\ e \in t[f].decls
    BY DeclOK DEF Decls
  <1> QED BY <1>1 DEF WellFormed

\* The IDs on the line of a declaration.
LEMMA OnLineIs ==
  ASSUME NEW t, NEW g, NEW d, NEW col, NEW i
  PROVE  i \in OnLine(ExtractSymbols(t), <<g, d.line, col>>) <=>
           /\ g \in Built(t)
           /\ \E e \in Decls(t, g) : HasSymbol(e) /\ e.line = d.line /\ i = generateID(g, e)
  <1> DEFINE pos == <<g, d.line, col>>
  <1>1. i \in OnLine(ExtractSymbols(t), pos) <=>
          \E s : s \in ExtractSymbols(t) /\ i = s.id /\ s.id[1] = g /\ s.id[2] = d.line
    BY DEF OnLine
  <1>2. \A f, e : /\ Symbol(f, e).id = generateID(f, e)
                  /\ generateID(f, e)[1] = f /\ generateID(f, e)[2] = e.line
    BY DEF Symbol, generateID
  <1> QED BY <1>1, <1>2, SymbolRows

\* No declaration is taken for another.
LEMMA LookupOnly ==
  ASSUME NEW t, TreeOK(t), NEW g \in Built(t), NEW d \in Decls(t, g), NEW u,
         NEW i \in Lookup(ExtractSymbols(t), DefPos(t, <<g, d>>, u, size))
  PROVE  i = generateID(g, d)
  <1> DEFINE col == DefPos(t, <<g, d>>, u, size)[3]
  <1>1. DefPos(t, <<g, d>>, u, size) = <<g, d.line, col>> /\ col \in {d.col, 1}
    BY DEF DefPos
  <1> HIDE DEF col
  <1>2. /\ i \in OnLine(ExtractSymbols(t), <<g, d.line, col>>)
        /\ i[3] = col \/ i[4] \in {"func", "method"}
    BY <1>1 DEF Lookup
  <1>3. PICK e \in Decls(t, g) : HasSymbol(e) /\ e.line = d.line /\ i = generateID(g, e)
    BY <1>2, OnLineIs
  <1>4. i[3] = e.col /\ i[4] = e.kind
    BY <1>3 DEF generateID
  <1>5. /\ e.col > 1 /\ e.col \in Nat /\ d.line \in Nat /\ d.last \in Nat /\ d.line <= d.last
        /\ d.line = e.line /\ d.col = e.col => d = e
        /\ IsFunc(e) /\ d.line <= e.line /\ e.line <= d.last => e = d
    BY DeclsOK
  <1>6. CASE i[3] = col
    BY <1>1, <1>3, <1>4, <1>5, <1>6
  <1>7. CASE i[4] \in {"func", "method"}
    BY <1>3, <1>4, <1>5, <1>7 DEF IsFunc
  <1> QED BY <1>2, <1>6, <1>7

\* A declaration is found where its column is known, and a function always.
LEMMA LookupFinds ==
  ASSUME NEW t, TreeOK(t), NEW g \in Built(t), NEW d \in Decls(t, g), NEW u, HasSymbol(d),
         IsFunc(d) \/ Chunk(t, File[g].pkg, size) = Chunk(t, u[1], size)
  PROVE  Lookup(ExtractSymbols(t), DefPos(t, <<g, d>>, u, size)) = {generateID(g, d)}
  <1> DEFINE id == generateID(g, d)
             pos == DefPos(t, <<g, d>>, u, size)
             there == OnLine(ExtractSymbols(t), pos)
             exact == {i \in there : i[3] = pos[3]}
             line == {i \in there : i[4] \in {"func", "method"}}
  <1>1. pos = <<g, d.line, pos[3]>> /\ pos[3] \in {d.col, 1} /\ (~IsFunc(d) => pos[3] = d.col)
    BY DEF DefPos
  <1>2. id \in there
    BY <1>1, OnLineIs
  <1>3. id[3] = d.col /\ id[4] = d.kind /\ d.col \in Nat
    BY DeclsOK DEF generateID
  <1>4. Lookup(ExtractSymbols(t), pos) = IF exact # {} \/ pos[3] # 1 THEN exact ELSE {i \in line : \A j \in line : i[3] <= j[3]}
    BY DEF Lookup
  <1>5. id \in Lookup(ExtractSymbols(t), pos)
    <2>1. CASE pos[3] = d.col
      <3>1. id \in exact
        BY <1>2, <1>3, <2>1
      <3> QED BY <3>1, <1>4
    <2>2. CASE pos[3] # d.col
      <3>1. pos[3] = 1 /\ IsFunc(d) /\ id \in line
        BY <1>1, <1>2, <1>3, <2>2 DEF IsFunc
      <3>2. ASSUME NEW j \in line PROVE j = id
        <4>1. PICK e \in Decls(t, g) : HasSymbol(e) /\ e.line = d.line /\ j = generateID(g, e)
          BY <1>1, <3>2, OnLineIs
        <4>2. IsFunc(e)
          BY <4>1, <3>2 DEF generateID, IsFunc
        <4>3. /\ d.line \in Nat /\ d.last \in Nat /\ d.line <= d.last
              /\ IsFunc(e) /\ d.line <= e.line /\ e.line <= d.last => e = d
          BY DeclsOK
        <4> QED BY <4>1, <4>2, <4>3
      <3>3. id[3] <= id[3]
        BY <1>3
      <3>4. id \in {i \in line : \A j \in line : i[3] <= j[3]}
        BY <3>1, <3>2, <3>3
      <3>5. \A i \in exact : FALSE
        <4> SUFFICES ASSUME NEW i \in exact PROVE FALSE
          OBVIOUS
        <4>1. PICK e \in Decls(t, g) : i = generateID(g, e)
          BY <1>1, OnLineIs
        <4>2. i[3] = e.col /\ e.col \in Nat /\ e.col > 1
          BY <4>1, DeclsOK DEF generateID
        <4> QED BY <4>2, <3>1
      <3> QED BY <1>4, <3>1, <3>4, <3>5
    <2> QED BY <2>1, <2>2
  <1> HIDE DEF id, pos
  <1> QED BY <1>5, LookupOnly DEF id, pos

-----------------------------------------------------------------------------
(* What a run extracts from the tree.                                      *)

LEMMA IdIs ==
  ASSUME NEW t, NEW i
  PROVE  i \in IdsOf(ExtractSymbols(t)) <=> \E f \in Built(t) : \E d \in Decls(t, f) : HasSymbol(d) /\ i = generateID(f, d)
  <1>1. \A f, d : Symbol(f, d).id = generateID(f, d)
    BY DEF Symbol
  <1>2. i \in IdsOf(ExtractSymbols(t)) <=> \E s : s \in ExtractSymbols(t) /\ i = s.id
    BY DEF IdsOf
  <1> QED BY <1>1, <1>2, SymbolRows

LEMMA UsesOK ==
  ASSUME NEW t, TreeOK(t), NEW f \in Built(t), NEW e \in t[f].uses
  PROVE  /\ e.line \in Nat /\ e.at \in Nat /\ e.at <= e.line
         /\ e.key = [pkg |-> e.key.pkg, of |-> e.key.of, name |-> e.key.name]
         /\ \A u \in t[f].uses : <<u.line, u.col>> = <<e.line, e.col>> => u = e
  <1>1. WellFormed(t[f])
    BY DeclOK
  <1> QED BY <1>1 DEF WellFormed

LEMMA OpsOK ==
  ASSUME NEW t, TreeOK(t), NEW f \in Built(t), NEW o \in t[f].ops
  PROVE  /\ o.line \in Nat /\ o.ctx # ""
         /\ \A u \in t[f].ops : <<u.line, u.col, u.ctx>> = <<o.line, o.col, o.ctx>> => u = o
  <1>1. WellFormed(t[f])
    BY DeclOK
  <1> QED BY <1>1 DEF WellFormed

\* What is looked up is what is meant.
LEMMA LookupMeaning ==
  ASSUME NEW t, TreeOK(t), NEW key, NEW x \in Meaning(t, key), NEW u,
         NEW i \in Lookup(ExtractSymbols(t), DefPos(t, x, u, size))
  PROVE  i = generateID(x[1], x[2]) /\ i \in IdsOf(ExtractSymbols(t))
  <1>1. PICK g \in Built(t) : \E d \in Decls(t, g) : x = <<g, d>>
    BY MeaningIs
  <1>2. PICK d \in Decls(t, g) : x = <<g, d>>
    BY <1>1
  <1>3. i = generateID(g, d)
    BY <1>2, LookupOnly
  <1>4. i \in IdsOf(ExtractSymbols(t))
    BY DEF Lookup, OnLine, IdsOf
  <1> QED BY <1>2, <1>3, <1>4

\* With room for every package there is one chunk.
SizeOK == size \in Nat \ {0}
LEMMA OneChunk ==
  ASSUME NEW t, NEW p \in Listed, SizeOK, OneLoad
  PROVE  Chunk(t, p, size) = 0
  <1> DEFINE before == {q \in Listed : q < p}
             tested == {q \in before : \E f \in Files : File[f].pkg = q /\ File[f].test /\ IsBuilt(t, f)}
             n == Len(Pkgs)
  <1>1. n \in Nat /\ p \in 1..n /\ Listed \subseteq 1..n
    BY FilesAssumption DEF Listed
  <1>2. before \subseteq 1..(p - 1) /\ tested \subseteq before
    BY <1>1
  <1> HIDE DEF before, tested, n
  <1>3. IsFiniteSet(1..(p - 1)) /\ Cardinality(1..(p - 1)) = p - 1
    BY <1>1, FS_Interval
  <1>4. /\ IsFiniteSet(before) /\ Cardinality(before) \in Nat /\ Cardinality(before) <= p - 1
        /\ IsFiniteSet(tested) /\ Cardinality(tested) \in Nat /\ Cardinality(tested) <= Cardinality(before)
    BY <1>2, <1>3, FS_Subset, FS_CardinalityType
  <1>5. DEFINE total == Cardinality(before) + Cardinality(tested)
  <1>6. total \in Nat /\ total < size /\ size \in Nat \ {0}
    BY <1>1, <1>4 DEF SizeOK, OneLoad, n
  <1> HIDE DEF total
  <1>7. total \div size = 0
    BY <1>6
  <1> QED BY <1>7 DEF Chunk, total, before, tested

\* A line is in one function at most, and that is a symbol.
LEMMA EnclosingOne ==
  ASSUME NEW t, TreeOK(t), NEW f \in Built(t), NEW line \in Nat,
         NEW i \in Enclosing(t, f, line)
  PROVE  i \in IdsOf(ExtractSymbols(t)) /\ Enclosing(t, f, line) = {i}
  <1>1. PICK d \in Decls(t, f) : IsFunc(d) /\ d.line <= line /\ line <= d.last /\ i = generateID(f, d)
    BY DEF Enclosing
  <1>2. i \in IdsOf(ExtractSymbols(t))
    <2>1. HasSymbol(d)
      BY <1>1 DEF IsFunc, HasSymbol
    <2> QED BY <1>1, <2>1, IdIs
  <1>3. ASSUME NEW j \in Enclosing(t, f, line) PROVE j = i
    <2>1. PICK e \in Decls(t, f) : IsFunc(e) /\ e.line <= line /\ line <= e.last /\ j = generateID(f, e)
      BY DEF Enclosing
    <2>2. /\ d.line \in Nat /\ d.last \in Nat /\ e.line \in Nat /\ e.last \in Nat
          /\ e.line <= d.line /\ d.line <= e.last => d = e
          /\ d.line <= e.line /\ e.line <= d.last => d = e
      BY <1>1, <2>1, DeclsOK
    <2>3. d = e
      BY <1>1, <2>1, <2>2
    <2> QED BY <1>1, <2>1, <2>3
  <1> QED BY <1>2, <1>3

\* The rows of the table of references that a file may have in a tree: those
\* of its uses and those of its operations.
UseRef(t, f, e, x) == Ref(f, e, generateID(x[1], x[2]), Enclosing(t, f, e.line), "")
OfUse(t, f, r) == \E e \in t[f].uses : \E x \in Meaning(t, e.key) : r = UseRef(t, f, e, x)
OfOp(t, f, r) == \E o \in t[f].ops : \E i \in Enclosing(t, f, o.line) : r = Ref(f, o, i, {i}, o.ctx)

LEMMA RowOf ==
  ASSUME NEW t, TreeOK(t), NEW f \in Built(t), NEW r
  PROVE  /\ OfUse(t, f, r) => r.file = f /\ r.ctx = ""
         /\ OfOp(t, f, r) => r.file = f /\ r.ctx # ""
  <1>1. ASSUME OfUse(t, f, r) PROVE r.file = f /\ r.ctx = ""
    <2>1. \E e \in t[f].uses : \E x : r = UseRef(t, f, e, x)
      BY <1>1 DEF OfUse
    <2>2. PICK e, x : r = UseRef(t, f, e, x)
      BY <2>1
    <2> QED BY <2>2 DEF UseRef, Ref
  <1>2. ASSUME OfOp(t, f, r) PROVE r.file = f /\ r.ctx # ""
    <2>1. PICK o \in t[f].ops : r.file = f /\ r.ctx = o.ctx
      BY <1>2 DEF OfOp, Ref
    <2>2. o.ctx # ""
      BY OpsOK
    <2> QED BY <2>1, <2>2
  <1> QED BY <1>1, <1>2

\* A reference of an identifier that unit u found among the symbols.
Found(t, symbols, u, f, r) ==
  \E e \in t[f].uses : \E x \in Meaning(t, e.key) : \E i \in Lookup(symbols, DefPos(t, x, u, size)) :
    r = Ref(f, e, i, Enclosing(t, f, e.line), "")

LEMMA ExtractRefsIs ==
  ASSUME NEW t, NEW symbols, NEW u, NEW only, NEW r
  PROVE  r \in ExtractRefs(t, symbols, size, u, only) <=>
           \E f \in Sources(t, u) \cap only : r \in extractConcurrencyRefs(t, f) \/ Found(t, symbols, u, f, r)
  <1> DEFINE OfKey(f, e, x) == {Ref(f, e, i, Enclosing(t, f, e.line), "") : i \in Lookup(symbols, DefPos(t, x, u, size))}
             Of(f, e) == UNION {OfKey(f, e, x) : x \in Meaning(t, e.key)}
             All(f) == UNION {Of(f, e) : e \in t[f].uses}
             Rows(f) == extractConcurrencyRefs(t, f) \cup All(f)
  <1>1. \A f, e, x : r \in OfKey(f, e, x) <=> \E i \in Lookup(symbols, DefPos(t, x, u, size)) : r = Ref(f, e, i, Enclosing(t, f, e.line), "")
    OBVIOUS
  <1>2. ExtractRefs(t, symbols, size, u, only) = UNION {Rows(f) : f \in Sources(t, u) \cap only}
    BY DEF ExtractRefs
  <1> HIDE DEF OfKey
  <1>3. \A f, e : r \in Of(f, e) <=> \E x \in Meaning(t, e.key) : r \in OfKey(f, e, x)
    OBVIOUS
  <1> HIDE DEF Of
  <1>4. \A f : r \in Rows(f) <=> r \in extractConcurrencyRefs(t, f) \/ \E e \in t[f].uses : r \in Of(f, e)
    OBVIOUS
  <1> HIDE DEF Rows
  <1>5. r \in ExtractRefs(t, symbols, size, u, only) <=> \E f \in Sources(t, u) \cap only : r \in Rows(f)
    BY <1>2
  <1>6. \A f, e : r \in Of(f, e) <=>
          \E x \in Meaning(t, e.key) : \E i \in Lookup(symbols, DefPos(t, x, u, size)) : r = Ref(f, e, i, Enclosing(t, f, e.line), "")
    BY <1>1, <1>3
  <1>7. \A f : r \in Rows(f) <=> r \in extractConcurrencyRefs(t, f) \/ Found(t, symbols, u, f, r)
    BY <1>4, <1>6 DEF Found
  <1> QED BY <1>5, <1>7

LEMMA RefsOnly ==
  ASSUME TreeOK(tree), NEW only, NEW r \in Links(ExtractSymbols(tree), only).refs
  PROVE  \E f \in Built(tree) \cap only : /\ OfUse(tree, f, r) \/ OfOp(tree, f, r)
                                          /\ r.sym \in IdsOf(ExtractSymbols(tree))
  <1> DEFINE symbols == ExtractSymbols(tree)
  <1>1. PICK u \in Loaded(tree) : r \in ExtractRefs(tree, symbols, size, u, only)
    BY DEF Links
  <1>2. PICK f \in Sources(tree, u) \cap only : r \in extractConcurrencyRefs(tree, f) \/ Found(tree, symbols, u, f, r)
    BY <1>1, ExtractRefsIs
  <1>3. f \in Built(tree) \cap only
    BY Units
  <1>4. CASE r \in extractConcurrencyRefs(tree, f)
    <2>1. PICK o \in tree[f].ops : \E i \in Enclosing(tree, f, o.line) : r = Ref(f, o, i, {i}, o.ctx)
      BY <1>4 DEF extractConcurrencyRefs
    <2>i. PICK i \in Enclosing(tree, f, o.line) : r = Ref(f, o, i, {i}, o.ctx)
      BY <2>1
    <2>2. r.sym = i
      BY <2>i DEF Ref
    <2>3. i \in IdsOf(symbols)
      BY <1>3, OpsOK, EnclosingOne
    <2> QED BY <1>3, <2>1, <2>2, <2>3 DEF OfOp
  <1>5. ASSUME NEW e \in tree[f].uses, NEW x \in Meaning(tree, e.key),
               NEW i \in Lookup(symbols, DefPos(tree, x, u, size)),
               r = Ref(f, e, i, Enclosing(tree, f, e.line), "")
        PROVE  OfUse(tree, f, r) /\ r.sym \in IdsOf(symbols)
    <2>1. i = generateID(x[1], x[2]) /\ i \in IdsOf(symbols)
      BY LookupMeaning
    <2>2. r.sym = i
      BY <1>5 DEF Ref
    <2> QED BY <1>5, <2>1, <2>2 DEF OfUse, UseRef
  <1> QED BY <1>2, <1>3, <1>4, <1>5 DEF Found

\* Uses of the files of a unit whose declaration the unit's chunk knows, and
\* uses of functions, have their reference.
LEMMA RefsAll ==
  ASSUME TreeOK(tree), SizeOK, NEW only, NEW f \in Built(tree) \cap only, NEW e \in tree[f].uses,
         NEW x \in Meaning(tree, e.key), Sighted(f, x)
  PROVE  /\ UseRef(tree, f, e, x) \in Links(ExtractSymbols(tree), only).refs
         /\ e.at # 0 => \A i \in Enclosing(tree, f, e.line) :
              [file |-> f, line |-> e.at, from |-> i, to |-> generateID(x[1], x[2])] \in Links(ExtractSymbols(tree), only).calls
  <1> DEFINE symbols == ExtractSymbols(tree)
             id == generateID(x[1], x[2])
  <1>1. PICK u \in Loaded(tree) : f \in Sources(tree, u)
    BY Units
  <1>g. PICK g \in Built(tree) : \E d \in Decls(tree, g) : x = <<g, d>>
    BY MeaningIs
  <1>2. PICK d \in Decls(tree, g) : x = <<g, d>>
    BY <1>g
  <1>3. IsFunc(d) \/ Chunk(tree, File[g].pkg, size) = Chunk(tree, u[1], size)
    <2>1. File[f].pkg = u[1]
      BY <1>1, Units
    <2>2. OneLoad => Chunk(tree, File[g].pkg, size) = 0 /\ Chunk(tree, u[1], size) = 0
      BY <2>1, OneChunk DEF Built, IsBuilt
    <2> QED BY <1>2, <2>1, <2>2 DEF Sighted
  <1>4. Lookup(symbols, DefPos(tree, x, u, size)) = {id}
    BY <1>2, <1>3, LookupFinds DEF Sighted
  <1> HIDE DEF id
  <1>5. UseRef(tree, f, e, x) \in ExtractRefs(tree, symbols, size, u, only)
    <2>1. UseRef(tree, f, e, x) = Ref(f, e, id, Enclosing(tree, f, e.line), "")
      BY DEF UseRef, id
    <2>2. \E i \in Lookup(symbols, DefPos(tree, x, u, size)) : UseRef(tree, f, e, x) = Ref(f, e, i, Enclosing(tree, f, e.line), "")
      BY <1>4, <2>1
    <2>3. Found(tree, symbols, u, f, UseRef(tree, f, e, x))
      BY <2>2 DEF Found
    <2>4. f \in Sources(tree, u) \cap only
      BY <1>1
    <2> QED BY <2>3, <2>4, ExtractRefsIs
  <1>6. ASSUME e.at # 0, NEW i \in Enclosing(tree, f, e.line)
        PROVE  [file |-> f, line |-> e.at, from |-> i, to |-> id] \in ExtractCallGraph(tree, symbols, size, u, only)
    <2>1. id \in Callees(tree, symbols, size, u, x)
      BY <1>4 DEF Callees
    <2> QED BY <1>1, <1>6, <2>1 DEF ExtractCallGraph
  <1> QED BY <1>1, <1>5, <1>6 DEF Links, id

LEMMA CallsOnly ==
  ASSUME TreeOK(tree), NEW only, NEW c \in Links(ExtractSymbols(tree), only).calls
  PROVE  /\ c.file \in Built(tree) \cap only
         /\ {c.from, c.to} \subseteq IdsOf(ExtractSymbols(tree))
         /\ c.to[4] = "func" => \E r \in Links(ExtractSymbols(tree), only).refs :
              r.file = c.file /\ r.sym = c.to /\ r.enc = {c.from} /\ r.line >= c.line /\ r.ctx = ""
  <1> DEFINE symbols == ExtractSymbols(tree)
  <1>1. PICK u \in Loaded(tree) : c \in ExtractCallGraph(tree, symbols, size, u, only)
    BY DEF Links
  <1>f. PICK f \in Sources(tree, u) \cap only : \E e \in tree[f].uses : \E x \in Meaning(tree, e.key) :
          \E i \in Enclosing(tree, f, e.line), j \in Callees(tree, symbols, size, u, x) :
            c = [file |-> f, line |-> e.at, from |-> i, to |-> j]
    BY <1>1 DEF ExtractCallGraph
  <1>e. PICK e \in tree[f].uses : \E x \in Meaning(tree, e.key) :
          \E i \in Enclosing(tree, f, e.line), j \in Callees(tree, symbols, size, u, x) :
            c = [file |-> f, line |-> e.at, from |-> i, to |-> j]
    BY <1>f
  <1>x. PICK x \in Meaning(tree, e.key) :
          \E i \in Enclosing(tree, f, e.line), j \in Callees(tree, symbols, size, u, x) :
            c = [file |-> f, line |-> e.at, from |-> i, to |-> j]
    BY <1>e
  <1>2. PICK i \in Enclosing(tree, f, e.line), j \in Callees(tree, symbols, size, u, x) :
          c = [file |-> f, line |-> e.at, from |-> i, to |-> j]
    BY <1>x
  <1>3. f \in Built(tree) \cap only
    BY Units
  <1>4. i \in IdsOf(symbols) /\ Enclosing(tree, f, e.line) = {i}
    <2>1. e.line \in Nat
      BY <1>3, UsesOK
    <2> QED BY <1>3, <2>1, EnclosingOne
  <1>5. CASE j \in Lookup(symbols, DefPos(tree, x, u, size))
    <2>1. j \in IdsOf(symbols)
      BY <1>5, LookupMeaning
    <2> DEFINE r == Ref(f, e, j, Enclosing(tree, f, e.line), "")
    <2>2. r \in ExtractRefs(tree, symbols, size, u, only)
      BY <1>2, <1>5, ExtractRefsIs DEF Found
    <2>3. r \in Links(symbols, only).refs
      BY <2>2 DEF Links
    <2>4. r.file = f /\ r.sym = j /\ r.enc = {i} /\ r.line = e.line /\ r.ctx = ""
      BY <1>4 DEF Ref
    <2>5. e.line >= e.at
      BY <1>3, UsesOK
    <2> HIDE DEF r
    <2> QED BY <1>2, <1>3, <1>4, <2>1, <2>3, <2>4, <2>5
  <1>6. CASE j \in Dispatch(tree, size, u, x)
    <2>v. PICK v \in Loaded(tree) : \E g \in Sources(tree, v) : \E d \in Decls(tree, g) : d.kind = "method" /\ j = generateID(g, d)
      BY <1>6 DEF Dispatch
    <2>g. PICK g \in Sources(tree, v) : \E d \in Decls(tree, g) : d.kind = "method" /\ j = generateID(g, d)
      BY <2>v
    <2>1. PICK d \in Decls(tree, g) : d.kind = "method" /\ j = generateID(g, d)
      BY <2>g
    <2>2. g \in Built(tree)
      BY Units
    <2>3. j[4] = "method" /\ HasSymbol(d)
      BY <2>1 DEF generateID, HasSymbol
    <2>4. j \in IdsOf(symbols)
      BY <2>1, <2>2, <2>3, IdIs
    <2> QED BY <1>2, <1>3, <1>4, <2>3, <2>4
  <1> QED BY <1>5, <1>6 DEF Callees

\* No two of the rows that a run extracts are of one place.
LEMMA RefsUnique ==
  ASSUME TreeOK(tree), Compiles(tree), NEW only,
         NEW r \in Links(ExtractSymbols(tree), only).refs, NEW z \in Links(ExtractSymbols(tree), only).refs,
         <<r.file, r.line, r.col, r.ctx>> = <<z.file, z.line, z.col, z.ctx>>
  PROVE  r = z
  <1>1. PICK f \in Built(tree) : OfUse(tree, f, r) \/ OfOp(tree, f, r)
    BY RefsOnly
  <1>2. PICK g \in Built(tree) : OfUse(tree, g, z) \/ OfOp(tree, g, z)
    BY RefsOnly
  <1>3. f = g
    <2>1. r.file = f /\ z.file = g
      BY <1>1, <1>2, RowOf
    <2> QED BY <2>1
  <1>4. CASE OfUse(tree, f, r) /\ OfUse(tree, f, z)
    <2>e. PICK e \in tree[f].uses : \E x \in Meaning(tree, e.key) : r = UseRef(tree, f, e, x)
      BY <1>4 DEF OfUse
    <2>1. PICK x \in Meaning(tree, e.key) : r = UseRef(tree, f, e, x)
      BY <2>e
    <2>v. PICK v \in tree[f].uses : \E y \in Meaning(tree, v.key) : z = UseRef(tree, f, v, y)
      BY <1>4 DEF OfUse
    <2>2. PICK y \in Meaning(tree, v.key) : z = UseRef(tree, f, v, y)
      BY <2>v
    <2>3. r.line = e.line /\ r.col = e.col /\ z.line = v.line /\ z.col = v.col
      BY <2>1, <2>2 DEF UseRef, Ref
    <2>4. v = e
      BY <2>3, UsesOK
    <2>5. x = y
      BY <2>1, <2>2, <2>4 DEF Compiles
    <2> QED BY <2>1, <2>2, <2>4, <2>5
  <1>5. CASE OfOp(tree, f, r) /\ OfOp(tree, f, z)
    <2>o. PICK o \in tree[f].ops : \E i \in Enclosing(tree, f, o.line) : r = Ref(f, o, i, {i}, o.ctx)
      BY <1>5 DEF OfOp
    <2>1. PICK i \in Enclosing(tree, f, o.line) : r = Ref(f, o, i, {i}, o.ctx)
      BY <2>o
    <2>v. PICK v \in tree[f].ops : \E j \in Enclosing(tree, f, v.line) : z = Ref(f, v, j, {j}, v.ctx)
      BY <1>5 DEF OfOp
    <2>2. PICK j \in Enclosing(tree, f, v.line) : z = Ref(f, v, j, {j}, v.ctx)
      BY <2>v
    <2>3. r.line = o.line /\ r.col = o.col /\ r.ctx = o.ctx /\ z.line = v.line /\ z.col = v.col /\ z.ctx = v.ctx
      BY <2>1, <2>2 DEF Ref
    <2>4. v = o /\ o.line \in Nat
      BY <2>3, OpsOK
    <2>5. i = j
      BY <2>4, EnclosingOne
    <2> QED BY <2>1, <2>2, <2>4, <2>5
  <1>6. r.ctx = z.ctx
    OBVIOUS
  <1> QED BY <1>1, <1>2, <1>3, <1>4, <1>5, <1>6, RowOf

-----------------------------------------------------------------------------
(* The invariant: what the tables say of the tree that a run stored.       *)

\* Two trees that differ only in what no run looks at.
SameBuild(t, s) == \A f \in Files : File[f].pkg \in Listed => t[f] = s[f]

TypeOK == /\ SizeOK /\ TreeOK(tree) /\ TreeOK(stored) /\ Compiles(stored)
          /\ \A f \in Files : stored[f] # Absent => File[f].pkg \in Listed

SymbolsOf(t, d) == d.symbols = ExtractSymbols(t)
FactsOf(t, d) == d.imports = ExtractImports(t, Files) /\ d.literals = ExtractLiterals(t, Files)

PackageRow(t, f) ==
  [file |-> f, pkg |-> IF f \in Built(t) THEN PkgPath(f) ELSE <<t[f].clause, FALSE>>,
   source |-> IF f \in Built(t) THEN "loader" ELSE "header"]
PackagesOf(t, d) ==
  /\ \A r \in d.packages : r.source \in {"loader", "header"}
  /\ {r \in d.packages : r.file \in Walked(t)} = {PackageRow(t, f) : f \in Walked(t)}

\* A reference was right when its file was extracted, and is right if what
\* its identifier means was not re-minted since.
OfOldUse(t, l, f, r) ==
  /\ r.ctx = ""
  /\ \E e \in t[f].uses : /\ r.line = e.line /\ r.col = e.col /\ r.enc = Enclosing(t, f, e.line)
                          /\ e.key \notin l[f] => \E x \in Meaning(t, e.key) : r = UseRef(t, f, e, x)
RefsOf(t, d, l) ==
  /\ \A r, z \in d.refs : <<r.file, r.line, r.col, r.ctx>> = <<z.file, z.line, z.col, z.ctx>> => r = z
  /\ \A r \in d.refs : /\ r.file \in Built(t)
                       /\ OfOldUse(t, l, r.file, r) \/ OfOp(t, r.file, r)
                       /\ r.sym \in IdsOf(ExtractSymbols(t))

\* A call of a function has a reference in its own file, so that the two stay
\* and go together.
CallsOf(t, d) ==
  \A c \in d.calls :
    /\ c.file \in Built(t)
    /\ {c.from, c.to} \subseteq IdsOf(ExtractSymbols(t))
    /\ c.to[4] = "func" => \E r \in d.refs : r.file = c.file /\ r.sym = c.to /\ r.enc = {c.from} /\ r.line >= c.line /\ r.ctx = ""

Edge(f, e, i, x) == [file |-> f, line |-> e.at, from |-> i, to |-> generateID(x[1], x[2])]
AllOf(t, d, l) ==
  \A f \in Built(t) : \A e \in t[f].uses : \A x \in Meaning(t, e.key) :
    Sighted(f, x) /\ e.key \notin l[f] =>
      /\ UseRef(t, f, e, x) \in d.refs
      /\ e.at # 0 => \A i \in Enclosing(t, f, e.line) : Edge(f, e, i, x) \in d.calls

IInv == /\ TypeOK
        /\ SymbolsOf(stored, db) /\ FactsOf(stored, db) /\ PackagesOf(stored, db)
        /\ RefsOf(stored, db, lost) /\ CallsOf(stored, db) /\ AllOf(stored, db, lost)

-----------------------------------------------------------------------------
(* Trees alike.                                                            *)

LEMMA FileAlike ==
  ASSUME NEW t, NEW s, NEW f, t[f] = s[f]
  PROVE  /\ Decls(t, f) = Decls(s, f)
         /\ \A line : Enclosing(t, f, line) = Enclosing(s, f, line)
         /\ ImportsOf(t, f) = ImportsOf(s, f)
         /\ LiteralsOf(t, f) = LiteralsOf(s, f)
         /\ \A e, x : UseRef(t, f, e, x) = UseRef(s, f, e, x)
         /\ \A r : OfOp(t, f, r) <=> OfOp(s, f, r)
  <1>1. Decls(t, f) = Decls(s, f)
    BY DEF Decls
  <1>2. ASSUME NEW line PROVE Enclosing(t, f, line) = Enclosing(s, f, line)
    BY <1>1 DEF Enclosing
  <1>3. ASSUME NEW line PROVE Covering(t, f, line) = Covering(s, f, line)
    BY <1>1 DEF Covering
  <1>4. ImportsOf(t, f) = ImportsOf(s, f)
    BY DEF ImportsOf
  <1>5. LiteralsOf(t, f) = LiteralsOf(s, f)
    BY <1>3 DEF LiteralsOf
  <1>6. ASSUME NEW e, NEW x PROVE UseRef(t, f, e, x) = UseRef(s, f, e, x)
    BY <1>2 DEF UseRef
  <1>7. ASSUME NEW r PROVE OfOp(t, f, r) <=> OfOp(s, f, r)
    BY <1>2 DEF OfOp
  <1> QED BY <1>1, <1>2, <1>4, <1>5, <1>6, <1>7

LEMMA TreesAlike ==
  ASSUME NEW t, NEW s, SameBuild(t, s)
  PROVE  /\ Built(t) = Built(s) /\ Walked(t) = Walked(s)
         /\ \A f \in Walked(t) : t[f] = s[f]
         /\ \A f \in Built(t) : t[f] = s[f]
         /\ \A key : Meaning(t, key) = Meaning(s, key)
         /\ ExtractSymbols(t) = ExtractSymbols(s)
         /\ ExtractImports(t, Files) = ExtractImports(s, Files)
         /\ ExtractLiterals(t, Files) = ExtractLiterals(s, Files)
         /\ Compiles(t) <=> Compiles(s)
  <1>1. Built(t) = Built(s) /\ \A f \in Built(t) : t[f] = s[f] /\ Decls(t, f) = Decls(s, f)
    BY DEF SameBuild, Built, IsBuilt, Decls
  <1>2. Walked(t) = Walked(s) /\ \A f \in Walked(t) : t[f] = s[f]
    BY DEF SameBuild, Walked
  <1>3. ASSUME NEW key PROVE Meaning(t, key) = Meaning(s, key)
    <2>1. \A x : x \in Meaning(t, key) <=> x \in Meaning(s, key)
      BY <1>1, MeaningIs
    <2> QED BY <2>1
  <1>4. ExtractSymbols(t) = ExtractSymbols(s)
    <2>1. \A x : x \in ExtractSymbols(t) <=> x \in ExtractSymbols(s)
      BY <1>1, SymbolRows
    <2> QED BY <2>1
  <1>5. ExtractImports(t, Files) = ExtractImports(s, Files)
    <2>1. \A f \in Built(t) \cap Files : ImportsOf(t, f) = ImportsOf(s, f)
      BY <1>1, FileAlike
    <2> QED BY <1>1, <2>1, ImportRows
  <1>6. ExtractLiterals(t, Files) = ExtractLiterals(s, Files)
    <2>1. \A f \in Built(t) \cap Files : LiteralsOf(t, f) = LiteralsOf(s, f)
      BY <1>1, FileAlike
    <2> QED BY <1>1, <2>1, LiteralRows
  <1>7. Compiles(t) <=> Compiles(s)
    BY <1>1, <1>3 DEF Compiles
  <1> QED BY <1>1, <1>2, <1>3, <1>4, <1>5, <1>6, <1>7

\* What the tables say of a tree they say of one that is built alike.
LEMMA Transfer ==
  ASSUME NEW t, NEW s, SameBuild(t, s), NEW d, NEW l
  PROVE  /\ SymbolsOf(t, d) => SymbolsOf(s, d)
         /\ FactsOf(t, d) => FactsOf(s, d)
         /\ PackagesOf(t, d) => PackagesOf(s, d)
         /\ RefsOf(t, d, l) => RefsOf(s, d, l)
         /\ CallsOf(t, d) => CallsOf(s, d)
         /\ AllOf(t, d, l) => AllOf(s, d, l)
  <1>1. SymbolsOf(t, d) => SymbolsOf(s, d)
    BY TreesAlike DEF SymbolsOf
  <1>2. FactsOf(t, d) => FactsOf(s, d)
    BY TreesAlike DEF FactsOf
  <1>3. PackagesOf(t, d) => PackagesOf(s, d)
    <2>1. \A f \in Walked(t) : PackageRow(t, f) = PackageRow(s, f)
      BY TreesAlike DEF PackageRow
    <2>2. Walked(t) = Walked(s)
      BY TreesAlike
    <2>3. {PackageRow(t, f) : f \in Walked(t)} = {PackageRow(s, f) : f \in Walked(s)}
      BY <2>1, <2>2
    <2> QED BY <2>2, <2>3 DEF PackagesOf
  <1>4. RefsOf(t, d, l) => RefsOf(s, d, l)
    <2>1. SUFFICES ASSUME RefsOf(t, d, l), NEW r \in d.refs
                   PROVE  /\ r.file \in Built(s)
                          /\ OfOldUse(s, l, r.file, r) \/ OfOp(s, r.file, r)
                          /\ r.sym \in IdsOf(ExtractSymbols(s))
      BY DEF RefsOf
    <2>2. r.file \in Built(t) /\ (OfOldUse(t, l, r.file, r) \/ OfOp(t, r.file, r)) /\ r.sym \in IdsOf(ExtractSymbols(t))
      BY <2>1 DEF RefsOf
    <2>3. t[r.file] = s[r.file] /\ r.file \in Built(s) /\ r.sym \in IdsOf(ExtractSymbols(s))
      BY <2>2, TreesAlike
    <2>4. OfOldUse(t, l, r.file, r) => OfOldUse(s, l, r.file, r)
      <3>1. SUFFICES ASSUME OfOldUse(t, l, r.file, r) PROVE OfOldUse(s, l, r.file, r)
        OBVIOUS
      <3>2. PICK e \in t[r.file].uses :
              /\ r.ctx = "" /\ r.line = e.line /\ r.col = e.col /\ r.enc = Enclosing(t, r.file, e.line)
              /\ e.key \notin l[r.file] => \E x \in Meaning(t, e.key) : r = UseRef(t, r.file, e, x)
        BY <3>1, Zenon DEF OfOldUse
      <3>3. Meaning(t, e.key) = Meaning(s, e.key)
        BY TreesAlike
      <3>4. Enclosing(t, r.file, e.line) = Enclosing(s, r.file, e.line) /\ \A x : UseRef(t, r.file, e, x) = UseRef(s, r.file, e, x)
        BY <2>3, FileAlike
      <3> QED BY <2>3, <3>2, <3>3, <3>4 DEF OfOldUse
    <2>5. OfOp(t, r.file, r) => OfOp(s, r.file, r)
      BY <2>3, FileAlike
    <2> QED BY <2>2, <2>3, <2>4, <2>5
  <1>5. CallsOf(t, d) => CallsOf(s, d)
    <2>1. Built(t) = Built(s) /\ IdsOf(ExtractSymbols(t)) = IdsOf(ExtractSymbols(s))
      BY TreesAlike
    <2> QED BY <2>1 DEF CallsOf
  <1>6. AllOf(t, d, l) => AllOf(s, d, l)
    <2>1. SUFFICES ASSUME AllOf(t, d, l), NEW f \in Built(s), NEW e \in s[f].uses, NEW x \in Meaning(s, e.key),
                          Sighted(f, x), e.key \notin l[f]
                   PROVE  /\ UseRef(s, f, e, x) \in d.refs
                          /\ e.at # 0 => \A i \in Enclosing(s, f, e.line) : Edge(f, e, i, x) \in d.calls
      BY DEF AllOf
    <2>2. f \in Built(t) /\ t[f] = s[f] /\ x \in Meaning(t, e.key)
      BY TreesAlike
    <2>3. /\ UseRef(t, f, e, x) \in d.refs
          /\ e.at # 0 => \A i \in Enclosing(t, f, e.line) : Edge(f, e, i, x) \in d.calls
      BY <2>1, <2>2 DEF AllOf
    <2> QED BY <2>2, <2>3, FileAlike
  <1> QED BY <1>1, <1>2, <1>3, <1>4, <1>5, <1>6

\* A run stores the tree, without what it did not look at.
LEMMA Finished ==
  ASSUME TypeOK, Compiles(tree), Finish
  PROVE  TypeOK' /\ SameBuild(tree, stored') /\ Walked(stored') = Walked(tree)
  <1>1. /\ DOMAIN stored' = Files
        /\ \A f \in Files : stored'[f] = IF f \in Walked(tree) THEN tree[f] ELSE Absent
    BY DEF Finish
  <1>2. SameBuild(tree, stored')
    BY <1>1 DEF SameBuild, Walked
  <1>3. TreeOK(stored') /\ \A f \in Files : stored'[f] # Absent => File[f].pkg \in Listed
    BY <1>1 DEF TypeOK, TreeOK, Walked
  <1>4. Compiles(stored') /\ Walked(stored') = Walked(tree)
    BY <1>2, TreesAlike
  <1>5. TreeOK(tree') /\ SizeOK'
    BY DEF TypeOK, Finish, SizeOK
  <1> QED BY <1>2, <1>3, <1>4, <1>5 DEF TypeOK

-----------------------------------------------------------------------------
(* A full run.                                                             *)

LEMMA WrittenPackages ==
  ASSUME TreeOK(tree), NEW rows, \A r \in rows : r.source \in {"loader", "header"}, NEW d,
         d.packages = WriteFilePackages(rows, tree)
  PROVE  PackagesOf(tree, d)
  <1> DEFINE loader(f) == [file |-> f, pkg |-> PkgPath(f), source |-> "loader"]
             header(f) == [file |-> f, pkg |-> <<tree[f].clause, FALSE>>, source |-> "header"]
             kept == NotFrom(Replaced(NotFrom(rows, "loader"), LoaderRows(tree)), "header")
             there == {f \in Files : tree[f] # Absent}
  <1>1. LoaderRows(tree) = {loader(f) : f \in Built(tree)}
    BY LoaderRow
  <1>2. \A f : /\ loader(f).file = f /\ loader(f).source = "loader"
               /\ header(f).file = f /\ header(f).source = "header"
    OBVIOUS
  <1>3. kept = {loader(f) : f \in Built(tree)}
    <2>1. \A r \in kept : r \in LoaderRows(tree)
      BY DEF NotFrom, Replaced
    <2>2. \A r \in LoaderRows(tree) : r \in kept
      BY <1>1, <1>2 DEF NotFrom, Replaced
    <2> QED BY <1>1, <2>1, <2>2
  <1>4. HeaderRows(tree) = {header(f) : f \in there}
    BY DEF HeaderRows
  <1>5. d.packages = kept \cup {n \in HeaderRows(tree) : \A r \in kept : r.file # n.file}
    BY DEF WriteFilePackages, Ignored
  <1>6. Built(tree) \subseteq Walked(tree) /\ Walked(tree) \subseteq there
    BY DEF Built, IsBuilt, Walked
  <1>7. \A f : PackageRow(tree, f) = IF f \in Built(tree) THEN loader(f) ELSE header(f)
    BY DEF PackageRow
  <1> HIDE DEF loader, header, kept, there
  <1>8. ASSUME NEW r
        PROVE  r \in d.packages <=> \E f \in there : r = IF f \in Built(tree) THEN loader(f) ELSE header(f)
    BY <1>2, <1>3, <1>4, <1>5, <1>6
  <1>9. \A r \in d.packages : r.source \in {"loader", "header"}
    BY <1>2, <1>8
  <1>10. \A r : r \in d.packages /\ r.file \in Walked(tree) <=> \E f \in Walked(tree) : r = PackageRow(tree, f)
    BY <1>2, <1>6, <1>7, <1>8
  <1>11. {r \in d.packages : r.file \in Walked(tree)} = {PackageRow(tree, f) : f \in Walked(tree)}
    BY <1>10
  <1> QED BY <1>9, <1>11 DEF PackagesOf

\* The rows of a run that extracted the files of only, for a new history l.
LEMMA NewLinks ==
  ASSUME TypeOK, Compiles(tree), NEW only, NEW l
  PROVE  /\ \A r \in Links(ExtractSymbols(tree), only).refs :
              /\ r.file \in Built(tree) \cap only
              /\ OfOldUse(tree, l, r.file, r) \/ OfOp(tree, r.file, r)
              /\ r.sym \in IdsOf(ExtractSymbols(tree))
         /\ \A f \in Built(tree) \cap only : \A e \in tree[f].uses : \A x \in Meaning(tree, e.key) : Sighted(f, x) =>
              /\ UseRef(tree, f, e, x) \in Links(ExtractSymbols(tree), only).refs
              /\ e.at # 0 => \A i \in Enclosing(tree, f, e.line) : Edge(f, e, i, x) \in Links(ExtractSymbols(tree), only).calls
  <1>1. TreeOK(tree) /\ SizeOK
    BY DEF TypeOK
  <1>2. ASSUME NEW r \in Links(ExtractSymbols(tree), only).refs
        PROVE  /\ r.file \in Built(tree) \cap only
               /\ OfOldUse(tree, l, r.file, r) \/ OfOp(tree, r.file, r)
               /\ r.sym \in IdsOf(ExtractSymbols(tree))
    <2>1. PICK f \in Built(tree) \cap only : /\ OfUse(tree, f, r) \/ OfOp(tree, f, r)
                                             /\ r.sym \in IdsOf(ExtractSymbols(tree))
      BY <1>1, RefsOnly
    <2>2. r.file = f
      <3>1. f \in Built(tree)
        BY <2>1
      <3>2. (OfUse(tree, f, r) => r.file = f) /\ (OfOp(tree, f, r) => r.file = f)
        BY <1>1, <3>1, RowOf
      <3> QED BY <2>1, <3>2
    <2>3. ASSUME OfUse(tree, f, r) PROVE OfOldUse(tree, l, f, r)
      <3>1. PICK e \in tree[f].uses : \E x \in Meaning(tree, e.key) : r = UseRef(tree, f, e, x)
        BY <2>3 DEF OfUse
      <3>x. PICK x : r = UseRef(tree, f, e, x)
        BY <3>1
      <3>2. r.line = e.line /\ r.col = e.col /\ r.enc = Enclosing(tree, f, e.line) /\ r.ctx = ""
        BY <3>x DEF UseRef, Ref
      <3> QED BY <3>1, <3>2 DEF OfOldUse
    <2> QED BY <2>1, <2>2, <2>3
  <1>3. ASSUME NEW f \in Built(tree) \cap only, NEW e \in tree[f].uses, NEW x \in Meaning(tree, e.key), Sighted(f, x)
        PROVE  /\ UseRef(tree, f, e, x) \in Links(ExtractSymbols(tree), only).refs
               /\ e.at # 0 => \A i \in Enclosing(tree, f, e.line) : Edge(f, e, i, x) \in Links(ExtractSymbols(tree), only).calls
    BY <1>1, <1>3, RefsAll DEF Edge
  <1> QED BY <1>2, <1>3

LEMMA FullRunStep ==
  ASSUME IInv, FullRun
  PROVE  IInv'
  <1> DEFINE symbols == ExtractSymbols(tree)
             links == Links(symbols, Files)
  <1>1. /\ db'.symbols = symbols /\ db'.refs = links.refs /\ db'.calls = links.calls
        /\ db'.imports = ExtractImports(tree, Files) /\ db'.literals = ExtractLiterals(tree, Files)
        /\ db'.packages = WriteFilePackages(db.packages, tree)
    BY DEF FullRun
  <1>2. TypeOK /\ Compiles(tree) /\ Finish /\ TreeOK(tree) /\ Built(tree) \subseteq Files
    BY DEF FullRun, IInv, TypeOK, Built
  <1> HIDE DEF links
  <1>3. SymbolsOf(tree, db') /\ FactsOf(tree, db')
    BY <1>1 DEF SymbolsOf, FactsOf
  <1>4. PackagesOf(tree, db')
    <2>1. \A r \in db.packages : r.source \in {"loader", "header"}
      BY DEF IInv, PackagesOf
    <2> QED BY <1>1, <1>2, <2>1, WrittenPackages
  <1>5. RefsOf(tree, db', lost')
    <2>1. \A r, z \in links.refs : <<r.file, r.line, r.col, r.ctx>> = <<z.file, z.line, z.col, z.ctx>> => r = z
      BY <1>2, RefsUnique DEF links
    <2>2. \A r \in links.refs : /\ r.file \in Built(tree)
                                /\ OfOldUse(tree, lost', r.file, r) \/ OfOp(tree, r.file, r)
                                /\ r.sym \in IdsOf(ExtractSymbols(tree))
      BY <1>2, NewLinks DEF links
    <2>3. db'.refs = links.refs
      BY <1>1
    <2>4. \A r, z \in db'.refs : <<r.file, r.line, r.col, r.ctx>> = <<z.file, z.line, z.col, z.ctx>> => r = z
      BY <2>1, <2>3
    <2>5. \A r \in db'.refs : /\ r.file \in Built(tree)
                              /\ OfOldUse(tree, lost', r.file, r) \/ OfOp(tree, r.file, r)
                              /\ r.sym \in IdsOf(ExtractSymbols(tree))
      BY <2>2, <2>3
    <2> QED BY <2>4, <2>5, Zenon DEF RefsOf
  <1>6. CallsOf(tree, db')
    <2>1. ASSUME NEW c \in links.calls
          PROVE  /\ c.file \in Built(tree)
                 /\ {c.from, c.to} \subseteq IdsOf(ExtractSymbols(tree))
                 /\ c.to[4] = "func" => \E r \in links.refs : r.file = c.file /\ r.sym = c.to /\ r.enc = {c.from} /\ r.line >= c.line /\ r.ctx = ""
      BY <1>2, CallsOnly DEF links
    <2>2. db'.refs = links.refs /\ db'.calls = links.calls
      BY <1>1
    <2> QED BY <2>1, <2>2 DEF CallsOf
  <1>7. AllOf(tree, db', lost')
    <2>1. \A f \in Built(tree) \cap Files : \A e \in tree[f].uses : \A x \in Meaning(tree, e.key) : Sighted(f, x) =>
            /\ UseRef(tree, f, e, x) \in links.refs
            /\ e.at # 0 => \A i \in Enclosing(tree, f, e.line) : Edge(f, e, i, x) \in links.calls
      BY <1>2, NewLinks DEF links
    <2> QED BY <1>1, <1>2, <2>1 DEF AllOf
  <1>8. TypeOK' /\ SameBuild(tree, stored')
    BY <1>2, Finished
  <1>9. size' = size
    BY <1>2 DEF Finish
  <1>10. /\ SymbolsOf(stored', db') /\ FactsOf(stored', db') /\ PackagesOf(stored', db')
         /\ RefsOf(stored', db', lost') /\ CallsOf(stored', db') /\ AllOf(stored', db', lost')
    BY <1>3, <1>4, <1>5, <1>6, <1>7, <1>8, Transfer
  <1>11. SymbolsOf(stored, db)' /\ FactsOf(stored, db)' /\ PackagesOf(stored, db)' /\ RefsOf(stored, db, lost)' /\ CallsOf(stored, db)'
    BY <1>10 DEF SymbolsOf, FactsOf, PackagesOf, RefsOf, CallsOf, OfOldUse, OfOp, UseRef
  <1>12. AllOf(stored, db, lost)'
    BY <1>9, <1>10 DEF AllOf, Sighted, OneLoad
  <1> QED BY <1>8, <1>11, <1>12 DEF IInv

-----------------------------------------------------------------------------
(* An incremental run.                                                     *)

Gone == Changed \cup Deleted
After == ExtractSymbols(tree)
New == Links(After, Changed)

\* A file of which the run keeps the rows is as it was.
LEMMA Untouched ==
  ASSUME TypeOK
  PROVE  /\ \A f \in Files \ Gone : f \in Built(tree) \/ f \in Built(stored) =>
              f \in Built(tree) /\ f \in Built(stored) /\ stored[f] = tree[f]
         /\ \A f \in Built(tree) : f \in Gone => f \in Changed
BY DEF Gone, Changed, Deleted, Walked, Built, IsBuilt

LEMMA NoLinks ==
  ASSUME NEW symbols
  PROVE  Links(symbols, {}).refs = {} /\ Links(symbols, {}).calls = {}
  <1>1. \A u : ExtractRefs(tree, symbols, size, u, {}) = {}
    BY DEF ExtractRefs
  <1>2. \A u : ExtractCallGraph(tree, symbols, size, u, {}) = {}
    BY DEF ExtractCallGraph
  <1> QED BY <1>1, <1>2 DEF Links

LEMMA IncrementalIs ==
  ASSUME TypeOK, SymbolsOf(stored, db), runIncrementalIndex
  PROVE  /\ db'.symbols = After
         /\ db'.refs = {r \in {r \in db.refs : r.file \notin Gone} \cup New.refs : r.sym \in IdsOf(After)}
         /\ db'.calls = {c \in {c \in db.calls : c.file \notin Gone} \cup New.calls : {c.from, c.to} \subseteq IdsOf(After)}
         /\ db'.imports = {r \in db.imports : r.file \notin Gone} \cup ExtractImports(tree, Changed)
         /\ db'.literals = {r \in db.literals : r.file \notin Gone} \cup ExtractLiterals(tree, Changed)
         /\ db'.packages = IF Changed = {} THEN db.packages ELSE WriteFilePackages(db.packages, tree)
         /\ lost' = [f \in Files |-> IF f \in Changed THEN {} ELSE lost[f] \cup Reminted]
         /\ Compiles(tree) /\ Finish
  <1> DEFINE all == IF Changed = {} THEN {} ELSE ExtractSymbols(tree)
             symbols == {s \in db.symbols : s.id[1] \notin Gone} \cup {s \in all : s.id[1] \in Changed}
             new == Links(all, Changed)
             refs == {r \in {r \in db.refs : r.file \notin Gone} \cup new.refs : r.sym \in IdsOf(symbols)}
             calls == {c \in {c \in db.calls : c.file \notin Gone} \cup new.calls : {c.from, c.to} \subseteq IdsOf(symbols)}
  <1>1. db' = [symbols |-> symbols, refs |-> refs, calls |-> calls,
               imports  |-> {r \in db.imports : r.file \notin Gone} \cup ExtractImports(tree, Changed),
               literals |-> {r \in db.literals : r.file \notin Gone} \cup ExtractLiterals(tree, Changed),
               packages |-> IF Changed = {} THEN db.packages ELSE WriteFilePackages(db.packages, tree)]
    BY ZenonT(200) DEF runIncrementalIndex, Sweep, Gone
  <1>2. symbols = After
    <2>1. \A f, d : Symbol(f, d).id[1] = f
      BY DEF Symbol, generateID
    <2>2. symbols = {s \in ExtractSymbols(stored) : s.id[1] \notin Gone} \cup {s \in After : s.id[1] \in Changed}
      BY DEF SymbolsOf, After
    <2> HIDE DEF symbols
    <2>3. ASSUME NEW f \in Files, f \notin Gone, NEW s
          PROVE  /\ f \in Built(stored) /\ (\E d \in Decls(stored, f) : HasSymbol(d) /\ s = Symbol(f, d)) => s \in After
                 /\ f \in Built(tree) /\ (\E d \in Decls(tree, f) : HasSymbol(d) /\ s = Symbol(f, d)) => s \in ExtractSymbols(stored)
      <3>1. f \in Built(tree) \/ f \in Built(stored) => f \in Built(tree) /\ f \in Built(stored) /\ Decls(tree, f) = Decls(stored, f)
        BY <2>3, Untouched DEF Decls
      <3> QED BY <3>1, SymbolRows DEF After
    <2>4. \A s : /\ s \in ExtractSymbols(stored) <=> \E f \in Built(stored) : \E d \in Decls(stored, f) : HasSymbol(d) /\ s = Symbol(f, d)
                 /\ s \in After <=> \E f \in Built(tree) : \E d \in Decls(tree, f) : HasSymbol(d) /\ s = Symbol(f, d)
      BY SymbolRows DEF After
    <2>5. Built(stored) \subseteq Files /\ Built(tree) \subseteq Files
      BY DEF Built
    <2>6. ASSUME NEW s \in ExtractSymbols(stored), s.id[1] \notin Gone PROVE s \in After
      BY <2>1, <2>3, <2>4, <2>5, <2>6
    <2>7. ASSUME NEW s \in After PROVE s.id[1] \in Changed \/ (s \in ExtractSymbols(stored) /\ s.id[1] \notin Gone)
      <3>1. PICK f \in Built(tree) : \E d \in Decls(tree, f) : HasSymbol(d) /\ s = Symbol(f, d)
        BY <2>4
      <3>2. s.id[1] = f /\ f \in Files
        BY <2>1, <2>5, <3>1
      <3>3. f \in Gone => f \in Changed
        BY <3>1, Untouched
      <3> QED BY <2>3, <3>1, <3>2, <3>3
    <2> QED BY <2>2, <2>6, <2>7
  <1>3. new.refs = New.refs /\ new.calls = New.calls
    <2>1. CASE Changed = {}
      BY <2>1, NoLinks DEF New
    <2>2. CASE Changed # {}
      BY <2>2 DEF New, After
    <2> QED BY <2>1, <2>2
  <1>4. refs = {r \in {r \in db.refs : r.file \notin Gone} \cup New.refs : r.sym \in IdsOf(After)}
        /\ calls = {c \in {c \in db.calls : c.file \notin Gone} \cup New.calls : {c.from, c.to} \subseteq IdsOf(After)}
    <2> HIDE DEF symbols, new
    <2> QED BY <1>2, <1>3
  <1>5. lost' = [f \in Files |-> IF f \in Changed THEN {} ELSE lost[f] \cup Reminted] /\ Compiles(tree) /\ Finish
    BY DEF runIncrementalIndex
  <1> HIDE DEF refs, calls, symbols
  <1> QED BY <1>1, <1>2, <1>4, <1>5

\* A key that was not re-minted means a declaration with the same ID.
LEMMA NotReminted ==
  ASSUME NEW key, key = [pkg |-> key.pkg, of |-> key.of, name |-> key.name], key \notin Reminted,
         NEW x \in Meaning(stored, key)
  PROVE  {generateID(y[1], y[2]) : y \in Meaning(stored, key)} = {generateID(y[1], y[2]) : y \in Meaning(tree, key)}
  <1>1. PICK g \in Built(stored) : \E d \in Decls(stored, g) : PkgPath(g) = key.pkg /\ d.name = key.name /\ d.of = key.of
    BY MeaningIs
  <1>2. PICK d \in Decls(stored, g) : PkgPath(g) = key.pkg /\ d.name = key.name /\ d.of = key.of
    BY <1>1
  <1>3. Key(g, d) = key
    BY <1>2 DEF Key
  <1>4. key \in UNION {{Key(f, e) : e \in Decls(stored, f)} : f \in Built(stored)}
    BY <1>3
  <1> QED BY <1>4 DEF Reminted

LEMMA IncrementalStep ==
  ASSUME IInv, runIncrementalIndex
  PROVE  IInv'
  <1>1. /\ TypeOK /\ SymbolsOf(stored, db) /\ FactsOf(stored, db) /\ PackagesOf(stored, db)
        /\ RefsOf(stored, db, lost) /\ CallsOf(stored, db) /\ AllOf(stored, db, lost)
    BY DEF IInv
  <1> DEFINE ids == IdsOf(After)
             oldrefs == {r \in db.refs : r.file \notin Gone}
             oldcalls == {c \in db.calls : c.file \notin Gone}
  <1>2. /\ db'.symbols = After
        /\ db'.refs = {r \in oldrefs \cup New.refs : r.sym \in ids}
        /\ db'.calls = {c \in oldcalls \cup New.calls : {c.from, c.to} \subseteq ids}
        /\ db'.imports = {r \in db.imports : r.file \notin Gone} \cup ExtractImports(tree, Changed)
        /\ db'.literals = {r \in db.literals : r.file \notin Gone} \cup ExtractLiterals(tree, Changed)
        /\ db'.packages = IF Changed = {} THEN db.packages ELSE WriteFilePackages(db.packages, tree)
    BY <1>1, IncrementalIs
  <1>3. lost' = [f \in Files |-> IF f \in Changed THEN {} ELSE lost[f] \cup Reminted]
    BY <1>1, IncrementalIs
  <1>4. Compiles(tree) /\ Finish /\ TreeOK(tree) /\ SizeOK /\ Built(tree) \subseteq Files /\ Built(stored) \subseteq Files
    BY <1>1, IncrementalIs DEF TypeOK, Built
  <1>5. TypeOK' /\ SameBuild(tree, stored') /\ size' = size
    BY <1>1, <1>4, Finished DEF Finish
  <1>6. SymbolsOf(tree, db')
    BY <1>2 DEF SymbolsOf, After
  <1>7. FactsOf(tree, db')
    <2>1. \A t, f : /\ \A r \in ImportsOf(t, f) : r.file = f
                    /\ \A r \in LiteralsOf(t, f) : r.file = f
      BY DEF ImportsOf, LiteralsOf
    <2>2. ASSUME NEW f \in Files, f \notin Gone
          PROVE  /\ f \in Built(tree) <=> f \in Built(stored)
                 /\ f \in Built(tree) => ImportsOf(tree, f) = ImportsOf(stored, f) /\ LiteralsOf(tree, f) = LiteralsOf(stored, f)
      BY <1>1, <2>2, Untouched, FileAlike
    <2>3. Changed \subseteq Files /\ \A f \in Built(tree) : f \in Gone => f \in Changed
      BY <1>1, Untouched DEF Changed, Walked
    <2>4. db'.imports = ExtractImports(tree, Files)
      <3>1. db.imports = UNION {ImportsOf(stored, f) : f \in Built(stored) \cap Files}
        BY <1>1, ImportRows DEF FactsOf
      <3>2. ExtractImports(tree, Changed) = UNION {ImportsOf(tree, f) : f \in Built(tree) \cap Changed}
        BY ImportRows
      <3>3. ExtractImports(tree, Files) = UNION {ImportsOf(tree, f) : f \in Built(tree) \cap Files}
        BY ImportRows
      <3>4. ASSUME NEW r PROVE r \in db'.imports <=> r \in ExtractImports(tree, Files)
        BY <1>2, <1>4, <2>1, <2>2, <2>3, <3>1, <3>2, <3>3
      <3> QED BY <3>4
    <2>5. db'.literals = ExtractLiterals(tree, Files)
      <3>1. db.literals = UNION {LiteralsOf(stored, f) : f \in Built(stored) \cap Files}
        BY <1>1, LiteralRows DEF FactsOf
      <3>2. ExtractLiterals(tree, Changed) = UNION {LiteralsOf(tree, f) : f \in Built(tree) \cap Changed}
        BY LiteralRows
      <3>3. ExtractLiterals(tree, Files) = UNION {LiteralsOf(tree, f) : f \in Built(tree) \cap Files}
        BY LiteralRows
      <3>4. ASSUME NEW r PROVE r \in db'.literals <=> r \in ExtractLiterals(tree, Files)
        BY <1>2, <1>4, <2>1, <2>2, <2>3, <3>1, <3>2, <3>3
      <3> QED BY <3>4
    <2> QED BY <2>4, <2>5 DEF FactsOf
  <1>8. PackagesOf(tree, db')
    <2>1. CASE Changed # {}
      <3>1. \A r \in db.packages : r.source \in {"loader", "header"}
        BY <1>1 DEF PackagesOf
      <3>2. db'.packages = WriteFilePackages(db.packages, tree)
        BY <1>2, <2>1
      <3> QED BY <1>4, <3>1, <3>2, WrittenPackages
    <2>2. CASE Changed = {}
      <3>1. Walked(tree) \subseteq Walked(stored)
        <4>1. \A f \in Walked(tree) : stored[f] = tree[f]
          BY <2>2 DEF Changed
        <4> QED BY <4>1 DEF Walked
      <3>2. ASSUME NEW f \in Walked(tree) PROVE PackageRow(tree, f) = PackageRow(stored, f)
        <4>1. tree[f] = stored[f] /\ f \in Files
          BY <2>2 DEF Changed, Walked
        <4>2. f \in Built(tree) <=> f \in Built(stored)
          BY <4>1 DEF Built, IsBuilt
        <4> QED BY <4>1, <4>2 DEF PackageRow
      <3>3. \A t, f : PackageRow(t, f).file = f
        BY DEF PackageRow
      <3>4. {r \in db.packages : r.file \in Walked(stored)} = {PackageRow(stored, f) : f \in Walked(stored)}
        BY <1>1 DEF PackagesOf
      <3>5. {r \in db.packages : r.file \in Walked(tree)} = {PackageRow(tree, f) : f \in Walked(tree)}
        <4>1. ASSUME NEW r PROVE r \in db.packages /\ r.file \in Walked(tree) <=> \E f \in Walked(tree) : r = PackageRow(tree, f)
          BY <3>1, <3>2, <3>3, <3>4
        <4> QED BY <4>1
      <3> QED BY <1>1, <1>2, <2>2, <3>5 DEF PackagesOf
    <2> QED BY <2>1, <2>2
  \* The references.
  <1>9. \A r \in New.refs : /\ r.file \in Built(tree) \cap Changed
                            /\ OfOldUse(tree, lost', r.file, r) \/ OfOp(tree, r.file, r)
    BY <1>1, <1>4, NewLinks DEF New, After
  <1>10. ASSUME NEW r \in oldrefs
         PROVE  /\ r.file \in Built(tree) /\ r.file \notin Changed /\ stored[r.file] = tree[r.file]
                /\ r.sym \in ids => OfOldUse(tree, lost', r.file, r) \/ OfOp(tree, r.file, r)
    <2>1. r \in db.refs /\ r.file \in Built(stored) /\ r.file \in Files /\ r.file \notin Gone
      BY <1>1, <1>4 DEF RefsOf
    <2>2. r.file \in Built(tree) /\ r.file \notin Changed /\ stored[r.file] = tree[r.file]
      BY <1>1, <2>1, Untouched DEF Gone
    <2>3. lost'[r.file] = lost[r.file] \cup Reminted
      BY <1>3, <2>1, <2>2
    <2>4. CASE OfOp(stored, r.file, r)
      BY <2>2, <2>4, FileAlike
    <2>5. CASE OfOldUse(stored, lost, r.file, r)
      <3>1. PICK e \in stored[r.file].uses :
              /\ r.ctx = "" /\ r.line = e.line /\ r.col = e.col /\ r.enc = Enclosing(stored, r.file, e.line)
              /\ e.key \notin lost[r.file] => \E x \in Meaning(stored, e.key) : r = UseRef(stored, r.file, e, x)
        BY <2>5, Zenon DEF OfOldUse
      <3>2. ASSUME e.key \notin lost'[r.file] PROVE \E x \in Meaning(tree, e.key) : r = UseRef(tree, r.file, e, x)
        <4>1. e.key \notin lost[r.file] /\ e.key \notin Reminted
          BY <2>3, <3>2
        <4>2. PICK x \in Meaning(stored, e.key) : r = UseRef(stored, r.file, e, x)
          BY <3>1, <4>1
        <4>3. TreeOK(stored)
          BY <1>1 DEF TypeOK
        <4>4. e.key = [pkg |-> e.key.pkg, of |-> e.key.of, name |-> e.key.name]
          BY <2>1, <4>3, UsesOK
        <4>5. {generateID(y[1], y[2]) : y \in Meaning(stored, e.key)} = {generateID(y[1], y[2]) : y \in Meaning(tree, e.key)}
          BY <4>1, <4>4, NotReminted
        <4>6. PICK y \in Meaning(tree, e.key) : generateID(y[1], y[2]) = generateID(x[1], x[2])
          BY <4>5
        <4>7. UseRef(tree, r.file, e, y) = UseRef(stored, r.file, e, x)
          <5>1. Enclosing(tree, r.file, e.line) = Enclosing(stored, r.file, e.line)
            BY <2>2, FileAlike
          <5> QED BY <4>6, <5>1 DEF UseRef
        <4> QED BY <4>2, <4>7
      <3>3. e \in tree[r.file].uses /\ r.enc = Enclosing(tree, r.file, e.line)
        <4>1. Enclosing(stored, r.file, e.line) = Enclosing(tree, r.file, e.line)
          BY <2>2, FileAlike
        <4>2. e \in tree[r.file].uses
          BY <2>2, <3>1
        <4>3. r.enc = Enclosing(stored, r.file, e.line)
          BY <3>1
        <4> QED BY <4>1, <4>2, <4>3
      <3>4. OfOldUse(tree, lost', r.file, r)
        BY <3>1, <3>2, <3>3, Zenon DEF OfOldUse
      <3> QED BY <2>2, <3>4
    <2>6. OfOldUse(stored, lost, r.file, r) \/ OfOp(stored, r.file, r)
      BY <1>1, <2>1 DEF RefsOf
    <2> QED BY <2>2, <2>4, <2>5, <2>6
  <1>11. RefsOf(tree, db', lost')
    <2>1. ASSUME NEW r \in db'.refs
          PROVE  /\ r.file \in Built(tree)
                 /\ OfOldUse(tree, lost', r.file, r) \/ OfOp(tree, r.file, r)
                 /\ r.sym \in IdsOf(ExtractSymbols(tree))
      BY <1>2, <1>9, <1>10 DEF After
    <2>2. ASSUME NEW r \in db'.refs, NEW z \in db'.refs, <<r.file, r.line, r.col, r.ctx>> = <<z.file, z.line, z.col, z.ctx>>
          PROVE  r = z
      <3>1. CASE r \in oldrefs /\ z \in oldrefs
        BY <1>1, <2>2, <3>1 DEF RefsOf
      <3>2. CASE r \in New.refs /\ z \in New.refs
        BY <1>4, <2>2, <3>2, RefsUnique DEF New, After
      <3>3. r.file = z.file
        BY <2>2
      <3> QED BY <1>2, <1>9, <1>10, <3>1, <3>2, <3>3
    <2> QED BY <2>1, <2>2, Zenon DEF RefsOf
  \* The calls.
  <1>12. CallsOf(tree, db')
    <2>1. ASSUME NEW c \in db'.calls
          PROVE  /\ c.file \in Built(tree)
                 /\ {c.from, c.to} \subseteq IdsOf(ExtractSymbols(tree))
                 /\ c.to[4] = "func" => \E r \in db'.refs : r.file = c.file /\ r.sym = c.to /\ r.enc = {c.from} /\ r.line >= c.line /\ r.ctx = ""
      <3>1. {c.from, c.to} \subseteq ids
        BY <1>2
      <3>2. CASE c \in New.calls
        <4>1. /\ c.file \in Built(tree) \cap Changed
              /\ c.to[4] = "func" => \E r \in New.refs : r.file = c.file /\ r.sym = c.to /\ r.enc = {c.from} /\ r.line >= c.line /\ r.ctx = ""
          BY <1>4, <3>2, CallsOnly DEF New, After
        <4> QED BY <1>2, <3>1, <4>1 DEF After
      <3>3. CASE c \in oldcalls
        <4>1. /\ c.file \in Built(stored) /\ c.file \notin Gone
              /\ c.to[4] = "func" => \E r \in db.refs : r.file = c.file /\ r.sym = c.to /\ r.enc = {c.from} /\ r.line >= c.line /\ r.ctx = ""
          BY <1>1, <3>3 DEF CallsOf
        <4>2. c.file \in Built(tree)
          BY <1>1, <1>4, <4>1, Untouched
        <4> QED BY <1>2, <3>1, <4>1, <4>2 DEF After
      <3> QED BY <1>2, <3>2, <3>3
    <2> QED BY <2>1 DEF CallsOf
  \* What is there of the uses.
  <1>13. AllOf(tree, db', lost')
    <2>1. SUFFICES ASSUME NEW f \in Built(tree), NEW e \in tree[f].uses, NEW x \in Meaning(tree, e.key),
                          Sighted(f, x), e.key \notin lost'[f]
                   PROVE  /\ UseRef(tree, f, e, x) \in db'.refs
                          /\ e.at # 0 => \A i \in Enclosing(tree, f, e.line) : Edge(f, e, i, x) \in db'.calls
      BY DEF AllOf
    <2>2. UseRef(tree, f, e, x).sym \in ids
      <3>1. PICK g \in Built(tree) : \E d \in Decls(tree, g) : x = <<g, d>>
        BY MeaningIs
      <3>2. PICK d \in Decls(tree, g) : x = <<g, d>>
        BY <3>1
      <3>3. generateID(x[1], x[2]) \in ids
        BY <2>1, <3>2, IdIs DEF Sighted, After
      <3> QED BY <3>3 DEF UseRef, Ref
    <2>3. UseRef(tree, f, e, x).sym = generateID(x[1], x[2])
      BY DEF UseRef, Ref
    <2>4. \A i \in Enclosing(tree, f, e.line) : {i, generateID(x[1], x[2])} \subseteq ids
      <3>1. e.line \in Nat
        BY <1>4, UsesOK
      <3> QED BY <1>4, <2>2, <2>3, <3>1, EnclosingOne DEF After
    <2>5. \A i : Edge(f, e, i, x).from = i /\ Edge(f, e, i, x).to = generateID(x[1], x[2])
      BY DEF Edge
    <2>6. SUFFICES /\ UseRef(tree, f, e, x) \in oldrefs \cup New.refs
                   /\ e.at # 0 => \A i \in Enclosing(tree, f, e.line) : Edge(f, e, i, x) \in oldcalls \cup New.calls
      BY <1>2, <2>2, <2>4, <2>5
    <2>7. CASE f \in Changed
      BY <1>1, <1>4, <2>1, <2>7, NewLinks DEF New, After
    <2>8. CASE f \notin Changed
      <3>1. f \notin Gone /\ f \in Built(stored) /\ stored[f] = tree[f]
        BY <1>1, <1>4, <2>8, Untouched
      <3>2. e.key \notin lost[f] /\ e.key \notin Reminted
        BY <1>3, <1>4, <2>1, <2>8
      <3>3. PICK y \in Meaning(stored, e.key) : TRUE
        BY <1>1, <3>1 DEF TypeOK, Compiles
      <3>4. e.key = [pkg |-> e.key.pkg, of |-> e.key.of, name |-> e.key.name]
        BY <1>4, UsesOK
      <3>5. {generateID(w[1], w[2]) : w \in Meaning(stored, e.key)} = {generateID(w[1], w[2]) : w \in Meaning(tree, e.key)}
        BY <3>2, <3>3, <3>4, NotReminted
      <3>6. PICK w \in Meaning(stored, e.key) : generateID(w[1], w[2]) = generateID(x[1], x[2])
        BY <3>5
      <3>7. Sighted(f, w)
        <4>1. w[1] = x[1] /\ w[2].kind = x[2].kind
          BY <3>6 DEF generateID
        <4> QED BY <2>1, <4>1 DEF Sighted, HasSymbol, IsFunc
      <3>8. /\ UseRef(stored, f, e, w) \in db.refs
            /\ e.at # 0 => \A i \in Enclosing(stored, f, e.line) : Edge(f, e, i, w) \in db.calls
        BY <1>1, <3>1, <3>2, <3>7 DEF AllOf
      <3>9. Enclosing(stored, f, e.line) = Enclosing(tree, f, e.line)
        BY <3>1, FileAlike
      <3>10. UseRef(stored, f, e, w) = UseRef(tree, f, e, x) /\ \A i : Edge(f, e, i, w) = Edge(f, e, i, x)
        BY <3>6, <3>9 DEF UseRef, Edge
      <3>11. UseRef(tree, f, e, x).file = f /\ \A i : Edge(f, e, i, x).file = f
        BY DEF UseRef, Ref, Edge
      <3> QED BY <3>1, <3>8, <3>9, <3>10, <3>11
    <2> QED BY <2>7, <2>8
  <1>14. /\ SymbolsOf(stored', db') /\ FactsOf(stored', db') /\ PackagesOf(stored', db')
         /\ RefsOf(stored', db', lost') /\ CallsOf(stored', db') /\ AllOf(stored', db', lost')
    BY <1>5, <1>6, <1>7, <1>8, <1>11, <1>12, <1>13, Transfer
  <1>15. SymbolsOf(stored, db)' /\ FactsOf(stored, db)' /\ PackagesOf(stored, db)' /\ RefsOf(stored, db, lost)' /\ CallsOf(stored, db)'
    BY <1>14 DEF SymbolsOf, FactsOf, PackagesOf, RefsOf, CallsOf, OfOldUse, OfOp, UseRef
  <1>16. AllOf(stored, db, lost)'
    BY <1>5, <1>14 DEF AllOf, Sighted, OneLoad
  <1> QED BY <1>5, <1>15, <1>16 DEF IInv

-----------------------------------------------------------------------------
(* The theorems.                                                           *)

LEMMA InitStep ==
  ASSUME Init
  PROVE  IInv
  <1>1. stored = NoFiles /\ db = Tables /\ DOMAIN stored = Files /\ \A f \in Files : stored[f] = Absent
    BY DEF Init, NoFiles
  <1>2. Built(stored) = {} /\ Walked(stored) = {}
    BY <1>1 DEF Built, IsBuilt, Walked
  <1>3. TreeOK(tree)
    BY FilesAssumption, TreesAssumption DEF Init, TreeOK
  <1>4. TypeOK
    BY <1>1, <1>2, <1>3, TreesAssumption DEF Init, TypeOK, TreeOK, SizeOK, Compiles
  <1>5. ExtractSymbols(stored) = {}
    <2>1. \A s : s \notin ExtractSymbols(stored)
      BY <1>2, SymbolRows
    <2> QED BY <2>1
  <1>6. ExtractImports(stored, Files) = {} /\ ExtractLiterals(stored, Files) = {}
    BY <1>2, ImportRows, LiteralRows
  <1>7. db.symbols = {} /\ db.refs = {} /\ db.calls = {} /\ db.imports = {} /\ db.literals = {} /\ db.packages = {}
    BY <1>1 DEF Tables
  <1>8. SymbolsOf(stored, db) /\ FactsOf(stored, db) /\ PackagesOf(stored, db) /\ RefsOf(stored, db, lost)
    BY <1>2, <1>5, <1>6, <1>7 DEF SymbolsOf, FactsOf, PackagesOf, RefsOf
  <1>9. CallsOf(stored, db) /\ AllOf(stored, db, lost)
    BY <1>2, <1>7 DEF CallsOf, AllOf
  <1> QED BY <1>4, <1>8, <1>9 DEF IInv

\* Of the tree that is edited the invariant says only what it contains.
LEMMA TablesKept ==
  ASSUME IInv, UNCHANGED <<size, stored, db, lost>>, TreeOK(tree')
  PROVE  IInv'
  <1>1. TypeOK'
    BY DEF IInv, TypeOK, SizeOK
  <1>2. SymbolsOf(stored, db)' /\ FactsOf(stored, db)'
    BY DEF IInv, SymbolsOf, FactsOf
  <1>3. PackagesOf(stored, db)'
    BY DEF IInv, PackagesOf
  <1>4. RefsOf(stored, db, lost)'
    <2>1. RefsOf(stored', db', lost')
      BY DEF IInv
    <2> QED BY <2>1 DEF RefsOf, OfOldUse, OfOp, UseRef
  <1>5. CallsOf(stored, db)'
    BY DEF IInv, CallsOf
  <1>6. AllOf(stored, db, lost)'
    BY DEF IInv, AllOf, Sighted, OneLoad
  <1> QED BY <1>1, <1>2, <1>3, <1>4, <1>5, <1>6 DEF IInv

LEMMA EditStep ==
  ASSUME IInv, NEW f \in Files, NEW c \in Contents[f], Edit(f, c)
  PROVE  IInv'
  <1>1. tree' = [tree EXCEPT ![f] = c] /\ UNCHANGED <<size, stored, db, lost>>
    BY DEF Edit
  <1>2. TreeOK(tree')
    BY <1>1, FilesAssumption DEF IInv, TypeOK, TreeOK
  <1> QED BY <1>1, <1>2, TablesKept

\* What the tables say of the tree that was stored, always.
LEMMA TablesOfStored == Spec => []IInv
  <1>1. Init => IInv
    BY InitStep
  <1>2. IInv /\ [Next]_vars => IInv'
    <2>1. SUFFICES ASSUME IInv, [Next]_vars PROVE IInv'
      OBVIOUS
    <2>2. ASSUME NEW f \in Files, NEW c \in Contents[f], Edit(f, c) PROVE IInv'
      BY <2>1, <2>2, EditStep
    <2>3. CASE FullRun
      BY <2>1, <2>3, FullRunStep
    <2>4. CASE runIncrementalIndex
      BY <2>1, <2>4, IncrementalStep
    <2>5. CASE UNCHANGED vars
      <3>1. UNCHANGED <<size, tree, stored, db, lost>>
        BY <2>5 DEF vars
      <3>2. TreeOK(tree')
        BY <2>1, <3>1 DEF IInv, TypeOK
      <3> QED BY <2>1, <3>1, <3>2, TablesKept
    <2> QED BY <2>1, <2>2, <2>3, <2>4, <2>5 DEF Next
  <1> QED BY <1>1, <1>2, PTL DEF Spec

\* The functions around the references are symbols.
LEMMA EnclosingKnown ==
  ASSUME IInv, NEW r \in db.refs
  PROVE  r.enc \subseteq IdsOf(ExtractSymbols(stored))
  <1>1. TreeOK(stored) /\ r.file \in Built(stored) /\ (OfOldUse(stored, lost, r.file, r) \/ OfOp(stored, r.file, r))
    BY DEF IInv, TypeOK, RefsOf
  <1>2. CASE OfOldUse(stored, lost, r.file, r)
    <2>1. PICK e \in stored[r.file].uses : r.enc = Enclosing(stored, r.file, e.line)
      BY <1>2 DEF OfOldUse
    <2>2. e.line \in Nat
      BY <1>1, UsesOK
    <2> QED BY <1>1, <2>1, <2>2, EnclosingOne
  <1>3. CASE OfOp(stored, r.file, r)
    <2>1. PICK o \in stored[r.file].ops : \E i \in Enclosing(stored, r.file, o.line) : r = Ref(r.file, o, i, {i}, o.ctx)
      BY <1>3 DEF OfOp
    <2>2. PICK i \in Enclosing(stored, r.file, o.line) : r = Ref(r.file, o, i, {i}, o.ctx)
      BY <2>1
    <2>3. r.enc = {i}
      BY <2>2 DEF Ref
    <2>4. o.line \in Nat
      BY <1>1, OpsOK
    <2> QED BY <1>1, <2>3, <2>4, EnclosingOne
  <1> QED BY <1>1, <1>2, <1>3

\* When no run has to look at the tree again, it is built as the stored one.
LEMMA CurrentIsAlike == ASSUME Current PROVE SameBuild(stored, tree)
BY DEF Current, SameBuild

\* Rows that the primary keys call one are equal, rows point at symbols, the
\* call of a function has its reference, and after a run the packages, imports
\* and literals are those of the tree: for any packages, contents, chunk sizes
\* and edits (extract.go, index.go, writer.go).
THEOREM TablesAlwaysAgree == Spec => []TablesAgree
  <1>1. IInv => TablesAgree
    <2> SUFFICES ASSUME IInv PROVE TablesAgree
      OBVIOUS
    <2>1. TreeOK(stored) /\ db.symbols = ExtractSymbols(stored) /\ IdsOf(db.symbols) = IdsOf(ExtractSymbols(stored))
      BY DEF IInv, TypeOK, SymbolsOf
    <2> DEFINE ids == IdsOf(db.symbols)
               functions == {i \in ids : i[4] = "func"}
    <2>2. ASSUME NEW s \in db.symbols, NEW z \in db.symbols, s.id = z.id PROVE s = z
      <3>1. PICK f \in Built(stored) : \E d \in Decls(stored, f) : HasSymbol(d) /\ s = Symbol(f, d)
        BY <2>1, SymbolRows
      <3>2. PICK d \in Decls(stored, f) : s = Symbol(f, d)
        BY <3>1
      <3>3. PICK g \in Built(stored) : \E e \in Decls(stored, g) : HasSymbol(e) /\ z = Symbol(g, e)
        BY <2>1, SymbolRows
      <3>4. PICK e \in Decls(stored, g) : z = Symbol(g, e)
        BY <3>3
      <3>5. f = g /\ d.line = e.line /\ d.col = e.col
        BY <2>2, <3>2, <3>4 DEF Symbol, generateID
      <3>6. d = e
        BY <2>1, <3>5, DeclsOK
      <3> QED BY <3>2, <3>4, <3>5, <3>6
    <2>3. \A r, z \in db.refs : <<r.file, r.line, r.col, r.ctx>> = <<z.file, z.line, z.col, z.ctx>> => r = z
      BY DEF IInv, RefsOf
    <2>4. \A r \in db.refs : {r.sym} \cup r.enc \subseteq ids
      BY <2>1, EnclosingKnown DEF IInv, RefsOf
    <2>5. ASSUME NEW c \in db.calls
          PROVE  /\ {c.from, c.to} \subseteq ids
                 /\ c.to \in functions => \E r \in db.refs : r.sym = c.to /\ r.enc = {c.from} /\ r.line >= c.line /\ r.ctx = ""
      BY <2>1 DEF IInv, CallsOf
    <2>6. ASSUME Current
          PROVE  /\ {r \in db.packages : r.file \in Walked(tree)} =
                      {[file |-> f, pkg |-> IF f \in Built(tree) THEN PkgPath(f) ELSE <<tree[f].clause, FALSE>>,
                        source |-> IF f \in Built(tree) THEN "loader" ELSE "header"] : f \in Walked(tree)}
                 /\ db.imports = ExtractImports(tree, Files) /\ db.literals = ExtractLiterals(tree, Files)
      <3>1. SameBuild(stored, tree)
        BY <2>6, CurrentIsAlike
      <3>2. PackagesOf(tree, db) /\ FactsOf(tree, db)
        BY <3>1, Transfer DEF IInv
      <3> QED BY <3>2 DEF PackagesOf, PackageRow, FactsOf
    <2> HIDE DEF ids, functions
    <2>7. TablesAgree
      BY <2>2, <2>3, <2>4, <2>5, <2>6 DEF TablesAgree, ids, functions
    <2> QED BY <2>7
  <1> QED BY <1>1, TablesOfStored, PTL

\* After a run every identifier whose declaration the chunks let it see refers
\* to what it means, every static call is an edge, and what is there is right,
\* except where an ID was re-minted under a file that was not extracted again.
THEOREM RefsAlwaysRight == Spec => []RefsRight
  <1>1. IInv => RefsRight
    <2> SUFFICES ASSUME IInv, Current PROVE RefsRight
      BY DEF RefsRight
    <2>1. SameBuild(stored, tree)
      BY CurrentIsAlike
    <2>2. AllOf(tree, db, lost) /\ RefsOf(tree, db, lost)
      BY <2>1, Transfer DEF IInv
    <2>3. \A f, e, x : Right(f, e, x) = UseRef(tree, f, e, x)
      BY DEF Right, UseRef
    <2>4. ASSUME NEW f \in Built(tree), NEW e \in tree[f].uses, NEW x \in Meaning(tree, e.key), Sighted(f, x), Kept(f, e)
          PROVE  /\ Right(f, e, x) \in db.refs
                 /\ e.at # 0 => \A i \in Enclosing(tree, f, e.line) :
                      [file |-> f, line |-> e.at, from |-> i, to |-> generateID(x[1], x[2])] \in db.calls
      BY <2>2, <2>3, <2>4 DEF AllOf, Kept, Edge
    <2>5. ASSUME NEW r \in db.refs, r.ctx = ""
          PROVE  \E e \in tree[r.file].uses : <<e.line, e.col>> = <<r.line, r.col>> /\
                   (Kept(r.file, e) => \E x \in Meaning(tree, e.key) : r = Right(r.file, e, x))
      <3>1. r.file \in Built(tree) /\ (OfOldUse(tree, lost, r.file, r) \/ OfOp(tree, r.file, r))
        BY <2>2 DEF RefsOf
      <3>2. TreeOK(tree)
        BY DEF IInv, TypeOK
      <3>3. OfOldUse(tree, lost, r.file, r)
        BY <2>5, <3>1, <3>2, RowOf
      <3>4. PICK e \in tree[r.file].uses :
              /\ r.line = e.line /\ r.col = e.col
              /\ e.key \notin lost[r.file] => \E x \in Meaning(tree, e.key) : r = UseRef(tree, r.file, e, x)
        BY <3>3, Zenon DEF OfOldUse
      <3> QED BY <2>3, <3>4 DEF Kept
    <2> QED BY <2>4, <2>5 DEF RefsRight
  <1> QED BY <1>1, TablesOfStored, PTL

-----------------------------------------------------------------------------
(* Calls through interfaces.                                               *)

\* Production code is a unit, and each package is one with its own tests.
Whole(t, g) ==
  IF File[g].ext THEN <<File[g].pkg, "ext">>
  ELSE IF <<File[g].pkg, "test">> \in Loaded(t) THEN <<File[g].pkg, "test">> ELSE <<File[g].pkg, "plain">>

LEMMA UnitOfProduction ==
  ASSUME NEW t, NEW g \in Built(t), ~File[g].test
  PROVE  <<File[g].pkg, "plain">> \in Loaded(t) /\ Sources(t, <<File[g].pkg, "plain">>) = Production(t, g)
  <1>1. \A f \in Built(t) : f \in Files /\ IsBuilt(t, f)
    BY DEF Built
  <1>2. \A f \in Files : /\ (File[f].ext => File[f].test) /\ File[f].ext \in BOOLEAN /\ File[f].test \in BOOLEAN
                         /\ Variant(f) = "plain" <=> ~File[f].test
    BY FilesAssumption DEF Variant
  <1>3. <<File[g].pkg, "plain">> \in Loaded(t)
    BY <1>1, <1>2 DEF Loaded
  <1>4. \A f \in Files : PkgPath(f) = PkgPath(g) <=> File[f].pkg = File[g].pkg /\ File[f].ext = File[g].ext
    BY DEF PkgPath
  <1>5. \A f : f \in Sources(t, <<File[g].pkg, "plain">>) <=> f \in Built(t) /\ File[f].pkg = File[g].pkg /\ Variant(f) = "plain"
    BY DEF Sources, FilesOf, Built
  <1>6. \A f : f \in Production(t, g) <=> f \in Built(t) /\ PkgPath(f) = PkgPath(g) /\ ~File[f].test
    BY DEF Production, Package
  <1> QED BY <1>1, <1>2, <1>3, <1>4, <1>5, <1>6

LEMMA UnitOfPackage ==
  ASSUME NEW t, NEW g \in Built(t)
  PROVE  Whole(t, g) \in Loaded(t) /\ Whole(t, g)[1] = File[g].pkg /\ Sources(t, Whole(t, g)) = Package(t, g)
  <1>1. \A f \in Built(t) : f \in Files /\ IsBuilt(t, f)
    BY DEF Built
  <1>2. \A f \in Files : /\ (File[f].ext => File[f].test) /\ File[f].ext \in BOOLEAN /\ File[f].test \in BOOLEAN
                         /\ Variant(f) = IF File[f].ext THEN "ext" ELSE IF File[f].test THEN "test" ELSE "plain"
    BY FilesAssumption DEF Variant
  <1>3. \A f \in Built(t) : <<File[f].pkg, Variant(f)>> \in Loaded(t)
    BY DEF Loaded
  <1>4. \A f \in Files : PkgPath(f) = PkgPath(g) <=> File[f].pkg = File[g].pkg /\ File[f].ext = File[g].ext
    BY DEF PkgPath
  <1>5. \A p, v, f : f \in Sources(t, <<p, v>>) <=>
          f \in Built(t) /\ File[f].pkg = p /\ (Variant(f) = v \/ (v = "test" /\ Variant(f) = "plain"))
    BY DEF Sources, FilesOf, Built
  <1>6. \A f : f \in Package(t, g) <=> f \in Built(t) /\ PkgPath(f) = PkgPath(g)
    BY DEF Package
  <1> DEFINE p == File[g].pkg
  <1> HIDE DEF p
  <1>7. CASE File[g].ext
    <2>1. Whole(t, g) = <<p, "ext">>
      BY <1>7 DEF Whole, p
    <2>2. <<p, "ext">> \in Loaded(t)
      BY <1>1, <1>2, <1>3, <1>7 DEF p
    <2>3. \A f : f \in Sources(t, <<p, "ext">>) <=> f \in Built(t) /\ File[f].pkg = p /\ File[f].ext
      BY <1>1, <1>2, <1>5
    <2>4. \A f : f \in Sources(t, <<p, "ext">>) <=> f \in Package(t, g)
      BY <1>1, <1>2, <1>4, <1>6, <1>7, <2>3 DEF p
    <2> QED BY <2>1, <2>2, <2>4 DEF p
  <1>8. CASE ~File[g].ext /\ <<p, "test">> \in Loaded(t)
    <2>1. Whole(t, g) = <<p, "test">>
      BY <1>8 DEF Whole, p
    <2>2. \A f : f \in Sources(t, <<p, "test">>) <=> f \in Package(t, g)
      BY <1>1, <1>2, <1>4, <1>5, <1>6, <1>8 DEF p
    <2> QED BY <1>8, <2>1, <2>2 DEF p
  <1>9. CASE ~File[g].ext /\ <<p, "test">> \notin Loaded(t)
    <2>1. Whole(t, g) = <<p, "plain">>
      BY <1>9 DEF Whole, p
    <2>2. \A f \in Built(t) : File[f].pkg = p => Variant(f) # "test"
      BY <1>3, <1>9
    <2>3. <<p, "plain">> \in Loaded(t)
      BY <1>1, <1>2, <1>3, <1>9, <2>2 DEF p
    <2>4. \A f : f \in Sources(t, <<p, "plain">>) <=> f \in Package(t, g)
      BY <1>1, <1>2, <1>4, <1>5, <1>6, <1>9, <2>2 DEF p
    <2> QED BY <2>1, <2>3, <2>4 DEF p
  <1> QED BY <1>7, <1>8, <1>9

\* The files of a unit are of one package.
LEMMA UnitInPackage ==
  ASSUME NEW t, NEW v \in Loaded(t), NEW g \in Sources(t, v)
  PROVE  g \in Built(t) /\ Sources(t, v) \subseteq Package(t, g)
  <1>1. g \in Built(t) /\ Sources(t, v) \subseteq Built(t)
    BY Units
  <1>2. \A f \in Sources(t, v) : f \in Files /\ File[f].pkg = v[1] /\ (Variant(f) = v[2] \/ (v[2] = "test" /\ Variant(f) = "plain"))
    BY DEF Sources, FilesOf
  <1>3. \A f \in Sources(t, v) : File[f].ext = (v[2] = "ext")
    BY <1>2, FilesAssumption DEF Variant
  <1> QED BY <1>1, <1>2, <1>3 DEF Package, PkgPath

LEMMA MoreFiles ==
  ASSUME NEW t, NEW type, NEW files, NEW more, files \subseteq more, NEW x, Implements(t, type, files, x)
  PROVE  Implements(t, type, more, x)
  <1> DEFINE decls(a) == UNION {Decls(t, h) : h \in a}
             types(a) == {type} \cup UNION {d.embeds : d \in {d \in decls(a) : d.name = type}}
             methods(a) == {m \in decls(a) : m.kind = "method" /\ m.of \in types(a)}
  <1>1. \A a : Implements(t, type, a, x) <=> Named(Interface(t, x)) \subseteq Named(methods(a))
    BY DEF Implements
  <1>2. decls(files) \subseteq decls(more)
    OBVIOUS
  <1> HIDE DEF decls
  <1>3. types(files) \subseteq types(more)
    BY <1>2
  <1> HIDE DEF types
  <1>4. methods(files) \subseteq methods(more)
    BY <1>2, <1>3
  <1> HIDE DEF methods
  <1>5. Named(methods(files)) \subseteq Named(methods(more))
    BY <1>4 DEF Named
  <1> QED BY <1>1, <1>5

\* What the checker sees of a signature, and that it tells types apart.
Type(t, u, s) == <<Seen(t, u, s.pkg, size), s.name>>
LEMMA SeenApart ==
  ASSUME NEW t, NEW u, NEW v, NEW s, NEW z, Type(t, u, s) = Type(t, v, z)
  PROVE  s.pkg = z.pkg /\ s.name = z.name
  <1>1. \A w, pkg : Seen(t, w, pkg, size)[2] = pkg
    BY DEF Seen
  <1> QED BY <1>1 DEF Type

LEMMA SigIs ==
  ASSUME NEW t, NEW u, NEW d
  PROVE  Sig(t, u, d, size) = <<d.name, {Type(t, u, s) : s \in d.sig}>>
BY DEF Sig, Type

\* A type that has the methods has them for the checker, if the two units see
\* the types of the signatures as the same.
LEMMA ImplementsSeen ==
  ASSUME NEW t, NEW u, NEW v, NEW type, NEW x, Implements(t, type, Sources(t, v), x),
         \A i \in Interface(t, x) : \A s \in i.sig : Seen(t, u, s.pkg, size) = Seen(t, v, s.pkg, size)
  PROVE  InterfaceSet(t, u, x, size) \subseteq MethodSet(t, v, type, size)
  <1> DEFINE decls == UNION {Decls(t, f) : f \in Sources(t, v)}
             types == {type} \cup UNION {d.embeds : d \in {d \in decls : d.name = type}}
             methods == {m \in decls : m.kind = "method" /\ m.of \in types}
  <1>1. Named(Interface(t, x)) \subseteq Named(methods)
    BY DEF Implements
  <1>2. MethodSet(t, v, type, size) = {Sig(t, v, d, size) : d \in methods}
    BY DEF MethodSet
  <1>3. InterfaceSet(t, u, x, size) = {Sig(t, u, d, size) : d \in Interface(t, x)}
    BY DEF InterfaceSet, Interface
  <1> HIDE DEF methods
  <1>4. ASSUME NEW i \in Interface(t, x) PROVE \E m \in methods : Sig(t, u, i, size) = Sig(t, v, m, size)
    <2>1. <<i.name, i.sig>> \in Named(methods)
      BY <1>1 DEF Named
    <2>2. PICK m \in methods : m.name = i.name /\ m.sig = i.sig
      BY <2>1 DEF Named
    <2>3. \A s \in i.sig : Type(t, u, s) = Type(t, v, s)
      BY DEF Type
    <2>4. {Type(t, u, s) : s \in i.sig} = {Type(t, v, s) : s \in m.sig}
      BY <2>2, <2>3
    <2> QED BY <2>2, <2>4, SigIs
  <1> QED BY <1>2, <1>3, <1>4

\* And what the checker takes for an implementation is one.
LEMMA SeenImplements ==
  ASSUME NEW t, TreeOK(t), NEW key, NEW x \in Meaning(t, key), NEW u, NEW v \in Loaded(t), NEW type,
         InterfaceSet(t, u, x, size) \subseteq MethodSet(t, v, type, size)
  PROVE  Implements(t, type, Sources(t, v), x)
  <1> DEFINE decls == UNION {Decls(t, f) : f \in Sources(t, v)}
             types == {type} \cup UNION {d.embeds : d \in {d \in decls : d.name = type}}
             methods == {m \in decls : m.kind = "method" /\ m.of \in types}
  <1>1. Implements(t, type, Sources(t, v), x) <=> Named(Interface(t, x)) \subseteq Named(methods)
    BY DEF Implements
  <1>2. MethodSet(t, v, type, size) = {Sig(t, v, d, size) : d \in methods}
    BY DEF MethodSet
  <1>3. InterfaceSet(t, u, x, size) = {Sig(t, u, d, size) : d \in Interface(t, x)}
    BY DEF InterfaceSet, Interface
  <1>4. \A m \in methods : \E g \in Built(t) : m \in Decls(t, g)
    BY Units
  <1> HIDE DEF methods
  <1>5. \A f \in Built(t) : \A d \in Decls(t, f) : \A s \in d.sig : s = [pkg |-> s.pkg, name |-> s.name]
    BY DeclOK DEF WellFormed, Decls
  <1>6. x[1] \in Built(t)
    BY MeaningIs
  <1>7. ASSUME NEW i \in Interface(t, x) PROVE <<i.name, i.sig>> \in Named(methods)
    <2>1. Sig(t, u, i, size) \in MethodSet(t, v, type, size)
      BY <1>3
    <2>2. PICK m \in methods : Sig(t, u, i, size) = Sig(t, v, m, size)
      BY <1>2, <2>1
    <2>3. i.name = m.name /\ {Type(t, u, s) : s \in i.sig} = {Type(t, v, s) : s \in m.sig}
      BY <2>2, SigIs
    <2>4. /\ \A s \in i.sig : s = [pkg |-> s.pkg, name |-> s.name]
          /\ \A s \in m.sig : s = [pkg |-> s.pkg, name |-> s.name]
      BY <1>4, <1>5, <1>6 DEF Interface
    <2>5. ASSUME NEW s \in i.sig PROVE s \in m.sig
      <3>1. PICK z \in m.sig : Type(t, u, s) = Type(t, v, z)
        BY <2>3
      <3>2. s.pkg = z.pkg /\ s.name = z.name
        BY <3>1, SeenApart
      <3> QED BY <2>4, <3>2
    <2>6. ASSUME NEW z \in m.sig PROVE z \in i.sig
      <3>1. PICK s \in i.sig : Type(t, u, s) = Type(t, v, z)
        BY <2>3
      <3>2. s.pkg = z.pkg /\ s.name = z.name
        BY <3>1, SeenApart
      <3> QED BY <2>4, <3>2
    <2>7. i.sig = m.sig
      BY <2>5, <2>6
    <2> QED BY <2>3, <2>7 DEF Named
  <1> QED BY <1>1, <1>7 DEF Named

LEMMA DispatchIs ==
  ASSUME NEW t, NEW u, NEW x, NEW j
  PROVE  j \in Dispatch(t, size, u, x) <=>
           \E v \in Loaded(t) : \E g \in Sources(t, v) : \E d \in Decls(t, g) :
             /\ d.kind = "method" /\ d.name = x[2].name
             /\ InterfaceSet(t, u, x, size) \subseteq MethodSet(t, v, d.of, size)
             /\ j = generateID(g, d)
  <1> DEFINE Fits(v, d) == InterfaceSet(t, u, x, size) \subseteq MethodSet(t, v, d.of, size)
  <1>1. Dispatch(t, size, u, x) =
          UNION {UNION {{generateID(g, d) : d \in {d \in Decls(t, g) : d.kind = "method" /\ d.name = x[2].name /\ Fits(v, d)}} :
                          g \in Sources(t, v)} : v \in Loaded(t)}
    BY DEF Dispatch
  <1> HIDE DEF Fits
  <1>2. j \in Dispatch(t, size, u, x) <=>
           \E v \in Loaded(t) : \E g \in Sources(t, v) : \E d \in Decls(t, g) :
             d.kind = "method" /\ d.name = x[2].name /\ Fits(v, d) /\ j = generateID(g, d)
    BY <1>1
  <1> QED BY <1>2 DEF Fits

\* An interface's method has no symbol to be found.
LEMMA NotFound ==
  ASSUME NEW t, TreeOK(t), NEW key, NEW x \in Meaning(t, key), x[2].kind = "imethod", NEW u
  PROVE  Lookup(ExtractSymbols(t), DefPos(t, x, u, size)) = {}
  <1> SUFFICES ASSUME NEW i \in Lookup(ExtractSymbols(t), DefPos(t, x, u, size)) PROVE FALSE
    OBVIOUS
  <1>1. i = generateID(x[1], x[2]) /\ i \in IdsOf(ExtractSymbols(t))
    BY LookupMeaning
  <1>2. PICK f \in Built(t) : \E d \in Decls(t, f) : HasSymbol(d) /\ i = generateID(f, d)
    BY <1>1, IdIs
  <1>3. PICK d \in Decls(t, f) : HasSymbol(d) /\ i = generateID(f, d)
    BY <1>2
  <1>4. d.kind = x[2].kind
    BY <1>1, <1>3 DEF generateID
  <1> QED BY <1>3, <1>4 DEF HasSymbol

\* A call is of what it names or of a method that it may come to.
Leads(t, c) ==
  \E e \in t[c.file].uses : \E x \in Meaning(t, e.key) :
    /\ e.at = c.line /\ c.from \in Enclosing(t, c.file, e.line)
    /\ \/ c.to = generateID(x[1], x[2])
       \/ /\ x[2].kind = "imethod"
          /\ \E g \in Built(t) : \E d \in Decls(t, g) : c.to = generateID(g, d) /\ Candidate(t, x, g, d)

LEMMA CallsLead ==
  ASSUME TreeOK(tree), NEW only, NEW c \in Links(ExtractSymbols(tree), only).calls
  PROVE  Leads(tree, c)
  <1> DEFINE symbols == ExtractSymbols(tree)
  <1>1. PICK u \in Loaded(tree) : c \in ExtractCallGraph(tree, symbols, size, u, only)
    BY DEF Links
  <1>f. PICK f \in Sources(tree, u) \cap only : \E e \in tree[f].uses : \E x \in Meaning(tree, e.key) :
          \E i \in Enclosing(tree, f, e.line), j \in Callees(tree, symbols, size, u, x) :
            c = [file |-> f, line |-> e.at, from |-> i, to |-> j]
    BY <1>1 DEF ExtractCallGraph
  <1>e. PICK e \in tree[f].uses : \E x \in Meaning(tree, e.key) :
          \E i \in Enclosing(tree, f, e.line), j \in Callees(tree, symbols, size, u, x) :
            c = [file |-> f, line |-> e.at, from |-> i, to |-> j]
    BY <1>f
  <1>x. PICK x \in Meaning(tree, e.key) :
          \E i \in Enclosing(tree, f, e.line), j \in Callees(tree, symbols, size, u, x) :
            c = [file |-> f, line |-> e.at, from |-> i, to |-> j]
    BY <1>e
  <1>2. PICK i \in Enclosing(tree, f, e.line), j \in Callees(tree, symbols, size, u, x) :
          c = [file |-> f, line |-> e.at, from |-> i, to |-> j]
    BY <1>x
  <1>3. c.file = f /\ c.line = e.at /\ c.from = i /\ c.to = j
    BY <1>2
  <1>4. CASE j \in Lookup(symbols, DefPos(tree, x, u, size))
    <2>1. c.to = generateID(x[1], x[2])
      BY <1>3, <1>4, LookupMeaning
    <2> QED BY <1>3, <2>1 DEF Leads
  <1>5. CASE x[2].kind = "imethod" /\ j \in Dispatch(tree, size, u, x)
    <2> DEFINE Fits(v, g, d) == /\ d.kind = "method" /\ d.name = x[2].name
                                /\ InterfaceSet(tree, u, x, size) \subseteq MethodSet(tree, v, d.of, size)
                                /\ j = generateID(g, d)
    <2>v. PICK v \in Loaded(tree) : \E g \in Sources(tree, v) : \E d \in Decls(tree, g) : Fits(v, g, d)
      BY <1>5, DispatchIs
    <2>g. PICK g \in Sources(tree, v) : \E d \in Decls(tree, g) : Fits(v, g, d)
      BY <2>v
    <2>1. PICK d \in Decls(tree, g) : Fits(v, g, d)
      BY <2>g
    <2>2. g \in Built(tree) /\ Sources(tree, v) \subseteq Package(tree, g)
      BY UnitInPackage
    <2>3. Implements(tree, d.of, Sources(tree, v), x)
      BY <2>1, SeenImplements
    <2>4. Implements(tree, d.of, Package(tree, g), x)
      BY <2>2, <2>3, MoreFiles
    <2>5. Candidate(tree, x, g, d)
      BY <2>1, <2>4 DEF Candidate
    <2>6. \E h \in Built(tree) : \E b \in Decls(tree, h) : c.to = generateID(h, b) /\ Candidate(tree, x, h, b)
      BY <1>3, <2>1, <2>2, <2>5
    <2> QED BY <1>3, <1>5, <2>6 DEF Leads
  <1> QED BY <1>4, <1>5 DEF Callees

\* Units that see types of the same packages as the same.
LEMMA SeenPlain ==
  ASSUME NEW t, NEW p, NEW pkg
  PROVE  Seen(t, <<p, "plain">>, pkg, size) = <<Chunk(t, p, size), pkg, "plain">>
BY DEF Seen

LEMMA SeenElsewhere ==
  ASSUME NEW t, NEW v, NEW pkg, pkg[1] # v[1]
  PROVE  Seen(t, v, pkg, size) = <<Chunk(t, v[1], size), pkg, "plain">>
BY DEF Seen

\* A unit of the caller and one of the method in which the checker finds that
\* the type implements the interface.
LEMMA UnitsThatAgree ==
  ASSUME TreeOK(tree), SizeOK, NEW f \in Built(tree), ~File[f].test, NEW x, SameTypes(tree, x),
         NEW g \in Built(tree), NEW d, Reaches(tree, f, x, g, d)
  PROVE  \E u \in Loaded(tree) : \E v \in Loaded(tree) :
           /\ f \in Sources(tree, u) /\ g \in Sources(tree, v)
           /\ InterfaceSet(tree, u, x, size) \subseteq MethodSet(tree, v, d.of, size)
  <1> DEFINE p == File[f].pkg
             q == File[g].pkg
  <1>1. /\ <<p, "plain">> \in Loaded(tree) /\ f \in Sources(tree, <<p, "plain">>)
        /\ p \in Listed /\ q \in Listed
    <2>1. f \in Production(tree, f)
      BY DEF Production, Package
    <2> QED BY <2>1, UnitOfProduction DEF Built, IsBuilt
  <1>2. OneLoad => Chunk(tree, p, size) = 0 /\ Chunk(tree, q, size) = 0
    BY <1>1, OneChunk
  <1> HIDE DEF p, q
  <1>3. ASSUME NEW i \in Interface(tree, x), NEW s \in i.sig PROVE Chunk(tree, p, size) = Chunk(tree, q, size)
    <2>1. OneLoad
      BY DEF SameTypes
    <2> QED BY <1>2, <2>1
  <1>4. CASE ~File[g].test /\ Implements(tree, d.of, Production(tree, g), x)
    <2>1. /\ <<q, "plain">> \in Loaded(tree) /\ Sources(tree, <<q, "plain">>) = Production(tree, g)
          /\ g \in Sources(tree, <<q, "plain">>)
      BY <1>4, UnitOfProduction DEF q, Production, Package
    <2>2. \A i \in Interface(tree, x) : \A s \in i.sig :
            Seen(tree, <<p, "plain">>, s.pkg, size) = Seen(tree, <<q, "plain">>, s.pkg, size)
      BY <1>3, SeenPlain
    <2>3. InterfaceSet(tree, <<p, "plain">>, x, size) \subseteq MethodSet(tree, <<q, "plain">>, d.of, size)
      BY <1>4, <2>1, <2>2, ImplementsSeen
    <2> QED BY <1>1, <2>1, <2>3
  <1> DEFINE v == Whole(tree, g)
  <1>5. /\ v \in Loaded(tree) /\ v[1] = q /\ Sources(tree, v) = Package(tree, g) /\ g \in Sources(tree, v)
        /\ Implements(tree, d.of, Sources(tree, v), x)
    BY UnitOfPackage DEF q, Package, Reaches, Candidate
  <1> HIDE DEF v
  <1>6. CASE PkgPath(g) = PkgPath(f)
    <2>1. f \in Sources(tree, v)
      BY <1>5, <1>6 DEF Package
    <2>2. InterfaceSet(tree, v, x, size) \subseteq MethodSet(tree, v, d.of, size)
      BY <1>5, ImplementsSeen
    <2> QED BY <1>5, <2>1, <2>2
  <1>7. CASE \A i \in Interface(tree, x) : \A s \in i.sig : s.pkg[1] # q
    <2>1. ASSUME NEW i \in Interface(tree, x), NEW s \in i.sig
          PROVE  Seen(tree, <<p, "plain">>, s.pkg, size) = Seen(tree, v, s.pkg, size)
      <3>1. s.pkg[1] # v[1]
        BY <1>5, <1>7
      <3>2. Seen(tree, v, s.pkg, size) = <<Chunk(tree, q, size), s.pkg, "plain">>
        BY <1>5, <3>1, SeenElsewhere
      <3> QED BY <1>3, <3>2, SeenPlain
    <2>2. InterfaceSet(tree, <<p, "plain">>, x, size) \subseteq MethodSet(tree, v, d.of, size)
      BY <1>5, <2>1, ImplementsSeen
    <2> QED BY <1>1, <1>5, <2>2
  <1> QED BY <1>4, <1>6, <1>7 DEF Reaches, q

LEMMA CallsReach ==
  ASSUME TreeOK(tree), SizeOK, NEW only, NEW f \in Built(tree) \cap only, ~File[f].test,
         NEW e \in tree[f].uses, e.at # 0, NEW x \in Meaning(tree, e.key), x[2].kind = "imethod", SameTypes(tree, x),
         NEW i \in Enclosing(tree, f, e.line), NEW g \in Built(tree), NEW d \in Decls(tree, g), Reaches(tree, f, x, g, d)
  PROVE  Edge(f, e, i, <<g, d>>) \in Links(ExtractSymbols(tree), only).calls
  <1> DEFINE symbols == ExtractSymbols(tree)
             j == generateID(g, d)
  <1>1. PICK u \in Loaded(tree), v \in Loaded(tree) :
          /\ f \in Sources(tree, u) /\ g \in Sources(tree, v)
          /\ InterfaceSet(tree, u, x, size) \subseteq MethodSet(tree, v, d.of, size)
    BY UnitsThatAgree
  <1>2. d.kind = "method" /\ d.name = x[2].name
    BY DEF Reaches, Candidate
  <1>3. j \in Dispatch(tree, size, u, x)
    BY <1>1, <1>2, DispatchIs
  <1>4. j \in Callees(tree, symbols, size, u, x)
    BY <1>3, NotFound DEF Callees
  <1> HIDE DEF j
  <1>5. [file |-> f, line |-> e.at, from |-> i, to |-> j] \in ExtractCallGraph(tree, symbols, size, u, only)
    BY <1>1, <1>4 DEF ExtractCallGraph
  <1> QED BY <1>1, <1>5 DEF Links, Edge, j

\* What the calls table says of a tree after a full run.
Reached(t, calls) ==
  \A f \in Built(t) : \A e \in t[f].uses : \A x \in Meaning(t, e.key) :
    ~File[f].test /\ e.at # 0 /\ x[2].kind = "imethod" /\ SameTypes(t, x) =>
      \A i \in Enclosing(t, f, e.line) : \A g \in Built(t) : \A d \in Decls(t, g) :
        Reaches(t, f, x, g, d) => Edge(f, e, i, <<g, d>>) \in calls
DispatchOf(t, calls) == (\A c \in calls : c.file \in Built(t) /\ Leads(t, c)) /\ Reached(t, calls)

LEMMA ImplementsAlike ==
  ASSUME NEW t, NEW s, SameBuild(t, s), NEW key, NEW x \in Meaning(t, key), NEW g \in Built(t), NEW f, NEW d
  PROVE  /\ Interface(t, x) = Interface(s, x)
         /\ Candidate(t, x, g, d) <=> Candidate(s, x, g, d)
         /\ Reaches(t, f, x, g, d) <=> Reaches(s, f, x, g, d)
  <1>1. Built(t) = Built(s) /\ \A h \in Built(t) : t[h] = s[h] /\ Decls(t, h) = Decls(s, h)
    BY TreesAlike DEF Decls
  <1>2. x[1] \in Built(t)
    BY MeaningIs
  <1>3. Interface(t, x) = Interface(s, x)
    BY <1>1, <1>2 DEF Interface
  <1>4. Package(t, g) = Package(s, g) /\ Production(t, g) = Production(s, g) /\ Package(t, g) \subseteq Built(t) /\ Production(t, g) \subseteq Built(t)
    BY <1>1 DEF Package, Production
  <1>5. ASSUME NEW files, files \subseteq Built(t)
        PROVE  Implements(t, d.of, files, x) <=> Implements(s, d.of, files, x)
    <2>1. UNION {Decls(t, h) : h \in files} = UNION {Decls(s, h) : h \in files}
      BY <1>1, <1>5
    <2> QED BY <1>3, <2>1 DEF Implements
  <1>6. Candidate(t, x, g, d) <=> Candidate(s, x, g, d)
    BY <1>4, <1>5 DEF Candidate
  <1> QED BY <1>3, <1>4, <1>5, <1>6 DEF Reaches

LEMMA DispatchTransfer ==
  ASSUME NEW t, NEW s, SameBuild(t, s), NEW calls, DispatchOf(t, calls)
  PROVE  DispatchOf(s, calls)
  <1>1. /\ Built(t) = Built(s)
        /\ \A h \in Built(t) : t[h] = s[h] /\ Decls(t, h) = Decls(s, h) /\ \A line : Enclosing(t, h, line) = Enclosing(s, h, line)
    BY TreesAlike, FileAlike
  <1>2. \A key : Meaning(t, key) = Meaning(s, key)
    BY TreesAlike
  <1>3. ASSUME NEW c \in calls PROVE c.file \in Built(s) /\ Leads(s, c)
    <2>1. c.file \in Built(t) /\ Leads(t, c)
      BY DEF DispatchOf
    <2>2. PICK e \in t[c.file].uses : \E x \in Meaning(t, e.key) :
            /\ e.at = c.line /\ c.from \in Enclosing(t, c.file, e.line)
            /\ \/ c.to = generateID(x[1], x[2])
               \/ /\ x[2].kind = "imethod"
                  /\ \E g \in Built(t) : \E d \in Decls(t, g) : c.to = generateID(g, d) /\ Candidate(t, x, g, d)
      BY <2>1 DEF Leads
    <2>3. PICK x \in Meaning(t, e.key) :
            /\ e.at = c.line /\ c.from \in Enclosing(t, c.file, e.line)
            /\ \/ c.to = generateID(x[1], x[2])
               \/ /\ x[2].kind = "imethod"
                  /\ \E g \in Built(t) : \E d \in Decls(t, g) : c.to = generateID(g, d) /\ Candidate(t, x, g, d)
      BY <2>2
    <2>4. e \in s[c.file].uses /\ x \in Meaning(s, e.key) /\ c.from \in Enclosing(s, c.file, e.line)
      BY <1>1, <1>2, <2>1, <2>3
    <2>5. ASSUME \E g \in Built(t) : \E d \in Decls(t, g) : c.to = generateID(g, d) /\ Candidate(t, x, g, d)
          PROVE  \E g \in Built(s) : \E d \in Decls(s, g) : c.to = generateID(g, d) /\ Candidate(s, x, g, d)
      <3>1. PICK g \in Built(t) : \E d \in Decls(t, g) : c.to = generateID(g, d) /\ Candidate(t, x, g, d)
        BY <2>5
      <3>d. PICK d \in Decls(t, g) : c.to = generateID(g, d) /\ Candidate(t, x, g, d)
        BY <3>1
      <3>2. Candidate(s, x, g, d)
        BY <3>d, ImplementsAlike
      <3> QED BY <1>1, <3>d, <3>2
    <2> QED BY <1>1, <2>1, <2>3, <2>4, <2>5 DEF Leads
  <1>4. Reached(s, calls)
    <2> SUFFICES ASSUME NEW f \in Built(s), NEW e \in s[f].uses, NEW x \in Meaning(s, e.key),
                        ~File[f].test, e.at # 0, x[2].kind = "imethod", SameTypes(s, x),
                        NEW i \in Enclosing(s, f, e.line), NEW g \in Built(s), NEW d \in Decls(s, g), Reaches(s, f, x, g, d)
                 PROVE  Edge(f, e, i, <<g, d>>) \in calls
      BY DEF Reached
    <2>1. f \in Built(t) /\ e \in t[f].uses /\ x \in Meaning(t, e.key) /\ i \in Enclosing(t, f, e.line) /\ g \in Built(t) /\ d \in Decls(t, g)
      BY <1>1, <1>2
    <2>2. Interface(t, x) = Interface(s, x) /\ Reaches(t, f, x, g, d)
      BY <2>1, ImplementsAlike
    <2>3. SameTypes(t, x)
      BY <2>2 DEF SameTypes
    <2> QED BY <2>1, <2>2, <2>3 DEF DispatchOf, Reached
  <1> QED BY <1>3, <1>4 DEF DispatchOf

\* A full run leaves such a table, and no other step that keeps whole touches it.
DispatchInv == IInv /\ (whole => DispatchOf(stored, db.calls))

LEMMA DispatchAfterFullRun ==
  ASSUME IInv, FullRun
  PROVE  DispatchOf(stored', db'.calls) /\ size' = size
  <1>1. TypeOK /\ Compiles(tree) /\ Finish /\ TreeOK(tree) /\ SizeOK /\ Built(tree) \subseteq Files
    BY DEF FullRun, IInv, TypeOK, Built
  <1> DEFINE calls == Links(ExtractSymbols(tree), Files).calls
  <1>2. db'.calls = calls
    BY DEF FullRun
  <1>3. \A c \in calls : c.file \in Built(tree) /\ Leads(tree, c)
    BY <1>1, CallsOnly, CallsLead
  <1>4. Reached(tree, calls)
    <2> SUFFICES ASSUME NEW f \in Built(tree), NEW e \in tree[f].uses, NEW x \in Meaning(tree, e.key),
                        ~File[f].test, e.at # 0, x[2].kind = "imethod", SameTypes(tree, x),
                        NEW i \in Enclosing(tree, f, e.line), NEW g \in Built(tree), NEW d \in Decls(tree, g), Reaches(tree, f, x, g, d)
                 PROVE  Edge(f, e, i, <<g, d>>) \in calls
      BY DEF Reached
    <2>1. f \in Built(tree) \cap Files
      BY <1>1
    <2> QED BY <1>1, <2>1, CallsReach
  <1>5. SameBuild(tree, stored')
    BY <1>1, Finished
  <1>6. DispatchOf(tree, calls)
    BY <1>3, <1>4 DEF DispatchOf
  <1> HIDE DEF calls
  <1> QED BY <1>1, <1>2, <1>5, <1>6, DispatchTransfer DEF Finish

LEMMA DispatchKept ==
  ASSUME DispatchOf(stored, db.calls), UNCHANGED <<size, stored, db>>
  PROVE  DispatchOf(stored, db.calls)'
  <1>1. DispatchOf(stored', db'.calls)
    OBVIOUS
  <1> QED BY <1>1 DEF DispatchOf, Leads, Reached, SameTypes, OneLoad

LEMMA DispatchOfStored == Spec => []DispatchInv
  <1>1. Init => (whole => DispatchOf(stored, db.calls))
    BY DEF Init
  <1>2. IInv /\ (whole => DispatchOf(stored, db.calls)) /\ [Next]_vars => (whole => DispatchOf(stored, db.calls))'
    <2> SUFFICES ASSUME IInv, whole => DispatchOf(stored, db.calls), [Next]_vars, whole'
                 PROVE  DispatchOf(stored, db.calls)'
      OBVIOUS
    <2>1. CASE FullRun
      <3>1. DispatchOf(stored', db'.calls) /\ size' = size
        BY <2>1, DispatchAfterFullRun
      <3> QED BY <3>1 DEF DispatchOf, Leads, Reached, SameTypes, OneLoad
    <2>2. CASE UNCHANGED <<size, stored, db, whole>>
      BY <2>2, DispatchKept
    <2>3. ASSUME NEW f \in Files, NEW c \in Contents[f], Edit(f, c) PROVE UNCHANGED <<size, stored, db, whole>>
      BY <2>3 DEF Edit
    <2>4. CASE runIncrementalIndex
      BY <2>4 DEF runIncrementalIndex
    <2>5. UNCHANGED vars => UNCHANGED <<size, stored, db, whole>>
      BY DEF vars
    <2> QED BY <2>1, <2>2, <2>3, <2>4, <2>5 DEF Next
  <1> QED BY <1>1, <1>2, TablesOfStored, PTL DEF Spec, DispatchInv

\* After a full run, calls through interfaces lead to implementations and to
\* nothing else, and those of production code to all that are told by
\* production code, and by tests where the checker can tell: for any packages,
\* contents and chunk sizes (callgraph.go).
THEOREM DispatchIsComplete == Spec => []DispatchComplete
  <1>1. DispatchInv => DispatchComplete
    <2> SUFFICES ASSUME IInv, DispatchOf(stored, db.calls), Current PROVE DispatchComplete
      BY DEF DispatchInv, DispatchComplete
    <2>1. DispatchOf(tree, db.calls)
      BY CurrentIsAlike, DispatchTransfer
    <2>2. \A c \in db.calls : Leads(tree, c)
      BY <2>1 DEF DispatchOf
    <2>3. Reached(tree, db.calls)
      BY <2>1 DEF DispatchOf
    <2>4. \A f, e, i, g, d : Edge(f, e, i, <<g, d>>) = [file |-> f, line |-> e.at, from |-> i, to |-> generateID(g, d)]
      BY DEF Edge
    <2>5. ASSUME NEW f \in Built(tree), ~File[f].test, NEW e \in tree[f].uses, e.at # 0,
                 NEW x \in Meaning(tree, e.key), x[2].kind = "imethod", SameTypes(tree, x),
                 NEW i \in Enclosing(tree, f, e.line), NEW g \in Built(tree), NEW d \in Decls(tree, g), Reaches(tree, f, x, g, d)
          PROVE  [file |-> f, line |-> e.at, from |-> i, to |-> generateID(g, d)] \in db.calls
      BY <2>3, <2>4, <2>5 DEF Reached
    <2> QED BY <2>2, <2>5 DEF DispatchComplete, Leads
  <1> QED BY <1>1, DispatchOfStored, PTL
=============================================================================
