------------------------------ MODULE EditProofs ------------------------------
(***************************************************************************)
(* snipe edit keeps its promises for any files, requests, batch and number *)
(* of edits by the user.                                                   *)
(***************************************************************************)
EXTENDS Edit, WellFoundedInduction, FiniteSetTheorems, SequenceTheorems, TLAPS

-----------------------------------------------------------------------------
(* Numbers and sequences.                                                  *)

\* The least-number principle: sets of numbers up to a bound are finite, and
\* finite sets are well-founded by inclusion.
LEMMA LeastOfNats ==
  ASSUME NEW S \in SUBSET Nat, S # {}
  PROVE  \E n \in S : \A m \in S : n <= m
  <1> DEFINE Upto(n) == S \cap (0 .. n)
             T == {Upto(n) : n \in S}
  <1>1. T \subseteq FiniteSubsetsOf(Nat)
    <2> SUFFICES ASSUME NEW n \in S PROVE Upto(n) \in FiniteSubsetsOf(Nat)
      OBVIOUS
    <2>1. IsFiniteSet(0 .. n)
      BY FS_Interval
    <2>2. IsFiniteSet(Upto(n))
      BY <2>1, FS_Subset
    <2> QED BY <2>2 DEF FiniteSubsetsOf
  <1>2. PICK U \in T : \A V \in T : ~(<<V, U>> \in StrictSubsetOrdering(Nat))
    <2>1. T # {}
      OBVIOUS
    <2> HIDE DEF T
    <2> QED BY ONLY <1>1, <2>1, WFMin, FS_StrictSubsetOrderingWellFounded
  <1>3. PICK n \in S : U = Upto(n)
    OBVIOUS
  <1>4. ASSUME NEW m \in S, m < n PROVE FALSE
    <2>1. Upto(m) \subseteq Upto(n) /\ n \in Upto(n) /\ n \notin Upto(m)
      BY <1>4
    <2>2. <<Upto(m), Upto(n)>> \in StrictSubsetOrdering(Nat)
      BY <2>1 DEF StrictSubsetOrdering
    <2> QED BY <1>2, <1>3, <2>2
  <1> QED BY <1>4

\* A flattened sequence has the elements of its parts.
LEMMA FlattenType ==
  ASSUME NEW S, NEW seqs \in Seq(Seq(S))
  PROVE  FlattenSeq(seqs) \in Seq(S)
  <1> DEFINE F == CHOOSE f : f = [i \in 1..Len(seqs) |-> IF i = 1 THEN seqs[i] ELSE f[i - 1] \o seqs[i]]
  <1>1. FlattenSeq(seqs) = IF Len(seqs) = 0 THEN seqs ELSE F[Len(seqs)]
    BY DEF FlattenSeq
  <1>2. CASE Len(seqs) = 0
    BY <1>1, <1>2
  <1>3. CASE Len(seqs) # 0
    <2> DEFINE N == Len(seqs)
               Next1(f, i) == IF i = 1 THEN seqs[i] ELSE f[i - 1] \o seqs[i]
               Flat(f, n) == f = [i \in 1 .. n |-> Next1(f, i)]
               Missing == {n \in 0 .. N : \A f : ~Flat(f, n)}
    <2>1. N \in Nat \ {0}
      BY <1>3
    <2> HIDE DEF Flat
    <2>2. Missing = {}
      <3> SUFFICES ASSUME Missing # {} PROVE FALSE
        OBVIOUS
      <3>1. PICK n \in Missing : \A m \in Missing : n <= m
        <4>1. Missing \in SUBSET Nat
          BY <2>1
        <4> HIDE DEF Missing
        <4> QED BY <4>1, LeastOfNats
      <3>2. n # 0
        <4>1. Flat([i \in 1 .. 0 |-> seqs[i]], 0)
          BY DEF Flat
        <4> QED BY <4>1
      <3>3. n - 1 \in 0 .. N /\ n - 1 \notin Missing
        <4>1. n \in 0 .. N
          BY <3>1
        <4>2. n \in Nat /\ ~(n <= n - 1)
          BY <4>1
        <4> HIDE DEF Missing, N
        <4> QED BY <2>1, <3>1, <3>2, <4>1, <4>2
      <3>4. PICK f : Flat(f, n - 1)
        BY <3>3
      <3> DEFINE g == [i \in 1 .. n |-> Next1(f, i)]
      <3>5. \A i \in 1 .. n - 1 : g[i] = f[i]
        <4>1. \A i \in 1 .. n - 1 : f[i] = Next1(f, i)
          BY <3>4 DEF Flat
        <4> QED BY <2>1, <3>3, <4>1
      <3>6. \A i \in 1 .. n : Next1(g, i) = Next1(f, i)
        <4> SUFFICES ASSUME NEW i \in 1 .. n PROVE Next1(g, i) = Next1(f, i)
          OBVIOUS
        <4>1. i # 1 => i - 1 \in 1 .. n - 1
          BY <2>1, <3>3
        <4>2. i # 1 => g[i - 1] = f[i - 1]
          BY <3>5, <4>1
        <4> HIDE DEF g
        <4> QED BY <4>2
      <3>7. Flat(g, n)
        BY <3>6 DEF Flat
      <3> QED BY <3>1, <3>7
    <2>3. \E f : Flat(f, N)
      BY <2>1, <2>2
    <2>4. F = [i \in 1 .. N |-> Next1(F, i)]
      BY <2>3 DEF Flat
    <2>5. \A i \in 1 .. N : F[i] = Next1(F, i)
      BY <2>4
    <2> DEFINE Bad == {n \in 1 .. N : F[n] \notin Seq(S)}
    <2> HIDE DEF F
    <2>6. Bad = {}
      <3> SUFFICES ASSUME Bad # {} PROVE FALSE
        OBVIOUS
      <3>1. PICK n \in Bad : \A m \in Bad : n <= m
        <4>1. Bad \in SUBSET Nat
          BY <2>1
        <4> HIDE DEF Bad
        <4> QED BY <4>1, LeastOfNats
      <3>2. seqs[n] \in Seq(S)
        BY <2>1
      <3>3. n # 1
        BY <2>5, <3>2
      <3>4. n - 1 \in 1 .. N /\ F[n - 1] \in Seq(S)
        BY <2>1, <3>1, <3>3
      <3>5. F[n] = F[n - 1] \o seqs[n]
        BY <2>5, <3>3
      <3>6. F[n - 1] \o seqs[n] \in Seq(S)
        BY ONLY <3>2, <3>4
      <3> QED BY <3>1, <3>5, <3>6
    <2> QED BY <1>1, <1>3, <2>1, <2>6
  <1> QED BY <1>2, <1>3

\* Min, as FindSymbol and Found choose it.
LEMMA FirstExists ==
  ASSUME NEW S \in SUBSET Nat, S # {}
  PROVE  LET p == CHOOSE p \in S : \A m \in S : p <= m
         IN p \in S /\ \A m \in S : p <= m
  BY LeastOfNats

LEMMA SetToSeqType ==
  ASSUME NEW S, IsFiniteSet(S)
  PROVE  SetToSeq(S) \in Seq(S)
  <1> DEFINE n == Cardinality(S)
  <1>1. n \in Nat /\ ExistsBijection(1 .. n, S)
    BY FS_CardinalityType
  <1>2. \E f \in [1 .. n -> S] : IsInjective(f)
    BY <1>1 DEF ExistsBijection, Bijection, Injection, Surjection, IsInjective
  <1>3. SetToSeq(S) \in [1 .. n -> S]
    BY <1>2 DEF SetToSeq
  <1> QED BY <1>1, <1>3

-----------------------------------------------------------------------------
(* The index.                                                              *)

\* What the symbols table says of a tree: a row for each name of each
\* declaration.
Rows(t) ==
  {r \in [id : Nat, name : STRING, file : DOMAIN t] :
     \E p \in DOMAIN t[r.file] : r.id = t[r.file][p].id /\ r.name \in t[r.file][p].names}

LEMMA RowsOfType ==
  ASSUME NEW t \in Trees, NEW K, NEW kinds \in Seq(K), NEW files \in Seq(DOMAIN t)
  PROVE  RowsOf(t, kinds, files) \in Seq(Rows(t))
  <1> DEFINE OfDecl(k, f, p) ==
               LET d == t[files[f]][p]
               IN IF d.kind = kinds[k]
                  THEN LET ns == SetToSeq(d.names)
                       IN [n \in 1..Len(ns) |-> [id |-> d.id, name |-> ns[n], file |-> files[f]]]
                  ELSE <<>>
             OfFile(k, f) == FlattenSeq([p \in 1..Len(t[files[f]]) |-> OfDecl(k, f, p)])
             OfKind(k) == FlattenSeq([f \in 1..Len(files) |-> OfFile(k, f)])
  <1>1. ASSUME NEW f \in 1..Len(files)
        PROVE  files[f] \in DOMAIN t /\ t[files[f]] \in Seq(Declaration)
    BY TreesAssumption
  <1>2. ASSUME NEW k \in 1..Len(kinds), NEW f \in 1..Len(files), NEW p \in 1..Len(t[files[f]])
        PROVE  OfDecl(k, f, p) \in Seq(Rows(t))
    <2> DEFINE d == t[files[f]][p]
               ns == SetToSeq(d.names)
    <2>1. d \in Declaration /\ IsFiniteSet(d.names) /\ p \in DOMAIN t[files[f]]
      BY <1>1, TreesAssumption
    <2>2. ns \in Seq(d.names)
      BY <2>1, SetToSeqType
    <2>3. ASSUME NEW n \in 1..Len(ns)
          PROVE  [id |-> d.id, name |-> ns[n], file |-> files[f]] \in Rows(t)
      <3>1. ns[n] \in d.names
        BY <2>2, <2>3
      <3> HIDE DEF ns
      <3> QED BY <1>1, <2>1, <3>1 DEF Rows, Declaration
    <2>4. Len(ns) \in Nat
      BY <2>2
    <2> HIDE DEF ns
    <2>5. [n \in 1..Len(ns) |-> [id |-> d.id, name |-> ns[n], file |-> files[f]]] \in Seq(Rows(t))
      BY <2>3, <2>4
    <2>6. <<>> \in Seq(Rows(t))
      OBVIOUS
    <2> QED BY <2>5, <2>6 DEF ns
  <1> HIDE DEF OfDecl
  <1>3. ASSUME NEW k \in 1..Len(kinds), NEW f \in 1..Len(files) PROVE OfFile(k, f) \in Seq(Rows(t))
    <2>1. [p \in 1..Len(t[files[f]]) |-> OfDecl(k, f, p)] \in Seq(Seq(Rows(t)))
      <3>1. Len(t[files[f]]) \in Nat
        BY <1>1
      <3> QED BY <1>2, <3>1
    <2> QED BY <2>1, FlattenType
  <1> HIDE DEF OfFile
  <1>4. ASSUME NEW k \in 1..Len(kinds) PROVE OfKind(k) \in Seq(Rows(t))
    <2>1. [f \in 1..Len(files) |-> OfFile(k, f)] \in Seq(Seq(Rows(t)))
      BY <1>3
    <2> QED BY <2>1, FlattenType
  <1> HIDE DEF OfKind
  <1>5. [k \in 1..Len(kinds) |-> OfKind(k)] \in Seq(Seq(Rows(t)))
    BY <1>4
  <1>6. FlattenSeq([k \in 1..Len(kinds) |-> OfKind(k)]) \in Seq(Rows(t))
    BY <1>5, FlattenType
  <1> QED BY <1>6 DEF RowsOf, OfKind, OfFile, OfDecl

-----------------------------------------------------------------------------
(* The invariant.                                                          *)

Stages == {"ask", "resolve", "read", "write", "verify", "emit", "done", "dead"}
Words == {"unresolved", "dry-run", "failed", "applied", "not durable"}
Row == [id : Nat, name : STRING, file : STRING]
Plan == [file : STRING, id : Nat, old : Seq(Declaration), new : Seq(Declaration)]

TypeOK ==
  /\ Files \subseteq STRING /\ tree \in [Files -> Seq(Declaration)]
  /\ index \in Seq(Row) /\ \A i \in DOMAIN index : index[i].file \in Files /\ index[i].id \in 1..Oldest
  /\ mode \in {"one", "batch"} /\ apply \in BOOLEAN
  /\ pc \in Stages /\ turn \in 1..MaxTurn
  /\ req \in Requests \cup {NoReq} /\ row \in Row \cup {NoRow} /\ plan \in Plan \cup {NoPlan}
  /\ answers \in Seq(Words) /\ users \in Nat
  /\ raced \in BOOLEAN /\ landed \in SUBSET (1..MaxTurn) /\ unsure \in BOOLEAN

\* A request is resolved to a row of the index, the same one on each attempt,
\* before a plan is made for it.
RowInv ==
  /\ pc \in {"resolve", "read", "write", "verify"} => req \in Requests
  /\ pc \in {"read", "write", "verify"} \/ plan # NoPlan => row # NoRow
  /\ row # NoRow => row = Found(req) /\ \E i \in DOMAIN index : row = index[i]

\* Wherever a declaration went that the index knows, it has the name that the
\* index has of it.
NamesKept(c) == \A i \in DOMAIN index : \A p \in DOMAIN c : c[p].id = index[i].id => index[i].name \in c[p].names
NamesInv == (\A f \in Files : NamesKept(tree[f])) /\ NamesKept(plan.old) /\ NamesKept(plan.new)

\* Which turns have landed, and what has been answered.
Active == pc \in {"ask", "resolve", "read", "write", "verify"}
LandedInv ==
  /\ landed \subseteq 1..turn
  /\ pc \in {"ask", "resolve", "read", "write"} => turn \notin landed
  /\ pc = "dead" => landed = {} \/ unsure
  /\ Active /\ mode = "one" => landed \subseteq {turn} \/ unsure
  /\ Active => Len(answers) = IF mode = "one" THEN 0 ELSE turn - 1
  /\ pc \in {"emit", "done"} => Len(answers) = IF mode = "one" THEN 1 ELSE turn
  /\ pc = "dead" => answers = <<>>
TrueAnswers ==
  \A i \in DOMAIN answers : IF answers[i] \in {"applied", "not durable"} THEN OnDisk(i) ELSE OnDisk(i) => unsure

\* The code of a request is nowhere before it has landed, and then in one place.
Mentions(c, t) == \E p \in DOMAIN c : c[p].id = New(t) \/ t \in c[p].body
Made(t) == IF mode = "one" THEN t = 1 /\ landed # {} ELSE t \in landed
FreshInv == \A t \in 1..MaxTurn : ~Made(t) => \A f \in Files : ~Mentions(tree[f], t)
Once(c, t) == \A p, n \in DOMAIN c : c[p].id = New(t) /\ c[n].id = New(t) => p = n
Has(c, t) == \E p \in DOMAIN c : c[p].id = New(t)
OnceInv == \A t \in 1..MaxTurn : unsure \/
  /\ \A f \in Files : Once(tree[f], t)
  /\ \A f, g \in Files : Has(tree[f], t) /\ Has(tree[g], t) => f = g

\* e is c with code of the request t, in place of the target or beside it: src
\* tells where a declaration comes from, 0 for the new one.
IsSource(src, c, e, t, target) ==
  /\ src \in [DOMAIN e -> 0..Len(c)]
  /\ \A i, j \in DOMAIN e : src[i] = src[j] => i = j
  /\ \A i, j \in DOMAIN e : i < j /\ src[i] # 0 /\ src[j] # 0 => src[i] < src[j]
  /\ \A i \in DOMAIN e : src[i] = 0 => e[i].id = New(t) /\ e[i].body = {t}
  /\ \A i \in DOMAIN e : src[i] # 0 =>
       /\ e[i].id = c[src[i]].id /\ e[i].names = c[src[i]].names
       /\ e[i].body \subseteq c[src[i]].body \cup {t}
       /\ c[src[i]].id # target => e[i] = c[src[i]]
  /\ \A k \in DOMAIN c : c[k].id # target => \E i \in DOMAIN e : src[i] = k
Derived(c, e, t, target) ==
  /\ \E src : IsSource(src, c, e, t, target)
  /\ Mentions(e, t) \/ Len(e) < Len(c)

\* Until it lands, a plan is about a file that has what the plan started from.
PlanInv ==
  pc \in {"write", "verify"} =>
    /\ plan.file \in Files
    /\ Derived(plan.old, plan.new, Mark, plan.id)
    /\ turn \notin landed =>
         /\ raced \/ tree[plan.file] = plan.old
         /\ Len(plan.old) <= Len(tree[plan.file])
         /\ \A t \in 1..MaxTurn : /\ Mentions(plan.old, t) => Mentions(tree[plan.file], t)
                                  /\ Has(plan.old, t) => Has(tree[plan.file], t)
                                  /\ unsure \/ Once(plan.old, t)

EditInv == /\ TypeOK /\ RowInv /\ NamesInv /\ LandedInv /\ TrueAnswers
           /\ FreshInv /\ OnceInv /\ PlanInv /\ TargetUnlessNamesake

-----------------------------------------------------------------------------
(* The edit of a file's content.                                           *)

LEMMA FindSymbolIsFirst ==
  ASSUME NEW c \in Seq(Declaration), NEW n
  PROVE  /\ FindSymbol(c, n) \in Nat
         /\ FindSymbol(c, n) # 0 => /\ FindSymbol(c, n) \in DOMAIN c /\ Declares(c[FindSymbol(c, n)], n)
                                    /\ \A p \in DOMAIN c : Declares(c[p], n) => FindSymbol(c, n) <= p
  <1> DEFINE hits == {p \in DOMAIN c : Declares(c[p], n)}
  <1>1. CASE hits = {}
    BY <1>1 DEF FindSymbol
  <1>2. CASE hits # {}
    <2>1. hits \in SUBSET Nat /\ hits \subseteq DOMAIN c
      OBVIOUS
    <2>2. FindSymbol(c, n) = CHOOSE p \in hits : \A q \in hits : p <= q
      BY <1>2 DEF FindSymbol
    <2>3. FindSymbol(c, n) \in hits /\ \A q \in hits : FindSymbol(c, n) <= q
      <3> HIDE DEF hits
      <3> QED BY <1>2, <2>1, <2>2, FirstExists
    <2>4. \A p \in DOMAIN c : p # 0
      OBVIOUS
    <2> QED BY <2>1, <2>3, <2>4
  <1> QED BY <1>1, <1>2

\* A declaration changed from within.
LEMMA WithinDerived ==
  ASSUME NEW c \in Seq(Declaration), NEW q \in Request, NEW t \in Nat, NEW p \in DOMAIN c
  PROVE  LET e == [c EXCEPT ![p] = Within(@, q, t)]
         IN e \in Seq(Declaration) /\ Derived(c, e, t, c[p].id)
  <1> DEFINE e == [c EXCEPT ![p] = Within(@, q, t)]
             w == Within(c[p], q, t)
  <1>1. /\ w \in Declaration /\ w.id = c[p].id /\ w.names = c[p].names
        /\ t \in w.body /\ w.body \subseteq c[p].body \cup {t}
    <2>1. c[p] \in Declaration
      OBVIOUS
    <2> QED BY <2>1 DEF Within, Declaration
  <1> HIDE DEF w
  <1>2. e = [c EXCEPT ![p] = w]
    BY DEF w
  <1>3. e \in Seq(Declaration) /\ Len(e) = Len(c) /\ DOMAIN e = DOMAIN c
        /\ \A i \in DOMAIN c : e[i] = IF i = p THEN w ELSE c[i]
    BY <1>1, <1>2
  <1> HIDE DEF e
  <1> DEFINE src == [i \in DOMAIN e |-> i]
  <1>4. IsSource(src, c, e, t, c[p].id)
    <2>1. src \in [DOMAIN e -> 0..Len(c)] /\ \A i \in DOMAIN e : src[i] = i /\ i # 0
      BY <1>3
    <2>2. \A i \in DOMAIN e : /\ e[i].id = c[i].id /\ e[i].names = c[i].names
                              /\ e[i].body \subseteq c[i].body \cup {t}
                              /\ c[i].id # c[p].id => e[i] = c[i]
      BY <1>1, <1>3
    <2> HIDE DEF src
    <2> QED BY <1>3, <2>1, <2>2 DEF IsSource
  <1>5. Mentions(e, t)
    BY <1>1, <1>3 DEF Mentions
  <1> QED BY <1>3, <1>4, <1>5 DEF Derived, e

\* Code put before, after or in place of the declaration at p.
LEMMA PutDerived ==
  ASSUME NEW c \in Seq(Declaration), NEW q \in Request, NEW t \in Nat, NEW p \in DOMAIN c,
         NEW front \in {p - 1, p}, NEW back \in {p, p + 1}, front < back, q.code # "stmt",
         q.code = "empty" => front = p - 1 /\ back = p + 1
  PROVE  LET e == SubSeq(c, 1, front) \o Code(q, t) \o SubSeq(c, back, Len(c))
         IN e \in Seq(Declaration) /\ Derived(c, e, t, c[p].id)
  <1> DEFINE k == Code(q, t)
             e == SubSeq(c, 1, front) \o k \o SubSeq(c, back, Len(c))
  <1>1. PICK L \in Nat : L = Len(c) /\ DOMAIN c = 1..L
    OBVIOUS
  <1>2. PICK m \in {0, 1} : /\ k \in Seq(Declaration) /\ Len(k) = m
                            /\ m = 1 => k[1].id = New(t) /\ k[1].body = {t}
                            /\ m = 0 => q.code = "empty"
    <2>1. CASE q.code = "empty"
      BY <2>1 DEF Code
    <2>2. CASE q.code # "empty"
      <3> DEFINE d == [id |-> New(t), kind |-> q.code, names |-> {q.name}, inner |-> {}, body |-> {t}]
      <3>1. d \in Declaration /\ d.id = New(t) /\ d.body = {t}
        BY <2>2 DEF Declaration, Request, Codes, Kinds, New, Oldest
      <3>2. k = <<d>>
        BY <2>2 DEF Code
      <3> HIDE DEF d, k
      <3> QED BY <3>1, <3>2
    <2> QED BY <2>1, <2>2
  <1>3. p \in 1..L /\ front \in 0..L /\ back \in 1..(L + 1) /\ front < back /\ m \in Nat
    BY <1>1
  <1> DEFINE n == front + m + (L - back + 1)
  <1> HIDE DEF k
  <1>4. /\ e \in Seq(Declaration) /\ Len(e) = n
        /\ \A i \in 1..front : e[i] = c[i]
        /\ \A i \in 1..m : e[front + i] = k[i]
        /\ \A i \in (front + m + 1)..n : e[i] = c[i - front - m + back - 1]
    <2> DEFINE a == SubSeq(c, 1, front)
               b == SubSeq(c, back, Len(c))
               ak == a \o k
    <2>0. e = ak \o b /\ Len(c) = L /\ Len(k) = m /\ c \in Seq(Declaration) /\ k \in Seq(Declaration)
      BY <1>1, <1>2
    <2> HIDE DEF e
    <2>1. \A i \in 1..L : c[i] \in Declaration
      BY <1>1
    <2>2. a \in Seq(Declaration) /\ Len(a) = front /\ \A i \in 1..front : a[i] = c[i]
      <3>1. \A i \in 1..front : c[i] \in Declaration
        BY <1>3, <2>1
      <3> QED BY <1>3, <2>0, <3>1, SubSeqProperties
    <2>3. b \in Seq(Declaration) /\ Len(b) = L - back + 1 /\ \A i \in 1..(L - back + 1) : b[i] = c[back + i - 1]
      <3>1. \A i \in back..L : c[i] \in Declaration
        BY <1>3, <2>1
      <3> QED BY <1>3, <2>0, <3>1, SubSeqProperties
    <2> HIDE DEF a, b
    <2>4. /\ ak \in Seq(Declaration) /\ Len(ak) = front + m
          /\ \A i \in 1..(front + m) : ak[i] = IF i <= front THEN a[i] ELSE k[i - front]
      BY <1>3, <2>0, <2>2, ConcatProperties
    <2> HIDE DEF ak
    <2>5. /\ e \in Seq(Declaration) /\ Len(e) = front + m + (L - back + 1)
          /\ \A i \in 1..(front + m + (L - back + 1)) :
               e[i] = IF i <= front + m THEN ak[i] ELSE b[i - (front + m)]
      <3>1. front + m \in Nat /\ L - back + 1 \in Nat
        BY <1>3
      <3>2. /\ e \in Seq(Declaration) /\ Len(e) = Len(ak) + Len(b)
            /\ \A i \in 1..(Len(ak) + Len(b)) : e[i] = IF i <= Len(ak) THEN ak[i] ELSE b[i - Len(ak)]
        <4>1. /\ ak \o b \in Seq(Declaration) /\ Len(ak \o b) = Len(ak) + Len(b)
              /\ \A i \in 1..(Len(ak) + Len(b)) : (ak \o b)[i] = IF i <= Len(ak) THEN ak[i] ELSE b[i - Len(ak)]
          BY <2>3, <2>4, ConcatProperties
        <4> QED BY ONLY <2>0, <4>1
      <3> QED BY <2>3, <2>4, <3>1, <3>2
    <2>6. \A i \in 1..front : e[i] = c[i]
      BY <1>3, <2>2, <2>4, <2>5
    <2>7. ASSUME NEW i \in 1..m PROVE e[front + i] = k[i]
      <3>1. front + i \in 1..(front + m) /\ ~(front + i <= front) /\ (front + i) - front = i
        BY <1>3
      <3>2. ak[front + i] = k[i]
        BY <2>4, <3>1
      <3>3. front + i \in 1..(front + m + (L - back + 1)) /\ front + i <= front + m
        BY <1>3, <3>1
      <3>4. e[front + i] = ak[front + i]
        BY ONLY <2>5, <3>3
      <3> QED BY <3>2, <3>4
    <2>8. ASSUME NEW i \in (front + m + 1)..(front + m + (L - back + 1))
          PROVE  e[i] = c[i - front - m + back - 1]
      <3>1. /\ i \in 1..(front + m + (L - back + 1)) /\ ~(i <= front + m)
            /\ i - (front + m) \in 1..(L - back + 1)
            /\ back + (i - (front + m)) - 1 = i - front - m + back - 1
        BY <1>3
      <3>2. e[i] = b[i - (front + m)]
        BY <2>5, <3>1
      <3> QED BY <2>3, <3>1, <3>2
    <2> QED BY <2>5, <2>6, <2>7, <2>8
  <1> HIDE DEF e
  <1>5. n \in Nat /\ DOMAIN e = 1..n
    BY <1>3, <1>4
  <1> DEFINE src == [i \in 1..n |-> IF i <= front THEN i
                                    ELSE IF i <= front + m THEN 0
                                    ELSE i - front - m + back - 1]
  <1>6. ASSUME NEW i \in 1..n
        PROVE  \/ i <= front /\ src[i] = i /\ e[i] = c[src[i]] /\ src[i] \in 1..L
               \/ i = front + 1 /\ m = 1 /\ src[i] = 0 /\ e[i] = k[1]
               \/ /\ i > front + m /\ src[i] = i - front - m + back - 1
                  /\ e[i] = c[src[i]] /\ src[i] \in 1..L /\ src[i] > front
    <2> HIDE DEF n
    <2>1. CASE i <= front
      <3>1. src[i] = i /\ i \in 1..front
        BY <1>3, <1>5, <2>1
      <3> QED BY <1>3, <1>4, <2>1, <3>1
    <2>2. CASE i > front /\ i <= front + m
      <3>1. m = 1 /\ i = front + 1
        BY <1>3, <1>5, <2>2
      <3>2. src[i] = 0
        BY <1>3, <1>5, <2>2
      <3> QED BY <1>4, <3>1, <3>2
    <2>3. CASE i > front + m
      <3>1. src[i] = i - front - m + back - 1
        BY <1>3, <1>5, <2>3
      <3>2. i \in (front + m + 1)..n
        BY <1>3, <1>5, <2>3
      <3>3. src[i] \in 1..L /\ src[i] > front
        BY <1>3, <2>3, <3>1 DEF n
      <3> HIDE DEF src
      <3> QED BY <1>4, <2>3, <3>1, <3>2, <3>3
    <2> QED BY <1>3, <1>5, <2>1, <2>2, <2>3
  <1>7. IsSource(src, c, e, t, c[p].id)
    <2>1. src \in [1..n -> 0..L]
      <3>1. DOMAIN src = 1..n
        OBVIOUS
      <3>2. \A i \in 1..n : src[i] \in 0..L
        BY <1>6
      <3> QED BY <3>1, <3>2
    <2> HIDE DEF src, n
    <2>a. \A i \in 1..n : i \in Int /\ src[i] \in Int
      BY <1>5, <2>1
    <2>b. \A i \in 1..n : \/ i <= front /\ src[i] = i
                          \/ i = front + 1 /\ m = 1 /\ src[i] = 0
                          \/ i > front + m /\ src[i] = i - front - m + back - 1 /\ src[i] > front
      <3> SUFFICES ASSUME NEW i \in 1..n
                   PROVE  \/ i <= front /\ src[i] = i
                          \/ i = front + 1 /\ m = 1 /\ src[i] = 0
                          \/ i > front + m /\ src[i] = i - front - m + back - 1 /\ src[i] > front
        OBVIOUS
      <3> QED BY <1>6
    <2>c. \A i \in 1..n : i >= 1
      BY <1>5
    <2>2. \A i, j \in 1..n : src[i] = src[j] => i = j
      <3> SUFFICES ASSUME NEW i \in 1..n, NEW j \in 1..n, src[i] = src[j] PROVE i = j
        OBVIOUS
      <3> QED BY SMTT(30), <1>3, <2>a, <2>b, <2>c
    <2>3. \A i, j \in 1..n : i < j /\ src[i] # 0 /\ src[j] # 0 => src[i] < src[j]
      <3> SUFFICES ASSUME NEW i \in 1..n, NEW j \in 1..n, i < j, src[i] # 0, src[j] # 0 PROVE src[i] < src[j]
        OBVIOUS
      <3>1. CASE i <= front /\ src[i] = i
        BY <1>3, <2>a, <2>b, <2>c, <3>1
      <3>2. CASE i > front + m /\ src[i] = i - front - m + back - 1
        <4>1. j > front + m
          BY <1>3, <2>a, <3>2
        <4>2. src[j] = j - front - m + back - 1
          BY <1>3, <2>a, <2>b, <4>1
        <4> QED BY <1>3, <2>a, <3>2, <4>2
      <3> QED BY <2>b, <3>1, <3>2
    <2>4. \A i \in 1..n : src[i] = 0 => e[i].id = New(t) /\ e[i].body = {t}
      BY <1>2, <1>6
    <2>5. \A i \in 1..n : src[i] # 0 => e[i] = c[src[i]]
      BY <1>6
    <2>6. ASSUME NEW x \in 1..L, c[x].id # c[p].id PROVE \E i \in 1..n : src[i] = x
      <3>1. x # p
        BY <2>6
      <3>2. CASE x <= front
        <4>1. x \in 1..n
          BY <1>3, <3>2 DEF n
        <4> QED BY <1>3, <4>1, <3>2 DEF src
      <3>3. CASE x > front
        <4>1. x >= back
          BY <1>3, <3>1, <3>3
        <4> DEFINE i == x - back + 1 + front + m
        <4>2. i \in 1..n /\ i > front + m /\ ~(i <= front) /\ ~(i <= front + m) /\ i - front - m + back - 1 = x
          BY <1>3, <4>1 DEF n
        <4> HIDE DEF i
        <4> QED BY <4>2 DEF src
      <3> QED BY <1>3, <3>2, <3>3
    <2>7. \A i \in 1..n : src[i] # 0 =>
             /\ e[i].id = c[src[i]].id /\ e[i].names = c[src[i]].names
             /\ e[i].body \subseteq c[src[i]].body \cup {t}
      BY <2>5
    <2> QED BY <1>1, <1>5, <2>1, <2>2, <2>3, <2>4, <2>5, <2>6, <2>7 DEF IsSource
  <1>8. Mentions(e, t) \/ Len(e) < Len(c)
    <2>1. CASE m = 1
      <3>1. front + 1 \in 1..n /\ e[front + 1] = k[1]
        <4>1. front + 1 \in 1..n /\ 1 \in 1..m
          BY <1>3, <2>1
        <4> HIDE DEF n
        <4> QED BY <1>4, <4>1
      <3> QED BY <1>2, <1>5, <2>1, <3>1 DEF Mentions
    <2>2. CASE m = 0
      <3>1. front = p - 1 /\ back = p + 1
        BY <1>2, <2>2
      <3>2. Len(e) = p - 1 + 0 + (L - (p + 1) + 1)
        BY <1>4, <2>2, <3>1 DEF n
      <3> HIDE DEF n
      <3> QED BY <1>1, <1>3, <3>2
    <2> QED BY <2>1, <2>2
  <1> HIDE DEF n, src
  <1> QED BY <1>4, <1>7, <1>8 DEF Derived, e, k

LEMMA EditedDerived ==
  ASSUME NEW c \in Seq(Declaration), NEW q \in Request, NEW t \in Nat, Accepted(c, q),
         q.code = "empty" => q.op \in {"replace_body", "replace_full"}
  PROVE  /\ FindSymbol(c, q.name) \in DOMAIN c
         /\ Edited(c, q, t) \in Seq(Declaration)
         /\ Derived(c, Edited(c, q, t), t, c[FindSymbol(c, q.name)].id)
  <1> DEFINE p == FindSymbol(c, q.name)
             e == Edited(c, q, t)
  <1> SUFFICES p \in DOMAIN c /\ e \in Seq(Declaration) /\ Derived(c, e, t, c[p].id)
    OBVIOUS
  <1>1. p \in DOMAIN c /\ p \in Nat
    BY FindSymbolIsFirst DEF Accepted
  <1>2. CASE q.op = "replace_body" \/ ~AtTop(c, q)
    <2>1. e = [c EXCEPT ![p] = Within(@, q, t)]
      BY <1>2 DEF Edited
    <2> HIDE DEF e, p
    <2> QED BY <1>1, <2>1, WithinDerived
  <1>3. ASSUME NEW front \in {p - 1, p}, NEW back \in {p, p + 1}, front < back, AtTop(c, q), q.op # "replace_body",
               q.code = "empty" => front = p - 1 /\ back = p + 1,
               e = SubSeq(c, 1, front) \o Code(q, t) \o SubSeq(c, back, Len(c))
        PROVE  e \in Seq(Declaration) /\ Derived(c, e, t, c[p].id)
    <2>1. q.code # "stmt"
      BY <1>3 DEF Accepted
    <2> HIDE DEF e, p
    <2> QED BY <1>1, <1>3, <2>1, PutDerived
  <1>4. CASE q.op = "replace_full" /\ AtTop(c, q)
    <2>1. e = SubSeq(c, 1, p - 1) \o Code(q, t) \o SubSeq(c, p + 1, Len(c))
      BY <1>4 DEF Edited
    <2> HIDE DEF e, p
    <2>2. p - 1 \in {p - 1, p} /\ p + 1 \in {p, p + 1} /\ p - 1 < p + 1
      BY <1>1
    <2> QED BY <1>1, <1>3, <1>4, <2>1, <2>2
  <1>5. CASE q.op = "insert_after" /\ AtTop(c, q)
    <2>1. e = SubSeq(c, 1, p) \o Code(q, t) \o SubSeq(c, p + 1, Len(c))
      BY <1>5 DEF Edited
    <2> HIDE DEF e, p
    <2> QED BY SMTT(30), <1>1, <1>3, <1>5, <2>1
  <1>6. CASE q.op = "insert_before" /\ AtTop(c, q)
    <2>1. e = SubSeq(c, 1, p - 1) \o Code(q, t) \o SubSeq(c, p, Len(c))
      BY <1>6 DEF Edited
    <2> HIDE DEF e, p
    <2>2. q.op # "replace_body" /\ q.code # "empty" /\ AtTop(c, q) /\ p - 1 < p
      BY <1>1, <1>6
    <2> QED BY <1>1, <1>3, <2>1, <2>2
  <1>7. q.op \in Ops
    BY DEF Request
  <1> HIDE DEF e, p
  <1> QED BY <1>1, <1>2, <1>4, <1>5, <1>6, <1>7 DEF Ops

\* What an edit leaves of the code of the other requests, and of names.
LEMMA DerivedKeeps ==
  ASSUME NEW c \in Seq(Declaration), NEW e \in Seq(Declaration), NEW t \in Nat, NEW target \in Nat,
         Derived(c, e, t, target), NEW x \in Nat
  PROVE  /\ x # t /\ Mentions(e, x) => Mentions(c, x)
         /\ x # t /\ Has(e, x) => Has(c, x)
         /\ x # t /\ Once(c, x) => Once(e, x)
         /\ ~Has(c, t) => Once(e, t)
  <1>1. PICK src : IsSource(src, c, e, t, target)
    BY DEF Derived
  <1>2. New(x) \in Nat /\ New(t) \in Nat /\ (x # t => New(x) # New(t))
    BY DEF New, Oldest
  <1>3. \A i \in DOMAIN e : src[i] # 0 => src[i] \in DOMAIN c
    <2>1. \A i \in DOMAIN e : src[i] \in 0..Len(c)
      BY <1>1 DEF IsSource
    <2> QED BY <2>1
  <1>4. ASSUME NEW i \in DOMAIN e, x # t, e[i].id = New(x)
        PROVE  src[i] \in DOMAIN c /\ c[src[i]].id = New(x)
    BY <1>1, <1>2, <1>3, <1>4 DEF IsSource
  <1>5. ASSUME NEW i \in DOMAIN e, x # t, x \in e[i].body
        PROVE  src[i] \in DOMAIN c /\ x \in c[src[i]].body
    BY <1>1, <1>3, <1>5 DEF IsSource
  <1>6. x # t /\ Mentions(e, x) => Mentions(c, x)
    BY <1>4, <1>5 DEF Mentions
  <1>7. x # t /\ Has(e, x) => Has(c, x)
    BY <1>4 DEF Has
  <1>8. x # t /\ Once(c, x) => Once(e, x)
    BY ZenonT(60), <1>1, <1>4 DEF Once, IsSource
  <1>9. ~Has(c, t) => Once(e, t)
    BY SMTT(30), ZenonT(60), <1>1, <1>3 DEF Has, Once, IsSource
  <1> QED BY <1>6, <1>7, <1>8, <1>9

LEMMA DerivedKeepsNames ==
  ASSUME NEW c \in Seq(Declaration), NEW e \in Seq(Declaration), NEW t \in Nat \ {0}, NEW target \in Nat,
         Derived(c, e, t, target), \A i \in DOMAIN index : index[i].id \in 1..Oldest, NamesKept(c)
  PROVE  NamesKept(e)
  <1>1. PICK src : IsSource(src, c, e, t, target)
    BY DEF Derived
  <1>2. ASSUME NEW i \in DOMAIN index, NEW p \in DOMAIN e, e[p].id = index[i].id
        PROVE  index[i].name \in e[p].names
    <2>1. New(t) # index[i].id
      BY SMTT(30) DEF New, Oldest
    <2>2. src[p] # 0 /\ src[p] \in 0..Len(c)
      BY <1>1, <1>2, <2>1 DEF IsSource
    <2>3. src[p] \in DOMAIN c
      BY <2>2
    <2>4. c[src[p]].id = index[i].id /\ e[p].names = c[src[p]].names
      BY <1>1, <1>2, <2>2 DEF IsSource
    <2> QED BY <2>3, <2>4 DEF NamesKept
  <1> QED BY <1>2 DEF NamesKept

\* The other declarations are as they were, and in their order.
LEMMA DerivedKeepsOthers ==
  ASSUME NEW c \in Seq(Declaration), NEW e \in Seq(Declaration), Mark \in Nat, plan.id \in Nat,
         Derived(c, e, Mark, plan.id)
  PROVE  Others(c) = Others(e)
  <1> DEFINE T == {plan.id, New(Mark)}
  <1>1. PICK src : IsSource(src, c, e, Mark, plan.id)
    BY DEF Derived
  <1>2. ASSUME NEW i \in DOMAIN e, e[i].id \notin T
        PROVE  src[i] \in DOMAIN c /\ c[src[i]] = e[i] /\ src[i] # 0
    <2>1. src[i] # 0 /\ src[i] \in 0..Len(c)
      BY <1>1, <1>2 DEF IsSource
    <2>2. src[i] \in DOMAIN c
      BY <2>1
    <2>3. c[src[i]].id # plan.id
      BY <1>1, <1>2, <2>1, <2>2 DEF IsSource
    <2> QED BY <1>1, <2>1, <2>2, <2>3 DEF IsSource
  <1>3. ASSUME NEW x \in DOMAIN c, c[x].id \notin T
        PROVE  \E i \in DOMAIN e : src[i] = x /\ e[i] = c[x]
    <2>1. PICK i \in DOMAIN e : src[i] = x
      BY <1>1, <1>3 DEF IsSource
    <2>2. x # 0
      OBVIOUS
    <2> QED BY <1>1, <1>3, <2>1, <2>2 DEF IsSource
  <1>4. ASSUME NEW i \in DOMAIN e, NEW j \in DOMAIN e, e[i].id \notin T, e[j].id \notin T
        PROVE  i <= j <=> src[i] <= src[j]
    <2>1. i \in Int /\ j \in Int /\ src[i] \in DOMAIN c /\ src[j] \in DOMAIN c /\ src[i] # 0 /\ src[j] # 0
      BY <1>2, <1>4
    <2>2. src[i] \in Int /\ src[j] \in Int
      BY <2>1
    <2>3. (i < j => src[i] < src[j]) /\ (j < i => src[j] < src[i])
      BY <1>1, <2>1 DEF IsSource
    <2> QED BY <2>1, <2>2, <2>3
  <1> DEFINE out(s) == {i \in DOMAIN s : s[i].id \notin T}
             pairs(s) == {<<s[x[1]], s[x[2]]>> : x \in {y \in out(s) \X out(s) : y[1] <= y[2]}}
  <1>5. ASSUME NEW z \in pairs(e) PROVE z \in pairs(c)
    <2>1. PICK y \in out(e) \X out(e) : y[1] <= y[2] /\ z = <<e[y[1]], e[y[2]]>>
      OBVIOUS
    <2>2. PICK i \in out(e), j \in out(e) : i <= j /\ z = <<e[i], e[j]>>
      BY <2>1
    <2>3. src[i] \in out(c) /\ src[j] \in out(c) /\ src[i] <= src[j] /\ z = <<c[src[i]], c[src[j]]>>
      BY <1>2, <1>4, <2>2
    <2>4. PICK x1 \in out(c), x2 \in out(c) : x1 <= x2 /\ z = <<c[x1], c[x2]>>
      BY <2>3
    <2>5. <<x1, x2>> \in {y1 \in out(c) \X out(c) : y1[1] <= y1[2]}
      BY <2>4
    <2> QED BY SMTT(30), ZenonT(60), <2>4, <2>5
  <1>6. ASSUME NEW z \in pairs(c) PROVE z \in pairs(e)
    <2>1. PICK y \in out(c) \X out(c) : y[1] <= y[2] /\ z = <<c[y[1]], c[y[2]]>>
      OBVIOUS
    <2>2. PICK x1 \in out(c), x2 \in out(c) : x1 <= x2 /\ z = <<c[x1], c[x2]>>
      BY <2>1
    <2>3. PICK i \in DOMAIN e, j \in DOMAIN e : src[i] = x1 /\ e[i] = c[x1] /\ src[j] = x2 /\ e[j] = c[x2]
      BY SMTT(30), <1>3
    <2>4. i \in out(e) /\ j \in out(e) /\ i <= j
      BY <1>4, <2>2, <2>3
    <2>5. <<i, j>> \in {y1 \in out(e) \X out(e) : y1[1] <= y1[2]}
      BY <2>4
    <2> QED BY <2>2, <2>3, <2>5
  <1> QED BY <1>5, <1>6 DEF Others

-----------------------------------------------------------------------------
(* Lookup and the initial states.                                          *)

\* A request is resolved to a row of the index.
LEMMA FoundIsRow ==
  ASSUME NEW q, index \in Seq(Row), Found(q) # NoRow
  PROVE  \E i \in DOMAIN index : Found(q) = index[i]
  <1> DEFINE rows == IF q.at # 0 THEN {i \in DOMAIN index : index[i].id = q.at /\ index[i].name = q.name}
                     ELSE LookupByName(q.name)
             here == {i \in rows : q.file = "" \/ PathHas(index[i].file, q.file)}
             first == CHOOSE i \in here : \A j \in here : i <= j
  <1>1. rows \subseteq DOMAIN index
    BY DEF LookupByName
  <1> HIDE DEF rows
  <1>2. here \in SUBSET Nat /\ here \subseteq DOMAIN index
    <2>1. DOMAIN index \subseteq Nat
      OBVIOUS
    <2>2. here \subseteq rows
      OBVIOUS
    <2> HIDE DEF here
    <2> QED BY <1>1, <2>1, <2>2
  <1>3. here # {} /\ Found(q) = index[first]
    BY DEF Found, rows
  <1> HIDE DEF here
  <1>4. first \in here
    BY <1>2, <1>3, FirstExists
  <1> QED BY <1>2, <1>3, <1>4

LEMMA IndexOfTree ==
  ASSUME Init
  PROVE  /\ tree \in Trees /\ index \in Seq(Row)
         /\ \A i \in DOMAIN index : index[i].file \in Files /\ index[i].id \in 1..Oldest
         /\ \A f \in Files : NamesKept(tree[f])
  <1>1. tree \in Trees
    BY DEF Init
  <1>2. /\ Files \subseteq STRING /\ IsFiniteSet(Files) /\ tree \in [Files -> Seq(Declaration)]
        /\ \A f \in Files : \A p \in DOMAIN tree[f] : tree[f][p].id \in 1..Oldest
        /\ \A f, g \in Files : \A p \in DOMAIN tree[f], n \in DOMAIN tree[g] :
             tree[f][p].id = tree[g][n].id => f = g /\ p = n
    BY <1>1, TreesAssumption DEF Files
  <1>3. index \in Seq(Rows(tree))
    <2>1. SetToSeq(Files) \in Seq(DOMAIN tree)
      BY <1>2, SetToSeqType DEF Files
    <2>2. <<"func", "proto", "gen">> \in Seq({"func", "proto", "gen"})
      OBVIOUS
    <2> QED BY <1>1, <2>1, <2>2, RowsOfType DEF Init
  <1>4. ASSUME NEW i \in DOMAIN index
        PROVE  /\ index[i] \in Row /\ index[i].file \in Files
               /\ \E p \in DOMAIN tree[index[i].file] : /\ index[i].id = tree[index[i].file][p].id
                                                        /\ index[i].name \in tree[index[i].file][p].names
    <2>1. index[i] \in Rows(tree)
      BY <1>3
    <2> QED BY <1>2, <2>1 DEF Rows, Row, Files
  <1>5. index \in Seq(Row)
    BY <1>3, <1>4
  <1>6. ASSUME NEW i \in DOMAIN index PROVE index[i].id \in 1..Oldest
    <2>1. PICK p \in DOMAIN tree[index[i].file] : index[i].id = tree[index[i].file][p].id
      BY <1>4
    <2> QED BY <1>2, <1>4, <2>1
  <1>7. ASSUME NEW f \in Files, NEW i \in DOMAIN index, NEW n \in DOMAIN tree[f], tree[f][n].id = index[i].id
        PROVE  index[i].name \in tree[f][n].names
    <2>1. PICK p \in DOMAIN tree[index[i].file] : /\ index[i].id = tree[index[i].file][p].id
                                                  /\ index[i].name \in tree[index[i].file][p].names
      BY <1>4
    <2>2. index[i].file \in Files /\ tree[f][n].id = tree[index[i].file][p].id
      BY <1>4, <1>7, <2>1
    <2>3. f = index[i].file /\ n = p
      BY ONLY <1>2, <2>2, f \in Files, n \in DOMAIN tree[f], p \in DOMAIN tree[index[i].file]
    <2> QED BY <2>1, <2>3
  <1> QED BY <1>1, <1>4, <1>5, <1>6, <1>7 DEF NamesKept

LEMMA InitInv == Init => EditInv
  <1> SUFFICES ASSUME Init PROVE EditInv
    OBVIOUS
  <1>1. /\ tree \in Trees /\ index \in Seq(Row)
        /\ \A i \in DOMAIN index : index[i].file \in Files /\ index[i].id \in 1..Oldest
        /\ \A f \in Files : NamesKept(tree[f])
    BY IndexOfTree
  <1>2. /\ Files \subseteq STRING /\ tree \in [Files -> Seq(Declaration)]
        /\ \A f \in Files : \A p \in DOMAIN tree[f] : tree[f][p].id \in 1..Oldest /\ tree[f][p].body = {}
    BY <1>1, TreesAssumption DEF Files
  <1>3. NoPlan.old = <<>> /\ NoPlan.new = <<>>
    BY DEF NoPlan
  <1>4. TypeOK
    <2>1. turn \in 1..MaxTurn
      BY EditAssumption DEF Init
    <2>2. answers \in Seq(Words) /\ landed \in SUBSET (1..MaxTurn) /\ users \in Nat
      BY DEF Init
    <2> QED BY <1>1, <1>2, <1>3, <2>1, <2>2 DEF Init, TypeOK, Stages
  <1>5. RowInv
    BY DEF Init, RowInv
  <1>6. NamesInv
    <2>1. NamesKept(<<>>)
      BY DEF NamesKept
    <2> QED BY <1>1, <1>3, <2>1 DEF Init, NamesInv
  <1>7. LandedInv /\ TrueAnswers
    BY DEF Init, LandedInv, TrueAnswers, Active
  <1>8. \A t \in 1..MaxTurn, f \in Files : ~Mentions(tree[f], t) /\ ~Has(tree[f], t)
    BY SMTT(30), <1>2 DEF Mentions, Has, New, Oldest
  <1>9. FreshInv
    BY <1>8 DEF FreshInv
  <1>10. OnceInv
    BY <1>8 DEF OnceInv, Once, Has
  <1>11. PlanInv /\ TargetUnlessNamesake
    BY DEF Init, PlanInv, TargetUnlessNamesake
  <1> QED BY <1>4, <1>5, <1>6, <1>7, <1>9, <1>10, <1>11 DEF EditInv

-----------------------------------------------------------------------------
(* The steps.                                                              *)

LEMMA PlanType ==
  ASSUME TypeOK
  PROVE  /\ plan.old \in Seq(Declaration) /\ plan.new \in Seq(Declaration)
         /\ plan.id \in Nat /\ Mark \in 1..MaxTurn /\ Mark \in Nat \ {0}
  <1>1. CASE plan = NoPlan
    <2>1. plan.old = <<>> /\ plan.new = <<>> /\ plan.id = 0
      BY <1>1 DEF NoPlan
    <2>2. Mark \in 1..MaxTurn
      BY EditAssumption DEF Mark, TypeOK
    <2>3. <<>> \in Seq(Declaration)
      OBVIOUS
    <2> QED BY <2>1, <2>2, <2>3
  <1>2. CASE plan \in Plan
    BY <1>2, EditAssumption DEF Plan, Mark, TypeOK
  <1> QED BY <1>1, <1>2 DEF TypeOK

\* The plan that Read makes.
Planned ==
  LET c == tree[row.file]  p == FindSymbol(c, row.name)
  IN /\ row \in Row /\ row.file \in Files /\ c \in Seq(Declaration) /\ p \in DOMAIN c
     /\ (\A q \in DOMAIN c : Declares(c[q], row.name) => p <= q) /\ Declares(c[p], row.name)
     /\ plan'.file = row.file /\ plan'.old = c /\ plan'.id = c[p].id
     /\ plan' \in Plan
     /\ Derived(plan'.old, plan'.new, Mark, plan'.id)

LEMMA ReadPlans ==
  ASSUME TypeOK, RowInv, Read
  PROVE  (plan' = NoPlan /\ pc' # "write") \/ Planned
  <1> DEFINE c == tree[row.file]
             q == [req EXCEPT !.name = row.name]
             p == FindSymbol(c, row.name)
  <1>1. CASE ~Accepted(c, q)
    BY <1>1 DEF Read, Answer
  <1>2. CASE Accepted(c, q)
    <2>1. req \in Requests /\ row # NoRow /\ \E i \in DOMAIN index : row = index[i]
      BY DEF Read, RowInv
    <2>2. row \in Row /\ row.file \in Files
      BY <2>1 DEF TypeOK
    <2>3. c \in Seq(Declaration) /\ row.file \in STRING
      BY <2>2 DEF TypeOK
    <2>4. q \in Request /\ q.name = row.name /\ q.op = req.op /\ q.code = req.code
      BY <2>1, <2>2, EditAssumption DEF Row, Request
    <2>5. q.code = "empty" => q.op \in {"replace_body", "replace_full"}
      BY <2>1, <2>4, EditAssumption
    <2>6. Mark \in Nat
      BY PlanType
    <2>7. plan' = [file |-> row.file, id |-> c[FindSymbol(c, q.name)].id, old |-> c, new |-> Edited(c, q, Mark)]
      BY <1>2 DEF Read
    <2>8. FindSymbol(c, q.name) = p
      BY <2>4
    <2> HIDE DEF c, q
    <2>9. p \in DOMAIN c /\ Edited(c, q, Mark) \in Seq(Declaration) /\ Derived(c, Edited(c, q, Mark), Mark, c[p].id)
      BY <1>2, <2>3, <2>4, <2>5, <2>6, <2>8, EditedDerived
    <2>10. Declares(c[p], row.name) /\ \A x \in DOMAIN c : Declares(c[x], row.name) => p <= x
      BY <2>3, <2>9, FindSymbolIsFirst
    <2>11. c[p].id \in Nat
      <3> HIDE DEF p
      <3>1. c[p] \in Declaration
        BY <2>3, <2>9
      <3> QED BY <3>1 DEF Declaration
    <2> HIDE DEF p
    <2>12. plan' \in Plan /\ plan'.file = row.file /\ plan'.old = c /\ plan'.id = c[p].id
           /\ plan'.new = Edited(c, q, Mark)
      BY <2>3, <2>7, <2>8, <2>9, <2>11 DEF Plan
    <2> QED BY <2>2, <2>3, <2>9, <2>10, <2>12 DEF Planned, c, p
  <1> QED BY <1>1, <1>2

\* What a rename changes.
LEMMA RenamedFile ==
  ASSUME TypeOK, PlanInv, pc = "write", Renamed
  PROVE  /\ plan.file \in Files /\ Files' = Files /\ tree' \in [Files -> Seq(Declaration)]
         /\ tree'[plan.file] = plan.new
         /\ \A f \in Files : f # plan.file => tree'[f] = tree[f]
         /\ landed' = landed \cup {turn}
  <1>1. plan.file \in Files /\ plan.new \in Seq(Declaration)
    BY PlanType DEF PlanInv
  <1> QED BY <1>1 DEF Renamed, TypeOK, Files

\* What the user changes.
LEMMA UserFile ==
  ASSUME TypeOK, NEW f \in Files, NEW n \in Names, UserEdits(f, n)
  PROVE  /\ Files' = Files /\ tree' \in [Files -> Seq(Declaration)]
         /\ \A g \in Files : g # f => tree'[g] = tree[g]
         /\ Len(tree'[f]) = Len(tree[f]) + 1
         /\ \A i \in DOMAIN tree[f] : i + 1 \in DOMAIN tree'[f] /\ tree'[f][i + 1] = tree[f][i]
         /\ \A i \in DOMAIN tree'[f] :
              \/ i = 1 /\ tree'[f][i].id = New(MaxTurn + 1 + users) /\ tree'[f][i].body = {}
              \/ i - 1 \in DOMAIN tree[f] /\ tree'[f][i] = tree[f][i - 1]
  <1> DEFINE d == [id |-> New(MaxTurn + 1 + users), kind |-> "func", names |-> {n}, inner |-> {}, body |-> {}]
             c == tree[f]
             e == <<d>> \o c
  <1>1. d \in Declaration /\ d.id = New(MaxTurn + 1 + users) /\ d.body = {}
    BY EditAssumption DEF TypeOK, Declaration, Kinds, New, Oldest
  <1>2. c \in Seq(Declaration)
    BY DEF TypeOK
  <1>3. tree' = [tree EXCEPT ![f] = e]
    BY DEF UserEdits
  <1> HIDE DEF d
  <1>4. <<d>> \in Seq(Declaration) /\ Len(<<d>>) = 1 /\ <<d>>[1] = d
    BY <1>1
  <1>5. /\ e \in Seq(Declaration) /\ Len(e) = 1 + Len(c)
        /\ \A i \in 1..(1 + Len(c)) : e[i] = IF i <= 1 THEN <<d>>[i] ELSE c[i - 1]
    BY <1>2, <1>4, ConcatProperties
  <1>6. PICK L \in Nat : L = Len(c) /\ DOMAIN c = 1..L
    BY <1>2
  <1> HIDE DEF e
  <1>7. tree' \in [Files -> Seq(Declaration)] /\ tree'[f] = e /\ \A g \in Files : g # f => tree'[g] = tree[g]
    BY <1>3, <1>5 DEF TypeOK, Files
  <1> HIDE DEF c
  <1>8. DOMAIN e = 1..(1 + L) /\ e[1] = d
    BY <1>4, <1>5, <1>6
  <1>9. ASSUME NEW i \in 1..L PROVE i + 1 \in 1..(1 + L) /\ e[i + 1] = c[i]
    <2>1. i + 1 \in 1..(1 + L) /\ ~(i + 1 <= 1) /\ (i + 1) - 1 = i
      OBVIOUS
    <2> QED BY <1>5, <1>6, <2>1
  <1>10. ASSUME NEW i \in 1..(1 + L), i # 1 PROVE i - 1 \in 1..L /\ e[i] = c[i - 1]
    <2>1. i - 1 \in 1..L /\ ~(i <= 1)
      BY <1>10
    <2> QED BY <1>5, <1>6, <2>1
  <1>11. Files' = Files
    BY <1>7 DEF Files
  <1>12. Len(e) = Len(c) + 1
    BY <1>5, <1>6
  <1> QED BY <1>1, <1>6, <1>7, <1>8, <1>9, <1>10, <1>11, <1>12 DEF c

LEMMA AnswerTypes ==
  ASSUME TypeOK, NEW a \in Words, Answer(a)
  PROVE  /\ answers' \in Seq(Words) /\ turn' \in 1..MaxTurn /\ pc' \in {"emit", "ask"}
         /\ turn <= turn' /\ turn' \in Nat
         /\ Len(answers') = Len(answers) + 1 /\ DOMAIN answers' = DOMAIN answers \cup {Len(answers) + 1}
         /\ (\A i \in DOMAIN answers : answers'[i] = answers[i]) /\ answers'[Len(answers) + 1] = a
         /\ mode = "one" => pc' = "emit" /\ turn' = turn
         /\ mode # "one" => (turn' = turn /\ pc' = "emit") \/ (turn' = turn + 1 /\ pc' = "ask")
  <1>1. turn' \in 1..MaxTurn /\ pc' \in {"emit", "ask"} /\ turn <= turn' /\ turn' \in Nat
    BY EditAssumption DEF TypeOK, Answer, Final
  <1>2. answers \in Seq(Words) /\ answers' = Append(answers, a)
    BY DEF TypeOK, Answer
  <1>3. /\ answers' \in Seq(Words) /\ Len(answers') = Len(answers) + 1
        /\ (\A i \in 1..Len(answers) : answers'[i] = answers[i]) /\ answers'[Len(answers) + 1] = a
    BY <1>2, AppendProperties
  <1>4. PICK L \in Nat : L = Len(answers)
    BY <1>2
  <1>5. DOMAIN answers = 1..L /\ DOMAIN answers' = 1..(L + 1)
    BY <1>2, <1>3, <1>4
  <1>6. 1..(L + 1) = (1..L) \cup {L + 1}
    OBVIOUS
  <1>7. /\ mode = "one" => pc' = "emit" /\ turn' = turn
        /\ mode # "one" => (turn' = turn /\ pc' = "emit") \/ (turn' = turn + 1 /\ pc' = "ask")
    BY DEF Answer, Final
  <1> QED BY <1>1, <1>3, <1>4, <1>5, <1>6, <1>7

LEMMA TypeStep ==
  ASSUME EditInv, [Next]_vars
  PROVE  TypeOK'
  <1> USE DEF EditInv
  <1>1. CASE Ask
    BY <1>1 DEF Ask, TypeOK, Files, Stages
  <1>2. CASE Resolve
    <2>1. row' \in Row
      BY <1>2, FoundIsRow DEF Resolve, TypeOK
    <2> QED BY <1>2, <2>1 DEF Resolve, TypeOK, Files, Stages
  <1>3. CASE Unresolved
    <2>1. answers' \in Seq(Words) /\ turn' \in 1..MaxTurn /\ pc' \in {"emit", "ask"}
      BY <1>3, AnswerTypes DEF Unresolved, Words
    <2> QED BY <1>3, <2>1 DEF Unresolved, TypeOK, Files, Stages
  <1>4. CASE Read
    <2>1. plan' \in Plan \cup {NoPlan}
      BY <1>4, ReadPlans DEF Planned
    <2>2. answers' \in Seq(Words) /\ turn' \in 1..MaxTurn /\ pc' \in {"emit", "ask", "write"}
      <3>1. \/ Answer("dry-run") \/ Answer("failed")
            \/ pc' = "write" /\ UNCHANGED <<turn, answers>>
        BY <1>4 DEF Read
      <3> QED BY <3>1, AnswerTypes DEF Words, TypeOK
    <2> QED BY <1>4, <2>1, <2>2 DEF Read, TypeOK, Files, Stages
  <1>5. ASSUME Renamed, pc = "write", UNCHANGED <<index, mode, apply, req, row, plan, users, raced, unsure>>,
               answers' \in Seq(Words), turn' \in 1..MaxTurn, pc' \in Stages
        PROVE  TypeOK'
    <2>1. Files' = Files /\ tree' \in [Files -> Seq(Declaration)] /\ landed' = landed \cup {turn}
      BY <1>5, RenamedFile
    <2> QED BY <1>5, <2>1 DEF TypeOK
  <1>6. CASE Write
    <2>1. answers' \in Seq(Words) /\ turn' \in 1..MaxTurn /\ pc' \in {"emit", "ask"}
      BY <1>6, AnswerTypes DEF Write, Words
    <2> QED BY <1>5, <1>6, <2>1 DEF Write, Stages
  <1>7. CASE WriteUnsynced
    BY <1>5, <1>7 DEF WriteUnsynced, TypeOK, Stages
  <1>8. CASE WriteFails \/ Emit
    BY <1>8 DEF WriteFails, Emit, TypeOK, Files, Stages
  <1>9. CASE ReadBack \/ ReadBackFails
    <2>1. Answer("not durable") \/ Answer("failed")
      BY <1>9 DEF ReadBack, ReadBackFails
    <2>2. answers' \in Seq(Words) /\ turn' \in 1..MaxTurn /\ pc' \in {"emit", "ask"}
      BY <2>1, AnswerTypes DEF Words
    <2>3. unsure' \in BOOLEAN /\ UNCHANGED <<tree, index, mode, apply, req, row, plan, users, raced, landed>>
      BY <1>9 DEF ReadBack, ReadBackFails, TypeOK
    <2> QED BY <2>2, <2>3 DEF TypeOK, Files, Stages
  <1>10. CASE Die
    <2>1. answers' \in Seq(Words) /\ unsure' \in BOOLEAN
      BY <1>10 DEF Die, TypeOK
    <2> QED BY <1>10, <2>1 DEF Die, TypeOK, Files, Stages
  <1>11. CASE Retry
    <2>1. answers' \in Seq(Words) /\ turn' \in 1..MaxTurn
      BY <1>11, EditAssumption DEF Retry, TypeOK
    <2> QED BY <1>11, <2>1 DEF Retry, TypeOK, Files, Stages
  <1>12. ASSUME NEW f \in Files, NEW n \in Names, UserEdits(f, n) PROVE TypeOK'
    <2>1. Files' = Files /\ tree' \in [Files -> Seq(Declaration)]
      BY <1>12, UserFile
    <2>2. users' \in Nat /\ raced' \in BOOLEAN
      BY <1>12 DEF UserEdits, TypeOK
    <2> QED BY <1>12, <2>1, <2>2 DEF UserEdits, TypeOK
  <1>13. CASE UNCHANGED vars
    BY <1>13 DEF vars, TypeOK, Files
  <1> QED BY <1>1, <1>2, <1>3, <1>4, <1>6, <1>7, <1>8, <1>9, <1>10, <1>11, <1>12, <1>13 DEF Next

LEMMA RowStep ==
  ASSUME EditInv, [Next]_vars
  PROVE  RowInv'
  <1> USE DEF EditInv
  <1>1. CASE Ask
    BY <1>1 DEF Ask, RowInv
  <1>2. CASE Resolve
    <2>1. \E i \in DOMAIN index : row' = index[i]
      BY <1>2, FoundIsRow DEF Resolve, TypeOK
    <2>2. row' = Found(req) /\ UNCHANGED <<index, req>>
      BY <1>2 DEF Resolve
    <2>3. Found(req)' = Found(req)
      <3>1. UNCHANGED <<index, req>>
        BY <2>2
      <3> QED BY <3>1 DEF Found, LookupByName
    <2> QED BY <1>2, <2>1, <2>2, <2>3 DEF Resolve, RowInv
  <1>3. CASE Unresolved
    <2>1. plan = NoPlan /\ plan' = NoPlan /\ row' = NoRow
      BY <1>3 DEF Unresolved, RowInv
    <2>2. pc' \in {"emit", "ask"}
      BY <1>3 DEF Unresolved, Answer
    <2> QED BY <2>1, <2>2 DEF RowInv
  <1>4. ASSUME UNCHANGED <<index, req, row>>, pc' \in {"resolve", "read", "write", "verify"} => req \in Requests,
               pc' \in {"read", "write", "verify"} \/ plan' # NoPlan => row # NoRow
        PROVE  RowInv'
    <2>1. Found(req)' = Found(req)
      BY <1>4 DEF Found, LookupByName
    <2> QED BY <1>4, <2>1 DEF RowInv
  <1>5. CASE Read
    BY <1>4, <1>5 DEF Read, RowInv
  <1>6. CASE Write \/ WriteUnsynced \/ WriteFails
    BY <1>4, <1>6 DEF Write, WriteUnsynced, WriteFails, Answer, RowInv
  <1>7. CASE ReadBack \/ ReadBackFails
    BY <1>4, <1>7 DEF ReadBack, ReadBackFails, Answer, RowInv
  <1>8. CASE Emit \/ Die
    BY <1>4, <1>8 DEF Emit, Die, RowInv
  <1>9. CASE Retry
    <2>1. req \in Requests
      BY <1>9 DEF Retry, TypeOK
    <2> QED BY <1>4, <1>9, <2>1 DEF Retry, RowInv
  <1>10. ASSUME NEW f \in Files, NEW n \in Names, UserEdits(f, n) PROVE RowInv'
    BY <1>4, <1>10 DEF UserEdits, RowInv
  <1>11. CASE UNCHANGED vars
    BY <1>4, <1>11 DEF vars, RowInv
  <1> QED BY <1>1, <1>2, <1>3, <1>5, <1>6, <1>7, <1>8, <1>9, <1>10, <1>11 DEF Next

\* No edit, of the program's or of the user's, takes a name from a declaration.
LEMMA NamesStep ==
  ASSUME EditInv, [Next]_vars
  PROVE  NamesInv'
  <1> USE DEF EditInv
  <1>1. ASSUME UNCHANGED index, \A f \in Files' : NamesKept(tree'[f]), NamesKept(plan'.old), NamesKept(plan'.new)
        PROVE  NamesInv'
    BY <1>1 DEF NamesInv, NamesKept
  <1>2. CASE UNCHANGED <<index, tree, plan>>
    BY <1>1, <1>2 DEF NamesInv, Files
  <1>3. CASE Ask
    <2>1. plan'.old = <<>> /\ plan'.new = <<>>
      BY <1>3 DEF Ask, NoPlan
    <2>2. NamesKept(<<>>)
      BY DEF NamesKept
    <2> QED BY <1>1, <1>3, <2>1, <2>2 DEF Ask, NamesInv, Files
  <1>4. CASE Read
    <2>1. CASE plan' = NoPlan
      <3>1. plan'.old = <<>> /\ plan'.new = <<>>
        BY <2>1 DEF NoPlan
      <3>2. NamesKept(<<>>)
        BY DEF NamesKept
      <3> QED BY <1>1, <1>4, <3>1, <3>2 DEF Read, NamesInv, Files
    <2>2. CASE Planned
      <3>1. NamesKept(plan'.old)
        BY <2>2 DEF Planned, NamesInv
      <3>2. /\ plan'.old \in Seq(Declaration) /\ plan'.new \in Seq(Declaration) /\ plan'.id \in Nat
            /\ Mark \in Nat \ {0} /\ Derived(plan'.old, plan'.new, Mark, plan'.id)
        BY <2>2, PlanType DEF Planned, Plan
      <3>3. NamesKept(plan'.new)
        BY <3>1, <3>2, DerivedKeepsNames DEF TypeOK
      <3> QED BY <1>1, <1>4, <3>1, <3>3 DEF Read, NamesInv, Files
    <2> QED BY <1>4, <2>1, <2>2, ReadPlans
  <1>5. CASE Write \/ WriteUnsynced
    <2>1. Renamed /\ pc = "write" /\ UNCHANGED <<index, plan>>
      BY <1>5 DEF Write, WriteUnsynced
    <2>2. \A f \in Files' : NamesKept(tree'[f])
      BY <2>1, RenamedFile DEF NamesInv
    <2> QED BY <1>1, <2>1, <2>2 DEF NamesInv
  <1>6. ASSUME NEW f \in Files, NEW n \in Names, UserEdits(f, n) PROVE NamesInv'
    <2>1. NamesKept(tree'[f])
      <3> SUFFICES ASSUME NEW i \in DOMAIN index, NEW p \in DOMAIN tree'[f], tree'[f][p].id = index[i].id
                   PROVE  index[i].name \in tree'[f][p].names
        BY DEF NamesKept
      <3>1. New(MaxTurn + 1 + users) # index[i].id
        <4>1. users \in Nat /\ MaxTurn \in Nat /\ index[i].id \in 1..10
          BY EditAssumption DEF TypeOK, Oldest
        <4> QED BY <4>1 DEF New, Oldest
      <3>2. p - 1 \in DOMAIN tree[f] /\ tree'[f][p] = tree[f][p - 1]
        BY <1>6, <3>1, UserFile
      <3> QED BY <3>2 DEF NamesInv, NamesKept
    <2>2. Files' = Files /\ \A g \in Files : g # f => tree'[g] = tree[g]
      BY <1>6, UserFile
    <2>3. UNCHANGED <<index, plan>>
      BY <1>6 DEF UserEdits
    <2> QED BY <1>1, <2>1, <2>2, <2>3 DEF NamesInv
  <1>7. CASE Resolve \/ Unresolved \/ WriteFails \/ ReadBack \/ ReadBackFails \/ Emit \/ Die \/ Retry
    BY <1>2, <1>7 DEF Resolve, Unresolved, WriteFails, ReadBack, ReadBackFails, Emit, Die, Retry
  <1>8. CASE UNCHANGED vars
    BY <1>2, <1>8 DEF vars
  <1> QED BY <1>3, <1>4, <1>5, <1>6, <1>7, <1>8 DEF Next

LEMMA TargetStep ==
  ASSUME EditInv, [Next]_vars
  PROVE  TargetUnlessNamesake'
  <1> USE DEF EditInv
  <1>1. CASE UNCHANGED <<plan, row>>
    BY <1>1 DEF TargetUnlessNamesake
  <1>2. CASE plan' = NoPlan
    BY <1>2 DEF TargetUnlessNamesake
  <1>3. CASE Resolve
    <2>1. plan' = NoPlan \/ UNCHANGED <<plan, row>>
      BY <1>3 DEF Resolve, RowInv
    <2> QED BY <1>1, <1>2, <2>1
  <1>4. CASE Unresolved
    <2>1. plan' = NoPlan
      BY <1>4 DEF Unresolved, RowInv
    <2> QED BY <1>2, <2>1
  <1>5. CASE Read
    <2>1. CASE Planned
      <3> DEFINE c == tree[row.file]
                 p == FindSymbol(c, row.name)
      <3>1. /\ p \in DOMAIN c /\ c \in Seq(Declaration) /\ Declares(c[p], row.name)
            /\ \A q \in DOMAIN c : Declares(c[q], row.name) => p <= q
            /\ plan'.old = c /\ plan'.id = c[p].id /\ row' = row
        BY <1>5, <2>1 DEF Planned, Read
      <3>2. PICK i \in DOMAIN index : row = index[i]
        BY <1>5 DEF Read, RowInv
      <3>3. NamesKept(c)
        BY <2>1 DEF Planned, NamesInv
      <3>4. ASSUME c[p].id # row.id, NEW q \in DOMAIN c, c[q].id = row.id PROVE p < q
        <4>1. Declares(c[q], row.name)
          BY <3>2, <3>3, <3>4 DEF NamesKept, Declares
        <4>2. p <= q /\ p # q
          BY <3>1, <3>4, <4>1
        <4>3. p \in Int /\ q \in Int
          BY <3>1
        <4> HIDE DEF p
        <4> QED BY <4>2, <4>3
      <3> HIDE DEF c, p
      <3> QED BY <3>1, <3>4 DEF TargetUnlessNamesake
    <2> QED BY <1>2, <1>5, <2>1, ReadPlans
  <1>6. CASE Ask
    BY <1>2, <1>6 DEF Ask
  <1>7. CASE Write \/ WriteUnsynced \/ WriteFails \/ ReadBack \/ ReadBackFails \/ Emit \/ Die \/ Retry
    BY <1>1, <1>7 DEF Write, WriteUnsynced, WriteFails, ReadBack, ReadBackFails, Emit, Die, Retry
  <1>8. ASSUME NEW f \in Files, NEW n \in Names, UserEdits(f, n) PROVE TargetUnlessNamesake'
    BY <1>1, <1>8 DEF UserEdits
  <1>9. CASE UNCHANGED vars
    BY <1>1, <1>9 DEF vars
  <1> QED BY <1>3, <1>4, <1>5, <1>6, <1>7, <1>8, <1>9 DEF Next

-----------------------------------------------------------------------------
(* What has landed, and what is answered.                                  *)

LEMMA AnswerLanded ==
  ASSUME TypeOK, LandedInv, Active, NEW a \in Words, Answer(a), mode' = mode,
         landed' \subseteq landed \cup {turn}
  PROVE  LandedInv'
  <1>1. turn \in Nat /\ turn' \in Nat /\ turn <= turn' /\ landed \subseteq 1..turn /\ turn \in 1..turn
    BY AnswerTypes DEF TypeOK, LandedInv
  <1>2. landed' \subseteq 1..turn
    BY <1>1
  <1>3. landed' \subseteq 1..turn'
    BY <1>1, <1>2
  <1>4. pc' = "ask" => turn' = turn + 1 /\ mode # "one" /\ turn' \notin landed'
    <2>1. turn + 1 \notin 1..turn
      BY <1>1
    <2> QED BY <1>2, <2>1, AnswerTypes
  <1>5. pc' \in {"emit", "ask"} /\ Len(answers') = Len(answers) + 1
    BY AnswerTypes
  <1>6. Len(answers) = IF mode = "one" THEN 0 ELSE turn - 1
    BY DEF LandedInv
  <1>7. pc' = "emit" => turn' = turn
    BY DEF Answer, Final
  <1>8. pc' = "ask" => Len(answers') = turn' - 1
    BY <1>1, <1>4, <1>5, <1>6
  <1>9. pc' = "emit" => Len(answers') = IF mode = "one" THEN 1 ELSE turn'
    BY <1>1, <1>5, <1>6, <1>7
  <1>10. Active' => pc' = "ask"
    BY <1>5 DEF Active
  <1> QED BY <1>3, <1>4, <1>5, <1>8, <1>9, <1>10 DEF LandedInv

LEMMA LandedStep ==
  ASSUME EditInv, [Next]_vars
  PROVE  LandedInv'
  <1> USE DEF EditInv
  <1>1. CASE Unresolved \/ Read \/ Write \/ ReadBack \/ ReadBackFails
    <2>1. CASE \E a \in Words : Answer(a)
      <3>1. PICK a \in Words : Answer(a)
        BY <2>1
      <3>2. Active /\ mode' = mode /\ landed' \subseteq landed \cup {turn}
        BY <1>1 DEF Unresolved, Read, Write, ReadBack, ReadBackFails, Renamed, Active
      <3> QED BY <3>1, <3>2, AnswerLanded
    <2>2. CASE ~\E a \in Words : Answer(a)
      <3>1. Read /\ pc' = "write" /\ UNCHANGED <<turn, answers>>
        BY <1>1, <2>2 DEF Unresolved, Read, Write, ReadBack, ReadBackFails, Words
      <3> QED BY <3>1 DEF Read, LandedInv, Active
    <2> QED BY <2>1, <2>2
  <1>2. CASE Ask \/ Resolve \/ WriteFails
    <2>1. /\ UNCHANGED <<mode, turn, answers, landed, unsure>> /\ pc \in {"ask", "resolve", "write"}
          /\ pc' \in {"resolve", "read", "verify"}
      BY <1>2 DEF Ask, Resolve, WriteFails
    <2> QED BY <2>1 DEF LandedInv, Active
  <1>3. CASE WriteUnsynced
    <2>1. /\ UNCHANGED <<mode, turn, answers, unsure>> /\ pc = "write" /\ pc' = "verify"
          /\ landed' = landed \cup {turn}
      BY <1>3 DEF WriteUnsynced, Renamed
    <2>2. turn \in 1..turn
      BY DEF TypeOK
    <2> QED BY <2>1, <2>2 DEF LandedInv, Active
  <1>4. CASE Emit
    BY <1>4 DEF Emit, LandedInv, Active
  <1>5. CASE Die
    <2>1. /\ pc' = "dead" /\ answers' = <<>> /\ unsure' = (unsure \/ landed # {})
          /\ UNCHANGED <<mode, turn, landed>>
      BY <1>5 DEF Die
    <2> QED BY <2>1 DEF LandedInv, Active
  <1>6. CASE Retry
    <2>1. /\ pc' = "resolve" /\ answers' = <<>> /\ turn' = turn + 1 /\ mode = "one"
          /\ UNCHANGED <<mode, landed, unsure>>
      BY <1>6 DEF Retry
    <2>2. landed = {} \/ unsure
      <3>1. CASE pc = "dead"
        BY <3>1 DEF LandedInv
      <3>2. CASE answers = <<"failed">>
        <4>1. 1 \in DOMAIN answers /\ answers[1] = "failed"
          BY <3>2
        <4>2. OnDisk(1) => unsure
          BY <4>1 DEF TrueAnswers
        <4> QED BY <2>1, <4>2 DEF OnDisk
      <3> QED BY <1>6, <3>1, <3>2 DEF Retry
    <2>3. turn \in Nat /\ 1..turn \subseteq 1..(turn + 1) /\ turn + 1 \notin 1..turn
      BY DEF TypeOK
    <2>4. landed \subseteq 1..(turn + 1) /\ turn + 1 \notin landed
      BY <2>3 DEF LandedInv
    <2>5. Len(<<>>) = 0
      OBVIOUS
    <2> QED BY <2>1, <2>2, <2>4, <2>5 DEF LandedInv, Active
  <1>7. ASSUME NEW f \in Files, NEW n \in Names, UserEdits(f, n) PROVE LandedInv'
    BY <1>7 DEF UserEdits, LandedInv, Active
  <1>8. CASE UNCHANGED vars
    BY <1>8 DEF vars, LandedInv, Active
  <1> QED BY <1>1, <1>2, <1>3, <1>4, <1>5, <1>6, <1>7, <1>8 DEF Next

\* Whether the code of the turn at hand is on disk.
Landed == IF mode = "one" THEN landed # {} ELSE turn \in landed
LandedNext == IF mode = "one" THEN landed' # {} ELSE turn \in landed'

AnswerRight(a) == IF a \in {"applied", "not durable"} THEN LandedNext ELSE LandedNext => unsure'
UnsureStays == unsure => unsure'

\* A true answer joins true answers.
LEMMA AnswerTrue ==
  ASSUME TypeOK, LandedInv, TrueAnswers, Active, NEW a \in Words, Answer(a), mode' = mode,
         landed' = landed \/ landed' = landed \cup {turn}, UnsureStays, AnswerRight(a)
  PROVE  TrueAnswers'
  <1>1. /\ DOMAIN answers' = DOMAIN answers \cup {Len(answers) + 1}
        /\ (\A i \in DOMAIN answers : answers'[i] = answers[i]) /\ answers'[Len(answers) + 1] = a
    BY AnswerTypes
  <1>2. PICK L \in Nat : L = Len(answers) /\ DOMAIN answers = 1..L
    BY DEF TypeOK
  <1>3. L = IF mode = "one" THEN 0 ELSE turn - 1
    BY <1>2 DEF LandedInv
  <1>4. turn \in Nat
    BY DEF TypeOK
  <1>5. ASSUME NEW i \in DOMAIN answers PROVE OnDisk(i)' <=> OnDisk(i)
    <2>1. i \in 1..L
      BY <1>2
    <2>2. mode # "one" /\ i # turn
      BY <1>3, <1>4, <2>1
    <2> QED BY <2>2 DEF OnDisk
  <1>6. ASSUME NEW i, i = L + 1 PROVE OnDisk(i)' <=> LandedNext
    <2>1. mode # "one" => L + 1 = turn
      BY <1>3, <1>4
    <2> QED BY <1>6, <2>1 DEF OnDisk, LandedNext
  <1>7. ASSUME NEW i \in DOMAIN answers'
        PROVE  IF answers'[i] \in {"applied", "not durable"} THEN OnDisk(i)' ELSE OnDisk(i)' => unsure'
    <2>1. CASE i \in DOMAIN answers
      BY <1>1, <1>5, <2>1 DEF TrueAnswers, UnsureStays
    <2>2. CASE i = Len(answers) + 1
      BY <1>1, <1>2, <1>6, <2>2 DEF AnswerRight
    <2> QED BY <1>1, <2>1, <2>2
  <1> QED BY <1>7 DEF TrueAnswers

\* If the file reads as the plan would have it, the plan has landed.
LEMMA ReadBackTells ==
  ASSUME EditInv, pc = "verify", tree[plan.file] = plan.new
  PROVE  Landed
  <1> USE DEF EditInv
  <1> SUFFICES ASSUME ~Landed PROVE FALSE
    OBVIOUS
  <1>1. turn \notin landed
    BY DEF Landed
  <1>2. /\ plan.file \in Files /\ Derived(plan.old, plan.new, Mark, plan.id)
        /\ Len(plan.old) <= Len(plan.new)
    BY <1>1 DEF PlanInv
  <1>3. plan.old \in Seq(Declaration) /\ plan.new \in Seq(Declaration) /\ Mark \in 1..MaxTurn
    BY PlanType
  <1>4. Mentions(plan.new, Mark)
    <2>1. Len(plan.old) \in Nat /\ Len(plan.new) \in Nat
      BY <1>3
    <2> QED BY <1>2, <2>1 DEF Derived
  <1>5. Made(Mark)
    BY <1>2, <1>3, <1>4 DEF FreshInv
  <1> QED BY <1>5 DEF Made, Landed, Mark

\* Before its plan is written, the code of a turn is not on disk.
LEMMA NotLanded ==
  ASSUME LandedInv, pc \in {"ask", "resolve", "read", "write"}
  PROVE  Landed => unsure
  BY DEF LandedInv, Landed, Active

LEMMA TrueStep ==
  ASSUME EditInv, [Next]_vars
  PROVE  TrueAnswers'
  <1> USE DEF EditInv
  <1>1. CASE Unresolved
    <2>1. Landed => unsure
      BY <1>1, NotLanded DEF Unresolved
    <2>2. Active /\ Answer("unresolved") /\ UNCHANGED <<mode, landed, unsure>> /\ "unresolved" \in Words
      BY <1>1 DEF Unresolved, Active, Words
    <2> QED BY <2>1, <2>2, AnswerTrue DEF Landed, LandedNext, AnswerRight, UnsureStays
  <1>2. CASE Read
    <2>1. Landed => unsure
      BY <1>2, NotLanded DEF Read
    <2>2. Active /\ UNCHANGED <<mode, landed, unsure>>
      BY <1>2 DEF Read, Active
    <2>3. ASSUME NEW a \in {"dry-run", "failed"}, Answer(a) PROVE TrueAnswers'
      <3>1. a \in Words /\ a \notin {"applied", "not durable"}
        BY DEF Words
      <3> QED BY <2>1, <2>2, <2>3, <3>1, AnswerTrue DEF Landed, LandedNext, AnswerRight, UnsureStays
    <2>4. CASE UNCHANGED answers
      BY <2>2, <2>4 DEF TrueAnswers, OnDisk
    <2> QED BY <1>2, <2>3, <2>4 DEF Read
  <1>3. CASE Write
    <2>1. /\ Active /\ Answer("applied") /\ landed' = landed \cup {turn} /\ "applied" \in Words
          /\ UNCHANGED <<mode, unsure>>
      BY <1>3 DEF Write, Renamed, Active, Words
    <2> QED BY <2>1, AnswerTrue DEF LandedNext, AnswerRight, UnsureStays
  <1>4. CASE WriteUnsynced
    <2>1. landed' = landed \cup {turn} /\ UNCHANGED <<mode, answers, unsure>> /\ pc = "write"
      BY <1>4 DEF WriteUnsynced, Renamed
    <2>2. PICK L \in Nat : L = Len(answers) /\ DOMAIN answers = 1..L
      BY DEF TypeOK
    <2>3. L = IF mode = "one" THEN 0 ELSE turn - 1
      BY <2>1, <2>2 DEF LandedInv, Active
    <2>4. turn \in Nat
      BY DEF TypeOK
    <2>5. ASSUME NEW i \in DOMAIN answers PROVE OnDisk(i)' <=> OnDisk(i)
      <3>1. i \in 1..L
        BY <2>2
      <3>2. mode # "one" /\ i # turn
        BY <2>3, <2>4, <3>1
      <3> QED BY <2>1, <3>2 DEF OnDisk
    <2> QED BY <2>1, <2>5 DEF TrueAnswers
  <1>5. CASE ReadBack
    <2>1. /\ Active /\ pc = "verify" /\ UNCHANGED <<mode, landed>>
          /\ unsure' = (unsure \/ (turn \in landed /\ tree[plan.file] # plan.new))
      BY <1>5 DEF ReadBack, Active
    <2>2. CASE tree[plan.file] = plan.new
      <3>1. Answer("not durable") /\ "not durable" \in Words
        BY <1>5, <2>2 DEF ReadBack, Words
      <3>2. Landed
        BY <2>1, <2>2, ReadBackTells
      <3> QED BY <2>1, <3>1, <3>2, AnswerTrue DEF Landed, LandedNext, AnswerRight, UnsureStays
    <2>3. CASE tree[plan.file] # plan.new
      <3>1. Answer("failed") /\ "failed" \in Words
        BY <1>5, <2>3 DEF ReadBack, Words
      <3>2. Landed => turn \in landed \/ unsure
        BY <2>1 DEF LandedInv, Landed
      <3> QED BY <2>1, <2>3, <3>1, <3>2, AnswerTrue DEF Landed, LandedNext, AnswerRight, UnsureStays
    <2> QED BY <2>2, <2>3
  <1>6. CASE ReadBackFails
    <2>1. /\ Active /\ UNCHANGED <<mode, landed>> /\ Answer("failed") /\ "failed" \in Words
          /\ unsure' = (unsure \/ turn \in landed)
      BY <1>6 DEF ReadBackFails, Active, Words
    <2>2. Landed => turn \in landed \/ unsure
      BY <2>1 DEF LandedInv, Landed
    <2> QED BY <2>1, <2>2, AnswerTrue DEF Landed, LandedNext, AnswerRight, UnsureStays
  <1>7. CASE Die \/ Retry
    <2>1. answers' = <<>>
      BY <1>7 DEF Die, Retry
    <2>2. DOMAIN answers' = {}
      BY <2>1
    <2> QED BY <2>2 DEF TrueAnswers
  <1>8. CASE UNCHANGED <<mode, answers, landed, unsure>>
    BY <1>8 DEF TrueAnswers, OnDisk
  <1>9. CASE Ask \/ Resolve \/ WriteFails \/ Emit
    BY <1>8, <1>9 DEF Ask, Resolve, WriteFails, Emit
  <1>10. ASSUME NEW f \in Files, NEW n \in Names, UserEdits(f, n) PROVE TrueAnswers'
    BY <1>8, <1>10 DEF UserEdits
  <1>11. CASE UNCHANGED vars
    BY <1>8, <1>11 DEF vars
  <1> QED BY <1>1, <1>2, <1>3, <1>4, <1>5, <1>6, <1>7, <1>9, <1>10, <1>11 DEF Next

-----------------------------------------------------------------------------
(* Where the code is.                                                      *)

\* The steps that leave the files and what has landed alone.
LEMMA ElsewhereKept ==
  ASSUME UNCHANGED <<tree, mode, landed>>, unsure => unsure'
  PROVE  (FreshInv => FreshInv') /\ (OnceInv => OnceInv')
  <1>1. Files' = Files
    BY DEF Files
  <1>2. FreshInv => FreshInv'
    BY <1>1 DEF FreshInv, Made
  <1>3. OnceInv => OnceInv'
    BY <1>1 DEF OnceInv
  <1> QED BY <1>2, <1>3

\* The file that a rename puts in place has the code of the turn once, and of
\* the other turns what the file had that it replaces.
LEMMA RenamedCode ==
  ASSUME EditInv, pc = "write", NEW t \in 1..MaxTurn
  PROVE  /\ t # Mark /\ Mentions(plan.new, t) => Mentions(tree[plan.file], t)
         /\ t # Mark /\ Has(plan.new, t) => Has(tree[plan.file], t)
         /\ t # Mark => unsure \/ Once(plan.new, t)
         /\ unsure \/ (Once(plan.new, Mark) /\ \A f \in Files : ~Has(tree[f], Mark))
  <1> USE DEF EditInv
  <1>1. /\ plan.old \in Seq(Declaration) /\ plan.new \in Seq(Declaration) /\ plan.id \in Nat
        /\ Mark \in 1..MaxTurn /\ Mark \in Nat
    BY PlanType
  <1>2. Derived(plan.old, plan.new, Mark, plan.id) /\ plan.file \in Files
    BY DEF PlanInv
  <1>3. ASSUME NEW x \in 1..MaxTurn
        PROVE  /\ Mentions(plan.old, x) => Mentions(tree[plan.file], x)
               /\ Has(plan.old, x) => Has(tree[plan.file], x)
               /\ unsure \/ Once(plan.old, x)
    <2>1. turn \notin landed
      BY DEF LandedInv
    <2> QED BY <2>1 DEF PlanInv
  <1>4. t \in Nat
    OBVIOUS
  <1>5. /\ t # Mark /\ Mentions(plan.new, t) => Mentions(plan.old, t)
        /\ t # Mark /\ Has(plan.new, t) => Has(plan.old, t)
        /\ t # Mark /\ Once(plan.old, t) => Once(plan.new, t)
        /\ ~Has(plan.old, Mark) => Once(plan.new, Mark)
    BY <1>1, <1>2, <1>4, DerivedKeeps
  <1>6. unsure \/ ~Made(Mark)
    BY DEF LandedInv, Made, Mark, Active
  <1>7. ~Made(Mark) => \A f \in Files : ~Has(tree[f], Mark)
    BY <1>1 DEF FreshInv, Mentions, Has
  <1> QED BY <1>1, <1>2, <1>3, <1>5, <1>6, <1>7

LEMMA FreshStep ==
  ASSUME EditInv, [Next]_vars
  PROVE  FreshInv'
  <1> USE DEF EditInv
  <1>1. CASE Write \/ WriteUnsynced
    <2>1. Renamed /\ pc = "write" /\ mode' = mode
      BY <1>1 DEF Write, WriteUnsynced
    <2>2. /\ Files' = Files /\ landed' = landed \cup {turn} /\ plan.file \in Files
          /\ tree'[plan.file] = plan.new /\ \A f \in Files : f # plan.file => tree'[f] = tree[f]
      BY <2>1, RenamedFile
    <2> SUFFICES ASSUME NEW t \in 1..MaxTurn, ~Made(t)', NEW f \in Files
                 PROVE  ~Mentions(tree'[f], t)
      BY <2>2 DEF FreshInv
    <2>3. t # Mark /\ ~Made(t)
      BY <2>1, <2>2 DEF Made, Mark
    <2>4. \A g \in Files : ~Mentions(tree[g], t)
      BY <2>3 DEF FreshInv
    <2>5. ~Mentions(plan.new, t)
      BY <2>1, <2>2, <2>3, <2>4, RenamedCode
    <2> QED BY <2>2, <2>4, <2>5
  <1>2. ASSUME NEW g \in Files, NEW n \in Names, UserEdits(g, n) PROVE FreshInv'
    <2>1. Files' = Files /\ \A f \in Files : f # g => tree'[f] = tree[f]
      BY <1>2, UserFile
    <2>2. UNCHANGED <<mode, landed>>
      BY <1>2 DEF UserEdits
    <2> SUFFICES ASSUME NEW t \in 1..MaxTurn, ~Made(t)', NEW f \in Files
                 PROVE  ~Mentions(tree'[f], t)
      BY <2>1 DEF FreshInv
    <2>3. \A x \in Files : ~Mentions(tree[x], t)
      BY <2>2 DEF FreshInv, Made
    <2>4. ~Mentions(tree'[g], t)
      <3> SUFFICES ASSUME NEW i \in DOMAIN tree'[g], tree'[g][i].id = New(t) \/ t \in tree'[g][i].body
                   PROVE  FALSE
        BY DEF Mentions
      <3>1. New(MaxTurn + 1 + users) # New(t)
        BY EditAssumption DEF TypeOK, New, Oldest
      <3>2. i - 1 \in DOMAIN tree[g] /\ tree'[g][i] = tree[g][i - 1]
        BY <1>2, <3>1, UserFile
      <3> QED BY <2>3, <3>2 DEF Mentions
    <2> QED BY <2>1, <2>3, <2>4
  <1>3. CASE UNCHANGED <<tree, mode, landed>> /\ (unsure => unsure')
    BY <1>3, ElsewhereKept
  <1>4. CASE Ask \/ Resolve \/ Unresolved \/ Read \/ WriteFails \/ Emit \/ Retry
    BY <1>3, <1>4 DEF Ask, Resolve, Unresolved, Read, WriteFails, Emit, Retry
  <1>5. CASE ReadBack \/ ReadBackFails \/ Die
    BY <1>3, <1>5 DEF ReadBack, ReadBackFails, Die
  <1>6. CASE UNCHANGED vars
    BY <1>3, <1>6 DEF vars
  <1> QED BY <1>1, <1>2, <1>4, <1>5, <1>6 DEF Next

LEMMA OnceStep ==
  ASSUME EditInv, [Next]_vars
  PROVE  OnceInv'
  <1> USE DEF EditInv
  <1>1. CASE Write \/ WriteUnsynced
    <2>1. Renamed /\ pc = "write" /\ unsure' = unsure
      BY <1>1 DEF Write, WriteUnsynced
    <2>2. /\ Files' = Files /\ plan.file \in Files
          /\ tree'[plan.file] = plan.new /\ \A f \in Files : f # plan.file => tree'[f] = tree[f]
      BY <2>1, RenamedFile
    <2> SUFFICES ASSUME NEW t \in 1..MaxTurn, ~unsure
                 PROVE  /\ \A f \in Files : Once(tree'[f], t)
                        /\ \A f, g \in Files : Has(tree'[f], t) /\ Has(tree'[g], t) => f = g
      BY <2>1, <2>2 DEF OnceInv
    <2>3. CASE t = Mark
      <3>1. Once(plan.new, t) /\ \A f \in Files : ~Has(tree[f], t)
        BY <2>1, <2>3, RenamedCode
      <3>2. \A f \in Files : f # plan.file => Once(tree'[f], t) /\ ~Has(tree'[f], t)
        BY <2>2, <3>1 DEF Once, Has
      <3> QED BY <2>2, <3>1, <3>2
    <2>4. CASE t # Mark
      <3>1. Once(plan.new, t) /\ (Has(plan.new, t) => Has(tree[plan.file], t))
        BY <2>1, <2>4, RenamedCode
      <3>2. /\ \A f \in Files : Once(tree[f], t)
            /\ \A f, g \in Files : Has(tree[f], t) /\ Has(tree[g], t) => f = g
        BY DEF OnceInv
      <3>3. \A f \in Files : Has(tree'[f], t) => Has(tree[f], t)
        BY <2>2, <3>1
      <3> QED BY <2>2, <3>1, <3>2, <3>3
    <2> QED BY <2>3, <2>4
  <1>2. ASSUME NEW h \in Files, NEW n \in Names, UserEdits(h, n) PROVE OnceInv'
    <2>1. Files' = Files /\ \A f \in Files : f # h => tree'[f] = tree[f]
      BY <1>2, UserFile
    <2>2. unsure' = unsure
      BY <1>2 DEF UserEdits
    <2> SUFFICES ASSUME NEW t \in 1..MaxTurn, ~unsure
                 PROVE  /\ \A f \in Files : Once(tree'[f], t)
                        /\ \A f, g \in Files : Has(tree'[f], t) /\ Has(tree'[g], t) => f = g
      BY <2>1, <2>2 DEF OnceInv
    <2>3. /\ \A f \in Files : Once(tree[f], t)
          /\ \A f, g \in Files : Has(tree[f], t) /\ Has(tree[g], t) => f = g
      BY DEF OnceInv
    <2>4. New(MaxTurn + 1 + users) # New(t)
      BY EditAssumption DEF TypeOK, New, Oldest
    <2>5. \A i \in DOMAIN tree'[h] : tree'[h][i].id = New(t) =>
            i \in Int /\ i - 1 \in DOMAIN tree[h] /\ tree[h][i - 1].id = New(t)
      <3>1. tree'[h] \in Seq(Declaration)
        BY <1>2, <2>1, UserFile
      <3>2. \A i \in DOMAIN tree'[h] : i \in Int
        BY <3>1
      <3> QED BY <1>2, <2>4, <3>2, UserFile
    <2>6. Once(tree'[h], t)
      <3> SUFFICES ASSUME NEW p \in DOMAIN tree'[h], NEW m \in DOMAIN tree'[h],
                          tree'[h][p].id = New(t), tree'[h][m].id = New(t)
                   PROVE  p = m
        BY DEF Once
      <3>1. p - 1 = m - 1
        BY <2>3, <2>5 DEF Once
      <3> QED BY <2>5, <3>1
    <2>7. Has(tree'[h], t) => Has(tree[h], t)
      BY <2>5 DEF Has
    <2>8. \A f \in Files : Once(tree'[f], t) /\ (Has(tree'[f], t) => Has(tree[f], t))
      BY <2>1, <2>3, <2>6, <2>7
    <2> QED BY <2>3, <2>8
  <1>3. CASE UNCHANGED <<tree, mode, landed>> /\ (unsure => unsure')
    BY <1>3, ElsewhereKept
  <1>4. CASE Ask \/ Resolve \/ Unresolved \/ Read \/ WriteFails \/ Emit \/ Retry
    BY <1>3, <1>4 DEF Ask, Resolve, Unresolved, Read, WriteFails, Emit, Retry
  <1>5. CASE ReadBack \/ ReadBackFails \/ Die
    BY <1>3, <1>5 DEF ReadBack, ReadBackFails, Die
  <1>6. CASE UNCHANGED vars
    BY <1>3, <1>6 DEF vars
  <1> QED BY <1>1, <1>2, <1>4, <1>5, <1>6 DEF Next

LEMMA PlanStep ==
  ASSUME EditInv, [Next]_vars
  PROVE  PlanInv'
  <1> USE DEF EditInv
  <1>1. CASE pc' \notin {"write", "verify"}
    BY <1>1 DEF PlanInv
  <1>2. CASE Read /\ pc' = "write"
    <2>1. Planned
      BY <1>2, ReadPlans
    <2>2. UNCHANGED <<tree, mode, turn, landed, unsure>>
      BY <1>2 DEF Read, Answer
    <2>3. Mark' = Mark /\ Files' = Files
      BY <2>2 DEF Mark, Files
    <2>4. /\ plan'.file \in Files' /\ Derived(plan'.old, plan'.new, Mark', plan'.id)
          /\ tree'[plan'.file] = plan'.old
      BY <2>1, <2>2, <2>3 DEF Planned
    <2>5. \A t \in 1..MaxTurn : unsure \/ Once(plan'.old, t)
      BY <2>1 DEF Planned, OnceInv
    <2>6. Len(plan'.old) \in Int
      BY <2>1 DEF Planned
    <2>7. Len(plan'.old) <= Len(tree'[plan'.file])
      BY <2>4, <2>6
    <2> QED BY <2>2, <2>4, <2>5, <2>7 DEF PlanInv
  <1>3. CASE WriteUnsynced
    <2>1. /\ UNCHANGED <<plan, mode, turn>> /\ Renamed /\ pc = "write"
      BY <1>3 DEF WriteUnsynced
    <2>2. turn' \in landed' /\ Files' = Files
      BY <2>1, RenamedFile
    <2>3. Mark' = Mark
      BY <2>1 DEF Mark
    <2> QED BY <2>1, <2>2, <2>3 DEF PlanInv
  <1>4. CASE UNCHANGED <<tree, mode, turn, plan, raced, landed, unsure>> /\ (pc' \in {"write", "verify"} => pc \in {"write", "verify"})
    <2>1. Mark' = Mark /\ Files' = Files
      BY <1>4 DEF Mark, Files
    <2> QED BY <1>4, <2>1 DEF PlanInv
  <1>5. ASSUME NEW f \in Files, NEW n \in Names, UserEdits(f, n), pc \in {"write", "verify"} PROVE PlanInv'
    <2>1. UNCHANGED <<pc, plan, mode, turn, landed, unsure>> /\ raced' = (raced \/ f = plan.file)
      BY <1>5 DEF UserEdits
    <2>2. Mark' = Mark
      BY <2>1 DEF Mark
    <2>3. Files' = Files /\ \A g \in Files : g # f => tree'[g] = tree[g]
      BY <1>5, UserFile
    <2>4. plan.file \in Files
      BY <1>5 DEF PlanInv
    <2>5. Len(tree[plan.file]) <= Len(tree'[plan.file])
      <3>1. Len(tree[f]) \in Nat /\ Len(tree[plan.file]) \in Nat
        BY <2>4 DEF TypeOK
      <3>2. Len(tree'[f]) = Len(tree[f]) + 1
        BY <1>5, UserFile
      <3>3. f # plan.file => tree'[plan.file] = tree[plan.file]
        BY <2>3, <2>4
      <3> QED BY <3>1, <3>2, <3>3
    <2>6. \A i \in DOMAIN tree[f] : i + 1 \in DOMAIN tree'[f] /\ tree'[f][i + 1] = tree[f][i]
      BY <1>5, UserFile
    <2>7. ASSUME NEW t \in 1..MaxTurn
          PROVE  /\ Mentions(tree[plan.file], t) => Mentions(tree'[plan.file], t)
                 /\ Has(tree[plan.file], t) => Has(tree'[plan.file], t)
      <3>1. Mentions(tree[f], t) => Mentions(tree'[f], t)
        BY <2>6 DEF Mentions
      <3>2. Has(tree[f], t) => Has(tree'[f], t)
        BY <2>6 DEF Has
      <3> QED BY <2>3, <2>4, <3>1, <3>2
    <2>8. turn \notin landed => Len(plan.old) <= Len(tree'[plan.file])
      <3>1. Len(tree[plan.file]) \in Nat /\ Len(plan.old) \in Nat /\ Len(tree'[plan.file]) \in Nat
        <4>1. tree' \in [Files -> Seq(Declaration)]
          BY <1>5, UserFile
        <4> QED BY SMTT(30), ZenonT(60), <2>4, <4>1, PlanType DEF TypeOK
      <3> QED BY <1>5, <2>5, <3>1 DEF PlanInv
    <2>9. turn \notin landed => raced' \/ tree'[plan.file] = plan.old
      BY <1>5, <2>1, <2>3, <2>4 DEF PlanInv
    <2> QED BY <1>5, <2>1, <2>2, <2>3, <2>4, <2>7, <2>8, <2>9 DEF PlanInv
  <1>6. CASE Ask \/ Resolve \/ Unresolved \/ Write \/ ReadBack \/ ReadBackFails \/ Emit \/ Die \/ Retry
    BY <1>1, <1>6 DEF Ask, Resolve, Unresolved, Write, ReadBack, ReadBackFails, Emit, Die, Retry, Answer
  <1>7. CASE Read /\ pc' # "write"
    <2>1. pc' \in {"emit", "ask"}
      BY <1>7 DEF Read, Answer
    <2> QED BY <1>1, <2>1
  <1>8. CASE WriteFails
    BY <1>4, <1>8 DEF WriteFails
  <1>9. ASSUME NEW f \in Files, NEW n \in Names, UserEdits(f, n) PROVE PlanInv'
    <2>1. pc' = pc
      BY <1>9 DEF UserEdits
    <2> QED BY <1>1, <1>5, <1>9, <2>1
  <1>10. CASE UNCHANGED vars
    BY <1>4, <1>10 DEF vars
  <1> QED BY <1>2, <1>3, <1>6, <1>7, <1>8, <1>9, <1>10 DEF Next

-----------------------------------------------------------------------------
(* The theorems.                                                           *)

\* Types; the row of the request and the names of declarations; what landed and
\* what was answered; where the code of each turn is; what a plan is about
\* (runEdit, runBatchEdit, Apply).
THEOREM EditInvariance == Spec => []EditInv
  <1>1. EditInv /\ [Next]_vars => EditInv'
    BY TypeStep, RowStep, NamesStep, LandedStep, TrueStep, FreshStep, OnceStep, PlanStep, TargetStep DEF EditInv
  <1> QED BY InitInv, <1>1, PTL DEF Spec

\* No answer of snipe edit is false, and however often a client repeats a
\* request that was answered with an error, its code is in the files once.
THEOREM AnswersAreTrue == Spec => []AnswerIsTrue
  <1>1. EditInv => AnswerIsTrue
    <2> SUFFICES ASSUME EditInv PROVE AnswerIsTrue
      OBVIOUS
    <2> USE DEF EditInv
    <2>1. ASSUME NEW t \in 1..MaxTurn, ~unsure PROVE Cardinality(Copies(t)) <= 1
      <3>1. \A x, y \in Copies(t) : x = y
        <4> SUFFICES ASSUME NEW x \in Copies(t), NEW y \in Copies(t) PROVE x = y
          OBVIOUS
        <4>1a. PICK f \in Files : \E p \in DOMAIN tree[f] : x = <<f, p>> /\ tree[f][p].id = New(t)
          BY DEF Copies
        <4>1. PICK p \in DOMAIN tree[f] : x = <<f, p>> /\ tree[f][p].id = New(t)
          BY <4>1a
        <4>2a. PICK g \in Files : \E n \in DOMAIN tree[g] : y = <<g, n>> /\ tree[g][n].id = New(t)
          BY DEF Copies
        <4>2. PICK n \in DOMAIN tree[g] : y = <<g, n>> /\ tree[g][n].id = New(t)
          BY <4>2a
        <4>3. f = g
          BY <2>1, <4>1, <4>2 DEF OnceInv, Has
        <4>4. p = n
          BY <2>1, <4>1, <4>2, <4>3 DEF OnceInv, Once
        <4> QED BY <4>1, <4>2, <4>3, <4>4
      <3>2. CASE Copies(t) = {}
        BY <3>2, FS_EmptySet
      <3>3. CASE Copies(t) # {}
        <4>1. PICK x : Copies(t) = {x}
          BY <3>1, <3>3
        <4> QED BY <4>1, FS_Singleton
      <3> QED BY <3>2, <3>3
    <2> QED BY <2>1 DEF TrueAnswers, AnswerIsTrue
  <1> QED BY EditInvariance, <1>1, PTL

\* An edit reaches the declaration that the lookup chose, unless a namesake
\* stands ahead of it (FindSymbol).
THEOREM EditsReachTheTarget == Spec => []TargetUnlessNamesake
  <1>1. EditInv => TargetUnlessNamesake
    BY DEF EditInv
  <1> QED BY EditInvariance, <1>1, PTL

\* A landed edit leaves the other declarations of the file and their order as
\* they were, unless the user saved the file meanwhile (atomicfile.WriteFile).
THEOREM EditsLeaveTheRest == Spec => OnlyTargetChanges
  <1>1. EditInv /\ [Next]_vars => [Write \/ WriteUnsynced => raced \/ Others(tree[plan.file]) = Others(tree'[plan.file])]_vars
    <2> SUFFICES ASSUME EditInv, Write \/ WriteUnsynced, ~raced
                 PROVE  Others(tree[plan.file]) = Others(tree'[plan.file])
      OBVIOUS
    <2> USE DEF EditInv
    <2>1. pc = "write" /\ Renamed
      BY DEF Write, WriteUnsynced
    <2>2. turn \notin landed
      BY <2>1 DEF LandedInv
    <2>3. tree[plan.file] = plan.old /\ Derived(plan.old, plan.new, Mark, plan.id)
      BY <2>1, <2>2 DEF PlanInv
    <2>4. tree'[plan.file] = plan.new
      BY <2>1, RenamedFile
    <2>5. Others(plan.old) = Others(plan.new)
      BY <2>3, PlanType, DerivedKeepsOthers
    <2> QED BY <2>3, <2>4, <2>5
  <1> QED BY EditInvariance, <1>1, PTL DEF Spec, OnlyTargetChanges

=============================================================================
