----------------------------- MODULE ClientProofs -----------------------------
(***************************************************************************)
(* What a client of snipe may rely on: the commands around a change keep   *)
(* their promises for any tables, trees, refs, commands and number of      *)
(* changes meanwhile, the pages of the query commands lead to the whole    *)
(* answer for any tables, questions and limits, names resolve, impact is   *)
(* whole, the cards of pack agree with the commands, and lifecycle groups  *)
(* all references and walks up to all callers.                             *)
(*                                                                         *)
(* The argument for the first: what a command has seen of the tree, the    *)
(* index and the metrics is as it was unless something stirred since       *)
(* (EnvInv and an invariant of each command).  For the second: a query     *)
(* returns a page of the list it would return without a limit, ranking     *)
(* permutes it and dropping repetitions keeps its values, so that a        *)
(* session with such answers takes the steps of Pager (SessionInv).  For   *)
(* the third: an index of a session is one that a run leaves (Healthy).    *)
(* For the cards: what a card has after each of its statements, and that a *)
(* count and a list of the same rows agree (PackInv, PackageInv).  For     *)
(* lifecycle: the levels of the walk are the distances of the call graph   *)
(* (LifeInv).                                                              *)
(***************************************************************************)
EXTENDS Review, WellFoundedInduction, FiniteSetTheorems, SequenceTheorems, TLAPS

-----------------------------------------------------------------------------
(* SQL: an ORDER BY lists each row once, in the order of the keys.         *)

\* The least-number principle: sets of numbers up to a bound are finite, and
\* finite sets are well-founded by inclusion.
LEMMA LeastOfNats ==
  ASSUME NEW S \in SUBSET Nat, S # {}
  PROVE  \E n \in S : \A m \in S : n <= m
  <1> DEFINE Upto(n) == S \cap (0 .. n)
             T == {Upto(n) : n \in S}
  <1>1. T \subseteq FiniteSubsetsOf(Nat)
    <2> SUFFICES ASSUME NEW n \in S PROVE Upto(n) \in FiniteSubsetsOf(Nat)
      OBVIOUS
    <2>1. IsFiniteSet(0 .. n)
      BY FS_Interval
    <2>2. IsFiniteSet(Upto(n))
      BY <2>1, FS_Subset
    <2> QED BY <2>2 DEF FiniteSubsetsOf
  <1>2. PICK U \in T : \A V \in T : ~(<<V, U>> \in StrictSubsetOrdering(Nat))
    <2>1. T # {}
      OBVIOUS
    <2> HIDE DEF T
    <2> QED BY ONLY <1>1, <2>1, WFMin, FS_StrictSubsetOrderingWellFounded
  <1>3. PICK n \in S : U = Upto(n)
    OBVIOUS
  <1>4. ASSUME NEW m \in S, m < n PROVE FALSE
    <2>1. Upto(m) \subseteq Upto(n) /\ n \in Upto(n) /\ n \notin Upto(m)
      BY <1>4
    <2>2. <<Upto(m), Upto(n)>> \in StrictSubsetOrdering(Nat)
      BY <2>1 DEF StrictSubsetOrdering
    <2> QED BY <1>2, <1>3, <2>2
  <1> QED BY <1>4


\* Keys of one length are in one order.
LEMMA BeforeIrreflexive ==
  ASSUME NEW a \in Seq(Int)
  PROVE  ~Before(a, a)
  BY DEF Before

LEMMA BeforeTransitive ==
  ASSUME NEW n \in Nat, NEW a \in Seq(Int), NEW b \in Seq(Int), NEW c \in Seq(Int), Len(a) = n, Len(b) = n, Len(c) = n,
         Before(a, b), Before(b, c)
  PROVE  Before(a, c)
  <1>1. PICK i \in 1..n : a[i] < b[i] /\ \A k \in 1..(i - 1) : a[k] = b[k]
    BY DEF Before
  <1>2. PICK j \in 1..n : b[j] < c[j] /\ \A k \in 1..(j - 1) : b[k] = c[k]
    BY DEF Before
  <1>3. \A k \in 1..n : a[k] \in Int /\ b[k] \in Int /\ c[k] \in Int
    OBVIOUS
  <1>4. CASE i < j
    <2>1. i \in 1..(j - 1) /\ a[i] < c[i] /\ \A k \in 1..(i - 1) : a[k] = c[k]
      BY <1>1, <1>2, <1>3, <1>4
    <2> QED BY <2>1 DEF Before
  <1>5. CASE j < i
    <2>1. j \in 1..(i - 1) /\ a[j] < c[j] /\ \A k \in 1..(j - 1) : a[k] = c[k]
      BY <1>1, <1>2, <1>3, <1>5
    <2> QED BY <2>1 DEF Before
  <1>6. CASE i = j
    <2>1. a[i] < c[i] /\ \A k \in 1..(i - 1) : a[k] = c[k]
      BY <1>1, <1>2, <1>3, <1>6
    <2> QED BY <2>1 DEF Before
  <1> QED BY <1>4, <1>5, <1>6

LEMMA BeforeTotal ==
  ASSUME NEW n \in Nat, NEW a \in Seq(Int), NEW b \in Seq(Int), Len(a) = n, Len(b) = n, a # b
  PROVE  Before(a, b) \/ Before(b, a)
  <1> DEFINE Differ == {i \in 1..n : a[i] # b[i]}
  <1>1. Differ # {}
    OBVIOUS
  <1>2. Differ \in SUBSET Nat
    OBVIOUS
  <1>3. PICK i \in Differ : \A m \in Differ : i <= m
    BY <1>1, <1>2, LeastOfNats
  <1>4. \A k \in 1..(i - 1) : a[k] = b[k]
    BY <1>3
  <1>5. a[i] < b[i] \/ b[i] < a[i]
    OBVIOUS
  <1> QED BY <1>4, <1>5 DEF Before

\* The rows with their keys.
Keyed(S, key, n) == /\ IsFiniteSet(S) /\ n \in Nat
                    /\ key \in [S -> Seq(Int)] /\ \A e \in S : Len(key[e]) = n
                    /\ \A e, f \in S : key[e] = key[f] => e = f
Preceding(S, key, e) == {x \in S : Before(key[x], key[e])}
Rank(S, key) == [e \in S |-> Cardinality(Preceding(S, key, e)) + 1]

LEMMA RankGrows ==
  ASSUME NEW S, NEW key, NEW n, Keyed(S, key, n), NEW e \in S, NEW f \in S, Before(key[e], key[f])
  PROVE  Rank(S, key)[e] < Rank(S, key)[f]
  <1> USE DEF Keyed
  <1>1. Preceding(S, key, e) \subseteq Preceding(S, key, f)
    BY BeforeTransitive DEF Preceding
  <1>2. e \in Preceding(S, key, f) /\ e \notin Preceding(S, key, e)
    BY BeforeIrreflexive DEF Preceding
  <1>3. IsFiniteSet(Preceding(S, key, f)) /\ IsFiniteSet(Preceding(S, key, e))
    BY FS_Subset DEF Preceding
  <1>4. /\ Cardinality(Preceding(S, key, e)) <= Cardinality(Preceding(S, key, f))
        /\ Cardinality(Preceding(S, key, e)) # Cardinality(Preceding(S, key, f))
    BY <1>1, <1>2, <1>3, FS_Subset
  <1>5. Cardinality(Preceding(S, key, e)) \in Nat /\ Cardinality(Preceding(S, key, f)) \in Nat
    BY <1>3, FS_CardinalityType
  <1> QED BY <1>4, <1>5 DEF Rank

LEMMA RankIsBijection ==
  ASSUME NEW S, NEW key, NEW n, Keyed(S, key, n)
  PROVE  /\ Cardinality(S) \in Nat
         /\ Rank(S, key) \in Injection(S, 1..Cardinality(S))
         /\ Rank(S, key) \in Surjection(S, 1..Cardinality(S))
  <1> DEFINE rank == Rank(S, key)
  <1>1. Cardinality(S) \in Nat
    BY FS_CardinalityType DEF Keyed
  <1>2. ASSUME NEW e \in S PROVE rank[e] \in 1..Cardinality(S)
    <2>1. Preceding(S, key, e) \subseteq S /\ e \notin Preceding(S, key, e)
      BY BeforeIrreflexive DEF Preceding, Keyed
    <2>2. /\ Cardinality(Preceding(S, key, e)) <= Cardinality(S)
          /\ Cardinality(Preceding(S, key, e)) # Cardinality(S)
          /\ IsFiniteSet(Preceding(S, key, e))
      BY <2>1, FS_Subset DEF Keyed
    <2>3. Cardinality(Preceding(S, key, e)) \in Nat
      BY <2>2, FS_CardinalityType
    <2> QED BY <1>1, <2>2, <2>3 DEF Rank
  <1>3. ASSUME NEW e \in S, NEW f \in S, rank[e] = rank[f] PROVE e = f
    <2>1. SUFFICES ASSUME key[e] # key[f] PROVE FALSE
      BY DEF Keyed
    <2>2. Before(key[e], key[f]) \/ Before(key[f], key[e])
      BY <2>1, BeforeTotal DEF Keyed
    <2>3. rank[e] < rank[f] \/ rank[f] < rank[e]
      BY <2>2, RankGrows
    <2> QED BY <1>1, <1>2, <1>3, <2>3
  <1>4. rank \in [S -> 1..Cardinality(S)]
    BY <1>2 DEF Rank
  <1>5. rank \in Injection(S, 1..Cardinality(S))
    <2> HIDE DEF rank
    <2> QED BY <1>3, <1>4 DEF Injection, IsInjective
  <1>6. IsFiniteSet(1..Cardinality(S)) /\ Cardinality(1..Cardinality(S)) = Cardinality(S)
    BY <1>1, FS_Interval
  <1>7. rank \in Surjection(S, 1..Cardinality(S))
    BY <1>5, <1>6, FS_Injection
  <1> QED BY <1>1, <1>5, <1>7

\* What an order is: each row once, by the keys.
InOrder(S, key, rows) ==
  /\ Cardinality(S) \in Nat /\ rows \in [1..Cardinality(S) -> S]
  /\ \A e \in S : \E i \in 1..Cardinality(S) : rows[i] = e
  /\ \A i, j \in 1..Cardinality(S) : i < j => rows[i] # rows[j] /\ Before(key[rows[i]], key[rows[j]])

LEMMA OrderedIsInOrder ==
  ASSUME NEW S, NEW key, NEW n, Keyed(S, key, n)
  PROVE  InOrder(S, key, Ordered(S, key))
  <1> DEFINE rank == Rank(S, key)
             rows == Ordered(S, key)
             N    == Cardinality(S)
  <1>1. rows = [i \in 1..N |-> CHOOSE e \in S : rank[e] = i]
    BY DEF Ordered, Rank, Preceding
  <1>2. N \in Nat /\ rank \in Injection(S, 1..N) /\ rank \in Surjection(S, 1..N)
    BY RankIsBijection
  <1> HIDE DEF rank, rows
  <1>3. ASSUME NEW i \in 1..N PROVE rows[i] \in S /\ rank[rows[i]] = i
    <2>1. \E e \in S : rank[e] = i
      BY <1>2 DEF Surjection
    <2> QED BY <1>1, <2>1
  <1>4. rows \in [1..N -> S]
    BY <1>1, <1>3
  <1>5. ASSUME NEW e \in S PROVE rank[e] \in 1..N /\ rows[rank[e]] = e
    <2>1. rank[e] \in 1..N
      BY <1>2 DEF Injection
    <2>2. rows[rank[e]] \in S /\ rank[rows[rank[e]]] = rank[e]
      BY <1>3, <2>1
    <2> QED BY <1>2, <2>1, <2>2 DEF Injection, IsInjective
  <1>6. ASSUME NEW i \in 1..N, NEW j \in 1..N, i < j PROVE rows[i] # rows[j] /\ Before(key[rows[i]], key[rows[j]])
    <2>1. rows[i] # rows[j]
      BY <1>3, <1>6
    <2>2. key[rows[i]] # key[rows[j]]
      BY <1>3, <2>1 DEF Keyed
    <2>3. Before(key[rows[i]], key[rows[j]]) \/ Before(key[rows[j]], key[rows[i]])
      BY <1>3, <2>2, BeforeTotal DEF Keyed
    <2>4. CASE Before(key[rows[j]], key[rows[i]])
      <3>1. rank[rows[j]] < rank[rows[i]]
        BY <1>3, <2>4, RankGrows DEF rank
      <3> QED BY <1>3, <1>6, <3>1
    <2> QED BY <2>1, <2>3, <2>4
  <1> QED BY <1>2, <1>4, <1>5, <1>6 DEF InOrder, rows

LEMMA OrderByIsInOrder ==
  ASSUME NEW S, IsFiniteSet(S), S \subseteq Int, NEW n \in Nat, NEW base \in [S -> Seq(Int)], \A e \in S : Len(base[e]) = n
  PROVE  LET key == [e \in S |-> Append(base[e], e)] IN InOrder(S, key, Ordered(S, key))
  <1> DEFINE key == [e \in S |-> Append(base[e], e)]
  <1>1. ASSUME NEW e \in S
        PROVE  key[e] \in Seq(Int) /\ Len(key[e]) = n + 1 /\ key[e][n + 1] = e
    OBVIOUS
  <1>2. Keyed(S, key, n + 1)
    <2>1. key \in [S -> Seq(Int)]
      BY <1>1
    <2> HIDE DEF key
    <2> QED BY <1>1, <2>1 DEF Keyed
  <1> HIDE DEF key
  <1>3. InOrder(S, key, Ordered(S, key))
    BY <1>2, OrderedIsInOrder
  <1> QED BY <1>3 DEF key

LEMMA AppendFirst ==
  ASSUME NEW q \in Seq(Int), Len(q) = 4, NEW x \in Int
  PROVE  Append(q, x) \in Seq(Int) /\ Len(Append(q, x)) = 5 /\ Append(q, x)[1] = q[1]
  <1>1. /\ Append(q, x) \in Seq(Int) /\ Len(Append(q, x)) = Len(q) + 1
        /\ \A i \in 1..Len(q) : Append(q, x)[i] = q[i]
    BY ONLY q \in Seq(Int), x \in Int, AppendProperties
  <1>2. 1 \in 1..Len(q) /\ Len(q) + 1 = 5
    OBVIOUS
  <1> QED BY ONLY <1>1, <1>2

\* The first of two keys begins with the smaller number.
LEMMA BeforeFirst ==
  ASSUME NEW a \in Seq(Int), NEW b \in Seq(Int), Len(a) > 1, Len(a) = Len(b), Before(a, b)
  PROVE  a[1] <= b[1]
  <1>1. PICK i \in 1..Len(a) : a[i] < b[i] /\ \A k \in 1..(i - 1) : a[k] = b[k]
    BY DEF Before
  <1>2. CASE i = 1
    BY <1>1, <1>2
  <1>3. CASE i # 1
    BY <1>1, <1>3
  <1> QED BY <1>2, <1>3

-----------------------------------------------------------------------------
(* Lists, and parts of them.                                               *)

List(rows, n) == n \in Nat /\ rows = [i \in 1..n |-> rows[i]]
Each(rows, n, S) == List(rows, n) /\ {rows[i] : i \in 1..n} = S /\ \A i, j \in 1..n : rows[i] = rows[j] => i = j

LEMMA ListLen ==
  ASSUME NEW rows, NEW n, List(rows, n)
  PROVE  DOMAIN rows = 1..n /\ Len(rows) = n /\ (rows = <<>> <=> n = 0)
  <1>1. rows \in Seq({rows[i] : i \in 1..n}) /\ DOMAIN rows = 1..n
    BY DEF List
  <1>2. Len(rows) = n
    BY <1>1 DEF List
  <1> QED BY <1>1, <1>2, EmptySeq

LEMMA InOrderEach ==
  ASSUME NEW S, NEW key, NEW rows, InOrder(S, key, rows)
  PROVE  Each(rows, Cardinality(S), S)
  <1> DEFINE N == Cardinality(S)
  <1>1. N \in Nat /\ rows \in [1..N -> S]
    BY DEF InOrder
  <1>2. \A i, j \in 1..N : rows[i] = rows[j] => ~(i < j) /\ ~(j < i)
    BY DEF InOrder
  <1>3. {rows[i] : i \in 1..N} = S
    BY <1>1 DEF InOrder
  <1> HIDE DEF N
  <1>4. \A i, j \in 1..N : rows[i] = rows[j] => i = j
    BY <1>1, <1>2
  <1> QED BY <1>1, <1>3, <1>4 DEF Each, List, N

LEMMA InsertedEach ==
  ASSUME NEW S, IsFiniteSet(S), S \subseteq Int
  PROVE  Each(Inserted(S), Cardinality(S), S)
  <1> DEFINE base == [e \in S |-> <<>>]
             key  == [e \in S |-> Append(base[e], e)]
  <1>1. base \in [S -> Seq(Int)] /\ \A e \in S : Len(base[e]) = 0
    OBVIOUS
  <1>2. key = [e \in S |-> Append(<<>>, e)]
    OBVIOUS
  <1>3. Inserted(S) = Ordered(S, key)
    BY <1>2 DEF Inserted, OrderBy
  <1> HIDE DEF base
  <1>4. InOrder(S, key, Ordered(S, key))
    BY <1>1, OrderByIsInOrder
  <1> QED BY <1>3, <1>4, InOrderEach

LEMMA CountEach ==
  ASSUME NEW rows, NEW n, NEW S, Each(rows, n, S)
  PROVE  IsFiniteSet(S) /\ Cardinality(S) = n
  <1>1. n \in Nat /\ rows \in [1..n -> S]
    BY DEF Each, List
  <1>2. rows \in Bijection(1..n, S)
    BY <1>1 DEF Each, Bijection, Injection, Surjection, IsInjective
  <1>3. ExistsBijection(1..n, S)
    BY <1>2 DEF ExistsBijection
  <1>4. IsFiniteSet(1..n) /\ Cardinality(1..n) = n
    BY <1>1, FS_Interval
  <1> QED BY <1>3, <1>4, FS_Bijection

\* The rows at the positions K.
Part(rows, K) == [i \in DOMAIN Inserted(K) |-> rows[Inserted(K)[i]]]

LEMMA PartEach ==
  ASSUME NEW rows, NEW n, NEW S, Each(rows, n, S), NEW K \in SUBSET (1..n)
  PROVE  Each(Part(rows, K), Cardinality(K), {rows[k] : k \in K})
  <1>1. IsFiniteSet(K) /\ K \subseteq Int
    <2>1. IsFiniteSet(1..n) /\ 1..n \subseteq Int
      BY FS_Interval DEF Each, List
    <2> QED BY <2>1, FS_Subset
  <1> DEFINE at == Inserted(K)
             m  == Cardinality(K)
  <1>2. Each(at, m, K)
    BY <1>1, InsertedEach
  <1> HIDE DEF at, m
  <1>3. DOMAIN at = 1..m /\ \A i \in 1..m : at[i] \in K
    BY <1>2 DEF Each, List
  <1>4. Part(rows, K) = [i \in 1..m |-> rows[at[i]]]
    BY <1>3 DEF Part, at
  <1> DEFINE part == Part(rows, K)
  <1>5. List(part, m)
    BY <1>2, <1>4 DEF Each, List
  <1>6. {part[i] : i \in 1..m} = {rows[k] : k \in K}
    <2>1. {at[i] : i \in 1..m} = K
      BY <1>2 DEF Each
    <2> QED BY <1>4, <2>1
  <1>7. ASSUME NEW i \in 1..m, NEW j \in 1..m, part[i] = part[j] PROVE i = j
    <2>1. rows[at[i]] = rows[at[j]] /\ at[i] \in 1..n /\ at[j] \in 1..n
      BY <1>3, <1>4, <1>7
    <2>2. at[i] = at[j]
      BY <2>1 DEF Each
    <2> QED BY <1>2, <2>2 DEF Each
  <1> HIDE DEF part
  <1>8. Each(part, m, {rows[k] : k \in K})
    BY <1>5, <1>6, <1>7 DEF Each
  <1> QED BY <1>8 DEF part, m

LEMMA PartList ==
  ASSUME NEW rows, NEW n \in Nat, NEW K \in SUBSET (1..n)
  PROVE  List(Part(rows, K), Cardinality(K))
  <1>1. IsFiniteSet(K) /\ K \subseteq Int
    <2>1. IsFiniteSet(1..n) /\ 1..n \subseteq Int
      BY FS_Interval
    <2> QED BY <2>1, FS_Subset
  <1>2. List(Inserted(K), Cardinality(K))
    BY <1>1, InsertedEach DEF Each
  <1>3. DOMAIN Inserted(K) = 1..Cardinality(K)
    BY <1>2, ListLen
  <1> QED BY <1>2, <1>3 DEF Part, List

\* A page from the start.
LEMMA PageOfList ==
  ASSUME NEW rows, NEW n, List(rows, n), NEW limit \in Nat
  PROVE  /\ List(Page(rows, limit, 0), IF limit < n THEN limit ELSE n)
         /\ \A i \in 1..(IF limit < n THEN limit ELSE n) : Page(rows, limit, 0)[i] = rows[i]
         /\ limit > 0 => (Page(rows, limit, 0) = <<>> <=> rows = <<>>)
  <1> DEFINE m == IF limit < n THEN limit ELSE n
             page == [i \in 1..m |-> rows[i]]
  <1>1. Len(rows) = n /\ n \in Nat /\ (rows = <<>> <=> n = 0)
    BY ListLen DEF List
  <1>2. Least(limit, IF 0 < Len(rows) THEN Len(rows) - 0 ELSE 0) = m
    BY <1>1 DEF Least
  <1>3. Page(rows, limit, 0) = [i \in 1..m |-> rows[0 + i]]
    BY <1>2 DEF Page
  <1>4. Page(rows, limit, 0) = page
    BY <1>1, <1>3
  <1>5. List(page, m)
    BY <1>1 DEF List
  <1>6. page = <<>> <=> m = 0
    BY <1>5, ListLen
  <1> QED BY <1>1, <1>4, <1>5, <1>6

-----------------------------------------------------------------------------
(* The tests that an answer lists are a list.                              *)

LEMMA FiniteImage ==
  ASSUME NEW f, IsFiniteSet(DOMAIN f), f = [x \in DOMAIN f |-> f[x]]
  PROVE  IsFiniteSet({f[x] : x \in DOMAIN f})
  <1> DEFINE T == {f[x] : x \in DOMAIN f}
  <1>1. f \in Surjection(DOMAIN f, T)
    BY DEF Surjection
  <1> QED BY <1>1, FS_Surjection

LEMMA CallsFinite == IsFiniteSet(DOMAIN Calls)
  <1>1. Len(Calls) \in Nat /\ DOMAIN Calls = 1..Len(Calls)
    BY TablesAssumption
  <1> QED BY <1>1, FS_Interval

LEMMA HopsFinite ==
  ASSUME NEW db, db.calls \subseteq DOMAIN Calls, NEW targets, NEW kept
  PROVE  IsFiniteSet(Hop1(db, targets, kept)) /\ IsFiniteSet(Hop2(db, targets, kept))
  <1>0. IsFiniteSet(db.calls)
    BY CallsFinite, FS_Subset
  <1>1. IsFiniteSet(Hop1(db, targets, kept))
    <2> DEFINE K == {c \in db.calls : Calls[c].to \in targets /\ Calls[c].from \in kept}
               f == [c \in K |-> <<1, Calls[c].from, c, c>>]
    <2>1. IsFiniteSet(K)
      BY <1>0, FS_Subset
    <2>2. DOMAIN f = K /\ f = [x \in DOMAIN f |-> f[x]]
      OBVIOUS
    <2>3. Hop1(db, targets, kept) = {f[c] : c \in DOMAIN f}
      BY DEF Hop1
    <2> HIDE DEF f, K
    <2> QED BY <2>1, <2>2, <2>3, FiniteImage
  <1>2. IsFiniteSet(Hop2(db, targets, kept))
    <2> DEFINE last  == {c \in db.calls : Calls[c].to \in targets}
               first == {c \in db.calls : Calls[c].from \in kept}
               K == {e \in last \X first : Calls[e[2]].to = Calls[e[1]].from}
               f == [e \in K |-> <<2, Calls[e[2]].from, e[1], e[2]>>]
    <2>1. IsFiniteSet(K)
      <3>1. IsFiniteSet(last) /\ IsFiniteSet(first)
        BY <1>0, FS_Subset
      <3>2. IsFiniteSet(last \X first)
        BY <3>1, FS_Product
      <3> QED BY <3>2, FS_Subset
    <2>2. DOMAIN f = K /\ f = [x \in DOMAIN f |-> f[x]]
      OBVIOUS
    <2>3. Hop2(db, targets, kept) = {f[e] : e \in DOMAIN f}
      BY DEF Hop2
    <2> HIDE DEF f, K
    <2> QED BY <2>1, <2>2, <2>3, FiniteImage
  <1> QED BY <1>1, <1>2

LEMMA TestsListed ==
  ASSUME NEW db, db.calls \subseteq DOMAIN Calls, NEW targets, NEW direct
  PROVE  \E n \in Nat : List(FindTests(db, targets, direct), n)
  <1> DEFINE kept == {i \in db.syms : IsTest(i)}
             hops == Hops(db, targets, direct, kept)
             ids  == Ids(hops)
             K    == {k \in DOMAIN ids : \A j \in 1..(k - 1) : ids[j] # ids[k]}
  <1>1. \E n \in Nat : DOMAIN hops = 1..n
    <2> DEFINE near == Hop1(db, targets, kept)
               far  == {h \in Hop2(db, targets, kept) : \A e \in near : e[2] # h[2]}
               rows == near \cup (IF direct THEN {} ELSE far)
    <2>1. IsFiniteSet(near) /\ IsFiniteSet(Hop2(db, targets, kept))
      BY HopsFinite
    <2>2. IsFiniteSet(far)
      <3> HIDE DEF near
      <3> QED BY <2>1, FS_Subset
    <2>3. IsFiniteSet(rows)
      <3> HIDE DEF near, far
      <3> QED BY <2>1, <2>2, FS_Union, FS_EmptySet
    <2>4. DOMAIN hops = 1..Cardinality(rows)
      BY DEF Hops, Ordered
    <2> HIDE DEF rows, hops
    <2> QED BY <2>3, <2>4, FS_CardinalityType
  <1> HIDE DEF hops
  <1>2. DOMAIN ids = DOMAIN hops
    BY DEF Ids, Column
  <1>3. FindTests(db, targets, direct) = Once(ids)
    BY DEF FindTests, hops
  <1> HIDE DEF ids
  <1>4. FindTests(db, targets, direct) = Part(ids, K)
    BY <1>3 DEF Once, Column, Part
  <1>5. PICK n \in Nat : K \subseteq 1..n
    BY <1>1, <1>2
  <1> HIDE DEF K
  <1>6. List(Part(ids, K), Cardinality(K))
    BY <1>5, PartList
  <1> QED BY <1>4, <1>6 DEF List

LEMMA PageOfTests ==
  ASSUME NEW db, db.calls \subseteq DOMAIN Calls, NEW targets, NEW direct, NEW limit \in Nat, limit > 0
  PROVE  Page(FindTests(db, targets, direct), limit, 0) = <<>> <=> FindTests(db, targets, direct) = <<>>
  BY TestsListed, PageOfList

-----------------------------------------------------------------------------
(* What a command has read.                                                *)

HasVerb == {"verb", "pc"} \subseteq DOMAIN review

LEMMA OverDomain ==
  ASSUME NEW new, NEW old
  PROVE  DOMAIN Over(new, old) = DOMAIN new \cup DOMAIN old
  BY DEF Over

LEMMA OverNew ==
  ASSUME NEW new, NEW old, NEW k \in DOMAIN new
  PROVE  Over(new, old)[k] = new[k]
  BY DEF Over

LEMMA OverOld ==
  ASSUME NEW new, NEW old, NEW k \in DOMAIN old, k \notin DOMAIN new
  PROVE  Over(new, old)[k] = old[k]
  BY DEF Over

\* A step of a command adds to what it has read.
LEMMA GoesAdds ==
  ASSUME NEW pc, NEW more, Goes(pc, more), "pc" \notin DOMAIN more
  PROVE  /\ DOMAIN review' = {"pc"} \cup DOMAIN more \cup DOMAIN review
         /\ review'["pc"] = pc
         /\ \A k \in DOMAIN more : review'[k] = more[k]
         /\ \A k \in DOMAIN review \ ({"pc"} \cup DOMAIN more) : review'[k] = review[k]
  <1> DEFINE step == [pc |-> pc]
             rest == Over(more, review)
  <1>1. review' = Over(step, rest)
    BY DEF Goes
  <1>2. DOMAIN step = {"pc"} /\ step["pc"] = pc
    OBVIOUS
  <1> HIDE DEF step
  <1>3. DOMAIN rest = DOMAIN more \cup DOMAIN review
    BY OverDomain
  <1>4. \A k \in DOMAIN more : rest[k] = more[k]
    BY OverNew
  <1>5. \A k \in DOMAIN review \ DOMAIN more : rest[k] = review[k]
    BY OverOld
  <1> HIDE DEF rest
  <1>6. DOMAIN review' = {"pc"} \cup DOMAIN rest
    BY <1>1, <1>2, OverDomain
  <1>7. review'["pc"] = pc
    BY <1>1, <1>2, OverNew
  <1>8. \A k \in DOMAIN rest \ {"pc"} : review'[k] = rest[k]
    BY <1>1, <1>2, OverOld
  <1> QED BY <1>3, <1>4, <1>5, <1>6, <1>7, <1>8

\* Its name is not among what it adds.
LEMMA GoesNamed ==
  ASSUME HasVerb, NEW pc, NEW more, Goes(pc, more), DOMAIN more \cap {"verb", "pc"} = {}
  PROVE  HasVerb' /\ review'.verb = review.verb
  BY GoesAdds DEF HasVerb

LEMMA RiskNamed ==
  ASSUME HasVerb, Risk
  PROVE  HasVerb' /\ review'.verb = review.verb
  <1>1. CASE RiskBase
    <2> DEFINE more == Over([baseSHA |-> At(review.base)], Unmeasured)
    <2>1. DOMAIN more \cap {"verb", "pc"} = {}
      BY DEF Over, Unmeasured
    <2> QED BY <1>1, <2>1, GoesNamed DEF RiskBase
  <1>2. CASE RiskHead
    BY <1>2, GoesNamed DEF RiskHead
  <1>3. CASE RiskDiff
    BY <1>3, GoesNamed DEF RiskDiff
  <1>4. CASE RiskLines
    BY <1>4, GoesNamed DEF RiskLines
  <1>5. CASE RiskSymbols
    BY <1>5, GoesNamed DEF RiskSymbols
  <1>6. CASE RiskReach
    BY <1>6, GoesNamed DEF RiskReach
  <1>7. CASE RiskComplexity
    BY <1>7, GoesNamed DEF RiskComplexity
  <1>8. CASE RiskTests
    BY <1>8, GoesNamed DEF RiskTests
  <1>9. CASE RiskLabel
    BY <1>9, GoesNamed DEF RiskLabel
  <1> QED BY <1>1, <1>2, <1>3, <1>4, <1>5, <1>6, <1>7, <1>8, <1>9 DEF Risk

LEMMA VerifyNamed ==
  ASSUME HasVerb, Verify
  PROVE  HasVerb' /\ review'.verb = review.verb
  <1>1. CASE VerifyDiff
    <2> DEFINE from == IF review.base = "" THEN At("HEAD") ELSE At(review.base)
               to   == IF review.base = "" THEN work ELSE At("HEAD")
               none == [found |-> {}, from |-> from]
               changes == IF review.base = "" THEN workingTreeDiff(from, work) ELSE gitDiff(from, to)
    <2>1. \/ Goes("done", none)
          \/ Goes(IF DOMAIN changes = {} THEN "done" ELSE "stale", Over(none, [changes |-> changes]))
      BY <1>1 DEF VerifyDiff
    <2>2. DOMAIN Over(none, [changes |-> changes]) = {"found", "from", "changes"}
      BY DEF Over
    <2> QED BY <2>1, <2>2, GoesNamed
  <1>2. CASE VerifyStale
    BY <1>2, GoesNamed DEF VerifyStale
  <1>3. CASE VerifySymbols
    BY <1>3, GoesNamed DEF VerifySymbols
  <1>4. CASE VerifyTests
    BY <1>4, GoesNamed DEF VerifyTests
  <1>5. CASE VerifyRipple
    BY <1>5, GoesNamed DEF VerifyRipple
  <1> QED BY <1>1, <1>2, <1>3, <1>4, <1>5 DEF Verify

LEMMA NoneAdded == DOMAIN <<>> = {}
  OBVIOUS

LEMMA PlanNamed ==
  ASSUME HasVerb, Plan
  PROVE  HasVerb' /\ review'.verb = review.verb
  <1>1. CASE PlanFinds
    BY <1>1, GoesNamed, NoneAdded DEF PlanFinds
  <1>2. CASE PlanLoads
    BY <1>2, GoesNamed, NoneAdded DEF PlanLoads
  <1>3. CASE PlanSites
    BY <1>3, GoesNamed DEF PlanSites
  <1>4. CASE PlanTests
    BY <1>4, GoesNamed DEF PlanTests
  <1> QED BY <1>1, <1>2, <1>3, <1>4 DEF Plan

LEMMA LifecycleNamed ==
  ASSUME HasVerb, Lifecycle
  PROVE  HasVerb' /\ review'.verb = review.verb
  <1>1. CASE LifecycleFinds
    BY <1>1, GoesNamed, NoneAdded DEF LifecycleFinds
  <1>2. CASE LifecycleRefs
    BY <1>2, GoesNamed DEF LifecycleRefs
  <1>3. CASE LifecycleCallers
    BY <1>3, GoesNamed DEF LifecycleCallers
  <1>4. CASE LifecycleEnds
    BY <1>4, GoesNamed, NoneAdded DEF LifecycleEnds
  <1> QED BY <1>1, <1>2, <1>3, <1>4 DEF Lifecycle

LEMMA PackNamed ==
  ASSUME HasVerb, Pack
  PROVE  HasVerb' /\ review'.verb = review.verb
  <1>1. CASE PackFinds
    <2>1. CASE Goes("refused", <<>>)
      BY <2>1, GoesNamed, NoneAdded
    <2>2. ASSUME NEW ids, Goes("load", Over([found |-> ids, todo |-> ids], Nothing))
          PROVE  HasVerb' /\ review'.verb = review.verb
      <3>1. DOMAIN Over([found |-> ids, todo |-> ids], Nothing) = {"found", "todo", "cards", "failed"}
        BY DEF Over, Nothing
      <3> QED BY <2>2, <3>1, GoesNamed
    <2> QED BY <1>1, <2>1, <2>2 DEF PackFinds
  <1>2. CASE PackLoads
    <2> DEFINE rest == [todo |-> Tail(review.todo)]
               card == [card |-> ToResultWithHints(d, Head(review.todo))]
               failed == [failed |-> review.failed \cup {Head(review.todo)}]
    <2>1. \/ Goes("refs", Over(rest, card)) \/ Goes("refused", <<>>) \/ Goes("load", Over(rest, failed))
      BY <1>2 DEF PackLoads
    <2>2. DOMAIN Over(rest, card) = {"todo", "card"} /\ DOMAIN Over(rest, failed) = {"todo", "failed"}
      BY DEF Over
    <2> HIDE DEF rest, card, failed
    <2> QED BY <2>1, <2>2, GoesNamed, NoneAdded
  <1>3. ASSUME NEW pc, NEW more, Fills(pc, more) PROVE HasVerb' /\ review'.verb = review.verb
    BY <1>3, GoesNamed DEF Fills
  <1>4. CASE PackRefs
    BY <1>4, <1>3 DEF PackRefs
  <1>5. CASE PackCallers
    BY <1>5, <1>3 DEF PackCallers
  <1>6. CASE PackCallees
    BY <1>6, <1>3 DEF PackCallees
  <1>7. CASE PackCounts
    BY <1>7, GoesNamed DEF PackCounts
  <1>8. CASE PackExplains
    BY <1>8, GoesNamed DEF PackExplains
  <1>9. CASE PackEnds
    BY <1>9, GoesNamed, NoneAdded DEF PackEnds
  <1>10. CASE PackPackage
    <2>1. CASE PackageFinds
      BY <2>1, GoesNamed, NoneAdded DEF PackageFinds
    <2>2. CASE PackageExports
      BY <2>2, <1>3 DEF PackageExports
    <2>3. CASE PackageRanks
      BY <2>3, <1>3 DEF PackageRanks
    <2> QED BY <1>10, <2>1, <2>2, <2>3 DEF PackPackage
  <1> QED BY <1>1, <1>2, <1>4, <1>5, <1>6, <1>7, <1>8, <1>9, <1>10 DEF Pack

LEMMA DescribeNamed ==
  ASSUME HasVerb, Describe
  PROVE  HasVerb' /\ review'.verb = review.verb
  <1>1. CASE NoIndex
    BY <1>1, GoesNamed, NoneAdded DEF NoIndex
  <1>2. CASE Finds
    <2>1. ASSUME NEW i, Goes("load", Over([found |-> <<i>>, todo |-> <<i>>], Nothing))
          PROVE  HasVerb' /\ review'.verb = review.verb
      <3> DEFINE one == [found |-> <<i>>, todo |-> <<i>>]
      <3>1. DOMAIN Over(one, Nothing) = {"found", "todo", "cards", "failed"}
        BY DEF Over, Nothing
      <3> HIDE DEF one
      <3> QED BY <2>1, <3>1, GoesNamed DEF one
    <2>2. ASSUME NEW names, Goes("refused", [suggested |-> names])
          PROVE  HasVerb' /\ review'.verb = review.verb
      BY <2>2, GoesNamed
    <2> QED BY <1>2, <2>1, <2>2 DEF Finds
  <1>3. CASE Pack
    BY <1>3, PackNamed
  <1>4. CASE DefInPkg
    BY <1>4, GoesNamed DEF DefInPkg
  <1>5. CASE DefLoads
    BY <1>5, GoesNamed, NoneAdded DEF DefLoads
  <1>6. CASE TypesLoads
    BY <1>6, GoesNamed, NoneAdded DEF TypesLoads
  <1>7. CASE TypesOfPackage
    BY <1>7, GoesNamed, NoneAdded DEF TypesOfPackage
  <1> QED BY <1>1, <1>2, <1>3, <1>4, <1>5, <1>6, <1>7 DEF Describe

\* Whatever happens, a command stays what it is, and only its own steps add to
\* what it has read.
LEMMA VerbKept ==
  ASSUME HasVerb, [ClientNext]_<<vars, reviewVars>>
  PROVE  /\ HasVerb' /\ review'.verb = review.verb
         /\ Risk \/ Verify \/ Plan \/ Lifecycle \/ Describe \/ UNCHANGED review
  <1>1. Risk \/ Verify \/ Plan \/ Lifecycle \/ Describe \/ UNCHANGED review
    BY DEF ClientNext, ReviewNext, reviewVars, Edit, MoveRef, Index, Meanwhile
  <1> QED BY <1>1, RiskNamed, VerifyNamed, PlanNamed, LifecycleNamed, DescribeNamed DEF HasVerb

-----------------------------------------------------------------------------
(* risk: what is measured is of the commits that the record names.         *)

TwoCommits == Unborn \notin {review.baseSHA, review.headSHA}
Diffed == "changes" \in DOMAIN review /\ (TwoCommits => review.changes = gitDiff(review.baseSHA, review.headSHA))
Sized == TwoCommits => review.size = {Size(review.baseSHA, review.headSHA)}
Weighed == TwoCommits => review.cx = complexity(review.headSHA, gitDiff(review.baseSHA, review.headSHA))
Middle == {"symbols", "reach", "complexity", "tests"}
RiskFields == /\ {"baseSHA", "size", "cx", "degraded"} \subseteq DOMAIN review
              /\ review.degraded \in BOOLEAN
              /\ review.pc # "head" => "headSHA" \in DOMAIN review
RiskInv ==
  review.verb = "risk" =>
  /\ review.pc \in {"asks", "head", "diff", "lines", "label", "done"} \cup Middle
  /\ review.pc # "asks" => RiskFields
  /\ review.pc \in {"head", "diff", "lines"} \cup Middle => ~review.degraded
  /\ review.pc \in {"lines"} \cup Middle => Diffed
  /\ review.pc \in Middle => Sized
  /\ review.pc = "tests" => Weighed
  /\ review.pc \in {"label", "done"} /\ ~review.degraded => Diffed /\ Sized /\ Weighed

LEMMA RiskInvInit == ClientInit => HasVerb /\ RiskInv
  <1>1. CASE review = Off
    BY <1>1 DEF Off, HasVerb, RiskInv
  <1>2. ASSUME NEW x \in Cases, review = Over([pc |-> "asks"], x[1]) PROVE HasVerb /\ RiskInv
    <2>1. DOMAIN review = {"pc"} \cup DOMAIN x[1] /\ review.pc = "asks"
      BY <1>2 DEF Over
    <2> QED BY <2>1, CasesAssumption DEF HasVerb, RiskInv, Middle
  <1> QED BY <1>1, <1>2 DEF ClientInit, ReviewInit

\* A field of the next state comes from what a step adds, or stays.
Adds(k, more) == k \in DOMAIN more => k \in DOMAIN review' /\ review'[k] = more[k]
Keeps(k, more) == k \in DOMAIN review /\ k \notin DOMAIN more => k \in DOMAIN review' /\ review'[k] = review[k]
Follows(k, more) == Adds(k, more) /\ Keeps(k, more)

LEMMA FieldFollows ==
  ASSUME NEW pc, NEW more, Goes(pc, more), "pc" \notin DOMAIN more, NEW k, k # "pc"
  PROVE  Follows(k, more)
  BY GoesAdds DEF Follows, Adds, Keeps

LEMMA RiskGoes ==
  ASSUME NEW pc, NEW more, Goes(pc, more), "pc" \notin DOMAIN more
  PROVE  /\ review'.pc = pc
         /\ Follows("baseSHA", more) /\ Follows("headSHA", more) /\ Follows("changes", more)
         /\ Follows("size", more) /\ Follows("cx", more) /\ Follows("degraded", more)
         /\ Follows("found", more) /\ Follows("untested", more) /\ Follows("focus", more) /\ Follows("label", more)
  <1>1. \A k : k # "pc" => Follows(k, more)
    BY FieldFollows
  <1>2. review'["pc"] = pc
    BY GoesAdds
  <1> QED BY <1>1, <1>2

LEMMA RiskInvStep ==
  ASSUME HasVerb, RiskInv, Risk
  PROVE  RiskInv'
  <1>0. review.verb = "risk"
    BY DEF Risk, Steps, Runs, RiskBase, RiskHead, RiskDiff, RiskLines, RiskSymbols, RiskReach, RiskComplexity, RiskTests, RiskLabel
  <1> USE <1>0 DEF RiskInv, RiskFields, Middle, Steps, Runs
  <1> USE DEF Follows, Adds, Keeps
  <1>1. CASE RiskBase
    <2> DEFINE more == Over([baseSHA |-> At(review.base)], Unmeasured)
    <2>1. /\ DOMAIN more = {"baseSHA"} \cup DOMAIN Unmeasured
          /\ DOMAIN Unmeasured = {"size", "files", "cx", "history", "found", "untested", "focus", "factors", "degraded"}
          /\ more.degraded = FALSE
      BY DEF Over, Unmeasured
    <2>2. Goes("head", more)
      BY <1>1 DEF RiskBase
    <2> HIDE DEF more
    <2>3. /\ review'.pc = "head" /\ review'.degraded = FALSE
          /\ {"baseSHA", "size", "cx", "degraded"} \subseteq DOMAIN review'
      BY <2>1, <2>2, RiskGoes
    <2> QED BY <2>3
  <1>2. CASE RiskHead
    <2>1. CASE Goes("done", [headSHA |-> At(review.head), label |-> "missing", degraded |-> TRUE])
      <3>1. /\ review'.pc = "done" /\ review'.degraded = TRUE
            /\ {"baseSHA", "headSHA", "size", "cx", "degraded"} \subseteq DOMAIN review'
        BY <1>2, <2>1, RiskGoes DEF RiskHead
      <3> QED BY <3>1
    <2>2. CASE Goes("diff", [headSHA |-> At(review.head)])
      <3>1. /\ review'.pc = "diff" /\ review'.degraded = review.degraded
            /\ {"baseSHA", "headSHA", "size", "cx", "degraded"} \subseteq DOMAIN review'
        BY <1>2, <2>2, RiskGoes DEF RiskHead
      <3> QED BY <3>1, <1>2 DEF RiskHead
    <2> QED BY <1>2, <2>1, <2>2 DEF RiskHead
  <1>3. CASE RiskDiff
    <2> DEFINE from == Commitish(review.baseSHA, review.base)
               to   == Commitish(review.headSHA, review.head)
    <2>1. CASE Goes("label", [degraded |-> TRUE])
      <3>1. /\ review'.pc = "label" /\ review'.degraded = TRUE
            /\ {"baseSHA", "headSHA", "size", "cx", "degraded"} \subseteq DOMAIN review'
        BY <1>3, <2>1, RiskGoes DEF RiskDiff
      <3> QED BY <3>1
    <2>2. CASE Goes("lines", [changes |-> gitDiff(from, to)])
      <3>1. /\ review'.pc = "lines" /\ review'.degraded = review.degraded
            /\ review'.baseSHA = review.baseSHA /\ review'.headSHA = review.headSHA
            /\ review'.changes = gitDiff(from, to) /\ "changes" \in DOMAIN review'
            /\ {"baseSHA", "headSHA", "size", "cx", "degraded"} \subseteq DOMAIN review'
        BY <1>3, <2>2, RiskGoes DEF RiskDiff
      <3>2. TwoCommits => from = review.baseSHA /\ to = review.headSHA
        BY DEF Commitish, TwoCommits
      <3> QED BY <1>3, <3>1, <3>2 DEF RiskDiff, Diffed, TwoCommits
    <2> QED BY <1>3, <2>1, <2>2 DEF RiskDiff
  <1>4. CASE RiskLines
    <2> DEFINE from == Commitish(review.baseSHA, review.base)
               to   == Commitish(review.headSHA, review.head)
               go   == DOMAIN review.changes
               size == [go |-> go, test |-> go \cap TestFile,
                        added   |-> IF Unborn \in {from, to} THEN 0 ELSE codeLines(from, to),
                        removed |-> IF Unborn \in {from, to} THEN 0 ELSE codeLines(to, from)]
    <2>1. CASE Goes("label", [size |-> {size}, degraded |-> TRUE])
      <3>1. /\ review'.pc = "label" /\ review'.degraded = TRUE
            /\ {"baseSHA", "headSHA", "size", "cx", "degraded"} \subseteq DOMAIN review'
        BY <1>4, <2>1, RiskGoes DEF RiskLines
      <3> QED BY <3>1
    <2>2. CASE Goes("symbols", [size |-> {size}])
      <3>1. TwoCommits => size = Size(review.baseSHA, review.headSHA)
        BY <1>4 DEF RiskLines, Commitish, TwoCommits, Diffed, Size
      <3> HIDE DEF size
      <3>2. /\ review'.pc = "symbols" /\ review'.degraded = review.degraded /\ review'.size = {size}
            /\ review'.baseSHA = review.baseSHA /\ review'.headSHA = review.headSHA
            /\ review'.changes = review.changes /\ "changes" \in DOMAIN review'
            /\ {"baseSHA", "headSHA", "size", "cx", "degraded"} \subseteq DOMAIN review'
        BY <1>4, <2>2, RiskGoes DEF RiskLines, Diffed
      <3> QED BY <1>4, <3>1, <3>2 DEF RiskLines, Diffed, Sized, TwoCommits
    <2> QED BY <1>4, <2>1, <2>2 DEF RiskLines
  <1>5. CASE RiskSymbols
    BY <1>5, RiskGoes DEF RiskSymbols, Diffed, Sized, TwoCommits
  <1>6. CASE RiskReach
    BY <1>6, RiskGoes DEF RiskReach, Diffed, Sized, TwoCommits
  <1>7. CASE RiskComplexity
    BY <1>7, RiskGoes DEF RiskComplexity, Diffed, Sized, Weighed, TwoCommits, Commitish
  <1>8. CASE RiskTests
    BY <1>8, RiskGoes DEF RiskTests, Diffed, Sized, Weighed, TwoCommits
  <1>9. CASE RiskLabel
    <2> DEFINE stale == Outdated(built, work)
    <2>1. Goes("done", [label |-> IF stale THEN "stale" ELSE "fresh", degraded |-> review.degraded \/ stale])
      BY <1>9 DEF RiskLabel
    <2> HIDE DEF stale
    <2>2. /\ review'.pc = "done" /\ review'.degraded = (review.degraded \/ stale)
          /\ {"baseSHA", "headSHA", "size", "cx", "degraded"} \subseteq DOMAIN review'
      BY <1>9, <2>1, RiskGoes DEF RiskLabel
    <2>3. review'.degraded \in BOOLEAN /\ (review.degraded => review'.degraded)
      BY <2>2
    <2>4. /\ review'.baseSHA = review.baseSHA /\ review'.headSHA = review.headSHA
          /\ review'.size = review.size /\ review'.cx = review.cx
          /\ "changes" \in DOMAIN review => "changes" \in DOMAIN review' /\ review'.changes = review.changes
      BY <1>9, <2>1, RiskGoes DEF RiskLabel
    <2> QED BY <1>9, <2>2, <2>3, <2>4 DEF RiskLabel, Diffed, Sized, Weighed, TwoCommits
  <1> QED BY <1>1, <1>2, <1>3, <1>4, <1>5, <1>6, <1>7, <1>8, <1>9 DEF Risk

LEMMA RiskInvariance == ClientSpec => [](HasVerb /\ RiskInv)
  <1>1. ASSUME HasVerb, RiskInv, [ClientNext]_<<vars, reviewVars>> PROVE (HasVerb /\ RiskInv)'
    <2>1. HasVerb' /\ review'.verb = review.verb
      BY <1>1, VerbKept
    <2>2. CASE Risk
      BY <1>1, <2>1, <2>2, RiskInvStep
    <2>3. CASE UNCHANGED review
      BY <1>1, <2>1, <2>3 DEF RiskInv, RiskFields, Diffed, Sized, Weighed, TwoCommits
    <2>4. CASE review.verb # "risk"
      BY <2>1, <2>4 DEF RiskInv
    <2>5. CASE review.verb = "risk" /\ ~Risk
      <3>1. ~(Verify \/ Plan \/ Lifecycle \/ Describe)
        BY <2>5 DEF Verify, VerifyDiff, VerifyStale, VerifySymbols, VerifyTests, VerifyRipple, Plan, PlanFinds, PlanLoads,
             PlanSites, PlanTests, Lifecycle, LifecycleFinds, LifecycleRefs, LifecycleCallers, LifecycleEnds,
             Describe, NoIndex, Describers, Finds, Pack, PackFinds, PackLoads, PackRefs, PackCallers, PackCallees,
             PackCounts, PackExplains, PackEnds, PackPackage, PackageFinds, PackageExports, PackageRanks,
             DefInPkg, DefLoads, TypesLoads, TypesOfPackage, Steps, Runs
      <3> QED BY <1>1, <2>3, <2>5, <3>1, VerbKept
    <2> QED BY <2>1, <2>2, <2>4, <2>5
  <1> QED BY <1>1, RiskInvInit, PTL DEF ClientSpec

\* The record of a measured risk that names two commits has the diff, the sizes and
\* the complexity of these, whatever refs, tree and index did meanwhile.
THEOREM MeasuresAreNamed == ClientSpec => []MeasuredWhatItNames
  <1>1. HasVerb /\ RiskInv => MeasuredWhatItNames
    BY DEF HasVerb, RiskInv, MeasuredWhatItNames, Done, Runs, Diffed, Sized, Weighed, TwoCommits
  <1> QED BY <1>1, RiskInvariance, PTL

-----------------------------------------------------------------------------
(* risk: a record that is called fresh describes the head it was asked     *)
(* about.                                                                  *)

\* Between two commands of a session the tree, the refs and the index are not
\* there; next to one, the index is that of a tree.
EnvInv ==
  \/ review = Off
  \/ /\ s = Idle
     /\ work \in Trees /\ built \in Trees \cup {Unborn}
     /\ \A r \in DOMAIN ref : ref[r] \in Trees \cup {Unborn}
     /\ built # Unborn => d = Indexed(built)
     /\ stirred \in Seq({"edit", "ref", "index"})

LEMMA EnvInvInit == ClientInit => EnvInv
  <1>1. CASE review = Off
    BY <1>1 DEF EnvInv
  <1>2. CASE ReviewInit /\ s = Idle
    <2>1. PICK x \in Cases :
            /\ work = x[2].work /\ ref = [HEAD |-> x[2].head, main |-> x[2].main] /\ built = x[2].built
            /\ d = IF x[2].built = Unborn THEN [syms |-> {}, calls |-> {}, refs |-> {}] ELSE Indexed(x[2].built)
            /\ stirred = <<>>
      BY <1>2 DEF ReviewInit
    <2> QED BY <1>2, <2>1, CasesAssumption DEF EnvInv
  <1> QED BY <1>1, <1>2 DEF ClientInit

LEMMA NotOff ==
  ASSUME Risk \/ Verify \/ Plan \/ Lifecycle \/ Describe
  PROVE  review # Off /\ UNCHANGED <<surroundings, session>>
  <1>0. review.verb # "none" => review # Off
    BY DEF Off
  <1>1. CASE Risk
    <2>1. UNCHANGED <<surroundings, session>>
      BY <1>1 DEF Risk, RiskBase, RiskHead, RiskDiff, RiskLines, RiskSymbols, RiskReach, RiskComplexity, RiskTests, RiskLabel, Steps
    <2>2. review.verb # "none"
      BY <1>1 DEF Risk, RiskBase, RiskHead, RiskDiff, RiskLines, RiskSymbols, RiskReach, RiskComplexity, RiskTests, RiskLabel, Steps, Runs
    <2> QED BY <1>0, <2>1, <2>2
  <1>2. CASE Verify
    <2>1. UNCHANGED <<surroundings, session>>
      BY <1>2 DEF Verify, VerifyDiff, VerifyStale, VerifySymbols, VerifyTests, VerifyRipple, Steps
    <2>2. review.verb # "none"
      BY <1>2 DEF Verify, VerifyDiff, VerifyStale, VerifySymbols, VerifyTests, VerifyRipple, Steps, Runs
    <2> QED BY <1>0, <2>1, <2>2
  <1>3. CASE Plan
    <2>1. UNCHANGED <<surroundings, session>>
      BY <1>3 DEF Plan, PlanFinds, PlanLoads, PlanSites, PlanTests, Steps
    <2>2. review.verb # "none"
      BY <1>3 DEF Plan, PlanFinds, PlanLoads, PlanSites, PlanTests, Steps, Runs
    <2> QED BY <1>0, <2>1, <2>2
  <1>4. CASE Lifecycle
    <2>1. UNCHANGED <<surroundings, session>>
      BY <1>4 DEF Lifecycle, LifecycleFinds, LifecycleRefs, LifecycleCallers, LifecycleEnds, Steps
    <2>2. review.verb # "none"
      BY <1>4 DEF Lifecycle, LifecycleFinds, LifecycleRefs, LifecycleCallers, LifecycleEnds, Steps, Runs
    <2> QED BY <1>0, <2>1, <2>2
  <1>5. CASE Describe
    <2>1. CASE NoIndex
      <3>1. UNCHANGED <<surroundings, session>>
        BY <2>1 DEF NoIndex
      <3>2. review.verb # "none"
        BY <2>1 DEF NoIndex, Describers
      <3> QED BY <1>0, <3>1, <3>2
    <2>2. CASE Finds
      <3>1. UNCHANGED <<surroundings, session>>
        BY <2>2 DEF Finds
      <3>2. review.verb # "none"
        BY <2>2 DEF Finds, Describers
      <3> QED BY <1>0, <3>1, <3>2
    <2>3. CASE PackFinds \/ PackLoads \/ PackRefs \/ PackCallers
      <3>1. UNCHANGED <<surroundings, session>>
        BY <2>3 DEF PackFinds, PackLoads, PackRefs, PackCallers, Steps
      <3>2. review.verb # "none"
        BY <2>3 DEF PackFinds, PackLoads, PackRefs, PackCallers, Steps, Runs
      <3> QED BY <1>0, <3>1, <3>2
    <2>4. CASE PackCallees \/ PackCounts \/ PackExplains \/ PackEnds
      <3>1. UNCHANGED <<surroundings, session>>
        BY <2>4 DEF PackCallees, PackCounts, PackExplains, PackEnds, Steps
      <3>2. review.verb # "none"
        BY <2>4 DEF PackCallees, PackCounts, PackExplains, PackEnds, Steps, Runs
      <3> QED BY <1>0, <3>1, <3>2
    <2>5. CASE PackPackage
      <3>1. UNCHANGED <<surroundings, session>>
        BY <2>5 DEF PackPackage, PackageFinds, PackageExports, PackageRanks, Steps
      <3>2. review.verb # "none"
        BY <2>5 DEF PackPackage, PackageFinds, PackageExports, PackageRanks, Steps, Runs
      <3> QED BY <1>0, <3>1, <3>2
    <2>6. CASE DefInPkg
      <3>1. UNCHANGED <<surroundings, session>>
        BY <2>6 DEF DefInPkg, Steps
      <3>2. review.verb # "none"
        BY <2>6 DEF DefInPkg, Steps, Runs
      <3> QED BY <1>0, <3>1, <3>2
    <2>7. CASE DefLoads
      <3>1. UNCHANGED <<surroundings, session>>
        BY <2>7 DEF DefLoads, Steps
      <3>2. review.verb # "none"
        BY <2>7 DEF DefLoads, Steps, Runs
      <3> QED BY <1>0, <3>1, <3>2
    <2>8. CASE TypesLoads
      <3>1. UNCHANGED <<surroundings, session>>
        BY <2>8 DEF TypesLoads, Steps
      <3>2. review.verb # "none"
        BY <2>8 DEF TypesLoads, Steps, Runs
      <3> QED BY <1>0, <3>1, <3>2
    <2>9. CASE TypesOfPackage
      <3>1. UNCHANGED <<surroundings, session>>
        BY <2>9 DEF TypesOfPackage, Steps
      <3>2. review.verb # "none"
        BY <2>9 DEF TypesOfPackage, Steps, Runs
      <3> QED BY <1>0, <3>1, <3>2
    <2> QED BY <1>5, <2>1, <2>2, <2>3, <2>4, <2>5, <2>6, <2>7, <2>8, <2>9 DEF Describe, Pack
  <1> QED BY <1>1, <1>2, <1>3, <1>4, <1>5

LEMMA EnvInvStep ==
  ASSUME EnvInv, [ClientNext]_<<vars, reviewVars>>
  PROVE  EnvInv'
  <1>1. CASE UNCHANGED <<vars, reviewVars>>
    BY <1>1 DEF EnvInv, vars, reviewVars
  <1>2. CASE (Refuse \/ Ask \/ Reindex) /\ UNCHANGED reviewVars
    <2>1. s # Idle
      <3>1. s.pc = "asks"
        BY <1>2 DEF Refuse, Ask, Reindex
      <3>2. Idle.pc = "off"
        BY DEF Idle
      <3> QED BY <3>1, <3>2
    <2> QED BY <1>2, <2>1 DEF EnvInv, reviewVars
  <1>3. CASE Risk \/ Verify \/ Plan \/ Lifecycle \/ Describe
    BY <1>3, NotOff DEF EnvInv, surroundings, session
  <1>4. CASE Edit \/ MoveRef \/ Index
    <2>1. review # Off /\ UNCHANGED <<review, session>> /\ \E what \in {"edit", "ref", "index"} : stirred' = Append(stirred, what)
      BY <1>4 DEF Edit, MoveRef, Index, Meanwhile, Off
    <2>2. s' = Idle /\ stirred' \in Seq({"edit", "ref", "index"})
      BY <2>1 DEF EnvInv, session
    <2>3. CASE Edit
      BY <2>1, <2>2, <2>3 DEF EnvInv, Edit
    <2>4. CASE MoveRef
      BY <2>1, <2>2, <2>4 DEF EnvInv, MoveRef
    <2>5. CASE Index
      BY <2>1, <2>2, <2>5 DEF EnvInv, Index
    <2> QED BY <1>4, <2>3, <2>4, <2>5
  <1> QED BY <1>1, <1>2, <1>3, <1>4 DEF ClientNext, ReviewNext

\* No index run, and no edit of the tree, since the command began.
Quiet == Undisturbed({"index"})
Still == Undisturbed({"edit"})

\* Something else happens while a command runs.
Stirs == /\ UNCHANGED review /\ review.pc # "done"
         /\ Quiet' => Quiet /\ UNCHANGED <<d, metrics>>
         /\ Still' => Still /\ UNCHANGED work
         /\ built # Unborn => built' # Unborn
         /\ built' = built \/ (built' = work /\ UNCHANGED work)

LEMMA StirsAre ==
  ASSUME EnvInv, Edit \/ MoveRef \/ Index
  PROVE  Stirs
  <1>1. /\ UNCHANGED review /\ review # Off /\ review.pc # "done"
        /\ \E what \in {"edit", "ref", "index"} : stirred' = Append(stirred, what)
    BY DEF Edit, MoveRef, Index, Meanwhile, Off
  <1>2. stirred \in Seq({"edit", "ref", "index"}) /\ work # Unborn
    BY <1>1, CasesAssumption DEF EnvInv
  <1>3. ASSUME NEW what, stirred' = Append(stirred, what)
        PROVE  /\ Quiet' => Quiet /\ what # "index"
               /\ Still' => Still /\ what # "edit"
    <2>1. /\ DOMAIN stirred \subseteq DOMAIN stirred' /\ \A k \in DOMAIN stirred : stirred'[k] = stirred[k]
          /\ Len(stirred) + 1 \in DOMAIN stirred' /\ stirred'[Len(stirred) + 1] = what
      BY <1>2, <1>3
    <2> QED BY <2>1 DEF Quiet, Still, Undisturbed
  <1>4. (Quiet' => Quiet /\ ~Index) /\ (Still' => Still /\ ~Edit)
    BY <1>1, <1>3 DEF Index, Edit, Meanwhile
  <1>5. CASE Edit
    BY <1>1, <1>4, <1>5 DEF Edit, Stirs
  <1>6. CASE MoveRef
    BY <1>1, <1>4, <1>6 DEF MoveRef, Stirs
  <1>7. CASE Index
    BY <1>1, <1>2, <1>4, <1>7 DEF Index, Stirs
  <1> QED BY <1>5, <1>6, <1>7

\* Every step is one of the command that runs, or leaves what it has read.
LEMMA StepsAre ==
  ASSUME EnvInv, [ClientNext]_<<vars, reviewVars>>
  PROVE  \/ Risk /\ review.verb = "risk"
         \/ Verify /\ review.verb = "verify"
         \/ Plan /\ review.verb = "plan"
         \/ (Lifecycle \/ Describe) /\ review.verb \notin {"risk", "verify", "plan"}
         \/ UNCHANGED <<d, work, built, metrics, review, stirred>>
         \/ review = Off /\ UNCHANGED review
         \/ Stirs
  <1>1. Risk => review.verb = "risk"
    BY DEF Risk, RiskBase, RiskHead, RiskDiff, RiskLines, RiskSymbols, RiskReach, RiskComplexity, RiskTests, RiskLabel, Steps, Runs
  <1>2. Verify => review.verb = "verify"
    BY DEF Verify, VerifyDiff, VerifyStale, VerifySymbols, VerifyTests, VerifyRipple, Steps, Runs
  <1>3. Plan => review.verb = "plan"
    BY DEF Plan, PlanFinds, PlanLoads, PlanSites, PlanTests, Steps, Runs
  <1>4. Lifecycle => review.verb = "lifecycle"
    BY DEF Lifecycle, LifecycleFinds, LifecycleRefs, LifecycleCallers, LifecycleEnds, Steps, Runs
  <1>5. Describe => review.verb \notin {"risk", "verify", "plan"}
    BY DEF Describe, NoIndex, Describers, Finds, Pack, PackFinds, PackLoads, PackRefs, PackCallers, PackCallees,
           PackCounts, PackExplains, PackEnds, PackPackage, PackageFinds, PackageExports, PackageRanks,
           DefInPkg, DefLoads, TypesLoads, TypesOfPackage, Steps, Runs
  <1>6. Edit \/ MoveRef \/ Index => Stirs
    BY StirsAre
  <1>7. (Refuse \/ Ask \/ Reindex) /\ UNCHANGED reviewVars => review = Off /\ UNCHANGED review
    <2> SUFFICES ASSUME Refuse \/ Ask \/ Reindex, UNCHANGED reviewVars PROVE review = Off /\ UNCHANGED review
      OBVIOUS
    <2>1. s.pc = "asks"
      BY DEF Refuse, Ask, Reindex
    <2>2. Idle.pc = "off"
      BY DEF Idle
    <2> QED BY <2>1, <2>2 DEF EnvInv, reviewVars
  <1>8. UNCHANGED <<vars, reviewVars>> => UNCHANGED <<d, work, built, metrics, review, stirred>>
    BY DEF vars, reviewVars
  <1> QED BY <1>1, <1>2, <1>3, <1>4, <1>5, <1>6, <1>7, <1>8 DEF ClientNext, ReviewNext

\* Trees of one text have the same symbols, and so the same index.
LEMMA SameText ==
  ASSUME NEW t \in Trees, NEW u \in Trees, Tree[t].text = Tree[u].text
  PROVE  Indexed(t) = Indexed(u)
  <1>1. ASSUME NEW x \in Trees, NEW y \in Trees, Tree[x].text = Tree[y].text, NEW i \in Tree[x].syms PROVE i \in Tree[y].syms
    <2>1. Sym[i].file \in DOMAIN Tree[x].text
      BY TreesAssumption
    <2>2. SymsOf(x, Sym[i].file) = SymsOf(y, Sym[i].file)
      BY <1>1, <2>1, TreesAssumption
    <2> QED BY <2>2 DEF SymsOf
  <1>2. Tree[t].syms = Tree[u].syms
    <2>1. \A i \in Tree[t].syms : i \in Tree[u].syms
      BY <1>1
    <2>2. \A i \in Tree[u].syms : i \in Tree[t].syms
      BY <1>1
    <2> QED BY <2>1, <2>2
  <1> QED BY <1>2 DEF Indexed

Untested(db, found) == {i \in found : isFunc(i) /\ FindTests(db, {i}, FALSE) = <<>>}
\* What has been measured, before the label and with it.
Found == "found" \in DOMAIN review /\ (Quiet => review.found = changedSymbols(d.syms, review.changes))
Complex == "headSHA" \in DOMAIN review /\ (review.headSHA # Unborn => review.cx = complexity(review.headSHA, review.changes))
Focused == /\ {"untested", "focus"} \subseteq DOMAIN review
           /\ Quiet => /\ review.untested = Untested(d, review.found)
                       /\ review.focus = focus(review.found, metrics.degree, review.cx)
Fresh == review.label = "fresh" /\ built # Unborn /\ ~Outdated(built, work)
CurrentInv ==
  review.verb = "risk" =>
  /\ review.pc # "asks" => {"found", "untested", "focus"} \subseteq DOMAIN review
  /\ review.pc \notin {"asks", "head"} => review.headSHA \in Trees \cup {Unborn}
  /\ review.pc \in {"diff", "lines", "label"} \cup Middle => built # Unborn
  /\ review.pc \in {"reach", "complexity", "tests"} => Found
  /\ review.pc = "tests" => Complex
  /\ review.pc \in {"label", "done"} /\ ~review.degraded => Found /\ Complex /\ Focused
  /\ review.pc = "done" /\ ~review.degraded => Fresh

LEMMA CurrentInvInit == ClientInit => CurrentInv
  <1>1. CASE review = Off
    BY <1>1 DEF Off, CurrentInv
  <1>2. ASSUME NEW x \in Cases, review = Over([pc |-> "asks"], x[1]) PROVE CurrentInv
    <2>1. review.pc = "asks"
      BY <1>2 DEF Over
    <2> QED BY <2>1 DEF CurrentInv, Middle
  <1> QED BY <1>1, <1>2 DEF ClientInit, ReviewInit

LEMMA CurrentInvStep ==
  ASSUME HasVerb, RiskInv, EnvInv, CurrentInv, Risk
  PROVE  CurrentInv'
  <1>0. /\ review.verb = "risk" /\ UNCHANGED <<d, work, ref, built, metrics, stirred>>
        /\ work \in Trees /\ built \in Trees \cup {Unborn}
        /\ \A name : At(name) \in Trees \cup {Unborn}
        /\ built # Unborn => d.calls \subseteq DOMAIN Calls
    <2>1. review.verb = "risk"
      BY DEF Risk, Steps, Runs, RiskBase, RiskHead, RiskDiff, RiskLines, RiskSymbols, RiskReach, RiskComplexity, RiskTests, RiskLabel
    <2>2. review # Off /\ UNCHANGED surroundings
      BY NotOff
    <2>3. UNCHANGED <<d, work, ref, built, metrics, stirred>>
      BY <2>2 DEF surroundings
    <2>4. /\ work \in Trees /\ built \in Trees \cup {Unborn}
          /\ \A r \in DOMAIN ref : ref[r] \in Trees \cup {Unborn}
          /\ built # Unborn => d = Indexed(built)
      BY <2>2 DEF EnvInv
    <2>5. \A name : At(name) \in Trees \cup {Unborn}
      BY <2>4 DEF At
    <2>6. built # Unborn => d.calls \subseteq DOMAIN Calls
      BY <2>4 DEF Indexed
    <2> QED BY <2>1, <2>3, <2>4, <2>5, <2>6
  <1>q. Quiet' <=> Quiet
    BY <1>0 DEF Quiet, Undisturbed
  <1> USE <1>0, <1>q DEF Middle, Steps, Runs, Follows, Adds, Keeps
  <1>1. CASE RiskBase
    <2> DEFINE more == Over([baseSHA |-> At(review.base)], Unmeasured)
    <2>1. {"found", "untested", "focus"} \subseteq DOMAIN more /\ "pc" \notin DOMAIN more
      BY DEF Over, Unmeasured
    <2>2. Goes("head", more)
      BY <1>1 DEF RiskBase
    <2> HIDE DEF more
    <2>3. review'.pc = "head" /\ {"found", "untested", "focus"} \subseteq DOMAIN review'
      BY <2>1, <2>2, RiskGoes
    <2> QED BY <2>3 DEF CurrentInv
  <1>2. CASE RiskHead
    <2>1. CASE Goes("done", [headSHA |-> At(review.head), label |-> "missing", degraded |-> TRUE])
      <3>1. /\ review'.pc = "done" /\ review'.degraded = TRUE /\ review'.headSHA = At(review.head)
            /\ {"found", "untested", "focus"} \subseteq DOMAIN review'
        BY <1>2, <2>1, RiskGoes DEF RiskHead, CurrentInv
      <3> QED BY <3>1 DEF CurrentInv
    <2>2. CASE Goes("diff", [headSHA |-> At(review.head)]) /\ built # Unborn
      <3>1. /\ review'.pc = "diff" /\ review'.headSHA = At(review.head)
            /\ {"found", "untested", "focus"} \subseteq DOMAIN review'
        BY <1>2, <2>2, RiskGoes DEF RiskHead, CurrentInv
      <3> QED BY <2>2, <3>1 DEF CurrentInv
    <2> QED BY <1>2, <2>1, <2>2 DEF RiskHead
  <1>3. CASE RiskDiff
    <2> DEFINE from == Commitish(review.baseSHA, review.base)
               to   == Commitish(review.headSHA, review.head)
    <2>0. {"headSHA", "found", "untested", "focus"} \subseteq DOMAIN review
      BY <1>3 DEF RiskDiff, CurrentInv, RiskInv, RiskFields
    <2>1. CASE Goes("label", [degraded |-> TRUE])
      <3>1. /\ review'.pc = "label" /\ review'.degraded = TRUE /\ review'.headSHA = review.headSHA
            /\ {"found", "untested", "focus"} \subseteq DOMAIN review'
        BY <2>0, <2>1, RiskGoes
      <3> QED BY <1>3, <3>1 DEF CurrentInv, RiskDiff
    <2>2. CASE Goes("lines", [changes |-> gitDiff(from, to)])
      <3>1. /\ review'.pc = "lines" /\ review'.headSHA = review.headSHA
            /\ {"found", "untested", "focus"} \subseteq DOMAIN review'
        BY <2>0, <2>2, RiskGoes
      <3> QED BY <1>3, <3>1 DEF CurrentInv, RiskDiff
    <2> QED BY <1>3, <2>1, <2>2 DEF RiskDiff
  <1>4. CASE RiskLines
    <2> DEFINE from == Commitish(review.baseSHA, review.base)
               to   == Commitish(review.headSHA, review.head)
               go   == DOMAIN review.changes
               size == [go |-> go, test |-> go \cap TestFile,
                        added   |-> IF Unborn \in {from, to} THEN 0 ELSE codeLines(from, to),
                        removed |-> IF Unborn \in {from, to} THEN 0 ELSE codeLines(to, from)]
    <2>0. {"headSHA", "found", "untested", "focus"} \subseteq DOMAIN review
      BY <1>4 DEF RiskLines, CurrentInv, RiskInv, RiskFields
    <2>a. Goes("label", [size |-> {size}, degraded |-> TRUE]) \/ Goes("symbols", [size |-> {size}])
      BY <1>4 DEF RiskLines
    <2> HIDE DEF size
    <2>1. CASE Goes("label", [size |-> {size}, degraded |-> TRUE])
      <3>1. /\ review'.pc = "label" /\ review'.degraded = TRUE /\ review'.headSHA = review.headSHA
            /\ {"found", "untested", "focus"} \subseteq DOMAIN review'
        BY <2>0, <2>1, RiskGoes
      <3> QED BY <1>4, <3>1 DEF CurrentInv, RiskLines
    <2>2. CASE Goes("symbols", [size |-> {size}])
      <3>1. /\ review'.pc = "symbols" /\ review'.headSHA = review.headSHA
            /\ {"found", "untested", "focus"} \subseteq DOMAIN review'
        BY <2>0, <2>2, RiskGoes
      <3> QED BY <1>4, <3>1 DEF CurrentInv, RiskLines
    <2> QED BY <2>a, <2>1, <2>2
  <1>5. CASE RiskSymbols
    <2>0. {"headSHA", "found", "changes", "untested", "focus"} \subseteq DOMAIN review
      BY <1>5 DEF RiskSymbols, CurrentInv, RiskInv, RiskFields, Diffed
    <2>1. /\ review'.pc = "reach" /\ review'.headSHA = review.headSHA /\ review'.changes = review.changes
          /\ review'.found = changedSymbols(d.syms, review.changes)
          /\ {"found", "untested", "focus"} \subseteq DOMAIN review'
      BY <1>5, <2>0, RiskGoes DEF RiskSymbols
    <2> QED BY <1>5, <2>1 DEF CurrentInv, RiskSymbols, Found
  <1>6. CASE RiskReach
    <2>0. {"headSHA", "found", "changes", "untested", "focus"} \subseteq DOMAIN review
      BY <1>6 DEF RiskReach, CurrentInv, RiskInv, RiskFields, Diffed
    <2>1. /\ review'.pc = "complexity" /\ review'.headSHA = review.headSHA /\ review'.changes = review.changes
          /\ review'.found = review.found
          /\ {"found", "untested", "focus"} \subseteq DOMAIN review'
      BY <1>6, <2>0, RiskGoes DEF RiskReach
    <2> QED BY <1>6, <2>1 DEF CurrentInv, RiskReach, Found
  <1>7. CASE RiskComplexity
    <2> DEFINE head == Commitish(review.headSHA, review.head)
               cx   == IF head = Unborn THEN {} ELSE complexity(head, review.changes)
    <2>0. {"headSHA", "found", "changes", "untested", "focus", "cx"} \subseteq DOMAIN review
      BY <1>7 DEF RiskComplexity, CurrentInv, RiskInv, RiskFields, Diffed
    <2>a. Goes("tests", [cx |-> cx, difficulty |-> difficulty(cx)])
      BY <1>7 DEF RiskComplexity
    <2>b. review.headSHA # Unborn => cx = complexity(review.headSHA, review.changes)
      BY DEF Commitish
    <2> HIDE DEF cx
    <2>1. /\ review'.pc = "tests" /\ review'.headSHA = review.headSHA /\ review'.changes = review.changes
          /\ review'.found = review.found /\ review'.cx = cx
          /\ {"headSHA", "found", "untested", "focus"} \subseteq DOMAIN review'
      BY <2>0, <2>a, RiskGoes
    <2> QED BY <1>7, <2>b, <2>1 DEF CurrentInv, RiskComplexity, Found, Complex
  <1>8. CASE RiskTests
    <2> DEFINE tested == testedFuncs(d, review.found)
               past   == history(metrics.churn, DOMAIN review.changes)
               more   == [history |-> past, untested |-> untested(review.found, tested),
                          focus |-> focus(review.found, metrics.degree, review.cx),
                          factors |-> factors([review EXCEPT !.history = past])]
    <2>0. {"headSHA", "found", "changes", "untested", "focus", "cx"} \subseteq DOMAIN review
      BY <1>8 DEF RiskTests, CurrentInv, RiskInv, RiskFields, Diffed
    <2>a. Goes("label", more)
      BY <1>8 DEF RiskTests
    <2>b. /\ DOMAIN more = {"history", "untested", "focus", "factors"}
          /\ more.untested = untested(review.found, tested)
          /\ more.focus = focus(review.found, metrics.degree, review.cx)
      OBVIOUS
    <2>c. untested(review.found, tested) = Untested(d, review.found)
      <3>1. d.calls \subseteq DOMAIN Calls
        BY <1>8 DEF RiskTests, CurrentInv
      <3>2. \A i : Page(FindTests(d, {i}, FALSE), 1, 0) # <<>> <=> FindTests(d, {i}, FALSE) # <<>>
        <4> SUFFICES ASSUME NEW i PROVE Page(FindTests(d, {i}, FALSE), 1, 0) = <<>> <=> FindTests(d, {i}, FALSE) = <<>>
          OBVIOUS
        <4>1. 1 \in Nat /\ 1 > 0
          OBVIOUS
        <4> QED BY <3>1, <4>1, PageOfTests
      <3> QED BY <3>2 DEF untested, testedFuncs, Untested
    <2> HIDE DEF more, tested
    <2>1. /\ review'.pc = "label" /\ review'.headSHA = review.headSHA /\ review'.changes = review.changes
          /\ review'.found = review.found /\ review'.cx = review.cx
          /\ review'.untested = Untested(d, review.found)
          /\ review'.focus = focus(review.found, metrics.degree, review.cx)
          /\ {"headSHA", "found", "untested", "focus"} \subseteq DOMAIN review'
      BY <2>0, <2>a, <2>b, <2>c, RiskGoes
    <2> QED BY <1>8, <2>1 DEF CurrentInv, RiskTests, Found, Complex, Focused
  <1>9. CASE RiskLabel
    <2> DEFINE stale == Outdated(built, work)
    <2>0. /\ {"headSHA", "found", "untested", "focus", "cx"} \subseteq DOMAIN review
          /\ review.degraded \in BOOLEAN /\ (~review.degraded => "changes" \in DOMAIN review)
      BY <1>9 DEF RiskLabel, CurrentInv, RiskInv, RiskFields, Diffed
    <2>a. Goes("done", [label |-> IF stale THEN "stale" ELSE "fresh", degraded |-> review.degraded \/ stale])
      BY <1>9 DEF RiskLabel
    <2> HIDE DEF stale
    <2>1. /\ review'.pc = "done" /\ review'.degraded = (review.degraded \/ stale)
          /\ review'.label = IF stale THEN "stale" ELSE "fresh"
      BY <2>0, <2>a, RiskGoes
    <2>2. /\ review'.headSHA = review.headSHA /\ review'.found = review.found /\ review'.cx = review.cx
          /\ review'.untested = review.untested /\ review'.focus = review.focus
          /\ {"headSHA", "found", "untested", "focus"} \subseteq DOMAIN review'
          /\ ~review.degraded => review'.changes = review.changes
      BY <2>0, <2>a, RiskGoes
    <2>3. ~review'.degraded => ~review.degraded /\ ~stale /\ review'.label = "fresh"
      BY <2>1
    <2>4. built # Unborn /\ review.headSHA \in Trees \cup {Unborn}
      BY <1>9 DEF RiskLabel, CurrentInv
    <2>5. ~review.degraded => Found /\ Complex /\ Focused
      BY <1>9 DEF RiskLabel, CurrentInv
    <2>6. ~review.degraded => Found' /\ Complex' /\ Focused'
      BY <2>2, <2>5 DEF Found, Complex, Focused
    <2>7. ~review'.degraded => Fresh'
      BY <2>3, <2>4 DEF Fresh, stale
    <2> QED BY <2>1, <2>2, <2>3, <2>4, <2>6, <2>7 DEF CurrentInv
  <1> QED BY <1>1, <1>2, <1>3, <1>4, <1>5, <1>6, <1>7, <1>8, <1>9 DEF Risk

\* The rows of the tables.
LEMMA SymTyped ==
  ASSUME NEW k \in Syms
  PROVE  /\ Sym[k].file \in Nat /\ Sym[k].line \in Nat /\ Sym[k].col \in Nat /\ Sym[k].first \in Nat /\ Sym[k].last \in Nat
         /\ Sym[k].name \in Nat /\ Sym[k].line \in Sym[k].first..Sym[k].last
  <1> DEFINE Row == [name : Nat, kind : STRING, of : Nat, ptr : BOOLEAN, pkg : Seq(Nat), file : Nat, line : Nat, col : Nat,
                     first : Nat, last : Nat, left : Nat, right : Nat]
  <1>1. Sym \in Seq(Row) /\ Sym[k].line \in Sym[k].first..Sym[k].last
    BY TablesAssumption
  <1>2. Sym[k] \in Row
    <2> HIDE DEF Row
    <2> QED BY <1>1 DEF Syms
  <1> QED BY <1>1, <1>2

LEMMA CallTyped ==
  ASSUME NEW c \in DOMAIN Calls
  PROVE  Calls[c].from \in Syms /\ Calls[c].to \in Syms /\ Calls[c].line \in Nat
  <1> DEFINE Row == [from : Syms, to : Syms, line : Nat]
  <1>1. Calls \in Seq(Row)
    BY TablesAssumption
  <1>2. Calls[c] \in Row
    <2> HIDE DEF Row
    <2> QED BY <1>1
  <1> QED BY <1>2

LEMMA RefTyped ==
  ASSUME NEW r \in DOMAIN Refs
  PROVE  /\ Refs[r].sym \in Syms /\ Refs[r].enc \in Syms \cup {0}
         /\ Refs[r].file \in Nat /\ Refs[r].line \in Nat /\ Refs[r].col \in Nat
  <1> DEFINE Row == [sym : Syms, enc : Syms \cup {0}, file : Nat, line : Nat, col : Nat, ctx : STRING]
  <1>1. Refs \in Seq(Row)
    BY TablesAssumption
  <1>2. Refs[r] \in Row
    <2> HIDE DEF Row
    <2> QED BY <1>1
  <1> QED BY <1>2

LEMMA SymsFinite == IsFiniteSet(Syms) /\ Syms \subseteq Nat
  <1>1. Len(Sym) \in Nat /\ Syms = 1..Len(Sym)
    BY TablesAssumption DEF Syms
  <1>2. IsFiniteSet(1..Len(Sym))
    BY <1>1, FS_Interval
  <1> QED BY <1>1, <1>2

\* A function that head has is found there by its place.
LEMMA ComplexityFound ==
  ASSUME NEW cx \in SUBSET Syms, NEW i \in Syms
  PROVE  /\ cxFor(i, cx) \in Nat
         /\ i \in cx => \E j \in cx : Sym[j].file = Sym[i].file /\ cxFor(i, cx) = Cyclo[j]
  <1> DEFINE same  == {j \in cx : Sym[j].file = Sym[i].file /\ Sym[j].name = Sym[i].name /\ Sym[j].line \in Sym[i].first..Sym[i].last}
             lines == {Sym[j].line : j \in same}
             first == CHOOSE j \in same : \A k \in same : Sym[j].line <= Sym[k].line
  <1>1. cxFor(i, cx) = IF same = {} THEN 0 ELSE Cyclo[first]
    BY DEF cxFor
  <1>2. \A j \in Syms : Sym[j].line \in Nat
    BY SymTyped
  <1>3. ASSUME same # {} PROVE first \in same
    <2>1. lines \in SUBSET Nat /\ lines # {}
      BY <1>2, <1>3
    <2>2. PICK n \in lines : \A m \in lines : n <= m
      <3> HIDE DEF lines
      <3> QED BY <2>1, LeastOfNats
    <2>3. \E j \in same : \A k \in same : Sym[j].line <= Sym[k].line
      BY <2>2
    <2> HIDE DEF same
    <2> QED BY <2>3
  <1>4. i \in cx => i \in same
    BY TablesAssumption
  <1> HIDE DEF first
  <1>5. same # {} => first \in cx /\ Sym[first].file = Sym[i].file
    BY <1>3
  <1> HIDE DEF same
  <1>6. Cyclo \in [Syms -> Nat]
    BY MeasuresAssumption
  <1> QED BY <1>1, <1>4, <1>5, <1>6

\* What is left out of the focus has no more callers than what is in it.
LEMMA FocusFirst ==
  ASSUME NEW changed \in SUBSET Syms, NEW degree \in [Syms -> Nat], NEW cx \in SUBSET Syms,
         NEW i \in Range(focus(changed, degree, cx)), NEW j \in changed \ Range(focus(changed, degree, cx)), isFunc(j)
  PROVE  degree[j] <= degree[i]
  <1> DEFINE F    == {k \in changed : isFunc(k)}
             base == [k \in F |-> <<Most - degree[k], Most - cxFor(k, cx), Sym[k].file, Sym[k].first>>]
             key  == [k \in F |-> Append(base[k], k)]
             rows == Ordered(F, key)
             N    == Cardinality(F)
             M    == IF focusMax < N THEN focusMax ELSE N
  <1>1. IsFiniteSet(F) /\ F \subseteq Int /\ F \subseteq Syms
    <2>1. F \in SUBSET Syms
      OBVIOUS
    <2> HIDE DEF F
    <2>2. IsFiniteSet(F)
      BY <2>1, SymsFinite, FS_Subset
    <2> QED BY <2>1, <2>2, SymsFinite
  <1>2. Most \in Nat
    BY TablesAssumption DEF Most
  <1>3. base \in [F -> Seq(Int)] /\ \A k \in F : Len(base[k]) = 4 /\ base[k][1] = Most - degree[k]
    <2> SUFFICES ASSUME NEW k \in F PROVE base[k] \in Seq(Int) /\ Len(base[k]) = 4 /\ base[k][1] = Most - degree[k]
      OBVIOUS
    <2>1. k \in Syms /\ degree[k] \in Nat /\ cxFor(k, cx) \in Nat
      BY ComplexityFound
    <2>2. Sym[k].file \in Nat /\ Sym[k].first \in Nat
      BY <2>1, SymTyped
    <2>3. /\ Most - degree[k] \in Int /\ Most - cxFor(k, cx) \in Int /\ Sym[k].file \in Int /\ Sym[k].first \in Int
      BY <1>2, <2>1, <2>2
    <2> QED BY <2>3
  <1>4. focus(changed, degree, cx) = Page(rows, focusMax, 0)
    <2>1. key = [k \in F |-> Append(<<Most - degree[k], Most - cxFor(k, cx), Sym[k].file, Sym[k].first>>, k)]
      OBVIOUS
    <2> QED BY <2>1 DEF focus, OrderBy
  <1> HIDE DEF F, base
  <1>5. \A k \in F : key[k] \in Seq(Int) /\ Len(key[k]) = 5 /\ key[k][1] = Most - degree[k]
    <2> SUFFICES ASSUME NEW k \in F PROVE key[k] \in Seq(Int) /\ Len(key[k]) = 5 /\ key[k][1] = Most - degree[k]
      OBVIOUS
    <2>1. base[k] \in Seq(Int) /\ Len(base[k]) = 4 /\ base[k][1] = Most - degree[k] /\ k \in Int
      BY <1>1, <1>3
    <2>2. key[k] = Append(base[k], k)
      OBVIOUS
    <2> HIDE DEF key
    <2>3. Append(base[k], k) \in Seq(Int) /\ Len(Append(base[k], k)) = 5 /\ Append(base[k], k)[1] = base[k][1]
      BY <2>1, AppendFirst
    <2> QED BY <2>1, <2>2, <2>3
  <1>6. InOrder(F, key, rows)
    <2>1. 4 \in Nat /\ base \in [F -> Seq(Int)] /\ \A e \in F : Len(base[e]) = 4
      BY <1>3
    <2> QED BY <1>1, <2>1, OrderByIsInOrder
  <1> HIDE DEF key, rows
  <1>7. N \in Nat /\ rows \in [1..N -> F] /\ List(rows, N)
    BY <1>6 DEF InOrder, List
  <1>8. /\ DOMAIN focus(changed, degree, cx) = 1..M
        /\ \A k \in 1..M : focus(changed, degree, cx)[k] = rows[k]
    <2>1. focusMax \in Nat
      BY DEF focusMax
    <2>2. List(Page(rows, focusMax, 0), M) /\ \A k \in 1..M : Page(rows, focusMax, 0)[k] = rows[k]
      BY <1>7, <2>1, PageOfList
    <2> QED BY <1>4, <2>2, ListLen
  <1>9. PICK a \in 1..M : i = rows[a]
    BY <1>8 DEF Range
  <1>10. PICK b \in 1..N : j = rows[b]
    BY <1>6 DEF InOrder, F
  <1>11. b \notin 1..M
    BY <1>8, <1>10 DEF Range
  <1>12. a \in 1..N /\ a < b
    BY <1>7, <1>9, <1>11 DEF focusMax
  <1>13. i \in F /\ j \in F /\ Before(key[i], key[j])
    BY <1>6, <1>7, <1>9, <1>10, <1>12 DEF InOrder
  <1>14. key[i][1] <= key[j][1]
    <2>1. key[i] \in Seq(Int) /\ key[j] \in Seq(Int) /\ Len(key[i]) = 5 /\ Len(key[j]) = 5
      BY <1>5, <1>13
    <2>2. Len(key[i]) > 1 /\ Len(key[i]) = Len(key[j]) /\ Before(key[i], key[j])
      BY <1>13, <2>1
    <2> QED BY <2>1, <2>2, BeforeFirst
  <1> QED BY <1>1, <1>2, <1>5, <1>13, <1>14

LEMMA CurrentInvariance == ClientSpec => [](HasVerb /\ RiskInv /\ EnvInv /\ CurrentInv)
  <1>1. ASSUME HasVerb, RiskInv, RiskInv', EnvInv, CurrentInv, [ClientNext]_<<vars, reviewVars>> PROVE CurrentInv'
    <2>1. HasVerb' /\ review'.verb = review.verb
      BY <1>1, VerbKept
    <2>2. CASE Risk
      BY <1>1, <2>2, CurrentInvStep
    <2>3. CASE review.verb # "risk"
      BY <2>1, <2>3 DEF CurrentInv
    <2>4. CASE UNCHANGED <<d, work, built, metrics, review, stirred>>
      BY <1>1, <2>4 DEF CurrentInv, Found, Complex, Focused, Fresh, Quiet, Undisturbed
    <2>5. CASE Stirs
      BY <1>1, <2>5 DEF CurrentInv, Found, Complex, Focused, Stirs
    <2>6. CASE review = Off
      BY <2>3, <2>6 DEF Off
    <2> QED BY <1>1, <2>2, <2>3, <2>4, <2>5, <2>6, StepsAre
  <1>2. EnvInv /\ [ClientNext]_<<vars, reviewVars>> => EnvInv'
    BY EnvInvStep
  <1> QED BY <1>1, <1>2, EnvInvInit, CurrentInvInit, RiskInvariance, PTL DEF ClientSpec

\* A risk that is called fresh and measured, of a head whose text is on disk, has
\* found what the diff changed, the tests of today and the functions with the
\* most callers, unless an index run came in between.
THEOREM FreshIsCurrent == ClientSpec => []CurrentUnlessDegraded
  <1>1. ASSUME HasVerb, RiskInv, EnvInv, CurrentInv PROVE CurrentUnlessDegraded
    <2> SUFFICES ASSUME Done("risk"), ~review.degraded, Quiet, review.headSHA # Unborn,
                        Tree[review.headSHA].text = Tree[work].text
                 PROVE  LET at      == Indexed(review.headSHA)
                            changed == changedSymbols(at.syms, review.changes)
                            shown   == Range(review.focus)
                        IN /\ review.label = "fresh" /\ review.found = changed
                           /\ review.untested = {i \in changed : isFunc(i) /\ FindTests(at, {i}, FALSE) = <<>>}
                           /\ \A i \in changed : isFunc(i) =>
                                \E j \in review.cx : Sym[j].file = Sym[i].file /\ cxFor(i, review.cx) = Cyclo[j]
                           /\ metrics.degree = InDegree(at) =>
                                \A i \in shown, j \in changed \ shown : isFunc(j) => metrics.degree[j] <= metrics.degree[i]
      BY DEF CurrentUnlessDegraded, Quiet
    <2> DEFINE at      == Indexed(review.headSHA)
               changed == changedSymbols(at.syms, review.changes)
    <2>1. Found /\ Complex /\ Focused /\ Fresh /\ review.headSHA \in Trees /\ review # Off
      BY <1>1 DEF CurrentInv, Done, Runs, Off
    <2>2. work \in Trees /\ built \in Trees /\ d = Indexed(built) /\ Tree[built].text = Tree[work].text
      BY <1>1, <2>1 DEF EnvInv, Fresh, Outdated
    <2>3. d = at
      BY <2>1, <2>2, SameText
    <2>4. /\ review.label = "fresh" /\ review.found = changed
          /\ review.untested = Untested(at, changed)
          /\ review.focus = focus(changed, metrics.degree, review.cx)
          /\ review.cx = complexity(review.headSHA, review.changes)
      BY <2>1, <2>3 DEF Found, Complex, Focused, Fresh
    <2>5. at.syms = Tree[review.headSHA].syms /\ at.syms \subseteq Syms
      BY <2>1, TreesAssumption DEF Indexed
    <2>6. changed \subseteq Syms /\ review.cx = {i \in changed : isFunc(i)}
      BY <2>4, <2>5 DEF complexity, changedSymbols
    <2> HIDE DEF at, changed
    <2>7. \A i \in changed : isFunc(i) => \E j \in review.cx : Sym[j].file = Sym[i].file /\ cxFor(i, review.cx) = Cyclo[j]
      BY <2>6, ComplexityFound
    <2>8. ASSUME metrics.degree = InDegree(at), NEW i \in Range(review.focus), NEW j \in changed \ Range(review.focus), isFunc(j)
          PROVE  metrics.degree[j] <= metrics.degree[i]
      <3>1. InDegree(at) \in [Syms -> Nat]
        <4> SUFFICES ASSUME NEW k \in Syms PROVE Cardinality({Calls[c].from : c \in {c \in at.calls : Calls[c].to = k}} \ {k}) \in Nat
          BY DEF InDegree
        <4>1. {Calls[c].from : c \in {c \in at.calls : Calls[c].to = k}} \ {k} \subseteq Syms
          BY CallTyped DEF at, Indexed
        <4> QED BY <4>1, SymsFinite, FS_Subset, FS_CardinalityType
      <3> QED BY <2>4, <2>6, <2>8, <3>1, FocusFirst
    <2> QED BY <2>4, <2>7, <2>8 DEF at, changed, Untested
  <1> QED BY <1>1, CurrentInvariance, PTL

-----------------------------------------------------------------------------
(* verify: what changed is looked up, and what is called uncovered has no  *)
(* test.                                                                   *)

LEMMA FirstOfInserted ==
  ASSUME NEW S \in SUBSET Syms, S # {}
  PROVE  First(Inserted(S)) \in S
  <1>1. IsFiniteSet(S) /\ S \subseteq Int
    <2>1. IsFiniteSet(S)
      BY SymsFinite, FS_Subset
    <2> QED BY <2>1, SymsFinite
  <1> DEFINE rows == Inserted(S)
             N    == Cardinality(S)
  <1>2. Each(rows, N, S)
    BY <1>1, InsertedEach
  <1>3. N \in Nat /\ N # 0
    BY <1>1, FS_CardinalityType, FS_EmptySet
  <1> HIDE DEF rows, N
  <1>4. rows # <<>> /\ rows[1] \in S
    <2>1. List(rows, N) /\ {rows[i] : i \in 1..N} = S
      BY <1>2 DEF Each
    <2> QED BY <1>3, <2>1, ListLen
  <1> QED BY <1>4 DEF First, rows

Uncovered(db, S) == {i \in S : FindTests(db, {i}, FALSE) = <<>>}
\* The diff is that of the tree on disk, and what the index has of a file that
\* was not found stale is what the tree has.
DiffOfTree == /\ {"from", "changes"} \subseteq DOMAIN review
              /\ review.base = "" /\ Still => review.changes = gitDiff(review.from, work)
IndexOfTree == /\ "stale" \in DOMAIN review
               /\ Still => \A f \in DOMAIN review.changes \ review.stale : SymsOf(built, f) = SymsOf(work, f)
LookedUp == /\ {"found", "seen", "todo", "uncovered"} \subseteq DOMAIN review
            /\ review.found \subseteq Syms /\ review.todo \subseteq changedFuncs(review.found)
            /\ Still => \A j \in review.seen.syms :
                          /\ isFunc(j) /\ InCode(j) /\ Sym[j].file \in DOMAIN review.changes
                          /\ j \in Tree[work].syms => Overlaps(j, review.changes)
                          => j \in review.found
            /\ Quiet => review.uncovered = Uncovered(d, changedFuncs(review.found) \ review.todo)
VerifyInv ==
  review.verb = "verify" =>
  /\ "base" \in DOMAIN review
  /\ review.pc \in {"asks", "stale", "symbols", "tests", "done"}
  /\ "seen" \in DOMAIN review => review.pc \in {"tests", "done"}
  /\ review.pc \in {"stale", "symbols"} => DiffOfTree /\ built # Unborn
  /\ review.pc = "symbols" => IndexOfTree
  /\ review.pc = "tests" => DiffOfTree /\ LookedUp /\ built # Unborn
  /\ review.pc = "done" /\ "seen" \in DOMAIN review => DiffOfTree /\ LookedUp /\ review.todo = {}

LEMMA VerifyInvInit == ClientInit => VerifyInv
  <1>1. CASE review = Off
    BY <1>1 DEF Off, VerifyInv
  <1>2. ASSUME NEW x \in Cases, review = Over([pc |-> "asks"], x[1]) PROVE VerifyInv
    <2>1. DOMAIN review = {"pc"} \cup DOMAIN x[1] /\ review.pc = "asks" /\ "verb" \in DOMAIN x[1] /\ review.verb = x[1].verb
      BY <1>2, CasesAssumption DEF Over
    <2>2. "seen" \notin DOMAIN review /\ (x[1].verb = "verify" => "base" \in DOMAIN review)
      BY <2>1, CasesAssumption
    <2> QED BY <2>1, <2>2 DEF VerifyInv
  <1> QED BY <1>1, <1>2 DEF ClientInit, ReviewInit

VerifyFollows(more) ==
  /\ Follows("base", more) /\ Follows("from", more) /\ Follows("changes", more) /\ Follows("stale", more)
  /\ Follows("found", more) /\ Follows("seen", more) /\ Follows("todo", more) /\ Follows("uncovered", more)

LEMMA VerifyGoes ==
  ASSUME NEW pc, NEW more, Goes(pc, more), "pc" \notin DOMAIN more
  PROVE  /\ review'.pc = pc /\ VerifyFollows(more)
         /\ "seen" \in DOMAIN review' => "seen" \in DOMAIN more \/ "seen" \in DOMAIN review
  <1>1. \A k : k # "pc" => Follows(k, more)
    BY FieldFollows
  <1>2. review'["pc"] = pc /\ DOMAIN review' = {"pc"} \cup DOMAIN more \cup DOMAIN review
    BY GoesAdds
  <1> QED BY <1>1, <1>2 DEF VerifyFollows

LEMMA VerifyInvStep ==
  ASSUME HasVerb, EnvInv, VerifyInv, Verify
  PROVE  VerifyInv'
  <1>0. /\ review.verb = "verify" /\ UNCHANGED <<d, work, ref, built, metrics, stirred>>
        /\ work \in Trees /\ built \in Trees \cup {Unborn}
        /\ built # Unborn => d = Indexed(built)
    <2>1. review.verb = "verify"
      BY DEF Verify, Steps, Runs, VerifyDiff, VerifyStale, VerifySymbols, VerifyTests, VerifyRipple
    <2>2. review # Off /\ UNCHANGED surroundings
      BY NotOff
    <2>3. UNCHANGED <<d, work, ref, built, metrics, stirred>>
      BY <2>2 DEF surroundings
    <2> QED BY <2>1, <2>2, <2>3 DEF EnvInv
  <1>q. (Quiet' <=> Quiet) /\ (Still' <=> Still)
    BY <1>0 DEF Quiet, Still, Undisturbed
  <1>b. "base" \in DOMAIN review
    BY <1>0 DEF VerifyInv
  <1> USE <1>0, <1>q, <1>b DEF Steps, Runs
  <1>1. CASE VerifyDiff
    <2> DEFINE from == IF review.base = "" THEN At("HEAD") ELSE At(review.base)
               to   == IF review.base = "" THEN work ELSE At("HEAD")
               none == [found |-> {}, from |-> from]
               changes == IF review.base = "" THEN workingTreeDiff(from, work) ELSE gitDiff(from, to)
               more == Over(none, [changes |-> changes])
    <2>0. "seen" \notin DOMAIN review
      BY <1>1 DEF VerifyDiff, VerifyInv
    <2>1. CASE Goes("done", none)
      <3>0. DOMAIN none = {"found", "from"}
        OBVIOUS
      <3> HIDE DEF none
      <3>a. review'.pc = "done" /\ VerifyFollows(none) /\ "seen" \notin DOMAIN review'
        BY <2>0, <2>1, <3>0, VerifyGoes
      <3>1. review'.pc = "done" /\ "base" \in DOMAIN review' /\ "seen" \notin DOMAIN review'
        BY <3>0, <3>a DEF VerifyFollows, Follows, Adds, Keeps
      <3> QED BY <3>1 DEF VerifyInv
    <2>2. CASE Goes(IF DOMAIN changes = {} THEN "done" ELSE "stale", more) /\ built # Unborn
      <3>1. DOMAIN more = {"found", "from", "changes"} /\ more.from = from /\ more.changes = changes
        BY DEF Over
      <3> HIDE DEF more
      <3>a. review'.pc \in {"done", "stale"} /\ VerifyFollows(more) /\ "seen" \notin DOMAIN review'
        BY <2>0, <2>2, <3>1, VerifyGoes
      <3>2. /\ review'.pc \in {"done", "stale"} /\ "seen" \notin DOMAIN review' /\ review'.base = review.base
            /\ review'.from = from /\ review'.changes = changes /\ {"base", "from", "changes"} \subseteq DOMAIN review'
        BY <3>1, <3>a DEF VerifyFollows, Follows, Adds, Keeps
      <3>3. DiffOfTree'
        BY <3>2 DEF DiffOfTree, workingTreeDiff
      <3> QED BY <2>2, <3>2, <3>3 DEF VerifyInv
    <2> QED BY <1>1, <2>1, <2>2 DEF VerifyDiff
  <1>2. CASE VerifyStale
    <2> DEFINE stale == Stale(built, work, DOMAIN review.changes)
    <2>0. "seen" \notin DOMAIN review /\ DiffOfTree /\ built \in Trees
      BY <1>2 DEF VerifyStale, VerifyInv
    <2>1. Goes("symbols", [stale |-> stale])
      BY <1>2 DEF VerifyStale
    <2>2. \A f \in DOMAIN review.changes \ stale : SymsOf(built, f) = SymsOf(work, f)
      <3> SUFFICES ASSUME NEW f \in DOMAIN review.changes, f \notin stale PROVE SymsOf(built, f) = SymsOf(work, f)
        OBVIOUS
      <3>1. f \in DOMAIN Tree[built].text /\ f \in DOMAIN Tree[work].text /\ Text(built, f) = Text(work, f)
        BY DEF Stale
      <3> QED BY <2>0, <3>1, TreesAssumption DEF Text
    <2> DEFINE more == [stale |-> stale]
    <2>b. DOMAIN more = {"stale"} /\ more.stale = stale
      OBVIOUS
    <2> HIDE DEF stale, more
    <2>a. review'.pc = "symbols" /\ VerifyFollows(more) /\ "seen" \notin DOMAIN review'
      BY <2>0, <2>1, <2>b, VerifyGoes DEF more
    <2>3. /\ review'.pc = "symbols" /\ "seen" \notin DOMAIN review' /\ review'.base = review.base
          /\ review'.from = review.from /\ review'.changes = review.changes /\ review'.stale = stale
          /\ {"base", "from", "changes", "stale"} \subseteq DOMAIN review'
      BY <2>0, <2>a, <2>b DEF DiffOfTree, VerifyFollows, Follows, Adds, Keeps
    <2>4. DiffOfTree' /\ IndexOfTree'
      BY <2>0, <2>2, <2>3 DEF DiffOfTree, IndexOfTree
    <2> QED BY <2>0, <2>3, <2>4, CasesAssumption DEF VerifyInv
  <1>3. CASE VerifySymbols
    <2> DEFINE found == FindOverlappingSymbols(d, review.changes, review.stale)
               funcs == changedFuncs(found)
               both  == funcs \cup changedTestFuncs(found)
               pc    == IF both = {} THEN "done" ELSE "tests"
               more  == [found |-> both, todo |-> funcs, seen |-> d, tests |-> changedTestFuncs(found), uncovered |-> {}]
    <2>0. DiffOfTree /\ IndexOfTree /\ built \in Trees /\ d = Indexed(built) /\ built # Unborn
      BY <1>3 DEF VerifySymbols, VerifyInv
    <2>1. Goes(pc, more)
      BY <1>3 DEF VerifySymbols
    <2>2. /\ DOMAIN more = {"found", "todo", "seen", "tests", "uncovered"}
          /\ more.found = both /\ more.todo = funcs /\ more.seen = d /\ more.uncovered = {}
      OBVIOUS
    <2>3. found \subseteq d.syms /\ d.syms = Tree[built].syms /\ Tree[built].syms \subseteq Syms
      BY <2>0, TreesAssumption DEF FindOverlappingSymbols, Indexed
    <2>4. both \subseteq Syms /\ changedFuncs(both) = funcs
      BY <2>3, TablesAssumption DEF changedFuncs, changedTestFuncs, InCode, IsTest
    <2>5. ASSUME Still, NEW j \in d.syms, isFunc(j), InCode(j), Sym[j].file \in DOMAIN review.changes,
                 j \in Tree[work].syms => Overlaps(j, review.changes)
          PROVE  j \in both
      <3>1. CASE Sym[j].file \in review.stale
        BY <2>5, <3>1 DEF FindOverlappingSymbols, changedFuncs
      <3>2. CASE Sym[j].file \notin review.stale
        <4>1. SymsOf(built, Sym[j].file) = SymsOf(work, Sym[j].file)
          BY <2>0, <2>5, <3>2 DEF IndexOfTree
        <4>2. j \in Tree[work].syms
          BY <2>3, <2>5, <4>1 DEF SymsOf
        <4> QED BY <2>5, <4>2 DEF FindOverlappingSymbols, changedFuncs
      <3> QED BY <3>1, <3>2
    <2>6. pc \in {"done", "tests"} /\ (pc = "done" => funcs = {})
      OBVIOUS
    <2>7. Uncovered(d, funcs \ funcs) = {}
      BY DEF Uncovered
    <2> HIDE DEF more, both, funcs, pc
    <2>a. review'.pc = pc /\ VerifyFollows(more)
      BY <2>1, <2>2, VerifyGoes
    <2>8. /\ review'.pc = pc /\ review'.base = review.base
          /\ review'.from = review.from /\ review'.changes = review.changes
          /\ review'.found = both /\ review'.todo = funcs /\ review'.seen = d /\ review'.uncovered = {}
          /\ {"base", "from", "changes", "found", "seen", "todo", "uncovered"} \subseteq DOMAIN review'
      BY <2>0, <2>2, <2>a DEF DiffOfTree, VerifyFollows, Follows, Adds, Keeps
    <2>9. DiffOfTree'
      BY <2>0, <2>8 DEF DiffOfTree
    <2>10. LookedUp'
      BY <2>4, <2>5, <2>7, <2>8 DEF LookedUp
    <2> QED BY <2>0, <2>6, <2>8, <2>9, <2>10 DEF VerifyInv
  <1>4. CASE VerifyTests
    <2> DEFINE i    == First(Inserted(review.todo))
               rows == Page(FindTests(d, {i}, FALSE), verifyTestLimit, 0)
               none == IF rows = <<>> THEN {i} ELSE {}
               more == [todo |-> review.todo \ {i}, tests |-> review.tests \cup Range(rows), uncovered |-> review.uncovered \cup none]
    <2>0. DiffOfTree /\ LookedUp /\ built # Unborn /\ review.todo # {}
      BY <1>4 DEF VerifyTests, VerifyInv
    <2>1. Goes("tests", more)
      BY <1>4 DEF VerifyTests
    <2>2. /\ DOMAIN more = {"todo", "tests", "uncovered"}
          /\ more.todo = review.todo \ {i} /\ more.uncovered = review.uncovered \cup none
      OBVIOUS
    <2>3. review.todo \subseteq Syms
      BY <2>0 DEF LookedUp, changedFuncs
    <2>4. i \in review.todo
      BY <2>0, <2>3, FirstOfInserted
    <2>5. rows = <<>> <=> FindTests(d, {i}, FALSE) = <<>>
      <3>1. verifyTestLimit \in Nat /\ verifyTestLimit > 0
        BY DEF verifyTestLimit
      <3>2. d.calls \subseteq DOMAIN Calls
        BY <2>0 DEF Indexed
      <3> HIDE DEF i
      <3> QED BY <3>1, <3>2, PageOfTests
    <2> HIDE DEF i, rows
    <2>6. none = Uncovered(d, {i})
      BY <2>5 DEF Uncovered
    <2> HIDE DEF none, more
    <2>a. review'.pc = "tests" /\ VerifyFollows(more)
      BY <2>1, <2>2, VerifyGoes
    <2>7. /\ review'.pc = "tests" /\ review'.base = review.base
          /\ review'.from = review.from /\ review'.changes = review.changes
          /\ review'.found = review.found /\ review'.todo = review.todo \ {i} /\ review'.seen = review.seen
          /\ review'.uncovered = review.uncovered \cup none
          /\ {"base", "from", "changes", "found", "seen", "todo", "uncovered"} \subseteq DOMAIN review'
      BY <2>0, <2>2, <2>a DEF DiffOfTree, LookedUp, VerifyFollows, Follows, Adds, Keeps
    <2>8. DiffOfTree'
      BY <2>0, <2>7 DEF DiffOfTree
    <2>9. LookedUp'
      <3>1. Quiet => review'.uncovered = Uncovered(d, changedFuncs(review.found) \ review'.todo)
        BY <2>0, <2>4, <2>6, <2>7 DEF LookedUp, Uncovered
      <3> QED BY <2>0, <2>7, <3>1 DEF LookedUp
    <2> QED BY <2>0, <2>7, <2>8, <2>9 DEF VerifyInv
  <1>5. CASE VerifyRipple
    <2>0. DiffOfTree /\ LookedUp /\ review.todo = {}
      BY <1>5 DEF VerifyRipple, VerifyInv
    <2> DEFINE more == [ripple |-> verifyBuildRipple(d, changedFuncs(review.found), DOMAIN review.changes)]
    <2>1. Goes("done", more) /\ DOMAIN more = {"ripple"}
      BY <1>5 DEF VerifyRipple
    <2> HIDE DEF more
    <2>a. review'.pc = "done" /\ VerifyFollows(more)
      BY <2>1, VerifyGoes
    <2>2. /\ review'.pc = "done" /\ review'.base = review.base
          /\ review'.from = review.from /\ review'.changes = review.changes
          /\ review'.found = review.found /\ review'.todo = review.todo /\ review'.seen = review.seen
          /\ review'.uncovered = review.uncovered
          /\ {"base", "from", "changes", "found", "seen", "todo", "uncovered"} \subseteq DOMAIN review'
      BY <2>0, <2>1, <2>a DEF DiffOfTree, LookedUp, VerifyFollows, Follows, Adds, Keeps
    <2>3. DiffOfTree' /\ LookedUp'
      BY <2>0, <2>2 DEF DiffOfTree, LookedUp
    <2> QED BY <2>0, <2>2, <2>3 DEF VerifyInv
  <1> QED BY <1>1, <1>2, <1>3, <1>4, <1>5 DEF Verify

LEMMA VerifyInvariance == ClientSpec => [](EnvInv /\ VerifyInv)
  <1>1. ASSUME HasVerb, EnvInv, EnvInv', VerifyInv, [ClientNext]_<<vars, reviewVars>> PROVE VerifyInv'
    <2>1. HasVerb' /\ review'.verb = review.verb
      BY <1>1, VerbKept
    <2>2. CASE Verify
      BY <1>1, <2>2, VerifyInvStep
    <2>3. CASE review.verb # "verify"
      BY <2>1, <2>3 DEF VerifyInv
    <2>4. CASE UNCHANGED <<d, work, built, metrics, review, stirred>>
      BY <1>1, <2>4 DEF VerifyInv, DiffOfTree, IndexOfTree, LookedUp, Quiet, Still, Undisturbed
    <2>5. CASE Stirs /\ review.verb = "verify"
      <3>1. DiffOfTree => DiffOfTree'
        BY <2>5 DEF Stirs, DiffOfTree
      <3>2. IndexOfTree => IndexOfTree'
        BY <2>5 DEF Stirs, IndexOfTree
      <3>3. LookedUp => LookedUp'
        BY <2>5 DEF Stirs, LookedUp
      <3> QED BY <1>1, <2>5, <3>1, <3>2, <3>3 DEF VerifyInv, Stirs
    <2>6. CASE review = Off
      BY <2>3, <2>6 DEF Off
    <2> QED BY <1>1, <2>2, <2>3, <2>4, <2>5, <2>6, StepsAre
  <1>2. EnvInv /\ [ClientNext]_<<vars, reviewVars>> => EnvInv'
    BY EnvInvStep
  <1> QED BY <1>1, <1>2, EnvInvInit, VerifyInvInit, RiskInvariance, PTL DEF ClientSpec

\* verify of the working tree looks up the tests of every function of it with a line
\* that HEAD has not and that the index knows, also if the index is behind the tree or
\* a run replaced it meanwhile; and of those that it calls uncovered it found none.
THEOREM VerifyMissesNothing == ClientSpec => []VerifyAccounts
  <1>1. ASSUME EnvInv, VerifyInv PROVE VerifyAccounts
    <2> SUFFICES ASSUME Done("verify"), review.base = "", "seen" \in DOMAIN review, Undisturbed({"edit", "ref"})
                 PROVE  /\ \A i \in Tree[work].syms : isFunc(i) /\ InCode(i) /\ Overlaps(i, gitDiff(review.from, work)) =>
                             \A j \in review.seen.syms :
                               isFunc(j) /\ Alike(i, j)
                               /\ (j \in Tree[work].syms => j = i \/ Overlaps(j, gitDiff(review.from, work)))
                               => j \in review.found
                        /\ Undisturbed({"index"}) =>
                             review.uncovered = {i \in changedFuncs(review.found) : FindTests(d, {i}, FALSE) = <<>>}
      BY DEF VerifyAccounts
    <2>1. DiffOfTree /\ LookedUp /\ review.todo = {}
      BY <1>1 DEF VerifyInv, Done, Runs
    <2>2. Still
      BY DEF Still, Undisturbed
    <2>3. review.changes = gitDiff(review.from, work)
      BY <2>1, <2>2 DEF DiffOfTree
    <2>4. ASSUME NEW i \in Tree[work].syms, InCode(i), Overlaps(i, review.changes), NEW j \in review.seen.syms,
                 isFunc(j), Alike(i, j), j \in Tree[work].syms => j = i \/ Overlaps(j, review.changes)
          PROVE  j \in review.found
      <3>1. InCode(j) /\ Sym[j].file \in DOMAIN review.changes
        BY <2>4 DEF Alike, InCode, Overlaps
      <3>2. j \in Tree[work].syms => Overlaps(j, review.changes)
        BY <2>4
      <3> QED BY <2>1, <2>2, <2>4, <3>1, <3>2 DEF LookedUp
    <2>5. Quiet => review.uncovered = {i \in changedFuncs(review.found) : FindTests(d, {i}, FALSE) = <<>>}
      BY <2>1 DEF LookedUp, Uncovered
    <2> QED BY <2>3, <2>4, <2>5 DEF Quiet
  <1> QED BY <1>1, VerifyInvariance, PTL
-----------------------------------------------------------------------------
(* plan: its two parts are the call sites, cut to the cap, and what is cut *)
(* is counted.                                                             *)

Sites(db, sym) == {r \in db.refs : Refs[r].sym = sym /\ Real(r)}

LEMMA SitesEach ==
  ASSUME NEW db, db.refs \subseteq DOMAIN Refs, NEW sym
  PROVE  Each(CallSites(db, sym), Cardinality(Sites(db, sym)), Sites(db, sym))
  <1> DEFINE S    == Sites(db, sym)
             base == [r \in S |-> <<Refs[r].file, Refs[r].line, Refs[r].col>>]
             key  == [r \in S |-> Append(base[r], r)]
  <1>1. S \subseteq DOMAIN Refs
    BY DEF Sites
  <1>2. IsFiniteSet(S) /\ S \subseteq Int
    <2>1. Len(Refs) \in Nat /\ DOMAIN Refs = 1..Len(Refs)
      BY TablesAssumption
    <2>2. IsFiniteSet(1..Len(Refs))
      BY <2>1, FS_Interval
    <2> HIDE DEF S
    <2>3. IsFiniteSet(S)
      BY <1>1, <2>1, <2>2, FS_Subset
    <2> QED BY <1>1, <2>1, <2>3
  <1>3. CallSites(db, sym) = Ordered(S, key)
    <2>1. key = [r \in S |-> Append(<<Refs[r].file, Refs[r].line, Refs[r].col>>, r)]
      OBVIOUS
    <2> QED BY <2>1 DEF CallSites, OrderBy, Sites
  <1> HIDE DEF S
  <1>4. base \in [S -> Seq(Int)] /\ \A r \in S : Len(base[r]) = 3
    <2> SUFFICES ASSUME NEW r \in S PROVE base[r] \in Seq(Int) /\ Len(base[r]) = 3
      OBVIOUS
    <2>1. Refs[r].file \in Int /\ Refs[r].line \in Int /\ Refs[r].col \in Int
      BY <1>1, RefTyped
    <2> QED BY <2>1
  <1> HIDE DEF base
  <1>5. InOrder(S, key, Ordered(S, key))
    BY <1>2, <1>4, OrderByIsInOrder
  <1>6. Each(CallSites(db, sym), Cardinality(S), S)
    BY <1>3, <1>5, InOrderEach
  <1> QED BY <1>6 DEF S

\* The parts are told apart by the file.
LEMMA PartsEach ==
  ASSUME NEW rows, NEW n, NEW S, Each(rows, n, S)
  PROVE  LET parts == planPartitionRefs(rows)
             prod  == {r \in S : Refs[r].file \notin LikeTest}
             test  == {r \in S : Refs[r].file \in LikeTest}
         IN Each(parts.prod, Cardinality(prod), prod) /\ Each(parts.test, Cardinality(test), test)
  <1> DEFINE prod  == {r \in S : Refs[r].file \notin LikeTest}
             test  == {r \in S : Refs[r].file \in LikeTest}
             P     == {k \in DOMAIN rows : Refs[rows[k]].file \notin LikeTest}
             T     == {k \in DOMAIN rows : Refs[rows[k]].file \in LikeTest}
  <1>1. DOMAIN rows = 1..n /\ {rows[k] : k \in 1..n} = S
    BY DEF Each, List
  <1>2. planPartitionRefs(rows) = [prod |-> Part(rows, P), test |-> Part(rows, T)]
    BY DEF planPartitionRefs, Where, Column, Part
  <1>3. {rows[k] : k \in P} = prod /\ {rows[k] : k \in T} = test
    BY <1>1
  <1>4. P \subseteq 1..n /\ T \subseteq 1..n
    BY <1>1
  <1> HIDE DEF P, T, prod, test
  <1>5. Each(Part(rows, P), Cardinality(P), prod) /\ Each(Part(rows, T), Cardinality(T), test)
    BY <1>3, <1>4, PartEach
  <1>6. Each(Part(rows, P), Cardinality(prod), prod) /\ Each(Part(rows, T), Cardinality(test), test)
    BY <1>5, CountEach
  <1> QED BY <1>2, <1>6 DEF prod, test

\* A worklist has the first sites up to the cap, and counts the others.
LEMMA SitesOf ==
  ASSUME NEW rows, NEW n, NEW S, Each(rows, n, S), NEW cap \in Int
  PROVE  LET w == planBuildCallSites(rows, cap)
             m == IF 0 <= cap /\ cap < n THEN cap ELSE n
         IN /\ n \in Nat /\ w.total = n /\ w.truncated = n - m
            /\ Range(w.sites) \subseteq S /\ IsFiniteSet(Range(w.sites)) /\ Cardinality(Range(w.sites)) = m
            /\ m = n => Range(w.sites) = S
  <1> DEFINE m     == IF 0 <= cap /\ cap < n THEN cap ELSE n
             sites == IF cap < 0 THEN rows ELSE Page(rows, cap, 0)
             some  == {rows[i] : i \in 1..m}
  <1>1. List(rows, n) /\ n \in Nat /\ Len(rows) = n /\ {rows[i] : i \in 1..n} = S /\ \A i, j \in 1..n : rows[i] = rows[j] => i = j
    BY ListLen DEF Each, List
  <1>2. m \in Nat /\ m <= n
    BY <1>1
  <1>3. List(sites, m) /\ \A i \in 1..m : sites[i] = rows[i]
    <2>1. CASE cap < 0
      BY <1>1, <2>1
    <2>2. CASE cap >= 0
      <3>1. cap \in Nat /\ sites = Page(rows, cap, 0) /\ m = IF cap < n THEN cap ELSE n
        BY <2>2
      <3> HIDE DEF sites, m
      <3> QED BY <1>1, <3>1, PageOfList
    <2> QED BY <2>1, <2>2
  <1>4. planBuildCallSites(rows, cap) = [sites |-> sites, truncated |-> Len(rows) - Len(sites), total |-> Len(rows)]
    BY DEF planBuildCallSites
  <1> HIDE DEF sites, m
  <1>5. Len(sites) = m /\ DOMAIN sites = 1..m
    BY <1>3, ListLen
  <1>6. Each(sites, m, some)
    BY <1>1, <1>2, <1>3 DEF Each
  <1>7. Range(sites) = some /\ some \subseteq S /\ (m = n => some = S)
    BY <1>1, <1>2, <1>3, <1>5 DEF Range
  <1> HIDE DEF some
  <1>8. IsFiniteSet(some) /\ Cardinality(some) = m
    BY <1>6, CountEach
  <1> QED BY <1>1, <1>4, <1>5, <1>7, <1>8 DEF m

\* What the production sites leave of a cap.
LEMMA BudgetLeft ==
  ASSUME NEW cap \in Nat, NEW used \in 0..cap, NEW total \in Nat, NEW truncated \in Nat, total - truncated = used
  PROVE  planTestBudget(cap, total, truncated) = cap - used
  <1>1. planTestBudget(cap, total, truncated) = Max({0, cap - used})
    BY DEF planTestBudget
  <1>2. Max({0, cap - used}) = cap - used
    BY DEF Max
  <1> QED BY <1>1, <1>2
Parts == planPartitionRefs(CallSites(review.seen, review.sym))
\* What a worklist was made of: the call sites of an index that was there.
SitesShown(prod, test) ==
  \/ review.safe = FALSE /\ prod = planBuildCallSites(Parts.prod, review.cap)
     /\ test = planBuildCallSites(Parts.test, planTestBudget(review.cap, prod.total, prod.truncated))
  \/ review.safe = TRUE /\ Parts.prod = <<>> /\ prod = NoSites /\ test = planBuildCallSites(Parts.test, -1)
Worklist == /\ "seen" \in DOMAIN review /\ review.sym \in Syms
            /\ \E t \in Trees : review.seen = Indexed(t)
            /\ SitesShown(review.prod, review.test)
PlanInv ==
  review.verb = "plan" =>
  /\ {"change", "cap"} \subseteq DOMAIN review /\ review.cap \in Int
  /\ review.pc \in {"asks", "load", "sites", "tests", "done", "refused"}
  /\ review.pc \in {"load", "sites", "tests", "done"} => {"sym", "prod", "test", "safe"} \subseteq DOMAIN review
  /\ review.pc \in {"load", "sites"} => built # Unborn /\ review.safe = FALSE /\ review.prod = NoSites
  /\ review.pc = "sites" => review.sym \in Syms
  /\ review.pc \in {"tests", "done"} /\ review.change # "behavior" => Worklist

LEMMA PlanInvInit == ClientInit => PlanInv
  <1>1. CASE review = Off
    BY <1>1 DEF Off, PlanInv
  <1>2. ASSUME NEW x \in Cases, review = Over([pc |-> "asks"], x[1]) PROVE PlanInv
    <2>1. DOMAIN review = {"pc"} \cup DOMAIN x[1] /\ review.pc = "asks" /\ "verb" \in DOMAIN x[1] /\ review.verb = x[1].verb
      BY <1>2, CasesAssumption DEF Over
    <2>2. \A k \in DOMAIN x[1] : k # "pc" => review[k] = x[1][k]
      BY <1>2 DEF Over
    <2>3. x[1].verb = "plan" => {"change", "cap"} \subseteq DOMAIN x[1] /\ x[1].cap \in Int
      BY CasesAssumption
    <2>4. review.verb = "plan" => {"change", "cap"} \subseteq DOMAIN review /\ review.cap \in Int
      BY <2>1, <2>2, <2>3
    <2> QED BY <2>1, <2>4 DEF PlanInv
  <1> QED BY <1>1, <1>2 DEF ClientInit, ReviewInit

PlanFollows(more) ==
  /\ Follows("change", more) /\ Follows("cap", more) /\ Follows("sym", more) /\ Follows("prod", more)
  /\ Follows("test", more) /\ Follows("safe", more) /\ Follows("seen", more)

LEMMA PlanGoes ==
  ASSUME NEW pc, NEW more, Goes(pc, more), "pc" \notin DOMAIN more
  PROVE  review'.pc = pc /\ PlanFollows(more)
  <1>1. \A k : k # "pc" => Follows(k, more)
    BY FieldFollows
  <1>2. review'["pc"] = pc
    BY GoesAdds
  <1> QED BY <1>1, <1>2 DEF PlanFollows

LEMMA PlanInvStep ==
  ASSUME HasVerb, EnvInv, PlanInv, Plan
  PROVE  PlanInv'
  <1>0. /\ review.verb = "plan" /\ UNCHANGED <<d, built>>
        /\ built \in Trees \cup {Unborn} /\ (built # Unborn => d = Indexed(built))
        /\ {"change", "cap"} \subseteq DOMAIN review /\ review.cap \in Int
    <2>1. review.verb = "plan"
      BY DEF Plan, Steps, Runs, PlanFinds, PlanLoads, PlanSites, PlanTests
    <2>2. review # Off /\ UNCHANGED surroundings
      BY NotOff
    <2> QED BY <2>1, <2>2 DEF EnvInv, surroundings, PlanInv
  <1> USE <1>0 DEF Steps, Runs
  <1>r. ASSUME Goes("refused", <<>>) PROVE PlanInv'
    <2>1. review'.pc = "refused" /\ PlanFollows(<<>>)
      BY <1>r, NoneAdded, PlanGoes
    <2>2. {"change", "cap"} \subseteq DOMAIN review' /\ review'.cap = review.cap
      BY <2>1, NoneAdded DEF PlanFollows, Follows, Keeps
    <2> QED BY <2>1, <2>2 DEF PlanInv
  <1>1. CASE PlanFinds
    <2> DEFINE found == Resolve(d, "refs", review.arg)
               more  == [sym |-> found[1], prod |-> NoSites, test |-> NoSites, tests |-> <<>>, safe |-> FALSE]
    <2>1. CASE built # Unborn /\ Goes("load", more)
      <3>1. /\ DOMAIN more = {"sym", "prod", "test", "tests", "safe"}
            /\ more.prod = NoSites /\ more.safe = FALSE
        OBVIOUS
      <3> HIDE DEF more
      <3>2. review'.pc = "load" /\ PlanFollows(more)
        BY <2>1, <3>1, PlanGoes
      <3>3. /\ {"change", "cap", "sym", "prod", "test", "safe"} \subseteq DOMAIN review'
            /\ review'.cap = review.cap /\ review'.prod = NoSites /\ review'.safe = FALSE
        BY <3>1, <3>2 DEF PlanFollows, Follows, Adds, Keeps
      <3> QED BY <2>1, <3>2, <3>3 DEF PlanInv
    <2> QED BY <1>1, <1>r, <2>1 DEF PlanFinds
  <1>2. CASE PlanLoads
    <2> DEFINE pc == IF review.change = "behavior" THEN "tests" ELSE "sites"
    <2>1. CASE review.sym \in d.syms /\ Goes(pc, <<>>)
      <3>1. /\ {"sym", "prod", "test", "safe"} \subseteq DOMAIN review
            /\ built # Unborn /\ review.safe = FALSE /\ review.prod = NoSites
        BY <1>2 DEF PlanLoads, PlanInv
      <3>2. review.sym \in Syms
        <4>1. built \in Trees /\ d.syms = Tree[built].syms
          BY <3>1 DEF Indexed
        <4>2. Tree[built].syms \subseteq Syms
          BY <4>1, TreesAssumption
        <4> QED BY <2>1, <4>1, <4>2
      <3>3. review'.pc = pc /\ PlanFollows(<<>>)
        BY <2>1, NoneAdded, PlanGoes
      <3>4. /\ {"change", "cap", "sym", "prod", "test", "safe"} \subseteq DOMAIN review'
            /\ review'.cap = review.cap /\ review'.change = review.change /\ review'.sym = review.sym
            /\ review'.prod = review.prod /\ review'.safe = review.safe
        BY <3>1, <3>3, NoneAdded DEF PlanFollows, Follows, Keeps
      <3> QED BY <3>1, <3>2, <3>3, <3>4 DEF PlanInv
    <2> QED BY <1>2, <1>r, <2>1 DEF PlanLoads
  <1>3. CASE PlanSites
    <2> DEFINE parts == planPartitionRefs(CallSites(d, review.sym))
               prod  == planBuildCallSites(parts.prod, review.cap)
               test  == planBuildCallSites(parts.test, planTestBudget(review.cap, prod.total, prod.truncated))
    <2>1. /\ {"sym", "prod", "test", "safe"} \subseteq DOMAIN review /\ review.sym \in Syms
          /\ built \in Trees /\ d = Indexed(built) /\ review.safe = FALSE /\ review.prod = NoSites
      BY <1>3 DEF PlanSites, PlanInv
    <2>2. CASE parts.prod = <<>> /\ Goes("done", [safe |-> TRUE, seen |-> d, test |-> planBuildCallSites(parts.test, -1)])
      <3> DEFINE all  == planBuildCallSites(parts.test, -1)
                 more == [safe |-> TRUE, seen |-> d, test |-> all]
      <3>1. DOMAIN more = {"safe", "seen", "test"} /\ more.safe = TRUE /\ more.seen = d /\ more.test = all
        OBVIOUS
      <3>2. Goes("done", more)
        BY <2>2
      <3> HIDE DEF more, all, parts
      <3>3. review'.pc = "done" /\ PlanFollows(more)
        BY <3>1, <3>2, PlanGoes
      <3>4. /\ {"change", "cap", "sym", "prod", "test", "safe", "seen"} \subseteq DOMAIN review'
            /\ review'.cap = review.cap /\ review'.sym = review.sym /\ review'.seen = d
            /\ review'.prod = NoSites /\ review'.test = all /\ review'.safe = TRUE
        BY <2>1, <3>1, <3>3 DEF PlanFollows, Follows, Adds, Keeps
      <3>5. Parts' = parts
        BY <3>4 DEF Parts, parts
      <3>6. Worklist'
        BY <2>1, <2>2, <3>4, <3>5 DEF Worklist, SitesShown, all
      <3> QED BY <3>3, <3>4, <3>6 DEF PlanInv
    <2>3. CASE Goes("tests", [seen |-> d, prod |-> prod, test |-> test])
      <3> DEFINE more == [seen |-> d, prod |-> prod, test |-> test]
      <3>1. DOMAIN more = {"seen", "prod", "test"} /\ more.seen = d /\ more.prod = prod /\ more.test = test
        OBVIOUS
      <3>2. Goes("tests", more)
        BY <2>3
      <3>p. /\ prod = planBuildCallSites(parts.prod, review.cap)
            /\ test = planBuildCallSites(parts.test, planTestBudget(review.cap, prod.total, prod.truncated))
        OBVIOUS
      <3> HIDE DEF more, prod, test, parts
      <3>3. review'.pc = "tests" /\ PlanFollows(more)
        BY <3>1, <3>2, PlanGoes
      <3>4. /\ {"change", "cap", "sym", "prod", "test", "safe", "seen"} \subseteq DOMAIN review'
            /\ review'.cap = review.cap /\ review'.sym = review.sym /\ review'.seen = d
            /\ review'.prod = prod /\ review'.test = test /\ review'.safe = FALSE
        BY <2>1, <3>1, <3>3 DEF PlanFollows, Follows, Adds, Keeps
      <3>5. Parts' = parts
        BY <3>4 DEF Parts, parts
      <3>6. Worklist'
        BY <2>1, <3>p, <3>4, <3>5 DEF Worklist, SitesShown
      <3> QED BY <3>3, <3>4, <3>6 DEF PlanInv
    <2> QED BY <1>3, <2>2, <2>3 DEF PlanSites
  <1>4. CASE PlanTests
    <2> DEFINE rows == Page(FindTests(d, {review.sym}, FALSE), planTestLimit, 0)
               more == [tests |-> rows, churn |-> FindChurnLiterals({Sym[i].file : i \in Range(rows)})]
    <2>1. Goes("done", more) /\ DOMAIN more = {"tests", "churn"}
      BY <1>4 DEF PlanTests
    <2> HIDE DEF more
    <2>2. /\ {"sym", "prod", "test", "safe"} \subseteq DOMAIN review /\ (review.change # "behavior" => Worklist)
      BY <1>4 DEF PlanTests, PlanInv
    <2>3. review'.pc = "done" /\ PlanFollows(more)
      BY <2>1, PlanGoes
    <2>4. /\ {"change", "cap", "sym", "prod", "test", "safe"} \subseteq DOMAIN review'
          /\ review'.cap = review.cap /\ review'.change = review.change /\ review'.sym = review.sym
          /\ review'.prod = review.prod /\ review'.test = review.test /\ review'.safe = review.safe
          /\ ("seen" \in DOMAIN review => "seen" \in DOMAIN review' /\ review'.seen = review.seen)
      BY <2>1, <2>2, <2>3 DEF PlanFollows, Follows, Keeps
    <2>5. Worklist => Worklist'
      BY <2>4 DEF Worklist, SitesShown, Parts
    <2> QED BY <2>2, <2>3, <2>4, <2>5 DEF PlanInv
  <1> QED BY <1>1, <1>2, <1>3, <1>4 DEF Plan

LEMMA PlanInvariance == ClientSpec => []PlanInv
  <1>1. ASSUME HasVerb, EnvInv, PlanInv, [ClientNext]_<<vars, reviewVars>> PROVE PlanInv'
    <2>1. review'.verb = review.verb
      BY <1>1, VerbKept
    <2>2. CASE Plan
      BY <1>1, <2>2, PlanInvStep
    <2>3. CASE review.verb # "plan"
      BY <2>1, <2>3 DEF PlanInv
    <2>4. CASE UNCHANGED <<built, review>>
      BY <1>1, <2>4 DEF PlanInv, Worklist, SitesShown, Parts
    <2>5. CASE Stirs
      <3>1. Worklist => Worklist'
        BY <2>5 DEF Stirs, Worklist, SitesShown, Parts
      <3> QED BY <1>1, <2>5, <3>1 DEF PlanInv, Stirs
    <2>6. CASE review = Off
      BY <2>3, <2>6 DEF Off
    <2> QED BY <1>1, <2>2, <2>3, <2>4, <2>5, <2>6, StepsAre
  <1> QED BY <1>1, PlanInvInit, VerifyInvariance, RiskInvariance, PTL DEF ClientSpec

\* plan: the production and the test sites together keep to the cap, what was cut is
\* counted, every function that calls the symbol is around a site if there is no cap,
\* and what is called safe to delete is called from tests only.
THEOREM PlanCounts == ClientSpec => []PlanAccounts
  <1>1. ASSUME PlanInv PROVE PlanAccounts
    <2> DEFINE P       == Range(review.prod.sites)
               T       == Range(review.test.sites)
               emitted == P \cup T
               calling == {Calls[c].from : c \in {c \in review.seen.calls : Calls[c].to = review.sym}}
               S       == Sites(review.seen, review.sym)
               inCode  == {r \in S : Refs[r].file \notin LikeTest}
               inTests == {r \in S : Refs[r].file \in LikeTest}
    <2> SUFFICES ASSUME Done("plan"), review.change # "behavior"
                 PROVE  /\ review.cap >= 0 /\ ~review.safe => Cardinality(emitted) <= review.cap
                        /\ Cardinality(emitted) + review.prod.truncated + review.test.truncated = GetRefCount(review.seen, review.sym)
                        /\ Sym[review.sym].kind # "method" =>
                             /\ review.cap < 0 => calling \subseteq {Refs[r].enc : r \in emitted}
                             /\ review.safe => \A i \in calling : Sym[i].file \in LikeTest
      BY DEF PlanAccounts
    <2>1. Worklist /\ review.cap \in Int
      BY <1>1 DEF PlanInv, Done, Runs
    <2>2. PICK t \in Trees : review.seen = Indexed(t)
      BY <2>1 DEF Worklist
    <2>3. review.seen.refs \subseteq DOMAIN Refs /\ review.seen.calls \subseteq DOMAIN Calls /\ Consistent(review.seen)
      BY <2>2, MeasuresAssumption DEF Indexed
    <2>4. Each(Parts.prod, Cardinality(inCode), inCode) /\ Each(Parts.test, Cardinality(inTests), inTests)
      <3>1. Each(CallSites(review.seen, review.sym), Cardinality(S), S)
        BY <2>3, SitesEach
      <3> HIDE DEF S
      <3> QED BY <3>1, PartsEach DEF Parts
    <2>5. /\ IsFiniteSet(inCode) /\ IsFiniteSet(inTests) /\ Cardinality(inCode) \in Nat /\ Cardinality(inTests) \in Nat
          /\ Cardinality(S) = Cardinality(inCode) + Cardinality(inTests)
      <3>1. IsFiniteSet(inCode) /\ IsFiniteSet(inTests)
        BY <2>4, CountEach
      <3>2. S = inCode \cup inTests /\ inCode \cap inTests = {}
        OBVIOUS
      <3> HIDE DEF S, inCode, inTests
      <3>3. Cardinality(S) = Cardinality(inCode) + Cardinality(inTests) - Cardinality({})
        BY <3>1, <3>2, FS_Union
      <3>4. Cardinality(inCode) \in Nat /\ Cardinality(inTests) \in Nat /\ Cardinality({}) = 0
        BY <3>1, FS_CardinalityType, FS_EmptySet
      <3> QED BY <3>1, <3>3, <3>4
    <2>6. /\ IsFiniteSet(P) /\ IsFiniteSet(T) /\ P \subseteq inCode /\ T \subseteq inTests
          /\ Cardinality(P) \in Nat /\ Cardinality(T) \in Nat
          /\ review.prod.truncated \in Int /\ review.test.truncated \in Int
          /\ Cardinality(P) + review.prod.truncated = Cardinality(inCode)
          /\ Cardinality(T) + review.test.truncated = Cardinality(inTests)
          /\ review.cap >= 0 /\ ~review.safe => Cardinality(P) + Cardinality(T) <= review.cap
          /\ review.cap < 0 \/ review.safe => P = inCode /\ T = inTests
          /\ review.safe => inCode = {}
      <3>1. CASE ~review.safe
        <4> DEFINE budget == planTestBudget(review.cap, review.prod.total, review.prod.truncated)
                   np == Cardinality(inCode)
                   nt == Cardinality(inTests)
                   mp == IF 0 <= review.cap /\ review.cap < np THEN review.cap ELSE np
                   mt == IF 0 <= budget /\ budget < nt THEN budget ELSE nt
        <4>0. np \in Nat /\ nt \in Nat
          BY <2>5
        <4>1. review.prod = planBuildCallSites(Parts.prod, review.cap) /\ review.test = planBuildCallSites(Parts.test, budget)
          BY <2>1, <3>1 DEF Worklist, SitesShown
        <4> HIDE DEF inCode, inTests
        <4>2. /\ review.prod.total = np /\ review.prod.truncated = np - mp /\ P \subseteq inCode
              /\ IsFiniteSet(P) /\ Cardinality(P) = mp /\ (mp = np => P = inCode)
          BY <2>1, <2>4, <4>1, SitesOf
        <4>3. mp \in 0..np /\ (review.cap >= 0 => mp \in 0..review.cap) /\ (review.cap < 0 => mp = np)
          BY <2>1, <4>0
        <4>4. budget = IF review.cap < 0 THEN review.cap ELSE review.cap - mp
          <5>1. CASE review.cap < 0
            BY <5>1 DEF planTestBudget
          <5>2. CASE review.cap >= 0
            <6>1. np - mp \in Nat /\ np - (np - mp) = mp /\ review.cap \in Nat
              BY <2>1, <4>0, <4>3, <5>2
            <6>2. planTestBudget(review.cap, np, np - mp) = review.cap - mp
              <7> HIDE DEF np, mp
              <7> QED BY <4>0, <4>3, <5>2, <6>1, BudgetLeft
            <6>3. budget = planTestBudget(review.cap, np, np - mp)
              BY <4>2
            <6> QED BY <2>1, <5>2, <6>2, <6>3
          <5> QED BY <2>1, <5>1, <5>2
        <4>5. budget \in Int
          BY <2>1, <4>0, <4>3, <4>4
        <4> HIDE DEF budget
        <4>6. /\ review.test.truncated = nt - mt /\ T \subseteq inTests
              /\ IsFiniteSet(T) /\ Cardinality(T) = mt /\ (mt = nt => T = inTests)
          BY <2>4, <4>1, <4>5, SitesOf
        <4>7. mt \in 0..nt /\ (review.cap >= 0 => mp + mt <= review.cap) /\ (review.cap < 0 => mt = nt)
          BY <2>1, <4>0, <4>3, <4>4, <4>5
        <4> HIDE DEF P, T, mp, mt, np, nt
        <4>8. /\ mp \in Nat /\ mt \in Nat /\ mp + (np - mp) = np /\ mt + (nt - mt) = nt
              /\ np - mp \in Int /\ nt - mt \in Int
          BY <4>0, <4>3, <4>7
        <4>9. review.cap < 0 => P = inCode /\ T = inTests
          BY <4>2, <4>3, <4>6, <4>7
        <4>10. /\ Cardinality(P) + review.prod.truncated = np
               /\ Cardinality(T) + review.test.truncated = nt
          BY <4>2, <4>6, <4>8
        <4>11. review.cap >= 0 => Cardinality(P) + Cardinality(T) <= review.cap
          BY <4>2, <4>6, <4>7
        <4> QED BY <3>1, <4>2, <4>6, <4>8, <4>9, <4>10, <4>11 DEF np, nt
      <3>2. CASE review.safe
        <4>1. Parts.prod = <<>> /\ review.prod = NoSites /\ review.test = planBuildCallSites(Parts.test, -1)
          BY <2>1, <3>2 DEF Worklist, SitesShown
        <4> DEFINE np == Cardinality(inCode)
                   nt == Cardinality(inTests)
        <4> HIDE DEF inCode, inTests
        <4>2. np = 0 /\ inCode = {}
          <5>1. List(Parts.prod, np) /\ {Parts.prod[i] : i \in 1..np} = inCode
            BY <2>4 DEF Each
          <5> HIDE DEF np
          <5>2. np = 0
            BY <4>1, <5>1, ListLen
          <5> QED BY <5>1, <5>2
        <4>3. P = {} /\ review.prod.truncated = 0
          BY <4>1 DEF NoSites, Range
        <4>4. /\ review.test.truncated = nt - nt /\ T = inTests
          BY <2>4, <4>1, SitesOf
        <4>5. IsFiniteSet({}) /\ Cardinality({}) = 0
          BY FS_EmptySet
        <4> HIDE DEF P, T
        <4> QED BY <2>5, <3>2, <4>2, <4>3, <4>4, <4>5
      <3> QED BY <3>1, <3>2
    <2>7. Cardinality(emitted) = Cardinality(P) + Cardinality(T)
      <3>1. P \cap T = {}
        BY <2>6
      <3> HIDE DEF P, T
      <3>2. Cardinality(emitted) = Cardinality(P) + Cardinality(T) - Cardinality({})
        BY <2>6, <3>1, FS_Union
      <3> QED BY <2>6, <3>2, FS_EmptySet
    <2>8. Cardinality(emitted) + review.prod.truncated + review.test.truncated = GetRefCount(review.seen, review.sym)
      <3>1. GetRefCount(review.seen, review.sym) = Cardinality(S)
        BY DEF GetRefCount, Sites
      <3> HIDE DEF P, T, S, emitted, inCode, inTests
      <3> QED BY <2>5, <2>6, <2>7, <3>1
    <2>9. ASSUME Sym[review.sym].kind # "method", review.cap < 0 \/ review.safe, NEW c \in review.seen.calls, Calls[c].to = review.sym
          PROVE  \E r \in emitted : Refs[r].enc = Calls[c].from /\ (review.safe => Sym[Calls[c].from].file \in LikeTest)
      <3>1. PICK r \in review.seen.refs : Refs[r].sym = review.sym /\ Refs[r].enc = Calls[c].from /\ Real(r)
        BY <2>3, <2>9 DEF Consistent
      <3>2. r \in S /\ r \in inCode \cup inTests
        BY <3>1 DEF Sites
      <3>3. r \in emitted /\ (review.safe => Refs[r].file \in LikeTest)
        <4>1. r \in P \cup T /\ (review.safe => r \in inTests)
          <5> HIDE DEF P, T, S, inCode, inTests
          <5> QED BY <2>6, <2>9, <3>2
        <4> QED BY <4>1
      <3>4. Refs[r].file = Sym[Calls[c].from].file
        <4>1. r \in DOMAIN Refs /\ Calls[c].from \in Syms
          BY <2>3, CallTyped
        <4>2. Refs[r].enc # 0
          <5>1. Len(Sym) \in Nat /\ Syms = 1..Len(Sym)
            BY TablesAssumption DEF Syms
          <5> QED BY <3>1, <4>1, <5>1
        <4> QED BY <3>1, <4>1, <4>2, TablesAssumption
      <3> QED BY <3>1, <3>3, <3>4
    <2> HIDE DEF P, T, S, emitted, inCode, inTests
    <2> QED BY <2>6, <2>7, <2>8, <2>9
  <1> QED BY <1>1, PlanInvariance, PTL

-----------------------------------------------------------------------------
(* The answers of the query commands are the pages of lists.               *)

\* A page of a list: how many rows it has, and which.
Held(n, limit, off) == IF n <= off THEN 0 ELSE IF n - off < limit THEN n - off ELSE limit
Slice(rows, n, limit, off) == {rows[off + i] : i \in 1..Held(n, limit, off)}

LEMMA HeldIsNat == ASSUME NEW n \in Nat, NEW limit \in Nat, NEW off \in Nat PROVE Held(n, limit, off) \in Nat
  BY DEF Held

LEMMA PageAt ==
  ASSUME NEW rows, NEW n, List(rows, n), NEW limit \in Nat, NEW off \in Nat
  PROVE  LET m == Held(n, limit, off)
         IN List(Page(rows, limit, off), m) /\ \A i \in 1..m : Page(rows, limit, off)[i] = rows[off + i]
  <1> DEFINE m == Held(n, limit, off)
             page == [i \in 1..m |-> rows[off + i]]
  <1>1. Len(rows) = n /\ n \in Nat
    BY ListLen DEF List
  <1>2. Least(limit, IF off < Len(rows) THEN Len(rows) - off ELSE 0) = m
    BY <1>1 DEF Least, Held
  <1>3. Page(rows, limit, off) = page
    BY <1>2 DEF Page
  <1>4. m \in Nat
    BY <1>1, HeldIsNat
  <1> HIDE DEF m
  <1>5. List(page, m)
    BY <1>4 DEF List
  <1> QED BY <1>3, <1>5 DEF m

\* A list with other values.
LEMMA ColumnList ==
  ASSUME NEW rows, NEW n, List(rows, n), NEW f
  PROVE  LET col == [i \in DOMAIN rows |-> f[rows[i]]] IN List(col, n) /\ \A i \in 1..n : col[i] = f[rows[i]]
  BY ListLen DEF List

\* Ranking puts a list in another order.
HaveScores(verb, rows, n, name) == \A i \in 1..n : ScoreResult(verb, rows[i], name) \in Int
LEMMA RankedIsPermuted ==
  ASSUME NEW rows, NEW n, List(rows, n), NEW verb, NEW name, HaveScores(verb, rows, n, name)
  PROVE  /\ List(ScoreAndSort(verb, rows, name), n)
         /\ {ScoreAndSort(verb, rows, name)[i] : i \in 1..n} = {rows[i] : i \in 1..n}
  <1> DEFINE S    == DOMAIN rows
             base == [k \in S |-> <<MaxScore - ScoreResult(verb, rows[k], name)>>]
             key  == [k \in S |-> Append(base[k], k)]
             at   == Ordered(S, key)
             out  == [i \in DOMAIN at |-> rows[at[i]]]
  <1>1. n \in Nat /\ S = 1..n
    BY ListLen DEF List
  <1>2. IsFiniteSet(S) /\ S \subseteq Int /\ Cardinality(S) = n
    BY <1>1, FS_Interval
  <1>3. base \in [S -> Seq(Int)] /\ \A k \in S : Len(base[k]) = 1
    <2> SUFFICES ASSUME NEW k \in S PROVE base[k] \in Seq(Int) /\ Len(base[k]) = 1
      OBVIOUS
    <2>1. MaxScore - ScoreResult(verb, rows[k], name) \in Int
      BY <1>1 DEF MaxScore, HaveScores
    <2> QED BY <2>1
  <1>4. key = [k \in DOMAIN rows |-> Append(<<MaxScore - ScoreResult(verb, rows[k], name)>>, k)]
    OBVIOUS
  <1>5. ScoreAndSort(verb, rows, name) = out
    BY <1>4 DEF ScoreAndSort, OrderBy, Column
  <1> HIDE DEF base, S
  <1>6. InOrder(S, key, at)
    BY <1>2, <1>3, OrderByIsInOrder
  <1> HIDE DEF key, at
  <1>7. Each(at, n, S)
    BY <1>2, <1>6, InOrderEach
  <1>8. DOMAIN at = 1..n /\ {at[i] : i \in 1..n} = 1..n
    BY <1>1, <1>7 DEF Each, List
  <1>9. List(out, n) /\ \A i \in 1..n : out[i] = rows[at[i]]
    BY <1>1, <1>8 DEF List
  <1> HIDE DEF out
  <1>10. {out[i] : i \in 1..n} = {rows[k] : k \in {at[i] : i \in 1..n}}
    BY <1>9
  <1> QED BY <1>5, <1>8, <1>9, <1>10

\* Dropping repetitions leaves each value once.
LEMMA OnceIsEach ==
  ASSUME NEW list, NEW n, List(list, n)
  PROVE  LET S == {list[i] : i \in 1..n}
         IN IsFiniteSet(S) /\ Each(Once(list), Cardinality(S), S)
  <1> DEFINE K == {k \in DOMAIN list : \A j \in 1..(k - 1) : list[j] # list[k]}
             S == {list[i] : i \in 1..n}
             at == Inserted(K)
             m == Cardinality(K)
  <1>1. n \in Nat /\ DOMAIN list = 1..n
    BY ListLen DEF List
  <1>2. K \subseteq 1..n
    BY <1>1
  <1>3. Once(list) = Part(list, K)
    BY DEF Once, Column, Part
  <1>4. \A a, b \in K : list[a] = list[b] => a = b
    <2> SUFFICES ASSUME NEW a \in K, NEW b \in K, list[a] = list[b], a < b PROVE FALSE
      BY <1>2
    <2>1. a \in 1..(b - 1)
      BY <1>2
    <2> QED BY <2>1
  <1>5. {list[k] : k \in K} = S
    <2> SUFFICES ASSUME NEW i \in 1..n PROVE \E k \in K : list[k] = list[i]
      BY <1>2
    <2> DEFINE Same == {j \in 1..n : list[j] = list[i]}
    <2>1. PICK k \in Same : \A j \in Same : k <= j
      <3>1. Same \in SUBSET Nat /\ Same # {}
        BY <1>1
      <3> HIDE DEF Same
      <3> QED BY <3>1, LeastOfNats
    <2>2. \A j \in 1..(k - 1) : list[j] # list[k]
      BY <1>1, <2>1
    <2> QED BY <1>1, <2>1, <2>2
  <1> HIDE DEF K
  <1>6. Each(at, m, K)
    <2>1. IsFiniteSet(1..n)
      BY <1>1, FS_Interval
    <2>2. K \subseteq Int
      BY <1>1, <1>2
    <2>3. IsFiniteSet(K)
      BY <1>2, <2>1, FS_Subset
    <2> QED BY <2>2, <2>3, InsertedEach
  <1> HIDE DEF at
  <1>7. DOMAIN at = 1..m /\ {at[i] : i \in 1..m} = K /\ m \in Nat /\ \A i, j \in 1..m : at[i] = at[j] => i = j
    BY <1>6 DEF Each, List
  <1> DEFINE part == Part(list, K)
  <1>8. part = [i \in 1..m |-> list[at[i]]]
    BY <1>7 DEF Part, at
  <1>9. List(part, m) /\ \A i \in 1..m : part[i] = list[at[i]]
    BY <1>7, <1>8 DEF List
  <1> HIDE DEF part
  <1>10. {part[i] : i \in 1..m} = {list[k] : k \in {at[i] : i \in 1..m}}
    BY <1>9
  <1>11. \A i, j \in 1..m : part[i] = part[j] => i = j
    BY <1>4, <1>7, <1>9
  <1>12. Each(part, m, S)
    BY <1>5, <1>7, <1>9, <1>10, <1>11 DEF Each
  <1> HIDE DEF S, m
  <1>13. IsFiniteSet(S) /\ Cardinality(S) = m
    BY <1>12, CountEach
  <1> QED BY <1>3, <1>12, <1>13 DEF part, S

-----------------------------------------------------------------------------
(* What the statements return are lists of rows of the tables.             *)

Rowed(rows, U) == \E n \in Nat : List(rows, n) /\ \A i \in 1..n : rows[i] \in U

\* The parts of an index.
Indexed3(db) == db.syms \subseteq Syms /\ db.calls \subseteq DOMAIN Calls /\ db.refs \subseteq DOMAIN Refs

LEMMA TablesFinite ==
  /\ IsFiniteSet(Syms) /\ IsFiniteSet(DOMAIN Calls) /\ IsFiniteSet(DOMAIN Refs)
  /\ IsFiniteSet(DOMAIN Imports) /\ IsFiniteSet(DOMAIN Lits)
  /\ Syms \subseteq Nat /\ DOMAIN Calls \subseteq Nat /\ DOMAIN Refs \subseteq Nat
  /\ DOMAIN Imports \subseteq Nat /\ DOMAIN Lits \subseteq Nat
  <1>1. /\ Len(Calls) \in Nat /\ DOMAIN Calls = 1..Len(Calls)
        /\ Len(Refs) \in Nat /\ DOMAIN Refs = 1..Len(Refs)
        /\ Len(Imports) \in Nat /\ DOMAIN Imports = 1..Len(Imports)
        /\ Len(Lits) \in Nat /\ DOMAIN Lits = 1..Len(Lits)
    BY TablesAssumption
  <1>2. /\ IsFiniteSet(1..Len(Calls)) /\ IsFiniteSet(1..Len(Refs))
        /\ IsFiniteSet(1..Len(Imports)) /\ IsFiniteSet(1..Len(Lits))
    BY <1>1, FS_Interval
  <1> QED BY <1>1, <1>2, SymsFinite

LEMMA ImportTyped == ASSUME NEW i \in DOMAIN Imports PROVE Imports[i].file \in Nat
  <1> DEFINE Row == [file : Nat, pkg : Seq(Nat), by : Seq(Nat)]
  <1>1. Imports \in Seq(Row)
    BY TablesAssumption
  <1>2. Imports[i] \in Row
    <2> HIDE DEF Row
    <2> QED BY <1>1
  <1> QED BY <1>2

LEMMA LitTyped == ASSUME NEW i \in DOMAIN Lits PROVE Lits[i].file \in Nat /\ Lits[i].line \in Nat
  <1> DEFINE Row == [value : Nat, file : Nat, line : Nat, enc : Syms \cup {0}]
  <1>1. Lits \in Seq(Row)
    BY TablesAssumption
  <1>2. Lits[i] \in Row
    <2> HIDE DEF Row
    <2> QED BY <1>1
  <1> QED BY <1>2

LEMMA OrderedRows ==
  ASSUME NEW U, IsFiniteSet(U), U \subseteq Nat, NEW S, S \subseteq U, NEW n \in Nat,
         NEW base \in [S -> Seq(Int)], \A e \in S : Len(base[e]) = n
  PROVE  LET key == [e \in S |-> Append(base[e], e)] IN Each(Ordered(S, key), Cardinality(S), S) /\ Rowed(Ordered(S, key), U)
  <1> DEFINE key == [e \in S |-> Append(base[e], e)]
             rows == Ordered(S, key)
             N == Cardinality(S)
  <1>1. IsFiniteSet(S) /\ S \subseteq Int
    <2>1. IsFiniteSet(S)
      BY FS_Subset
    <2> QED BY <2>1
  <1>2. InOrder(S, key, rows)
    BY <1>1, OrderByIsInOrder
  <1> HIDE DEF key, rows
  <1>3. Each(rows, N, S)
    BY <1>2, InOrderEach
  <1> HIDE DEF N
  <1>4. Rowed(rows, U)
    <2>1. N \in Nat /\ List(rows, N) /\ \A i \in 1..N : rows[i] \in S
      BY <1>3 DEF Each, List
    <2> QED BY <2>1 DEF Rowed
  <1> QED BY <1>3, <1>4 DEF N, rows, key

CallsTo(db, T) == {c \in db.calls : Calls[c].to \in T}
CallsFrom(db, T) == {c \in db.calls : Calls[c].from \in T}

LEMMA RefsRows ==
  ASSUME NEW db, Indexed3(db), NEW t
  PROVE  Each(FindRefs(db, t), Cardinality(Sites(db, t)), Sites(db, t)) /\ Rowed(FindRefs(db, t), DOMAIN Refs)
  <1> DEFINE S    == {r \in db.refs : Refs[r].sym = t /\ Real(r)}
             base == [r \in S |-> <<IF Refs[r].file = Sym[t].file THEN 0 ELSE 1, Refs[r].file, Refs[r].line>>]
             key  == [r \in S |-> Append(base[r], r)]
  <1>1. S \subseteq DOMAIN Refs
    BY DEF Indexed3
  <1>2. FindRefs(db, t) = Ordered(S, key)
    <2>1. key = [r \in S |-> Append(<<IF Refs[r].file = Sym[t].file THEN 0 ELSE 1, Refs[r].file, Refs[r].line>>, r)]
      OBVIOUS
    <2> QED BY <2>1 DEF FindRefs, OrderBy
  <1> HIDE DEF S
  <1>3. base \in [S -> Seq(Int)] /\ \A r \in S : Len(base[r]) = 3
    <2> SUFFICES ASSUME NEW r \in S PROVE base[r] \in Seq(Int) /\ Len(base[r]) = 3
      OBVIOUS
    <2>1. Refs[r].file \in Int /\ Refs[r].line \in Int
      BY <1>1, RefTyped
    <2>2. (IF Refs[r].file = Sym[t].file THEN 0 ELSE 1) \in Int
      OBVIOUS
    <2> QED BY <2>1, <2>2
  <1> HIDE DEF base
  <1>4. Each(FindRefs(db, t), Cardinality(S), S) /\ Rowed(FindRefs(db, t), DOMAIN Refs)
    BY <1>1, <1>2, <1>3, TablesFinite, OrderedRows
  <1> QED BY <1>4 DEF S, Sites

LEMMA CallersRows ==
  ASSUME NEW db, Indexed3(db), NEW T
  PROVE  Each(FindCallers(db, T), Cardinality(CallsTo(db, T)), CallsTo(db, T)) /\ Rowed(FindCallers(db, T), DOMAIN Calls)
  <1> DEFINE S    == {c \in db.calls : Calls[c].to \in T}
             base == [c \in S |-> <<Sym[Calls[c].from].file, Calls[c].line>>]
             key  == [c \in S |-> Append(base[c], c)]
  <1>1. S \subseteq DOMAIN Calls
    BY DEF Indexed3
  <1>2. FindCallers(db, T) = Ordered(S, key)
    <2>1. key = [c \in S |-> Append(<<Sym[Calls[c].from].file, Calls[c].line>>, c)]
      OBVIOUS
    <2> QED BY <2>1 DEF FindCallers, OrderBy
  <1> HIDE DEF S
  <1>3. base \in [S -> Seq(Int)] /\ \A c \in S : Len(base[c]) = 2
    <2> SUFFICES ASSUME NEW c \in S PROVE base[c] \in Seq(Int) /\ Len(base[c]) = 2
      OBVIOUS
    <2>1. Calls[c].from \in Syms /\ Calls[c].line \in Int
      BY <1>1, CallTyped
    <2>2. Sym[Calls[c].from].file \in Int
      BY <2>1, SymTyped
    <2> QED BY <2>1, <2>2
  <1> HIDE DEF base
  <1>4. Each(FindCallers(db, T), Cardinality(S), S) /\ Rowed(FindCallers(db, T), DOMAIN Calls)
    BY <1>1, <1>2, <1>3, TablesFinite, OrderedRows
  <1> QED BY <1>4 DEF S, CallsTo

LEMMA CalleesRows ==
  ASSUME NEW db, Indexed3(db), NEW T
  PROVE  Each(FindCallees(db, T), Cardinality(CallsFrom(db, T)), CallsFrom(db, T)) /\ Rowed(FindCallees(db, T), DOMAIN Calls)
  <1> DEFINE S    == {c \in db.calls : Calls[c].from \in T}
             base == [c \in S |-> <<Calls[c].line>>]
             key  == [c \in S |-> Append(base[c], c)]
  <1>1. S \subseteq DOMAIN Calls
    BY DEF Indexed3
  <1>2. FindCallees(db, T) = Ordered(S, key)
    <2>1. key = [c \in S |-> Append(<<Calls[c].line>>, c)]
      OBVIOUS
    <2> QED BY <2>1 DEF FindCallees, OrderBy
  <1> HIDE DEF S
  <1>3. base \in [S -> Seq(Int)] /\ \A c \in S : Len(base[c]) = 1
    <2> SUFFICES ASSUME NEW c \in S PROVE base[c] \in Seq(Int) /\ Len(base[c]) = 1
      OBVIOUS
    <2>1. Calls[c].line \in Int
      BY <1>1, CallTyped
    <2> QED BY <2>1
  <1> HIDE DEF base
  <1>4. Each(FindCallees(db, T), Cardinality(S), S) /\ Rowed(FindCallees(db, T), DOMAIN Calls)
    BY <1>1, <1>2, <1>3, TablesFinite, OrderedRows
  <1> QED BY <1>4 DEF S, CallsFrom

LEMMA ImplementersRows ==
  ASSUME NEW db, Indexed3(db), NEW t, NEW names
  PROVE  Rowed(FindImplementers(db, t, names), Syms)
  <1> DEFINE Has1(i, n) == \E m \in MethodIDs(db, Sym[i].name) : Sym[m].pkg = Sym[i].pkg /\ Sym[m].name = n
             Cooccurs(i) == \E r \in db.refs : Refs[r].sym = t /\ Refs[r].file = Sym[i].file
             S == IF names = {} THEN {i \in db.syms : IsType(i) /\ Cooccurs(i)}
                  ELSE {i \in db.syms : IsType(i) /\ (\A n \in names : Has1(i, n))
                                     /\ ~(Sym[i].name = Sym[t].name /\ Sym[i].pkg = Sym[t].pkg)}
             base == [i \in S |-> <<Sym[i].file, Sym[i].name>>]
             key  == [i \in S |-> Append(base[i], i)]
  <1>1. S \subseteq Syms
    BY DEF Indexed3
  <1>2. FindImplementers(db, t, names) = Ordered(S, key)
    <2>1. key = [i \in S |-> Append(<<Sym[i].file, Sym[i].name>>, i)]
      OBVIOUS
    <2> QED BY <2>1 DEF FindImplementers, OrderBy
  <1> HIDE DEF S
  <1>3. base \in [S -> Seq(Int)] /\ \A i \in S : Len(base[i]) = 2
    <2> SUFFICES ASSUME NEW i \in S PROVE base[i] \in Seq(Int) /\ Len(base[i]) = 2
      OBVIOUS
    <2>1. Sym[i].file \in Int /\ Sym[i].name \in Int
      BY <1>1, SymTyped
    <2> QED BY <2>1
  <1> HIDE DEF base
  <1> QED BY <1>1, <1>2, <1>3, TablesFinite, OrderedRows

LEMMA FileRows ==
  ASSUME NEW db, Indexed3(db), NEW files
  PROVE  Rowed(FindSymbolsInFile(db, files), Syms)
  <1> DEFINE S    == {i \in db.syms : Sym[i].file \in files /\ Sym[i].kind # "field"}
             base == [i \in S |-> <<Sym[i].file, Sym[i].first>>]
             key  == [i \in S |-> Append(base[i], i)]
  <1>1. S \subseteq Syms
    BY DEF Indexed3
  <1>2. FindSymbolsInFile(db, files) = Ordered(S, key)
    <2>1. key = [i \in S |-> Append(<<Sym[i].file, Sym[i].first>>, i)]
      OBVIOUS
    <2> QED BY <2>1 DEF FindSymbolsInFile, OrderBy
  <1> HIDE DEF S
  <1>3. base \in [S -> Seq(Int)] /\ \A i \in S : Len(base[i]) = 2
    <2> SUFFICES ASSUME NEW i \in S PROVE base[i] \in Seq(Int) /\ Len(base[i]) = 2
      OBVIOUS
    <2>1. Sym[i].file \in Int /\ Sym[i].first \in Int
      BY <1>1, SymTyped
    <2> QED BY <2>1
  <1> HIDE DEF base
  <1> QED BY <1>1, <1>2, <1>3, TablesFinite, OrderedRows

LEMMA ImportedRows ==
  ASSUME NEW S, S \subseteq DOMAIN Imports
  PROVE  Rowed(Ordered(S, [i \in S |-> Append(<<Imports[i].file>>, i)]), DOMAIN Imports)
  <1> DEFINE base == [i \in S |-> <<Imports[i].file>>]
             key  == [i \in S |-> Append(base[i], i)]
  <1>1. key = [i \in S |-> Append(<<Imports[i].file>>, i)]
    OBVIOUS
  <1>2. base \in [S -> Seq(Int)] /\ \A i \in S : Len(base[i]) = 1
    <2> SUFFICES ASSUME NEW i \in S PROVE base[i] \in Seq(Int) /\ Len(base[i]) = 1
      OBVIOUS
    <2>1. Imports[i].file \in Int
      BY ImportTyped
    <2> QED BY <2>1
  <1> HIDE DEF base
  <1>3. Rowed(Ordered(S, key), DOMAIN Imports)
    BY <1>2, TablesFinite, OrderedRows
  <1> QED BY <1>1, <1>3

LEMMA ImportersRows ==
  ASSUME NEW db, NEW pat
  PROVE  Rowed(FindImporters(db, pat), DOMAIN Imports)
  <1>1. ASSUME NEW dir PROVE Rowed(FindImportersByDirectory(dir), DOMAIN Imports)
    <2> DEFINE S == {i \in DOMAIN Imports : Has(Imports[i].pkg, dir)}
    <2>1. FindImportersByDirectory(dir) = Ordered(S, [i \in S |-> Append(<<Imports[i].file>>, i)]) /\ S \subseteq DOMAIN Imports
      BY DEF FindImportersByDirectory, OrderBy
    <2> HIDE DEF S
    <2> QED BY <2>1, ImportedRows
  <1>2. ASSUME NEW dir PROVE Rowed(FindImportsByPackage(dir), DOMAIN Imports)
    <2> DEFINE S == {i \in DOMAIN Imports : Imports[i].pkg = dir \/ EndsIn(Imports[i].pkg, dir)}
    <2>1. FindImportsByPackage(dir) = Ordered(S, [i \in S |-> Append(<<Imports[i].file>>, i)]) /\ S \subseteq DOMAIN Imports
      BY DEF FindImportsByPackage, OrderBy
    <2> HIDE DEF S
    <2> QED BY <2>1, ImportedRows
  <1> QED BY <1>1, <1>2 DEF FindImporters

LEMMA ImportsRows ==
  ASSUME NEW file
  PROVE  /\ Rowed(FindImports(file), DOMAIN Imports)
         /\ \A i \in DOMAIN FindImports(file) : Imports[FindImports(file)[i]].file = file
  <1> DEFINE S    == {i \in DOMAIN Imports : Imports[i].file = file}
             base == [i \in S |-> <<i>>]
             key  == [i \in S |-> Append(base[i], i)]
  <1>1. FindImports(file) = Ordered(S, key)
    <2>1. key = [i \in S |-> Append(<<i>>, i)]
      OBVIOUS
    <2> QED BY <2>1 DEF FindImports, OrderBy
  <1>2. S \subseteq DOMAIN Imports /\ \A i \in S : Imports[i].file = file
    OBVIOUS
  <1> HIDE DEF S
  <1>3. base \in [S -> Seq(Int)] /\ \A i \in S : Len(base[i]) = 1
    <2>1. S \subseteq Int
      BY <1>2, TablesFinite
    <2> QED BY <2>1
  <1> HIDE DEF base
  <1> DEFINE rows == Ordered(S, key)
  <1>4. Each(rows, Cardinality(S), S) /\ Rowed(rows, DOMAIN Imports)
    BY <1>2, <1>3, TablesFinite, OrderedRows
  <1> HIDE DEF rows
  <1>5. \A i \in DOMAIN rows : rows[i] \in S
    BY <1>4 DEF Each, List
  <1> QED BY <1>1, <1>2, <1>4, <1>5 DEF rows

LEMMA LiteralRows ==
  ASSUME NEW value
  PROVE  Rowed(FindLiteralRefs(value), DOMAIN Lits)
  <1> DEFINE S    == {i \in DOMAIN Lits : Lits[i].value = value}
             base == [i \in S |-> <<Lits[i].file, Lits[i].line>>]
             key  == [i \in S |-> Append(base[i], i)]
  <1>1. FindLiteralRefs(value) = Ordered(S, key)
    <2>1. key = [i \in S |-> Append(<<Lits[i].file, Lits[i].line>>, i)]
      OBVIOUS
    <2> QED BY <2>1 DEF FindLiteralRefs, OrderBy
  <1>2. S \subseteq DOMAIN Lits
    OBVIOUS
  <1> HIDE DEF S
  <1>3. base \in [S -> Seq(Int)] /\ \A i \in S : Len(base[i]) = 2
    <2> SUFFICES ASSUME NEW i \in S PROVE base[i] \in Seq(Int) /\ Len(base[i]) = 2
      OBVIOUS
    <2>1. Lits[i].file \in Int /\ Lits[i].line \in Int
      BY <1>2, LitTyped
    <2> QED BY <2>1
  <1> HIDE DEF base
  <1> QED BY <1>1, <1>2, <1>3, TablesFinite, OrderedRows

\* The rows of a query for callers: the distance, the caller and the edges.
HopRows(db, T, direct, kept) ==
  LET near == Hop1(db, T, kept)
  IN near \cup (IF direct THEN {} ELSE {h \in Hop2(db, T, kept) : \A e \in near : e[2] # h[2]})

LEMMA HopsEach ==
  ASSUME NEW db, Indexed3(db), NEW T, NEW direct, NEW kept
  PROVE  LET rows == HopRows(db, T, direct, kept) IN Each(Hops(db, T, direct, kept), Cardinality(rows), rows)
  <1> DEFINE Hop  == {1, 2} \X Syms \X (DOMAIN Calls) \X (DOMAIN Calls)
             near == Hop1(db, T, kept)
             far  == {h \in Hop2(db, T, kept) : \A e \in near : e[2] # h[2]}
             rows == near \cup (IF direct THEN {} ELSE far)
             key  == [h \in rows |-> <<h[1], Sym[h[2]].file, Sym[h[2]].name, h[2], h[3], h[4]>>]
             N    == Cardinality(rows)
  <1>0. rows = HopRows(db, T, direct, kept)
    BY DEF HopRows
  <1>1. near \subseteq Hop
    <2> SUFFICES ASSUME NEW c \in db.calls PROVE <<1, Calls[c].from, c, c>> \in Hop
      BY DEF Hop1
    <2> QED BY CallTyped DEF Indexed3
  <1>2. Hop2(db, T, kept) \subseteq Hop
    <2> SUFFICES ASSUME NEW a \in db.calls, NEW c \in db.calls PROVE <<2, Calls[c].from, a, c>> \in Hop
      BY DEF Hop2
    <2> QED BY CallTyped DEF Indexed3
  <1>3. IsFiniteSet(rows)
    <2>1. IsFiniteSet(near) /\ IsFiniteSet(Hop2(db, T, kept))
      BY HopsFinite DEF Indexed3
    <2>2. IsFiniteSet(far)
      <3> HIDE DEF near
      <3> QED BY <2>1, FS_Subset
    <2> HIDE DEF near, far
    <2> QED BY <2>1, <2>2, FS_Union, FS_EmptySet
  <1>4. rows \subseteq Hop
    <2> HIDE DEF Hop, near
    <2> QED BY <1>1, <1>2
  <1>5. Hops(db, T, direct, kept) = Ordered(rows, key)
    BY DEF Hops
  <1> HIDE DEF rows
  <1>6. key \in [rows -> Seq(Int)] /\ \A h \in rows : Len(key[h]) = 6
    <2> SUFFICES ASSUME NEW h \in rows
                 PROVE  LET k == <<h[1], Sym[h[2]].file, Sym[h[2]].name, h[2], h[3], h[4]>> IN k \in Seq(Int) /\ Len(k) = 6
      OBVIOUS
    <2>1. h[1] \in Int /\ h[2] \in Syms /\ h[3] \in DOMAIN Calls /\ h[4] \in DOMAIN Calls
      BY <1>4
    <2>2. Sym[h[2]].file \in Int /\ Sym[h[2]].name \in Int
      BY <2>1, SymTyped
    <2>3. h[2] \in Int /\ h[3] \in Int /\ h[4] \in Int
      <3>1. Syms \subseteq Int /\ DOMAIN Calls \subseteq Int
        BY TablesFinite
      <3> QED BY ONLY <2>1, <3>1
    <2> QED BY <2>1, <2>2, <2>3
  <1>7. \A h, g \in rows : key[h] = key[g] => h = g
    <2> SUFFICES ASSUME NEW h \in rows, NEW g \in rows, key[h] = key[g] PROVE h = g
      OBVIOUS
    <2>1. h[1] = g[1] /\ h[2] = g[2] /\ h[3] = g[3] /\ h[4] = g[4]
      OBVIOUS
    <2>2. h \in Hop /\ g \in Hop
      BY <1>4
    <2> QED BY <2>1, <2>2
  <1> HIDE DEF key
  <1>8. Keyed(rows, key, 6)
    BY <1>3, <1>6, <1>7 DEF Keyed
  <1> DEFINE out == Ordered(rows, key)
  <1>9. Each(out, N, rows)
    BY <1>8, OrderedIsInOrder, InOrderEach
  <1> HIDE DEF out, N
  <1> QED BY <1>0, <1>5, <1>9 DEF out, N

LEMMA HopsRows ==
  ASSUME NEW db, Indexed3(db), NEW T, NEW direct, NEW kept
  PROVE  \E n \in Nat : List(Hops(db, T, direct, kept), n) /\ \A i \in 1..n : Hops(db, T, direct, kept)[i][2] \in Syms
  <1> DEFINE rows == HopRows(db, T, direct, kept)
             hops == Hops(db, T, direct, kept)
             n == Cardinality(rows)
  <1>1. Each(hops, n, rows)
    BY HopsEach
  <1>2. \A h \in rows : h[2] \in Syms
    <2>1. \A h \in Hop1(db, T, kept) : h[2] \in Syms
      BY CallTyped DEF Hop1, Indexed3
    <2>2. \A h \in Hop2(db, T, kept) : h[2] \in Syms
      <3> SUFFICES ASSUME NEW a \in db.calls, NEW c \in db.calls PROVE <<2, Calls[c].from, a, c>>[2] \in Syms
        BY DEF Hop2
      <3> QED BY CallTyped DEF Indexed3
    <2> QED BY <2>1, <2>2 DEF HopRows
  <1> HIDE DEF rows, hops, n
  <1>3. List(hops, n) /\ n \in Nat /\ \A i \in 1..n : hops[i] \in rows
    BY <1>1 DEF Each, List
  <1> QED BY <1>2, <1>3 DEF hops

LEMMA TestsRows ==
  ASSUME NEW db, Indexed3(db), NEW T, NEW direct
  PROVE  Rowed(FindTests(db, T, direct), Syms)
  <1> DEFINE kept == {i \in db.syms : IsTest(i)}
             hops == Hops(db, T, direct, kept)
             ids  == Ids(hops)
  <1>1. PICK n \in Nat : List(hops, n) /\ \A i \in 1..n : hops[i][2] \in Syms
    <2>1. kept \subseteq db.syms
      OBVIOUS
    <2> HIDE DEF kept
    <2> QED BY <2>1, HopsRows
  <1>2. FindTests(db, T, direct) = Once(ids)
    BY DEF FindTests
  <1> HIDE DEF hops
  <1>3. List(ids, n) /\ \A i \in 1..n : ids[i] \in Syms
    BY <1>1, ListLen DEF Ids, Column, List
  <1> HIDE DEF ids
  <1> DEFINE S == {ids[i] : i \in 1..n}
             m == Cardinality(S)
             once == Once(ids)
  <1>4. Each(once, m, S) /\ S \subseteq Syms
    BY <1>3, OnceIsEach
  <1> HIDE DEF S, m, once
  <1>5. m \in Nat /\ List(once, m) /\ \A i \in 1..m : once[i] \in Syms
    BY <1>4 DEF Each, List
  <1>6. Rowed(once, Syms)
    BY <1>5 DEF Rowed
  <1> QED BY <1>2, <1>6 DEF once

-----------------------------------------------------------------------------
(* Packages.                                                               *)

TierRows(db, pat, tier) == {i \in db.syms : /\ Matches(tier, Sym[i].pkg, pat) /\ Sym[i].name \in Exported
                                            /\ Sym[i].kind # "field" /\ Sym[i].file \notin LikeTest}
UsageKey(db, S) == [i \in S |-> Append(<<Most - Usage(db, i), Sym[i].name>>, i)]
Tiers(db, pat) == [tier \in 1..3 |-> Ordered(TierRows(db, pat, tier), UsageKey(db, TierRows(db, pat, tier)))]

LEMMA TierList ==
  ASSUME NEW db, Indexed3(db), NEW S, S \subseteq Syms
  PROVE  /\ \E n \in 0..Len(Sym) : List(Ordered(S, UsageKey(db, S)), n) /\ \A i \in 1..n : Ordered(S, UsageKey(db, S))[i] \in Syms
         /\ Each(Ordered(S, UsageKey(db, S)), Cardinality(S), S) /\ Cardinality(S) \in 0..Len(Sym)
  <1> DEFINE base == [i \in S |-> <<Most - Usage(db, i), Sym[i].name>>]
             key  == [i \in S |-> Append(base[i], i)]
  <1>1. UsageKey(db, S) = key
    BY DEF UsageKey
  <1>2. base \in [S -> Seq(Int)] /\ \A i \in S : Len(base[i]) = 2
    <2> SUFFICES ASSUME NEW i \in S PROVE base[i] \in Seq(Int) /\ Len(base[i]) = 2
      OBVIOUS
    <2>1. Sym[i].name \in Int
      BY SymTyped
    <2>2. Usage(db, i) \in Int
      <3> DEFINE A == {r \in db.refs : Refs[r].sym = i}
                 B == {c \in db.calls : Calls[c].to = i}
      <3>1. IsFiniteSet(A) /\ IsFiniteSet(B)
        <4>1. A \subseteq DOMAIN Refs /\ B \subseteq DOMAIN Calls
          BY DEF Indexed3
        <4> HIDE DEF A, B
        <4> QED BY <4>1, TablesFinite, FS_Subset
      <3>2. Usage(db, i) = Cardinality(A) + Cardinality(B)
        BY DEF Usage, CountCallers
      <3> HIDE DEF A, B
      <3> QED BY <3>1, <3>2, FS_CardinalityType
    <2>3. Most \in Int
      BY TablesAssumption DEF Most
    <2> HIDE DEF base
    <2>4. base[i] = <<Most - Usage(db, i), Sym[i].name>>
      BY DEF base
    <2>5. Most - Usage(db, i) \in Int
      BY <2>2, <2>3
    <2> QED BY <2>1, <2>4, <2>5
  <1> HIDE DEF base
  <1> DEFINE rows == Ordered(S, key)
             N == Cardinality(S)
  <1>3. Each(rows, N, S)
    BY <1>2, TablesFinite, OrderedRows
  <1>4. N <= Len(Sym)
    <2>1. Len(Sym) \in Nat /\ Syms = 1..Len(Sym)
      BY TablesAssumption DEF Syms
    <2>2. ASSUME NEW n \in Nat PROVE IsFiniteSet(1..n) /\ Cardinality(1..n) = n
      BY FS_Interval
    <2>3. IsFiniteSet(Syms) /\ Cardinality(Syms) = Len(Sym)
      BY <2>1, <2>2
    <2> HIDE DEF N
    <2>4. Cardinality(S) <= Cardinality(Syms)
      BY <2>3, FS_Subset
    <2> QED BY <2>3, <2>4 DEF N
  <1>5. Len(Sym) \in Nat
    BY TablesAssumption
  <1> HIDE DEF rows, N
  <1>6. N \in 0..Len(Sym) /\ List(rows, N) /\ \A i \in 1..N : rows[i] \in Syms
    BY <1>3, <1>4, <1>5 DEF Each, List
  <1> QED BY <1>1, <1>3, <1>6 DEF rows, N

\* The tier that answers does not depend on the limit.
LEMMA CascadeIsPage ==
  ASSUME NEW rows, NEW big \in Nat, NEW lim \in Nat \ {0}, NEW U,
         \A k \in 1..3 : \E n \in 0..big : List(rows[k], n) /\ \A i \in 1..n : rows[k][i] \in U
  PROVE  /\ Cascade(rows, lim, 0) = Page(Cascade(rows, big, 0), lim, 0)
         /\ Rowed(Cascade(rows, big, 0), U)
  <1>1. ASSUME NEW k \in 1..3
        PROVE  Page(rows[k], big, 0) = rows[k] /\ (Page(rows[k], lim, 0) = <<>> <=> rows[k] = <<>>) /\ Rowed(rows[k], U)
    <2>1. PICK n \in 0..big : List(rows[k], n) /\ \A i \in 1..n : rows[k][i] \in U
      OBVIOUS
    <2>2. (IF big < n THEN big ELSE n) = n /\ n \in Nat
      OBVIOUS
    <2>3. List(Page(rows[k], big, 0), n) /\ \A i \in 1..n : Page(rows[k], big, 0)[i] = rows[k][i]
      BY <2>1, <2>2, PageOfList
    <2>4. Page(rows[k], big, 0) = rows[k]
      BY <2>1, <2>3 DEF List
    <2>5. Page(rows[k], lim, 0) = <<>> <=> rows[k] = <<>>
      <3>1. List(rows[k], n) /\ lim \in Nat /\ lim > 0
        BY <2>1
      <3> QED BY ONLY <3>1, PageOfList
    <2> QED BY <2>1, <2>2, <2>4, <2>5 DEF Rowed
  <1>2. 1 \in 1..3 /\ 2 \in 1..3 /\ 3 \in 1..3
    OBVIOUS
  <1>3. Cascade(rows, big, 0) = IF rows[1] # <<>> THEN rows[1] ELSE IF rows[2] # <<>> THEN rows[2] ELSE rows[3]
    BY <1>1, <1>2 DEF Cascade
  <1>4. Cascade(rows, lim, 0) = IF rows[1] # <<>> THEN Page(rows[1], lim, 0)
                                ELSE IF rows[2] # <<>> THEN Page(rows[2], lim, 0) ELSE Page(rows[3], lim, 0)
    BY <1>1, <1>2 DEF Cascade
  <1> QED BY <1>1, <1>2, <1>3, <1>4

LEMMA PackageRows ==
  ASSUME NEW db, Indexed3(db), NEW pat, NEW lim \in Nat \ {0}
  PROVE  /\ FindPackageSymbolsByUsage(db, pat, lim, 0) = Page(FindPackageSymbolsByUsage(db, pat, Len(Sym), 0), lim, 0)
         /\ Rowed(FindPackageSymbolsByUsage(db, pat, Len(Sym), 0), Syms)
  <1>1. ASSUME NEW l PROVE FindPackageSymbolsByUsage(db, pat, l, 0) = Cascade(Tiers(db, pat), l, 0)
    BY DEF FindPackageSymbolsByUsage, Tiers, TierRows, UsageKey, OrderBy
  <1> DEFINE rows == Tiers(db, pat)
  <1>2. \A k \in 1..3 : \E n \in 0..Len(Sym) : List(rows[k], n) /\ \A i \in 1..n : rows[k][i] \in Syms
    <2> SUFFICES ASSUME NEW k \in 1..3 PROVE \E n \in 0..Len(Sym) : List(rows[k], n) /\ \A i \in 1..n : rows[k][i] \in Syms
      OBVIOUS
    <2> DEFINE S == TierRows(db, pat, k)
    <2>1. S \subseteq Syms
      BY DEF TierRows, Indexed3
    <2>2. rows[k] = Ordered(S, UsageKey(db, S))
      BY DEF Tiers
    <2> HIDE DEF S, rows
    <2> QED BY <2>1, <2>2, TierList
  <1>3. Len(Sym) \in Nat
    BY TablesAssumption
  <1> HIDE DEF rows
  <1>4. /\ Cascade(rows, lim, 0) = Page(Cascade(rows, Len(Sym), 0), lim, 0)
        /\ Rowed(Cascade(rows, Len(Sym), 0), Syms)
    BY <1>2, <1>3, CascadeIsPage
  <1> QED BY <1>1, <1>4 DEF rows

-----------------------------------------------------------------------------
(* A test that every row passes, or none.                                  *)

LEMMA InsertedAll == ASSUME NEW n \in Nat PROVE Inserted(1..n) = [i \in 1..n |-> i]
  <1> DEFINE S    == 1..n
             key  == [e \in S |-> Append(<<>>, e)]
             rank == [e \in S |-> Cardinality({x \in S : Before(key[x], key[e])}) + 1]
  <1>1. Inserted(S) = [i \in 1..Cardinality(S) |-> CHOOSE e \in S : rank[e] = i]
    BY DEF Inserted, OrderBy, Ordered
  <1>2. Cardinality(S) = n
    BY FS_Interval
  <1>3. ASSUME NEW e \in S PROVE rank[e] = e
    <2>1. ASSUME NEW x \in S PROVE Before(key[x], key[e]) <=> x < e
      <3>1. key[x] = <<x>> /\ key[e] = <<e>>
        OBVIOUS
      <3>2. Len(<<x>>) = 1 /\ <<x>>[1] = x /\ <<e>>[1] = e /\ 1..1 = {1} /\ 1..(1 - 1) = {}
        OBVIOUS
      <3>3. Before(<<x>>, <<e>>) <=> x < e
        BY <3>2 DEF Before
      <3> QED BY <3>1, <3>3
    <2>2. {x \in S : Before(key[x], key[e])} = 1..(e - 1)
      <3> HIDE DEF key
      <3> QED BY <2>1
    <2>3. e - 1 \in Nat
      OBVIOUS
    <2>4. ASSUME NEW m \in Nat PROVE Cardinality(1..m) = m
      BY FS_Interval
    <2>5. Cardinality({x \in S : Before(key[x], key[e])}) = e - 1
      BY <2>2, <2>3, <2>4
    <2>6. rank[e] = Cardinality({x \in S : Before(key[x], key[e])}) + 1
      OBVIOUS
    <2> HIDE DEF rank
    <2> QED BY <2>5, <2>6
  <1> HIDE DEF rank
  <1>4. \A i \in 1..n : (CHOOSE e \in S : rank[e] = i) = i
    BY <1>3
  <1> QED BY <1>1, <1>2, <1>4

LEMMA PartAll ==
  ASSUME NEW rows, NEW n, List(rows, n)
  PROVE  Part(rows, 1..n) = rows /\ Part(rows, {}) = <<>>
  <1>1. Inserted(1..n) = [i \in 1..n |-> i]
    BY InsertedAll DEF List
  <1>2. Part(rows, 1..n) = [i \in 1..n |-> rows[i]]
    BY <1>1 DEF Part
  <1>3. List(Part(rows, {}), Cardinality({}))
    BY PartList DEF List
  <1>4. Part(rows, {}) = <<>>
    BY <1>3, FS_EmptySet, ListLen
  <1> QED BY <1>2, <1>4 DEF List

LEMMA ScanIsPart ==
  ASSUME NEW rows, NEW n, List(rows, n)
  PROVE  scanImportRows(rows) = Part(rows, {k \in 1..n : Imports[rows[k]].file \notin Cached})
  <1>1. DOMAIN rows = 1..n
    BY ListLen
  <1> QED BY <1>1 DEF scanImportRows, Where, Column, Part

LEMMA ScanKeeps ==
  ASSUME NEW rows, NEW n, List(rows, n), \A k \in 1..n : Imports[rows[k]].file \notin Cached
  PROVE  scanImportRows(rows) = rows
  <1> DEFINE K == {k \in 1..n : Imports[rows[k]].file \notin Cached}
  <1>1. K = 1..n
    OBVIOUS
  <1>2. scanImportRows(rows) = Part(rows, K)
    BY ScanIsPart
  <1> HIDE DEF K
  <1> QED BY <1>1, <1>2, PartAll

LEMMA ScanDrops ==
  ASSUME NEW rows, NEW n, List(rows, n), \A k \in 1..n : Imports[rows[k]].file \in Cached
  PROVE  scanImportRows(rows) = <<>>
  <1> DEFINE K == {k \in 1..n : Imports[rows[k]].file \notin Cached}
  <1>1. K = {}
    OBVIOUS
  <1>2. scanImportRows(rows) = Part(rows, K)
    BY ScanIsPart
  <1> HIDE DEF K
  <1> QED BY <1>1, <1>2, PartAll

\* The first row of a package among the imports.
ByPackage(r) == CHOOSE i \in DOMAIN Imports : /\ Imports[i].by = Imports[r].by
                                              /\ \A j \in 1..(i - 1) : Imports[j].by # Imports[r].by

LEMMA ByPackageRow ==
  ASSUME NEW r \in DOMAIN Imports
  PROVE  ByPackage(r) \in DOMAIN Imports
  <1>1. Len(Imports) \in Nat /\ DOMAIN Imports = 1..Len(Imports)
    BY TablesAssumption
  <1> DEFINE S == {i \in DOMAIN Imports : Imports[i].by = Imports[r].by}
  <1>2. PICK i \in S : \A m \in S : i <= m
    <2>1. S \in SUBSET Nat /\ r \in S
      BY <1>1
    <2> HIDE DEF S
    <2> QED BY <2>1, LeastOfNats
  <1>3. \A j \in 1..(i - 1) : Imports[j].by # Imports[r].by
    <2> SUFFICES ASSUME NEW j \in 1..(i - 1), Imports[j].by = Imports[r].by PROVE FALSE
      OBVIOUS
    <2>1. j \in S /\ ~(i <= j)
      BY <1>1
    <2> QED BY <1>2, <2>1
  <1> QED BY <1>2, <1>3 DEF ByPackage

LEMMA ImportingOne == ASSUME NEW r PROVE Importing(<<r>>)[1] = ByPackage(r)
  <1> DEFINE one == <<ByPackage(r)>>
  <1>1. Importing(<<r>>) = Once(one)
    <2>1. Column(<<r>>, ByPackage) = one
      BY DEF Column
    <2> QED BY <2>1 DEF Importing, ByPackage, Column
  <1>2. List(one, 1)
    BY DEF List
  <1>3. {k \in DOMAIN one : \A j \in 1..(k - 1) : one[j] # one[k]} = 1..1
    BY <1>2
  <1>4. Once(one) = Part(one, 1..1)
    BY <1>3 DEF Once, Column, Part
  <1> HIDE DEF one
  <1>5. Once(one) = one
    BY <1>2, <1>4, PartAll
  <1> QED BY <1>1, <1>5 DEF one

\* The imports of a file are of the build cache all together or not at all.
LEMMA ScanImports ==
  ASSUME NEW file, NEW rows, NEW n, List(rows, n), \A k \in 1..n : Imports[rows[k]].file = file
  PROVE  scanImportRows(rows) = IF file \in Cached THEN <<>> ELSE rows
  <1>1. CASE file \in Cached
    BY <1>1, ScanDrops
  <1>2. CASE file \notin Cached
    BY <1>2, ScanKeeps
  <1> QED BY <1>1, <1>2

-----------------------------------------------------------------------------
(* The whole answer is a list.                                             *)

LEMMA NoRows == ASSUME NEW U PROVE List(<<>>, 0) /\ Rowed(<<>>, U)
  <1>1. List(<<>>, 0)
    BY DEF List
  <1> QED BY <1>1 DEF Rowed

LEMMA ColumnRows ==
  ASSUME NEW rows, NEW U, NEW V, Rowed(rows, U), NEW f, \A x \in U : f[x] \in V
  PROVE  Rowed([i \in DOMAIN rows |-> f[rows[i]]], V)
  <1>1. PICK n \in Nat : List(rows, n) /\ \A i \in 1..n : rows[i] \in U
    BY DEF Rowed
  <1> DEFINE col == [i \in DOMAIN rows |-> f[rows[i]]]
  <1>2. List(col, n) /\ \A i \in 1..n : col[i] = f[rows[i]]
    BY <1>1, ColumnList
  <1> HIDE DEF col
  <1>3. Rowed(col, V)
    BY <1>1, <1>2 DEF Rowed
  <1> QED BY <1>3 DEF col

\* The columns that answers are made of.
Froms == [c \in DOMAIN Calls |-> Calls[c].from]
Tos   == [c \in DOMAIN Calls |-> Calls[c].to]
Bys   == [r \in DOMAIN Imports |-> ByPackage(r)]

LEMMA ColumnFrom == ASSUME NEW rows, Rowed(rows, DOMAIN Calls)
                    PROVE  Column(rows, LAMBDA c : Calls[c].from) = [i \in DOMAIN rows |-> Froms[rows[i]]]
  BY ListLen DEF Column, Froms, Rowed
LEMMA ColumnTo == ASSUME NEW rows, Rowed(rows, DOMAIN Calls)
                  PROVE  Column(rows, LAMBDA c : Calls[c].to) = [i \in DOMAIN rows |-> Tos[rows[i]]]
  BY ListLen DEF Column, Tos, Rowed
LEMMA ColumnBy == ASSUME NEW rows, Rowed(rows, DOMAIN Imports)
                  PROVE  /\ Column(rows, LAMBDA r : Importing(<<r>>)[1]) = [i \in DOMAIN rows |-> Bys[rows[i]]]
                         /\ Importing(rows) = Once([i \in DOMAIN rows |-> Bys[rows[i]]])
  <1>1. \A i \in DOMAIN rows : rows[i] \in DOMAIN Imports
    BY ListLen DEF Rowed
  <1>2. Column(rows, LAMBDA r : Importing(<<r>>)[1]) = [i \in DOMAIN rows |-> Bys[rows[i]]]
    BY <1>1, ImportingOne DEF Column, Bys
  <1>3. Column(rows, ByPackage) = [i \in DOMAIN rows |-> Bys[rows[i]]]
    BY <1>1 DEF Column, Bys
  <1>4. Importing(rows) = Once(Column(rows, ByPackage))
    BY DEF Importing, ByPackage, Column
  <1> QED BY <1>2, <1>3, <1>4

LEMMA ColumnsTyped ==
  /\ \A c \in DOMAIN Calls : Froms[c] \in Syms /\ Tos[c] \in Syms
  /\ \A r \in DOMAIN Imports : Bys[r] \in DOMAIN Imports
  BY CallTyped, ByPackageRow DEF Froms, Tos, Bys

LEMMA RowedMore == ASSUME NEW rows, NEW U, NEW V, Rowed(rows, U), U \subseteq V PROVE Rowed(rows, V)
  BY DEF Rowed

\* The rows that a command answers with.
Universe(verb) == CASE verb = "refs" -> DOMAIN Refs
                    [] verb \in {"imports", "importers"} -> DOMAIN Imports
                    [] verb = "lits" -> DOMAIN Lits
                    [] OTHER -> Syms

LEMMA UnlimitedRows ==
  ASSUME NEW db, Indexed3(db), NEW verb \in Verbs, NEW t
  PROVE  Rowed(Unlimited(db, verb, t), Universe(verb))
  <1>1. CASE verb = "refs"
    BY <1>1, RefsRows DEF Unlimited, Universe
  <1>2. CASE verb = "callers"
    <2> DEFINE rows == FindCallers(db, {t})
    <2>1. Rowed(rows, DOMAIN Calls)
      BY CallersRows
    <2> HIDE DEF rows
    <2>2. Rowed([i \in DOMAIN rows |-> Froms[rows[i]]], Syms)
      BY <2>1, ColumnRows, ColumnsTyped
    <2>3. Unlimited(db, verb, t) = [i \in DOMAIN rows |-> Froms[rows[i]]]
      BY <1>2, <2>1, ColumnFrom DEF Unlimited, rows
    <2> QED BY <1>2, <2>2, <2>3 DEF Universe
  <1>3. CASE verb = "callees"
    <2> DEFINE rows == FindCallees(db, {t})
    <2>1. Rowed(rows, DOMAIN Calls)
      BY CalleesRows
    <2> HIDE DEF rows
    <2>2. Rowed([i \in DOMAIN rows |-> Tos[rows[i]]], Syms)
      BY <2>1, ColumnRows, ColumnsTyped
    <2>3. Unlimited(db, verb, t) = [i \in DOMAIN rows |-> Tos[rows[i]]]
      BY <1>3, <2>1, ColumnTo DEF Unlimited, rows
    <2> QED BY <1>3, <2>2, <2>3 DEF Universe
  <1>4. CASE verb = "tests"
    BY <1>4, TestsRows DEF Unlimited, Universe
  <1>5. CASE verb = "impl"
    BY <1>5, ImplementersRows DEF Unlimited, Universe
  <1>6. CASE verb = "imports"
    <2> DEFINE rows == FindImports(t)
    <2>1. PICK n \in Nat : List(rows, n) /\ (\A i \in 1..n : rows[i] \in DOMAIN Imports) /\ \A i \in 1..n : Imports[rows[i]].file = t
      BY ImportsRows, ListLen DEF Rowed
    <2> HIDE DEF rows
    <2>2. scanImportRows(rows) = IF t \in Cached THEN <<>> ELSE rows
      BY <2>1, ScanImports
    <2>3. Rowed(scanImportRows(rows), DOMAIN Imports)
      BY <2>1, <2>2, NoRows DEF Rowed
    <2>4. Unlimited(db, verb, t) = scanImportRows(rows)
      BY <1>6 DEF Unlimited, rows
    <2> QED BY <1>6, <2>3, <2>4 DEF Universe
  <1>7. CASE verb = "importers"
    <2> DEFINE rows == FindImporters(db, t)
    <2>1. Rowed(rows, DOMAIN Imports)
      BY ImportersRows
    <2> HIDE DEF rows
    <2>2. Rowed([i \in DOMAIN rows |-> Bys[rows[i]]], DOMAIN Imports)
      BY <2>1, ColumnRows, ColumnsTyped
    <2>3. Unlimited(db, verb, t) = [i \in DOMAIN rows |-> Bys[rows[i]]]
      <3>1. Unlimited(db, verb, t) = Column(rows, LAMBDA r : Importing(<<r>>)[1])
        BY <1>7 DEF Unlimited, rows
      <3> QED BY <2>1, <3>1, ColumnBy
    <2> QED BY <1>7, <2>2, <2>3 DEF Universe
  <1>8. CASE verb = "lits"
    BY <1>8, LiteralRows DEF Unlimited, Universe
  <1>9. CASE verb = "pkg"
    <2>1. 1 \in Nat \ {0}
      OBVIOUS
    <2> DEFINE pat == ResolvePkgPattern(db, t, Directory)
    <2>2. Rowed(FindPackageSymbolsByUsage(db, pat, Len(Sym), 0), Syms)
      <3> HIDE DEF pat
      <3> QED BY <2>1, PackageRows
    <2>3. Unlimited(db, verb, t) = FindPackageSymbolsByUsage(db, pat, Len(Sym), 0)
      BY <1>9 DEF Unlimited
    <2> QED BY <1>9, <2>2, <2>3 DEF Universe
  <1>10. CASE verb = "file"
    BY <1>10, FileRows DEF Unlimited, Universe
  <1>11. CASE verb \in {"exports", "impact"}
    BY <1>11, NoRows DEF Unlimited
  <1> QED BY <1>1, <1>2, <1>3, <1>4, <1>5, <1>6, <1>7, <1>8, <1>9, <1>10, <1>11 DEF Verbs, SymbolVerbs

-----------------------------------------------------------------------------
(* An answer without filter, selection and budget is a page of the whole.  *)

Values(rows) == {rows[i] : i \in DOMAIN rows}

LEMMA Values1 == ASSUME NEW rows, NEW n, List(rows, n) PROVE Values(rows) = {rows[i] : i \in 1..n} /\ Range(rows) = Values(rows)
  BY ListLen DEF Values, Range

LEMMA PageValues ==
  ASSUME NEW rows, NEW n, List(rows, n), NEW limit \in Nat, NEW off \in Nat
  PROVE  /\ List(Page(rows, limit, off), Held(n, limit, off))
         /\ Values(Page(rows, limit, off)) = Slice(rows, n, limit, off)
  <1> DEFINE m == Held(n, limit, off)
             page == Page(rows, limit, off)
  <1>1. List(page, m) /\ \A i \in 1..m : page[i] = rows[off + i]
    BY PageAt
  <1>2. Values(page) = {page[i] : i \in 1..m}
    <2> HIDE DEF page, m
    <2> QED BY <1>1, Values1
  <1> HIDE DEF page
  <1>3. {page[i] : i \in 1..m} = {rows[off + i] : i \in 1..m}
    BY <1>1
  <1> QED BY <1>1, <1>2, <1>3 DEF Slice, page

LEMMA PageRows ==
  ASSUME NEW rows, NEW U, Rowed(rows, U), NEW limit \in Nat, NEW off \in Nat
  PROVE  Rowed(Page(rows, limit, off), U)
  <1>1. PICK n \in Nat : List(rows, n) /\ \A i \in 1..n : rows[i] \in U
    BY DEF Rowed
  <1> DEFINE m == Held(n, limit, off)
             page == Page(rows, limit, off)
  <1>2. List(page, m) /\ \A i \in 1..m : page[i] = rows[off + i]
    BY <1>1, PageAt
  <1>3. m \in Nat /\ \A i \in 1..m : off + i \in 1..n
    BY <1>1 DEF Held
  <1> HIDE DEF m, page
  <1>4. Rowed(page, U)
    BY <1>1, <1>2, <1>3 DEF Rowed
  <1> QED BY <1>4 DEF page

\* A page of a column is the column of the page.
LEMMA PageOfColumn ==
  ASSUME NEW rows, NEW n, List(rows, n), NEW limit \in Nat, NEW off \in Nat, NEW f
  PROVE  LET col == [i \in DOMAIN rows |-> f[rows[i]]]
             page == Page(rows, limit, off)
         IN Page(col, limit, off) = [i \in DOMAIN page |-> f[page[i]]]
  <1> DEFINE m == Held(n, limit, off)
             col == [i \in DOMAIN rows |-> f[rows[i]]]
             page == Page(rows, limit, off)
             cut == Page(col, limit, off)
  <1>1. List(page, m) /\ \A i \in 1..m : page[i] = rows[off + i]
    BY PageAt
  <1>2. List(col, n) /\ \A i \in 1..n : col[i] = f[rows[i]]
    BY ColumnList
  <1> HIDE DEF col
  <1>3. List(cut, m) /\ \A i \in 1..m : cut[i] = col[off + i]
    BY <1>2, PageAt
  <1>4. \A i \in 1..m : off + i \in 1..n
    BY DEF Held, List
  <1> HIDE DEF page, cut, m
  <1>5. DOMAIN page = 1..m
    BY <1>1, ListLen
  <1>6. \A i \in 1..m : cut[i] = f[page[i]]
    BY <1>1, <1>2, <1>3, <1>4
  <1>7. cut = [i \in DOMAIN page |-> f[page[i]]]
    BY <1>3, <1>5, <1>6 DEF List
  <1> QED BY <1>7 DEF cut, page, col

Plain(q) == q.sel = "all" /\ q.room = 0 /\ q.keep = ""

LEMMA BudgetedPlain ==
  ASSUME NEW q, Plain(q), NEW rows, NEW n, List(rows, n)
  PROVE  LET a == Budgeted(q, rows) IN a.shown = rows /\ a.total = n /\ (a.truncated <=> n >= q.lim)
  <1>1. Len(rows) = n
    BY ListLen
  <1> QED BY <1>1 DEF Budgeted, TruncateToTokenBudget, Meta, Plain

LEMMA RankedPlain ==
  ASSUME NEW q, Plain(q), NEW rows, NEW n, List(rows, n), NEW name, \A i \in 1..n : ScoreResult(q.verb, rows[i], name) \in Int
  PROVE  LET a == Ranked(q, rows, name)
         IN /\ List(a.shown, n) /\ Values(a.shown) = Values(rows) /\ a.total = n /\ (a.truncated <=> n >= q.lim)
  <1> DEFINE out == ScoreAndSort(q.verb, rows, name)
  <1>1. List(out, n) /\ {out[i] : i \in 1..n} = {rows[i] : i \in 1..n}
    <2>1. HaveScores(q.verb, rows, n, name)
      BY DEF HaveScores
    <2> DEFINE verb == q.verb
    <2> HIDE DEF verb
    <2>2. List(rows, n) /\ HaveScores(verb, rows, n, name)
      BY <2>1 DEF verb
    <2>3. /\ List(ScoreAndSort(verb, rows, name), n)
          /\ {ScoreAndSort(verb, rows, name)[i] : i \in 1..n} = {rows[i] : i \in 1..n}
      BY ONLY <2>2, RankedIsPermuted
    <2> QED BY <2>3 DEF verb
  <1> HIDE DEF out
  <1>2. ApplySelection(out, q.sel) = out
    <2>1. q.sel \notin DOMAIN Selects
      BY DEF Selects, Plain
    <2> QED BY <2>1 DEF ApplySelection
  <1>3. Ranked(q, rows, name) = Budgeted(q, out)
    BY <1>2 DEF Ranked, out
  <1>4. Values(out) = Values(rows)
    BY <1>1, Values1
  <1> QED BY <1>1, <1>3, <1>4, BudgetedPlain

LEMMA ScopedPlain ==
  ASSUME NEW q, Plain(q), NEW rows, NEW n, List(rows, n), \A i \in 1..n : ScoreResult(q.verb, rows[i], 0) \in Int
  PROVE  LET a == ScopedMeta(q, rows) IN List(a.shown, n) /\ Values(a.shown) = Values(rows)
  <1> DEFINE out == ScoreAndSort(q.verb, rows, 0)
  <1>1. List(out, n) /\ {out[i] : i \in 1..n} = {rows[i] : i \in 1..n}
    <2>1. HaveScores(q.verb, rows, n, 0)
      BY DEF HaveScores
    <2> QED BY ONLY List(rows, n), <2>1, RankedIsPermuted
  <1> HIDE DEF out
  <1>2. ApplySelection(out, q.sel) = out
    <2>1. q.sel \notin DOMAIN Selects
      BY DEF Selects, Plain
    <2> QED BY <2>1 DEF ApplySelection
  <1>3. ScopedMeta(q, rows).shown = out
    BY <1>2 DEF ScopedMeta, TruncateToTokenBudget, Plain, out
  <1>4. Values(out) = Values(rows)
    BY <1>1, Values1
  <1> QED BY <1>1, <1>3, <1>4

LEMMA Scored ==
  ASSUME NEW verb, verb # "imports", verb # "lits", NEW rows, Rowed(rows, Universe(verb)), NEW name
  PROVE  \A i \in DOMAIN rows : ScoreResult(verb, rows[i], name) \in Int
  <1> SUFFICES ASSUME NEW i \in DOMAIN rows PROVE ScoreResult(verb, rows[i], name) \in Int
    OBVIOUS
  <1>0. rows[i] \in Universe(verb)
    BY ListLen DEF Rowed
  <1>1. CASE verb = "refs"
    <2>1. Refs[rows[i]].file \in Int
      BY <1>0, <1>1, RefTyped DEF Universe
    <2>2. (IF Sym[Refs[rows[i]].sym].name = name THEN 100 ELSE 0) \in Int
      OBVIOUS
    <2> QED BY <1>1, <2>1, <2>2 DEF ScoreResult
  <1>2. CASE verb = "importers"
    <2>1. Imports[rows[i]].file \in Int
      BY <1>0, <1>2, ImportTyped DEF Universe
    <2> QED BY <1>2, <2>1 DEF ScoreResult
  <1>3. CASE verb \notin {"refs", "importers"}
    <2>1. Sym[rows[i]].file \in Int
      BY <1>0, <1>3, SymTyped DEF Universe
    <2>2. /\ (IF Sym[rows[i]].name = name THEN 100 ELSE 0) \in Int
          /\ (IF Sym[rows[i]].kind # "field" THEN 30 ELSE 0) \in Int
          /\ (IF Sym[rows[i]].name \in Exported THEN 20 ELSE 0) \in Int
      OBVIOUS
    <2> QED BY <1>3, <2>1, <2>2 DEF ScoreResult
  <1> QED BY <1>1, <1>2, <1>3

\* The commands that say how much they have.
PagedVerb(q, off) == q.verb \in {"refs", "tests", "impl", "imports"} \/ (q.verb = "pkg" /\ off = 0)

LEMMA ListedIsPage ==
  ASSUME NEW db, Indexed3(db), NEW q, Plain(q), q.lim \in Nat \ {0}, NEW t, NEW off \in Nat, PagedVerb(q, off)
  PROVE  Listed(db, q, t, off) = Page(Unlimited(db, q.verb, t), q.lim, off)
  <1>1. CASE q.verb = "refs"
    BY <1>1 DEF Listed, runRefs, Kept, Unlimited, Plain
  <1>2. CASE q.verb = "tests"
    BY <1>2 DEF Listed, runTests, Unlimited
  <1>3. CASE q.verb = "impl"
    BY <1>3 DEF Listed, runImpl, Unlimited
  <1>4. CASE q.verb = "imports"
    <2> DEFINE rows == FindImports(t)
               page == Page(rows, q.lim, off)
    <2>1. PICK n \in Nat : List(rows, n) /\ \A i \in 1..n : Imports[rows[i]].file = t
      BY ImportsRows, ListLen DEF Rowed
    <2> HIDE DEF rows
    <2> DEFINE m == Held(n, q.lim, off)
    <2>2. List(page, m) /\ \A i \in 1..m : page[i] = rows[off + i]
      BY <2>1, PageAt
    <2>3. \A i \in 1..m : off + i \in 1..n
      BY <2>1 DEF Held
    <2> HIDE DEF page, m
    <2>4. scanImportRows(rows) = IF t \in Cached THEN <<>> ELSE rows
      BY <2>1, ScanImports
    <2>5. scanImportRows(page) = IF t \in Cached THEN <<>> ELSE page
      BY <2>1, <2>2, <2>3, ScanImports
    <2>6. Page(<<>>, q.lim, off) = <<>>
      <3>1. List(Page(<<>>, q.lim, off), Held(0, q.lim, off))
        BY NoRows, PageAt
      <3>2. Held(0, q.lim, off) = 0
        BY DEF Held
      <3> QED BY <3>1, <3>2, ListLen
    <2>7. /\ Listed(db, q, t, off) = scanImportRows(page)
          /\ Unlimited(db, q.verb, t) = scanImportRows(rows)
      BY <1>4 DEF Listed, runImports, Unlimited, rows, page
    <2> QED BY <2>4, <2>5, <2>6, <2>7 DEF page
  <1>5. CASE q.verb = "pkg" /\ off = 0
    <2> DEFINE pat == ResolvePkgPattern(db, t, Directory)
    <2>1. /\ Listed(db, q, t, off) = FindPackageSymbolsByUsage(db, pat, q.lim, 0)
          /\ Unlimited(db, q.verb, t) = FindPackageSymbolsByUsage(db, pat, Len(Sym), 0)
      BY <1>5 DEF Listed, runPkg, Unlimited
    <2> HIDE DEF pat
    <2> QED BY <1>5, <2>1, PackageRows
  <1> QED BY <1>1, <1>2, <1>3, <1>4, <1>5 DEF PagedVerb

LEMMA PagedAnswer ==
  ASSUME NEW db, Indexed3(db), NEW q, Plain(q), q.lim \in Nat \ {0}, NEW t, NEW off \in Nat, PagedVerb(q, off),
         NEW n, List(Unlimited(db, q.verb, t), n)
  PROVE  LET a == Answer(db, q, t, off)
             m == Held(n, q.lim, off)
         IN /\ List(a.shown, m) /\ Values(a.shown) = Slice(Unlimited(db, q.verb, t), n, q.lim, off)
            /\ a.total = m /\ (a.truncated <=> m >= q.lim)
  <1> DEFINE entire == Unlimited(db, q.verb, t)
             page == Listed(db, q, t, off)
             m == Held(n, q.lim, off)
  <1>1. q.verb \in Verbs
    BY DEF PagedVerb, Verbs, SymbolVerbs
  <1>2. Rowed(entire, Universe(q.verb))
    BY <1>1, UnlimitedRows
  <1>3. page = Page(entire, q.lim, off)
    BY ListedIsPage
  <1>4. List(page, m) /\ Values(page) = Slice(entire, n, q.lim, off)
    BY <1>3, PageValues
  <1>5. Rowed(page, Universe(q.verb))
    BY <1>2, <1>3, PageRows
  <1>6. CASE q.verb \in {"refs", "tests", "impl"}
    <2> DEFINE name == AskedName(q, t)
    <2>1. Answer(db, q, t, off) = Ranked(q, page, name)
      BY <1>6 DEF Answer
    <2> HIDE DEF page, m, entire, name
    <2>2. \A i \in DOMAIN page : ScoreResult(q.verb, page[i], name) \in Int
      BY <1>5, <1>6, Scored
    <2>3. \A i \in 1..m : ScoreResult(q.verb, page[i], name) \in Int
      BY <1>4, <2>2, ListLen
    <2> QED BY <1>4, <2>1, <2>3, RankedPlain DEF m, entire
  <1>7. CASE q.verb \in {"imports", "pkg"}
    <2>1. Answer(db, q, t, off) = Budgeted(q, page)
      BY <1>7 DEF Answer
    <2> HIDE DEF page, m, entire
    <2> QED BY <1>4, <2>1, BudgetedPlain DEF m, entire
  <1> QED BY <1>6, <1>7 DEF PagedVerb

LEMMA MetaFields ==
  ASSUME NEW a, NEW x, NEW y, NEW z, a = [shown |-> x, total |-> y, truncated |-> z]
  PROVE  a.shown = x /\ a.total = y /\ a.truncated = z
  OBVIOUS

LEMMA LiteralAnswer ==
  ASSUME NEW db, NEW q, q.verb = "lits", q.lim \in Nat \ {0}, NEW t, NEW off \in Nat,
         NEW n, List(Unlimited(db, q.verb, t), n)
  PROVE  LET a == Answer(db, q, t, off)
             m == Held(n, q.lim, off)
         IN /\ List(a.shown, m) /\ Values(a.shown) = Slice(Unlimited(db, q.verb, t), n, q.lim, off)
            /\ a.total = n /\ (a.truncated <=> m < n)
  <1> DEFINE found == FindLiteralRefs(t)
             page == Page(found, q.lim, off)
             m == Held(n, q.lim, off)
  <1>1. /\ Unlimited(db, q.verb, t) = found
        /\ Answer(db, q, t, off) = [shown |-> page, total |-> Len(found), truncated |-> Len(page) < Len(found)]
    BY DEF Unlimited, Answer, runLits
  <1> HIDE DEF found
  <1>2. List(found, n) /\ Len(found) = n
    BY <1>1, ListLen
  <1>3. List(page, m) /\ Values(page) = Slice(found, n, q.lim, off)
    BY <1>2, PageValues
  <1>4. Len(page) = m
    BY <1>3, ListLen
  <1>5. Answer(db, q, t, off).total = n /\ (Answer(db, q, t, off).truncated <=> m < n) /\ Answer(db, q, t, off).shown = page
    <2> HIDE DEF page, m
    <2> DEFINE a == Answer(db, q, t, off)
    <2>1. a = [shown |-> page, total |-> n, truncated |-> m < n]
      BY <1>1, <1>2, <1>4, Zenon
    <2> HIDE DEF a
    <2>2. a.shown = page /\ a.total = n /\ a.truncated = (m < n)
      BY ONLY <2>1, MetaFields
    <2>3. a.truncated <=> m < n
      BY <2>2, Zenon
    <2> QED BY <2>2, <2>3 DEF a
  <1> QED BY <1>1, <1>3, <1>5

LEMMA OnceValues ==
  ASSUME NEW rows, NEW U, Rowed(rows, U)
  PROVE  Rowed(Once(rows), U) /\ Values(Once(rows)) = Values(rows)
  <1>1. PICK n \in Nat : List(rows, n) /\ \A i \in 1..n : rows[i] \in U
    BY DEF Rowed
  <1> DEFINE S == {rows[i] : i \in 1..n}
             once == Once(rows)
             m == Cardinality(S)
  <1>2. Each(once, m, S)
    BY <1>1, OnceIsEach
  <1>3. Values(rows) = S /\ S \subseteq U
    BY <1>1, Values1
  <1> HIDE DEF S, m, once
  <1>4. List(once, m) /\ m \in Nat /\ {once[i] : i \in 1..m} = S
    BY <1>2 DEF Each, List
  <1>5. Values(once) = S
    BY <1>4, Values1
  <1>6. \A i \in 1..m : once[i] \in U
    BY <1>3, <1>4
  <1>7. Rowed(once, U)
    BY <1>4, <1>6 DEF Rowed
  <1> QED BY <1>3, <1>5, <1>7 DEF once

LEMMA RowedValues ==
  ASSUME NEW rows, NEW U
  PROVE  /\ Rowed(rows, U) => \E n \in Nat : List(rows, n) /\ Values(rows) \subseteq U
         /\ \A n \in Nat : List(rows, n) /\ Values(rows) \subseteq U => Rowed(rows, U)
  BY Values1 DEF Rowed

\* What the commands that repeat rows list, and def --file.
Strides(db, q, t) == \/ q.verb \in {"callers", "callees", "file"}
                     \/ q.verb = "importers" /\ \A r \in Range(FindImporters(db, t)) : Imports[r].file \notin Cached

\* The values of a page of a column, once each.
LEMMA OnceOfColumn ==
  ASSUME NEW rows, NEW n, List(rows, n), NEW U, Rowed(rows, U), NEW V, NEW f, \A x \in U : f[x] \in V,
         NEW limit \in Nat, NEW off \in Nat
  PROVE  LET page == Page(rows, limit, off)
             col  == [i \in DOMAIN rows |-> f[rows[i]]]
             once == Once([i \in DOMAIN page |-> f[page[i]]])
         IN Rowed(once, V) /\ Values(once) = Slice(col, n, limit, off) /\ List(col, n)
  <1> DEFINE page == Page(rows, limit, off)
             col  == [i \in DOMAIN rows |-> f[rows[i]]]
             cut  == [i \in DOMAIN page |-> f[page[i]]]
  <1>1. Page(col, limit, off) = cut
    BY PageOfColumn
  <1>2. List(col, n)
    BY ColumnList
  <1>3. Rowed(page, U)
    BY PageRows
  <1>4. Rowed(cut, V)
    <2> HIDE DEF page
    <2> QED BY <1>3, ColumnRows
  <1> HIDE DEF col, cut
  <1>5. Values(cut) = Slice(col, n, limit, off)
    BY <1>1, <1>2, PageValues
  <1>6. Rowed(Once(cut), V) /\ Values(Once(cut)) = Values(cut)
    BY <1>4, OnceValues
  <1> QED BY <1>2, <1>5, <1>6 DEF cut, col, page

LEMMA ScanPage ==
  ASSUME NEW rows, NEW n, List(rows, n), \A i \in 1..n : Imports[rows[i]].file \notin Cached,
         NEW limit \in Nat, NEW off \in Nat
  PROVE  scanImportRows(Page(rows, limit, off)) = Page(rows, limit, off)
  <1> DEFINE k == Held(n, limit, off)
             page == Page(rows, limit, off)
  <1>1. List(page, k) /\ \A i \in 1..k : page[i] = rows[off + i]
    BY PageAt
  <1>2. \A i \in 1..k : off + i \in 1..n
    BY DEF Held, List
  <1> HIDE DEF page, k
  <1>3. scanImportRows(page) = page
    BY <1>1, <1>2, ScanKeeps
  <1> QED BY <1>3 DEF page

\* What an importer is listed for.
LEMMA ImportersListed ==
  ASSUME NEW rows, NEW n, List(rows, n), Rowed(rows, DOMAIN Imports), \A r \in Range(rows) : Imports[r].file \notin Cached,
         NEW limit \in Nat, NEW off \in Nat
  PROVE  LET listed == Importing(scanImportRows(Page(rows, limit, off)))
             col == Column(rows, LAMBDA r : Importing(<<r>>)[1])
         IN Rowed(listed, DOMAIN Imports) /\ Values(listed) = Slice(col, n, limit, off) /\ List(col, n)
  <1> DEFINE page == Page(rows, limit, off)
             col  == [i \in DOMAIN rows |-> Bys[rows[i]]]
             once == Once([i \in DOMAIN page |-> Bys[page[i]]])
  <1>1. Column(rows, LAMBDA r : Importing(<<r>>)[1]) = col
    BY ColumnBy
  <1>2. scanImportRows(page) = page
    <2>1. \A i \in 1..n : Imports[rows[i]].file \notin Cached
      BY Values1
    <2> QED BY <2>1, ScanPage
  <1>3. Importing(page) = once
    <2>1. Rowed(page, DOMAIN Imports)
      BY PageRows
    <2> HIDE DEF page
    <2> QED BY <2>1, ColumnBy DEF page
  <1>4. \A r \in DOMAIN Imports : Bys[r] \in DOMAIN Imports
    BY ColumnsTyped
  <1>5. Rowed(once, DOMAIN Imports) /\ Values(once) = Slice(col, n, limit, off) /\ List(col, n)
    BY <1>4, OnceOfColumn
  <1> HIDE DEF page, once, col
  <1> QED BY <1>1, <1>2, <1>3, <1>5 DEF page

LEMMA StrideListed ==
  ASSUME NEW db, Indexed3(db), NEW q, q.lim \in Nat \ {0}, NEW t, NEW off \in Nat, Strides(db, q, t),
         NEW n, List(Unlimited(db, q.verb, t), n)
  PROVE  /\ Rowed(Listed(db, q, t, off), Universe(q.verb))
         /\ Values(Listed(db, q, t, off)) = Slice(Unlimited(db, q.verb, t), n, q.lim, off)
  <1>1. CASE q.verb = "callers"
    <2> DEFINE rows == FindCallers(db, {t})
               page == Page(rows, q.lim, off)
               col  == [i \in DOMAIN rows |-> Froms[rows[i]]]
    <2>1. Rowed(rows, DOMAIN Calls)
      BY CallersRows
    <2> HIDE DEF rows
    <2>2. PICK m \in Nat : List(rows, m)
      BY <2>1 DEF Rowed
    <2>3. Rowed(page, DOMAIN Calls)
      BY <2>1, PageRows
    <2>4. Unlimited(db, q.verb, t) = col
      BY <1>1, <2>1, ColumnFrom DEF Unlimited, rows
    <2>5. Listed(db, q, t, off) = Once([i \in DOMAIN page |-> Froms[page[i]]])
      <3>1. Listed(db, q, t, off) = Once(Column(page, LAMBDA c : Calls[c].from))
        BY <1>1 DEF Listed, runCallers, Callers, rows
      <3> HIDE DEF page
      <3> QED BY <2>3, <3>1, ColumnFrom
    <2>6. n = m
      BY <2>2, <2>4, ColumnList, ListLen
    <2>7. \A c \in DOMAIN Calls : Froms[c] \in Syms
      BY ColumnsTyped
    <2>8. Universe(q.verb) = Syms
      BY <1>1 DEF Universe
    <2> DEFINE once == Once([i \in DOMAIN page |-> Froms[page[i]]])
    <2>9. Rowed(once, Syms) /\ Values(once) = Slice(col, m, q.lim, off)
      BY <2>1, <2>2, <2>7, OnceOfColumn
    <2> HIDE DEF once, col
    <2> QED BY <2>4, <2>5, <2>6, <2>8, <2>9 DEF once
  <1>2. CASE q.verb = "callees"
    <2> DEFINE rows == FindCallees(db, {t})
               page == Page(rows, q.lim, off)
               col  == [i \in DOMAIN rows |-> Tos[rows[i]]]
    <2>1. Rowed(rows, DOMAIN Calls)
      BY CalleesRows
    <2> HIDE DEF rows
    <2>2. PICK m \in Nat : List(rows, m)
      BY <2>1 DEF Rowed
    <2>3. Rowed(page, DOMAIN Calls)
      BY <2>1, PageRows
    <2>4. Unlimited(db, q.verb, t) = col
      BY <1>2, <2>1, ColumnTo DEF Unlimited, rows
    <2>5. Listed(db, q, t, off) = Once([i \in DOMAIN page |-> Tos[page[i]]])
      <3>1. Listed(db, q, t, off) = Once(Column(page, LAMBDA c : Calls[c].to))
        BY <1>2 DEF Listed, runCallees, Callees, rows
      <3> HIDE DEF page
      <3> QED BY <2>3, <3>1, ColumnTo
    <2>6. n = m
      BY <2>2, <2>4, ColumnList, ListLen
    <2>7. \A c \in DOMAIN Calls : Tos[c] \in Syms
      BY ColumnsTyped
    <2>8. Universe(q.verb) = Syms
      BY <1>2 DEF Universe
    <2> DEFINE once == Once([i \in DOMAIN page |-> Tos[page[i]]])
    <2>9. Rowed(once, Syms) /\ Values(once) = Slice(col, m, q.lim, off)
      BY <2>1, <2>2, <2>7, OnceOfColumn
    <2> HIDE DEF once, col
    <2> QED BY <2>4, <2>5, <2>6, <2>8, <2>9 DEF once
  <1>3. CASE q.verb = "importers" /\ \A r \in Range(FindImporters(db, t)) : Imports[r].file \notin Cached
    <2> DEFINE rows == FindImporters(db, t)
               listed == Importing(scanImportRows(Page(rows, q.lim, off)))
               col == Column(rows, LAMBDA r : Importing(<<r>>)[1])
    <2>1. Rowed(rows, DOMAIN Imports) /\ \A r \in Range(rows) : Imports[r].file \notin Cached
      BY <1>3, ImportersRows
    <2>2. Unlimited(db, q.verb, t) = col /\ Listed(db, q, t, off) = listed /\ Universe(q.verb) = DOMAIN Imports
      BY <1>3 DEF Unlimited, Listed, runImporters, Universe
    <2> HIDE DEF rows
    <2>3. PICK m \in Nat : List(rows, m)
      BY <2>1 DEF Rowed
    <2>4. Rowed(listed, DOMAIN Imports) /\ Values(listed) = Slice(col, m, q.lim, off) /\ List(col, m)
      BY <2>1, <2>3, ImportersListed
    <2> HIDE DEF listed, col
    <2>5. n = m
      BY <2>2, <2>4, ListLen
    <2> QED BY <2>2, <2>4, <2>5
  <1>4. CASE q.verb = "file"
    <2> DEFINE rows == FindSymbolsInFile(db, t)
    <2>1. Rowed(rows, Syms)
      BY FileRows
    <2>2. Unlimited(db, q.verb, t) = rows /\ Listed(db, q, t, off) = Page(rows, q.lim, off) /\ Universe(q.verb) = Syms
      BY <1>4 DEF Unlimited, Listed, runDefScoped, Universe
    <2> HIDE DEF rows
    <2> QED BY <2>1, <2>2, PageRows, PageValues
  <1> QED BY <1>1, <1>2, <1>3, <1>4 DEF Strides

LEMMA StrideAnswer ==
  ASSUME NEW db, Indexed3(db), NEW q, Plain(q), q.lim \in Nat \ {0}, NEW t, NEW off \in Nat, Strides(db, q, t),
         NEW n, List(Unlimited(db, q.verb, t), n)
  PROVE  LET a == Answer(db, q, t, off)
         IN /\ \E m \in Nat : List(a.shown, m)
            /\ Values(a.shown) = Slice(Unlimited(db, q.verb, t), n, q.lim, off)
  <1> DEFINE rows == Listed(db, q, t, off)
             part == Slice(Unlimited(db, q.verb, t), n, q.lim, off)
             verb == q.verb
  <1>1. Rowed(rows, Universe(verb)) /\ Values(rows) = part
    BY StrideListed
  <1>2. PICK m \in Nat : List(rows, m)
    BY <1>1 DEF Rowed
  <1>3. verb \in {"callers", "callees", "file", "importers"}
    BY DEF Strides
  <1>4. ASSUME NEW name PROVE \A i \in 1..m : ScoreResult(verb, rows[i], name) \in Int
    <2> HIDE DEF rows, verb
    <2> QED BY <1>1, <1>2, <1>3, Scored, ListLen
  <1>5. CASE verb = "file"
    <2>1. Answer(db, q, t, off) = ScopedMeta(q, rows)
      BY <1>5 DEF Answer
    <2> HIDE DEF rows, part
    <2> QED BY <1>1, <1>2, <1>4, <2>1, ScopedPlain DEF part
  <1>6. CASE verb # "file"
    <2> DEFINE name == AskedName(q, t)
    <2>1. Answer(db, q, t, off) = Ranked(q, rows, name)
      BY <1>3, <1>6 DEF Answer
    <2> HIDE DEF rows, part, name
    <2> QED BY <1>1, <1>2, <1>4, <2>1, RankedPlain DEF part
  <1> QED BY <1>5, <1>6

-----------------------------------------------------------------------------
(* The text of an answer that hides nothing has all of it.                 *)

LEMMA PartValues ==
  ASSUME NEW rows, NEW n \in Nat, List(rows, n), NEW K \in SUBSET (1..n)
  PROVE  List(Part(rows, K), Cardinality(K)) /\ Values(Part(rows, K)) = {rows[k] : k \in K}
  <1> DEFINE at == Inserted(K)
             m  == Cardinality(K)
             part == Part(rows, K)
  <1>1. Each(at, m, K)
    <2>1. IsFiniteSet(1..n)
      BY FS_Interval
    <2>2. IsFiniteSet(K)
      BY <2>1, FS_Subset
    <2>3. K \subseteq Int
      OBVIOUS
    <2> QED BY <2>2, <2>3, InsertedEach
  <1>2. List(part, m)
    BY PartList
  <1> HIDE DEF at, m
  <1>3. DOMAIN at = 1..m /\ {at[i] : i \in 1..m} = K
    BY <1>1 DEF Each, List
  <1>4. part = [i \in 1..m |-> rows[at[i]]]
    BY <1>3 DEF Part, at
  <1> HIDE DEF part
  <1>5. Values(part) = {part[i] : i \in 1..m}
    BY <1>2, Values1
  <1>6. {part[i] : i \in 1..m} = {rows[k] : k \in {at[i] : i \in 1..m}}
    BY <1>4
  <1> QED BY <1>2, <1>3, <1>5, <1>6 DEF part, m

LEMMA ConcatList ==
  ASSUME NEW p, NEW a, List(p, a), NEW r, NEW b, List(r, b)
  PROVE  List(p \o r, a + b) /\ Values(p \o r) = Values(p) \cup Values(r)
  <1> DEFINE all == p \o r
  <1>1. Len(p) = a /\ Len(r) = b /\ DOMAIN p = 1..a /\ DOMAIN r = 1..b /\ a \in Nat /\ b \in Nat
    BY ListLen DEF List
  <1>2. p \in Seq(Values(p) \cup Values(r)) /\ r \in Seq(Values(p) \cup Values(r))
    <2>1. p \in [1..a -> Values(p) \cup Values(r)] /\ r \in [1..b -> Values(p) \cup Values(r)]
      BY <1>1 DEF List, Values
    <2> QED BY <1>1, <2>1
  <1>3. /\ all \in Seq(Values(p) \cup Values(r)) /\ Len(all) = a + b
        /\ \A i \in 1..a : all[i] = p[i]
        /\ \A i \in 1..b : all[a + i] = r[i]
    BY <1>1, <1>2
  <1> HIDE DEF all
  <1>4. DOMAIN all = 1..(a + b)
    BY <1>3
  <1>5. List(all, a + b)
    BY <1>1, <1>3, <1>4 DEF List
  <1>6. Values(all) \subseteq Values(p) \cup Values(r)
    BY <1>3 DEF Values
  <1>7. Values(p) \subseteq Values(all)
    <2> SUFFICES ASSUME NEW i \in 1..a PROVE p[i] \in Values(all)
      BY <1>1 DEF Values
    <2>1. i \in DOMAIN all /\ all[i] = p[i]
      BY <1>1, <1>3, <1>4
    <2> QED BY <2>1 DEF Values
  <1>8. Values(r) \subseteq Values(all)
    <2> SUFFICES ASSUME NEW i \in 1..b PROVE r[i] \in Values(all)
      BY <1>1 DEF Values
    <2>1. a + i \in DOMAIN all /\ all[a + i] = r[i]
      BY <1>1, <1>3, <1>4
    <2> QED BY <2>1 DEF Values
  <1> QED BY <1>5, <1>6, <1>7, <1>8 DEF all

LEMMA PageWhole ==
  ASSUME NEW rows, NEW n, List(rows, n), NEW limit \in Nat
  PROVE  LET m == IF limit < n THEN limit ELSE n
         IN List(Page(rows, limit, 0), m) /\ (m = n => Values(Page(rows, limit, 0)) = Values(rows))
  <1> DEFINE m == IF limit < n THEN limit ELSE n
             page == Page(rows, limit, 0)
  <1>1. List(page, m) /\ \A i \in 1..m : page[i] = rows[i]
    BY PageOfList
  <1> HIDE DEF m, page
  <1>2. Values(page) = {page[i] : i \in 1..m} /\ Values(rows) = {rows[i] : i \in 1..n}
    BY <1>1, Values1
  <1>3. m = n => Values(page) = Values(rows)
    BY <1>1, <1>2
  <1> QED BY <1>1, <1>3 DEF m, page

LEMMA PrintedAll ==
  ASSUME NEW q, NEW a, NEW m, List(a.shown, m)
  PROVE  /\ \E k \in Nat : List(Printed(q, a), k)
         /\ Len(Printed(q, a)) >= m => Values(Printed(q, a)) = Values(a.shown)
  <1> DEFINE rows == a.shown
             C == {k \in 1..m : ~(ResultFile(q.verb, rows[k]) \in TestFile)}
             T == {k \in 1..m : ResultFile(q.verb, rows[k]) \in TestFile}
             code == Part(rows, C)
             tests == Part(rows, T)
             room == textCap(q, m)
             c == Cardinality(C)
             e == Cardinality(T)
             p == Page(code, room, 0)
             r == IF room > c THEN Page(tests, room - c, 0) ELSE <<>>
  <1>1. m \in Nat /\ Len(rows) = m /\ DOMAIN rows = 1..m
    BY ListLen DEF List
  <1>2. room \in Nat
    BY <1>1, ListCapAssumption DEF textCap, Least
  <1>3. c \in Nat /\ e \in Nat /\ c + e = m
    <2>1. IsFiniteSet(1..m) /\ Cardinality(1..m) = m
      BY <1>1, FS_Interval
    <2>2. C \cup T = 1..m /\ C \cap T = {}
      OBVIOUS
    <2> HIDE DEF C, T
    <2>3. IsFiniteSet(C) /\ IsFiniteSet(T)
      BY <2>1, <2>2, FS_Subset
    <2>4. Cardinality(C \cup T) = Cardinality(C) + Cardinality(T) - Cardinality(C \cap T)
      BY <2>3, FS_Union
    <2>5. Cardinality(C) \in Nat /\ Cardinality(T) \in Nat /\ Cardinality({}) = 0
      BY <2>3, FS_CardinalityType, FS_EmptySet
    <2>6. Cardinality(C \cap T) = 0 /\ Cardinality(C \cup T) = m
      BY <2>1, <2>2, <2>5
    <2> QED BY <2>4, <2>5, <2>6
  <1>4. List(code, c) /\ Values(code) = {rows[k] : k \in C}
    <2>1. C \in SUBSET (1..m)
      OBVIOUS
    <2> HIDE DEF C
    <2> QED BY <1>1, <2>1, PartValues
  <1>5. List(tests, e) /\ Values(tests) = {rows[k] : k \in T}
    <2>1. T \in SUBSET (1..m)
      OBVIOUS
    <2> HIDE DEF T
    <2> QED BY <1>1, <2>1, PartValues
  <1>6. Values(code) \cup Values(tests) = Values(rows)
    <2>1. C \cup T = 1..m
      OBVIOUS
    <2>2. Values(rows) = {rows[k] : k \in 1..m}
      BY <1>1 DEF Values
    <2> HIDE DEF C, T
    <2>3. {rows[k] : k \in C} \cup {rows[k] : k \in T} = {rows[k] : k \in C \cup T}
      OBVIOUS
    <2> QED BY <1>4, <1>5, <2>1, <2>2, <2>3
  <1>7. Printed(q, a) = p \o r
    <2>1. Where(rows, LAMBDA x : ~(ResultFile(q.verb, x) \in TestFile)) = code
      BY <1>1 DEF Where, Column, Part
    <2>2. Where(rows, LAMBDA x : ResultFile(q.verb, x) \in TestFile) = tests
      BY <1>1 DEF Where, Column, Part
    <2>3. Len(code) = c
      BY <1>4, ListLen
    <2> HIDE DEF code, tests, c, room
    <2> QED BY <1>1, <2>1, <2>2, <2>3 DEF Printed, room
  <1> HIDE DEF C, T, code, tests, c, e, room
  <1>8. LET k == IF room < c THEN room ELSE c IN List(p, k) /\ (k = c => Values(p) = Values(code))
    BY <1>2, <1>4, PageWhole
  <1>9. CASE room > c
    <2> DEFINE g == IF room - c < e THEN room - c ELSE e
    <2>0. r = Page(tests, room - c, 0) /\ room - c \in Nat
      BY <1>2, <1>3, <1>9
    <2> HIDE DEF r, p
    <2>1. List(r, g) /\ (g = e => Values(r) = Values(tests))
      BY <1>5, <2>0, PageWhole
    <2>2. List(p, c) /\ Values(p) = Values(code)
      BY <1>2, <1>3, <1>8, <1>9
    <2>3. List(p \o r, c + g) /\ Values(p \o r) = Values(p) \cup Values(r)
      BY <2>1, <2>2, ConcatList
    <2>4. Len(p \o r) = c + g /\ c + g \in Nat /\ g \in Nat /\ (c + g >= m => g = e)
      <3>1. Len(p \o r) = c + g
        <4> DEFINE all == p \o r
                   N   == c + g
        <4>1. List(all, N)
          BY <2>3
        <4> HIDE DEF all, N
        <4>2. Len(all) = N
          BY <4>1, ListLen
        <4> QED BY <4>2 DEF all, N
      <3> QED BY <1>2, <1>3, <1>9, <3>1
    <2> QED BY <1>6, <1>7, <2>1, <2>2, <2>3, <2>4
  <1>10. CASE ~(room > c)
    <2>0. r = <<>>
      BY <1>10
    <2> HIDE DEF r, p
    <2>1. List(r, 0) /\ Values(r) = {}
      BY <2>0, NoRows, Values1
    <2>2. List(p, room) /\ (room = c => Values(p) = Values(code))
      BY <1>2, <1>3, <1>8, <1>10
    <2>3. List(p \o r, room + 0) /\ Values(p \o r) = Values(p) \cup Values(r)
      BY <2>1, <2>2, ConcatList
    <2>4. room + 0 = room
      BY <1>2
    <2>5. Len(p \o r) = room
      BY <2>3, <2>4, ListLen
    <2>6. ASSUME room >= m PROVE room = c /\ e = 0
      BY <1>2, <1>3, <1>10, <2>6
    <2>7. ASSUME e = 0 PROVE Values(tests) = {}
      <3>1. Values(tests) = {tests[i] : i \in 1..e}
        BY <1>5, Values1
      <3>2. 1..e = {}
        BY <2>7
      <3> QED BY <3>1, <3>2
    <2> QED BY <1>2, <1>6, <1>7, <2>1, <2>2, <2>3, <2>4, <2>5, <2>6, <2>7
  <1> QED BY <1>9, <1>10

-----------------------------------------------------------------------------
(* Sessions.                                                               *)

Tables == [syms : SUBSET Syms, calls : SUBSET DOMAIN Calls, refs : SUBSET DOMAIN Refs]
InSession ==
  /\ {"verb", "arg", "how", "lim", "sel", "room", "keep", "given", "text", "off", "got", "pc"} \subseteq DOMAIN s
  /\ s.verb \in Verbs /\ s.lim \in Nat \ {0} /\ s.how \in {"advice", "raise", "stride", "once"}
  /\ s.text => s.verb # "pkg"
  /\ Exact => s.off \in Nat
  /\ s.how = "raise" => s.off = 0
  /\ d \in Tables /\ whole = Whole(d, s)
SessionInv == \/ s = Idle /\ whole = <<>> /\ moved = FALSE
              \/ review = Off /\ InSession

LEMMA TablesIndexed == ASSUME NEW db \in Tables PROVE Indexed3(db)
  BY DEF Tables, Indexed3

LEMMA RowedSeq == ASSUME NEW rows, NEW U, Rowed(rows, U) PROVE rows \in Seq(U) /\ List(rows, Len(rows))
  <1>1. PICK n \in Nat : List(rows, n) /\ \A i \in 1..n : rows[i] \in U
    BY DEF Rowed
  <1>2. rows \in [1..n -> U]
    BY <1>1 DEF List
  <1> QED BY <1>1, <1>2, ListLen

LEMMA WholeRows ==
  ASSUME NEW db \in Tables, NEW q, q.verb \in Verbs
  PROVE  Whole(db, q) \in Seq(Nat) /\ List(Whole(db, q), Len(Whole(db, q)))
  <1> DEFINE all == Whole(db, q)
             t   == Resolve(db, q.verb, q.arg)[1]
             U   == Universe(q.verb)
  <1>1. all = <<>> \/ all = Unlimited(db, q.verb, t)
    BY DEF Whole
  <1>2. Rowed(Unlimited(db, q.verb, t), U)
    BY TablesIndexed, UnlimitedRows
  <1>3. U \subseteq Nat
    BY TablesFinite DEF Universe
  <1> HIDE DEF all, t, U
  <1>4. Rowed(all, Nat)
    BY <1>1, <1>2, <1>3, NoRows, RowedMore
  <1> QED BY <1>4, RowedSeq DEF all

LEMMA SameWhole ==
  ASSUME NEW db, NEW q, NEW r, q.verb = r.verb, q.arg = r.arg
  PROVE  Whole(db, q) = Whole(db, r)
  BY DEF Whole, Refused

LEMMA SameImporters ==
  ASSUME NEW a, NEW b, a.syms = b.syms, NEW pat
  PROVE  FindImporters(a, pat) = FindImporters(b, pat)
  <1>1. Packages(a) = Packages(b)
    BY DEF Packages
  <1>2. resolveMain(a) = resolveMain(b) /\ resolveShortName(a, pat) = resolveShortName(b, pat)
    BY <1>1 DEF resolveMain, resolveShortName
  <1>3. ResolvePkgPattern(a, pat, Directory) = ResolvePkgPattern(b, pat, Directory)
    BY <1>2 DEF ResolvePkgPattern
  <1> QED BY <1>3 DEF FindImporters

LEMMA InSessionInit == Init /\ review = Off => InSession /\ s.pc = "asks" /\ s.off = 0 /\ s.got = {} /\ moved = FALSE
  <1> SUFFICES ASSUME Init PROVE InSession /\ s.pc = "asks" /\ s.off = 0 /\ s.got = {} /\ moved = FALSE
    OBVIOUS
  <1> DEFINE first == [off |-> 0, got |-> {}, pc |-> "asks"]
  <1>1. PICK q \in Sessions : s = Over(first, q)
    BY DEF Init
  <1>2. DOMAIN first = {"off", "got", "pc"} /\ first["off"] = 0 /\ first["got"] = {} /\ first["pc"] = "asks"
    OBVIOUS
  <1> HIDE DEF first
  <1>3. DOMAIN s = DOMAIN first \cup DOMAIN q
    BY <1>1, OverDomain
  <1>4. s.off = 0 /\ s.got = {} /\ s.pc = "asks"
    BY <1>1, <1>2, OverNew
  <1>5. \A k \in DOMAIN q : k \notin DOMAIN first => s[k] = q[k]
    BY <1>1, OverOld
  <1>6. /\ {"verb", "arg", "how", "lim", "sel", "room", "keep", "given", "text"} \subseteq DOMAIN q
        /\ q.verb \in Verbs /\ q.lim \in Nat \ {0} /\ q.how \in {"advice", "raise", "stride", "once"} /\ (q.text => q.verb # "pkg")
    BY <1>1, SessionsAssumption
  <1>7. s.verb = q.verb /\ s.lim = q.lim /\ s.how = q.how /\ s.text = q.text
    BY <1>2, <1>5, <1>6
  <1>8. {"verb", "arg", "how", "lim", "sel", "room", "keep", "given", "text", "off", "got", "pc"} \subseteq DOMAIN s
    BY <1>2, <1>3, <1>6
  <1>9. d \in Tables
    BY SessionsAssumption DEF Init, Indexes, Tables
  <1>10. whole = Whole(d, s) /\ moved = FALSE
    BY DEF Init
  <1> QED BY <1>4, <1>6, <1>7, <1>8, <1>9, <1>10 DEF InSession

\* What a question leaves of the session.
Keeps3 == /\ DOMAIN s' = DOMAIN s
          /\ \A k \in DOMAIN s \ {"got", "off", "lim", "given", "pc"} : s'[k] = s[k]
LEMMA SessionSteps ==
  ASSUME SessionInv, [ClientNext]_<<vars, reviewVars>>
  PROVE  \/ s = Idle /\ UNCHANGED <<s, whole, moved>>
         \/ UNCHANGED <<vars, reviewVars>>
         \/ review = Off /\ InSession /\ UNCHANGED review /\ (Refuse \/ Ask \/ Reindex)
  <1>1. CASE UNCHANGED <<vars, reviewVars>>
    BY <1>1
  <1>2. CASE (Refuse \/ Ask \/ Reindex) /\ UNCHANGED reviewVars
    <2>1. s # Idle
      <3>1. s.pc = "asks"
        BY <1>2 DEF Refuse, Ask, Reindex
      <3>2. Idle.pc = "off"
        BY DEF Idle
      <3> QED BY <3>1, <3>2
    <2> QED BY <1>2, <2>1 DEF SessionInv, reviewVars
  <1>3. CASE Risk \/ Verify \/ Plan \/ Lifecycle \/ Describe
    BY <1>3, NotOff DEF SessionInv, session
  <1>4. CASE Edit \/ MoveRef \/ Index
    <2>1. review # Off /\ UNCHANGED session
      BY <1>4 DEF Edit, MoveRef, Index, Meanwhile, Off
    <2> QED BY <2>1 DEF SessionInv, session
  <1> QED BY <1>1, <1>2, <1>3, <1>4 DEF ClientNext, ReviewNext

LEMMA AskKeeps ==
  ASSUME InSession, Ask
  PROVE  Keeps3 /\ UNCHANGED <<d, whole, moved>> /\ s.how \in {"advice", "raise", "stride", "once"}
  <1>1. ASSUME NEW got, NEW off, NEW lim, NEW more, Read(got, off, lim, more) PROVE Keeps3
    BY <1>1 DEF Read, Keeps3
  <1> QED BY <1>1 DEF Ask, InSession

\* Whether the answer is exact is settled by the question.
LEMMA ExactKept ==
  ASSUME InSession, Keeps3, d'.syms = d.syms
  PROVE  Exact' <=> Exact
  <1>1. /\ s'.sel = s.sel /\ s'.room = s.room /\ s'.keep = s.keep /\ s'.text = s.text
        /\ s'.how = s.how /\ s'.verb = s.verb /\ s'.arg = s.arg
    BY DEF InSession, Keeps3
  <1>2. FindImporters(d', s.arg) = FindImporters(d, s.arg)
    BY SameImporters
  <1> QED BY <1>1, <1>2 DEF Exact

\* What an answer tells a client that may rely on it.
LEMMA ExactAnswer ==
  ASSUME InSession, Exact, ~Refused(d, s), NEW a, a = Answer(d, s, Resolve(d, s.verb, s.arg)[1], s.off)
  PROVE  LET n == Len(whole)
             m == Held(n, s.lim, s.off)
         IN /\ Range(a.shown) = Slice(whole, n, s.lim, s.off)
            /\ s.how = "advice" => a.total = m /\ (a.truncated <=> m >= s.lim)
            /\ s.how = "raise" => (m < n => a.truncated) /\ (a.truncated => m >= s.lim)
  <1> DEFINE t == Resolve(d, s.verb, s.arg)[1]
             n == Len(whole)
             m == Held(n, s.lim, s.off)
  <1>1. whole = Unlimited(d, s.verb, t) /\ List(whole, n) /\ n \in Nat
    <2>1. whole = Unlimited(d, s.verb, t)
      BY DEF InSession, Whole
    <2>2. List(whole, n)
      BY WholeRows DEF InSession
    <2> QED BY <2>1, <2>2 DEF List
  <1>2. Indexed3(d) /\ Plain(s) /\ s.lim \in Nat \ {0} /\ s.off \in Nat
    BY TablesIndexed DEF InSession, Exact, Plain
  <1>3. a = Answer(d, s, t, s.off)
    OBVIOUS
  <1>4. t = s.arg \/ s.verb # "importers"
    BY DEF Resolve, SymbolVerbs
  <1> HIDE DEF t, n
  <1>5. CASE PagedVerb(s, s.off)
    <2>1. List(a.shown, m) /\ Values(a.shown) = Slice(whole, n, s.lim, s.off) /\ a.total = m /\ (a.truncated <=> m >= s.lim)
      BY <1>1, <1>2, <1>3, <1>5, PagedAnswer
    <2>2. Range(a.shown) = Values(a.shown)
      BY <2>1, Values1
    <2>3. s.how = "raise" => (m < n => m >= s.lim)
      BY <1>1, <1>2 DEF Held, InSession
    <2> QED BY <2>1, <2>2, <2>3 DEF n
  <1>6. CASE s.verb = "lits"
    <2>0. List(Unlimited(d, s.verb, t), n)
      BY <1>1
    <2> HIDE DEF m
    <2>1. List(a.shown, m) /\ Values(a.shown) = Slice(whole, n, s.lim, s.off) /\ (a.truncated <=> m < n)
      <3>1. s.verb = "lits" /\ s.lim \in Nat \ {0} /\ s.off \in Nat
        BY <1>2, <1>6
      <3>2. s.verb = "lits" /\ s.lim \in Nat \ {0} /\ s.off \in Nat /\ List(Unlimited(d, s.verb, t), n)
        BY <2>0, <3>1
      <3>3. LET b == Answer(d, s, t, s.off)
                k == Held(n, s.lim, s.off)
            IN /\ List(b.shown, k) /\ Values(b.shown) = Slice(Unlimited(d, s.verb, t), n, s.lim, s.off)
               /\ b.total = n /\ (b.truncated <=> k < n)
        BY ONLY <3>2, LiteralAnswer
      <3> QED BY <1>1, <1>3, <3>3 DEF m
    <2> USE DEF m
    <2>2. Range(a.shown) = Values(a.shown)
      BY <2>1, Values1
    <2>3. s.how = "raise" => (m < n => m >= s.lim)
      BY <1>1, <1>2 DEF Held, InSession
    <2>4. s.how # "advice"
      BY <1>6 DEF Exact
    <2> QED BY <2>1, <2>2, <2>3, <2>4 DEF n
  <1>7. CASE Strides(d, s, t) /\ s.how = "stride"
    <2>1. (\E k \in Nat : List(a.shown, k)) /\ Values(a.shown) = Slice(whole, n, s.lim, s.off)
      BY <1>1, <1>2, <1>3, <1>7, StrideAnswer
    <2>2. Range(a.shown) = Values(a.shown)
      BY <2>1, Values1
    <2> QED BY <1>7, <2>1, <2>2 DEF n
  <1>8. PagedVerb(s, s.off) \/ s.verb = "lits" \/ (Strides(d, s, t) /\ s.how = "stride")
    <2>1. s.verb = "pkg" => s.off = 0
      BY DEF Exact, InSession
    <2>2. s.verb = "importers" => Strides(d, s, t) /\ s.how = "stride"
      BY <1>4 DEF Exact, Strides
    <2>3. s.verb \in {"callers", "callees", "file"} => Strides(d, s, t) /\ s.how = "stride"
      BY DEF Exact, Strides
    <2>4. s.verb \notin {"impact", "exports"}
      BY DEF Exact
    <2> QED BY <2>1, <2>2, <2>3, <2>4 DEF InSession, Verbs, SymbolVerbs, PagedVerb
  <1> QED BY <1>5, <1>6, <1>7, <1>8

\* Where it goes on.
LEMMA AskMoves ==
  ASSUME InSession, Ask
  PROVE  s'.lim \in Nat \ {0} /\ (Exact => s'.off \in Nat) /\ (s'.how = "raise" => s'.off = 0)
  <1> DEFINE a == Answer(d, s, Resolve(d, s.verb, s.arg)[1], s.off)
  <1>1. ASSUME NEW got, NEW off, NEW lim, NEW more, Read(got, off, lim, more)
        PROVE  s'.off = off /\ s'.lim = lim /\ s'.how = s.how
    BY <1>1 DEF Read, InSession
  <1>2. PICK printed, more, rows :
          CASE s.how = "once"   -> Read(rows, s.off, s.lim, FALSE)
            [] s.how = "advice" -> Read(s.got \cup rows, s.off + a.total, s.lim, a.truncated)
            [] s.how = "raise"  -> Read(rows, s.off, IF more THEN 2 * s.lim ELSE s.lim, more)
            [] s.how = "stride" -> Read(s.got \cup rows, s.off + s.lim, s.lim, rows # {})
    BY DEF Ask
  <1>3. ~Refused(d, s)
    BY DEF Ask
  <1>4. ASSUME Exact, s.how = "advice" PROVE s.off + a.total \in Nat
    <2> DEFINE n == Len(whole)
    <2>1. n \in Nat
      BY WholeRows DEF InSession
    <2> HIDE DEF a
    <2>2. a.total = Held(n, s.lim, s.off)
      BY <1>3, <1>4, ExactAnswer DEF a
    <2> HIDE DEF n
    <2>3. s.off \in Nat /\ s.lim \in Nat
      BY <1>4 DEF InSession
    <2>4. Held(n, s.lim, s.off) \in Nat
      BY <2>1, <2>3, HeldIsNat
    <2> QED BY <2>2, <2>3, <2>4
  <1> HIDE DEF a
  <1>5. CASE s.how = "once"
    BY <1>1, <1>2, <1>5 DEF InSession
  <1>6. CASE s.how = "advice"
    <2>1. s'.off = s.off + a.total /\ s'.lim = s.lim /\ s'.how = s.how
      BY <1>1, <1>2, <1>6
    <2> QED BY <1>4, <1>6, <2>1 DEF InSession
  <1>7. CASE s.how = "raise"
    <2>1. s'.off = s.off /\ s'.lim \in {s.lim, 2 * s.lim}
      BY <1>1, <1>2, <1>7
    <2> QED BY <1>7, <2>1 DEF InSession
  <1>8. CASE s.how = "stride"
    <2>1. s'.off = s.off + s.lim /\ s'.lim = s.lim /\ s'.how = s.how
      BY <1>1, <1>2, <1>8
    <2> QED BY <1>8, <2>1 DEF InSession
  <1> QED BY <1>5, <1>6, <1>7, <1>8 DEF InSession

LEMMA ReindexKeeps ==
  ASSUME InSession, Reindex
  PROVE  UNCHANGED s /\ d' \in Tables /\ d'.syms = d.syms /\ whole' = Whole(d', s) /\ moved' = TRUE /\ s.pc = "asks"
  <1>1. PICK r \in Moving, call, calls \in SUBSET DOMAIN Calls :
          d' = IF r \in d.refs THEN [d EXCEPT !.refs = @ \ {r}, !.calls = @ \ calls]
               ELSE [d EXCEPT !.refs = @ \cup {r}, !.calls = @ \cup calls]
    BY DEF Reindex
  <1>2. r \in DOMAIN Refs
    BY SessionsAssumption
  <1>3. d' \in Tables /\ d'.syms = d.syms
    BY <1>1, <1>2 DEF InSession, Tables
  <1> QED BY <1>3 DEF Reindex

LEMMA SessionInvStep ==
  ASSUME SessionInv, [ClientNext]_<<vars, reviewVars>>
  PROVE  SessionInv'
  <1>1. CASE s = Idle /\ UNCHANGED <<s, whole, moved>>
    <2>1. ~InSession
      BY <1>1 DEF InSession, Idle
    <2> QED BY <1>1, <2>1 DEF SessionInv
  <1>2. CASE UNCHANGED <<vars, reviewVars>>
    <2>1. /\ s' = s /\ d' = d /\ whole' = whole /\ moved' = moved /\ review' = review
      BY <1>2 DEF vars, reviewVars
    <2>2. ASSUME InSession PROVE InSession'
      <3>1. Exact' <=> Exact
        BY <2>1, <2>2, ExactKept DEF Keeps3
      <3> QED BY <2>1, <2>2, <3>1 DEF InSession
    <2> QED BY <2>1, <2>2 DEF SessionInv
  <1>3. CASE review = Off /\ InSession /\ UNCHANGED review /\ (Refuse \/ Ask \/ Reindex)
    <2>1. CASE Refuse
      <3>1. s' = [s EXCEPT !.pc = "refused"] /\ UNCHANGED <<d, whole>>
        BY <2>1 DEF Refuse
      <3>2. Whole(d', s') = Whole(d, s)
        <4>1. s'.verb = s.verb /\ s'.arg = s.arg
          BY <3>1
        <4> QED BY <3>1, <4>1, SameWhole
      <3>4. Keeps3
        BY <3>1 DEF Keeps3
      <3>5. Exact' <=> Exact
        BY <1>3, <3>1, <3>4, ExactKept
      <3>3. InSession'
        BY <1>3, <3>1, <3>2, <3>5 DEF InSession
      <3> QED BY <1>3, <3>3 DEF SessionInv
    <2>2. CASE Ask
      <3>1. Keeps3 /\ UNCHANGED <<d, whole>>
        BY <1>3, <2>2, AskKeeps
      <3>2. /\ s'.verb = s.verb /\ s'.arg = s.arg /\ s'.how = s.how /\ s'.text = s.text /\ DOMAIN s' = DOMAIN s
        BY <1>3, <3>1 DEF Keeps3, InSession
      <3>3. Whole(d', s') = Whole(d, s)
        BY <3>1, <3>2, SameWhole
      <3>4. s'.lim \in Nat \ {0} /\ (Exact' => s'.off \in Nat) /\ (s'.how = "raise" => s'.off = 0)
        BY <1>3, <2>2, <3>1, AskMoves, ExactKept
      <3>5. InSession'
        BY <1>3, <3>1, <3>2, <3>3, <3>4 DEF InSession
      <3> QED BY <1>3, <3>5 DEF SessionInv
    <2>3. CASE Reindex
      <3>1. UNCHANGED s /\ d' \in Tables /\ whole' = Whole(d', s)
        BY <1>3, <2>3, ReindexKeeps
      <3>3. Exact' <=> Exact
        BY <1>3, <2>3, ReindexKeeps, ExactKept DEF Keeps3
      <3>2. InSession'
        BY <1>3, <3>1, <3>3 DEF InSession
      <3> QED BY <1>3, <3>2 DEF SessionInv
    <2> QED BY <1>3, <2>1, <2>2, <2>3
  <1> QED BY <1>1, <1>2, <1>3, SessionSteps

LEMMA SessionInvInit == ClientInit => SessionInv
  <1> SUFFICES ASSUME ClientInit PROVE SessionInv
    OBVIOUS
  <1>1. CASE s = Idle /\ whole = <<>> /\ moved = FALSE
    BY <1>1 DEF SessionInv
  <1>2. CASE Init /\ review = Off
    BY <1>2, InSessionInit DEF SessionInv
  <1> QED BY <1>1, <1>2 DEF ClientInit

-----------------------------------------------------------------------------
(* A session whose answers are exact reads the pages of a list.            *)

LEMMA WithinIsSlice ==
  ASSUME NEW rows, NEW n, List(rows, n), NEW a \in Nat, NEW k \in Nat
  PROVE  {rows[i] : i \in {i \in 1..Len(rows) : a < i /\ i <= a + k}} = Slice(rows, n, k, a)
  <1> DEFINE m == Held(n, k, a)
             W == {i \in 1..n : a < i /\ i <= a + k}
  <1>1. Len(rows) = n /\ n \in Nat
    BY ListLen DEF List
  <1>2. \A i \in W : i - a \in 1..m /\ a + (i - a) = i
    BY <1>1 DEF Held
  <1>3. \A j \in 1..m : a + j \in W
    BY <1>1 DEF Held
  <1> HIDE DEF m, W
  <1>4. {rows[i] : i \in W} = {rows[a + j] : j \in 1..m}
    <2>1. ASSUME NEW i \in W PROVE rows[i] \in {rows[a + j] : j \in 1..m}
      <3>1. i - a \in 1..m /\ rows[a + (i - a)] = rows[i]
        BY <1>2
      <3> QED BY <3>1
    <2>2. ASSUME NEW j \in 1..m PROVE rows[a + j] \in {rows[i] : i \in W}
      BY <1>3
    <2> QED BY <2>1, <2>2
  <1> QED BY <1>1, <1>4 DEF m, W, Slice

LEMMA ExactShape ==
  ASSUME Exact
  PROVE  Rows = whole /\ Way = s.how /\ Offset = s.off /\ Limit = s.lim /\ Holds = s.got /\ (HasEnded <=> s.pc = "done") /\ s.how # "once"
  <1>1. s.how # "once"
    BY DEF Exact
  <1> QED BY <1>1 DEF Rows, Way, Offset, Limit, Holds, HasEnded

LEMMA OtherShape ==
  ASSUME ~Exact
  PROVE  Rows = <<>> /\ Way = "advice" /\ Offset = 0 /\ Limit = 1 /\ Holds = {} /\ HasEnded = FALSE
  BY DEF Rows, Way, Offset, Limit, Holds, HasEnded

LEMMA IdleIsNotExact == s = Idle => ~Exact
  <1>1. Idle.how = "once"
    BY DEF Idle
  <1> QED BY <1>1 DEF Exact

LEMMA PageOfSession ==
  ASSUME InSession, Exact
  PROVE  LET n == Len(whole)
         IN /\ Pages!Within(s.off, s.lim) = Slice(whole, n, s.lim, s.off)
            /\ Pages!Count = Held(n, s.lim, s.off) /\ Held(n, s.lim, s.off) \in Nat /\ n \in Nat
            /\ s.off \in Nat /\ s.lim \in Nat \ {0} /\ whole \in Seq(Nat)
  <1>1. whole \in Seq(Nat) /\ List(whole, Len(whole)) /\ Len(whole) \in Nat
    BY WholeRows DEF InSession
  <1>2. s.off \in Nat /\ s.lim \in Nat
    BY DEF InSession
  <1>3. Pages!Within(s.off, s.lim) = Slice(whole, Len(whole), s.lim, s.off)
    <2> DEFINE at == {i \in 1..Len(whole) : s.off < i /\ i <= s.off + s.lim}
    <2>1. {whole[i] : i \in at} = Slice(whole, Len(whole), s.lim, s.off)
      BY <1>1, <1>2, WithinIsSlice
    <2>2. Rows = whole
      BY ExactShape
    <2>3. Pages!Within(s.off, s.lim) = {whole[i] : i \in at}
      BY <2>2 DEF Pages!Within
    <2> QED BY <2>1, <2>3
  <1>4. Pages!Count = Held(Len(whole), s.lim, s.off)
    BY ExactShape DEF Pages!Count, Held
  <1>5. Held(Len(whole), s.lim, s.off) \in Nat
    BY <1>1, <1>2, HeldIsNat
  <1> QED BY <1>1, <1>2, <1>3, <1>4, <1>5 DEF InSession

LEMMA PagesInit == ClientInit => Pages!Init
  <1> SUFFICES ASSUME ClientInit PROVE Pages!Init
    OBVIOUS
  <1>1. CASE ~Exact
    <2>1. moved = FALSE
      BY DEF ClientInit, Init
    <2>2. <<>> \in Seq(Nat)
      OBVIOUS
    <2> QED BY <1>1, <2>1, <2>2, OtherShape DEF Pages!Init, Pages!Ways, Pages!Row
  <1>2. CASE Exact
    <2>1. Init /\ review = Off
      BY <1>2, IdleIsNotExact DEF ClientInit
    <2>2. InSession /\ s.pc = "asks" /\ s.off = 0 /\ s.got = {} /\ moved = FALSE
      BY <2>1, InSessionInit
    <2>3. whole \in Seq(Nat)
      BY <1>2, <2>2, PageOfSession
    <2>4. s.how \in {"advice", "raise", "stride"} /\ s.lim \in Nat \ {0}
      BY <1>2, <2>2, ExactShape DEF InSession
    <2> QED BY <1>2, <2>2, <2>3, <2>4, ExactShape DEF Pages!Init, Pages!Ways, Pages!Row
  <1> QED BY <1>1, <1>2

LEMMA PagesAsk == ASSUME InSession, Exact, Ask PROVE Pages!Ask
  <1> DEFINE a == Answer(d, s, Resolve(d, s.verb, s.arg)[1], s.off)
             n == Len(whole)
             m == Held(n, s.lim, s.off)
  <1>1. Keeps3 /\ UNCHANGED <<d, whole, moved>> /\ s.pc = "asks" /\ ~Refused(d, s)
    BY AskKeeps DEF Ask
  <1>2. Exact'
    BY <1>1, ExactKept
  <1>3. /\ Rows' = whole /\ Way' = s'.how /\ Offset' = s'.off /\ Limit' = s'.lim /\ Holds' = s'.got
        /\ (HasEnded' <=> s'.pc = "done")
    BY <1>1, <1>2 DEF Rows, Way, Offset, Limit, Holds, HasEnded
  <1>4. s'.how = s.how
    BY <1>1 DEF Keeps3, InSession
  <1>5. UNCHANGED <<Rows, Way, moved>> /\ ~HasEnded
    BY <1>1, <1>3, <1>4, ExactShape
  <1>6. ASSUME NEW got, NEW off, NEW lim, NEW more, Read(got, off, lim, more)
        PROVE  s'.got = got /\ s'.off = off /\ s'.lim = lim /\ s'.pc = IF more THEN "asks" ELSE "done"
    BY <1>6 DEF Read, InSession
  <1>7. /\ Pages!Within(s.off, s.lim) = Slice(whole, n, s.lim, s.off) /\ Pages!Count = m /\ m \in Nat /\ n \in Nat
        /\ s.off \in Nat /\ s.lim \in Nat \ {0}
    BY PageOfSession
  <1>8. /\ Range(a.shown) = Slice(whole, n, s.lim, s.off)
        /\ s.how = "advice" => a.total = m /\ (a.truncated <=> m >= s.lim)
        /\ s.how = "raise" => (m < n => a.truncated) /\ (a.truncated => m >= s.lim)
    BY <1>1, ExactAnswer
  <1>9. PICK printed \in {IF s.text THEN Printed(s, a) ELSE a.shown} :
          LET rows == Range(printed)
              more == a.truncated \/ (s.text /\ Hidden(a, printed))
          IN CASE s.how = "once"   -> Read(rows, s.off, s.lim, FALSE)
               [] s.how = "advice" -> Read(s.got \cup rows, s.off + a.total, s.lim, a.truncated)
               [] s.how = "raise"  -> Read(rows, s.off, IF more THEN 2 * s.lim ELSE s.lim, more)
               [] s.how = "stride" -> Read(s.got \cup rows, s.off + s.lim, s.lim, rows # {})
    BY DEF Ask
  <1>10. printed = a.shown /\ ~s.text
    BY <1>9 DEF Exact
  <1>11. s.how \in {"advice", "raise", "stride"}
    BY ExactShape DEF InSession
  <1>12. Way = s.how /\ Offset = s.off /\ Limit = s.lim /\ Holds = s.got /\ Len(Rows) = n
    BY ExactShape
  <1>13. m < n - s.off => m >= s.lim
    BY <1>7 DEF Held
  <1> HIDE DEF a, m, n
  <1>14. CASE s.how = "advice"
    <2>1. Read(s.got \cup Range(a.shown), s.off + m, s.lim, a.truncated)
      BY <1>8, <1>9, <1>10, <1>14
    <2>2. /\ s'.got = s.got \cup Range(a.shown) /\ s'.off = s.off + m /\ s'.lim = s.lim
          /\ s'.pc = IF a.truncated THEN "asks" ELSE "done"
      BY <1>6, <2>1
    <2> DEFINE more == m >= s.lim
    <2>3. more \in Pages!Says
      <3>1. Pages!Truncated <=> more
        BY <1>7, <1>12 DEF Pages!Truncated
      <3>2. s.off + m < n => more
        BY <1>7, <1>13
      <3>3. more \in BOOLEAN
        OBVIOUS
      <3> HIDE DEF more
      <3> QED BY <1>7, <1>12, <3>1, <3>2, <3>3 DEF Pages!Says
    <2>4. HasEnded' = ~more
      BY <1>3, <1>8, <1>14, <2>2 DEF HasEnded
    <2>5. Holds' = Holds \cup Pages!Within(Offset, Limit) /\ Offset' = Offset + Pages!Count /\ Limit' = Limit
      BY <1>3, <1>7, <1>8, <1>12, <2>2
    <2> HIDE DEF more
    <2>6. Pages!Advice
      BY <1>12, <1>14, <2>3, <2>4, <2>5 DEF Pages!Advice
    <2> QED BY <1>5, <2>6 DEF Pages!Ask
  <1>15. CASE s.how = "raise"
    <2> DEFINE more == IF a.truncated THEN TRUE ELSE FALSE
    <2>1. Read(Range(a.shown), s.off, IF more THEN 2 * s.lim ELSE s.lim, more)
      <3>1. Read(Range(a.shown), s.off, IF a.truncated \/ (s.text /\ Hidden(a, printed)) THEN 2 * s.lim ELSE s.lim,
                 a.truncated \/ (s.text /\ Hidden(a, printed)))
        BY <1>9, <1>10, <1>15
      <3>2. (a.truncated \/ (s.text /\ Hidden(a, printed))) = more
        BY <1>10
      <3> QED BY <3>1, <3>2
    <2>2. s'.got = Range(a.shown) /\ s'.off = s.off /\ s'.pc = IF more THEN "asks" ELSE "done"
      BY <1>6, <2>1
    <2>3. s'.lim = IF more THEN 2 * s.lim ELSE s.lim
      BY <1>6, <2>1
    <2>4. s.off = 0
      BY <1>15 DEF InSession
    <2>5. more \in Pages!Says
      BY <1>7, <1>8, <1>12, <1>15, <2>4 DEF Pages!Says, Pages!Truncated
    <2>6. HasEnded' = ~more
      BY <1>3, <2>2 DEF HasEnded
    <2>7. Holds' = Pages!Within(0, Limit) /\ Offset' = Offset
      BY <1>3, <1>7, <1>8, <1>12, <2>2, <2>4
    <2>8. Limit' \in Nat /\ IF more THEN Limit' > Limit ELSE Limit' = Limit
      BY <1>3, <1>7, <1>12, <2>3
    <2> HIDE DEF more
    <2>9. Pages!Raise
      BY <1>12, <1>15, <2>5, <2>6, <2>7, <2>8 DEF Pages!Raise
    <2> QED BY <1>5, <2>9 DEF Pages!Ask
  <1>16. CASE s.how = "stride"
    <2>1. Read(s.got \cup Range(a.shown), s.off + s.lim, s.lim, Range(a.shown) # {})
      BY <1>9, <1>10, <1>16
    <2>2. /\ s'.got = s.got \cup Range(a.shown) /\ s'.off = s.off + s.lim /\ s'.lim = s.lim
          /\ s'.pc = IF Range(a.shown) # {} THEN "asks" ELSE "done"
      BY <1>6, <2>1
    <2>3. Slice(whole, n, s.lim, s.off) = {} <=> m = 0
      <3>1. Slice(whole, n, s.lim, s.off) = {whole[s.off + i] : i \in 1..m}
        BY DEF Slice, m
      <3>2. m # 0 => 1 \in 1..m
        BY <1>7
      <3>3. m = 0 => 1..m = {}
        OBVIOUS
      <3> QED BY <3>1, <3>2, <3>3
    <2>4. HasEnded' = (Pages!Count = 0)
      BY <1>3, <1>7, <1>8, <2>2, <2>3 DEF HasEnded
    <2>5. Holds' = Holds \cup Pages!Within(Offset, Limit) /\ Offset' = Offset + Limit /\ Limit' = Limit
      BY <1>3, <1>7, <1>8, <1>12, <2>2
    <2>6. Pages!Stride
      BY <1>12, <1>16, <2>4, <2>5 DEF Pages!Stride
    <2> QED BY <1>5, <2>6 DEF Pages!Ask
  <1> QED BY <1>11, <1>14, <1>15, <1>16

LEMMA PagesStep ==
  ASSUME SessionInv, [ClientNext]_<<vars, reviewVars>>
  PROVE  [Pages!Next]_(Pages!vars)
  <1>1. CASE s = Idle /\ UNCHANGED <<s, whole, moved>>
    <2>1. ~Exact /\ ~Exact'
      BY <1>1 DEF Idle, Exact
    <2> QED BY <1>1, <2>1 DEF Pages!vars, Rows, Way, Offset, Limit, Holds, HasEnded
  <1>2. CASE UNCHANGED <<vars, reviewVars>>
    <2>1. UNCHANGED <<d, s, whole, moved>>
      BY <1>2 DEF vars
    <2>2. (Exact <=> Exact') /\ (HasEnded' = HasEnded)
      BY <2>1 DEF Exact, HasEnded
    <2> QED BY <2>1, <2>2 DEF Pages!vars, Rows, Way, Offset, Limit, Holds
  <1>3. CASE InSession /\ Refuse
    <2>1. s' = [s EXCEPT !.pc = "refused"] /\ UNCHANGED <<d, whole, moved>> /\ s.pc = "asks"
      BY <1>3 DEF Refuse
    <2>2. Keeps3
      BY <2>1 DEF Keeps3
    <2>3. Exact' <=> Exact
      BY <1>3, <2>1, <2>2, ExactKept
    <2>4. s'.how = s.how /\ s'.off = s.off /\ s'.lim = s.lim /\ s'.got = s.got
      BY <2>1
    <2>5. s'.pc # "done" /\ s.pc # "done"
      BY <1>3, <2>1 DEF InSession
    <2>6. HasEnded' = HasEnded
      BY <2>5 DEF HasEnded
    <2> QED BY <2>1, <2>3, <2>4, <2>6 DEF Pages!vars, Rows, Way, Offset, Limit, Holds
  <1>4. CASE InSession /\ Ask
    <2>1. CASE Exact
      BY <1>4, <2>1, PagesAsk DEF Pages!Next
    <2>2. CASE ~Exact
      <3>1. ~Exact' /\ moved' = moved
        BY <1>4, <2>2, AskKeeps, ExactKept
      <3> QED BY <2>2, <3>1 DEF Pages!vars, Rows, Way, Offset, Limit, Holds, HasEnded
    <2> QED BY <2>1, <2>2
  <1>5. CASE InSession /\ Reindex
    <2>1. UNCHANGED s /\ d' \in Tables /\ d'.syms = d.syms /\ whole' = Whole(d', s) /\ moved' = TRUE /\ s.pc = "asks"
      BY <1>5, ReindexKeeps
    <2>2. Exact' <=> Exact
      BY <1>5, <2>1, ExactKept DEF Keeps3
    <2>3. whole' \in Seq(Nat)
      BY <1>5, <2>1, WholeRows DEF InSession
    <2>4. Rows' \in Seq(Nat)
      <3>1. <<>> \in Seq(Nat)
        OBVIOUS
      <3> QED BY <2>2, <2>3, <3>1 DEF Rows
    <2>5. ~HasEnded /\ HasEnded' = HasEnded
      BY <2>1 DEF HasEnded
    <2>6. UNCHANGED <<Way, Offset, Limit, Holds>>
      BY <2>1, <2>2 DEF Way, Offset, Limit, Holds
    <2>7. Pages!Change
      BY <2>1, <2>4, <2>5, <2>6 DEF Pages!Change, Pages!Row
    <2> QED BY <2>7 DEF Pages!Next
  <1> QED BY <1>1, <1>2, <1>3, <1>4, <1>5, SessionSteps

\* The answers of the query commands, with limit and offset, are the pages of a
\* list, for every index, question and way of reading that Exact names, also
\* when an index run changes the answer between two of them.
THEOREM PagesImplemented == ClientSpec => ImplementsPages
  <1>1. SessionInv /\ [ClientNext]_<<vars, reviewVars>> => SessionInv'
    BY SessionInvStep
  <1>2. SessionInv /\ [ClientNext]_<<vars, reviewVars>> => [Pages!Next]_(Pages!vars)
    BY PagesStep
  <1> QED BY <1>1, <1>2, SessionInvInit, PagesInit, PTL DEF ClientSpec, ImplementsPages, Pages!Spec

-----------------------------------------------------------------------------
(* A client that reads the pages of a list has all of it in the end.       *)

\* What a client knows before it stops: the rows before its offset.
KnownRows == /\ Way = "raise" => Offset = 0 /\ (HasEnded => Holds = Pages!Whole)
             /\ Way # "raise" /\ ~moved => Holds = Pages!Within(0, Offset) /\ (HasEnded => Offset >= Len(Rows))

PagesInv == Pages!TypeOK /\ KnownRows

LEMMA WithinType == ASSUME Pages!TypeOK, NEW a \in Nat, NEW n \in Nat PROVE Pages!Within(a, n) \subseteq Pages!Row
  BY DEF Pages!TypeOK, Pages!Within

LEMMA WithinJoin ==
  ASSUME Pages!TypeOK, NEW a \in Nat, NEW n \in Nat
  PROVE  Pages!Within(0, a) \cup Pages!Within(a, n) = Pages!Within(0, a + n)
  <1> DEFINE D == DOMAIN Rows
  <1>1. Len(Rows) \in Nat BY DEF Pages!TypeOK
  <1>2. \A i \in 1..Len(Rows) : (0 < i /\ i <= 0 + (a + n)) <=> (0 < i /\ i <= 0 + a) \/ (a < i /\ i <= a + n) BY <1>1
  <1> QED BY <1>1, <1>2 DEF Pages!Within

LEMMA WithinAll ==
  ASSUME Pages!TypeOK, NEW a \in Nat, a >= Len(Rows)
  PROVE  Pages!Within(0, a) = Pages!Whole
  <1>1. Len(Rows) \in Nat BY DEF Pages!TypeOK
  <1>2. \A i \in 1..Len(Rows) : 0 < i /\ i <= 0 + a BY <1>1
  <1> QED BY <1>2 DEF Pages!Within, Pages!Whole

LEMMA CountFacts ==
  ASSUME Pages!TypeOK
  PROVE  /\ Pages!Count \in Nat
         /\ Pages!Within(Offset, Limit) = Pages!Within(Offset, Pages!Count)
         /\ ~Pages!Truncated => Offset + Pages!Count >= Len(Rows)
         /\ Pages!Count = 0 => Offset >= Len(Rows)
  <1>1. Len(Rows) \in Nat /\ Offset \in Nat /\ Limit \in Nat \ {0} BY DEF Pages!TypeOK
  <1>2. Pages!Count \in Nat BY <1>1 DEF Pages!Count
  <1>3. \A i \in 1..Len(Rows) : (Offset < i /\ i <= Offset + Limit) <=> (Offset < i /\ i <= Offset + Pages!Count) BY <1>1 DEF Pages!Count
  <1>4. Pages!Within(Offset, Limit) = Pages!Within(Offset, Pages!Count) BY <1>3 DEF Pages!Within
  <1>5. ~Pages!Truncated => Offset + Pages!Count >= Len(Rows) BY <1>1 DEF Pages!Count, Pages!Truncated
  <1>6. Pages!Count = 0 => Offset >= Len(Rows) BY <1>1 DEF Pages!Count
  <1> QED BY <1>2, <1>4, <1>5, <1>6

LEMMA PagesInitInv == Pages!Init => PagesInv
  <1> SUFFICES ASSUME Pages!Init PROVE PagesInv OBVIOUS
  <1>1. Pages!TypeOK BY DEF Pages!Init, Pages!TypeOK
  <1>2. Pages!Within(0, 0) = {}
    <2>1. \A i \in 1..Len(Rows) : ~(0 < i /\ i <= 0 + 0) BY <1>1 DEF Pages!TypeOK
    <2> QED BY <2>1 DEF Pages!Within
  <1> QED BY <1>1, <1>2 DEF Pages!Init, PagesInv, KnownRows

LEMMA PagesNextInv == PagesInv /\ [Pages!Next]_(Pages!vars) => PagesInv'
  <1> SUFFICES ASSUME PagesInv, [Pages!Next]_(Pages!vars) PROVE PagesInv' OBVIOUS
  <1>t. Pages!TypeOK /\ KnownRows /\ Offset \in Nat /\ Limit \in Nat \ {0} /\ Len(Rows) \in Nat BY DEF PagesInv, Pages!TypeOK
  <1>c. /\ Pages!Count \in Nat /\ Pages!Within(Offset, Limit) = Pages!Within(Offset, Pages!Count)
        /\ ~Pages!Truncated => Offset + Pages!Count >= Len(Rows)
        /\ Pages!Count = 0 => Offset >= Len(Rows) BY <1>t, CountFacts
  <1>1. CASE Pages!Ask
    <2>0. Rows' = Rows /\ Way' = Way /\ moved' = moved /\ ~HasEnded BY <1>1 DEF Pages!Ask
    <2>w. \A a, n \in Nat : Pages!Within(a, n)' = Pages!Within(a, n) BY <2>0 DEF Pages!Within
    <2>h. Pages!Whole' = Pages!Whole BY <2>0 DEF Pages!Whole
    <2>1. CASE Pages!Advice
      <3>1. Pages!Within(Offset, Limit) \subseteq Pages!Row BY <1>t, WithinType
      <3>2. Offset' = Offset + Pages!Count /\ Offset' \in Nat BY <2>1, <1>c, <1>t DEF Pages!Advice
      <3>3. Pages!TypeOK' BY <2>0, <2>1, <1>t, <3>1, <3>2 DEF Pages!Advice, Pages!TypeOK
      <3>4. Pages!Within(0, Offset) \cup Pages!Within(Offset, Pages!Count) = Pages!Within(0, Offset + Pages!Count) BY <1>t, <1>c, WithinJoin
      <3>5. Pages!Within(0, Offset') = Pages!Within(0, Offset + Pages!Count) BY <3>2
      <3>6. ~moved => Holds' = Pages!Within(0, Offset')
        <4>1. ~moved => Holds = Pages!Within(0, Offset) BY <2>1, <1>t DEF Pages!Advice, KnownRows
        <4>2. Holds' = Holds \cup Pages!Within(Offset, Limit) BY <2>1 DEF Pages!Advice
        <4> QED BY <1>c, <3>4, <3>5, <4>1, <4>2
      <3>7. HasEnded' => Offset' >= Len(Rows)
        <4>1. PICK more \in Pages!Says : HasEnded' = ~more BY <2>1 DEF Pages!Advice
        <4>2. Offset + Pages!Count < Len(Rows) => more BY <4>1 DEF Pages!Says
        <4>3. HasEnded' => ~(Offset + Pages!Count < Len(Rows)) BY <4>1, <4>2, Zenon
        <4> QED BY <1>t, <1>c, <3>2, <4>3
      <3>8. KnownRows' BY <2>0, <2>1, <3>2, <3>6, <3>7 DEF KnownRows, Pages!Advice, Pages!Within
      <3> QED BY <3>3, <3>8 DEF PagesInv
    <2>2. CASE Pages!Raise
      <3>1. Pages!Within(0, Limit) \subseteq Pages!Row BY <1>t, WithinType
      <3>2. Limit' \in Nat \ {0} BY <2>2, <1>t DEF Pages!Raise
      <3>3. Pages!TypeOK'
        <4>1. PICK more : HasEnded' = ~more BY <2>2 DEF Pages!Raise
        <4>4. HasEnded' \in BOOLEAN BY <4>1
        <4>2. Rows' \in Seq(Pages!Row) /\ Way' \in Pages!Ways /\ moved' \in BOOLEAN BY <2>0, <1>t DEF Pages!TypeOK
        <4>3. Offset' \in Nat /\ Holds' \subseteq Pages!Row BY <2>2, <1>t, <3>1 DEF Pages!Raise
        <4> QED BY <3>2, <4>2, <4>3, <4>4 DEF Pages!TypeOK
      <3>4. Offset = 0 BY <2>2, <1>t DEF KnownRows, Pages!Raise
      <3>5. Pages!Count >= Len(Rows) => Limit >= Len(Rows) BY <1>t, <3>4 DEF Pages!Count
      <3>6. HasEnded' => Holds' = Pages!Whole
        <4> SUFFICES ASSUME HasEnded' PROVE Holds' = Pages!Whole OBVIOUS
        <4>0. PICK more \in Pages!Says : HasEnded' = ~more BY <2>2 DEF Pages!Raise
        <4>3. ~(Offset + Pages!Count < Len(Rows)) BY <4>0 DEF Pages!Says
        <4>1. Limit >= Len(Rows) BY <1>t, <1>c, <3>4, <3>5, <4>3
        <4>2. Pages!Within(0, Limit) = Pages!Whole BY <1>t, <4>1, WithinAll
        <4> QED BY <4>2, <2>2 DEF Pages!Raise
      <3>7. KnownRows' BY <2>0, <2>2, <2>h, <3>4, <3>6 DEF KnownRows, Pages!Raise
      <3> QED BY <3>3, <3>7 DEF PagesInv
    <2>3. CASE Pages!Stride
      <3>1. Pages!Within(Offset, Limit) \subseteq Pages!Row BY <1>t, WithinType
      <3>2. Offset' = Offset + Limit /\ Offset' \in Nat BY <2>3, <1>t DEF Pages!Stride
      <3>3. Pages!TypeOK' BY <2>0, <2>3, <1>t, <3>1, <3>2 DEF Pages!Stride, Pages!TypeOK
      <3>4. Pages!Within(0, Offset) \cup Pages!Within(Offset, Limit) = Pages!Within(0, Offset + Limit) BY <1>t, WithinJoin
      <3>5. Pages!Within(0, Offset') = Pages!Within(0, Offset + Limit) BY <3>2
      <3>6. ~moved => Holds' = Pages!Within(0, Offset') BY <2>0, <2>3, <1>t, <3>4, <3>5 DEF Pages!Stride, KnownRows
      <3>7. HasEnded' => Offset' >= Len(Rows)
        <4>1. HasEnded' => Pages!Count = 0 BY <2>3, Zenon DEF Pages!Stride
        <4>2. Pages!Count = 0 => Offset' >= Len(Rows) BY <1>c, <1>t, <3>2
        <4> QED BY <4>1, <4>2
      <3>8. KnownRows' BY <2>0, <2>3, <3>2, <3>6, <3>7 DEF KnownRows, Pages!Stride, Pages!Within
      <3> QED BY <3>3, <3>8 DEF PagesInv
    <2> QED BY <1>1, <2>1, <2>2, <2>3 DEF Pages!Ask
  <1>2. CASE Pages!Change
    <2>1. Pages!TypeOK' BY <1>2, <1>t DEF Pages!Change, Pages!TypeOK
    <2>2. KnownRows' BY <1>2, <1>t DEF Pages!Change, KnownRows
    <2> QED BY <2>1, <2>2 DEF PagesInv
  <1>3. CASE UNCHANGED Pages!vars
    <2>1. Pages!TypeOK' BY <1>3, <1>t DEF Pages!vars, Pages!TypeOK
    <2>2. KnownRows' BY <1>3, <1>t DEF Pages!vars, KnownRows, Pages!Within, Pages!Whole
    <2> QED BY <2>1, <2>2 DEF PagesInv
  <1> QED BY <1>1, <1>2, <1>3 DEF Pages!Next

\* A client of the paged commands that has stopped holds all rows, for every
\* Rows and limit, each of the three ways (Total, Offset, Truncated in meta).
THEOREM PagesComplete == Pages!Spec => []Pages!Complete
  <1>1. PagesInv => Pages!Complete
    <2> SUFFICES ASSUME PagesInv, HasEnded, moved => Way = "raise" PROVE Holds = Pages!Whole BY DEF Pages!Complete
    <2>t. Pages!TypeOK /\ KnownRows /\ Offset \in Nat BY DEF PagesInv, Pages!TypeOK
    <2>1. CASE Way = "raise" BY <2>1, <2>t DEF KnownRows
    <2>2. CASE Way # "raise"
      <3>1. Holds = Pages!Within(0, Offset) /\ Offset >= Len(Rows) BY <2>2, <2>t DEF KnownRows
      <3> QED BY <3>1, <2>t, WithinAll
    <2> QED BY <2>1, <2>2
  <1> QED BY <1>1, PagesInitInv, PagesNextInv, PTL DEF Pages!Spec

LEMMA SessionInvariance == ClientSpec => []SessionInv
  <1>1. SessionInv /\ [ClientNext]_<<vars, reviewVars>> => SessionInv'
    BY SessionInvStep
  <1> QED BY <1>1, SessionInvInit, PTL DEF ClientSpec

\* What a client that has stopped asking, in a way that Exact names, has got.
AnswerWhole == Exact /\ s.pc = "done" /\ (moved => s.how = "raise") => s.got = Range(whole)
\* A client that has stopped asking the query commands holds the whole answer
\* and nothing else, for every index, question and limit, if no index run came
\* in between, and with a raised limit also if one did (Total, Offset and
\* Truncated in the answer's meta).
THEOREM AnswerIsWhole == ClientSpec => []AnswerWhole
  <1>1. SessionInv /\ Pages!Complete => AnswerWhole
    <2> SUFFICES ASSUME SessionInv, Pages!Complete, Exact, s.pc = "done", moved => s.how = "raise" PROVE s.got = Range(whole)
      BY DEF AnswerWhole
    <2>1. Holds = Pages!Whole
      BY ExactShape DEF Pages!Complete
    <2>2. InSession
      BY IdleIsNotExact DEF SessionInv
    <2>3. DOMAIN whole = 1..Len(whole)
      BY <2>2, PageOfSession
    <2> QED BY <2>1, <2>3, ExactShape DEF Pages!Whole, Range
  <1> QED BY <1>1, SessionInvariance, PagesImplemented, PagesComplete, PTL DEF ImplementsPages

-----------------------------------------------------------------------------
(* Who reads the text.                                                     *)

Texts == {"refs", "tests", "impl", "imports", "lits"}

LEMMA TextAnswer ==
  ASSUME InSession, Ask, s.text, s.how = "raise", Plain(s), s.verb \in Texts, s'.pc = "done"
  PROVE  s'.got = Range(whole)
  <1> DEFINE t == Resolve(d, s.verb, s.arg)[1]
             a == Answer(d, s, t, s.off)
             printed == Printed(s, a)
             n == Len(whole)
             m == Held(n, s.lim, 0)
             more == a.truncated \/ Hidden(a, printed)
  <1>1. s.lim \in Nat \ {0} /\ s.off = 0 /\ d \in Tables /\ whole = Whole(d, s) /\ s.verb \in Verbs
    BY DEF InSession
  <1>2. s'.got = Range(printed) /\ ~more
    <2>1. Read(Range(printed), s.off, IF more THEN 2 * s.lim ELSE s.lim, more)
      BY DEF Ask
    <2> HIDE DEF printed, more
    <2>2. s'.got = Range(printed) /\ s'.pc = IF more THEN "asks" ELSE "done"
      BY <2>1 DEF Read, InSession
    <2> QED BY <2>2
  <1>3. whole = Unlimited(d, s.verb, t) /\ List(whole, n) /\ n \in Nat
    <2>1. whole = Unlimited(d, s.verb, t)
      BY <1>1 DEF Whole, Ask
    <2>2. List(whole, n)
      BY <1>1, WholeRows
    <2> QED BY <2>1, <2>2 DEF List
  <1>4. 0 \in Nat /\ a = Answer(d, s, t, 0) /\ Indexed3(d)
    BY <1>1, TablesIndexed
  <1> HIDE DEF t, n, a
  <1>5. m \in Nat /\ (m < s.lim => m = n) /\ (~(m < n) => m = n)
    BY <1>1, <1>3 DEF Held
  <1> HIDE DEF m
  <1>6. List(a.shown, m) /\ Values(a.shown) = Slice(whole, n, s.lim, 0) /\ (~a.truncated => m = n)
    <2>1. CASE s.verb = "lits"
      <3>1. s.verb = "lits" /\ s.lim \in Nat \ {0} /\ 0 \in Nat /\ List(Unlimited(d, s.verb, t), n)
        BY <1>1, <1>3, <2>1
      <3>2. LET b == Answer(d, s, t, 0)
                k == Held(n, s.lim, 0)
            IN /\ List(b.shown, k) /\ Values(b.shown) = Slice(Unlimited(d, s.verb, t), n, s.lim, 0)
               /\ b.total = n /\ (b.truncated <=> k < n)
        BY ONLY <3>1, LiteralAnswer
      <3> QED BY <1>3, <1>4, <1>5, <3>2 DEF m
    <2>2. CASE s.verb # "lits"
      <3>1. PagedVerb(s, 0) /\ s.lim \in Nat \ {0} /\ 0 \in Nat /\ List(Unlimited(d, s.verb, t), n) /\ Indexed3(d) /\ Plain(s)
        BY <1>1, <1>3, <1>4, <2>2 DEF PagedVerb, Texts
      <3>2. LET b == Answer(d, s, t, 0)
                k == Held(n, s.lim, 0)
            IN /\ List(b.shown, k) /\ Values(b.shown) = Slice(Unlimited(d, s.verb, t), n, s.lim, 0)
               /\ b.total = k /\ (b.truncated <=> k >= s.lim)
        BY ONLY <3>1, PagedAnswer
      <3>3. ~(m >= s.lim) => m < s.lim
        BY <1>1, <1>5
      <3> QED BY <1>3, <1>4, <1>5, <3>2, <3>3 DEF m
    <2> QED BY <2>1, <2>2
  <1>7. Len(a.shown) = m
    BY <1>6, ListLen
  <1>8. PICK k \in Nat : List(printed, k)
    BY <1>6, PrintedAll
  <1> HIDE DEF printed
  <1>9. Len(printed) = k
    BY <1>8, ListLen
  <1>10. ~(m > k) /\ ~a.truncated
    BY <1>2, <1>7, <1>9 DEF Hidden
  <1>11. Values(printed) = Values(a.shown)
    <2>1. Len(printed) >= m
      BY <1>5, <1>8, <1>9, <1>10
    <2> QED BY <1>6, <2>1, PrintedAll DEF printed
  <1>12. Range(printed) = Values(printed) /\ Range(whole) = {whole[i] : i \in 1..n}
    BY <1>3, <1>8, Values1
  <1>13. Slice(whole, n, s.lim, 0) = {whole[i] : i \in 1..n}
    <2>1. Slice(whole, n, s.lim, 0) = {whole[0 + i] : i \in 1..n}
      BY <1>6, <1>10 DEF Slice, m
    <2>2. \A i \in 1..n : 0 + i = i
      BY <1>3
    <2> QED BY <2>1, <2>2
  <1> QED BY <1>2, <1>6, <1>11, <1>12, <1>13

LEMMA TextVerbs ==
  ASSUME InSession, s.text, s.verb # "impact", s.verb \notin Repeats \cup {"file", "exports"}
  PROVE  s.verb \in Texts
  BY DEF InSession, Verbs, SymbolVerbs, Repeats, Texts

\* Who reads the text of a query command, and asks with a larger limit as long
\* as a line says that there is more, has the whole answer in the end, for
\* every index, question, limit and cap of the text.
THEOREM TextsAreComplete == ClientSpec => []TextComplete
  <1>1. ClientInit => TextComplete
    <2> SUFFICES ASSUME ClientInit PROVE s.pc # "done"
      BY DEF TextComplete
    <2>1. CASE Init /\ review = Off
      BY <2>1, InSessionInit
    <2>2. CASE s = Idle
      <3>1. Idle.pc = "off"
        BY DEF Idle
      <3> QED BY <2>2, <3>1
    <2> QED BY <2>1, <2>2 DEF ClientInit
  <1>2. SessionInv /\ TextComplete /\ [ClientNext]_<<vars, reviewVars>> => TextComplete'
    <2> SUFFICES ASSUME SessionInv, TextComplete, [ClientNext]_<<vars, reviewVars>> PROVE TextComplete'
      OBVIOUS
    <2>1. CASE UNCHANGED <<s, whole, moved>>
      BY <2>1 DEF TextComplete
    <2>2. CASE InSession /\ Refuse
      <3>1. s'.pc = "refused"
        BY <2>2 DEF Refuse, InSession
      <3> QED BY <3>1 DEF TextComplete
    <2>3. CASE InSession /\ Ask
      <3>1. Keeps3 /\ whole' = whole
        BY <2>3, AskKeeps
      <3>2. /\ s'.verb = s.verb /\ s'.how = s.how /\ s'.text = s.text
            /\ s'.sel = s.sel /\ s'.room = s.room /\ s'.keep = s.keep
        BY <2>3, <3>1 DEF Keeps3, InSession
      <3> SUFFICES ASSUME s'.text, s'.how = "raise", s'.pc = "done", s'.verb # "impact", s'.sel = "all", s'.room = 0, s'.keep = "",
                          s'.verb \notin Repeats \cup {"file", "exports"}
                   PROVE  s'.got = Range(whole')
        BY DEF TextComplete
      <3>3. s.text /\ s.how = "raise" /\ Plain(s) /\ s.verb \in Texts
        BY <2>3, <3>2, TextVerbs DEF Plain
      <3> QED BY <2>3, <3>1, <3>3, TextAnswer
    <2>4. CASE InSession /\ Reindex
      <3>1. moved' = TRUE
        BY <2>4, ReindexKeeps
      <3> QED BY <3>1 DEF TextComplete
    <2> QED BY <2>1, <2>2, <2>3, <2>4, SessionSteps DEF vars
  <1> QED BY <1>1, <1>2, SessionInvariance, PTL DEF ClientSpec

-----------------------------------------------------------------------------
(* Every way of asking for a symbol finds it.                              *)

\* What an order returns.
LEMMA EachRange ==
  ASSUME NEW rows, NEW n, NEW S, Each(rows, n, S)
  PROVE  Range(rows) = S /\ (rows = <<>> <=> S = {})
  <1>1. List(rows, n) /\ {rows[i] : i \in 1..n} = S
    BY DEF Each
  <1>2. DOMAIN rows = 1..n /\ n \in Nat /\ (rows = <<>> <=> n = 0)
    BY <1>1, ListLen DEF List
  <1>3. Range(rows) = S
    BY <1>1, <1>2 DEF Range
  <1>4. n = 0 <=> S = {}
    BY <1>1, <1>2
  <1> QED BY <1>2, <1>3, <1>4

LEMMA KindTyped == ASSUME NEW i \in Syms PROVE KindRank[Sym[i].kind] \in Int
  BY KindsAssumption DEF KindRank

LEMMA ByKindRange ==
  ASSUME NEW S \in SUBSET Syms
  PROVE  Range(ByKind(S)) = S /\ (ByKind(S) = <<>> <=> S = {})
  <1> DEFINE base == [i \in S |-> <<KindRank[Sym[i].kind], Sym[i].file, Sym[i].first>>]
             key  == [i \in S |-> Append(base[i], i)]
  <1>1. ByKind(S) = Ordered(S, key)
    <2>1. key = [i \in S |-> Append(<<KindRank[Sym[i].kind], Sym[i].file, Sym[i].first>>, i)]
      OBVIOUS
    <2> QED BY <2>1 DEF ByKind, OrderBy
  <1>2. base \in [S -> Seq(Int)] /\ \A i \in S : Len(base[i]) = 3
    <2> SUFFICES ASSUME NEW i \in S PROVE base[i] \in Seq(Int) /\ Len(base[i]) = 3
      OBVIOUS
    <2>1. KindRank[Sym[i].kind] \in Int /\ Sym[i].file \in Int /\ Sym[i].first \in Int
      BY KindTyped, SymTyped
    <2> QED BY <2>1
  <1> HIDE DEF base
  <1>3. Each(Ordered(S, key), Cardinality(S), S)
    BY <1>2, TablesFinite, OrderedRows
  <1> QED BY <1>1, <1>3, EachRange

LEMMA MethodRange ==
  ASSUME NEW db, db.syms \subseteq Syms, NEW t
  PROVE  Range(lookupMethod(db, t)) =
           {i \in db.syms : /\ Sym[i].name = t.name /\ Sym[i].of = t.type /\ t.type # 0
                            /\ Sym[i].ptr \/ ~t.ptr
                            /\ t.pkg = <<>> \/ Sym[i].pkg = t.pkg \/ EndsIn(Sym[i].pkg, t.pkg)}
  <1> DEFINE S == {i \in db.syms : /\ Sym[i].name = t.name /\ Sym[i].of = t.type /\ t.type # 0
                                   /\ Sym[i].ptr \/ ~t.ptr
                                   /\ t.pkg = <<>> \/ Sym[i].pkg = t.pkg \/ EndsIn(Sym[i].pkg, t.pkg)}
             base == [i \in S |-> <<Sym[i].file, Sym[i].first>>]
             key  == [i \in S |-> Append(base[i], i)]
  <1>1. lookupMethod(db, t) = Ordered(S, key)
    <2>1. key = [i \in S |-> Append(<<Sym[i].file, Sym[i].first>>, i)]
      OBVIOUS
    <2> QED BY <2>1 DEF lookupMethod, OrderBy
  <1>0. S \subseteq Syms
    OBVIOUS
  <1> HIDE DEF S
  <1>2. base \in [S -> Seq(Int)] /\ \A i \in S : Len(base[i]) = 2
    <2> SUFFICES ASSUME NEW i \in S PROVE base[i] \in Seq(Int) /\ Len(base[i]) = 2
      OBVIOUS
    <2>1. Sym[i].file \in Int /\ Sym[i].first \in Int
      BY <1>0, SymTyped
    <2> QED BY <2>1
  <1> HIDE DEF base
  <1>3. Each(Ordered(S, key), Cardinality(S), S)
    BY <1>0, <1>2, TablesFinite, OrderedRows
  <1> QED BY <1>1, <1>3, EachRange DEF S

\* The only row, and no row.
LEMMA FirstOfOne ==
  ASSUME NEW i \in Nat
  PROVE  First(OrderBy({i}, LAMBDA x : <<>>)) = i
  <1>1. IsFiniteSet({i}) /\ Cardinality({i}) = 1
    BY FS_Singleton
  <1>2. Each(Inserted({i}), 1, {i})
    BY <1>1, InsertedEach
  <1>3. List(Inserted({i}), 1) /\ {Inserted({i})[k] : k \in 1..1} = {i}
    BY <1>2 DEF Each
  <1>4. Inserted({i}) # <<>> /\ Inserted({i})[1] = i
    <2> DEFINE rows == Inserted({i})
    <2> HIDE DEF rows
    <2>1. rows # <<>>
      BY <1>3, ListLen DEF rows
    <2>2. rows[1] \in {rows[k] : k \in 1..1}
      OBVIOUS
    <2> QED BY <1>3, <2>1, <2>2 DEF rows
  <1> QED BY <1>4 DEF First, Inserted

LEMMA FirstOfNone == First(OrderBy({}, LAMBDA x : <<>>)) = 0
  <1>1. IsFiniteSet({}) /\ Cardinality({}) = 0
    BY FS_EmptySet
  <1>2. Each(Inserted({}), 0, {})
    BY <1>1, InsertedEach
  <1>3. Inserted({}) = <<>>
    BY <1>2, EachRange
  <1> QED BY <1>3 DEF First, Inserted

LEMMA RowsAreNotZero == 0 \notin Syms /\ 0 \notin DOMAIN Refs
  <1>1. Len(Sym) \in Nat /\ Syms = 1..Len(Sym) /\ Len(Refs) \in Nat /\ DOMAIN Refs = 1..Len(Refs)
    BY TablesAssumption DEF Syms
  <1> QED BY <1>1

LEMMA SymbolResolves ==
  ASSUME NEW db \in Tables, Consistent(db), NEW i \in db.syms
  PROVE  /\ i \in Range(LookupByName(db, Shown(i)))
         /\ LET found == Range(LookupByName(db, InPackage(i))) IN i \in found /\ \A j \in found : Sym[j].pkg = Sym[i].pkg
         /\ ResolvePosition(db, [file |-> Sym[i].file, line |-> Sym[i].line, col |-> Sym[i].col]) = i
  <1>1. db.syms \subseteq Syms /\ db.refs \subseteq DOMAIN Refs
    BY DEF Tables
  <1>2. i \in Range(LookupByName(db, Shown(i)))
    <2>1. CASE Sym[i].of = 0
      <3> DEFINE A == {j \in db.syms : Sym[j].name = Sym[i].name}
      <3>1. Range(ByKind(A)) = A /\ ByKind(A) # <<>>
        <4>1. A \in SUBSET Syms /\ A # {}
          BY <1>1
        <4> QED BY <4>1, ByKindRange
      <3>2. LookupByName(db, Shown(i)) = lookupSimple(db, Sym[i].name)
        BY <2>1 DEF LookupByName, Shown
      <3>3. lookupSimple(db, Sym[i].name) = ByKind(A)
        BY <3>1 DEF lookupSimple, FirstOf
      <3> QED BY <3>1, <3>2, <3>3
    <2>2. CASE Sym[i].of # 0
      <3>1. LookupByName(db, Shown(i)) = lookupMethod(db, Shown(i))
        BY <2>2 DEF LookupByName, Shown
      <3>2. i \in {j \in db.syms : /\ Sym[j].name = Shown(i).name /\ Sym[j].of = Shown(i).type /\ Shown(i).type # 0
                                   /\ Sym[j].ptr \/ ~Shown(i).ptr
                                   /\ Shown(i).pkg = <<>> \/ Sym[j].pkg = Shown(i).pkg \/ EndsIn(Sym[j].pkg, Shown(i).pkg)}
        BY <2>2 DEF Shown
      <3> QED BY <1>1, <3>1, <3>2, MethodRange
    <2> QED BY <2>1, <2>2
  <1>3. LET found == Range(LookupByName(db, InPackage(i))) IN i \in found /\ \A j \in found : Sym[j].pkg = Sym[i].pkg
    <2> DEFINE A == {j \in db.syms : Sym[j].name = Sym[i].name /\ Sym[j].pkg = Sym[i].pkg}
    <2>1. Range(ByKind(A)) = A /\ ByKind(A) # <<>>
      <3>1. A \in SUBSET Syms /\ A # {}
        BY <1>1
      <3> QED BY <3>1, ByKindRange
    <2>2. LookupByName(db, InPackage(i)) = Qualified(db, Sym[i].pkg, Sym[i].name)
      BY DEF LookupByName, InPackage, lookupQualified
    <2>3. Qualified(db, Sym[i].pkg, Sym[i].name) = ByKind(A)
      BY <2>1 DEF Qualified, FirstOf
    <2> QED BY <2>1, <2>2, <2>3
  <1>4. ResolvePosition(db, [file |-> Sym[i].file, line |-> Sym[i].line, col |-> Sym[i].col]) = i
    <2> DEFINE p == [file |-> Sym[i].file, line |-> Sym[i].line, col |-> Sym[i].col]
               names == {j \in db.syms : Sym[j].file = p.file /\ Sym[j].line = p.line}
    <2>1. {j \in names : Sym[j].col = p.col} = {i}
      BY DEF Consistent, Spot
    <2>2. i \in Nat /\ i # 0
      BY <1>1, TablesFinite, RowsAreNotZero
    <2>3. First(OrderBy({j \in names : Sym[j].col = p.col}, LAMBDA x : <<>>)) = i
      BY <2>1, <2>2, FirstOfOne
    <2> QED BY <2>2, <2>3 DEF ResolvePosition, OrElse
  <1> QED BY <1>2, <1>3, <1>4

LEMMA ReferenceResolves ==
  ASSUME NEW db \in Tables, Consistent(db), NEW r \in db.refs
  PROVE  ResolvePosition(db, [file |-> Refs[r].file, line |-> Refs[r].line, col |-> Refs[r].col]) = Refs[r].sym
  <1> DEFINE p == [file |-> Refs[r].file, line |-> Refs[r].line, col |-> Refs[r].col]
             names == {j \in db.syms : Sym[j].file = p.file /\ Sym[j].line = p.line}
             refs == {q \in db.refs : Refs[q].file = p.file /\ Refs[q].line = p.line}
  <1>1. {j \in names : Sym[j].col = p.col} = {}
    BY DEF Consistent, Spot
  <1>2. {q \in refs : Refs[q].col = p.col} = {r}
    BY DEF Consistent, Spot
  <1>3. r \in Nat /\ r # 0 /\ Refs[r].sym # 0
    <2>1. r \in DOMAIN Refs
      BY DEF Tables
    <2> QED BY <2>1, TablesFinite, RowsAreNotZero, RefTyped
  <1>4. First(OrderBy({j \in names : Sym[j].col = p.col}, LAMBDA x : <<>>)) = 0
    BY <1>1, FirstOfNone
  <1>5. First(OrderBy({q \in refs : Refs[q].col = p.col}, LAMBDA x : <<>>)) = r
    BY <1>2, <1>3, FirstOfOne
  <1> QED BY <1>3, <1>4, <1>5 DEF ResolvePosition, OrElse

\* The index of a session is one that a run leaves.
Healthy == s = Idle \/ Consistent(d)

LEMMA HealthyInit == ClientInit => Healthy
  BY SessionsAssumption DEF ClientInit, Init, Indexes, Healthy

LEMMA HealthyStep ==
  ASSUME SessionInv, Healthy, [ClientNext]_<<vars, reviewVars>>
  PROVE  Healthy'
  <1>1. CASE s = Idle /\ UNCHANGED <<s, whole, moved>>
    BY <1>1 DEF Healthy, Idle
  <1>2. CASE UNCHANGED <<vars, reviewVars>>
    BY <1>2 DEF Healthy, vars, Idle
  <1>3. CASE InSession /\ (Refuse \/ Ask)
    <2>1. s # Idle
      BY <1>3 DEF InSession, Refuse, Ask, Idle
    <2>2. Consistent(d) /\ d' = d
      BY <1>3, <2>1 DEF Healthy, Refuse, Ask
    <2> QED BY <2>2 DEF Healthy
  <1>4. CASE Reindex
    <2>1. Consistent(d')
      BY <1>4 DEF Reindex
    <2> QED BY <2>1 DEF Healthy, Consistent
  <1> QED BY <1>1, <1>2, <1>3, <1>4, SessionSteps

LEMMA HealthyInvariance == ClientSpec => [](SessionInv /\ Healthy)
  <1>1. SessionInv /\ Healthy /\ [ClientNext]_<<vars, reviewVars>> => Healthy'
    BY HealthyStep
  <1> QED BY <1>1, HealthyInit, SessionInvariance, PTL DEF ClientSpec

\* The form in which a result shows a symbol, its name with the path of its
\* package, the place of its name and of each of its references resolve to it,
\* for every index that a run leaves.
THEOREM NamesAlwaysResolve == ClientSpec => []NamesResolve
  <1>1. SessionInv /\ Healthy => NamesResolve
    <2> SUFFICES ASSUME SessionInv, Healthy, Reading("refs")
                 PROVE  /\ \A i \in d.syms :
                             /\ i \in Range(LookupByName(d, Shown(i)))
                             /\ LET found == Range(LookupByName(d, InPackage(i)))
                                IN i \in found /\ \A j \in found : Sym[j].pkg = Sym[i].pkg
                             /\ ResolvePosition(d, [file |-> Sym[i].file, line |-> Sym[i].line, col |-> Sym[i].col]) = i
                        /\ \A r \in d.refs :
                             ResolvePosition(d, [file |-> Refs[r].file, line |-> Refs[r].line, col |-> Refs[r].col]) = Refs[r].sym
      BY DEF NamesResolve
    <2>1. s # Idle
      <3>1. Idle.pc = "off"
        BY DEF Idle
      <3> QED BY <3>1 DEF Reading
    <2>2. Consistent(d) /\ d \in Tables
      BY <2>1 DEF Healthy, SessionInv, InSession
    <2> QED BY <2>2, SymbolResolves, ReferenceResolves
  <1> QED BY <1>1, HealthyInvariance, PTL

-----------------------------------------------------------------------------
(* The impact of a symbol.                                                 *)

\* The callers in the rows of a query for callers.
NearIds(db, T, kept) == {Calls[c].from : c \in {c \in db.calls : Calls[c].to \in T /\ Calls[c].from \in kept}}
FarIds(db, T, kept) ==
  {Calls[c].from : c \in {c \in db.calls : Calls[c].from \in kept /\ \E l \in db.calls : Calls[l].to \in T /\ Calls[c].to = Calls[l].from}}
CallerIds(db, T, direct, kept) == NearIds(db, T, kept) \cup (IF direct THEN {} ELSE FarIds(db, T, kept))

\* One row for each path.
LEMMA ImageNoMore ==
  ASSUME NEW f, IsFiniteSet(DOMAIN f), f = [x \in DOMAIN f |-> f[x]], NEW n \in Nat, Cardinality(DOMAIN f) <= n
  PROVE  LET T == {f[x] : x \in DOMAIN f} IN IsFiniteSet(T) /\ Cardinality(T) <= n /\ Cardinality(T) \in Nat
  <1> DEFINE T == {f[x] : x \in DOMAIN f}
  <1>1. f \in Surjection(DOMAIN f, T)
    BY DEF Surjection
  <1> HIDE DEF T
  <1>2. IsFiniteSet(T) /\ Cardinality(T) <= Cardinality(DOMAIN f)
    BY <1>1, FS_Surjection
  <1>3. Cardinality(T) \in Nat /\ Cardinality(DOMAIN f) \in Nat
    BY <1>2, FS_CardinalityType
  <1> QED BY <1>2, <1>3 DEF T

LEMMA LensAreNats == Len(Sym) \in Nat /\ Len(Calls) \in Nat /\ Len(Calls) * Len(Calls) \in Nat /\ Uncut \in Nat
  <1>1. Len(Sym) \in Nat /\ Len(Calls) \in Nat
    BY TablesAssumption
  <1>2. Len(Calls) * Len(Calls) \in Nat
    BY <1>1
  <1> QED BY <1>1, <1>2 DEF Uncut

LEMMA CallsCount ==
  ASSUME NEW K, K \subseteq DOMAIN Calls
  PROVE  IsFiniteSet(K) /\ Cardinality(K) \in Nat /\ Cardinality(K) <= Len(Calls)
  <1>1. Len(Calls) \in Nat /\ DOMAIN Calls = 1..Len(Calls)
    BY TablesAssumption
  <1>2. IsFiniteSet(1..Len(Calls)) /\ Cardinality(1..Len(Calls)) = Len(Calls)
    BY <1>1, FS_Interval
  <1>3. IsFiniteSet(K) /\ Cardinality(K) <= Cardinality(DOMAIN Calls)
    BY <1>1, <1>2, FS_Subset
  <1> QED BY <1>1, <1>2, <1>3, FS_CardinalityType

LEMMA HopsNoMore ==
  ASSUME NEW db, Indexed3(db), NEW T, NEW direct, NEW kept
  PROVE  Cardinality(HopRows(db, T, direct, kept)) \in 0..Uncut
  <1> DEFINE near == Hop1(db, T, kept)
             two  == Hop2(db, T, kept)
             rows == HopRows(db, T, direct, kept)
             C    == Len(Calls)
             CC   == C * C
  <1>0. C \in Nat /\ CC \in Nat /\ Len(Sym) \in Nat
    BY LensAreNats
  <1>1. IsFiniteSet(near) /\ Cardinality(near) <= C /\ Cardinality(near) \in Nat
    <2> DEFINE K == {c \in db.calls : Calls[c].to \in T /\ Calls[c].from \in kept}
               f == [c \in K |-> <<1, Calls[c].from, c, c>>]
    <2>1. IsFiniteSet(K) /\ Cardinality(K) <= C
      BY CallsCount DEF Indexed3
    <2>2. DOMAIN f = K /\ f = [x \in DOMAIN f |-> f[x]]
      OBVIOUS
    <2>3. near = {f[c] : c \in DOMAIN f}
      BY DEF Hop1
    <2> HIDE DEF f, K, near, C
    <2> QED BY <1>0, <2>1, <2>2, <2>3, ImageNoMore
  <1>2. IsFiniteSet(two) /\ Cardinality(two) <= CC /\ Cardinality(two) \in Nat
    <2> DEFINE last  == {c \in db.calls : Calls[c].to \in T}
               first == {c \in db.calls : Calls[c].from \in kept}
               K == {e \in last \X first : Calls[e[2]].to = Calls[e[1]].from}
               f == [e \in K |-> <<2, Calls[e[2]].from, e[1], e[2]>>]
               D == DOMAIN Calls
    <2>1. IsFiniteSet(K) /\ Cardinality(K) <= CC
      <3>1. IsFiniteSet(D) /\ Cardinality(D) = C
        <4>1. D = 1..C
          BY TablesAssumption
        <4> HIDE DEF D, C
        <4> QED BY <1>0, <4>1, FS_Interval
      <3>2. IsFiniteSet(D \X D) /\ Cardinality(D \X D) = Cardinality(D) * Cardinality(D)
        BY <3>1, FS_Product
      <3>3. K \subseteq D \X D
        BY DEF Indexed3
      <3> HIDE DEF K
      <3>4. IsFiniteSet(K) /\ Cardinality(K) <= Cardinality(D \X D)
        BY <3>2, <3>3, FS_Subset
      <3> QED BY <3>1, <3>2, <3>4
    <2>2. DOMAIN f = K /\ f = [x \in DOMAIN f |-> f[x]]
      OBVIOUS
    <2>3. two = {f[e] : e \in DOMAIN f}
      BY DEF Hop2
    <2> HIDE DEF f, K, two, CC
    <2> QED BY <1>0, <2>1, <2>2, <2>3, ImageNoMore
  <1>3. rows \subseteq near \cup two
    BY DEF HopRows
  <1> HIDE DEF near, two, rows
  <1>4. /\ IsFiniteSet(near \cup two)
        /\ Cardinality(near \cup two) = Cardinality(near) + Cardinality(two) - Cardinality(near \cap two)
        /\ IsFiniteSet(near \cap two)
    BY <1>1, <1>2, FS_Union, FS_Intersection
  <1>5. IsFiniteSet(rows) /\ Cardinality(rows) <= Cardinality(near \cup two)
    BY <1>3, <1>4, FS_Subset
  <1>6. Cardinality(near \cap two) \in Nat /\ Cardinality(rows) \in Nat
    BY <1>4, <1>5, FS_CardinalityType
  <1>7. Uncut = Len(Sym) + C + CC
    BY DEF Uncut
  <1> HIDE DEF C, CC
  <1>8. Cardinality(rows) \in 0..Uncut
    BY <1>0, <1>1, <1>2, <1>4, <1>5, <1>6, <1>7
  <1> QED BY <1>8 DEF rows

LEMMA HopIds ==
  ASSUME NEW db, NEW T, NEW direct, NEW kept
  PROVE  {h[2] : h \in HopRows(db, T, direct, kept)} = CallerIds(db, T, direct, kept)
  <1> DEFINE near == Hop1(db, T, kept)
             two  == Hop2(db, T, kept)
             far  == {h \in two : \A e \in near : e[2] # h[2]}
  <1>1. {h[2] : h \in near} = NearIds(db, T, kept)
    <2> DEFINE K == {c \in db.calls : Calls[c].to \in T /\ Calls[c].from \in kept}
    <2>1. near = {<<1, Calls[c].from, c, c>> : c \in K} /\ NearIds(db, T, kept) = {Calls[c].from : c \in K}
      BY DEF Hop1, NearIds
    <2>2. \A c \in K : <<1, Calls[c].from, c, c>>[2] = Calls[c].from
      OBVIOUS
    <2> HIDE DEF K, near
    <2>3. {h[2] : h \in near} = {<<1, Calls[c].from, c, c>>[2] : c \in K}
      BY <2>1
    <2> QED BY <2>1, <2>2, <2>3
  <1>2. {h[2] : h \in two} = FarIds(db, T, kept)
    <2>1. ASSUME NEW h \in two PROVE h[2] \in FarIds(db, T, kept)
      <3>1. PICK e \in {c \in db.calls : Calls[c].to \in T} \X {c \in db.calls : Calls[c].from \in kept} :
              Calls[e[2]].to = Calls[e[1]].from /\ h = <<2, Calls[e[2]].from, e[1], e[2]>>
        BY DEF Hop2
      <3>2. h[2] = Calls[e[2]].from
        BY <3>1
      <3> QED BY <3>1, <3>2 DEF FarIds
    <2>2. ASSUME NEW i \in FarIds(db, T, kept) PROVE \E h \in two : h[2] = i
      <3>1. PICK c \in db.calls, l \in db.calls :
              i = Calls[c].from /\ Calls[c].from \in kept /\ Calls[l].to \in T /\ Calls[c].to = Calls[l].from
        BY DEF FarIds
      <3> DEFINE e == <<l, c>>
                 h == <<2, Calls[e[2]].from, e[1], e[2]>>
      <3>2. e \in {k \in db.calls : Calls[k].to \in T} \X {k \in db.calls : Calls[k].from \in kept}
        BY <3>1
      <3>3. h \in two
        BY <3>1, <3>2 DEF Hop2
      <3>4. h[2] = i
        BY <3>1
      <3> QED BY <3>3, <3>4
    <2> HIDE DEF two
    <2> QED BY <2>1, <2>2
  <1>3. {h[2] : h \in near \cup far} = {h[2] : h \in near} \cup {h[2] : h \in two}
    <2> HIDE DEF near, two
    <2> QED OBVIOUS
  <1>4. CASE direct
    <2>1. HopRows(db, T, direct, kept) = near
      BY <1>4 DEF HopRows
    <2> HIDE DEF near
    <2> QED BY <1>1, <1>4, <2>1 DEF CallerIds
  <1>5. CASE ~direct
    <2>1. HopRows(db, T, direct, kept) = near \cup far
      BY <1>5 DEF HopRows
    <2> HIDE DEF near, two, far
    <2> QED BY <1>1, <1>2, <1>3, <1>5, <2>1 DEF CallerIds
  <1> QED BY <1>4, <1>5

LEMMA IdsOfHops ==
  ASSUME NEW db, Indexed3(db), NEW T, NEW direct, NEW kept
  PROVE  LET ids == Ids(Hops(db, T, direct, kept))
         IN /\ \E n \in 0..Uncut : List(ids, n)
            /\ Values(ids) = CallerIds(db, T, direct, kept)
            /\ Rowed(ids, Syms)
  <1> DEFINE hops == Hops(db, T, direct, kept)
             rows == HopRows(db, T, direct, kept)
             n    == Cardinality(rows)
             ids  == Ids(hops)
  <1>1. Each(hops, n, rows)
    BY HopsEach
  <1>2. n \in 0..Uncut /\ Uncut \in Nat
    BY HopsNoMore, LensAreNats
  <1>3. {h[2] : h \in rows} = CallerIds(db, T, direct, kept)
    BY HopIds
  <1>4. CallerIds(db, T, direct, kept) \subseteq Syms
    BY CallTyped DEF CallerIds, NearIds, FarIds, Indexed3
  <1> HIDE DEF hops, rows, n
  <1>5. List(hops, n) /\ {hops[i] : i \in 1..n} = rows
    BY <1>1 DEF Each
  <1>6. DOMAIN hops = 1..n
    BY <1>5, ListLen
  <1>7. ids = [i \in 1..n |-> hops[i][2]]
    BY <1>6 DEF Ids, Column
  <1> HIDE DEF ids
  <1>8. List(ids, n)
    BY <1>2, <1>7 DEF List
  <1>9. Values(ids) = {ids[i] : i \in 1..n}
    BY <1>8, Values1
  <1>10. {ids[i] : i \in 1..n} = {h[2] : h \in {hops[i] : i \in 1..n}}
    BY <1>7
  <1>11. Values(ids) = CallerIds(db, T, direct, kept)
    BY <1>3, <1>5, <1>9, <1>10
  <1>12. Rowed(ids, Syms)
    BY <1>2, <1>4, <1>8, <1>9, <1>11 DEF Rowed
  <1> QED BY <1>2, <1>8, <1>11, <1>12 DEF ids, hops

LEMMA OnceOfSyms ==
  ASSUME NEW rows, Rowed(rows, Syms)
  PROVE  (\E n \in 0..Uncut : List(Once(rows), n)) /\ Values(Once(rows)) = Values(rows)
  <1>1. PICK n \in Nat : List(rows, n) /\ \A i \in 1..n : rows[i] \in Syms
    BY DEF Rowed
  <1> DEFINE S == {rows[i] : i \in 1..n}
             m == Cardinality(S)
  <1>2. Each(Once(rows), m, S)
    BY <1>1, OnceIsEach
  <1>3. m \in 0..Uncut
    <2>1. Len(Sym) \in Nat /\ Syms = 1..Len(Sym)
      BY TablesAssumption DEF Syms
    <2>2. IsFiniteSet(Syms) /\ Cardinality(Syms) = Len(Sym)
      <3>1. 1 \in Int /\ Len(Sym) \in Int /\ ~(1 > Len(Sym) /\ Len(Sym) # 0) /\ Len(Sym) - 1 + 1 = Len(Sym)
        BY <2>1
      <3>2. /\ IsFiniteSet(1..Len(Sym))
            /\ Cardinality(1..Len(Sym)) = IF 1 > Len(Sym) THEN 0 ELSE Len(Sym) - 1 + 1
        BY ONLY <3>1, FS_Interval
      <3> QED BY <2>1, <3>1, <3>2
    <2>3. S \subseteq Syms
      BY <1>1
    <2> HIDE DEF S
    <2>4. Cardinality(S) <= Len(Sym) /\ Cardinality(S) \in Nat
      BY <2>2, <2>3, FS_Subset, FS_CardinalityType
    <2>5. Len(Sym) <= Uncut /\ Uncut \in Nat
      BY LensAreNats DEF Uncut
    <2> QED BY <2>1, <2>4, <2>5
  <1>4. List(Once(rows), m)
    BY <1>2 DEF Each
  <1> QED BY <1>1, <1>3, <1>4, OnceValues

\* What the queries of impact list.
Code(db) == {i \in db.syms : InCode(i)}
Testing(db) == {i \in db.syms : IsTest(i)}

LEMMA ImpactCallersValues ==
  ASSUME NEW db, Indexed3(db), NEW T, NEW direct
  PROVE  LET rows == FindImpactCallers(db, T, direct)
         IN (\E n \in 0..Uncut : List(rows, n)) /\ Values(rows) = CallerIds(db, T, direct, Code(db))
  <1> DEFINE ids == Ids(Hops(db, T, direct, Code(db)))
  <1>1. /\ \E n \in 0..Uncut : List(ids, n)
        /\ Values(ids) = CallerIds(db, T, direct, Code(db)) /\ Rowed(ids, Syms)
    BY IdsOfHops
  <1>2. FindImpactCallers(db, T, direct) = IF Cardinality(T) > 1 THEN Once(ids) ELSE ids
    BY DEF FindImpactCallers, Code
  <1> HIDE DEF ids
  <1> QED BY <1>1, <1>2, OnceOfSyms

LEMMA TestsValues ==
  ASSUME NEW db, Indexed3(db), NEW T, NEW direct
  PROVE  LET rows == FindTests(db, T, direct)
         IN (\E n \in 0..Uncut : List(rows, n)) /\ Values(rows) = CallerIds(db, T, direct, Testing(db))
  <1> DEFINE ids == Ids(Hops(db, T, direct, Testing(db)))
  <1>1. Values(ids) = CallerIds(db, T, direct, Testing(db)) /\ Rowed(ids, Syms)
    BY IdsOfHops
  <1>2. FindTests(db, T, direct) = Once(ids)
    BY DEF FindTests, Testing
  <1> HIDE DEF ids
  <1> QED BY <1>1, <1>2, OnceOfSyms

MentionIds(db, t) == {e \in {Refs[r].enc : r \in {r \in db.refs : Refs[r].sym = t}} \ {0, t} : InCode(e)}
LEMMA MentionsEach ==
  ASSUME NEW db, Indexed3(db), NEW t
  PROVE  Each(FindImpactRefs(db, t), Cardinality(MentionIds(db, t)), MentionIds(db, t))
  <1> DEFINE S    == MentionIds(db, t)
             base == [e \in S |-> <<Sym[e].file, Sym[e].name>>]
             key  == [e \in S |-> Append(base[e], e)]
  <1>1. S \subseteq Syms
    BY RefTyped DEF Indexed3, MentionIds
  <1>2. FindImpactRefs(db, t) = Ordered(S, key)
    <2>1. key = [e \in S |-> Append(<<Sym[e].file, Sym[e].name>>, e)]
      OBVIOUS
    <2> QED BY <2>1 DEF FindImpactRefs, OrderBy, MentionIds
  <1> HIDE DEF S
  <1>3. base \in [S -> Seq(Int)] /\ \A e \in S : Len(base[e]) = 2
    <2> SUFFICES ASSUME NEW e \in S PROVE base[e] \in Seq(Int) /\ Len(base[e]) = 2
      OBVIOUS
    <2>1. Sym[e].file \in Int /\ Sym[e].name \in Int
      BY <1>1, SymTyped
    <2> QED BY <2>1
  <1> HIDE DEF base
  <1>4. Each(Ordered(S, key), Cardinality(S), S)
    BY <1>1, <1>3, TablesFinite, OrderedRows
  <1> QED BY <1>2, <1>4 DEF S

Mentions(db, t) == IF IsType(t) \/ Sym[t].kind = "interface" THEN FindImpactRefs(db, t) ELSE <<>>
Impls(db, t) == IF Sym[t].kind = "interface" THEN FindImplementers(db, t, Methods[t]) ELSE <<>>
Rest(db, t) == Values(Page(Mentions(db, t), RefCap, 0)) \cup Values(Page(Impls(db, t), 3 * Uncut, 0))

LEMMA WholePage ==
  ASSUME NEW rows, NEW n \in 0..Uncut, List(rows, n)
  PROVE  (\E m \in Nat : List(Page(rows, 3 * Uncut, 0), m)) /\ Values(Page(rows, 3 * Uncut, 0)) = Values(rows)
  <1>1. 3 * Uncut \in Nat /\ n \in Nat /\ ~(3 * Uncut < n)
    BY LensAreNats
  <1> DEFINE limit == 3 * Uncut
  <1> HIDE DEF limit
  <1>2. LET m == IF limit < n THEN limit ELSE n
        IN List(Page(rows, limit, 0), m) /\ (m = n => Values(Page(rows, limit, 0)) = Values(rows))
    BY <1>1, PageWhole DEF limit
  <1> QED BY <1>1, <1>2 DEF limit

LEMMA PageIsList ==
  ASSUME NEW rows, NEW U, Rowed(rows, U), NEW limit \in Nat
  PROVE  (\E m \in Nat : List(Page(rows, limit, 0), m)) /\ Rowed(Page(rows, limit, 0), U) /\ Values(Page(rows, limit, 0)) \subseteq Values(rows)
  <1>1. PICK n \in Nat : List(rows, n) /\ \A i \in 1..n : rows[i] \in U
    BY DEF Rowed
  <1> DEFINE m == IF limit < n THEN limit ELSE n
             page == Page(rows, limit, 0)
  <1>2. List(page, m) /\ \A i \in 1..m : page[i] = rows[i]
    BY <1>1, PageOfList
  <1>3. m \in Nat /\ 1..m \subseteq 1..n
    OBVIOUS
  <1> HIDE DEF m, page
  <1>4. Values(page) = {page[i] : i \in 1..m} /\ Values(rows) = {rows[i] : i \in 1..n}
    BY <1>1, <1>2, Values1
  <1>5. Rowed(page, U)
    BY <1>1, <1>2, <1>3 DEF Rowed
  <1> QED BY <1>2, <1>3, <1>4, <1>5 DEF page

LEMMA ImpactValues ==
  ASSUME NEW db, Indexed3(db), NEW t, NEW direct
  PROVE  Range(Impact(db, t, direct, Uncut)) =
           CallerIds(db, Targets(db, t), direct, Code(db)) \cup CallerIds(db, Targets(db, t), direct, Testing(db)) \cup Rest(db, t)
  <1> DEFINE T  == Targets(db, t)
             p1 == Page(FindImpactCallers(db, T, direct), 3 * Uncut, 0)
             p2 == Page(Mentions(db, t), RefCap, 0)
             p3 == Page(Impls(db, t), 3 * Uncut, 0)
             p4 == Page(FindTests(db, T, direct), 3 * Uncut, 0)
             all == p1 \o p2 \o p3 \o p4
  <1>0. 3 * Uncut \in Nat /\ RefCap \in Nat
    BY LensAreNats DEF RefCap
  <1>1. (\E m \in Nat : List(p1, m)) /\ Values(p1) = CallerIds(db, T, direct, Code(db))
    BY ImpactCallersValues, WholePage
  <1>2. (\E m \in Nat : List(p4, m)) /\ Values(p4) = CallerIds(db, T, direct, Testing(db))
    BY TestsValues, WholePage
  <1>3. \E m \in Nat : List(p2, m) /\ Values(p2) \subseteq Syms
    <2>1. Rowed(FindImpactRefs(db, t), Syms)
      <3> DEFINE S == MentionIds(db, t)
                 n == Cardinality(S)
                 rows == FindImpactRefs(db, t)
      <3>1. Each(rows, n, S)
        BY MentionsEach
      <3>2. S \subseteq Syms
        BY RefTyped DEF Indexed3, MentionIds
      <3> HIDE DEF S, n, rows
      <3>3. n \in Nat /\ List(rows, n) /\ \A i \in 1..n : rows[i] \in Syms
        BY <3>1, <3>2 DEF Each, List
      <3>4. Rowed(rows, Syms)
        BY <3>3 DEF Rowed
      <3> QED BY <3>4 DEF rows
    <2>2. Rowed(Mentions(db, t), Syms)
      BY <2>1, NoRows DEF Mentions
    <2>3. (\E m \in Nat : List(p2, m)) /\ Rowed(p2, Syms)
      BY <1>0, <2>2, PageIsList
    <2> HIDE DEF p2
    <2> QED BY <2>3, RowedValues, ListLen DEF List, Rowed, Values
  <1>4. \E m \in Nat : List(p3, m) /\ Values(p3) \subseteq Syms
    <2>1. Rowed(Impls(db, t), Syms)
      BY ImplementersRows, NoRows DEF Impls
    <2>2. (\E m \in Nat : List(p3, m)) /\ Rowed(p3, Syms)
      BY <1>0, <2>1, PageIsList
    <2> HIDE DEF p3
    <2> QED BY <2>2, RowedValues, ListLen DEF List, Rowed, Values
  <1>5. Impact(db, t, direct, Uncut) = Once(all)
    BY DEF Impact, Mentions, Impls
  <1>6. CallerIds(db, T, direct, Code(db)) \subseteq Syms /\ CallerIds(db, T, direct, Testing(db)) \subseteq Syms
    BY CallTyped DEF CallerIds, NearIds, FarIds, Indexed3
  <1>7. Rest(db, t) = Values(p2) \cup Values(p3)
    BY DEF Rest
  <1> HIDE DEF p1, p2, p3, p4, T
  <1>8. PICK n \in Nat : List(all, n) /\ Values(all) = Values(p1) \cup Values(p2) \cup Values(p3) \cup Values(p4)
    <2>1. PICK a \in Nat : List(p1, a)
      BY <1>1
    <2>2. PICK b \in Nat : List(p2, b)
      BY <1>3
    <2>3. PICK c \in Nat : List(p3, c)
      BY <1>4
    <2>4. PICK e \in Nat : List(p4, e)
      BY <1>2
    <2>5. List(p1 \o p2, a + b) /\ Values(p1 \o p2) = Values(p1) \cup Values(p2)
      BY <2>1, <2>2, ConcatList
    <2> DEFINE q == p1 \o p2
    <2> HIDE DEF q
    <2>6. List(q \o p3, a + b + c) /\ Values(q \o p3) = Values(q) \cup Values(p3)
      BY <2>3, <2>5, ConcatList DEF q
    <2> DEFINE r == q \o p3
    <2> HIDE DEF r
    <2>7. List(r \o p4, a + b + c + e) /\ Values(r \o p4) = Values(r) \cup Values(p4)
      BY <2>4, <2>6, ConcatList DEF r
    <2>8. all = r \o p4 /\ a + b + c + e \in Nat
      BY DEF q, r
    <2> HIDE DEF all
    <2> QED BY <2>5, <2>6, <2>7, <2>8 DEF q, r
  <1> HIDE DEF all
  <1>9. Values(all) \subseteq Syms
    BY <1>1, <1>2, <1>3, <1>4, <1>6, <1>8
  <1>10. Rowed(all, Syms)
    BY <1>8, <1>9, RowedValues
  <1>11. Values(Once(all)) = Values(all) /\ \E m \in Nat : List(Once(all), m)
    BY <1>10, OnceValues DEF Rowed
  <1>12. Range(Once(all)) = Values(all)
    BY <1>11, Values1
  <1> QED BY <1>1, <1>2, <1>5, <1>7, <1>8, <1>12 DEF T

LEMMA CallersGrow ==
  ASSUME NEW db, NEW T, NEW S, S \subseteq T, NEW direct, NEW kept
  PROVE  /\ CallerIds(db, S, direct, kept) \subseteq CallerIds(db, T, direct, kept)
         /\ CallerIds(db, T, TRUE, kept) \subseteq CallerIds(db, T, FALSE, kept)
  BY DEF CallerIds, NearIds, FarIds

LEMMA MethodsOfTarget ==
  ASSUME NEW db, NEW t, NEW m \in Targets(db, t), m # t
  PROVE  Sym[m].kind = "method" /\ Targets(db, m) = {m} /\ m \in db.syms
  <1>1. m \in MethodIDs(db, Sym[t].name)
    BY DEF Targets
  <1>2. m \in db.syms /\ Sym[m].kind = "method"
    BY <1>1 DEF MethodIDs
  <1>3. ~IsType(m)
    BY <1>2 DEF IsType
  <1> QED BY <1>2, <1>3 DEF Targets

LEMMA NoRest ==
  ASSUME NEW m, ~IsType(m), Sym[m].kind # "interface", NEW db
  PROVE  Rest(db, m) = {}
  <1>1. Mentions(db, m) = <<>> /\ Impls(db, m) = <<>>
    BY DEF Mentions, Impls
  <1>2. List(<<>>, 0) /\ Rowed(<<>>, {})
    BY NoRows
  <1>3. \A limit \in Nat : Values(Page(<<>>, limit, 0)) \subseteq Values(<<>>)
    BY <1>2, PageIsList
  <1>4. Values(<<>>) = {}
    BY <1>2, Values1
  <1>5. RefCap \in Nat /\ 3 * Uncut \in Nat
    BY LensAreNats DEF RefCap
  <1> QED BY <1>1, <1>3, <1>4, <1>5 DEF Rest

\* A symbol that is not a method and has no counted reference is not called.
LEMMA DeadIsNotCalled ==
  ASSUME NEW db \in Tables, Consistent(db), NEW t, Sym[t].kind # "method", GetRefCount(db, t) = 0
  PROVE  /\ \A r \in db.refs : Refs[r].sym = t => ~Real(r)
         /\ \A c \in db.calls : Calls[c].to # t
         /\ FindRefs(db, t) = <<>>
         /\ MentionIds(db, t) = {}
  <1> DEFINE S == {r \in db.refs : Refs[r].sym = t /\ Real(r)}
  <1>1. IsFiniteSet(S)
    <2>1. db.refs \subseteq DOMAIN Refs
      BY DEF Tables
    <2> QED BY <2>1, TablesFinite, FS_Subset
  <1>2. S = {}
    <2>1. Cardinality(S) = 0
      BY DEF GetRefCount
    <2> HIDE DEF S
    <2> QED BY <1>1, <2>1, FS_EmptySet
  <1>3. \A c \in db.calls : Calls[c].to # t
    BY <1>2 DEF Consistent
  <1>4. FindRefs(db, t) = <<>>
    <2> DEFINE key == [r \in S |-> Append(<<IF Refs[r].file = Sym[t].file THEN 0 ELSE 1, Refs[r].file, Refs[r].line>>, r)]
    <2>1. FindRefs(db, t) = Ordered(S, key)
      BY DEF FindRefs, OrderBy
    <2>2. Cardinality(S) = 0
      BY DEF GetRefCount
    <2> HIDE DEF S, key
    <2>3. DOMAIN Ordered(S, key) = 1..0 /\ Ordered(S, key) = [i \in 1..0 |-> Ordered(S, key)[i]]
      BY <2>2 DEF Ordered
    <2>4. List(Ordered(S, key), 0)
      BY <2>3 DEF List
    <2> QED BY <2>1, <2>4, ListLen
  <1>5. MentionIds(db, t) = {}
    <2>1. \A r \in db.refs : Refs[r].sym = t => Refs[r].enc = t
      BY <1>2 DEF Consistent
    <2> QED BY <2>1 DEF MentionIds
  <1> QED BY <1>2, <1>3, <1>4, <1>5

LEMMA DeadRest ==
  ASSUME NEW db \in Tables, Consistent(db), NEW t, t \in FindDeadExports(db, TRUE), Sym[t].kind # "method"
  PROVE  Rest(db, t) = {}
  <1>1. GetRefCount(db, t) = 0 /\ Sym[t].kind # "interface"
    BY DEF FindDeadExports, Counted
  <1>2. MentionIds(db, t) = {} /\ Indexed3(db)
    BY <1>1, DeadIsNotCalled, TablesIndexed
  <1>3. FindImpactRefs(db, t) = <<>>
    BY <1>2, MentionsEach, EachRange
  <1>4. Mentions(db, t) = <<>> /\ Impls(db, t) = <<>>
    BY <1>1, <1>3 DEF Mentions, Impls
  <1>5. List(<<>>, 0) /\ Rowed(<<>>, {})
    BY NoRows
  <1>6. \A limit \in Nat : Values(Page(<<>>, limit, 0)) \subseteq Values(<<>>)
    BY <1>5, PageIsList
  <1>7. Values(<<>>) = {}
    BY <1>5, Values1
  <1>8. RefCap \in Nat /\ 3 * Uncut \in Nat
    BY LensAreNats DEF RefCap
  <1> QED BY <1>4, <1>6, <1>7, <1>8 DEF Rest

\* What is reached from one of several is reached from one of them that is called.
LEMMA CallersOfOne ==
  ASSUME NEW db, NEW T, NEW direct, NEW kept, NEW i \in CallerIds(db, T, direct, kept)
  PROVE  \E m \in T : i \in CallerIds(db, {m}, direct, kept) /\ \E c \in db.calls : Calls[c].to = m
  <1>1. CASE i \in NearIds(db, T, kept)
    <2>1. PICK c \in db.calls : Calls[c].to \in T /\ Calls[c].from \in kept /\ i = Calls[c].from
      BY <1>1 DEF NearIds
    <2>2. i \in NearIds(db, {Calls[c].to}, kept)
      BY <2>1 DEF NearIds
    <2> QED BY <2>1, <2>2 DEF CallerIds
  <1>2. CASE ~direct /\ i \in FarIds(db, T, kept)
    <2>1. PICK c \in db.calls, l \in db.calls :
            i = Calls[c].from /\ Calls[c].from \in kept /\ Calls[l].to \in T /\ Calls[c].to = Calls[l].from
      BY <1>2 DEF FarIds
    <2>2. i \in FarIds(db, {Calls[l].to}, kept)
      BY <2>1 DEF FarIds
    <2> QED BY <1>2, <2>1, <2>2 DEF CallerIds
  <1> QED BY <1>1, <1>2 DEF CallerIds

LEMMA ReachIs ==
  ASSUME NEW t, NEW direct, Indexed3(d)
  PROVE  Reach(t, direct) =
           CallerIds(d, Targets(d, t), direct, Code(d)) \cup CallerIds(d, Targets(d, t), direct, Testing(d)) \cup Rest(d, t)
  BY ImpactValues DEF Reach

LEMMA MethodReach ==
  ASSUME Indexed3(d), NEW t, NEW m \in Targets(d, t), m # t
  PROVE  Reach(m, FALSE) = CallerIds(d, {m}, FALSE, Code(d)) \cup CallerIds(d, {m}, FALSE, Testing(d))
  <1>1. Targets(d, m) = {m} /\ Sym[m].kind = "method"
    BY MethodsOfTarget
  <1>2. ~IsType(m) /\ Sym[m].kind # "interface"
    BY <1>1 DEF IsType
  <1> QED BY <1>1, <1>2, NoRest, ReachIs

LEMMA BlastOfOne ==
  ASSUME d \in Tables, Consistent(d), NEW t \in d.syms
  PROVE  /\ Reach(t, TRUE) \subseteq Reach(t, FALSE)
         /\ \A m \in Targets(d, t) : Reach(m, FALSE) \subseteq Reach(t, FALSE)
         /\ {i \in {Calls[c].from : c \in {c \in d.calls : Calls[c].to = t}} : InCode(i) \/ IsTest(i)} \subseteq Reach(t, FALSE)
         /\ Sym[t].kind # "method" =>
              /\ t \in FindDeadExports(d, TRUE) =>
                   FindRefs(d, t) = <<>> /\ Reach(t, FALSE) = UNION {Reach(m, FALSE) : m \in Targets(d, t) \ {t}}
              /\ t \in FindDeadExports(d, FALSE) =>
                   \A i \in Range(FindImpactCallers(d, {t}, TRUE)) : Sym[i].file \in LikeTest
  <1>0. Indexed3(d) /\ t \in Targets(d, t)
    BY TablesIndexed DEF Targets
  <1> DEFINE T == Targets(d, t)
  <1>a. \A far \in BOOLEAN :
          Reach(t, far) = CallerIds(d, T, far, Code(d)) \cup CallerIds(d, T, far, Testing(d)) \cup Rest(d, t)
    BY <1>0, ReachIs
  <1>b. Reach(t, FALSE) = CallerIds(d, T, FALSE, Code(d)) \cup CallerIds(d, T, FALSE, Testing(d)) \cup Rest(d, t)
    BY <1>a
  <1>1. Reach(t, TRUE) \subseteq Reach(t, FALSE)
    <2>1. Reach(t, TRUE) = CallerIds(d, T, TRUE, Code(d)) \cup CallerIds(d, T, TRUE, Testing(d)) \cup Rest(d, t)
      BY <1>a
    <2>2. \A kept : CallerIds(d, T, TRUE, kept) \subseteq CallerIds(d, T, FALSE, kept)
      <3> SUFFICES ASSUME NEW kept PROVE CallerIds(d, T, TRUE, kept) \subseteq CallerIds(d, T, FALSE, kept)
        OBVIOUS
      <3> QED BY CallersGrow
    <2>3. CallerIds(d, T, TRUE, Code(d)) \subseteq CallerIds(d, T, FALSE, Code(d))
      BY <2>2
    <2>4. CallerIds(d, T, TRUE, Testing(d)) \subseteq CallerIds(d, T, FALSE, Testing(d))
      BY <2>2
    <2> QED BY <1>b, <2>1, <2>3, <2>4
  <1>2. ASSUME NEW m \in Targets(d, t) PROVE Reach(m, FALSE) \subseteq Reach(t, FALSE)
    <2>1. CASE m = t
      BY <2>1
    <2>2. CASE m # t
      <3>1. Reach(m, FALSE) = CallerIds(d, {m}, FALSE, Code(d)) \cup CallerIds(d, {m}, FALSE, Testing(d))
        BY <1>0, <2>2, MethodReach
      <3>2. {m} \subseteq Targets(d, t)
        OBVIOUS
      <3>3. \A kept : CallerIds(d, {m}, FALSE, kept) \subseteq CallerIds(d, T, FALSE, kept)
        <4> SUFFICES ASSUME NEW kept PROVE CallerIds(d, {m}, FALSE, kept) \subseteq CallerIds(d, T, FALSE, kept)
          OBVIOUS
        <4>1. {m} \subseteq T
          BY <3>2
        <4> QED BY ONLY <4>1, CallersGrow
      <3>4. CallerIds(d, {m}, FALSE, Code(d)) \subseteq CallerIds(d, T, FALSE, Code(d))
        BY <3>3
      <3>5. CallerIds(d, {m}, FALSE, Testing(d)) \subseteq CallerIds(d, T, FALSE, Testing(d))
        BY <3>3
      <3> QED BY <1>b, <3>1, <3>4, <3>5
    <2> QED BY <2>1, <2>2
  <1>3. {i \in {Calls[c].from : c \in {c \in d.calls : Calls[c].to = t}} : InCode(i) \/ IsTest(i)} \subseteq Reach(t, FALSE)
    <2> SUFFICES ASSUME NEW c \in d.calls, Calls[c].to = t, InCode(Calls[c].from) \/ IsTest(Calls[c].from)
                 PROVE  Calls[c].from \in Reach(t, FALSE)
      OBVIOUS
    <2>1. Calls[c].from \in d.syms
      BY DEF Consistent
    <2>2. Calls[c].from \in NearIds(d, Targets(d, t), Code(d)) \cup NearIds(d, Targets(d, t), Testing(d))
      BY <1>0, <2>1 DEF NearIds, Code, Testing
    <2> QED BY <1>b, <2>2 DEF CallerIds
  <1>4. ASSUME Sym[t].kind # "method", t \in FindDeadExports(d, TRUE)
        PROVE  FindRefs(d, t) = <<>> /\ Reach(t, FALSE) = UNION {Reach(m, FALSE) : m \in Targets(d, t) \ {t}}
    <2>1. GetRefCount(d, t) = 0
      BY <1>4 DEF FindDeadExports, Counted
    <2>2. FindRefs(d, t) = <<>> /\ \A c \in d.calls : Calls[c].to # t
      BY <1>4, <2>1, DeadIsNotCalled
    <2>3. Rest(d, t) = {}
      BY <1>4, DeadRest
    <2>4. ASSUME NEW i \in Reach(t, FALSE) PROVE \E m \in Targets(d, t) \ {t} : i \in Reach(m, FALSE)
      <3>1. PICK kept \in {Code(d), Testing(d)} : i \in CallerIds(d, Targets(d, t), FALSE, kept)
        BY <1>0, <2>3, <2>4, ReachIs
      <3>2. PICK m \in Targets(d, t) : i \in CallerIds(d, {m}, FALSE, kept) /\ \E c \in d.calls : Calls[c].to = m
        BY <3>1, CallersOfOne
      <3>3. m # t
        BY <2>2, <3>2
      <3>4. i \in Reach(m, FALSE)
        BY <1>0, <3>1, <3>2, <3>3, MethodReach
      <3> QED BY <3>3, <3>4
    <2> QED BY <1>2, <2>2, <2>4
  <1>5. ASSUME Sym[t].kind # "method", t \in FindDeadExports(d, FALSE), NEW i \in Range(FindImpactCallers(d, {t}, TRUE))
        PROVE  Sym[i].file \in LikeTest
    <2>1. i \in NearIds(d, {t}, Code(d))
      <3> DEFINE rows == FindImpactCallers(d, {t}, TRUE)
      <3>1. (\E n \in 0..Uncut : List(rows, n)) /\ Values(rows) = CallerIds(d, {t}, TRUE, Code(d))
        BY <1>0, ImpactCallersValues
      <3> HIDE DEF rows
      <3>2. Range(rows) = Values(rows)
        BY <3>1, Values1
      <3> QED BY <1>5, <3>1, <3>2 DEF rows, CallerIds
    <2>2. PICK c \in d.calls : Calls[c].to = t /\ i = Calls[c].from
      BY <2>1 DEF NearIds
    <2>3. PICK r \in d.refs : Refs[r].sym = t /\ Refs[r].enc = i /\ Real(r)
      BY <1>5, <2>2 DEF Consistent
    <2>4. Refs[r].file \in LikeTest
      <3> DEFINE S == NonTest(d, t)
      <3>1. Cardinality(S) = 0
        BY <1>5 DEF FindDeadExports, Counted
      <3>2. IsFiniteSet(S)
        <4>1. S \subseteq DOMAIN Refs
          BY <1>0 DEF NonTest, Indexed3
        <4> QED BY <4>1, TablesFinite, FS_Subset
      <3>3. S = {}
        <4> HIDE DEF S
        <4> QED BY <3>1, <3>2, FS_EmptySet
      <3> QED BY <2>3, <3>3 DEF NonTest
    <2>5. i \in Syms /\ i # 0 /\ r \in DOMAIN Refs
      BY <1>0, <2>2, CallTyped, RowsAreNotZero DEF Indexed3
    <2>6. Refs[r].file = Sym[i].file
      BY <2>3, <2>5, TablesAssumption
    <2> QED BY <2>4, <2>6
  <1> QED BY <1>1, <1>2, <1>3, <1>4, <1>5

\* The impact of a type contains that of each of its methods, who calls a
\* symbol is in its impact, and a dead export has no impact but that of its
\* methods, for every index that a run leaves.
THEOREM ImpactIsWhole == ClientSpec => []BlastRadius
  <1>1. SessionInv /\ Healthy => BlastRadius
    <2> SUFFICES ASSUME SessionInv, Healthy, Reading("impact") PROVE d \in Tables /\ Consistent(d)
      BY BlastOfOne DEF BlastRadius
    <2>1. s # Idle
      <3>1. Idle.pc = "off"
        BY DEF Idle
      <3> QED BY <3>1 DEF Reading
    <2> QED BY <2>1 DEF Healthy, SessionInv, InSession
  <1> QED BY <1>1, HealthyInvariance, PTL

-----------------------------------------------------------------------------
(* Cards: the same rows, counted and listed by different statements.       *)

\* The rows of each part of a set are as many as the set.
PartOf(S, part, m) == {c \in S : part[c] = m}
PartRows(S, of, part, rows) == \A m \in of : Each(rows[m], Cardinality(PartOf(S, part, m)), PartOf(S, part, m))
LEMMA RowsCounted ==
  ASSUME NEW S, IsFiniteSet(S), NEW of, NEW part \in [S -> of], NEW rows, PartRows(S, of, part, rows)
  PROVE  Cardinality(UNION {{m} \X DOMAIN rows[m] : m \in of}) = Cardinality(S)
  <1> DEFINE R == UNION {{m} \X DOMAIN rows[m] : m \in of}
             f == [p \in R |-> rows[p[1]][p[2]]]
  <1>1. ASSUME NEW m \in of
        PROVE  /\ \A k \in DOMAIN rows[m] : rows[m][k] \in S /\ part[rows[m][k]] = m
               /\ \A c \in S : part[c] = m => \E k \in DOMAIN rows[m] : rows[m][k] = c
               /\ \A j, k \in DOMAIN rows[m] : rows[m][j] = rows[m][k] => j = k
    <2> DEFINE own == {c \in S : part[c] = m}
               n   == Cardinality(own)
    <2>1. Each(rows[m], n, own)
      BY DEF PartRows, PartOf
    <2> HIDE DEF n
    <2>2. DOMAIN rows[m] = 1..n /\ {rows[m][k] : k \in 1..n} = own /\ \A j, k \in 1..n : rows[m][j] = rows[m][k] => j = k
      BY <2>1 DEF Each, List
    <2> QED BY <2>2
  <1>2. \A p \in R : \E m \in of : \E k \in DOMAIN rows[m] : p = <<m, k>>
    OBVIOUS
  <1>3. \A m \in of : \A k \in DOMAIN rows[m] : <<m, k>> \in R
    OBVIOUS
  <1> HIDE DEF R
  <1>4. f \in [R -> S]
    <2> SUFFICES ASSUME NEW p \in R PROVE rows[p[1]][p[2]] \in S
      OBVIOUS
    <2>1. PICK m \in of : \E k \in DOMAIN rows[m] : p = <<m, k>>
      BY <1>2
    <2> QED BY <1>1, <2>1
  <1>5. \A p, q \in R : f[p] = f[q] => p = q
    <2> SUFFICES ASSUME NEW p \in R, NEW q \in R, f[p] = f[q] PROVE p = q
      OBVIOUS
    <2>1. PICK m \in of : \E k \in DOMAIN rows[m] : p = <<m, k>>
      BY <1>2
    <2>2. PICK k \in DOMAIN rows[m] : p = <<m, k>>
      BY <2>1
    <2>3. PICK l \in of : \E j \in DOMAIN rows[l] : q = <<l, j>>
      BY <1>2
    <2>4. PICK j \in DOMAIN rows[l] : q = <<l, j>>
      BY <2>3
    <2>5. rows[m][k] = rows[l][j]
      BY <2>2, <2>4
    <2>6. m = l
      BY <1>1, <2>5
    <2>7. k = j
      BY <1>1, <2>5, <2>6
    <2> QED BY <2>2, <2>4, <2>6, <2>7
  <1>6. \A c \in S : \E p \in R : f[p] = c
    <2> SUFFICES ASSUME NEW c \in S PROVE \E p \in R : f[p] = c
      OBVIOUS
    <2>1. PICK k \in DOMAIN rows[part[c]] : rows[part[c]][k] = c
      BY <1>1
    <2>2. <<part[c], k>> \in R
      BY <1>3, <2>1
    <2> QED BY <2>1, <2>2
  <1> HIDE DEF f
  <1>7. f \in Injection(R, S) /\ f \in Surjection(R, S)
    BY <1>4, <1>5, <1>6 DEF Injection, IsInjective, Surjection
  <1>8. Cardinality(R) = Cardinality(S)
    BY <1>7, FS_Injection
  <1> QED BY <1>8 DEF R

LEMMA LeastHeld == ASSUME NEW n \in Nat, NEW limit \in Nat PROVE Held(n, limit, 0) = Least(n, limit)
  BY DEF Held, Least

\* The number of a column and what is in it.
LEMMA ColumnOfPage ==
  ASSUME NEW rows, NEW n, NEW S, Each(rows, n, S), NEW limit \in Nat, NEW f
  PROVE  LET page == Page(rows, limit, 0)
             col  == [i \in DOMAIN page |-> f[page[i]]]
         IN Len(col) = Least(n, limit) /\ Range(col) \subseteq {f[c] : c \in S}
  <1> DEFINE m    == Held(n, limit, 0)
             page == Page(rows, limit, 0)
             col  == [i \in DOMAIN page |-> f[page[i]]]
  <1>1. List(rows, n) /\ {rows[i] : i \in 1..n} = S /\ n \in Nat
    BY DEF Each, List
  <1>2. List(page, m) /\ \A i \in 1..m : page[i] = rows[0 + i]
    BY <1>1, PageAt
  <1>3. m = Least(n, limit) /\ m \in Nat /\ m <= n
    <2>1. m = Least(n, limit) /\ n \in Nat
      BY <1>1, LeastHeld
    <2> HIDE DEF m
    <2> QED BY <2>1 DEF Least
  <1> HIDE DEF m, page
  <1>4. List(col, m) /\ \A i \in 1..m : col[i] = f[page[i]]
    BY <1>2, ColumnList
  <1> HIDE DEF col
  <1>5. Len(col) = m /\ Range(col) = {col[i] : i \in 1..m}
    BY <1>4, ListLen, Values1 DEF Values
  <1>6. \A i \in 1..m : col[i] \in {f[c] : c \in S}
    <2> SUFFICES ASSUME NEW i \in 1..m PROVE f[page[i]] \in {f[c] : c \in S}
      BY <1>4
    <2>1. page[i] = rows[i] /\ i \in 1..n
      <3>1. 0 + i = i /\ i \in 1..n
        BY <1>1, <1>3
      <3> QED BY <1>2, <3>1
    <2>2. rows[i] \in S
      BY <1>1, <2>1
    <2> QED BY <2>1, <2>2
  <1> QED BY <1>3, <1>5, <1>6 DEF col, page

LEMMA CallersAgree ==
  ASSUME Indexed3(d), NEW of, NEW limit \in Nat
  PROVE  Agrees("callers", of, From(Page(FindCallers(d, of), limit, 0)), Cardinality(CallsTo(d, of)), limit)
  <1> DEFINE S     == CallsTo(d, of)
             part  == [c \in S |-> Calls[c].to]
             rows  == [m \in of |-> FindCallers(d, {m})]
             shown == From(Page(FindCallers(d, of), limit, 0))
  <1>0. ASSUME NEW m PROVE Unlimited(d, "callers", m) = [i \in DOMAIN FindCallers(d, {m}) |-> Calls[FindCallers(d, {m})[i]].from]
    BY DEF Unlimited, Column
  <1>1. IsFiniteSet(S) /\ Cardinality(S) \in Nat /\ S \subseteq DOMAIN Calls
    <2>1. S \subseteq DOMAIN Calls
      BY DEF CallsTo, Indexed3
    <2> HIDE DEF S
    <2> QED BY <2>1, CallsCount
  <1>2. part \in [S -> of]
    BY DEF CallsTo
  <1>3. ASSUME NEW m \in of
        PROVE  Each(rows[m], Cardinality(CallsTo(d, {m})), CallsTo(d, {m})) /\ CallsTo(d, {m}) = {c \in S : part[c] = m}
    <2>1. Each(FindCallers(d, {m}), Cardinality(CallsTo(d, {m})), CallsTo(d, {m}))
      BY CallersRows
    <2>2. CallsTo(d, {m}) = {c \in S : part[c] = m}
      BY DEF CallsTo
    <2> QED BY <2>1, <2>2
  <1>4. Each(FindCallers(d, of), Cardinality(S), S)
    BY CallersRows
  <1>5. Cardinality(UNION {{m} \X DOMAIN Unlimited(d, "callers", m) : m \in of}) = Cardinality(S)
    <2>1. PartRows(S, of, part, rows)
      BY <1>3 DEF PartRows, PartOf
    <2>2. \A m \in of : DOMAIN Unlimited(d, "callers", m) = DOMAIN rows[m]
      BY <1>0
    <2>3. UNION {{m} \X DOMAIN Unlimited(d, "callers", m) : m \in of} = UNION {{m} \X DOMAIN rows[m] : m \in of}
      BY <2>2
    <2> HIDE DEF S, part, rows
    <2>4. Cardinality(UNION {{m} \X DOMAIN rows[m] : m \in of}) = Cardinality(S)
      BY <1>1, <1>2, <2>1, RowsCounted
    <2> QED BY <2>3, <2>4
  <1>6. Len(shown) = Least(Cardinality(S), limit) /\ Range(shown) \subseteq {Froms[c] : c \in S}
    <2> DEFINE page == Page(FindCallers(d, of), limit, 0)
               col  == [i \in DOMAIN page |-> Froms[page[i]]]
    <2> HIDE DEF S
    <2>1. Len(col) = Least(Cardinality(S), limit) /\ Range(col) \subseteq {Froms[c] : c \in S}
      BY <1>4, ColumnOfPage
    <2>2. Rowed(page, DOMAIN Calls)
      BY CallersRows, PageRows
    <2>3. col = shown
      <3> HIDE DEF page
      <3>1. Column(page, LAMBDA c : Calls[c].from) = [i \in DOMAIN page |-> Froms[page[i]]]
        BY <2>2, ColumnFrom DEF From
      <3> QED BY <3>1 DEF From, page
    <2> QED BY <2>1, <2>3
  <1>7. {Froms[c] : c \in S} \subseteq UNION {Range(Unlimited(d, "callers", m)) : m \in of}
    <2> SUFFICES ASSUME NEW c \in S PROVE \E m \in of : Froms[c] \in Range(Unlimited(d, "callers", m))
      OBVIOUS
    <2> DEFINE m == part[c]
    <2>1. m \in of /\ c \in CallsTo(d, {m})
      BY <1>2, <1>3
    <2> HIDE DEF m
    <2>2. Range(FindCallers(d, {m})) = CallsTo(d, {m})
      BY CallersRows, EachRange
    <2>3. PICK i \in DOMAIN FindCallers(d, {m}) : FindCallers(d, {m})[i] = c
      BY <2>1, <2>2 DEF Range
    <2>4. Froms[c] = Calls[c].from
      BY <1>1 DEF Froms
    <2>5. DOMAIN Unlimited(d, "callers", m) = DOMAIN FindCallers(d, {m}) /\ Unlimited(d, "callers", m)[i] = Froms[c]
      BY <1>0, <2>3, <2>4
    <2> QED BY <2>1, <2>3, <2>5 DEF Range
  <1> HIDE DEF S, shown
  <1> QED BY <1>5, <1>6, <1>7 DEF Agrees, S, shown

LEMMA CalleesAgree ==
  ASSUME Indexed3(d), NEW of, NEW limit \in Nat
  PROVE  Agrees("callees", of, To(Page(FindCallees(d, of), limit, 0)), Cardinality(CallsFrom(d, of)), limit)
  <1> DEFINE S     == CallsFrom(d, of)
             part  == [c \in S |-> Calls[c].from]
             rows  == [m \in of |-> FindCallees(d, {m})]
             shown == To(Page(FindCallees(d, of), limit, 0))
  <1>0. ASSUME NEW m PROVE Unlimited(d, "callees", m) = [i \in DOMAIN FindCallees(d, {m}) |-> Calls[FindCallees(d, {m})[i]].to]
    BY DEF Unlimited, Column
  <1>1. IsFiniteSet(S) /\ Cardinality(S) \in Nat /\ S \subseteq DOMAIN Calls
    <2>1. S \subseteq DOMAIN Calls
      BY DEF CallsFrom, Indexed3
    <2> HIDE DEF S
    <2> QED BY <2>1, CallsCount
  <1>2. part \in [S -> of]
    BY DEF CallsFrom
  <1>3. ASSUME NEW m \in of
        PROVE  Each(rows[m], Cardinality(CallsFrom(d, {m})), CallsFrom(d, {m})) /\ CallsFrom(d, {m}) = {c \in S : part[c] = m}
    <2>1. Each(FindCallees(d, {m}), Cardinality(CallsFrom(d, {m})), CallsFrom(d, {m}))
      BY CalleesRows
    <2>2. CallsFrom(d, {m}) = {c \in S : part[c] = m}
      BY DEF CallsFrom
    <2> QED BY <2>1, <2>2
  <1>4. Each(FindCallees(d, of), Cardinality(S), S)
    BY CalleesRows
  <1>5. Cardinality(UNION {{m} \X DOMAIN Unlimited(d, "callees", m) : m \in of}) = Cardinality(S)
    <2>1. PartRows(S, of, part, rows)
      BY <1>3 DEF PartRows, PartOf
    <2>2. \A m \in of : DOMAIN Unlimited(d, "callees", m) = DOMAIN rows[m]
      BY <1>0
    <2>3. UNION {{m} \X DOMAIN Unlimited(d, "callees", m) : m \in of} = UNION {{m} \X DOMAIN rows[m] : m \in of}
      BY <2>2
    <2> HIDE DEF S, part, rows
    <2>4. Cardinality(UNION {{m} \X DOMAIN rows[m] : m \in of}) = Cardinality(S)
      BY <1>1, <1>2, <2>1, RowsCounted
    <2> QED BY <2>3, <2>4
  <1>6. Len(shown) = Least(Cardinality(S), limit) /\ Range(shown) \subseteq {Tos[c] : c \in S}
    <2> DEFINE page == Page(FindCallees(d, of), limit, 0)
               col  == [i \in DOMAIN page |-> Tos[page[i]]]
    <2> HIDE DEF S
    <2>1. Len(col) = Least(Cardinality(S), limit) /\ Range(col) \subseteq {Tos[c] : c \in S}
      BY <1>4, ColumnOfPage
    <2>2. Rowed(page, DOMAIN Calls)
      BY CalleesRows, PageRows
    <2>3. col = shown
      <3> HIDE DEF page
      <3>1. Column(page, LAMBDA c : Calls[c].to) = [i \in DOMAIN page |-> Tos[page[i]]]
        BY <2>2, ColumnTo DEF To
      <3> QED BY <3>1 DEF To, page
    <2> QED BY <2>1, <2>3
  <1>7. {Tos[c] : c \in S} \subseteq UNION {Range(Unlimited(d, "callees", m)) : m \in of}
    <2> SUFFICES ASSUME NEW c \in S PROVE \E m \in of : Tos[c] \in Range(Unlimited(d, "callees", m))
      OBVIOUS
    <2> DEFINE m == part[c]
    <2>1. m \in of /\ c \in CallsFrom(d, {m})
      BY <1>2, <1>3
    <2> HIDE DEF m
    <2>2. Range(FindCallees(d, {m})) = CallsFrom(d, {m})
      BY CalleesRows, EachRange
    <2>3. PICK i \in DOMAIN FindCallees(d, {m}) : FindCallees(d, {m})[i] = c
      BY <2>1, <2>2 DEF Range
    <2>4. Tos[c] = Calls[c].to
      BY <1>1 DEF Tos
    <2>5. DOMAIN Unlimited(d, "callees", m) = DOMAIN FindCallees(d, {m}) /\ Unlimited(d, "callees", m)[i] = Tos[c]
      BY <1>0, <2>3, <2>4
    <2> QED BY <2>1, <2>3, <2>5 DEF Range
  <1> HIDE DEF S, shown
  <1> QED BY <1>5, <1>6, <1>7 DEF Agrees, S, shown

\* What the cards of pack have once their statements are through.
HasRefs(db, c, depth) == "refs" \in DOMAIN c /\ c.refs = RefCard(db, c.sym, Caps[depth])
HasCallers(db, c, depth) ==
  {"refCount", "callers"} \subseteq DOMAIN c /\ c.refCount = GetRefCount(db, c.sym) /\ c.callers = CallerCard(db, c.sym, depth, Caps[depth])
HasCallees(db, c, depth) ==
  /\ {"callerCount", "callees"} \subseteq DOMAIN c
  /\ c.callerCount = CallerCount(db, c.sym, depth) /\ c.callees = CalleeCard(db, c.sym, depth, Caps[depth])
HasCounts(db, c, depth) == "calleeCount" \in DOMAIN c /\ c.calleeCount = CalleeCount(db, c.sym, depth)
HasPattern(db, c) == "pattern" \in DOMAIN c => Callable(c.sym) /\ c.pattern \in detectCallerPattern(db, c.sym, Caps.context)
FullCard(db, c, depth) ==
  HasRefs(db, c, depth) /\ HasCallers(db, c, depth) /\ HasCallees(db, c, depth) /\ HasCounts(db, c, depth) /\ HasPattern(db, c)

\* A pattern of one directory is that of all that were read.
LEMMA PatternOfAll ==
  ASSUME Indexed3(d), NEW i, NEW p \in detectCallerPattern(d, i, Caps.context), p[1] = "all",
         Cardinality(CallsTo(d, {i})) <= Caps.context
  PROVE  \A j \in Range(Unlimited(d, "callers", i)) : Sym[j].pkg = p[2]
  <1> DEFINE all  == FindCallers(d, {i})
             page == Page(all, Caps.context, 0)
             from == From(page)
             dirs == {Sym[j].pkg : j \in Range(from)}
             n    == Cardinality(CallsTo(d, {i}))
  <1>1. List(all, n) /\ n \in Nat
    BY CallersRows DEF Each, List
  <1>2. page = all
    <2>1. Caps.context \in Nat /\ n <= Caps.context
      BY CapsAssumption
    <2> HIDE DEF all, n
    <2>2. List(page, IF Caps.context < n THEN Caps.context ELSE n) /\ \A k \in 1..n : k <= Caps.context => page[k] = all[k]
      <3>1. Held(n, Caps.context, 0) = n /\ (IF Caps.context < n THEN Caps.context ELSE n) = n
        BY <1>1, <2>1 DEF Held
      <3>2. List(page, n) /\ \A k \in 1..n : page[k] = all[0 + k]
        <4>1. LET m == Held(n, Caps.context, 0) IN List(page, m) /\ \A k \in 1..m : page[k] = all[0 + k]
          <5> DEFINE lim == Caps.context
          <5>1. List(all, n) /\ lim \in Nat
            BY <1>1, <2>1
          <5> HIDE DEF lim
          <5>2. LET m == Held(n, lim, 0) IN List(Page(all, lim, 0), m) /\ \A k \in 1..m : Page(all, lim, 0)[k] = all[0 + k]
            BY ONLY <5>1, PageAt
          <5> QED BY <5>2 DEF lim
        <4> QED BY <3>1, <4>1
      <3> QED BY <3>1, <3>2
    <2>3. (IF Caps.context < n THEN Caps.context ELSE n) = n /\ \A k \in 1..n : k <= Caps.context
      BY <1>1, <2>1
    <2> QED BY <1>1, <2>2, <2>3 DEF List
  <1>3. from = Unlimited(d, "callers", i)
    BY <1>2 DEF From, Unlimited
  <1>4. detectCallerPattern(d, i, Caps.context) = Patterns(page)
    BY DEF detectCallerPattern
  <1>5. Cardinality(dirs) = 1 /\ \E q \in dirs : p = <<"all", q, Len(page)>>
    <2> DEFINE alike(q) == Cardinality({k \in DOMAIN from : q \in Beginnings[Sym[from[k]].name]})
               common   == {q \in UNION {Beginnings[Sym[j].name] : j \in Range(from)} : alike(q) >= Len(page) \div 2 /\ alike(q) >= 2}
    <2>1. Patterns(page) = CASE page = <<>>            -> {<<"none">>}
                             [] Cardinality(dirs) = 1  -> {<<"all", q, Len(page)>> : q \in dirs}
                             [] OTHER                  -> IF common = {} THEN {<<"none">>} ELSE {<<"mostly", q>> : q \in common}
      BY DEF Patterns
    <2> HIDE DEF page, common, dirs
    <2>2. \/ p = <<"none">>
          \/ Cardinality(dirs) = 1 /\ \E q \in dirs : p = <<"all", q, Len(page)>>
          \/ \E q : p = <<"mostly", q>>
      BY <1>4, <2>1
    <2>3. p # <<"none">>
      <3>1. <<"none">>[1] # "all"
        OBVIOUS
      <3> QED BY <3>1
    <2>4. ASSUME NEW q, p = <<"mostly", q>> PROVE FALSE
      <3>1. <<"mostly", q>>[1] # "all"
        OBVIOUS
      <3> QED BY <2>4, <3>1
    <2> QED BY <2>2, <2>3, <2>4
  <1>6. IsFiniteSet(dirs)
    <2> DEFINE f == [j \in Syms |-> Sym[j].pkg]
    <2>1. Range(from) \subseteq Syms
      <3>1. Rowed(from, Syms)
        BY <1>3, UnlimitedRows DEF Universe, Verbs, SymbolVerbs
      <3> HIDE DEF from
      <3> QED BY <3>1, RowedValues DEF Values, Range
    <2>2. IsFiniteSet({f[j] : j \in DOMAIN f})
      <3>1. IsFiniteSet(DOMAIN f) /\ f = [x \in DOMAIN f |-> f[x]]
        BY SymsFinite
      <3> HIDE DEF f
      <3> QED BY <3>1, FiniteImage
    <2>3. dirs \subseteq {f[j] : j \in DOMAIN f}
      BY <2>1
    <2> HIDE DEF dirs, f
    <2> QED BY <2>2, <2>3, FS_Subset
  <1>7. PICK q : dirs = {q}
    <2> HIDE DEF dirs
    <2> QED BY <1>5, <1>6, FS_Singleton
  <1>8. p[2] = q
    <2> HIDE DEF dirs, page
    <2>1. PICK r \in dirs : p = <<"all", r, Len(page)>>
      BY <1>5
    <2>2. <<"all", r, Len(page)>>[2] = r
      OBVIOUS
    <2> QED BY <1>7, <2>1, <2>2
  <1>9. ASSUME NEW j \in Range(from) PROVE Sym[j].pkg = q
    BY <1>7
  <1> QED BY <1>3, <1>8, <1>9

LEMMA RefsCounted ==
  ASSUME Indexed3(d), NEW i
  PROVE  GetRefCount(d, i) = Len(Unlimited(d, "refs", i))
  <1>1. Each(FindRefs(d, i), Cardinality(Sites(d, i)), Sites(d, i))
    BY RefsRows
  <1>2. GetRefCount(d, i) = Cardinality(Sites(d, i))
    BY DEF GetRefCount, Sites
  <1>3. Unlimited(d, "refs", i) = FindRefs(d, i)
    BY DEF Unlimited
  <1> QED BY <1>1, <1>2, <1>3, ListLen DEF Each

\* A card that its statements have filled agrees with the commands.
LEMMA FullCardAgrees ==
  ASSUME Indexed3(d), NEW depth \in Depths, NEW c, FullCard(d, c, depth)
  PROVE  CardAgrees(c, depth)
  <1> DEFINE of == IF isTypeKind(c.sym) /\ depth # "sym" THEN MethodIDs(d, Sym[c.sym].name) ELSE {c.sym}
  <1>1. Speakers(d, c.sym, depth) = of
    BY DEF Speakers
  <1>2. Caps[depth].refs \in Nat /\ Caps[depth].calls \in Nat
    BY CapsAssumption
  <1>3. c.refCount = Len(Unlimited(d, "refs", c.sym)) /\ c.refs = Page(Unlimited(d, "refs", c.sym), Caps[depth].refs, 0)
    BY RefsCounted DEF FullCard, HasCallers, HasRefs, RefCard, Unlimited
  <1>4. Agrees("callers", of, c.callers, c.callerCount, Caps[depth].calls)
    <2>1. c.callers = From(Page(FindCallers(d, of), Caps[depth].calls, 0)) /\ c.callerCount = Cardinality(CallsTo(d, of))
      BY <1>1 DEF FullCard, HasCallers, HasCallees, CallerCard, CallerCount, CallsTo
    <2> HIDE DEF of
    <2> QED BY <1>2, <2>1, CallersAgree
  <1>5. Agrees("callees", of, c.callees, c.calleeCount, Caps[depth].calls)
    <2>1. c.callees = To(Page(FindCallees(d, of), Caps[depth].calls, 0)) /\ c.calleeCount = Cardinality(CallsFrom(d, of))
      BY <1>1 DEF FullCard, HasCallees, HasCounts, CalleeCard, CalleeCount, CallsFrom
    <2> HIDE DEF of
    <2> QED BY <1>2, <2>1, CalleesAgree
  <1>6. ASSUME "pattern" \in DOMAIN c, c.pattern[1] = "all", c.callerCount <= Caps.context
        PROVE  \A i \in Range(Unlimited(d, "callers", c.sym)) : Sym[i].pkg = c.pattern[2]
    <2>1. Callable(c.sym) /\ c.pattern \in detectCallerPattern(d, c.sym, Caps.context)
      BY <1>6 DEF FullCard, HasPattern
    <2>2. of = {c.sym}
      BY <2>1 DEF Callable, isTypeKind
    <2>3. c.callerCount = Cardinality(CallsTo(d, {c.sym}))
      BY <1>1, <2>2 DEF FullCard, HasCallees, CallerCount, CallsTo
    <2> QED BY <1>6, <2>1, <2>3, PatternOfAll
  <1> HIDE DEF of
  <1> QED BY <1>3, <1>4, <1>5, <1>6 DEF CardAgrees, of

-----------------------------------------------------------------------------
(* The card of a package.                                                  *)

LEMMA PageCounted ==
  ASSUME NEW rows, NEW n, NEW S, Each(rows, n, S), NEW limit \in Nat
  PROVE  /\ Range(Page(rows, limit, 0)) \subseteq S
         /\ Cardinality(Range(Page(rows, limit, 0))) = Least(n, limit)
         /\ limit > 0 /\ S # {} => Page(rows, limit, 0) # <<>>
  <1> DEFINE m == Held(n, limit, 0)
             page == Page(rows, limit, 0)
  <1>1. List(rows, n) /\ {rows[i] : i \in 1..n} = S /\ n \in Nat /\ \A i, j \in 1..n : rows[i] = rows[j] => i = j
    BY DEF Each, List
  <1>2. List(page, m) /\ \A i \in 1..m : page[i] = rows[0 + i]
    BY <1>1, PageAt
  <1>3. m = Least(n, limit) /\ m \in Nat /\ m <= n /\ (limit > 0 /\ n > 0 => m > 0)
    <2>1. m = Least(n, limit) /\ n \in Nat
      BY <1>1, LeastHeld
    <2> HIDE DEF m
    <2> QED BY <2>1 DEF Least
  <1> HIDE DEF m, page
  <1>4. \A i \in 1..m : i \in 1..n /\ 0 + i = i
    BY <1>1, <1>3
  <1>5. \A i \in 1..m : page[i] = rows[i] /\ rows[i] \in S
    BY <1>1, <1>2, <1>4
  <1>6. Each(page, m, {page[i] : i \in 1..m})
    BY <1>1, <1>2, <1>4, <1>5 DEF Each
  <1>7. Range(page) = {page[i] : i \in 1..m} /\ Len(page) = m
    BY <1>2, Values1, ListLen
  <1>8. Cardinality(Range(page)) = m
    BY <1>6, <1>7, CountEach
  <1>9. limit > 0 /\ S # {} => page # <<>>
    <2>1. S # {} => n > 0
      BY <1>1
    <2>2. Len(<<>>) = 0
      OBVIOUS
    <2> QED BY <1>3, <1>7, <2>1, <2>2
  <1> QED BY <1>3, <1>5, <1>7, <1>8, <1>9 DEF page

LEMMA CascadeFirst ==
  ASSUME NEW rows, NEW limit, Page(rows[1], limit, 0) # <<>>
  PROVE  Cascade(rows, limit, 0) = Page(rows[1], limit, 0)
  BY DEF Cascade

Own(path) == {i \in d.syms : Sym[i].pkg = path /\ Sym[i].name \in Exported /\ Sym[i].kind # "field"}

LEMMA ExportsOwn ==
  ASSUME Indexed3(d), NEW path, Own(path) # {}, NEW limit \in Nat \ {0}
  PROVE  LET shown == Range(FindPackageSymbols(d, path, limit, 0))
         IN shown \subseteq Own(path) /\ Cardinality(shown) = Least(Cardinality(Own(path)), limit)
  <1> DEFINE tier(k) == {i \in d.syms : Matches(k, Sym[i].pkg, path) /\ Sym[i].name \in Exported /\ Sym[i].kind # "field"}
             order(T) == Ordered(T, [i \in T |-> Append(<<KindOrder[Sym[i].kind], Sym[i].name, Sym[i].file, Sym[i].first>>, i)])
             rows == [k \in 1..3 |-> order(tier(k))]
             S    == Own(path)
             base == [i \in S |-> <<KindOrder[Sym[i].kind], Sym[i].name, Sym[i].file, Sym[i].first>>]
             key  == [i \in S |-> Append(base[i], i)]
  <1>1. FindPackageSymbols(d, path, limit, 0) = Cascade(rows, limit, 0)
    BY DEF FindPackageSymbols, OrderBy
  <1>2. S \subseteq Syms
    BY DEF Own, Indexed3
  <1>3. rows[1] = Ordered(S, key)
    <2>1. tier(1) = S
      BY DEF Own, Matches
    <2>2. rows[1] = order(tier(1))
      OBVIOUS
    <2>3. Ordered(S, key) = order(S)
      <3>1. key = [i \in S |-> Append(<<KindOrder[Sym[i].kind], Sym[i].name, Sym[i].file, Sym[i].first>>, i)]
        OBVIOUS
      <3> HIDE DEF key
      <3> QED BY <3>1
    <2> HIDE DEF S, key, rows, tier, order
    <2> QED BY <2>1, <2>2, <2>3
  <1>4. \A i \in S : Sym[i].kind \in DOMAIN KindOrder
    BY <1>2, KindsAssumption DEF Own, KindRank, KindOrder
  <1> HIDE DEF S, rows
  <1>5. base \in [S -> Seq(Int)] /\ \A i \in S : Len(base[i]) = 4
    <2> SUFFICES ASSUME NEW i \in S PROVE base[i] \in Seq(Int) /\ Len(base[i]) = 4
      OBVIOUS
    <2>1. KindOrder[Sym[i].kind] \in Int
      BY <1>4 DEF KindOrder
    <2>2. Sym[i].name \in Int /\ Sym[i].file \in Int /\ Sym[i].first \in Int
      BY <1>2, SymTyped
    <2> QED BY <2>1, <2>2
  <1> HIDE DEF base
  <1>6. Each(rows[1], Cardinality(S), S)
    <2>1. Each(Ordered(S, key), Cardinality(S), S)
      <3>1. IsFiniteSet(Syms) /\ Syms \subseteq Nat /\ 4 \in Nat
        BY TablesFinite
      <3> QED BY ONLY <1>2, <1>5, <3>1, OrderedRows
    <2> QED BY <1>3, <2>1
  <1> HIDE DEF key
  <1>7. /\ Range(Page(rows[1], limit, 0)) \subseteq S
        /\ Cardinality(Range(Page(rows[1], limit, 0))) = Least(Cardinality(S), limit)
        /\ Page(rows[1], limit, 0) # <<>>
    <2>1. S # {} /\ limit \in Nat /\ limit > 0
      BY DEF S
    <2> QED BY <1>6, <2>1, PageCounted
  <1>8. Cascade(rows, limit, 0) = Page(rows[1], limit, 0)
    BY <1>7, CascadeFirst
  <1> QED BY <1>1, <1>7, <1>8 DEF S

\* pkg lists all of what a package exports outside of tests.
LEMMA UsageListsOwn ==
  ASSUME Indexed3(d), NEW path, NEW S, S = {i \in Own(path) : Sym[i].file \notin LikeTest}, S # {}
  PROVE  Range(FindPackageSymbolsByUsage(d, path, Len(Sym), 0)) = S
  <1> DEFINE rows == Tiers(d, path)
             n    == Cardinality(S)
  <1>1. FindPackageSymbolsByUsage(d, path, Len(Sym), 0) = Cascade(rows, Len(Sym), 0)
    BY DEF FindPackageSymbolsByUsage, Tiers, TierRows, UsageKey, OrderBy
  <1>2. TierRows(d, path, 1) = S /\ S \subseteq Syms
    BY DEF TierRows, Own, Matches, Indexed3
  <1>3. rows[1] = Ordered(S, UsageKey(d, S))
    <2>1. rows[1] = Ordered(TierRows(d, path, 1), UsageKey(d, TierRows(d, path, 1)))
      BY DEF Tiers
    <2> HIDE DEF rows
    <2> QED BY <1>2, <2>1
  <1> HIDE DEF rows
  <1>4. Each(rows[1], n, S) /\ n \in 0..Len(Sym)
    BY <1>2, <1>3, TierList
  <1> HIDE DEF n
  <1>5. Range(Page(rows[1], Len(Sym), 0)) \subseteq S /\ Cardinality(Range(Page(rows[1], Len(Sym), 0))) = n /\ Page(rows[1], Len(Sym), 0) # <<>>
    <2>1. Len(Sym) \in Nat /\ n \in Nat /\ n <= Len(Sym)
      BY <1>4, LensAreNats
    <2>2. Least(n, Len(Sym)) = n
      BY <2>1 DEF Least
    <2>3. n # 0
      BY <1>4, CountEach, FS_EmptySet
    <2> QED BY <1>4, <2>1, <2>2, <2>3, PageCounted
  <1>6. Range(Page(rows[1], Len(Sym), 0)) = S
    BY <1>4, <1>5, CountEach, FS_Subset
  <1>7. Cascade(rows, Len(Sym), 0) = Page(rows[1], Len(Sym), 0)
    BY <1>5, CascadeFirst
  <1> QED BY <1>1, <1>6, <1>7

-----------------------------------------------------------------------------
(* pack: what has been found is shown, has failed, or is still to do.      *)

Working == {"refs", "callers", "callees", "counts", "explain"}
CardSoFar(db, c, depth, pc) ==
  /\ pc \in {"callers", "callees", "counts", "explain"} => HasRefs(db, c, depth)
  /\ pc \in {"callees", "counts", "explain"} => HasCallers(db, c, depth)
  /\ pc \in {"counts", "explain"} => HasCallees(db, c, depth)
  /\ pc = "explain" => HasCounts(db, c, depth)
PackLists(found, todo, cards, failed, now) ==
  /\ todo \in Seq(Range(found)) /\ cards \in Seq(Range(cards))
  /\ {cards[k].sym : k \in DOMAIN cards} \cup failed \cup Range(todo) \cup now = Range(found)
PackGood(db, cards, failed, depth) == failed \cap db.syms = {} /\ \A k \in DOMAIN cards : FullCard(db, cards[k], depth)
Now == IF review.pc \in Working THEN {review.card.sym} ELSE {}
PackAsked == {"args", "depth"} \subseteq DOMAIN review /\ review.depth \in Depths /\ review.args \in Seq(Range(review.args))
PackFound ==
  /\ {"found", "todo", "cards", "failed"} \subseteq DOMAIN review
  /\ PackLists(review.found, review.todo, review.cards, review.failed, Now)
  /\ Quiet => PackGood(d, review.cards, review.failed, review.depth)
CardBegun ==
  /\ "card" \in DOMAIN review /\ "sym" \in DOMAIN review.card /\ "pattern" \notin DOMAIN review.card
  /\ Quiet => CardSoFar(d, review.card, review.depth, review.pc)
PackInv ==
  review.verb = "pack" =>
  /\ review.pc \in {"asks", "load", "done", "refused"} \cup Working
  /\ PackAsked
  /\ review.pc \in {"load", "done"} \cup Working => built # Unborn /\ PackFound
  /\ review.pc \in Working => CardBegun
  /\ review.pc = "done" => review.todo = <<>>

LEMMA PackInvInit == ClientInit => PackInv
  <1>1. CASE review = Off
    BY <1>1 DEF Off, PackInv
  <1>2. ASSUME NEW x \in Cases, review = Over([pc |-> "asks"], x[1]) PROVE PackInv
    <2>1. DOMAIN review = {"pc"} \cup DOMAIN x[1] /\ review.pc = "asks"
      BY <1>2 DEF Over
    <2>2. \A k \in DOMAIN x[1] : k # "pc" => review[k] = x[1][k]
      BY <1>2 DEF Over
    <2>3. /\ "verb" \in DOMAIN x[1]
          /\ x[1].verb = "pack" => {"args", "depth"} \subseteq DOMAIN x[1] /\ x[1].depth \in Depths /\ x[1].args \in Seq(Range(x[1].args))
      BY CasesAssumption
    <2> SUFFICES ASSUME review.verb = "pack" PROVE PackAsked
      BY <2>1 DEF PackInv, Working
    <2>4. x[1].verb = "pack" /\ "args" \in DOMAIN x[1] /\ "depth" \in DOMAIN x[1]
      BY <2>2, <2>3
    <2>5. review.args = x[1].args /\ review.depth = x[1].depth
      BY <2>2, <2>4
    <2> QED BY <2>1, <2>3, <2>4, <2>5 DEF PackAsked
  <1> QED BY <1>1, <1>2 DEF ClientInit, ReviewInit

PackFollows(more) ==
  /\ Follows("args", more) /\ Follows("depth", more) /\ Follows("found", more) /\ Follows("todo", more)
  /\ Follows("cards", more) /\ Follows("failed", more) /\ Follows("card", more)

LEMMA PackGoes ==
  ASSUME NEW pc, NEW more, Goes(pc, more), "pc" \notin DOMAIN more
  PROVE  review'.pc = pc /\ PackFollows(more)
  <1>1. \A k : k # "pc" => Follows(k, more)
    BY FieldFollows
  <1>2. review'["pc"] = pc
    BY GoesAdds
  <1> QED BY <1>1, <1>2 DEF PackFollows

LEMMA HeadAndTail ==
  ASSUME NEW S, NEW todo \in Seq(S), todo # <<>>
  PROVE  Tail(todo) \in Seq(S) /\ Range(todo) = {Head(todo)} \cup Range(Tail(todo)) /\ Head(todo) \in S
  <1>1. Tail(todo) \in Seq(S) /\ Head(todo) = todo[1] /\ Len(todo) \in Nat \ {0} /\ Len(Tail(todo)) = Len(todo) - 1
    OBVIOUS
  <1>2. \A i \in 1..(Len(todo) - 1) : Tail(todo)[i] = todo[i + 1]
    OBVIOUS
  <1>3. DOMAIN todo = 1..Len(todo) /\ DOMAIN Tail(todo) = 1..(Len(todo) - 1)
    BY <1>1
  <1>4. \A i \in 1..Len(todo) : i = 1 \/ (i - 1 \in 1..(Len(todo) - 1) /\ todo[i] = Tail(todo)[i - 1])
    BY <1>1, <1>2
  <1>5. Range(todo) \subseteq {Head(todo)} \cup Range(Tail(todo))
    <2>1. ASSUME NEW i \in 1..Len(todo) PROVE todo[i] \in {Head(todo)} \cup {Tail(todo)[k] : k \in 1..(Len(todo) - 1)}
      <3>1. CASE i = 1
        BY <1>1, <3>1
      <3>2. CASE i # 1
        BY <1>4, <3>2
      <3> QED BY <3>1, <3>2
    <2>2. Range(todo) = {todo[i] : i \in 1..Len(todo)} /\ Range(Tail(todo)) = {Tail(todo)[k] : k \in 1..(Len(todo) - 1)}
      BY <1>3 DEF Range
    <2> QED BY <2>1, <2>2
  <1>6. {Head(todo)} \cup Range(Tail(todo)) \subseteq Range(todo)
    <2>1. \A i \in 1..(Len(todo) - 1) : i + 1 \in 1..Len(todo)
      BY <1>1
    <2>2. 1 \in 1..Len(todo)
      BY <1>1
    <2> QED BY <1>1, <1>2, <1>3, <2>1, <2>2 DEF Range
  <1> QED BY <1>1, <1>5, <1>6

LEMMA OneMore ==
  ASSUME NEW rows, rows \in Seq(Range(rows)), NEW c
  PROVE  LET more == Append(rows, c)
         IN /\ more \in Seq(Range(more))
            /\ {more[k].sym : k \in DOMAIN more} = {rows[k].sym : k \in DOMAIN rows} \cup {c.sym}
            /\ \A k \in DOMAIN more : more[k] = c \/ \E j \in DOMAIN rows : more[k] = rows[j]
  <1> DEFINE more == Append(rows, c)
             n    == Len(rows)
  <1>1. n \in Nat /\ DOMAIN rows = 1..n /\ rows \in Seq(Range(rows) \cup {c})
    <2>1. rows \in Seq(Range(rows) \cup {c})
      OBVIOUS
    <2> QED BY <2>1
  <1>2. more \in Seq(Range(rows) \cup {c}) /\ Len(more) = n + 1 /\ more[n + 1] = c /\ \A k \in 1..n : more[k] = rows[k]
    <2> HIDE DEF n
    <2>1. n = Len(rows)
      BY DEF n
    <2> QED BY <1>1, <2>1
  <1> HIDE DEF more, n
  <1>3. DOMAIN more = 1..(n + 1) /\ List(more, n + 1)
    BY <1>1, <1>2 DEF List
  <1>4. \A k \in 1..(n + 1) : k = n + 1 \/ k \in 1..n
    BY <1>1
  <1>5. 1..n \subseteq 1..(n + 1) /\ n + 1 \in 1..(n + 1)
    BY <1>1
  <1>6. more \in Seq(Range(more))
    <2>1. \A k \in 1..(n + 1) : more[k] \in Range(more)
      BY <1>3 DEF Range
    <2>2. more = [k \in 1..(n + 1) |-> more[k]] /\ n + 1 \in Nat
      BY <1>1, <1>3 DEF List
    <2> QED BY <2>1, <2>2
  <1>7. \A k \in 1..(n + 1) : more[k] = c \/ \E j \in 1..n : more[k] = rows[j]
    BY <1>2, <1>4
  <1>8. {more[k].sym : k \in 1..(n + 1)} = {rows[k].sym : k \in 1..n} \cup {c.sym}
    <2>1. ASSUME NEW k \in 1..(n + 1) PROVE more[k].sym \in {rows[j].sym : j \in 1..n} \cup {c.sym}
      BY <1>2, <1>4
    <2>2. c.sym = more[n + 1].sym /\ \A k \in 1..n : rows[k].sym = more[k].sym
      BY <1>2
    <2> QED BY <1>5, <2>1, <2>2
  <1> QED BY <1>1, <1>3, <1>6, <1>7, <1>8 DEF more

LEMMA FieldKept ==
  ASSUME NEW new, NEW c, NEW k \in DOMAIN c, k \notin DOMAIN new
  PROVE  k \in DOMAIN Over(new, c) /\ Over(new, c)[k] = c[k]
  BY DEF Over
LEMMA FieldNew ==
  ASSUME NEW new, NEW c, NEW k \in DOMAIN new
  PROVE  k \in DOMAIN Over(new, c) /\ Over(new, c)[k] = new[k]
  BY DEF Over

\* What a card has it keeps when other fields are added.
LEMMA CardKept ==
  ASSUME NEW c, "sym" \in DOMAIN c, NEW new, "sym" \notin DOMAIN new, NEW db, NEW depth
  PROVE  LET more == Over(new, c)
         IN /\ "sym" \in DOMAIN more /\ more.sym = c.sym /\ DOMAIN more = DOMAIN new \cup DOMAIN c
            /\ "refs" \notin DOMAIN new /\ HasRefs(db, c, depth) => HasRefs(db, more, depth)
            /\ DOMAIN new \cap {"refCount", "callers"} = {} /\ HasCallers(db, c, depth) => HasCallers(db, more, depth)
            /\ DOMAIN new \cap {"callerCount", "callees"} = {} /\ HasCallees(db, c, depth) => HasCallees(db, more, depth)
            /\ "calleeCount" \notin DOMAIN new /\ HasCounts(db, c, depth) => HasCounts(db, more, depth)
            /\ "pattern" \notin DOMAIN new \cup DOMAIN c => HasPattern(db, more)
  <1> DEFINE more == Over(new, c)
  <1>1. DOMAIN more = DOMAIN new \cup DOMAIN c
    BY OverDomain
  <1>2. \A k \in DOMAIN c : k \notin DOMAIN new => k \in DOMAIN more /\ more[k] = c[k]
    BY FieldKept
  <1> HIDE DEF more
  <1>3. "sym" \in DOMAIN more /\ more.sym = c.sym
    BY <1>2
  <1>4. "refs" \notin DOMAIN new /\ HasRefs(db, c, depth) => HasRefs(db, more, depth)
    BY <1>2, <1>3 DEF HasRefs
  <1>5. DOMAIN new \cap {"refCount", "callers"} = {} /\ HasCallers(db, c, depth) => HasCallers(db, more, depth)
    BY <1>2, <1>3 DEF HasCallers
  <1>6. DOMAIN new \cap {"callerCount", "callees"} = {} /\ HasCallees(db, c, depth) => HasCallees(db, more, depth)
    BY <1>2, <1>3 DEF HasCallees
  <1>7. "calleeCount" \notin DOMAIN new /\ HasCounts(db, c, depth) => HasCounts(db, more, depth)
    BY <1>2, <1>3 DEF HasCounts
  <1>8. "pattern" \notin DOMAIN new \cup DOMAIN c => HasPattern(db, more)
    BY <1>1 DEF HasPattern
  <1> QED BY <1>1, <1>3, <1>4, <1>5, <1>6, <1>7, <1>8 DEF more

\* A card that is complete is shown.
LEMMA CardShown ==
  ASSUME NEW found, NEW todo, NEW cards, NEW failed, NEW c, PackLists(found, todo, cards, failed, {c.sym})
  PROVE  /\ PackLists(found, todo, Append(cards, c), failed, {})
         /\ \A db, depth : PackGood(db, cards, failed, depth) /\ FullCard(db, c, depth) => PackGood(db, Append(cards, c), failed, depth)
  <1> DEFINE more == Append(cards, c)
  <1>1. cards \in Seq(Range(cards))
    BY DEF PackLists
  <1>2. /\ more \in Seq(Range(more))
        /\ {more[k].sym : k \in DOMAIN more} = {cards[k].sym : k \in DOMAIN cards} \cup {c.sym}
        /\ \A k \in DOMAIN more : more[k] = c \/ \E j \in DOMAIN cards : more[k] = cards[j]
    BY <1>1, OneMore
  <1> HIDE DEF more
  <1>3. PackLists(found, todo, more, failed, {})
    BY <1>2 DEF PackLists
  <1>4. ASSUME NEW db, NEW depth, PackGood(db, cards, failed, depth), FullCard(db, c, depth)
        PROVE  PackGood(db, more, failed, depth)
    BY <1>2, <1>4 DEF PackGood
  <1> QED BY <1>3, <1>4 DEF more

LEMMA PackLoadsStep ==
  ASSUME HasVerb, PackInv, PackLoads, review'.verb = review.verb
  PROVE  PackInv'
  <1> DEFINE i      == Head(review.todo)
             rest   == [todo |-> Tail(review.todo)]
             card   == [card |-> ToResultWithHints(d, i)]
             failed == [failed |-> review.failed \cup {i}]
  <1>1. /\ review.verb = "pack" /\ review.pc = "load" /\ review.todo # <<>> /\ UNCHANGED <<d, stirred, built>>
        /\ PackAsked /\ built # Unborn /\ PackFound
    BY DEF PackLoads, Steps, Runs, surroundings, PackInv
  <1>2. review.todo \in Seq(Range(review.found)) /\ Now = {} /\ (Quiet <=> Quiet')
    BY <1>1 DEF PackFound, PackLists, Now, Working, Quiet, Undisturbed
  <1>3. Tail(review.todo) \in Seq(Range(review.found)) /\ Range(review.todo) = {i} \cup Range(Tail(review.todo))
    BY <1>1, <1>2, HeadAndTail
  <1>4. \/ i \in d.syms /\ Goes("refs", Over(rest, card))
        \/ Goes("refused", <<>>)
        \/ i \notin d.syms /\ Goes("load", Over(rest, failed))
    BY DEF PackLoads
  <1>5. CASE i \in d.syms /\ Goes("refs", Over(rest, card))
    <2>1. /\ DOMAIN Over(rest, card) = {"todo", "card"} /\ Over(rest, card).todo = Tail(review.todo)
          /\ Over(rest, card).card = ToResultWithHints(d, i)
      BY DEF Over
    <2> HIDE DEF rest, card
    <2>2. review'.pc = "refs" /\ PackFollows(Over(rest, card))
      BY <1>5, <2>1, PackGoes
    <2>3. /\ {"todo", "card", "found", "cards", "failed", "args", "depth"} \subseteq DOMAIN review'
          /\ review'.todo = Tail(review.todo) /\ review'.card = ToResultWithHints(d, i)
          /\ review'.found = review.found /\ review'.cards = review.cards /\ review'.failed = review.failed
          /\ review'.args = review.args /\ review'.depth = review.depth
      BY <1>1, <2>1, <2>2 DEF PackFollows, Follows, Adds, Keeps, PackFound, PackAsked
    <2>4. "sym" \in DOMAIN review'.card /\ "pattern" \notin DOMAIN review'.card /\ review'.card.sym = i
      BY <2>3 DEF ToResultWithHints
    <2>5. Now' = {i}
      BY <2>2, <2>4 DEF Now, Working
    <2>6. PackLists(review'.found, review'.todo, review'.cards, review'.failed, Now')
      BY <1>1, <1>2, <1>3, <2>3, <2>5 DEF PackFound, PackLists
    <2>7. PackFound'
      BY <1>1, <1>2, <2>3, <2>6 DEF PackFound
    <2>8. CardBegun'
      BY <2>2, <2>3, <2>4 DEF CardBegun, CardSoFar
    <2>9. PackAsked'
      BY <1>1, <2>3 DEF PackAsked
    <2> QED BY <1>1, <2>2, <2>7, <2>8, <2>9 DEF PackInv, Working
  <1>6. CASE Goes("refused", <<>>)
    <2>1. review'.pc = "refused" /\ PackFollows(<<>>)
      BY <1>6, PackGoes, NoneAdded
    <2>2. PackAsked'
      BY <1>1, <2>1, NoneAdded DEF PackFollows, Follows, Keeps, PackAsked
    <2> QED BY <2>1, <2>2 DEF PackInv, Working
  <1>7. CASE i \notin d.syms /\ Goes("load", Over(rest, failed))
    <2>1. /\ DOMAIN Over(rest, failed) = {"todo", "failed"} /\ Over(rest, failed).todo = Tail(review.todo)
          /\ Over(rest, failed).failed = review.failed \cup {i}
      BY DEF Over
    <2> HIDE DEF rest, failed
    <2>2. review'.pc = "load" /\ PackFollows(Over(rest, failed))
      BY <1>7, <2>1, PackGoes
    <2>3. /\ {"todo", "found", "cards", "failed", "args", "depth"} \subseteq DOMAIN review'
          /\ review'.todo = Tail(review.todo) /\ review'.failed = review.failed \cup {i}
          /\ review'.found = review.found /\ review'.cards = review.cards
          /\ review'.args = review.args /\ review'.depth = review.depth
      BY <1>1, <2>1, <2>2 DEF PackFollows, Follows, Adds, Keeps, PackFound, PackAsked
    <2>4. Now' = {}
      BY <2>2 DEF Now, Working
    <2>5. PackLists(review'.found, review'.todo, review'.cards, review'.failed, Now')
      BY <1>1, <1>2, <1>3, <2>3, <2>4 DEF PackFound, PackLists
    <2>6. Quiet' => PackGood(d', review'.cards, review'.failed, review'.depth)
      BY <1>1, <1>2, <1>7, <2>3 DEF PackFound, PackGood
    <2>7. PackFound'
      BY <2>3, <2>5, <2>6 DEF PackFound
    <2>8. PackAsked'
      BY <1>1, <2>3 DEF PackAsked
    <2> QED BY <1>1, <2>2, <2>7, <2>8 DEF PackInv, Working
  <1> QED BY <1>4, <1>5, <1>6, <1>7

\* A statement that adds to the card.
LEMMA PackFills ==
  ASSUME HasVerb, PackInv, review'.verb = review.verb, review.verb = "pack", review.pc \in Working, UNCHANGED <<d, stirred, built>>,
         NEW pc \in Working, NEW new, Goes(pc, [card |-> Over(new, review.card)]), {"sym", "pattern"} \cap DOMAIN new = {},
         Quiet /\ CardSoFar(d, review.card, review.depth, review.pc) => CardSoFar(d, Over(new, review.card), review.depth, pc)
  PROVE  PackInv'
  <1>1. PackAsked /\ built # Unborn /\ PackFound /\ CardBegun /\ Now = {review.card.sym} /\ (Quiet <=> Quiet')
    BY DEF PackInv, Now, Quiet, Undisturbed
  <1> DEFINE more == [card |-> Over(new, review.card)]
  <1>2. DOMAIN more = {"card"} /\ more["card"] = Over(new, review.card)
    OBVIOUS
  <1> HIDE DEF more
  <1>3. review'.pc = pc /\ PackFollows(more)
    BY <1>2, PackGoes DEF more
  <1>4. /\ {"todo", "card", "found", "cards", "failed", "args", "depth"} \subseteq DOMAIN review'
        /\ review'.card = Over(new, review.card) /\ review'.todo = review.todo
        /\ review'.found = review.found /\ review'.cards = review.cards /\ review'.failed = review.failed
        /\ review'.args = review.args /\ review'.depth = review.depth
    BY <1>1, <1>2, <1>3 DEF PackFollows, Follows, Adds, Keeps, PackFound, PackAsked
  <1>5. "sym" \in DOMAIN review'.card /\ "pattern" \notin DOMAIN review'.card /\ review'.card.sym = review.card.sym
    <2>1. "sym" \in DOMAIN review.card /\ "pattern" \notin DOMAIN review.card /\ "sym" \notin DOMAIN new
      BY <1>1 DEF CardBegun
    <2> QED BY <1>4, <2>1, CardKept
  <1>6. Now' = Now
    BY <1>1, <1>3, <1>5 DEF Now
  <1>7. PackFound'
    BY <1>1, <1>4, <1>6 DEF PackFound
  <1>8. CardBegun'
    BY <1>1, <1>3, <1>4, <1>5 DEF CardBegun
  <1>9. PackAsked'
    BY <1>1, <1>4 DEF PackAsked
  <1> QED BY <1>1, <1>3, <1>7, <1>8, <1>9 DEF PackInv, Working

\* A card that is complete is appended.
LEMMA PackShows ==
  ASSUME HasVerb, PackInv, review'.verb = review.verb, review.verb = "pack", review.pc \in Working, UNCHANGED <<d, stirred, built>>,
         NEW new, Goes("load", [cards |-> Append(review.cards, Over(new, review.card))]), "sym" \notin DOMAIN new,
         Quiet /\ CardSoFar(d, review.card, review.depth, review.pc) => FullCard(d, Over(new, review.card), review.depth)
  PROVE  PackInv'
  <1> DEFINE c    == Over(new, review.card)
             more == [cards |-> Append(review.cards, c)]
  <1>1. PackAsked /\ built # Unborn /\ PackFound /\ CardBegun /\ Now = {review.card.sym} /\ (Quiet <=> Quiet')
    BY DEF PackInv, Now, Quiet, Undisturbed
  <1>2. DOMAIN more = {"cards"} /\ more["cards"] = Append(review.cards, c) /\ Goes("load", more)
    OBVIOUS
  <1>3. c.sym = review.card.sym
    BY <1>1, CardKept DEF CardBegun
  <1>a. Quiet => FullCard(d, c, review.depth)
    BY <1>1 DEF CardBegun
  <1> HIDE DEF more, c
  <1>4. review'.pc = "load" /\ PackFollows(more)
    BY <1>2, PackGoes
  <1>5. /\ {"todo", "found", "cards", "failed", "args", "depth"} \subseteq DOMAIN review'
        /\ review'.cards = Append(review.cards, c) /\ review'.todo = review.todo
        /\ review'.found = review.found /\ review'.failed = review.failed
        /\ review'.args = review.args /\ review'.depth = review.depth
    BY <1>1, <1>2, <1>4 DEF PackFollows, Follows, Adds, Keeps, PackFound, PackAsked
  <1>6. Now' = {}
    BY <1>4 DEF Now, Working
  <1>7. PackLists(review.found, review.todo, review.cards, review.failed, {c.sym})
    BY <1>1, <1>3 DEF PackFound
  <1>8. PackLists(review'.found, review'.todo, review'.cards, review'.failed, Now')
    BY <1>5, <1>6, <1>7, CardShown
  <1>9. Quiet' => PackGood(d', review'.cards, review'.failed, review'.depth)
    BY <1>1, <1>5, <1>7, <1>a, CardShown DEF PackFound
  <1>10. PackFound' /\ PackAsked'
    BY <1>1, <1>5, <1>8, <1>9 DEF PackFound, PackAsked
  <1> QED BY <1>1, <1>4, <1>10 DEF PackInv, Working

LEMMA PackStarts ==
  ASSUME HasVerb, PackInv, review'.verb = review.verb, review.verb = "pack", built # Unborn, UNCHANGED <<d, stirred, built>>,
         NEW ids, ids \in Seq(Range(ids)), Goes("load", Over([found |-> ids, todo |-> ids], Nothing))
  PROVE  PackInv'
  <1> DEFINE more == Over([found |-> ids, todo |-> ids], Nothing)
  <1>1. DOMAIN more = {"found", "todo", "cards", "failed"} /\ more.found = ids /\ more.todo = ids /\ more.cards = <<>> /\ more.failed = {}
    BY DEF Over, Nothing
  <1> HIDE DEF more
  <1>2. review'.pc = "load" /\ PackFollows(more)
    BY <1>1, PackGoes DEF more
  <1>3. /\ {"todo", "found", "cards", "failed", "args", "depth"} \subseteq DOMAIN review'
        /\ review'.found = ids /\ review'.todo = ids /\ review'.cards = <<>> /\ review'.failed = {}
        /\ review'.args = review.args /\ review'.depth = review.depth
    BY <1>1, <1>2 DEF PackFollows, Follows, Adds, Keeps, PackInv, PackAsked
  <1>4. Now' = {}
    BY <1>2 DEF Now, Working
  <1>5. PackLists(ids, ids, <<>>, {}, {})
    <2>1. <<>> \in Seq(Range(<<>>)) /\ DOMAIN <<>> = {}
      OBVIOUS
    <2> QED BY <2>1 DEF PackLists
  <1>6. PackGood(d', <<>>, {}, review'.depth)
    BY DEF PackGood
  <1>7. PackFound'
    BY <1>3, <1>4, <1>5, <1>6 DEF PackFound
  <1>8. PackAsked'
    BY <1>3 DEF PackAsked, PackInv
  <1> QED BY <1>2, <1>7, <1>8 DEF PackInv, Working

LEMMA PackRefused ==
  ASSUME HasVerb, PackInv, review'.verb = review.verb, review.verb = "pack",
         NEW more, DOMAIN more \cap {"pc", "args", "depth"} = {}, Goes("refused", more)
  PROVE  PackInv'
  <1>1. review'.pc = "refused" /\ PackFollows(more)
    BY PackGoes
  <1>2. PackAsked'
    BY <1>1 DEF PackFollows, Follows, Keeps, PackAsked, PackInv
  <1> QED BY <1>1, <1>2 DEF PackInv, Working

\* The symbols that the arguments name, and the end of the list.
LEMMA PackBegins ==
  ASSUME HasVerb, PackInv, review'.verb = review.verb, review.verb = "pack", NoIndex \/ Finds \/ PackFinds \/ PackEnds
  PROVE  PackInv'
  <1>1. CASE NoIndex
    BY <1>1, NoneAdded, PackRefused DEF NoIndex
  <1>2. CASE Finds
    <2>1. built # Unborn /\ UNCHANGED <<d, stirred, built>>
      BY <1>2 DEF Finds, surroundings
    <2>2. ASSUME NEW i, Goes("load", Over([found |-> <<i>>, todo |-> <<i>>], Nothing)) PROVE PackInv'
      <3> DEFINE ids == <<i>>
      <3>1. ids \in Seq(Range(ids))
        BY DEF Range
      <3>2. Goes("load", Over([found |-> ids, todo |-> ids], Nothing))
        BY <2>2
      <3> HIDE DEF ids
      <3> QED BY <2>1, <3>1, <3>2, PackStarts
    <2>3. ASSUME NEW names, Goes("refused", [suggested |-> names]) PROVE PackInv'
      <3> DEFINE more == [suggested |-> names]
      <3>1. DOMAIN more \cap {"pc", "args", "depth"} = {} /\ Goes("refused", more)
        BY <2>3
      <3> HIDE DEF more
      <3> QED BY <3>1, PackRefused
    <2> QED BY <1>2, <2>2, <2>3 DEF Finds
  <1>3. CASE PackFinds
    <2>1. built # Unborn /\ UNCHANGED <<d, stirred, built>> /\ PackAsked
      BY <1>3 DEF PackFinds, Steps, surroundings, PackInv
    <2>2. ASSUME NEW ids, ids = Column(review.args, LAMBDA a : a.id), Goes("load", Over([found |-> ids, todo |-> ids], Nothing))
          PROVE  PackInv'
      <3>1. ids = [k \in DOMAIN review.args |-> review.args[k].id]
        BY <2>2 DEF Column
      <3>2. DOMAIN review.args = 1..Len(review.args) /\ Len(review.args) \in Nat
        BY <2>1 DEF PackAsked
      <3>3. ids \in Seq(Range(ids))
        <4> DEFINE n == Len(review.args)
        <4>1. n \in Nat /\ DOMAIN ids = 1..n /\ ids = [k \in 1..n |-> ids[k]]
          BY <3>1, <3>2
        <4> HIDE DEF n
        <4>2. \A k \in 1..n : ids[k] \in Range(ids)
          BY <4>1 DEF Range
        <4> QED BY <4>1, <4>2
      <3> QED BY <2>1, <2>2, <3>3, PackStarts
    <2>3. CASE Goes("refused", <<>>)
      BY <2>3, NoneAdded, PackRefused
    <2> QED BY <1>3, <2>2, <2>3 DEF PackFinds
  <1>4. CASE PackEnds
    <2>1. review.pc = "load" /\ review.todo = <<>> /\ Goes("done", <<>>) /\ UNCHANGED <<d, stirred, built>> /\ PackAsked /\ built # Unborn /\ PackFound
      BY <1>4 DEF PackEnds, Steps, Runs, surroundings, PackInv
    <2>2. review'.pc = "done" /\ PackFollows(<<>>)
      BY <2>1, NoneAdded, PackGoes
    <2>3. /\ {"todo", "found", "cards", "failed", "args", "depth"} \subseteq DOMAIN review'
          /\ review'.found = review.found /\ review'.todo = review.todo /\ review'.cards = review.cards /\ review'.failed = review.failed
          /\ review'.args = review.args /\ review'.depth = review.depth
      BY <2>1, <2>2, NoneAdded DEF PackFollows, Follows, Keeps, PackFound, PackAsked
    <2>4. Now' = {} /\ Now = {} /\ (Quiet <=> Quiet')
      BY <2>1, <2>2 DEF Now, Working, Quiet, Undisturbed
    <2>5. PackFound' /\ PackAsked'
      BY <2>1, <2>3, <2>4 DEF PackFound, PackAsked
    <2> QED BY <2>1, <2>2, <2>3, <2>5 DEF PackInv, Working
  <1> QED BY <1>1, <1>2, <1>3, <1>4

\* The statements of a card, one after the other.
LEMMA PackAdds ==
  ASSUME HasVerb, PackInv, review'.verb = review.verb, review.verb = "pack",
         PackRefs \/ PackCallers \/ PackCallees \/ PackCounts \/ PackExplains
  PROVE  PackInv'
  <1> DEFINE i     == review.card.sym
             depth == review.depth
             c     == review.card
  <1>1. review.pc \in Working /\ UNCHANGED <<d, stirred, built>>
    BY DEF PackRefs, PackCallers, PackCallees, PackCounts, PackExplains, Steps, Runs, Working, surroundings
  <1>2. "sym" \in DOMAIN c /\ "pattern" \notin DOMAIN c
    BY <1>1 DEF PackInv, CardBegun
  <1>3. CASE PackRefs
    <2> DEFINE new == [refs |-> RefCard(d, i, Caps[depth])]
    <2>1. review.pc = "refs" /\ Goes("callers", [card |-> Over(new, review.card)])
      BY <1>3 DEF PackRefs, Steps, Runs, Fills
    <2>2. DOMAIN new = {"refs"} /\ new["refs"] = RefCard(d, i, Caps[depth])
      OBVIOUS
    <2> HIDE DEF new
    <2>3. CardSoFar(d, Over(new, c), depth, "callers")
      <3>1. "refs" \in DOMAIN Over(new, c) /\ Over(new, c)["refs"] = RefCard(d, i, Caps[depth])
        BY <2>2, FieldNew
      <3>2. Over(new, c).sym = i
        BY <1>2, <2>2, CardKept
      <3> QED BY <3>1, <3>2 DEF CardSoFar, HasRefs
    <2>4. "callers" \in Working /\ {"sym", "pattern"} \cap DOMAIN new = {}
      BY <2>2 DEF Working
    <2> QED BY <1>1, <2>1, <2>3, <2>4, PackFills
  <1>4. CASE PackCallers
    <2> DEFINE new == [refCount |-> GetRefCount(d, i),
                       methods  |-> IF isTypeKind(i) /\ depth # "sym" THEN GetMethodsForType(d, i) ELSE <<>>,
                       callers  |-> CallerCard(d, i, depth, Caps[depth])]
    <2>1. review.pc = "callers" /\ Goes("callees", [card |-> Over(new, review.card)])
      BY <1>4 DEF PackCallers, Steps, Runs, Fills
    <2>2. /\ DOMAIN new = {"refCount", "methods", "callers"} /\ new["refCount"] = GetRefCount(d, i)
          /\ new["callers"] = CallerCard(d, i, depth, Caps[depth])
      OBVIOUS
    <2> HIDE DEF new
    <2>3. CardSoFar(d, c, depth, "callers") => CardSoFar(d, Over(new, c), depth, "callees")
      <3>1. /\ {"refCount", "callers"} \subseteq DOMAIN Over(new, c) /\ Over(new, c)["refCount"] = GetRefCount(d, i)
            /\ Over(new, c)["callers"] = CallerCard(d, i, depth, Caps[depth])
        BY <2>2, FieldNew
      <3>2. Over(new, c).sym = i /\ (HasRefs(d, c, depth) => HasRefs(d, Over(new, c), depth))
        BY <1>2, <2>2, CardKept
      <3>3. HasCallers(d, Over(new, c), depth)
        BY <3>1, <3>2 DEF HasCallers
      <3> QED BY <3>2, <3>3 DEF CardSoFar
    <2>4. "callees" \in Working /\ {"sym", "pattern"} \cap DOMAIN new = {}
      BY <2>2 DEF Working
    <2> QED BY <1>1, <2>1, <2>3, <2>4, PackFills
  <1>5. CASE PackCallees
    <2> DEFINE new == [callerCount |-> CallerCount(d, i, depth), callees |-> CalleeCard(d, i, depth, Caps[depth])]
    <2>1. review.pc = "callees" /\ Goes("counts", [card |-> Over(new, review.card)])
      BY <1>5 DEF PackCallees, Steps, Runs, Fills
    <2>2. /\ DOMAIN new = {"callerCount", "callees"} /\ new["callerCount"] = CallerCount(d, i, depth)
          /\ new["callees"] = CalleeCard(d, i, depth, Caps[depth])
      OBVIOUS
    <2> HIDE DEF new
    <2>3. CardSoFar(d, c, depth, "callees") => CardSoFar(d, Over(new, c), depth, "counts")
      <3>1. /\ {"callerCount", "callees"} \subseteq DOMAIN Over(new, c) /\ Over(new, c)["callerCount"] = CallerCount(d, i, depth)
            /\ Over(new, c)["callees"] = CalleeCard(d, i, depth, Caps[depth])
        BY <2>2, FieldNew
      <3>2. /\ Over(new, c).sym = i /\ (HasRefs(d, c, depth) => HasRefs(d, Over(new, c), depth))
            /\ (HasCallers(d, c, depth) => HasCallers(d, Over(new, c), depth))
        BY <1>2, <2>2, CardKept
      <3>3. HasCallees(d, Over(new, c), depth)
        BY <3>1, <3>2 DEF HasCallees
      <3> QED BY <3>2, <3>3 DEF CardSoFar
    <2>4. "counts" \in Working /\ {"sym", "pattern"} \cap DOMAIN new = {}
      BY <2>2 DEF Working
    <2> QED BY <1>1, <2>1, <2>3, <2>4, PackFills
  <1>6. CASE PackCounts
    <2> DEFINE new == [calleeCount |-> CalleeCount(d, i, depth)]
    <2>1. /\ review.pc = "counts"
          /\ \/ Goes("explain", [card |-> Over(new, review.card)])
             \/ Goes("load", [cards |-> Append(review.cards, Over(new, review.card))])
      BY <1>6 DEF PackCounts, Steps, Runs
    <2>2. DOMAIN new = {"calleeCount"} /\ new["calleeCount"] = CalleeCount(d, i, depth)
      OBVIOUS
    <2> HIDE DEF new
    <2>3. /\ Over(new, c).sym = i /\ HasPattern(d, Over(new, c))
          /\ (HasRefs(d, c, depth) => HasRefs(d, Over(new, c), depth))
          /\ (HasCallers(d, c, depth) => HasCallers(d, Over(new, c), depth))
          /\ (HasCallees(d, c, depth) => HasCallees(d, Over(new, c), depth))
      BY <1>2, <2>2, CardKept
    <2>4. HasCounts(d, Over(new, c), depth)
      <3>1. "calleeCount" \in DOMAIN Over(new, c) /\ Over(new, c)["calleeCount"] = CalleeCount(d, i, depth)
        BY <2>2, FieldNew
      <3> QED BY <2>3, <3>1 DEF HasCounts
    <2>5. CardSoFar(d, c, depth, "counts") => CardSoFar(d, Over(new, c), depth, "explain") /\ FullCard(d, Over(new, c), depth)
      BY <2>3, <2>4 DEF CardSoFar, FullCard
    <2>6. "explain" \in Working /\ {"sym", "pattern"} \cap DOMAIN new = {}
      BY <2>2 DEF Working
    <2>7. CASE Goes("explain", [card |-> Over(new, review.card)])
      BY <1>1, <2>1, <2>5, <2>6, <2>7, PackFills
    <2>8. CASE Goes("load", [cards |-> Append(review.cards, Over(new, review.card))])
      BY <1>1, <2>1, <2>5, <2>6, <2>8, PackShows
    <2> QED BY <2>1, <2>7, <2>8
  <1>7. CASE PackExplains
    <2>0. review.pc = "explain"
      BY <1>7 DEF PackExplains, Steps, Runs
    <2>1. ASSUME NEW walk, Goes("load", [cards |-> Append(review.cards, Over(walk, review.card))]),
                 DOMAIN walk \subseteq {"degraded", "mechanism", "pattern"},
                 "pattern" \in DOMAIN walk => Callable(i) /\ walk["pattern"] \in detectCallerPattern(d, i, Caps.context)
          PROVE  PackInv'
      <3>1. /\ Over(walk, c).sym = i
            /\ (HasRefs(d, c, depth) => HasRefs(d, Over(walk, c), depth))
            /\ (HasCallers(d, c, depth) => HasCallers(d, Over(walk, c), depth))
            /\ (HasCallees(d, c, depth) => HasCallees(d, Over(walk, c), depth))
            /\ (HasCounts(d, c, depth) => HasCounts(d, Over(walk, c), depth))
            /\ ("pattern" \notin DOMAIN walk => HasPattern(d, Over(walk, c)))
        BY <1>2, <2>1, CardKept
      <3>2. HasPattern(d, Over(walk, c))
        <4>1. CASE "pattern" \in DOMAIN walk
          <5>1. Over(walk, c)["pattern"] = walk["pattern"]
            BY <4>1, FieldNew
          <5> QED BY <2>1, <3>1, <4>1, <5>1 DEF HasPattern
        <4> QED BY <3>1, <4>1
      <3>3. CardSoFar(d, c, depth, "explain") => FullCard(d, Over(walk, c), depth)
        BY <3>1, <3>2 DEF CardSoFar, FullCard
      <3>4. "sym" \notin DOMAIN walk
        BY <2>1
      <3> QED BY <1>1, <2>0, <2>1, <3>3, <3>4, PackShows
    <2>2. ASSUME NEW why, Goes("load", [cards |-> Append(review.cards, Over([degraded |-> why], review.card))]) PROVE PackInv'
      <3> DEFINE walk == [degraded |-> why]
      <3>1. DOMAIN walk = {"degraded"} /\ Goes("load", [cards |-> Append(review.cards, Over(walk, review.card))])
        BY <2>2
      <3> HIDE DEF walk
      <3> QED BY <2>1, <3>1
    <2>3. ASSUME Callable(i), NEW p \in detectCallerPattern(d, i, Caps.context), NEW steps,
                 Goes("load", [cards |-> Append(review.cards, Over([degraded |-> "", mechanism |-> steps, pattern |-> p], review.card))])
          PROVE  PackInv'
      <3> DEFINE walk == [degraded |-> "", mechanism |-> steps, pattern |-> p]
      <3>1. /\ DOMAIN walk = {"degraded", "mechanism", "pattern"} /\ walk["pattern"] = p
            /\ Goes("load", [cards |-> Append(review.cards, Over(walk, review.card))])
        BY <2>3
      <3> HIDE DEF walk
      <3> QED BY <2>1, <2>3, <3>1
    <2> QED BY <1>7, <2>2, <2>3 DEF PackExplains
  <1> QED BY <1>3, <1>4, <1>5, <1>6, <1>7

LEMMA PackInvStep ==
  ASSUME HasVerb, PackInv, review'.verb = review.verb, review.verb = "pack", Describe
  PROVE  PackInv'
  <1>1. NoIndex \/ Finds \/ Pack
    BY DEF Describe, DefInPkg, DefLoads, TypesLoads, TypesOfPackage, Steps, Runs
  <1>2. ~PackPackage
    BY DEF PackPackage, PackageFinds, PackageExports, PackageRanks, Steps, Runs
  <1>3. CASE NoIndex \/ Finds \/ PackFinds \/ PackEnds
    BY <1>3, PackBegins
  <1>4. CASE PackLoads
    BY <1>4, PackLoadsStep
  <1>5. CASE PackRefs \/ PackCallers \/ PackCallees \/ PackCounts \/ PackExplains
    BY <1>5, PackAdds
  <1> QED BY <1>1, <1>2, <1>3, <1>4, <1>5 DEF Pack

-----------------------------------------------------------------------------
(* pack of a package.                                                      *)

Exports(card) == "exports" \in DOMAIN card /\ (Quiet => card.exports = FindPackageSymbols(d, card.path, Caps.package, 0))
Used(card) ==
  /\ {"types", "funcs", "dependents"} \subseteq DOMAIN card
  /\ Quiet => card.types = TopTypesByRefs(d, card.path, Caps.key) /\ card.funcs = TopFuncsByCallCount(d, card.path, Caps.key, Prefixed)
  /\ card.dependents = Cardinality(Dependents(card.path, Module))
PackageInv ==
  review.verb = "package" =>
  /\ review.pc \in {"asks", "exports", "ranks", "done", "refused"}
  /\ review.pc \in {"exports", "ranks", "done"} => built # Unborn /\ "card" \in DOMAIN review /\ "path" \in DOMAIN review.card
  /\ review.pc \in {"ranks", "done"} => Exports(review.card)
  /\ review.pc = "done" => Used(review.card)

LEMMA PackageInvInit == ClientInit => PackageInv
  <1>1. CASE review = Off
    BY <1>1 DEF Off, PackageInv
  <1>2. ASSUME NEW x \in Cases, review = Over([pc |-> "asks"], x[1]) PROVE PackageInv
    <2>1. review.pc = "asks"
      BY <1>2 DEF Over
    <2> QED BY <2>1 DEF PackageInv
  <1> QED BY <1>1, <1>2 DEF ClientInit, ReviewInit

LEMMA PackageInvStep ==
  ASSUME HasVerb, PackageInv, review'.verb = review.verb, review.verb = "package", Describe
  PROVE  PackageInv'
  <1>1. NoIndex \/ PackPackage
    BY DEF Describe, Finds, Describers, Pack, PackFinds, PackLoads, PackRefs, PackCallers, PackCallees, PackCounts, PackExplains, PackEnds,
           DefInPkg, DefLoads, TypesLoads, TypesOfPackage, Steps, Runs
  <1>2. ASSUME Goes("refused", <<>>) PROVE PackageInv'
    <2>1. review'["pc"] = "refused"
      BY <1>2, GoesAdds, NoneAdded
    <2> QED BY <2>1 DEF PackageInv
  <1>3. CASE PackageFinds
    <2>1. built # Unborn /\ UNCHANGED built
      BY <1>3 DEF PackageFinds, Steps, surroundings
    <2>2. ASSUME NEW path, Goes("exports", [card |-> [path |-> path]]) PROVE PackageInv'
      <3> DEFINE more == [card |-> [path |-> path]]
      <3>1. DOMAIN more = {"card"} /\ more["card"] = [path |-> path] /\ Goes("exports", more)
        BY <2>2
      <3> HIDE DEF more
      <3>2. review'["pc"] = "exports" /\ "card" \in DOMAIN review' /\ review'["card"] = more["card"]
        BY <3>1, GoesAdds
      <3>3. "path" \in DOMAIN review'.card
        BY <3>1, <3>2
      <3> QED BY <2>1, <3>2, <3>3 DEF PackageInv
    <2> QED BY <1>2, <1>3, <2>2 DEF PackageFinds
  <1>4. ASSUME NEW pc, NEW new, Fills(pc, new)
        PROVE  review'.pc = pc /\ "card" \in DOMAIN review' /\ review'.card = Over(new, review.card)
    <2> DEFINE more == [card |-> Over(new, review.card)]
    <2>1. DOMAIN more = {"card"} /\ more["card"] = Over(new, review.card) /\ Goes(pc, more)
      BY <1>4 DEF Fills
    <2> HIDE DEF more
    <2> QED BY <2>1, GoesAdds
  <1>5. CASE PackageExports
    <2> DEFINE new == [exports |-> FindPackageSymbols(d, review.card.path, Caps.package, 0)]
    <2>1. /\ review.pc = "exports" /\ built # Unborn /\ UNCHANGED <<d, stirred, built>>
          /\ "path" \in DOMAIN review.card /\ Fills("ranks", new)
      BY <1>5 DEF PackageExports, Steps, Runs, surroundings, PackageInv
    <2>2. DOMAIN new = {"exports"} /\ new["exports"] = FindPackageSymbols(d, review.card.path, Caps.package, 0)
      OBVIOUS
    <2> HIDE DEF new
    <2>3. review'.pc = "ranks" /\ "card" \in DOMAIN review' /\ review'.card = Over(new, review.card)
      BY <1>4, <2>1
    <2>4. "path" \in DOMAIN review'.card /\ review'.card.path = review.card.path
      BY <2>1, <2>2, <2>3, FieldKept
    <2>5. "exports" \in DOMAIN review'.card /\ review'.card["exports"] = FindPackageSymbols(d, review.card.path, Caps.package, 0)
      BY <2>2, <2>3, FieldNew
    <2>6. Exports(review.card)'
      BY <2>1, <2>4, <2>5 DEF Exports
    <2> QED BY <2>1, <2>3, <2>4, <2>6 DEF PackageInv
  <1>6. CASE PackageRanks
    <2> DEFINE new == PackageUse(d, review.card.path)
    <2>1. /\ review.pc = "ranks" /\ built # Unborn /\ UNCHANGED <<d, stirred, built>> /\ Exports(review.card)
          /\ "path" \in DOMAIN review.card /\ Fills("done", new)
      BY <1>6 DEF PackageRanks, Steps, Runs, surroundings, PackageInv
    <2>2. /\ DOMAIN new = {"types", "funcs", "imports", "dependents"}
          /\ new["types"] = TopTypesByRefs(d, review.card.path, Caps.key)
          /\ new["funcs"] = TopFuncsByCallCount(d, review.card.path, Caps.key, Prefixed)
          /\ new["dependents"] = Cardinality(Dependents(review.card.path, Module))
      BY DEF PackageUse
    <2> HIDE DEF new
    <2>3. review'.pc = "done" /\ "card" \in DOMAIN review' /\ review'.card = Over(new, review.card)
      BY <1>4, <2>1
    <2>4. "path" \in DOMAIN review'.card /\ review'.card.path = review.card.path
      BY <2>1, <2>2, <2>3, FieldKept
    <2>5. Exports(review.card)'
      <3>1. "exports" \in DOMAIN review'.card /\ review'.card["exports"] = review.card["exports"]
        BY <2>1, <2>2, <2>3, FieldKept DEF Exports
      <3>2. Quiet' <=> Quiet
        BY <2>1 DEF Quiet, Undisturbed
      <3> QED BY <2>1, <2>4, <3>1, <3>2 DEF Exports
    <2>6. Used(review.card)'
      <3>1. \A k \in {"types", "funcs", "dependents"} : k \in DOMAIN review'.card /\ review'.card[k] = new[k]
        BY <2>2, <2>3, FieldNew
      <3> QED BY <2>1, <2>2, <2>4, <3>1 DEF Used
    <2> QED BY <2>1, <2>3, <2>4, <2>5, <2>6 DEF PackageInv
  <1> QED BY <1>1, <1>2, <1>3, <1>5, <1>6 DEF NoIndex, PackPackage

LEMMA CardInvariance == ClientSpec => [](EnvInv /\ PackInv /\ PackageInv)
  <1>1. ASSUME HasVerb, EnvInv, PackInv, PackageInv, [ClientNext]_<<vars, reviewVars>> PROVE PackInv' /\ PackageInv'
    <2>1. review'.verb = review.verb
      BY <1>1, VerbKept
    <2>2. CASE Describe
      <3>1. PackInv'
        BY <1>1, <2>1, <2>2, PackInvStep DEF PackInv
      <3>2. PackageInv'
        BY <1>1, <2>1, <2>2, PackageInvStep DEF PackageInv
      <3> QED BY <3>1, <3>2
    <2>3. CASE review.verb \notin {"pack", "package"}
      BY <2>1, <2>3 DEF PackInv, PackageInv
    <2>4. CASE UNCHANGED <<d, built, review, stirred>>
      <3>1. PackInv'
        BY <1>1, <2>4 DEF PackInv, PackAsked, PackFound, CardBegun, Now, Quiet, Undisturbed
      <3>2. PackageInv'
        BY <1>1, <2>4 DEF PackageInv, Exports, Used, Quiet, Undisturbed
      <3> QED BY <3>1, <3>2
    <2>5. CASE Stirs
      <3>1. UNCHANGED review /\ (Quiet' => Quiet /\ UNCHANGED d) /\ (built # Unborn => built' # Unborn)
        BY <2>5 DEF Stirs
      <3>2. (PackFound => PackFound') /\ (CardBegun => CardBegun') /\ (PackAsked => PackAsked')
        BY <3>1 DEF PackFound, CardBegun, PackAsked, Now
      <3>3. PackInv'
        BY <1>1, <3>1, <3>2 DEF PackInv
      <3>4. (Exports(review.card) => Exports(review.card)') /\ (Used(review.card) => Used(review.card)')
        BY <3>1 DEF Exports, Used
      <3>5. PackageInv'
        BY <1>1, <3>1, <3>4 DEF PackageInv
      <3> QED BY <3>3, <3>5
    <2>6. CASE review = Off
      BY <2>3, <2>6 DEF Off
    <2>7. CASE Lifecycle
      <3>1. review.verb = "lifecycle"
        BY <2>7 DEF Lifecycle, LifecycleFinds, LifecycleRefs, LifecycleCallers, LifecycleEnds, Steps, Runs
      <3> QED BY <2>3, <3>1
    <2> QED BY <1>1, <2>2, <2>3, <2>4, <2>5, <2>6, <2>7, StepsAre
  <1>2. EnvInv /\ [ClientNext]_<<vars, reviewVars>> => EnvInv'
    BY EnvInvStep
  <1> QED BY <1>1, <1>2, EnvInvInit, PackInvInit, PackageInvInit, RiskInvariance, PTL DEF ClientSpec

-----------------------------------------------------------------------------
(* What the card of a package has.                                         *)

LEMMA TopListed ==
  ASSUME NEW S, S \subseteq Syms, NEW use, \A i \in S : use[i] \in Int, NEW limit \in Nat
  PROVE  Range(Page(Ordered(S, [i \in S |-> Append(<<use[i], Sym[i].name>>, i)]), limit, 0)) \subseteq S
  <1> DEFINE base == [i \in S |-> <<use[i], Sym[i].name>>]
             key  == [i \in S |-> Append(base[i], i)]
  <1>1. key = [i \in S |-> Append(<<use[i], Sym[i].name>>, i)]
    OBVIOUS
  <1>2. base \in [S -> Seq(Int)] /\ \A i \in S : Len(base[i]) = 2
    <2> SUFFICES ASSUME NEW i \in S PROVE base[i] \in Seq(Int) /\ Len(base[i]) = 2
      OBVIOUS
    <2>1. use[i] \in Int /\ Sym[i].name \in Int
      BY SymTyped
    <2> QED BY <2>1
  <1> HIDE DEF base
  <1>3. Each(Ordered(S, key), Cardinality(S), S)
    <2>1. IsFiniteSet(Syms) /\ Syms \subseteq Nat /\ 2 \in Nat
      BY TablesFinite
    <2> QED BY ONLY <1>2, <2>1, S \subseteq Syms, OrderedRows
  <1> HIDE DEF key
  <1>4. Range(Page(Ordered(S, key), limit, 0)) \subseteq S
    BY <1>3, PageCounted
  <1> QED BY <1>1, <1>4

LEMMA TopOwn ==
  ASSUME Indexed3(d), NEW path, NEW limit \in Nat, NEW prefixed
  PROVE  Range(TopTypesByRefs(d, path, limit)) \cup Range(TopFuncsByCallCount(d, path, limit, prefixed)) \subseteq Own(path)
  <1>0. Most \in Int
    BY TablesAssumption DEF Most
  <1>1. Range(TopTypesByRefs(d, path, limit)) \subseteq Own(path)
    <2> DEFINE S   == {i \in d.syms : Sym[i].pkg = path /\ Sym[i].kind \in {"struct", "type", "interface"} /\ Sym[i].name \in Exported}
               use == [i \in S |-> Most - Cardinality({r \in d.refs : Refs[r].sym = i})]
    <2>1. TopTypesByRefs(d, path, limit) = Page(Ordered(S, [i \in S |-> Append(<<use[i], Sym[i].name>>, i)]), limit, 0)
      BY DEF TopTypesByRefs, OrderBy
    <2>2. \A i \in S : use[i] \in Int
      <3> SUFFICES ASSUME NEW i \in S PROVE use[i] \in Int
        OBVIOUS
      <3>1. {r \in d.refs : Refs[r].sym = i} \subseteq DOMAIN Refs
        BY DEF Indexed3
      <3>2. Cardinality({r \in d.refs : Refs[r].sym = i}) \in Nat
        BY <3>1, TablesFinite, FS_Subset, FS_CardinalityType
      <3> QED BY <1>0, <3>2
    <2>3. S \subseteq Syms /\ S \subseteq Own(path)
      BY DEF Indexed3, Own
    <2> HIDE DEF S, use
    <2> QED BY <2>1, <2>2, <2>3, TopListed
  <1>2. Range(TopFuncsByCallCount(d, path, limit, prefixed)) \subseteq Own(path)
    <2> DEFINE S   == {i \in d.syms : Sym[i].pkg = path /\ Sym[i].kind \in {"func", "method"} /\ Sym[i].name \in Exported \ prefixed}
               use == [i \in S |-> Most - CountCallers(d, i)]
    <2>1. TopFuncsByCallCount(d, path, limit, prefixed) = Page(Ordered(S, [i \in S |-> Append(<<use[i], Sym[i].name>>, i)]), limit, 0)
      BY DEF TopFuncsByCallCount, OrderBy
    <2>2. \A i \in S : use[i] \in Int
      <3> SUFFICES ASSUME NEW i \in S PROVE use[i] \in Int
        OBVIOUS
      <3>1. {c \in d.calls : Calls[c].to = i} \subseteq DOMAIN Calls
        BY DEF Indexed3
      <3>2. CountCallers(d, i) \in Nat
        BY <3>1, CallsCount DEF CountCallers
      <3> QED BY <1>0, <3>2
    <2>3. S \subseteq Syms /\ S \subseteq Own(path)
      BY DEF Indexed3, Own
    <2> HIDE DEF S, use
    <2> QED BY <2>1, <2>2, <2>3, TopListed
  <1> QED BY <1>1, <1>2

LEMMA ImportedRange ==
  ASSUME NEW S, S \subseteq DOMAIN Imports
  PROVE  Range(OrderBy(S, LAMBDA i : <<Imports[i].file>>)) = S
  <1> DEFINE base == [i \in S |-> <<Imports[i].file>>]
             key  == [i \in S |-> Append(base[i], i)]
  <1>1. OrderBy(S, LAMBDA i : <<Imports[i].file>>) = Ordered(S, key)
    <2>1. key = [i \in S |-> Append(<<Imports[i].file>>, i)]
      OBVIOUS
    <2> QED BY <2>1 DEF OrderBy
  <1>2. base \in [S -> Seq(Int)] /\ \A i \in S : Len(base[i]) = 1
    <2> SUFFICES ASSUME NEW i \in S PROVE base[i] \in Seq(Int) /\ Len(base[i]) = 1
      OBVIOUS
    <2>1. Imports[i].file \in Int
      BY ImportTyped
    <2> QED BY <2>1
  <1> HIDE DEF base
  <1>3. Each(Ordered(S, key), Cardinality(S), S)
    BY <1>2, TablesFinite, OrderedRows
  <1> HIDE DEF key
  <1> QED BY <1>1, <1>3, EachRange

\* A package has no more dependents in the module than packages import it.
LEMMA DependentsListed ==
  ASSUME NEW path, ResolvePkgPattern(d, path, Directory) = path, NEW mod
  PROVE  Cardinality(Dependents(path, mod)) <= Cardinality({Imports[r].by : r \in Range(FindImporters(d, path))})
  <1> DEFINE D == Dependents(path, mod)
             I == {Imports[r].by : r \in Range(FindImporters(d, path))}
             all == {Imports[r].by : r \in DOMAIN Imports}
             byDir == {i \in DOMAIN Imports : Has(Imports[i].pkg, path)}
             byPkg == {i \in DOMAIN Imports : Imports[i].pkg = path \/ EndsIn(Imports[i].pkg, path)}
  <1>1. Range(FindImporters(d, path)) \in {byDir, byPkg}
    <2>1. FindImporters(d, path) \in {FindImportersByDirectory(path), FindImportsByPackage(path)}
      BY DEF FindImporters
    <2>2. Range(FindImportersByDirectory(path)) = byDir /\ Range(FindImportsByPackage(path)) = byPkg
      <3>1. byDir \subseteq DOMAIN Imports /\ byPkg \subseteq DOMAIN Imports
        OBVIOUS
      <3>2. /\ FindImportersByDirectory(path) = OrderBy(byDir, LAMBDA i : <<Imports[i].file>>)
            /\ FindImportsByPackage(path) = OrderBy(byPkg, LAMBDA i : <<Imports[i].file>>)
        BY DEF FindImportersByDirectory, FindImportsByPackage
      <3> HIDE DEF byDir, byPkg
      <3>3. /\ Range(OrderBy(byDir, LAMBDA i : <<Imports[i].file>>)) = byDir
            /\ Range(OrderBy(byPkg, LAMBDA i : <<Imports[i].file>>)) = byPkg
        BY <3>1, ImportedRange
      <3> QED BY <3>2, <3>3
    <2> QED BY <2>1, <2>2
  <1>2. \A i \in DOMAIN Imports : Imports[i].pkg = path => i \in byDir \cap byPkg
    <2> SUFFICES ASSUME NEW i \in DOMAIN Imports, Imports[i].pkg = path PROVE Has(path, path)
      OBVIOUS
    <2>1. path \in Seq(Nat)
      <3> DEFINE Row == [file : Nat, pkg : Seq(Nat), by : Seq(Nat)]
      <3>1. Imports \in Seq(Row)
        BY TablesAssumption
      <3>2. Imports[i] \in Row
        <4> HIDE DEF Row
        <4> QED BY <3>1
      <3> QED BY <3>2
    <2>2. Len(path) - Len(path) = 0 /\ 0 \in 0..0 /\ SubSeq(path, 0 + 1, 0 + Len(path)) = path
      BY <2>1
    <2> QED BY <2>2 DEF Has
  <1>3. D \subseteq I
    <2> SUFFICES ASSUME NEW p \in D PROVE p \in I
      OBVIOUS
    <2>1. PICK i \in DOMAIN Imports : Imports[i].pkg = path /\ p = Imports[i].by
      BY DEF Dependents
    <2> HIDE DEF byDir, byPkg
    <2>2. i \in Range(FindImporters(d, path))
      BY <1>1, <1>2, <2>1
    <2> QED BY <2>1, <2>2
  <1>4. I \subseteq all
    <2>1. Range(FindImporters(d, path)) \subseteq DOMAIN Imports
      BY <1>1
    <2> QED BY <2>1
  <1>5. IsFiniteSet(all)
    <2> DEFINE f == [r \in DOMAIN Imports |-> Imports[r].by]
    <2>1. IsFiniteSet(DOMAIN f) /\ f = [x \in DOMAIN f |-> f[x]] /\ all = {f[r] : r \in DOMAIN f}
      BY TablesFinite
    <2> HIDE DEF f, all
    <2> QED BY <2>1, FiniteImage
  <1> HIDE DEF D, I, all
  <1>6. IsFiniteSet(I)
    BY <1>4, <1>5, FS_Subset
  <1>7. Cardinality(D) <= Cardinality(I)
    BY <1>3, <1>6, FS_Subset
  <1> QED BY <1>7 DEF D, I

\* pack: what was found is shown or has failed, and fails only if the index has it not;
\* the counts and lists of a card, each read by a statement of its own, are those that
\* refs, callers, callees, pkg and importers give, unless an index run came in between.
THEOREM CardsAreRight == ClientSpec => []CardsAgree
  <1>1. ASSUME EnvInv, PackInv, PackageInv PROVE CardsAgree
    <2>1. built # Unborn /\ review # Off => Indexed3(d)
      <3> SUFFICES ASSUME built # Unborn, review # Off PROVE Indexed3(d)
        OBVIOUS
      <3>1. built \in Trees /\ d = Indexed(built)
        BY <1>1 DEF EnvInv
      <3> QED BY <3>1, MeasuresAssumption, TreesAssumption DEF Indexed, Indexed3
    <2>2. \A verb : Done(verb) => review # Off
      BY DEF Done, Runs, Off
    <2>3. ASSUME Done("pack")
          PROVE  /\ {review.cards[k].sym : k \in DOMAIN review.cards} \cup review.failed = Range(review.found)
                 /\ Quiet => review.failed \cap d.syms = {} /\ \A k \in DOMAIN review.cards : CardAgrees(review.cards[k], review.depth)
      <3>1. PackAsked /\ PackFound /\ review.todo = <<>> /\ built # Unborn /\ Now = {}
        BY <1>1, <2>3 DEF PackInv, Done, Runs, Now, Working
      <3>2. Range(review.todo) = {}
        BY <3>1 DEF Range
      <3>3. {review.cards[k].sym : k \in DOMAIN review.cards} \cup review.failed = Range(review.found)
        BY <3>1, <3>2 DEF PackFound, PackLists
      <3>4. ASSUME Quiet PROVE review.failed \cap d.syms = {} /\ \A k \in DOMAIN review.cards : FullCard(d, review.cards[k], review.depth)
        BY <3>1, <3>4 DEF PackFound, PackGood
      <3>5. Indexed3(d) /\ review.depth \in Depths
        BY <2>1, <2>2, <2>3, <3>1 DEF PackAsked
      <3>6. ASSUME Quiet, NEW k \in DOMAIN review.cards PROVE CardAgrees(review.cards[k], review.depth)
        BY <3>4, <3>5, <3>6, FullCardAgrees
      <3> QED BY <3>3, <3>4, <3>6
    <2>4. ASSUME Done("package")
          PROVE  /\ Quiet => PackageAgrees(review.card)
                 /\ ResolvePkgPattern(d, review.card.path, Directory) = review.card.path =>
                      review.card.dependents <= Cardinality({Imports[r].by : r \in Range(FindImporters(d, review.card.path))})
      <3> DEFINE card == review.card
                 code == {i \in Own(card.path) : Sym[i].file \notin LikeTest}
      <3>1. built # Unborn /\ Exports(card) /\ Used(card)
        BY <1>1, <2>4 DEF PackageInv, Done, Runs
      <3>2. Indexed3(d)
        BY <2>1, <2>2, <2>4, <3>1
      <3>3. ASSUME Quiet PROVE PackageAgrees(card)
        <4>1. /\ card.exports = FindPackageSymbols(d, card.path, Caps.package, 0)
              /\ card.types = TopTypesByRefs(d, card.path, Caps.key) /\ card.funcs = TopFuncsByCallCount(d, card.path, Caps.key, Prefixed)
          BY <3>1, <3>3 DEF Exports, Used
        <4>2. Caps.package \in Nat \ {0} /\ Caps.key \in Nat
          BY CapsAssumption
        <4> HIDE DEF card
        <4>3. Own(card.path) # {} => /\ Range(card.exports) \subseteq Own(card.path)
                                     /\ Cardinality(Range(card.exports)) = Least(Cardinality(Own(card.path)), Caps.package)
          BY <3>2, <4>1, <4>2, ExportsOwn
        <4>4. code # {} => Range(FindPackageSymbolsByUsage(d, card.path, Len(Sym), 0)) = code
          BY <3>2, UsageListsOwn
        <4>5. Range(card.types) \cup Range(card.funcs) \subseteq Own(card.path)
          BY <3>2, <4>1, <4>2, TopOwn
        <4> QED BY <4>3, <4>4, <4>5 DEF PackageAgrees, Own
      <3>4. card.dependents = Cardinality(Dependents(card.path, Module))
        BY <3>1 DEF Used
      <3> QED BY <3>3, <3>4, DependentsListed
    <2> QED BY <2>3, <2>4 DEF CardsAgree, Quiet
  <1> QED BY <1>1, CardInvariance, PTL

-----------------------------------------------------------------------------
(* lifecycle: the levels of a walk are the distances.                      *)

LEMMA UpTo ==
  ASSUME NEW n \in Nat, NEW S, 0 \in S, \A k \in 1..n : k - 1 \in S => k \in S
  PROVE  \A k \in 0..n : k \in S
  <1> DEFINE Out == {k \in 0..n : k \notin S}
  <1>1. SUFFICES ASSUME Out # {} PROVE FALSE
    OBVIOUS
  <1>2. PICK k \in Out : \A m \in Out : k <= m
    <2>1. Out \in SUBSET Nat
      OBVIOUS
    <2> HIDE DEF Out
    <2> QED BY <1>1, <2>1, LeastOfNats
  <1>3. k \in 1..n /\ k - 1 \in 0..n
    BY <1>2
  <1>4. k - 1 \notin Out
    BY <1>2, <1>3
  <1> QED BY <1>2, <1>3, <1>4

\* What is made in n steps, each from the one before.
Stepped(f, n, V, first, step) == f \in [0..n -> V] /\ f[0] = first /\ \A k \in 1..n : f[k] = step[<<k, f[k - 1]>>]

LEMMA StepByStep ==
  ASSUME NEW n \in Nat, NEW V, NEW first \in V, NEW step \in [(1..n) \X V -> V]
  PROVE  \E f : Stepped(f, n, V, first, step)
  <1> DEFINE Made(m, f) == Stepped(f, m, V, first, step)
             S == {m \in 0..n : \E f : Made(m, f)}
  <1>1. 0 \in S
    <2> DEFINE f == [k \in 0..0 |-> first]
    <2>1. 1..0 = {} /\ f \in [0..0 -> V] /\ f[0] = first
      OBVIOUS
    <2> HIDE DEF f
    <2>2. Made(0, f)
      BY <2>1 DEF Stepped
    <2> HIDE DEF Made
    <2> QED BY <2>2
  <1>2. ASSUME NEW k \in 1..n, k - 1 \in S PROVE k \in S
    <2>1. PICK f : Made(k - 1, f)
      BY <1>2
    <2> DEFINE g == [j \in 0..k |-> IF j = k THEN step[<<k, f[k - 1]>>] ELSE f[j]]
    <2>2. f[k - 1] \in V /\ step[<<k, f[k - 1]>>] \in V
      BY <2>1 DEF Stepped
    <2>3. g \in [0..k -> V] /\ g[0] = first /\ g[k] = step[<<k, f[k - 1]>>] /\ \A j \in 0..(k - 1) : g[j] = f[j]
      BY <2>1, <2>2 DEF Stepped
    <2>4. \A j \in 1..k : g[j] = step[<<j, g[j - 1]>>]
      <3> SUFFICES ASSUME NEW j \in 1..k PROVE g[j] = step[<<j, g[j - 1]>>]
        OBVIOUS
      <3>1. g[j - 1] = f[j - 1]
        BY <2>3
      <3>2. CASE j = k
        BY <2>3, <3>1, <3>2
      <3>3. CASE j # k
        BY <2>1, <2>3, <3>1, <3>3 DEF Stepped
      <3> QED BY <3>2, <3>3
    <2>5. Made(k, g)
      BY <2>3, <2>4 DEF Stepped
    <2> HIDE DEF Made, g
    <2> QED BY <2>5
  <1> HIDE DEF S
  <1>3. n \in S
    BY <1>1, <1>2, UpTo
  <1> QED BY <1>3 DEF S

\* A function calls functions of the tables.
LEMMA CallersTyped ==
  ASSUME NEW db, Indexed3(db), NEW T
  PROVE  frontierCallers(db, T) \subseteq Syms
  <1>1. \A c \in db.calls : Calls[c].from \in Syms
    BY CallTyped DEF Indexed3
  <1> QED BY <1>1 DEF frontierCallers

Walked == [visited : SUBSET Syms, frontier : SUBSET Syms, nodes : SUBSET (Nat \X Syms)]

LEMMA LevelTyped ==
  ASSUME NEW db, Indexed3(db), NEW w \in Walked, NEW k \in Nat
  PROVE  Level(db, w, k) \in Walked
  <1> DEFINE next == frontierCallers(db, w.frontier) \ w.visited
  <1>1. next \subseteq Syms
    BY CallersTyped
  <1>2. /\ Level(db, w, k) = [visited |-> w.visited \cup next, frontier |-> next, nodes |-> w.nodes \cup {<<k, i>> : i \in next}]
        /\ w.visited \subseteq Syms /\ w.nodes \subseteq Nat \X Syms
    BY DEF Level, Walked
  <1> HIDE DEF next
  <1>3. w.visited \cup next \subseteq Syms /\ w.nodes \cup {<<k, i>> : i \in next} \subseteq Nat \X Syms
    BY <1>1, <1>2
  <1> QED BY <1>1, <1>2, <1>3 DEF Walked

LEMMA LevelsAre ==
  ASSUME NEW db, Indexed3(db), NEW from \in Walked, NEW n \in Nat
  PROVE  LET w == Levels(db, from, n)
         IN w[0] = from /\ \A k \in 1..n : w[k] = Level(db, w[k - 1], k)
  <1> DEFINE step == [e \in (1..n) \X Walked |-> Level(db, e[2], e[1])]
             Eq(w) == w = [k \in 0..n |-> IF k = 0 THEN from ELSE Level(db, w[k - 1], k)]
             w == Levels(db, from, n)
  <1>1. step \in [(1..n) \X Walked -> Walked]
    <2> SUFFICES ASSUME NEW k \in 1..n, NEW v \in Walked PROVE Level(db, v, k) \in Walked
      OBVIOUS
    <2> QED BY LevelTyped
  <1>2. PICK f : Stepped(f, n, Walked, from, step)
    <2> HIDE DEF step
    <2> QED BY <1>1, StepByStep
  <1>3. \A k \in 1..n : f[k] = Level(db, f[k - 1], k)
    <2> SUFFICES ASSUME NEW k \in 1..n PROVE f[k] = Level(db, f[k - 1], k)
      OBVIOUS
    <2>1. f[k - 1] \in Walked
      BY <1>2 DEF Stepped
    <2>2. step[<<k, f[k - 1]>>] = Level(db, f[k - 1], k)
      BY <2>1
    <2> HIDE DEF step
    <2> QED BY <1>2, <2>2 DEF Stepped
  <1> HIDE DEF step
  <1>4. Eq(f)
    BY <1>2, <1>3 DEF Stepped
  <1>5. w = CHOOSE v : Eq(v)
    BY DEF Levels
  <1> HIDE DEF w
  <1>6. Eq(w)
    <2> HIDE DEF Eq
    <2> QED BY <1>4, <1>5
  <1> QED BY <1>6 DEF w

CallersOf(db, S) == UNION {{Calls[c].from : c \in {c \in db.calls : Calls[c].to = i}} : i \in S}

LEMMA ReachedIs ==
  ASSUME NEW db, Indexed3(db), NEW fn \in Syms, NEW n \in Nat
  PROVE  LET within == Reached(db, fn, n)
         IN /\ within \in [0..n -> SUBSET Syms] /\ within[0] = {fn}
            /\ \A k \in 1..n : within[k] = within[k - 1] \cup frontierCallers(db, within[k - 1])
  <1> DEFINE more(S) == S \cup CallersOf(db, S)
             step == [e \in (1..n) \X (SUBSET Syms) |-> more(e[2])]
             Eq(w) == w = [k \in 0..n |-> IF k = 0 THEN {fn} ELSE w[k - 1] \cup CallersOf(db, w[k - 1])]
             within == Reached(db, fn, n)
  <1>1. \A S \in SUBSET Syms : CallersOf(db, S) = frontierCallers(db, S)
    BY DEF CallersOf, frontierCallers
  <1>2. \A S \in SUBSET Syms : more(S) = S \cup frontierCallers(db, S) /\ more(S) \in SUBSET Syms
    BY <1>1, CallersTyped
  <1> HIDE DEF more
  <1>3. step \in [(1..n) \X (SUBSET Syms) -> SUBSET Syms]
    BY <1>2
  <1>4. PICK f : Stepped(f, n, SUBSET Syms, {fn}, step)
    <2> HIDE DEF step
    <2>1. {fn} \in SUBSET Syms
      OBVIOUS
    <2> QED BY <1>3, <2>1, StepByStep
  <1>5. \A k \in 1..n : f[k] = more(f[k - 1])
    <2> SUFFICES ASSUME NEW k \in 1..n PROVE f[k] = more(f[k - 1])
      OBVIOUS
    <2>1. f[k - 1] \in SUBSET Syms
      BY <1>4 DEF Stepped
    <2>2. step[<<k, f[k - 1]>>] = more(f[k - 1])
      BY <2>1
    <2> HIDE DEF step
    <2> QED BY <1>4, <2>2 DEF Stepped
  <1> HIDE DEF step
  <1>6. Eq(f)
    BY <1>4, <1>5 DEF more, Stepped
  <1>7. within = CHOOSE w : Eq(w)
    BY DEF Reached, CallersOf
  <1> HIDE DEF within
  <1>8. Eq(within)
    <2> HIDE DEF Eq
    <2> QED BY <1>6, <1>7
  <1>e. \A k \in 1..n : within[k] = within[k - 1] \cup CallersOf(db, within[k - 1])
    <2> SUFFICES ASSUME NEW k \in 1..n PROVE within[k] = within[k - 1] \cup CallersOf(db, within[k - 1])
      OBVIOUS
    <2> DEFINE body == [j \in 0..n |-> IF j = 0 THEN {fn} ELSE within[j - 1] \cup CallersOf(db, within[j - 1])]
    <2>1. within = body
      BY ONLY <1>8
    <2>2. body[k] = within[k - 1] \cup CallersOf(db, within[k - 1])
      <3>1. k \in 0..n /\ k # 0
        OBVIOUS
      <3> QED BY ONLY <3>1
    <2> HIDE DEF body
    <2> QED BY ONLY <2>1, <2>2
  <1>9. within \in [0..n -> SUBSET Syms]
    <2> DEFINE S == {k \in 0..n : within[k] \in SUBSET Syms}
    <2>1. 0 \in S
      BY <1>8
    <2>2. ASSUME NEW k \in 1..n, k - 1 \in S PROVE k \in S
      <3>1. within[k] = more(within[k - 1]) /\ within[k - 1] \in SUBSET Syms
        BY <1>e, <2>2 DEF more
      <3> QED BY <1>2, <3>1
    <2>3. \A k \in 0..n : k \in S
      <3> HIDE DEF S
      <3> QED BY <2>1, <2>2, UpTo
    <2> QED BY <1>8, <2>3
  <1>10. \A k \in 1..n : within[k] = within[k - 1] \cup frontierCallers(db, within[k - 1])
    <2> SUFFICES ASSUME NEW k \in 1..n PROVE within[k] = within[k - 1] \cup frontierCallers(db, within[k - 1])
      OBVIOUS
    <2>1. within[k] = within[k - 1] \cup CallersOf(db, within[k - 1]) /\ within[k - 1] \in SUBSET Syms
      BY <1>e, <1>9
    <2> QED BY <1>1, <2>1
  <1>11. within[0] = {fn}
    BY <1>8
  <1> QED BY <1>9, <1>10, <1>11 DEF within

\* The nodes of a walk of so many levels.
Distances(within, n) == {e \in (1..n) \X Syms : e[2] \in within[e[1]] /\ e[2] \notin within[e[1] - 1]}

LEMMA WalkIsReach ==
  ASSUME NEW db, Indexed3(db), NEW fn \in Syms, NEW depth \in Int
  PROVE  \E within \in {Reached(db, fn, depth)} :
           WalkCallers(db, fn, depth) = {e \in (1..depth) \X Syms : e[2] \in within[e[1]] /\ e[2] \notin within[e[1] - 1]}
  <1> DEFINE from   == [visited |-> {fn}, frontier |-> {fn}, nodes |-> {}]
             within == Reached(db, fn, depth)
             w      == Levels(db, from, depth)
  <1>1. CASE depth <= 0
    <2>1. 1..depth = {}
      BY <1>1
    <2>2. WalkCallers(db, fn, depth) = {}
      BY <1>1 DEF WalkCallers
    <2> QED BY <2>1, <2>2
  <1>2. CASE depth > 0
    <2>1. depth \in Nat /\ from \in Walked
      BY <1>2 DEF Walked
    <2>2. w[0] = from /\ \A k \in 1..depth : w[k] = Level(db, w[k - 1], k)
      BY <2>1, LevelsAre
    <2>3. /\ within \in [0..depth -> SUBSET Syms] /\ within[0] = {fn}
          /\ \A k \in 1..depth : within[k] = within[k - 1] \cup frontierCallers(db, within[k - 1])
      BY <2>1, ReachedIs
    <2>w. WalkCallers(db, fn, depth) = w[depth].nodes
      BY <1>2 DEF WalkCallers
    <2> HIDE DEF w, within
    <2> DEFINE front(k) == IF k = 0 THEN {fn} ELSE within[k] \ within[k - 1]
               S == {k \in 0..depth : w[k] = [visited |-> within[k], frontier |-> front(k), nodes |-> Distances(within, k)]
                                      /\ frontierCallers(db, within[k]) \subseteq within[k] \cup frontierCallers(db, front(k))}
    <2>4. 0 \in S
      <3>1. Distances(within, 0) = {}
        BY DEF Distances
      <3>2. w[0] = [visited |-> within[0], frontier |-> front(0), nodes |-> Distances(within, 0)]
        BY <2>2, <2>3, <3>1
      <3>3. front(0) = within[0]
        BY <2>3
      <3> HIDE DEF front
      <3> QED BY <2>1, <3>2, <3>3
    <2>5. ASSUME NEW k \in 1..depth, k - 1 \in S PROVE k \in S
      <3> DEFINE old  == w[k - 1]
                 next == frontierCallers(db, old.frontier) \ old.visited
      <3>1. /\ old = [visited |-> within[k - 1], frontier |-> front(k - 1), nodes |-> Distances(within, k - 1)]
            /\ frontierCallers(db, within[k - 1]) \subseteq within[k - 1] \cup frontierCallers(db, front(k - 1))
        BY <2>5
      <3>2. front(k - 1) \subseteq within[k - 1]
        BY <2>3
      <3>3. frontierCallers(db, front(k - 1)) \subseteq frontierCallers(db, within[k - 1])
        BY <3>2 DEF frontierCallers
      <3>4. front(k) = within[k] \ within[k - 1]
        OBVIOUS
      <3>5. within[k] = within[k - 1] \cup frontierCallers(db, within[k - 1])
        BY <2>3
      <3>o. old.visited = within[k - 1] /\ old.frontier = front(k - 1) /\ old.nodes = Distances(within, k - 1)
        BY <3>1
      <3> HIDE DEF front
      <3>6. next = front(k) /\ old.visited \cup next = within[k]
        BY <3>o, <3>1, <3>3, <3>4, <3>5
      <3>7. Distances(within, k) = Distances(within, k - 1) \cup {<<k, i>> : i \in front(k)}
        <4>1. \A e \in (1..k) \X Syms : e[1] = k \/ e \in (1..(k - 1)) \X Syms
          BY <2>5
        <4>2. \A e \in (1..(k - 1)) \X Syms : e \in (1..k) \X Syms
          BY <2>5
        <4>3. \A i \in front(k) : <<k, i>> \in (1..k) \X Syms
          BY <2>3, <3>4
        <4>4. \A e \in (1..k) \X Syms : e = <<e[1], e[2]>>
          OBVIOUS
        <4>5. \A e \in (1..(k - 1)) \X Syms : e[1] # k
          BY <2>5
        <4>6. ASSUME NEW e \in Distances(within, k) PROVE e \in Distances(within, k - 1) \cup {<<k, i>> : i \in front(k)}
          BY <3>4, <4>1, <4>4 DEF Distances
        <4>7. ASSUME NEW e \in Distances(within, k - 1) PROVE e \in Distances(within, k)
          BY <4>2 DEF Distances
        <4>8. ASSUME NEW i \in front(k) PROVE <<k, i>> \in Distances(within, k)
          BY <3>4, <4>3 DEF Distances
        <4> QED BY <4>6, <4>7, <4>8
      <3>8. w[k] = [visited |-> old.visited \cup next, frontier |-> next, nodes |-> old.nodes \cup {<<k, i>> : i \in next}]
        BY <2>2 DEF Level
      <3> HIDE DEF next, old
      <3>9. w[k] = [visited |-> within[k], frontier |-> front(k), nodes |-> Distances(within, k)]
        BY <3>o, <3>6, <3>7, <3>8
      <3>10. frontierCallers(db, within[k]) \subseteq within[k] \cup frontierCallers(db, front(k))
        <4>1. within[k] = within[k - 1] \cup front(k)
          BY <3>4, <3>5
        <4>2. frontierCallers(db, within[k]) = frontierCallers(db, within[k - 1]) \cup frontierCallers(db, front(k))
          BY <4>1 DEF frontierCallers
        <4> QED BY <3>5, <4>2
      <3> QED BY <3>9, <3>10
    <2>6. depth \in S
      <3> HIDE DEF S
      <3>1. \A k \in 0..depth : k \in S
        BY <2>1, <2>4, <2>5, UpTo
      <3> QED BY <2>1, <3>1
    <2>7. w[depth].nodes = Distances(within, depth)
      BY <2>6
    <2> QED BY <2>w, <2>7 DEF Distances, within
  <1> QED BY <1>1, <1>2

-----------------------------------------------------------------------------
(* lifecycle: the part of a function, and the group it is in.              *)

\* Without repetitions a list begins as it did.
LEMMA OnceFirst ==
  ASSUME NEW list, NEW n, List(list, n), n > 0
  PROVE  Once(list)[1] = list[1] /\ Once(list) # <<>>
  <1> DEFINE K   == {k \in DOMAIN list : \A j \in 1..(k - 1) : list[j] # list[k]}
             at  == Inserted(K)
             key == [e \in K |-> Append(<<>>, e)]
  <1>1. n \in Nat /\ DOMAIN list = 1..n
    BY ListLen DEF List
  <1>2. K \subseteq 1..n /\ 1 \in K
    <2>1. 1..(1 - 1) = {}
      OBVIOUS
    <2> QED BY <1>1, <2>1
  <1>3. Once(list) = Part(list, K)
    BY DEF Once, Column, Part
  <1> HIDE DEF K
  <1>4. IsFiniteSet(K) /\ K \subseteq Int
    <2>1. IsFiniteSet(1..n) /\ 1..n \subseteq Int
      BY <1>1, FS_Interval
    <2> QED BY <1>2, <2>1, FS_Subset
  <1>5. InOrder(K, key, at)
    <2> DEFINE base == [e \in K |-> <<>>]
               with == [e \in K |-> Append(base[e], e)]
    <2>1. base \in [K -> Seq(Int)] /\ \A e \in K : Len(base[e]) = 0
      OBVIOUS
    <2>2. with = key /\ at = Ordered(K, key)
      BY DEF Inserted, OrderBy
    <2> HIDE DEF base
    <2>3. InOrder(K, with, Ordered(K, with))
      BY <1>4, <2>1, OrderByIsInOrder
    <2> QED BY <2>2, <2>3
  <1>6. \A e \in K : key[e] = <<e>>
    OBVIOUS
  <1> HIDE DEF at, key
  <1>7. PICK i \in 1..Cardinality(K) : at[i] = 1
    BY <1>2, <1>5 DEF InOrder
  <1>8. at[1] = 1 /\ 1 \in 1..Cardinality(K)
    <2>1. Cardinality(K) \in Nat /\ 1 \in 1..Cardinality(K) /\ at[1] \in K
      BY <1>5, <1>7 DEF InOrder
    <2>2. CASE i # 1
      <3>1. Before(key[at[1]], key[1])
        BY <1>5, <1>7, <2>1, <2>2 DEF InOrder
      <3>2. Before(<<at[1]>>, <<1>>)
        BY <1>2, <1>6, <2>1, <3>1
      <3>3. at[1] < 1
        <4>1. Len(<<at[1]>>) = 1 /\ 1..1 = {1} /\ <<at[1]>>[1] = at[1] /\ <<1>>[1] = 1
          OBVIOUS
        <4> QED BY <3>2, <4>1 DEF Before
      <3>4. at[1] \in 1..n
        BY <1>2, <2>1
      <3> QED BY <3>3, <3>4
    <2> QED BY <1>7, <2>1, <2>2
  <1>9. DOMAIN at = 1..Cardinality(K)
    BY <1>5 DEF InOrder
  <1>10. Part(list, K)[1] = list[1] /\ 1 \in DOMAIN Part(list, K)
    BY <1>8, <1>9 DEF Part, at
  <1> QED BY <1>3, <1>10

LEMMA ConcatFirst ==
  ASSUME NEW p, NEW a, List(p, a), a # 0, NEW r, NEW b, List(r, b), NEW all, all = p \o r
  PROVE  all[1] = p[1]
  <1>1. Len(p) = a /\ Len(r) = b /\ DOMAIN p = 1..a /\ DOMAIN r = 1..b /\ a \in Nat /\ b \in Nat
    BY ListLen DEF List
  <1>2. p \in Seq(Values(p) \cup Values(r)) /\ r \in Seq(Values(p) \cup Values(r))
    <2>1. p \in [1..a -> Values(p) \cup Values(r)] /\ r \in [1..b -> Values(p) \cup Values(r)]
      BY <1>1 DEF List, Values
    <2> QED BY <1>1, <2>1
  <1> QED BY <1>1, <1>2

If(c, role) == IF c THEN <<role>> ELSE <<>>
LEMMA IfList ==
  ASSUME NEW c \in BOOLEAN, NEW role
  PROVE  List(If(c, role), IF c THEN 1 ELSE 0) /\ Values(If(c, role)) = (IF c THEN {role} ELSE {}) /\ (c => If(c, role)[1] = role)
  <1>1. CASE c
    <2>1. <<role>> = [i \in 1..1 |-> <<role>>[i]] /\ DOMAIN <<role>> = {1} /\ <<role>>[1] = role
      OBVIOUS
    <2>2. If(c, role) = <<role>>
      BY <1>1 DEF If
    <2>3. List(<<role>>, 1)
      BY <2>1 DEF List
    <2>4. Values(<<role>>) = {role}
      BY <2>1 DEF Values
    <2> QED BY ONLY <1>1, <2>1, <2>2, <2>3, <2>4
  <1>2. CASE ~c
    <2>1. <<>> = [i \in 1..0 |-> <<>>[i]] /\ DOMAIN <<>> = {}
      OBVIOUS
    <2>2. If(c, role) = <<>>
      BY <1>2 DEF If
    <2> QED BY <1>2, <2>1, <2>2 DEF List, Values
  <1> QED BY <1>1, <1>2

\* What speaks for a part, the strongest first.
LEMMA HitsAre ==
  ASSUME NEW fn, NEW group
  PROVE  \E n \in Nat :
           /\ List(Hits(fn, group), n) /\ Values(Hits(fn, group)) \subseteq {"Create", "Delete", "Mutate"}
           /\ (\E r \in group : Refs[r].ctx \in DeleteCalls) => n > 0 /\ Hits(fn, group)[1] = "Delete"
           /\ (\E r \in group : Refs[r].ctx \in Construction) => "Create" \in Values(Hits(fn, group))
  <1> DEFINE c1 == \E r \in group : Refs[r].ctx \in DeleteCalls
             c2 == \E r \in group : Refs[r].ctx \in Construction
             c3 == NameVerb[fn] = "create" /\ fn \in Returns
             c4 == NameVerb[fn] = "delete"
             c5 == NameVerb[fn] = "mutate" /\ fn \in Takes
             n1 == IF c1 THEN 1 ELSE 0
             n2 == IF c2 THEN 1 ELSE 0
             n3 == IF c3 THEN 1 ELSE 0
             n4 == IF c4 THEN 1 ELSE 0
             n5 == IF c5 THEN 1 ELSE 0
             h1 == If(c1, "Delete")
             h2 == If(c2, "Create")
             h3 == If(c3, "Create")
             h4 == If(c4, "Delete")
             h5 == If(c5, "Mutate")
  <1>1. Hits(fn, group) = (((h1 \o h2) \o h3) \o h4) \o h5
    BY DEF Hits, If
  <1>2. List(h1, n1) /\ Values(h1) = (IF c1 THEN {"Delete"} ELSE {}) /\ (c1 => h1[1] = "Delete")
    BY IfList
  <1>3. List(h2, n2) /\ Values(h2) = (IF c2 THEN {"Create"} ELSE {})
    BY IfList
  <1>4. List(h3, n3) /\ Values(h3) \subseteq {"Create"}
    BY IfList
  <1>5. List(h4, n4) /\ Values(h4) \subseteq {"Delete"}
    BY IfList
  <1>6. List(h5, n5) /\ Values(h5) \subseteq {"Mutate"}
    BY IfList
  <1>n. n1 \in Nat /\ n2 \in Nat /\ n3 \in Nat /\ n4 \in Nat /\ n5 \in Nat /\ (c1 => n1 > 0)
    OBVIOUS
  <1>m. n1 > 0 => n1 + n2 > 0 /\ n1 + n2 + n3 > 0 /\ n1 + n2 + n3 + n4 > 0
    BY <1>n
  <1> HIDE DEF h1, h2, h3, h4, h5, n1, n2, n3, n4, n5
  <1> DEFINE p2 == h1 \o h2
             p3 == p2 \o h3
             p4 == p3 \o h4
             p5 == p4 \o h5
  <1>7. List(p2, n1 + n2) /\ Values(p2) = Values(h1) \cup Values(h2)
    BY <1>2, <1>3, ConcatList
  <1>8. n1 > 0 => p2[1] = h1[1]
    <2> SUFFICES ASSUME n1 > 0 PROVE p2[1] = h1[1]
      OBVIOUS
    <2>1. n1 # 0 /\ List(h1, n1) /\ List(h2, n2) /\ p2 = h1 \o h2
      BY <1>n, <1>2, <1>3
    <2> HIDE DEF p2
    <2> QED BY ONLY <2>1, ConcatFirst
  <1> HIDE DEF p2
  <1>9. List(p3, n1 + n2 + n3) /\ Values(p3) = Values(p2) \cup Values(h3)
    BY <1>7, <1>4, ConcatList
  <1>10. n1 > 0 => p3[1] = p2[1]
    <2>1. List(p2, n1 + n2) /\ List(h3, n3)
      BY <1>7, <1>4
    <2>2. ASSUME n1 > 0 PROVE p3[1] = p2[1]
      <3>1. n1 + n2 > 0
        BY <1>m, <2>2
      <3> DEFINE m == n1 + n2
      <3>m. List(p2, m) /\ m # 0 /\ List(h3, n3) /\ p3 = p2 \o h3
        BY <1>n, <2>1, <3>1
      <3> HIDE DEF m, p3
      <3>2. p3[1] = p2[1]
        BY ONLY <3>m, ConcatFirst
      <3> QED BY <3>2
    <2> QED BY <2>2
  <1> HIDE DEF p3
  <1>11. List(p4, n1 + n2 + n3 + n4) /\ Values(p4) = Values(p3) \cup Values(h4)
    BY <1>9, <1>5, ConcatList
  <1>12. n1 > 0 => p4[1] = p3[1]
    <2>1. List(p3, n1 + n2 + n3) /\ List(h4, n4)
      BY <1>9, <1>5
    <2>2. ASSUME n1 > 0 PROVE p4[1] = p3[1]
      <3>1. n1 + n2 + n3 > 0
        BY <1>m, <2>2
      <3> DEFINE m == n1 + n2 + n3
      <3>m. List(p3, m) /\ m # 0 /\ List(h4, n4) /\ p4 = p3 \o h4
        BY <1>n, <2>1, <3>1
      <3> HIDE DEF m, p4
      <3>2. p4[1] = p3[1]
        BY ONLY <3>m, ConcatFirst
      <3> QED BY <3>2
    <2> QED BY <2>2
  <1> HIDE DEF p4
  <1>13. List(p5, n1 + n2 + n3 + n4 + n5) /\ Values(p5) = Values(p4) \cup Values(h5)
    BY <1>11, <1>6, ConcatList
  <1>14. n1 > 0 => p5[1] = p4[1]
    <2>1. List(p4, n1 + n2 + n3 + n4) /\ List(h5, n5)
      BY <1>11, <1>6
    <2>2. ASSUME n1 > 0 PROVE p5[1] = p4[1]
      <3>1. n1 + n2 + n3 + n4 > 0
        BY <1>m, <2>2
      <3> DEFINE m == n1 + n2 + n3 + n4
      <3>m. List(p4, m) /\ m # 0 /\ List(h5, n5) /\ p5 = p4 \o h5
        BY <1>n, <2>1, <3>1
      <3> HIDE DEF m, p5
      <3>2. p5[1] = p4[1]
        BY ONLY <3>m, ConcatFirst
      <3> QED BY <3>2
    <2> QED BY <2>2
  <1>15. p5 = Hits(fn, group)
    BY <1>1 DEF p2, p3, p4
  <1> HIDE DEF p5
  <1> DEFINE n == n1 + n2 + n3 + n4 + n5
  <1>16. n \in Nat /\ (c1 => n > 0)
    BY <1>n
  <1>17. c1 => p5[1] = "Delete"
    BY <1>n, <1>2, <1>8, <1>10, <1>12, <1>14
  <1>18. c2 => "Create" \in Values(p5)
    BY <1>3, <1>7, <1>9, <1>11, <1>13
  <1>19. Values(p5) \subseteq {"Create", "Delete", "Mutate"}
    BY <1>2, <1>3, <1>4, <1>5, <1>6, <1>7, <1>9, <1>11, <1>13
  <1>20. List(p5, n)
    BY <1>13
  <1> HIDE DEF n
  <1> QED BY <1>15, <1>16, <1>17, <1>18, <1>19, <1>20

\* The part of a function: none of the evidence is lost, and a call that
\* deletes decides.
LEMMA PartOfFunction ==
  ASSUME NEW fn, NEW group, NEW file
  PROVE  LET c == classifyFunction(fn, group, file)
         IN /\ c.fn = fn /\ c.role \in {"Create", "Delete", "Mutate", "Read"}
            /\ (\E r \in group : Refs[r].ctx \in DeleteCalls) => c.role = "Delete"
            /\ (\E r \in group : Refs[r].ctx \in Construction) => "Create" \in {c.role} \cup c.mixed
  <1> DEFINE all  == Hits(fn, group)
             hits == Once(all)
             del  == \E r \in group : Refs[r].ctx \in DeleteCalls
             new  == \E r \in group : Refs[r].ctx \in Construction
  <1>1. PICK n \in Nat : /\ List(all, n) /\ Values(all) \subseteq {"Create", "Delete", "Mutate"}
                         /\ del => n > 0 /\ all[1] = "Delete"
                         /\ new => "Create" \in Values(all)
    BY HitsAre
  <1>2. /\ classifyFunction(fn, group, file).fn = fn
        /\ classifyFunction(fn, group, file).role = (IF hits = <<>> THEN "Read" ELSE hits[1])
        /\ classifyFunction(fn, group, file).mixed = (IF hits = <<>> THEN {} ELSE Range(Tail(hits)))
    BY DEF classifyFunction
  <1> HIDE DEF all, del, new
  <1>3. Rowed(all, {"Create", "Delete", "Mutate"})
    BY <1>1, RowedValues
  <1>4. Rowed(hits, {"Create", "Delete", "Mutate"}) /\ Values(hits) = Values(all)
    BY <1>3, OnceValues
  <1>5. n > 0 => hits[1] = all[1] /\ hits # <<>>
    BY <1>1, OnceFirst
  <1> HIDE DEF hits
  <1>6. PICK m \in Nat : List(hits, m) /\ \A i \in 1..m : hits[i] \in {"Create", "Delete", "Mutate"}
    BY <1>4 DEF Rowed
  <1>7. DOMAIN hits = 1..m /\ Len(hits) = m /\ (hits = <<>> <=> m = 0) /\ Values(hits) = Range(hits)
    BY <1>6, ListLen, Values1
  <1>8. hits = <<>> => ~del /\ ~new
    <2>1. hits = <<>> => Values(hits) = {}
      BY <1>7 DEF Values
    <2> QED BY <1>1, <1>4, <1>5, <2>1
  <1>9. CASE hits # <<>>
    <2>1. hits \in Seq({"Create", "Delete", "Mutate"}) /\ hits[1] \in {"Create", "Delete", "Mutate"}
      BY <1>6, <1>7, <1>9 DEF List
    <2>2. Range(hits) = {Head(hits)} \cup Range(Tail(hits)) /\ Head(hits) = hits[1]
      BY <1>9, <2>1, HeadAndTail
    <2>3. new => "Create" \in {hits[1]} \cup Range(Tail(hits))
      BY <1>1, <1>4, <1>7, <2>2
    <2>4. del => hits[1] = "Delete"
      BY <1>1, <1>5
    <2> QED BY <1>2, <1>9, <2>1, <2>3, <2>4 DEF del, new
  <1>10. CASE hits = <<>>
    BY <1>2, <1>8, <1>10 DEF del, new
  <1> QED BY <1>9, <1>10
LEMMA RolesAre == Range(roleOrder) = {"Create", "Mutate", "Read", "Delete", "Type uses", "Unknown"}
  <1>1. /\ DOMAIN roleOrder = 1..6 /\ 1..6 = {1, 2, 3, 4, 5, 6}
        /\ roleOrder[1] = "Create" /\ roleOrder[2] = "Mutate" /\ roleOrder[3] = "Read"
        /\ roleOrder[4] = "Delete" /\ roleOrder[5] = "Type uses" /\ roleOrder[6] = "Unknown"
    BY DEF roleOrder
  <1>2. Range(roleOrder) = {roleOrder[i] : i \in {1, 2, 3, 4, 5, 6}}
    BY <1>1 DEF Range
  <1> QED BY <1>1, <1>2

Parted(rows, fn) == Where(rows, LAMBDA r : Refs[r].enc = fn)
RoleOf(fn, S, cls) ==
  \A c \in cls : c.fn = fn =>
    /\ (\E r \in S : Refs[r].enc = fn /\ Refs[r].ctx \in DeleteCalls) => c.role = "Delete"
    /\ (\E r \in S : Refs[r].enc = fn /\ Refs[r].ctx \in Construction) => "Create" \in {c.role} \cup c.mixed

LEMMA PartedRange ==
  ASSUME NEW rows, NEW n, NEW S, Each(rows, n, S), NEW fn
  PROVE  Range(Parted(rows, fn)) = {r \in S : Refs[r].enc = fn}
  <1> DEFINE K == {k \in DOMAIN rows : Refs[rows[k]].enc = fn}
  <1>1. DOMAIN rows = 1..n /\ {rows[k] : k \in 1..n} = S /\ List(rows, n) /\ n \in Nat
    BY DEF Each, List
  <1>2. Parted(rows, fn) = Part(rows, K)
    BY DEF Parted, Where, Column, Part
  <1>3. K \subseteq 1..n /\ {rows[k] : k \in K} = {r \in S : Refs[r].enc = fn}
    BY <1>1
  <1> HIDE DEF K
  <1>4. List(Part(rows, K), Cardinality(K)) /\ Values(Part(rows, K)) = {rows[k] : k \in K}
    BY <1>1, <1>3, PartValues
  <1> QED BY <1>2, <1>3, <1>4, Values1

\* Each function around a reference once, and each reference that has none.
LEMMA Classified ==
  ASSUME NEW rows, NEW n, NEW S, Each(rows, n, S)
  PROVE  /\ {c.fn : c \in Classify(rows)} = {Refs[r].enc : r \in S}
         /\ \A c \in Classify(rows) : c.role \in Range(roleOrder)
         /\ \A c, e \in Classify(rows) : c.fn = e.fn /\ c.fn # 0 => c = e
         /\ \A fn : fn # 0 => RoleOf(fn, S, Classify(rows))
  <1> DEFINE of(fn)  == Parted(rows, fn)
             around  == {Refs[r].enc : r \in S} \ {0}
             cl(fn)  == classifyFunction(fn, Range(of(fn)), Refs[of(fn)[1]].file)
             cls     == Classify(rows)
             In(fn)  == {r \in S : Refs[r].enc = fn}
  <1>1. Range(rows) = S
    BY Values1 DEF Each, Values
  <1>2. cls = {cl(fn) : fn \in around} \cup {classifyFileScope(r) : r \in Range(of(0))}
    BY <1>1 DEF Classify, Parted
  <1>3. \A fn : Range(of(fn)) = In(fn)
    BY PartedRange
  <1>4. ASSUME NEW fn
        PROVE  /\ cl(fn).fn = fn /\ cl(fn).role \in {"Create", "Delete", "Mutate", "Read"}
               /\ (\E r \in In(fn) : Refs[r].ctx \in DeleteCalls) => cl(fn).role = "Delete"
               /\ (\E r \in In(fn) : Refs[r].ctx \in Construction) => "Create" \in {cl(fn).role} \cup cl(fn).mixed
    <2> DEFINE group == Range(of(fn))
               file  == Refs[of(fn)[1]].file
    <2>1. group = In(fn)
      BY <1>3
    <2> HIDE DEF group, file
    <2>2. LET c == classifyFunction(fn, group, file)
          IN /\ c.fn = fn /\ c.role \in {"Create", "Delete", "Mutate", "Read"}
             /\ (\E r \in group : Refs[r].ctx \in DeleteCalls) => c.role = "Delete"
             /\ (\E r \in group : Refs[r].ctx \in Construction) => "Create" \in {c.role} \cup c.mixed
      BY PartOfFunction
    <2>3. cl(fn) = classifyFunction(fn, group, file)
      BY DEF group, file
    <2> HIDE DEF cl, In
    <2> QED BY <2>1, <2>2, <2>3
  <1>5. \A r : classifyFileScope(r).fn = 0 /\ classifyFileScope(r).role \in {"Create", "Type uses"}
    BY DEF classifyFileScope
  <1> HIDE DEF cl, of, cls
  <1>6. \A c \in cls : (c.fn # 0 => c.fn \in around /\ c = cl(c.fn)) /\ (c.fn = 0 => \E r \in In(0) : c = classifyFileScope(r))
    <2> SUFFICES ASSUME NEW c \in cls
                 PROVE  (c.fn # 0 => c.fn \in around /\ c = cl(c.fn)) /\ (c.fn = 0 => \E r \in In(0) : c = classifyFileScope(r))
      OBVIOUS
    <2>1. CASE \E fn \in around : c = cl(fn)
      <3>1. PICK fn \in around : c = cl(fn)
        BY <2>1
      <3>2. c.fn = fn /\ fn # 0
        BY <1>4, <3>1
      <3> QED BY <3>1, <3>2
    <2>2. CASE \E r \in In(0) : c = classifyFileScope(r)
      BY <1>5, <2>2
    <2> HIDE DEF around, In
    <2> QED BY <1>2, <1>3, <2>1, <2>2
  <1>m. (\A fn \in around : cl(fn) \in cls) /\ \A r \in In(0) : classifyFileScope(r) \in cls
    <2> HIDE DEF around, In
    <2> QED BY <1>2, <1>3
  <1>7. {c.fn : c \in cls} = {Refs[r].enc : r \in S}
    <2>1. ASSUME NEW c \in cls PROVE c.fn \in {Refs[r].enc : r \in S}
      BY <1>6
    <2>2. ASSUME NEW r \in S PROVE \E c \in cls : c.fn = Refs[r].enc
      <3>1. CASE Refs[r].enc = 0
        BY <1>m, <1>5, <3>1
      <3>2. CASE Refs[r].enc # 0
        BY <1>m, <1>4, <3>2
      <3> QED BY <3>1, <3>2
    <2> QED BY <2>1, <2>2
  <1>8. \A c \in cls : c.role \in Range(roleOrder)
    <2> SUFFICES ASSUME NEW c \in cls PROVE c.role \in Range(roleOrder)
      OBVIOUS
    <2>1. CASE c.fn # 0
      <3>1. c.role = cl(c.fn).role
        BY <1>6, <2>1
      <3> QED BY <1>4, <3>1, RolesAre
    <2>2. CASE c.fn = 0
      <3>1. PICK r \in In(0) : c = classifyFileScope(r)
        BY <1>6, <2>2
      <3> QED BY <1>5, <3>1, RolesAre
    <2> QED BY <2>1, <2>2
  <1>9. \A c, e \in cls : c.fn = e.fn /\ c.fn # 0 => c = e
    BY <1>6
  <1>10. ASSUME NEW fn, fn # 0 PROVE RoleOf(fn, S, cls)
    <2> SUFFICES ASSUME NEW c \in cls, c.fn = fn
                 PROVE  /\ (\E r \in S : Refs[r].enc = fn /\ Refs[r].ctx \in DeleteCalls) => c.role = "Delete"
                        /\ (\E r \in S : Refs[r].enc = fn /\ Refs[r].ctx \in Construction) => "Create" \in {c.role} \cup c.mixed
      BY DEF RoleOf
    <2>1. c = cl(fn)
      BY <1>6, <1>10
    <2>2. /\ (\E r \in S : Refs[r].enc = fn /\ Refs[r].ctx \in DeleteCalls) => \E r \in In(fn) : Refs[r].ctx \in DeleteCalls
          /\ (\E r \in S : Refs[r].enc = fn /\ Refs[r].ctx \in Construction) => \E r \in In(fn) : Refs[r].ctx \in Construction
      OBVIOUS
    <2> QED BY <1>4, <2>1, <2>2
  <1> QED BY <1>7, <1>8, <1>9, <1>10 DEF cls

\* A class is in one group.
LEMMA GroupsPart ==
  ASSUME NEW cls, \A c \in cls : c.role \in Range(roleOrder), NEW includeTests \in BOOLEAN
  PROVE  LET groups == buildLifecycleResult(cls, includeTests)
         IN /\ UNION {groups[g] : g \in DOMAIN groups} = cls
            /\ \A c \in cls : Cardinality({g \in DOMAIN groups : c \in groups[g]}) = 1
  <1> DEFINE apart(c) == c.test /\ ~includeTests
             groups == buildLifecycleResult(cls, includeTests)
             home(c) == IF apart(c) THEN "Tests" ELSE c.role
  <1>1. groups = [g \in Range(roleOrder) \cup {"Tests"} |-> IF g = "Tests" THEN {c \in cls : apart(c)} ELSE {c \in cls : ~apart(c) /\ c.role = g}]
    BY DEF buildLifecycleResult
  <1>2. DOMAIN groups = Range(roleOrder) \cup {"Tests"} /\ "Tests" \notin Range(roleOrder)
    <2> QED BY <1>1, RolesAre
  <1> HIDE DEF groups
  <1>3. \A g \in DOMAIN groups : \A c : c \in groups[g] <=> c \in cls /\ g = home(c)
    <2> SUFFICES ASSUME NEW g \in DOMAIN groups, NEW c PROVE c \in groups[g] <=> c \in cls /\ g = home(c)
      OBVIOUS
    <2> HIDE DEF apart
    <2>1. CASE g = "Tests"
      <3>1. groups[g] = {e \in cls : apart(e)}
        BY <1>1, <1>2, <2>1
      <3> QED BY <1>2, <2>1, <3>1
    <2>2. CASE g # "Tests"
      <3>1. groups[g] = {e \in cls : ~apart(e) /\ e.role = g}
        BY <1>1, <1>2, <2>2
      <3> QED BY <2>2, <3>1
    <2> QED BY <2>1, <2>2
  <1>4. \A c \in cls : home(c) \in DOMAIN groups
    BY <1>2
  <1> HIDE DEF home
  <1>5. UNION {groups[g] : g \in DOMAIN groups} = cls
    BY <1>3, <1>4
  <1>6. ASSUME NEW c \in cls PROVE Cardinality({g \in DOMAIN groups : c \in groups[g]}) = 1
    <2>1. {g \in DOMAIN groups : c \in groups[g]} = {home(c)}
      BY <1>3, <1>4
    <2> QED BY <2>1, FS_Singleton
  <1> QED BY <1>5, <1>6 DEF groups

-----------------------------------------------------------------------------
(* lifecycle: what it has read so far.                                     *)

Encs(db, sym) == {Refs[r].enc : r \in Sites(db, sym)}
WalkOf(fn) == WalkCallers(d, fn, review.depth)
LifeRead ==
  /\ {"sym", "seen", "todo", "groups", "callers"} \subseteq DOMAIN review
  /\ \E t \in Trees : review.seen = Indexed(t)
  /\ review.groups = buildLifecycleResult(Classify(FindRefs(review.seen, review.sym)), review.includeTests)
  /\ review.todo \subseteq Syms /\ Encs(review.seen, review.sym) \ {0} \subseteq review.todo \cup DOMAIN review.callers
LifeWalks == \A fn \in DOMAIN review.callers : review.callers[fn] = WalkOf(fn)
LifeInv ==
  review.verb = "lifecycle" =>
  /\ {"includeTests", "depth"} \subseteq DOMAIN review /\ review.includeTests \in BOOLEAN /\ review.depth \in Int
  /\ review.pc \in {"asks", "refs", "callers", "done", "refused"}
  /\ review.pc \in {"refs", "callers", "done"} => built # Unborn /\ "sym" \in DOMAIN review
  /\ review.pc \in {"callers", "done"} => LifeRead /\ (Quiet => LifeWalks)
  /\ review.pc = "done" => review.todo = {}

LEMMA LifeInvInit == ClientInit => LifeInv
  <1>1. CASE review = Off
    BY <1>1 DEF Off, LifeInv
  <1>2. ASSUME NEW x \in Cases, review = Over([pc |-> "asks"], x[1]) PROVE LifeInv
    <2>1. DOMAIN review = {"pc"} \cup DOMAIN x[1] /\ review.pc = "asks" /\ "verb" \in DOMAIN x[1] /\ review.verb = x[1].verb
      BY <1>2, CasesAssumption DEF Over
    <2>2. \A k \in DOMAIN x[1] : k # "pc" => review[k] = x[1][k]
      BY <1>2 DEF Over
    <2>3. x[1].verb = "lifecycle" => {"includeTests", "depth"} \subseteq DOMAIN x[1] /\ x[1].includeTests \in BOOLEAN /\ x[1].depth \in Int
      BY CasesAssumption
    <2>4. review.verb = "lifecycle" => {"includeTests", "depth"} \subseteq DOMAIN review /\ review.includeTests \in BOOLEAN /\ review.depth \in Int
      BY <2>1, <2>2, <2>3
    <2> QED BY <2>1, <2>4 DEF LifeInv
  <1> QED BY <1>1, <1>2 DEF ClientInit, ReviewInit

LifeFollows(more) ==
  /\ Follows("includeTests", more) /\ Follows("depth", more) /\ Follows("sym", more) /\ Follows("seen", more)
  /\ Follows("todo", more) /\ Follows("groups", more) /\ Follows("callers", more)

LEMMA LifeGoes ==
  ASSUME NEW pc, NEW more, Goes(pc, more), "pc" \notin DOMAIN more
  PROVE  review'.pc = pc /\ LifeFollows(more)
  <1>1. \A k : k # "pc" => Follows(k, more)
    BY FieldFollows
  <1>2. review'["pc"] = pc
    BY GoesAdds
  <1> QED BY <1>1, <1>2 DEF LifeFollows

LEMMA LifeInvStep ==
  ASSUME HasVerb, EnvInv, LifeInv, Lifecycle
  PROVE  LifeInv'
  <1>0. /\ review.verb = "lifecycle" /\ UNCHANGED <<d, built, stirred>>
        /\ built \in Trees \cup {Unborn} /\ (built # Unborn => d = Indexed(built))
        /\ {"includeTests", "depth"} \subseteq DOMAIN review /\ review.includeTests \in BOOLEAN /\ review.depth \in Int
    <2>1. review.verb = "lifecycle"
      BY DEF Lifecycle, Steps, Runs, LifecycleFinds, LifecycleRefs, LifecycleCallers, LifecycleEnds
    <2>2. review # Off /\ UNCHANGED surroundings
      BY NotOff
    <2> QED BY <2>1, <2>2 DEF EnvInv, surroundings, LifeInv
  <1>q. Quiet' => Quiet
    BY <1>0 DEF Quiet, Undisturbed
  <1> USE <1>0 DEF Steps, Runs
  <1>1. CASE LifecycleFinds
    <2> DEFINE found == Resolve(d, "refs", review.arg)
               more  == [sym |-> found[1]]
    <2>1. CASE Goes("refused", <<>>)
      <3>1. review'.pc = "refused" /\ LifeFollows(<<>>)
        BY <2>1, NoneAdded, LifeGoes
      <3>2. {"includeTests", "depth"} \subseteq DOMAIN review' /\ review'.includeTests = review.includeTests /\ review'.depth = review.depth
        BY <3>1, NoneAdded DEF LifeFollows, Follows, Keeps
      <3> QED BY <3>1, <3>2 DEF LifeInv
    <2>2. CASE built # Unborn /\ Goes("refs", more)
      <3>1. DOMAIN more = {"sym"}
        OBVIOUS
      <3> HIDE DEF more
      <3>2. review'.pc = "refs" /\ LifeFollows(more)
        BY <2>2, <3>1, LifeGoes
      <3>3. /\ {"includeTests", "depth", "sym"} \subseteq DOMAIN review'
            /\ review'.includeTests = review.includeTests /\ review'.depth = review.depth
        BY <3>1, <3>2 DEF LifeFollows, Follows, Adds, Keeps
      <3> QED BY <2>2, <3>2, <3>3 DEF LifeInv
    <2> QED BY <1>1, <2>1, <2>2 DEF LifecycleFinds
  <1>2. CASE LifecycleRefs
    <2> DEFINE cls  == Classify(FindRefs(d, review.sym))
               todo == {c.fn : c \in cls} \ {0}
               groups == buildLifecycleResult(cls, review.includeTests)
               more == [seen |-> d, todo |-> todo, groups |-> groups, callers |-> <<>>]
    <2>1. Goes("callers", more) /\ review.pc = "refs"
      BY <1>2 DEF LifecycleRefs
    <2>2. /\ DOMAIN more = {"seen", "todo", "groups", "callers"}
          /\ more.seen = d /\ more.todo = todo /\ more.groups = groups /\ more.callers = <<>>
      OBVIOUS
    <2>3. built # Unborn /\ built \in Trees /\ d = Indexed(built) /\ "sym" \in DOMAIN review
      BY <2>1 DEF LifeInv
    <2>g. groups = buildLifecycleResult(Classify(FindRefs(d, review.sym)), review.includeTests)
      OBVIOUS
    <2>4. todo = Encs(d, review.sym) \ {0} /\ todo \subseteq Syms
      <3> DEFINE S    == Sites(d, review.sym)
                 rows == FindRefs(d, review.sym)
      <3>1. Indexed3(d)
        BY <2>3, TreesAssumption DEF Indexed3, Indexed
      <3>2. Each(rows, Cardinality(S), S)
        BY <3>1, RefsRows
      <3> HIDE DEF rows
      <3>3. {c.fn : c \in Classify(rows)} = {Refs[r].enc : r \in S}
        <4> HIDE DEF S
        <4> QED BY <3>2, Classified
      <3>4. {Refs[r].enc : r \in S} \subseteq Syms \cup {0}
        BY <3>1, RefTyped DEF Sites, Indexed3
      <3> QED BY <3>3, <3>4 DEF Encs, rows
    <2> HIDE DEF more, todo, groups, cls
    <2>5. review'.pc = "callers" /\ LifeFollows(more)
      BY <2>1, <2>2, LifeGoes
    <2>6. /\ {"includeTests", "depth", "sym", "seen", "todo", "groups", "callers"} \subseteq DOMAIN review'
          /\ review'.includeTests = review.includeTests /\ review'.depth = review.depth /\ review'.sym = review.sym
          /\ review'.seen = d /\ review'.todo = todo /\ review'.groups = groups /\ review'.callers = <<>>
      BY <2>2, <2>3, <2>5 DEF LifeFollows, Follows, Adds, Keeps
    <2>7. LifeRead'
      BY <2>3, <2>g, <2>4, <2>6 DEF LifeRead
    <2>8. LifeWalks'
      BY <2>6 DEF LifeWalks
    <2> QED BY <2>3, <2>5, <2>6, <2>7, <2>8 DEF LifeInv
  <1>3. CASE LifecycleCallers
    <2> DEFINE fn == First(Inserted(review.todo))
               walk == WalkCallers(d, fn, review.depth)
               one  == [k \in {fn} |-> walk]
               callers == Over(one, review.callers)
               todo == review.todo \ {fn}
               more == [todo |-> todo, callers |-> callers]
    <2>1. Goes("callers", more) /\ review.pc = "callers" /\ review.todo # {}
      BY <1>3 DEF LifecycleCallers
    <2>2. DOMAIN more = {"todo", "callers"} /\ more.todo = todo /\ more.callers = callers
      OBVIOUS
    <2>3. LifeRead /\ (Quiet => LifeWalks) /\ built # Unborn
      BY <2>1 DEF LifeInv
    <2>w. walk = WalkCallers(d, fn, review.depth)
      OBVIOUS
    <2>o. todo = review.todo \ {fn}
      OBVIOUS
    <2>f. DOMAIN one = {fn} /\ one[fn] = walk /\ callers = Over(one, review.callers)
      OBVIOUS
    <2> HIDE DEF fn, walk, one, callers
    <2>4. DOMAIN callers = {fn} \cup DOMAIN review.callers /\ callers[fn] = walk /\ \A k \in DOMAIN review.callers : k # fn => callers[k] = review.callers[k]
      <3> DEFINE old == review.callers
      <3>1. callers = Over(one, old) /\ DOMAIN one = {fn} /\ fn \in DOMAIN one
        BY <2>f
      <3> HIDE DEF old
      <3>2. DOMAIN Over(one, old) = DOMAIN one \cup DOMAIN old
        BY OverDomain
      <3>3. Over(one, old)[fn] = one[fn]
        BY <3>1, OverNew
      <3>4. \A k \in DOMAIN old : k \notin DOMAIN one => Over(one, old)[k] = old[k]
        BY OverOld
      <3> QED BY <2>f, <3>1, <3>2, <3>3, <3>4 DEF old
    <2> HIDE DEF more, todo
    <2>5. review'.pc = "callers" /\ LifeFollows(more)
      BY <2>1, <2>2, LifeGoes
    <2>6. /\ {"includeTests", "depth", "sym", "seen", "todo", "groups", "callers"} \subseteq DOMAIN review'
          /\ review'.includeTests = review.includeTests /\ review'.depth = review.depth /\ review'.sym = review.sym
          /\ review'.seen = review.seen /\ review'.todo = todo /\ review'.groups = review.groups /\ review'.callers = callers
      BY <2>2, <2>3, <2>5 DEF LifeFollows, Follows, Adds, Keeps, LifeRead
    <2>7. LifeRead'
      BY <2>3, <2>o, <2>4, <2>6 DEF LifeRead
    <2>8. LifeWalks => LifeWalks'
      BY <2>w, <2>4, <2>6 DEF LifeWalks, WalkOf
    <2> QED BY <1>q, <2>3, <2>5, <2>6, <2>7, <2>8 DEF LifeInv
  <1>4. CASE LifecycleEnds
    <2>1. Goes("done", <<>>) /\ review.pc = "callers" /\ review.todo = {}
      BY <1>4 DEF LifecycleEnds
    <2>2. LifeRead /\ (Quiet => LifeWalks) /\ built # Unborn
      BY <2>1 DEF LifeInv
    <2>3. review'.pc = "done" /\ LifeFollows(<<>>)
      BY <2>1, NoneAdded, LifeGoes
    <2>4. /\ {"includeTests", "depth", "sym", "seen", "todo", "groups", "callers"} \subseteq DOMAIN review'
          /\ review'.includeTests = review.includeTests /\ review'.depth = review.depth /\ review'.sym = review.sym
          /\ review'.seen = review.seen /\ review'.todo = review.todo /\ review'.groups = review.groups /\ review'.callers = review.callers
      BY <2>2, <2>3, NoneAdded DEF LifeFollows, Follows, Keeps, LifeRead
    <2>5. LifeRead'
      BY <2>2, <2>4 DEF LifeRead
    <2>6. LifeWalks => LifeWalks'
      BY <2>4 DEF LifeWalks, WalkOf
    <2> QED BY <1>q, <2>1, <2>2, <2>3, <2>4, <2>5, <2>6 DEF LifeInv
  <1> QED BY <1>1, <1>2, <1>3, <1>4 DEF Lifecycle

LEMMA LifeInvariance == ClientSpec => [](EnvInv /\ LifeInv)
  <1>1. ASSUME HasVerb, EnvInv, LifeInv, [ClientNext]_<<vars, reviewVars>> PROVE LifeInv'
    <2>1. review'.verb = review.verb
      BY <1>1, VerbKept
    <2>2. CASE Lifecycle
      BY <1>1, <2>2, LifeInvStep
    <2>3. CASE review.verb # "lifecycle"
      BY <2>1, <2>3 DEF LifeInv
    <2>4. CASE UNCHANGED <<d, built, review, stirred>>
      BY <1>1, <2>4 DEF LifeInv, LifeRead, LifeWalks, WalkOf, Quiet, Undisturbed
    <2>5. CASE Stirs
      <3>1. UNCHANGED review /\ (Quiet' => Quiet /\ UNCHANGED d) /\ (built # Unborn => built' # Unborn)
        BY <2>5 DEF Stirs
      <3>2. (LifeRead => LifeRead') /\ (Quiet' /\ LifeWalks => LifeWalks')
        BY <3>1 DEF LifeRead, LifeWalks, WalkOf
      <3> QED BY <1>1, <3>1, <3>2 DEF LifeInv
    <2>6. CASE review = Off
      BY <2>3, <2>6 DEF Off
    <2>7. CASE Describe
      <3>1. review.verb # "lifecycle"
        BY <2>7 DEF Describe, NoIndex, Describers, Finds, Pack, PackFinds, PackLoads, PackRefs, PackCallers, PackCallees,
           PackCounts, PackExplains, PackEnds, PackPackage, PackageFinds, PackageExports, PackageRanks,
           DefInPkg, DefLoads, TypesLoads, TypesOfPackage, Steps, Runs
      <3> QED BY <2>3, <3>1
    <2> QED BY <1>1, <2>2, <2>3, <2>4, <2>5, <2>6, <2>7, StepsAre
  <1>2. EnvInv /\ [ClientNext]_<<vars, reviewVars>> => EnvInv'
    BY EnvInvStep
  <1> QED BY <1>1, <1>2, EnvInvInit, LifeInvInit, RiskInvariance, PTL DEF ClientSpec

\* lifecycle: every function and every place that refers to the type is in one
\* group, with the evidence of its role, and the callers of a function are all
\* that reach it in so many calls, each at its distance.
THEOREM LifecyclesAreWhole == ClientSpec => []LifecycleWhole
  <1>1. ASSUME EnvInv, LifeInv, Done("lifecycle") PROVE LifecycleWhole
    <2> DEFINE rows   == FindRefs(review.seen, review.sym)
               S      == Sites(review.seen, review.sym)
               cls    == Classify(rows)
               all    == UNION {review.groups[g] : g \in DOMAIN review.groups}
               around == {Refs[r].enc : r \in Range(rows)}
    <2>1. /\ LifeRead /\ (Quiet => LifeWalks) /\ review.todo = {} /\ built # Unborn /\ review.includeTests \in BOOLEAN /\ review.depth \in Int
      BY <1>1 DEF LifeInv, Done, Runs
    <2>2. Indexed3(review.seen) /\ Consistent(review.seen)
      <3>1. PICK t \in Trees : review.seen = Indexed(t)
        BY <2>1 DEF LifeRead
      <3>2. Indexed3(review.seen)
        <4> DEFINE db == Indexed(t)
        <4>1. Indexed3(db)
          BY TreesAssumption DEF Indexed3, Indexed
        <4> HIDE DEF db
        <4>2. review.seen = db
          BY <3>1 DEF db
        <4> QED BY <4>1, <4>2
      <3> QED BY <3>1, <3>2, MeasuresAssumption
    <2>3. Each(rows, Cardinality(S), S)
      BY <2>2, RefsRows
    <2>4. Range(rows) = S
      BY <2>3, Values1 DEF Each
    <2>r. review.groups = buildLifecycleResult(cls, review.includeTests)
      BY <2>1 DEF LifeRead
    <2>s. S = {r \in review.seen.refs : Refs[r].sym = review.sym /\ Real(r)} /\ Encs(review.seen, review.sym) = {Refs[r].enc : r \in S}
      BY DEF Sites, Encs
    <2> HIDE DEF rows, S
    <2>5. /\ {c.fn : c \in cls} = {Refs[r].enc : r \in S}
          /\ \A c \in cls : c.role \in Range(roleOrder)
          /\ \A c, e \in cls : c.fn = e.fn /\ c.fn # 0 => c = e
          /\ \A fn : fn # 0 => RoleOf(fn, S, cls)
      BY <2>3, Classified
    <2> HIDE DEF cls
    <2>6. all = cls /\ \A c \in cls : Cardinality({g \in DOMAIN review.groups : c \in review.groups[g]}) = 1
      BY <2>1, <2>r, <2>5, GroupsPart
    <2>7. \A c \in all : \A r \in review.seen.refs :
            Refs[r].sym = review.sym /\ Refs[r].enc = c.fn /\ c.fn # 0 =>
              /\ Refs[r].ctx \in Construction => "Create" \in {c.role} \cup c.mixed
              /\ Refs[r].ctx \in DeleteCalls => c.role = "Delete"
      <3> SUFFICES ASSUME NEW c \in all, NEW r \in review.seen.refs, Refs[r].sym = review.sym, Refs[r].enc = c.fn, c.fn # 0
                   PROVE  /\ Refs[r].ctx \in Construction => "Create" \in {c.role} \cup c.mixed
                          /\ Refs[r].ctx \in DeleteCalls => c.role = "Delete"
        OBVIOUS
      <3>1. Refs[r].ctx \in Construction \cup DeleteCalls => Real(r)
        BY MeasuresAssumption DEF Construction, Real
      <3>2. Refs[r].ctx \in Construction \cup DeleteCalls => r \in S
        BY <2>s, <3>1
      <3>3. RoleOf(c.fn, S, cls) /\ c \in cls
        BY <2>5, <2>6
      <3> QED BY <3>2, <3>3 DEF RoleOf
    <2>8. ASSUME Undisturbed({"index"}), NEW fn \in around \ {0}
          PROVE  \E within \in {Reached(d, fn, review.depth)} :
                   review.callers[fn] = {e \in (1..review.depth) \X Syms : e[2] \in within[e[1]] /\ e[2] \notin within[e[1] - 1]}
      <3>1. review.callers[fn] = WalkCallers(d, fn, review.depth)
        BY <2>1, <2>4, <2>s, <2>8 DEF LifeRead, LifeWalks, WalkOf, Quiet
      <3>2. fn \in Syms
        <4>1. PICK r \in S : fn = Refs[r].enc
          BY <2>4
        <4>2. r \in DOMAIN Refs
          BY <2>2, <2>s DEF Indexed3
        <4> QED BY <4>1, <4>2, RefTyped
      <3>3. Indexed3(d)
        <4>1. built \in Trees /\ d = Indexed(built)
          BY <1>1, <2>1 DEF EnvInv, Done, Runs, Off
        <4> QED BY <4>1, TreesAssumption DEF Indexed3, Indexed
      <3> QED BY <2>1, <3>1, <3>2, <3>3, WalkIsReach
    <2>9. {c.fn : c \in all} = around
      BY <2>4, <2>5, <2>6
    <2>10. /\ \A c \in all : Cardinality({g \in DOMAIN review.groups : c \in review.groups[g]}) = 1
           /\ \A c, e \in all : c.fn = e.fn /\ c.fn # 0 => c = e
      BY <2>5, <2>6
    <2> HIDE DEF all, around
    <2> QED BY <2>7, <2>8, <2>9, <2>10 DEF LifecycleWhole, all, around, rows
  <1>2. EnvInv /\ LifeInv => LifecycleWhole
    BY <1>1 DEF LifecycleWhole
  <1> QED BY <1>2, LifeInvariance, PTL
=============================================================================
