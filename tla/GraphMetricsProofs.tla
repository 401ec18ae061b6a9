------------------------- MODULE GraphMetricsProofs --------------------------
(***************************************************************************)
(* The graph algorithms of internal/graphmetrics for every finite graph,   *)
(* self-loops and cycles included.                                         *)
(*                                                                         *)
(* Reachability is spoken of by closed sets and connection by saturated    *)
(* ones, so that no proof has to walk along a path or a chain of links.    *)
(***************************************************************************)
EXTENDS GraphMetrics, WellFoundedInduction, FiniteSetTheorems, TLAPS

(* Reachability, by closed sets.                                           *)

LEMMA ReachesSelf == \A n \in Node : Reaches(n, n)
BY DEF Reaches

LEMMA ReachesOn ==
  ASSUME NEW l \in Node, NEW m \in Node, NEW n \in Node, Reaches(l, m), Reaches(m, n)
  PROVE  Reaches(l, n)
BY DEF Reaches

LEMMA ReachesEdge ==
  ASSUME NEW m \in Node, NEW n \in Node, n \in adj[m]
  PROVE  Reaches(m, n)
BY DEF Reaches, Closed

\* Nothing outside a closed set is reached from within it.
LEMMA ReachesWithin ==
  ASSUME NEW S \in SUBSET Node, Closed(S), NEW m \in S, NEW n \in Node, Reaches(m, n)
  PROVE  n \in S
BY DEF Reaches

\* Nodes that reach each other have the same class.
LEMMA SameClass ==
  ASSUME NEW m \in Node, NEW n \in Node, Reaches(m, n), Reaches(n, m)
  PROVE  StrongClass(m) = StrongClass(n)
<1>1. ASSUME NEW l \in Node PROVE l \in StrongClass(m) <=> l \in StrongClass(n)
  BY ReachesOn DEF StrongClass
<1> QED BY <1>1 DEF StrongClass

LEMMA GraphKept ==
  ASSUME UNCHANGED adj
  PROVE  /\ \A m, n : Reaches(m, n)' <=> Reaches(m, n)
         /\ \A n : StrongClass(n)' = StrongClass(n)
         /\ \A S : Closed(S) <=> \A n \in S : adj'[n] \subseteq S
BY DEF Reaches, Closed, StrongClass

-----------------------------------------------------------------------------
(* Lists and their least elements.                                         *)

\* The least-number principle: sets of numbers up to a bound are finite, and
\* finite sets are well-founded by inclusion.
LEMMA MinOfNats ==
  ASSUME NEW S \in SUBSET Nat, S # {}
  PROVE  Min(S) \in S /\ \A m \in S : Min(S) <= m
<1> DEFINE Upto(n) == S \cap (0 .. n)
           T == {Upto(n) : n \in S}
<1>1. T \subseteq FiniteSubsetsOf(Nat)
  <2> SUFFICES ASSUME NEW n \in S PROVE Upto(n) \in FiniteSubsetsOf(Nat)
    OBVIOUS
  <2>1. IsFiniteSet(0 .. n)
    BY FS_Interval
  <2>2. IsFiniteSet(Upto(n))
    BY <2>1, FS_Subset
  <2> QED BY <2>2 DEF FiniteSubsetsOf
<1>2. PICK U \in T : \A V \in T : ~(<<V, U>> \in StrictSubsetOrdering(Nat))
  <2>1. T # {}
    OBVIOUS
  <2> HIDE DEF T
  <2> QED BY ONLY <1>1, <2>1, WFMin, FS_StrictSubsetOrderingWellFounded
<1>3. PICK n \in S : U = Upto(n)
  OBVIOUS
<1>4. ASSUME NEW m \in S, m < n PROVE FALSE
  <2>1. Upto(m) \subseteq Upto(n) /\ n \in Upto(n) /\ n \notin Upto(m)
    BY <1>4
  <2>2. <<Upto(m), Upto(n)>> \in StrictSubsetOrdering(Nat)
    BY <2>1 DEF StrictSubsetOrdering
  <2> QED BY <1>2, <1>3, <2>2
<1>5. \A m \in S : n <= m
  BY <1>4
<1> HIDE DEF T, Upto
<1> QED BY <1>5 DEF Min

LEMMA RangeIs ==
  ASSUME NEW S, NEW s \in Seq(S)
  PROVE  Range(s) = {s[i] : i \in 1 .. Len(s)} /\ Range(s) \subseteq S
BY DEF Range

LEMMA AppendIs ==
  ASSUME NEW S, NEW s \in Seq(S), NEW u \in S
  PROVE  /\ Append(s, u) \in Seq(S)
         /\ Len(Append(s, u)) = Len(s) + 1
         /\ \A i \in 1 .. Len(s) : Append(s, u)[i] = s[i]
         /\ Append(s, u)[Len(s) + 1] = u
         /\ Range(Append(s, u)) = Range(s) \cup {u}
BY DEF Range

LEMMA PrefixIs ==
  ASSUME NEW S, NEW s \in Seq(S), NEW k \in 0 .. Len(s)
  PROVE  /\ SubSeq(s, 1, k) \in Seq(S)
         /\ Len(SubSeq(s, 1, k)) = k
         /\ \A i \in 1 .. k : SubSeq(s, 1, k)[i] = s[i]
         /\ Range(SubSeq(s, 1, k)) = {s[i] : i \in 1 .. k}
<1> DEFINE p == SubSeq(s, 1, k)
<1>1. /\ p \in Seq(S) /\ Len(p) = k
      /\ \A i \in 1 .. k : p[i] = s[i]
  OBVIOUS
<1> HIDE DEF p
<1>2. Range(p) = {s[i] : i \in 1 .. k}
  BY <1>1, RangeIs
<1> QED BY <1>1, <1>2 DEF p

-----------------------------------------------------------------------------
(***************************************************************************)
(* TopoSort: Kahn's loop.                                                  *)
(***************************************************************************)

\* The degrees count the edges from nodes that are not in the order yet.
DegreeInv ==
  \A v \in Node : indeg[v] = Cardinality(InEdges(v) \ Range(order))

\* A node is in the order or queued exactly if no such edge is left.
ReadyInv ==
  \A v \in Node : v \in Range(order) \cup Range(queue) <=> indeg[v] = 0

\* No node is listed twice.
OnceInv ==
  /\ Range(order) \cap Range(queue) = {}
  /\ \A i, j \in 1 .. Len(queue) : queue[i] = queue[j] => i = j
  /\ \A i, j \in 1 .. Len(order) : order[i] = order[j] => i = j

\* The part of the type invariant that Kahn's loop needs.
KahnTypeOK ==
  /\ adj \in [Node -> SUBSET Node]
  /\ queue \in Seq(Node) /\ order \in Seq(Node)
  /\ indeg \in [Node -> Nat]

CompleteInv == phase = "sorted" => Range(order) = Node

KahnInv == KahnTypeOK /\ DegreeInv /\ ReadyInv /\ OnceInv /\ Topological /\ CompleteInv

-----------------------------------------------------------------------------
(* The sets and lists the loop works on.                                   *)

LEMMA PredFinite ==
  ASSUME NEW v \in Node, NEW S
  PROVE  /\ IsFiniteSet(InEdges(v) \ S)
         /\ Cardinality(InEdges(v) \ S) \in Nat
<1>1. InEdges(v) \ S \in SUBSET Node
  BY DEF InEdges
<1>2. IsFiniteSet(InEdges(v) \ S)
  BY <1>1, FS_Subset, NodeAssumption
<1>3. QED
  BY <1>2, FS_CardinalityType

\* The list of a set's nodes in order holds each of them once.
LEMMA AscendingLists ==
  ASSUME NEW S \in SUBSET Node, NEW s \in Ascending(S)
  PROVE  /\ s \in Seq(Node)
         /\ Range(s) = S
         /\ \A i, j \in 1 .. Len(s) : s[i] = s[j] => i = j
<1>1. IsFiniteSet(S)
  BY FS_Subset, NodeAssumption
<1>2. Cardinality(S) \in Nat
  BY <1>1, FS_CardinalityType
<1>3. /\ s \in [1 .. Cardinality(S) -> S]
      /\ \A i, j \in 1 .. Cardinality(S) : i < j => s[i] < s[j]
      /\ \A n \in S : \E i \in 1 .. Cardinality(S) : s[i] = n
  BY DEF Ascending
<1>4. s \in Seq(Node) /\ Len(s) = Cardinality(S)
  BY <1>2, <1>3
<1>5. Range(s) = S
  BY <1>3 DEF Range
<1>6. ASSUME NEW i \in 1 .. Len(s), NEW j \in 1 .. Len(s), s[i] = s[j]
      PROVE  i = j
  <2>1. s[i] \in Nat /\ s[j] \in Nat
    BY <1>3, <1>4, NodeAssumption
  <2>2. ~(i < j) /\ ~(j < i)
    BY <1>3, <1>4, <1>6, <2>1
  <2>3. QED
    BY <1>2, <1>4, <2>2
<1>7. QED
  BY <1>4, <1>5, <1>6

\* The queue after a turn: what was behind its head, then the new nodes.
LEMMA QueueRange ==
  ASSUME NEW q \in Seq(Node), q # <<>>, NEW s \in Seq(Node),
         \A i, j \in 1 .. Len(q) : q[i] = q[j] => i = j,
         \A i, j \in 1 .. Len(s) : s[i] = s[j] => i = j,
         Range(q) \cap Range(s) = {}
  PROVE  /\ Tail(q) \o s \in Seq(Node)
         /\ Head(q) \in Node
         /\ Head(q) \in Range(q)
         /\ Range(Tail(q) \o s) = (Range(q) \ {Head(q)}) \cup Range(s)
         /\ \A i, j \in 1 .. Len(Tail(q) \o s) :
              (Tail(q) \o s)[i] = (Tail(q) \o s)[j] => i = j
<1> DEFINE t == Tail(q) \o s
<1>1. /\ Len(q) \in Nat \ {0} /\ Len(s) \in Nat
      /\ Head(q) = q[1]
      /\ Tail(q) \in Seq(Node) /\ Len(Tail(q)) = Len(q) - 1
      /\ \A i \in 1 .. Len(q) - 1 : Tail(q)[i] = q[i + 1]
  OBVIOUS
<1>2. /\ t \in Seq(Node) /\ Len(t) = Len(q) - 1 + Len(s)
      /\ \A i \in 1 .. Len(t) : t[i] = IF i <= Len(q) - 1 THEN q[i + 1] ELSE s[i - (Len(q) - 1)]
  BY <1>1
<1> HIDE DEF t
<1>3. Head(q) \in Range(q) /\ Head(q) \in Node
  BY <1>1, RangeIs
<1>4. ASSUME NEW i \in 1 .. Len(t), NEW j \in 1 .. Len(t), t[i] = t[j]
      PROVE  i = j
  <2>1. CASE i <= Len(q) - 1 /\ j <= Len(q) - 1
    BY <1>1, <1>2, <1>4, <2>1
  <2>2. CASE i > Len(q) - 1 /\ j > Len(q) - 1
    <3>1. i - (Len(q) - 1) \in 1 .. Len(s) /\ j - (Len(q) - 1) \in 1 .. Len(s)
      BY <1>1, <1>2, <2>2
    <3>2. s[i - (Len(q) - 1)] = s[j - (Len(q) - 1)]
      BY <1>1, <1>2, <1>4, <2>2
    <3>3. QED
      BY <1>1, <3>1, <3>2
  <2>3. ASSUME NEW a \in 1 .. Len(t), NEW b \in 1 .. Len(t),
               a <= Len(q) - 1, b > Len(q) - 1
        PROVE  t[a] # t[b]
    <3>1. t[a] = q[a + 1] /\ a + 1 \in 1 .. Len(q)
      BY <1>1, <1>2, <2>3
    <3>2. t[b] = s[b - (Len(q) - 1)] /\ b - (Len(q) - 1) \in 1 .. Len(s)
      BY <1>1, <1>2, <2>3
    <3>3. t[a] \in Range(q) /\ t[b] \in Range(s)
      BY <3>1, <3>2, RangeIs
    <3>4. QED
      BY <3>3
  <2>4. QED
    BY <1>1, <1>2, <1>4, <2>1, <2>2, <2>3
<1>5. Range(t) = (Range(q) \ {Head(q)}) \cup Range(s)
  <2>1. ASSUME NEW i \in 1 .. Len(t)
        PROVE  t[i] \in (Range(q) \ {Head(q)}) \cup Range(s)
    <3>1. CASE i <= Len(q) - 1
      <4>1. t[i] = q[i + 1] /\ i + 1 \in 1 .. Len(q) /\ i + 1 # 1
        BY <1>1, <1>2, <3>1
      <4>2. 1 \in 1 .. Len(q)
        BY <1>1
      <4>3. t[i] # Head(q)
        BY <1>1, <4>1, <4>2
      <4>4. QED
        BY <4>1, <4>3, RangeIs
    <3>2. CASE i > Len(q) - 1
      <4>1. t[i] = s[i - (Len(q) - 1)] /\ i - (Len(q) - 1) \in 1 .. Len(s)
        BY <1>1, <1>2, <3>2
      <4>2. QED
        BY <4>1, RangeIs
    <3>3. QED
      BY <1>1, <1>2, <3>1, <3>2
  <2>2. ASSUME NEW k \in 2 .. Len(q)
        PROVE  q[k] \in Range(t)
    <3>1. k - 1 \in 1 .. Len(t) /\ t[k - 1] = q[k]
      BY <1>1, <1>2
    <3>2. QED
      BY <1>2, <3>1, RangeIs
  <2>3. ASSUME NEW k \in 1 .. Len(s)
        PROVE  s[k] \in Range(t)
    <3>1. /\ k + (Len(q) - 1) \in 1 .. Len(t)
          /\ k + (Len(q) - 1) > Len(q) - 1
          /\ (k + (Len(q) - 1)) - (Len(q) - 1) = k
      BY <1>1, <1>2
    <3>2. t[k + (Len(q) - 1)] = s[k]
      BY <1>1, <1>2, <3>1
    <3>3. QED
      BY <1>2, <3>1, <3>2, RangeIs
  <2>4. Range(t) \subseteq (Range(q) \ {Head(q)}) \cup Range(s)
    BY <1>2, <2>1, RangeIs
  <2>5. ASSUME NEW n \in Range(q), n # Head(q)
        PROVE  n \in Range(t)
    <3>1. \E k \in 2 .. Len(q) : q[k] = n
      BY <1>1, <2>5, RangeIs
    <3>2. QED
      BY <2>2, <3>1
  <2>6. Range(s) \subseteq Range(t)
    BY <2>3, RangeIs
  <2>7. QED
    BY <2>4, <2>5, <2>6
<1>6. QED
  BY <1>2, <1>3, <1>4, <1>5 DEF t

-----------------------------------------------------------------------------
(* Kahn's loop.                                                            *)

LEMMA InitKahnInv == adj \in Graphs /\ TopoInit => KahnInv
<1> SUFFICES ASSUME adj \in Graphs, TopoInit PROVE KahnInv
  OBVIOUS
<1>1. /\ indeg = InDegree /\ order = <<>> /\ phase = "kahn"
      /\ queue \in Ascending(Sources)
  BY DEF TopoInit
<1>2. Range(order) = {} /\ order \in Seq(Node) /\ Len(order) = 0
  BY <1>1 DEF Range
<1>3. \A v \in Node : InEdges(v) \ {} = InEdges(v)
  OBVIOUS
<1>4. indeg \in [Node -> Nat]
  BY <1>1, <1>3, PredFinite DEF InDegree
<1>5. DegreeInv
  BY <1>1, <1>2, <1>3 DEF DegreeInv, InDegree
<1>6. Sources \in SUBSET Node
  BY DEF Sources
<1>7. /\ queue \in Seq(Node) /\ Range(queue) = Sources
      /\ \A i, j \in 1 .. Len(queue) : queue[i] = queue[j] => i = j
  BY <1>1, <1>6, AscendingLists
<1>8. ReadyInv
  BY <1>1, <1>2, <1>7 DEF ReadyInv, Sources
<1>9. OnceInv
  BY <1>2, <1>7 DEF OnceInv
<1>10. Topological /\ CompleteInv
  BY <1>1, <1>2 DEF Topological, CompleteInv
<1>11. adj \in [Node -> SUBSET Node]
  BY DEF Graphs
<1>12. QED
  BY <1>2, <1>4, <1>5, <1>7, <1>8, <1>9, <1>10, <1>11 DEF KahnInv, KahnTypeOK

\* One node moves from the queue to the order, and the nodes whose last open
\* edge came from it join the queue.
LEMMA DequeueKahnInv == KahnInv /\ Dequeue => KahnInv'
<1> SUFFICES ASSUME KahnInv, Dequeue PROVE KahnInv'
  OBVIOUS
<1> DEFINE u == Head(queue)
           ready == {v \in adj[u] : indeg[v] = 1}
<1>1. /\ KahnTypeOK /\ DegreeInv /\ ReadyInv /\ OnceInv /\ Topological
      /\ queue # <<>> /\ phase = "kahn" /\ phase' = phase /\ adj' = adj
      /\ order' = Append(order, u)
      /\ indeg' = [v \in Node |-> IF v \in adj[u] THEN indeg[v] - 1 ELSE indeg[v]]
  BY DEF KahnInv, Dequeue
<1>2. PICK s \in Ascending(ready) : queue' = Tail(queue) \o s
  BY DEF Dequeue
<1>3. /\ adj \in [Node -> SUBSET Node] /\ indeg \in [Node -> Nat]
      /\ queue \in Seq(Node) /\ order \in Seq(Node)
  BY <1>1 DEF KahnTypeOK
<1>4. u \in Node /\ u \in Range(queue)
  <2>1. u = queue[1] /\ 1 \in 1 .. Len(queue)
    BY <1>1, <1>3
  <2>2. QED
    BY <1>3, <2>1, RangeIs
<1> HIDE DEF u
<1>5. indeg[u] = 0 /\ u \notin Range(order)
  BY <1>1, <1>4 DEF ReadyInv, OnceInv
<1>6. InEdges(u) \subseteq Range(order)
  <2>1. Cardinality(InEdges(u) \ Range(order)) = 0
    BY <1>1, <1>4, <1>5 DEF DegreeInv
  <2>2. InEdges(u) \ Range(order) = {}
    BY <1>4, <2>1, PredFinite, FS_EmptySet
  <2>3. QED
    BY <2>2
<1>7. ready \in SUBSET Node
  BY <1>3, <1>4
<1>8. /\ s \in Seq(Node) /\ Range(s) = ready
      /\ \A i, j \in 1 .. Len(s) : s[i] = s[j] => i = j
  BY <1>2, <1>7, AscendingLists
<1>9. Range(queue) \cap Range(s) = {}
  BY <1>1, <1>7, <1>8 DEF ReadyInv
<1>10. /\ queue' \in Seq(Node)
       /\ Range(queue') = (Range(queue) \ {u}) \cup ready
       /\ \A i, j \in 1 .. Len(queue') : queue'[i] = queue'[j] => i = j
  <2>1. \A i, j \in 1 .. Len(queue) : queue[i] = queue[j] => i = j
    BY <1>1 DEF OnceInv
  <2>2. /\ Tail(queue) \o s \in Seq(Node)
        /\ Range(Tail(queue) \o s) = (Range(queue) \ {Head(queue)}) \cup Range(s)
        /\ \A i, j \in 1 .. Len(Tail(queue) \o s) :
             (Tail(queue) \o s)[i] = (Tail(queue) \o s)[j] => i = j
    <3> HIDE DEF ready
    <3>1. queue # <<>>
      BY <1>1
    <3>2. QED
      BY ONLY <1>3, <1>8, <1>9, <2>1, <3>1, QueueRange
  <2>3. QED
    BY <1>2, <1>8, <2>2 DEF u
<1>11. /\ order' \in Seq(Node) /\ Len(order') = Len(order) + 1
       /\ \A i \in 1 .. Len(order) : order'[i] = order[i]
       /\ order'[Len(order) + 1] = u
       /\ Range(order') = Range(order) \cup {u}
  BY <1>1, <1>3, <1>4, AppendIs
<1>12. \A v \in Node : InEdges(v)' = InEdges(v)
  BY <1>1 DEF InEdges
<1>13. ASSUME NEW v \in Node
       PROVE  /\ indeg'[v] \in Nat
              /\ indeg'[v] = Cardinality(InEdges(v) \ Range(order'))
              /\ v \in adj[u] => indeg[v] > 0
  <2>1. /\ indeg[v] = Cardinality(InEdges(v) \ Range(order))
        /\ IsFiniteSet(InEdges(v) \ Range(order))
    BY <1>1, PredFinite DEF DegreeInv
  <2>2. InEdges(v) \ Range(order') = (InEdges(v) \ Range(order)) \ {u}
    BY <1>11
  <2>3. Cardinality((InEdges(v) \ Range(order)) \ {u}) =
          IF u \in InEdges(v) \ Range(order)
          THEN Cardinality(InEdges(v) \ Range(order)) - 1
          ELSE Cardinality(InEdges(v) \ Range(order))
    BY <2>1, FS_RemoveElement
  <2>4. u \in InEdges(v) \ Range(order) <=> v \in adj[u]
    BY <1>4, <1>5 DEF InEdges
  <2>5. Cardinality(InEdges(v) \ Range(order')) \in Nat
    BY PredFinite
  <2>6. v \in adj[u] => indeg[v] > 0
    <3>1. v \in adj[u] => indeg[v] - 1 \in Nat
      BY <2>1, <2>2, <2>3, <2>4, <2>5
    <3>2. QED
      BY <1>3, <3>1
  <2>7. QED
    BY <1>1, <1>3, <2>1, <2>2, <2>3, <2>4, <2>5, <2>6
<1>14. KahnTypeOK'
  <2>1. indeg' \in [Node -> Nat]
    BY <1>1, <1>13
  <2>2. QED
    BY <1>1, <1>3, <1>10, <1>11, <2>1 DEF KahnTypeOK
<1>15. DegreeInv'
  BY <1>12, <1>13 DEF DegreeInv
<1>16. ReadyInv'
  <2>1. ASSUME NEW v \in Node
        PROVE  v \in Range(order') \cup Range(queue') <=> indeg'[v] = 0
    <3>1. Range(order') \cup Range(queue') = Range(order) \cup Range(queue) \cup ready
      BY <1>4, <1>10, <1>11
    <3>2. v \in Range(order) \cup Range(queue) <=> indeg[v] = 0
      BY <1>1 DEF ReadyInv
    <3>3. indeg[v] \in Nat
      BY <1>3
    <3>4. indeg'[v] = IF v \in adj[u] THEN indeg[v] - 1 ELSE indeg[v]
      BY <1>1
    <3>5. v \in adj[u] => indeg[v] > 0
      BY <1>13
    <3>6. v \in ready <=> v \in adj[u] /\ indeg[v] = 1
      OBVIOUS
    <3>7. QED
      BY <3>1, <3>2, <3>3, <3>4, <3>5, <3>6
  <2>2. QED
    BY <2>1 DEF ReadyInv
<1>17. OnceInv'
  <2>1. Range(order') \cap Range(queue') = {}
    <3>1. Range(order) \cap Range(queue) = {}
      BY <1>1 DEF OnceInv
    <3>2. Range(order) \cap ready = {} /\ u \notin ready
      BY <1>1, <1>5, <1>7 DEF ReadyInv
    <3>3. QED
      BY <1>10, <1>11, <3>1, <3>2
  <2>2. ASSUME NEW i \in 1 .. Len(order'), NEW j \in 1 .. Len(order'), order'[i] = order'[j]
        PROVE  i = j
    <3>1. \A k \in 1 .. Len(order) : order'[k] \in Range(order)
      <4>1. \A k \in 1 .. Len(order) : order[k] \in Range(order)
        BY <1>3, RangeIs
      <4>2. QED
        BY <1>11, <4>1
    <3>2. Len(order) \in Nat
      BY <1>3
    <3>3. i = Len(order) + 1 <=> j = Len(order) + 1
      BY <1>5, <1>11, <2>2, <3>1, <3>2
    <3>4. CASE i \in 1 .. Len(order) /\ j \in 1 .. Len(order)
      BY <1>1, <1>11, <2>2, <3>4 DEF OnceInv
    <3>5. QED
      BY <1>11, <3>2, <3>3, <3>4
  <2>3. QED
    BY <1>10, <2>1, <2>2 DEF OnceInv
<1>18. Topological'
  <2>1. ASSUME NEW j \in 1 .. Len(order'), NEW m \in InEdges(order'[j])
        PROVE  \E i \in 1 .. j - 1 : order'[i] = m
    <3>1. Len(order) \in Nat
      BY <1>3
    <3>2. CASE j \in 1 .. Len(order)
      <4>1. PICK i \in 1 .. j - 1 : order[i] = m
        BY <1>1, <1>11, <2>1, <3>2 DEF Topological
      <4>2. order'[i] = m
        BY <1>11, <3>1, <3>2, <4>1
      <4>3. QED
        BY <4>2
    <3>3. CASE j = Len(order) + 1
      <4>1. m \in Range(order)
        BY <1>6, <1>11, <2>1, <3>3
      <4>2. PICK i \in 1 .. Len(order) : order[i] = m
        BY <1>3, <4>1, RangeIs
      <4>3. order'[i] = m /\ i \in 1 .. j - 1
        BY <1>11, <3>1, <3>3, <4>2
      <4>4. QED
        BY <4>3
    <3>4. QED
      BY <1>11, <3>1, <3>2, <3>3
  <2>2. QED
    BY <1>1, <2>1 DEF Topological, InEdges
<1>19. CompleteInv'
  BY <1>1 DEF CompleteInv
<1>20. QED
  BY <1>14, <1>15, <1>16, <1>17, <1>18, <1>19 DEF KahnInv

LEMMA OtherKahnInv ==
  ASSUME KahnInv, adj' = adj, queue' = queue, order' = order, indeg' = indeg,
         CompleteInv'
  PROVE  KahnInv'
<1>1. \A v : InEdges(v)' = InEdges(v)
  BY DEF InEdges
<1>2. Topological'
  BY <1>1 DEF KahnInv, Topological
<1>3. DegreeInv'
  BY <1>1 DEF KahnInv, DegreeInv
<1> QED BY <1>2, <1>3 DEF KahnInv, KahnTypeOK, ReadyInv, OnceInv

\* No node is in the order twice.
LEMMA OrderIsCounted == KahnInv => Cardinality(Range(order)) = Len(order)
<1> SUFFICES ASSUME KahnInv PROVE Cardinality(Range(order)) = Len(order)
  OBVIOUS
<1>1. /\ order \in Seq(Node) /\ Len(order) \in Nat
      /\ \A i, j \in 1 .. Len(order) : order[i] = order[j] => i = j
  BY DEF KahnInv, KahnTypeOK, OnceInv
<1>2. order \in Bijection(1 .. Len(order), Range(order))
  <2>1. order \in [1 .. Len(order) -> Range(order)]
    BY <1>1, RangeIs
  <2>2. QED
    BY <1>1, <2>1, RangeIs DEF Bijection, Injection, Surjection, IsInjective
<1> QED BY <1>1, <1>2, FS_CountingElements DEF ExistsBijection

\* As many nodes as the graph has, each of them once, are all of them.
LEMMA SortedKahnInv == KahnInv /\ Sorted => KahnInv'
<1> SUFFICES ASSUME KahnInv, Sorted PROVE KahnInv'
  OBVIOUS
<1>1. /\ Len(order) = Cardinality(Node) /\ order \in Seq(Node)
      /\ UNCHANGED <<adj, queue, order, indeg>>
  BY DEF KahnInv, Sorted, KahnTypeOK
<1>2. IsFiniteSet(Node)
  BY NodeAssumption
<1>3. Range(order) = Node
  BY <1>1, <1>2, OrderIsCounted, RangeIs, FS_Subset
<1>4. CompleteInv'
  BY <1>1, <1>3 DEF CompleteInv
<1>5. QED
  BY <1>1, <1>4, OtherKahnInv

LEMMA NextKahnInv == KahnInv /\ [TopoNext]_<<adj, topoVars>> => KahnInv'
<1> SUFFICES ASSUME KahnInv, [TopoNext]_<<adj, topoVars>> PROVE KahnInv'
  OBVIOUS
<1>1. CompleteInv
  BY DEF KahnInv
<1>2. CASE Dequeue
  BY <1>2, DequeueKahnInv
<1>3. CASE Sorted
  BY <1>3, SortedKahnInv
<1>4. CASE Stuck
  BY <1>1, <1>4, OtherKahnInv DEF Stuck, CompleteInv
<1>5. CASE Found
  BY <1>1, <1>5, OtherKahnInv DEF Found, CompleteInv
<1>6. CASE Skip
  BY <1>1, <1>6, OtherKahnInv DEF Skip, CompleteInv
<1>7. CASE Descend
  BY <1>1, <1>7, OtherKahnInv DEF Descend, CompleteInv
<1>8. CASE Backtrack
  BY <1>1, <1>8, OtherKahnInv DEF Backtrack, CompleteInv
<1>9. CASE Rest
  BY <1>1, <1>9, OtherKahnInv DEF Rest, CompleteInv
<1>10. CASE UNCHANGED <<adj, topoVars>>
  BY <1>1, <1>10, OtherKahnInv DEF topoVars, CompleteInv
<1>11. QED
  BY <1>2, <1>3, <1>4, <1>5, <1>6, <1>7, <1>8, <1>9, <1>10 DEF TopoNext

\* The inductive invariant of Kahn's loop and of the search behind it.
THEOREM KahnInvariance == TopoSpec => []KahnInv
<1>1. QED
  BY InitKahnInv, NextKahnInv, PTL DEF TopoSpec

\* For any graph, the order that Kahn's loop in TopoSort builds lists a node
\* only after everything that has an edge to it, from the first turn on.
THEOREM OrderIsTopological == TopoSpec => []Topological
<1>1. KahnInv => Topological
  BY DEF KahnInv
<1>2. QED
  BY <1>1, KahnInvariance, PTL

\* No node lies on a cycle.
Acyclic == \A n \in Node : ~OnCycle(n)

\* In a complete order the nodes behind a given one are closed under edges, so
\* that nothing leads back to it.
LEMMA CompleteIsAcyclic == KahnInv /\ phase = "sorted" => Acyclic
<1> SUFFICES ASSUME KahnInv, phase = "sorted", NEW n \in Node, OnCycle(n) PROVE FALSE
  BY DEF Acyclic
<1>1. /\ order \in Seq(Node) /\ Range(order) = Node
      /\ adj \in [Node -> SUBSET Node]
      /\ \A i, j \in 1 .. Len(order) : order[i] = order[j] => i = j
  BY DEF KahnInv, KahnTypeOK, CompleteInv, OnceInv
<1>2. PICK k \in 1 .. Len(order) : order[k] = n
  BY <1>1, RangeIs
<1> DEFINE S == {order[i] : i \in k + 1 .. Len(order)}
<1>3. S \in SUBSET Node
  BY <1>1
\* The end of an edge is further back than its start.
<1>4. ASSUME NEW i \in 1 .. Len(order), i >= k, NEW m \in adj[order[i]]
      PROVE  m \in S
  <2>1. order[i] \in Node /\ m \in Node
    BY <1>1
  <2>2. PICK j \in 1 .. Len(order) : order[j] = m
    <3>1. Range(order) = {order[j] : j \in 1 .. Len(order)}
      BY <1>1, RangeIs
    <3>2. m \in Range(order)
      BY <1>1, <2>1
    <3>3. QED
      BY <3>1, <3>2
  <2>3. order[i] \in InEdges(order[j])
    BY <1>4, <2>1, <2>2 DEF InEdges
  <2>4. PICK h \in 1 .. j - 1 : order[h] = order[i]
    BY <2>3 DEF KahnInv, Topological
  <2>5. h = i
    BY <1>1, <2>4
  <2>6. QED
    BY <1>1, <1>4, <2>2, <2>4, <2>5
<1>5. Closed(S)
  <2>1. ASSUME NEW a \in S PROVE adj[a] \subseteq S
    <3>1. PICK i \in k + 1 .. Len(order) : order[i] = a
      OBVIOUS
    <3>2. i \in 1 .. Len(order) /\ i >= k
      BY <1>1
    <3>3. QED
      BY <1>4, <3>1, <3>2
  <2>2. QED
    BY <2>1 DEF Closed
<1>6. PICK m \in adj[n] : Reaches(m, n)
  BY DEF OnCycle
<1>7. m \in S
  BY <1>1, <1>2, <1>4, <1>6
<1>8. n \in S
  BY <1>3, <1>5, <1>6, <1>7 DEF Reaches
<1>9. QED
  BY <1>1, <1>2, <1>8

\* What TopoSort returns as an order is one: "sorted" is only ever said of a
\* graph in which no node lies on a cycle.
THEOREM SortedMeansAcyclic == TopoSpec => [](phase = "sorted" => Acyclic)
<1>1. KahnInv => (phase = "sorted" => Acyclic)
  BY CompleteIsAcyclic
<1>2. QED
  BY <1>1, KahnInvariance, PTL

-----------------------------------------------------------------------------
(***************************************************************************)
(* TopoSort: the search for a cycle among the nodes that are left.         *)
(***************************************************************************)

\* The nodes that Kahn's loop has left, and those the search is done with.
Left     == Node \ Range(order)
Finished == Left \ remaining
At(i)    == path[i].node

\* The path is a path of remaining nodes, none of them twice; edges that have
\* been looked at lead to the next node on it or to a finished one.
PathInv ==
  /\ remaining \subseteq Left
  /\ path \in Seq([node : Node, todo : SUBSET Node])
  /\ \A i, j \in 1 .. Len(path) : At(i) = At(j) => i = j
  /\ \A i \in 1 .. Len(path) :
       /\ At(i) \in remaining /\ path[i].todo \subseteq adj[At(i)]
       /\ i < Len(path) => At(i + 1) \in adj[At(i)]
       /\ \A m \in adj[At(i)] \ path[i].todo : m \in Finished \/ (i < Len(path) /\ m = At(i + 1))

\* Nothing leads out of what is finished, no cycle lies in it, and when the
\* search is over the node it started at is finished.
FinishedInv ==
  /\ Closed(Finished) /\ \A n \in Finished : ~OnCycle(n)
  /\ IF path = <<>> THEN Min(Left) \in Finished ELSE At(1) = Min(Left)

SearchInv == KahnInv /\ WitnessOrRest /\ (phase = "search" => PathInv /\ FinishedInv)

\* What is in the order has all its predecessors there, so that no edge leads
\* back into it from what is left.
LEMMA LeftClosed == KahnInv => Closed(Left)
<1> SUFFICES ASSUME KahnInv, NEW n \in Left, NEW m \in adj[n] PROVE m \in Left
  BY DEF Closed
<1>1. /\ order \in Seq(Node) /\ m \in Node /\ n \in Node /\ n \in InEdges(m)
      /\ Range(order) = {order[i] : i \in 1 .. Len(order)} /\ Len(order) \in Nat
  BY RangeIs DEF KahnInv, KahnTypeOK, Left, InEdges
<1>2. ASSUME m \in Range(order) PROVE FALSE
  <2>1. PICK j \in 1 .. Len(order) : order[j] = m
    BY <1>1, <1>2
  <2>2. PICK i \in 1 .. j - 1 : order[i] = n
    BY <1>1, <2>1 DEF KahnInv, Topological
  <2>3. i \in 1 .. Len(order)
    BY <1>1, <2>1, <2>2
  <2> QED BY <1>1, <2>2, <2>3 DEF Left
<1> QED BY <1>1, <1>2 DEF Left

\* The end of the path, and the path with the next edge looked at.
LEMMA PathFacts ==
  ASSUME PathInv, Searching
  PROVE  /\ Len(path) \in Nat \ {0} /\ Top = path[Len(path)]
         /\ \A i \in 1 .. Len(path) : At(i) \in Node /\ path[i].todo \subseteq Node
         /\ Below \in Seq([node : Node, todo : SUBSET Node])
         /\ Len(Below) = Len(path) - 1
         /\ \A i \in 1 .. Len(path) - 1 : Below[i] = path[i]
         /\ Top.todo # {} =>
              /\ Next1 \in Top.todo /\ Next1 \in Node
              /\ Moved \in Seq([node : Node, todo : SUBSET Node])
              /\ Len(Moved) = Len(path)
              /\ \A i \in 1 .. Len(path) - 1 : Moved[i] = path[i]
              /\ Moved[Len(path)] = [node |-> Top.node, todo |-> Top.todo \ {Next1}]
<1> DEFINE F == [node : Node, todo : SUBSET Node]
<1>1. path \in Seq(F) /\ path # <<>>
  BY DEF PathInv, Searching
<1>2. \A f \in F : \A w : [f EXCEPT !.todo = @ \ {w}] = [node |-> f.node, todo |-> f.todo \ {w}]
  OBVIOUS
<1>3. \A f \in F : \A w : [node |-> f.node, todo |-> f.todo \ {w}] \in F
  OBVIOUS
<1>4. \A f \in F : f.node \in Node /\ f.todo \in SUBSET Node
  OBVIOUS
<1> HIDE DEF F
<1>5. Len(path) \in Nat \ {0} /\ Top \in F /\ \A i \in 1 .. Len(path) : path[i] \in F
  BY <1>1 DEF Top
<1>6. /\ Below \in Seq(F) /\ Len(Below) = Len(path) - 1
      /\ \A i \in 1 .. Len(path) - 1 : Below[i] = path[i]
  <2>1. Len(path) - 1 \in 0 .. Len(path)
    BY <1>5
  <2> QED BY <1>1, <2>1, PrefixIs DEF Below
<1>7. ASSUME Top.todo # {} PROVE Next1 \in Top.todo /\ Next1 \in Node
  BY <1>4, <1>5, <1>7, MinOfNats, NodeAssumption DEF Next1
<1>8. /\ Moved \in Seq(F) /\ Len(Moved) = Len(path)
      /\ \A i \in 1 .. Len(path) - 1 : Moved[i] = path[i]
      /\ Moved[Len(path)] = [node |-> Top.node, todo |-> Top.todo \ {Next1}]
  <2>1. [Top EXCEPT !.todo = @ \ {Next1}] = [node |-> Top.node, todo |-> Top.todo \ {Next1}]
    BY <1>2, <1>5
  <2>2. [node |-> Top.node, todo |-> Top.todo \ {Next1}] \in F
    BY <1>3, <1>5
  <2> QED BY <1>5, <1>6, <2>1, <2>2, AppendIs DEF Moved
<1>9. \A i \in 1 .. Len(path) : At(i) \in Node /\ path[i].todo \subseteq Node
  BY <1>4, <1>5 DEF At
<1> QED BY <1>5, <1>6, <1>7, <1>8, <1>9 DEF Top, F

\* The search starts with nothing finished.
LEMMA StuckSearchInv == KahnInv /\ Stuck => PathInv' /\ FinishedInv'
<1> SUFFICES ASSUME KahnInv, Stuck PROVE PathInv' /\ FinishedInv'
  OBVIOUS
<1>1. /\ UNCHANGED <<adj, order>> /\ remaining' = Left
      /\ path' = Append(<<>>, [node |-> Min(Left), todo |-> adj[Min(Left)]])
      /\ Len(order) # Cardinality(Node) /\ adj \in [Node -> SUBSET Node]
  BY DEF Stuck, Enter, Left, KahnInv, KahnTypeOK
<1>2. Left # {}
  <2>1. Range(order) = Node => Len(order) = Cardinality(Node)
    BY OrderIsCounted
  <2> QED BY <1>1, <2>1, RangeIs DEF Left, KahnInv, KahnTypeOK
<1>3. Min(Left) \in Left
  <2>1. Left \in SUBSET Nat
    BY NodeAssumption DEF Left
  <2> QED BY <1>2, <2>1, MinOfNats
<1>4. Left' = Left /\ Finished' = {}
  BY <1>1 DEF Left, Finished
<1>m. PICK s \in Node : s = Min(Left)
  BY <1>3 DEF Left
<1>5. /\ path' = <<[node |-> s, todo |-> adj[s]]>> /\ Len(path') = 1
      /\ path'[1] = [node |-> s, todo |-> adj[s]] /\ adj[s] \in SUBSET Node
  BY <1>1, <1>m
<1>6. path' \in Seq([node : Node, todo : SUBSET Node])
  BY <1>5
<1>7. PathInv'
  BY <1>1, <1>3, <1>m, <1>4, <1>5, <1>6 DEF PathInv, At
<1>8. FinishedInv'
  BY <1>m, <1>4, <1>5 DEF FinishedInv, Closed, At
<1> QED BY <1>7, <1>8

\* An edge to a finished node.
LEMMA SkipSearchInv ==
  ASSUME KahnInv, PathInv, FinishedInv, Skip
  PROVE  PathInv' /\ FinishedInv'
<1>k. PICK k, w : k = Len(path) /\ w = Next1
  OBVIOUS
<1>1. /\ UNCHANGED <<adj, order, remaining>> /\ Searching /\ Top.todo # {}
      /\ w \notin remaining /\ path' = Moved
  BY <1>k DEF Skip
<1>2. /\ k \in Nat \ {0} /\ w \in path[k].todo /\ w \in Node
      /\ path' \in Seq([node : Node, todo : SUBSET Node]) /\ Len(path') = k
      /\ \A i \in 1 .. k - 1 : path'[i] = path[i]
      /\ path'[k] = [node |-> At(k), todo |-> path[k].todo \ {w}]
      /\ \A i \in 1 .. k : At(i) \in Node
  BY <1>k, <1>1, PathFacts DEF At
<1>3. /\ \A i \in 1 .. k : i \in 1 .. k - 1 \/ i = k
      /\ \A i \in 1 .. k - 1 : i + 1 \in 1 .. k /\ i < k
      /\ \A i \in 1 .. k : At(i)' = At(i) /\ (i < k => i \in 1 .. k - 1)
  BY <1>2 DEF At
<1>4. Left' = Left /\ Finished' = Finished
  BY <1>1 DEF Left, Finished
<1>5. w \in Finished
  <2>1. At(k) \in Left /\ w \in adj[At(k)]
    BY <1>k, <1>2 DEF PathInv
  <2>2. w \in Left
    BY <2>1, LeftClosed DEF Closed
  <2> QED BY <1>1, <2>2 DEF Finished
<1>6. ASSUME NEW i \in 1 .. k
      PROVE  /\ path'[i].todo \subseteq adj[At(i)]
             /\ \A m \in adj[At(i)] \ path'[i].todo : m \in Finished \/ (i < k /\ m = At(i + 1))
  <2>1. /\ path[i].todo \subseteq adj[At(i)]
        /\ \A m \in adj[At(i)] \ path[i].todo : m \in Finished \/ (i < k /\ m = At(i + 1))
    BY <1>k, <1>6 DEF PathInv
  <2>2. path'[i].todo \subseteq path[i].todo /\ path[i].todo \subseteq path'[i].todo \cup {w}
    BY <1>2, <1>3
  <2> QED BY <1>5, <2>1, <2>2
<1>7. PathInv'
  BY <1>k, <1>1, <1>2, <1>3, <1>4, <1>6 DEF PathInv
<1>8. FinishedInv'
  <2>1. path # <<>> /\ path' # <<>> /\ 1 \in 1 .. k
    BY <1>1, <1>2 DEF Searching
  <2>2. Closed(Finished)' /\ \A n \in Finished : ~OnCycle(n)'
    BY <1>1, <1>4, GraphKept DEF FinishedInv, Closed, OnCycle
  <2> QED BY <1>3, <1>4, <2>1, <2>2 DEF FinishedInv
<1> QED BY <1>7, <1>8

\* An edge to a node that has not been looked at: the path grows.
LEMMA DescendSearchInv ==
  ASSUME KahnInv, PathInv, FinishedInv, Descend
  PROVE  PathInv' /\ FinishedInv'
<1>k. PICK k, w : k = Len(path) /\ w = Next1
  OBVIOUS
<1> DEFINE F == [node : Node, todo : SUBSET Node]
           new == [node |-> w, todo |-> adj[w]]
<1>1. /\ UNCHANGED <<adj, order, remaining>> /\ Searching /\ Top.todo # {}
      /\ w \in remaining /\ Depth(w) = {} /\ path' = Append(Moved, new)
      /\ adj \in [Node -> SUBSET Node]
  BY <1>k DEF Descend, Enter, KahnInv, KahnTypeOK
<1>2. /\ k \in Nat \ {0} /\ w \in path[k].todo /\ w \in Node
      /\ Moved \in Seq(F) /\ Len(Moved) = k
      /\ \A i \in 1 .. k - 1 : Moved[i] = path[i]
      /\ Moved[k] = [node |-> At(k), todo |-> path[k].todo \ {w}]
      /\ \A i \in 1 .. k : At(i) \in Node
  BY <1>k, <1>1, PathFacts DEF At
<1>3. /\ path' \in Seq(F) /\ Len(path') = k + 1
      /\ \A i \in 1 .. k : path'[i] = Moved[i]
      /\ path'[k + 1] = new
  <2>1. new \in F
    BY <1>1, <1>2
  <2> HIDE DEF F, new
  <2> QED BY <1>1, <1>2, <2>1, AppendIs
<1>4. PICK h : h = k + 1
  OBVIOUS
<1>5. /\ \A i \in 1 .. k : i \in 1 .. k - 1 \/ i = k
      /\ \A i \in 1 .. h : i \in 1 .. k \/ i = h
      /\ \A i \in 1 .. k : i < k => i + 1 \in 1 .. k
      /\ ~(h < h) /\ \A i \in 1 .. k : i # h /\ i < h
  BY <1>2, <1>4
<1>6. \A i \in 1 .. k : At(i)' = At(i) /\ path'[i].todo \subseteq path[i].todo
                        /\ path[i].todo \subseteq path'[i].todo \cup {w}
                        /\ (i # k => path'[i] = path[i])
  BY <1>2, <1>3, <1>5 DEF At
<1>7. At(h)' = w /\ path'[h].todo = adj[w]
  BY <1>3, <1>4 DEF At
<1>8. Left' = Left /\ Finished' = Finished
  BY <1>1 DEF Left, Finished
<1>9. \A i \in 1 .. k : At(i) # w
  BY <1>k, <1>1 DEF Depth, At
<1>10. PathInv'
  <2>1. remaining' \subseteq Left' /\ path' \in Seq(F) /\ Len(path') = h
    BY <1>1, <1>3, <1>4, <1>8 DEF PathInv
  <2>2. \A i, j \in 1 .. h : At(i)' = At(j)' => i = j
    BY <1>k, <1>5, <1>6, <1>7, <1>9 DEF PathInv
  <2>3. ASSUME NEW i \in 1 .. h
        PROVE  /\ At(i)' \in remaining /\ path'[i].todo \subseteq adj[At(i)']
               /\ i < h => At(i + 1)' \in adj[At(i)']
               /\ \A m \in adj[At(i)'] \ path'[i].todo : m \in Finished \/ (i < h /\ m = At(i + 1)')
    <3>1. CASE i \in 1 .. k - 1
      <4>1. i \in 1 .. k /\ i + 1 \in 1 .. k /\ i < k /\ i < h /\ i # k
        BY <1>2, <1>4, <1>5, <3>1
      <4>2. /\ At(i) \in remaining /\ path[i].todo \subseteq adj[At(i)] /\ At(i + 1) \in adj[At(i)]
            /\ \A m \in adj[At(i)] \ path[i].todo : m \in Finished \/ m = At(i + 1)
        BY <1>k, <4>1 DEF PathInv
      <4> QED BY <1>6, <4>1, <4>2
    <3>2. CASE i = k
      <4>1. k \in 1 .. k /\ ~(k < k) /\ k < h /\ At(k + 1)' = w /\ At(k)' = At(k)
        BY <1>2, <1>4, <1>5, <1>6, <1>7
      <4>2. /\ At(k) \in remaining /\ path[k].todo \subseteq adj[At(k)] /\ w \in adj[At(k)]
            /\ \A m \in adj[At(k)] \ path[k].todo : m \in Finished
        BY <1>k, <1>2, <4>1 DEF PathInv
      <4>3. path'[k].todo \subseteq path[k].todo /\ path[k].todo \subseteq path'[k].todo \cup {w}
        BY <1>6, <4>1
      <4> QED BY <3>2, <4>1, <4>2, <4>3
    <3>3. CASE i = h
      BY <1>1, <1>5, <1>7, <3>3
    <3> QED BY <1>5, <3>1, <3>2, <3>3
  <2> QED BY <1>1, <1>8, <2>1, <2>2, <2>3 DEF PathInv
<1>11. FinishedInv'
  <2>1. path # <<>> /\ path' # <<>> /\ 1 \in 1 .. k
    BY <1>1, <1>2, <1>3 DEF Searching
  <2>2. Closed(Finished)' /\ \A n \in Finished : ~OnCycle(n)'
    BY <1>1, <1>8, GraphKept DEF FinishedInv, Closed, OnCycle
  <2> QED BY <1>6, <1>8, <2>1, <2>2 DEF FinishedInv
<1> QED BY <1>10, <1>11

\* A node whose edges all lead to finished nodes reaches only those, so that no
\* edge of its own begins a way back to it.
LEMMA BacktrackSearchInv ==
  ASSUME KahnInv, PathInv, FinishedInv, Backtrack
  PROVE  PathInv' /\ FinishedInv'
<1>k. PICK k, u : k = Len(path) /\ u = At(k)
  OBVIOUS
<1>1. /\ UNCHANGED <<adj, order>> /\ Searching /\ Top.todo = {}
      /\ path' = Below /\ remaining' = remaining \ {Top.node} /\ adj \in [Node -> SUBSET Node]
  BY DEF Backtrack, KahnInv, KahnTypeOK
<1>2. /\ k \in Nat \ {0} /\ Top = path[k] /\ Top.node = u
      /\ path' \in Seq([node : Node, todo : SUBSET Node]) /\ Len(path') = k - 1
      /\ \A i \in 1 .. k - 1 : path'[i] = path[i]
      /\ \A i \in 1 .. k : At(i) \in Node
  BY <1>k, <1>1, PathFacts DEF At
<1>3. /\ \A i \in 1 .. k - 1 : i \in 1 .. k /\ i # k /\ At(i)' = At(i) /\ i < k
      /\ \A i \in 1 .. k - 1 : i < k - 1 => i + 1 \in 1 .. k - 1
      /\ \A i \in 1 .. k - 1 : ~(i < k - 1) => i + 1 = k
      /\ k \in 1 .. k /\ ~(k < k)
  BY <1>2 DEF At
<1>4. u \in remaining /\ remaining' = remaining \ {u} /\ u \in Left /\ u \in Node
  BY SMTT(30), ZenonT(60), <1>k, <1>1, <1>2, <1>3 DEF PathInv
<1>5. Left' = Left /\ Finished' = Finished \cup {u} /\ u \notin Finished
  BY <1>1, <1>4 DEF Left, Finished
<1>6. adj[u] \subseteq Finished
  BY <1>k, <1>1, <1>2, <1>3 DEF PathInv
<1>7. PathInv'
  <2>1. remaining' \subseteq Left' /\ \A i, j \in 1 .. k - 1 : At(i)' = At(j)' => i = j
    <3>1. remaining \subseteq Left /\ \A i, j \in 1 .. k : At(i) = At(j) => i = j
      BY <1>k DEF PathInv
    <3> QED BY <1>3, <1>4, <1>5, <3>1
  <2>2. ASSUME NEW i \in 1 .. k - 1
        PROVE  /\ At(i)' \in remaining' /\ path'[i].todo \subseteq adj[At(i)']
               /\ i < k - 1 => At(i + 1)' \in adj[At(i)']
               /\ \A m \in adj[At(i)'] \ path'[i].todo :
                    m \in Finished' \/ (i < k - 1 /\ m = At(i + 1)')
    <3>1. /\ At(i) \in remaining /\ path[i].todo \subseteq adj[At(i)] /\ At(i) # u
          /\ At(i + 1) \in adj[At(i)]
          /\ \A m \in adj[At(i)] \ path[i].todo : m \in Finished \/ m = At(i + 1)
      BY <1>k, <1>3 DEF PathInv
    <3>2. At(i)' = At(i) /\ path'[i] = path[i] /\ (i < k - 1 => At(i + 1)' = At(i + 1))
      BY <1>2, <1>3
    <3>3. ~(i < k - 1) => At(i + 1) = u
      BY <1>k, <1>3
    <3> QED BY <1>4, <1>5, <3>1, <3>2, <3>3
  <2> QED BY <1>1, <1>2, <2>1, <2>2 DEF PathInv
<1>8. FinishedInv'
  <2>1. Closed(Finished)'
    BY <1>1, <1>5, <1>6 DEF FinishedInv, Closed
  <2>2. ~OnCycle(u)
    <3>1. Finished \in SUBSET Node
      BY DEF Finished, Left
    <3> QED BY <1>4, <1>5, <1>6, <3>1 DEF OnCycle, FinishedInv, Reaches
  <2>3. \A n \in Finished' : ~OnCycle(n)'
    BY <1>1, <1>5, <2>2, GraphKept DEF FinishedInv, OnCycle
  <2>4. At(1) = Min(Left)
    BY <1>1 DEF FinishedInv, Searching
  <2>5. CASE k = 1
    <3>1. path' = <<>> /\ Min(Left) = u
      BY <1>k, <1>2, <2>4, <2>5
    <3> QED BY <1>5, <2>1, <2>3, <3>1 DEF FinishedInv
  <2>6. CASE k # 1
    <3>1. path' # <<>> /\ At(1)' = At(1)
      BY <1>2, <1>3, <2>6
    <3> QED BY <1>5, <2>1, <2>3, <2>4, <3>1 DEF FinishedInv
  <2> QED BY <2>5, <2>6
<1> QED BY <1>7, <1>8

\* What is cut from the path where the edge comes back to it is a cycle.
LEMMA FoundIsCycle == ASSUME PathInv, Found PROVE IsCycle(witness')
<1>k. PICK k, w, g : k = Len(path) /\ w = Next1 /\ g = Min(Depth(w))
  OBVIOUS
<1>1. /\ Searching /\ Top.todo # {} /\ Depth(w) # {}
      /\ witness' = [i \in 1 .. k - g + 1 |-> path[g + i - 1].node]
  BY <1>k DEF Found
<1>2. /\ k \in Nat \ {0} /\ w \in path[k].todo
      /\ \A i \in 1 .. k - 1 : At(i + 1) \in adj[At(i)]
      /\ path[k].todo \subseteq adj[At(k)]
  <2>1. k \in Nat \ {0} /\ w \in path[k].todo
    BY <1>k, <1>1, PathFacts
  <2>2. \A i \in 1 .. k - 1 : i \in 1 .. k /\ i < k
    BY <2>1
  <2>3. k \in 1 .. k
    BY <2>1
  <2> QED BY <1>k, <2>1, <2>2, <2>3 DEF PathInv
<1>3. g \in 1 .. k /\ At(g) = w
  <2>1. Depth(w) \in SUBSET Nat
    BY DEF Depth
  <2>2. g \in Depth(w)
    BY <1>k, <1>1, <2>1, MinOfNats
  <2> QED BY <1>k, <2>2 DEF Depth, At
<1>4. /\ Len(witness') = k - g + 1 /\ k - g + 1 \in Nat \ {0} /\ witness' # <<>>
      /\ \A i \in 1 .. k - g + 1 : witness'[i] = At(g + i - 1)
  <2>1. k - g + 1 \in Nat \ {0}
    BY <1>2, <1>3
  <2>2. \A i \in 1 .. k - g + 1 : witness'[i] = At(g + i - 1)
    BY <1>1 DEF At
  <2>3. Len(witness') = k - g + 1
    BY <1>1, <2>1
  <2> QED BY <2>1, <2>2, <2>3
<1>5. ASSUME NEW i \in 1 .. k - g + 1
      PROVE  witness'[IF i = Len(witness') THEN 1 ELSE i + 1] \in adj[witness'[i]]
  <2>1. CASE i = k - g + 1
    <3>1. witness'[i] = At(k) /\ witness'[1] = At(g)
      <4>1. g + i - 1 = k /\ g + 1 - 1 = g /\ 1 \in 1 .. k - g + 1
        BY <1>2, <1>3, <1>4, <2>1
      <4> QED BY <1>4, <4>1
    <3> QED BY <1>2, <1>3, <1>4, <2>1, <3>1
  <2>2. CASE i # k - g + 1
    <3>1. /\ i + 1 \in 1 .. k - g + 1 /\ g + i - 1 \in 1 .. k - 1
          /\ g + (i + 1) - 1 = (g + i - 1) + 1
      BY <1>2, <1>3, <2>2
    <3>2. witness'[i] = At(g + i - 1) /\ witness'[i + 1] = At((g + i - 1) + 1)
      BY <1>4, <3>1
    <3> QED BY <1>2, <1>4, <2>2, <3>1, <3>2
  <2> QED BY <2>1, <2>2
<1> QED BY <1>4, <1>5 DEF IsCycle

\* The search has come back to where it started without a cycle.
LEMMA RestIsAcyclic ==
  ASSUME FinishedInv, path = <<>>, NEW n \in Node, Reaches(Min(Left), n)
  PROVE  ~OnCycle(n)
<1>1. Finished \in SUBSET Node
  BY DEF Finished, Left
<1> QED BY <1>1, ReachesWithin DEF FinishedInv

LEMMA InitSearchInv == adj \in Graphs /\ TopoInit => SearchInv
BY InitKahnInv DEF TopoInit, SearchInv, WitnessOrRest

LEMMA NextSearchInv == SearchInv /\ [TopoNext]_<<adj, topoVars>> => SearchInv'
<1> SUFFICES ASSUME SearchInv, [TopoNext]_<<adj, topoVars>> PROVE SearchInv'
  OBVIOUS
<1>1. KahnInv' /\ KahnInv /\ WitnessOrRest
  BY NextKahnInv DEF SearchInv
<1>2. CASE Dequeue \/ Sorted
  BY <1>1, <1>2 DEF Dequeue, Sorted, SearchInv, WitnessOrRest
<1>3. CASE Stuck
  <2>1. phase' = "search"
    BY <1>3 DEF Stuck
  <2> QED BY <1>1, <1>3, <2>1, StuckSearchInv DEF SearchInv, WitnessOrRest
<1>4. CASE Skip \/ Descend \/ Backtrack
  <2>1. phase = "search" /\ phase' = "search"
    BY <1>4 DEF Skip, Descend, Backtrack, Searching
  <2>2. PathInv' /\ FinishedInv'
    BY <1>1, <1>4, <2>1, SkipSearchInv, DescendSearchInv, BacktrackSearchInv DEF SearchInv
  <2> QED BY <1>1, <2>1, <2>2 DEF SearchInv, WitnessOrRest
<1>5. CASE Found
  <2>1. phase = "search" /\ phase' = "cyclic"
    BY <1>5 DEF Found, Searching
  <2>2. IsCycle(witness')
    BY <1>5, <2>1, FoundIsCycle DEF SearchInv
  <2>3. IsCycle(witness)'
    BY <1>5, <2>2 DEF IsCycle, Found
  <2> QED BY <1>1, <2>1, <2>3 DEF SearchInv, WitnessOrRest
<1>6. CASE Rest
  <2>1. /\ phase = "search" /\ phase' = "rest" /\ path = <<>> /\ UNCHANGED <<adj, order>>
    BY <1>6 DEF Rest
  <2>2. \A n \in Node : Reaches(Min(Left), n) => ~OnCycle(n)
    BY <2>1, RestIsAcyclic DEF SearchInv
  <2>3. Left' = Left
    BY <2>1 DEF Left
  <2>4. \A n \in Node : Reaches(Min(Left), n)' => ~OnCycle(n)'
    BY <2>1, <2>2, <2>3, GraphKept DEF OnCycle
  <2> QED BY <1>1, <2>1, <2>4 DEF SearchInv, WitnessOrRest, Left
<1>7. CASE UNCHANGED <<adj, topoVars>>
  <2>1. UNCHANGED <<adj, order, phase, remaining, path, witness>>
    BY <1>7 DEF topoVars
  <2>2. WitnessOrRest'
    BY <1>1, <2>1, GraphKept DEF WitnessOrRest, IsCycle, OnCycle
  <2>3. phase = "search" => PathInv' /\ FinishedInv'
    BY <2>1, GraphKept DEF SearchInv, PathInv, FinishedInv, Finished, Left, At, Closed, OnCycle
  <2> QED BY <1>1, <2>1, <2>2, <2>3 DEF SearchInv
<1> QED BY <1>2, <1>3, <1>4, <1>5, <1>6, <1>7 DEF TopoNext

\* The inductive invariant of Kahn's loop and of the search behind it.
THEOREM SearchInvariance == TopoSpec => []SearchInv
<1> QED BY InitSearchInv, NextSearchInv, PTL DEF TopoSpec

\* A witness that TopoSort returns is a cycle of the graph, each node with an
\* edge to the next and the last to the first; where it returns the rest
\* instead, the node the search began at reaches no cycle.
THEOREM WitnessIsCycle == TopoSpec => []WitnessOrRest
<1>1. SearchInv => WitnessOrRest
  BY DEF SearchInv
<1> QED BY <1>1, SearchInvariance, PTL

-----------------------------------------------------------------------------
(***************************************************************************)
(* SCC: Tarjan's strongconnect.                                            *)
(***************************************************************************)

Calls   == 1 .. Len(frames)
Gray(i) == frames[i].node
Emitted == UNION Range(components)

\* The edges of n that a call for n has yet to look at, and all others.
Todo(n) == {m \in Node : \E i \in Calls : Gray(i) = n /\ m \in frames[i].todo}
Done(n) == adj[n] \ Todo(n)

SCCTypeOK ==
  /\ adj \in [Node -> SUBSET Node]
  /\ counter \in Nat
  /\ index \in [Node -> Nat \cup {-1}] /\ lowlink \in [Node -> Nat \cup {-1}]
  /\ stack \in Seq(Node)
  /\ components \in Seq(SUBSET Node)
  /\ frames \in Seq([node : Node, todo : SUBSET Node])

\* The stack and the calls are in the order in which nodes were first seen.
NumberedInv ==
  /\ \A n \in Node : Seen(n) => index[n] < counter
  /\ \A m, n \in Node : Seen(m) /\ index[m] = index[n] => m = n
  /\ \A i, j \in 1 .. Len(stack) : i < j => index[stack[i]] < index[stack[j]]
  /\ \A i, j \in Calls : i < j => index[Gray(i)] < index[Gray(j)]
  /\ \A i \in Calls : OnStack(Gray(i)) /\ frames[i].todo \subseteq adj[Gray(i)]

\* A node that has been seen is on the stack or in a component, never in both,
\* and so is the end of every edge that has been looked at.
PlacedInv ==
  \A n \in Node : /\ Seen(n) <=> OnStack(n) \/ n \in Emitted
                  /\ ~(OnStack(n) /\ n \in Emitted)
                  /\ Seen(n) => \A m \in Done(n) : Seen(m)

\* What has been taken from the stack are classes, and nothing leads out of them.
ClassInv ==
  /\ Closed(Emitted)
  /\ \A c \in Range(components) : \A n \in c : c = StrongClass(n)

\* A call reaches everything above its node on the stack, and everything on the
\* stack leads back to a call at or below it.
ReachInv ==
  /\ \A i \in Calls, n \in Range(stack) : index[Gray(i)] <= index[n] => Reaches(Gray(i), n)
  /\ \A n \in Range(stack) : \E i \in Calls : index[Gray(i)] <= index[n] /\ Reaches(n, Gray(i))

\* n was first seen under the call i and no later one that still goes on.
Under(i, n) == /\ index[Gray(i)] <= index[n]
               /\ i < Len(frames) => index[n] < index[Gray(i + 1)]

\* lowlink is reached, and it bounds every edge back into the stack that was
\* looked at under the call.
LowInv ==
  \A i \in Calls :
    /\ lowlink[Gray(i)] <= index[Gray(i)]
    /\ \E m \in Range(stack) : index[m] = lowlink[Gray(i)] /\ Reaches(Gray(i), m)
    /\ \A n \in Range(stack) : Under(i, n) =>
         \A m \in Done(n) : OnStack(m) => lowlink[Gray(i)] <= index[m]

SCCInv == SCCTypeOK /\ NumberedInv /\ PlacedInv /\ ClassInv /\ ReachInv /\ LowInv

\* The call at hand, and the list of calls with its next edge looked at.
LEMMA FrameFacts ==
  ASSUME SCCTypeOK, Calling
  PROVE  /\ Len(frames) \in Nat \ {0}
         /\ Frame = frames[Len(frames)] /\ Frame.node \in Node /\ Frame.todo \subseteq Node
         /\ Callers \in Seq([node : Node, todo : SUBSET Node])
         /\ Len(Callers) = Len(frames) - 1
         /\ \A i \in 1 .. Len(frames) - 1 : Callers[i] = frames[i]
         /\ Frame.todo # {} =>
              /\ Edge \in Frame.todo
              /\ Advanced \in Seq([node : Node, todo : SUBSET Node])
              /\ Len(Advanced) = Len(frames)
              /\ \A i \in 1 .. Len(frames) - 1 : Advanced[i] = frames[i]
              /\ Advanced[Len(frames)] = [node |-> Frame.node, todo |-> Frame.todo \ {Edge}]
<1> DEFINE F == [node : Node, todo : SUBSET Node]
<1>1. frames \in Seq(F) /\ frames # <<>>
  BY DEF SCCTypeOK, Calling
<1> HIDE DEF F
<1>2. Len(frames) \in Nat \ {0} /\ Frame \in F
  BY <1>1 DEF Frame
<1>3. /\ Callers \in Seq(F) /\ Len(Callers) = Len(frames) - 1
      /\ \A i \in 1 .. Len(frames) - 1 : Callers[i] = frames[i]
  <2>1. Len(frames) - 1 \in 0 .. Len(frames)
    BY <1>2
  <2> QED BY <1>1, <2>1, PrefixIs DEF Callers
<1> USE DEF F
<1>4. ASSUME Frame.todo # {} PROVE Edge \in Frame.todo
  BY <1>2, <1>4, MinOfNats, NodeAssumption DEF Edge
<1>5. [Frame EXCEPT !.todo = @ \ {Edge}] = [node |-> Frame.node, todo |-> Frame.todo \ {Edge}]
  <2>1. \A f \in F : \A w : [f EXCEPT !.todo = @ \ {w}] = [node |-> f.node, todo |-> f.todo \ {w}]
    OBVIOUS
  <2> QED BY <1>2, <2>1
<1>6. [node |-> Frame.node, todo |-> Frame.todo \ {Edge}] \in F
  BY <1>2
<1>7. /\ Advanced \in Seq(F) /\ Len(Advanced) = Len(frames)
      /\ \A i \in 1 .. Len(frames) - 1 : Advanced[i] = frames[i]
      /\ Advanced[Len(frames)] = [node |-> Frame.node, todo |-> Frame.todo \ {Edge}]
  BY <1>2, <1>3, <1>5, <1>6, AppendIs DEF Advanced
<1> QED BY <1>2, <1>3, <1>4, <1>7 DEF Frame

\* What holds of the calls in any state of the invariant.
LEMMA CallFacts ==
  ASSUME SCCInv
  PROVE  /\ Len(frames) \in Nat /\ Len(stack) \in Nat
         /\ \A i \in Calls : /\ Gray(i) \in Node /\ frames[i].todo \subseteq Node
                             /\ OnStack(Gray(i)) /\ Seen(Gray(i))
         /\ \A i, j \in Calls : Gray(i) = Gray(j) => i = j
         /\ \A n \in Range(stack) : n \in Node /\ Seen(n)
         /\ \A n \in Node : Seen(n) => index[n] \in Nat
         /\ Range(stack) = {stack[i] : i \in 1 .. Len(stack)}
<1>1. /\ frames \in Seq([node : Node, todo : SUBSET Node]) /\ stack \in Seq(Node)
      /\ index \in [Node -> Nat \cup {-1}]
  BY DEF SCCInv, SCCTypeOK
<1>2. Len(frames) \in Nat /\ Len(stack) \in Nat
  BY <1>1
<1>3. \A i \in Calls : frames[i] \in [node : Node, todo : SUBSET Node]
  <2> DEFINE F == [node : Node, todo : SUBSET Node]
  <2>1. frames \in Seq(F)
    BY <1>1
  <2> HIDE DEF F
  <2>2. \A i \in Calls : frames[i] \in F
    BY <2>1 DEF Calls
  <2> QED BY <2>2 DEF F
<1>4. \A n \in Range(stack) : n \in Node /\ Seen(n)
  BY <1>1, RangeIs DEF SCCInv, PlacedInv, OnStack
<1>5. \A i \in Calls : /\ Gray(i) \in Node /\ frames[i].todo \subseteq Node
                       /\ OnStack(Gray(i)) /\ Seen(Gray(i))
  BY <1>3, <1>4 DEF SCCInv, NumberedInv, Gray, OnStack
<1>6. \A n \in Node : Seen(n) => index[n] \in Nat
  BY <1>1 DEF Seen
<1>7. \A i, j \in Calls : Gray(i) = Gray(j) => i = j
  <2> SUFFICES ASSUME NEW i \in Calls, NEW j \in Calls, i < j PROVE Gray(i) # Gray(j)
    BY <1>2 DEF Calls
  <2>1. index[Gray(i)] < index[Gray(j)] /\ index[Gray(i)] \in Nat
    BY <1>5, <1>6 DEF SCCInv, NumberedInv
  <2> QED BY <2>1
<1>8. Range(stack) = {stack[i] : i \in 1 .. Len(stack)}
  BY <1>1, RangeIs
<1> QED BY <1>2, <1>4, <1>5, <1>6, <1>7, <1>8

-----------------------------------------------------------------------------
(* A node is seen for the first time.                                      *)

LEMMA VisitInv ==
  ASSUME SCCInv, NEW v \in Node, ~Seen(v),
         NEW rest \in Seq([node : Node, todo : SUBSET Node]), Len(rest) = Len(frames),
         \A i \in Calls : /\ rest[i].node = Gray(i) /\ Reaches(Gray(i), v)
                          /\ rest[i].todo \subseteq frames[i].todo
                          /\ frames[i].todo \subseteq rest[i].todo \cup {v},
         Visit(v, rest)
  PROVE  SCCInv'
<1> DEFINE F == [node : Node, todo : SUBSET Node]
           new == [node |-> v, todo |-> adj[v]]
<1>1. /\ adj \in [Node -> SUBSET Node] /\ counter \in Nat
      /\ index \in [Node -> Nat \cup {-1}] /\ lowlink \in [Node -> Nat \cup {-1}]
      /\ stack \in Seq(Node) /\ components \in Seq(SUBSET Node) /\ frames \in Seq(F)
      /\ NumberedInv /\ PlacedInv /\ ClassInv /\ ReachInv /\ LowInv
  BY DEF SCCInv, SCCTypeOK
<1>2. /\ adj' = adj /\ components' = components /\ counter' = counter + 1
      /\ index' = [index EXCEPT ![v] = counter] /\ lowlink' = [lowlink EXCEPT ![v] = counter]
      /\ stack' = Append(stack, v) /\ frames' = Append(rest, new)
  BY DEF Visit
<1>3. new \in F /\ Len(frames) \in Nat /\ Len(stack) \in Nat
  BY <1>1
<1>k. PICK k \in Nat \ {0} : k = Len(frames) + 1
  BY <1>3
<1>4. /\ frames' \in Seq(F) /\ Len(frames') = k
      /\ \A i \in Calls : frames'[i] = rest[i]
      /\ frames'[k] = new
  <2>1. rest \in Seq(F)
    OBVIOUS
  <2> HIDE DEF F, new
  <2>2. /\ Append(rest, new) \in Seq(F) /\ Len(Append(rest, new)) = Len(rest) + 1
        /\ \A i \in 1 .. Len(rest) : Append(rest, new)[i] = rest[i]
        /\ Append(rest, new)[Len(rest) + 1] = new
    BY <1>3, <2>1, AppendIs
  <2> QED BY <1>2, <1>k, <2>2 DEF Calls
<1>5. /\ stack' \in Seq(Node) /\ Len(stack') = Len(stack) + 1
      /\ \A i \in 1 .. Len(stack) : stack'[i] = stack[i]
      /\ stack'[Len(stack) + 1] = v
      /\ Range(stack') = Range(stack) \cup {v}
  BY <1>1, <1>2, AppendIs
<1>6. /\ index'[v] = counter /\ lowlink'[v] = counter
      /\ \A n \in Node : n # v => index'[n] = index[n] /\ lowlink'[n] = lowlink[n]
      /\ \A n \in Node : index[n] \in Int /\ lowlink[n] \in Int
  BY <1>1, <1>2
<1>7. /\ v \notin Range(stack) /\ v \notin Emitted
      /\ \A n \in Node : Seen(n)' <=> Seen(n) \/ n = v
      /\ \A n \in Node : Seen(n) => index'[n] = index[n] /\ index[n] < counter /\ n # v
  BY <1>1, <1>6 DEF PlacedInv, OnStack, Seen, NumberedInv
<1>8. /\ \A i \in Calls : Gray(i)' = Gray(i) /\ Gray(i) # v
      /\ Gray(k)' = v
      /\ \A i : i \in Calls' <=> i \in Calls \/ i = k
      /\ \A i \in Calls : i < Len(frames) => i + 1 \in Calls
  BY <1>3, <1>k, <1>4, <1>7, CallFacts DEF Gray, Calls
<1>9. /\ \A n \in Node : Done(n)' \subseteq Done(n) \cup {v}
      /\ Done(v)' = {}
  <2>1. ASSUME NEW n \in Node, NEW m \in Todo(n), m # v PROVE m \in Todo(n)'
    <3>1. PICK i \in Calls : Gray(i) = n /\ m \in frames[i].todo
      BY <2>1 DEF Todo
    <3>2. i \in Calls' /\ Gray(i)' = n /\ m \in frames'[i].todo
      BY <1>4, <1>8, <2>1, <3>1
    <3> QED BY <3>2 DEF Todo
  <2>2. ASSUME NEW m \in adj[v] PROVE m \in Todo(v)'
    <3>1. m \in Node /\ m \in frames'[k].todo
      BY <1>1, <1>4, <2>2
    <3> QED BY <1>8, <3>1 DEF Todo
  <2> QED BY <1>1, <1>2, <2>1, <2>2 DEF Done
<1>10. SCCTypeOK'
  BY <1>1, <1>2, <1>4, <1>5 DEF SCCTypeOK
<1>11. NumberedInv'
  <2>1. \A n \in Node : Seen(n)' => index'[n] < counter'
    BY <1>1, <1>2, <1>6, <1>7, CallFacts
  <2>2. \A m, n \in Node : Seen(m)' /\ index'[m] = index'[n] => m = n
    <3> SUFFICES ASSUME NEW m \in Node, NEW n \in Node, Seen(m)', index'[m] = index'[n], m # n
                 PROVE  FALSE
      OBVIOUS
    <3>1. CASE n = v
      BY <1>1, <1>6, <1>7, <3>1, CallFacts
    <3>2. CASE m = v
      <4>1. index[n] = counter /\ Seen(n)
        BY <1>1, <1>6, <3>2 DEF Seen
      <4> QED BY <1>1, <1>7, <4>1
    <3>3. CASE m # v /\ n # v
      BY <1>1, <1>6, <1>7, <3>3 DEF NumberedInv
    <3> QED BY <3>1, <3>2, <3>3
  <2>3. \A i, j \in 1 .. Len(stack') : i < j => index'[stack'[i]] < index'[stack'[j]]
    <3> SUFFICES ASSUME NEW i \in 1 .. Len(stack'), NEW j \in 1 .. Len(stack'), i < j
                 PROVE  index'[stack'[i]] < index'[stack'[j]]
      OBVIOUS
    <3>1. i \in 1 .. Len(stack) /\ stack[i] \in Range(stack)
      BY <1>3, <1>5, CallFacts
    <3>2. stack'[i] = stack[i] /\ index'[stack[i]] = index[stack[i]] /\ index[stack[i]] < counter
      BY <1>5, <1>7, <3>1, CallFacts
    <3>3. CASE j \in 1 .. Len(stack)
      <4>1. stack[j] \in Range(stack)
        BY <3>3, CallFacts
      <4>2. stack'[j] = stack[j] /\ index'[stack[j]] = index[stack[j]]
        BY <1>5, <1>7, <3>3, <4>1, CallFacts
      <4> QED BY <1>1, <3>1, <3>2, <3>3, <4>2 DEF NumberedInv
    <3>4. CASE j = Len(stack) + 1
      BY <1>5, <1>6, <3>2, <3>4
    <3> QED BY <1>3, <1>5, <3>3, <3>4
  <2>4. \A i, j \in Calls' : i < j => index'[Gray(i)'] < index'[Gray(j)']
    <3> SUFFICES ASSUME NEW i \in Calls', NEW j \in Calls', i < j
                 PROVE  index'[Gray(i)'] < index'[Gray(j)']
      OBVIOUS
    <3>1. i \in Calls
      BY <1>3, <1>8 DEF Calls
    <3>2. Gray(i)' = Gray(i) /\ index'[Gray(i)] = index[Gray(i)] /\ index[Gray(i)] < counter
      BY <1>7, <1>8, <3>1, CallFacts
    <3>3. CASE j \in Calls
      <4>1. Gray(j)' = Gray(j) /\ index'[Gray(j)] = index[Gray(j)]
        BY <1>7, <1>8, <3>3, CallFacts
      <4> QED BY <1>1, <3>1, <3>2, <3>3, <4>1 DEF NumberedInv
    <3>4. CASE j = k
      BY <1>6, <1>8, <3>2, <3>4
    <3> QED BY <1>8, <3>3, <3>4
  <2>5. \A i \in Calls' : OnStack(Gray(i))' /\ frames'[i].todo \subseteq adj'[Gray(i)']
    <3> SUFFICES ASSUME NEW i \in Calls'
                 PROVE  OnStack(Gray(i))' /\ frames'[i].todo \subseteq adj'[Gray(i)']
      OBVIOUS
    <3>1. CASE i \in Calls
      <4>1. OnStack(Gray(i)) /\ frames[i].todo \subseteq adj[Gray(i)]
        BY <1>1, <3>1 DEF NumberedInv
      <4>2. frames'[i].todo \subseteq frames[i].todo /\ Gray(i)' = Gray(i)
        BY <1>4, <1>8, <3>1
      <4> QED BY <1>2, <1>5, <4>1, <4>2 DEF OnStack
    <3>2. CASE i = k
      BY <1>2, <1>4, <1>5, <1>8, <3>2 DEF OnStack
    <3> QED BY <1>8, <3>1, <3>2
  <2> QED BY <2>1, <2>2, <2>3, <2>4, <2>5 DEF NumberedInv
<1>12. PlacedInv'
  <2> SUFFICES ASSUME NEW n \in Node
               PROVE  /\ Seen(n)' <=> OnStack(n)' \/ n \in Emitted'
                      /\ ~(OnStack(n)' /\ n \in Emitted')
                      /\ Seen(n)' => \A m \in Done(n)' : Seen(m)'
    BY DEF PlacedInv
  <2>1. Emitted' = Emitted
    BY <1>2 DEF Emitted
  <2>2. OnStack(n)' <=> OnStack(n) \/ n = v
    BY <1>5 DEF OnStack
  <2>3. Done(n)' \subseteq Node
    BY <1>1, <1>2 DEF Done
  <2> QED BY <1>1, <1>7, <1>9, <2>1, <2>2, <2>3 DEF PlacedInv
<1>13. ClassInv'
  <2>1. Emitted' = Emitted /\ Range(components') = Range(components)
    BY <1>2 DEF Emitted
  <2>2. Closed(Emitted)'
    BY <1>1, <1>2, <2>1 DEF ClassInv, Closed
  <2> QED BY <1>1, <1>2, <2>1, <2>2, GraphKept DEF ClassInv
<1>14. ReachInv'
  <2>1. ASSUME NEW i \in Calls', NEW n \in Range(stack'), index'[Gray(i)'] <= index'[n]
        PROVE  Reaches(Gray(i)', n)
    <3>1. CASE i \in Calls /\ n = v
      BY <1>8, <3>1
    <3>2. CASE i \in Calls /\ n \in Range(stack)
      BY <1>1, <1>7, <1>8, <2>1, <3>2, CallFacts DEF ReachInv
    <3>3. CASE i = k
      <4>1. n = v
        <5>1. counter <= index'[n]
          BY <1>6, <1>8, <2>1, <3>3
        <5>2. ASSUME n # v PROVE FALSE
          <6>1. n \in Range(stack) /\ n \in Node /\ Seen(n)
            BY <1>5, <5>2, CallFacts
          <6>2. index'[n] = index[n] /\ index[n] < counter /\ index[n] \in Int
            BY <1>6, <1>7, <6>1
          <6> QED BY <1>1, <5>1, <6>2
        <5> QED BY <5>2
      <4> QED BY <1>8, <3>3, <4>1, ReachesSelf
    <3> QED BY <1>5, <1>8, <3>1, <3>2, <3>3
  <2>2. ASSUME NEW n \in Range(stack')
        PROVE  \E i \in Calls' : index'[Gray(i)'] <= index'[n] /\ Reaches(n, Gray(i)')
    <3>1. CASE n = v
      <4>1. k \in Calls' /\ Gray(k)' = v
        BY <1>8
      <4>2. index'[v] <= index'[v]
        BY <1>1, <1>6
      <4> QED BY <3>1, <4>1, <4>2, ReachesSelf
    <3>2. CASE n \in Range(stack)
      <4>1. PICK i \in Calls : index[Gray(i)] <= index[n] /\ Reaches(n, Gray(i))
        BY <1>1, <3>2 DEF ReachInv
      <4> QED BY <1>7, <1>8, <3>2, <4>1, CallFacts
    <3> QED BY <1>5, <3>1, <3>2
  <2> QED BY <1>2, <2>1, <2>2, GraphKept DEF ReachInv
<1>15. LowInv'
  <2>1. ASSUME NEW i \in Calls
        PROVE  /\ lowlink'[Gray(i)'] <= index'[Gray(i)'] /\ lowlink'[Gray(i)'] < counter
               /\ \E m \in Range(stack') : index'[m] = lowlink'[Gray(i)'] /\ Reaches(Gray(i)', m)
    <3>1. Gray(i)' = Gray(i) /\ lowlink'[Gray(i)] = lowlink[Gray(i)] /\ index'[Gray(i)] = index[Gray(i)]
          /\ index[Gray(i)] < counter
      BY <1>6, <1>7, <1>8, CallFacts
    <3>2. PICK m \in Range(stack) : index[m] = lowlink[Gray(i)] /\ Reaches(Gray(i), m)
      BY <1>1 DEF LowInv
    <3>3. lowlink[Gray(i)] <= index[Gray(i)] /\ index'[m] = index[m] /\ index[m] \in Nat
      BY <1>1, <1>7, <3>2, CallFacts DEF LowInv
    <3>4. index[Gray(i)] \in Nat
      BY CallFacts
    <3> QED BY <1>1, <1>5, <3>1, <3>2, <3>3, <3>4
  <2>2. ASSUME NEW i \in Calls, NEW n \in Range(stack'), Under(i, n)',
               NEW m \in Done(n)', OnStack(m)'
        PROVE  lowlink'[Gray(i)'] <= index'[m]
    <3>1. n # v
      BY <1>9, <2>2
    <3>2. n \in Range(stack) /\ n \in Node /\ Seen(n)
      BY <1>5, <2>2, <3>1, CallFacts
    <3>3. Gray(i)' = Gray(i) /\ index'[Gray(i)] = index[Gray(i)] /\ lowlink'[Gray(i)] = lowlink[Gray(i)]
      BY <1>6, <1>7, <1>8, CallFacts
    <3>4. Under(i, n)
      <4>1. index[Gray(i)] <= index[n]
        BY <1>7, <2>2, <3>2, <3>3 DEF Under
      <4>2. ASSUME i < Len(frames) PROVE index[n] < index[Gray(i + 1)]
        <5>1. i + 1 \in Calls /\ i < Len(frames')
          BY <1>3, <1>4, <1>8, <4>2 DEF Calls
        <5>2. Gray(i + 1)' = Gray(i + 1) /\ index'[Gray(i + 1)] = index[Gray(i + 1)]
          BY <1>7, <1>8, <5>1, CallFacts
        <5> QED BY <1>7, <2>2, <3>2, <5>1, <5>2 DEF Under
      <4> QED BY <4>1, <4>2 DEF Under
    <3>5. CASE m = v
      <4>1. lowlink[Gray(i)] < counter
        BY <2>1, <3>3
      <4> QED BY <1>1, <1>6, <3>3, <3>5, <4>1, CallFacts
    <3>6. CASE m # v
      <4>1. m \in Done(n) /\ OnStack(m) /\ m \in Range(stack)
        BY <1>5, <1>9, <2>2, <3>2, <3>6 DEF OnStack
      <4>2. lowlink[Gray(i)] <= index[m]
        BY <1>1, <3>2, <3>4, <4>1 DEF LowInv
      <4> QED BY <1>7, <3>3, <4>1, <4>2, CallFacts
    <3> QED BY <3>5, <3>6
  <2>3. ASSUME NEW n \in Range(stack'), Under(k, n)' PROVE Done(n)' = {}
    <3>1. counter <= index'[n]
      BY <1>6, <1>8, <2>3 DEF Under
    <3>2. n = v
      BY <1>1, <1>5, <1>7, <3>1, CallFacts
    <3> QED BY <1>9, <3>2
  <2>4. /\ lowlink'[v] <= index'[v]
        /\ v \in Range(stack') /\ index'[v] = lowlink'[v] /\ Reaches(v, v)
    BY <1>1, <1>5, <1>6, ReachesSelf
  <2> QED BY <1>2, <1>8, <2>1, <2>2, <2>3, <2>4, GraphKept DEF LowInv
<1> QED BY <1>10, <1>11, <1>12, <1>13, <1>14, <1>15 DEF SCCInv

\* The first node of a tree: no call goes on.
LEMMA FromSCCInv == SCCInv /\ FromSCC => SCCInv'
<1> SUFFICES ASSUME SCCInv, FromSCC PROVE SCCInv'
  OBVIOUS
<1> DEFINE U == {n \in Node : ~Seen(n)}
<1>1. frames = <<>> /\ U # {} /\ Visit(Min(U), <<>>)
  BY DEF FromSCC
<1>2. Min(U) \in U
  <2>1. U \in SUBSET Nat
    BY NodeAssumption
  <2> HIDE DEF U
  <2> QED BY <1>1, <2>1, MinOfNats
<1>3. <<>> \in Seq([node : Node, todo : SUBSET Node]) /\ Len(<<>>) = Len(frames) /\ Calls = {}
  BY <1>1 DEF Calls
<1> QED BY <1>1, <1>2, <1>3, VisitInv

\* The edge that is followed leads from the node of the call at hand, which
\* all earlier calls reach.
LEMMA RecurseInv == SCCInv /\ Recurse => SCCInv'
<1> SUFFICES ASSUME SCCInv, Recurse PROVE SCCInv'
  OBVIOUS
<1>1. SCCTypeOK /\ Calling /\ Frame.todo # {} /\ ~Seen(Edge) /\ Visit(Edge, Advanced)
  BY DEF SCCInv, Recurse
<1> DEFINE top == Len(frames)
<1>2. /\ Edge \in Frame.todo /\ Frame = frames[top] /\ top \in Calls /\ Edge \in Node
      /\ Advanced \in Seq([node : Node, todo : SUBSET Node]) /\ Len(Advanced) = Len(frames)
  BY <1>1, FrameFacts DEF Calls
<1>3. ASSUME NEW i \in Calls
      PROVE  /\ Advanced[i].node = Gray(i)
             /\ Advanced[i].todo \subseteq frames[i].todo
             /\ frames[i].todo \subseteq Advanced[i].todo \cup {Edge}
  <2>1. i \in 1 .. Len(frames) - 1 \/ i = top
    BY CallFacts DEF Calls
  <2> QED BY <1>1, <1>2, <2>1, FrameFacts DEF Gray
<1>4. ASSUME NEW i \in Calls PROVE Reaches(Gray(i), Edge)
  <2>1. Edge \in adj[Gray(top)]
    BY <1>2 DEF SCCInv, NumberedInv, Gray
  <2>2. index[Gray(i)] <= index[Gray(top)] /\ Gray(top) \in Range(stack)
    <3>1. i < top \/ i = top
      BY <1>2, CallFacts DEF Calls
    <3>2. index[Gray(i)] \in Nat /\ index[Gray(top)] \in Nat
      BY <1>2, CallFacts
    <3> QED BY <1>2, <3>1, <3>2, CallFacts DEF SCCInv, NumberedInv, OnStack
  <2>3. Reaches(Gray(i), Gray(top))
    BY <2>2 DEF SCCInv, ReachInv
  <2> QED BY <1>2, <2>1, <2>3, ReachesEdge, ReachesOn, CallFacts
<1> QED BY <1>1, <1>2, <1>3, <1>4, VisitInv

-----------------------------------------------------------------------------
(* An edge to a node that has been seen.                                   *)

\* What the two kinds of edges have in common: one edge more is done, and the
\* lowlink of the node at hand falls at most.
LEMMA EdgeInv ==
  ASSUME SCCInv, Calling, Frame.todo # {}, Seen(Edge),
         UNCHANGED <<adj, counter, index, stack, components>>, frames' = Advanced,
         lowlink' \in [Node -> Nat \cup {-1}],
         \A n \in Node : n # Frame.node => lowlink'[n] = lowlink[n],
         lowlink'[Frame.node] <= lowlink[Frame.node],
         OnStack(Edge) => lowlink'[Frame.node] <= index[Edge],
         lowlink'[Frame.node] # lowlink[Frame.node] => OnStack(Edge) /\ lowlink'[Frame.node] = index[Edge]
  PROVE  SCCInv'
<1>k. PICK k \in Nat \ {0} : k = Len(frames)
  BY FrameFacts DEF SCCInv
<1>v. PICK v \in Node, w \in Node : v = Frame.node /\ w = Edge
  BY FrameFacts DEF SCCInv
<1>1. /\ SCCTypeOK /\ NumberedInv /\ PlacedInv /\ ClassInv /\ ReachInv /\ LowInv
      /\ \A n \in Node : index[n] \in Int /\ lowlink[n] \in Int /\ lowlink'[n] \in Int
  BY DEF SCCInv, SCCTypeOK
<1>2. /\ frames' \in Seq([node : Node, todo : SUBSET Node]) /\ Len(frames') = k
      /\ \A i \in 1 .. k - 1 : frames'[i] = frames[i]
      /\ frames'[k] = [node |-> v, todo |-> frames[k].todo \ {w}]
      /\ frames[k].node = v /\ w \in frames[k].todo
  BY <1>k, <1>v, <1>1, FrameFacts
<1>3. /\ Calls = 1 .. k /\ Calls' = 1 .. k /\ k \in Calls
      /\ \A i \in Calls : Gray(i)' = Gray(i) /\ frames'[i].todo \subseteq frames[i].todo
      /\ Gray(k) = v
      /\ \A i \in Calls : i # k => i < k /\ i + 1 \in Calls /\ Gray(i) # v
      /\ \A i \in Calls : ~(k < i)
  <2>1. Calls = 1 .. k /\ Calls' = 1 .. k /\ k \in Calls /\ Gray(k) = v
    BY <1>k, <1>2 DEF Calls, Gray
  <2>2. \A i \in Calls : i \in 1 .. k - 1 \/ i = k
    BY <2>1
  <2>3. \A i \in Calls : Gray(i)' = Gray(i) /\ frames'[i].todo \subseteq frames[i].todo
    BY <1>2, <2>2 DEF Gray
  <2>4. \A i \in Calls : i # k => i < k /\ i + 1 \in Calls /\ Gray(i) # v
    BY <2>1, CallFacts
  <2> QED BY <2>1, <2>3, <2>4
<1>4. /\ \A n \in Node : n # v => Done(n)' = Done(n)
      /\ Done(v)' \subseteq Done(v) \cup {w}
  <2>1. ASSUME NEW n \in Node, n # v PROVE Todo(n)' = Todo(n)
    <3>1. ASSUME NEW i \in Calls, Gray(i) = n PROVE frames'[i] = frames[i]
      BY <1>2, <1>3, <2>1, <3>1
    <3> QED BY <1>3, <3>1 DEF Todo
  <2>2. ASSUME NEW m \in Todo(v), m # w PROVE m \in Todo(v)'
    <3>1. PICK i \in Calls : Gray(i) = v /\ m \in frames[i].todo
      BY <2>2 DEF Todo
    <3>2. i = k
      BY <1>3, <3>1
    <3>3. m \in frames'[k].todo /\ m \in Node
      BY <1>2, <2>2, <3>1, <3>2 DEF Todo
    <3> QED BY <1>3, <3>3 DEF Todo
  <2> QED BY <2>1, <2>2 DEF Done
<1>5. SCCTypeOK' /\ NumberedInv'
  <2>1. SCCTypeOK'
    BY <1>1, <1>2 DEF SCCTypeOK
  <2>2. \A i \in Calls' : OnStack(Gray(i))' /\ frames'[i].todo \subseteq adj'[Gray(i)']
    BY <1>1, <1>3 DEF NumberedInv, OnStack
  <2>3. \A i, j \in Calls' : i < j => index'[Gray(i)'] < index'[Gray(j)']
    BY <1>1, <1>3 DEF NumberedInv
  <2> QED BY <1>1, <2>1, <2>2, <2>3 DEF NumberedInv, Seen
<1>6. PlacedInv'
  <2>1. Emitted' = Emitted /\ \A n : (Seen(n)' <=> Seen(n)) /\ (OnStack(n)' <=> OnStack(n))
    BY DEF Emitted, Seen, OnStack
  <2> QED BY <1>1, <1>v, <1>4, <2>1 DEF PlacedInv
<1>7. ClassInv'
  <2>1. Emitted' = Emitted /\ Closed(Emitted)'
    BY <1>1 DEF ClassInv, Closed, Emitted
  <2> QED BY <1>1, <2>1, GraphKept DEF ClassInv
<1>8. ReachInv'
  BY <1>1, <1>3, GraphKept DEF ReachInv
<1>9. LowInv'
  <2>1. ASSUME NEW i \in Calls
        PROVE  /\ lowlink'[Gray(i)] <= lowlink[Gray(i)] /\ lowlink'[Gray(i)] <= index[Gray(i)]
               /\ \E m \in Range(stack) : index[m] = lowlink'[Gray(i)] /\ Reaches(Gray(i), m)
    <3>1. /\ lowlink[Gray(i)] <= index[Gray(i)]
          /\ \E m \in Range(stack) : index[m] = lowlink[Gray(i)] /\ Reaches(Gray(i), m)
          /\ Gray(i) \in Node
      BY <1>1, CallFacts DEF LowInv
    <3>2. lowlink'[Gray(i)] <= lowlink[Gray(i)]
      BY <1>1, <1>v, <3>1
    <3>3. CASE lowlink'[Gray(i)] = lowlink[Gray(i)]
      BY <3>1, <3>2, <3>3
    <3>4. CASE lowlink'[Gray(i)] # lowlink[Gray(i)]
      <4>1. Gray(i) = v /\ OnStack(w) /\ lowlink'[v] = index[w]
        BY <1>v, <3>1, <3>4
      <4>2. Reaches(v, w)
        BY <1>1, <1>2, <1>3, ReachesEdge DEF NumberedInv
      <4>3. lowlink'[Gray(i)] <= index[Gray(i)]
        BY <1>1, <3>1, <3>2
      <4> QED BY <3>2, <4>1, <4>2, <4>3 DEF OnStack
    <3> QED BY <3>3, <3>4
  <2>2. ASSUME NEW i \in Calls, NEW n \in Range(stack), Under(i, n), NEW m \in Done(n)', OnStack(m)
        PROVE  lowlink'[Gray(i)] <= index[m]
    <3>1. n \in Node /\ m \in Node /\ Gray(i) \in Node
      BY <2>2, CallFacts DEF OnStack
    <3>2. CASE m \in Done(n)
      <4>1. lowlink[Gray(i)] <= index[m]
        BY <1>1, <2>2, <3>2 DEF LowInv
      <4> QED BY <1>1, <2>1, <3>1, <4>1
    <3>3. CASE n = v /\ m = w
      <4>1. i = k
        <5>1. ASSUME i # k PROVE FALSE
          <6>1. i < k /\ i + 1 \in Calls
            BY <1>3, <5>1
          <6>2. index[v] < index[Gray(i + 1)]
            BY <1>k, <2>2, <3>3, <6>1 DEF Under
          <6>3. index[Gray(i + 1)] <= index[v]
            <7>1. i + 1 = k \/ i + 1 < k
              BY <1>3, <6>1
            <7>2. i + 1 < k => index[Gray(i + 1)] < index[Gray(k)]
              BY <1>1, <1>3, <6>1 DEF NumberedInv
            <7> QED BY <1>1, <1>3, <6>1, <7>1, <7>2, CallFacts
          <6> QED BY <1>1, <6>1, <6>2, <6>3, CallFacts
        <5> QED BY <5>1
      <4> QED BY <1>v, <1>3, <2>2, <3>3, <4>1
    <3> QED BY <1>4, <2>2, <3>1, <3>2, <3>3
  <2>3. \A i, n : Under(i, n)' => (i \in Calls => Under(i, n))
    <3> SUFFICES ASSUME NEW i \in Calls, NEW n, Under(i, n)' PROVE Under(i, n)
      OBVIOUS
    <3>1. i < k => i + 1 \in Calls
      BY <1>3
    <3> QED BY <1>k, <1>2, <1>3, <3>1 DEF Under
  <2>4. ASSUME NEW i \in Calls'
        PROVE  /\ lowlink'[Gray(i)'] <= index'[Gray(i)']
               /\ \E m \in Range(stack') : index'[m] = lowlink'[Gray(i)'] /\ Reaches(Gray(i)', m)
               /\ \A n \in Range(stack') : Under(i, n)' =>
                    \A m \in Done(n)' : OnStack(m)' => lowlink'[Gray(i)'] <= index'[m]
    <3>1. i \in Calls /\ Gray(i)' = Gray(i)
      BY <1>3
    <3>2. \A m : OnStack(m)' <=> OnStack(m)
      BY DEF OnStack
    <3> QED BY <2>1, <2>2, <2>3, <3>1, <3>2
  <2> QED BY <2>4, GraphKept DEF LowInv
<1> QED BY <1>5, <1>6, <1>7, <1>8, <1>9 DEF SCCInv

LEMMA EdgesInv == SCCInv /\ (BackEdge \/ CrossEdge) => SCCInv'
<1> SUFFICES ASSUME SCCInv, BackEdge \/ CrossEdge PROVE SCCInv'
  OBVIOUS
<1>1. /\ lowlink \in [Node -> Nat \cup {-1}] /\ index \in [Node -> Nat \cup {-1}]
      /\ Calling /\ Frame.todo # {} /\ Seen(Edge) /\ Frame.node \in Node /\ Edge \in Node
  BY FrameFacts DEF SCCInv, SCCTypeOK, BackEdge, CrossEdge
<1>2. CASE BackEdge
  <2>1. /\ lowlink' = [lowlink EXCEPT ![Frame.node] = IF index[Edge] < @ THEN index[Edge] ELSE @]
        /\ OnStack(Edge) /\ frames' = Advanced /\ UNCHANGED <<adj, counter, index, stack, components>>
    BY <1>2 DEF BackEdge, Lower
  <2>2. /\ lowlink' \in [Node -> Nat \cup {-1}]
        /\ \A n \in Node : n # Frame.node => lowlink'[n] = lowlink[n]
        /\ lowlink'[Frame.node] = IF index[Edge] < lowlink[Frame.node] THEN index[Edge]
                                  ELSE lowlink[Frame.node]
    BY <1>1, <2>1
  <2>3. /\ lowlink'[Frame.node] <= lowlink[Frame.node] /\ lowlink'[Frame.node] <= index[Edge]
    BY <1>1, <2>2
  <2> QED BY <1>1, <2>1, <2>2, <2>3, EdgeInv
<1>3. CASE CrossEdge
  BY <1>1, <1>3, EdgeInv DEF CrossEdge
<1> QED BY <1>2, <1>3

-----------------------------------------------------------------------------
(* A call returns.                                                         *)

\* The list of calls without the last one, which has nothing left to do.
LEMMA CallersFacts ==
  ASSUME SCCInv, Calling, Frame.todo = {}, UNCHANGED adj, frames' = Callers, NEW k, k = Len(frames)
  PROVE  /\ k \in Nat \ {0} /\ k \in Calls /\ Frame.node = Gray(k)
         /\ Calls = 1 .. k /\ Calls' = 1 .. k - 1 /\ Len(frames') = k - 1
         /\ frames' \in Seq([node : Node, todo : SUBSET Node])
         /\ \A i \in 1 .. k - 1 : frames'[i] = frames[i] /\ Gray(i)' = Gray(i) /\ i \in Calls
         /\ \A n \in Node : Done(n)' = Done(n)
         /\ Done(Gray(k)) = adj[Gray(k)]
<1>1. /\ k \in Nat \ {0} /\ Frame = frames[k] /\ Len(frames') = k - 1
      /\ frames' \in Seq([node : Node, todo : SUBSET Node])
      /\ \A i \in 1 .. k - 1 : frames'[i] = frames[i]
  BY FrameFacts DEF SCCInv
<1>2. Calls = 1 .. k /\ Calls' = 1 .. k - 1 /\ k \in Calls
  BY <1>1 DEF Calls
<1>3. \A i \in 1 .. k - 1 : Gray(i)' = Gray(i) /\ i \in Calls
  BY <1>1, <1>2 DEF Gray
<1>4. ASSUME NEW n \in Node PROVE Todo(n)' = Todo(n)
  <2>1. \A i \in Calls : i \in 1 .. k - 1 \/ i = k
    BY <1>2
  <2> QED BY SMTT(30), <1>1, <1>2, <1>3, <2>1 DEF Todo
<1>5. Todo(Gray(k)) = {}
  BY <1>1, <1>2, CallFacts DEF Todo
<1> QED BY <1>1, <1>2, <1>3, <1>4, <1>5 DEF Done, Gray

\* Popping the stack down to v takes off what was seen since v.
LEMMA StackCut ==
  ASSUME SCCInv, NEW v \in Range(stack)
  PROVE  /\ Popped(v) = {n \in Range(stack) : index[v] <= index[n]}
         /\ SubSeq(stack, 1, Position(v) - 1) \in Seq(Node)
         /\ Range(SubSeq(stack, 1, Position(v) - 1)) = {n \in Range(stack) : index[n] < index[v]}
         /\ Len(SubSeq(stack, 1, Position(v) - 1)) \in 0 .. Len(stack)
         /\ \A i \in 1 .. Len(SubSeq(stack, 1, Position(v) - 1)) :
              SubSeq(stack, 1, Position(v) - 1)[i] = stack[i]
<1> DEFINE q == Position(v)
<1>1. /\ stack \in Seq(Node) /\ Len(stack) \in Nat
      /\ Range(stack) = {stack[i] : i \in 1 .. Len(stack)}
      /\ \A i, j \in 1 .. Len(stack) : i < j => index[stack[i]] < index[stack[j]]
      /\ \A i \in 1 .. Len(stack) : index[stack[i]] \in Nat
  BY CallFacts DEF SCCInv, SCCTypeOK, NumberedInv
<1>2. q \in 1 .. Len(stack) /\ stack[q] = v
  <2>1. \E i \in 1 .. Len(stack) : stack[i] = v
    BY <1>1
  <2> QED BY <2>1 DEF Position
<1> HIDE DEF q
<1>3. \A i \in 1 .. Len(stack) : (q <= i <=> index[v] <= index[stack[i]])
                               /\ (i < q <=> index[stack[i]] < index[v])
  <2> SUFFICES ASSUME NEW i \in 1 .. Len(stack)
               PROVE  (q <= i <=> index[v] <= index[stack[i]]) /\ (i < q <=> index[stack[i]] < index[v])
    OBVIOUS
  <2>1. index[v] \in Nat /\ index[stack[i]] \in Nat
    BY <1>1, <1>2
  <2>2. CASE i < q
    BY <1>1, <1>2, <2>1, <2>2
  <2>3. CASE i = q
    BY <1>1, <1>2, <2>1, <2>3
  <2>4. CASE q < i
    BY <1>1, <1>2, <2>1, <2>4
  <2> QED BY <1>1, <1>2, <2>2, <2>3, <2>4
<1>4. Popped(v) = {n \in Range(stack) : index[v] <= index[n]}
  <2>1. Popped(v) = {stack[i] : i \in q .. Len(stack)}
    BY DEF Popped, q
  <2>2. \A i \in q .. Len(stack) : i \in 1 .. Len(stack) /\ q <= i
    BY <1>1, <1>2
  <2>3. \A i \in 1 .. Len(stack) : q <= i => i \in q .. Len(stack)
    BY <1>1, <1>2
  <2> QED BY <1>1, <1>3, <2>1, <2>2, <2>3
<1>5. q - 1 \in 0 .. Len(stack)
  BY <1>1, <1>2
<1>6. /\ SubSeq(stack, 1, q - 1) \in Seq(Node) /\ Len(SubSeq(stack, 1, q - 1)) = q - 1
      /\ \A i \in 1 .. q - 1 : SubSeq(stack, 1, q - 1)[i] = stack[i]
      /\ Range(SubSeq(stack, 1, q - 1)) = {stack[i] : i \in 1 .. q - 1}
  BY <1>1, <1>5, PrefixIs
<1>7. {stack[i] : i \in 1 .. q - 1} = {n \in Range(stack) : index[n] < index[v]}
  <2>1. \A i \in 1 .. q - 1 : i \in 1 .. Len(stack) /\ i < q
    BY <1>1, <1>2
  <2>2. \A i \in 1 .. Len(stack) : i < q => i \in 1 .. q - 1
    BY <1>1, <1>2
  <2> QED BY <1>1, <1>3, <2>1, <2>2
<1> QED BY <1>4, <1>5, <1>6, <1>7 DEF q

\* Where the call at hand is the first one to be under a node, the edges back
\* from the node do not lead below its lowlink.
LEMMA UnderTop ==
  ASSUME SCCInv, NEW n \in Range(stack), NEW k, k = Len(frames), k \in Calls,
         index[Gray(k)] <= index[n], NEW m \in Done(n), OnStack(m)
  PROVE  lowlink[Gray(k)] <= index[m]
<1>1. ~(k < Len(frames))
  BY CallFacts
<1> QED BY <1>1 DEF SCCInv, LowInv, Under

\* The lowlinks of the calls that go on.
LEMMA ReturnLow ==
  ASSUME SCCInv, Return, NEW k, k = Len(frames)
  PROVE  /\ lowlink' \in [Node -> Nat \cup {-1}]
         /\ \A i \in 1 .. k - 1 : i # k - 1 => lowlink'[Gray(i)] = lowlink[Gray(i)]
         /\ k # 1 => lowlink'[Gray(k - 1)] = IF lowlink[Gray(k)] < lowlink[Gray(k - 1)]
                                             THEN lowlink[Gray(k)] ELSE lowlink[Gray(k - 1)]
<1>1. /\ k \in Nat \ {0} /\ Frame.node = Gray(k) /\ lowlink \in [Node -> Nat \cup {-1}]
      /\ \A i \in 1 .. k : i \in Calls /\ Gray(i) \in Node
  BY CallersFacts, CallFacts DEF Return, SCCInv, SCCTypeOK
<1>2. Callers = <<>> <=> k = 1
  <2>1. Len(Callers) = k - 1 /\ Callers \in Seq([node : Node, todo : SUBSET Node])
    BY FrameFacts DEF Return, SCCInv
  <2> QED BY <1>1, <2>1
<1>3. CASE k = 1
  BY <1>1, <1>2, <1>3 DEF Return
<1>4. CASE k # 1
  <2>1. Callers[Len(Callers)].node = Gray(k - 1) /\ k - 1 \in 1 .. k - 1
    BY <1>1, <1>4, FrameFacts DEF Return, SCCInv, Gray
  <2>2. lowlink' = [lowlink EXCEPT ![Gray(k - 1)] = IF lowlink[Gray(k)] < @ THEN lowlink[Gray(k)] ELSE @]
    BY <1>1, <1>2, <1>4, <2>1 DEF Return, Lower
  <2>3. \A i \in 1 .. k - 1 : i # k - 1 => Gray(i) # Gray(k - 1)
    BY <1>1, <1>4, CallFacts
  <2> QED BY <1>1, <1>4, <2>1, <2>2, <2>3
<1> QED BY <1>3, <1>4

\* v is not the root of its class: it leads back to an earlier call, and so
\* does all that led back to v.
LEMMA ReturnInnerInv ==
  ASSUME SCCInv, Return, lowlink[Frame.node] # index[Frame.node]
  PROVE  SCCInv'
<1>1. /\ SCCTypeOK /\ NumberedInv /\ PlacedInv /\ ClassInv /\ ReachInv /\ LowInv
      /\ Calling /\ Frame.todo = {} /\ frames' = Callers
      /\ UNCHANGED <<adj, counter, index, stack, components>>
      /\ \A n \in Node : index[n] \in Int /\ lowlink[n] \in Int
  BY DEF SCCInv, SCCTypeOK, Return
<1>k. PICK k, v : k = Len(frames) /\ v = Gray(k)
  OBVIOUS
<1>2. /\ k \in Nat \ {0} /\ k \in Calls /\ Frame.node = v
      /\ Calls = 1 .. k /\ Calls' = 1 .. k - 1 /\ Len(frames') = k - 1
      /\ frames' \in Seq([node : Node, todo : SUBSET Node])
      /\ \A i \in 1 .. k - 1 : frames'[i] = frames[i] /\ Gray(i)' = Gray(i) /\ i \in Calls
      /\ \A n \in Node : Done(n)' = Done(n)
      /\ v \in Node /\ v \in Range(stack)
      /\ \A i \in 1 .. k - 1 : index[Gray(i)] < index[v] /\ Gray(i) \in Node
  <2>1. /\ k \in Nat \ {0} /\ k \in Calls /\ Frame.node = v
        /\ Calls = 1 .. k /\ Calls' = 1 .. k - 1 /\ Len(frames') = k - 1
        /\ frames' \in Seq([node : Node, todo : SUBSET Node])
        /\ \A i \in 1 .. k - 1 : frames'[i] = frames[i] /\ Gray(i)' = Gray(i) /\ i \in Calls
        /\ \A n \in Node : Done(n)' = Done(n)
    BY <1>1, <1>k, CallersFacts
  <2>2. \A i \in 1 .. k - 1 : i < k
    BY <2>1
  <2>3. v \in Node /\ v \in Range(stack)
    BY <1>k, <2>1, CallFacts DEF OnStack
  <2>4. \A i \in 1 .. k - 1 : index[Gray(i)] < index[v] /\ Gray(i) \in Node
    BY <1>1, <1>k, <2>1, <2>2, CallFacts DEF NumberedInv
  <2> QED BY <2>1, <2>3, <2>4
<1>3. /\ lowlink' \in [Node -> Nat \cup {-1}]
      /\ \A i \in 1 .. k - 1 : i # k - 1 => lowlink'[Gray(i)] = lowlink[Gray(i)]
      /\ k # 1 => lowlink'[Gray(k - 1)] = IF lowlink[v] < lowlink[Gray(k - 1)]
                                          THEN lowlink[v] ELSE lowlink[Gray(k - 1)]
  BY <1>k, ReturnLow
\* The way back.
<1>4. PICK m \in Range(stack) : index[m] = lowlink[v] /\ Reaches(v, m) /\ index[m] < index[v]
  <2>1. lowlink[v] < index[v]
    BY <1>1, <1>k, <1>2 DEF LowInv
  <2> QED BY SMTT(30), <1>1, <1>k, <1>2, <2>1 DEF LowInv
<1>5. PICK b \in Calls : index[Gray(b)] <= index[m] /\ Reaches(m, Gray(b))
  BY <1>1, <1>4 DEF ReachInv
<1>6. b \in 1 .. k - 1 /\ k # 1 /\ Reaches(v, Gray(b)) /\ index[Gray(b)] < index[v]
  <2>1. index[Gray(b)] < index[v]
    BY <1>1, <1>2, <1>4, <1>5, CallFacts
  <2>2. b # k
    BY <1>1, <1>k, <1>2, <2>1
  <2> QED BY <1>2, <1>4, <1>5, <2>1, <2>2, ReachesOn, CallFacts
<1>7. SCCTypeOK' /\ NumberedInv'
  <2>1. SCCTypeOK'
    BY <1>1, <1>2, <1>3 DEF SCCTypeOK
  <2>2. \A i, j \in Calls' : i < j => index'[Gray(i)'] < index'[Gray(j)']
    BY <1>1, <1>2 DEF NumberedInv
  <2>3. ASSUME NEW i \in Calls' PROVE OnStack(Gray(i))' /\ frames'[i].todo \subseteq adj'[Gray(i)']
    <3>1. i \in Calls /\ Gray(i)' = Gray(i) /\ frames'[i] = frames[i]
      BY <1>2
    <3>2. OnStack(Gray(i)) /\ frames[i].todo \subseteq adj[Gray(i)]
      BY <1>1, <3>1 DEF NumberedInv
    <3> QED BY <1>1, <3>1, <3>2 DEF OnStack
  <2> QED BY <1>1, <2>1, <2>2, <2>3 DEF NumberedInv, Seen
<1>8. PlacedInv' /\ ClassInv'
  <2>1. Emitted' = Emitted /\ \A n : (Seen(n)' <=> Seen(n)) /\ (OnStack(n)' <=> OnStack(n))
    BY <1>1 DEF Emitted, Seen, OnStack
  <2>2. PlacedInv'
    BY <1>1, <1>2, <2>1 DEF PlacedInv
  <2>3. Closed(Emitted)'
    BY <1>1, <2>1 DEF ClassInv, Closed
  <2> QED BY <1>1, <2>2, <2>3, GraphKept DEF ClassInv
<1>9. ReachInv'
  <2>1. ASSUME NEW n \in Range(stack)
        PROVE  \E i \in 1 .. k - 1 : index[Gray(i)] <= index[n] /\ Reaches(n, Gray(i))
    <3>1. PICK i \in Calls : index[Gray(i)] <= index[n] /\ Reaches(n, Gray(i))
      BY <1>1 DEF ReachInv
    <3>2. CASE i # k
      BY <1>2, <3>1, <3>2
    <3>3. CASE i = k
      <4>1. index[Gray(b)] <= index[n]
        BY SMTT(30), <1>1, <1>k, <1>2, <1>6, <3>1, <3>3, CallFacts
      <4>2. Reaches(n, Gray(b))
        BY <1>k, <1>2, <1>6, <3>1, <3>3, ReachesOn, CallFacts
      <4> QED BY <1>6, <4>1, <4>2
    <3> QED BY <3>2, <3>3
  <2>2. \A i \in 1 .. k - 1, n \in Range(stack) : index[Gray(i)] <= index[n] => Reaches(Gray(i), n)
    BY <1>1, <1>2 DEF ReachInv
  <2>3. ASSUME NEW i \in Calls', NEW n \in Range(stack'), index'[Gray(i)'] <= index'[n]
        PROVE  Reaches(Gray(i)', n)
    BY <1>1, <1>2, <2>2, <2>3
  <2>4. ASSUME NEW n \in Range(stack')
        PROVE  \E i \in Calls' : index'[Gray(i)'] <= index'[n] /\ Reaches(n, Gray(i)')
    <3>1. PICK i \in 1 .. k - 1 : index[Gray(i)] <= index[n] /\ Reaches(n, Gray(i))
      BY <1>1, <2>1
    <3> QED BY <1>1, <1>2, <3>1
  <2> QED BY <1>1, <2>3, <2>4, GraphKept DEF ReachInv
<1>10. LowInv'
  <2>1. ASSUME NEW i \in 1 .. k - 1
        PROVE  /\ lowlink'[Gray(i)] <= lowlink[Gray(i)] /\ lowlink'[Gray(i)] <= index[Gray(i)]
               /\ \E l \in Range(stack) : index[l] = lowlink'[Gray(i)] /\ Reaches(Gray(i), l)
    <3>1. /\ lowlink[Gray(i)] <= index[Gray(i)]
          /\ \E l \in Range(stack) : index[l] = lowlink[Gray(i)] /\ Reaches(Gray(i), l)
          /\ Gray(i) \in Node /\ lowlink'[Gray(i)] \in Int
      BY <1>1, <1>2, <1>3 DEF LowInv
    <3>2. CASE lowlink'[Gray(i)] = lowlink[Gray(i)]
      BY <1>1, <3>1, <3>2
    <3>3. CASE i = k - 1 /\ lowlink[v] < lowlink[Gray(i)] /\ lowlink'[Gray(i)] = lowlink[v]
      <4>1. index[Gray(i)] <= index[v]
        BY <1>1, <1>2
      <4>2. Reaches(Gray(i), v)
        BY <1>1, <1>2, <4>1 DEF ReachInv
      <4>3. Reaches(Gray(i), m)
        BY <1>2, <1>4, <3>1, <4>2, ReachesOn, CallFacts
      <4> QED BY <1>1, <1>2, <1>4, <3>1, <3>3, <4>3
    <3> QED BY <1>3, <1>6, <3>2, <3>3
  <2>2. ASSUME NEW i \in 1 .. k - 1, NEW n \in Range(stack), index[Gray(i)] <= index[n],
               i < k - 1 => index[n] < index[Gray(i + 1)], NEW l \in Done(n), OnStack(l)
        PROVE  lowlink'[Gray(i)] <= index[l]
    <3>0. n \in Node /\ l \in Node /\ Gray(i) \in Node /\ index[n] \in Int /\ index[l] \in Int
          /\ lowlink'[Gray(i)] \in Int /\ lowlink[Gray(i)] \in Int /\ lowlink[v] \in Int
      BY SMTT(30), ZenonT(60), <1>1, <1>2, <1>3, <2>2, CallFacts DEF OnStack
    <3>1. CASE i < Len(frames) => index[n] < index[Gray(i + 1)]
      <4>1. lowlink[Gray(i)] <= index[l]
        BY <1>1, <1>2, <2>2, <3>1 DEF LowInv, Under
      <4> QED BY <2>1, <3>0, <4>1
    <3>2. CASE i = k - 1 /\ index[v] <= index[n]
      <4>1. lowlink[v] <= index[l]
        BY <1>k, <1>2, <2>2, <3>2, UnderTop
      <4>2. lowlink'[Gray(i)] <= lowlink[v]
        BY <1>3, <1>6, <3>0, <3>2
      <4> QED BY <3>0, <4>1, <4>2
    <3>3. i = k - 1 => Gray(i + 1) = v
      BY <1>k, <1>2
    <3> QED BY <1>1, <1>k, <1>2, <2>2, <3>0, <3>1, <3>2, <3>3
  <2>3. ASSUME NEW i \in Calls'
        PROVE  /\ lowlink'[Gray(i)'] <= index'[Gray(i)']
               /\ \E l \in Range(stack') : index'[l] = lowlink'[Gray(i)'] /\ Reaches(Gray(i)', l)
               /\ \A n \in Range(stack') : Under(i, n)' =>
                    \A l \in Done(n)' : OnStack(l)' => lowlink'[Gray(i)'] <= index'[l]
    <3>1. /\ i \in 1 .. k - 1 /\ Gray(i)' = Gray(i)
          /\ i < k - 1 => Gray(i + 1)' = Gray(i + 1)
      BY <1>2
    <3>2. \A l : OnStack(l)' <=> OnStack(l)
      BY <1>1 DEF OnStack
    <3>4. /\ lowlink'[Gray(i)'] <= index'[Gray(i)']
          /\ \E l \in Range(stack') : index'[l] = lowlink'[Gray(i)'] /\ Reaches(Gray(i)', l)
      BY <1>1, <2>1, <3>1
    <3>5. ASSUME NEW n \in Range(stack'), Under(i, n)', NEW l \in Done(n)', OnStack(l)'
          PROVE  lowlink'[Gray(i)'] <= index'[l]
      <4>1. n \in Range(stack) /\ n \in Node /\ l \in Done(n) /\ OnStack(l)
        BY <1>1, <1>2, <3>2, <3>5, CallFacts
      <4>2. index[Gray(i)] <= index[n] /\ (i < k - 1 => index[n] < index[Gray(i + 1)])
        BY <1>1, <1>2, <3>1, <3>5 DEF Under
      <4> QED BY <1>1, <2>2, <3>1, <4>1, <4>2
    <3> QED BY <3>4, <3>5
  <2> QED BY <2>3, <1>1, GraphKept DEF LowInv
<1> QED BY <1>7, <1>8, <1>9, <1>10 DEF SCCInv

\* v is the root of its class, and the class is what was seen since v: all of
\* it leads back to a call at or above v, hence to v, and no edge leads from it
\* to what is below on the stack.
LEMMA RootClass ==
  ASSUME SCCInv, Return, lowlink[Frame.node] = index[Frame.node],
         NEW S, S = {n \in Range(stack) : index[Frame.node] <= index[n]}
  PROVE  /\ S \in SUBSET Node
         /\ \A n \in S : S = StrongClass(n)
         /\ Closed(Emitted \cup S)
<1>1. /\ PlacedInv /\ ClassInv /\ ReachInv /\ LowInv /\ NumberedInv /\ adj \in [Node -> SUBSET Node]
      /\ components \in Seq(SUBSET Node)
      /\ Calling /\ Frame.todo = {} /\ frames' = Callers /\ UNCHANGED adj
      /\ \A n \in Node : index[n] \in Int
  BY DEF SCCInv, SCCTypeOK, Return
<1>k. PICK k, v : k = Len(frames) /\ v = Gray(k)
  OBVIOUS
<1>2. /\ k \in Nat \ {0} /\ k \in Calls /\ Frame.node = v /\ Calls = 1 .. k
      /\ Done(v) = adj[v]
  BY <1>1, <1>k, CallersFacts
<1>3. /\ v \in Node /\ OnStack(v) /\ v \in S /\ S \subseteq Range(stack) /\ S \subseteq Node
      /\ \A n \in S : index[v] <= index[n]
  BY <1>1, <1>k, <1>2, CallFacts DEF OnStack
<1>4. Emitted \in SUBSET Node
  BY <1>1, RangeIs DEF Emitted
<1>5. ASSUME NEW n \in S, NEW m \in adj[n] PROVE m \in Emitted \cup S
  <2>1. n \in Node /\ m \in Node /\ n \in Range(stack) /\ OnStack(n) /\ Seen(n)
    BY <1>1, <1>3, <1>5, CallFacts DEF OnStack
  <2>2. m \in Done(n)
    <3>1. ASSUME NEW i \in Calls, Gray(i) = n PROVE i = k
      <4>1. ASSUME i < k PROVE FALSE
        <5>1. index[n] < index[v]
          BY <1>1, <1>k, <1>2, <3>1, <4>1 DEF NumberedInv
        <5> QED BY <1>1, <1>3, <2>1, <5>1
      <4> QED BY <1>2, <4>1
    <3>2. CASE n = v
      BY <1>2, <1>5, <3>2
    <3>3. CASE n # v
      BY <1>k, <1>5, <3>1, <3>3 DEF Done, Todo
    <3> QED BY <3>2, <3>3
  <2>3. Seen(m)
    BY <1>1, <2>1, <2>2 DEF PlacedInv
  <2>4. CASE m \in Emitted
    BY <2>4
  <2>5. CASE OnStack(m)
    <3>1. lowlink[v] <= index[m]
      BY <1>k, <1>2, <1>3, <2>1, <2>2, <2>5, UnderTop
    <3> QED BY <1>2, <2>5, <3>1 DEF OnStack
  <2> QED BY <1>1, <2>1, <2>3, <2>4, <2>5 DEF PlacedInv
<1>6. Closed(Emitted \cup S)
  BY <1>1, <1>5 DEF ClassInv, Closed
<1>7. ASSUME NEW n \in S PROVE Reaches(v, n) /\ Reaches(n, v)
  <2>1. Reaches(v, n)
    BY <1>1, <1>k, <1>2, <1>3 DEF ReachInv
  <2>2. PICK i \in Calls : index[Gray(i)] <= index[n] /\ Reaches(n, Gray(i))
    BY <1>1, <1>3 DEF ReachInv
  <2>3. index[Gray(i)] <= index[v] /\ Gray(i) \in Node
    <3>1. i < k \/ i = k
      BY <1>2
    <3>2. i < k => index[Gray(i)] < index[v]
      BY <1>1, <1>k, <1>2 DEF NumberedInv
    <3> QED BY <1>1, <1>k, <1>3, <3>1, <3>2, CallFacts
  <2>4. Reaches(Gray(i), v)
    BY <1>1, <1>3, <2>3 DEF ReachInv, OnStack
  <2> QED BY <1>3, <2>1, <2>2, <2>3, <2>4, ReachesOn
<1>8. StrongClass(v) = S
  <2>1. S \subseteq StrongClass(v)
    BY <1>3, <1>7 DEF StrongClass
  <2>2. ASSUME NEW m \in StrongClass(v) PROVE m \in S
    <3>1. m \in Node /\ Reaches(v, m) /\ Reaches(m, v)
      BY <2>2 DEF StrongClass
    <3>2. m \in Emitted \cup S
      BY <1>3, <1>4, <1>6, <3>1, ReachesWithin
    <3>3. m \notin Emitted
      <4>1. ASSUME m \in Emitted PROVE v \in Emitted
        BY <1>1, <1>3, <1>4, <3>1, <4>1, ReachesWithin DEF ClassInv
      <4> QED BY <1>1, <1>3, <4>1 DEF PlacedInv
    <3> QED BY <3>2, <3>3
  <2> QED BY <2>1, <2>2
<1>9. \A n \in S : StrongClass(n) = S
  BY <1>3, <1>7, <1>8, SameClass
<1> QED BY <1>3, <1>6, <1>9

\* The class is taken from the stack.
LEMMA ReturnRootInv ==
  ASSUME SCCInv, Return, lowlink[Frame.node] = index[Frame.node]
  PROVE  SCCInv'
<1>1. /\ SCCTypeOK /\ NumberedInv /\ PlacedInv /\ ClassInv /\ ReachInv /\ LowInv
      /\ Calling /\ Frame.todo = {} /\ frames' = Callers
      /\ UNCHANGED <<adj, counter, index>>
      /\ components' = Append(components, Popped(Frame.node))
      /\ stack' = SubSeq(stack, 1, Position(Frame.node) - 1)
      /\ \A n \in Node : index[n] \in Int /\ lowlink[n] \in Int
  BY DEF SCCInv, SCCTypeOK, Return
<1>k. PICK k, v : k = Len(frames) /\ v = Gray(k)
  OBVIOUS
<1>2. /\ k \in Nat \ {0} /\ k \in Calls /\ Frame.node = v
      /\ Calls = 1 .. k /\ Calls' = 1 .. k - 1 /\ Len(frames') = k - 1
      /\ frames' \in Seq([node : Node, todo : SUBSET Node])
      /\ \A i \in 1 .. k - 1 : frames'[i] = frames[i] /\ Gray(i)' = Gray(i) /\ i \in Calls
      /\ \A n \in Node : Done(n)' = Done(n)
  BY <1>1, <1>k, CallersFacts
<1>3. /\ v \in Node /\ v \in Range(stack)
      /\ \A i \in 1 .. k - 1 : index[Gray(i)] < index[v] /\ Gray(i) \in Node /\ OnStack(Gray(i))
  <2>1. \A i \in 1 .. k - 1 : i < k
    BY <1>2
  <2>2. v \in Node /\ v \in Range(stack)
    BY <1>k, <1>2, CallFacts DEF OnStack
  <2> QED BY <1>1, <1>k, <1>2, <2>1, <2>2, CallFacts DEF NumberedInv
<1>r. PICK S : S = {n \in Range(stack) : index[Frame.node] <= index[n]}
  OBVIOUS
<1>S. S = {n \in Range(stack) : index[v] <= index[n]}
  BY <1>2, <1>r
<1>4. S \in SUBSET Node /\ (\A n \in S : S = StrongClass(n)) /\ Closed(Emitted \cup S)
  BY <1>r, RootClass
<1>5. /\ Popped(v) = S /\ stack' \in Seq(Node) /\ Len(stack') \in 0 .. Len(stack)
      /\ \A i \in 1 .. Len(stack') : stack'[i] = stack[i]
      /\ Range(stack') = {n \in Range(stack) : index[n] < index[v]}
      /\ Range(stack) = Range(stack') \cup S /\ Range(stack') \cap S = {}
  <2>1. /\ Popped(v) = S /\ stack' \in Seq(Node) /\ Len(stack') \in 0 .. Len(stack)
        /\ \A i \in 1 .. Len(stack') : stack'[i] = stack[i]
        /\ Range(stack') = {n \in Range(stack) : index[n] < index[v]}
    BY <1>1, <1>2, <1>3, <1>S, StackCut
  <2>2. \A n \in Range(stack) : index[n] < index[v] <=> ~(index[v] <= index[n])
    BY <1>1, <1>3, CallFacts
  <2> QED BY <1>S, <2>1, <2>2
<1>6. /\ components' \in Seq(SUBSET Node) /\ Range(components') = Range(components) \cup {S}
      /\ Emitted' = Emitted \cup S
  <2>1. components \in Seq(SUBSET Node) /\ components' = Append(components, S)
    BY <1>1, <1>2, <1>5 DEF SCCTypeOK
  <2>2. components' \in Seq(SUBSET Node) /\ Range(components') = Range(components) \cup {S}
    BY <1>4, <2>1, AppendIs
  <2> QED BY <2>2 DEF Emitted
<1>7. /\ lowlink' \in [Node -> Nat \cup {-1}]
      /\ \A i \in 1 .. k - 1 : lowlink'[Gray(i)] = lowlink[Gray(i)]
  <2>1. /\ lowlink' \in [Node -> Nat \cup {-1}]
        /\ \A i \in 1 .. k - 1 : i # k - 1 => lowlink'[Gray(i)] = lowlink[Gray(i)]
        /\ k # 1 => lowlink'[Gray(k - 1)] = IF lowlink[v] < lowlink[Gray(k - 1)]
                                            THEN lowlink[v] ELSE lowlink[Gray(k - 1)]
    BY <1>k, ReturnLow
  <2>2. ASSUME NEW i \in 1 .. k - 1 PROVE ~(lowlink[v] < lowlink[Gray(i)])
    <3>1. lowlink[Gray(i)] <= index[Gray(i)] /\ index[Gray(i)] < index[v] /\ lowlink[v] = index[v]
      BY <1>1, <1>2, <1>3 DEF LowInv
    <3> QED BY <1>1, <1>3, <3>1
  <2>3. k # 1 => k - 1 \in 1 .. k - 1
    BY <1>2
  <2>4. \A i \in 1 .. k - 1 : k # 1
    BY <1>2
  <2> QED BY <2>1, <2>2, <2>3, <2>4
<1>8. SCCTypeOK' /\ NumberedInv'
  <2>1. SCCTypeOK'
    BY <1>1, <1>2, <1>5, <1>6, <1>7 DEF SCCTypeOK
  <2>2. ASSUME NEW i \in Calls', NEW j \in Calls', i < j PROVE index'[Gray(i)'] < index'[Gray(j)']
    <3>1. i \in Calls /\ j \in Calls /\ Gray(i)' = Gray(i) /\ Gray(j)' = Gray(j)
      BY <1>2
    <3> QED BY <1>1, <2>2, <3>1 DEF NumberedInv
  <2>3. ASSUME NEW i \in Calls' PROVE OnStack(Gray(i))' /\ frames'[i].todo \subseteq adj'[Gray(i)']
    <3>1. i \in 1 .. k - 1 /\ i \in Calls /\ Gray(i)' = Gray(i) /\ frames'[i] = frames[i]
      BY <1>2
    <3>2. frames[i].todo \subseteq adj[Gray(i)]
      BY <1>1, <3>1 DEF NumberedInv
    <3>3. Gray(i) \in Range(stack')
      BY <1>3, <1>5, <3>1 DEF OnStack
    <3> QED BY <1>1, <3>1, <3>2, <3>3 DEF OnStack
  <2>4. \A i, j \in 1 .. Len(stack') : i < j => index'[stack'[i]] < index'[stack'[j]]
    <3>1. \A i \in 1 .. Len(stack') : i \in 1 .. Len(stack)
      BY <1>5, CallFacts
    <3> QED BY <1>1, <1>5, <3>1 DEF NumberedInv
  <2> QED BY <1>1, <2>1, <2>2, <2>3, <2>4 DEF NumberedInv, Seen
<1>9. PlacedInv'
  <2> SUFFICES ASSUME NEW n \in Node
               PROVE  /\ Seen(n)' <=> OnStack(n)' \/ n \in Emitted'
                      /\ ~(OnStack(n)' /\ n \in Emitted')
                      /\ Seen(n)' => \A m \in Done(n)' : Seen(m)'
    BY DEF PlacedInv
  <2>1. \A m : Seen(m)' <=> Seen(m)
    BY <1>1 DEF Seen
  <2>2. OnStack(n)' <=> n \in Range(stack')
    BY DEF OnStack
  <2>3. OnStack(n) <=> n \in Range(stack') \/ n \in S
    BY <1>5 DEF OnStack
  <2> QED BY <1>1, <1>2, <1>5, <1>6, <2>1, <2>2, <2>3 DEF PlacedInv
<1>10. ClassInv'
  <2>1. Closed(Emitted)'
    BY <1>1, <1>4, <1>6 DEF Closed
  <2>2. \A c \in Range(components') : \A n \in c : c = StrongClass(n)
    BY <1>1, <1>4, <1>6 DEF ClassInv
  <2> QED BY <1>1, <2>1, <2>2, GraphKept DEF ClassInv
<1>11. ReachInv'
  <2>1. ASSUME NEW i \in Calls', NEW n \in Range(stack'), index'[Gray(i)'] <= index'[n]
        PROVE  Reaches(Gray(i)', n)
    <3>1. i \in Calls /\ Gray(i)' = Gray(i) /\ n \in Range(stack)
      BY <1>2, <1>5
    <3> QED BY <1>1, <2>1, <3>1 DEF ReachInv
  <2>2. ASSUME NEW n \in Range(stack')
        PROVE  \E i \in Calls' : index'[Gray(i)'] <= index'[n] /\ Reaches(n, Gray(i)')
    <3>1. n \in Range(stack) /\ index[n] < index[v] /\ n \in Node
      BY <1>5, CallFacts
    <3>2. PICK i \in Calls : index[Gray(i)] <= index[n] /\ Reaches(n, Gray(i))
      BY <1>1, <3>1 DEF ReachInv
    <3>3. i # k
      BY <1>1, <1>k, <1>3, <3>1, <3>2
    <3>4. i \in 1 .. k - 1
      BY <1>2, <3>3
    <3> QED BY <1>1, <1>2, <3>2, <3>4
  <2> QED BY <1>1, <2>1, <2>2, GraphKept DEF ReachInv
<1>12. LowInv'
  <2>1. ASSUME NEW i \in Calls'
        PROVE  /\ lowlink'[Gray(i)'] <= index'[Gray(i)']
               /\ \E m \in Range(stack') : index'[m] = lowlink'[Gray(i)'] /\ Reaches(Gray(i)', m)
               /\ \A n \in Range(stack') : Under(i, n)' =>
                    \A m \in Done(n)' : OnStack(m)' => lowlink'[Gray(i)'] <= index'[m]
    <3>1. /\ i \in 1 .. k - 1 /\ i \in Calls /\ Gray(i)' = Gray(i) /\ Gray(i) \in Node
          /\ lowlink'[Gray(i)] = lowlink[Gray(i)] /\ index[Gray(i)] < index[v]
          /\ i < k - 1 => Gray(i + 1)' = Gray(i + 1)
      BY <1>2, <1>3, <1>7
    <3>2. lowlink[Gray(i)] <= index[Gray(i)]
      BY <1>1, <3>1 DEF LowInv
    <3>3. PICK m \in Range(stack) : index[m] = lowlink[Gray(i)] /\ Reaches(Gray(i), m)
      BY <1>1, <3>1 DEF LowInv
    <3>4. m \in Range(stack')
      BY <1>1, <1>3, <1>5, <3>1, <3>2, <3>3
    <3>5. ASSUME NEW n \in Range(stack'), Under(i, n)', NEW l \in Done(n)', OnStack(l)'
          PROVE  lowlink[Gray(i)] <= index[l]
      <4>1. /\ n \in Range(stack) /\ n \in Node /\ index[n] < index[v]
            /\ l \in Done(n) /\ OnStack(l)
        BY <1>2, <1>5, <3>5, CallFacts DEF OnStack
      <4>2. index[Gray(i)] <= index[n] /\ (i < k - 1 => index[n] < index[Gray(i + 1)])
        BY <1>1, <1>2, <3>1, <3>5 DEF Under
      <4>3. i < k => index[n] < index[Gray(i + 1)]
        <5>1. i < k => i < k - 1 \/ i + 1 = k
          BY <1>2, <3>1
        <5> QED BY <1>k, <4>1, <4>2, <5>1
      <4>4. Under(i, n)
        BY <1>k, <4>2, <4>3 DEF Under
      <4> QED BY <1>1, <3>1, <4>1, <4>4 DEF LowInv
    <3> QED BY <1>1, <3>1, <3>2, <3>3, <3>4, <3>5
  <2> QED BY <1>1, <2>1, GraphKept DEF LowInv
<1> QED BY <1>8, <1>9, <1>10, <1>11, <1>12 DEF SCCInv

-----------------------------------------------------------------------------
LEMMA SCCInitInv == adj \in Graphs /\ SCCInit => SCCInv
<1> SUFFICES ASSUME adj \in Graphs, SCCInit PROVE SCCInv
  OBVIOUS
<1>1. /\ counter = 0 /\ stack = <<>> /\ components = <<>> /\ frames = <<>>
      /\ index = [n \in Node |-> -1] /\ lowlink = [n \in Node |-> -1]
      /\ adj \in [Node -> SUBSET Node]
  BY DEF SCCInit, Graphs
<1>2. Range(stack) = {} /\ Range(components) = {} /\ Emitted = {} /\ Calls = {}
  BY <1>1 DEF Range, Emitted, Calls
<1>3. \A n \in Node : ~Seen(n)
  BY <1>1 DEF Seen
<1>4. SCCTypeOK
  BY <1>1 DEF SCCTypeOK
<1>5. NumberedInv
  BY <1>1, <1>2, <1>3 DEF NumberedInv
<1>6. PlacedInv /\ ClassInv
  BY <1>2, <1>3 DEF PlacedInv, ClassInv, OnStack, Closed
<1>7. ReachInv /\ LowInv
  BY <1>2 DEF ReachInv, LowInv
<1> QED BY <1>4, <1>5, <1>6, <1>7 DEF SCCInv

LEMMA SCCStutterInv == SCCInv /\ UNCHANGED <<adj, sccVars>> => SCCInv'
<1> SUFFICES ASSUME SCCInv, UNCHANGED <<adj, sccVars>> PROVE SCCInv'
  OBVIOUS
<1> USE DEF sccVars
<1>1. SCCTypeOK' /\ NumberedInv'
  BY DEF SCCInv, SCCTypeOK, NumberedInv, Seen, Calls, Gray, OnStack
<1>2. PlacedInv' /\ ClassInv'
  BY DEF SCCInv, PlacedInv, ClassInv, Seen, OnStack, Emitted, Done, Todo, Calls, Gray, Closed,
         StrongClass, Reaches
<1>3. ReachInv'
  BY GraphKept DEF SCCInv, ReachInv, Calls, Gray
<1>4. LowInv'
  <2>1. \A n : Done(n)' = Done(n)
    BY DEF Done, Todo, Calls, Gray
  <2>2. \A i, n : Under(i, n)' <=> Under(i, n)
    BY DEF Under, Gray
  <2> QED BY <2>1, <2>2, GraphKept DEF SCCInv, LowInv, Calls, Gray, OnStack
<1> QED BY <1>1, <1>2, <1>3, <1>4 DEF SCCInv

LEMMA SCCNextInv == SCCInv /\ [SCCNext]_<<adj, sccVars>> => SCCInv'
BY FromSCCInv, RecurseInv, EdgesInv, ReturnInnerInv, ReturnRootInv, SCCStutterInv DEF SCCNext

\* When no call goes on nothing is left on the stack, so that whatever has been
\* seen is in a component.
LEMMA EmittedClasses == SCCInv => EmittedAreClasses
<1> SUFFICES ASSUME SCCInv PROVE EmittedAreClasses
  OBVIOUS
<1>1. \A c \in Range(components) : \A n \in c : c = StrongClass(n)
  BY DEF SCCInv, ClassInv
<1>2. ASSUME SCCReturned PROVE UNION Range(components) = Node
  <2>1. Calls = {} /\ \A n \in Node : Seen(n)
    BY <1>2 DEF SCCReturned, Calls
  <2>2. \A n \in Node : ~OnStack(n)
    BY <2>1 DEF SCCInv, ReachInv, OnStack
  <2>3. Node \subseteq Emitted
    BY <2>1, <2>2 DEF SCCInv, PlacedInv
  <2>4. Emitted \subseteq Node
    BY RangeIs DEF SCCInv, SCCTypeOK, Emitted
  <2> QED BY <2>3, <2>4 DEF Emitted
<1> QED BY <1>1, <1>2 DEF EmittedAreClasses

\* The inductive invariant of strongconnect.
THEOREM SCCInvariance == SCCSpec => []SCCInv
<1> QED BY SCCInitInv, SCCNextInv, PTL DEF SCCSpec

\* For any finite graph, what SCC takes from its stack are the classes of
\* mutually reachable nodes, whole and nothing else, and each node is taken.
THEOREM ComponentsAreClasses == SCCSpec => []EmittedAreClasses
<1> QED BY SCCInvariance, EmittedClasses, PTL

-----------------------------------------------------------------------------
(***************************************************************************)
(* componentCount: union-find with path halving.                           *)
(***************************************************************************)

\* What find has to do with the edge at hand: the node it is at, and the root
\* it found, belong to the component of the end it started from.
FindInv ==
  /\ task = "first" =>
       \A S \in SUBSET nodes : ParentSaturated(S) => (e[1] \in S <=> x \in S)
  /\ task = "second" =>
       /\ parent[ra] = ra
       /\ \A S \in SUBSET nodes :
            ParentSaturated(S) => (e[1] \in S <=> ra \in S) /\ (e[2] \in S <=> x \in S)

LinksInv == CohesionTypeOK /\ SameComponents /\ FindInv

-----------------------------------------------------------------------------
LEMMA InitLinksInv == adj \in Graphs /\ CohesionInit => LinksInv
<1> SUFFICES ASSUME adj \in Graphs, CohesionInit PROVE LinksInv
  OBVIOUS
<1>1. CohesionTypeOK
  BY DEF CohesionInit, CohesionTypeOK, Graphs
<1>2. SameComponents
  BY DEF CohesionInit, SameComponents, EdgeSaturated, ParentSaturated
<1>3. FindInv
  BY DEF CohesionInit, FindInv
<1>4. QED
  BY <1>1, <1>2, <1>3 DEF LinksInv

\* Lifting x to its grandparent leaves the components as they are: the parent
\* in between keeps its own link to the grandparent.
LEMMA HalveKeeps ==
  ASSUME CohesionTypeOK, Halve, NEW S \in SUBSET nodes
  PROVE  ParentSaturated(S)' <=> ParentSaturated(S)
<1> DEFINE p == parent[x]
           g == parent[p]
<1>1. /\ parent \in [nodes -> nodes] /\ x \in nodes /\ p # x
      /\ nodes' = nodes /\ parent' = [parent EXCEPT ![x] = g]
  BY DEF CohesionTypeOK, Halve
<1>2. p \in nodes /\ g \in nodes
  BY <1>1
<1>3. /\ parent'[x] = g /\ parent'[p] = g
      /\ \A n \in nodes : n # x => parent'[n] = parent[n]
  BY <1>1, <1>2
<1> HIDE DEF p, g
<1>4. ASSUME ParentSaturated(S) PROVE ParentSaturated(S)'
  <2>1. (x \in S <=> p \in S) /\ (p \in S <=> g \in S)
    BY <1>1, <1>2, <1>4 DEF ParentSaturated, p, g
  <2>2. ASSUME NEW n \in nodes PROVE n \in S <=> parent'[n] \in S
    BY <1>3, <1>4, <2>1 DEF ParentSaturated
  <2>3. QED
    BY <1>1, <2>2 DEF ParentSaturated
<1>5. ASSUME ParentSaturated(S)' PROVE ParentSaturated(S)
  <2>1. \A n \in nodes : n \in S <=> parent'[n] \in S
    BY <1>1, <1>5 DEF ParentSaturated
  <2>2. (x \in S <=> g \in S) /\ (p \in S <=> g \in S)
    BY <1>1, <1>2, <1>3, <2>1
  <2>3. ASSUME NEW n \in nodes PROVE n \in S <=> parent[n] \in S
    <3>1. CASE n = x
      BY <2>2, <3>1 DEF p
    <3>2. CASE n # x
      BY <1>3, <2>1, <3>2
    <3>3. QED
      BY <3>1, <3>2
  <2>4. QED
    BY <2>3 DEF ParentSaturated
<1>6. QED
  BY <1>4, <1>5

LEMMA HalveLinksInv == LinksInv /\ Halve => LinksInv'
<1> SUFFICES ASSUME LinksInv, Halve PROVE LinksInv'
  OBVIOUS
<1>1. /\ CohesionTypeOK /\ SameComponents /\ FindInv
      /\ parent \in [nodes -> nodes] /\ x \in nodes /\ parent[x] # x
      /\ parent' = [parent EXCEPT ![x] = parent[parent[x]]]
      /\ x' = parent[parent[x]]
      /\ UNCHANGED <<adj, nodes, merged, task, e, ra, counted, roots>>
  BY DEF LinksInv, CohesionTypeOK, Halve
<1>2. \A S \in SUBSET nodes : ParentSaturated(S)' <=> ParentSaturated(S)
  BY <1>1, HalveKeeps
<1>3. CohesionTypeOK'
  <2>1. parent' \in [nodes -> nodes] /\ x' \in nodes
    BY <1>1
  <2>2. QED
    BY <1>1, <2>1 DEF CohesionTypeOK
<1>4. SameComponents'
  <2>1. \A S \in SUBSET nodes : EdgeSaturated(S)' <=> EdgeSaturated(S)
    BY <1>1 DEF EdgeSaturated
  <2>2. \A S \in SUBSET nodes : EdgeSaturated(S)' <=> ParentSaturated(S)'
    BY <1>1, <1>2, <2>1 DEF SameComponents
  <2>3. QED
    BY <1>1, <2>2 DEF SameComponents
<1>5. FindInv'
  <2>1. \A S \in SUBSET nodes : ParentSaturated(S) => (x \in S <=> x' \in S)
    <3>1. parent[x] \in nodes
      BY <1>1
    <3>2. QED
      BY <1>1, <3>1 DEF ParentSaturated
  <2>2. CASE task = "first"
    <3>1. \A S \in SUBSET nodes : ParentSaturated(S) => (e[1] \in S <=> x \in S)
      BY <1>1, <2>2 DEF FindInv
    <3>2. \A S \in SUBSET nodes' : ParentSaturated(S)' => (e'[1] \in S <=> x' \in S)
      BY <1>1, <1>2, <2>1, <3>1
    <3>3. task' # "second"
      BY <1>1, <2>2
    <3>4. QED
      BY <3>2, <3>3 DEF FindInv
  <2>3. CASE task = "second"
    <3>1. /\ parent[ra] = ra
          /\ \A S \in SUBSET nodes :
               ParentSaturated(S) => (e[1] \in S <=> ra \in S) /\ (e[2] \in S <=> x \in S)
      BY <1>1, <2>3 DEF FindInv
    <3>2. parent'[ra'] = ra'
      BY <1>1, <3>1 DEF CohesionTypeOK
    <3>3. \A S \in SUBSET nodes' :
            ParentSaturated(S)' => (e'[1] \in S <=> ra' \in S) /\ (e'[2] \in S <=> x' \in S)
      BY <1>1, <1>2, <2>1, <3>1
    <3>4. task' # "first"
      BY <1>1, <2>3
    <3>5. QED
      BY <3>2, <3>3, <3>4 DEF FindInv
  <2>4. CASE task \notin {"first", "second"}
    BY <1>1, <2>4 DEF FindInv
  <2>5. QED
    BY <2>2, <2>3, <2>4
<1>6. QED
  BY <1>3, <1>4, <1>5 DEF LinksInv

LEMMA NextEdgeLinksInv == ASSUME LinksInv, NEW f \in Node \X Node, NextEdge(f) PROVE LinksInv'
<1>1. /\ CohesionTypeOK /\ SameComponents /\ task = "edge" /\ e' = f
      /\ UNCHANGED <<adj, nodes, parent, ra, counted, roots>>
  BY DEF LinksInv, NextEdge
<1>2. CASE f \in nodes \X nodes
  <2>1. task' = "first" /\ x' = f[1] /\ merged' = merged /\ f[1] \in nodes
    BY <1>2 DEF NextEdge
  <2>2. CohesionTypeOK'
    BY <1>1, <1>2, <2>1 DEF CohesionTypeOK
  <2>3. SameComponents'
    BY <1>1, <2>1 DEF SameComponents, EdgeSaturated, ParentSaturated
  <2>4. FindInv'
    BY <1>1, <2>1 DEF FindInv
  <2>5. QED
    BY <2>2, <2>3, <2>4 DEF LinksInv
<1>3. CASE f \notin nodes \X nodes
  <2>1. merged' = merged \cup {f} /\ task' = task /\ x' = x
    BY <1>3 DEF NextEdge
  <2>2. CohesionTypeOK'
    BY <1>1, <2>1 DEF CohesionTypeOK
  <2>3. merged' \cap (nodes' \X nodes') = merged \cap (nodes \X nodes)
    BY <1>1, <1>3, <2>1
  <2>4. SameComponents'
    BY <1>1, <2>3 DEF SameComponents, EdgeSaturated, ParentSaturated
  <2>5. FindInv'
    BY <1>1, <2>1 DEF FindInv
  <2>6. QED
    BY <2>2, <2>4, <2>5 DEF LinksInv
<1>4. QED
  BY <1>2, <1>3

LEMMA FirstRootLinksInv == LinksInv /\ FirstRoot => LinksInv'
<1> SUFFICES ASSUME LinksInv, FirstRoot PROVE LinksInv'
  OBVIOUS
<1>1. /\ CohesionTypeOK /\ SameComponents /\ FindInv
      /\ task = "first" /\ parent[x] = x
      /\ ra' = x /\ x' = e[2] /\ task' = "second"
      /\ UNCHANGED <<adj, nodes, parent, merged, e, counted, roots>>
  BY DEF LinksInv, FirstRoot
<1>2. CohesionTypeOK'
  BY <1>1 DEF CohesionTypeOK
<1>3. SameComponents'
  BY <1>1 DEF SameComponents, EdgeSaturated, ParentSaturated
<1>4. FindInv'
  BY <1>1 DEF FindInv, ParentSaturated
<1>5. QED
  BY <1>2, <1>3, <1>4 DEF LinksInv

\* A link between the roots of an edge's ends joins what the edge joins.
LEMMA MergeLinksInv == LinksInv /\ Merge => LinksInv'
<1> SUFFICES ASSUME LinksInv, Merge PROVE LinksInv'
  OBVIOUS
<1>1. /\ CohesionTypeOK /\ SameComponents /\ FindInv
      /\ task = "second" /\ parent[x] = x /\ parent[ra] = ra
      /\ parent' = IF ra # x THEN [parent EXCEPT ![ra] = x] ELSE parent
      /\ merged' = merged \cup {e} /\ task' = "edge"
      /\ UNCHANGED <<adj, nodes, e, x, ra, counted, roots>>
  BY DEF LinksInv, Merge, FindInv
<1>2. /\ parent \in [nodes -> nodes] /\ x \in nodes /\ ra \in nodes
      /\ e \in nodes \X nodes
  BY <1>1 DEF CohesionTypeOK
<1>3. CohesionTypeOK'
  <2>1. parent' \in [nodes -> nodes]
    BY <1>1, <1>2
  <2>2. QED
    BY <1>1, <2>1 DEF CohesionTypeOK
<1>4. ASSUME NEW S \in SUBSET nodes
      PROVE  EdgeSaturated(S)' <=> ParentSaturated(S)'
  <2>1. EdgeSaturated(S)' <=> EdgeSaturated(S) /\ (e[1] \in S <=> e[2] \in S)
    BY <1>1, <1>2 DEF EdgeSaturated
  <2>2. ParentSaturated(S)' <=> ParentSaturated(S) /\ (ra \in S <=> x \in S)
    <3>1. \A n \in nodes : n # ra => parent'[n] = parent[n]
      BY <1>1, <1>2
    <3>2. parent'[ra] = x
      BY <1>1, <1>2
    <3>3. QED
      BY <1>1, <1>2, <3>1, <3>2 DEF ParentSaturated
  <2>3. ParentSaturated(S) => (e[1] \in S <=> ra \in S) /\ (e[2] \in S <=> x \in S)
    BY <1>1 DEF FindInv
  <2>4. EdgeSaturated(S) <=> ParentSaturated(S)
    BY <1>1 DEF SameComponents
  <2>5. QED
    BY <2>1, <2>2, <2>3, <2>4
<1>5. SameComponents'
  BY <1>1, <1>4 DEF SameComponents
<1>6. FindInv'
  BY <1>1 DEF FindInv
<1>7. QED
  BY <1>3, <1>5, <1>6 DEF LinksInv

\* The loop over the nodes touches neither links nor edges except by find.
LEMMA CountingLinksInv ==
  ASSUME LinksInv,
         EdgesDone \/ Root \/ (\E n \in Node : NextNode(n)) \/ UNCHANGED <<adj, cohesionVars>>
  PROVE  LinksInv'
<1>1. /\ UNCHANGED <<adj, nodes, parent, merged>>
      /\ SameComponents /\ CohesionTypeOK /\ FindInv
  BY DEF LinksInv, EdgesDone, Root, NextNode, cohesionVars
<1>2. CohesionTypeOK'
  BY <1>1 DEF CohesionTypeOK, EdgesDone, Root, NextNode, cohesionVars
<1>3. SameComponents'
  BY <1>1 DEF SameComponents, EdgeSaturated, ParentSaturated
<1>4. CASE EdgesDone \/ Root \/ \E n \in Node : NextNode(n)
  <2>1. task' \notin {"first", "second"}
    BY <1>4 DEF EdgesDone, Root, NextNode
  <2>2. QED
    BY <1>2, <1>3, <2>1 DEF LinksInv, FindInv
<1>5. CASE UNCHANGED <<adj, cohesionVars>>
  <2>1. FindInv'
    BY <1>1, <1>5 DEF FindInv, ParentSaturated, cohesionVars
  <2>2. QED
    BY <1>2, <1>3, <2>1 DEF LinksInv
<1>6. QED
  BY <1>4, <1>5

LEMMA NextLinksInv == LinksInv /\ [CohesionNext]_<<adj, cohesionVars>> => LinksInv'
<1> SUFFICES ASSUME LinksInv, [CohesionNext]_<<adj, cohesionVars>> PROVE LinksInv'
  OBVIOUS
<1>1. CASE Halve
  BY <1>1, HalveLinksInv
<1>2. CASE \E f \in Node \X Node : NextEdge(f)
  BY <1>2, NextEdgeLinksInv
<1>3. CASE FirstRoot
  BY <1>3, FirstRootLinksInv
<1>4. CASE Merge
  BY <1>4, MergeLinksInv
<1>5. QED
  BY <1>1, <1>2, <1>3, <1>4, CountingLinksInv DEF CohesionNext

\* The union-find of LCOM4 keeps its links right, for any graph (cohesion.go).
THEOREM LinksInvariance == CohesionSpec => []LinksInv
BY InitLinksInv, NextLinksInv, PTL DEF CohesionSpec

\* For any functions and references, the parent links of componentCount join
\* exactly the functions that the references seen so far join: neither path
\* halving nor merging loses or invents a connection.
THEOREM LinksJoinWhatEdgesJoin == CohesionSpec => []SameComponents
<1>1. LinksInv => SameComponents
  BY DEF LinksInv
<1>2. QED
  BY <1>1, LinksInvariance, PTL

-----------------------------------------------------------------------------
(* The number of roots.                                                    *)

IsRoot(r) == r \in nodes /\ parent[r] = r

\* Each union of components has a root ...
RootInv ==
  \A S \in SUBSET nodes : S # {} /\ ParentSaturated(S) => \E r \in S : IsRoot(r)

\* ... and no component has two.
ApartInv ==
  \A r, s \in nodes : IsRoot(r) /\ IsRoot(s) /\ r # s =>
    \E S \in SUBSET nodes : ParentSaturated(S) /\ r \in S /\ s \notin S

\* a and b are in the same component, by the parent links.
Joined(a, b) == \A S \in SUBSET nodes : ParentSaturated(S) => (a \in S <=> b \in S)

\* The roots found so far are those of the nodes counted so far; of the node at
\* hand, find is on its way to it.
CountedInv ==
  /\ task \in {"edge", "first", "second"} => counted = {} /\ roots = {}
  /\ \A r \in roots : IsRoot(r)
  /\ \A n \in counted : \/ \E r \in roots : Joined(n, r)
                        \/ task = "root" /\ Joined(n, x)

CountInv == LinksInv /\ RootInv /\ ApartInv /\ CountedInv

LEMMA CountInit == adj \in Graphs /\ CohesionInit => CountInv
<1> SUFFICES ASSUME adj \in Graphs, CohesionInit PROVE CountInv
  OBVIOUS
<1>1. /\ parent = [n \in nodes |-> n] /\ counted = {} /\ roots = {} /\ task = "edge"
  BY DEF CohesionInit
<1>2. \A n \in nodes : IsRoot(n)
  BY <1>1 DEF IsRoot
<1>3. RootInv
  BY <1>2 DEF RootInv
<1>4. ApartInv
  <2>1. ASSUME NEW r \in nodes, NEW s \in nodes, r # s
        PROVE  {r} \in SUBSET nodes /\ ParentSaturated({r}) /\ r \in {r} /\ s \notin {r}
    BY <1>1, <2>1 DEF ParentSaturated
  <2>2. QED
    BY <2>1 DEF ApartInv
<1>5. CountedInv
  BY <1>1 DEF CountedInv
<1>6. QED
  BY <1>3, <1>4, <1>5, InitLinksInv DEF CountInv

\* Two links never lead back: a cycle of them, and what hangs on it, would be a
\* union of components without a root.
LEMMA NoCycle ==
  ASSUME CohesionTypeOK, RootInv, NEW a \in nodes, parent[a] # a
  PROVE  parent[parent[a]] # a
<1> SUFFICES ASSUME parent[parent[a]] = a PROVE FALSE
  OBVIOUS
<1>1. parent \in [nodes -> nodes] /\ parent[a] \in nodes
  BY DEF CohesionTypeOK
\* What hangs on the cycle: all that is in each set that holds the cycle and,
\* with a node's parent, the node.
<1> DEFINE Hangs(S) == a \in S /\ parent[a] \in S /\ \A n \in nodes : parent[n] \in S => n \in S
           T == {n \in nodes : \A S \in SUBSET nodes : Hangs(S) => n \in S}
<1>2. Hangs(T)
  BY <1>1
<1>3. ASSUME NEW S \in SUBSET T, Hangs(S) PROVE S = T
  BY <1>3
<1>4. {n \in T : parent[n] \in T} = T
  <2>1. Hangs({n \in T : parent[n] \in T})
    BY <1>1, <1>2
  <2>2. QED
    BY <1>3, <2>1
<1>5. {n \in T : parent[n] # n} = T
  <2>1. Hangs({n \in T : parent[n] # n})
    BY <1>1, <1>2
  <2>2. QED
    BY <1>3, <2>1
<1>6. T \in SUBSET nodes /\ T # {} /\ ParentSaturated(T)
  BY <1>1, <1>2, <1>4 DEF ParentSaturated
<1>7. PICK r \in T : IsRoot(r)
  BY <1>6 DEF RootInv
<1>8. QED
  BY <1>5, <1>7 DEF IsRoot

LEMMA HalveCount == CountInv /\ Halve => CountInv'
<1> SUFFICES ASSUME CountInv, Halve PROVE CountInv'
  OBVIOUS
<1>1. /\ LinksInv /\ CohesionTypeOK /\ RootInv /\ ApartInv /\ CountedInv
      /\ parent \in [nodes -> nodes] /\ x \in nodes /\ parent[x] # x
      /\ parent' = [parent EXCEPT ![x] = parent[parent[x]]]
      /\ x' = parent[parent[x]]
      /\ UNCHANGED <<nodes, task, counted, roots>>
  BY DEF CountInv, LinksInv, CohesionTypeOK, Halve
<1>2. \A S \in SUBSET nodes : ParentSaturated(S)' <=> ParentSaturated(S)
  BY <1>1, HalveKeeps
<1>3. parent[parent[x]] # x
  BY <1>1, NoCycle
<1>4. \A r : IsRoot(r)' <=> IsRoot(r)
  BY <1>1, <1>3 DEF IsRoot
<1>5. RootInv'
  BY <1>1, <1>2, <1>4 DEF RootInv
<1>6. ApartInv'
  BY <1>1, <1>2, <1>4 DEF ApartInv
<1>7. CountedInv'
  <2>1. \A a, b : Joined(a, b)' <=> Joined(a, b)
    BY <1>1, <1>2 DEF Joined
  <2>2. \A S \in SUBSET nodes : ParentSaturated(S) => (x \in S <=> x' \in S)
    <3>1. parent[x] \in nodes
      BY <1>1
    <3>2. QED
      BY <1>1, <3>1 DEF ParentSaturated
  <2>3. \A n : Joined(n, x) => Joined(n, x')
    BY <2>2 DEF Joined
  <2>4. \A n : Joined(n, x) => Joined(n, x)'
    BY <1>1, <1>2, <2>3 DEF Joined
  <2>5. ASSUME NEW n \in counted
        PROVE  \/ \E r \in roots : Joined(n, r)'
               \/ task = "root" /\ Joined(n, x)'
    <3>1. CASE \E r \in roots : Joined(n, r)
      <4>1. PICK r \in roots : Joined(n, r)
        BY <3>1
      <4>2. \A S \in SUBSET nodes' : ParentSaturated(S)' => (n \in S <=> r \in S)
        BY <1>1, <1>2, <4>1 DEF Joined
      <4>3. \A S \in SUBSET nodes' : ParentSaturated(S)' => (n \in S <=> r' \in S)
        BY <1>1, <4>2
      <4>4. QED
        BY <4>3 DEF Joined
    <3>2. CASE task = "root" /\ Joined(n, x)
      BY <2>4, <3>2
    <3>3. QED
      BY <1>1, <3>1, <3>2 DEF CountedInv
  <2>6. QED
    BY <1>1, <1>4, <2>5 DEF CountedInv
<1>8. QED
  BY <1>1, <1>5, <1>6, <1>7, HalveLinksInv DEF CountInv

LEMMA SaturatedSets ==
  ASSUME CohesionTypeOK, NEW S \in SUBSET nodes, NEW T \in SUBSET nodes,
         ParentSaturated(S), ParentSaturated(T)
  PROVE  /\ ParentSaturated(S \cup T) /\ ParentSaturated(S \cap T)
         /\ ParentSaturated(S \ T)
BY DEF ParentSaturated, CohesionTypeOK

\* The root that gets a parent is no root any more; the other roots stay apart,
\* since its component can be added to theirs or taken away from it.
LEMMA MergeCount == CountInv /\ Merge => CountInv'
<1> SUFFICES ASSUME CountInv, Merge PROVE CountInv'
  OBVIOUS
<1>1. /\ LinksInv /\ CohesionTypeOK /\ RootInv /\ ApartInv
      /\ parent \in [nodes -> nodes] /\ x \in nodes /\ ra \in nodes
      /\ parent[x] = x /\ parent[ra] = ra
      /\ parent' = IF ra # x THEN [parent EXCEPT ![ra] = x] ELSE parent
      /\ counted = {} /\ roots = {}
      /\ UNCHANGED <<nodes, x, counted, roots>>
  BY DEF CountInv, CountedInv, LinksInv, CohesionTypeOK, FindInv, Merge
<1>2. CountedInv'
  BY <1>1 DEF CountedInv
<1>3. CASE ra = x
  <2>1. RootInv' /\ ApartInv'
    BY <1>1, <1>3 DEF RootInv, ApartInv, IsRoot, ParentSaturated
  <2>2. QED
    BY <1>1, <1>2, <2>1, MergeLinksInv DEF CountInv
<1>4. CASE ra # x
  <2>1. /\ parent'[ra] = x
        /\ \A n \in nodes : n # ra => parent'[n] = parent[n]
    BY <1>1, <1>4
  <2>2. \A S \in SUBSET nodes :
          ParentSaturated(S)' <=> ParentSaturated(S) /\ (ra \in S <=> x \in S)
    BY <1>1, <2>1 DEF ParentSaturated
  <2>3. \A r : IsRoot(r)' <=> IsRoot(r) /\ r # ra
    BY <1>1, <1>4, <2>1 DEF IsRoot
  <2>4. RootInv'
    <3>1. ASSUME NEW S \in SUBSET nodes, S # {}, ParentSaturated(S)'
          PROVE  \E r \in S : IsRoot(r)'
      <4>1. ParentSaturated(S) /\ (ra \in S <=> x \in S)
        BY <2>2, <3>1
      <4>2. PICK r \in S : IsRoot(r)
        BY <1>1, <3>1, <4>1 DEF RootInv
      <4>3. IsRoot(x) /\ x # ra
        BY <1>1, <1>4 DEF IsRoot
      <4>4. QED
        BY <2>3, <4>1, <4>2, <4>3
    <3>2. QED
      BY <1>1, <3>1 DEF RootInv
  <2>5. ASSUME NEW r \in nodes, NEW s \in nodes, IsRoot(r)', IsRoot(s)', r # s
        PROVE  \E S \in SUBSET nodes : ParentSaturated(S)' /\ r \in S /\ s \notin S
    <3>1. IsRoot(r) /\ IsRoot(s) /\ IsRoot(ra) /\ r # ra /\ s # ra
      BY <1>1, <2>3, <2>5 DEF IsRoot
    <3>2. PICK S \in SUBSET nodes : ParentSaturated(S) /\ r \in S /\ s \notin S
      BY <1>1, <2>5, <3>1 DEF ApartInv
    <3>3. PICK U \in SUBSET nodes : ParentSaturated(U) /\ ra \in U /\ r \notin U
      BY <1>1, <3>1 DEF ApartInv
    <3>4. PICK V \in SUBSET nodes : ParentSaturated(V) /\ ra \in V /\ s \notin V
      BY <1>1, <3>1 DEF ApartInv
    <3>5. ParentSaturated(U \cap V)
      BY <1>1, <3>3, <3>4, SaturatedSets
    <3>6. ParentSaturated(S \cup (U \cap V)) /\ ParentSaturated(S \ (U \cap V))
      BY <1>1, <3>2, <3>5, SaturatedSets
    <3>7. CASE x \in S
      <4>1. ParentSaturated(S \cup (U \cap V))'
        BY <2>2, <3>3, <3>4, <3>6, <3>7
      <4>2. r \in S \cup (U \cap V) /\ s \notin S \cup (U \cap V)
        BY <3>2, <3>4
      <4>3. QED
        BY <4>1, <4>2
    <3>8. CASE x \notin S
      <4>1. ParentSaturated(S \ (U \cap V))'
        BY <2>2, <3>3, <3>4, <3>6, <3>8
      <4>2. r \in S \ (U \cap V) /\ s \notin S \ (U \cap V)
        BY <3>2, <3>3
      <4>3. QED
        BY <4>1, <4>2
    <3>9. QED
      BY <3>7, <3>8
  <2>6. ApartInv'
    BY <1>1, <2>5 DEF ApartInv
  <2>7. QED
    BY <1>1, <1>2, <2>4, <2>6, MergeLinksInv DEF CountInv
<1>5. QED
  BY <1>3, <1>4

\* The other steps leave the links alone.
LEMMA CountKept ==
  ASSUME UNCHANGED <<nodes, parent>>
  PROVE  /\ (RootInv' <=> RootInv) /\ (ApartInv' <=> ApartInv)
         /\ \A r : IsRoot(r)' <=> IsRoot(r)
         /\ \A S \in SUBSET nodes : ParentSaturated(S)' <=> ParentSaturated(S)
BY DEF RootInv, ApartInv, IsRoot, ParentSaturated

LEMMA OtherCount ==
  ASSUME CountInv,
         \/ \E f \in Node \X Node : NextEdge(f)
         \/ FirstRoot \/ EdgesDone \/ Root \/ \E n \in Node : NextNode(n)
         \/ UNCHANGED <<adj, cohesionVars>>
  PROVE  CountInv'
<1>1. /\ UNCHANGED <<nodes, parent>>
      /\ CohesionTypeOK /\ RootInv /\ ApartInv /\ CountedInv /\ LinksInv
  BY DEF CountInv, LinksInv, NextEdge, FirstRoot, EdgesDone, Root, NextNode, cohesionVars
<1>2. RootInv' /\ ApartInv'
  BY <1>1, CountKept
<1>3. \A r : IsRoot(r)' <=> IsRoot(r)
  BY <1>1, CountKept
<1>4. \A n, r : Joined(n, r) =>
        \A S \in SUBSET nodes' : ParentSaturated(S)' => (n \in S <=> r \in S)
  BY <1>1, CountKept DEF Joined
<1>5. ASSUME NEW f \in Node \X Node, NextEdge(f) PROVE CountedInv'
  <2>1. task = "edge" /\ task' \in {"edge", "first"} /\ UNCHANGED <<counted, roots>>
    BY <1>5 DEF NextEdge
  <2>2. QED
    BY <1>1, <2>1 DEF CountedInv
<1>6. ASSUME FirstRoot PROVE CountedInv'
  BY <1>1, <1>6 DEF CountedInv, FirstRoot
<1>7. ASSUME EdgesDone PROVE CountedInv'
  BY <1>1, <1>7 DEF CountedInv, EdgesDone
<1>8. ASSUME Root PROVE CountedInv'
  <2>1. /\ task = "root" /\ task' = "node" /\ IsRoot(x) /\ roots' = roots \cup {x}
        /\ UNCHANGED counted
    BY <1>1, <1>8 DEF Root, IsRoot, CohesionTypeOK
  <2>2. \A r \in roots' : IsRoot(r)'
    BY <1>1, <1>3, <2>1 DEF CountedInv
  <2>3. ASSUME NEW n \in counted' PROVE \E r \in roots' : Joined(n, r)'
    <3>1. PICK r \in roots' : Joined(n, r)
      BY <1>1, <2>1 DEF CountedInv
    <3>2. QED
      BY <1>4, <3>1 DEF Joined
  <2>4. QED
    BY <2>1, <2>2, <2>3 DEF CountedInv
<1>9. ASSUME NEW m \in Node, NextNode(m) PROVE CountedInv'
  <2>1. /\ task = "node" /\ task' = "root" /\ x' = m /\ counted' = counted \cup {m}
        /\ UNCHANGED roots
    BY <1>9 DEF NextNode
  <2>2. \A r \in roots' : IsRoot(r)'
    BY <1>1, <1>3, <2>1 DEF CountedInv
  <2>3. Joined(m, x)'
    BY <2>1 DEF Joined
  <2>4. ASSUME NEW n \in counted PROVE \E r \in roots : Joined(n, r)'
    <3>1. PICK r \in roots : Joined(n, r)
      BY <1>1, <2>1 DEF CountedInv
    <3>2. QED
      BY <1>4, <3>1 DEF Joined
  <2>5. QED
    BY <2>1, <2>2, <2>3, <2>4 DEF CountedInv
<1>10. ASSUME UNCHANGED <<adj, cohesionVars>> PROVE CountedInv'
  <2>1. UNCHANGED <<nodes, parent, task, x, counted, roots>>
    BY <1>10 DEF cohesionVars
  <2>2. QED
    BY <1>1, <2>1 DEF CountedInv, Joined, IsRoot, ParentSaturated
<1>11. CountedInv'
  BY <1>5, <1>6, <1>7, <1>8, <1>9, <1>10
<1>12. LinksInv'
  BY <1>1, NextLinksInv DEF CohesionNext
<1>13. QED
  BY <1>2, <1>11, <1>12 DEF CountInv

\* A component is a least union of components: one with two roots would have a
\* smaller one in it.
LEMMA CountedOnce == CountInv => CountIsRight
<1> SUFFICES ASSUME CountInv, CohesionReturned, NEW S \in Components
             PROVE  Cardinality(S \cap roots) = 1
  BY DEF CountIsRight
<1>1. /\ CohesionTypeOK /\ SameComponents /\ ApartInv /\ CountedInv
      /\ task = "node" /\ counted = nodes /\ roots \subseteq nodes
  BY DEF CountInv, LinksInv, CohesionReturned, CohesionTypeOK
<1>2. /\ S \in SUBSET nodes /\ S # {} /\ EdgeSaturated(S) /\ ParentSaturated(S)
      /\ \A T \in SUBSET S : T # {} /\ EdgeSaturated(T) => T = S
  BY <1>1 DEF Components, SameComponents
<1>3. PICK r \in S \cap roots : TRUE
  <2>1. PICK n \in S : TRUE
    BY <1>2
  <2>2. PICK r \in roots : Joined(n, r)
    BY <1>1, <1>2 DEF CountedInv
  <2>3. QED
    BY <1>2, <2>2 DEF Joined
<1>4. ASSUME NEW s \in S \cap roots, s # r PROVE FALSE
  <2>1. IsRoot(r) /\ IsRoot(s) /\ r \in nodes /\ s \in nodes
    BY <1>1 DEF CountedInv
  <2>2. PICK T \in SUBSET nodes : ParentSaturated(T) /\ r \in T /\ s \notin T
    BY <1>1, <1>4, <2>1 DEF ApartInv
  <2>3. ParentSaturated(S \cap T)
    BY <1>1, <1>2, <2>2, SaturatedSets
  <2>4. EdgeSaturated(S \cap T)
    BY <1>1, <1>2, <2>3 DEF SameComponents
  <2>5. S \cap T = S
    BY <1>2, <1>3, <2>2, <2>4
  <2>6. QED
    BY <1>4, <2>2, <2>5
<1>5. S \cap roots = {r}
  BY <1>3, <1>4
<1>6. QED
  BY <1>5, FS_Singleton

\* For any functions and references, componentCount counts each connected
\* component of them once.
THEOREM CountsComponents == CohesionSpec => []CountIsRight
<1>1. CountInv /\ [CohesionNext]_<<adj, cohesionVars>> => CountInv'
  BY HalveCount, MergeCount, OtherCount DEF CohesionNext
<1>2. CohesionSpec => []CountInv
  BY <1>1, CountInit, PTL DEF CohesionSpec
<1>3. QED
  BY <1>2, CountedOnce, PTL

-----------------------------------------------------------------------------
(***************************************************************************)
(* The three as snipe runs them on one graph.                              *)
(***************************************************************************)

\* Components are computed first and sorting begins when they are; each
\* algorithm that has not been called yet is as it starts.
MetricInv ==
  /\ adj \in Graphs /\ SCCInv
  /\ doing \in {"scc", "topo", "lcom4"}
  /\ IF doing = "topo" THEN SearchInv ELSE TopoIdle
  /\ IF doing = "lcom4" THEN CountInv ELSE task = "edge"

LEMMA StartTopo == ASSUME adj \in Graphs, TopoIdle, RunTopo PROVE (adj \in Graphs /\ TopoInit)'
<1>1. /\ UNCHANGED <<adj, order, phase, remaining, path, witness>>
      /\ indeg' = InDegree /\ queue' \in Ascending(Sources)
  BY DEF RunTopo
<1>2. InDegree' = InDegree /\ Sources' = Sources
  BY <1>1 DEF InDegree, Sources, InEdges
<1>3. TopoInit'
  BY <1>1, <1>2 DEF TopoIdle, TopoInit, Ascending
<1> QED BY <1>1, <1>3 DEF Graphs

LEMMA CountNext == CountInv /\ [CohesionNext]_<<adj, cohesionVars>> => CountInv'
BY HalveCount, MergeCount, OtherCount DEF CohesionNext

LEMMA MetricInit == Init => MetricInv
<1> SUFFICES ASSUME Init PROVE MetricInv
  OBVIOUS
<1>1. adj \in Graphs /\ SCCInv
  BY SCCInitInv DEF Init
<1>2. CASE doing = "scc" /\ TopoIdle /\ CohesionIdle
  BY <1>1, <1>2 DEF MetricInv, CohesionIdle
<1>3. CASE doing = "lcom4" /\ TopoIdle /\ CohesionInit
  BY <1>1, <1>3, CountInit DEF MetricInv
<1> QED BY <1>2, <1>3 DEF Init

LEMMA MetricStep ==
  (adj \in Graphs /\ TopoInit => SearchInv)' /\ MetricInv /\ [Next]_metricVars => MetricInv'
<1> SUFFICES ASSUME (adj \in Graphs /\ TopoInit)' => SearchInv', MetricInv, [Next]_metricVars
             PROVE  MetricInv'
  OBVIOUS
<1>1. adj' = adj
  BY DEF Next, ComputeSCCs, RunTopo, ComputeTopo, ComputeLCOM4, metricVars, SCCNext, FromSCC, Recurse,
         Visit, BackEdge, CrossEdge, Return, TopoNext, Dequeue, Sorted, Stuck, Found, Skip, Descend,
         Backtrack, Rest, CohesionNext, Halve, NextEdge, FirstRoot, Merge, EdgesDone, NextNode, Root
<1>2. SCCInv'
  <2>1. [SCCNext]_<<adj, sccVars>>
    BY <1>1 DEF Next, ComputeSCCs, RunTopo, ComputeTopo, ComputeLCOM4, metricVars
  <2> QED BY <2>1, SCCNextInv DEF MetricInv
<1>3. CASE doing' = doing
  <2>1. [TopoNext]_<<adj, topoVars>> /\ [CohesionNext]_<<adj, cohesionVars>>
    BY <1>1, <1>3 DEF Next, ComputeSCCs, RunTopo, ComputeTopo, ComputeLCOM4, metricVars, MetricInv
  <2>2. doing # "topo" => UNCHANGED topoVars
    BY <1>3 DEF Next, ComputeSCCs, RunTopo, ComputeTopo, ComputeLCOM4, metricVars
  <2>3. doing # "lcom4" => UNCHANGED cohesionVars
    BY <1>3 DEF Next, ComputeSCCs, RunTopo, ComputeTopo, ComputeLCOM4, metricVars
  <2>4. IF doing' = "topo" THEN SearchInv' ELSE TopoIdle'
    BY <1>3, <2>1, <2>2, NextSearchInv DEF MetricInv, TopoIdle, topoVars
  <2>5. IF doing' = "lcom4" THEN CountInv' ELSE task' = "edge"
    BY <1>3, <2>1, <2>3, CountNext DEF MetricInv, cohesionVars
  <2> QED BY <1>1, <1>2, <1>3, <2>4, <2>5 DEF MetricInv, Graphs
<1>4. CASE RunTopo
  <2>1. SearchInv'
    BY <1>4, StartTopo DEF RunTopo, MetricInv
  <2>2. task' = "edge"
    BY <1>4 DEF RunTopo, MetricInv, cohesionVars
  <2> QED BY <1>1, <1>2, <1>4, <2>1, <2>2 DEF MetricInv, RunTopo, Graphs
<1> QED BY <1>3, <1>4 DEF Next, ComputeSCCs, ComputeTopo, ComputeLCOM4, metricVars

\* What the run of the composed system checks on four nodes holds for every
\* finite graph: the components stored by `snipe index`, the order or witness
\* shown by `snipe metrics` and LCOM4 are all right, in every moment.
THEOREM GraphMetricsAreRight ==
  Spec => [](Topological /\ WitnessOrRest /\ EmittedAreClasses /\ CountIsRight)
<1>1. MetricInv /\ [Next]_metricVars => MetricInv'
  BY MetricStep, InitSearchInv, PTL
<1>2. MetricInv => Topological /\ WitnessOrRest /\ EmittedAreClasses /\ CountIsRight
  <2> SUFFICES ASSUME MetricInv
               PROVE  Topological /\ WitnessOrRest /\ EmittedAreClasses /\ CountIsRight
    OBVIOUS
  <2>1. EmittedAreClasses
    BY EmittedClasses DEF MetricInv
  <2>2. Topological /\ WitnessOrRest
    <3>1. CASE doing = "topo"
      BY <3>1 DEF MetricInv, SearchInv, KahnInv
    <3>2. CASE TopoIdle
      BY <3>2 DEF TopoIdle, Topological, WitnessOrRest
    <3> QED BY <3>1, <3>2 DEF MetricInv
  <2>3. CountIsRight
    BY CountedOnce DEF MetricInv, CountIsRight, CohesionReturned
  <2> QED BY <2>1, <2>2, <2>3
<1> QED BY <1>1, <1>2, MetricInit, PTL DEF Spec

=============================================================================
