------------------------------ MODULE TopoSort -------------------------------
(***************************************************************************)
(* TopoSort (internal/graphmetrics/topo.go), which `snipe metrics          *)
(* --kind=topo` runs on the import graph: Kahn's order and, if there is    *)
(* none, a search for a cycle among the nodes that are left.  One action   *)
(* per iteration of a loop or call of dfs.                                 *)
(***************************************************************************)
EXTENDS MetricGraph, Sequences, Functions, FiniteSetsExt

VARIABLES
  queue, order, indeg, \* as in the code
  phase,     \* "kahn", "search", or what was returned: "sorted", "cyclic", "rest"
  remaining, \* nodes for which the map remaining says true
  path,      \* path and the recursion of dfs: nodes and out-edges still to visit
  witness    \* cycleWitness

topoVars == <<queue, order, indeg, phase, remaining, path, witness>>

\* The nodes of S in the order of their names: the one such list.
Ascending(S) ==
  {s \in [1 .. Cardinality(S) -> S] :
     /\ \A i, j \in 1 .. Cardinality(S) : i < j => s[i] < s[j]
     /\ \A n \in S : \E i \in 1 .. Cardinality(S) : s[i] = n}

\* The nodes of the queue at the start.
Sources == {n \in Node : InDegree[n] = 0}

TopoInit == /\ indeg = InDegree
            /\ queue \in Ascending(Sources)
            /\ order = <<>> /\ phase = "kahn"
            /\ remaining = {} /\ path = <<>> /\ witness = <<>>

-----------------------------------------------------------------------------
\* One turn of the loop that queues a node as soon as one edge to it is gone.
MutantDequeue ==
  /\ phase = "kahn" /\ queue # <<>>
  /\ LET u == Head(queue)
         ready == {v \in adj[u] : indeg[v] >= 1 /\ v \notin Range(queue)}
     IN /\ order' = Append(order, u)
        /\ indeg' = [v \in Node |-> IF v \in adj[u] /\ indeg[v] > 0 THEN indeg[v] - 1 ELSE indeg[v]]
        /\ \E s \in Ascending(ready) : queue' = Tail(queue) \o s
  /\ UNCHANGED <<adj, phase, remaining, path, witness>>

\* One turn of Kahn's loop: a node is queued when its last edge is gone.
Dequeue ==
  /\ phase = "kahn" /\ queue # <<>>
  /\ LET u == Head(queue)
         ready == {v \in adj[u] : indeg[v] = 1}
     IN /\ order' = Append(order, u)
        /\ indeg' = [v \in Node |-> IF v \in adj[u] THEN indeg[v] - 1 ELSE indeg[v]]
        /\ \E s \in Ascending(ready) : queue' = Tail(queue) \o s
  /\ UNCHANGED <<adj, phase, remaining, path, witness>>

\* len(order) == len(nodes).
Sorted ==
  /\ phase = "kahn" /\ queue = <<>>
  /\ Len(order) = Cardinality(Node)
  /\ phase' = "sorted"
  /\ UNCHANGED <<adj, queue, order, indeg, remaining, path, witness>>

\* dfs(u): a node on the path closes a cycle, any other one that is no longer
\* remaining is skipped.
Enter(u, rest) == path' = Append(rest, [node |-> u, todo |-> adj[u]])

\* The search starts at the first remaining node, by name.
Stuck ==
  /\ phase = "kahn" /\ queue = <<>>
  /\ Len(order) # Cardinality(Node)
  /\ phase' = "search"
  /\ remaining' = Node \ Range(order)
  /\ Enter(Min(remaining'), <<>>)
  /\ UNCHANGED <<adj, queue, order, indeg, witness>>

Searching == phase = "search" /\ path # <<>>
Top   == path[Len(path)]
Below == SubSeq(path, 1, Len(path) - 1)
Next1 == Min(Top.todo)
Moved == Append(Below, [Top EXCEPT !.todo = @ \ {Next1}])
Depth(u) == {i \in 1 .. Len(path) : path[i].node = u}

\* The witness starts at the bottom of the path.
MutantFound ==
  /\ Searching /\ Top.todo # {}
  /\ Depth(Next1) # {}
  /\ witness' = [i \in 1 .. Len(path) |-> path[i].node]
  /\ phase' = "cyclic"
  /\ UNCHANGED <<adj, queue, order, indeg, remaining, path>>

\* path[idx:].
Found ==
  /\ Searching /\ Top.todo # {}
  /\ Depth(Next1) # {}
  /\ LET from == Min(Depth(Next1))
     IN witness' = [i \in 1 .. Len(path) - from + 1 |-> path[from + i - 1].node]
  /\ phase' = "cyclic"
  /\ UNCHANGED <<adj, queue, order, indeg, remaining, path>>

Skip ==
  /\ Searching /\ Top.todo # {}
  /\ Next1 \notin remaining
  /\ path' = Moved
  /\ UNCHANGED <<adj, queue, order, indeg, phase, remaining, witness>>

Descend ==
  /\ Searching /\ Top.todo # {}
  /\ Depth(Next1) = {} /\ Next1 \in remaining
  /\ Enter(Next1, Moved)
  /\ UNCHANGED <<adj, queue, order, indeg, phase, remaining, witness>>

Backtrack ==
  /\ Searching /\ Top.todo = {}
  /\ path' = Below
  /\ remaining' = remaining \ {Top.node}
  /\ UNCHANGED <<adj, queue, order, indeg, phase, witness>>

\* dfs(start) found nothing: all keys of remaining, in any order.
Rest ==
  /\ phase = "search" /\ path = <<>>
  /\ LET left == Node \ Range(order)
     IN witness' \in {s \in [1 .. Cardinality(left) -> left] : Range(s) = left}
  /\ phase' = "rest"
  /\ UNCHANGED <<adj, queue, order, indeg, remaining, path>>

TopoNext == \/ Dequeue \/ Sorted \/ Stuck
            \/ Found \/ Skip \/ Descend \/ Backtrack \/ Rest

TopoSpec == adj \in Graphs /\ TopoInit /\ [][TopoNext]_<<adj, topoVars>>

TopoReturned == phase \in {"sorted", "cyclic", "rest"}

-----------------------------------------------------------------------------
\* "TopoSort returns a Kahn topological order": in every moment, a node is in
\* the order only after all nodes that have an edge to it.
Topological ==
  \A j \in 1 .. Len(order) : \A m \in InEdges(order[j]) :
    \E i \in 1 .. j - 1 : order[i] = m

\* w is a cycle: each node has an edge to the next, the last one to the first.
IsCycle(w) ==
  /\ w # <<>>
  /\ \A i \in 1 .. Len(w) : w[IF i = Len(w) THEN 1 ELSE i + 1] \in adj[w[i]]

\* A witness found by the search is a cycle.  If the search comes back without
\* one, then because the node it started at reaches no cycle.
WitnessOrRest ==
  /\ phase = "cyclic" => IsCycle(witness)
  /\ phase = "rest" =>
       \A n \in Node : Reaches(Min(Node \ Range(order)), n) => ~OnCycle(n)

=============================================================================
