---------------------------- MODULE MetricGraph ------------------------------
(***************************************************************************)
(* The graphs that internal/graphmetrics computes on (graph.go): nodes are *)
(* packages or symbols, edges are imports, calls or references.            *)
(*                                                                         *)
(* Nodes are numbers, ordered as the code orders their names: Nodes()      *)
(* returns them sorted and each list of out-edges is sorted when loaded.   *)
(***************************************************************************)
EXTENDS Naturals, FiniteSets

CONSTANTS Node,     \* names that occur in the graph
          LoopNode  \* those that may have an edge to themselves

ASSUME NodeAssumption == /\ Node \subseteq Nat
                         /\ IsFiniteSet(Node)
                         /\ LoopNode \subseteq Node

VARIABLE adj \* Graph.Adj: the nodes each node has an edge to

\* LoadImportsGraphOpts and LoadCallsGraphOpts drop the edges of a node to
\* itself and list every other edge once; the functions on graphs accept both.
Graphs == {g \in [Node -> SUBSET Node] : \A n \in Node \ LoopNode : n \notin g[n]}

\* InEdges: the nodes that have an edge to n.
InEdges(n) == {m \in Node : n \in adj[m]}

\* InDegree.
InDegree == [n \in Node |-> Cardinality(InEdges(n))]

-----------------------------------------------------------------------------
(* What the algorithms are measured by.                                    *)

\* S is left by no edge.
Closed(S) == \A n \in S : adj[n] \subseteq S

\* There is a path from m to n: whatever holds m and is closed holds n.
Reaches(m, n) == \A S \in SUBSET Node : m \in S /\ Closed(S) => n \in S

\* n lies on a cycle.
OnCycle(n) == \E m \in adj[n] : Reaches(m, n)

\* The nodes that n is strongly connected with.
StrongClass(n) == {m \in Node : Reaches(n, m) /\ Reaches(m, n)}

=============================================================================
