------------------------------ MODULE Cohesion -------------------------------
(***************************************************************************)
(* componentCount (internal/graphmetrics/cohesion.go), the LCOM4 of a      *)
(* package: the number of connected components its functions form, by      *)
(* union-find with path halving.  One action per step of a loop; the rows  *)
(* of the query and the keys of a map come in any order, and rows repeat.  *)
(***************************************************************************)
EXTENDS MetricGraph

VARIABLES
  nodes,    \* the functions of the package
  parent,
  merged,   \* history: edges that have been looked at
  task,     \* "edge", "first", "second", "node" or "root"
  e,        \* the edge at hand
  x, ra,    \* x of find, and the first root
  counted, roots \* the loop over the nodes

cohesionVars == <<nodes, parent, merged, task, e, x, ra, counted, roots>>

\* adj is the graph of the references between functions.
RefEdges == {p \in Node \X Node : p[2] \in adj[p[1]]}

CohesionInit == /\ nodes \in SUBSET Node /\ nodes # {}
                /\ parent = [n \in nodes |-> n] /\ merged = {} /\ task = "edge"
                /\ e \in nodes \X nodes /\ e[1] = e[2] /\ x = e[1] /\ ra = e[1]
                /\ counted = {} /\ roots = {}

-----------------------------------------------------------------------------
Finding == task \in {"first", "second", "root"}

\* A halving step that cuts x off instead of lifting it.
MutantHalve ==
  /\ Finding /\ parent[x] # x
  /\ parent' = [parent EXCEPT ![x] = x]
  /\ x' = parent[x]
  /\ UNCHANGED <<adj, nodes, merged, task, e, ra, counted, roots>>

\* find: parent[x] = parent[parent[x]]; x = parent[x].
Halve ==
  /\ Finding /\ parent[x] # x
  /\ parent' = [parent EXCEPT ![x] = parent[parent[x]]]
  /\ x' = parent[parent[x]]
  /\ UNCHANGED <<adj, nodes, merged, task, e, ra, counted, roots>>

\* An edge with an endpoint outside nodes is passed over.
NextEdge(f) ==
  /\ task = "edge" /\ f \in RefEdges
  /\ e' = f
  /\ IF f \in nodes \X nodes
     THEN task' = "first" /\ x' = f[1] /\ UNCHANGED merged
     ELSE merged' = merged \cup {f} /\ UNCHANGED <<task, x>>
  /\ UNCHANGED <<adj, nodes, parent, ra, counted, roots>>

FirstRoot ==
  /\ task = "first" /\ parent[x] = x
  /\ ra' = x /\ x' = e[2] /\ task' = "second"
  /\ UNCHANGED <<adj, nodes, parent, merged, e, counted, roots>>

\* The end of the edge itself, not its root, is hung under the other root.
MutantMerge ==
  /\ task = "second" /\ parent[x] = x
  /\ parent' = IF ra # x THEN [parent EXCEPT ![e[1]] = x] ELSE parent
  /\ merged' = merged \cup {e} /\ task' = "edge"
  /\ UNCHANGED <<adj, nodes, e, x, ra, counted, roots>>

\* parent[ra] = rb, unless the roots are the same.
Merge ==
  /\ task = "second" /\ parent[x] = x
  /\ parent' = IF ra # x THEN [parent EXCEPT ![ra] = x] ELSE parent
  /\ merged' = merged \cup {e} /\ task' = "edge"
  /\ UNCHANGED <<adj, nodes, e, x, ra, counted, roots>>

\* The loop over the edges is over.
EdgesDone ==
  /\ task = "edge" /\ merged = RefEdges
  /\ task' = "node"
  /\ UNCHANGED <<adj, nodes, parent, merged, e, x, ra, counted, roots>>

NextNode(n) ==
  /\ task = "node" /\ n \in nodes \ counted
  /\ counted' = counted \cup {n} /\ x' = n /\ task' = "root"
  /\ UNCHANGED <<adj, nodes, parent, merged, e, ra, roots>>

Root ==
  /\ task = "root" /\ parent[x] = x
  /\ roots' = roots \cup {x} /\ task' = "node"
  /\ UNCHANGED <<adj, nodes, parent, merged, e, x, ra, counted>>

CohesionNext == \/ Halve \/ FirstRoot \/ Merge \/ EdgesDone \/ Root
                \/ \E f \in Node \X Node : NextEdge(f)
                \/ \E n \in Node : NextNode(n)

CohesionSpec == adj \in Graphs /\ CohesionInit /\ [][CohesionNext]_<<adj, cohesionVars>>

CohesionReturned == task = "node" /\ counted = nodes

-----------------------------------------------------------------------------
CohesionTypeOK ==
  /\ adj \in [Node -> SUBSET Node]
  /\ nodes \subseteq Node /\ parent \in [nodes -> nodes]
  /\ merged \subseteq Node \X Node
  /\ task \in {"edge", "first", "second", "node", "root"}
  /\ e \in Node \X Node /\ x \in nodes /\ ra \in nodes
  /\ task \in {"first", "second"} => e \in nodes \X nodes
  /\ counted \subseteq nodes /\ roots \subseteq nodes

\* S is a union of components, by the edges looked at and by the parent links.
EdgeSaturated(S) ==
  \A f \in merged \cap (nodes \X nodes) : f[1] \in S <=> f[2] \in S
ParentSaturated(S) == \A n \in nodes : n \in S <=> parent[n] \in S

\* At every moment the parent links join exactly the nodes that the edges seen
\* so far join: halving and merging neither lose nor invent a connection.
SameComponents == \A S \in SUBSET nodes : EdgeSaturated(S) <=> ParentSaturated(S)

\* "componentCount returns the number of connected components": the roots are
\* one of each component, a component being a least saturated set.
Components ==
  {S \in SUBSET nodes :
     /\ S # {} /\ EdgeSaturated(S)
     /\ \A T \in SUBSET S : T # {} /\ EdgeSaturated(T) => T = S}

CountIsRight == CohesionReturned => \A S \in Components : Cardinality(S \cap roots) = 1

=============================================================================
