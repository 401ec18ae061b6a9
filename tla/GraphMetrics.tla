---------------------------- MODULE GraphMetrics -----------------------------
(***************************************************************************)
(* What snipe computes on one graph.  On the import graph `snipe index`    *)
(* stores the components (computeImportSCCs) and `snipe metrics` sorts it  *)
(* on demand later on (runTopoMetrics), so that the two answers are about  *)
(* the same imports.  LCOM4 is computed on a graph of its own.             *)
(***************************************************************************)
EXTENDS SCC, TopoSort, Cohesion

CONSTANT MaxRefs  \* bound: references between the functions of a package

VARIABLE doing    \* "scc", "topo" or "lcom4"

metricVars == <<adj, sccVars, topoVars, cohesionVars, doing>>

\* An algorithm that has not been called yet.
TopoIdle == /\ indeg = [n \in Node |-> 0] /\ queue = <<>> /\ order = <<>>
            /\ phase = "kahn" /\ remaining = {} /\ path = <<>> /\ witness = <<>>
CohesionIdle == LET n == Min(Node) IN
                /\ nodes = {n} /\ parent = [m \in {n} |-> n] /\ merged = {} /\ task = "edge"
                /\ e = <<n, n>> /\ x = n /\ ra = n /\ counted = {} /\ roots = {}

Init == /\ adj \in Graphs
        /\ SCCInit
        /\ \/ doing = "scc" /\ TopoIdle /\ CohesionIdle
           \/ doing = "lcom4" /\ TopoIdle /\ CohesionInit /\ Cardinality(RefEdges) <= MaxRefs

\* computeImportSCCs.
ComputeSCCs == doing = "scc" /\ SCCNext /\ UNCHANGED <<topoVars, cohesionVars, doing>>

\* runTopoMetrics on the graph the components were computed of.
RunTopo == /\ doing = "scc" /\ SCCReturned
           /\ doing' = "topo"
           /\ indeg' = InDegree /\ queue' \in Ascending(Sources)
           /\ UNCHANGED <<adj, order, phase, remaining, path, witness, sccVars, cohesionVars>>

ComputeTopo == doing = "topo" /\ TopoNext /\ UNCHANGED <<sccVars, cohesionVars, doing>>

\* computeLCOM4.
ComputeLCOM4 == doing = "lcom4" /\ CohesionNext /\ UNCHANGED <<sccVars, topoVars, doing>>

Next == ComputeSCCs \/ RunTopo \/ ComputeTopo \/ ComputeLCOM4

Spec == Init /\ [][Next]_metricVars

-----------------------------------------------------------------------------
=============================================================================
