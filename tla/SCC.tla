--------------------------------- MODULE SCC ---------------------------------
(***************************************************************************)
(* SCC (internal/graphmetrics/scc.go): Tarjan's strongly connected         *)
(* components of the import graph and of the call graph, which             *)
(* `snipe metrics --kind=cycles` shows.  The recursion of strongconnect is *)
(* a stack of frames; one action per iteration of its loop and per return. *)
(***************************************************************************)
EXTENDS MetricGraph, Integers, Sequences, Functions, FiniteSetsExt

VARIABLES
  counter, index, lowlink, stack, components, \* tarjan; index -1 is not seen
  frames     \* the calls of strongconnect: nodes and out-edges still to visit

sccVars == <<counter, index, lowlink, stack, components, frames>>

SCCInit == /\ counter = 0 /\ stack = <<>> /\ components = <<>> /\ frames = <<>>
           /\ index = [n \in Node |-> -1] /\ lowlink = [n \in Node |-> -1]

Seen(n) == index[n] >= 0
OnStack(n) == n \in Range(stack)

\* strongconnect(v) up to its loop.
Visit(v, rest) ==
  /\ index' = [index EXCEPT ![v] = counter]
  /\ lowlink' = [lowlink EXCEPT ![v] = counter]
  /\ counter' = counter + 1
  /\ stack' = Append(stack, v)
  /\ frames' = Append(rest, [node |-> v, todo |-> adj[v]])
  /\ UNCHANGED <<adj, components>>

\* The loop of SCC over the nodes.
FromSCC ==
  /\ frames = <<>>
  /\ \E v \in Node : ~Seen(v)
  /\ Visit(Min({v \in Node : ~Seen(v)}), <<>>)

Calling == frames # <<>>
Frame   == frames[Len(frames)]
Callers == SubSeq(frames, 1, Len(frames) - 1)
Edge    == Min(Frame.todo)
Advanced == Append(Callers, [Frame EXCEPT !.todo = @ \ {Edge}])

\* The recursive call for a node that has not been seen.
Recurse ==
  /\ Calling /\ Frame.todo # {}
  /\ ~Seen(Edge)
  /\ Visit(Edge, Advanced)

\* lowlink of v is lowered to l, if l is less.
Lower(v, l) == lowlink' = [lowlink EXCEPT ![v] = IF l < @ THEN l ELSE @]

\* An edge to a node on the stack.
BackEdge ==
  /\ Calling /\ Frame.todo # {}
  /\ Seen(Edge) /\ OnStack(Edge)
  /\ Lower(Frame.node, index[Edge])
  /\ frames' = Advanced
  /\ UNCHANGED <<adj, counter, index, stack, components>>

\* An edge to a node of a finished component.
CrossEdge ==
  /\ Calling /\ Frame.todo # {}
  /\ Seen(Edge) /\ ~OnStack(Edge)
  /\ frames' = Advanced
  /\ UNCHANGED <<adj, counter, index, lowlink, stack, components>>

\* Where v is on the stack; the nodes from there on are its component.
Position(v) == CHOOSE i \in 1 .. Len(stack) : stack[i] = v
Popped(v)   == {stack[i] : i \in Position(v) .. Len(stack)}

\* The caller does not learn of the lowlink of the node it called for.
MutantReturn ==
  /\ Calling /\ Frame.todo = {}
  /\ LET v == Frame.node
     IN IF lowlink[v] = index[v]
        THEN /\ components' = Append(components, Popped(v))
             /\ stack' = SubSeq(stack, 1, Position(v) - 1)
        ELSE UNCHANGED <<components, stack>>
  /\ frames' = Callers
  /\ UNCHANGED <<adj, counter, index, lowlink>>

\* The end of strongconnect(v), and what its caller does with the result.
Return ==
  /\ Calling /\ Frame.todo = {}
  /\ LET v == Frame.node
     IN /\ IF lowlink[v] = index[v]
           THEN /\ components' = Append(components, Popped(v))
                /\ stack' = SubSeq(stack, 1, Position(v) - 1)
           ELSE UNCHANGED <<components, stack>>
        /\ IF Callers = <<>> THEN UNCHANGED lowlink
           ELSE Lower(Callers[Len(Callers)].node, lowlink[v])
  /\ frames' = Callers
  /\ UNCHANGED <<adj, counter, index>>

SCCNext == FromSCC \/ Recurse \/ BackEdge \/ CrossEdge \/ Return

SCCSpec == adj \in Graphs /\ SCCInit /\ [][SCCNext]_<<adj, sccVars>>

SCCReturned == frames = <<>> /\ \A n \in Node : Seen(n)

\* The result of SCC, but for its order: the nontrivial components.
Nontrivial == {c \in Range(components) : Cardinality(c) >= 2 \/ \E v \in c : v \in adj[v]}

-----------------------------------------------------------------------------
\* "SCC returns the nontrivial strongly-connected components": a component is
\* a full class of mutually reachable nodes when it is taken from the stack,
\* with nothing left behind and nothing too much, and each node gets into one.
EmittedAreClasses ==
  /\ \A c \in Range(components) : \A n \in c : c = StrongClass(n)
  /\ SCCReturned => UNION Range(components) = Node

=============================================================================
