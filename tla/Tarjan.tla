------------------------------- MODULE Tarjan -------------------------------
(***************************************************************************)
(* TarjanCycleDetector of src/core/orchestration/workflow/validator.py:    *)
(* the search for strongly connected components, with the calls of         *)
(* strongconnect() kept in an explicit stack of frames.  The order of the  *)
(* nodes and of the successors is arbitrary.                               *)
(***************************************************************************)
EXTENDS DependencyGraph, SequencesExt

CONSTANTS Nodes,
          Loops    \* whether the graphs have edges from a node to itself

VARIABLES graph,     \* the successors of every node
          indices,   \* the nodes visited and when; lowlink has the same domain
          lowlink,
          stack,     \* on_stack is its range
          frames,    \* the active calls: [node, todo], todo the successors to come
          sccs       \* all components found, before the filter

tarjanVars == <<graph, indices, lowlink, stack, frames, sccs>>

Empty == [x \in {} |-> 0]

TarjanInit ==
    /\ graph \in {g \in [Nodes -> SUBSET Nodes] : Loops \/ \A x \in Nodes : x \notin g[x]}
    /\ indices = Empty /\ lowlink = Empty
    /\ stack = <<>> /\ frames = <<>> /\ sccs = {}

Visited(x) == x \in DOMAIN indices
OnStack(x) == x \in ToSet(stack)

Set(f, x, v) == [y \in DOMAIN f \cup {x} |-> IF y = x THEN v ELSE f[y]]
Least(m, n) == IF m < n THEN m ELSE n

\* strongconnect(x) is called: index counts the nodes visited so far.
Enter(x, callers) ==
    /\ indices' = Set(indices, x, Cardinality(DOMAIN indices))
    /\ lowlink' = Set(lowlink, x, Cardinality(DOMAIN indices))
    /\ stack' = Append(stack, x)
    /\ frames' = Append(callers, [node |-> x, todo |-> graph[x]])
    /\ UNCHANGED <<graph, sccs>>

Root(x) ==
    /\ frames = <<>>
    /\ ~Visited(x)
    /\ Enter(x, frames)

\* One round of the loop over the successors of the innermost call.
Top == Last(frames)
Drop(s) == Append(Front(frames), [Top EXCEPT !.todo = @ \ {s}])

Descend(s) ==
    /\ frames # <<>> /\ s \in Top.todo
    /\ ~Visited(s)
    /\ Enter(s, Drop(s))

\* MUTANT of ByIndex: a successor that was left counts as well.
ByIndexAny(s) == Least(lowlink[Top.node], indices[s])

ByIndex(s) == IF OnStack(s) THEN Least(lowlink[Top.node], indices[s]) ELSE lowlink[Top.node]

Skip(s) ==
    /\ frames # <<>> /\ s \in Top.todo
    /\ Visited(s)
    /\ lowlink' = [lowlink EXCEPT ![Top.node] = ByIndex(s)]
    /\ frames' = Drop(s)
    /\ UNCHANGED <<graph, indices, stack, sccs>>

\* The end of a call: a root of a component pops it, and the caller takes
\* over the lowlink.
Leave ==
    /\ frames # <<>> /\ Top.todo = {}
    /\ LET x      == Top.node
           isRoot == lowlink[x] = indices[x]
           from   == CHOOSE i \in DOMAIN stack : stack[i] = x
       IN  /\ sccs' = IF isRoot THEN sccs \cup {{stack[i] : i \in from..Len(stack)}} ELSE sccs
           /\ stack' = IF isRoot THEN SubSeq(stack, 1, from - 1) ELSE stack
           /\ lowlink' = IF Len(frames) = 1 THEN lowlink
                         ELSE [lowlink EXCEPT ![Last(Front(frames)).node] = Least(@, lowlink[x])]
    /\ frames' = Front(frames)
    /\ UNCHANGED <<graph, indices>>

TarjanNext == Leave \/ \E x \in Nodes : Root(x) \/ Descend(x) \/ Skip(x)

TarjanSpec == TarjanInit /\ [][TarjanNext]_tarjanVars

TarjanDone == frames = <<>> /\ DOMAIN indices = Nodes

\* The answer: single nodes are left out.
Answer == {scc \in sccs : Cardinality(scc) > 1}
-----------------------------------------------------------------------------
(* The answer consists of exactly the classes of nodes that reach each     *)
(* other, those of a single node left out, whatever the order in which     *)
(* nodes and successors are visited.                                       *)
SccsExact ==
    TarjanDone =>
        LET reach == [x \in Nodes |-> Reachable(graph, {x})]
            class == [x \in Nodes |-> {y \in Nodes : y \in reach[x] /\ x \in reach[y]}]
        IN  Answer = {c \in {class[x] : x \in Nodes} : Cardinality(c) > 1}
=============================================================================
