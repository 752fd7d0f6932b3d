----------------------- MODULE CircularDependencies ------------------------
(***************************************************************************)
(* AgentRegistry._detect_circular_dependencies of core/agent/registry.py:  *)
(* the recursive depth-first search as a state machine whose stack of      *)
(* types is the stack of the calls of dfs().  Sets are iterated in any     *)
(* order.  AgentRegistry, which extends this module, starts the search and *)
(* uses its result.                                                        *)
(***************************************************************************)
EXTENDS DependencyGraph, Sequences

CONSTANT Types   \* agent types, registered or only named as a dependency

VARIABLES
    reverse_dependencies, \* _reverse_dependencies: the dependents of a type
    roots,    \* the keys of _registry when the search begins
    unrooted, \* the roots the outer loop has not reached
    visited,
    stack,
    rest,     \* the dependents the call of dfs() for a type has still to see
    cycles

locals == <<roots, unrooted, visited, stack, rest, cycles>>

searchVars == <<reverse_dependencies, roots, unrooted, visited, stack, rest, cycles>>

OnStack == {stack[i] : i \in 1..Len(stack)}

Top == stack[Len(stack)]

SearchTypeOK ==
    /\ reverse_dependencies \in [Types -> SUBSET Types]
    /\ roots \subseteq Types
    /\ unrooted \subseteq roots
    /\ visited \subseteq Types
    /\ stack \in Seq(Types)
    /\ rest \in [Types -> SUBSET Types]
    /\ cycles \subseteq Seq(Types)

(* Before and after a search its local variables are empty. *)
NoSearch ==
    /\ roots = {} /\ unrooted = {} /\ visited = {} /\ stack = <<>>
    /\ rest = [t \in Types |-> {}]
    /\ cycles = {}

SearchReturns ==
    /\ roots' = {} /\ unrooted' = {} /\ visited' = {} /\ stack' = <<>>
    /\ rest' = [t \in Types |-> {}]
    /\ cycles' = {}

SearchBegin(registered) ==
    /\ roots' = registered
    /\ unrooted' = registered
    /\ visited' = {}
    /\ stack' = <<>>
    /\ rest' = reverse_dependencies
    /\ cycles' = {}

(* The start of dfs(node) for a node that was not visited. *)
Visit(n) ==
    /\ visited' = visited \cup {n}
    /\ stack' = Append(stack, n)

NextRoot(n) ==
    /\ stack = <<>>
    /\ n \in unrooted
    /\ unrooted' = unrooted \ {n}
    /\ \/ n \notin visited /\ Visit(n)
       \/ n \in visited /\ UNCHANGED <<visited, stack>>
    /\ UNCHANGED <<reverse_dependencies, roots, rest, cycles>>

(* MUTANT of CycleTo: the whole stack, not the part from the dependent on. *)
CycleToWhole(d) == Append(stack, d)

(* stack[stack.index(dependent):] + [dependent] *)
CycleTo(d) ==
    LET i == CHOOSE j \in 1..Len(stack) : stack[j] = d
    IN  Append(SubSeq(stack, i, Len(stack)), d)

(* MUTANT of ClosesCycle: a dependent seen before is skipped first. *)
ClosesCycleUnseen(d) == d \notin visited /\ d \in OnStack

ClosesCycle(d) == d \in OnStack

NextDependent(d) ==
    /\ stack # <<>>
    /\ d \in rest[Top]
    /\ rest' = [rest EXCEPT ![Top] = @ \ {d}]
    /\ \/ /\ ClosesCycle(d)
          /\ cycles' = cycles \cup {CycleTo(d)}
          /\ UNCHANGED <<visited, stack>>
       \/ /\ ~ClosesCycle(d)
          /\ d \notin visited
          /\ Visit(d)
          /\ UNCHANGED cycles
       \/ /\ ~ClosesCycle(d)
          /\ d \in visited
          /\ UNCHANGED <<visited, stack, cycles>>
    /\ UNCHANGED <<reverse_dependencies, roots, unrooted>>

(* The end of a call of dfs(). *)
Return ==
    /\ stack # <<>>
    /\ rest[Top] = {}
    /\ stack' = [i \in 1..Len(stack) - 1 |-> stack[i]]
    /\ UNCHANGED <<reverse_dependencies, roots, unrooted, visited, rest, cycles>>

SearchStep ==
    \/ \E n \in Types : NextRoot(n) \/ NextDependent(n)
    \/ Return

SearchEnded == stack = <<>> /\ unrooted = {}

----------------------------------------------------------------------------
(* If the search reports nothing, nothing reachable from a registered type *)
(* lies on a cycle: validation misses no circular dependency.              *)
NoCycleMissed ==
    SearchEnded /\ cycles = {} =>
        \A S \in SUBSET Reachable(reverse_dependencies, roots) : ~Cyclic(reverse_dependencies, S)

(* Every reported cycle is one: a closed walk along dependents edges. *)
CyclesReal ==
    \A c \in cycles :
        /\ Len(c) > 1
        /\ c[1] = c[Len(c)]
        /\ \A i \in 1..Len(c) - 1 : c[i + 1] \in reverse_dependencies[c[i]]

----------------------------------------------------------------------------
(* The strengthening that makes NoCycleMissed inductive. *)

Finished == visited \ OnStack

(* Calls are nested along edges and no node is entered twice. *)
StackIsPath ==
    /\ OnStack \subseteq visited
    /\ \A i, j \in 1..Len(stack) : stack[i] = stack[j] => i = j
    /\ \A i \in 1..Len(stack) - 1 : stack[i + 1] \in reverse_dependencies[stack[i]]

(* As long as no cycle was found, an edge that was followed leads to a     *)
(* finished node or to the call it made that is still running.             *)
EdgesFollowed ==
    cycles = {} =>
        /\ \A n \in Finished : reverse_dependencies[n] \subseteq Finished
        /\ \A i \in 1..Len(stack) : \A d \in reverse_dependencies[stack[i]] \ rest[stack[i]] :
              d \in Finished \/ (i < Len(stack) /\ d = stack[i + 1])

(* As long as no cycle was found, the finished nodes hold none. *)
FinishedAcyclic ==
    cycles = {} => \A S \in SUBSET Finished : ~Cyclic(reverse_dependencies, S)

RootsVisited == roots \ unrooted \subseteq visited

Untouched == \A n \in Types \ visited : rest[n] = reverse_dependencies[n]

RestInSucc == \A n \in Types : rest[n] \subseteq reverse_dependencies[n]

SearchInv ==
    /\ SearchTypeOK
    /\ StackIsPath
    /\ EdgesFollowed
    /\ FinishedAcyclic
    /\ RootsVisited
    /\ Untouched
    /\ RestInSucc
    /\ CyclesReal
=============================================================================
