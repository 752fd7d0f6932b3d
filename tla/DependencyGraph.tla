-------------------------- MODULE DependencyGraph --------------------------
(***************************************************************************)
(* Reference definitions on directed graphs given as a successor function: *)
(* what the depth-first search of core/agent/registry.py is meant to       *)
(* find.                                                                   *)
(***************************************************************************)
EXTENDS Integers, FiniteSets

(* In a finite graph a nonempty set each of whose nodes has a successor in *)
(* the set contains a cycle, and the nodes of a cycle form such a set.     *)
Cyclic(succ, S) == S # {} /\ \A x \in S : succ[x] \cap S # {}

HasCycle(succ) == \E S \in SUBSET DOMAIN succ : Cyclic(succ, S)

(* The nodes reachable from roots: the least set that holds the roots and  *)
(* is closed under successors.                                             *)
Reachable(succ, roots) ==
    LET Closed == {S \in SUBSET DOMAIN succ :
                       roots \subseteq S /\ \A x \in S : succ[x] \subseteq S}
    IN  {x \in DOMAIN succ : \A S \in Closed : x \in S}
=============================================================================
