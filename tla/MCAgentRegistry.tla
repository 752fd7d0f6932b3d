-------------------------- MODULE MCAgentRegistry --------------------------
(* A registry of three agent types for TLC. *)
EXTENDS AgentRegistry

CONSTANTS A, B, C

MCTypes == {A, B, C}

Make(name, deps) ==
    [name |-> name, deps |-> deps, raises |-> FALSE, valid |-> TRUE]

(* A class that cannot list its dependencies, and one without ConfigModel. *)
BrokenA == [name |-> A, deps |-> {}, raises |-> TRUE, valid |-> TRUE]
InvalidA == [name |-> A, deps |-> {}, raises |-> FALSE, valid |-> FALSE]

(* Every type comes in versions with at most one dependency and A also in  *)
(* one with two, so that overrides leave every kind of stale entry behind. *)
MCClasses ==
    {Make(name, deps) : name \in MCTypes, deps \in {{}, {A}, {B}, {C}}}
        \cup {Make(A, {B, C}), BrokenA, InvalidA}

MCBuiltin == <<Make(A, {B})>>

(* Executing the first plugin overrides B; its module then begins with a   *)
(* class that is refused, or registered without its dependencies.  The     *)
(* second closes the cycle unless one of its classes is refused.           *)
MCPlugins ==
    {[decorated |-> <<[cls |-> Make(B, {C}), override |-> TRUE]>>,
      all |-> <<BrokenA, Make(B, {C})>>],
     [decorated |-> <<>>, all |-> <<Make(B, {C}), Make(C, {A})>>]}
=============================================================================
