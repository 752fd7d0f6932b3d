--------------------------- MODULE AgentRegistry ---------------------------
(***************************************************************************)
(* The agent registry of core/agent/registry.py.  Its writers hold the     *)
(* registry's RLock for their whole body, so register() and unregister()   *)
(* are single actions; initialize() holds it across many registrations and *)
(* the search for cycles, and is a sequence of steps during which no other *)
(* writer runs.                                                            *)
(***************************************************************************)
EXTENDS CircularDependencies

CONSTANTS
    Classes,   \* agent classes: a name, the types it depends on, whether
               \* its dependencies() raises, and whether it passes the checks
               \* of its base class and ConfigModel
    NoClass,   \* no entry under this type name
    Builtin,   \* the registrations of the built-in module, in dir() order
    Plugins    \* plugin modules: the registrations that executing the
               \* module makes through @register_agent, and all its classes

Class ==
    [name : Types, deps : SUBSET Types, raises : BOOLEAN, valid : BOOLEAN]

(* A call of register() *)
Registration == [cls : Classes, override : BOOLEAN]

ASSUME ClassesAssumption == Classes \subseteq Class /\ NoClass \notin Classes
ASSUME BuiltinAssumption == Builtin \in Seq(Classes)
ASSUME PluginsAssumption ==
    Plugins \subseteq [decorated : Seq(Registration), all : Seq(Classes)]

VARIABLES
    registry,              \* _registry: the class registered for each type
    initialized,           \* _initialized
    phase,                 \* what initialize() is doing; it holds the lock
                           \* unless the phase is "idle"
    todo,                  \* registrations initialize() is about to make
    unloaded               \* plugins initialize() has not loaded yet

vars == <<registry, initialized, phase, todo, unloaded, reverse_dependencies,
          roots, unrooted, visited, stack, rest, cycles>>

Registered == {a \in Types : registry[a] # NoClass}

(* The dependencies a registered class declares; none if it cannot tell. *)
Deps(a) == IF registry[a].raises THEN {} ELSE registry[a].deps

TypeOK ==
    /\ registry \in [Types -> Classes \cup {NoClass}]
    /\ reverse_dependencies \in [Types -> SUBSET Types]
    /\ initialized \in BOOLEAN
    /\ phase \in {"idle", "builtin", "plugins", "search"}
    /\ todo \in Seq(Registration)
    /\ unloaded \subseteq Plugins

Init ==
    /\ registry = [a \in Types |-> NoClass]
    /\ reverse_dependencies = [a \in Types |-> {}]
    /\ initialized = FALSE
    /\ phase = "idle"
    /\ todo = <<>>
    /\ unloaded = {}
    /\ NoSearch

----------------------------------------------------------------------------
(* _unsafe_register() *)

(* MUTANT of Requires: only dependencies that are registered get tracked. *)
RequiresResolved(cls, d) ==
    ~cls.raises /\ d \in cls.deps /\ registry[d] # NoClass

Requires(cls, d) == ~cls.raises /\ d \in cls.deps

(* The entry is stored first and the dependency graph extended after it,   *)
(* so a class whose dependencies() raises is registered and untracked.     *)
Enter(cls) ==
    /\ registry' = [registry EXCEPT ![cls.name] = cls]
    /\ reverse_dependencies' =
        [d \in Types |->
            IF Requires(cls, d)
            THEN reverse_dependencies[d] \cup {cls.name}
            ELSE reverse_dependencies[d]]

(* The checks that precede any change: a refused class changes nothing. *)
Accepts(cls, override) ==
    cls.valid /\ (registry[cls.name] = NoClass \/ override)

Register(cls, override) ==
    /\ phase = "idle"
    /\ Accepts(cls, override)
    /\ Enter(cls)
    /\ UNCHANGED <<initialized, phase, todo, unloaded>>
    /\ UNCHANGED locals

(* MUTANT of HasDependents: nothing is ever required. *)
HasDependentsNever(a) == FALSE

HasDependents(a) == reverse_dependencies[a] # {}

Unregister(a) ==
    /\ phase = "idle"
    /\ registry[a] # NoClass
    /\ ~HasDependents(a)
    /\ registry' = [registry EXCEPT ![a] = NoClass]
    /\ UNCHANGED <<reverse_dependencies, initialized, phase, todo, unloaded>>
    /\ UNCHANGED locals

----------------------------------------------------------------------------
(* initialize() *)

(* _register_module() registers the classes of a module, none with         *)
(* override.                                                               *)
RegisterModule(classes) ==
    [i \in 1..Len(classes) |-> [cls |-> classes[i], override |-> FALSE]]

(* The built-in module may not be found. *)
InitializeBegin ==
    /\ phase = "idle"
    /\ ~initialized
    /\ phase' = "builtin"
    /\ todo' \in {RegisterModule(Builtin), <<>>}
    /\ unloaded' = Plugins
    /\ UNCHANGED <<registry, reverse_dependencies, initialized>>
    /\ UNCHANGED locals

(* MUTANT of RegisterFails: the failing plugin is tried again. *)
RegisterFailsRetrying ==
    /\ phase' = IF phase = "builtin" THEN "idle" ELSE phase
    /\ todo' = IF phase = "builtin" THEN <<>> ELSE todo
    /\ UNCHANGED <<initialized, unloaded>>

(* A registration raises.  Nothing catches it among the built-in classes,  *)
(* so initialize() raises too; in a plugin it ends the loading of that     *)
(* plugin only.                                                            *)
RegisterFails ==
    /\ phase' = IF phase = "builtin" THEN "idle" ELSE phase
    /\ todo' = <<>>
    /\ UNCHANGED <<initialized, unloaded>>

RegisterNext ==
    /\ phase # "idle"
    /\ todo # <<>>
    /\ LET cls == Head(todo).cls
           accepted == Accepts(cls, Head(todo).override)
       IN  \/ /\ ~accepted
              /\ RegisterFails
              /\ UNCHANGED <<registry, reverse_dependencies>>
           \/ /\ accepted
              /\ Enter(cls)
              /\ IF cls.raises
                 THEN RegisterFails
                 ELSE todo' = Tail(todo) /\ UNCHANGED <<initialized, phase, unloaded>>
    /\ UNCHANGED locals

(* Executing a plugin registers its decorated classes; registering the     *)
(* module then starts over with all of them.                               *)
Registrations(plugin) == plugin.decorated \o RegisterModule(plugin.all)

(* exec_module() may raise after some of the decorated classes, or before  *)
(* the first of them, as when there is no such file.                       *)
Interrupted(plugin) == {SubSeq(plugin.decorated, 1, n) : n \in 0..Len(plugin.decorated)}

LoadPlugin(plugin) ==
    /\ phase # "idle"
    /\ todo = <<>>
    /\ plugin \in unloaded
    /\ phase' = "plugins"
    /\ unloaded' = unloaded \ {plugin}
    /\ todo' \in {Registrations(plugin)} \cup Interrupted(plugin)
    /\ UNCHANGED <<registry, reverse_dependencies, initialized>>
    /\ UNCHANGED locals

(* _validate_registry(): the search starts from the registered types. *)
ValidateBegin ==
    /\ phase \in {"builtin", "plugins"}
    /\ todo = <<>>
    /\ unloaded = {}
    /\ phase' = "search"
    /\ SearchBegin(Registered)
    /\ UNCHANGED <<registry, reverse_dependencies, initialized, todo, unloaded>>

ValidateSearch ==
    /\ phase = "search"
    /\ SearchStep
    /\ UNCHANGED <<registry, initialized, phase, todo, unloaded>>

(* MUTANT of Valid: a cycle is logged and not raised. *)
ValidAlways == TRUE

Valid == cycles = {}

(* A cycle among the reverse dependencies makes initialize() raise, with   *)
(* everything it registered still there.                                   *)
ValidateEnd ==
    /\ phase = "search"
    /\ SearchEnded
    /\ initialized' = Valid
    /\ phase' = "idle"
    /\ SearchReturns
    /\ UNCHANGED <<registry, reverse_dependencies, todo, unloaded>>

InitializeStep ==
    \/ RegisterNext
    \/ \E plugin \in Plugins : LoadPlugin(plugin)
    \/ ValidateBegin
    \/ ValidateSearch
    \/ ValidateEnd

----------------------------------------------------------------------------
Next ==
    \/ \E cls \in Classes, override \in BOOLEAN : Register(cls, override)
    \/ \E a \in Types : Unregister(a)
    \/ InitializeBegin
    \/ InitializeStep

(* The thread inside initialize() keeps running; nobody has to call it. *)
Spec == Init /\ [][Next]_vars /\ WF_vars(InitializeStep)

----------------------------------------------------------------------------
(* Whatever was registered, overridden and unregistered before, the        *)
(* dependencies of every registered class are in the reverse graph.        *)
DependentsTracked ==
    \A a \in Registered : \A d \in Deps(a) : a \in reverse_dependencies[d]

(* unregister() never takes away a type that another registered class      *)
(* depends on (registry.py:169-174).                                       *)
RequiredStaysRegistered ==
    [][\A d \in Types :
          registry[d] # NoClass /\ registry'[d] = NoClass
              => \A a \in Registered : d \notin Deps(a)]_vars

(* Every cycle of the reverse graph passes through a registered type, so   *)
(* the search of _detect_circular_dependencies, which starts from the      *)
(* registered types only, cannot miss one in spite of stale entries.       *)
CyclesAreRooted ==
    \A S \in SUBSET Types :
        Cyclic(reverse_dependencies, S) => S \cap Registered # {}

(* The reverse graph as the registered classes declare it now. *)
DependentsOf == [d \in Types |-> {a \in Registered : d \in Deps(a)}]

(* A registry becomes initialized only while the declared dependencies of  *)
(* its registered classes are free of cycles (registry.py:70-71).          *)
InitializedAcyclic ==
    [][~initialized /\ initialized' => ~HasCycle(DependentsOf)']_vars

(* initialize() returns or raises: it does not keep the lock for ever,     *)
(* whatever its modules contain, whichever plugins fail to load and        *)
(* however the graph it searches is cyclic.                                *)
InitializeReturns == phase # "idle" ~> phase = "idle"

(* What the error of unregister() says: a refused type is required by the  *)
(* registered classes it names (registry.py:172-174).                      *)
RefusalIsJustified ==
    \A d \in Registered : \A a \in reverse_dependencies[d] :
        a \in Registered /\ d \in Deps(a)
=============================================================================
