------------------------ MODULE AgentRegistryProofs ------------------------
(***************************************************************************)
(* Proofs about the agent registry for any agent types, classes, built-in  *)
(* module and plugins.                                                     *)
(***************************************************************************)
EXTENDS AgentRegistry, CircularDependenciesProofs, SequenceTheorems, TLAPS

(* What is to be registered, of a module and of a plugin. *)
LEMMA RegisterModuleType ==
    ASSUME NEW classes \in Seq(Classes)
    PROVE  RegisterModule(classes) \in Seq(Registration)
<1>1. Len(classes) \in Nat /\ \A i \in 1..Len(classes) : classes[i] \in Classes
  OBVIOUS
<1> DEFINE R == Registration
<1>2. \A i \in 1..Len(classes) : [cls |-> classes[i], override |-> FALSE] \in R
  BY <1>1 DEF Registration
<1> HIDE DEF R
<1>3. [i \in 1..Len(classes) |-> [cls |-> classes[i], override |-> FALSE]] \in Seq(R)
  BY <1>1, <1>2
<1> QED
  BY <1>3 DEF RegisterModule, R

LEMMA RegistrationsType ==
    ASSUME NEW plugin \in Plugins
    PROVE  /\ Registrations(plugin) \in Seq(Registration)
           /\ \A s \in Interrupted(plugin) : s \in Seq(Registration)
<1>1. plugin.decorated \in Seq(Registration) /\ plugin.all \in Seq(Classes)
  BY PluginsAssumption
<1>2. RegisterModule(plugin.all) \in Seq(Registration)
  BY <1>1, RegisterModuleType
<1> DEFINE R == Registration
           d == plugin.decorated
<1>3. d \in Seq(R) /\ RegisterModule(plugin.all) \in Seq(R)
  BY <1>1, <1>2
<1> HIDE DEF R, d
<1>4. d \o RegisterModule(plugin.all) \in Seq(R)
  BY <1>3
<1>5. ASSUME NEW n \in 0..Len(d)
      PROVE  SubSeq(d, 1, n) \in Seq(R)
  <2>1. n \in Int /\ 1 \in Int /\ \A i \in 1..n : d[i] \in R
    BY <1>3
  <2> QED
    BY <1>3, <2>1, SubSeqProperties
<1>6. \A s \in Interrupted(plugin) : \E n \in 0..Len(d) : s = SubSeq(d, 1, n)
  BY DEF Interrupted, d
<1>7. \A s \in Interrupted(plugin) : s \in Seq(R)
  BY <1>5, <1>6
<1> QED
  BY <1>4, <1>7 DEF Registrations, R, d

LEMMA NextRegistration ==
    ASSUME TypeOK, todo # <<>>
    PROVE  Head(todo).cls \in Classes /\ Tail(todo) \in Seq(Registration)
<1> DEFINE R == Registration
<1>1. todo \in Seq(R) /\ todo # <<>>
  BY DEF TypeOK
<1> HIDE DEF R
<1>2. Head(todo) \in R /\ Tail(todo) \in Seq(R)
  BY <1>1
<1> QED
  BY <1>2 DEF R, Registration

(* What a registration does to the registry and to the reverse graph. *)
LEMMA EnterType ==
    ASSUME TypeOK, NEW cls \in Classes, Enter(cls)
    PROVE  /\ registry' \in [Types -> Classes \cup {NoClass}]
           /\ reverse_dependencies' \in [Types -> SUBSET Types]
<1>1. cls.name \in Types
  BY ClassesAssumption DEF Class
<1> QED
  BY <1>1 DEF TypeOK, Enter, Requires

(* Every step of the registry either registers one class, unregisters one  *)
(* type without dependents, or leaves registry and graph alone.            *)
LEMMA RegistryStep ==
    ASSUME TypeOK, [Next]_vars
    PROVE  \/ \E cls \in Classes : Enter(cls)
           \/ \E a \in Types :
                /\ reverse_dependencies[a] = {}
                /\ registry' = [registry EXCEPT ![a] = NoClass]
                /\ UNCHANGED reverse_dependencies
           \/ UNCHANGED <<registry, reverse_dependencies>>
<1>1. ASSUME NEW cls \in Classes, NEW override \in BOOLEAN,
             Register(cls, override)
      PROVE  \E k \in Classes : Enter(k)
  BY <1>1 DEF Register
<1>2. ASSUME NEW a \in Types, Unregister(a)
      PROVE  \E b \in Types :
                /\ reverse_dependencies[b] = {}
                /\ registry' = [registry EXCEPT ![b] = NoClass]
                /\ UNCHANGED reverse_dependencies
  BY <1>2 DEF Unregister, HasDependents
<1>3. ASSUME RegisterNext
      PROVE  \/ \E cls \in Classes : Enter(cls)
             \/ UNCHANGED <<registry, reverse_dependencies>>
  <2>1. Head(todo).cls \in Classes
    BY <1>3, NextRegistration DEF RegisterNext
  <2> QED
    BY <1>3, <2>1 DEF RegisterNext
<1>4. ASSUME \/ InitializeBegin \/ ValidateBegin \/ ValidateSearch \/ ValidateEnd
             \/ \E p \in Plugins : LoadPlugin(p)
      PROVE  UNCHANGED <<registry, reverse_dependencies>>
  BY <1>4 DEF InitializeBegin, ValidateBegin, ValidateSearch, ValidateEnd, Valid,
              LoadPlugin, SearchStep, NextRoot, NextDependent, ClosesCycle, Return
<1>5. CASE UNCHANGED vars
  BY <1>5 DEF vars
<1> QED
  BY <1>1, <1>2, <1>3, <1>4, <1>5 DEF Next, InitializeStep

(* Every action of the registry keeps its variables within their types. *)
LEMMA TypeStep == TypeOK /\ [Next]_vars => TypeOK'
<1> SUFFICES ASSUME TypeOK, [Next]_vars PROVE TypeOK'
  OBVIOUS
<1>1. ASSUME NEW cls \in Classes, NEW override \in BOOLEAN,
             Register(cls, override)
      PROVE  TypeOK'
  <2>1. /\ registry' \in [Types -> Classes \cup {NoClass}]
        /\ reverse_dependencies' \in [Types -> SUBSET Types]
    BY <1>1, EnterType DEF Register
  <2> QED
    BY <1>1, <2>1 DEF Register, TypeOK
<1>2. ASSUME NEW a \in Types, Unregister(a) PROVE TypeOK'
  BY <1>2 DEF Unregister, HasDependents, TypeOK
<1>3. ASSUME InitializeBegin PROVE TypeOK'
  <2>1. RegisterModule(Builtin) \in Seq(Registration) /\ <<>> \in Seq(Registration)
    BY BuiltinAssumption, RegisterModuleType
  <2>2. todo' \in Seq(Registration)
    BY <1>3, <2>1 DEF InitializeBegin
  <2> QED
    BY <1>3, <2>2 DEF InitializeBegin, TypeOK
<1>4. ASSUME RegisterNext PROVE TypeOK'
  <2>1. Head(todo).cls \in Classes /\ Tail(todo) \in Seq(Registration)
    BY <1>4, NextRegistration DEF RegisterNext
  <2>2. /\ registry' \in [Types -> Classes \cup {NoClass}]
        /\ reverse_dependencies' \in [Types -> SUBSET Types]
    <3>1. CASE Enter(Head(todo).cls)
      BY <3>1, <2>1, EnterType
    <3>2. CASE UNCHANGED <<registry, reverse_dependencies>>
      BY <3>2 DEF TypeOK
    <3> QED
      BY <1>4, <3>1, <3>2 DEF RegisterNext
  <2>3. <<>> \in Seq(Registration)
    OBVIOUS
  <2>4. /\ initialized' \in BOOLEAN
        /\ phase' \in {"idle", "builtin", "plugins", "search"}
        /\ todo' \in Seq(Registration)
        /\ unloaded' \subseteq Plugins
    <3>1. CASE RegisterFails
      BY <3>1, <2>3 DEF RegisterFails, TypeOK
    <3>2. CASE todo' = Tail(todo) /\ UNCHANGED <<initialized, phase, unloaded>>
      BY <3>2, <2>1 DEF TypeOK
    <3> QED
      BY <1>4, <3>1, <3>2 DEF RegisterNext
  <2> QED
    BY <2>2, <2>4 DEF TypeOK
<1>5. ASSUME NEW p \in Plugins, LoadPlugin(p) PROVE TypeOK'
  <2>1. todo' \in Seq(Registration)
    BY <1>5, RegistrationsType DEF LoadPlugin
  <2> QED
    BY <1>5, <2>1 DEF LoadPlugin, TypeOK
<1>6. ASSUME ValidateBegin \/ ValidateSearch \/ ValidateEnd PROVE TypeOK'
  <2>1. CASE ValidateBegin
    BY <2>1 DEF ValidateBegin, TypeOK
  <2>2. CASE ValidateSearch
    <3>1. UNCHANGED reverse_dependencies
      BY <2>2 DEF ValidateSearch, SearchStep, NextRoot, NextDependent, ClosesCycle, Return
    <3> QED
      BY <2>2, <3>1 DEF ValidateSearch, TypeOK
  <2>3. CASE ValidateEnd
    <3>1. initialized' \in BOOLEAN
      BY <2>3 DEF ValidateEnd, Valid
    <3> QED
      BY <2>3, <3>1 DEF ValidateEnd, Valid, TypeOK
  <2> QED
    BY <1>6, <2>1, <2>2, <2>3
<1>7. CASE UNCHANGED vars
  BY <1>7 DEF vars, TypeOK
<1> QED
  BY <1>1, <1>2, <1>3, <1>4, <1>5, <1>6, <1>7 DEF Next, InitializeStep

(* The registry's dictionaries keep their types through registrations,     *)
(* overrides, failures and initialization.                                 *)
THEOREM TypeCorrect == Spec => []TypeOK
<1>1. Init => TypeOK
  <2>1. <<>> \in Seq(Registration)
    OBVIOUS
  <2> QED
    BY <2>1 DEF Init, TypeOK
<1> QED
  BY <1>1, TypeStep, PTL DEF Spec

----------------------------------------------------------------------------
(* An override keeps the entries of the class it replaces and adds its     *)
(* own; unregistering only takes away obligations.                         *)
LEMMA TrackedStep ==
    TypeOK /\ DependentsTracked /\ [Next]_vars => DependentsTracked'
<1> SUFFICES ASSUME TypeOK, DependentsTracked, [Next]_vars
             PROVE  DependentsTracked'
  OBVIOUS
<1> USE DEF TypeOK, DependentsTracked, Registered, Deps
<1>1. ASSUME NEW cls \in Classes, Enter(cls) PROVE DependentsTracked'
  <2>1. /\ cls.name \in Types /\ cls.deps \subseteq Types
        /\ cls.raises \in BOOLEAN
    BY ClassesAssumption DEF Class
  <2>2. \A k \in Classes : k.deps \subseteq Types
    BY ClassesAssumption DEF Class
  <2>3. SUFFICES ASSUME NEW a \in Types, registry'[a] # NoClass,
                        ~registry'[a].raises,
                        NEW d \in registry'[a].deps
                 PROVE  a \in reverse_dependencies'[d]
    OBVIOUS
  <2>4. CASE a = cls.name
    BY <1>1, <2>1, <2>3, <2>4 DEF Enter, Requires
  <2>5. CASE a # cls.name
    <3>1. registry'[a] = registry[a]
      BY <1>1, <2>5 DEF Enter, Requires
    <3>2. d \in Types /\ a \in reverse_dependencies[d]
      BY <2>2, <2>3, <3>1
    <3> QED
      BY <1>1, <3>2 DEF Enter, Requires
  <2> QED
    BY <2>4, <2>5
<1>2. ASSUME NEW a \in Types, registry' = [registry EXCEPT ![a] = NoClass],
             UNCHANGED reverse_dependencies
      PROVE  DependentsTracked'
  BY <1>2
<1>3. CASE UNCHANGED <<registry, reverse_dependencies>>
  BY <1>3
<1> QED
  BY <1>1, <1>2, <1>3, RegistryStep

(* The reverse graph always holds the dependencies of every registered     *)
(* class, however classes were registered, overridden and unregistered.    *)
THEOREM Tracked == Spec => []DependentsTracked
<1>1. Init => DependentsTracked
  BY DEF Init, DependentsTracked, Registered
<1> QED
  BY <1>1, TrackedStep, TypeCorrect, PTL DEF Spec

(* unregister() never removes a type that a registered class needs. *)
THEOREM RequiredStays == Spec => RequiredStaysRegistered
<1>1. TypeOK /\ DependentsTracked /\ [Next]_vars =>
        [\A d \in Types :
          registry[d] # NoClass /\ registry'[d] = NoClass
              => \A a \in Registered : d \notin Deps(a)]_vars
  <2> SUFFICES ASSUME TypeOK, DependentsTracked, [Next]_vars,
                      NEW d \in Types, registry[d] # NoClass,
                      registry'[d] = NoClass,
                      NEW a \in Registered
               PROVE  d \notin Deps(a)
    OBVIOUS
  <2>1. ASSUME NEW cls \in Classes, Enter(cls) PROVE FALSE
    BY <2>1, ClassesAssumption DEF Enter, Requires, TypeOK
  <2>2. reverse_dependencies[d] = {}
    BY <2>1, RegistryStep DEF TypeOK
  <2> QED
    BY <2>2 DEF DependentsTracked
<1> QED
  BY <1>1, Tracked, TypeCorrect, PTL DEF Spec, RequiredStaysRegistered

----------------------------------------------------------------------------
(* A new cycle passes through the type that was just registered, and a     *)
(* type on a cycle has dependents, so it cannot be unregistered.           *)
LEMMA RootedStep ==
    TypeOK /\ CyclesAreRooted /\ [Next]_vars => CyclesAreRooted'
<1> SUFFICES ASSUME TypeOK, CyclesAreRooted, [Next]_vars,
                    NEW S \in SUBSET Types, Cyclic(reverse_dependencies, S)'
             PROVE  (S \cap Registered # {})'
  BY DEF CyclesAreRooted
<1> USE DEF TypeOK, Registered
<1>1. ASSUME NEW cls \in Classes, Enter(cls)
      PROVE  (S \cap Registered # {})'
  <2>1. cls.name \in Types /\ cls # NoClass
    BY ClassesAssumption DEF Class
  <2>2. registry'[cls.name] # NoClass
    BY <1>1, <2>1 DEF Enter, Requires
  <2>3. CASE cls.name \in S
    BY <2>1, <2>2, <2>3
  <2>4. CASE cls.name \notin S
    <3>1. \A x \in S : reverse_dependencies'[x] \cap S
                         = reverse_dependencies[x] \cap S
      BY <1>1, <2>4 DEF Enter, Requires
    <3>2. Cyclic(reverse_dependencies, S)
      BY <3>1 DEF Cyclic
    <3>3. PICK x \in S : registry[x] # NoClass
      BY <3>2 DEF CyclesAreRooted
    <3>4. registry'[x] # NoClass
      BY <1>1, <2>4, <3>3 DEF Enter, Requires
    <3> QED
      BY <3>4
  <2> QED
    BY <2>3, <2>4
<1>2. ASSUME NEW a \in Types, reverse_dependencies[a] = {},
             registry' = [registry EXCEPT ![a] = NoClass],
             UNCHANGED reverse_dependencies
      PROVE  (S \cap Registered # {})'
  <2>1. Cyclic(reverse_dependencies, S)
    BY <1>2 DEF Cyclic
  <2>2. a \notin S
    BY <1>2, <2>1 DEF Cyclic
  <2>3. PICK x \in S : registry[x] # NoClass
    BY <2>1 DEF CyclesAreRooted
  <2> QED
    BY <1>2, <2>2, <2>3
<1>3. CASE UNCHANGED <<registry, reverse_dependencies>>
  BY <1>3 DEF CyclesAreRooted, Cyclic
<1> QED
  BY <1>1, <1>2, <1>3, RegistryStep

(* Stale entries never make a cycle that the search for circular           *)
(* dependencies, which starts from registered types, would not reach.      *)
THEOREM Rooted == Spec => []CyclesAreRooted
<1>1. Init => CyclesAreRooted
  BY DEF Init, CyclesAreRooted, Cyclic
<1> QED
  BY <1>1, RootedStep, TypeCorrect, PTL DEF Spec

----------------------------------------------------------------------------
(* While initialize() searches, the search is about the registry as it is: *)
(* nobody else writes, since initialize() holds the lock.                  *)
Searching ==
    IF phase = "search" THEN SearchInv /\ roots = Registered ELSE NoSearch

(* A search begins when everything is loaded, so nothing is registered or  *)
(* loaded during one.                                                      *)
Loaded == phase = "search" => todo = <<>> /\ unloaded = {}

(* Only ValidateBegin enters the search, and no step of it loads anything. *)
LEMMA LoadedStep == Loaded /\ [Next]_vars => Loaded'
<1> SUFFICES ASSUME Loaded, [Next]_vars PROVE Loaded'
  OBVIOUS
<1> USE DEF Loaded
<1>1. ASSUME NEW cls \in Classes, NEW override \in BOOLEAN,
             Register(cls, override)
      PROVE  Loaded'
  BY <1>1 DEF Register
<1>2. ASSUME NEW a \in Types, Unregister(a) PROVE Loaded'
  BY <1>2 DEF Unregister, HasDependents
<1>3. ASSUME InitializeBegin PROVE Loaded'
  BY <1>3 DEF InitializeBegin
<1>4. ASSUME RegisterNext PROVE Loaded'
  BY <1>4 DEF RegisterNext, RegisterFails
<1>5. ASSUME NEW p \in Plugins, LoadPlugin(p) PROVE Loaded'
  BY <1>5 DEF LoadPlugin
<1>6. ASSUME ValidateBegin \/ ValidateSearch \/ ValidateEnd PROVE Loaded'
  BY <1>6 DEF ValidateBegin, ValidateSearch, ValidateEnd, Valid
<1>7. CASE UNCHANGED vars
  BY <1>7 DEF vars
<1> QED
  BY <1>1, <1>2, <1>3, <1>4, <1>5, <1>6, <1>7 DEF Next, InitializeStep

(* Every step keeps Searching. *)
LEMMA SearchingStep ==
    TypeOK /\ Loaded /\ Searching /\ [Next]_vars => Searching'
<1> SUFFICES ASSUME TypeOK, Loaded, Searching, [Next]_vars
             PROVE  Searching'
  OBVIOUS
<1>1. ASSUME UNCHANGED locals, phase # "search", phase' # "search"
      PROVE  Searching'
  BY <1>1 DEF locals, Searching, NoSearch
<1>2. ASSUME NEW cls \in Classes, NEW override \in BOOLEAN,
             Register(cls, override)
      PROVE  Searching'
  BY <1>1, <1>2 DEF Register
<1>3. ASSUME NEW a \in Types, Unregister(a) PROVE Searching'
  BY <1>1, <1>3 DEF Unregister, HasDependents
<1>4. ASSUME InitializeBegin PROVE Searching'
  BY <1>1, <1>4 DEF InitializeBegin
<1>5. ASSUME RegisterNext PROVE Searching'
  <2>1. UNCHANGED locals /\ phase # "search" /\ phase' # "search"
    BY <1>5 DEF RegisterNext, RegisterFails, Loaded
  <2> QED
    BY <1>1, <1>5, <2>1
<1>6. ASSUME NEW p \in Plugins, LoadPlugin(p) PROVE Searching'
  BY <1>1, <1>6 DEF LoadPlugin, Loaded
<1>7. ASSUME ValidateBegin PROVE Searching'
  <2>1. /\ SearchBegin(Registered) /\ phase' = "search"
        /\ UNCHANGED <<registry, reverse_dependencies>>
    BY <1>7 DEF ValidateBegin
  <2>2. Registered \in SUBSET Types /\ Registered' = Registered
    BY <2>1 DEF Registered
  <2>3. SearchInv'
    BY <2>1, <2>2, SearchInvBegin DEF TypeOK
  <2>4. roots' = Registered
    BY <2>1 DEF SearchBegin
  <2> QED
    BY <2>1, <2>2, <2>3, <2>4 DEF Searching
<1>8. ASSUME ValidateSearch PROVE Searching'
  <2>1. /\ phase = "search" /\ phase' = "search"
        /\ SearchStep /\ UNCHANGED registry
    BY <1>8 DEF ValidateSearch
  <2>2. SearchInv /\ roots = Registered
    BY <2>1 DEF Searching
  <2>3. SearchInv'
    BY <2>1, <2>2, SearchInvStep
  <2>4. roots' = roots
    BY <2>1 DEF SearchStep, NextRoot, NextDependent, ClosesCycle, Return
  <2>5. Registered' = Registered
    BY <2>1 DEF Registered
  <2> QED
    BY <2>1, <2>2, <2>3, <2>4, <2>5 DEF Searching
<1>9. ASSUME ValidateEnd PROVE Searching'
  BY <1>9 DEF ValidateEnd, Valid, SearchReturns, Searching, NoSearch
<1>10. CASE UNCHANGED vars
  <2>1. UNCHANGED <<registry, phase>> /\ UNCHANGED searchVars
    BY <1>10 DEF vars, searchVars
  <2>2. CASE phase = "search"
    <3>1. SearchInv'
      BY <2>1, <2>2, SearchInvStep DEF Searching
    <3>2. roots' = Registered'
      BY <2>1, <2>2 DEF Searching, Registered, searchVars
    <3> QED
      BY <2>1, <2>2, <3>1, <3>2 DEF Searching
  <2>3. CASE phase # "search"
    BY <2>1, <2>3 DEF Searching, NoSearch, searchVars
  <2> QED
    BY <2>2, <2>3
<1> QED
  BY <1>2, <1>3, <1>4, <1>5, <1>6, <1>7, <1>8, <1>9, <1>10
     DEF Next, InitializeStep

(* The search is about the registered types and the reverse graph as they  *)
(* are at that moment.                                                     *)
LEMMA SearchInvariant == Spec => []Searching
<1>1. Init => Loaded /\ Searching
  BY DEF Init, Loaded, Searching
<1> QED
  BY <1>1, LoadedStep, SearchingStep, TypeCorrect, PTL DEF Spec

(* If _detect_circular_dependencies returns no cycle, nothing reachable    *)
(* from a registered type lies on one, whatever the graph and the order in *)
(* which sets are iterated.                                                *)
THEOREM Complete == Spec => []NoCycleMissed
<1>1. TypeOK /\ Searching => NoCycleMissed
  <2> SUFFICES ASSUME TypeOK, Searching PROVE NoCycleMissed
    OBVIOUS
  <2>1. CASE phase = "search"
    BY <2>1, SearchComplete DEF Searching
  <2>2. CASE phase # "search"
    <3>1. roots = {}
      BY <2>2 DEF Searching, NoSearch
    <3>2. Reachable(reverse_dependencies, roots) = {}
      BY <3>1 DEF Reachable
    <3> QED
      BY <3>2 DEF NoCycleMissed, Cyclic
  <2> QED
    BY <2>1, <2>2
<1> QED
  BY <1>1, SearchInvariant, TypeCorrect, PTL

(* Every cycle that _detect_circular_dependencies returns is a cycle. *)
THEOREM Sound == Spec => []CyclesReal
<1>1. Searching => CyclesReal
  BY DEF Searching, SearchInv, NoSearch, CyclesReal
<1> QED
  BY <1>1, SearchInvariant, PTL

(* initialize() succeeds only when the registered classes have no circular *)
(* dependency: the search misses none, and stale entries of the reverse    *)
(* graph only add edges.                                                   *)
THEOREM Acyclic == Spec => InitializedAcyclic
<1>1. TypeOK /\ Searching /\ DependentsTracked /\ [Next]_vars =>
        [~initialized /\ initialized' => ~HasCycle(DependentsOf)']_vars
  <2> SUFFICES ASSUME TypeOK, Searching, DependentsTracked, [Next]_vars,
                      ~initialized, initialized'
               PROVE  ~HasCycle(DependentsOf)'
    OBVIOUS
  <2>1. ValidateEnd
    BY DEF Next, vars, Register, Unregister, HasDependents, InitializeBegin, InitializeStep,
           RegisterNext, RegisterFails, LoadPlugin, ValidateBegin, ValidateSearch
  <2>2. /\ SearchInv /\ roots = Registered /\ SearchEnded /\ cycles = {}
        /\ UNCHANGED <<registry, reverse_dependencies>>
    BY <2>1 DEF ValidateEnd, Valid, Searching
  <2>3. DependentsOf' = DependentsOf
    BY <2>2 DEF DependentsOf, Registered, Deps
  <2>4. SUFFICES ASSUME NEW S \in SUBSET Types, Cyclic(DependentsOf, S)
                 PROVE  FALSE
    BY <2>3 DEF HasCycle, DependentsOf
  <2> DEFINE R == S \cap Registered
  <2>5. \A x \in S : \E a \in R : a \in reverse_dependencies[x]
    <3> SUFFICES ASSUME NEW x \in S
                 PROVE  \E a \in R : a \in reverse_dependencies[x]
      OBVIOUS
    <3>1. PICK a \in S : a \in DependentsOf[x]
      BY <2>4 DEF Cyclic
    <3>2. a \in Registered /\ x \in Deps(a)
      BY <3>1 DEF DependentsOf
    <3> QED
      BY <3>2 DEF DependentsTracked
  <2>6. Cyclic(reverse_dependencies, R)
    BY <2>4, <2>5 DEF Cyclic
  <2>7. R \subseteq Reachable(reverse_dependencies, roots)
    BY <2>2 DEF Reachable, TypeOK
  <2>8. ~Cyclic(reverse_dependencies, R)
    BY <2>2, <2>7, SearchComplete DEF NoCycleMissed
  <2> QED
    BY <2>6, <2>8
<1> QED
  BY <1>1, SearchInvariant, Tracked, TypeCorrect, PTL DEF Spec, InitializedAcyclic
=============================================================================
