---------------------------- MODULE ControlProofs --------------------------
(* Proofs about the control plane, for any values of the constants: the    *)
(* lifecycle manager, the workflow validator and its search for cycles,    *)
(* the annealing optimizer, the cloud managers, the Vault client and the   *)
(* deployment engine.                                                      *)
EXTENDS MCControl, FiniteSetTheorems, SequenceTheorems, WellFoundedInduction, TLAPS

----------------------------------------------------------------------------
(* The Vault client *)

CallState == [op : {"none", "read", "write", "login", "other"},
              at : {"idle", "sent", "executed"}, tries : Nat, answer : Nat]

VaultType ==
    /\ secret \in Nat /\ cache \in Nat /\ window \in BOOLEAN
    /\ call \in [Callers -> CallState]

(* No answer to a read is newer than the version Vault holds, and outside  *)
(* the window none is older.                                               *)
Answers == \A c \in Callers : call[c].op = "read" /\ call[c].at = "executed" =>
    /\ call[c].answer <= secret
    /\ ~window => call[c].answer = secret

VaultInv == VaultType /\ Answers /\ CacheCoherent

(* A caller that has no answer in hand disturbs no other.                  *)
LEMMA CallerMoves ==
    ASSUME VaultInv, NEW c \in Callers, NEW new \in CallState,
           call' = [call EXCEPT ![c] = new], new.at # "executed",
           UNCHANGED <<secret, cache, window>>
    PROVE  VaultInv'
  <1>1. VaultType'
    BY DEF VaultInv, VaultType
  <1>2. Answers'
    BY DEF VaultInv, VaultType, Answers
  <1> QED
    BY <1>1, <1>2 DEF VaultInv, CacheCoherent

LEMMA IdleCaller == Idle \in CallState /\ Idle.at = "idle"
  BY DEF Idle, CallState, NoEntry

(* Outside the window that a write opens read_secret() serves the version  *)
(* Vault holds, for any number of callers, retries and writes              *)
(* (vault.py: read_secret, write_secret and _request).                     *)
THEOREM VaultCacheCoherent == VaultSpec => []CacheCoherent
  <1>1. VaultInit => VaultInv
    <2> SUFFICES ASSUME VaultInit
                 PROVE  VaultInv
      OBVIOUS
    <2>1. VaultType
      BY IdleCaller DEF VaultInit, VaultType, NoEntry
    <2>2. Answers
      BY IdleCaller DEF VaultInit, Answers
    <2> QED
      BY <2>1, <2>2 DEF VaultInit, VaultInv, CacheCoherent
  <1>2. VaultInv /\ [VaultNext]_vaultVars => VaultInv'
    <2> SUFFICES ASSUME VaultInv, [VaultNext]_vaultVars
                 PROVE  VaultInv'
      OBVIOUS
    <2>1. CASE UNCHANGED <<secret, cache, call, window>>
      BY <2>1 DEF VaultInv, VaultType, Answers, CacheCoherent
    <2>2. CASE Expire
      BY <2>2 DEF Expire, NoEntry, VaultInv, VaultType, Answers, CacheCoherent
    <2>3. ASSUME NEW c \in Callers, NEW op \in {"read", "write", "login", "other"}, Ask(c, op)
          PROVE  VaultInv'
      <3>1. [Idle EXCEPT !.op = op, !.at = "sent"] \in CallState
        BY <2>3 DEF Idle, CallState, NoEntry
      <3>2. [Idle EXCEPT !.op = op, !.at = "sent"].at # "executed"
        BY DEF Idle
      <3> QED
        BY <2>3, <3>1, <3>2, CallerMoves DEF Ask
    <2>4. ASSUME NEW c \in Callers, ErrorStatus(c) \/ NoResponse(c)
          PROVE  VaultInv'
      <3> DEFINE again == [call[c] EXCEPT !.at = "sent", !.tries = @ + 1, !.answer = 0]
      <3>1. call[c] \in CallState
        BY DEF VaultInv, VaultType
      <3>2. again \in CallState /\ again.at # "executed"
        <4>1. call[c].tries + 1 \in Nat
          BY <3>1 DEF CallState
        <4>2. again \in CallState
          BY <3>1, <4>1 DEF CallState
        <4>3. again.at = "sent"
          BY <3>1 DEF CallState
        <4> QED
          BY <4>2, <4>3
      <3>3. \/ call' = [call EXCEPT ![c] = Idle]
            \/ call' = [call EXCEPT ![c] = again]
        BY <2>4, <3>1 DEF ErrorStatus, NoResponse, Return, VaultInv, VaultType, NoEntry
      <3>4. UNCHANGED <<secret, cache, window>>
        BY <2>4 DEF ErrorStatus, NoResponse
      <3> HIDE DEF again
      <3> QED
        BY <3>2, <3>3, <3>4, IdleCaller, CallerMoves
    <2>5. ASSUME NEW c \in Callers, Execute(c)
          PROVE  VaultInv'
      <3> DEFINE got == IF call[c].op = "read" THEN secret ELSE 0
                 done == [call[c] EXCEPT !.at = "executed", !.answer = got]
      <3>1. call[c] \in CallState /\ secret \in Nat
        BY DEF VaultInv, VaultType
      <3>2. done \in CallState /\ done.op = call[c].op
        BY <3>1 DEF CallState
      <3>3. call[c].op = "read" => done.answer = secret
        BY <3>1 DEF CallState
      <3>4. call' = [call EXCEPT ![c] = done]
        BY <2>5, <3>1 DEF Execute, VaultInv, VaultType, NoEntry
      <3> HIDE DEF done
      <3>5. VaultType'
        <4>1. secret' \in Nat /\ cache' \in Nat
          BY <2>5 DEF Execute, VaultInv, VaultType
        <4>2. window' \in BOOLEAN
          BY <2>5 DEF Execute
        <4>3. call' \in [Callers -> CallState]
          BY <3>2, <3>4 DEF VaultInv, VaultType
        <4> QED
          BY <4>1, <4>2, <4>3 DEF VaultType
      <3>6. CASE call[c].op = "write"
        <4>1. window' /\ secret' = secret + 1
          BY <2>5, <3>6 DEF Execute
        <4>2. Answers'
          BY <3>1, <3>2, <3>4, <3>6, <4>1 DEF VaultInv, VaultType, Answers, CallState
        <4> QED
          BY <3>5, <4>1, <4>2 DEF VaultInv, CacheCoherent
      <3>7. CASE call[c].op # "write"
        <4>1. UNCHANGED <<secret, cache>> /\ window' = window
          BY <2>5, <3>7 DEF Execute, VaultInv, VaultType
        <4>2. Answers'
          BY <3>1, <3>2, <3>3, <3>4, <3>7, <4>1 DEF VaultInv, VaultType, Answers, CallState
        <4> QED
          BY <3>5, <4>1, <4>2 DEF VaultInv, CacheCoherent
      <3> QED
        BY <3>6, <3>7
    <2>6. ASSUME NEW c \in Callers, Answered(c)
          PROVE  VaultInv'
      <3>1. call[c] \in CallState /\ call' = [call EXCEPT ![c] = Idle]
        BY <2>6 DEF Answered, Return, VaultInv, VaultType
      <3>2. \A r \in Callers : /\ call'[r] = IF r = c THEN Idle ELSE call[r]
                               /\ call[r] \in CallState
        BY <3>1 DEF VaultInv, VaultType
      <3>3. UNCHANGED secret
        BY <2>6 DEF Answered
      <3>4. CASE call[c].op = "write"
        <4>1. cache' = 0 /\ window' = \E r \in Callers : OldAnswer(r)
          BY <2>6, <3>4 DEF Answered, AfterWrite, NoEntry
        <4>2. VaultType'
          BY <3>1, <3>3, <4>1, IdleCaller DEF VaultInv, VaultType
        <4>3. Answers'
          BY <3>2, <3>3, <4>1, IdleCaller DEF VaultInv, VaultType, Answers, OldAnswer, CallState
        <4> QED
          BY <4>1, <4>2, <4>3 DEF VaultInv, CacheCoherent, NoEntry
      <3>5. CASE call[c].op # "write"
        <4>1. cache' = IF call[c].op = "read" THEN call[c].answer ELSE cache
          BY <2>6, <3>5 DEF Answered
        <4>2. window' = window
          BY <2>6, <3>5 DEF Answered
        <4>3. VaultType'
          BY <3>1, <3>3, <4>1, <4>2, IdleCaller DEF VaultInv, VaultType, CallState
        <4>4. Answers'
          BY <3>2, <3>3, <4>2, IdleCaller DEF VaultInv, Answers
        <4>5. CacheCoherent'
          <5>1. call[c].at = "executed" /\ Answers /\ CacheCoherent
            BY <2>6 DEF Answered, VaultInv
          <5>2. ~window => cache' \in {0, secret}
            BY <4>1, <5>1 DEF Answers, CacheCoherent, NoEntry
          <5> QED
            BY <3>3, <4>2, <5>2 DEF CacheCoherent, NoEntry
        <4> QED
          BY <4>3, <4>4, <4>5 DEF VaultInv
      <3> QED
        BY <3>4, <3>5
    <2> QED
      BY <2>1, <2>2, <2>3, <2>4, <2>5, <2>6 DEF VaultNext, vaultVars, Session, UseToken
  <1>3. VaultInv => CacheCoherent
    BY DEF VaultInv
  <1> QED
    BY <1>1, <1>2, <1>3, PTL DEF VaultSpec

----------------------------------------------------------------------------
(* The cloud managers *)

CloudInv ==
    /\ remote \in [Jobs -> {"none", "InProgress"} \cup Over]
    /\ launch \in [Jobs -> {"none", "asked", "known", "lost"}]
    /\ monitor \in [Jobs -> {"none", "describe", "register", "ended", "died"}]
    /\ tasks \in [Clusters \cup NodePools -> Nat]
    /\ operations \subseteq Clusters
    /\ \A j \in Jobs : monitor[j] = "register" => remote[j] = "Completed"
    /\ WorkAccounted

(* A training job whose launch was answered is forgotten only when it is   *)
(* over and registered, and an AKS operation is remembered only while a    *)
(* monitor is to come, for any jobs and clusters (sagemaker.py, aks.py).   *)
THEOREM CloudWorkAccounted == CloudSpec => []WorkAccounted
  <1>1. CloudInit => CloudInv
    BY DEF CloudInit, CloudInv, WorkAccounted
  <1>2. CloudInv /\ [CloudNext]_cloudVars => CloudInv'
    <2> SUFFICES ASSUME CloudInv, [CloudNext]_cloudVars
                 PROVE  CloudInv'
      OBVIOUS
    <2> USE DEF CloudInv, WorkAccounted, jobVars, azureVars, Over
    <2>1. ASSUME NEW j \in Jobs, AskLaunch(j)
          PROVE  CloudInv'
      BY <2>1 DEF AskLaunch
    <2>2. ASSUME NEW j \in Jobs, CreateJob(j)
          PROVE  CloudInv'
      BY <2>2 DEF CreateJob
    <2>3. ASSUME NEW j \in Jobs, JobEnds(j)
          PROVE  CloudInv'
      BY <2>3 DEF JobEnds
    <2>4. ASSUME NEW j \in Jobs, Launched(j)
          PROVE  CloudInv'
      BY <2>4 DEF Launched
    <2>5. ASSUME NEW j \in Jobs, Describe(j)
          PROVE  CloudInv'
      BY <2>5 DEF Describe, AfterPoll
    <2>6. ASSUME NEW j \in Jobs, Register(j)
          PROVE  CloudInv'
      BY <2>6 DEF Register
    <2>7. ASSUME NEW c \in Clusters, CreateCluster(c)
          PROVE  CloudInv'
      BY <2>7 DEF CreateCluster
    <2>10. ASSUME NEW p \in NodePools, ScaleNodePool(p)
           PROVE  CloudInv'
      BY <2>10 DEF ScaleNodePool
    <2>11. ASSUME NEW i \in Clusters \cup NodePools, MonitorOperation(i)
           PROVE  CloudInv'
      BY <2>11 DEF MonitorOperation
    <2>8. ASSUME NEW r \in Runs, SubmitSparkJob(r) \/ ExecuteSqlScript(r)
          PROVE  CloudInv'
      BY <2>8 DEF SubmitSparkJob, ExecuteSqlScript
    <2>9. CASE MonitorPipelineRun \/ UNCHANGED cloudVars
      BY <2>9 DEF MonitorPipelineRun, cloudVars
    <2> QED
      BY <2>1, <2>2, <2>3, <2>4, <2>5, <2>6, <2>7, <2>8, <2>9, <2>10, <2>11 DEF CloudNext
  <1>3. CloudInv => WorkAccounted
    BY DEF CloudInv
  <1> QED
    BY <1>1, <1>2, <1>3, PTL DEF CloudSpec

----------------------------------------------------------------------------
(* The annealing optimizer *)

HasLeast(S) == \E x \in S : \A y \in S : x <= y

(* A nonempty finite set of integers has a least element: a smallest set   *)
(* without one has an element besides which there is a least.              *)
LEMMA LeastExists ==
    ASSUME NEW S \in SUBSET Int, IsFiniteSet(S), S # {}
    PROVE  HasLeast(S)
  <1> DEFINE Bad == {T \in SUBSET S : T # {} /\ ~HasLeast(T)}
             Sizes == {n \in Nat : \E T \in Bad : Cardinality(T) = n}
  <1> SUFFICES ASSUME ~HasLeast(S)
               PROVE  FALSE
    OBVIOUS
  <1>1. \A T \in SUBSET S : IsFiniteSet(T) /\ Cardinality(T) \in Nat
    BY FS_Subset, FS_CardinalityType
  <1>2. S \in Bad
    OBVIOUS
  <1>3. Sizes # {} /\ Sizes \subseteq Nat
    BY <1>1, <1>2
  <1>4. PICK n \in Sizes : \A m \in Sizes : ~(m < n)
    <2>1. \E x \in Sizes : \A y \in Sizes : ~(<<y, x>> \in OpToRel(<, Nat))
      <3> HIDE DEF Sizes
      <3> QED
        BY <1>3, NatLessThanWellFounded, WFMin
    <2> QED
      BY <1>3, <2>1 DEF OpToRel
  <1>5. PICK T \in Bad : Cardinality(T) = n
    OBVIOUS
  <1>6. PICK x : x \in T
    OBVIOUS
  <1> DEFINE U == T \ {x}
  <1>7. IsFiniteSet(U) /\ Cardinality(U) = n - 1
    BY <1>1, <1>5, <1>6, FS_RemoveElement
  <1>8. U \notin Bad
    <2>1. n - 1 \notin Sizes
      BY <1>4
    <2>2. Cardinality(U) \in Nat
      BY <1>7, FS_CardinalityType
    <2> QED
      BY <1>7, <2>1, <2>2
  <1>9. CASE U = {}
    <2>1. T = {x} /\ x \in Int
      BY <1>5, <1>6, <1>9
    <2>2. HasLeast(T)
      BY <2>1 DEF HasLeast
    <2> QED
      BY <1>5, <2>2
  <1>10. CASE U # {}
    <2>1. PICK y \in U : \A z \in U : y <= z
      BY <1>5, <1>8, <1>10 DEF HasLeast
    <2>2. x \in Int /\ T \subseteq Int /\ T = U \cup {x}
      BY <1>5, <1>6
    <2>3. HasLeast(T)
      <3>1. CASE x <= y
        BY <2>1, <2>2, <3>1 DEF HasLeast
      <3>2. CASE ~(x <= y)
        BY <2>1, <2>2, <3>2 DEF HasLeast
      <3> QED
        BY <3>1, <3>2
    <2> QED
      BY <1>5, <2>3
  <1> QED
    BY <1>9, <1>10

LEMMA MinIs ==
    ASSUME NEW S \in SUBSET Int, IsFiniteSet(S), S # {}
    PROVE  Min(S) \in S /\ \A y \in S : Min(S) <= y
  BY LeastExists DEF HasLeast, Min

(* The minimum is the one element below all others.                        *)
LEMMA MinUnique ==
    ASSUME NEW S \in SUBSET Int, NEW x \in S, \A y \in S : x <= y
    PROVE  Min(S) = x
  <1>1. \A z \in S : (\A y \in S : z <= y) => z = x
    OBVIOUS
  <1> QED
    BY <1>1 DEF Min

AnnealingType ==
    /\ state \in [iteration : Int, current : Int, best : Int, temperature : Int]
    /\ seen \in SUBSET Int /\ IsFiniteSet(seen)
    /\ state.best \in seen

AnnealingInv == AnnealingType /\ BestIsLeast

LEMMA FreshState ==
    ASSUME NEW e \in Int, state' = Fresh(e), seen' = {e}
    PROVE  AnnealingInv'
  <1>1. Fresh(e) \in [iteration : Int, current : Int, best : Int, temperature : Int]
    BY AnnealingAssumption DEF Fresh
  <1>2. Fresh(e).best = e
    BY DEF Fresh
  <1>3. IsFiniteSet({e})
    BY FS_Singleton
  <1>4. Min({e}) = e
    BY MinUnique
  <1> QED
    BY <1>1, <1>2, <1>3, <1>4 DEF AnnealingInv, AnnealingType, BestIsLeast

(* run() returns the least energy it evaluated, whatever the energies, the *)
(* numbers of iterations and coolings and the exceptions that end it       *)
(* (simulated_annealing.py: run, update_state and initialize_state).       *)
THEOREM AnnealingBestIsLeast == AnnealingSpec => []BestIsLeast
  <1>1. AnnealingInit => AnnealingInv
    <2> SUFFICES ASSUME AnnealingInit
                 PROVE  AnnealingInv
      OBVIOUS
    <2>1. state \in [iteration : Int, current : Int, best : Int, temperature : Int]
      BY AnnealingAssumption DEF AnnealingInit, Fresh
    <2>2. state.best = 0 /\ seen = {0}
      BY DEF AnnealingInit, Fresh
    <2>3. IsFiniteSet({0}) /\ Min({0}) = 0
      <3>1. IsFiniteSet({0})
        BY FS_Singleton
      <3>2. {0} \in SUBSET Int /\ 0 \in {0} /\ \A y \in {0} : 0 <= y
        OBVIOUS
      <3>3. Min({0}) = 0
        BY <3>2, MinUnique
      <3> QED
        BY <3>1, <3>3
    <2> QED
      BY <2>1, <2>2, <2>3 DEF AnnealingInv, AnnealingType, BestIsLeast
  <1>2. AnnealingInv /\ [AnnealingNext]_annealingVars => AnnealingInv'
    <2> SUFFICES ASSUME AnnealingInv, [AnnealingNext]_annealingVars
                 PROVE  AnnealingInv'
      OBVIOUS
    <2>1. CASE UNCHANGED <<state, seen>>
      BY <2>1 DEF AnnealingInv, AnnealingType, BestIsLeast
    <2>2. ASSUME NEW e \in Energies, StartRun(e)
          PROVE  AnnealingInv'
      BY <2>1, <2>2, FreshState, AnnealingAssumption DEF StartRun
    <2>3. ASSUME NEW energies \in (SUBSET Energies) \ {{}}, Iterate(energies)
          PROVE  AnnealingInv'
      <3> DEFINE e == Min(energies)
                 updated == [state EXCEPT !.current = e, !.best = Best(e)]
                 stepped == [updated EXCEPT !.iteration = @ + 1, !.temperature = @ - 1]
                 State == [iteration : Int, current : Int, best : Int, temperature : Int]
      <3>1. energies \in SUBSET Int /\ energies # {} /\ IsFiniteSet(energies)
        <4>1. energies \in SUBSET Energies /\ energies # {}
          BY <2>3
        <4>2. IsFiniteSet(energies)
          BY <4>1, AnnealingAssumption, FS_Subset
        <4> QED
          BY <4>1, <4>2, AnnealingAssumption
      <3>2. e \in energies /\ \A y \in energies : e <= y
        BY <3>1, MinIs
      <3>3. e \in Int
        BY <3>1, <3>2
      <3>4. state.best \in Int /\ state \in State
        BY DEF AnnealingInv, AnnealingType
      <3>5. state.best \in seen /\ \A y \in seen : state.best <= y
        BY MinIs DEF AnnealingInv, AnnealingType, BestIsLeast
      <3>6. seen' = seen \cup energies /\ (state' = updated \/ state' = stepped)
        BY <2>3 DEF Iterate
      <3> DEFINE b == Best(e)
      <3>7. b \in Int /\ b \in seen' /\ \A y \in seen' : b <= y
        <4>1. CASE e < state.best
          <5>1. b = e
            BY <4>1 DEF Best
          <5>2. \A y \in seen : e <= y
            BY <3>3, <3>4, <3>5, <4>1 DEF AnnealingInv, AnnealingType
          <5> QED
            BY <3>2, <3>3, <3>6, <5>1, <5>2
        <4>2. CASE ~(e < state.best)
          <5>1. b = state.best
            BY <4>2 DEF Best
          <5>2. \A y \in energies : state.best <= y
            BY <3>1, <3>2, <3>3, <3>4, <4>2
          <5> QED
            BY <3>4, <3>5, <3>6, <5>1, <5>2
        <4> QED
          BY <4>1, <4>2
      <3> HIDE DEF e, b
      <3>8. updated \in State /\ updated.best = b
        BY <3>3, <3>4, <3>7 DEF b
      <3> HIDE DEF updated
      <3>9. stepped \in State /\ stepped.best = b
        <4>1. updated.iteration + 1 \in Int /\ updated.temperature - 1 \in Int
          BY <3>8
        <4>2. stepped \in State
          BY <3>8, <4>1
        <4>3. stepped.best = updated.best
          BY <3>8
        <4> QED
          BY <3>8, <4>2, <4>3
      <3> HIDE DEF stepped
      <3>10. state' \in State /\ state'.best = b
        BY <3>6, <3>8, <3>9
      <3>11. seen' \in SUBSET Int /\ IsFiniteSet(seen')
        BY <3>1, <3>6, FS_Union DEF AnnealingInv, AnnealingType
      <3>12. Min(seen') = b
        BY <3>7, <3>11, MinUnique
      <3> QED
        BY <3>7, <3>10, <3>11, <3>12 DEF AnnealingInv, AnnealingType, BestIsLeast
    <2>4. CASE Interrupted \/ EndRun
      BY <2>1, <2>4 DEF Interrupted, EndRun
    <2> QED
      BY <2>1, <2>2, <2>3, <2>4 DEF AnnealingNext, annealingVars
  <1>3. AnnealingInv => BestIsLeast
    BY DEF AnnealingInv
  <1> QED
    BY <1>1, <1>2, <1>3, PTL DEF AnnealingSpec

----------------------------------------------------------------------------
(* The workflow validator *)

(* Adding edges to a graph removes no cycle.                               *)
LEMMA CycleGrows ==
    ASSUME NEW g, NEW h, DOMAIN g = DOMAIN h, \A x \in DOMAIN g : g[x] \subseteq h[x],
           HasCycle(g)
    PROVE  HasCycle(h)
  <1>1. PICK S \in SUBSET DOMAIN g : Cyclic(g, S)
    BY DEF HasCycle
  <1>2. Cyclic(h, S)
    BY <1>1 DEF Cyclic
  <1> QED
    BY <1>2 DEF HasCycle

(* The graph the framework keeps is that of all modules analysed so far,   *)
(* which is why a cycle is seen whatever the order.                        *)
ValidatorInv ==
    /\ moduleGraph = ImportsOf(analysed)
    /\ validated \subseteq analysed /\ analysed \subseteq Modules
    /\ CyclesReported

(* Every import cycle among the modules analysed has been reported, for    *)
(* any set of modules and any number of pipelines                          *)
(* (validator.py: _validate_module and _build_module_graph).               *)
THEOREM ValidatorCyclesReported == ValidatorSpec => []CyclesReported
  <1>1. ValidatorInit => ValidatorInv
    <2> SUFFICES ASSUME ValidatorInit
                 PROVE  ValidatorInv
      OBVIOUS
    <2>1. ImportsOf({}) = [m \in Modules |-> {}]
      BY DEF ImportsOf
    <2>2. ~HasCycle([m \in Modules |-> {}])
      BY DEF HasCycle, Cyclic
    <2> QED
      BY <2>1, <2>2 DEF ValidatorInit, ValidatorInv, CyclesReported
  <1>2. ValidatorInv /\ [ValidatorNext]_validatorVars => ValidatorInv'
    <2> SUFFICES ASSUME ValidatorInv, [ValidatorNext]_validatorVars
                 PROVE  ValidatorInv'
      OBVIOUS
    <2>1. CASE UNCHANGED <<imports, moduleGraph, validated, analysed, failures>>
      BY <2>1 DEF ValidatorInv, CyclesReported, ImportsOf
    <2>2. ASSUME NEW m \in Modules, ValidateModule(m)
          PROVE  ValidatorInv'
      <3>1. imports' = imports /\ analysed' = analysed \cup {m}
        BY <2>2 DEF ValidateModule
      <3>3. moduleGraph' = ImportsOf(analysed \cup {m})
        BY <2>2 DEF ValidateModule, BuildModuleGraph, ValidatorInv, ImportsOf
      <3>4. ImportsOf(analysed)' = ImportsOf(analysed \cup {m})
        BY <3>1 DEF ImportsOf
      <3>5. validated' \subseteq analysed' /\ analysed' \subseteq Modules
        BY <2>2 DEF ValidateModule, ValidatorInv
      <3>6. CASE HasCycle(moduleGraph')
        <4>1. m \in failures' /\ validated' = validated
          BY <2>2, <3>6 DEF ValidateModule
        <4>2. ImportsOf(validated)' = ImportsOf(validated)
          BY <3>1, <4>1 DEF ImportsOf
        <4> QED
          BY <3>3, <3>4, <3>5, <4>1, <4>2 DEF ValidatorInv, CyclesReported
      <3>7. CASE ~HasCycle(moduleGraph')
        <4>1. ~HasCycle(ImportsOf(validated)')
          <5> SUFFICES ASSUME HasCycle(ImportsOf(validated)')
                       PROVE  FALSE
            OBVIOUS
          <5> DEFINE g == ImportsOf(validated)'
          <5>1. /\ DOMAIN g = Modules /\ DOMAIN moduleGraph' = Modules
                /\ \A x \in Modules : g[x] \subseteq moduleGraph'[x]
            BY <3>1, <3>3, <3>5 DEF ImportsOf
          <5> HIDE DEF g
          <5>2. HasCycle(g)
            BY DEF g
          <5> QED
            BY <3>7, <5>1, <5>2, CycleGrows
        <4>2. HasCycle(ImportsOf(validated))' = HasCycle(ImportsOf(validated)')
          BY DEF HasCycle, Cyclic
        <4>3. HasCycle(ImportsOf(analysed))' = HasCycle(moduleGraph')
          BY <3>3, <3>4 DEF HasCycle, Cyclic
        <4> QED
          BY <3>3, <3>4, <3>5, <3>7, <4>1, <4>2, <4>3 DEF ValidatorInv, CyclesReported
      <3> QED
        BY <3>6, <3>7
    <2>3. ASSUME NEW m \in Modules, CachedModule(m)
          PROVE  ValidatorInv'
      BY <2>1, <2>3 DEF CachedModule
    <2>4. ASSUME NEW verdict \in BOOLEAN, ValidateDefinition(verdict)
          PROVE  ValidatorInv'
      BY <2>1, <2>4 DEF ValidateDefinition
    <2>5. CASE StartPipeline \/ EndPipeline \/ Raises \/ AddProject("project")
      BY <2>1, <2>5 DEF StartPipeline, EndPipeline, Raises, AddProject
    <2> QED
      BY <2>1, <2>2, <2>3, <2>4, <2>5 DEF ValidatorNext, validatorVars
  <1>3. ValidatorInv => CyclesReported
    BY DEF ValidatorInv
  <1> QED
    BY <1>1, <1>2, <1>3, PTL DEF ValidatorSpec

----------------------------------------------------------------------------
(* The lifecycle manager *)

Restarting == {u \in Users : calling[u] = "restart"}

(* Those that have passed the check count as if they had failed already.   *)
LifecycleInv ==
    /\ restarts \in Nat
    /\ calling \in [Users -> Operations \cup {"none", "restart"}]
    /\ restarts + Cardinality(Restarting) <= MaxRestarts + Cardinality(Users) - 1

LEMMA RestartingIs ==
    /\ IsFiniteSet(Restarting) /\ Cardinality(Restarting) \in Nat
    /\ Cardinality(Users) \in Nat \ {0}
  <1>1. Restarting \subseteq Users
    BY DEF Restarting
  <1>2. IsFiniteSet(Restarting)
    BY <1>1, FS_Subset, LifecycleAssumption
  <1> QED
    BY <1>2, FS_CardinalityType, FS_EmptySet, LifecycleAssumption

(* A coroutine that does not restart leaves the set alone or not in it.    *)
LEMMA CallChanges ==
    ASSUME LifecycleInv, NEW u \in Users, NEW o \in Operations \cup {"none"},
           calling' = [calling EXCEPT ![u] = o]
    PROVE  /\ calling' \in [Users -> Operations \cup {"none", "restart"}]
           /\ Restarting' = Restarting \ {u}
  <1>1. o # "restart"
    BY DEF Operations
  <1> QED
    BY <1>1 DEF LifecycleInv, Restarting

LEMMA RestartLeaves ==
    ASSUME LifecycleInv, NEW u \in Users, Restarting' = Restarting \ {u}
    PROVE  /\ Cardinality(Restarting') \in Nat
           /\ Cardinality(Restarting') = IF calling[u] = "restart" THEN Cardinality(Restarting) - 1
                                                                  ELSE Cardinality(Restarting)
  <1>1. u \in Restarting <=> calling[u] = "restart"
    BY DEF Restarting
  <1>2. Cardinality(Restarting \ {u}) = IF u \in Restarting THEN Cardinality(Restarting) - 1
                                                           ELSE Cardinality(Restarting)
    BY RestartingIs, FS_RemoveElement
  <1>3. IsFiniteSet(Restarting \ {u})
    BY RestartingIs, FS_RemoveElement
  <1> QED
    BY <1>1, <1>2, <1>3, FS_CardinalityType

(* However many coroutines restart the agent at once, and whichever of     *)
(* them fail or are cancelled at the lock, the attempts exceed the limit   *)
(* by at most the coroutines that passed the check together                *)
(* (lifecycle.py: restart and stop).                                       *)
THEOREM LifecycleRestartsBounded == LifecycleSpec => []RestartsBounded
  <1>1. LifecycleInit => LifecycleInv
    <2> SUFFICES ASSUME LifecycleInit
                 PROVE  LifecycleInv
      OBVIOUS
    <2>1. Restarting = {} /\ restarts = 0
      BY DEF LifecycleInit, Restarting
    <2>2. Cardinality(Restarting) = 0
      BY <2>1, FS_EmptySet
    <2>3. calling \in [Users -> Operations \cup {"none", "restart"}]
      BY DEF LifecycleInit
    <2> QED
      BY <2>1, <2>2, <2>3, RestartingIs, LifecycleAssumption DEF LifecycleInv
  <1>2. LifecycleInv /\ [LifecycleNext]_lifecycleVars => LifecycleInv'
    <2> SUFFICES ASSUME LifecycleInv, [LifecycleNext]_lifecycleVars
                 PROVE  LifecycleInv'
      OBVIOUS
    <2> USE LifecycleAssumption
    <2>1. ASSUME NEW u \in Users, NEW o \in Operations \cup {"none"},
                 calling' = [calling EXCEPT ![u] = o],
                 restarts' = restarts \/ (calling[u] = "restart" /\ restarts' = restarts + 1)
          PROVE  LifecycleInv'
      <3>1. /\ calling' \in [Users -> Operations \cup {"none", "restart"}]
            /\ Restarting' = Restarting \ {u}
        BY <2>1, CallChanges
      <3>2. /\ Cardinality(Restarting') \in Nat
            /\ Cardinality(Restarting') = IF calling[u] = "restart" THEN Cardinality(Restarting) - 1
                                                                   ELSE Cardinality(Restarting)
        BY <3>1, RestartLeaves
      <3> DEFINE k == Cardinality(Restarting)
                 m == Cardinality(Restarting')
                 n == Cardinality(Users)
      <3>3. /\ k \in Nat /\ m \in Nat /\ n \in Nat \ {0} /\ restarts \in Nat
            /\ m = IF calling[u] = "restart" THEN k - 1 ELSE k
            /\ restarts + k <= MaxRestarts + n - 1
        BY <3>2, RestartingIs DEF LifecycleInv
      <3> HIDE DEF k, m, n
      <3>4. restarts' \in Nat /\ restarts' + m <= MaxRestarts + n - 1
        BY <2>1, <3>3
      <3> QED
        BY <3>1, <3>4 DEF LifecycleInv, m, n
    <2>2. ASSUME NEW u \in Users, Restart(u)
          PROVE  LifecycleInv'
      <3>1. /\ calling[u] = "none" /\ restarts < MaxRestarts /\ restarts' = restarts
            /\ calling' = [calling EXCEPT ![u] = "restart"]
        BY <2>2 DEF Restart, MayRestart
      <3>2. calling' \in [Users -> Operations \cup {"none", "restart"}]
        BY <3>1 DEF LifecycleInv
      <3>3. Restarting' \subseteq Users
        BY DEF Restarting
      <3>4. Cardinality(Restarting') <= Cardinality(Users) /\ Cardinality(Restarting') \in Nat
        BY <3>3, FS_Subset, FS_CardinalityType
      <3> DEFINE m == Cardinality(Restarting')
                 n == Cardinality(Users)
      <3>5. m \in Nat /\ n \in Nat \ {0} /\ m <= n /\ restarts \in Nat
        BY <3>4, RestartingIs DEF LifecycleInv
      <3> HIDE DEF m, n
      <3>6. restarts' \in Nat /\ restarts' + m <= MaxRestarts + n - 1
        BY <3>1, <3>5
      <3> QED
        BY <3>2, <3>6 DEF LifecycleInv, m, n
    <2>3. ASSUME NEW u \in Users, NEW o \in Operations, Call(u, o)
          PROVE  LifecycleInv'
      <3>1. calling' = [calling EXCEPT ![u] = o] /\ restarts' = restarts
        BY <2>3 DEF Call
      <3> QED
        BY <2>1, <3>1
    <2>4. CASE UNCHANGED <<restarts, calling>>
      BY <2>4 DEF LifecycleInv, Restarting
    <2>5. ASSUME NEW u \in Users, Acquire(u)
          PROVE  LifecycleInv'
      BY <2>4, <2>5 DEF Acquire
    <2>6. ASSUME NEW u \in Users, OperationRaises(u)
          PROVE  LifecycleInv'
      <3>1. /\ calling' = [calling EXCEPT ![u] = "none"]
            /\ restarts' = restarts \/ (calling[u] = "restart" /\ restarts' = restarts + 1)
        BY <2>6, Zenon DEF OperationRaises
      <3> QED
        BY <2>1, <3>1
    <2>7. ASSUME NEW u \in Users, CancelCall(u)
          PROVE  LifecycleInv'
      <3>1. calling' = [calling EXCEPT ![u] = "none"] /\ restarts' = restarts
        BY <2>7 DEF CancelCall
      <3> QED
        BY <2>1, <3>1
    <2> QED
      BY <2>2, <2>3, <2>4, <2>5, <2>6, <2>7 DEF LifecycleNext, lifecycleVars
  <1>3. LifecycleInv => RestartsBounded
    <2> SUFFICES ASSUME LifecycleInv
                 PROVE  RestartsBounded
      OBVIOUS
    <2> DEFINE k == Cardinality(Restarting)
               n == Cardinality(Users)
    <2>1. k \in Nat /\ n \in Nat /\ restarts \in Nat /\ restarts + k <= MaxRestarts + n - 1
      BY RestartingIs DEF LifecycleInv
    <2> HIDE DEF k, n
    <2>2. restarts <= MaxRestarts + n - 1
      BY <2>1, LifecycleAssumption
    <2> QED
      BY <2>2 DEF RestartsBounded, n
  <1> QED
    BY <1>1, <1>2, <1>3, PTL DEF LifecycleSpec

----------------------------------------------------------------------------
(* The deployment engine *)

ChartPlaces == {"deps", "pre", "helm", "verify", "post", "rollback"}
InfraPlaces == {"init", "validate", "apply"}

ProcessOwned == \A t \in Group : process[t] # "none" => member[t] \in Commands

Places == \A t \in Group : /\ member[t] \in ChartPlaces => t \in Charts
                           /\ member[t] \in InfraPlaces => t \notin Charts

DeployType ==
    /\ member \in [Group -> {"new", "waiting", "deps"} \cup Commands \cup Ended]
    /\ process \in [Group -> {"none", "running", "absent", "exit 0", "exit 1"}]
    /\ ProcessOwned /\ Places

(* Nothing has gone wrong so far, ...                                      *)
Clean == \A t \in Group : member[t] \notin {"failed", "cancelled", "rollback"}

(* ... and then no process has been given up and every chart past its      *)
(* release is installed.                                                   *)
CleanCluster == Clean =>
    /\ leftover = {} /\ installed \subseteq Charts
    /\ \A c \in Charts :
          member[c] \in {"verify", "post", "done"} \/ (member[c] = "helm" /\ process[c] = "exit 0")
              => c \in installed

(* Tasks are cancelled only because one has failed.                        *)
CancelledByFailure ==
    (\E t \in Group : member[t] = "cancelled") => \E t \in Group : member[t] = "failed"

PastGroup == stage \in {"security", "smoke", "complete"} => \A t \in Group : member[t] = "done"

DeployInv == DeployType /\ CleanCluster /\ CancelledByFailure /\ PastGroup

LEMMA GroupMembers == Charts \subseteq Group /\ "infra" \in Group \ Charts /\ "iam" \in Group \ Charts
  BY DeployAssumption DEF Group

(* A task moves on, to its rollback or to a place at which nothing has     *)
(* gone wrong.                                                             *)
LEMMA MemberMoves ==
    ASSUME DeployInv, stage = "group", UNCHANGED <<stage, installed>>,
           NEW t \in Group, member[t] \notin Ended,
           NEW to \in {"waiting", "deps", "done"} \cup Commands, Goto(t, to),
           to \in ChartPlaces => t \in Charts, to \in InfraPlaces => t \notin Charts,
           \/ to = "rollback"
           \/ /\ member[t] # "rollback" /\ leftover' = leftover
              /\ t \in Charts /\ to \in {"verify", "post", "done"} /\ Clean => t \in installed
    PROVE  DeployInv'
  <1>1. \A u \in Group : member'[u] = IF u = t THEN to ELSE member[u]
    BY DEF Goto, DeployInv, DeployType
  <1>2. \A u \in Group \ {t} : process'[u] = process[u]
    BY DEF Goto, DeployInv, DeployType
  <1>3. process'[t] \in IF to \in Commands THEN {"running", "absent"} ELSE {"none"}
    BY DEF Goto, DeployInv, DeployType
  <1>4. DeployType'
    <2>1. /\ member' \in [Group -> {"new", "waiting", "deps"} \cup Commands \cup Ended]
          /\ process' \in [Group -> {"none", "running", "absent", "exit 0", "exit 1"}]
      BY DEF Goto, DeployInv, DeployType, Ended
    <2>2. ProcessOwned'
      BY <1>1, <1>2, <1>3 DEF DeployInv, DeployType, ProcessOwned
    <2>3. Places'
      BY <1>1 DEF DeployInv, DeployType, Places
    <2> QED
      BY <2>1, <2>2, <2>3 DEF DeployType
  <1>5. CleanCluster'
    <2>1. CASE to = "rollback"
      BY <1>1, <2>1 DEF CleanCluster, Clean
    <2>2. CASE to # "rollback"
      <3> SUFFICES ASSUME Clean'
                   PROVE  /\ leftover' = {} /\ installed' \subseteq Charts
                          /\ \A c \in Charts :
                                \/ member'[c] \in {"verify", "post", "done"}
                                \/ member'[c] = "helm" /\ process'[c] = "exit 0"
                                => c \in installed'
        BY DEF CleanCluster
      <3>1. Clean
        BY <1>1, <2>2 DEF Clean, Ended
      <3>2. ASSUME NEW c \in Charts,
                   \/ member'[c] \in {"verify", "post", "done"}
                   \/ member'[c] = "helm" /\ process'[c] = "exit 0"
            PROVE  c \in installed
        <4>1. CASE c = t
          BY <1>1, <1>3, <2>2, <3>1, <3>2, <4>1 DEF Commands
        <4>2. CASE c # t
          BY <1>1, <1>2, <3>1, <3>2, <4>2, GroupMembers DEF DeployInv, CleanCluster
        <4> QED
          BY <4>1, <4>2
      <3> QED
        BY <2>2, <3>1, <3>2 DEF DeployInv, CleanCluster
    <2> QED
      BY <2>1, <2>2
  <1>6. CancelledByFailure'
    BY <1>1 DEF DeployInv, CancelledByFailure, Commands, Ended
  <1> QED
    BY <1>4, <1>5, <1>6 DEF DeployInv, PastGroup

(* A task raises, and the group cancels what it cancels.                   *)
LEMMA MemberRaises ==
    ASSUME DeployInv, stage = "group", UNCHANGED stage, NEW t \in Group, Raise(t)
    PROVE  DeployInv'
  <1>1. PICK hit \in SUBSET (Group \ {t}) :
            /\ member' = [u \in Group |-> IF u = t THEN "failed"
                                          ELSE IF u \in hit THEN "cancelled" ELSE member[u]]
            /\ process' = [u \in Group |-> IF u \in hit \cup {t} THEN "none" ELSE process[u]]
    <2> DEFINE first  == \A u \in Group : member[u] # "failed"
               others == {u \in Group \ {t} : member[u] \notin Ended}
    <2>1. PICK missed :
            LET hit == IF first THEN others \ missed ELSE {}
            IN  /\ member' = [u \in Group |-> IF u = t THEN "failed"
                                            ELSE IF u \in hit THEN "cancelled" ELSE member[u]]
                /\ process' = [u \in Group |-> IF u \in hit \cup {t} THEN "none" ELSE process[u]]
      BY DEF Raise
    <2> DEFINE hit == IF first THEN others \ missed ELSE {}
    <2>2. hit \in SUBSET (Group \ {t})
      OBVIOUS
    <2>3. /\ member' = [u \in Group |-> IF u = t THEN "failed"
                                        ELSE IF u \in hit THEN "cancelled" ELSE member[u]]
          /\ process' = [u \in Group |-> IF u \in hit \cup {t} THEN "none" ELSE process[u]]
      BY <2>1
    <2> HIDE DEF hit
    <2> QED
      BY <2>2, <2>3
  <1>2. DeployType'
    BY <1>1 DEF DeployInv, DeployType, ProcessOwned, Places, Ended, Commands, ChartPlaces, InfraPlaces
  <1>3. member'[t] = "failed"
    BY <1>1
  <1> QED
    BY <1>2, <1>3 DEF DeployInv, CleanCluster, Clean, CancelledByFailure, PastGroup

LEMMA AllDone ==
    ASSUME DeployInv, \A t \in Group : member[t] = "done"
    PROVE  installed = Charts /\ leftover = {}
  BY GroupMembers DEF DeployInv, CleanCluster, Clean

(* A deployment past its task group is whole, for any charts and any       *)
(* concurrency (deploy.py: deploy_full_stack, deploy_component and         *)
(* _execute_command).                                                      *)
THEOREM DeploymentWhole == DeploySpec => []DeployedWhole
  <1>1. DeployInit => DeployInv
    <2> SUFFICES ASSUME DeployInit
                 PROVE  DeployInv
      OBVIOUS
    <2>1. \A t \in Group : member[t] = "new" /\ process[t] = "none"
      BY DEF DeployInit
    <2>2. DeployType
      BY <2>1 DEF DeployInit, DeployType, ProcessOwned, Places, ChartPlaces, InfraPlaces
    <2> QED
      BY <2>1, <2>2, GroupMembers
      DEF DeployInit, DeployInv, CleanCluster, CancelledByFailure, PastGroup
  <1>2. DeployInv /\ [DeployNext]_deployVars => DeployInv'
    <2> SUFFICES ASSUME DeployInv, [DeployNext]_deployVars
                 PROVE  DeployInv'
      OBVIOUS
    <2>1. CASE DeployFullStack
      BY <2>1 DEF DeployFullStack, DeployInv, DeployType, ProcessOwned, Places, CleanCluster, Clean, CancelledByFailure, PastGroup
    <2>2. CASE StartInfra
      BY <2>2, GroupMembers, MemberMoves
      DEF StartInfra, InGroup, Commands, ChartPlaces, InfraPlaces, Ended
    <2>3. CASE VerifyIam
      <3>1. stage = "group" /\ UNCHANGED <<stage, installed>> /\ member["iam"] = "new"
        BY <2>3 DEF VerifyIam, InGroup
      <3>2. CASE Raise("iam")
        BY <3>1, <3>2, GroupMembers, MemberRaises
      <3>3. CASE Goto("iam", "done") /\ UNCHANGED leftover
        BY <3>1, <3>3, GroupMembers, MemberMoves DEF ChartPlaces, InfraPlaces, Ended
      <3> QED
        BY <2>3, <3>2, <3>3 DEF VerifyIam
    <2>4. ASSUME NEW c \in Charts, EnterSemaphore(c) \/ EnterLock(c) \/ ValidateDependencies(c)
          PROVE  DeployInv'
      <3>1. PICK to \in {"waiting", "deps", "pre", "rollback"} : Goto(c, to)
        BY <2>4 DEF EnterSemaphore, EnterLock, ValidateDependencies
      <3>2. /\ stage = "group" /\ UNCHANGED <<stage, installed, leftover>>
            /\ member[c] \in {"new", "waiting", "deps"}
        BY <2>4 DEF EnterSemaphore, EnterLock, ValidateDependencies, InGroup
      <3> QED
        BY <3>1, <3>2, GroupMembers, MemberMoves DEF Commands, InfraPlaces, Ended
    <2>5. ASSUME NEW t \in Group, ProcessEnds(t)
          PROVE  DeployInv'
      <3>1. /\ process[t] = "running" /\ member' = member /\ leftover' = leftover /\ stage' = stage
            /\ member[t] \in Commands
        BY <2>5 DEF ProcessEnds, DeployInv, DeployType, ProcessOwned
      <3>2. PICK exit \in {"exit 0", "exit 1"} : process' = [process EXCEPT ![t] = exit]
        BY <2>5 DEF ProcessEnds
      <3>3. DeployType'
        BY <3>1, <3>2 DEF DeployInv, DeployType, ProcessOwned, Places
      <3>4. CancelledByFailure' /\ PastGroup'
        BY <3>1 DEF DeployInv, CancelledByFailure, PastGroup
      <3>5. Clean => /\ installed \subseteq installed' /\ installed' \subseteq Charts
                     /\ exit = "exit 0" /\ member[t] = "helm" => t \in installed'
        <4> SUFFICES ASSUME Clean
                     PROVE  /\ installed \subseteq installed' /\ installed' \subseteq Charts
                            /\ exit = "exit 0" /\ member[t] = "helm" => t \in installed'
          OBVIOUS
        <4>1. installed \subseteq Charts /\ member[t] # "rollback"
          BY DEF DeployInv, CleanCluster, Clean
        <4>2. member[t] = "helm" => t \in Charts
          BY DEF DeployInv, DeployType, Places, ChartPlaces
        <4>3. process'[t] = exit
          BY <3>2 DEF DeployInv, DeployType
        <4>4. \/ installed' = Effect(t, member[t])
              \/ installed' = installed /\ exit = "exit 1"
          <5>1. CASE process' = [process EXCEPT ![t] = "exit 0"] /\ installed' = Effect(t, member[t])
            BY <5>1
          <5>2. CASE process' = [process EXCEPT ![t] = "exit 1"] /\ UNCHANGED installed
            BY <4>3, <5>2 DEF DeployInv, DeployType
          <5> QED
            BY <2>5, <5>1, <5>2 DEF ProcessEnds
        <4>5. Effect(t, member[t]) = IF member[t] = "helm" THEN installed \cup {t} ELSE installed
          BY <4>1 DEF Effect
        <4> QED
          BY <4>1, <4>2, <4>4, <4>5
      <3>6. CleanCluster'
        <4> SUFFICES ASSUME Clean
                     PROVE  CleanCluster'
          BY <3>1 DEF CleanCluster, Clean
        <4>1. ASSUME NEW c \in Charts,
                     \/ member[c] \in {"verify", "post", "done"}
                     \/ member[c] = "helm" /\ process'[c] = "exit 0"
              PROVE  c \in installed'
          <5>1. CASE c = t
            BY <3>1, <3>2, <3>5, <4>1, <5>1 DEF DeployInv, DeployType, CleanCluster
          <5>2. CASE c # t
            BY <3>2, <3>5, <4>1, <5>2, GroupMembers DEF DeployInv, DeployType, CleanCluster
          <5> QED
            BY <5>1, <5>2
        <4> QED
          BY <3>1, <3>5, <4>1 DEF DeployInv, CleanCluster
      <3> QED
        BY <3>3, <3>4, <3>6 DEF DeployInv
    <2>6. ASSUME NEW t \in Group, CommandReturns(t)
          PROVE  DeployInv'
      <3>1. stage = "group" /\ UNCHANGED <<stage, installed>> /\ member[t] \in Commands
        BY <2>6 DEF CommandReturns, InGroup
      <3>2. member[t] \notin Ended
        BY <3>1 DEF Commands, Ended
      <3>3. CASE Succeeds(t) /\ member[t] # "rollback"
        <4> DEFINE to == Following[member[t]]
        <4>1. Goto(t, to) /\ leftover' = leftover /\ process[t] = "exit 0"
          BY <2>6, <3>3 DEF CommandReturns, Succeeds
        <4>2. /\ member[t] = "init"     => to = "validate"
              /\ member[t] = "validate" => to = "apply"
              /\ member[t] = "apply"    => to = "done"
              /\ member[t] = "pre"      => to = "helm"
              /\ member[t] = "helm"     => to = "verify"
              /\ member[t] = "verify"   => to = "post"
              /\ member[t] = "post"     => to = "done"
          BY DEF Following
        <4> HIDE DEF to
        <4>3. to \in {"validate", "apply", "done", "helm", "verify", "post"}
          BY <3>1, <3>3, <4>2 DEF Commands
        <4>4. (to \in ChartPlaces => t \in Charts) /\ (to \in InfraPlaces => t \notin Charts)
          BY <3>1, <3>3, <4>2, <4>3 DEF Commands, ChartPlaces, InfraPlaces, DeployInv, DeployType, Places
        <4>5. t \in Charts /\ to \in {"verify", "post", "done"} =>
                  member[t] \in {"helm", "verify", "post"}
          BY <3>1, <3>3, <4>2 DEF Commands, InfraPlaces, DeployInv, DeployType, Places
        <4>6. t \in Charts /\ to \in {"verify", "post", "done"} /\ Clean => t \in installed
          BY <4>1, <4>5 DEF DeployInv, CleanCluster
        <4>7. to \in {"waiting", "deps", "done"} \cup Commands
          BY <4>3 DEF Commands
        <4> QED
          BY <3>1, <3>2, <3>3, <4>1, <4>4, <4>6, <4>7, MemberMoves
      <3>4. CASE ~(Succeeds(t) /\ member[t] # "rollback")
        <4>1. Failed(t)
          BY <2>6, <3>4 DEF CommandReturns
        <4>2. CASE member[t] \in {"pre", "helm", "verify", "post"}
          <5>1. Goto(t, "rollback") /\ t \in Charts
            BY <4>1, <4>2 DEF Failed, DeployInv, DeployType, Places, ChartPlaces
          <5> QED
            BY <3>1, <3>2, <5>1, MemberMoves DEF Commands, InfraPlaces
        <4>3. CASE member[t] \notin {"pre", "helm", "verify", "post"}
          BY <3>1, <4>1, <4>3, MemberRaises DEF Failed
        <4> QED
          BY <4>2, <4>3
      <3> QED
        BY <3>3, <3>4
    <2>7. CASE GroupEnds
      <3>1. UNCHANGED <<member, process, leftover, installed>>
        BY <2>7 DEF GroupEnds
      <3>2. PastGroup'
        BY <2>7 DEF GroupEnds, PastGroup, DeployInv, CancelledByFailure, Ended
      <3> QED
        BY <3>1, <3>2 DEF DeployInv, DeployType, ProcessOwned, Places, CleanCluster, Clean, CancelledByFailure
    <2>8. CASE PostValidation
      BY <2>8 DEF PostValidation, DeployInv, DeployType, ProcessOwned, Places, CleanCluster, Clean, CancelledByFailure, PastGroup
    <2>9. ASSUME NEW x \in leftover, LeftoverEnds(x)
          PROVE  DeployInv'
      <3>1. ~Clean
        BY <2>9 DEF DeployInv, CleanCluster
      <3> QED
        BY <2>9, <3>1
        DEF LeftoverEnds, DeployInv, DeployType, ProcessOwned, Places, CleanCluster, Clean, CancelledByFailure, PastGroup
    <2>10. CASE UNCHANGED deployVars
      BY <2>10 DEF deployVars, DeployInv, DeployType, ProcessOwned, Places, CleanCluster, Clean, CancelledByFailure, PastGroup
    <2> QED
      BY <2>1, <2>2, <2>3, <2>4, <2>5, <2>6, <2>7, <2>8, <2>9, <2>10 DEF DeployNext
  <1>3. DeployInv => DeployedWhole
    BY AllDone DEF DeployInv, PastGroup, DeployedWhole
  <1> QED
    BY <1>1, <1>2, <1>3, PTL DEF DeploySpec

----------------------------------------------------------------------------
(* The search for strongly connected components *)

(* Reachability, on a graph whose edges stay in it. *)
To == [x \in Nodes |-> Reachable(graph, {x})]

LEMMA ReachClosed ==
    ASSUME graph \in [Nodes -> SUBSET Nodes], NEW x \in Nodes
    PROVE  x \in To[x] /\ To[x] \subseteq Nodes /\ \A y \in To[x] : graph[y] \subseteq To[x]
  BY DEF To, Reachable

LEMMA ReachLeast ==
    ASSUME graph \in [Nodes -> SUBSET Nodes], NEW x \in Nodes, NEW S \in SUBSET Nodes,
           x \in S, \A y \in S : graph[y] \subseteq S
    PROVE  To[x] \subseteq S
  BY DEF To, Reachable

LEMMA ReachTransitive ==
    ASSUME graph \in [Nodes -> SUBSET Nodes], NEW x \in Nodes, NEW y \in To[x]
    PROVE  y \in Nodes /\ To[y] \subseteq To[x]
  BY ReachClosed, ReachLeast

Class == [x \in Nodes |-> {y \in Nodes : y \in To[x] /\ x \in To[y]}]

LEMMA SameClass ==
    ASSUME graph \in [Nodes -> SUBSET Nodes], NEW x \in Nodes, NEW y \in Class[x]
    PROVE  Class[y] = Class[x]
  <1>1. y \in Nodes /\ y \in To[x] /\ x \in To[y]
    BY DEF Class
  <1>2. To[x] = To[y]
    BY <1>1, ReachTransitive
  <1>3. \A z \in Nodes : x \in To[z] <=> y \in To[z]
    BY <1>1, ReachTransitive
  <1> QED
    BY <1>2, <1>3 DEF Class

Stacked == ToSet(stack)
Left == DOMAIN indices \ Stacked
Node == [i \in 1..Len(frames) |-> frames[i].node]

TarjanType ==
    /\ graph \in [Nodes -> SUBSET Nodes]
    /\ DOMAIN indices \subseteq Nodes /\ IsFiniteSet(DOMAIN indices)
    /\ indices \in [DOMAIN indices -> Nat] /\ lowlink \in [DOMAIN indices -> Nat]
    /\ \A x \in DOMAIN indices : indices[x] < Cardinality(DOMAIN indices)
    /\ stack \in Seq(DOMAIN indices)
    /\ \A i, j \in 1..Len(stack) : i < j => indices[stack[i]] < indices[stack[j]]

(* The active calls, from the first to the innermost, are on the stack in  *)
(* this order.                                                             *)
Calls ==
    /\ frames \in Seq([node : Nodes, todo : SUBSET Nodes])
    /\ \A i \in 1..Len(frames) : Node[i] \in Stacked /\ frames[i].todo \subseteq graph[Node[i]]
    /\ \A i, j \in 1..Len(frames) : i < j => indices[Node[i]] < indices[Node[j]]

(* Nothing leads out of the components that were found, ...                *)
Found ==
    /\ \A x \in Left : graph[x] \subseteq Left
    /\ UNION sccs = Left
    /\ \A c \in sccs : c # {} /\ \A x \in c : c = Class[x]

(* ... every edge was followed or is still to be, ...                      *)
Explored ==
    \A y \in DOMAIN indices : \A s \in graph[y] :
        s \in DOMAIN indices \/ \E i \in 1..Len(frames) : Node[i] = y /\ s \in frames[i].todo

(* ... an active call reaches whatever is above it on the stack, whatever  *)
(* is on the stack reaches an active call below it, ...                    *)
Down ==
    \A i \in 1..Len(frames) : \A y \in Stacked : indices[Node[i]] <= indices[y] => y \in To[Node[i]]
Up ==
    \A y \in Stacked : \E i \in 1..Len(frames) : indices[Node[i]] <= indices[y] /\ Node[i] \in To[y]

(* ... and the lowlink of an active call is the index of a node it reaches *)
(* on the stack, and the least to which the edges lead that were followed  *)
(* from its part of the stack.                                             *)
LowReached ==
    \A i \in 1..Len(frames) : \E z \in Stacked :
        indices[z] = lowlink[Node[i]] /\ indices[z] <= indices[Node[i]] /\ z \in To[Node[i]]
Part(i, y) ==
    indices[Node[i]] <= indices[y] /\ (i < Len(frames) => indices[y] < indices[Node[i + 1]])
LowLeast ==
    \A i \in 1..Len(frames) : \A y \in Stacked : Part(i, y) =>
        \A s \in graph[y] \cap Stacked :
            ~(y = Node[i] /\ s \in frames[i].todo) => lowlink[Node[i]] <= indices[s]

TarjanInv == TarjanType /\ Calls /\ Found /\ Explored /\ Down /\ Up /\ LowReached /\ LowLeast

LEMMA StackIs ==
    ASSUME TarjanType
    PROVE  /\ Stacked = {stack[i] : i \in 1..Len(stack)}
           /\ Stacked \subseteq DOMAIN indices /\ Stacked \subseteq Nodes
           /\ \A x \in Stacked : indices[x] \in Nat
  <1>1. stack \in Seq(DOMAIN indices)
    BY DEF TarjanType
  <1>2. Stacked = {stack[i] : i \in 1..Len(stack)} /\ Stacked \subseteq DOMAIN indices
    BY <1>1 DEF Stacked, ToSet
  <1> QED
    BY <1>2 DEF TarjanType

LEMMA CallIs ==
    ASSUME TarjanType, Calls, NEW i \in 1..Len(frames)
    PROVE  /\ Node[i] \in Stacked /\ Node[i] \in Nodes /\ Node[i] \in DOMAIN indices
           /\ indices[Node[i]] \in Nat /\ lowlink[Node[i]] \in Nat
           /\ frames[i].todo \subseteq graph[Node[i]]
  BY StackIs DEF TarjanType, Calls

(* A call of strongconnect(x) for a node that was not visited.             *)
LEMMA EnterKeeps ==
    ASSUME TarjanInv, NEW x \in Nodes, x \notin DOMAIN indices,
           NEW callers \in Seq([node : Nodes, todo : SUBSET Nodes]), Enter(x, callers),
           Len(callers) = Len(frames),
           \A i \in 1..Len(frames) : /\ callers[i].node = Node[i]
                                     /\ callers[i].todo \subseteq frames[i].todo
                                     /\ frames[i].todo \subseteq callers[i].todo \cup {x},
           frames # <<>> => x \in graph[Node[Len(frames)]]
    PROVE  TarjanInv'
  <1> DEFINE k == Cardinality(DOMAIN indices)
             n == Len(frames)
  <1>1. TarjanType /\ Calls
    BY DEF TarjanInv
  <1>2. /\ DOMAIN indices' = DOMAIN indices \cup {x} /\ DOMAIN lowlink' = DOMAIN indices \cup {x}
        /\ indices'[x] = k /\ lowlink'[x] = k
        /\ \A y \in DOMAIN indices : indices'[y] = indices[y] /\ lowlink'[y] = lowlink[y]
    <2>1. DOMAIN lowlink = DOMAIN indices
      BY <1>1 DEF TarjanType
    <2> QED
      BY <2>1 DEF Enter, Set
  <1>3. k \in Nat /\ IsFiniteSet(DOMAIN indices') /\ Cardinality(DOMAIN indices') = k + 1
    BY <1>1, <1>2, FS_CardinalityType, FS_AddElement DEF TarjanType
  <1>4. stack' = Append(stack, x) /\ frames' = Append(callers, [node |-> x, todo |-> graph[x]])
        /\ graph' = graph /\ sccs' = sccs
    BY DEF Enter
  <1>5. stack \in Seq(DOMAIN indices) /\ Len(stack) \in Nat /\ Len(stack') = Len(stack) + 1 /\ n \in Nat
    BY <1>1, <1>4 DEF TarjanType, Calls
  <1>6. \A y \in DOMAIN indices : indices[y] \in Nat /\ indices[y] < k
    BY <1>1 DEF TarjanType
  <1>7. TarjanType'
    <2>1. indices' \in [DOMAIN indices' -> Nat] /\ lowlink' \in [DOMAIN indices' -> Nat]
      <3>1. indices' = [y \in DOMAIN indices \cup {x} |-> indices'[y]]
        BY DEF Enter, Set
      <3>2. lowlink' = [y \in DOMAIN indices \cup {x} |-> lowlink'[y]]
        BY <1>1 DEF Enter, Set, TarjanType
      <3>3. \A y \in DOMAIN indices \cup {x} : indices'[y] \in Nat /\ lowlink'[y] \in Nat
        BY <1>1, <1>2, <1>3 DEF TarjanType
      <3> QED
        BY <1>2, <3>1, <3>2, <3>3
    <2>2. \A y \in DOMAIN indices' : indices'[y] < Cardinality(DOMAIN indices')
      BY <1>2, <1>3, <1>6
    <2>3. stack' \in Seq(DOMAIN indices')
      BY <1>2, <1>4, <1>5
    <2>4. \A i, j \in 1..Len(stack') : i < j => indices'[stack'[i]] < indices'[stack'[j]]
      <3> SUFFICES ASSUME NEW i \in 1..Len(stack'), NEW j \in 1..Len(stack'), i < j
                   PROVE  indices'[stack'[i]] < indices'[stack'[j]]
        OBVIOUS
      <3>1. i \in 1..Len(stack) /\ stack'[i] = stack[i] /\ stack[i] \in DOMAIN indices
        BY <1>4, <1>5
      <3>2. CASE j \in 1..Len(stack)
        <4>1. stack'[j] = stack[j] /\ stack[j] \in DOMAIN indices
          BY <1>4, <1>5, <3>2
        <4>2. indices[stack[i]] < indices[stack[j]]
          BY <1>1, <3>1, <3>2 DEF TarjanType
        <4> QED
          BY <1>2, <3>1, <4>1, <4>2
      <3>3. CASE j = Len(stack) + 1
        BY <1>2, <1>4, <1>5, <1>6, <3>1, <3>3
      <3> QED
        BY <1>5, <3>2, <3>3
    <2> QED
      BY <1>1, <1>2, <1>3, <1>4, <2>1, <2>2, <2>3, <2>4 DEF TarjanType
  <1>8. Stacked' = Stacked \cup {x} /\ Stacked \subseteq DOMAIN indices
    <2>1. Stacked = {stack[i] : i \in 1..Len(stack)} /\ Stacked \subseteq DOMAIN indices
      BY <1>1, StackIs
    <2>2. Stacked' = {stack'[i] : i \in 1..(Len(stack) + 1)}
      <3>1. stack' \in Seq(DOMAIN indices')
        BY <1>7 DEF TarjanType
      <3>2. DOMAIN stack' = 1..(Len(stack) + 1)
        BY <1>5, <3>1
      <3> QED
        BY <3>2 DEF Stacked, ToSet
    <2>3. /\ \A i \in 1..Len(stack) : stack'[i] = stack[i]
          /\ stack'[Len(stack) + 1] = x /\ Len(stack) \in Nat
      BY <1>4, <1>5
    <2>4. Stacked' \subseteq Stacked \cup {x}
      BY <2>1, <2>2, <2>3
    <2>5. Stacked \cup {x} \subseteq Stacked'
      <3>1. x \in Stacked'
        BY <2>2, <2>3
      <3>2. Stacked \subseteq Stacked'
        BY <2>1, <2>2, <2>3
      <3> QED
        BY <3>1, <3>2
    <2> QED
      BY <2>1, <2>4, <2>5
  <1>9. /\ Len(frames') = n + 1 /\ Node'[n + 1] = x /\ frames'[n + 1].todo = graph[x]
        /\ \A i \in 1..n : Node'[i] = Node[i] /\ frames'[i].todo = callers[i].todo
    BY <1>4, <1>5 DEF Node
  <1>10. \A i \in 1..n : /\ Node[i] \in Stacked /\ Node[i] \in DOMAIN indices /\ Node[i] \in Nodes
                         /\ Node[i] # x /\ indices'[Node[i]] = indices[Node[i]] /\ lowlink'[Node[i]] = lowlink[Node[i]]
    BY <1>1, <1>2, CallIs
  <1>11. Calls'
    <2>1. frames' \in Seq([node : Nodes, todo : SUBSET Nodes])
      <3>1. [node |-> x, todo |-> graph[x]] \in [node : Nodes, todo : SUBSET Nodes]
        BY <1>1 DEF TarjanType
      <3> QED
        BY <1>4, <3>1
    <2>2. \A i \in 1..(n + 1) : Node'[i] \in Stacked' /\ frames'[i].todo \subseteq graph'[Node'[i]]
      <3> SUFFICES ASSUME NEW i \in 1..(n + 1)
                   PROVE  Node'[i] \in Stacked' /\ frames'[i].todo \subseteq graph'[Node'[i]]
        OBVIOUS
      <3>1. CASE i = n + 1
        BY <1>4, <1>8, <1>9, <3>1
      <3>2. CASE i \in 1..n
        BY <1>1, <1>4, <1>8, <1>9, <1>10, <3>2 DEF Calls
      <3> QED
        BY <1>5, <3>1, <3>2
    <2>3. \A i, j \in 1..(n + 1) : i < j => indices'[Node'[i]] < indices'[Node'[j]]
      <3> SUFFICES ASSUME NEW i \in 1..(n + 1), NEW j \in 1..(n + 1), i < j
                   PROVE  indices'[Node'[i]] < indices'[Node'[j]]
        OBVIOUS
      <3>1. i \in 1..n /\ Node'[i] = Node[i]
        BY <1>5, <1>9
      <3>2. CASE j = n + 1
        BY <1>2, <1>6, <1>9, <1>10, <3>1, <3>2
      <3>3. CASE j \in 1..n
        BY <1>1, <1>9, <1>10, <3>1, <3>3 DEF Calls
      <3> QED
        BY <1>5, <3>2, <3>3
    <2> QED
      BY <1>9, <2>1, <2>2, <2>3 DEF Calls
  <1>12. Left' = Left
    BY <1>2, <1>8 DEF Left
  <1>13. To' = To /\ Class' = Class
    BY <1>4 DEF To, Class
  <1>14. Found'
    BY <1>4, <1>12, <1>13 DEF TarjanInv, Found
  <1>15. Explored'
    <2> SUFFICES ASSUME NEW y \in DOMAIN indices', NEW s \in graph[y], s \notin DOMAIN indices'
                 PROVE  \E i \in 1..(n + 1) : Node'[i] = y /\ s \in frames'[i].todo
      BY <1>4, <1>9 DEF Explored
    <2>1. CASE y = x
      BY <1>5, <1>9, <2>1
    <2>2. CASE y \in DOMAIN indices
      <3>1. PICK i \in 1..n : Node[i] = y /\ s \in frames[i].todo
        BY <1>2, <2>2 DEF TarjanInv, Explored
      <3> QED
        <4>1. s \in callers[i].todo
          BY <1>2, <3>1
        <4>2. i \in 1..(n + 1)
          BY <1>5
        <4> QED
          BY <1>9, <3>1, <4>1, <4>2
    <2> QED
      BY <1>2, <2>1, <2>2
  <1>16. Down'
    <2> SUFFICES ASSUME NEW i \in 1..(n + 1), NEW y \in Stacked \cup {x},
                        indices'[Node'[i]] <= indices'[y]
                 PROVE  y \in To[Node'[i]]
      BY <1>8, <1>9, <1>13 DEF Down
    <2>1. CASE i = n + 1
      <3>1. Node'[i] = x /\ ~(y \in DOMAIN indices)
        BY <1>2, <1>3, <1>6, <1>9, <2>1
      <3> QED
        BY <1>1, <1>8, <3>1, ReachClosed DEF TarjanType
    <2>2. CASE i \in 1..n /\ y \in Stacked
      BY <1>2, <1>8, <1>9, <1>10, <2>2 DEF TarjanInv, Down
    <2>3. CASE i \in 1..n /\ y = x
      <3>1. n \in 1..n /\ Node[n] \in Stacked /\ x \in graph[Node[n]] /\ frames # <<>>
        BY <1>1, <1>5, <1>10, <2>3 DEF Calls
      <3>2. indices[Node[i]] <= indices[Node[n]]
        <4>1. CASE i = n
          BY <1>1, <2>3, <4>1, CallIs
        <4>2. CASE i # n
          <5>1. i < n
            BY <1>5, <2>3, <4>2
          <5>2. indices[Node[i]] < indices[Node[n]]
            BY <1>1, <2>3, <3>1, <5>1 DEF Calls
          <5> QED
            BY <1>6, <1>10, <2>3, <3>1, <5>2
        <4> QED
          BY <4>1, <4>2
      <3>3. Node[n] \in To[Node[i]]
        BY <2>3, <3>1, <3>2 DEF TarjanInv, Down
      <3>4. x \in To[Node[i]]
        BY <1>1, <1>10, <2>3, <3>1, <3>3, ReachClosed DEF TarjanType
      <3> QED
        BY <1>9, <2>3, <3>4
    <2> QED
      BY <1>5, <2>1, <2>2, <2>3
  <1>17. Up'
    <2> SUFFICES ASSUME NEW y \in Stacked \cup {x}
                 PROVE  \E i \in 1..(n + 1) : indices'[Node'[i]] <= indices'[y] /\ Node'[i] \in To[y]
      BY <1>8, <1>9, <1>13 DEF Up
    <2>1. CASE y = x
      BY <1>1, <1>2, <1>3, <1>5, <1>9, <2>1, ReachClosed DEF TarjanType
    <2>2. CASE y \in Stacked
      <3>1. PICK i \in 1..n : indices[Node[i]] <= indices[y] /\ Node[i] \in To[y]
        BY <2>2 DEF TarjanInv, Up
      <3>2. i \in 1..(n + 1) /\ Node'[i] = Node[i] /\ indices'[Node'[i]] = indices[Node[i]]
        BY <1>5, <1>9, <1>10, <3>1
      <3>3. indices'[y] = indices[y]
        BY <1>2, <1>8, <2>2
      <3>4. indices'[Node'[i]] <= indices'[y] /\ Node'[i] \in To[y]
        BY <3>1, <3>2, <3>3
      <3> QED
        BY <3>2, <3>4
    <2> QED
      BY <2>1, <2>2
  <1>18. LowReached'
    <2> SUFFICES ASSUME NEW i \in 1..(n + 1)
                 PROVE  \E z \in Stacked \cup {x} : /\ indices'[z] = lowlink'[Node'[i]]
                                                    /\ indices'[z] <= indices'[Node'[i]] /\ z \in To[Node'[i]]
      BY <1>8, <1>9, <1>13 DEF LowReached
    <2>1. CASE i = n + 1
      <3>1. Node'[i] = x /\ x \in To[x]
        BY <1>1, <1>9, <2>1, ReachClosed DEF TarjanType
      <3> QED
        BY <1>2, <1>3, <3>1
    <2>2. CASE i \in 1..n
      <3>1. PICK z \in Stacked : /\ indices[z] = lowlink[Node[i]]
                                 /\ indices[z] <= indices[Node[i]] /\ z \in To[Node[i]]
        BY <2>2 DEF TarjanInv, LowReached
      <3> QED
        BY <1>2, <1>8, <1>9, <1>10, <2>2, <3>1
    <2> QED
      BY <1>5, <2>1, <2>2
  <1>19. LowLeast'
    <2> SUFFICES ASSUME NEW i \in 1..(n + 1), NEW y \in Stacked \cup {x}, indices'[Node'[i]] <= indices'[y],
                        i < n + 1 => indices'[y] < indices'[Node'[i + 1]],
                        NEW s \in graph[y] \cap (Stacked \cup {x}),
                        ~(y = Node'[i] /\ s \in frames'[i].todo)
                 PROVE  lowlink'[Node'[i]] <= indices'[s]
      BY <1>4, <1>8, <1>9 DEF LowLeast, Part
    <2>1. CASE i = n + 1
      <3>1. y = x
        BY <1>2, <1>3, <1>6, <1>8, <1>9, <2>1
      <3> QED
        BY <1>9, <2>1, <3>1
    <2>2. CASE i \in 1..n
      <3>1. y \in Stacked
        <4> SUFFICES ASSUME y = x
                     PROVE  FALSE
          OBVIOUS
        <4>1. indices'[x] < indices'[Node'[i + 1]]
          BY <1>5, <1>9, <2>2 DEF Part
        <4>2. CASE i = n
          BY <1>2, <1>3, <1>9, <4>1, <4>2
        <4>3. CASE i # n
          <5>1. i + 1 \in 1..n
            BY <1>5, <2>2, <4>3
          <5>2. indices'[Node'[i + 1]] < k /\ indices'[Node'[i + 1]] \in Nat
            BY <1>6, <1>9, <1>10, <5>1
          <5> QED
            BY <1>2, <1>3, <4>1, <5>2
        <4> QED
          BY <4>2, <4>3
      <3>2. Part(i, y)
        BY <1>2, <1>5, <1>8, <1>9, <1>10, <2>2, <3>1 DEF Part
      <3>3. CASE s \in Stacked
        <4>1. ~(y = Node[i] /\ s \in frames[i].todo)
          BY <1>8, <1>9, <2>2, <3>3
        <4>2. lowlink[Node[i]] <= indices[s]
          BY <2>2, <3>1, <3>2, <3>3, <4>1 DEF TarjanInv, LowLeast
        <4> QED
          BY <1>2, <1>8, <1>9, <1>10, <2>2, <3>3, <4>2
      <3>4. CASE s = x
        <4>1. PICK z \in Stacked : indices[z] = lowlink[Node[i]]
          BY <2>2 DEF TarjanInv, LowReached
        <4>2. lowlink[Node[i]] <= k
          BY <1>3, <1>6, <1>8, <4>1
        <4> QED
          BY <1>2, <1>9, <1>10, <2>2, <3>4, <4>2
      <3> QED
        BY <3>3, <3>4
    <2> QED
      BY <1>5, <2>1, <2>2
  <1> QED
    BY <1>7, <1>11, <1>14, <1>15, <1>16, <1>17, <1>18, <1>19 DEF TarjanInv

(* What is left of a sequence without its last element, or below one of    *)
(* its places.                                                             *)
LEMMA PrefixIs ==
    ASSUME NEW S, NEW q \in Seq(S), NEW m \in Nat, m <= Len(q)
    PROVE  /\ SubSeq(q, 1, m) \in Seq(S) /\ Len(SubSeq(q, 1, m)) = m
           /\ \A i \in 1..m : SubSeq(q, 1, m)[i] = q[i]
  <1>1. m \in Int /\ 1 \in Int /\ \A i \in 1..m : q[i] \in S
    OBVIOUS
  <1>2. SubSeq(q, 1, m) \in Seq(S)
    BY <1>1, SubSeqProperties
  <1>3. Len(SubSeq(q, 1, m)) = m
    BY <1>1, SubSeqProperties
  <1>4. \A i \in 1..m : SubSeq(q, 1, m)[i] = q[i]
    BY <1>1, SubSeqProperties
  <1> QED
    BY <1>2, <1>3, <1>4

LEMMA FrontIs ==
    ASSUME NEW S, NEW q \in Seq(S), q # <<>>
    PROVE  /\ Len(q) \in Nat \ {0} /\ Front(q) \in Seq(S) /\ Len(Front(q)) = Len(q) - 1
           /\ \A i \in 1..(Len(q) - 1) : Front(q)[i] = q[i]
  <1> DEFINE m == Len(q) - 1
  <1>1. m \in Nat /\ m <= Len(q) /\ Len(q) \in Nat \ {0}
    OBVIOUS
  <1>2. Front(q) = SubSeq(q, 1, m)
    BY DEF Front
  <1> HIDE DEF m
  <1>3. /\ SubSeq(q, 1, m) \in Seq(S) /\ Len(SubSeq(q, 1, m)) = m
        /\ \A i \in 1..m : SubSeq(q, 1, m)[i] = q[i]
    BY <1>1, PrefixIs
  <1> QED
    BY <1>1, <1>2, <1>3 DEF m

(* One successor of the innermost call is dealt with.                      *)
LEMMA DropIs ==
    ASSUME Calls, frames # <<>>, NEW s
    PROVE  /\ Len(frames) \in Nat \ {0} /\ Top = frames[Len(frames)] /\ Top.node = Node[Len(frames)]
           /\ Drop(s) \in Seq([node : Nodes, todo : SUBSET Nodes]) /\ Len(Drop(s)) = Len(frames)
           /\ \A i \in 1..Len(frames) :
                 /\ Drop(s)[i].node = Node[i]
                 /\ Drop(s)[i].todo = IF i = Len(frames) THEN frames[i].todo \ {s} ELSE frames[i].todo
  <1> DEFINE Frame == [node : Nodes, todo : SUBSET Nodes]
             n == Len(frames)
             top == [Top EXCEPT !.todo = @ \ {s}]
  <1>1. frames \in Seq(Frame) /\ n \in Nat \ {0} /\ Top = frames[n] /\ Top \in Frame
    <2>1. frames \in Seq(Frame)
      BY DEF Calls
    <2> HIDE DEF Frame
    <2>2. n \in Nat \ {0}
      BY <2>1
    <2>3. Top = frames[n]
      BY DEF Top, Last
    <2> QED
      BY <2>1, <2>2, <2>3
  <1>2. top \in Frame /\ top.node = Top.node /\ top.todo = Top.todo \ {s}
    BY <1>1
  <1>3. /\ Front(frames) \in Seq(Frame) /\ Len(Front(frames)) = n - 1
        /\ \A i \in 1..(n - 1) : Front(frames)[i] = frames[i]
    <2> HIDE DEF Frame
    <2> QED
      BY <1>1, FrontIs
  <1>4. Drop(s) = Append(Front(frames), top)
    BY DEF Drop
  <1> HIDE DEF top
  <1>5. /\ Drop(s) \in Seq(Frame) /\ Len(Drop(s)) = n /\ Drop(s)[n] = top
        /\ \A i \in 1..(n - 1) : Drop(s)[i] = frames[i]
    BY <1>1, <1>2, <1>3, <1>4
  <1>6. \A i \in 1..n : Node[i] = frames[i].node
    BY DEF Node
  <1>7. n \in 1..n /\ \A i \in 1..n : i = n \/ i \in 1..(n - 1)
    BY <1>1
  <1>8. \A i \in 1..n :
            /\ Drop(s)[i].node = Node[i]
            /\ Drop(s)[i].todo = IF i = n THEN frames[i].todo \ {s} ELSE frames[i].todo
    <2> SUFFICES ASSUME NEW i \in 1..n
                 PROVE  /\ Drop(s)[i].node = Node[i]
                        /\ Drop(s)[i].todo = IF i = n THEN frames[i].todo \ {s} ELSE frames[i].todo
      OBVIOUS
    <2>1. CASE i = n
      BY <1>1, <1>2, <1>5, <1>6, <2>1
    <2>2. CASE i \in 1..(n - 1)
      BY <1>1, <1>5, <1>6, <2>2
    <2> QED
      BY <1>7, <2>1, <2>2
  <1> QED
    BY <1>1, <1>5, <1>6, <1>7, <1>8

LEMMA RootKeeps ==
    ASSUME TarjanInv, NEW x \in Nodes, Root(x)
    PROVE  TarjanInv'
  <1>1. frames = <<>> /\ x \notin DOMAIN indices /\ Enter(x, frames)
    BY DEF Root, Visited
  <1>2. frames \in Seq([node : Nodes, todo : SUBSET Nodes])
    BY DEF TarjanInv, Calls
  <1>3. Len(frames) = 0
    BY <1>1
  <1>4. \A i \in 1..Len(frames) : FALSE
    BY <1>3
  <1> QED
    BY <1>1, <1>2, <1>3, <1>4, EnterKeeps

LEMMA DescendKeeps ==
    ASSUME TarjanInv, NEW s \in Nodes, Descend(s)
    PROVE  TarjanInv'
  <1>1. frames # <<>> /\ s \in Top.todo /\ s \notin DOMAIN indices /\ Enter(s, Drop(s))
    BY DEF Descend, Visited
  <1>2. TarjanType /\ Calls
    BY DEF TarjanInv
  <1>3. \A i \in 1..Len(frames) : /\ Drop(s)[i].node = Node[i]
                                  /\ Drop(s)[i].todo \subseteq frames[i].todo
                                  /\ frames[i].todo \subseteq Drop(s)[i].todo \cup {s}
    BY <1>1, <1>2, DropIs
  <1>4. s \in graph[Node[Len(frames)]]
    BY <1>1, <1>2, DropIs DEF Calls
  <1>5. Drop(s) \in Seq([node : Nodes, todo : SUBSET Nodes]) /\ Len(Drop(s)) = Len(frames)
    BY <1>1, <1>2, DropIs
  <1> QED
    BY <1>1, <1>3, <1>4, <1>5, EnterKeeps

LEMMA SkipKeeps ==
    ASSUME TarjanInv, NEW s \in Nodes, Skip(s)
    PROVE  TarjanInv'
  <1> DEFINE n == Len(frames)
             x == Node[n]
  <1>1. TarjanType /\ Calls
    BY DEF TarjanInv
  <1>2. /\ frames # <<>> /\ s \in Top.todo /\ s \in DOMAIN indices
        /\ lowlink' = [lowlink EXCEPT ![Top.node] = ByIndex(s)] /\ frames' = Drop(s)
        /\ graph' = graph /\ indices' = indices /\ stack' = stack /\ sccs' = sccs
    BY DEF Skip, Visited
  <1>3. /\ n \in Nat \ {0} /\ n \in 1..n /\ Top = frames[n] /\ Top.node = x
        /\ frames' \in Seq([node : Nodes, todo : SUBSET Nodes]) /\ Len(frames') = n
        /\ \A i \in 1..n : /\ frames'[i].node = Node[i]
                           /\ frames'[i].todo \subseteq frames[i].todo
                           /\ frames'[i].todo = IF i = n THEN frames[i].todo \ {s} ELSE frames[i].todo
    <2>1. /\ n \in Nat \ {0} /\ Top = frames[n] /\ Top.node = x
          /\ frames' \in Seq([node : Nodes, todo : SUBSET Nodes]) /\ Len(frames') = n
      BY <1>1, <1>2, DropIs
    <2>2. \A i \in 1..n :
              /\ frames'[i].node = Node[i]
              /\ frames'[i].todo = IF i = n THEN frames[i].todo \ {s} ELSE frames[i].todo
      BY <1>1, <1>2, DropIs
    <2>3. \A i \in 1..n : frames'[i].todo \subseteq frames[i].todo
      BY <2>2
    <2>4. n \in 1..n
      BY <2>1
    <2> QED
      BY <2>1, <2>2, <2>3, <2>4
  <1>4. Node' = Node
    BY <1>3 DEF Node
  <1>5. \A i \in 1..n : /\ Node[i] \in Stacked /\ Node[i] \in Nodes /\ Node[i] \in DOMAIN indices
                        /\ indices[Node[i]] \in Nat /\ lowlink[Node[i]] \in Nat
    BY <1>1, CallIs
  <1>6. s \in graph[x] /\ indices[s] \in Nat
    BY <1>1, <1>2, <1>3 DEF Calls, TarjanType
  <1>7. ByIndex(s) = IF s \in Stacked /\ indices[s] <= lowlink[x] THEN indices[s] ELSE lowlink[x]
    BY <1>3, <1>5, <1>6 DEF ByIndex, OnStack, Stacked, Least
  <1>8. \A i \in 1..n : lowlink'[Node[i]] = IF i = n THEN ByIndex(s) ELSE lowlink[Node[i]]
    <2> SUFFICES ASSUME NEW i \in 1..n
                 PROVE  lowlink'[Node[i]] = IF i = n THEN ByIndex(s) ELSE lowlink[Node[i]]
      OBVIOUS
    <2>1. Node[i] \in DOMAIN lowlink
      BY <1>1, <1>5 DEF TarjanType
    <2>2. i # n => Node[i] # x
      <3> SUFFICES ASSUME i # n
                   PROVE  Node[i] # x
        OBVIOUS
      <3>1. i < n
        BY <1>3
      <3>2. indices[Node[i]] < indices[x]
        BY <1>1, <1>3, <3>1 DEF Calls
      <3> QED
        BY <1>3, <1>5, <3>2
    <2> QED
      BY <1>2, <1>3, <2>1, <2>2
  <1>9. Stacked' = Stacked /\ To' = To /\ Class' = Class /\ Left' = Left
    BY <1>2 DEF Stacked, To, Class, Left
  <1>10. TarjanType'
    <2>1. ByIndex(s) \in Nat
      BY <1>3, <1>5, <1>6, <1>7
    <2>2. lowlink' \in [DOMAIN indices -> Nat]
      BY <1>1, <1>2, <2>1 DEF TarjanType
    <2> QED
      BY <1>1, <1>2, <2>2 DEF TarjanType
  <1>11. Calls'
    BY <1>1, <1>2, <1>3, <1>4, <1>9 DEF Calls
  <1>12. Found'
    BY <1>2, <1>9 DEF TarjanInv, Found
  <1>13. Explored'
    <2> SUFFICES ASSUME NEW y \in DOMAIN indices, NEW r \in graph[y], r \notin DOMAIN indices
                 PROVE  \E i \in 1..n : Node[i] = y /\ r \in frames'[i].todo
      BY <1>2, <1>3, <1>4 DEF Explored
    <2>1. PICK i \in 1..n : Node[i] = y /\ r \in frames[i].todo
      BY DEF TarjanInv, Explored
    <2> QED
      BY <1>2, <1>3, <2>1
  <1>14. Down' /\ Up'
    BY <1>2, <1>3, <1>4, <1>9 DEF TarjanInv, Down, Up
  <1>15. LowReached'
    <2> SUFFICES ASSUME NEW i \in 1..n
                 PROVE  \E z \in Stacked : /\ indices[z] = lowlink'[Node[i]]
                                           /\ indices[z] <= indices[Node[i]] /\ z \in To[Node[i]]
      BY <1>2, <1>3, <1>4, <1>9 DEF LowReached
    <2>1. PICK z \in Stacked : /\ indices[z] = lowlink[Node[i]]
                               /\ indices[z] <= indices[Node[i]] /\ z \in To[Node[i]]
      BY DEF TarjanInv, LowReached
    <2>2. CASE i = n /\ s \in Stacked /\ indices[s] <= lowlink[x]
      <3>1. s \in To[x]
        BY <1>1, <1>3, <1>5, <1>6, ReachClosed DEF TarjanType
      <3>2. indices[s] = lowlink'[Node[i]]
        BY <1>7, <1>8, <2>2
      <3>3. indices[s] <= indices[x]
        BY <1>3, <1>5, <1>6, <2>1, <2>2
      <3> QED
        BY <2>2, <3>1, <3>2, <3>3
    <2>3. CASE ~(i = n /\ s \in Stacked /\ indices[s] <= lowlink[x])
      <3>1. lowlink'[Node[i]] = lowlink[Node[i]]
        BY <1>7, <1>8, <2>3
      <3> QED
        BY <2>1, <3>1
    <2> QED
      BY <2>2, <2>3
  <1>16. LowLeast'
    <2> SUFFICES ASSUME NEW i \in 1..n, NEW y \in Stacked, Part(i, y),
                        NEW r \in graph[y] \cap Stacked, ~(y = Node[i] /\ r \in frames'[i].todo)
                 PROVE  lowlink'[Node[i]] <= indices[r]
      BY <1>2, <1>3, <1>4, <1>9 DEF LowLeast, Part
    <2>1. lowlink'[Node[i]] <= lowlink[Node[i]] /\ lowlink'[Node[i]] \in Nat
      BY <1>3, <1>5, <1>6, <1>7, <1>8
    <2>2. CASE y = Node[i] /\ r \in frames[i].todo
      <3>1. i = n /\ r = s
        BY <1>3, <2>2
      <3> QED
        BY <1>3, <1>5, <1>6, <1>7, <1>8, <3>1
    <2>3. CASE ~(y = Node[i] /\ r \in frames[i].todo)
      <3>1. lowlink[Node[i]] <= indices[r]
        BY <2>3 DEF TarjanInv, LowLeast
      <3>2. indices[r] \in Nat
        BY <1>1, StackIs
      <3> QED
        BY <1>5, <2>1, <3>1, <3>2
    <2> QED
      BY <2>2, <2>3
  <1> QED
    BY <1>10, <1>11, <1>12, <1>13, <1>14, <1>15, <1>16 DEF TarjanInv


(* The end of the innermost call.                                          *)
LEMMA LeaveKeeps ==
    ASSUME TarjanInv, Leave
    PROVE  TarjanInv'
  <1> DEFINE n == Len(frames)
             x == Node[n]
             Seg == {y \in Stacked : indices[x] <= indices[y]}
             from == CHOOSE i \in DOMAIN stack : stack[i] = x
             isRoot == lowlink[x] = indices[x]
  <1>1. TarjanType /\ Calls
    BY DEF TarjanInv
  <1>2. frames # <<>> /\ frames \in Seq([node : Nodes, todo : SUBSET Nodes])
    BY <1>1 DEF Leave, Calls
  <1>3. /\ n \in Nat \ {0} /\ n \in 1..n /\ Top = frames[n] /\ Top.node = x /\ frames[n].todo = {}
    <2>1. n \in Nat \ {0} /\ Top = frames[n]
      BY <1>1, <1>2, DropIs
    <2> QED
      BY <2>1 DEF Node, Leave
  <1>4. /\ frames' \in Seq([node : Nodes, todo : SUBSET Nodes]) /\ Len(frames') = n - 1
        /\ \A i \in 1..(n - 1) : frames'[i] = frames[i]
    <2>1. frames' = Front(frames)
      BY DEF Leave
    <2> DEFINE Frame == [node : Nodes, todo : SUBSET Nodes]
    <2>2. frames \in Seq(Frame)
      BY <1>2
    <2> HIDE DEF Frame
    <2>3. /\ Front(frames) \in Seq(Frame) /\ Len(Front(frames)) = Len(frames) - 1
          /\ \A i \in 1..(Len(frames) - 1) : Front(frames)[i] = frames[i]
      BY <1>2, <2>2, FrontIs
    <2> QED
      BY <2>1, <2>3 DEF Frame
  <1>5. \A i \in 1..(n - 1) : i \in 1..n /\ i < n /\ Node'[i] = Node[i]
    BY <1>3, <1>4 DEF Node
  <1>6. \A i \in 1..n : /\ Node[i] \in Stacked /\ Node[i] \in Nodes /\ Node[i] \in DOMAIN indices
                        /\ indices[Node[i]] \in Nat /\ lowlink[Node[i]] \in Nat
    BY <1>1, CallIs
  <1>7. \A i \in 1..(n - 1) : indices[Node[i]] < indices[x]
    BY <1>1, <1>3, <1>5 DEF Calls
  <1>8. graph' = graph /\ indices' = indices /\ To' = To /\ Class' = Class
    BY DEF Leave, To, Class
  <1>9. /\ Stacked \subseteq DOMAIN indices /\ Stacked \subseteq Nodes
        /\ \A y \in Stacked : indices[y] \in Nat
    BY <1>1, StackIs
  <1>10. \A i \in 1..n : lowlink[Node[i]] <= indices[Node[i]]
    <2> SUFFICES ASSUME NEW i \in 1..n
                 PROVE  lowlink[Node[i]] <= indices[Node[i]]
      OBVIOUS
    <2>1. PICK z \in Stacked : indices[z] = lowlink[Node[i]] /\ indices[z] <= indices[Node[i]]
      BY DEF TarjanInv, LowReached
    <2> QED
      BY <2>1
  (* The lowlinks afterwards. *)
  <1>11. /\ lowlink' \in [DOMAIN indices -> Nat]
         /\ \A i \in 1..(n - 1) : lowlink'[Node[i]] =
                IF i = n - 1 THEN Least(lowlink[Node[i]], lowlink[x]) ELSE lowlink[Node[i]]
    <2>1. lowlink \in [DOMAIN indices -> Nat]
      BY <1>1 DEF TarjanType
    <2>2. CASE n = 1
      BY <1>3, <2>1, <2>2 DEF Leave
    <2>3. CASE n # 1
      <3>1. n - 1 \in 1..(n - 1) /\ n - 1 \in 1..n
        BY <1>3, <2>3
      <3>2. Last(Front(frames)).node = Node[n - 1]
        <4>1. Front(frames) = frames'
          BY DEF Leave
        <4> QED
          BY <1>4, <3>1, <4>1 DEF Last, Node
      <3>3. lowlink' = [lowlink EXCEPT ![Node[n - 1]] = Least(lowlink[Node[n - 1]], lowlink[x])]
        BY <1>3, <2>3, <3>2 DEF Leave
      <3>4. Least(lowlink[Node[n - 1]], lowlink[x]) \in Nat
        BY <1>3, <1>6, <3>1 DEF Least
      <3>5. \A i \in 1..(n - 1) : i # n - 1 => Node[i] # Node[n - 1]
        <4> SUFFICES ASSUME NEW i \in 1..(n - 1), i # n - 1
                     PROVE  Node[i] # Node[n - 1]
          OBVIOUS
        <4>1. i < n - 1 /\ i \in 1..n
          BY <1>3
        <4>2. indices[Node[i]] < indices[Node[n - 1]]
          BY <1>1, <3>1, <4>1 DEF Calls
        <4> QED
          BY <1>6, <3>1, <4>1, <4>2
      <3> QED
        BY <1>5, <1>6, <2>1, <3>3, <3>4, <3>5
    <2> QED
      BY <2>2, <2>3
  (* The stack from x on. *)
  <1>12. /\ from \in 1..Len(stack) /\ stack[from] = x
         /\ stack \in Seq(DOMAIN indices) /\ Len(stack) \in Nat /\ DOMAIN stack = 1..Len(stack)
    <2>1. stack \in Seq(DOMAIN indices)
      BY <1>1 DEF TarjanType
    <2>2. DOMAIN stack = 1..Len(stack) /\ Len(stack) \in Nat
      BY <2>1
    <2>3. \E i \in DOMAIN stack : stack[i] = x
      BY <1>3, <1>6 DEF Stacked, ToSet
    <2> QED
      BY <2>1, <2>2, <2>3
  <1> HIDE DEF from
  <1>13. \A i \in 1..Len(stack) : stack[i] \in Stacked /\ (indices[x] <= indices[stack[i]] <=> from <= i)
    <2> SUFFICES ASSUME NEW i \in 1..Len(stack)
                 PROVE  stack[i] \in Stacked /\ (indices[x] <= indices[stack[i]] <=> from <= i)
      OBVIOUS
    <2>1. stack[i] \in Stacked /\ indices[stack[i]] \in Nat /\ indices[x] \in Nat
      BY <1>3, <1>6, <1>9, <1>12 DEF Stacked, ToSet
    <2>2. CASE i < from
      BY <1>1, <1>12, <2>1, <2>2 DEF TarjanType
    <2>3. CASE from < i
      BY <1>1, <1>12, <2>1, <2>3 DEF TarjanType
    <2>4. CASE i = from
      BY <1>12, <2>1, <2>4
    <2> QED
      BY <1>12, <2>2, <2>3, <2>4
  <1>14. Stacked = {stack[i] : i \in 1..Len(stack)}
    BY <1>12 DEF Stacked, ToSet
  <1>15. {stack[i] : i \in from..Len(stack)} = Seg
    <2>1. \A i \in from..Len(stack) : i \in 1..Len(stack) /\ from <= i
      BY <1>12
    <2>2. \A y \in Seg : \E i \in from..Len(stack) : y = stack[i]
      <3> SUFFICES ASSUME NEW y \in Seg
                   PROVE  \E i \in from..Len(stack) : y = stack[i]
        OBVIOUS
      <3>1. PICK i \in 1..Len(stack) : y = stack[i]
        BY <1>14
      <3>2. from <= i
        BY <1>13, <3>1
      <3> QED
        BY <1>12, <3>1, <3>2
    <2>3. \A i \in from..Len(stack) : stack[i] \in Seg
      BY <1>13, <2>1
    <2> QED
      BY <2>2, <2>3
  <1>16. isRoot => sccs' = sccs \cup {Seg} /\ Stacked' = Stacked \ Seg /\ stack' = SubSeq(stack, 1, from - 1)
    <2> SUFFICES ASSUME isRoot
                 PROVE  sccs' = sccs \cup {Seg} /\ Stacked' = Stacked \ Seg
                        /\ stack' = SubSeq(stack, 1, from - 1)
      OBVIOUS
    <2>1. sccs' = sccs \cup {{stack[i] : i \in from..Len(stack)}} /\ stack' = SubSeq(stack, 1, from - 1)
      BY <1>3 DEF Leave, from
    <2>2. from - 1 \in Nat /\ from - 1 <= Len(stack)
      BY <1>12
    <2>3. /\ stack' \in Seq(DOMAIN indices) /\ Len(stack') = from - 1
          /\ \A i \in 1..(from - 1) : stack'[i] = stack[i]
      BY <1>12, <2>1, <2>2, PrefixIs
    <2>4. Stacked' = {stack'[i] : i \in 1..(from - 1)}
      <3>1. DOMAIN stack' = 1..(from - 1)
        BY <2>3
      <3> QED
        BY <3>1 DEF Stacked, ToSet
    <2>5. \A i \in 1..(from - 1) : i \in 1..Len(stack) /\ ~(from <= i)
      BY <1>12
    <2>6. Stacked' \subseteq Stacked \ Seg
      BY <1>13, <2>3, <2>4, <2>5
    <2>7. \A y \in Stacked \ Seg : y \in Stacked'
      <3> SUFFICES ASSUME NEW y \in Stacked \ Seg
                   PROVE  y \in Stacked'
        OBVIOUS
      <3>1. PICK i \in 1..Len(stack) : y = stack[i]
        BY <1>14
      <3>2. i \in 1..(from - 1)
        BY <1>12, <1>13, <3>1
      <3> QED
        BY <2>3, <2>4, <3>1, <3>2
    <2> QED
      BY <1>15, <2>1, <2>6, <2>7
  <1>17. ~isRoot => sccs' = sccs /\ Stacked' = Stacked /\ stack' = stack
    BY <1>3 DEF Leave, Stacked
  <1> HIDE DEF isRoot, Seg
  <1>18. TarjanType'
    <2>1. /\ stack' \in Seq(DOMAIN indices)
          /\ \A i, j \in 1..Len(stack') : i < j => indices[stack'[i]] < indices[stack'[j]]
      <3>1. CASE ~isRoot
        BY <1>1, <1>17, <3>1 DEF TarjanType
      <3>2. CASE isRoot
        <4>1. from - 1 \in Nat /\ from - 1 <= Len(stack)
          BY <1>12
        <4>2. /\ stack' \in Seq(DOMAIN indices) /\ Len(stack') = from - 1
              /\ \A i \in 1..(from - 1) : stack'[i] = stack[i]
          <5> DEFINE m == from - 1
                     D == DOMAIN indices
          <5>1. m \in Nat /\ m <= Len(stack) /\ stack \in Seq(D)
            BY <1>12, <4>1
          <5>2. stack' = SubSeq(stack, 1, m)
            BY <1>16, <3>2
          <5> HIDE DEF m, D
          <5>3. /\ SubSeq(stack, 1, m) \in Seq(D) /\ Len(SubSeq(stack, 1, m)) = m
                /\ \A i \in 1..m : SubSeq(stack, 1, m)[i] = stack[i]
            BY <5>1, PrefixIs
          <5>4. stack' \in Seq(D) /\ Len(stack') = m /\ \A i \in 1..m : stack'[i] = stack[i]
            BY <5>2, <5>3
          <5> QED
            BY <5>4 DEF m, D
        <4>3. \A i \in 1..(from - 1) : i \in 1..Len(stack)
          BY <1>12
        <4>4. ASSUME NEW i \in 1..Len(stack'), NEW j \in 1..Len(stack'), i < j
              PROVE  indices[stack'[i]] < indices[stack'[j]]
          <5>1. i \in 1..(from - 1) /\ j \in 1..(from - 1)
            BY <4>2
          <5>2. i \in 1..Len(stack) /\ j \in 1..Len(stack) /\ stack'[i] = stack[i] /\ stack'[j] = stack[j]
            BY <4>2, <4>3, <5>1
          <5>3. indices[stack[i]] < indices[stack[j]]
            BY <1>1, <4>4, <5>2 DEF TarjanType
          <5> QED
            BY <5>2, <5>3
        <4> QED
          BY <4>2, <4>4
      <3> QED
        BY <3>1, <3>2
    <2> QED
      BY <1>1, <1>8, <1>11, <2>1 DEF TarjanType
  <1>19. \A i \in 1..(n - 1) : Node[i] \in Stacked'
    <2> SUFFICES ASSUME NEW i \in 1..(n - 1)
                 PROVE  Node[i] \in Stacked'
      OBVIOUS
    <2>1. Node[i] \in Stacked /\ Node[i] \notin Seg
      BY <1>3, <1>5, <1>6, <1>7 DEF Seg
    <2> QED
      BY <1>16, <1>17, <2>1
  <1>20. Stacked' \subseteq Stacked
    BY <1>16, <1>17
  <1>21. Calls'
    <2>1. \A i \in 1..(n - 1) : Node'[i] \in Stacked' /\ frames'[i].todo \subseteq graph'[Node'[i]]
      BY <1>1, <1>4, <1>5, <1>8, <1>19 DEF Calls
    <2>2. \A i, j \in 1..(n - 1) : i < j => indices'[Node'[i]] < indices'[Node'[j]]
      BY <1>1, <1>5, <1>8 DEF Calls
    <2> QED
      BY <1>4, <2>1, <2>2 DEF Calls
  <1>22. Explored'
    <2> SUFFICES ASSUME NEW y \in DOMAIN indices, NEW s \in graph[y], s \notin DOMAIN indices
                 PROVE  \E i \in 1..(n - 1) : Node'[i] = y /\ s \in frames'[i].todo
      BY <1>4, <1>8 DEF Explored
    <2>1. PICK i \in 1..n : Node[i] = y /\ s \in frames[i].todo
      BY DEF TarjanInv, Explored
    <2>2. i \in 1..(n - 1)
      BY <1>3, <2>1
    <2> QED
      BY <1>4, <1>5, <2>1, <2>2
  <1>23. Down'
    <2> SUFFICES ASSUME NEW i \in 1..(n - 1), NEW y \in Stacked', indices[Node[i]] <= indices[y]
                 PROVE  y \in To[Node[i]]
      BY <1>4, <1>5, <1>8 DEF Down
    <2> QED
      BY <1>5, <1>20 DEF TarjanInv, Down
  (* Reachability inside the stack. *)
  <1>24. \A y \in Seg : y \in To[x] /\ y \in Stacked
    BY <1>3 DEF Seg, TarjanInv, Down
  <1>25. \A i \in 1..n : x \in To[Node[i]]
    <2> SUFFICES ASSUME NEW i \in 1..n
                 PROVE  x \in To[Node[i]]
      OBVIOUS
    <2>1. indices[Node[i]] <= indices[x]
      <3>1. CASE i = n
        BY <1>3, <1>6, <3>1
      <3>2. CASE i # n
        <4>1. i \in 1..(n - 1)
          BY <1>3, <3>2
        <4> QED
          BY <1>3, <1>6, <1>7, <4>1
      <3> QED
        BY <3>1, <3>2
    <2> QED
      BY <1>3, <1>6, <2>1 DEF TarjanInv, Down
  <1>26. \A y \in Stacked : y \in Seg => x \in To[y]
    <2> SUFFICES ASSUME NEW y \in Stacked
                 PROVE  x \in To[y]
      OBVIOUS
    <2>1. PICK i \in 1..n : Node[i] \in To[y]
      BY DEF TarjanInv, Up
    <2>2. To[Node[i]] \subseteq To[y]
      BY <1>1, <1>9, <2>1, ReachTransitive DEF TarjanType
    <2> QED
      BY <1>25, <2>2
  <1>27. Up'
    <2> SUFFICES ASSUME NEW y \in Stacked'
                 PROVE  \E i \in 1..(n - 1) : indices[Node[i]] <= indices[y] /\ Node[i] \in To[y]
      BY <1>4, <1>5, <1>8 DEF Up
    <2>1. y \in Stacked
      BY <1>20
    <2>2. PICK i \in 1..n : indices[Node[i]] <= indices[y] /\ Node[i] \in To[y]
      BY <2>1 DEF TarjanInv, Up
    <2>3. CASE i # n
      <3>1. i \in 1..(n - 1)
        BY <1>3, <2>3
      <3> QED
        BY <2>2, <3>1
    <2>4. CASE i = n
      <3>1. y \in Seg
        BY <2>1, <2>2, <2>4 DEF Seg
      <3>2. ~isRoot
        BY <1>16, <3>1
      <3>3. PICK z \in Stacked : indices[z] = lowlink[x] /\ indices[z] <= indices[x] /\ z \in To[x]
        BY <1>3 DEF TarjanInv, LowReached
      <3>4. indices[z] < indices[x]
        BY <1>3, <1>6, <1>9, <3>2, <3>3 DEF isRoot
      <3>5. PICK j \in 1..n : indices[Node[j]] <= indices[z] /\ Node[j] \in To[z]
        BY <3>3 DEF TarjanInv, Up
      <3>6. j # n
        BY <1>3, <1>6, <1>9, <3>3, <3>4, <3>5
      <3>7. j \in 1..(n - 1)
        BY <1>3, <3>5, <3>6
      <3>8. indices[Node[j]] <= indices[y]
        <4>1. indices[x] <= indices[y] /\ indices[x] \in Nat /\ indices[y] \in Nat
          BY <1>3, <1>6, <1>9, <2>1, <3>1 DEF Seg
        <4> QED
          BY <1>6, <1>9, <3>3, <3>4, <3>5, <4>1
      <3>9. Node[j] \in To[y]
        <4>1. x \in To[y]
          BY <1>26, <2>1, <3>1
        <4>2. To[x] \subseteq To[y]
          BY <1>1, <1>9, <2>1, <4>1, ReachTransitive DEF TarjanType
        <4>3. To[z] \subseteq To[x]
          BY <1>1, <1>3, <1>6, <3>3, ReachTransitive DEF TarjanType
        <4> QED
          BY <3>5, <4>2, <4>3
      <3> QED
        BY <3>7, <3>8, <3>9
    <2> QED
      BY <2>3, <2>4
  <1>28. LowReached'
    <2> SUFFICES ASSUME NEW i \in 1..(n - 1)
                 PROVE  \E z \in Stacked' : /\ indices[z] = lowlink'[Node[i]]
                                            /\ indices[z] <= indices[Node[i]] /\ z \in To[Node[i]]
      BY <1>4, <1>5, <1>8 DEF LowReached
    <2>1. PICK z \in Stacked : /\ indices[z] = lowlink[Node[i]]
                               /\ indices[z] <= indices[Node[i]] /\ z \in To[Node[i]]
      BY <1>5 DEF TarjanInv, LowReached
    <2>2. z \in Stacked'
      <3>1. z \notin Seg
        BY <1>3, <1>5, <1>6, <1>7, <1>9, <2>1 DEF Seg
      <3> QED
        BY <1>16, <1>17, <2>1, <3>1
    <2>3. CASE lowlink'[Node[i]] = lowlink[Node[i]]
      BY <2>1, <2>2, <2>3
    <2>4. CASE lowlink'[Node[i]] # lowlink[Node[i]]
      <3>1. lowlink'[Node[i]] = lowlink[x] /\ lowlink[x] < lowlink[Node[i]]
        BY <1>3, <1>5, <1>6, <1>11, <2>4 DEF Least
      <3>2. PICK w \in Stacked : indices[w] = lowlink[x] /\ w \in To[x]
        BY <1>3 DEF TarjanInv, LowReached
      <3>3. indices[w] <= indices[Node[i]]
        BY <1>3, <1>5, <1>6, <1>10, <3>1, <3>2
      <3>4. w \in Stacked'
        <4>1. w \notin Seg
          BY <1>3, <1>5, <1>6, <1>7, <1>9, <3>2, <3>3 DEF Seg
        <4> QED
          BY <1>16, <1>17, <3>2, <4>1
      <3>5. w \in To[Node[i]]
        <4>1. x \in To[Node[i]] /\ Node[i] \in Nodes
          BY <1>5, <1>6, <1>25
        <4> QED
          BY <1>1, <3>2, <4>1, ReachTransitive DEF TarjanType
      <3> QED
        BY <3>1, <3>2, <3>3, <3>4, <3>5
    <2> QED
      BY <2>3, <2>4
  <1>29. LowLeast'
    <2> SUFFICES ASSUME NEW i \in 1..(n - 1), NEW y \in Stacked',
                        indices[Node[i]] <= indices[y],
                        i < n - 1 => indices[y] < indices[Node'[i + 1]],
                        NEW s \in graph[y] \cap Stacked', ~(y = Node[i] /\ s \in frames'[i].todo)
                 PROVE  lowlink'[Node[i]] <= indices[s]
      BY <1>4, <1>5, <1>8 DEF LowLeast, Part
    <2>1. y \in Stacked /\ s \in graph[y] \cap Stacked /\ i \in 1..n /\ ~(y = Node[i] /\ s \in frames[i].todo)
      BY <1>4, <1>5, <1>20
    <2>2. /\ lowlink'[Node[i]] \in Nat /\ lowlink'[Node[i]] <= lowlink[Node[i]]
          /\ i = n - 1 => lowlink'[Node[i]] <= lowlink[x]
      <3> DEFINE low == lowlink[Node[i]]
                 own == lowlink[x]
                 new == lowlink'[Node[i]]
      <3>1. low \in Nat /\ own \in Nat
        BY <1>3, <1>5, <1>6
      <3>2. new = IF i = n - 1 THEN Least(low, own) ELSE low
        BY <1>11
      <3> HIDE DEF low, own, new
      <3>3. new \in Nat /\ new <= low /\ (i = n - 1 => new <= own)
        <4>1. CASE i = n - 1
          BY <3>1, <3>2, <4>1 DEF Least
        <4>2. CASE i # n - 1
          BY <3>1, <3>2, <4>2
        <4> QED
          BY <4>1, <4>2
      <3> QED
        BY <3>3 DEF low, own, new
    <2>3. indices[s] \in Nat /\ indices[y] \in Nat /\ indices[x] \in Nat
      BY <1>3, <1>6, <1>9, <2>1
    <2>4. CASE i < n - 1 \/ indices[y] < indices[x]
      <3>1. Part(i, y)
        <4>1. CASE i = n - 1
          BY <1>3, <2>4, <4>1 DEF Part
        <4>2. CASE i # n - 1
          <5>1. i < n - 1 /\ i + 1 \in 1..(n - 1)
            BY <1>3, <4>2
          <5> QED
            BY <1>5, <5>1 DEF Part
        <4> QED
          BY <4>1, <4>2
      <3>2. lowlink[Node[i]] <= indices[s]
        BY <2>1, <3>1 DEF TarjanInv, LowLeast
      <3> QED
        BY <1>6, <2>1, <2>2, <2>3, <3>2
    <2>5. CASE i = n - 1 /\ ~(indices[y] < indices[x])
      <3>1. Part(n, y)
        BY <1>3, <2>3, <2>5 DEF Part
      <3>2. lowlink[x] <= indices[s]
        BY <1>3, <2>1, <3>1 DEF TarjanInv, LowLeast
      <3> QED
        BY <1>3, <1>6, <2>2, <2>3, <2>5, <3>2
    <2> QED
      BY <1>3, <2>4, <2>5
  <1>30. Found'
    <2>1. CASE ~isRoot
      BY <1>8, <1>17, <2>1 DEF TarjanInv, Found, Left
    <2>2. CASE isRoot
      <3>1. Left' = Left \cup Seg /\ Left \cap Seg = {} /\ Seg \subseteq DOMAIN indices
        BY <1>8, <1>9, <1>16, <2>2 DEF Left, Seg
      <3>2. \A y \in Seg : graph[y] \subseteq Left \cup Seg
        <4> SUFFICES ASSUME NEW y \in Seg, NEW s \in graph[y], s \notin Left
                     PROVE  s \in Seg
          OBVIOUS
        <4>1. s \in DOMAIN indices
          <5> SUFFICES ASSUME s \notin DOMAIN indices
                       PROVE  FALSE
            OBVIOUS
          <5>1. PICK i \in 1..n : Node[i] = y /\ s \in frames[i].todo
            BY <3>1 DEF TarjanInv, Explored
          <5>2. i \in 1..(n - 1)
            BY <1>3, <5>1
          <5> QED
            BY <1>3, <1>5, <1>6, <1>7, <5>1, <5>2 DEF Seg
        <4>2. s \in Stacked
          BY <4>1 DEF Left
        <4>3. Part(n, y)
          BY <1>3 DEF Part, Seg
        <4>4. lowlink[x] <= indices[s]
          BY <1>3, <1>24, <4>2, <4>3 DEF TarjanInv, LowLeast
        <4> QED
          BY <2>2, <4>2, <4>4 DEF isRoot, Seg
      <3>3. \A y \in Left : graph[y] \subseteq Left
        BY DEF TarjanInv, Found
      <3>4. \A y \in Left' : graph'[y] \subseteq Left'
        BY <1>8, <3>1, <3>2, <3>3
      <3>5. UNION sccs' = Left'
        BY <1>16, <2>2, <3>1 DEF TarjanInv, Found
      <3>6. x \in Nodes /\ x \in Stacked /\ x \in Seg
        BY <1>3, <1>6 DEF Seg
      <3>7. Left \subseteq Nodes /\ Seg \subseteq Nodes
        BY <1>1, <3>1 DEF TarjanType, Left
      <3>8. Seg = Class[x]
        <4>1. Seg \subseteq Class[x]
          BY <1>24, <1>26, <3>6, <3>7 DEF Class
        <4>2. ASSUME NEW y \in Class[x]
              PROVE  y \in Seg
          <5>1. y \in Nodes /\ y \in To[x] /\ x \in To[y]
            BY <3>6 DEF Class
          <5>2. To[x] \subseteq Left \cup Seg
            BY <1>1, <3>2, <3>3, <3>6, <3>7, ReachLeast DEF TarjanType
          <5>3. y \notin Left
            <6> SUFFICES ASSUME y \in Left
                         PROVE  FALSE
              OBVIOUS
            <6>1. To[y] \subseteq Left
              BY <1>1, <3>3, <3>7, <5>1, ReachLeast DEF TarjanType
            <6> QED
              BY <3>6, <5>1, <6>1 DEF Left
          <5> QED
            BY <5>1, <5>2, <5>3
        <4> QED
          BY <4>1, <4>2
      <3>9. \A y \in Seg : Seg = Class[y]
        BY <1>1, <3>6, <3>8, SameClass DEF TarjanType
      <3>10. \A c \in sccs' : c # {} /\ \A y \in c : c = Class[y]
        BY <1>16, <2>2, <3>6, <3>9 DEF TarjanInv, Found
      <3> QED
        BY <1>8, <3>4, <3>5, <3>10 DEF Found
    <2> QED
      BY <2>1, <2>2
  <1> QED
    BY <1>18, <1>21, <1>22, <1>23, <1>27, <1>28, <1>29, <1>30 DEF TarjanInv

(* The components found are exactly the classes of nodes that reach each   *)
(* other, for any graph and any order of nodes and successors              *)
(* (validator.py: TarjanCycleDetector.find_sccs and strongconnect).        *)
THEOREM TarjanSccsExact == TarjanSpec => []SccsExact
  <1>1. TarjanInit => TarjanInv
    <2> SUFFICES ASSUME TarjanInit
                 PROVE  TarjanInv
      OBVIOUS
    <2>1. /\ graph \in [Nodes -> SUBSET Nodes] /\ DOMAIN indices = {} /\ indices = lowlink
          /\ stack = <<>> /\ frames = <<>> /\ sccs = {}
      BY DEF TarjanInit, Empty
    <2>2. Len(stack) = 0 /\ Len(frames) = 0 /\ Stacked = {}
      BY <2>1 DEF Stacked, ToSet
    <2>3. TarjanType
      <3>1. IsFiniteSet({})
        BY FS_EmptySet
      <3>2. indices \in [{} -> Nat]
        BY DEF TarjanInit, Empty
      <3> QED
        BY <2>1, <2>2, <3>1, <3>2 DEF TarjanType
    <2>4. Calls
      BY <2>1, <2>2 DEF Calls
    <2> QED
      BY <2>1, <2>2, <2>3, <2>4
      DEF TarjanInv, Found, Left, Explored, Down, Up, LowReached, LowLeast
  <1>2. TarjanInv /\ [TarjanNext]_tarjanVars => TarjanInv'
    <2> SUFFICES ASSUME TarjanInv, [TarjanNext]_tarjanVars
                 PROVE  TarjanInv'
      OBVIOUS
    <2>1. CASE UNCHANGED tarjanVars
      <3>1. /\ graph' = graph /\ indices' = indices /\ lowlink' = lowlink
            /\ stack' = stack /\ frames' = frames /\ sccs' = sccs
        BY <2>1 DEF tarjanVars
      <3>2. Stacked' = Stacked /\ Node' = Node /\ To' = To
        BY <3>1 DEF Stacked, Node, To
      <3>3. Left' = Left /\ Class' = Class
        BY <3>1, <3>2 DEF Left, Class
      <3>4. TarjanType' /\ Calls' /\ Found'
        BY <3>1, <3>2, <3>3 DEF TarjanInv, TarjanType, Calls, Found
      <3>5. Explored' /\ Down' /\ Up' /\ LowReached'
        <4>1. Explored'
          BY <3>1, <3>2 DEF TarjanInv, Explored
        <4>2. Down'
          BY <3>1, <3>2 DEF TarjanInv, Down
        <4>3. Up'
          BY <3>1, <3>2 DEF TarjanInv, Up
        <4>4. LowReached'
          BY <3>1, <3>2 DEF TarjanInv, LowReached
        <4> QED
          BY <4>1, <4>2, <4>3, <4>4
      <3>6. LowLeast'
        BY <3>1, <3>2 DEF TarjanInv, LowLeast, Part
      <3> QED
        BY <3>4, <3>5, <3>6 DEF TarjanInv
    <2> QED
      BY <2>1, RootKeeps, DescendKeeps, SkipKeeps, LeaveKeeps DEF TarjanNext
  <1>3. TarjanInv => SccsExact
    <2> SUFFICES ASSUME TarjanInv, TarjanDone
                 PROVE  Answer = {c \in {Class[x] : x \in Nodes} : Cardinality(c) > 1}
      BY DEF SccsExact, Class, To
    <2>1. Len(frames) = 0 /\ DOMAIN indices = Nodes
      BY DEF TarjanDone
    <2>2. Stacked = {}
      BY <2>1 DEF TarjanInv, Up
    <2>3. UNION sccs = Nodes
      BY <2>1, <2>2 DEF TarjanInv, Found, Left
    <2>4. \A c \in sccs : \E x \in Nodes : c = Class[x]
      BY <2>3 DEF TarjanInv, Found
    <2>5. \A x \in Nodes : Class[x] \in sccs
      BY <2>3 DEF TarjanInv, Found
    <2>6. sccs = {Class[x] : x \in Nodes}
      BY <2>4, <2>5
    <2> QED
      BY <2>6 DEF Answer
  <1> QED
    BY <1>1, <1>2, <1>3, PTL DEF TarjanSpec


----------------------------------------------------------------------------
(* The control plane *)

LEMMA ControlIsParts ==
    Spec => /\ LifecycleSpec /\ TarjanSpec /\ ValidatorSpec /\ AnnealingSpec
            /\ CloudSpec /\ VaultSpec /\ DeploySpec
  <1>1. Init => /\ LifecycleInit /\ TarjanInit /\ ValidatorInit /\ AnnealingInit
                /\ CloudInit /\ VaultInit /\ DeployInit
    BY DEF Init
  <1>2. [Next]_controlVars => [LifecycleNext]_lifecycleVars
    BY DEF Next, controlVars
  <1>3. [Next]_controlVars => [ValidatorNext]_validatorVars
    BY DEF Next, controlVars
  <1>4. [Next]_controlVars => [AnnealingNext]_annealingVars
    BY DEF Next, controlVars
  <1>5. [Next]_controlVars => [CloudNext]_cloudVars
    BY DEF Next, controlVars
  <1>6. [Next]_controlVars => [VaultNext]_vaultVars
    BY DEF Next, controlVars
  <1>7. [Next]_controlVars => [DeployNext]_deployVars
    BY DEF Next, controlVars
  <1>8. [Next]_controlVars => [TarjanNext]_tarjanVars
    BY DEF Next, controlVars
  <1> QED
    BY <1>1, <1>2, <1>3, <1>4, <1>5, <1>6, <1>7, <1>8, PTL
    DEF Spec, LifecycleSpec, TarjanSpec, ValidatorSpec, AnnealingSpec, CloudSpec, VaultSpec, DeploySpec

(* The parts keep their promises beside each other as well: what is shown  *)
(* of the lifecycle manager, validator.py, annealing.py, the cloud         *)
(* managers, the Vault client and the deployment command holds in every    *)
(* run of the control plane, whichever of them it uses.                    *)
THEOREM ControlSafe ==
    Spec => [](/\ RestartsBounded /\ SccsExact /\ CyclesReported /\ BestIsLeast
               /\ WorkAccounted /\ CacheCoherent /\ DeployedWhole)
  BY ControlIsParts, LifecycleRestartsBounded, TarjanSccsExact, ValidatorCyclesReported, AnnealingBestIsLeast,
     CloudWorkAccounted, VaultCacheCoherent, DeploymentWhole, PTL

=============================================================================
