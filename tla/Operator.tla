------------------------------ MODULE Operator ------------------------------
(***************************************************************************)
(* The operator (src/infrastructure/kubernetes/operator.py): after the     *)
(* leader election a loop lists the resources and reconciles them          *)
(* concurrently, at most MaxConcurrent at a time; the API reconciles       *)
(* single resources besides.  Nothing in the code sets a desired state, so *)
(* a status that is read always differs from it, and changing it fails     *)
(* for want of a "targetState".                                            *)
(***************************************************************************)
EXTENDS Naturals, FiniteSets

CONSTANTS Resources,
          MaxConcurrent,  \* spec.max_concurrent_reconciles
          Attempts        \* stop_after_attempt(3)

ASSUME OperatorAssumption ==
    /\ IsFiniteSet(Resources)
    /\ MaxConcurrent \in Nat \ {0} /\ Attempts \in Nat \ {0}

VARIABLES leader,     \* "electing", "leader" or "refused"
          loop,       \* run_forever(): "off", "listing", "gathering", "sleeping", "backoff"
          round,      \* the resources of this round whose reconcile() has not ended
          external,   \* the resources reconciled through the API
          step,       \* where the reconcile() of a caller and a resource is
          failed,     \* its failed attempts
          breaker     \* the circuit breaker: "closed" or "open"

operatorVars == <<leader, loop, round, external, step, failed, breaker>>

Calls == {"loop", "api"} \X Resources

OperatorInit ==
    /\ leader = "electing" /\ loop = "off" /\ breaker = "closed"
    /\ round = {} /\ external = {}
    /\ step = [c \in Calls |-> "none"]
    /\ failed = [c \in Calls |-> 0]

\* _leader_election(): a status other than 201, or an exception, ends
\* run_forever() with an exception.
Elect ==
    /\ leader = "electing"
    /\ \/ leader' = "leader" /\ loop' = "listing"
       \/ leader' = "refused" /\ UNCHANGED loop
    /\ UNCHANGED <<round, external, step, failed, breaker>>

\* protect() lets a round begin; _list_managed_resources() answers an
\* empty list when it fails.
List(rs) ==
    /\ loop = "listing" /\ breaker = "closed"
    /\ loop' = "gathering" /\ round' = rs
    /\ step' = [c \in Calls |-> IF c \in {"loop"} \X rs THEN "waiting" ELSE step[c]]
    /\ UNCHANGED <<leader, external, failed, breaker>>

Refused ==
    /\ loop = "listing" /\ breaker = "open"
    /\ loop' = "backoff"
    /\ UNCHANGED <<leader, round, external, step, failed, breaker>>

\* gather() returns when all calls have ended, whatever they raised.
Gathered ==
    /\ loop = "gathering" /\ round = {}
    /\ loop' = "sleeping"
    /\ UNCHANGED <<leader, round, external, step, failed, breaker>>

WakeUp ==
    /\ loop \in {"sleeping", "backoff"}
    /\ loop' = "listing"
    /\ UNCHANGED <<leader, round, external, step, failed, breaker>>

BreakerRecovers ==
    /\ breaker = "open" /\ breaker' = "closed"
    /\ UNCHANGED <<leader, loop, round, external, step, failed>>

\* trigger_reconciliation()
Trigger(r) ==
    /\ r \notin external
    /\ external' = external \cup {r}
    /\ step' = [step EXCEPT ![<<"api", r>>] = "waiting"]
    /\ UNCHANGED <<leader, loop, round, failed, breaker>>

Holders == {c \in Calls : step[c] \in {"status", "pause", "heal"}}

\* reconcile(): the semaphore, then get_status().
Acquire(c) ==
    /\ step[c] = "waiting" /\ Cardinality(Holders) < MaxConcurrent
    /\ step' = [step EXCEPT ![c] = "status"]
    /\ UNCHANGED <<leader, loop, round, external, failed, breaker>>

\* The call ends and the semaphore is released.
End(c) ==
    /\ step' = [step EXCEPT ![c] = "none"]
    /\ failed' = [failed EXCEPT ![c] = 0]
    /\ round' = IF c[1] = "loop" THEN round \ {c[2]} ELSE round
    /\ external' = IF c[1] = "api" THEN external \ {c[2]} ELSE external

\* MUTANT of Failures: network failures are not counted.
FailuresNone(n) == n

Failures(n) == n + 1

\* _perform_reconciliation(): the status is read and the change fails, or
\* something else raises: the breaker is triggered, which opens it at its
\* threshold, and nothing is retried.
CriticalFailure(c) ==
    /\ step[c] = "status"
    /\ breaker' \in {breaker, "open"}
    /\ End(c)
    /\ UNCHANGED <<leader, loop>>

\* A ValidationError is only logged.
Invalid(c) ==
    /\ step[c] = "status"
    /\ End(c)
    /\ UNCHANGED <<leader, loop, breaker>>

NetworkError(c) ==
    /\ step[c] = "status"
    /\ failed' = [failed EXCEPT ![c] = Failures(@)]
    /\ step' = [step EXCEPT ![c] = IF Failures(failed[c]) < Attempts THEN "pause" ELSE "heal"]
    /\ UNCHANGED <<leader, loop, round, external, breaker>>

Again(c) ==
    /\ step[c] = "pause"
    /\ step' = [step EXCEPT ![c] = "status"]
    /\ UNCHANGED <<leader, loop, round, external, failed, breaker>>

\* _handle_reconciliation_failure(): restart_agent() succeeds or raises.
Heal(c) ==
    /\ step[c] = "heal"
    /\ End(c)
    /\ UNCHANGED <<leader, loop, breaker>>

Proceed(c) == CriticalFailure(c) \/ Invalid(c) \/ NetworkError(c) \/ Again(c) \/ Heal(c)

OperatorNext ==
    \/ Elect \/ Refused \/ Gathered \/ WakeUp \/ BreakerRecovers
    \/ \E rs \in SUBSET Resources : List(rs)
    \/ \E r \in Resources : Trigger(r)
    \/ \E c \in Calls : Acquire(c) \/ Proceed(c)

OperatorSpec == OperatorInit /\ [][OperatorNext]_operatorVars

\* The event loop runs every coroutine, the servers answer or time out,
\* and the semaphore serves its waiters in turn.
OperatorFairness ==
    /\ WF_operatorVars(Gathered)
    /\ \A c \in Calls : WF_operatorVars(Proceed(c)) /\ SF_operatorVars(Acquire(c))
-----------------------------------------------------------------------------
(* A round of the loop ends: no resource keeps the others waiting, however *)
(* often the network fails and whatever the API reconciles meanwhile.      *)
RoundEnds == loop = "gathering" ~> loop = "sleeping"
=============================================================================
