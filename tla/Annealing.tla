----------------------------- MODULE Annealing -----------------------------
(***************************************************************************)
(* SimulatedAnnealing of                                                   *)
(* src/core/orchestration/workflow/optimizer/simulated_annealing.py.  A    *)
(* solution is its energy; the temperature is the number of coolings left  *)
(* before min_temperature.                                                 *)
(***************************************************************************)
EXTENDS Integers, SequencesExt

CONSTANTS Energies,       \* energies of solutions
          MaxIterations,  \* config.max_iterations
          Coolings,       \* coolings from initial to minimal temperature
          MaxStagnation,  \* config.max_stagnation
          Interval,       \* config.state_interval
          Window,         \* config.energy_window
          MaxRuns         \* bound on the calls of run()

ASSUME AnnealingAssumption ==
    Energies \subseteq Int /\ IsFiniteSet(Energies) /\ Coolings \in Nat

VARIABLES options,      \* config: [parallel, adaptive]
          annealing,    \* "idle", "running" or "failed": run() has raised
          state,        \* [iteration, current, best, temperature]
          stagnation,   \* stagnation_counter
          executor,     \* "open" or "shutdown"
          checkpoint,   \* the newest sa_state_*.json: "none" or "truncated"
          history,      \* the end of energy_history, kept from run to run
          runs,
          seen          \* the energies evaluated in this run

annealingVars == <<options, annealing, state, stagnation, executor, checkpoint, history, runs, seen>>

Fresh(e) == [iteration |-> 0, current |-> e, best |-> e, temperature |-> Coolings]

AnnealingInit ==
    /\ options \in [parallel : BOOLEAN, adaptive : BOOLEAN]
    /\ annealing = "idle"
    /\ state = Fresh(0) /\ seen = {0}
    /\ stagnation = 0 /\ runs = 0
    /\ executor = "open" /\ checkpoint = "none" /\ history = <<>>

\* StateManager.save_state() opens the file and cannot encode the solution;
\* load_latest_state() takes the newest file, which is not valid JSON then.
Saved == "truncated"

LoadRaises == checkpoint # "none"

\* run() begins in initialize_state(): a checkpoint is not valid JSON and
\* raises before the try statement; without one the solution is evaluated.
StartRun(e) ==
    /\ annealing # "running" /\ runs < MaxRuns
    /\ runs' = runs + 1
    /\ \/ /\ ~LoadRaises
          /\ annealing' = "running" /\ stagnation' = 0
          /\ state' = Fresh(e) /\ seen' = {e}
       \/ /\ LoadRaises
          /\ annealing' = "failed"
          /\ UNCHANGED <<state, stagnation, seen>>
    /\ UNCHANGED <<options, executor, checkpoint, history>>

Running ==
    /\ annealing = "running"
    /\ state.iteration < MaxIterations /\ state.temperature > 0

\* The finally clause: run() returns whatever was raised.
ReturnState == annealing' = "idle" /\ executor' = "shutdown"

\* MUTANT of Best: an improvement over the current solution is the best.
BestOfCurrent(e) == IF e < state.current THEN e ELSE state.best

\* update_state(): the candidate is adopted, accepted or not.
Best(e) == IF e < state.best THEN e ELSE state.best

\* AdaptiveParameterController.update(): when the last energies are all
\* equal the temperature is to be raised, but the configuration has none.
Recorded(e) ==
    LET all == Append(history, e)
    IN  CASE ~options.adaptive     -> history
          [] Len(all) > Window + 1 -> Tail(all)
          [] OTHER                 -> all

CannotHeat(h) == options.adaptive /\ Len(h) > Window /\ Cardinality(ToSet(Tail(h))) = 1

\* One iteration: the best of the candidates' energies, the update, the
\* cooling, and the stagnation counter, which a worse candidate resets.
\* What save_state() wrote stays, and its exception ends the loop.
Iterate(energies) ==
    LET e       == Min(energies)
        updated == [state EXCEPT !.current = e, !.best = Best(e)]
        stalled == IF updated.best < e THEN 0 ELSE stagnation + 1
        raises  == CannotHeat(Recorded(e))
        saves   == stalled < MaxStagnation /\ (state.iteration + 1) % Interval = 0
    IN  /\ Running /\ (options.parallel => executor = "open")
        /\ history' = Recorded(e) /\ seen' = seen \cup energies
        /\ \/ /\ raises
              /\ state' = updated /\ ReturnState
              /\ UNCHANGED <<stagnation, checkpoint>>
           \/ /\ ~raises
              /\ state' = [updated EXCEPT !.iteration = @ + 1, !.temperature = @ - 1]
              /\ stagnation' = stalled
              /\ checkpoint' = IF saves THEN Saved ELSE checkpoint
              /\ IF stalled >= MaxStagnation \/ saves THEN ReturnState
                                                    ELSE UNCHANGED <<annealing, executor>>
        /\ UNCHANGED <<options, runs>>

\* An evaluation raises, the user interrupts (the file written then has
\* another prefix), or the executor is shut down since the first run.
Interrupted ==
    /\ Running
    /\ ReturnState
    /\ UNCHANGED <<options, state, stagnation, checkpoint, history, runs, seen>>

EndRun ==
    /\ annealing = "running" /\ ~Running
    /\ ReturnState
    /\ UNCHANGED <<options, state, stagnation, checkpoint, history, runs, seen>>

AnnealingNext ==
    \/ \E e \in Energies : StartRun(e)
    \/ \E energies \in (SUBSET Energies) \ {{}} : Iterate(energies)
    \/ Interrupted \/ EndRun

AnnealingSpec == AnnealingInit /\ [][AnnealingNext]_annealingVars
-----------------------------------------------------------------------------
(* run() returns the least energy of the initial solution and of all       *)
(* candidates of complete evaluations, although every candidate replaces   *)
(* the current solution and any exception ends the run silently.           *)
BestIsLeast == state.best = Min(seen)
=============================================================================
