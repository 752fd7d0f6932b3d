--------------------------- MODULE CycleValidator ---------------------------
(***************************************************************************)
(* CycleValidationFramework of                                             *)
(* src/core/orchestration/workflow/validator.py: a pipeline validates its  *)
(* targets one after the other.  Its module validator lives as long as the *)
(* framework, with a cache of the modules found correct and one graph that *)
(* collects the imports of every module analysed.                          *)
(***************************************************************************)
EXTENDS DependencyGraph

CONSTANTS Packages,    \* top-level modules
          Submodules,  \* modules with a dotted name ...
          Parent,      \* ... and the package they are part of
          MaxTargets   \* bound on the targets of a behaviour

Modules == Packages \cup Submodules

VARIABLES imports,       \* the imports in the source of every module
          moduleGraph,   \* _module_graph, as successors
          validated,     \* _cache: the modules known to be correct
          analysed,      \* the modules whose imports were read
          successes,     \* _report, as far as modules are concerned
          failures,
          projects,      \* _project_graph: nodes only
          results,       \* results of the pipeline under way
          pipeline,      \* "idle", "running"
          targets        \* targets so far

validatorVars == <<imports, moduleGraph, validated, analysed, successes, failures,
                   projects, results, pipeline, targets>>

ValidatorInit ==
    /\ imports \in [Modules -> SUBSET Modules]
    /\ moduleGraph = [m \in Modules |-> {}]
    /\ validated = {} /\ analysed = {} /\ successes = {} /\ failures = {}
    /\ projects = {} /\ results = {}
    /\ pipeline = "idle" /\ targets = 0

\* alias.name.split('.')[0]
TopLevel(m) == IF m \in Packages THEN m ELSE Parent

StartPipeline ==
    /\ pipeline = "idle"
    /\ pipeline' = "running" /\ results' = {}
    /\ UNCHANGED <<imports, moduleGraph, validated, analysed, successes, failures, projects, targets>>

\* full_validation_pipeline() returns all(results).
EndPipeline ==
    /\ pipeline = "running"
    /\ pipeline' = "idle" /\ results' = {}
    /\ UNCHANGED <<imports, moduleGraph, validated, analysed, successes, failures, projects, targets>>

\* MUTANT of BuildModuleGraph: every analysis starts from an empty graph.
BuildModuleGraphAlone(m) ==
    [n \in Modules |-> IF n = m THEN {TopLevel(i) : i \in imports[m]} ELSE {}]

\* _build_module_graph(): edges are added and never removed.
BuildModuleGraph(m) == [moduleGraph EXCEPT ![m] = @ \cup {TopLevel(i) : i \in imports[m]}]

Target ==
    /\ pipeline = "running" /\ targets < MaxTargets
    /\ targets' = targets + 1

\* _validate_module(), of a module that is in the cache and of another.
CachedModule(m) ==
    /\ Target /\ m \in validated
    /\ successes' = successes \cup {m}
    /\ results' = results \cup {TRUE}
    /\ UNCHANGED <<imports, moduleGraph, validated, analysed, failures, projects, pipeline>>

ValidateModule(m) ==
    /\ Target /\ m \notin validated
    /\ moduleGraph' = BuildModuleGraph(m)
    /\ analysed' = analysed \cup {m}
    /\ \/ /\ HasCycle(moduleGraph')          \* CycleValidationError
          /\ failures' = failures \cup {m}
          /\ results' = results \cup {FALSE}
          /\ UNCHANGED <<validated, successes>>
       \/ /\ ~HasCycle(moduleGraph')
          /\ validated' = validated \cup {m}
          /\ successes' = successes \cup {m}
          /\ results' = results \cup {TRUE}
          /\ UNCHANGED failures
    /\ UNCHANGED <<imports, projects, pipeline>>

\* A class is judged by itself, and no function is ever found in a cycle:
\* its identifier never equals the name by which it is called.
ValidateDefinition(verdict) ==
    /\ Target
    /\ results' = results \cup {verdict}
    /\ UNCHANGED <<imports, moduleGraph, validated, analysed, successes, failures, projects, pipeline>>

\* Anything else ends the pipeline: a module without source or a file that
\* cannot be imported, a workflow (_current_analysis is None), an object.
Raises ==
    /\ Target
    /\ pipeline' = "idle" /\ results' = {}
    /\ UNCHANGED <<imports, moduleGraph, validated, analysed, successes, failures, projects>>

\* add_project(); validate_project_dependencies() finds no edges.
AddProject(p) ==
    /\ p \notin projects
    /\ projects' = projects \cup {p}
    /\ UNCHANGED <<imports, moduleGraph, validated, analysed, successes, failures, results, pipeline, targets>>

ValidatorNext ==
    \/ StartPipeline \/ EndPipeline \/ Raises
    \/ \E m \in Modules : CachedModule(m) \/ ValidateModule(m)
    \/ \E verdict \in BOOLEAN : ValidateDefinition(verdict)
    \/ AddProject("project")

ValidatorSpec == ValidatorInit /\ [][ValidatorNext]_validatorVars
-----------------------------------------------------------------------------
ImportsOf(ms) == [m \in Modules |-> IF m \in ms THEN {TopLevel(i) : i \in imports[m]} ELSE {}]

(* A cycle among the packages whose sources were analysed, in whatever     *)
(* order and by whatever pipelines, has been reported: some module failed, *)
(* and the modules found correct form no cycle by themselves.              *)
CyclesReported ==
    /\ HasCycle(ImportsOf(analysed)) => failures # {}
    /\ ~HasCycle(ImportsOf(validated))
=============================================================================
