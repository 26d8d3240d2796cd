------------------------------ MODULE Preflight ------------------------------
(***************************************************************************)
(* The checks a run passes before its first trial                          *)
(* (experiment/preflight.rs, called from run_experiment): the shape of the *)
(* package, the host, and then, for each variant, the containers: every    *)
(* image is fetched and started, the agent is tried in every image, and so *)
(* is the grader.  The probes of one check share the images among a few    *)
(* threads by an atomic counter.                                           *)
(*                                                                         *)
(* A check's verdict is what the report's "passed" makes of it; its        *)
(* wording is left out.  What Docker answers to a probe is not known       *)
(* beforehand and may differ from probe to probe.                          *)
(***************************************************************************)
EXTENDS Integers, Sequences, FiniteSets

CONSTANTS
  Images,      \* how many task images a package may name
  Variants,    \* how many variants it has
  Workers      \* preflight_image_probe_parallelism

Sites == {"Host", "TaskRuntime", "AgentContainer"}
Interfaces == {"InputOnly", "ReadonlyFiles", "ContainerWorkspace", "OtherWorkspace"}
Strategies == {"None", "InTaskRuntime", "Injected", "Separate", "Host"}
Executors == {"LocalDocker", "Modal"}

\* The packages: images is the number of distinct images the rows name, resolved
\* whether the grader's configuration is complete, bare that some row names none,
\* sound that the rows' ids are as they should be, matching that a declared agent
\* image is the rows' own, env that the required variables are there.
Packages ==
  [site : Sites, interface : Interfaces, strategy : Strategies,
   executor : Executors, images : 0 .. Images, bare : BOOLEAN,
   resolved : BOOLEAN, sound : BOOLEAN,
   matching : BOOLEAN, env : BOOLEAN]

VARIABLES
  pkg,       \* the package
  pc,        \* the check that runs: see Stages
  variant,   \* the variant it runs for
  failed,    \* the names of the checks that failed with severity Error
  next,      \* next_index
  at,        \* the image each probe thread is at, 0: none
  result,    \* the results vector of the probes
  proved,    \* history: <<probe, variant, image>> that succeeded
  broke      \* history: a probe or a fetch failed

vars == <<pkg, pc, variant, failed, next, at, result, proved, broke>>

pool == <<next, at, result>>

Stages == {"shape", "host", "connect", "idle", "agent", "grader", "report",
           "started", "preflight_failed"}

CheckNames == {"shape", "support", "transport", "dataset", "host", "container_ready",
               "agent_runtime_reachable", "grader_reachable"}

\* Every variable has a value of its type, and no image is in the hands of two
\* probe threads (run_bounded_image_probes).
PreflightTypeOK ==
  /\ pkg \in Packages
  /\ pc \in Stages
  /\ variant \in 1 .. Variants
  /\ failed \subseteq CheckNames
  /\ next \in 1 .. Images + Cardinality(Workers) + 1
  /\ at \in [Workers -> 0 .. Images]
  /\ result \in [1 .. Images -> {"none", "ok", "fail"}]
  /\ proved \subseteq {"fetch", "idle", "agent", "grader"} \X (1 .. Variants) \X (1 .. Images)
  /\ broke \in BOOLEAN
  /\ \A v, w \in Workers : at[v] = at[w] /\ at[v] # 0 => v = w

-----------------------------------------------------------------------------
\* parse_trial_runtime_config: a grader in the task's container needs one.
ValidSchema(p) ==
  p.strategy \in {"InTaskRuntime", "Injected"} => p.interface = "ContainerWorkspace"

\* validate_task_boundary_for_trial_runtime on each row: rows name an image
\* exactly when the workspace comes from one.
CompatibleRows(p) ==
  IF p.interface = "ContainerWorkspace" THEN ~p.bare ELSE p.images = 0

\* check_trial_runtime_support_matrix
Supported(p) ==
  /\ p.site = "Host" => p.interface = "InputOnly" /\ p.strategy = "None"
  /\ p.interface = "InputOnly" => p.site = "Host"
  /\ p.interface \notin {"ReadonlyFiles", "OtherWorkspace"}
  /\ p.site = "AgentContainer" => p.matching

\* check_grader_transport_integration
TransportResolved(p) == (p.strategy # "None") = p.resolved

InContainer(p) == p.site \in {"TaskRuntime", "AgentContainer"}

\* container_runtime_required
ContainerRequired(p) ==
  \/ InContainer(p)
  \/ p.strategy \notin {"None", "Host"}
  \/ p.images > 0

\* resolve_preflight_image_requirements: rows without an image, or no image at
\* all, are an error.
ImagesResolved(p) == p.images > 0 /\ ~p.bare

Init ==
  /\ pkg \in Packages
  /\ pc = "shape"
  /\ variant = 1
  /\ failed = {}
  /\ next = 1
  /\ at = [w \in Workers |-> 0]
  /\ result = [i \in 1 .. Images |-> "none"]
  /\ proved = {}
  /\ broke = FALSE

-----------------------------------------------------------------------------
\* collect_preflight_checks_for_executor up to the first return: what the package
\* says of itself.
CheckShape ==
  /\ pc = "shape"
  /\ IF ~ValidSchema(pkg) \/ ~CompatibleRows(pkg)
     THEN failed' = {"shape"} /\ pc' = "report"
     ELSE /\ failed' = (IF pkg.sound THEN {} ELSE {"dataset"})
                       \cup (IF Supported(pkg) THEN {} ELSE {"support"})
                       \cup (IF TransportResolved(pkg) THEN {} ELSE {"transport"})
          /\ pc' = IF failed' \cap {"support", "transport"} # {} THEN "report" ELSE "host"
  /\ UNCHANGED <<pkg, variant, pool, proved, broke>>

\* check_disk_headroom, check_agent_runtime_hermetic and
\* check_agent_bundle_container_compatible add to the report and stop nothing.
CheckHost ==
  /\ pc = "host"
  /\ failed' \in {failed, failed \cup {"host"}}
  /\ pc' = IF ContainerRequired(pkg) THEN "connect" ELSE "agent"
  /\ UNCHANGED <<pkg, variant, pool, proved, broke>>

\* Where the checks go on after container_ready is through for this variant.
NextVariantOr(stage, first) ==
  IF variant < Variants
  THEN variant' = variant + 1 /\ pc' = first
  ELSE variant' = 1 /\ pc' = stage

\* After container_ready: has_blocking_preflight_error decides over the rest.
AfterContainerReady ==
  NextVariantOr(IF "container_ready" \in failed' THEN "report" ELSE "agent", "connect")

\* check_modal_container_ready: the images are named and not tried; there may be
\* more of them than preflight_max_unique_images allows.
ModalReady ==
  /\ pc = "connect" /\ pkg.executor = "Modal"
  /\ failed' \in {failed \cup {"container_ready"}} \cup (IF ImagesResolved(pkg) THEN {failed} ELSE {})
  /\ AfterContainerReady
  /\ UNCHANGED <<pkg, pool, proved, broke>>

\* check_container_ready: the daemon does not answer, or the images are none or too
\* many.
NotReady ==
  /\ pc = "connect" /\ pkg.executor = "LocalDocker"
  /\ failed' = failed \cup {"container_ready"}
  /\ AfterContainerReady
  /\ UNCHANGED <<pkg, pool, proved, broke>>

Fetched(images) == {"fetch"} \X {variant} \X images

\* check_container_ready: ensure_image for each; one that is missing ends the
\* check.  With a grader the idle probe is left out.
EnsureImages ==
  /\ pc = "connect" /\ pkg.executor = "LocalDocker" /\ ImagesResolved(pkg)
  /\ \E have \in SUBSET (1 .. pkg.images) :
       /\ proved' = proved \cup Fetched(have)
       /\ IF have # 1 .. pkg.images
          THEN /\ failed' = failed \cup {"container_ready"} /\ broke' = TRUE
               /\ AfterContainerReady
          ELSE /\ UNCHANGED <<failed, broke>>
               /\ IF pkg.resolved THEN AfterContainerReady
                  ELSE pc' = "idle" /\ UNCHANGED variant
  /\ UNCHANGED <<pkg, pool>>

-----------------------------------------------------------------------------
\* The check that has its probes in the pool, and whether it runs them at all.
Probing ==
  \/ pc = "idle"
  \/ /\ pc \in {"agent", "grader"}
     /\ pkg.executor = "LocalDocker" /\ pkg.env /\ ImagesResolved(pkg)
     /\ IF pc = "agent" THEN pkg.site # "Host" ELSE pkg.strategy \notin {"None", "Host"}

\* A thread takes the next index, if there is one (fetch_add).
Fetch(w) ==
  /\ Probing /\ at[w] = 0 /\ next <= pkg.images
  /\ at' = [at EXCEPT ![w] = next]
  /\ next' = next + 1
  /\ UNCHANGED <<pkg, pc, variant, failed, result, proved, broke>>

\* The probe ends and its result is stored under the lock: a container that would
\* not start, an agent or a grader that broke the contract, or none of it
\* (probe_image_idle_command, run_preflight_contract_smoke).
Probe(w) ==
  /\ at[w] # 0
  /\ at' = [at EXCEPT ![w] = 0]
  /\ \/ /\ result' = [result EXCEPT ![at[w]] = "ok"]
        /\ proved' = proved \cup {<<pc, variant, at[w]>>}
        /\ UNCHANGED broke
     \/ /\ result' = [result EXCEPT ![at[w]] = "fail"]
        /\ broke' = TRUE
        /\ UNCHANGED proved
  /\ UNCHANGED <<pkg, pc, variant, failed, next>>

\* thread::scope returns when every thread has left its loop.
ScopeEnds == Probing /\ next > pkg.images /\ \A w \in Workers : at[w] = 0

\* Mutant: the check fails only if every image does.
ProbesAllFailed == \A i \in 1 .. pkg.images : result[i] = "fail"

\* The failures of the collected results.  Every image has one by then: the threads have
\* been joined, and a missing one is a panic.
ProbesFailed == \E i \in 1 .. pkg.images : result[i] = "fail"

ResetPool ==
  /\ next' = 1
  /\ at' = [w \in Workers |-> 0]
  /\ result' = [i \in 1 .. Images |-> "none"]

\* The idle probes of check_container_ready are in.
IdleProbed ==
  /\ pc = "idle" /\ ScopeEnds
  /\ failed' = IF ProbesFailed THEN failed \cup {"container_ready"} ELSE failed
  /\ AfterContainerReady
  /\ ResetPool
  /\ UNCHANGED <<pkg, proved, broke>>

\* After agent_runtime_reachable: a blocking failure, a grader that is not there or
\* that only Modal can try leave the grader out.
AfterAgent ==
  NextVariantOr(IF \/ "agent_runtime_reachable" \in failed'
                   \/ pkg.strategy = "None" \/ pkg.executor = "Modal"
                THEN "report" ELSE "grader", "agent")

\* check_agent_runtime_reachable_with_scan: the smoke runs are in.
AgentProbed ==
  /\ pc = "agent" /\ ScopeEnds
  /\ failed' = IF ProbesFailed THEN failed \cup {"agent_runtime_reachable"} ELSE failed
  /\ AfterAgent
  /\ ResetPool
  /\ UNCHANGED <<pkg, proved, broke>>

\* Modal tries the agent at launch; on the host the command is looked at, and the
\* variables are checked in either case but Modal's.
AgentNotProbed ==
  /\ pc = "agent" /\ ~Probing
  /\ failed' \in IF pkg.executor = "Modal" /\ pkg.site # "Host" THEN {failed}
                 ELSE IF pkg.env /\ pkg.site = "Host"
                      THEN {failed, failed \cup {"agent_runtime_reachable"}}
                      ELSE {failed \cup {"agent_runtime_reachable"}}
  /\ AfterAgent
  /\ UNCHANGED <<pkg, pool, proved, broke>>

\* check_grader_reachable_with_scan
GraderProbed ==
  /\ pc = "grader" /\ ScopeEnds
  /\ failed' = IF ProbesFailed THEN failed \cup {"grader_reachable"} ELSE failed
  /\ NextVariantOr("report", "grader")
  /\ ResetPool
  /\ UNCHANGED <<pkg, proved, broke>>

\* A host grader's program and files are looked up, nothing is started.
HostGraderChecked ==
  /\ pc = "grader" /\ ~Probing
  /\ failed' \in {failed, failed \cup {"grader_reachable"}}
  /\ NextVariantOr("report", "grader")
  /\ UNCHANGED <<pkg, pool, proved, broke>>

\* run_experiment: the run goes on to its schedule, or ends as preflight_failed.
Report ==
  /\ pc = "report"
  /\ pc' = IF failed = {} THEN "started" ELSE "preflight_failed"
  /\ UNCHANGED <<pkg, variant, failed, pool, proved, broke>>

Next ==
  \/ CheckShape \/ CheckHost \/ ModalReady \/ NotReady \/ EnsureImages
  \/ \E w \in Workers : Fetch(w) \/ Probe(w)
  \/ IdleProbed \/ AgentProbed \/ AgentNotProbed \/ GraderProbed \/ HostGraderChecked
  \/ Report

\* Every probe has a time limit, so preflight takes its steps.
Spec == Init /\ [][Next]_vars /\ WF_vars(Next)

-----------------------------------------------------------------------------
\* A run that starts on Docker has had every image its rows name fetched, and the
\* agent tried in it, for every variant; so has the grader, if it runs in a
\* container.  No probe whatever has failed, and every row has an image
\* (collect_preflight_checks_for_executor, run_bounded_image_probes).
StartedRunWasTried ==
  pc = "started" /\ pkg.executor = "LocalDocker" /\ pkg.site # "Host" =>
    /\ ~broke
    /\ pkg.images > 0 /\ ~pkg.bare
    /\ \A v \in 1 .. Variants, i \in 1 .. pkg.images :
         /\ <<"fetch", v, i>> \in proved
         /\ <<"agent", v, i>> \in proved
         /\ pkg.strategy \notin {"None", "Host"} => <<"grader", v, i>> \in proved

\* Preflight has come to its verdict (what ThreadsFinish of MCRunnerThreads waits
\* for).
VerdictReached == pc \in {"started", "preflight_failed"}

\* With a grader the probe of the idle container is "deferred to grader_reachable"
\* (check_container_ready): then the grader is tried in every image of a run that
\* starts.
DeferredProbeIsMade ==
  pc = "started" /\ pkg.executor = "LocalDocker" /\ pkg.resolved =>
    \A v \in 1 .. Variants, i \in 1 .. pkg.images : <<"grader", v, i>> \in proved
=============================================================================
