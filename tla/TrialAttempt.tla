---------------------------- MODULE TrialAttempt ----------------------------
(***************************************************************************)
(* The trials of one engine as its worker threads run them on local Docker *)
(* (trial/execution/local_docker.rs, trial/execution.rs) and retry them    *)
(* (execute_local_trial), and what recovery makes of them after a crash.   *)
(*                                                                         *)
(* A worker takes a permit for the containers its trial will need, then    *)
(* creates a network, a task container, sidecars and perhaps a grading     *)
(* container.  It persists the attempt's phase and the ids it has, removes *)
(* what it has handles for, and returns.  Every step that talks to Docker, *)
(* to the disk or to the store may fail.                                   *)
(*                                                                         *)
(* The agent's and the grader's work, and what is copied in and out, is    *)
(* left out: a step of theirs succeeds, fails or times out.                *)
(***************************************************************************)
EXTENDS Integers, FiniteSets, FiniteSetsExt

CONSTANTS
  Trials,
  Cap,             \* BUCEPHALUS_DOCKER_MAX_ACTIVE_CONTAINERS
  MaxAttempts,     \* retry_max_attempts
  AgentSidecars,   \* the sidecars the agent stage lists
  GraderSidecars,  \* the sidecars the grader stage lists
  Strategy         \* of the grader; "off" when grading is not enabled

ASSUME CapAssumption == Cap \in Nat \ {0}
ASSUME MaxAttemptsAssumption == MaxAttempts \in Nat \ {0}
ASSUME FiniteAssumption ==
  IsFiniteSet(Trials) /\ IsFiniteSet(AgentSidecars) /\ IsFiniteSet(GraderSidecars)
ASSUME StrategyAssumption ==
  Strategy \in {"off", "None", "InTaskRuntime", "Injected", "Separate", "Host"}

Sidecars == AgentSidecars \cup GraderSidecars
Roles == {"task", "grading"} \cup Sidecars

VARIABLES
  pc,        \* where each trial is
  attempt,   \* attempts begun
  mem,       \* the roles whose handle the worker has
  fresh,     \* sidecars started by the call of start_trial_ephemerals under way
  phase,     \* the persisted phase of the latest attempt
  ids,       \* the persisted container roles of it
  box,       \* the containers there are: <<trial, role>>
  net,       \* the trials whose network there is
  in_use,    \* units taken from the limiter
  failed,    \* the closure of the runtime returned an error
  dirty,     \* post_runtime_errors is not empty
  result,    \* what execute_local_trial returned
  up         \* the process is there; "recovered" or "stuck" once it is not

workVars == <<attempt, mem, fresh, phase, ids, box, net, failed, dirty>>
vars == <<pc, workVars, in_use, result, up>>

Phases == {"none", "Pending", "AgentMaterializing", "AgentRunning", "AgentFinished",
           "GraderMaterializing", "GraderRunning", "CommitPending", "Abandoned"}

States == {"idle", "observe", "begin", "network", "task", "record", "case", "agent_sidecars",
           "run_agent", "agent", "grade", "grader_sidecars", "grading_container",
           "record_grading", "run_grader", "grader", "finalize", "clean_grading",
           "clean_sidecars", "clean_task", "clean_network", "close", "returned"}

\* Every variable has a value of its type.
AttemptTypeOK ==
  /\ pc \in [Trials -> States]
  /\ attempt \in [Trials -> 0 .. MaxAttempts]
  /\ mem \in [Trials -> SUBSET Roles]
  /\ fresh \in [Trials -> SUBSET Sidecars]
  /\ phase \in [Trials -> Phases]
  /\ ids \in [Trials -> SUBSET Roles]
  /\ box \subseteq Trials \X Roles
  /\ net \subseteq Trials
  /\ in_use \in 0 .. Cap
  /\ failed \in [Trials -> BOOLEAN]
  /\ dirty \in [Trials -> BOOLEAN]
  /\ result \in [Trials -> {"none", "ok", "err"}]
  /\ up \in {"yes", "no", "recovered", "stuck"}

Init ==
  /\ pc = [t \in Trials |-> "idle"]
  /\ attempt = [t \in Trials |-> 0]
  /\ mem = [t \in Trials |-> {}]
  /\ fresh = [t \in Trials |-> {}]
  /\ phase = [t \in Trials |-> "none"]
  /\ ids = [t \in Trials |-> {}]
  /\ box = {}
  /\ net = {}
  /\ in_use = 0
  /\ failed = [t \in Trials |-> FALSE]
  /\ dirty = [t \in Trials |-> FALSE]
  /\ result = [t \in Trials |-> "none"]
  /\ up = "yes"

-----------------------------------------------------------------------------
At(t, here) == up = "yes" /\ pc[t] = here
GoTo(t, there) == pc' = [pc EXCEPT ![t] = there]
NeedsNetwork == Sidecars # {}
Boxes(t) == {b \in box : b[1] = t}

\* planned_docker_active_container_units.
Units == 1 + Cardinality(Sidecars) + (IF Strategy = "Separate" THEN 1 ELSE 0)

\* persist_attempt_state writes the worker's memory: its phase, its ids.
Persist(t, p, roles) == phase' = [phase EXCEPT ![t] = p] /\ ids' = [ids EXCEPT ![t] = roles]

\* An error before the closure: the function returns at once, with the permit.
ReturnsEarly(t) ==
  /\ GoTo(t, "returned")
  /\ result' = [result EXCEPT ![t] = "err"]

\* Mutant: nobody waits.
AcquireAtOnce(t) ==
  /\ At(t, "idle")
  /\ in_use' = in_use + Units
  /\ GoTo(t, "observe")
  /\ UNCHANGED <<workVars, result, up>>

\* ActiveRuntimeLimiter::acquire: more units than the limit are refused, else the
\* thread waits until they are there.
Acquire(t) ==
  /\ At(t, "idle")
  /\ IF Units > Cap
     THEN ReturnsEarly(t) /\ UNCHANGED in_use
     ELSE /\ in_use + Units <= Cap
          /\ in_use' = in_use + Units
          /\ GoTo(t, "observe")
          /\ UNCHANGED result
  /\ UNCHANGED <<workVars, up>>

\* Mutant: a permit is only given back by a trial that succeeds.
ReleaseOnSuccess(t) == in_use' = IF failed[t] THEN in_use ELSE in_use - Units

\* ActiveRuntimePermit::drop, on every way out.
Release(t) == in_use' = in_use - Units

\* The containers Docker has count as well, whoever left them behind; then the
\* image.
Observe(t) ==
  /\ At(t, "observe")
  /\ \/ /\ Cardinality(box) + Units <= Cap
        /\ GoTo(t, "begin")
        /\ UNCHANGED <<in_use, result>>
     \/ ReturnsEarly(t) /\ Release(t)
  /\ UNCHANGED <<workVars, up>>

\* The attempt is persisted as Pending.
Begin(t) ==
  /\ At(t, "begin")
  /\ attempt' = [attempt EXCEPT ![t] = @ + 1]
  /\ Persist(t, "Pending", {})
  /\ mem' = [mem EXCEPT ![t] = {}]
  /\ failed' = [failed EXCEPT ![t] = FALSE]
  /\ dirty' = [dirty EXCEPT ![t] = FALSE]
  /\ GoTo(t, "network")
  /\ UNCHANGED <<fresh, box, net, in_use, result, up>>

\* The network is created and persisted; an error returns at once, and the
\* attempt stays Pending.
CreateNetwork(t) ==
  /\ At(t, "network")
  /\ \/ /\ net' = IF NeedsNetwork THEN net \cup {t} ELSE net
        /\ GoTo(t, "task")
        /\ UNCHANGED <<in_use, result>>
     \/ /\ NeedsNetwork
        /\ net' \in {net, net \cup {t}}
        /\ ReturnsEarly(t)
        /\ Release(t)
  /\ UNCHANGED <<attempt, mem, fresh, phase, ids, box, failed, dirty, up>>

-----------------------------------------------------------------------------
(* The closure.  An error in it leads to the cleanup.                        *)

Errs(t) == GoTo(t, "clean_grading") /\ failed' = [failed EXCEPT ![t] = TRUE]

Proceeds(t, there) == GoTo(t, there) /\ UNCHANGED failed

Start(t, role) == box' = box \cup {<<t, role>>}

\* create_and_start_container_checked fails and removes what it created, or
\* fails in that too.
StartFails(t, role) == box' = box \/ Start(t, role)

\* AgentMaterializing, then the task container is created and started.
StartTask(t) ==
  /\ At(t, "task")
  /\ Persist(t, "AgentMaterializing", ids[t])
  /\ \/ Start(t, "task") /\ Proceeds(t, "record")
     \/ StartFails(t, "task") /\ Errs(t)
  /\ UNCHANGED <<attempt, mem, fresh, net, in_use, dirty, result, up>>

\* Hidden assets are stashed away and the id persisted; only then does the
\* worker keep the handle for its cleanup.  (An id noted and not yet persisted
\* reaches the disk with the Abandoned phase.)
RecordTask(t) ==
  /\ At(t, "record")
  /\ \/ /\ Persist(t, "AgentMaterializing", ids[t] \cup {"task"})
        /\ mem' = [mem EXCEPT ![t] = @ \cup {"task"}]
        /\ Proceeds(t, "case")
     \/ /\ Errs(t)
        /\ ids' \in {ids, [ids EXCEPT ![t] = @ \cup {"task"}]}
        /\ UNCHANGED <<mem, phase>>
  /\ UNCHANGED <<attempt, fresh, box, net, in_use, dirty, result, up>>

\* run_case_materialization_steps.
RunCaseSteps(t) ==
  /\ At(t, "case")
  /\ Proceeds(t, "agent_sidecars") \/ Errs(t)
  /\ UNCHANGED <<attempt, mem, fresh, phase, ids, box, net, in_use, dirty, result, up>>

\* The sidecars of the stage that are not started yet.
Missing(t, stage) ==
  (IF stage = "agent_sidecars" THEN AgentSidecars ELSE GraderSidecars) \ (mem[t] \cup fresh[t])

\* start_trial_ephemerals starts them one after the other ...
StartSidecar(t, stage) ==
  \E s \in Missing(t, stage) :
    /\ At(t, stage)
    /\ Start(t, s)
    /\ fresh' = [fresh EXCEPT ![t] = @ \cup {s}]
    /\ UNCHANGED <<pc, attempt, mem, phase, ids, net, failed, dirty, in_use, result, up>>

\* ... and on an error takes back those of this call, as far as Docker lets it.
\* Their ids stay in the attempt, and the cleanup will persist them.
StartSidecarFails(t, stage) ==
  /\ At(t, stage)
  /\ \E s \in Missing(t, stage), gone \in {{}, fresh[t]} :
       \E left \in {{}, {s}} : box' = (box \ ({t} \X gone)) \cup ({t} \X left)
  /\ ids' = [ids EXCEPT ![t] = @ \cup fresh[t]]
  /\ fresh' = [fresh EXCEPT ![t] = {}]
  /\ Errs(t)
  /\ UNCHANGED <<attempt, mem, phase, net, dirty, in_use, result, up>>

\* All of them run: the handles are kept, the ids persisted.
KeepSidecars(t, stage) ==
  /\ At(t, stage)
  /\ Missing(t, stage) = {}
  /\ mem' = [mem EXCEPT ![t] = @ \cup fresh[t]]
  /\ Persist(t, phase[t], ids[t] \cup fresh[t])
  /\ fresh' = [fresh EXCEPT ![t] = {}]
  /\ Proceeds(t, IF stage = "agent_sidecars" THEN "run_agent" ELSE "grading_container")
  /\ UNCHANGED <<attempt, box, net, in_use, dirty, result, up>>

StartAgent(t) ==
  /\ At(t, "run_agent")
  /\ Persist(t, "AgentRunning", ids[t])
  /\ Proceeds(t, "agent") \/ Errs(t)
  /\ UNCHANGED <<attempt, mem, fresh, box, net, in_use, dirty, result, up>>

\* The agent ends or is stopped at its time limit, which skips the grader; or
\* the exec, its stream or its result cannot be had.
EndAgent(t) ==
  /\ At(t, "agent")
  /\ \/ /\ Persist(t, "AgentFinished", ids[t])
        /\ \/ Proceeds(t, IF Strategy = "off" THEN "finalize" ELSE "grade")
           \/ Proceeds(t, "finalize")
     \/ Errs(t) /\ UNCHANGED <<phase, ids>>
  /\ UNCHANGED <<attempt, mem, fresh, box, net, in_use, dirty, result, up>>

\* The agent's outputs are captured.  Without a grader command the trial is
\* finalized with an error reason.
BeginGrading(t) ==
  /\ At(t, "grade")
  /\ \/ Persist(t, "GraderMaterializing", ids[t]) /\ Proceeds(t, "grader_sidecars")
     \/ Proceeds(t, "finalize") /\ UNCHANGED <<phase, ids>>
     \/ Errs(t) /\ UNCHANGED <<phase, ids>>
  /\ UNCHANGED <<attempt, mem, fresh, box, net, in_use, dirty, result, up>>

\* Where the grader runs.  A separate container is started; what is recorded
\* about it may fail before its handle is kept.
MaterializeGrader(t) ==
  /\ At(t, "grading_container")
  /\ CASE Strategy = "None" -> Errs(t) /\ UNCHANGED <<mem, box>>
       [] Strategy = "Separate" ->
            \/ Start(t, "grading") /\ mem' = [mem EXCEPT ![t] = @ \cup {"grading"}]
                 /\ Proceeds(t, "record_grading")
            \/ StartFails(t, "grading") /\ Errs(t) /\ UNCHANGED mem
       [] OTHER -> (Proceeds(t, "record_grading") \/ Errs(t)) /\ UNCHANGED <<mem, box>>
  /\ UNCHANGED <<attempt, fresh, phase, ids, net, in_use, dirty, result, up>>

\* The grading sandbox is persisted: a container of its own, the task container,
\* or the word "host", which is no container.
RecordGrading(t) ==
  /\ At(t, "record_grading")
  /\ Persist(t, phase[t], ids[t] \cup (mem[t] \cap {"grading"}))
  /\ Proceeds(t, "run_grader") \/ Errs(t)
  /\ UNCHANGED <<attempt, mem, fresh, box, net, in_use, dirty, result, up>>

StartGrader(t) ==
  /\ At(t, "run_grader")
  /\ Persist(t, "GraderRunning", ids[t])
  /\ Proceeds(t, "grader") \/ Errs(t)
  /\ UNCHANGED <<attempt, mem, fresh, box, net, in_use, dirty, result, up>>

\* The grader's record, its outputs and the conclusion; one that fails its schema
\* is an error reason and not an error.
EndGrader(t) ==
  /\ At(t, "grader")
  /\ Proceeds(t, "finalize") \/ Errs(t)
  /\ UNCHANGED <<attempt, mem, fresh, phase, ids, box, net, in_use, dirty, result, up>>

Finalize(t) ==
  /\ At(t, "finalize")
  /\ \/ Persist(t, "CommitPending", ids[t]) /\ Proceeds(t, "clean_grading")
     \/ Errs(t) /\ UNCHANGED <<phase, ids>>
  /\ UNCHANGED <<attempt, mem, fresh, box, net, in_use, dirty, result, up>>

-----------------------------------------------------------------------------
(* The cleanup: grading container, sidecars, task container, network.        *)

\* Mutant: a container that was not removed is not held against the attempt.
RemoveQuietly(t, roles, next) ==
  /\ \/ box' = box \ ({t} \X roles)
     \/ UNCHANGED box
  /\ GoTo(t, next) /\ UNCHANGED <<dirty, in_use, result>>

\* The containers of these roles the worker has a handle for are removed, or an
\* error is noted; a failure to record the time taken ends the function.
Remove(t, roles, next) ==
  \/ /\ box' = box \ ({t} \X roles)
     /\ GoTo(t, next) /\ UNCHANGED <<dirty, in_use, result>>
  \/ /\ roles # {}
     /\ UNCHANGED box
     /\ dirty' = [dirty EXCEPT ![t] = TRUE]
     /\ GoTo(t, next) /\ UNCHANGED <<in_use, result>>
  \/ /\ roles # {}
     /\ box' = box \ ({t} \X roles)
     /\ ReturnsEarly(t) /\ Release(t) /\ UNCHANGED dirty

CleanContainers(t) ==
  /\ \/ At(t, "clean_grading") /\ Remove(t, mem[t] \cap {"grading"}, "clean_sidecars")
     \/ At(t, "clean_sidecars") /\ Remove(t, mem[t] \cap Sidecars, "clean_task")
     \/ At(t, "clean_task") /\ Remove(t, mem[t] \cap {"task"}, "clean_network")
  /\ UNCHANGED <<attempt, mem, fresh, phase, ids, net, failed, up>>

CleanNetwork(t) ==
  /\ At(t, "clean_network")
  /\ \/ net' = net \ {t} /\ UNCHANGED dirty
     \/ t \in net /\ UNCHANGED net /\ dirty' = [dirty EXCEPT ![t] = TRUE]
  /\ GoTo(t, "close")
  /\ UNCHANGED <<attempt, mem, fresh, phase, ids, box, failed, in_use, result, up>>

\* An error makes the attempt Abandoned.  The function returns, with an error too
\* if the evidence cannot be attached; a result that the policy retries is tried
\* again, with a permit of its own, and an error is not.
Close(t) ==
  /\ At(t, "close")
  /\ phase' = [phase EXCEPT ![t] = IF failed[t] THEN "Abandoned" ELSE @]
  /\ Release(t)
  /\ \/ /\ GoTo(t, "returned")
        /\ \E r \in {"ok", "err"} :
             /\ failed[t] \/ dirty[t] => r = "err"
             /\ result' = [result EXCEPT ![t] = r]
     \/ /\ ~failed[t] /\ ~dirty[t] /\ attempt[t] < MaxAttempts
        /\ GoTo(t, "idle")
        /\ UNCHANGED result
  /\ UNCHANGED <<attempt, mem, fresh, ids, box, net, failed, dirty, up>>

Step(t) ==
  \/ Acquire(t) \/ Observe(t) \/ Begin(t) \/ CreateNetwork(t) \/ StartTask(t)
  \/ RecordTask(t) \/ RunCaseSteps(t)
  \/ \E stage \in {"agent_sidecars", "grader_sidecars"} :
       StartSidecar(t, stage) \/ StartSidecarFails(t, stage) \/ KeepSidecars(t, stage)
  \/ StartAgent(t) \/ EndAgent(t) \/ BeginGrading(t) \/ MaterializeGrader(t)
  \/ RecordGrading(t) \/ StartGrader(t) \/ EndGrader(t) \/ Finalize(t)
  \/ CleanContainers(t) \/ CleanNetwork(t) \/ Close(t)

-----------------------------------------------------------------------------
(* The process dies, and recover_run reconciles the attempts it left.        *)

Crash ==
  /\ up = "yes"
  /\ up' = "no"
  /\ mem' = [t \in Trials |-> {}]
  /\ fresh' = [t \in Trials |-> {}]
  /\ in_use' = 0
  /\ UNCHANGED <<pc, attempt, phase, ids, box, net, failed, dirty, result>>

\* trial_phase_requires_recovery_release.  (An attempt with a committed slot is
\* not looked at; here none has.)
RequiresRelease(t) == phase[t] \notin {"none", "Abandoned"}

\* cleanup_local_docker_attempt_runtime finds containers by persisted id and by
\* label, networks by name and by label.
Findable(t) == ids[t] # {} \/ Boxes(t) # {} \/ t \in net

\* Mutant: only what was persisted is removed.
ReconcileById(t) ==
  /\ up = "no"
  /\ RequiresRelease(t) /\ ids[t] # {}
  /\ box' = box \ ({t} \X ids[t])
  /\ net' = net \ {t}
  /\ phase' = [phase EXCEPT ![t] = "Abandoned"]
  /\ UNCHANGED <<pc, attempt, mem, fresh, ids, failed, dirty, in_use, result, up>>

\* Everything found is removed, and the attempt Abandoned.
Reconcile(t) ==
  /\ up = "no"
  /\ RequiresRelease(t) /\ Findable(t)
  /\ box' = box \ Boxes(t)
  /\ net' = net \ {t}
  /\ phase' = [phase EXCEPT ![t] = "Abandoned"]
  /\ UNCHANGED <<pc, attempt, mem, fresh, ids, failed, dirty, in_use, result, up>>

\* Nothing is found: cleanup_missing_runtime_container, and recovery fails, as it
\* will every time.
ReconcileFails(t) ==
  /\ up = "no"
  /\ RequiresRelease(t) /\ ~Findable(t)
  /\ up' = "stuck"
  /\ UNCHANGED <<pc, workVars, in_use, result>>

Recovered ==
  /\ up = "no"
  /\ \A t \in Trials : ~RequiresRelease(t)
  /\ up' = "recovered"
  /\ UNCHANGED <<pc, workVars, in_use, result>>

Next ==
  \/ \E t \in Trials : Step(t)
  \/ Crash
  \/ \E t \in Trials : Reconcile(t) \/ ReconcileFails(t)
  \/ Recovered

\* A worker thread runs on; one waiting for units is woken by every release
\* (notify_all).
Fairness == \A t \in Trials : WF_vars(Step(t))

Spec == Init /\ [][Next]_vars /\ Fairness

-----------------------------------------------------------------------------
\* A trial that returned a result has left no container and no network (the
\* cleanup of execute_local_docker_trial_runtime, over all its attempts).
OkLeavesNothing ==
  \A t \in Trials : result[t] = "ok" => Boxes(t) = {} /\ t \notin net

\* The trials under way never have more containers than the limit, whatever
\* earlier ones have left behind and whichever stage starts a sidecar first
\* (planned_docker_active_container_units against what is really started).
WithinCap ==
  Cardinality({b \in box : pc[b[1]] # "returned"}) <= Cap

\* While an agent or a grader works, every container of its trial is on record,
\* so that a pause reaches it (pause_trial_runtime_containers goes by the ids).
WorkIsOnRecord ==
  \A t \in Trials :
    up = "yes" /\ pc[t] \in {"agent", "grader"} =>
      Boxes(t) \subseteq {t} \X ids[t] /\ phase[t] \in {"AgentRunning", "GraderRunning"}

\* After a recovery that succeeded, a container or a network that is left belongs
\* to a trial that had come to its own end before (recover_run removes what it
\* finds by label as well).
RecoveryCleansTheInterrupted ==
  up = "recovered" =>
    \A t \in Trials : Boxes(t) # {} \/ t \in net => phase[t] = "Abandoned" /\ failed[t]

\* Every trial has come to its end, or its process has (what TrialsReturn of
\* MCTrialRuntime waits for).
AllReturned == up # "yes" \/ \A t \in Trials : pc[t] = "returned"

-----------------------------------------------------------------------------
\* main.rs: "Recover a durable run after stale owner crash/interruption".
\* Recovery is possible wherever the process died.
RecoveryIsPossible == up # "stuck"
=============================================================================
