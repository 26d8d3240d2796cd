----------------------------- MODULE ModalTrial -----------------------------
(***************************************************************************)
(* A trial on Modal (trial/execution/modal.rs and modal-launcher/main.go). *)
(* The runner takes a permit, spawns the launcher and reads its output up  *)
(* to the result marker; the trial then goes on without the launcher,      *)
(* which exports the events and terminates the sandboxes by itself.  The   *)
(* launcher notes every sandbox of the trial in runtime_workers.json for   *)
(* kill and recovery, which terminate what they find there.                *)
(*                                                                         *)
(* The launcher outlives a runner that crashes, until it writes to the     *)
(* closed pipe.  It drops the errors of its terminations and of its notes; *)
(* `faults` says which of them there were.  A sandbox also ends by its own *)
(* time limit; that is left out, since the limit is as long as the         *)
(* trial's.                                                                *)
(***************************************************************************)
EXTENDS Integers, FiniteSets, FiniteSetsExt

CONSTANTS
  Trials,     \* trials of one runner process
  Cap,        \* BUCEPHALUS_MODAL_MAX_ACTIVE_SANDBOXES
  Grading,    \* "none", "same" or "separate": where the grader runs
  MaxFaults   \* bound: terminations, notes and clean-ups that fail

VARIABLES
  runner,    \* the runner process: "up", "crashed"
  trial,     \* of each trial: see TrialStates
  units,     \* the permit a trial holds
  phase,     \* the persisted attempt: "none", "active", "final", "abandoned"
  removed,   \* roles whose cleanup record says "removed"
  launcher,  \* of each trial: see LauncherStates
  result,    \* what the launcher's result says, see ResultFacts
  boxes,     \* live sandboxes <<trial, role>>
  workers,   \* roles in runtime_workers.json
  faults     \* history: <<trial, role>> of a termination that failed and <<trial, "note">> of a
             \* note that was not written, both unnoticed; <<trial, "cleanup">> of a clean-up
             \* that could not terminate all

vars == <<runner, trial, units, phase, removed, launcher, result,
          boxes, workers, faults>>

TrialStates == {"idle", "permit", "persisted", "reading", "received", "recorded", "ok", "err",
                "gone"}

LauncherStates == {"none", "stage", "create", "note", "work", "creategrader", "notegrader",
                   "grade", "result", "export", "terminate", "terminatetask", "done", "broken"}

Returned == {"ok", "err"}

\* The sandbox has an id, the grader an exec record; runErr was a timeout, or fatal; the
\* result marker has been written to the pipe.
ResultFacts == {"sandbox", "grader", "timeout", "fatal", "sent"}

\* The sandboxes a launcher may have: of the case and of a separate grader, and one of its
\* own to stage the mounts and one to export the events.
SandboxRoles == {"task", "grading", "stager", "exporter"}

\* Every variable has a value of its type, and a trial that has returned holds no
\* permit (ActiveRuntimePermit::drop).
ModalTypeOK ==
  /\ runner \in {"up", "crashed"}
  /\ trial \in [Trials -> TrialStates]
  /\ units \in [Trials -> 0 .. 2]
  /\ phase \in [Trials -> {"none", "active", "final", "abandoned"}]
  /\ removed \in [Trials -> SUBSET {"task", "grading"}]
  /\ launcher \in [Trials -> LauncherStates]
  /\ result \in [Trials -> SUBSET ResultFacts]
  /\ boxes \subseteq Trials \X SandboxRoles
  /\ workers \in [Trials -> SUBSET {"task", "grading"}]
  /\ faults \subseteq Trials \X (SandboxRoles \cup {"note", "cleanup"})
  /\ \A t \in Trials : trial[t] \in Returned => units[t] = 0

Init ==
  /\ runner = "up"
  /\ trial = [t \in Trials |-> "idle"]
  /\ units = [t \in Trials |-> 0]
  /\ phase = [t \in Trials |-> "none"]
  /\ removed = [t \in Trials |-> {}]
  /\ launcher = [t \in Trials |-> "none"]
  /\ result = [t \in Trials |-> {}]
  /\ boxes = {}
  /\ workers = [t \in Trials |-> {}]
  /\ faults = {}

launcherVars == <<launcher, boxes, workers, faults>>

-----------------------------------------------------------------------------
\* planned_modal_active_sandbox_units
planned_modal_active_sandbox_units == IF Grading = "separate" THEN 2 ELSE 1

InUse == MapThenSumSet(LAMBDA t : units[t], Trials)

\* execute_modal_trial_runtime goes on, or returns: the permit and the launcher's result go
\* with it.
Continue(t, at) == trial' = [trial EXCEPT ![t] = at] /\ UNCHANGED <<units, result>>

Return(t, how) ==
  /\ trial' = [trial EXCEPT ![t] = how]
  /\ units' = [units EXCEPT ![t] = 0]
  /\ result' = [result EXCEPT ![t] = {}]

\* acquire_modal_active_sandbox_permit: a trial larger than the cap fails, any
\* other waits for its units.
Acquire(t) ==
  /\ runner = "up" /\ trial[t] = "idle"
  /\ LET n == planned_modal_active_sandbox_units IN
       IF n > Cap THEN Return(t, "err")
       ELSE /\ InUse + n <= Cap
            /\ trial' = [trial EXCEPT ![t] = "permit"]
            /\ units' = [units EXCEPT ![t] = n]
            /\ UNCHANGED result
  /\ UNCHANGED <<runner, phase, removed, launcherVars>>

\* The attempt is persisted, its launch specification built: or one of them fails.
Persist(t) ==
  /\ runner = "up" /\ trial[t] = "permit"
  /\ phase' = [phase EXCEPT ![t] = "active"]
  /\ Continue(t, "persisted") \/ Return(t, "err")
  /\ UNCHANGED <<runner, removed, launcherVars>>

\* run_modal_launch: the transfer archive is built and the launcher spawned.
Launch(t) ==
  /\ runner = "up" /\ trial[t] = "persisted"
  /\ \/ Continue(t, "reading") /\ launcher' = [launcher EXCEPT ![t] = "stage"]
     \/ Return(t, "err") /\ UNCHANGED launcher
  /\ UNCHANGED <<runner, phase, removed, boxes, workers, faults>>

\* run_modal_launch: the marker is read, or the output ends without one.
Receive(t) ==
  /\ runner = "up" /\ trial[t] = "reading"
  /\ \/ "sent" \in result[t] /\ Continue(t, "received")
     \/ "sent" \notin result[t] /\ launcher[t] \in {"done", "broken"} /\ Return(t, "err")
  /\ UNCHANGED <<runner, phase, removed, launcherVars>>

\* The agent's phase and the sandbox are recorded, as removed already; an error of
\* the launcher, or a missing sandbox id, fails the trial before.
RecordAgent(t) ==
  /\ runner = "up" /\ trial[t] = "received"
  /\ IF "fatal" \in result[t] \/ "sandbox" \notin result[t]
     THEN Return(t, "err") /\ UNCHANGED removed
     ELSE Continue(t, "recorded") /\ removed' = [removed EXCEPT ![t] = @ \cup {"task"}]
  /\ UNCHANGED <<runner, phase, launcherVars>>

\* The grader's phase is recorded, the attempt finalized; without the grader's
\* exec record, or with a result that does not read, the trial fails.
Finish(t) ==
  /\ runner = "up" /\ trial[t] = "recorded"
  /\ \/ /\ Grading # "none" => "grader" \in result[t]
        /\ removed' = IF Grading = "none" THEN removed
                      ELSE [removed EXCEPT ![t] = @ \cup {"grading"}]
        /\ phase' = [phase EXCEPT ![t] = "final"]
        /\ Return(t, "ok")
     \/ UNCHANGED <<removed, phase>> /\ Return(t, "err")
  /\ UNCHANGED <<runner, launcherVars>>

-----------------------------------------------------------------------------
\* The launcher goes on to a state of its own.
Goes(t, s) == launcher' = [launcher EXCEPT ![t] = s]

Quiet == UNCHANGED <<runner, trial, units, phase, removed>>

\* A step of the launcher that fails goes straight to the result.
RunErr(t) ==
  /\ Goes(t, "result")
  /\ \E e \in {"timeout", "fatal"} : result' = [result EXCEPT ![t] = @ \cup {e}]

\* A fault, within the bound.
Fault(what) == Cardinality(faults) < MaxFaults /\ faults' = faults \cup {what}

\* terminateSandbox drops what Modal answers: the sandbox is gone, or it stays.  One whose
\* creation failed is nil to the launcher, and nothing is asked.
terminateSandbox(t, role) ==
  \/ /\ boxes' = IF <<t, role>> \in faults THEN boxes ELSE boxes \ {<<t, role>>}
     /\ UNCHANGED faults
  \/ <<t, role>> \in boxes \ faults /\ UNCHANGED boxes /\ Fault(<<t, role>>)

\* A sandbox that the launcher uses for itself and that nobody else knows of: it is made and
\* terminated again, or stays.
borrowSandbox(t, role) ==
  \/ UNCHANGED <<boxes, faults>>
  \/ boxes' = boxes \cup {<<t, role>>} /\ Fault(<<t, role>>)

\* runLaunch up to the sandbox: stageLaunchMounts may use a sandbox of its own; a failure
\* here ends the launcher without a marker.
Stage(t) ==
  /\ launcher[t] = "stage"
  /\ borrowSandbox(t, "stager")
  /\ Goes(t, "create") \/ Goes(t, "done")
  /\ Quiet /\ UNCHANGED <<result, workers>>

\* createSandbox: there is a sandbox, or none; or the transfer cannot be copied into it and
\* it is terminated again, which may fail, and then nobody knows of it.
SandboxCreated(t, role) == boxes' = boxes \cup {<<t, role>>} /\ UNCHANGED faults

CreationFails(t, role) == borrowSandbox(t, role) /\ RunErr(t)

\* createSandbox for the case
CreateTask(t) ==
  /\ launcher[t] = "create"
  /\ \/ /\ SandboxCreated(t, "task") /\ Goes(t, "note")
        /\ result' = [result EXCEPT ![t] = @ \cup {"sandbox"}]
     \/ CreationFails(t, "task")
  /\ Quiet /\ UNCHANGED workers

\* writeRuntimeWorker reads the file, adds the sandbox and writes it again.  A write that
\* fails goes unnoticed and leaves the file as it was or truncated, and a truncated one
\* has no workers for whoever reads it.
writeRuntimeWorker(t, role) ==
  \/ workers' = [workers EXCEPT ![t] = @ \cup {role}] /\ UNCHANGED faults
  \/ /\ \E left \in {workers[t], {}} : workers' = [workers EXCEPT ![t] = left]
     /\ Fault(<<t, "note">>)

\* Mutant: the workers file is written when the agent is through.
NoteTaskLate(t) ==
  /\ launcher[t] = "note"
  /\ Goes(t, "work")
  /\ Quiet /\ UNCHANGED <<result, boxes, workers, faults>>

NoteTask(t) ==
  /\ launcher[t] = "note"
  /\ writeRuntimeWorker(t, "task")
  /\ Goes(t, "work")
  /\ Quiet /\ UNCHANGED <<result, boxes>>

\* The transfer is unpacked, services and the agent run, its outputs are captured;
\* in a sandbox that is gone all of this fails.
Work(t) ==
  /\ launcher[t] = "work"
  /\ \/ /\ <<t, "task">> \in boxes
        /\ Goes(t, CASE Grading = "none" -> "result"
                     [] Grading = "same" -> "grade"
                     [] Grading = "separate" -> "creategrader")
        /\ UNCHANGED result
     \/ RunErr(t)
  /\ Quiet /\ UNCHANGED <<boxes, workers, faults>>

\* createSandbox for a separate grader
CreateGrader(t) ==
  /\ launcher[t] = "creategrader"
  /\ \/ SandboxCreated(t, "grading") /\ Goes(t, "notegrader") /\ UNCHANGED result
     \/ CreationFails(t, "grading")
  /\ Quiet /\ UNCHANGED workers

NoteGrader(t) ==
  /\ launcher[t] = "notegrader"
  /\ writeRuntimeWorker(t, "grading")
  /\ Goes(t, "grade")
  /\ Quiet /\ UNCHANGED <<result, boxes>>

GraderRole == IF Grading = "separate" THEN "grading" ELSE "task"

\* The grader's exec record is there as soon as it has run; what is captured
\* afterwards may still fail.
Grade(t) ==
  /\ launcher[t] = "grade"
  /\ Goes(t, "result")
  /\ \E ran \in IF <<t, GraderRole>> \in boxes THEN {{}, {"grader"}} ELSE {{}},
        e \in {{}, {"timeout"}, {"fatal"}} :
       /\ ran = {} => e # {}
       /\ result' = [result EXCEPT ![t] = @ \cup ran \cup e]
  /\ Quiet /\ UNCHANGED <<boxes, workers, faults>>

\* The results are copied and the marker is written; into a pipe that nobody reads
\* any more the write ends the launcher.
EmitResult(t) ==
  /\ launcher[t] = "result"
  /\ IF runner = "crashed"
     THEN Goes(t, "broken") /\ UNCHANGED result
     ELSE /\ Goes(t, IF "sandbox" \in result[t] THEN "export" ELSE "terminate")
          /\ result' = [result EXCEPT ![t] = @ \cup {"sent"}]
  /\ Quiet /\ UNCHANGED <<boxes, workers, faults>>

\* exportLocalFileToBucket, through one more sandbox; its errors are dropped.
Export(t) ==
  /\ launcher[t] = "export"
  /\ borrowSandbox(t, "exporter")
  /\ Goes(t, "terminate")
  /\ Quiet /\ UNCHANGED <<result, workers>>

\* Mutant: the sandbox of a separate grader is forgotten.
TerminateTaskOnly(t) ==
  /\ launcher[t] \in {"terminate", "terminatetask"}
  /\ terminateSandbox(t, "task") /\ Goes(t, "done")
  /\ Quiet /\ UNCHANGED <<result, workers>>

\* terminateSandbox, of a separate grader first.  The lifecycle marker that follows
\* changes nothing.
Terminate(t) ==
  /\ \/ /\ launcher[t] = "terminate"
        /\ terminateSandbox(t, "grading") /\ Goes(t, "terminatetask")
     \/ /\ launcher[t] = "terminatetask"
        /\ terminateSandbox(t, "task") /\ Goes(t, "done")
  /\ Quiet /\ UNCHANGED <<result, workers>>

LauncherStep(t) ==
  \/ Stage(t) \/ CreateTask(t) \/ NoteTask(t) \/ Work(t) \/ CreateGrader(t)
  \/ NoteGrader(t) \/ Grade(t) \/ EmitResult(t) \/ Export(t) \/ Terminate(t)

-----------------------------------------------------------------------------
\* The runner dies: its threads and permits are gone, and with them the results that
\* were sent; the launchers are not.
Crash ==
  /\ runner = "up"
  /\ runner' = "crashed"
  /\ trial' = [t \in Trials |-> IF trial[t] \in Returned THEN trial[t] ELSE "gone"]
  /\ units' = [t \in Trials |-> 0]
  /\ result' = [t \in Trials |-> IF "sent" \in result[t] THEN {} ELSE result[t]]
  /\ UNCHANGED <<phase, removed, launcherVars>>

\* load_modal_runtime_worker_ids: the launcher's notes and the attempt's own record.
WorkerIds(t) == workers[t] \cup removed[t]

\* cleanup_modal_attempt_runtime for an attempt that is not through, in kill_run
\* or in recovery: the sandboxes on record are terminated, the attempt abandoned.
\* With none on record, or one that cannot be terminated, the cleanup is an error and
\* the attempt stays as it is.
CleanUp(t) ==
  /\ phase[t] = "active"
  /\ WorkerIds(t) # {}
  /\ \/ /\ boxes' = boxes \ ({t} \X WorkerIds(t))
        /\ phase' = [phase EXCEPT ![t] = "abandoned"]
        /\ UNCHANGED faults
     \/ /\ \E left \in SUBSET WorkerIds(t) : boxes' = boxes \ ({t} \X (WorkerIds(t) \ left))
        /\ UNCHANGED phase /\ Fault(<<t, "cleanup">>)
  /\ UNCHANGED <<runner, trial, units, removed, launcher, result, workers>>

RunnerStep(t) ==
  Acquire(t) \/ Persist(t) \/ Launch(t) \/ Receive(t) \/ RecordAgent(t) \/ Finish(t)

Next ==
  \/ \E t \in Trials : RunnerStep(t) \/ LauncherStep(t) \/ CleanUp(t)
  \/ Crash

\* Every exec and every sandbox has a time limit, so the launcher takes its steps,
\* and so do the runner's worker threads; a permit that is dropped wakes every
\* trial that waits for one.
Fairness ==
  \A t \in Trials : /\ WF_vars(LauncherStep(t))
                    /\ WF_vars(Persist(t) \/ Launch(t) \/ Receive(t) \/ RecordAgent(t) \/ Finish(t))
                    /\ SF_vars(Acquire(t))

Spec == Init /\ [][Next]_vars /\ Fairness

-----------------------------------------------------------------------------
\* A sandbox of a trial is on record, or its launcher is about to note it: what
\* outlives the launcher is found by kill and recovery (writeRuntimeWorker,
\* load_modal_runtime_worker_ids).  Only a note that could not be written, or a sandbox that
\* could not be terminated where it was made, breaks that.
SandboxesAreOnRecord ==
  \A t \in Trials : \A role \in {"task", "grading"} :
    <<t, role>> \in boxes =>
      \/ role \in workers[t]
      \/ launcher[t] = IF role = "task" THEN "note" ELSE "notegrader"
      \/ {<<t, role>>, <<t, "note">>} \cap faults # {}

\* A launcher that has come to its end leaves no sandbox of any kind, whatever has
\* failed or was cleaned up under it, but those that Modal did not terminate when it
\* asked (runLaunch).
LauncherLeavesNothing ==
  \A t \in Trials : launcher[t] = "done" =>
    \A role \in SandboxRoles : <<t, role>> \in boxes => <<t, role>> \in faults

\* Every trial has returned, or the runner has crashed (what TrialsReturn of
\* MCTrialRuntime waits for).
AllReturned == runner = "crashed" \/ \A t \in Trials : trial[t] \in Returned

\* The documentation of the cap: no more sandboxes of the trials' own than the cap
\* are alive in a runner that is up.
SandboxesWithinCap ==
  runner = "up" => Cardinality({b \in boxes : b[2] \in {"task", "grading"}}) <= Cap

\* What a test says of the cleanup record: a sandbox recorded as removed is gone.
RemovedIsGone ==
  \A t \in Trials : \A role \in removed[t] : <<t, role>> \notin boxes

\* A launcher that has come to its end leaves nothing at all.
EndedLauncherLeavesNothing ==
  \A t \in Trials : launcher[t] = "done" => \A role \in SandboxRoles : <<t, role>> \notin boxes

\* What the documentation says of a killed or recovered run: with its launchers
\* ended, a trial that was cleaned up has no sandbox left.
CleanedUpStaysClean ==
  \A t \in Trials : phase[t] = "abandoned" /\ launcher[t] \in {"done", "broken"} =>
    \A role \in {"task", "grading"} : <<t, role>> \notin boxes
=============================================================================
