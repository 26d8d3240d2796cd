----------------------------- MODULE RunControl -----------------------------
(***************************************************************************)
(* pause, kill and resume against a live scheduler (experiment/control.rs, *)
(* experiment/runner.rs).                                                  *)
(*                                                                         *)
(* Three kinds of process share one run.  The engine looks at the status   *)
(* of run_control at the top of its loop and rewrites the whole record at  *)
(* the end of every event it handles.  Its workers take a trial each       *)
(* through a container and persist every phase from their own memory.  An  *)
(* operation (one at a time: the run's operation lease) works from the     *)
(* record it read when it started, freezes, thaws or removes containers,   *)
(* rewrites the attempt rows and then the record.  Nobody compares before  *)
(* writing.                                                                *)
(*                                                                         *)
(* A trial has a task container and may have a sidecar; Docker freezes and *)
(* removes them by id or by label, takes "not found" for an answer, and    *)
(* refuses an exec in a frozen container (external).  MaxOps bounds the    *)
(* operations, counted once for every slot.                                *)
(***************************************************************************)
EXTENDS Integers, Sequences, FiniteSets

CONSTANTS
  MaxSlots,    \* slots of the longest schedule
  WithSidecar, \* the trials whose agent stage lists a sidecar
  Capacity,    \* worker threads
  Grading,     \* grading_enabled: the grader runs in the task container
  MaxOps

ASSUME MaxSlotsAssumption == MaxSlots \in Nat \ {0}
ASSUME WithSidecarAssumption == WithSidecar \subseteq 1 .. MaxSlots
ASSUME CapacityAssumption == Capacity \in Nat \ {0}
ASSUME GradingAssumption == Grading \in BOOLEAN
ASSUME MaxOpsAssumption == MaxOps \in Nat

VARIABLES
  slots,        \* the number of slots of this schedule
  ctl,          \* run_control: status and active_trials
  alive,        \* the process of the engine and its workers is there
  epc,          \* where the engine is
  requested,    \* requested_outcome, "none" if there is none
  events,       \* the mpsc channel from the workers
  accepting,    \* the broker still hands out slots
  flight,       \* the broker's in_flight
  wpc,          \* where the worker of each trial is
  row,          \* the persisted attempt: phase, paused_from_phase, container ids
  table,        \* its rows of trial_attempt_containers that are not 'removed'
  box,          \* the containers there are, by trial and role
  op,           \* the operation under way, or the last one
  ops           \* operations started

\* Trial t is the t-th to be claimed.
Trials == 1 .. slots

Roles == {"task", "sidecar"}

\* The containers a trial starts.
Ids(t) == IF t \in WithSidecar THEN Roles ELSE {"task"}

engineVars == <<slots, alive, epc, requested, events, accepting>>
workerVars == <<flight, wpc>>
dockerVars == <<row, table, box>>
vars == <<ctl, engineVars, workerVars, dockerVars, op, ops>>

Phases == {"none", "Pending", "AgentMaterializing", "AgentRunning", "AgentFinished",
           "CommitPending", "Committed", "Paused", "Killed", "Abandoned"}

Statuses == {"running", "paused", "killed", "interrupted", "failed", "completed"}

NoRow == [phase |-> "none", from |-> "none", ids |-> {}]

Rows == [phase : Phases, from : Phases, ids : SUBSET Roles]

WorkerStates == {"idle", "begin", "start", "record", "sidecar", "record_sidecar", "agent",
                 "exec", "grade", "finish", "clean", "fail", "reported"}

Ops == [kind : {"none", "pause", "kill", "resume"},
        pc : {"touch", "load", "store", "sweep", "write", "done"},
        active : SUBSET Trials,     \* active_trials as the operation read them
        todo : SUBSET Trials, good : SUBSET Trials, bad : SUBSET Trials,
        row : Rows,                 \* the attempt as the operation loaded it
        orphan : BOOLEAN,           \* history: the engine was dead when it began
        swept : BOOLEAN]            \* history: it was, and the kill returned Ok

Idle == [kind |-> "none", pc |-> "done", active |-> {}, todo |-> {}, good |-> {},
         bad |-> {}, row |-> NoRow, orphan |-> FALSE, swept |-> FALSE]

\* Every variable has a value of its type.
ControlTypeOK ==
  /\ slots \in 1 .. MaxSlots
  /\ ctl \in [status : Statuses, active : SUBSET Trials]
  /\ alive \in BOOLEAN
  /\ epc \in {"look", "act", "stop", "join", "ended", "completed"}
  /\ requested \in {"none", "paused", "killed", "interrupted"}
  /\ events \in Seq({"claimed", "completed", "failed"} \X Trials)
  /\ accepting \in BOOLEAN
  /\ flight \subseteq Trials
  /\ wpc \in [Trials -> WorkerStates]
  /\ row \in [Trials -> Rows]
  /\ table \in [Trials -> SUBSET Roles]
  /\ box \in [Trials -> [Roles -> {"none", "running", "paused"}]]
  /\ op \in Ops
  /\ ops \in 0 .. MaxOps

Init ==
  /\ slots \in 1 .. MaxSlots
  /\ ctl = [status |-> "running", active |-> {}]
  /\ alive = TRUE
  /\ epc = "look"
  /\ requested = "none"
  /\ events = <<>>
  /\ accepting = TRUE
  /\ flight = {}
  /\ wpc = [t \in Trials |-> "idle"]
  /\ row = [t \in Trials |-> NoRow]
  /\ table = [t \in Trials |-> {}]
  /\ box = [t \in Trials |-> [r \in Roles |-> "none"]]
  /\ op = Idle
  /\ ops = 0

\* The whole record is replaced.
write_run_control(status, active) == ctl' = [status |-> status, active |-> active]

-----------------------------------------------------------------------------
(* The workers.  What a worker persists comes from its memory: whatever an   *)
(* operation wrote into the row meanwhile is gone.  The table keeps only the *)
(* task (and grading) containers, and a row 'removed' stays so.              *)

Persist(t, phase, ids) ==
  row' = [row EXCEPT ![t] = [phase |-> phase, from |-> "none", ids |-> ids]]

Moves(t, from, to) == alive /\ wpc[t] = from /\ wpc' = [wpc EXCEPT ![t] = to]

Elsewhere == UNCHANGED <<slots, ctl, alive, epc, requested, accepting, op, ops>>

\* claim_next hands out the slots in order; Claimed goes to the engine.
Claim(t) ==
  /\ Moves(t, "idle", "begin")
  /\ accepting
  /\ Cardinality({u \in Trials : wpc[u] \notin {"idle", "reported"}}) < Capacity
  /\ \A u \in Trials : wpc[u] = "idle" => t <= u
  /\ flight' = flight \cup {t}
  /\ events' = Append(events, <<"claimed", t>>)
  /\ Elsewhere /\ UNCHANGED dockerVars

BeginAttempt(t) ==
  /\ Moves(t, "begin", "start")
  /\ Persist(t, "Pending", {})
  /\ Elsewhere /\ UNCHANGED <<events, flight, table, box>>

\* The phase is persisted, then the container started, then its id persisted.
StartContainer(t) ==
  /\ Moves(t, "start", "record")
  /\ Persist(t, "AgentMaterializing", {})
  /\ box' = [box EXCEPT ![t]["task"] = "running"]
  /\ Elsewhere /\ UNCHANGED <<events, flight, table>>

RecordContainer(t) ==
  /\ Moves(t, "record", IF t \in WithSidecar THEN "sidecar" ELSE "agent")
  /\ Persist(t, "AgentMaterializing", {"task"})
  /\ table' = [table EXCEPT ![t] = {"task"}]
  /\ Elsewhere /\ UNCHANGED <<events, flight, box>>

StartSidecar(t) ==
  /\ Moves(t, "sidecar", "record_sidecar")
  /\ box' = [box EXCEPT ![t]["sidecar"] = "running"]
  /\ Elsewhere /\ UNCHANGED <<events, flight, row, table>>

RecordSidecar(t) ==
  /\ Moves(t, "record_sidecar", "agent")
  /\ Persist(t, "AgentMaterializing", Ids(t))
  /\ Elsewhere /\ UNCHANGED <<events, flight, table, box>>

\* AgentRunning is persisted and the exec asked for: a frozen or missing
\* container refuses it.
StartAgent(t) ==
  /\ Moves(t, "agent", IF box[t]["task"] = "running" THEN "exec" ELSE "fail")
  /\ Persist(t, "AgentRunning", Ids(t))
  /\ Elsewhere /\ UNCHANGED <<events, flight, table, box>>

\* The stream ends because the agent does, or because its container is gone and
\* Docker still answers for the exec.
AgentEnds(t) ==
  /\ Moves(t, "exec", "grade")
  /\ box[t]["task"] # "paused"
  /\ Persist(t, "AgentFinished", Ids(t))
  /\ Elsewhere /\ UNCHANGED <<events, flight, table, box>>

\* The container is gone, and so is the exec: the wait fails.
AgentVanishes(t) ==
  /\ Moves(t, "exec", "fail")
  /\ box[t]["task"] = "none"
  /\ Elsewhere /\ UNCHANGED <<events, flight, dockerVars>>

\* Mutant: the time limit stands still while the container is frozen.
AgentTimesOutThawed(t) ==
  /\ Moves(t, "exec", "finish")
  /\ box[t]["task"] # "paused"
  /\ Persist(t, "AgentFinished", Ids(t))
  /\ Elsewhere /\ UNCHANGED <<events, flight, table, box>>

\* The time limit runs while a container is frozen as well.  The container is
\* killed and the grader skipped.
AgentTimesOut(t) ==
  /\ Moves(t, "exec", "finish")
  /\ Persist(t, "AgentFinished", Ids(t))
  /\ Elsewhere /\ UNCHANGED <<events, flight, table, box>>

Grade(t) ==
  /\ Moves(t, "grade", IF Grading => box[t]["task"] = "running" THEN "finish" ELSE "fail")
  /\ Elsewhere /\ UNCHANGED <<events, flight, dockerVars>>

Finalize(t) ==
  /\ Moves(t, "finish", "clean")
  /\ Persist(t, "CommitPending", Ids(t))
  /\ Elsewhere /\ UNCHANGED <<events, flight, table, box>>

\* The worker's cleanup, by the ids in its memory: the containers go, frozen or
\* not, or Docker is out of reach.
Cleanup(t, left) ==
  /\ box' = [box EXCEPT ![t] = [r \in Roles |-> IF r \in left THEN box[t][r] ELSE "none"]]
  /\ table' = [table EXCEPT ![t] = @ \cap left]

\* The slot is completed in the broker and the result sent.
Report(t, result) ==
  /\ flight' = flight \ {t}
  /\ events' = Append(events, <<result, t>>)

\* Mutant: a failed cleanup does not turn the result into an error.
CleanAndReportAnyway(t) ==
  /\ Moves(t, "clean", "reported")
  /\ Persist(t, "CommitPending", Ids(t))
  /\ \E left \in {{}, Roles} : Cleanup(t, left) /\ Report(t, "completed")
  /\ Elsewhere

CleanAndReport(t) ==
  /\ Moves(t, "clean", "reported")
  /\ Persist(t, "CommitPending", Ids(t))
  /\ \E left \in {{}, Roles} :
       Cleanup(t, left) /\ Report(t, IF left = {} THEN "completed" ELSE "failed")
  /\ Elsewhere

\* The execution failed: the same cleanup, then Abandoned.
FailAndReport(t) ==
  /\ Moves(t, "fail", "reported")
  /\ Persist(t, "Abandoned", Ids(t))
  /\ \E left \in {{}, Roles} : Cleanup(t, left) /\ Report(t, "failed")
  /\ Elsewhere

Worker(t) ==
  \/ Claim(t) \/ BeginAttempt(t) \/ StartContainer(t) \/ RecordContainer(t)
  \/ StartSidecar(t) \/ RecordSidecar(t) \/ StartAgent(t) \/ AgentEnds(t)
  \/ AgentVanishes(t) \/ AgentTimesOut(t) \/ Grade(t) \/ Finalize(t)
  \/ CleanAndReport(t) \/ FailAndReport(t)

-----------------------------------------------------------------------------
(* The engine.                                                               *)

EngineOnly == UNCHANGED <<slots, workerVars, dockerVars, op, ops>>

schedule_engine_status == IF requested = "none" THEN "running" ELSE requested

\* The top of the loop: load_external_schedule_outcome_request.  A request stays.
Look ==
  /\ alive /\ epc = "look"
  /\ requested' = IF ctl.status \in {"paused", "killed"} THEN ctl.status ELSE requested
  /\ accepting' = (accepting /\ ctl.status \notin {"paused", "killed"})
  /\ epc' = "act"
  /\ UNCHANGED <<ctl, alive, events>> /\ EngineOnly

\* INTERRUPTED is set: the record is written and the loop left, before the look.
Interrupt ==
  /\ alive /\ epc = "look"
  /\ requested' = "interrupted"
  /\ accepting' = FALSE
  /\ write_run_control("interrupted", flight)
  /\ epc' = "stop"
  /\ UNCHANGED <<alive, events>> /\ EngineOnly

\* A claim or a completion.  The commit of a trial touches its state file and
\* not the attempt in the store; then the record is rewritten.
HandleEvent ==
  /\ alive /\ epc = "act"
  /\ events # <<>> /\ Head(events)[1] \in {"claimed", "completed"}
  /\ events' = Tail(events)
  /\ write_run_control(schedule_engine_status, flight)
  /\ epc' = "look"
  /\ UNCHANGED <<alive, requested, accepting>> /\ EngineOnly

\* Completed(Err) ends the engine.
HandleFailure ==
  /\ alive /\ epc = "act"
  /\ events # <<>> /\ Head(events)[1] = "failed"
  /\ events' = Tail(events)
  /\ epc' = "stop"
  /\ accepting' = FALSE
  /\ UNCHANGED <<ctl, alive, requested>> /\ EngineOnly

Drained == flight = {} /\ events = <<>>

AllReported == \A t \in Trials : wpc[t] = "reported"

\* recv_timeout: nothing came.
NoEvent ==
  /\ alive /\ epc = "act" /\ events = <<>>
  /\ IF requested = "none" THEN ~AllReported ELSE flight # {}
  /\ epc' = "look"
  /\ UNCHANGED <<ctl, alive, requested, events, accepting>> /\ EngineOnly

\* A request, nothing in flight and nothing to commit: the outcome is returned,
\* the guard disarmed and the record left alone.
ReturnOutcome ==
  /\ alive /\ epc = "act" /\ requested # "none" /\ Drained
  /\ epc' = "ended"
  /\ UNCHANGED <<ctl, alive, requested, events, accepting>> /\ EngineOnly

\* No request, and every worker has left after its last slot.
Complete ==
  /\ alive /\ epc = "act" /\ requested = "none" /\ events = <<>> /\ AllReported
  /\ epc' = "completed"
  /\ write_run_control("completed", {})
  /\ UNCHANGED <<alive, requested, events, accepting>> /\ EngineOnly

\* The shutdown after an error or an interrupt: the containers of the trials in
\* flight are removed by id and label, unless Docker fails, and the record is
\* cleared, if there was any such trial.
Shutdown ==
  /\ alive /\ epc = "stop"
  /\ epc' = "join"
  /\ \E failed \in SUBSET flight :
       box' = [t \in Trials |-> IF t \in flight \ failed THEN [r \in Roles |-> "none"]
                                ELSE box[t]]
  /\ IF flight = {} THEN UNCHANGED ctl ELSE write_run_control(schedule_engine_status, {})
  /\ UNCHANGED <<slots, alive, requested, events, accepting, workerVars, row, table, op, ops>>

\* The workers are joined, their events unread; the guard has the last word.
Joined ==
  /\ alive /\ epc = "join"
  /\ \A t \in Trials : wpc[t] \in {"idle", "reported"}
  /\ epc' = "ended"
  /\ write_run_control(IF requested = "interrupted" THEN "interrupted" ELSE "failed", {})
  /\ UNCHANGED <<alive, requested, events, accepting>> /\ EngineOnly

EngineStep == Look \/ HandleEvent \/ HandleFailure \/ NoEvent \/ ReturnOutcome
              \/ Complete \/ Shutdown \/ Joined

Crash ==
  /\ alive /\ epc \notin {"ended", "completed"}
  /\ alive' = FALSE
  /\ UNCHANGED <<ctl, epc, requested, events, accepting>> /\ EngineOnly

-----------------------------------------------------------------------------
(* The operations.                                                           *)

Bystanders == UNCHANGED <<engineVars, workerVars>>

Begin(kind, targets) ==
  /\ op.pc = "done" /\ (ops + 1) * slots <= MaxOps
  /\ op' = [kind |-> kind, active |-> ctl.active, todo |-> targets, good |-> {}, bad |-> {},
            pc |-> CASE kind = "resume" -> "load"
                     [] targets = {} -> "sweep"
                     [] OTHER -> "touch",
            row |-> NoRow, orphan |-> ~alive, swept |-> FALSE]
  /\ ops' = ops + 1
  /\ Bystanders /\ UNCHANGED <<ctl, dockerVars>>

\* All active trials, or one of them.
PauseBegin ==
  /\ ctl.status = "running" /\ ctl.active # {}
  /\ \E targets \in {ctl.active} \cup {{t} : t \in ctl.active} : Begin("pause", targets)

KillBegin == ctl.status # "completed" /\ Begin("kill", ctl.active)

ResumeBegin ==
  /\ ctl.status = "paused"
  /\ \E t \in Trials :
       /\ ctl.active = {} \/ t \in ctl.active
       /\ row[t].phase # "none"
       /\ Begin("resume", {t})

Target == CHOOSE t \in op.todo : \A u \in op.todo : t <= u

\* The ids of the state file, or else those of the table.
Handles(t) == IF row[t].ids # {} THEN row[t].ids ELSE table[t]

Labelled(t) == {r \in Roles : box[t][r] # "none"}

SetBoxes(t, roles, from, to) ==
  box' = [box EXCEPT ![t] = [r \in Roles |-> IF r \in roles /\ box[t][r] \in from
                                             THEN to ELSE box[t][r]]]

\* Where the operation goes once its target is done with.
After(done, bad) ==
  CASE done # {} -> "touch"
    [] done = {} /\ op.kind = "kill" /\ bad = {} -> "sweep"
    [] OTHER -> "write"

\* The target is a failure: the others still have their turn.
Fails ==
  op' = [op EXCEPT !.todo = @ \ {Target}, !.bad = @ \cup {Target},
                   !.pc = After(op.todo \ {Target}, op.bad \cup {Target})]

OpGoes(pc) == op' = [op EXCEPT !.pc = pc]

\* The operation is over; what it knew goes with it.
Ends(ok) == op' = [Idle EXCEPT !.swept = ok /\ op.kind = "kill" /\ op.orphan]

\* docker pause on every recorded container; none recorded is a failure, and so
\* is an error on the way.
PauseTouch ==
  /\ op.pc = "touch" /\ op.kind = "pause"
  /\ \/ /\ Handles(Target) # {}
        /\ SetBoxes(Target, Handles(Target), {"running"}, "paused")
        /\ OpGoes("load")
     \/ /\ \E frozen \in SUBSET Handles(Target) :
             SetBoxes(Target, frozen, {"running"}, "paused")
        /\ Fails
  /\ Bystanders /\ UNCHANGED <<ctl, row, table, ops>>

\* cleanup_attempt_runtime: recorded and labelled containers are killed and
\* removed; none at all is a failure.
KillTouch ==
  /\ op.pc = "touch" /\ op.kind = "kill"
  /\ \/ /\ Handles(Target) \cup Labelled(Target) # {}
        /\ SetBoxes(Target, Roles, {"running", "paused"}, "none")
        /\ OpGoes("load")
     \/ /\ \E gone \in SUBSET Labelled(Target) :
             SetBoxes(Target, gone, {"running", "paused"}, "none")
        /\ Fails
  /\ Bystanders /\ UNCHANGED <<ctl, row, table, ops>>

\* load_latest_trial_attempt.  A resume refuses an attempt that is not Paused.
OpLoad ==
  /\ op.pc = "load"
  /\ IF op.kind = "resume" /\ row[Target].phase # "Paused" THEN Ends(FALSE)
     ELSE op' = [op EXCEPT !.row = row[Target],
                           !.pc = IF op.kind = "resume" THEN "touch" ELSE "store"]
  /\ Bystanders /\ UNCHANGED <<ctl, dockerVars, ops>>

Stored(r) ==
  /\ row' = [row EXCEPT ![Target] = r]
  /\ op' = [op EXCEPT !.todo = @ \ {Target}, !.good = @ \cup {Target},
                      !.row = NoRow, !.pc = After(op.todo \ {Target}, op.bad)]

\* An attempt paused before keeps the phase it goes back to.
PausedRow ==
  [op.row EXCEPT !.phase = "Paused",
                 !.from = IF op.row.phase = "Paused" THEN @ ELSE op.row.phase]

\* The attempt loaded before is written back with its new phase.
PauseStore ==
  /\ op.pc = "store" /\ op.kind = "pause"
  /\ Stored(IF op.row.phase \in {"Committed", "Killed"} THEN row[Target] ELSE PausedRow)
  /\ Bystanders /\ UNCHANGED <<ctl, table, box, ops>>

KillStore ==
  /\ op.pc = "store" /\ op.kind = "kill"
  /\ Stored(IF op.row.phase = "Committed" THEN row[Target]
            ELSE [op.row EXCEPT !.phase = "Killed", !.from = "none"])
  /\ Bystanders /\ UNCHANGED <<ctl, table, box, ops>>

PauseWrite ==
  /\ op.pc = "write" /\ op.kind = "pause"
  /\ IF op.bad = {} THEN write_run_control("paused", op.good)
     ELSE write_run_control("interrupted", op.active \ op.good)
  /\ Ends(op.bad = {})
  /\ Bystanders /\ UNCHANGED <<dockerVars, ops>>

\* Mutant: the run is not swept by label.
KillSweepNothing ==
  /\ op.pc = "sweep"
  /\ OpGoes("write")
  /\ Bystanders /\ UNCHANGED <<ctl, dockerVars, ops>>

\* cleanup_run_runtime: whatever carries the run's label goes, or the kill has
\* failed after all.
KillSweep ==
  /\ op.pc = "sweep"
  /\ \/ /\ box' = [t \in Trials |-> [r \in Roles |-> "none"]]
        /\ OpGoes("write")
        /\ UNCHANGED ctl
     \/ /\ write_run_control("interrupted", {})
        /\ Ends(FALSE)
        /\ UNCHANGED box
  /\ Bystanders /\ UNCHANGED <<row, table, ops>>

KillWrite ==
  /\ op.pc = "write" /\ op.kind = "kill"
  /\ IF op.bad = {} THEN write_run_control("killed", {})
     ELSE write_run_control("interrupted", op.bad)
  /\ Ends(op.bad = {})
  /\ Bystanders /\ UNCHANGED <<dockerVars, ops>>

\* docker unpause, by the ids of the table alone.  With none the trial is forked
\* into a run of its own, and this run left as it is.
ResumeTouch ==
  /\ op.pc = "touch" /\ op.kind = "resume"
  /\ SetBoxes(Target, table[Target], {"paused"}, "running")
  /\ IF table[Target] # {} THEN OpGoes("store")
     ELSE Ends(FALSE)
  /\ Bystanders /\ UNCHANGED <<ctl, row, table, ops>>

ResumeStore ==
  /\ op.pc = "store" /\ op.kind = "resume"
  /\ row' = [row EXCEPT ![Target] = [op.row EXCEPT !.phase = op.row.from, !.from = "none"]]
  /\ OpGoes("write")
  /\ Bystanders /\ UNCHANGED <<ctl, table, box, ops>>

ResumeWrite ==
  /\ op.pc = "write" /\ op.kind = "resume"
  /\ write_run_control("running", op.active)
  /\ Ends(TRUE)
  /\ Bystanders /\ UNCHANGED <<dockerVars, ops>>

\* The operation's process dies; its lease goes stale.
OpDies ==
  /\ op.pc # "done"
  /\ Ends(FALSE)
  /\ Bystanders /\ UNCHANGED <<ctl, dockerVars, ops>>

OpStep == PauseBegin \/ KillBegin \/ ResumeBegin \/ PauseTouch \/ KillTouch \/ OpLoad
          \/ PauseStore \/ KillStore \/ PauseWrite \/ KillSweep \/ KillWrite
          \/ ResumeTouch \/ ResumeStore \/ ResumeWrite \/ OpDies

-----------------------------------------------------------------------------
Next ==
  \/ \E t \in Trials : Worker(t)
  \/ EngineStep \/ Interrupt \/ Crash
  \/ OpStep

\* Threads run: the engine's loop, and each worker up to its report.
Fairness ==
  /\ WF_vars(EngineStep)
  /\ \A t \in 1 .. MaxSlots : WF_vars(t \in Trials /\ Worker(t))

Spec == Init /\ [][Next]_vars /\ Fairness

-----------------------------------------------------------------------------
(* What holds.                                                               *)

\* A run the engine completed has no container left, frozen or running, and
\* nothing in flight: a failed cleanup or a frozen trial keeps it from
\* completing (runner.rs, the exit conditions of the loop).
CompletedRunIsQuiet ==
  epc = "completed" =>
    /\ flight = {}
    /\ \A t \in Trials : wpc[t] = "reported" /\ Labelled(t) = {}

\* A kill that returns Ok on a run whose engine is dead leaves no container of
\* the run, whether its id was recorded or not (the label sweep of kill_run).
KillSweepsDeadRun ==
  op.swept => \A t \in Trials : Labelled(t) = {}

\* The engine ends: no frozen container holds it for ever, because the time
\* limit of the agent runs on, and no request is waited for in vain.
EngineEnds == <>(epc \in {"ended", "completed"} \/ ~alive)

-----------------------------------------------------------------------------
(* What the documentation says, and the code does not do.                    *)

\* README: `bucephalus kill` stops a running or paused experiment.  A run that is
\* "killed" does not go back to "running".
KillIsNotUndone == [][ctl.status = "killed" => ctl'.status # "running"]_vars

\* README: pause and resume in-flight work.  A trial that was resumed has no
\* frozen container.
ResumeThawsTheTrial ==
  [][ResumeWrite => \A r \in Roles : box[Target][r] # "paused"]_vars

\* main.rs: resume one paused trial.  Once resumed, the run is not put back to
\* "paused" by anyone but a pause.
ResumeIsNotUndone ==
  [][ctl.status = "running" /\ ctl'.status = "paused" => op.kind = "pause"]_vars
=============================================================================
