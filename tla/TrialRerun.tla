----------------------------- MODULE TrialRerun -----------------------------
(***************************************************************************)
(* Replay and fork (experiment/runner.rs, and resume_trial where it ends   *)
(* in a fork): an operation that runs a trial of a run once more, beside   *)
(* the schedule, and the recovery that may follow or overtake it.          *)
(*                                                                         *)
(* A rerun holds the run's operation lease, which is not renewed, so that  *)
(* another operation takes it over once it has lapsed.  What a rerun       *)
(* leaves in the store is keyed by an id made of the second it starts in;  *)
(* the attempt it runs is written to trial_attempts as attempt 1 of slot 0 *)
(* of the run, where recovery finds it.  The lease is one step here; its   *)
(* own steps are OperationLease, and those of the attempt TrialAttempt.    *)
(***************************************************************************)
EXTENDS Integers, Sequences, FiniteSets

CONSTANTS
  Reruns,      \* invocations of replay, fork and resume
  Recoveries,  \* invocations of recover
  LeaseTTL,    \* OPERATION_LEASE_TTL_SECONDS, in clock ticks
  LastSecond   \* bound: the last tick a behaviour reaches

\* Two trials of the run, in the slots 0 and 1.
Slots == {0, 1}
Seconds == 0 .. LastSecond
Callers == Reruns \cup Recoveries
NoOne == "none"
NoStep == -1
Unset == -1

\* A row of trial_attempts: a trial of the schedule, or that of a rerun, which is
\* named by its parent and its replay_id or fork_id.
Trial(s) == [kind |-> "trial", of |-> s, at |-> 0]
Trials == {Trial(s) : s \in Slots}
RerunIds == [kind : {"replay", "fork"}, of : Slots, at : Seconds]
Rows == Trials \cup RerunIds

VARIABLES
  answers,   \* how the checks at the start of a rerun may come out, by kind
  paused,    \* the slots whose trials were paused before
  now,       \* Utc::now()
  lease,     \* operation_lease.json: [op, until]
  at,        \* where each operation is
  call,      \* what a rerun was asked for: [kind, of]
  second,    \* the second its id was made in
  phase,     \* trial_attempts: the phase of a row
  recorded,  \* trial_attempt_containers: "none", "live" or "removed"
  box,       \* containers that exist, by row
  objects,   \* attempt_objects of a rerun's trial: whose input, whose output
  op_rows,   \* runtime_ops by kind and second: whose manifest
  slot,      \* schedule_slots
  status,    \* the status in run_control
  plan,      \* the rows a recovery has loaded and not gone through yet
  released,  \* whether it has released a slot
  misled     \* history: slots released for the row of a rerun

tables == <<phase, recorded, box, slot, status>>
results == <<objects, op_rows>>
recovery == <<plan, released, misled>>
vars == <<answers, paused, now, lease, at, call, second, tables, results, recovery>>

-----------------------------------------------------------------------------
\* The checkpoints of a trial's output, and the selectors that name one.
Names == {"a", "b"}
Checkpoints == [name : Names \cup {NoOne}, step : {NoStep, 0, 1}]
ByName(n) == [by |-> "checkpoint", name |-> n, step |-> NoStep]
ByStep(n) == [by |-> "step", name |-> NoOne, step |-> n]

\* What `checkpoints` may hold: nothing, one, or one and a named one after it.
Outputs == {<< >>} \cup {<<c>> : c \in Checkpoints}
             \cup {<<c, [name |-> "a", step |-> 0]>> : c \in Checkpoints}

\* Among the checkpoints with a step, the first of those with the highest.
HighestStep(cps) ==
  {i \in DOMAIN cps : /\ cps[i].step # NoStep
                      /\ \A j \in DOMAIN cps : cps[j].step <= cps[i].step
                      /\ \A j \in 1 .. i - 1 : cps[j].step < cps[i].step}

ResumeChoice(cps) ==
  IF HighestStep(cps) # {} THEN HighestStep(cps) ELSE {Len(cps)} \cap DOMAIN cps

\* Mutant: a label is taken as it is, whether or not a checkpoint has it.
resolve_resume_selector_unchecked(cps, label) ==
  IF label # NoOne THEN {label} ELSE {cps[i].name : i \in ResumeChoice(cps)} \ {NoOne}

\* The name resume selects by, if there is one.
resolve_resume_selector(cps, label) ==
  IF label # NoOne THEN {label} \cap {cps[i].name : i \in DOMAIN cps}
  ELSE {cps[i].name : i \in ResumeChoice(cps)} \ {NoOne}

\* The selector finds a checkpoint; an event_seq is compared with steps, too.
Selected(cps, selector) ==
  \E i \in DOMAIN cps :
    IF selector.by = "checkpoint" THEN cps[i].name = selector.name
    ELSE cps[i].step # NoStep /\ cps[i].step <= selector.step

\* A strict rerun needs full control of the agent; a strict fork the parent's
\* output, a checkpoint in it and a lineage version of the parent.  Which
\* checkpoint was selected makes no difference: the latest version is taken, and
\* no rerun starts from its workspace.
StrictlyPossible(kind, record, selector) ==
  /\ record.level = "control_full"
  /\ kind # "replay" =>
       /\ record.present
       /\ Selected(record.checkpoints, selector)
       /\ record.lineage

\* What a run may have recorded of the trial that is rerun.
Records == [level : {"control_full", "cli_basic"}, lineage : BOOLEAN, present : {TRUE},
            checkpoints : Outputs]
             \cup [level : {"control_full"}, lineage : BOOLEAN, present : {FALSE},
                   checkpoints : {<< >>}]

\* The recorded experiment, the parent's manifest and its output are loaded, the
\* runtime is resolved and the selector looked up; nothing is written before.
Outcome(kind, record, selector, strict) ==
  IF strict => StrictlyPossible(kind, record, selector) THEN "mint"
  ELSE IF /\ kind # "replay" /\ record.level = "control_full" /\ record.present
          /\ ~Selected(record.checkpoints, selector) THEN "unfound"
  ELSE "refused"

ReplayOutcomes == {Outcome("replay", r, ByStep(0), strict) : r \in Records, strict \in BOOLEAN}

\* The selector of a fork is what the caller wrote (parse_fork_selector).
ForkOutcomes ==
  {Outcome("fork", r, sel, strict) :
     r \in Records, sel \in {ByName("a"), ByStep(0), ByStep(1)}, strict \in BOOLEAN}

\* Resume selects a checkpoint of the trial's output by its name.
ResumeOutcomes ==
  UNION {{Outcome("resume", r, ByName(n), strict) :
            n \in resolve_resume_selector(r.checkpoints, label), strict \in BOOLEAN} :
           r \in {rec \in Records : rec.present}, label \in {NoOne, "a"}}

-----------------------------------------------------------------------------
Kind(o) == IF call[o].kind = "replay" THEN "replay" ELSE "fork"
Id(o) == [kind |-> Kind(o), of |-> call[o].of, at |-> second[o]]

\* Mutant: the id does not say when.
OpKeyTimeless(o) == <<Kind(o), 0>>

\* upsert_runtime_operation: op_kind and op_id.
OpKey(o) == <<Kind(o), second[o]>>

Nobody == [op |-> NoOne, until |-> 0]
NoCall == [kind |-> NoOne, of |-> 0]

\* Two trials that are paused, lost with their worker, or committed.
InitialPhases == {<<"paused", "agent_running">>, <<"agent_running", "paused">>, <<"paused", "committed">>}

Init ==
  /\ answers = [replay |-> ReplayOutcomes, fork |-> ForkOutcomes, resume |-> ResumeOutcomes]
  /\ \E ph \in InitialPhases :
       phase = [r \in Rows |-> IF r \in Trials THEN ph[r.of + 1] ELSE "none"]
  /\ paused = {s \in Slots : phase[Trial(s)] = "paused"}
  /\ \E lost \in SUBSET paused :
       box = {Trial(s) : s \in {t \in Slots \ lost : phase[Trial(t)] # "committed"}}
  /\ recorded = [r \in Rows |-> IF r \in box THEN "live"
                                ELSE IF r \in Trials THEN "removed" ELSE "none"]
  /\ slot = [s \in Slots |-> IF phase[Trial(s)] = "committed" THEN "committed" ELSE "active"]
  /\ status = "paused"
  /\ now = 0
  /\ lease = Nobody
  /\ at = [o \in Callers |-> "idle"]
  /\ call = [o \in Reruns |-> NoCall]
  /\ second = [o \in Reruns |-> Unset]
  /\ objects = [r \in RerunIds |-> [input |-> NoOne, output |-> NoOne]]
  /\ op_rows = [k \in {"replay", "fork"} \X Seconds |-> NoOne]
  /\ plan = [o \in Recoveries |-> {}]
  /\ released = [o \in Recoveries |-> FALSE]
  /\ misled = {}

Goto(o, from, to) == at[o] = from /\ at' = [at EXCEPT ![o] = to]

\* acquire_run_operation_lease: who is refused comes again.
Available == lease.op = NoOne \/ now > lease.until

\* Drop removes the lease if it is still its own.
Dropped(o) == lease' = IF lease.op = o THEN Nobody ELSE lease

-----------------------------------------------------------------------------
\* A trial is rerun.

Enter(o, kind, s, to) ==
  /\ Goto(o, "idle", to)
  /\ call' = [call EXCEPT ![o] = [kind |-> kind, of |-> s]]
  /\ lease' = IF to = "mint" THEN [op |-> o, until |-> now + LeaseTTL] ELSE Nobody

\* A resume comes here when the trial is paused and no container of it is left on
\* record to be unpaused.
Begin(o) ==
  /\ Available
  /\ \E s \in Slots :
       \/ \E to \in answers.replay : Enter(o, "replay", s, to)
       \/ \E to \in answers.fork : Enter(o, "fork", s, to)
       \/ /\ status = "paused" /\ phase[Trial(s)] = "paused" /\ recorded[Trial(s)] # "live"
          /\ \E to \in answers.resume : Enter(o, "resume", s, to)
  /\ UNCHANGED <<answers, paused, now, second, tables, results, recovery>>

\* The id is made, its directory is made or found, and its trial state written,
\* which is TrialConclusion's.
Mint(o) ==
  /\ Goto(o, "mint", "prepare")
  /\ second' = [second EXCEPT ![o] = now]
  /\ UNCHANGED <<answers, paused, now, lease, call, tables, results, recovery>>

\* prepare_task_environment, and the first row of the attempt: slot 0, attempt 1.
Prepare(o) ==
  /\ Goto(o, "prepare", "start")
  /\ phase' = [phase EXCEPT ![Id(o)] = "pending"]
  /\ UNCHANGED <<answers, paused, now, lease, call, second, recorded, box, slot, status, results, recovery>>

Start(o) ==
  /\ Goto(o, "start", "agent")
  /\ box' = box \cup {Id(o)}
  /\ recorded' = [recorded EXCEPT ![Id(o)] = "live"]
  /\ phase' = [phase EXCEPT ![Id(o)] = "agent_running"]
  /\ UNCHANGED <<answers, paused, now, lease, call, second, slot, status, results, recovery>>

CleanUp(o) ==
  /\ box' = box \ {Id(o)}
  /\ recorded' = [recorded EXCEPT ![Id(o)] = IF @ = "live" THEN "removed" ELSE @]

\* A rerun is not graded, so the last phase its attempt is given is agent_finished.
AgentEnds(o) ==
  /\ Id(o) \in box
  /\ Goto(o, "agent", "input")
  /\ CleanUp(o)
  /\ phase' = [phase EXCEPT ![Id(o)] = "agent_finished"]
  /\ UNCHANGED <<answers, paused, now, lease, call, second, slot, status, results, recovery>>

PutInput(o) ==
  /\ Goto(o, "input", "output")
  /\ objects' = [objects EXCEPT ![Id(o)].input = o]
  /\ UNCHANGED <<answers, paused, now, lease, call, second, tables, op_rows, recovery>>

PutOutput(o) ==
  /\ Goto(o, "output", "operation")
  /\ objects' = [objects EXCEPT ![Id(o)].output = o]
  /\ UNCHANGED <<answers, paused, now, lease, call, second, tables, op_rows, recovery>>

PutOperation(o) ==
  /\ Goto(o, "operation", "close")
  /\ op_rows' = [op_rows EXCEPT ![OpKey(o)] = o]
  /\ UNCHANGED <<answers, paused, now, lease, call, second, tables, objects, recovery>>

\* reconcile_trial_attempt_as_committed rewrites the file in the rerun's own
\* directory only: the row in the store stays at agent_finished.
Return(o) ==
  /\ Goto(o, "close", "returned")
  /\ Dropped(o)
  /\ UNCHANGED <<answers, paused, now, call, second, tables, results, recovery>>

\* An error: an attempt under way is abandoned and its container removed.
Fails(o) ==
  /\ at[o] \in {"prepare", "start", "agent", "input", "output", "operation"}
  /\ at' = [at EXCEPT ![o] = "refused"]
  /\ Dropped(o)
  /\ IF at[o] \in {"start", "agent"}
     THEN CleanUp(o) /\ phase' = [phase EXCEPT ![Id(o)] = "abandoned"]
     ELSE UNCHANGED <<box, recorded, phase>>
  /\ UNCHANGED <<answers, paused, now, call, second, slot, status, results, recovery>>

-----------------------------------------------------------------------------
\* The run is recovered.  Its own steps and their crashes are ScheduleEngine's;
\* here it goes by the rows of trial_attempts, those of reruns among them.

\* Mutant: a paused trial is taken for one that lost its worker.
RequiresReleaseIfPaused(ph) == ph \notin {"none", "committed", "abandoned"}

trial_phase_requires_recovery_release(ph) == ph \notin {"none", "paused", "committed", "abandoned"}

ScheduleIdx(r) == IF r \in Trials THEN r.of ELSE 0

\* The container of a trial is named in its state file, or in the store; a rerun
\* has no file where recovery looks, and the labels of its container name another
\* directory, so that only a container on record as live is found.
Findable(r) == recorded[r] = "live" \/ (r \in Trials /\ recorded[r] # "none")

RecoverBegin(o) ==
  /\ Goto(o, "idle", "rows")
  /\ Available
  /\ lease' = [op |-> o, until |-> now + LeaseTTL]
  /\ plan' = [plan EXCEPT ![o] = {r \in Rows : trial_phase_requires_recovery_release(phase[r])}]
  /\ UNCHANGED <<answers, paused, now, call, second, tables, results, released, misled>>

\* The rows are taken by schedule_idx: the runtime is removed, the attempt is
\* abandoned and the slot released.
ReconcileRow(o) ==
  \E r \in plan[o] :
    /\ at[o] = "rows"
    /\ \A q \in plan[o] : ScheduleIdx(r) <= ScheduleIdx(q)
    /\ Findable(r)
    /\ box' = box \ {r}
    /\ phase' = [phase EXCEPT ![r] = "abandoned"]
    /\ slot' = [slot EXCEPT ![ScheduleIdx(r)] = IF @ = "committed" THEN @ ELSE "pending"]
    /\ plan' = [plan EXCEPT ![o] = @ \ {r}]
    /\ released' = [released EXCEPT ![o] = TRUE]
    /\ misled' = IF r \in Trials THEN misled ELSE misled \cup {0}
    /\ UNCHANGED <<answers, paused, now, lease, at, call, second, recorded, status, results>>

\* cleanup_missing_runtime_container: an attempt is on record and nothing of it is
\* found, so recover_run returns an error, as it will every time.
ReconcileFails(o) ==
  /\ \E r \in plan[o] :
       ~Findable(r) /\ \A q \in plan[o] : ScheduleIdx(r) <= ScheduleIdx(q)
  /\ Goto(o, "rows", "stuck")
  /\ Dropped(o)
  /\ UNCHANGED <<answers, paused, now, call, second, tables, results, recovery>>

\* Every active slot of this run has an attempt on record, so that its row is left
\* alone; if a slot was released every container with the run's label goes, and
\* whatever the status was it is interrupted now (recover_reconciled_status).
Sweep(o) ==
  /\ plan[o] = {}
  /\ Goto(o, "rows", "recovered")
  /\ Dropped(o)
  /\ box' = IF released[o] THEN {} ELSE box
  /\ status' = "interrupted"
  /\ UNCHANGED <<answers, paused, now, call, second, phase, recorded, slot, results, recovery>>

-----------------------------------------------------------------------------
\* An operation dies and leaves its lease; time passes.
Crash(o) ==
  /\ at[o] \notin {"idle", "returned", "refused", "unfound", "dead", "recovered", "stuck"}
  /\ at' = [at EXCEPT ![o] = "dead"]
  /\ UNCHANGED <<answers, paused, now, lease, call, second, tables, results, recovery>>

Tick ==
  /\ now < LastSecond
  /\ now' = now + 1
  /\ UNCHANGED <<answers, paused, lease, at, call, second, tables, results, recovery>>

RerunStep(o) ==
  \/ Begin(o) \/ Mint(o) \/ Prepare(o) \/ Start(o) \/ AgentEnds(o)
  \/ PutInput(o) \/ PutOutput(o) \/ PutOperation(o) \/ Return(o) \/ Fails(o)

RecoverStep(o) == RecoverBegin(o) \/ ReconcileRow(o) \/ ReconcileFails(o) \/ Sweep(o)

Next ==
  \/ \E o \in Reruns : RerunStep(o)
  \/ \E o \in Recoveries : RecoverStep(o)
  \/ \E o \in Callers : Crash(o)
  \/ Tick

Spec == Init /\ [][Next]_vars

-----------------------------------------------------------------------------
\* Two reruns of a kind whose ids were made in the same second.
SameSecond(o, p) == p # o /\ Kind(p) = Kind(o) /\ second[p] = second[o]

\* A replay or fork that returned is on record with the input and the output it
\* had and with its own manifest, whatever ran, failed or was recovered meanwhile,
\* unless another was started in the same second (replay_id, fork_id,
\* upsert_attempt_object, upsert_runtime_operation).
RerunIsRecorded ==
  \A o \in Reruns :
    at[o] = "returned" =>
      \/ objects[Id(o)] = [input |-> o, output |-> o] /\ op_rows[<<Kind(o), second[o]>>] = o
      \/ \E p \in Reruns : SameSecond(o, p)

\* The checkpoint that resume selects is one that fork_trial_inner, which looks the
\* name up again, finds (resolve_resume_selector, resolve_selector_checkpoint).
ResumeFindsItsCheckpoint == \A o \in Reruns : call[o].kind = "resume" => at[o] # "unfound"

\* Recovery takes a paused trial for one that is still to go on and leaves it its
\* phase and its slot, unless it went by the row of a rerun, which says slot 0
\* (trial_phase_requires_recovery_release).
PausedTrialKeepsItsSlot ==
  \A s \in paused :
    phase[Trial(s)] = "paused" /\ (slot[s] = "active" \/ s \in misled)

\* Where the runtimes of all trials are on record, what keeps a recovery from its
\* end is the row of a rerun (cleanup_local_docker_attempt_runtime).
StuckByRerun ==
  \A o \in Recoveries : at[o] = "stuck" => \E r \in RerunIds : phase[r] # "none"

\* main.rs: "Recover a durable run after stale owner crash/interruption".
\* A run can be recovered whatever was rerun before.  TLC refutes it: a replay that
\* returned is enough.
RecoveryIsPossible == \A o \in Recoveries : at[o] # "stuck"

\* Recovery leaves a paused trial its container.  TLC refutes it: the sweep takes
\* every container of the run.
PausedTrialKeepsItsContainer == \A s \in paused : recorded[Trial(s)] = "live" => Trial(s) \in box

\* A paused trial whose slot recovery has left active can still be resumed.  TLC
\* refutes it: the recovered run is interrupted, which resume_trial refuses, and the
\* next engine takes the slot for somebody else's.
KeptSlotCanBeResumed ==
  \A o \in Recoveries, s \in paused : at[o] = "recovered" /\ slot[s] = "active" => status = "paused"
=============================================================================
