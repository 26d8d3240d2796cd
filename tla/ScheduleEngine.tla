--------------------------- MODULE ScheduleEngine ---------------------------
(***************************************************************************)
(* A run from its start to its end: execute_schedule_engine as the         *)
(* coordinator of the broker's workers, its committer and the run store,   *)
(* and the two operations that take a stopped run up again, continue_run   *)
(* and recover_run.                                                        *)
(*                                                                         *)
(* Every write to the run store, to run_control and to a trial directory   *)
(* is a step of its own, so a crash may fall between any two.  The memory  *)
(* of the process (broker, workers, committer, event channel) is lost in a *)
(* crash; the store is not.  One process works on the run at a time: the   *)
(* leases that see to this are OperationLease's subject.  Pause and kill   *)
(* are not modelled here, and a trial makes one runtime attempt.           *)
(***************************************************************************)
EXTENDS SlotStore, SlotBroker, Sequences, FiniteSetsExt

CONSTANTS
  MaxFailures,   \* pruning_max_consecutive_failures
  Budgets        \* bounds: how many faults of each kind a behaviour has, with how many threads

Faults == {"crash",      \* the engine's process dies
           "interrupt",  \* SIGINT
           "trial",      \* execute_local_trial returns an error
           "worker",     \* a worker cannot prepare or record its claim
           "engine",     \* a disk check, the clean-up or the attestation fails
           "recover",    \* recover_run dies or a clean-up in it fails
           "any"}        \* all of them together

\* A budget also says how many worker threads the engines have.
Bounds == Faults \cup {"threads"}

ASSUME MaxFailuresAssumption == MaxFailures \in Nat \ {0}
ASSUME BudgetsAssumption == Budgets \subseteq [Bounds -> Nat]

\* dispatch_capacity is at least 1, and there are as many workers.
ASSUME ThreadsAssumption ==
  \A b \in Budgets : /\ b["threads"] > 0
                     /\ \E ws \in SUBSET Workers : Cardinality(ws) = b["threads"]

VARIABLES
  \* Durable.
  progress,   \* schedule_progress: completed slots, next trial, pruning state
  pending,    \* pending_trial_completions: a result not yet committed, per slot
  control,    \* run_control: status and active trials
  intents,    \* trials/<id>/claim intent: the slot it names, 0 if none
  attempts,   \* trial_attempts: phase and slot of each trial
  \* In memory.
  pc,         \* where the coordinator, or a recovery, is
  stage,      \* what it drains for: "boot", "event" or "final"
  outcome,    \* engine_result
  mem,        \* the engine's schedule_progress, pruned variants and failures
  recovered,  \* recovered_active_trials
  drain_trial,\* SlotCommitState.trial_index of the current drain
  keys,       \* DeterministicCommitter.committed_keys
  queue,      \* DeterministicCommitter.pending_by_schedule
  slot_attempts,
  events,     \* the channel from the workers
  exited_workers,
  closing,    \* active_at_shutdown: slots still to release
  result,     \* what a worker's trial came to
  \* Bound.
  budget

durableVars == <<progress, pending, control, intents, attempts>>
memoryVars == <<stage, outcome, mem, recovered, drain_trial, keys, queue, slot_attempts,
                events, exited_workers, closing, result>>
vars == <<storeVars, brokerVars, durableVars, memoryVars, pc, budget>>

Results == [trial : Trials, status : {"completed", "failed"}]
Skipped == [trial |-> NoTrial, status |-> "skipped_pruned"]
NoResult == [trial |-> NoTrial, status |-> "none"]

NoAttempt == [phase |-> "none", slot |-> 0]

\* new_schedule_progress.
NewProgress == [done |-> [s \in Slots |-> NoCommit], next_trial |-> 0,
                pruned |-> {}, failures |-> [v \in Variants |-> 0]]

\* The memory of a process that has no engine yet: no worker runs.
NoEngine ==
  /\ slot_states = [s \in Slots |-> "Pending"]
  /\ in_flight = {}
  /\ in_flight_by_variant = [v \in Variants |-> 0]
  /\ pruned = {}
  /\ trial_index = 0
  /\ accepting = FALSE
  /\ wpc = [w \in Workers |-> "exited"]
  /\ work = [w \in Workers |-> NoWork]
  /\ faulted = FALSE
  /\ keys = {}
  /\ queue = [s \in Slots |-> NoResult]
  /\ slot_attempts = [s \in Slots |-> 0]
  /\ events = <<>>
  /\ exited_workers = 0
  /\ closing = {}
  /\ result = [w \in Workers |-> "none"]
  /\ outcome = "none"
  /\ stage = "boot"
  /\ mem = NewProgress
  /\ recovered = {}
  /\ drain_trial = 0

\* The process ends and its memory is gone.
ProcessEnds ==
  /\ pc' = "down"
  /\ slot_states' = [s \in Slots |-> "Pending"]
  /\ in_flight' = {}
  /\ in_flight_by_variant' = [v \in Variants |-> 0]
  /\ pruned' = {}
  /\ trial_index' = 0
  /\ accepting' = FALSE
  /\ wpc' = [w \in Workers |-> "exited"]
  /\ work' = [w \in Workers |-> NoWork]
  /\ faulted' = FALSE
  /\ keys' = {}
  /\ queue' = [s \in Slots |-> NoResult]
  /\ slot_attempts' = [s \in Slots |-> 0]
  /\ events' = <<>>
  /\ exited_workers' = 0
  /\ closing' = {}
  /\ result' = [w \in Workers |-> "none"]
  /\ outcome' = "none"
  /\ stage' = "boot"
  /\ mem' = NewProgress
  /\ recovered' = {}
  /\ drain_trial' = 0

\* run_experiment has created the run, its rows and its progress, and enters
\* the engine.
EngineInit ==
  /\ StoreInit
  /\ NoEngine
  /\ progress = NewProgress
  /\ pending = [s \in Slots |-> NoResult]
  /\ control = [status |-> "running", active |-> {}]
  /\ intents = [t \in Trials |-> 0]
  /\ attempts = [t \in Trials |-> NoAttempt]
  /\ pc = "boot"
  /\ budget \in Budgets

Spend(kind) ==
  /\ budget[kind] > 0 /\ budget["any"] > 0
  /\ budget' = [budget EXCEPT ![kind] = @ - 1, !["any"] = @ - 1]

active_trials == {[trial |-> d.trial, slot |-> d.slot] : d \in in_flight}

-----------------------------------------------------------------------------
\* The committer.

Key(s, r) == [slot |-> s, trial |-> r.trial, status |-> r.status]

committed_schedules == {k.slot : k \in keys}

HasPending == \E s \in Slots : queue[s] # NoResult

\* A completion is new, already known, or in conflict with a known one.
EnqueueFault(s, r) ==
  /\ Key(s, r) \notin keys
  /\ s \in committed_schedules \/ (queue[s] # NoResult /\ queue[s] # r)

Enqueued(s, r) == IF Key(s, r) \in keys THEN queue ELSE [queue EXCEPT ![s] = r]

\* pending_trial_completion_records: skipped slots are not persisted.
PendingRecords(q) == [s \in Slots |-> IF q[s] \in Results THEN q[s] ELSE NoResult]

highest_attempt(s) == Max({0, progress.done[s].attempt}
                            \cup {r.commit.attempt : r \in {q \in journal : q.slot = s}})

\* The commits an earlier engine left: the progress and the journal.
known_keys ==
  {Key(s, progress.done[s]) : s \in {r \in Slots : progress.done[r] # NoCommit}}
    \cup {Key(r.slot, r.commit) : r \in {q \in journal : q.kind = "commit"}}

IsKnown(s) == \E k \in known_keys : k.slot = s

\* The trials that were active on a slot when the run stopped, as worker_lost.
LostTrials(s) ==
  {[trial |-> a.trial, status |-> "failed"] : a \in {b \in recovered : b.slot = s}}

\* Mutant: the persisted completions are not loaded.
RestoredLostOnly(s) == IF IsKnown(s) THEN {} ELSE LostTrials(s)

\* What an uncommitted slot is restored with: its persisted completion, or else
\* the trial lost on it.
Restored(s) ==
  IF IsKnown(s) THEN {} ELSE IF pending[s] # NoResult THEN {pending[s]} ELSE LostTrials(s)

\* execute_schedule_engine up to its first drain.
Boot ==
  /\ pc = "boot"
  /\ keys' = known_keys
  /\ slot_attempts' = [s \in Slots |-> highest_attempt(s)]
  /\ queue' = [s \in Slots |-> IF Restored(s) = {} THEN NoResult ELSE CHOOSE r \in Restored(s) : TRUE]
  /\ pending' = PendingRecords(queue')
  /\ pc' = "drain"
  /\ UNCHANGED <<storeVars, brokerVars, progress, control, intents, attempts, stage, outcome,
                 mem, recovered, drain_trial, events, exited_workers, closing, result, budget>>

\* The store cannot be read, or a lost trial's containers not be cleaned: the
\* engine returns at once.
BootFails ==
  /\ pc = "boot"
  /\ Spend("engine")
  /\ outcome' = "error" /\ pc' = "join"
  /\ UNCHANGED <<storeVars, brokerVars, durableVars, stage, mem, recovered, drain_trial, keys,
                 queue, slot_attempts, events, exited_workers, closing, result>>

-----------------------------------------------------------------------------
\* drain_ready: the queued slots in schedule order, each with its intent record,
\* the commit transaction, and then the engine's memory.

NextReady(s) == queue[s] # NoResult /\ \A r \in Slots : queue[r] # NoResult => s <= r

CommitOf(s) == [attempt |-> slot_attempts[s] + 1, trial |-> queue[s].trial,
                status |-> queue[s].status]

WriteIntent ==
  \E s \in Slots :
    /\ pc = "drain" /\ NextReady(s) /\ slot_attempts[s] < MaxAttempts
    /\ append_slot_commit_record(s, CommitOf(s))
    /\ pc' = "commit"
    /\ UNCHANGED <<brokerVars, durableVars, memoryVars, budget>>

\* Mutant: one failure too few prunes the variant.
NextProgressPrunesEarly(s, c) ==
  LET v == variant_idx[s]
      count == IF c.status = "completed" THEN 0 ELSE mem.failures[v] + 1
      noted == [mem EXCEPT !.done[s] = c]
  IN  IF c.trial = NoTrial THEN noted
      ELSE [noted EXCEPT !.next_trial = drain_trial,
                         !.failures[v] = count,
                         !.pruned = IF count + 1 >= MaxFailures THEN @ \cup {v} ELSE @]

\* Mutant: a skipped slot is not noted as completed.
NextProgressOmitsSkips(s, c) ==
  LET v == variant_idx[s]
      count == IF c.status = "completed" THEN 0 ELSE mem.failures[v] + 1
  IN  IF c.trial = NoTrial THEN mem
      ELSE [mem EXCEPT !.done[s] = c,
                       !.next_trial = drain_trial,
                       !.failures[v] = count,
                       !.pruned = IF count >= MaxFailures THEN @ \cup {v} ELSE @]

\* next_progress of commit_skipped_pruned_slot and of commit_trial_slot.
NextProgress(s, c) ==
  LET v == variant_idx[s]
      count == IF c.status = "completed" THEN 0 ELSE mem.failures[v] + 1
      noted == [mem EXCEPT !.done[s] = c]
  IN  IF c.trial = NoTrial THEN noted
      ELSE [noted EXCEPT !.next_trial = drain_trial,
                         !.failures[v] = count,
                         !.pruned = IF count >= MaxFailures THEN @ \cup {v} ELSE @]

\* An error ends the engine: before the workers run it returns, afterwards it
\* shuts them down.
Fail ==
  /\ outcome' = "error"
  /\ pc' = IF stage = "boot" THEN "join" ELSE "shutdown"

\* The transaction also stores next_progress and deletes the slot's pending
\* completion; only then the engine's memory follows.
CommitSlot ==
  \E s \in Slots :
    LET c == CommitOf(s) IN
    /\ pc = "commit" /\ NextReady(s)
    /\ IF CommitAccepted(s, c)
       THEN /\ commit_schedule_slot_transaction(s, c)
            /\ progress' = NextProgress(s, c)
            /\ pending' = [pending EXCEPT ![s] = NoResult]
            /\ mem' = progress'
            /\ keys' = keys \cup {Key(s, c)}
            /\ queue' = [queue EXCEPT ![s] = NoResult]
            /\ slot_attempts' = [slot_attempts EXCEPT ![s] = c.attempt]
            /\ pc' = "drain" /\ UNCHANGED outcome
       ELSE Fail /\ UNCHANGED <<storeVars, progress, pending, mem, keys, queue, slot_attempts>>
    /\ UNCHANGED <<brokerVars, control, intents, attempts, stage, recovered, drain_trial, events,
                   exited_workers, closing, result, budget>>

\* drain_ready_and_persist! after the drain: the broker learns of every newly
\* committed slot, then of the pruned variants; then the pending completions
\* are persisted.  The drain of the boot has no broker to tell.
MarkCommitted ==
  \E s \in committed_schedules :
    /\ pc = "drain" /\ ~HasPending /\ stage # "boot"
    /\ slot_states[s] # "Committed"
    /\ mark_committed(s)
    /\ UNCHANGED <<storeVars, durableVars, memoryVars, pc, budget>>

\* Mutant: the broker is told that nothing is pruned.
UpdatePrunedForgets ==
  /\ pc = "drain" /\ ~HasPending /\ stage # "boot"
  /\ \A s \in committed_schedules : slot_states[s] = "Committed"
  /\ update_pruned_variants({})
  /\ mem' = [mem EXCEPT !.next_trial = trial_index]
  /\ pc' = "persist"
  /\ UNCHANGED <<storeVars, durableVars, stage, outcome, recovered, drain_trial, keys, queue,
                 slot_attempts, events, exited_workers, closing, result, budget>>

UpdatePruned ==
  /\ pc = "drain" /\ ~HasPending /\ stage # "boot"
  /\ \A s \in committed_schedules : slot_states[s] = "Committed"
  /\ update_pruned_variants(mem.pruned)
  /\ mem' = [mem EXCEPT !.next_trial = trial_index]
  /\ pc' = "persist"
  /\ UNCHANGED <<storeVars, durableVars, stage, outcome, recovered, drain_trial, keys, queue,
                 slot_attempts, events, exited_workers, closing, result, budget>>

PersistPending ==
  /\ pc = "persist" \/ (pc = "drain" /\ ~HasPending /\ stage = "boot")
  /\ pending' = PendingRecords(queue)
  /\ pc' = IF stage = "boot" THEN "spawn" ELSE "control"
  /\ UNCHANGED <<storeVars, brokerVars, progress, control, intents, attempts, memoryVars, budget>>

\* SlotBroker::new, run_control, and the worker threads.
BrokerStates ==
  [s \in Slots |-> CASE s \in committed_schedules -> "Committed"
                     [] row[s].state = "pending" -> "Pending"
                     [] row[s].state = "committed" -> "Committed"
                     [] row[s].state = "active" -> "BlockedActive"]

\* As many threads as dispatch_capacity says.
Threads == CHOOSE ws \in SUBSET Workers : Cardinality(ws) = budget["threads"]

Spawn ==
  /\ pc = "spawn"
  /\ pc' = "loop" /\ stage' = "event"
  /\ control' = [status |-> "running", active |-> {}]
  /\ UNCHANGED <<storeVars, progress, pending, intents, attempts, outcome, mem, recovered,
                 drain_trial, keys, queue, slot_attempts, events, exited_workers, closing, result,
                 budget>>
  /\ slot_states' = BrokerStates
  /\ in_flight' = {} /\ in_flight_by_variant' = [v \in Variants |-> 0]
  /\ pruned' = mem.pruned
  /\ trial_index' = drain_trial
  /\ accepting' = TRUE /\ faulted' = FALSE
  /\ wpc' = [w \in Workers |-> IF w \in Threads THEN "claim" ELSE "exited"]
  /\ work' = [w \in Workers |-> NoWork]

-----------------------------------------------------------------------------
\* The workers, with what their steps do outside the broker.

Send(kind, w) ==
  events' = Append(events, [kind |-> kind, trial |-> work[w].trial, slot |-> work[w].slot,
                            result |-> result[w]])

\* What no worker touches.
CoordinatorVars == <<storeVars, progress, pending, control, stage, outcome, mem, recovered,
                     drain_trial, keys, queue, slot_attempts, exited_workers, closing, pc>>

Pull(w) ==
  /\ ClaimTrial(w) \/ ClaimSkip(w) \/ ClaimNone(w) \/ ClaimWait(w)
  /\ result' = [result EXCEPT ![w] = "none"]
  /\ UNCHANGED <<CoordinatorVars, intents, attempts, events, budget>>

\* The trial directory cannot be prepared, or the claim intent not be written.
ClaimFails(w) ==
  /\ rollback_claim(w) \/ release_owned_to_pending(w)
  /\ Spend("worker")
  /\ UNCHANGED <<CoordinatorVars, intents, attempts, events, result>>

RecordClaim(w) ==
  /\ WriteClaimIntent(w)
  /\ intents' = [intents EXCEPT ![work[w].trial] = work[w].slot]
  /\ UNCHANGED <<CoordinatorVars, attempts, events, result, budget>>

AnnounceClaim(w) ==
  /\ SendClaimed(w) /\ Send("Claimed", w)
  /\ UNCHANGED <<CoordinatorVars, intents, attempts, result, budget>>

\* execute_local_trial persists the attempt before its containers exist, ...
StartAttempt(w) ==
  /\ wpc[w] = "execute" /\ result[w] = "none"
  /\ attempts' = [attempts EXCEPT ![work[w].trial] = [phase |-> "live", slot |-> work[w].slot]]
  /\ result' = [result EXCEPT ![w] = "live"]
  /\ UNCHANGED <<brokerVars, CoordinatorVars, intents, events, budget>>

\* ... ends it as CommitPending, ...
FinishAttempt(w) ==
  /\ wpc[w] = "execute" /\ result[w] = "live"
  /\ \E r \in {"completed", "failed"} : result' = [result EXCEPT ![w] = r]
  /\ attempts' = [attempts EXCEPT ![work[w].trial].phase = "commit_pending"]
  /\ UNCHANGED <<brokerVars, CoordinatorVars, intents, events, budget>>

\* ... or fails: before the attempt is there, in the run (local_docker makes it
\* Abandoned, a panic and the other backends leave it), or in the clean-up.
AttemptFails(w) ==
  /\ wpc[w] = "execute" /\ result[w] \in {"none", "live", "completed", "failed"}
  /\ Spend("trial")
  /\ \/ UNCHANGED attempts
     \/ /\ result[w] = "live"
        /\ attempts' = [attempts EXCEPT ![work[w].trial].phase = "abandoned"]
  /\ result' = [result EXCEPT ![w] = "error"]
  /\ UNCHANGED <<brokerVars, CoordinatorVars, intents, events>>

CompleteTrial(w) ==
  /\ result[w] \in {"completed", "failed", "error"}
  /\ complete_owned(w)
  /\ UNCHANGED <<CoordinatorVars, intents, attempts, events, result, budget>>

ReportCompleted(w) ==
  /\ SendCompleted(w) /\ Send("Completed", w)
  /\ UNCHANGED <<CoordinatorVars, intents, attempts, result, budget>>

ReportSkipped(w) ==
  /\ SendSkippedPruned(w) /\ Send("SkippedPruned", w)
  /\ UNCHANGED <<CoordinatorVars, intents, attempts, result, budget>>

ReportFatal(w) ==
  /\ SendFatal(w) /\ Send("Fatal", w)
  /\ UNCHANGED <<CoordinatorVars, intents, attempts, result, budget>>

ReportExited(w) ==
  /\ SendExited(w) /\ Send("Exited", w)
  /\ UNCHANGED <<CoordinatorVars, intents, attempts, result, budget>>

Worker(w) ==
  \/ Pull(w) \/ RecordClaim(w) \/ AnnounceClaim(w)
  \/ StartAttempt(w) \/ FinishAttempt(w) \/ CompleteTrial(w)
  \/ ReportCompleted(w) \/ ReportSkipped(w) \/ ReportFatal(w) \/ ReportExited(w)

-----------------------------------------------------------------------------
\* The coordinator's loop.

\* Mutant: the first worker to exit is taken for all.
OneExited == exited_workers > 0 /\ ~HasPending

AllExited == exited_workers = budget["threads"] /\ ~HasPending

\* INTERRUPTED is seen at the top of the loop.
Interrupt ==
  /\ pc = "loop"
  /\ Spend("interrupt")
  /\ stop_accepting
  /\ control' = [status |-> "interrupted", active |-> active_trials]
  /\ outcome' = "interrupted" /\ pc' = "shutdown"
  /\ UNCHANGED <<storeVars, progress, pending, intents, attempts, stage, mem, recovered,
                 drain_trial, keys, queue, slot_attempts, events, exited_workers, closing, result>>

\* enforce_runtime_disk_headroom or enforce_runtime_run_size_budget.
LoopCheckFails ==
  /\ pc = "loop"
  /\ Spend("engine")
  /\ Fail
  /\ UNCHANGED <<storeVars, brokerVars, durableVars, stage, mem, recovered, drain_trial, keys,
                 queue, slot_attempts, events, exited_workers, closing, result>>

\* Mutant: one more exit is waited for than there are workers, and the loop polls for ever.
LeaveLoopLate ==
  /\ pc = "loop" /\ AllExited
  /\ IF exited_workers > budget["threads"]
     THEN stage' = "final" /\ pc' = "drain" /\ drain_trial' = trial_index
     ELSE UNCHANGED <<stage, pc, drain_trial>>
  /\ UNCHANGED <<storeVars, brokerVars, durableVars, outcome, mem, recovered, keys, queue,
                 slot_attempts, events, exited_workers, closing, result, budget>>

\* All workers have left: the protocol fault, or the final drain.
LeaveLoop ==
  /\ pc = "loop" /\ AllExited
  /\ IF has_unfinished_slots
     THEN outcome' = "error" /\ pc' = "shutdown" /\ UNCHANGED <<stage, drain_trial>>
     ELSE stage' = "final" /\ pc' = "drain" /\ drain_trial' = trial_index /\ UNCHANGED outcome
  /\ UNCHANGED <<storeVars, brokerVars, durableVars, mem, recovered, keys, queue, slot_attempts,
                 events, exited_workers, closing, result, budget>>

Receive(kind) ==
  /\ pc = "loop" /\ ~AllExited
  /\ events # <<>> /\ Head(events).kind = kind
  /\ events' = Tail(events)

\* The row becomes active after the worker has announced the trial, which may
\* be over by then; whether the row was claimed is not looked at.
OnClaimed ==
  /\ Receive("Claimed")
  /\ claim_schedule_slot(Head(events).slot, Head(events).trial)
  /\ pc' = "control"
  /\ UNCHANGED <<brokerVars, durableVars, stage, outcome, mem, recovered, drain_trial, keys, queue,
                 slot_attempts, exited_workers, closing, result, budget>>

\* A skipped slot goes straight into a drain.
OnSkippedPruned ==
  LET s == Head(events).slot IN
  /\ Receive("SkippedPruned")
  /\ IF EnqueueFault(s, Skipped)
     THEN Fail /\ UNCHANGED <<queue, drain_trial>>
     ELSE /\ queue' = Enqueued(s, Skipped)
          /\ drain_trial' = trial_index
          /\ pc' = "drain" /\ UNCHANGED outcome
  /\ UNCHANGED <<storeVars, brokerVars, durableVars, stage, mem, recovered, keys, slot_attempts,
                 exited_workers, closing, result, budget>>

\* A trial's error ends the engine; a result is made durable first.
OnCompleted ==
  LET e == Head(events)
      r == [trial |-> e.trial, status |-> e.result]
  IN  /\ Receive("Completed")
      /\ IF e.result = "error" \/ EnqueueFault(e.slot, r)
         THEN Fail /\ UNCHANGED queue
         ELSE queue' = Enqueued(e.slot, r) /\ pc' = "result" /\ UNCHANGED outcome
      /\ UNCHANGED <<storeVars, brokerVars, durableVars, stage, mem, recovered, drain_trial, keys,
                     slot_attempts, exited_workers, closing, result, budget>>

\* completion_result_durable_before_slot_commit.
PersistResult ==
  /\ pc = "result"
  /\ pending' = PendingRecords(queue)
  /\ drain_trial' = trial_index
  /\ pc' = "drain"
  /\ UNCHANGED <<storeVars, brokerVars, progress, control, intents, attempts, stage, outcome, mem,
                 recovered, keys, queue, slot_attempts, events, exited_workers, closing, result,
                 budget>>

OnExited ==
  /\ Receive("Exited")
  /\ exited_workers' = exited_workers + 1
  /\ UNCHANGED <<storeVars, brokerVars, durableVars, stage, outcome, mem, recovered, drain_trial,
                 keys, queue, slot_attempts, closing, result, budget, pc>>

OnFatal ==
  /\ Receive("Fatal")
  /\ stop_accepting
  /\ Fail
  /\ UNCHANGED <<storeVars, durableVars, stage, mem, recovered, drain_trial, keys, queue,
                 slot_attempts, exited_workers, closing, result, budget>>

\* write_run_control after an event and after the final drain.
WriteControl ==
  /\ pc = "control"
  /\ control' = [status |-> "running", active |-> active_trials]
  /\ IF stage = "final" THEN outcome' = "completed" /\ pc' = "shutdown"
                        ELSE pc' = "loop" /\ UNCHANGED outcome
  /\ UNCHANGED <<storeVars, brokerVars, progress, pending, intents, attempts, stage, mem, recovered,
                 drain_trial, keys, queue, slot_attempts, events, exited_workers, closing, result,
                 budget>>

-----------------------------------------------------------------------------
\* Shutdown: claims stop, the slots in flight are released one by one and
\* run_control is cleared; the workers are joined; the RunControlGuard writes
\* the last status.

Shutdown ==
  /\ pc = "shutdown"
  /\ stop_accepting
  /\ closing' = {d.slot : d \in in_flight}
  /\ pc' = IF in_flight = {} THEN "join" ELSE "release"
  /\ UNCHANGED <<storeVars, durableVars, stage, outcome, mem, recovered, drain_trial, keys, queue,
                 slot_attempts, events, exited_workers, result, budget>>

ReleaseInFlight ==
  \E s \in closing :
    /\ pc = "release"
    /\ release_schedule_slot_to_pending(s)
    /\ closing' = closing \ {s}
    /\ UNCHANGED <<brokerVars, durableVars, stage, outcome, mem, recovered, drain_trial, keys, queue,
                   slot_attempts, events, exited_workers, result, budget, pc>>

\* schedule_engine_status knows only a requested outcome, not an error.  A
\* failed clean-up of the containers in flight turns the outcome into an error.
ClearControl ==
  /\ pc = "release" /\ closing = {}
  /\ control' = [status |-> IF outcome = "interrupted" THEN "interrupted" ELSE "running",
                 active |-> {}]
  /\ pc' = "join"
  /\ \/ UNCHANGED <<outcome, budget>>
     \/ Spend("engine") /\ outcome' = "error"
  /\ UNCHANGED <<storeVars, brokerVars, progress, pending, intents, attempts, stage, mem, recovered,
                 drain_trial, keys, queue, slot_attempts, events, exited_workers, closing, result>>

\* The sink or the attestation of a finished schedule cannot be written.
FinishFails ==
  /\ pc = "join" /\ outcome # "error"
  /\ Spend("engine")
  /\ outcome' = "error"
  /\ UNCHANGED <<storeVars, brokerVars, durableVars, stage, mem, recovered, drain_trial, keys,
                 queue, slot_attempts, events, exited_workers, closing, result, pc>>

\* The guard of an engine that failed asks INTERRUPTED: the loop may have seen
\* the signal, or it may have come too late for the loop.
LastStatus ==
  IF outcome # "error" THEN {outcome}
  ELSE IF control.status = "interrupted" THEN {"interrupted"}
  ELSE {"failed"} \cup (IF budget["interrupt"] > 0 /\ budget["any"] > 0 THEN {"interrupted"} ELSE {})

Conclude ==
  /\ pc = "join" /\ \A w \in Workers : wpc[w] = "exited"
  /\ \E status \in LastStatus : control' = [status |-> status, active |-> {}]
  /\ ProcessEnds
  /\ UNCHANGED <<storeVars, progress, pending, intents, attempts, budget>>

RecoverPCs == {"attempts", "abandoned", "reconciled"}

\* The process dies.
Crash ==
  /\ pc \notin {"down"} \cup RecoverPCs
  /\ Spend("crash")
  /\ ProcessEnds
  /\ UNCHANGED <<storeVars, durableVars>>

-----------------------------------------------------------------------------
\* continue_run: only a run that stopped, and only while slots are left.
ContinueRun ==
  /\ pc = "down"
  /\ control.status \in {"failed", "interrupted"}
  /\ \E s \in Slots : progress.done[s] = NoCommit
  /\ control' = [status |-> "running", active |-> {}]
  /\ recovered' = control.active
  /\ mem' = progress
  /\ drain_trial' = Max({progress.next_trial} \cup {a.trial : a \in control.active})
  /\ pc' = "boot"
  /\ UNCHANGED <<storeVars, brokerVars, progress, pending, intents, attempts, stage, outcome, keys,
                 queue, slot_attempts, events, exited_workers, closing, result, budget>>

\* The journal's conclusion of each slot.
committed_by_schedule == [s \in Slots |-> commit_record_by_schedule(journal, s)]

\* recover_run: the journal decides.  The rows of its commit records are forced
\* to committed and the completed slots of the progress replaced by them; a
\* difference clears the pruning state.
RecoverRun ==
  LET commits == committed_by_schedule
      diverged == progress.done # commits
  IN  /\ pc = "down"
      /\ control.status \in {"running", "interrupted", "failed"}
      /\ \A s \in Slots : commits[s] # NoCommit => OwnerMatches(s, commits[s])
      /\ row' = [s \in Slots |-> IF commits[s] = NoCommit THEN row[s] ELSE CommittedRow(commits[s])]
      /\ mem' = [progress EXCEPT !.done = commits,
                                 !.pruned = IF diverged THEN {} ELSE @,
                                 !.failures = IF diverged THEN NewProgress.failures ELSE @]
      /\ pc' = "attempts"
      /\ UNCHANGED <<journal, brokerVars, durableVars, stage, outcome, recovered, drain_trial, keys,
                     queue, slot_attempts, events, exited_workers, closing, result, budget>>

\* trial_phase_requires_recovery_release.
RequiresRelease(t) == attempts[t].phase \in {"live", "commit_pending"}

CommittedItself(t) ==
  attempts[t].phase # "none" /\ committed_by_schedule[attempts[t].slot].trial = t

\* The attempts reconcile_runtime_trials_for_recovery has still to change in its one pass
\* over those that were stored when it began; nobody adds one meanwhile.
Unreconciled == {t \in Trials : \/ CommittedItself(t) /\ attempts[t].phase # "committed"
                                \/ ~CommittedItself(t) /\ RequiresRelease(t)}

\* It goes through them in schedule order: an attempt that committed its slot
\* is marked so, any other live one is abandoned and then its slot released.
ReconcileAttempt ==
  \E t \in Unreconciled :
    /\ pc = "attempts"
    /\ \A u \in Unreconciled : attempts[t].slot <= attempts[u].slot
    /\ IF CommittedItself(t)
       THEN attempts' = [attempts EXCEPT ![t].phase = "committed"] /\ UNCHANGED <<pc, closing>>
       ELSE /\ attempts' = [attempts EXCEPT ![t].phase = "abandoned"]
            /\ closing' = {attempts[t].slot}
            /\ pc' = "abandoned"
    /\ UNCHANGED <<storeVars, brokerVars, progress, pending, control, intents, stage, outcome, mem,
                   recovered, drain_trial, keys, queue, slot_attempts, events, exited_workers, result,
                   budget>>

ReleaseAbandoned ==
  \E s \in closing :
    /\ pc = "abandoned"
    /\ release_schedule_slot_to_pending(s)
    /\ closing' = {}
    /\ pc' = "attempts"
    /\ UNCHANGED <<brokerVars, durableVars, stage, outcome, mem, recovered, drain_trial, keys, queue,
                   slot_attempts, events, exited_workers, result, budget>>

\* runtime_state_trial_ids.
HasAttempt(t) == attempts[t].phase # "none"

\* Then the active trials of run_control, the claim intents without a result,
\* and the active rows; each only if its trial has no attempt on record.
Claimants == control.active
  \cup {[trial |-> t, slot |-> intents[t]] :
          t \in {u \in Trials : /\ intents[u] # 0
                                /\ committed_by_schedule[intents[u]] = NoCommit
                                /\ pending[intents[u]] = NoResult}}

\* Mutant: only run_control is consulted.
ReleasableFromControl == {a.slot : a \in {b \in control.active : ~HasAttempt(b.trial)}}

ReleasableRows ==
  {a.slot : a \in {b \in Claimants : ~HasAttempt(b.trial)}}
    \cup {s \in Slots : row[s].state = "active" /\ ~HasAttempt(row[s].trial)}

ReleaseRow ==
  \E s \in ReleasableRows :
    /\ pc = "attempts" /\ Unreconciled = {}
    /\ row[s].state = "active"
    /\ release_schedule_slot_to_pending(s)
    /\ UNCHANGED <<brokerVars, durableVars, memoryVars, budget, pc>>

ReconcileProgress ==
  /\ pc = "attempts" /\ Unreconciled = {}
  /\ \A s \in ReleasableRows : row[s].state # "active"
  /\ progress' = mem
  /\ pc' = "reconciled"
  /\ UNCHANGED <<storeVars, brokerVars, pending, control, intents, attempts, memoryVars, budget>>

\* Mutant: the run is left as it was found.
FinishRecoverySilently ==
  /\ pc = "reconciled"
  /\ control' = [control EXCEPT !.active = {}]
  /\ ProcessEnds
  /\ UNCHANGED <<storeVars, progress, pending, intents, attempts, budget>>

FinishRecovery ==
  /\ pc = "reconciled"
  /\ control' = [status |-> "interrupted", active |-> {}]
  /\ ProcessEnds
  /\ UNCHANGED <<storeVars, progress, pending, intents, attempts, budget>>

\* A clean-up fails, or the recovery's process dies.
RecoveryFails ==
  /\ pc \in RecoverPCs
  /\ Spend("recover")
  /\ ProcessEnds
  /\ UNCHANGED <<storeVars, durableVars>>

-----------------------------------------------------------------------------
Coordinator ==
  \/ Boot \/ WriteIntent \/ CommitSlot
  \/ MarkCommitted \/ UpdatePruned \/ PersistPending \/ Spawn
  \/ LeaveLoop \/ OnClaimed \/ OnSkippedPruned \/ OnCompleted \/ PersistResult
  \/ OnExited \/ OnFatal \/ WriteControl
  \/ Shutdown \/ ReleaseInFlight \/ ClearControl \/ Conclude

Recovery == ReconcileAttempt \/ ReleaseAbandoned \/ ReleaseRow \/ ReconcileProgress \/ FinishRecovery

Fault ==
  \/ BootFails \/ Interrupt \/ LoopCheckFails \/ FinishFails \/ Crash \/ RecoveryFails
  \/ \E w \in Workers : ClaimFails(w) \/ AttemptFails(w)

Operator == ContinueRun \/ RecoverRun

\* A completed run is left alone.
Finished == pc = "down" /\ control.status = "completed" /\ UNCHANGED vars

EngineNext == Coordinator \/ Recovery \/ Fault \/ Operator \/ Finished \/ \E w \in Workers : Worker(w)

EngineSpec == EngineInit /\ [][EngineNext]_vars

\* Threads are scheduled and a trial ends (it has a timeout); the operator takes
\* a stopped run up again, with recover where continue is refused.
EngineFairness ==
  /\ WF_vars(Coordinator) /\ WF_vars(Recovery)
  /\ \A w \in Workers : WF_vars(Worker(w))
  /\ SF_vars(ContinueRun)
  /\ WF_vars(RecoverRun /\ control.status = "running")

FairEngineSpec == EngineSpec /\ EngineFairness

-----------------------------------------------------------------------------
PCs == {"boot", "drain", "commit", "persist", "spawn", "loop", "result", "control", "shutdown",
        "release", "join", "down"} \cup RecoverPCs

Progresses == [done : [Slots -> Commits \cup {NoCommit}], next_trial : 0 .. MaxTrials,
               pruned : SUBSET Variants, failures : [Variants -> Nat]]

Actives == [trial : Trials, slot : Slots]

EventKinds == {"Claimed", "Completed", "SkippedPruned", "Exited", "Fatal"}

\* Store, broker, committer and channel have values of their type, in memory
\* and on disk.
EngineTypeOK ==
  /\ StoreTypeOK /\ BrokerTypeOK
  /\ {progress, mem} \subseteq Progresses
  /\ pending \in [Slots -> Results \cup {NoResult}]
  /\ control.status \in {"running", "completed", "failed", "interrupted"}
  /\ control.active \subseteq Actives /\ recovered \subseteq Actives
  /\ intents \in [Trials -> Slots \cup {0}]
  /\ \A t \in Trials :
       attempts[t] = NoAttempt \/ attempts[t] \in [phase : {"live", "commit_pending", "abandoned",
                                                            "committed"}, slot : Slots]
  /\ pc \in PCs /\ stage \in {"boot", "event", "final"}
  /\ outcome \in {"none", "completed", "interrupted", "error"}
  /\ drain_trial \in 0 .. MaxTrials
  /\ \A k \in keys : k.slot \in Slots
  /\ queue \in [Slots -> Results \cup {Skipped, NoResult}]
  /\ slot_attempts \in [Slots -> 0 .. MaxAttempts]
  /\ \A i \in DOMAIN events : events[i].kind \in EventKinds
  /\ exited_workers \in 0 .. Cardinality(Workers)
  /\ closing \subseteq Slots
  /\ result \in [Workers -> {"none", "live", "completed", "failed", "error"}]
  /\ budget \in [Bounds -> Nat]

\* The completed slots of the stored progress are the journal's commit records,
\* in every state a crash can leave: recover_run never finds them diverged.
ProgressMatchesJournal == progress.done = committed_by_schedule

\* No slot is ever committed without its intent record on disk first.
IntentPrecedesCommit ==
  \A r \in journal : r.kind = "commit" => [r EXCEPT !.kind = "intent"] \in journal

\* A trial's result that is on disk stays there until the slot is committed, and
\* then with that very result: across crashes, recovery and continuation.
ResultKept ==
  \A s \in Slots : pending[s] # NoResult /\ pending'[s] # pending[s]
    => /\ row'[s].state = "committed"
       /\ row'[s].trial = pending[s].trial /\ row'[s].commit.status = pending[s].status

DurableResultIsCommitted == [][ResultKept]_vars

\* A slot is committed as skipped only after enough trials of its variant were
\* committed as failed.
SkipsAreJustified ==
  \A s \in Slots : row[s].commit.status = "skipped_pruned" =>
    MaxFailures <= Cardinality({r \in Slots : /\ variant_idx[r] = variant_idx[s]
                                              /\ row[r].commit.status = "failed"})

\* The committer never meets two different completions of one slot, and the
\* store never refuses a commit of the engine.
CommitsAreAccepted ==
  /\ pc = "commit" => \A s \in Slots : NextReady(s) => CommitAccepted(s, CommitOf(s))
  /\ pc = "loop" /\ events # <<>> =>
       LET e == Head(events) IN
       /\ e.kind = "SkippedPruned" => ~EnqueueFault(e.slot, Skipped)
       /\ e.kind = "Completed" /\ e.result # "error"
            => ~EnqueueFault(e.slot, [trial |-> e.trial, status |-> e.result])

\* Commits are in order whatever a crash has cut off: the stored progress is what the
\* journal says, every commit has its intent, and neither committer nor store refuses one
\* (commit_trial_slot writes the intent, then journal and progress in one transaction).
CommitsAreInOrder == ProgressMatchesJournal /\ IntentPrecedesCommit /\ CommitsAreAccepted

\* Engine and recovery use the store only through its transactions, so what is
\* proved of SlotStore holds of a run.
UsesStore == StoreSpec

\* Engine and workers use the broker the way SlotBroker assumes: slots are
\* marked committed only after completion and the pruned set only grows.
UsesBroker == [][BrokerNext \/ pc = "spawn" \/ pc' = "down"]_brokerVars

\* Together: the engine, its workers and the recovery take only steps that the two proved
\* components allow.
UsesStoreAndBroker == UsesStore /\ UsesBroker

\* A run that reports completed has committed every slot of its schedule.
CompletedRunIsWhole ==
  control.status = "completed" => \A s \in Slots : row[s].state = "committed"

\* A recovery that has finished leaves no slot active.
RecoveryReleasesAll ==
  pc = "reconciled" => \A s \in Slots : row[s].state # "active"

\* No slot is stranded by one crash: a run that reports completed has committed every
\* slot, and a recovery that has finished leaves none active (execute_schedule_engine,
\* recover_run).
NoSlotIsStranded == CompletedRunIsWhole /\ RecoveryReleasesAll

\* Whatever crashed, failed or was interrupted, a run that reports completed has no slot
\* left to start: an engine comes to its final drain only when every worker is gone and
\* every slot they were through with is committed (execute_schedule_engine).
CompletedRunHasNoPendingSlot ==
  control.status = "completed" => \A s \in Slots : row[s].state # "pending"

\* A trial id stands for one slot.
TrialIdsAreUnique ==
  \A r, q \in Slots : row[r].state = "committed" /\ row[q].state = "committed"
                        /\ row[r].trial = row[q].trial /\ row[r].trial # NoTrial => r = q

AllCommitted == \A s \in Slots : row[s].state = "committed"

\* Every engine and every recovery comes to its end: neither the loop, a drain
\* nor the join of the workers hangs.
EngineStops == pc # "down" ~> pc = "down"

\* While the operator takes a stopped run up again, every slot is committed in
\* the end.
ScheduleCompletes == <>AllCommitted

\* A run whose slots are all committed is reported as completed in the end.
FinishedRunIsReported == AllCommitted ~> control.status = "completed"
=============================================================================
