----------------------------- MODULE SlotBroker -----------------------------
(***************************************************************************)
(* The pull scheduler of lab-runner (experiment/runner.rs): the in-memory  *)
(* SlotBroker behind one mutex and one condition variable, and the worker  *)
(* threads of spawn_pull_worker that pull slots from it.                   *)
(*                                                                         *)
(* One action is one critical section, or one step a worker takes without  *)
(* the mutex.  The coordinator's calls (mark_committed, stop_accepting,    *)
(* update_pruned_variants) may come at any time.                           *)
(***************************************************************************)
EXTENDS Schedule

CONSTANTS
  Workers,    \* the threads bucephalus-worker-<n>
  Limit       \* max_in_flight_per_variant; no limit is Limit = NumSlots

ASSUME WorkersAssumption == IsFiniteSet(Workers) /\ Workers # {}   \* dispatch_capacity is at least 1
ASSUME LimitAssumption == Limit \in Nat \ {0}

VARIABLES
  slot_states,           \* BrokerSlotState of each slot
  in_flight,             \* the dispatches, keyed by their trial
  in_flight_by_variant,  \* how many of them each variant has
  pruned,                \* the broker's copy of pruned_variants
  trial_index,           \* the last trial id minted
  accepting,
  wpc,                   \* where each worker is
  work,                  \* the trial and the slot a worker is busy with
  faulted                \* history: a worker gave up with a Fatal event

brokerVars == <<slot_states, in_flight, in_flight_by_variant, pruned, trial_index,
                accepting, wpc, work, faulted>>

SlotStates == {"Pending", "Active", "CompletedPendingCommit", "Committed", "BlockedActive"}

WorkerStates == {"claim",     \* about to call claim_next, or woken up inside it
                 "wait",      \* in cv.wait
                 "claimed",   \* holds a slot; its directory and claim intent come next
                 "announce",  \* claim intent durable; Claimed not sent
                 "execute",   \* in execute_local_trial
                 "report",    \* slot completed in the broker; Completed not sent
                 "skip",      \* holds a pruned slot; SkippedPruned not sent
                 "fatal",     \* Fatal not sent
                 "exit",      \* left the loop; Exited not sent
                 "exited"}

Dispatches == [trial : Trials, slot : Slots, worker : Workers]

NoWork == [trial |-> NoTrial, slot |-> 0]

\* The broker and its workers have values of their type; no count is negative.
BrokerTypeOK ==
  /\ slot_states \in [Slots -> SlotStates]
  /\ in_flight \subseteq Dispatches
  /\ in_flight_by_variant \in [Variants -> Nat]
  /\ pruned \subseteq Variants
  /\ trial_index \in 0 .. MaxTrials
  /\ accepting \in BOOLEAN
  /\ wpc \in [Workers -> WorkerStates]
  /\ work \in [Workers -> [trial : Trials \cup {NoTrial}, slot : Slots \cup {0}]]
  /\ faulted \in BOOLEAN

\* SlotBroker::new and the spawned workers.  A slot starts as its row and the
\* committer have it; the commits recovered from an earlier engine are drained
\* by then, so no slot starts as CompletedPendingCommit.
BrokerNew(states, prunedVariants, lastTrial) ==
  /\ slot_states = states
  /\ in_flight = {}
  /\ in_flight_by_variant = [v \in Variants |-> 0]
  /\ pruned = prunedVariants
  /\ trial_index = lastTrial
  /\ accepting = TRUE
  /\ wpc = [w \in Workers |-> "claim"]
  /\ work = [w \in Workers |-> NoWork]
  /\ faulted = FALSE

BrokerInit ==
  \E states \in [Slots -> {"Pending", "Committed", "BlockedActive"}] :
    \E prunedVariants \in SUBSET Variants : BrokerNew(states, prunedVariants, 0)

-----------------------------------------------------------------------------
Dispatch(w) == [trial |-> work[w].trial, slot |-> work[w].slot, worker |-> w]

\* Mutant: nobody is woken.
WakeNobody == wpc

\* cv.notify_all(): every waiting worker looks again.
notify_all == [w \in Workers |-> IF wpc[w] = "wait" THEN "claim" ELSE wpc[w]]

\* Mutant: the capacity check lets one more trial in.
ClaimableOneMore(s) ==
  /\ slot_states[s] = "Pending"
  /\ \/ variant_idx[s] \in pruned
     \/ in_flight_by_variant[variant_idx[s]] <= Limit

\* A slot the scan of claim_next does not pass over.
Claimable(s) ==
  /\ slot_states[s] = "Pending"
  /\ \/ variant_idx[s] \in pruned
     \/ in_flight_by_variant[variant_idx[s]] < Limit

\* The scan takes the first such slot in schedule order.
FirstClaimable(s) == Claimable(s) /\ \A r \in Slots : Claimable(r) => s <= r

NothingClaimable == \A s \in Slots : ~Claimable(s)

\* blocked_by_capacity, when the scan found nothing.
SomePending == \E s \in Slots : slot_states[s] = "Pending"

\* Mutant: a claim forgets the slot's state.
ClaimTrialStaysPending(w) ==
  \E s \in Slots :
    /\ wpc[w] = "claim"
    /\ accepting
    /\ trial_index < MaxTrials
    /\ FirstClaimable(s)
    /\ variant_idx[s] \notin pruned
    /\ trial_index' = trial_index + 1
    /\ in_flight' = in_flight \cup {[trial |-> trial_index + 1, slot |-> s, worker |-> w]}
    /\ in_flight_by_variant' = [in_flight_by_variant EXCEPT ![variant_idx[s]] = @ + 1]
    /\ work' = [work EXCEPT ![w] = [trial |-> trial_index + 1, slot |-> s]]
    /\ wpc' = [wpc EXCEPT ![w] = "claimed"]
    /\ UNCHANGED <<slot_states, pruned, accepting, faulted>>

\* claim_next returns PulledWork::Trial.
ClaimTrial(w) ==
  \E s \in Slots :
    /\ wpc[w] = "claim"
    /\ accepting
    /\ trial_index < MaxTrials
    /\ FirstClaimable(s)
    /\ variant_idx[s] \notin pruned
    /\ trial_index' = trial_index + 1
    /\ slot_states' = [slot_states EXCEPT ![s] = "Active"]
    /\ in_flight' = in_flight \cup {[trial |-> trial_index + 1, slot |-> s, worker |-> w]}
    /\ in_flight_by_variant' = [in_flight_by_variant EXCEPT ![variant_idx[s]] = @ + 1]
    /\ work' = [work EXCEPT ![w] = [trial |-> trial_index + 1, slot |-> s]]
    /\ wpc' = [wpc EXCEPT ![w] = "claimed"]
    /\ UNCHANGED <<pruned, accepting, faulted>>

\* claim_next returns PulledWork::SkippedPruned.
ClaimSkip(w) ==
  \E s \in Slots :
    /\ wpc[w] = "claim"
    /\ accepting
    /\ FirstClaimable(s)
    /\ variant_idx[s] \in pruned
    /\ slot_states' = [slot_states EXCEPT ![s] = "CompletedPendingCommit"]
    /\ work' = [work EXCEPT ![w] = [trial |-> NoTrial, slot |-> s]]
    /\ wpc' = [wpc EXCEPT ![w] = "skip"]
    /\ UNCHANGED <<in_flight, in_flight_by_variant, pruned, trial_index, accepting, faulted>>

\* claim_next returns None: the worker is done.
ClaimNone(w) ==
  /\ wpc[w] = "claim"
  /\ ~accepting \/ (NothingClaimable /\ (~SomePending \/ in_flight = {}))
  /\ wpc' = [wpc EXCEPT ![w] = "exit"]
  /\ UNCHANGED <<slot_states, in_flight, in_flight_by_variant, pruned, trial_index,
                 accepting, work, faulted>>

\* Every pending slot is at its variant's limit: cv.wait.
ClaimWait(w) ==
  /\ wpc[w] = "claim"
  /\ accepting
  /\ NothingClaimable /\ SomePending /\ in_flight # {}
  /\ wpc' = [wpc EXCEPT ![w] = "wait"]
  /\ UNCHANGED <<slot_states, in_flight, in_flight_by_variant, pruned, trial_index,
                 accepting, work, faulted>>

\* A condition variable may wake a thread for no reason; claim_next scans again.
SpuriousWakeup(w) ==
  /\ wpc[w] = "wait"
  /\ wpc' = [wpc EXCEPT ![w] = "claim"]
  /\ UNCHANGED <<slot_states, in_flight, in_flight_by_variant, pruned, trial_index,
                 accepting, work, faulted>>

-----------------------------------------------------------------------------
\* Mutant: the count is not brought down.
GiveUpSlotKeepsCount(w, next, pc) ==
  /\ in_flight' = {d \in in_flight : d.trial # work[w].trial}
  /\ slot_states' = [slot_states EXCEPT ![work[w].slot] = next]
  /\ wpc' = [notify_all EXCEPT ![w] = pc]
  /\ UNCHANGED <<in_flight_by_variant, pruned, trial_index, accepting, work>>

\* The common part of rollback_claim, release_owned_to_pending and
\* complete_owned: the dispatch leaves in_flight, its variant's count goes down
\* but not below zero, the slot gets its next state, the waiters are woken.
GiveUpSlot(w, next, pc) ==
  LET v == variant_idx[work[w].slot]
  IN  /\ in_flight' = {d \in in_flight : d.trial # work[w].trial}
      /\ in_flight_by_variant' =
           [in_flight_by_variant EXCEPT ![v] = IF @ > 0 THEN @ - 1 ELSE 0]
      /\ slot_states' = [slot_states EXCEPT ![work[w].slot] = next]
      /\ wpc' = [notify_all EXCEPT ![w] = pc]
      /\ UNCHANGED <<pruned, trial_index, accepting, work>>

\* The trial directory cannot be prepared: claim_next undoes the claim, without
\* looking at who owns it, and returns the error.
rollback_claim(w) ==
  /\ wpc[w] = "claimed"
  /\ GiveUpSlot(w, "Pending", "fatal")
  /\ UNCHANGED faulted

\* The claim intent cannot be written: the worker releases the slot it owns.
release_owned_to_pending(w) ==
  /\ wpc[w] = "claimed"
  /\ Dispatch(w) \in in_flight
  /\ GiveUpSlot(w, "Pending", "fatal")
  /\ UNCHANGED faulted

\* The trial has run, with a result or an error; complete_owned checks that the
\* dispatch is this worker's.
complete_owned(w) ==
  /\ wpc[w] = "execute"
  /\ Dispatch(w) \in in_flight
  /\ GiveUpSlot(w, "CompletedPendingCommit", "report")
  /\ UNCHANGED faulted

\* The other steps of a worker move it on and touch nothing of the broker.
WorkerMoves(w, from, to) ==
  /\ wpc[w] = from
  /\ wpc' = [wpc EXCEPT ![w] = to]
  /\ UNCHANGED <<slot_states, in_flight, in_flight_by_variant, pruned, trial_index, accepting, work>>

WriteClaimIntent(w) == WorkerMoves(w, "claimed", "announce") /\ UNCHANGED faulted
SendClaimed(w) == WorkerMoves(w, "announce", "execute") /\ UNCHANGED faulted
SendCompleted(w) == WorkerMoves(w, "report", "claim") /\ UNCHANGED faulted
SendSkippedPruned(w) == WorkerMoves(w, "skip", "claim") /\ UNCHANGED faulted
SendFatal(w) == WorkerMoves(w, "fatal", "exit") /\ faulted' = TRUE
SendExited(w) == WorkerMoves(w, "exit", "exited") /\ UNCHANGED faulted

-----------------------------------------------------------------------------
\* The coordinator's calls.

mark_committed(s) ==
  /\ slot_states' = [slot_states EXCEPT ![s] = "Committed"]
  /\ wpc' = notify_all
  /\ UNCHANGED <<in_flight, in_flight_by_variant, pruned, trial_index, accepting, work, faulted>>

\* Mutant: the workers waiting for capacity are not told.
StopAcceptingSilently ==
  /\ accepting' = FALSE
  /\ UNCHANGED <<slot_states, in_flight, in_flight_by_variant, pruned, trial_index, wpc, work, faulted>>

stop_accepting ==
  /\ accepting' = FALSE
  /\ wpc' = notify_all
  /\ UNCHANGED <<slot_states, in_flight, in_flight_by_variant, pruned, trial_index, work, faulted>>

update_pruned_variants(prunedVariants) ==
  /\ pruned' = prunedVariants
  /\ wpc' = notify_all
  /\ UNCHANGED <<slot_states, in_flight, in_flight_by_variant, trial_index, accepting, work, faulted>>

WorkerStep(w) ==
  \/ ClaimTrial(w) \/ ClaimSkip(w) \/ ClaimNone(w) \/ ClaimWait(w)
  \/ rollback_claim(w) \/ release_owned_to_pending(w) \/ complete_owned(w)
  \/ WriteClaimIntent(w) \/ SendClaimed(w) \/ SendCompleted(w)
  \/ SendSkippedPruned(w) \/ SendFatal(w) \/ SendExited(w)

\* The coordinator commits completed slots and its pruned set only grows.
CoordinatorStep ==
  \/ \E s \in Slots : slot_states[s] = "CompletedPendingCommit" /\ mark_committed(s)
  \/ \E P \in SUBSET Variants : pruned \subseteq P /\ update_pruned_variants(P)
  \/ accepting /\ stop_accepting

BrokerNext == (\E w \in Workers : WorkerStep(w) \/ SpuriousWakeup(w)) \/ CoordinatorStep

\* The operating system runs every thread that can run.  No fairness is needed
\* of the coordinator, of the failures or of spurious wake-ups.
BrokerFairness ==
  \A w \in Workers :
    /\ WF_brokerVars(ClaimTrial(w) \/ ClaimSkip(w) \/ ClaimNone(w) \/ ClaimWait(w))
    /\ WF_brokerVars(WriteClaimIntent(w) \/ SendClaimed(w) \/ complete_owned(w))
    /\ WF_brokerVars(SendCompleted(w) \/ SendSkippedPruned(w) \/ SendFatal(w) \/ SendExited(w))

BrokerSpec == BrokerInit /\ [][BrokerNext]_brokerVars
FairBrokerSpec == BrokerSpec /\ BrokerFairness

-----------------------------------------------------------------------------
Busy(w) == wpc[w] \in {"claimed", "announce", "execute"}

\* Ownership: a busy worker's dispatch is in in_flight, every dispatch belongs
\* to a busy worker, no slot and no trial is dispatched twice, and exactly the
\* dispatched slots are Active.  The ownership faults of complete_owned and
\* release_owned_to_pending can therefore not happen.
OwnedOnce ==
  /\ \A w \in Workers : Busy(w) => Dispatch(w) \in in_flight
  /\ \A d \in in_flight : Busy(d.worker) /\ Dispatch(d.worker) = d
  /\ \A d, e \in in_flight : d.slot = e.slot \/ d.trial = e.trial => d = e
  /\ \A s \in Slots : slot_states[s] = "Active" <=> \E d \in in_flight : d.slot = s

InFlightOf(v) == {d \in in_flight : variant_idx[d.slot] = v}

\* No variant ever has more trials in flight than max_in_flight_per_variant,
\* whatever claims, releases and completions interleave, and the per-variant
\* count the claims rely on is exact.
VariantCap ==
  \A v \in Variants : /\ in_flight_by_variant[v] = Cardinality(InFlightOf(v))
                      /\ Cardinality(InFlightOf(v)) <= Limit

\* No lost wake-up: a worker sleeps in cv.wait only while the broker accepts
\* claims, no slot can be claimed, and a busy worker remains that will notify.
SleepsForAReason ==
  \A w \in Workers : wpc[w] = "wait" =>
    /\ accepting
    /\ NothingClaimable /\ SomePending
    /\ \E u \in Workers : Busy(u)

has_unfinished_slots == \E s \in Slots : slot_states[s] \in {"Pending", "Active"}

\* The condition the engine reports as "all workers exited before all schedule
\* slots finished" cannot arise unless a worker failed or claims were stopped.
NoProtocolFault ==
  (\A w \in Workers : wpc[w] = "exited") /\ accepting /\ ~faulted
    => ~has_unfinished_slots

\* Every worker comes to its end: no deadlock on the condition variable, so the
\* join at the end of the engine returns.
WorkersExit == \A w \in Workers : <>(wpc[w] = "exited")
=============================================================================
