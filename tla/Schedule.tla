------------------------------ MODULE Schedule ------------------------------
(***************************************************************************)
(* What the parts of a run share: the schedule (Vec<TrialSlot>), the       *)
(* trial ids and the outcome a slot is committed with.                     *)
(*                                                                         *)
(* A slot is its schedule index, counted from 1.  A trial is the number in *)
(* its id trial_<n>; NoTrial stands for the empty trial_id a skipped slot  *)
(* is committed with and for NULL in schedule_slots.trial_id.              *)
(***************************************************************************)
EXTENDS Integers, FiniteSets

CONSTANTS
  NumSlots,      \* schedule.len()
  Variants,      \* variant indices
  variant_idx,   \* the variant of each slot: TrialSlot.variant_idx
  MaxTrials,     \* bound: the last trial id a behaviour mints
  MaxAttempts    \* bound: the last commit attempt of a slot

ASSUME SlotsAssumption == NumSlots \in Nat
ASSUME VariantAssumption == variant_idx \in [1 .. NumSlots -> Variants]
ASSUME TrialsAssumption == MaxTrials \in Nat
ASSUME AttemptsAssumption == MaxAttempts \in Nat

Slots == 1 .. NumSlots
Trials == 1 .. MaxTrials
NoTrial == 0
Attempts == 1 .. MaxAttempts

\* What a slot is committed with: the attempt, the trial and the slot status
\* that make_slot_commit_id digests into the slot_commit_id.
Commits == [attempt : Attempts, trial : Trials, status : {"completed", "failed"}]
             \cup [attempt : Attempts, trial : {NoTrial}, status : {"skipped_pruned"}]

NoCommit == [attempt |-> 0, trial |-> NoTrial, status |-> "none"]
=============================================================================
