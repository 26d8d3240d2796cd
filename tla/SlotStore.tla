----------------------------- MODULE SlotStore ------------------------------
(***************************************************************************)
(* The authoritative tables of the run store (persistence/store.rs): one   *)
(* schedule_slots row per slot and the slot_commit_records journal.  Every *)
(* operation is one step here; StoreTransactions shows that the statements *)
(* SQLite and Postgres run for it have that effect.  The module says       *)
(* nothing about who calls: the engine, a recovery, and an engine that     *)
(* outlived its recovery and still holds the database open may all do so   *)
(* in any order, so what is proved here needs no assumption on the leases. *)
(***************************************************************************)
EXTENDS Schedule

VARIABLES
  row,      \* schedule_slots: state, trial_id, slot_commit_id with slot_status
  journal   \* slot_commit_records

storeVars == <<row, journal>>

Rows == [state : {"pending", "active", "committed"},
         trial : Trials \cup {NoTrial},
         commit : Commits \cup {NoCommit}]

Records == [kind : {"intent", "commit"}, slot : Slots, commit : Commits]

PendingRow == [state |-> "pending", trial |-> NoTrial, commit |-> NoCommit]
ActiveRow(t) == [state |-> "active", trial |-> t, commit |-> NoCommit]
CommittedRow(c) == [state |-> "committed", trial |-> c.trial, commit |-> c]

\* Rows and records have values of their type: no commit has attempt 0.
StoreTypeOK ==
  /\ row \in [Slots -> Rows]
  /\ journal \subseteq Records

\* ensure_schedule_slots has inserted a pending row for every slot; later calls
\* refresh slot_json only.
StoreInit ==
  /\ row = [s \in Slots |-> PendingRow]
  /\ journal = {}

-----------------------------------------------------------------------------
\* Only a pending row is claimed; otherwise the call returns None.
claim_schedule_slot(s, t) ==
  /\ row' = IF row[s].state = "pending" THEN [row EXCEPT ![s] = ActiveRow(t)] ELSE row
  /\ UNCHANGED journal

\* Mutant: the UPDATE forgets its state!='committed'.
ReleaseAnything(s) ==
  /\ row' = [row EXCEPT ![s] = PendingRow]
  /\ UNCHANGED journal

release_schedule_slot_to_pending(s) ==
  /\ row' = IF row[s].state # "committed" THEN [row EXCEPT ![s] = PendingRow] ELSE row
  /\ UNCHANGED journal

\* INSERT ... ON CONFLICT(schedule_idx, attempt, record_type) DO UPDATE.
upsert_slot_commit_record(kind, s, c) ==
  {r \in journal : ~(r.kind = kind /\ r.slot = s /\ r.commit.attempt = c.attempt)}
    \cup {[kind |-> kind, slot |-> s, commit |-> c]}

\* The intent record, written before and outside the commit transaction.
append_slot_commit_record(s, c) ==
  /\ journal' = upsert_slot_commit_record("intent", s, c)
  /\ UNCHANGED row

\* A row that is active for another trial refuses the commit.
OwnerMatches(s, c) == row[s].state = "active" => row[s].trial = c.trial

\* A committed row accepts only the commit it already has.
NotCommittedOtherwise(s, c) == row[s].state = "committed" => row[s].commit = c

CommitAccepted(s, c) == OwnerMatches(s, c) /\ NotCommittedOtherwise(s, c)

\* The facts, the commit record and the row in one transaction; an error rolls
\* all of it back and is a step that changes nothing here.
commit_schedule_slot_transaction(s, c) ==
  /\ CommitAccepted(s, c)
  /\ row' = [row EXCEPT ![s] = CommittedRow(c)]
  /\ journal' = upsert_slot_commit_record("commit", s, c)

\* Mutant: the intent is taken for the commit record.
FirstRecordOfSlot(records, s) ==
  LET own == {r \in records : r.slot = s}
  IN  IF own = {} THEN NoCommit
      ELSE (CHOOSE r \in own : \A q \in own : q.commit.attempt <= r.commit.attempt).commit

\* Records are loaded in the order of their attempts, so the last commit record
\* of a slot wins.
commit_record_by_schedule(records, s) ==
  LET own == {r \in records : r.slot = s /\ r.kind = "commit"}
  IN  IF own = {} THEN NoCommit
      ELSE (CHOOSE r \in own : \A q \in own : q.commit.attempt <= r.commit.attempt).commit

\* recover_run forces the row of every commit record it loaded; there is no
\* check against a different earlier commit.
mark_schedule_slot_committed(s, c) ==
  /\ OwnerMatches(s, c)
  /\ row' = [row EXCEPT ![s] = CommittedRow(c)]
  /\ UNCHANGED journal

-----------------------------------------------------------------------------
StoreNext ==
  \E s \in Slots :
    \/ \E t \in Trials : claim_schedule_slot(s, t)
    \/ release_schedule_slot_to_pending(s)
    \/ \E c \in Commits : append_slot_commit_record(s, c)
    \/ \E c \in Commits : commit_schedule_slot_transaction(s, c)
    \/ /\ commit_record_by_schedule(journal, s) # NoCommit
       /\ mark_schedule_slot_committed(s, commit_record_by_schedule(journal, s))

StoreSpec == StoreInit /\ [][StoreNext]_storeVars

-----------------------------------------------------------------------------
\* A slot's row is committed exactly when the journal holds a commit record for
\* it, there is only one, and both name the same commit: the check recover_run
\* makes slot by slot finds no divergence between the two tables.
JournalMatchesRows ==
  \A s \in Slots :
    {r \in journal : r.slot = s /\ r.kind = "commit"} =
      IF row[s].state = "committed"
      THEN {[kind |-> "commit", slot |-> s, commit |-> row[s].commit]}
      ELSE {}

\* Once committed a row never changes again: not by a release, a late claim, a
\* second engine's commit, nor recovery's mark_schedule_slot_committed.
RowIsFinal ==
  \A s \in Slots : row[s].state = "committed" => row'[s] = row[s]

CommittedIsFinal == [][RowIsFinal]_storeVars

\* A row that is active for a trial is committed only by that trial: the result
\* of a lost worker cannot conclude a slot that has been claimed anew.
ByItsOwner ==
  \A s \in Slots : row[s].state = "active" /\ row'[s].state = "committed"
                     => row'[s].trial = row[s].trial

CommittedByOwner == [][ByItsOwner]_storeVars

Ledger == INSTANCE RunLedger
            WITH ledger <- [s \in Slots |-> commit_record_by_schedule(journal, s)]

\* The journal, read the way the analysis and recovery read it, implements the
\* ledger: each slot is concluded once and its conclusion stays.
ImplementsLedger == Ledger!Spec
=============================================================================
