------------------------ MODULE ScheduleEngineProofs ------------------------
(***************************************************************************)
(* Proofs about a run, and about the two parts that it composes: the slot  *)
(* store, for any schedule, any number of trials and attempts, and callers *)
(* in any order; the statements of any number of connections, on either    *)
(* database, which implement it; and the pull scheduler, for any schedule, *)
(* any number of workers and variants, and any limit per variant.          *)
(*                                                                         *)
(* Of a whole run: engine, workers, recovery and continuation use the      *)
(* store and the broker only through the steps that SlotStore and          *)
(* SlotBroker allow, whatever crashes in between; a durable result is kept *)
(* until it is committed, a slot is skipped only for the failures its      *)
(* variant really has, no commit is refused, and a run that reports        *)
(* completed has no slot left to start.                                    *)
(***************************************************************************)
EXTENDS ScheduleEngine, StoreTransactions, SlotBroker, FiniteSetTheorems,
        WellFoundedInduction, TLAPS

-----------------------------------------------------------------------------
(* The slot store. *)

\* A row carries a commit exactly when it is committed, with that trial.
RowShape ==
  \A s \in Slots : /\ row[s].state = "committed" => row[s] = CommittedRow(row[s].commit)
                                                    /\ row[s].commit \in Commits
                   /\ row[s].state # "committed" => row[s].commit = NoCommit

StoreInv == StoreTypeOK /\ RowShape /\ JournalMatchesRows

\* Attempts start at 1, so no commit is NoCommit.
LEMMA NoCommitIsNoCommit ==
  /\ NoCommit \notin Commits
  /\ \A c \in Commits : /\ c.attempt \in Nat
                        /\ c.trial \in Trials \cup {NoTrial}
  BY AttemptsAssumption DEF Commits, NoCommit, Attempts

\* The rows the operations write are rows.
LEMMA RowTypes ==
  /\ PendingRow \in Rows
  /\ \A t \in Trials : ActiveRow(t) \in Rows
  /\ \A c \in Commits : CommittedRow(c) \in Rows
  BY NoCommitIsNoCommit DEF PendingRow, ActiveRow, CommittedRow, Rows

\* What the constructors of rows hold.
LEMMA RowFields ==
  /\ PendingRow.state = "pending" /\ PendingRow.commit = NoCommit
  /\ \A t : ActiveRow(t).state = "active" /\ ActiveRow(t).commit = NoCommit /\ ActiveRow(t).trial = t
  /\ \A c : /\ CommittedRow(c).state = "committed"
            /\ CommittedRow(c).commit = c
            /\ CommittedRow(c).trial = c.trial
  BY DEF PendingRow, ActiveRow, CommittedRow

\* While the tables agree, the journal read by slot is the row's commit.
LEMMA JournalReadsRow ==
  ASSUME StoreInv, NEW s \in Slots
  PROVE  commit_record_by_schedule(journal, s) = row[s].commit
  <1> DEFINE own == {r \in journal : r.slot = s /\ r.kind = "commit"}
             rec == [kind |-> "commit", slot |-> s, commit |-> row[s].commit]
  <1>1. CASE row[s].state = "committed"
    <2>1. own = {rec}
      BY <1>1 DEF StoreInv, JournalMatchesRows
    <2>2. row[s].commit.attempt \in Nat
      BY <1>1, NoCommitIsNoCommit DEF StoreInv, RowShape
    <2>3. \A r \in own : r = rec
      BY <2>1
    <2>4. rec \in own /\ \A q \in own : q.commit.attempt <= rec.commit.attempt
      BY <2>1, <2>2
    <2> HIDE DEF own, rec
    <2>5. (CHOOSE r \in own : \A q \in own : q.commit.attempt <= r.commit.attempt) = rec
      BY <2>3, <2>4
    <2>6. rec.commit = row[s].commit
      BY DEF rec
    <2> QED
      BY <2>4, <2>5, <2>6 DEF commit_record_by_schedule, own
  <1>2. CASE row[s].state # "committed"
    <2>1. own = {}
      BY <1>2 DEF StoreInv, JournalMatchesRows
    <2> QED
      BY <1>2, <2>1 DEF commit_record_by_schedule, StoreInv, RowShape
  <1> QED
    BY <1>1, <1>2

\* The tables are empty and pending at first.
LEMMA StoreInitInv == StoreInit => StoreInv
  BY RowTypes, RowFields
  DEF StoreInit, StoreInv, StoreTypeOK, RowShape, JournalMatchesRows

\* An accepted commit is either new or the one already there.
LEMMA CommitPreserves ==
  ASSUME StoreInv, NEW s \in Slots, NEW c \in Commits,
         commit_schedule_slot_transaction(s, c)
  PROVE  StoreInv' /\ RowIsFinal /\ ByItsOwner
  <1> DEFINE new == [kind |-> "commit", slot |-> s, commit |-> c]
  <1> USE RowTypes, RowFields DEF StoreInv
  <1>1. StoreTypeOK'
    BY DEF StoreTypeOK, commit_schedule_slot_transaction, upsert_slot_commit_record, Records
  <1>2. row' = [row EXCEPT ![s] = CommittedRow(c)] /\ row \in [Slots -> Rows]
    BY DEF commit_schedule_slot_transaction, StoreTypeOK
  <1>3. RowShape' /\ RowIsFinal /\ ByItsOwner
    BY <1>2 DEF RowShape, RowIsFinal, ByItsOwner, commit_schedule_slot_transaction,
                CommitAccepted, OwnerMatches, NotCommittedOtherwise
  <1>4. ASSUME NEW u \in Slots
        PROVE  {r \in journal' : r.slot = u /\ r.kind = "commit"} =
                 IF row'[u].state = "committed"
                 THEN {[kind |-> "commit", slot |-> u, commit |-> row'[u].commit]} ELSE {}
    <2>1. CASE u = s
      \* Any commit record of s already there is c's own, and is replaced by it.
      <3>1. \A r \in journal : r.slot = s /\ r.kind = "commit" => r = new
        BY DEF JournalMatchesRows, commit_schedule_slot_transaction, CommitAccepted,
               NotCommittedOtherwise
      <3>2. \A r \in journal' : r.slot = s /\ r.kind = "commit" => r = new
        BY <3>1 DEF commit_schedule_slot_transaction, upsert_slot_commit_record
      <3>3. new \in journal'
        BY DEF commit_schedule_slot_transaction, upsert_slot_commit_record
      <3> QED
        BY <1>2, <2>1, <3>2, <3>3
    <2>2. CASE u # s
      <3>1. \A r : r.slot = u => (r \in journal' <=> r \in journal)
        BY <2>2 DEF commit_schedule_slot_transaction, upsert_slot_commit_record
      <3>2. row'[u] = row[u]
        BY <1>2, <2>2
      <3> QED
        BY <3>1, <3>2 DEF JournalMatchesRows
    <2> QED
      BY <2>1, <2>2
  <1> QED
    BY <1>1, <1>3, <1>4 DEF JournalMatchesRows

\* Intents never touch a commit record.
LEMMA IntentPreserves ==
  ASSUME StoreInv, NEW s \in Slots, NEW c \in Commits, append_slot_commit_record(s, c)
  PROVE  StoreInv' /\ RowIsFinal /\ ByItsOwner
  <1> USE DEF StoreInv
  <1>1. row' = row
    BY DEF append_slot_commit_record
  <1>2. StoreTypeOK'
    BY DEF StoreTypeOK, append_slot_commit_record, upsert_slot_commit_record, Records
  <1>3. \A r : r.kind = "commit" => (r \in journal' <=> r \in journal)
    BY DEF append_slot_commit_record, upsert_slot_commit_record
  <1> QED
    BY <1>1, <1>2, <1>3 DEF RowShape, JournalMatchesRows, RowIsFinal, ByItsOwner

\* A claim or a release changes one row that is not committed, to one that is
\* not committed either.
LEMMA OpenRowPreserves ==
  ASSUME StoreInv, NEW s \in Slots, NEW new \in Rows,
         new.state # "committed", new.commit = NoCommit, row[s].state # "committed",
         row' = [row EXCEPT ![s] = new], journal' = journal
  PROVE  StoreInv' /\ RowIsFinal /\ ByItsOwner
  <1> USE DEF StoreInv
  <1>1. StoreTypeOK'
    BY DEF StoreTypeOK
  <1>2. \A u \in Slots : row'[u] = IF u = s THEN new ELSE row[u]
    BY DEF StoreTypeOK
  <1> QED
    BY <1>1, <1>2 DEF RowShape, JournalMatchesRows, RowIsFinal, ByItsOwner

\* A step that leaves both tables alone.
LEMMA StorePreservesUnchanged ==
  ASSUME StoreInv, row' = row, journal' = journal
  PROVE  StoreInv' /\ RowIsFinal /\ ByItsOwner
  BY DEF StoreInv, StoreTypeOK, RowShape, JournalMatchesRows, RowIsFinal, ByItsOwner

\* Every operation keeps the invariant, the committed rows and the owners.
LEMMA StoreStep == StoreInv /\ [StoreNext]_storeVars => StoreInv' /\ RowIsFinal /\ ByItsOwner
  <1> SUFFICES ASSUME StoreInv, [StoreNext]_storeVars
               PROVE  StoreInv' /\ RowIsFinal /\ ByItsOwner
    OBVIOUS
  <1>1. ASSUME NEW s \in Slots, NEW t \in Trials, claim_schedule_slot(s, t)
        PROVE  StoreInv' /\ RowIsFinal /\ ByItsOwner
    BY <1>1, OpenRowPreserves, StorePreservesUnchanged, RowTypes, RowFields
    DEF claim_schedule_slot
  <1>2. ASSUME NEW s \in Slots, release_schedule_slot_to_pending(s)
        PROVE  StoreInv' /\ RowIsFinal /\ ByItsOwner
    BY <1>2, OpenRowPreserves, StorePreservesUnchanged, RowTypes, RowFields
    DEF release_schedule_slot_to_pending
  <1>3. ASSUME NEW s \in Slots, commit_record_by_schedule(journal, s) # NoCommit,
               mark_schedule_slot_committed(s, commit_record_by_schedule(journal, s))
        PROVE  StoreInv' /\ RowIsFinal /\ ByItsOwner
    \* The journal's commit is the row's own: marking it again changes nothing.
    <2>1. row[s].state = "committed"
      BY <1>3, JournalReadsRow DEF StoreInv, RowShape
    <2>2. row[s] = CommittedRow(commit_record_by_schedule(journal, s))
      BY <2>1, JournalReadsRow DEF StoreInv, RowShape
    <2>3. row' = row /\ journal' = journal
      BY <1>3, <2>2 DEF mark_schedule_slot_committed, StoreInv, StoreTypeOK
    <2> QED
      BY <2>3, StorePreservesUnchanged
  <1>4. CASE UNCHANGED storeVars
    BY <1>4, StorePreservesUnchanged DEF storeVars
  <1> QED
    BY <1>1, <1>2, <1>3, <1>4, IntentPreserves, CommitPreserves DEF StoreNext

\* The inductive invariant holds throughout.
LEMMA StoreInvariance == StoreSpec => []StoreInv
  <1>1. StoreInv /\ [StoreNext]_storeVars => StoreInv'
    BY StoreStep
  <1> QED
    BY <1>1, StoreInitInv, PTL DEF StoreSpec

\* The rows and the journal keep their types (StoreTypeOK).
THEOREM StoreTypeCorrect == StoreSpec => []StoreTypeOK
  <1>1. StoreInv => StoreTypeOK
    BY DEF StoreInv
  <1> QED
    BY <1>1, StoreInvariance, PTL

\* For any schedule and any interleaving of engines and recoveries, the rows
\* and the commit journal agree slot by slot.
THEOREM TablesAgree == StoreSpec => []JournalMatchesRows
  <1>1. StoreInv => JournalMatchesRows
    BY DEF StoreInv
  <1> QED
    BY <1>1, StoreInvariance, PTL

\* No operation changes a committed row.
THEOREM CommitsAreFinal == StoreSpec => CommittedIsFinal
  <1>1. StoreInv /\ [StoreNext]_storeVars => [RowIsFinal]_storeVars
    BY StoreStep
  <1> QED
    BY <1>1, StoreInvariance, PTL DEF StoreSpec, CommittedIsFinal

\* An active row is committed by the trial that owns it.
THEOREM CommitsAreOwned == StoreSpec => CommittedByOwner
  <1>1. StoreInv /\ [StoreNext]_storeVars => [ByItsOwner]_storeVars
    BY StoreStep
  <1> QED
    BY <1>1, StoreInvariance, PTL DEF StoreSpec, CommittedByOwner
\* The commit of each slot, as the journal shows it.
Shown == [s \in Slots |-> commit_record_by_schedule(journal, s)]

\* While the tables agree, the mapped ledger is the rows' commits.
LEMMA ShownIsRowCommits == StoreInv => Shown = [s \in Slots |-> row[s].commit]
  BY JournalReadsRow DEF Shown

\* So it is in the next state.
LEMMA ShownIsRowCommitsNext == StoreInv' => Shown' = [s \in Slots |-> row'[s].commit]
  <1>1. (StoreInv => Shown = [s \in Slots |-> row[s].commit])'
    BY ShownIsRowCommits, PTL
  <1> QED
    BY <1>1

\* The instance sees the same slots and commits.
LEMMA LedgerConstants ==
  Ledger!Slots = Slots /\ Ledger!Commits = Commits /\ Ledger!NoCommit = NoCommit
  BY DEF Ledger!Slots, Ledger!Commits, Ledger!NoCommit, Ledger!Attempts, Ledger!Trials,
         Ledger!NoTrial, Slots, Commits, NoCommit, Attempts, Trials, NoTrial

\* Each store step concludes one open slot of the ledger or leaves it as it is.
LEMMA LedgerStep ==
  ASSUME StoreInv, StoreInv', [StoreNext]_storeVars
  PROVE  Ledger!Next \/ Shown' = Shown
  <1>1. Shown = [s \in Slots |-> row[s].commit]
    BY ShownIsRowCommits
  <1>2. Shown' = [s \in Slots |-> row'[s].commit]
    BY ShownIsRowCommitsNext
  <1> USE RowFields DEF StoreInv, StoreTypeOK
  <1>3. ASSUME NEW s \in Slots, NEW c \in Commits, commit_schedule_slot_transaction(s, c),
               row[s].state # "committed"
        PROVE  Ledger!Next
    <2>1. Shown[s] = NoCommit /\ Shown' = [Shown EXCEPT ![s] = c]
      BY <1>1, <1>2, <1>3 DEF commit_schedule_slot_transaction, RowShape
    <2>2. Ledger!Conclude(s, c)
      BY <2>1, LedgerConstants DEF Ledger!Conclude, Shown
    <2> QED
      BY <2>2, LedgerConstants DEF Ledger!Next
  <1>4. ASSUME \A s \in Slots : row[s].state = "committed" \/ row'[s].commit = NoCommit
        PROVE  Shown' = Shown
    <2>1. \A s \in Slots : row'[s].commit = row[s].commit
      BY <1>4, StoreStep DEF RowIsFinal, RowShape
    <2> QED
      BY <1>1, <1>2, <2>1
  <1>5. ASSUME NEW s \in Slots,
               \/ \E t \in Trials : claim_schedule_slot(s, t)
               \/ release_schedule_slot_to_pending(s)
        PROVE  Shown' = Shown
    BY <1>4, <1>5 DEF claim_schedule_slot, release_schedule_slot_to_pending, RowShape
  <1>6. ASSUME row' = row
        PROVE  Shown' = Shown
    BY <1>1, <1>2, <1>6
  <1>7. ASSUME NEW s \in Slots, NEW c \in Commits, row[s].state = "committed",
               \/ commit_schedule_slot_transaction(s, c)
               \/ mark_schedule_slot_committed(s, c)
        PROVE  Shown' = Shown
    <2>1. row'[s] = row[s]
      BY <1>7, StoreStep DEF RowIsFinal
    <2>2. row' = row
      BY <1>7, <2>1 DEF commit_schedule_slot_transaction, mark_schedule_slot_committed
    <2> QED
      BY <1>6, <2>2
  <1>8. ASSUME NEW s \in Slots, commit_record_by_schedule(journal, s) # NoCommit
        PROVE  row[s].state = "committed" /\ commit_record_by_schedule(journal, s) \in Commits
    BY <1>8, JournalReadsRow DEF RowShape
  <1>9. CASE UNCHANGED storeVars
    BY <1>6, <1>9 DEF storeVars
  <1> QED
    BY <1>3, <1>5, <1>6, <1>7, <1>8, <1>9 DEF StoreNext, append_slot_commit_record

\* The slot store implements the ledger: each slot's conclusion, as the journal
\* shows it, is written once and stays.
THEOREM StoreImplementsLedger == StoreSpec => ImplementsLedger
  <1>1. StoreInit => Ledger!Init
    BY LedgerConstants DEF StoreInit, Ledger!Init, commit_record_by_schedule
  <1>2. StoreInv /\ StoreInv' /\ [StoreNext]_storeVars => [Ledger!Next]_Shown
    BY LedgerStep
  <1>3. StoreInv /\ StoreInv' /\ [StoreNext]_storeVars
          => [Ledger!Next]_([s \in Slots |-> commit_record_by_schedule(journal, s)])
    BY <1>2 DEF Shown
  <1> QED
    BY <1>1, <1>3, StoreInvariance, PTL DEF StoreSpec, ImplementsLedger, Ledger!Spec

-----------------------------------------------------------------------------
(* The statements of the store. *)

\* What a connection can be in the middle of.
ConnTypeOK ==
  /\ DOMAIN conn = Conns
  /\ \A k \in Conns :
       \/ conn[k] = Idle
       \/ \E s \in Slots, t \in Trials, go \in BOOLEAN : conn[k] = Claiming(s, t, go)
       \/ \E s \in Slots, c \in Commits, go \in BOOLEAN : conn[k] = Committing(s, c, go)
       \/ \E s \in Slots, c \in Commits : conn[k] = Loaded(s, c) \/ conn[k] = Marking(s, c)

\* No two transactions are open on one slot.
LocksAreExclusive ==
  \A j, k \in Conns :
    InTransaction(j) /\ InTransaction(k) /\ j # k => conn[j].slot # conn[k].slot

\* The two checks of a commit on the row it has locked.
Accepts(r, c) ==
  /\ r.state = "active" => r.trial = c.trial
  /\ r.state = "committed" => r.commit = c

\* What a transaction found when it read the row is still so.
ChecksHold ==
  \A k \in Conns :
    conn[k].go => /\ conn[k].op = "claim" => row[conn[k].slot].state = "pending"
                  /\ conn[k].op = "commit" => Accepts(row[conn[k].slot], conn[k].commit)

\* A commit record that was loaded is the commit of its row.
LoadedIsDone ==
  \A k \in Conns :
    conn[k].op \in {"loaded", "mark"} => row[conn[k].slot] = CommittedRow(conn[k].commit)

TxInv == StoreInv /\ ConnTypeOK /\ LocksAreExclusive /\ ChecksHold /\ LoadedIsDone

\* The fields of what a connection is in the middle of.
LEMMA ConnFields ==
  /\ Idle.op = "idle" /\ Idle.go = FALSE
  /\ \A s, t, go : LET n == Claiming(s, t, go) IN
       n.op = "claim" /\ n.slot = s /\ n.trial = t /\ n.go = go
  /\ \A s, c, go : LET n == Committing(s, c, go) IN
       n.op = "commit" /\ n.slot = s /\ n.commit = c /\ n.go = go
  /\ \A s, c : LET n == Loaded(s, c) IN
       n.op = "loaded" /\ n.slot = s /\ n.commit = c /\ n.go = FALSE
  /\ \A s, c : LET n == Marking(s, c) IN
       n.op = "mark" /\ n.slot = s /\ n.commit = c /\ n.go = FALSE
  BY DEF Idle, Claiming, Committing, Loaded, Marking, Doing

\* A connection at work is at work on a slot, for a trial or with a commit.
LEMMA ConnTypes ==
  ASSUME ConnTypeOK, NEW k \in Conns
  PROVE  /\ conn[k].op \in {"claim", "commit", "loaded", "mark"} => conn[k].slot \in Slots
         /\ conn[k].op = "claim" => conn[k].trial \in Trials
         /\ conn[k].op \in {"commit", "loaded", "mark"} => conn[k].commit \in Commits
  BY ConnFields DEF ConnTypeOK

\* All connections are idle at first.
LEMMA TxInitInv == TxInit => TxInv
  BY StoreInitInv, ConnFields
  DEF TxInit, TxInv, ConnTypeOK, LocksAreExclusive, ChecksHold, LoadedIsDone, InTransaction

\* Each statement is one operation of SlotStore on the tables, or none.
LEMMA TxStepIsStoreStep ==
  ASSUME TxInv, [TxNext]_txVars
  PROVE  [StoreNext]_storeVars
  <1> USE DEF TxInv
  <1>1. ASSUME NEW k \in Conns, ClaimCommit(k)
        PROVE  [StoreNext]_storeVars
    BY <1>1, ConnTypes DEF ClaimCommit, StoreNext
  <1>2. ASSUME NEW k \in Conns, CommitWrite(k)
        PROVE  [StoreNext]_storeVars
    <2>1. commit_schedule_slot_transaction(conn[k].slot, conn[k].commit)
      BY <1>2 DEF CommitWrite, ChecksHold, commit_schedule_slot_transaction, CommitAccepted,
                  OwnerMatches, NotCommittedOtherwise, Accepts
    <2>2. conn[k].slot \in Slots /\ conn[k].commit \in Commits
      BY <1>2, ConnTypes DEF CommitWrite
    <2> QED
      BY <2>1, <2>2 DEF StoreNext
  <1>3. ASSUME NEW k \in Conns, MarkUpdate(k)
        PROVE  [StoreNext]_storeVars
    \* The row is already what is written.
    <2>1. row[conn[k].slot] = CommittedRow(conn[k].commit)
      BY <1>3 DEF MarkUpdate, LoadedIsDone
    <2>2. row' = row /\ journal' = journal
      BY <1>3, <2>1 DEF MarkUpdate, StoreInv, StoreTypeOK
    <2> QED
      BY <2>2 DEF storeVars
  <1>4. ASSUME NEW s \in Slots, Release(s)
        PROVE  [StoreNext]_storeVars
    BY <1>4 DEF Release, StoreNext
  <1>5. ASSUME NEW s \in Slots, NEW c \in Commits, AppendIntent(s, c)
        PROVE  [StoreNext]_storeVars
    BY <1>5 DEF AppendIntent, StoreNext
  <1>6. ASSUME UNCHANGED storeVars
        PROVE  [StoreNext]_storeVars
    BY <1>6
  <1> QED
    BY <1>1, <1>2, <1>3, <1>4, <1>5, <1>6
    DEF TxNext, txVars, storeVars, ClaimSelect, CommitSelect, LoadRecord, Rollback, MarkSelect

\* A connection that moves to a new state, while nobody else's slot changes under
\* its lock, keeps the invariant on connections.
LEMMA ConnStep ==
  ASSUME TxInv, NEW k \in Conns, NEW new, To(k, new), ConnTypeOK',
         RowIsFinal, StoreInv',
         \A j \in Conns : j # k /\ InTransaction(j) => row'[conn[j].slot] = row[conn[j].slot],
         new.op \in {"claim", "commit"} =>
           \A j \in Conns : j # k /\ InTransaction(j) => conn[j].slot # new.slot,
         new.go /\ new.op = "claim" => row'[new.slot].state = "pending",
         new.go /\ new.op = "commit" => Accepts(row'[new.slot], new.commit),
         new.op \in {"loaded", "mark"} => row'[new.slot] = CommittedRow(new.commit)
  PROVE  TxInv'
  <1> USE DEF TxInv
  <1>1. \A j \in Conns : conn'[j] = IF j = k THEN new ELSE conn[j]
    BY DEF To, ConnTypeOK
  <1>2. LocksAreExclusive'
    BY <1>1 DEF LocksAreExclusive, InTransaction
  <1>3. ChecksHold'
    <2> SUFFICES ASSUME NEW j \in Conns, conn'[j].go
                 PROVE  /\ conn'[j].op = "claim" => row'[conn'[j].slot].state = "pending"
                        /\ conn'[j].op = "commit" => Accepts(row'[conn'[j].slot], conn'[j].commit)
      BY DEF ChecksHold
    <2>1. CASE j = k
      BY <1>1, <2>1
    <2>2. CASE j # k
      <3>1. conn'[j] = conn[j]
        BY <1>1, <2>2
      <3>2. InTransaction(j) => row'[conn[j].slot] = row[conn[j].slot]
        BY <2>2
      <3> QED
        BY <3>1, <3>2 DEF ChecksHold, InTransaction
    <2> QED
      BY <2>1, <2>2
  <1>4. LoadedIsDone'
    <2> SUFFICES ASSUME NEW j \in Conns, conn'[j].op \in {"loaded", "mark"}
                 PROVE  row'[conn'[j].slot] = CommittedRow(conn'[j].commit)
      BY DEF LoadedIsDone
    <2>1. CASE j = k
      BY <1>1, <2>1
    <2>2. CASE j # k
      BY <1>1, <2>2, ConnTypes, RowFields DEF LoadedIsDone, RowIsFinal
    <2> QED
      BY <2>1, <2>2
  <1> QED
    BY <1>2, <1>3, <1>4

\* The connections' invariant is kept by every statement.
LEMMA TxStep == TxInv /\ [TxNext]_txVars => TxInv'
  <1> SUFFICES ASSUME TxInv, [TxNext]_txVars
               PROVE  TxInv'
    OBVIOUS
  <1>1. StoreInv' /\ RowIsFinal
    BY TxStepIsStoreStep, StoreStep DEF TxInv
  <1>2. ASSUME NEW s \in Slots, RowIsFree(s), NEW j \in Conns, InTransaction(j)
        PROVE  conn[j].slot # s
    BY <1>2 DEF RowIsFree
  <1>3. ASSUME NEW k \in Conns, NEW s \in Slots, NEW t \in Trials, ClaimSelect(k, s, t)
        PROVE  TxInv'
    <2> PICK new : new = Claiming(s, t, row[s].state = "pending")
      OBVIOUS
    <2>1. To(k, new) /\ row' = row /\ RowIsFree(s)
      BY <1>3 DEF ClaimSelect, storeVars
    <2>2. (row[s].state = "pending") \in BOOLEAN
      OBVIOUS
    <2>3. ConnTypeOK'
      BY <2>1, <2>2 DEF TxInv, ConnTypeOK, To
    <2>4. new.op = "claim" /\ new.slot = s /\ new.go = (row[s].state = "pending")
      BY ConnFields
    <2> QED
      BY <1>1, <1>2, <2>1, <2>3, <2>4, ConnStep
  <1>4. ASSUME NEW k \in Conns, NEW s \in Slots, NEW c \in Commits, CommitSelect(k, s, c)
        PROVE  TxInv'
    <2> PICK new : new = Committing(s, c, CommitAccepted(s, c))
      OBVIOUS
    <2>1. To(k, new) /\ row' = row /\ RowIsFree(s)
      BY <1>4 DEF CommitSelect, storeVars
    <2>2. CommitAccepted(s, c) \in BOOLEAN
      BY DEF CommitAccepted, OwnerMatches, NotCommittedOtherwise
    <2>3. ConnTypeOK'
      BY <2>1, <2>2 DEF TxInv, ConnTypeOK, To
    <2>4. new.op = "commit" /\ new.slot = s /\ new.commit = c /\ new.go = CommitAccepted(s, c)
      BY ConnFields
    <2>5. new.go => Accepts(row'[new.slot], new.commit)
      BY <2>1, <2>4 DEF Accepts, CommitAccepted, OwnerMatches, NotCommittedOtherwise
    <2> QED
      BY <1>1, <1>2, <2>1, <2>3, <2>4, <2>5, ConnStep
  <1>5. ASSUME NEW k \in Conns, ClaimCommit(k) \/ CommitWrite(k) \/ Rollback(k) \/ MarkUpdate(k)
        PROVE  TxInv'
    <2>1. To(k, Idle)
      BY <1>5 DEF ClaimCommit, CommitWrite, Rollback, MarkUpdate
    <2>2. ConnTypeOK'
      BY <2>1 DEF TxInv, ConnTypeOK, To
    <2>3. ASSUME NEW j \in Conns, j # k, InTransaction(j)
          PROVE  row'[conn[j].slot] = row[conn[j].slot]
      <3>1. conn[j].slot \in Slots
        BY <2>3, ConnTypes DEF InTransaction, TxInv
      <3>2. row \in [Slots -> Rows]
        BY DEF TxInv, StoreInv, StoreTypeOK
      <3>3. CASE InTransaction(k)
        <4>1. conn[j].slot # conn[k].slot
          BY <2>3, <3>3 DEF TxInv, LocksAreExclusive
        <4> QED
          BY <1>5, <3>1, <3>2, <3>3, <4>1
          DEF ClaimCommit, CommitWrite, Rollback, MarkUpdate, InTransaction, storeVars,
              claim_schedule_slot
      <3>4. CASE ~InTransaction(k)
        <4>1. MarkUpdate(k)
          BY <1>5, <3>4 DEF ClaimCommit, CommitWrite, Rollback, InTransaction
        <4>2. conn[j].slot # conn[k].slot
          BY <4>1, <2>3 DEF MarkUpdate, RowIsFree
        <4> QED
          BY <4>1, <4>2, <3>1, <3>2 DEF MarkUpdate
      <3> QED
        BY <3>3, <3>4
    <2> QED
      BY <1>1, <2>1, <2>2, <2>3, ConnFields, ConnStep
  <1>6. ASSUME NEW k \in Conns, NEW s \in Slots, LoadRecord(k, s)
        PROVE  TxInv'
    <2> PICK c : c = commit_record_by_schedule(journal, s)
      OBVIOUS
    <2>1. To(k, Loaded(s, c)) /\ row' = row /\ c # NoCommit
      BY <1>6 DEF LoadRecord, storeVars
    <2>2. c = row[s].commit
      BY JournalReadsRow DEF TxInv
    <2>3. row[s] = CommittedRow(c) /\ c \in Commits
      BY <2>1, <2>2 DEF TxInv, StoreInv, RowShape
    <2>4. ConnTypeOK'
      BY <2>1, <2>3 DEF TxInv, ConnTypeOK, To
    <2> QED
      BY <1>1, <2>1, <2>3, <2>4, ConnFields, ConnStep
  <1>7. ASSUME NEW k \in Conns, MarkSelect(k)
        PROVE  TxInv'
    <2> PICK s, c : s = conn[k].slot /\ c = conn[k].commit
      OBVIOUS
    <2>1. s \in Slots /\ c \in Commits /\ row[s] = CommittedRow(c) /\ row' = row
      BY <1>7, ConnTypes DEF MarkSelect, TxInv, LoadedIsDone, storeVars
    <2>2. To(k, Marking(s, c)) \/ To(k, Idle)
      BY <1>7 DEF MarkSelect
    <2>3. ConnTypeOK'
      BY <2>1, <2>2 DEF TxInv, ConnTypeOK, To
    <2> QED
      BY <1>1, <2>1, <2>2, <2>3, ConnFields, ConnStep
  <1>8. ASSUME conn' = conn,
               \A j \in Conns : InTransaction(j) => row'[conn[j].slot] = row[conn[j].slot]
        PROVE  TxInv'
    <2>1. ConnTypeOK' /\ LocksAreExclusive'
      BY <1>8 DEF TxInv, ConnTypeOK, LocksAreExclusive, InTransaction
    <2>2. ChecksHold'
      BY <1>8 DEF TxInv, ChecksHold, InTransaction
    <2>3. LoadedIsDone'
      BY <1>1, <1>8, ConnTypes, RowFields DEF TxInv, LoadedIsDone, RowIsFinal
    <2> QED
      BY <1>1, <2>1, <2>2, <2>3 DEF TxInv
  <1>9. ASSUME NEW s \in Slots, Release(s)
        PROVE  TxInv'
    <2>1. \A u \in Slots : u # s => row'[u] = row[u]
      BY <1>9 DEF Release, release_schedule_slot_to_pending, TxInv, StoreInv, StoreTypeOK
    <2>2. ASSUME NEW j \in Conns, InTransaction(j)
          PROVE  row'[conn[j].slot] = row[conn[j].slot]
      <3>1. conn[j].slot \in Slots
        BY <2>2, ConnTypes DEF InTransaction, TxInv
      <3> QED
        BY <1>2, <1>9, <2>1, <2>2, <3>1 DEF Release
    <2> QED
      BY <1>8, <1>9, <2>2 DEF Release
  <1>10. ASSUME NEW s \in Slots, NEW c \in Commits, AppendIntent(s, c)
         PROVE  TxInv'
    BY <1>8, <1>10 DEF AppendIntent, append_slot_commit_record
  <1>11. CASE UNCHANGED txVars
    BY <1>8, <1>11 DEF txVars
  <1> QED
    BY <1>3, <1>4, <1>5, <1>6, <1>7, <1>9, <1>10, <1>11 DEF TxNext

\* For any number of connections, slots and trials, SQLite's and Postgres'
\* statements implement the atomic operations, so that every theorem about
\* StoreSpec holds of the tables of either database.
THEOREM TransactionsImplementStore == TxSpec => ImplementsStore
  <1>1. TxInit => StoreInit
    BY DEF TxInit
  <1>2. TxInv /\ [TxNext]_txVars => [StoreNext]_storeVars
    BY TxStepIsStoreStep
  <1> QED
    BY <1>1, <1>2, TxInitInv, TxStep, PTL DEF TxSpec, ImplementsStore, StoreSpec

\* So the journal of either database, written by any number of connections,
\* concludes each slot once (ImplementsLedger).
THEOREM TransactionsImplementLedger == TxSpec => ImplementsLedger
  BY TransactionsImplementStore, StoreImplementsLedger DEF ImplementsStore

-----------------------------------------------------------------------------
(* The pull scheduler. *)

\* Trial ids in flight have been minted, so the next one is fresh.
TrialsMinted == \A d \in in_flight : d.trial <= trial_index

CountsExact == IsFiniteSet(in_flight) /\ VariantCap

\* As long as nothing failed or was stopped, a pending slot has a worker that
\* has not left its loop.
StillWorking ==
  accepting /\ ~faulted /\ SomePending
    => \E w \in Workers : wpc[w] \notin {"exit", "exited"}

Ownership == BrokerTypeOK /\ OwnedOnce /\ TrialsMinted

BrokerInv == Ownership /\ CountsExact /\ SleepsForAReason /\ StillWorking

\* A fresh broker with idle workers.
LEMMA BrokerInitInv == BrokerInit => BrokerInv
  <1> SUFFICES ASSUME NEW states \in [Slots -> {"Pending", "Committed", "BlockedActive"}],
                      NEW P \in SUBSET Variants, BrokerNew(states, P, 0)
               PROVE  BrokerInv
    BY DEF BrokerInit
  <1>1. BrokerTypeOK
    <2>1. slot_states \in [Slots -> SlotStates] /\ wpc \in [Workers -> WorkerStates]
      BY DEF BrokerNew, SlotStates, WorkerStates
    <2>2. work \in [Workers -> [trial : Trials \cup {NoTrial}, slot : Slots \cup {0}]]
      BY DEF BrokerNew, NoWork
    <2>3. in_flight_by_variant \in [Variants -> Nat] /\ trial_index \in 0 .. MaxTrials
      BY TrialsAssumption DEF BrokerNew
    <2>4. accepting \in BOOLEAN /\ faulted \in BOOLEAN
      BY DEF BrokerNew
    <2>5. in_flight \subseteq Dispatches /\ pruned \subseteq Variants
      BY DEF BrokerNew
    <2> QED
      BY <2>1, <2>2, <2>3, <2>4, <2>5 DEF BrokerTypeOK
  <1>2. OwnedOnce /\ TrialsMinted /\ SleepsForAReason /\ StillWorking
    BY WorkersAssumption
    DEF OwnedOnce, TrialsMinted, SleepsForAReason, StillWorking, Busy, BrokerNew
  <1>3. IsFiniteSet(in_flight) /\ \A v \in Variants : InFlightOf(v) = {}
    BY FS_EmptySet DEF BrokerNew, InFlightOf
  <1>4. VariantCap
    BY <1>3, FS_EmptySet, LimitAssumption DEF VariantCap, BrokerNew
  <1> QED
    BY <1>1, <1>2, <1>3, <1>4 DEF BrokerInv, Ownership, CountsExact

\* Where notify_all sends the workers.
LEMMA Notified ==
  ASSUME BrokerTypeOK
  PROVE  /\ notify_all \in [Workers -> WorkerStates]
         /\ \A w \in Workers : notify_all[w] # "wait"
         /\ \A w \in Workers : wpc[w] # "wait" => notify_all[w] = wpc[w]
         /\ \A w \in Workers : wpc[w] = "wait" => notify_all[w] = "claim"
  BY DEF BrokerTypeOK, notify_all, WorkerStates

\* A busy worker holds a slot of the schedule and a minted trial.
LEMMA BusyWork ==
  ASSUME Ownership, NEW w \in Workers, Busy(w)
  PROVE  /\ Dispatch(w) \in in_flight
         /\ work[w].slot \in Slots /\ work[w].trial \in Trials
         /\ variant_idx[work[w].slot] \in Variants
  BY VariantAssumption DEF Ownership, OwnedOnce, BrokerTypeOK, Dispatches, Dispatch, Slots

\* Giving up a slot removes exactly the worker's own dispatch.
LEMMA GivenUp ==
  ASSUME Ownership, NEW w \in Workers, Busy(w), NEW next, NEW to, GiveUpSlot(w, next, to)
  PROVE  in_flight' = in_flight \ {Dispatch(w)}
  <1>1. Dispatch(w) \in in_flight /\ Dispatch(w).trial = work[w].trial
    BY BusyWork DEF Dispatch
  <1>2. \A d \in in_flight : d.trial = Dispatch(w).trial => d = Dispatch(w)
    BY <1>1 DEF Ownership, OwnedOnce
  <1> QED
    BY <1>1, <1>2 DEF GiveUpSlot

\* The steps of a worker that only move its program counter.
Moves(w) ==
  \/ WriteClaimIntent(w) \/ SendClaimed(w) \/ SendCompleted(w)
  \/ SendSkippedPruned(w) \/ SendFatal(w) \/ SendExited(w)
  \/ ClaimNone(w) \/ ClaimWait(w) \/ SpuriousWakeup(w)

\* The steps in which a busy worker gives its slot up.
GivesUp(w) == rollback_claim(w) \/ release_owned_to_pending(w) \/ complete_owned(w)

\* Every step is of one of these kinds.
LEMMA BrokerSteps ==
  BrokerNext <=> \/ \E w \in Workers : ClaimTrial(w) \/ ClaimSkip(w) \/ Moves(w) \/ GivesUp(w)
                 \/ CoordinatorStep
  BY DEF BrokerNext, WorkerStep, Moves, GivesUp

\* Claims keep the ownership discipline: the slot was pending, so nobody had it.
LEMMA ClaimTrialOwnership ==
  ASSUME Ownership, NEW w \in Workers, ClaimTrial(w)
  PROVE  Ownership'
  <1> PICK s \in Slots : /\ wpc[w] = "claim" /\ accepting /\ trial_index < MaxTrials
                         /\ FirstClaimable(s)
                         /\ trial_index' = trial_index + 1
                         /\ slot_states' = [slot_states EXCEPT ![s] = "Active"]
                         /\ in_flight' = in_flight
                              \cup {[trial |-> trial_index + 1, slot |-> s, worker |-> w]}
                         /\ in_flight_by_variant' =
                              [in_flight_by_variant EXCEPT ![variant_idx[s]] = @ + 1]
                         /\ work' = [work EXCEPT ![w] = [trial |-> trial_index + 1, slot |-> s]]
                         /\ wpc' = [wpc EXCEPT ![w] = "claimed"]
                         /\ UNCHANGED <<pruned, accepting, faulted>>
    BY DEF ClaimTrial
  <1> DEFINE d0 == [trial |-> trial_index + 1, slot |-> s, worker |-> w]
  <1> USE DEF Ownership
  <1>1. trial_index \in 0 .. MaxTrials /\ trial_index + 1 \in Trials /\ variant_idx[s] \in Variants
    BY TrialsAssumption, VariantAssumption DEF BrokerTypeOK, Trials, Slots
  <1>2. BrokerTypeOK'
    BY <1>1, TrialsAssumption DEF BrokerTypeOK, Dispatches, SlotStates, WorkerStates, Trials
  <1>3. slot_states[s] = "Pending" /\ \A d \in in_flight : d.slot # s
    BY DEF FirstClaimable, Claimable, OwnedOnce
  <1>4. \A d \in in_flight : d.trial # trial_index + 1 /\ d.worker # w
    BY <1>1 DEF TrialsMinted, OwnedOnce, Busy, BrokerTypeOK, Dispatches, Trials
  <1>5. Dispatch(w)' = d0 /\ Busy(w)'
    BY DEF Dispatch, Busy, BrokerTypeOK
  <1>6. \A u \in Workers : u # w => Dispatch(u)' = Dispatch(u) /\ (Busy(u)' <=> Busy(u))
    BY DEF Dispatch, Busy, BrokerTypeOK
  <1>7. OwnedOnce'
    <2>1. (\A u \in Workers : Busy(u) => Dispatch(u) \in in_flight)'
      BY <1>5, <1>6 DEF OwnedOnce
    <2>2. (\A d \in in_flight : Busy(d.worker) /\ Dispatch(d.worker) = d)'
      BY <1>4, <1>5, <1>6 DEF OwnedOnce, BrokerTypeOK, Dispatches
    <2>3. (\A d, e \in in_flight : d.slot = e.slot \/ d.trial = e.trial => d = e)'
      BY <1>3, <1>4 DEF OwnedOnce
    <2>4. (\A r \in Slots : slot_states[r] = "Active" <=> \E d \in in_flight : d.slot = r)'
      <3>1. \A r \in Slots : slot_states'[r] = IF r = s THEN "Active" ELSE slot_states[r]
        BY DEF BrokerTypeOK
      <3>2. \A r \in Slots : (\E d \in in_flight' : d.slot = r)
                               <=> r = s \/ \E d \in in_flight : d.slot = r
        <4>1. d0 \in in_flight' /\ d0.slot = s
          OBVIOUS
        <4>2. \A d \in in_flight' : d \in in_flight \/ d = d0
          OBVIOUS
        <4>3. in_flight \subseteq in_flight'
          OBVIOUS
        <4> HIDE DEF d0
        <4> QED
          BY <4>1, <4>2, <4>3
      <3> QED
        BY <3>1, <3>2 DEF OwnedOnce
    <2> QED
      BY <2>1, <2>2, <2>3, <2>4 DEF OwnedOnce
  <1>8. TrialsMinted'
    BY <1>1 DEF TrialsMinted, BrokerTypeOK, Dispatches, Trials
  <1> QED
    BY <1>2, <1>7, <1>8

\* A skip takes a pending slot, which nobody had either.
LEMMA ClaimSkipOwnership ==
  ASSUME Ownership, NEW w \in Workers, ClaimSkip(w)
  PROVE  Ownership'
  <1> PICK s \in Slots : /\ wpc[w] = "claim" /\ slot_states[s] = "Pending"
                         /\ slot_states' = [slot_states EXCEPT ![s] = "CompletedPendingCommit"]
                         /\ work' = [work EXCEPT ![w] = [trial |-> NoTrial, slot |-> s]]
                         /\ wpc' = [wpc EXCEPT ![w] = "skip"]
                         /\ UNCHANGED <<in_flight, in_flight_by_variant, pruned, trial_index,
                                        accepting, faulted>>
    BY DEF ClaimSkip, FirstClaimable, Claimable
  <1> USE DEF Ownership
  <1>1. BrokerTypeOK'
    BY DEF BrokerTypeOK, SlotStates, WorkerStates
  <1>2. ~Busy(w) /\ ~Busy(w)' /\ \A d \in in_flight : d.worker # w
    BY DEF Busy, BrokerTypeOK, OwnedOnce
  <1>3. \A u \in Workers : u # w => Dispatch(u)' = Dispatch(u) /\ (Busy(u)' <=> Busy(u))
    BY DEF Dispatch, Busy, BrokerTypeOK
  <1>4. (\A r \in Slots : slot_states[r] = "Active" <=> \E d \in in_flight : d.slot = r)'
    BY DEF OwnedOnce, BrokerTypeOK
  <1>5. OwnedOnce' /\ TrialsMinted'
    BY <1>2, <1>3, <1>4 DEF OwnedOnce, TrialsMinted, BrokerTypeOK, Dispatches
  <1> QED
    BY <1>1, <1>5

\* Moving on keeps a worker busy or idle.
LEMMA MovesFacts ==
  ASSUME BrokerTypeOK, NEW w \in Workers, Moves(w)
  PROVE  /\ UNCHANGED <<slot_states, in_flight, in_flight_by_variant, pruned, trial_index,
                        accepting, work>>
         /\ BrokerTypeOK'
         /\ \A u \in Workers : Dispatch(u)' = Dispatch(u) /\ (Busy(u)' <=> Busy(u))
         /\ \A u \in Workers : u # w => wpc'[u] = wpc[u]
  <1> USE DEF Moves, WriteClaimIntent, SendClaimed, SendCompleted, SendSkippedPruned, SendFatal,
              SendExited, ClaimNone, ClaimWait, SpuriousWakeup, WorkerMoves
  <1>1. UNCHANGED <<slot_states, in_flight, in_flight_by_variant, pruned, trial_index,
                    accepting, work>>
    OBVIOUS
  <1>2. faulted' \in BOOLEAN
    BY DEF BrokerTypeOK
  <1>3. PICK to \in WorkerStates : wpc' = [wpc EXCEPT ![w] = to]
    BY DEF WorkerStates
  <1>4. BrokerTypeOK'
    BY <1>1, <1>2, <1>3 DEF BrokerTypeOK
  <1>5. \A u \in Workers : u # w => wpc'[u] = wpc[u]
    BY <1>3 DEF BrokerTypeOK
  <1>6. Busy(w)' <=> Busy(w)
    BY DEF Busy, BrokerTypeOK
  <1>7. \A u \in Workers : Busy(u)' <=> Busy(u)
    BY <1>5, <1>6 DEF Busy
  <1> QED
    BY <1>1, <1>4, <1>5, <1>7 DEF Dispatch

LEMMA MovesOwnership ==
  ASSUME Ownership, NEW w \in Workers, Moves(w)
  PROVE  Ownership'
  <1>1. BrokerTypeOK'
    BY MovesFacts DEF Ownership
  <1>2. OwnedOnce' /\ TrialsMinted'
    BY MovesFacts DEF Ownership, OwnedOnce, TrialsMinted, BrokerTypeOK, Dispatches
  <1> QED
    BY <1>1, <1>2 DEF Ownership

\* A worker that gives its slot up was busy with it and is not any more.
LEMMA GivesUpFacts ==
  ASSUME Ownership, NEW w \in Workers, GivesUp(w)
  PROVE  /\ Busy(w)
         /\ faulted' = faulted
         /\ \E next \in {"Pending", "CompletedPendingCommit"}, to \in {"fatal", "report"} :
              GiveUpSlot(w, next, to) /\ (next = "Pending" => to = "fatal")
  BY DEF GivesUp, rollback_claim, release_owned_to_pending, complete_owned, Busy

LEMMA GivesUpOwnership ==
  ASSUME Ownership, NEW w \in Workers, GivesUp(w)
  PROVE  Ownership'
  <1> PICK next \in {"Pending", "CompletedPendingCommit"}, to \in {"fatal", "report"} :
           GiveUpSlot(w, next, to)
    BY GivesUpFacts
  <1> USE DEF Ownership
  <1>1. Busy(w) /\ faulted' = faulted
    BY GivesUpFacts
  <1>2. in_flight' = in_flight \ {Dispatch(w)}
    BY <1>1, GivenUp
  <1>3. /\ Dispatch(w) \in in_flight
        /\ work[w].slot \in Slots
        /\ variant_idx[work[w].slot] \in Variants
    BY <1>1, BusyWork
  <1>4. BrokerTypeOK'
    <2>1. in_flight_by_variant' \in [Variants -> Nat]
      BY <1>3 DEF GiveUpSlot, BrokerTypeOK
    <2>2. wpc' \in [Workers -> WorkerStates]
      BY Notified DEF GiveUpSlot, WorkerStates
    <2>3. slot_states' \in [Slots -> SlotStates] /\ in_flight' \subseteq Dispatches
      BY <1>2, <1>3 DEF GiveUpSlot, BrokerTypeOK, SlotStates
    <2> QED
      BY <1>1, <2>1, <2>2, <2>3 DEF GiveUpSlot, BrokerTypeOK
  <1>5. ~Busy(w)'
    BY Notified DEF GiveUpSlot, Busy
  <1>6. \A u \in Workers : u # w => Dispatch(u)' = Dispatch(u) /\ (Busy(u)' <=> Busy(u))
    BY Notified DEF GiveUpSlot, Busy, Dispatch
  <1>7. \A d \in in_flight' : d \in in_flight /\ d.worker # w /\ d.slot # work[w].slot
    <2>1. Dispatch(w).slot = work[w].slot
      BY DEF Dispatch
    <2>2. \A d \in in_flight : d.worker = w \/ d.slot = work[w].slot => d = Dispatch(w)
      BY <1>3, <2>1 DEF OwnedOnce
    <2> QED
      BY <1>2, <2>2
  <1>8. (\A r \in Slots : slot_states[r] = "Active" <=> \E d \in in_flight : d.slot = r)'
    <2>1. slot_states' = [slot_states EXCEPT ![work[w].slot] = next]
      BY DEF GiveUpSlot
    <2>2. Dispatch(w).slot = work[w].slot
      BY DEF Dispatch
    <2>3. ASSUME NEW r \in Slots, r # work[w].slot
          PROVE  (slot_states'[r] = "Active") <=> \E d \in in_flight' : d.slot = r
      <3>1. slot_states'[r] = slot_states[r]
        BY <2>1, <2>3 DEF BrokerTypeOK
      <3>2. (\E d \in in_flight' : d.slot = r) <=> (\E d \in in_flight : d.slot = r)
        BY <1>2, <2>2, <2>3
      <3> QED
        BY <3>1, <3>2 DEF OwnedOnce
    <2>4. slot_states'[work[w].slot] # "Active"
      BY <1>3, <2>1 DEF BrokerTypeOK
    <2> QED
      BY <1>3, <1>7, <2>3, <2>4
  <1>9. OwnedOnce'
    <2>1. (\A u \in Workers : Busy(u) => Dispatch(u) \in in_flight)'
      <3>1. \A u \in Workers : u # w => Dispatch(u) # Dispatch(w)
        BY DEF Dispatch
      <3> QED
        BY <1>2, <1>5, <1>6, <3>1 DEF OwnedOnce
    <2>2. (\A d \in in_flight : Busy(d.worker) /\ Dispatch(d.worker) = d)'
      BY <1>6, <1>7 DEF OwnedOnce, BrokerTypeOK, Dispatches
    <2> QED
      BY <1>7, <1>8, <2>1, <2>2 DEF OwnedOnce
  <1>10. TrialsMinted'
    BY <1>7 DEF TrialsMinted, GiveUpSlot
  <1> QED
    BY <1>4, <1>9, <1>10

\* The coordinator touches no dispatched slot and no dispatch.
LEMMA CoordinatorOwnership ==
  ASSUME Ownership, CoordinatorStep
  PROVE  /\ Ownership'
         /\ in_flight' = in_flight /\ in_flight_by_variant' = in_flight_by_variant
         /\ faulted' = faulted /\ wpc' = notify_all
         /\ \A s \in Slots : slot_states'[s] = "Pending" => slot_states[s] = "Pending"
         /\ accepting' => accepting
  <1> USE DEF Ownership
  <1>1. /\ wpc' = notify_all
        /\ UNCHANGED <<in_flight, in_flight_by_variant, trial_index, work, faulted>>
    BY DEF CoordinatorStep, mark_committed, update_pruned_variants, stop_accepting
  <1>2. /\ slot_states' \in [Slots -> SlotStates] /\ pruned' \subseteq Variants
        /\ \A s \in Slots : /\ slot_states'[s] = "Active" <=> slot_states[s] = "Active"
                            /\ slot_states'[s] = "Pending" => slot_states[s] = "Pending"
    BY DEF CoordinatorStep, mark_committed, update_pruned_variants, stop_accepting,
           BrokerTypeOK, SlotStates
  <1>3. accepting' \in BOOLEAN /\ (accepting' => accepting)
    <2>1. accepting' = accepting \/ accepting' = FALSE
      BY DEF CoordinatorStep, mark_committed, update_pruned_variants, stop_accepting
    <2>2. accepting \in BOOLEAN
      BY DEF BrokerTypeOK
    <2>3. CASE accepting' = accepting
      BY <2>2, <2>3
    <2>4. CASE accepting' = FALSE
      <3>1. accepting' \in BOOLEAN
        BY <2>4
      <3>2. ~accepting'
        BY <2>4
      <3> QED
        BY <3>1, <3>2
    <2> QED
      BY <2>1, <2>3, <2>4
  <1>4. BrokerTypeOK'
    BY <1>1, <1>2, <1>3, Notified DEF BrokerTypeOK
  <1>5. \A u \in Workers : Dispatch(u)' = Dispatch(u) /\ (Busy(u)' <=> Busy(u))
    BY <1>1, Notified DEF Dispatch, Busy
  <1>6. OwnedOnce' /\ TrialsMinted'
    BY <1>1, <1>2, <1>5 DEF OwnedOnce, TrialsMinted, BrokerTypeOK, Dispatches
  <1> QED
    BY <1>1, <1>2, <1>3, <1>4, <1>6

-----------------------------------------------------------------------------
\* The dispatches of one variant are a finite set with a natural cardinality.
LEMMA VariantFinite ==
  ASSUME IsFiniteSet(in_flight), NEW v \in Variants
  PROVE  IsFiniteSet(InFlightOf(v)) /\ Cardinality(InFlightOf(v)) \in Nat
  <1>1. InFlightOf(v) \subseteq in_flight
    BY DEF InFlightOf
  <1>2. IsFiniteSet(InFlightOf(v))
    BY <1>1, FS_Subset
  <1> QED
    BY <1>2, FS_CardinalityType

\* A claim raises the count of its variant, which was below the limit.
LEMMA ClaimTrialCounts ==
  ASSUME Ownership, CountsExact, NEW w \in Workers, ClaimTrial(w)
  PROVE  CountsExact'
  <1> PICK s \in Slots : /\ Claimable(s) /\ variant_idx[s] \notin pruned
                         /\ in_flight' = in_flight
                              \cup {[trial |-> trial_index + 1, slot |-> s, worker |-> w]}
                         /\ in_flight_by_variant' =
                              [in_flight_by_variant EXCEPT ![variant_idx[s]] = @ + 1]
    BY DEF ClaimTrial, FirstClaimable
  <1> DEFINE d0 == [trial |-> trial_index + 1, slot |-> s, worker |-> w]
  <1>1. trial_index \in Nat /\ in_flight_by_variant \in [Variants -> Nat] /\ Limit \in Nat
    BY LimitAssumption DEF Ownership, BrokerTypeOK
  <1>2. d0 \notin in_flight
    BY <1>1 DEF Ownership, TrialsMinted
  <1>3. in_flight' = in_flight \cup {d0} /\ d0.slot = s
    OBVIOUS
  <1>4. in_flight_by_variant[variant_idx[s]] < Limit
    BY DEF Claimable
  <1> HIDE DEF d0
  <1>5. IsFiniteSet(in_flight)'
    BY <1>3, FS_AddElement DEF CountsExact
  <1>6. ASSUME NEW v \in Variants
        PROVE  /\ in_flight_by_variant'[v] = Cardinality(InFlightOf(v)')
               /\ Cardinality(InFlightOf(v)') <= Limit
    <2>1. /\ in_flight_by_variant[v] = Cardinality(InFlightOf(v))
          /\ Cardinality(InFlightOf(v)) <= Limit
      BY DEF CountsExact, VariantCap
    <2>2. IsFiniteSet(InFlightOf(v)) /\ Cardinality(InFlightOf(v)) \in Nat
      BY VariantFinite DEF CountsExact
    <2>3. CASE v = variant_idx[s]
      <3>1. InFlightOf(v)' = InFlightOf(v) \cup {d0} /\ d0 \notin InFlightOf(v)
        BY <1>2, <1>3, <2>3 DEF InFlightOf
      <3>2. Cardinality(InFlightOf(v)') = Cardinality(InFlightOf(v)) + 1
        BY <2>2, <3>1, FS_AddElement
      <3>3. in_flight_by_variant'[v] = in_flight_by_variant[v] + 1
        BY <1>1, <2>3
      <3> QED
        BY <1>1, <1>4, <2>1, <2>2, <2>3, <3>2, <3>3
    <2>4. CASE v # variant_idx[s]
      <3>1. InFlightOf(v)' = InFlightOf(v)
        BY <1>3, <2>4 DEF InFlightOf
      <3>2. in_flight_by_variant'[v] = in_flight_by_variant[v]
        BY <1>1, <2>4
      <3> QED
        BY <2>1, <3>1, <3>2
    <2> QED
      BY <2>3, <2>4
  <1> QED
    BY <1>5, <1>6 DEF CountsExact, VariantCap

\* Giving up lowers the count of the slot's variant, which was positive.
LEMMA GivesUpCounts ==
  ASSUME Ownership, CountsExact, NEW w \in Workers, GivesUp(w)
  PROVE  CountsExact'
  <1> PICK next \in {"Pending", "CompletedPendingCommit"}, to \in {"fatal", "report"} :
           GiveUpSlot(w, next, to)
    BY GivesUpFacts
  <1> DEFINE d0 == Dispatch(w)
             v0 == variant_idx[work[w].slot]
  <1>1. /\ in_flight' = in_flight \ {d0} /\ d0 \in in_flight /\ v0 \in Variants
        /\ variant_idx[d0.slot] = v0
    BY GivesUpFacts, GivenUp, BusyWork DEF Dispatch
  <1>2. /\ in_flight_by_variant' =
             [in_flight_by_variant EXCEPT ![v0] = IF @ > 0 THEN @ - 1 ELSE 0]
        /\ in_flight_by_variant \in [Variants -> Nat] /\ Limit \in Nat
    BY LimitAssumption DEF GiveUpSlot, Ownership, BrokerTypeOK
  <1> HIDE DEF d0, v0
  <1>3. IsFiniteSet(in_flight)'
    BY <1>1, FS_RemoveElement DEF CountsExact
  <1>4. ASSUME NEW v \in Variants
        PROVE  /\ in_flight_by_variant'[v] = Cardinality(InFlightOf(v)')
               /\ Cardinality(InFlightOf(v)') <= Limit
    <2>1. /\ in_flight_by_variant[v] = Cardinality(InFlightOf(v))
          /\ Cardinality(InFlightOf(v)) <= Limit
      BY DEF CountsExact, VariantCap
    <2>2. IsFiniteSet(InFlightOf(v)) /\ Cardinality(InFlightOf(v)) \in Nat
      BY VariantFinite DEF CountsExact
    <2>3. CASE v = v0
      <3>1. InFlightOf(v)' = InFlightOf(v) \ {d0} /\ d0 \in InFlightOf(v)
        BY <1>1, <2>3 DEF InFlightOf
      <3>2. Cardinality(InFlightOf(v)') = Cardinality(InFlightOf(v)) - 1
        BY <2>2, <3>1, FS_RemoveElement
      <3>3. Cardinality(InFlightOf(v)) # 0
        BY <2>2, <3>1, FS_EmptySet
      <3>4. in_flight_by_variant'[v] = in_flight_by_variant[v] - 1
        BY <1>2, <2>1, <2>2, <2>3, <3>3
      <3> QED
        BY <1>2, <2>1, <2>2, <3>2, <3>4
    <2>4. CASE v # v0
      <3>1. InFlightOf(v)' = InFlightOf(v)
        BY <1>1, <2>4 DEF InFlightOf
      <3>2. in_flight_by_variant'[v] = in_flight_by_variant[v]
        BY <1>1, <1>2, <2>4
      <3> QED
        BY <2>1, <3>1, <3>2
    <2> QED
      BY <2>3, <2>4
  <1> QED
    BY <1>3, <1>4 DEF CountsExact, VariantCap

\* The other steps change neither the dispatches nor the counts.
LEMMA SameCounts ==
  ASSUME CountsExact, UNCHANGED <<in_flight, in_flight_by_variant>>
  PROVE  CountsExact'
  BY DEF CountsExact, VariantCap, InFlightOf

-----------------------------------------------------------------------------
\* Whoever can be claimed from leaves nobody asleep, so a claim disturbs no
\* sleeper.
LEMMA ClaimSleeps ==
  ASSUME Ownership, SleepsForAReason, NEW w \in Workers, ClaimTrial(w) \/ ClaimSkip(w)
  PROVE  SleepsForAReason'
  <1>1. wpc[w] = "claim" /\ ~NothingClaimable
    BY DEF ClaimTrial, ClaimSkip, FirstClaimable, NothingClaimable
  <1>2. \A u \in Workers : wpc[u] # "wait"
    BY <1>1 DEF SleepsForAReason
  <1>3. \A u \in Workers : wpc'[u] # "wait"
    BY <1>2 DEF ClaimTrial, ClaimSkip, Ownership, BrokerTypeOK
  <1> QED
    BY <1>3 DEF SleepsForAReason

\* Steps that notify leave nobody asleep.
LEMMA NotifySleeps ==
  ASSUME Ownership, (\E w \in Workers : GivesUp(w)) \/ CoordinatorStep
  PROVE  SleepsForAReason'
  <1>1. BrokerTypeOK
    BY DEF Ownership
  <1>2. \A u \in Workers : wpc'[u] # "wait"
    <2>1. CASE CoordinatorStep
      <3>1. wpc' = notify_all
        BY <2>1, CoordinatorOwnership
      <3> QED
        BY <1>1, <3>1, Notified
    <2>2. ASSUME NEW w \in Workers, GivesUp(w)
          PROVE  \A u \in Workers : wpc'[u] # "wait"
      <3> PICK next \in {"Pending", "CompletedPendingCommit"}, to \in {"fatal", "report"} :
               GiveUpSlot(w, next, to)
        BY <2>2, GivesUpFacts
      <3>1. wpc' = [notify_all EXCEPT ![w] = to]
        BY DEF GiveUpSlot
      <3> QED
        BY <1>1, <3>1, Notified
    <2> QED
      BY <2>1, <2>2
  <1> QED
    BY <1>2 DEF SleepsForAReason

\* A worker goes to sleep only for a reason, and the other moves touch none of
\* the reasons.
LEMMA MovesSleeps ==
  ASSUME Ownership, SleepsForAReason, NEW w \in Workers, Moves(w)
  PROVE  SleepsForAReason'
  <1>1. BrokerTypeOK
    BY DEF Ownership
  <1>2. /\ UNCHANGED <<slot_states, in_flight_by_variant, pruned, accepting>>
        /\ \A u \in Workers : Busy(u)' <=> Busy(u)
        /\ \A u \in Workers : u # w => wpc'[u] = wpc[u]
    BY <1>1, MovesFacts
  <1>3. (NothingClaimable' <=> NothingClaimable) /\ (SomePending' <=> SomePending)
    BY <1>2 DEF NothingClaimable, Claimable, SomePending
  <1>4. ASSUME wpc'[w] = "wait"
        PROVE  accepting /\ NothingClaimable /\ SomePending /\ \E u \in Workers : Busy(u)
    <2>1. ClaimWait(w)
      BY <1>1, <1>4
      DEF Moves, WriteClaimIntent, SendClaimed, SendCompleted, SendSkippedPruned, SendFatal,
          SendExited, ClaimNone, SpuriousWakeup, WorkerMoves, BrokerTypeOK
    <2>2. PICK d \in in_flight : TRUE
      BY <2>1 DEF ClaimWait
    <2>3. d.worker \in Workers /\ Busy(d.worker)
      BY <1>1 DEF Ownership, OwnedOnce, BrokerTypeOK, Dispatches
    <2> QED
      BY <2>1, <2>3 DEF ClaimWait
  <1>5. ASSUME NEW u \in Workers, wpc'[u] = "wait"
        PROVE  accepting /\ NothingClaimable /\ SomePending /\ \E b \in Workers : Busy(b)
    BY <1>2, <1>4, <1>5 DEF SleepsForAReason
  <1> QED
    BY <1>2, <1>3, <1>5 DEF SleepsForAReason

\* With nothing in flight no variant is at its limit, so a pending slot can be
\* claimed.
LEMMA PendingClaimable ==
  ASSUME Ownership, CountsExact, in_flight = {}, SomePending
  PROVE  ~NothingClaimable
  <1> PICK s \in Slots : slot_states[s] = "Pending"
    BY DEF SomePending
  <1>1. variant_idx[s] \in Variants
    BY VariantAssumption DEF Slots
  <1>2. InFlightOf(variant_idx[s]) = {}
    BY DEF InFlightOf
  <1>3. in_flight_by_variant[variant_idx[s]] = 0
    BY <1>1, <1>2, FS_EmptySet DEF CountsExact, VariantCap
  <1> QED
    BY <1>3, LimitAssumption DEF NothingClaimable, Claimable

\* Workers leave only when nothing is pending, claims are stopped, or one failed.
LEMMA StepStillWorking ==
  ASSUME Ownership, CountsExact, StillWorking, BrokerNext
  PROVE  StillWorking'
  <1> SUFFICES ASSUME accepting', ~faulted', SomePending'
               PROVE  \E w \in Workers : wpc'[w] \notin {"exit", "exited"}
    BY DEF StillWorking
  <1>0. BrokerTypeOK
    BY DEF Ownership
  <1>1. ASSUME NEW w \in Workers, ClaimTrial(w) \/ ClaimSkip(w)
        PROVE  wpc'[w] \notin {"exit", "exited"}
    BY <1>0, <1>1 DEF ClaimTrial, ClaimSkip, BrokerTypeOK
  <1>2. ASSUME NEW w \in Workers, GivesUp(w)
        PROVE  wpc'[w] \notin {"exit", "exited"}
    <2> PICK next \in {"Pending", "CompletedPendingCommit"}, to \in {"fatal", "report"} :
             GiveUpSlot(w, next, to)
      BY <1>2, GivesUpFacts
    <2> QED
      BY <1>0, Notified DEF GiveUpSlot
  <1>3. ASSUME CoordinatorStep
        PROVE  \E w \in Workers : wpc'[w] \notin {"exit", "exited"}
    <2>1. /\ faulted' = faulted /\ wpc' = notify_all /\ accepting
          /\ \A s \in Slots : slot_states'[s] = "Pending" => slot_states[s] = "Pending"
      BY <1>3, CoordinatorOwnership
    <2>2. SomePending
      BY <2>1 DEF SomePending
    <2>3. PICK w \in Workers : wpc[w] \notin {"exit", "exited"}
      BY <2>1, <2>2 DEF StillWorking
    <2> QED
      BY <1>0, <2>1, <2>3, Notified
  <1>4. ASSUME NEW w \in Workers, Moves(w)
        PROVE  \E u \in Workers : wpc'[u] \notin {"exit", "exited"}
    <2>1. /\ UNCHANGED <<slot_states, accepting>>
          /\ \A u \in Workers : u # w => wpc'[u] = wpc[u]
      BY <1>0, <1>4, MovesFacts
    <2>2. SomePending /\ accepting
      BY <2>1 DEF SomePending
    <2>3. CASE ~faulted
      <3>1. PICK u \in Workers : wpc[u] \notin {"exit", "exited"}
        BY <2>2, <2>3 DEF StillWorking
      <3>2. CASE u # w
        BY <2>1, <3>1, <3>2
      <3>3. CASE u = w
        <4>1. ~ClaimNone(w)
          BY <2>2, PendingClaimable DEF ClaimNone
        <4>2. ~SendFatal(w)
          BY DEF SendFatal
        <4>3. wpc[w] # "exit"
          BY <3>1, <3>3
        <4> QED
          BY <1>0, <1>4, <4>1, <4>2, <4>3
          DEF Moves, WriteClaimIntent, SendClaimed, SendCompleted, SendSkippedPruned,
              SendExited, ClaimWait, SpuriousWakeup, WorkerMoves, BrokerTypeOK
      <3> QED
        BY <3>2, <3>3
    <2>4. CASE faulted
      <3>1. faulted' = faulted \/ faulted' = TRUE
        BY <1>4
        DEF Moves, WriteClaimIntent, SendClaimed, SendCompleted, SendSkippedPruned, SendFatal,
            SendExited, ClaimNone, ClaimWait, SpuriousWakeup, WorkerMoves
      <3> QED
        BY <2>4, <3>1
    <2> QED
      BY <2>3, <2>4
  <1> QED
    BY <1>1, <1>2, <1>3, <1>4, BrokerSteps

-----------------------------------------------------------------------------
\* Every step keeps the whole invariant.
LEMMA BrokerStepInv == BrokerInv /\ [BrokerNext]_brokerVars => BrokerInv'
  <1> SUFFICES ASSUME BrokerInv, [BrokerNext]_brokerVars
               PROVE  BrokerInv'
    OBVIOUS
  <1> USE DEF BrokerInv
  <1>1. CASE BrokerNext
    <2>1. Ownership' /\ CountsExact' /\ SleepsForAReason'
      <3>1. ASSUME NEW w \in Workers, ClaimTrial(w)
            PROVE  Ownership' /\ CountsExact' /\ SleepsForAReason'
        BY <3>1, ClaimTrialOwnership, ClaimTrialCounts, ClaimSleeps
      <3>2. ASSUME NEW w \in Workers, ClaimSkip(w)
            PROVE  Ownership' /\ CountsExact' /\ SleepsForAReason'
        <4>1. UNCHANGED <<in_flight, in_flight_by_variant>>
          BY <3>2 DEF ClaimSkip
        <4> QED
          BY <3>2, <4>1, ClaimSkipOwnership, SameCounts, ClaimSleeps
      <3>3. ASSUME NEW w \in Workers, Moves(w)
            PROVE  Ownership' /\ CountsExact' /\ SleepsForAReason'
        <4>1. UNCHANGED <<in_flight, in_flight_by_variant>>
          BY <3>3, MovesFacts DEF Ownership
        <4> QED
          BY <3>3, <4>1, MovesOwnership, SameCounts, MovesSleeps
      <3>4. ASSUME NEW w \in Workers, GivesUp(w)
            PROVE  Ownership' /\ CountsExact' /\ SleepsForAReason'
        BY <3>4, GivesUpOwnership, GivesUpCounts, NotifySleeps
      <3>5. CASE CoordinatorStep
        <4>1. UNCHANGED <<in_flight, in_flight_by_variant>>
          BY <3>5, CoordinatorOwnership
        <4> QED
          BY <3>5, <4>1, CoordinatorOwnership, SameCounts, NotifySleeps
      <3> QED
        BY <1>1, <3>1, <3>2, <3>3, <3>4, <3>5, BrokerSteps
    <2>2. StillWorking'
      BY <1>1, StepStillWorking
    <2> QED
      BY <2>1, <2>2
  <1>2. CASE UNCHANGED brokerVars
    <2>1. BrokerTypeOK' /\ OwnedOnce' /\ TrialsMinted'
      BY <1>2 DEF Ownership, BrokerTypeOK, OwnedOnce, TrialsMinted, Busy, Dispatch, brokerVars
    <2>2. CountsExact'
      BY <1>2, SameCounts DEF brokerVars
    <2>3. SleepsForAReason'
      BY <1>2
      DEF SleepsForAReason, Busy, NothingClaimable, Claimable, SomePending, brokerVars
    <2>4. StillWorking'
      BY <1>2 DEF StillWorking, SomePending, brokerVars
    <2> QED
      BY <2>1, <2>2, <2>3, <2>4 DEF Ownership
  <1> QED
    BY <1>1, <1>2

LEMMA BrokerInvariance == BrokerSpec => []BrokerInv
  BY BrokerInitInv, BrokerStepInv, PTL DEF BrokerSpec

\* The broker keeps slots, trials and workers in one-to-one ownership whatever
\* the workers and the coordinator do, for any schedule and number of workers.
THEOREM SlotsAreOwnedOnce == BrokerSpec => [](BrokerTypeOK /\ OwnedOnce)
  <1>1. BrokerInv => BrokerTypeOK /\ OwnedOnce
    BY DEF BrokerInv, Ownership
  <1> QED
    BY <1>1, BrokerInvariance, PTL

\* max_in_flight_per_variant is never exceeded, for any limit.
THEOREM VariantsAreCapped == BrokerSpec => []VariantCap
  <1>1. BrokerInv => VariantCap
    BY DEF BrokerInv, CountsExact
  <1> QED
    BY <1>1, BrokerInvariance, PTL

\* No wake-up is lost: every sleeping worker has a busy one to wake it.
THEOREM NoLostWakeup == BrokerSpec => []SleepsForAReason
  <1>1. BrokerInv => SleepsForAReason
    BY DEF BrokerInv
  <1> QED
    BY <1>1, BrokerInvariance, PTL

\* The protocol fault the engine checks for after the last worker has left
\* cannot happen while no worker failed and claims were not stopped.
THEOREM ProtocolFaultUnreachable == BrokerSpec => []NoProtocolFault
  <1>1. ASSUME BrokerInv PROVE NoProtocolFault
    <2> SUFFICES ASSUME \A w \in Workers : wpc[w] = "exited", accepting, ~faulted
                 PROVE  ~has_unfinished_slots
      BY DEF NoProtocolFault
    <2>1. \A s \in Slots : slot_states[s] # "Pending"
      BY <1>1 DEF BrokerInv, StillWorking, SomePending
    <2>2. in_flight = {}
      BY <1>1 DEF BrokerInv, Ownership, OwnedOnce, Busy, BrokerTypeOK, Dispatches
    <2>3. \A s \in Slots : slot_states[s] # "Active"
      BY <1>1, <2>2 DEF BrokerInv, Ownership, OwnedOnce
    <2> QED
      BY <2>1, <2>3 DEF has_unfinished_slots
  <1> QED
    BY <1>1, BrokerInvariance, PTL

-----------------------------------------------------------------------------
(* The invariant. *)

Outcomes == {"none", "live", "completed", "failed", "error"}
Messages == [kind : EventKinds, trial : Trials \cup {NoTrial}, slot : Slots \cup {0},
             result : Outcomes]

\* What is on disk and in the engine's memory has its type.
EngineTypes ==
  /\ progress \in Progresses /\ mem \in Progresses
  /\ pending \in [Slots -> Results \cup {NoResult}]
  /\ queue \in [Slots -> Results \cup {Skipped, NoResult}]
  /\ slot_attempts \in [Slots -> 0 .. MaxAttempts]
  /\ drain_trial \in 0 .. MaxTrials
  /\ control.active \subseteq Actives /\ recovered \subseteq Actives
  /\ intents \in [Trials -> Slots \cup {0}]
  /\ attempts \in [Trials -> {NoAttempt} \cup [phase : {"live", "commit_pending", "abandoned",
                                                       "committed"}, slot : Slots]]
  /\ closing \subseteq Slots
  /\ result \in [Workers -> Outcomes]
  /\ events \in Seq(Messages)

\* The bounds stay bounds, and there is a thread.
BudgetKept == budget \in [Bounds -> Nat] /\ Threads \in SUBSET Workers /\ Threads # {}

\* A slot that its worker is through with.
HandedOver(s) == s \in Slots /\ slot_states[s] \in {"CompletedPendingCommit", "Committed"}

\* A message that tells the truth.
IsTrue(e) ==
  /\ e.kind = "Claimed" => e.trial \in Trials /\ e.slot \in Slots
  /\ e.kind = "Completed" => /\ e.trial \in Trials /\ HandedOver(e.slot)
                             /\ e.result \in {"completed", "failed", "error"}
  /\ e.kind = "SkippedPruned" => /\ e.trial = NoTrial /\ HandedOver(e.slot)
                                 /\ variant_idx[e.slot] \in pruned

\* What a worker is about to report.
ReportIsDue(w) ==
  /\ wpc[w] = "report" => /\ work[w].trial \in Trials /\ HandedOver(work[w].slot)
                          /\ result[w] \in {"completed", "failed", "error"}
  /\ wpc[w] = "skip" => /\ work[w].trial = NoTrial /\ HandedOver(work[w].slot)
                        /\ variant_idx[work[w].slot] \in pruned
  /\ Busy(w) /\ result[w] = "live" => attempts[work[w].trial] # NoAttempt

\* What a worker is about to report, and what it has reported, is true.  Before the workers are
\* spawned there is no report.
ReportsAreTrue ==
  /\ \A w \in Workers : ReportIsDue(w)
  /\ \A i \in DOMAIN events : IsTrue(events[i])
  /\ stage = "boot" => events = <<>> /\ \A w \in Workers : wpc[w] = "exited"

FailedOf(v) == {r \in Slots : variant_idx[r] = v /\ row[r].commit.status = "failed"}

\* What a crash leaves: the progress is the rows', a result is kept for an open slot only,
\* and the failures of a variant are failed slots of it.
DurableInv ==
  /\ \A s \in Slots : progress.done[s] = row[s].commit
  /\ \A s \in Slots : pending[s] # NoResult => row[s].state # "committed"
  /\ IntentPrecedesCommit
  /\ \A v \in Variants : /\ progress.failures[v] <= Cardinality(FailedOf(v))
                         /\ v \in progress.pruned => MaxFailures <= Cardinality(FailedOf(v))
  /\ SkipsAreJustified

\* The engine has its committer: from the end of the boot to the shutdown.
Working == pc \in {"drain", "commit", "persist", "spawn", "loop", "result", "control"}

\* The memory of a process that is at work follows the disk ...
MemoryFollows ==
  /\ pc # "down" => /\ mem.done = progress.done
                    /\ mem.pruned = progress.pruned /\ mem.failures = progress.failures
  /\ IF pc = "down" THEN pruned = {} ELSE pruned \subseteq mem.pruned

\* ... and its committer: it knows the committed slots, queues open ones, among them every
\* persisted result, and skips those of pruned variants.
CommitterInv ==
  /\ Working =>
       /\ committed_schedules = {s \in Slots : row[s].state = "committed"}
       /\ \A s \in Slots :
            /\ queue[s] # NoResult => row[s].state # "committed"
            /\ queue[s] = Skipped => variant_idx[s] \in mem.pruned
            /\ pending[s] # NoResult => queue[s] = pending[s]
            /\ stage # "boot" /\ (s \in committed_schedules \/ queue[s] # NoResult) => HandedOver(s)
  /\ pc \in {"down", "boot", "spawn"} => stage = "boot"
  /\ pc \in {"persist", "loop", "result", "control"} => stage # "boot"
  /\ pc = "spawn" => \A s \in Slots : queue[s] = NoResult
  /\ pc = "commit" => \A s \in Slots : NextReady(s) =>
       /\ slot_attempts[s] < MaxAttempts
       /\ [kind |-> "intent", slot |-> s, commit |-> CommitOf(s)] \in journal

EngineInv ==
  /\ StoreInv /\ BrokerInv
  /\ EngineTypes /\ BudgetKept /\ ReportsAreTrue
  /\ DurableInv /\ MemoryFollows /\ CommitterInv

\* What every step does: it keeps the invariant, uses store and broker as they are meant to be
\* used, and keeps the results on disk.
StepIsGood ==
  /\ EngineInv'
  /\ [StoreNext]_storeVars
  /\ [BrokerNext \/ pc = "spawn" \/ pc' = "down"]_brokerVars
  /\ ResultKept

-----------------------------------------------------------------------------
(* Numbers and budgets. *)

\* A set of numbers up to a bound has its maximum.
LEMMA MaxInSet ==
  ASSUME NEW N \in Nat, NEW S \in SUBSET (0 .. N), S # {}
  PROVE  Max(S) \in S
<1> DEFINE T == {n \in Nat : \E x \in S : n = N - x}
<1>1. T \subseteq Nat /\ T # {}
  <2>1. PICK x \in S : TRUE
    OBVIOUS
  <2>2. N - x \in T
    BY <2>1
  <2> QED
    BY <2>2
<1>2. PICK m \in T : \A y \in T : ~(<<y, m>> \in OpToRel(<, Nat))
  BY <1>1, NatLessThanWellFounded, WFMin
<1>3. \A y \in T : m <= y
  <2> SUFFICES ASSUME NEW y \in T PROVE m <= y
    OBVIOUS
  <2>1. y \in Nat /\ m \in Nat
    OBVIOUS
  <2>2. ~(<<y, m>> \in OpToRel(<, Nat))
    BY <1>2
  <2> HIDE DEF T
  <2>3. ~(y < m)
    BY <2>1, <2>2, Zenon DEF OpToRel
  <2> QED
    BY <2>1, <2>3
<1>4. PICK x \in S : m = N - x
  OBVIOUS
<1>5. \A y \in S : x >= y
  <2> SUFFICES ASSUME NEW y \in S PROVE x >= y
    OBVIOUS
  <2>1. N - y \in T
    OBVIOUS
  <2> QED
    BY <1>3, <1>4, <2>1
<1> QED
  BY <1>4, <1>5 DEF Max

\* A fault is paid for; the number of threads stays.
LEMMA BudgetStep ==
  ASSUME BudgetKept, budget' = budget \/ \E kind \in Faults \ {"any"} : Spend(kind)
  PROVE  BudgetKept'
<1>1. budget' \in [Bounds -> Nat] /\ budget'["threads"] = budget["threads"]
  <2>1. CASE budget' = budget
    BY <2>1 DEF BudgetKept
  <2>2. ASSUME NEW kind \in Faults \ {"any"}, Spend(kind)
        PROVE  budget' \in [Bounds -> Nat] /\ budget'["threads"] = budget["threads"]
    BY <2>2 DEF BudgetKept, Spend, Faults, Bounds
  <2> QED
    BY <2>1, <2>2
<1>2. Threads' = Threads
  BY <1>1 DEF Threads
<1> QED
  BY <1>1, <1>2 DEF BudgetKept

\* At first every budget names a number of threads that exist.
LEMMA BudgetInit ==
  ASSUME budget \in Budgets
  PROVE  BudgetKept
<1>1. budget \in [Bounds -> Nat] /\ budget["threads"] > 0
  BY BudgetsAssumption, ThreadsAssumption
<1>2. \E ws \in SUBSET Workers : Cardinality(ws) = budget["threads"]
  BY ThreadsAssumption
<1>3. Threads \in SUBSET Workers /\ Cardinality(Threads) = budget["threads"]
  BY <1>2 DEF Threads
<1>4. Threads # {}
  BY <1>1, <1>3, FS_EmptySet
<1> QED
  BY <1>1, <1>3, <1>4 DEF BudgetKept

-----------------------------------------------------------------------------
(* The broker inside the engine. *)

\* A slot that is handed over stays so, and what the broker calls pruned only grows.
LEMMA BrokerKeeps ==
  ASSUME BrokerInv, [BrokerNext]_brokerVars
  PROVE  /\ BrokerInv'
         /\ \A s : HandedOver(s) => HandedOver(s)'
         /\ pruned \subseteq pruned'
<1>0. BrokerInv' /\ BrokerTypeOK /\ Ownership
  BY BrokerStepInv DEF BrokerInv, Ownership
<1>1. ASSUME NEW w \in Workers, ClaimTrial(w) \/ ClaimSkip(w)
      PROVE  (\A s : HandedOver(s) => HandedOver(s)') /\ pruned' = pruned
  BY <1>0, <1>1 DEF ClaimTrial, ClaimSkip, FirstClaimable, Claimable, HandedOver, BrokerTypeOK
<1>2. ASSUME NEW w \in Workers, Moves(w)
      PROVE  (\A s : HandedOver(s) => HandedOver(s)') /\ pruned' = pruned
  BY <1>0, <1>2, MovesFacts DEF HandedOver
<1>3. ASSUME NEW w \in Workers, GivesUp(w)
      PROVE  (\A s : HandedOver(s) => HandedOver(s)') /\ pruned' = pruned
  <2>1. PICK next \in {"Pending", "CompletedPendingCommit"}, at \in {"fatal", "report"} :
             GiveUpSlot(w, next, at)
    BY <1>0, <1>3, GivesUpFacts
  <2>2. Busy(w) /\ Dispatch(w) \in in_flight /\ work[w].slot \in Slots
    BY <1>0, <1>3, GivesUpFacts, BusyWork
  <2>3. slot_states[work[w].slot] = "Active"
    BY <1>0, <2>2 DEF Ownership, OwnedOnce, Dispatch
  <2> QED
    BY <1>0, <2>1, <2>3 DEF GiveUpSlot, HandedOver, BrokerTypeOK
<1>4. CASE CoordinatorStep
  BY <1>0, <1>4
  DEF CoordinatorStep, mark_committed, update_pruned_variants, stop_accepting, HandedOver,
      BrokerTypeOK
<1>5. CASE UNCHANGED brokerVars
  BY <1>0, <1>5 DEF brokerVars, HandedOver
<1> QED
  BY <1>0, <1>1, <1>2, <1>3, <1>4, <1>5, BrokerSteps

\* Stopping a broker that is stopped already changes nothing: nobody sleeps.
LEMMA StopIsAStep ==
  ASSUME BrokerInv, stop_accepting
  PROVE  [CoordinatorStep]_brokerVars
<1>1. CASE accepting
  BY <1>1 DEF CoordinatorStep
<1>2. CASE ~accepting
  <2>1. \A w \in Workers : wpc[w] # "wait"
    BY <1>2 DEF BrokerInv, SleepsForAReason
  <2>2. wpc \in [Workers -> WorkerStates] /\ accepting \in BOOLEAN
    BY DEF BrokerInv, Ownership, BrokerTypeOK
  <2>3. notify_all = wpc
    BY <2>1, <2>2 DEF notify_all
  <2>4. accepting' = accepting
    BY <1>2, <2>2 DEF stop_accepting
  <2> QED
    BY <2>3, <2>4 DEF stop_accepting, brokerVars
<1> QED
  BY <1>1, <1>2

\* A process without an engine has no broker.
NoBroker ==
  /\ slot_states = [s \in Slots |-> "Pending"] /\ in_flight = {}
  /\ in_flight_by_variant = [v \in Variants |-> 0] /\ pruned = {} /\ trial_index = 0
  /\ accepting = FALSE /\ wpc = [w \in Workers |-> "exited"]
  /\ work = [w \in Workers |-> NoWork] /\ faulted = FALSE

\* An engine's broker before the first claim: some workers have been spawned.
FreshBroker ==
  /\ slot_states \in [Slots -> {"Pending", "Committed", "BlockedActive"}] /\ in_flight = {}
  /\ in_flight_by_variant = [v \in Variants |-> 0] /\ pruned \subseteq Variants
  /\ trial_index \in 0 .. MaxTrials /\ accepting = TRUE
  /\ \E ws \in SUBSET Workers :
       ws # {} /\ wpc = [w \in Workers |-> IF w \in ws THEN "claim" ELSE "exited"]
  /\ work = [w \in Workers |-> NoWork] /\ faulted = FALSE

\* Both satisfy the broker's invariant.
LEMMA BrokerStarts == NoBroker \/ FreshBroker => BrokerInv
<1> SUFFICES ASSUME NoBroker \/ FreshBroker PROVE BrokerInv
  OBVIOUS
<1>0. \A w \in Workers : wpc[w] \in {"claim", "exited"}
  BY DEF NoBroker, FreshBroker
<1>1. BrokerTypeOK
  <2>1. slot_states \in [Slots -> SlotStates] /\ wpc \in [Workers -> WorkerStates]
    BY DEF SlotStates, WorkerStates, NoBroker, FreshBroker
  <2>2. work \in [Workers -> [trial : Trials \cup {NoTrial}, slot : Slots \cup {0}]]
    BY DEF NoWork, NoBroker, FreshBroker
  <2>3. in_flight_by_variant \in [Variants -> Nat] /\ trial_index \in 0 .. MaxTrials
    BY TrialsAssumption DEF NoBroker, FreshBroker
  <2>4. accepting \in BOOLEAN /\ faulted \in BOOLEAN
    <3>1. accepting = TRUE \/ accepting = FALSE
      BY DEF NoBroker, FreshBroker
    <3>2. faulted = FALSE
      BY DEF NoBroker, FreshBroker
    <3> QED
      BY <3>1, <3>2
  <2>5. in_flight \subseteq Dispatches /\ pruned \subseteq Variants
    BY DEF NoBroker, FreshBroker
  <2> QED
    BY <2>1, <2>2, <2>3, <2>4, <2>5 DEF BrokerTypeOK
<1>2. OwnedOnce /\ TrialsMinted /\ SleepsForAReason
  <2>1. in_flight = {} /\ \A s \in Slots : slot_states[s] # "Active"
    BY DEF NoBroker, FreshBroker
  <2> QED
    BY <1>0, <2>1 DEF OwnedOnce, TrialsMinted, SleepsForAReason, Busy
<1>3. StillWorking
  <2>1. CASE NoBroker
    BY <2>1 DEF NoBroker, StillWorking
  <2>2. CASE FreshBroker
    <3>1. PICK ws \in SUBSET Workers :
            ws # {} /\ wpc = [w \in Workers |-> IF w \in ws THEN "claim" ELSE "exited"]
      BY <2>2 DEF FreshBroker
    <3>2. PICK w \in ws : TRUE
      BY <3>1
    <3>3. w \in Workers /\ wpc[w] = "claim"
      BY <3>1, <3>2
    <3> QED
      BY <3>3 DEF StillWorking
  <2> QED
    BY <2>1, <2>2
<1>4. CountsExact
  <2>1. in_flight = {} /\ in_flight_by_variant = [v \in Variants |-> 0]
    BY DEF NoBroker, FreshBroker
  <2> QED
    BY <2>1, FS_EmptySet, LimitAssumption DEF CountsExact, VariantCap, InFlightOf
<1> QED
  BY <1>1, <1>2, <1>3, <1>4 DEF BrokerInv, Ownership

\* So it is after the step that makes or ends a process.
LEMMA BrokerStartsNext == NoBroker' \/ FreshBroker' => BrokerInv'
<1>1. (NoBroker \/ FreshBroker => BrokerInv)'
  BY BrokerStarts, PTL
<1> QED
  BY <1>1

-----------------------------------------------------------------------------
(* What a step leaves alone. *)

\* No slot is committed and no commit changed.
RowsKept ==
  \A s \in Slots : /\ row'[s].commit = row[s].commit
                   /\ row'[s].state = "committed" <=> row[s].state = "committed"

\* A claim or a release is a step of the store that commits nothing.
LEMMA OpenRowKept ==
  ASSUME StoreInv, NEW s \in Slots,
         release_schedule_slot_to_pending(s) \/ \E t \in Trials : claim_schedule_slot(s, t)
  PROVE  StoreNext /\ RowsKept /\ journal' = journal
<1>1. StoreNext
  BY DEF StoreNext
<1>2. journal' = journal
  BY DEF release_schedule_slot_to_pending, claim_schedule_slot
<1>3. row \in [Slots -> Rows] /\ RowShape
  BY DEF StoreInv, StoreTypeOK
<1>4. CASE release_schedule_slot_to_pending(s)
  BY <1>1, <1>2, <1>3, <1>4, RowFields DEF release_schedule_slot_to_pending, RowsKept, RowShape
<1>5. ASSUME NEW t \in Trials, claim_schedule_slot(s, t)
      PROVE  RowsKept
  BY <1>3, <1>5, RowFields DEF claim_schedule_slot, RowsKept, RowShape
<1> QED
  BY <1>1, <1>2, <1>4, <1>5

\* What is on disk stays in order while no slot is committed.
LEMMA DurableKept ==
  ASSUME DurableInv, RowsKept, journal' = journal,
         progress'.done = progress.done, progress'.pruned = progress.pruned,
         progress'.failures = progress.failures,
         \A s \in Slots : pending'[s] # NoResult => row[s].state # "committed"
  PROVE  DurableInv'
<1>1. \A v \in Variants : FailedOf(v)' = FailedOf(v)
  BY DEF FailedOf, RowsKept
<1>2. SkipsAreJustified'
  <2> SUFFICES ASSUME NEW s \in Slots, row'[s].commit.status = "skipped_pruned"
               PROVE  MaxFailures <= Cardinality({r \in Slots : /\ variant_idx[r] = variant_idx[s]
                                                                /\ row'[r].commit.status = "failed"})
    BY DEF SkipsAreJustified
  <2>1. {r \in Slots : variant_idx[r] = variant_idx[s] /\ row'[r].commit.status = "failed"}
          = {r \in Slots : variant_idx[r] = variant_idx[s] /\ row[r].commit.status = "failed"}
    BY DEF RowsKept
  <2> QED
    BY <2>1 DEF DurableInv, SkipsAreJustified, RowsKept
<1>3. IntentPrecedesCommit'
  BY DEF DurableInv, IntentPrecedesCommit
<1>4. \A s \in Slots : /\ progress'.done[s] = row'[s].commit
                       /\ pending'[s] # NoResult => row'[s].state # "committed"
  BY DEF DurableInv, RowsKept
<1>5. \A v \in Variants : /\ progress'.failures[v] <= Cardinality(FailedOf(v)')
                          /\ v \in progress'.pruned => MaxFailures <= Cardinality(FailedOf(v)')
  BY <1>1 DEF DurableInv
<1> QED
  BY <1>2, <1>3, <1>4, <1>5 DEF DurableInv

\* The committer is not disturbed by steps that leave its queue and its keys alone.
LEMMA CommitterKept ==
  ASSUME CommitterInv, RowsKept, mem'.pruned = mem.pruned,
         UNCHANGED <<keys, queue, pending, slot_attempts, stage, journal>>,
         \A s : HandedOver(s) => HandedOver(s)',
         pc' = pc \/ /\ pc' \notin {"spawn", "commit", "down", "boot"}
                     /\ Working' => Working /\ stage # "boot"
  PROVE  CommitterInv'
<1>1. Working' => Working
  BY DEF Working
<1>2. committed_schedules' = committed_schedules
  BY DEF committed_schedules
<1>3. {s \in Slots : row'[s].state = "committed"} = {s \in Slots : row[s].state = "committed"}
  BY DEF RowsKept
<1>4. Working' => /\ committed_schedules' = {s \in Slots : row'[s].state = "committed"}
                  /\ \A s \in Slots :
                       /\ queue'[s] # NoResult => row'[s].state # "committed"
                       /\ queue'[s] = Skipped => variant_idx[s] \in mem'.pruned
                       /\ pending'[s] # NoResult => queue'[s] = pending'[s]
                       /\ stage' # "boot" /\ (s \in committed_schedules' \/ queue'[s] # NoResult)
                            => HandedOver(s)'
  BY <1>1, <1>2, <1>3 DEF CommitterInv, RowsKept
<1>5. /\ pc' \in {"down", "boot", "spawn"} => stage' = "boot"
      /\ pc' \in {"persist", "loop", "result", "control"} => stage' # "boot"
      /\ pc' = "spawn" => \A s \in Slots : queue'[s] = NoResult
  BY DEF CommitterInv, Working
<1>6. \A s \in Slots : (NextReady(s)' <=> NextReady(s)) /\ CommitOf(s)' = CommitOf(s)
  BY DEF NextReady, CommitOf
<1>7. pc' = "commit" => \A s \in Slots : NextReady(s)' =>
        /\ slot_attempts'[s] < MaxAttempts
        /\ [kind |-> "intent", slot |-> s, commit |-> CommitOf(s)'] \in journal'
  BY <1>6 DEF CommitterInv
<1> QED
  BY <1>4, <1>5, <1>7 DEF CommitterInv

\* The messages left are among those there were.
LEMMA TailElements ==
  ASSUME NEW S, NEW q \in Seq(S), q # <<>>
  PROVE  /\ Tail(q) \in Seq(S) /\ Head(q) = q[1] /\ 1 \in DOMAIN q
         /\ \A i \in DOMAIN Tail(q) : \E j \in DOMAIN q : Tail(q)[i] = q[j]
<1>1. Tail(q) \in Seq(S) /\ Len(Tail(q)) = Len(q) - 1 /\ Head(q) = q[1]
  OBVIOUS
<1>2. \A i \in 1 .. Len(q) - 1 : Tail(q)[i] = q[i + 1] /\ i + 1 \in 1 .. Len(q)
  OBVIOUS
<1>3. DOMAIN q = 1 .. Len(q) /\ DOMAIN Tail(q) = 1 .. Len(Tail(q)) /\ Len(q) \in Nat /\ Len(q) # 0
  BY <1>1
<1>4. 1 \in DOMAIN q
  BY <1>3
<1> QED
  BY <1>1, <1>2, <1>3, <1>4

\* A true message stays true.
LEMMA TrueStays ==
  ASSUME NEW e, IsTrue(e), \A s : HandedOver(s) => HandedOver(s)', pruned \subseteq pruned'
  PROVE  IsTrue(e)'
BY DEF IsTrue

\* What the coordinator does makes no report untrue, and it takes the messages in their order.
LEMMA ReportsKept ==
  ASSUME BrokerInv, ReportsAreTrue, [CoordinatorStep]_brokerVars, events \in Seq(Messages),
         UNCHANGED <<result, attempts>>, stage' = stage \/ stage' # "boot",
         events' = events \/ (events # <<>> /\ events' = Tail(events))
  PROVE  ReportsAreTrue' /\ events' \in Seq(Messages)
<1>1. (\A s : HandedOver(s) => HandedOver(s)') /\ pruned \subseteq pruned'
  BY BrokerKeeps DEF BrokerNext
<1>2. BrokerTypeOK /\ Ownership
  BY DEF BrokerInv, Ownership
<1>3. work' = work /\ \A w \in Workers : wpc'[w] = wpc[w] \/ wpc'[w] = "claim"
  <2>1. CASE CoordinatorStep
    <3>1. wpc' = notify_all /\ work' = work
      BY <2>1, <1>2, CoordinatorOwnership
      DEF CoordinatorStep, mark_committed, update_pruned_variants, stop_accepting
    <3> QED
      BY <1>2, <3>1, Notified
  <2>2. CASE UNCHANGED brokerVars
    BY <2>2 DEF brokerVars
  <2> QED
    BY <2>1, <2>2
<1>4. ASSUME NEW w \in Workers PROVE ReportIsDue(w)'
  <2>1. ReportIsDue(w)
    BY DEF ReportsAreTrue
  <2> QED
    BY <1>1, <1>3, <2>1 DEF ReportIsDue, Busy
<1>5. events' \in Seq(Messages) /\ \A i \in DOMAIN events' : \E j \in DOMAIN events : events'[i] = events[j]
  <2>1. CASE events' = events
    BY <2>1
  <2>2. CASE events # <<>> /\ events' = Tail(events)
    BY <2>2, TailElements
  <2> QED
    BY <2>1, <2>2
<1>6. ASSUME NEW i \in DOMAIN events' PROVE IsTrue(events[i])'
  <2>1. PICK j \in DOMAIN events : events'[i] = events[j]
    BY <1>5
  <2>2. IsTrue(events[j])
    BY DEF ReportsAreTrue
  <2> QED
    BY <1>1, <2>1, <2>2 DEF IsTrue
<1>7. stage' = "boot" => events' = <<>> /\ \A w \in Workers : wpc'[w] = "exited"
  <2> SUFFICES ASSUME stage' = "boot"
               PROVE  events' = <<>> /\ \A w \in Workers : wpc'[w] = "exited"
    OBVIOUS
  <2>1. events = <<>> /\ \A w \in Workers : wpc[w] = "exited"
    BY DEF ReportsAreTrue
  <2>2. CASE CoordinatorStep
    <3>1. wpc' = notify_all
      BY <2>2, <1>2, CoordinatorOwnership
    <3>2. \A w \in Workers : wpc'[w] = wpc[w]
      BY <1>2, <2>1, <3>1, Notified
    <3> QED
      BY <2>1, <3>2
  <2>3. CASE UNCHANGED brokerVars
    BY <2>1, <2>3 DEF brokerVars
  <2> QED
    BY <2>2, <2>3
<1> QED
  BY <1>4, <1>5, <1>6, <1>7 DEF ReportsAreTrue

-----------------------------------------------------------------------------
(* The workers. *)

\* What a worker does next to the broker's steps.
WorkerActs(w) == Worker(w) \/ ClaimFails(w) \/ AttemptFails(w)

\* A worker's step is one of the broker's, or leaves the broker alone; it prunes nothing.
LEMMA WorkerUsesBroker ==
  ASSUME NEW w \in Workers, WorkerActs(w)
  PROVE  /\ BrokerNext \/ UNCHANGED brokerVars
         /\ pruned' = pruned
<1>1. CASE Pull(w)
  BY <1>1 DEF Pull, BrokerNext, WorkerStep, ClaimTrial, ClaimSkip, ClaimNone, ClaimWait
<1>2. CASE ClaimFails(w)
  BY <1>2 DEF ClaimFails, BrokerNext, WorkerStep, rollback_claim, release_owned_to_pending, GiveUpSlot
<1>3. CASE CompleteTrial(w)
  BY <1>3 DEF CompleteTrial, BrokerNext, WorkerStep, complete_owned, GiveUpSlot
<1>4. CASE StartAttempt(w) \/ FinishAttempt(w) \/ AttemptFails(w)
  BY <1>4 DEF StartAttempt, FinishAttempt, AttemptFails, brokerVars
<1>5. CASE RecordClaim(w) \/ AnnounceClaim(w) \/ ReportCompleted(w) \/ ReportSkipped(w)
             \/ ReportFatal(w) \/ ReportExited(w)
  BY <1>5
  DEF RecordClaim, AnnounceClaim, ReportCompleted, ReportSkipped, ReportFatal, ReportExited,
      WriteClaimIntent, SendClaimed, SendCompleted, SendSkippedPruned, SendFatal, SendExited,
      WorkerMoves, BrokerNext, WorkerStep
<1> QED
  BY <1>1, <1>2, <1>3, <1>4, <1>5 DEF WorkerActs, Worker

\* What no worker touches, spelt out.
LEMMA WorkerLeaves ==
  ASSUME NEW w \in Workers, WorkerActs(w)
  PROVE  UNCHANGED <<row, journal, progress, pending, control, stage, outcome, mem, recovered,
                     drain_trial, keys, queue, slot_attempts, exited_workers, closing, pc>>
BY DEF WorkerActs, Worker, Pull, RecordClaim, AnnounceClaim, StartAttempt, FinishAttempt,
       CompleteTrial, ReportCompleted, ReportSkipped, ReportFatal, ReportExited, ClaimFails,
       AttemptFails, CoordinatorVars, storeVars

\* A worker that acts has not exited.
LEMMA WorkerRuns ==
  ASSUME NEW w \in Workers, WorkerActs(w)
  PROVE  wpc[w] # "exited"
BY DEF WorkerActs, Worker, Pull, RecordClaim, AnnounceClaim, StartAttempt, FinishAttempt,
       CompleteTrial, ReportCompleted, ReportSkipped, ReportFatal, ReportExited, ClaimFails,
       AttemptFails, ClaimTrial, ClaimSkip, ClaimNone, ClaimWait, rollback_claim,
       release_owned_to_pending, complete_owned, WriteClaimIntent, SendClaimed, SendCompleted,
       SendSkippedPruned, SendFatal, SendExited, WorkerMoves

\* The other workers: one that waits may be woken, and that is all.
LEMMA OthersStay ==
  ASSUME BrokerInv, EngineTypes, NEW w \in Workers, WorkerActs(w), NEW u \in Workers, u # w
  PROVE  /\ wpc'[u] = wpc[u] \/ wpc'[u] = "claim"
         /\ work'[u] = work[u] /\ result'[u] = result[u]
<1> USE DEF EngineTypes
<1>0. BrokerTypeOK
  BY DEF BrokerInv, Ownership
<1>1. CASE Pull(w)
  BY <1>0, <1>1 DEF Pull, ClaimTrial, ClaimSkip, ClaimNone, ClaimWait, BrokerTypeOK
<1>2. CASE ClaimFails(w)
  BY <1>0, <1>2, Notified DEF ClaimFails, rollback_claim, release_owned_to_pending, GiveUpSlot
<1>3. CASE CompleteTrial(w)
  BY <1>0, <1>3, Notified DEF CompleteTrial, complete_owned, GiveUpSlot
<1>4. CASE StartAttempt(w) \/ FinishAttempt(w) \/ AttemptFails(w)
  BY <1>4 DEF StartAttempt, FinishAttempt, AttemptFails, brokerVars
<1>5. CASE RecordClaim(w) \/ AnnounceClaim(w) \/ ReportCompleted(w) \/ ReportSkipped(w)
             \/ ReportFatal(w) \/ ReportExited(w)
  BY <1>0, <1>5
  DEF RecordClaim, AnnounceClaim, ReportCompleted, ReportSkipped, ReportFatal, ReportExited,
      WriteClaimIntent, SendClaimed, SendCompleted, SendSkippedPruned, SendFatal, SendExited,
      WorkerMoves, BrokerTypeOK
<1> QED
  BY <1>1, <1>2, <1>3, <1>4, <1>5 DEF WorkerActs, Worker

\* An attempt on record.
Attempted == [phase : {"live", "commit_pending", "abandoned", "committed"}, slot : Slots]

\* Attempts are recorded with their slot and never forgotten.
LEMMA WorkerAttempts ==
  ASSUME BrokerInv, EngineTypes, ReportsAreTrue, NEW w \in Workers, WorkerActs(w)
  PROVE  /\ attempts' \in [Trials -> {NoAttempt} \cup Attempted]
         /\ \A t \in Trials : attempts[t] # NoAttempt => attempts'[t] # NoAttempt
         /\ StartAttempt(w) => attempts'[work[w].trial] # NoAttempt
<1> DEFINE t == work[w].trial
<1>1. attempts \in [Trials -> {NoAttempt} \cup Attempted]
  BY DEF EngineTypes, Attempted
<1>2. ASSUME NEW a \in Attempted, t \in Trials, attempts' = [attempts EXCEPT ![t] = a]
      PROVE  /\ attempts' \in [Trials -> {NoAttempt} \cup Attempted]
             /\ \A u \in Trials : attempts[u] # NoAttempt => attempts'[u] # NoAttempt
             /\ attempts'[t] # NoAttempt
  <2>1. a # NoAttempt
    BY DEF Attempted, NoAttempt
  <2> HIDE DEF t
  <2> QED
    BY <1>1, <1>2, <2>1
<1>3. Busy(w) => t \in Trials /\ work[w].slot \in Slots
  BY BusyWork DEF BrokerInv
<1>4. CASE StartAttempt(w)
  <2> DEFINE a == [phase |-> "live", slot |-> work[w].slot]
  <2>1. Busy(w) /\ attempts' = [attempts EXCEPT ![t] = a]
    BY <1>4 DEF StartAttempt, Busy
  <2>2. a \in Attempted
    BY <1>3, <2>1 DEF Attempted
  <2> HIDE DEF a, t
  <2>3. t \in Trials
    BY <1>3, <2>1
  <2> QED
    BY <1>2, <2>1, <2>2, <2>3 DEF t
<1>5. ASSUME NEW p \in {"commit_pending", "abandoned"}, wpc[w] = "execute", result[w] = "live",
             attempts' = [attempts EXCEPT ![t].phase = p]
      PROVE  /\ attempts' \in [Trials -> {NoAttempt} \cup Attempted]
             /\ \A u \in Trials : attempts[u] # NoAttempt => attempts'[u] # NoAttempt
  <2> DEFINE a == [attempts[t] EXCEPT !.phase = p]
  <2>1. Busy(w) /\ t \in Trials
    BY <1>3, <1>5 DEF Busy
  <2>2. attempts[t] \in Attempted
    BY <1>1, <1>5, <2>1 DEF ReportsAreTrue, ReportIsDue
  <2>3. a \in Attempted
    BY <2>2 DEF Attempted
  <2>4. attempts' = [attempts EXCEPT ![t] = a]
    BY <1>5
  <2> HIDE DEF a, t
  <2> QED
    BY <1>2, <2>1, <2>3, <2>4
<1>6. CASE FinishAttempt(w)
  BY <1>5, <1>6 DEF FinishAttempt, StartAttempt
<1>7. CASE AttemptFails(w) /\ attempts' # attempts
  BY <1>5, <1>7 DEF AttemptFails, StartAttempt
<1>8. CASE attempts' = attempts /\ ~StartAttempt(w)
  BY <1>1, <1>8
<1>9. StartAttempt(w) \/ FinishAttempt(w) \/ AttemptFails(w) \/ attempts' = attempts
  BY DEF WorkerActs, Worker, Pull, RecordClaim, AnnounceClaim, CompleteTrial, ReportCompleted,
         ReportSkipped, ReportFatal, ReportExited, ClaimFails
<1>10. FinishAttempt(w) \/ AttemptFails(w) => ~StartAttempt(w)
  BY DEF FinishAttempt, AttemptFails, StartAttempt, EngineTypes, Outcomes
<1> QED
  BY <1>4, <1>6, <1>7, <1>8, <1>9, <1>10

\* What the worker itself has to report after its step.
LEMMA WorkerReports ==
  ASSUME EngineInv, NEW w \in Workers, WorkerActs(w)
  PROVE  ReportIsDue(w)'
<1>0. /\ BrokerTypeOK /\ Ownership /\ BrokerInv /\ EngineTypes /\ ReportIsDue(w)
      /\ wpc \in [Workers -> WorkerStates] /\ result \in [Workers -> Outcomes]
      /\ slot_states \in [Slots -> SlotStates]
      /\ work \in [Workers -> [trial : Trials \cup {NoTrial}, slot : Slots \cup {0}]]
  BY DEF EngineInv, BrokerInv, Ownership, BrokerTypeOK, EngineTypes, ReportsAreTrue
<1>1. /\ \A t \in Trials : attempts[t] # NoAttempt => attempts'[t] # NoAttempt
      /\ StartAttempt(w) => attempts'[work[w].trial] # NoAttempt
  BY WorkerAttempts DEF EngineInv
<1>2. Busy(w) => Dispatch(w) \in in_flight /\ work[w].slot \in Slots /\ work[w].trial \in Trials
  BY <1>0, BusyWork
<1>3. CASE Pull(w)
  <2>1. result'[w] = "none"
    BY <1>0, <1>3 DEF Pull
  <2>2. wpc'[w] \in {"claimed", "skip", "exit", "wait"}
    BY <1>0, <1>3 DEF Pull, ClaimTrial, ClaimSkip, ClaimNone, ClaimWait
  <2>3. ASSUME wpc'[w] = "skip"
        PROVE  /\ work'[w].trial = NoTrial /\ HandedOver(work[w].slot)'
               /\ variant_idx[work'[w].slot] \in pruned'
    <3>1. ClaimSkip(w)
      BY <1>0, <1>3, <2>3 DEF Pull, ClaimTrial, ClaimNone, ClaimWait
    <3> QED
      BY <1>0, <3>1 DEF ClaimSkip, HandedOver
  <2> QED
    BY <2>1, <2>2, <2>3 DEF ReportIsDue
<1>4. CASE CompleteTrial(w)
  <2>1. /\ Busy(w) /\ result[w] \in {"completed", "failed", "error"} /\ result' = result
        /\ GiveUpSlot(w, "CompletedPendingCommit", "report")
    BY <1>4 DEF CompleteTrial, complete_owned, Busy
  <2>2. wpc'[w] = "report" /\ work' = work
    BY <1>0, <2>1, Notified DEF GiveUpSlot
  <2>3. HandedOver(work[w].slot)'
    BY <1>0, <1>2, <2>1 DEF GiveUpSlot, HandedOver
  <2> QED
    BY <1>2, <2>1, <2>2, <2>3 DEF ReportIsDue, Busy
<1>5. CASE ClaimFails(w)
  <2>1. GiveUpSlot(w, "Pending", "fatal")
    BY <1>5 DEF ClaimFails, rollback_claim, release_owned_to_pending
  <2>2. wpc'[w] = "fatal"
    BY <1>0, <2>1, Notified DEF GiveUpSlot
  <2> QED
    BY <2>2 DEF ReportIsDue, Busy
<1>6. CASE StartAttempt(w) \/ FinishAttempt(w) \/ AttemptFails(w)
  <2>1. wpc[w] = "execute" /\ wpc' = wpc /\ work' = work
    BY <1>6 DEF StartAttempt, FinishAttempt, AttemptFails, brokerVars
  <2>2. result'[w] = "live" => StartAttempt(w)
    BY <1>0, <1>6 DEF FinishAttempt, AttemptFails
  <2> QED
    BY <1>1, <2>1, <2>2 DEF ReportIsDue, Busy
<1>7. CASE RecordClaim(w) \/ AnnounceClaim(w)
  <2>1. /\ wpc'[w] \in {"announce", "execute"} /\ Busy(w)
        /\ work' = work /\ result' = result /\ attempts' = attempts
    BY <1>0, <1>7 DEF RecordClaim, AnnounceClaim, WriteClaimIntent, SendClaimed, WorkerMoves, Busy
  <2> QED
    BY <1>0, <2>1 DEF ReportIsDue
<1>8. CASE ReportCompleted(w) \/ ReportSkipped(w) \/ ReportFatal(w) \/ ReportExited(w)
  <2>1. wpc'[w] \in {"claim", "exit", "exited"}
    BY <1>0, <1>8
    DEF ReportCompleted, ReportSkipped, ReportFatal, ReportExited, SendCompleted,
        SendSkippedPruned, SendFatal, SendExited, WorkerMoves
  <2> QED
    BY <2>1 DEF ReportIsDue, Busy
<1> QED
  BY <1>3, <1>4, <1>5, <1>6, <1>7, <1>8 DEF WorkerActs, Worker

\* What a worker sends is a message, and true.
LEMMA WorkerMessages ==
  ASSUME EngineInv, NEW w \in Workers, WorkerActs(w)
  PROVE  events' \in Seq(Messages) /\ \A i \in DOMAIN events' : IsTrue(events[i])'
<1>0. /\ BrokerTypeOK /\ Ownership /\ EngineTypes /\ ReportIsDue(w)
      /\ events \in Seq(Messages) /\ result[w] \in Outcomes
      /\ work[w] \in [trial : Trials \cup {NoTrial}, slot : Slots \cup {0}]
      /\ \A i \in DOMAIN events : IsTrue(events[i])
  BY DEF EngineInv, BrokerInv, Ownership, BrokerTypeOK, EngineTypes, ReportsAreTrue
<1>1. (\A s : HandedOver(s) => HandedOver(s)') /\ pruned \subseteq pruned'
  BY WorkerUsesBroker, BrokerKeeps DEF EngineInv
<1>2. \A i \in DOMAIN events : IsTrue(events[i]) /\ events'[i] = events[i] => IsTrue(events[i])'
  BY <1>1 DEF IsTrue
<1>3. CASE events' = events
  BY <1>0, <1>2, <1>3
<1>4. ASSUME NEW kind \in EventKinds, Send(kind, w),
             \/ kind = "Claimed" /\ Busy(w)
             \/ kind = "Completed" /\ wpc[w] = "report"
             \/ kind = "SkippedPruned" /\ wpc[w] = "skip"
             \/ kind \in {"Fatal", "Exited"}
      PROVE  events' \in Seq(Messages) /\ \A i \in DOMAIN events' : IsTrue(events[i])'
  <2> DEFINE e == [kind |-> kind, trial |-> work[w].trial, slot |-> work[w].slot,
                   result |-> result[w]]
  <2>1. e \in Messages /\ events' = Append(events, e)
    BY <1>0, <1>4 DEF Messages, Send
  <2>2. /\ e.kind = kind /\ e.trial = work[w].trial /\ e.slot = work[w].slot
        /\ e.result = result[w]
    OBVIOUS
  <2> HIDE DEF e
  <2>3. IsTrue(e)
    <3>1. CASE kind = "Claimed" /\ Busy(w)
      BY <1>0, <2>2, <3>1, BusyWork DEF IsTrue
    <3>2. CASE kind # "Claimed"
      BY <1>0, <1>4, <2>2, <3>2 DEF IsTrue, ReportIsDue
    <3> QED
      BY <1>4, <3>1, <3>2
  <2>4. /\ events' \in Seq(Messages) /\ Len(events') = Len(events) + 1 /\ Len(events) \in Nat
        /\ \A i \in 1 .. Len(events) : events'[i] = events[i]
        /\ events'[Len(events) + 1] = e
    BY <1>0, <2>1
  <2>5. DOMAIN events = 1 .. Len(events) /\ DOMAIN events' = 1 .. Len(events')
    BY <1>0, <2>4
  <2>6. \A i \in DOMAIN events' : i \in DOMAIN events \/ i = Len(events) + 1
    BY <2>4, <2>5
  <2>7. ASSUME NEW i \in DOMAIN events', i = Len(events) + 1
        PROVE  IsTrue(events[i])'
    <3>1. events'[i] = e
      BY <2>4, <2>7
    <3> QED
      BY <1>1, <2>3, <3>1 DEF IsTrue
  <2> QED
    BY <1>0, <1>2, <2>4, <2>5, <2>6, <2>7
<1>5. CASE AnnounceClaim(w)
  BY <1>4, <1>5 DEF AnnounceClaim, SendClaimed, WorkerMoves, Busy, EventKinds
<1>6. CASE ReportCompleted(w) \/ ReportSkipped(w) \/ ReportFatal(w) \/ ReportExited(w)
  BY <1>4, <1>6
  DEF ReportCompleted, ReportSkipped, ReportFatal, ReportExited, SendCompleted,
      SendSkippedPruned, WorkerMoves, EventKinds
<1> QED
  BY <1>3, <1>5, <1>6
  DEF WorkerActs, Worker, Pull, RecordClaim, StartAttempt, FinishAttempt, CompleteTrial, ClaimFails,
      AttemptFails

\* A worker's step keeps the invariant.
LEMMA WorkerStepGood ==
  ASSUME EngineInv, NEW w \in Workers, WorkerActs(w)
  PROVE  StepIsGood
<1>0. UNCHANGED <<row, journal, progress, pending, control, stage, outcome, mem, recovered,
                  drain_trial, keys, queue, slot_attempts, exited_workers, closing, pc>>
  BY WorkerLeaves
<1>1. (BrokerNext \/ UNCHANGED brokerVars) /\ pruned' = pruned
  BY WorkerUsesBroker
<1>2. BrokerInv' /\ \A s : HandedOver(s) => HandedOver(s)'
  BY <1>1, BrokerKeeps DEF EngineInv
<1>3. StoreInv' /\ UNCHANGED storeVars /\ RowsKept
  BY <1>0, StorePreservesUnchanged DEF EngineInv, storeVars, RowsKept
<1>4. EngineTypes'
  <2>1. /\ BrokerInv /\ EngineTypes /\ ReportsAreTrue
        /\ intents \in [Trials -> Slots \cup {0}] /\ result \in [Workers -> Outcomes]
        /\ work[w].slot \in Slots \cup {0}
    BY DEF EngineInv, EngineTypes, BrokerInv, Ownership, BrokerTypeOK
  <2>2. attempts' \in [Trials -> {NoAttempt} \cup Attempted] /\ events' \in Seq(Messages)
    BY <2>1, WorkerAttempts, WorkerMessages
  <2>3. intents' \in [Trials -> Slots \cup {0}]
    BY <2>1
    DEF WorkerActs, Worker, Pull, RecordClaim, AnnounceClaim, StartAttempt, FinishAttempt,
        CompleteTrial, ReportCompleted, ReportSkipped, ReportFatal, ReportExited, ClaimFails,
        AttemptFails
  <2>4. result' = result \/ \E r \in Outcomes : result' = [result EXCEPT ![w] = r]
    BY DEF WorkerActs, Worker, Pull, RecordClaim, AnnounceClaim, StartAttempt, FinishAttempt,
           CompleteTrial, ReportCompleted, ReportSkipped, ReportFatal, ReportExited, ClaimFails,
           AttemptFails, Outcomes
  <2>5. result' \in [Workers -> Outcomes]
    BY <2>1, <2>4
  <2> QED
    BY <1>0, <2>1, <2>2, <2>3, <2>5 DEF EngineTypes, Attempted
<1>5. BudgetKept'
  <2>1. budget' = budget \/ Spend("worker") \/ Spend("trial")
    BY DEF WorkerActs, Worker, Pull, RecordClaim, AnnounceClaim, StartAttempt, FinishAttempt,
           CompleteTrial, ReportCompleted, ReportSkipped, ReportFatal, ReportExited, ClaimFails,
           AttemptFails
  <2> QED
    BY <2>1, BudgetStep DEF EngineInv, Faults
<1>6. ReportsAreTrue'
  <2>1. ASSUME NEW u \in Workers, u # w PROVE ReportIsDue(u)'
    <3>1. /\ wpc'[u] = wpc[u] \/ wpc'[u] = "claim"
          /\ work'[u] = work[u] /\ result'[u] = result[u] /\ ReportIsDue(u)
      BY <2>1, OthersStay DEF EngineInv, ReportsAreTrue
    <3>2. \A t \in Trials : attempts[t] # NoAttempt => attempts'[t] # NoAttempt
      BY WorkerAttempts DEF EngineInv
    <3>3. Busy(u) => work[u].trial \in Trials
      BY BusyWork DEF EngineInv, BrokerInv
    <3> QED
      BY <1>1, <1>2, <3>1, <3>2, <3>3 DEF ReportIsDue, Busy
  <2>2. stage' # "boot"
    BY <1>0, WorkerRuns DEF EngineInv, ReportsAreTrue
  <2> QED
    BY <2>1, <2>2, WorkerReports, WorkerMessages DEF ReportsAreTrue
<1>7. DurableInv'
  BY <1>0, <1>3, DurableKept DEF EngineInv, DurableInv
<1>8. MemoryFollows'
  BY <1>0, <1>1 DEF EngineInv, MemoryFollows
<1>9. CommitterInv'
  BY <1>0, <1>2, <1>3, CommitterKept DEF EngineInv
<1>10. ResultKept
  BY <1>0 DEF ResultKept
<1> QED
  BY <1>1, <1>2, <1>3, <1>4, <1>5, <1>6, <1>7, <1>8, <1>9, <1>10 DEF StepIsGood, EngineInv

-----------------------------------------------------------------------------
(* The coordinator. *)

\* A step of the coordinator that commits nothing.
LEMMA CoordinatorStepGood ==
  ASSUME EngineInv, [CoordinatorStep]_brokerVars, CommitterInv', BudgetKept',
         UNCHANGED <<row, journal, progress, recovered, intents, attempts, slot_attempts, result>>,
         mem' \in Progresses, mem'.done = mem.done, mem'.pruned = mem.pruned,
         mem'.failures = mem.failures, pruned' \subseteq mem.pruned,
         pc # "down", pc' # "down", stage' = stage \/ stage' # "boot",
         events' = events \/ (events # <<>> /\ events' = Tail(events)),
         pending' \in [Slots -> Results \cup {NoResult}],
         queue' \in [Slots -> Results \cup {Skipped, NoResult}],
         drain_trial' \in 0 .. MaxTrials, control'.active \subseteq Actives, closing' \subseteq Slots,
         \A s \in Slots : /\ pending'[s] # NoResult => row[s].state # "committed"
                          /\ pending[s] # NoResult => pending'[s] = pending[s]
  PROVE  StepIsGood
<1>1. BrokerInv' /\ [BrokerNext]_brokerVars
  BY BrokerKeeps DEF EngineInv, BrokerNext
<1>2. StoreInv' /\ UNCHANGED storeVars /\ RowsKept
  BY StorePreservesUnchanged DEF EngineInv, storeVars, RowsKept
<1>3. ReportsAreTrue' /\ events' \in Seq(Messages)
  BY ReportsKept DEF EngineInv, EngineTypes
<1>4. EngineTypes'
  BY <1>3 DEF EngineInv, EngineTypes
<1>5. DurableInv'
  BY <1>2, DurableKept DEF EngineInv
<1>6. MemoryFollows'
  BY DEF EngineInv, MemoryFollows
<1>7. ResultKept
  BY DEF ResultKept
<1> QED
  BY <1>1, <1>2, <1>3, <1>4, <1>5, <1>6, <1>7 DEF StepIsGood, EngineInv

\* A step that leaves the committer alone too.
LEMMA QuietStepGood ==
  ASSUME EngineInv, [CoordinatorStep]_brokerVars, BudgetKept',
         UNCHANGED <<row, journal, progress, pending, recovered, intents, attempts, drain_trial,
                     keys, queue, slot_attempts, stage, result>>,
         mem' \in Progresses, mem'.done = mem.done, mem'.pruned = mem.pruned,
         mem'.failures = mem.failures, pruned' \subseteq mem.pruned,
         pc # "down",
         pc' = pc \/ /\ pc' \notin {"spawn", "commit", "down", "boot"}
                     /\ Working' => Working /\ stage # "boot",
         events' = events \/ (events # <<>> /\ events' = Tail(events)),
         control'.active \subseteq Actives, closing' \subseteq Slots
  PROVE  StepIsGood
<1>1. \A s : HandedOver(s) => HandedOver(s)'
  BY BrokerKeeps DEF EngineInv, BrokerNext
<1>2. RowsKept
  BY DEF RowsKept
<1>3. CommitterInv'
  BY <1>1, <1>2, CommitterKept DEF EngineInv
<1>4. \A s \in Slots : pending'[s] # NoResult => row[s].state # "committed"
  BY DEF EngineInv, DurableInv
<1>5. /\ pending' \in [Slots -> Results \cup {NoResult}]
      /\ queue' \in [Slots -> Results \cup {Skipped, NoResult}]
      /\ drain_trial' \in 0 .. MaxTrials
  BY DEF EngineInv, EngineTypes
<1> QED
  BY <1>3, <1>4, <1>5, CoordinatorStepGood

\* The trials in flight are trials of slots.
LEMMA ActiveTrials ==
  ASSUME EngineInv
  PROVE  active_trials \subseteq Actives /\ {d.slot : d \in in_flight} \subseteq Slots
BY DEF EngineInv, BrokerInv, Ownership, BrokerTypeOK, Dispatches, active_trials, Actives

\* The memory a process at work starts its step with.
LEMMA MemoryFacts ==
  ASSUME EngineInv, pc # "down"
  PROVE  /\ mem \in Progresses /\ pruned \subseteq mem.pruned /\ mem.pruned \subseteq Variants
         /\ control.active \subseteq Actives /\ closing \subseteq Slots
         /\ BudgetKept
BY DEF EngineInv, EngineTypes, MemoryFollows, Progresses

\* The failures of the boot, of a check in the loop, and of the last writes.
LEMMA EngineFailsGood ==
  ASSUME EngineInv, BootFails \/ LoopCheckFails \/ FinishFails
  PROVE  StepIsGood
<1>1. /\ UNCHANGED <<row, journal, progress, pending, control, recovered, intents, attempts,
                     drain_trial, keys, queue, slot_attempts, stage, result, mem, closing, events>>
      /\ UNCHANGED brokerVars /\ Spend("engine") /\ pc # "down"
      /\ pc' \in {"join", "shutdown"}
  BY DEF BootFails, LoopCheckFails, FinishFails, Fail, storeVars, durableVars
<1>2. pruned' = pruned
  BY <1>1 DEF brokerVars
<1>3. BudgetKept'
  BY <1>1, MemoryFacts, BudgetStep DEF Faults
<1>4. ~Working'
  BY <1>1 DEF Working
<1> QED
  BY <1>1, <1>2, <1>3, <1>4, MemoryFacts, QuietStepGood

\* Stopping the claims: an interrupt, a worker's fatal error, the shutdown.
LEMMA StopGood ==
  ASSUME EngineInv, Interrupt \/ OnFatal \/ Shutdown
  PROVE  StepIsGood
<1>1. /\ UNCHANGED <<row, journal, progress, pending, recovered, intents, attempts,
                     drain_trial, keys, queue, slot_attempts, stage, result, mem>>
      /\ stop_accepting /\ pc # "down"
      /\ pc' \in {"join", "shutdown", "release"}
      /\ events' = events \/ (events # <<>> /\ events' = Tail(events))
      /\ control' = control \/ control' = [status |-> "interrupted", active |-> active_trials]
      /\ closing' = closing \/ closing' = {d.slot : d \in in_flight}
      /\ budget' = budget \/ Spend("interrupt")
  BY DEF Interrupt, OnFatal, Shutdown, Receive, Fail, storeVars, durableVars
<1>2. [CoordinatorStep]_brokerVars
  BY <1>1, StopIsAStep DEF EngineInv
<1>3. pruned' = pruned
  BY <1>1 DEF stop_accepting
<1>4. BudgetKept'
  BY <1>1, MemoryFacts, BudgetStep DEF Faults
<1>5. ~Working' /\ pc' \notin {"spawn", "commit", "down", "boot"}
  BY <1>1 DEF Working
<1>6. control'.active \subseteq Actives /\ closing' \subseteq Slots
  BY <1>1, ActiveTrials, MemoryFacts
<1> QED
  BY <1>1, <1>2, <1>3, <1>4, <1>5, <1>6, MemoryFacts, QuietStepGood

\* run_control is written, or an exit counted.
LEMMA ControlGood ==
  ASSUME EngineInv, WriteControl \/ ClearControl \/ OnExited
  PROVE  StepIsGood
<1>1. /\ UNCHANGED <<row, journal, progress, pending, recovered, intents, attempts,
                     drain_trial, keys, queue, slot_attempts, stage, result, mem, closing>>
      /\ UNCHANGED brokerVars /\ pc # "down"
      /\ pc' = pc \/ pc' \in {"join", "shutdown"} \/ (pc = "control" /\ pc' = "loop")
      /\ events' = events \/ (events # <<>> /\ events' = Tail(events))
      /\ control' = control \/ \E st : \E a \in {{}, active_trials} : control' = [status |-> st, active |-> a]
      /\ budget' = budget \/ Spend("engine")
  BY DEF WriteControl, ClearControl, OnExited, Receive, storeVars, durableVars
<1>2. pruned' = pruned
  BY <1>1 DEF brokerVars
<1>3. BudgetKept'
  BY <1>1, MemoryFacts, BudgetStep DEF Faults
<1>4. pc' = pc \/ /\ pc' \notin {"spawn", "commit", "down", "boot"}
                  /\ Working' => Working /\ stage # "boot"
  BY <1>1 DEF Working, EngineInv, CommitterInv
<1>5. control'.active \subseteq Actives
  BY <1>1, ActiveTrials, MemoryFacts
<1> QED
  BY <1>1, <1>2, <1>3, <1>4, <1>5, MemoryFacts, QuietStepGood

\* A committed slot was handed over, so the broker may be told.
LEMMA MarkCommittedGood ==
  ASSUME EngineInv, MarkCommitted
  PROVE  StepIsGood
<1>1. PICK s \in committed_schedules : slot_states[s] # "Committed" /\ mark_committed(s)
  BY DEF MarkCommitted
<1>2. /\ UNCHANGED <<row, journal, progress, pending, control, recovered, intents, attempts,
                     drain_trial, keys, queue, slot_attempts, stage, result, mem, closing, events,
                     pc, budget>>
      /\ pc = "drain" /\ stage # "boot"
  BY DEF MarkCommitted, storeVars, durableVars, memoryVars
<1>3. s \in Slots /\ HandedOver(s)
  BY <1>2 DEF EngineInv, CommitterInv, Working
<1>4. CoordinatorStep /\ pruned' = pruned
  BY <1>1, <1>3 DEF CoordinatorStep, HandedOver, mark_committed
<1>5. BudgetKept'
  BY <1>2, BudgetStep DEF EngineInv
<1> QED
  BY <1>2, <1>4, <1>5, MemoryFacts, QuietStepGood

\* The pruned variants of the memory are at least those the broker knows.
LEMMA UpdatePrunedGood ==
  ASSUME EngineInv, UpdatePruned
  PROVE  StepIsGood
<1>1. /\ UNCHANGED <<row, journal, progress, pending, control, recovered, intents, attempts,
                     drain_trial, keys, queue, slot_attempts, stage, result, closing, events, budget>>
      /\ pc = "drain" /\ stage # "boot" /\ pc' = "persist"
      /\ mem' = [mem EXCEPT !.next_trial = trial_index] /\ update_pruned_variants(mem.pruned)
  BY DEF UpdatePruned, storeVars, durableVars
<1>2. pc # "down"
  BY <1>1
<1>3. CoordinatorStep /\ pruned' = mem.pruned
  BY <1>1, <1>2, MemoryFacts DEF CoordinatorStep, update_pruned_variants
<1>4. trial_index \in 0 .. MaxTrials /\ mem \in Progresses
  BY <1>2, MemoryFacts DEF EngineInv, BrokerInv, Ownership, BrokerTypeOK
<1>5. /\ mem' \in Progresses /\ mem'.done = mem.done /\ mem'.pruned = mem.pruned
      /\ mem'.failures = mem.failures
  BY <1>1, <1>4 DEF Progresses
<1>6. BudgetKept'
  BY <1>1, BudgetStep DEF EngineInv
<1>7. Working /\ pc' \notin {"spawn", "commit", "down", "boot"}
  BY <1>1 DEF Working
<1> QED
  BY <1>1, <1>2, <1>3, <1>5, <1>6, <1>7, MemoryFacts, QuietStepGood

\* No result, a result and a skip are told apart.
LEMMA ResultKinds ==
  /\ NoResult \notin Results /\ Skipped \notin Results /\ NoResult # Skipped
  /\ \A r \in Results : r.trial \in Trials /\ r.trial # NoTrial /\ r.status \in {"completed", "failed"}
BY TrialsAssumption DEF NoResult, Skipped, Results, Trials, NoTrial

\* Writing the queue's results to disk keeps those already there.
LEMMA QueueIsPersisted ==
  ASSUME EngineInv, Working, pending' = PendingRecords(queue)
  PROVE  /\ pending' \in [Slots -> Results \cup {NoResult}]
         /\ \A s \in Slots : /\ pending'[s] # NoResult => row[s].state # "committed" /\ queue[s] = pending'[s]
                             /\ pending[s] # NoResult => pending'[s] = pending[s]
<1>1. \A s \in Slots : pending'[s] = IF queue[s] \in Results THEN queue[s] ELSE NoResult
  BY DEF PendingRecords
<1>2. pending' \in [Slots -> Results \cup {NoResult}]
  BY DEF PendingRecords
<1>3. \A s \in Slots : /\ queue[s] # NoResult => row[s].state # "committed"
                       /\ pending[s] # NoResult => queue[s] = pending[s]
                       /\ pending[s] \in Results \cup {NoResult}
  BY DEF EngineInv, CommitterInv, EngineTypes
<1> QED
  BY <1>1, <1>2, <1>3, ResultKinds

\* The drain is over, or the loop has a new result: the queue goes to disk.
LEMMA PersistGood ==
  ASSUME EngineInv, PersistPending \/ PersistResult
  PROVE  StepIsGood
<1>1. /\ UNCHANGED <<row, journal, progress, control, recovered, intents, attempts,
                     keys, queue, slot_attempts, stage, result, closing, events, budget, mem>>
      /\ UNCHANGED brokerVars /\ pending' = PendingRecords(queue)
      /\ drain_trial' = drain_trial \/ drain_trial' = trial_index
      /\ pc \in {"persist", "drain", "result"}
      /\ \/ PersistPending /\ pc' = IF stage = "boot" THEN "spawn" ELSE "control"
         \/ pc' = "drain"
  BY DEF PersistPending, PersistResult, storeVars, memoryVars
<1>2. Working /\ pc # "down" /\ pc' # "down"
  BY <1>1 DEF Working
<1>3. /\ pending' \in [Slots -> Results \cup {NoResult}]
      /\ \A s \in Slots : /\ pending'[s] # NoResult => row[s].state # "committed" /\ queue[s] = pending'[s]
                          /\ pending[s] # NoResult => pending'[s] = pending[s]
  BY <1>1, <1>2, QueueIsPersisted
<1>4. drain_trial' \in 0 .. MaxTrials /\ queue' \in [Slots -> Results \cup {Skipped, NoResult}]
  BY <1>1 DEF EngineInv, BrokerInv, Ownership, BrokerTypeOK, EngineTypes
<1>5. BudgetKept' /\ pruned' = pruned
  BY <1>1, BudgetStep DEF EngineInv, brokerVars
<1>6. CommitterInv'
  <2>1. committed_schedules' = committed_schedules /\ \A s : HandedOver(s)' <=> HandedOver(s)
    BY <1>1 DEF committed_schedules, brokerVars, HandedOver
  <2>2. /\ committed_schedules' = {s \in Slots : row'[s].state = "committed"}
        /\ \A s \in Slots :
             /\ queue'[s] # NoResult => row'[s].state # "committed"
             /\ queue'[s] = Skipped => variant_idx[s] \in mem'.pruned
             /\ pending'[s] # NoResult => queue'[s] = pending'[s]
             /\ stage' # "boot" /\ (s \in committed_schedules' \/ queue'[s] # NoResult)
                  => HandedOver(s)'
    BY <1>1, <1>2, <1>3, <2>1 DEF EngineInv, CommitterInv
  <2>3. pc' = "spawn" => \A s \in Slots : queue'[s] = NoResult
    BY <1>1 DEF PersistPending, HasPending, EngineInv, CommitterInv
  <2>4. /\ pc' \in {"down", "boot", "spawn"} => stage' = "boot"
        /\ pc' \in {"persist", "loop", "result", "control"} => stage' # "boot"
        /\ pc' # "commit"
    BY <1>1
  <2> QED
    BY <2>2, <2>3, <2>4 DEF CommitterInv
<1> QED
  BY <1>1, <1>2, <1>3, <1>4, <1>5, <1>6, MemoryFacts, CoordinatorStepGood

\* A completion that is not refused is queued for an open slot.
LEMMA EnqueueKeeps ==
  ASSUME EngineInv, pc = "loop", NEW s \in Slots, NEW r \in Results \cup {Skipped},
         ~EnqueueFault(s, r), queue' = Enqueued(s, r), HandedOver(s),
         r = Skipped => variant_idx[s] \in pruned,
         UNCHANGED <<row, journal, progress, pending, keys, slot_attempts, stage, mem>>,
         UNCHANGED brokerVars, pc' \in {"drain", "result"}
  PROVE  CommitterInv' /\ queue' \in [Slots -> Results \cup {Skipped, NoResult}]
<1>1. Working /\ stage # "boot"
  BY DEF Working, EngineInv, CommitterInv
<1>2. queue \in [Slots -> Results \cup {Skipped, NoResult}]
  BY DEF EngineInv, EngineTypes
<1>3. committed_schedules' = committed_schedules /\ \A u : HandedOver(u)' <=> HandedOver(u)
  BY DEF committed_schedules, brokerVars, HandedOver
<1>4. /\ committed_schedules = {u \in Slots : row[u].state = "committed"}
      /\ \A u \in Slots :
             /\ queue[u] # NoResult => row[u].state # "committed"
             /\ queue[u] = Skipped => variant_idx[u] \in mem.pruned
             /\ pending[u] # NoResult => queue[u] = pending[u]
             /\ u \in committed_schedules \/ queue[u] # NoResult => HandedOver(u)
  BY <1>1 DEF EngineInv, CommitterInv
<1>5. r = Skipped => variant_idx[s] \in mem.pruned
  BY DEF EngineInv, MemoryFollows
<1>6. \/ queue' = queue
      \/ /\ queue' = [queue EXCEPT ![s] = r] /\ s \notin committed_schedules
         /\ queue[s] = NoResult \/ queue[s] = r
  BY DEF EnqueueFault, Enqueued
<1>7. /\ queue' \in [Slots -> Results \cup {Skipped, NoResult}]
      /\ \A u \in Slots :
             /\ queue'[u] # NoResult => row[u].state # "committed"
             /\ queue'[u] = Skipped => variant_idx[u] \in mem.pruned
             /\ pending[u] # NoResult => queue'[u] = pending[u]
             /\ u \in committed_schedules \/ queue'[u] # NoResult => HandedOver(u)
  BY <1>2, <1>4, <1>5, <1>6
<1> QED
  BY <1>1, <1>3, <1>4, <1>7 DEF CommitterInv

\* A skip or a result comes in.
LEMMA ReceiveGood ==
  ASSUME EngineInv, OnSkippedPruned \/ OnCompleted
  PROVE  StepIsGood
<1> DEFINE e == Head(events)
<1>1. /\ UNCHANGED <<row, journal, progress, pending, control, recovered, intents, attempts,
                     keys, slot_attempts, stage, result, closing, budget, mem>>
      /\ UNCHANGED brokerVars /\ pc = "loop" /\ pc # "down"
      /\ events # <<>> /\ events' = Tail(events)
  BY DEF OnSkippedPruned, OnCompleted, Receive, storeVars, durableVars
<1>2. IsTrue(e) /\ e \in Messages
  <2>1. events \in Seq(Messages)
    BY DEF EngineInv, EngineTypes
  <2>2. e = events[1] /\ 1 \in DOMAIN events /\ e \in Messages
    BY <1>1, <2>1, TailElements
  <2> QED
    BY <2>2 DEF EngineInv, ReportsAreTrue
<1>3. BudgetKept' /\ pruned' = pruned
  BY <1>1, BudgetStep DEF EngineInv, brokerVars
<1>4. ASSUME queue' = queue, drain_trial' = drain_trial, Fail
      PROVE  StepIsGood
  <2>1. pc' \in {"join", "shutdown"} /\ ~Working'
    BY <1>4 DEF Fail, Working
  <2> QED
    BY <1>1, <1>3, <1>4, <2>1, MemoryFacts, QuietStepGood
<1>5. ASSUME NEW s \in Slots, NEW r \in Results \cup {Skipped}, ~EnqueueFault(s, r),
             queue' = Enqueued(s, r), HandedOver(s), r = Skipped => variant_idx[s] \in pruned,
             pc' \in {"drain", "result"}, drain_trial' = drain_trial \/ drain_trial' = trial_index
      PROVE  StepIsGood
  <2>1. CommitterInv' /\ queue' \in [Slots -> Results \cup {Skipped, NoResult}]
    BY <1>1, <1>5, EnqueueKeeps
  <2>2. drain_trial' \in 0 .. MaxTrials
    BY <1>5 DEF EngineInv, BrokerInv, Ownership, BrokerTypeOK, EngineTypes
  <2>3. pending \in [Slots -> Results \cup {NoResult}]
    BY DEF EngineInv, EngineTypes
  <2>4. \A u \in Slots : pending[u] # NoResult => row[u].state # "committed"
    BY DEF EngineInv, DurableInv
  <2>5. pc' # "down"
    BY <1>5
  <2> QED
    BY <1>1, <1>3, <2>1, <2>2, <2>3, <2>4, <2>5, MemoryFacts, CoordinatorStepGood
<1> HIDE DEF e
<1>6. CASE OnSkippedPruned
  <2>1. e.kind = "SkippedPruned"
    BY <1>6 DEF OnSkippedPruned, Receive, e
  <2>2. e.slot \in Slots /\ HandedOver(e.slot) /\ variant_idx[e.slot] \in pruned
    BY <1>2, <2>1 DEF IsTrue, HandedOver
  <2>3. CASE EnqueueFault(e.slot, Skipped)
    BY <1>4, <1>6, <2>3 DEF OnSkippedPruned, e
  <2>4. CASE ~EnqueueFault(e.slot, Skipped)
    <3>1. queue' = Enqueued(e.slot, Skipped) /\ pc' = "drain" /\ drain_trial' = trial_index
      BY <1>6, <2>4 DEF OnSkippedPruned, e
    <3> QED
      BY <1>5, <2>2, <2>4, <3>1
  <2> QED
    BY <2>3, <2>4
<1>7. CASE OnCompleted
  <2> DEFINE r == [trial |-> e.trial, status |-> e.result]
  <2>1. e.kind = "Completed"
    BY <1>7 DEF OnCompleted, Receive, e
  <2>2. /\ e.slot \in Slots /\ HandedOver(e.slot) /\ e.trial \in Trials
        /\ e.result \in {"completed", "failed", "error"}
    BY <1>2, <2>1 DEF IsTrue, HandedOver
  <2>3. drain_trial' = drain_trial
    BY <1>7 DEF OnCompleted
  <2>4. CASE e.result = "error" \/ EnqueueFault(e.slot, r)
    BY <1>4, <1>7, <2>3, <2>4 DEF OnCompleted, e
  <2>5. CASE e.result # "error" /\ ~EnqueueFault(e.slot, r)
    <3>1. queue' = Enqueued(e.slot, r) /\ pc' = "result"
      BY <1>7, <2>5 DEF OnCompleted, e
    <3>2. r \in Results
      BY <2>2, <2>5 DEF Results
    <3> HIDE DEF r
    <3>3. r # Skipped
      BY <3>2, ResultKinds
    <3> QED
      BY <1>5, <2>2, <2>3, <2>5, <3>1, <3>2, <3>3
  <2> QED
    BY <2>4, <2>5
<1> QED
  BY <1>6, <1>7

\* The loop is left for an error or for the final drain.
LEMMA LeaveLoopGood ==
  ASSUME EngineInv, LeaveLoop
  PROVE  StepIsGood
<1>1. /\ UNCHANGED <<row, journal, progress, pending, control, recovered, intents, attempts,
                     keys, queue, slot_attempts, result, closing, events, budget, mem>>
      /\ UNCHANGED brokerVars /\ pc = "loop" /\ pc # "down"
      /\ \/ pc' = "shutdown" /\ UNCHANGED <<stage, drain_trial>>
         \/ stage' = "final" /\ pc' = "drain" /\ drain_trial' = trial_index
  BY DEF LeaveLoop, storeVars, durableVars
<1>2. BudgetKept' /\ pruned' = pruned
  BY <1>1, BudgetStep DEF EngineInv, brokerVars
<1>3. CASE pc' = "shutdown" /\ UNCHANGED <<stage, drain_trial>>
  <2>1. ~Working'
    BY <1>3 DEF Working
  <2> QED
    BY <1>1, <1>2, <1>3, <2>1, MemoryFacts, QuietStepGood
<1>4. CASE stage' = "final" /\ pc' = "drain" /\ drain_trial' = trial_index
  <2>1. committed_schedules' = committed_schedules /\ \A u : HandedOver(u)' <=> HandedOver(u)
    BY <1>1 DEF committed_schedules, brokerVars, HandedOver
  <2>2. Working /\ stage # "boot"
    BY <1>1 DEF EngineInv, CommitterInv, Working
  <2>3. CommitterInv'
    BY <1>1, <1>4, <2>1, <2>2 DEF EngineInv, CommitterInv
  <2>4. drain_trial' \in 0 .. MaxTrials
    BY <1>4 DEF EngineInv, BrokerInv, Ownership, BrokerTypeOK
  <2>5. /\ pending' \in [Slots -> Results \cup {NoResult}]
        /\ queue' \in [Slots -> Results \cup {Skipped, NoResult}]
    BY <1>1 DEF EngineInv, EngineTypes
  <2>6. \A u \in Slots : pending[u] # NoResult => row[u].state # "committed"
    BY DEF EngineInv, DurableInv
  <2>7. pc' # "down"
    BY <1>4
  <2> QED
    BY <1>1, <1>2, <2>3, <2>4, <2>5, <2>6, <2>7, MemoryFacts, CoordinatorStepGood
<1> QED
  BY <1>1, <1>3, <1>4

\* The broker is made from the rows and the committer, and the workers are spawned.
LEMMA SpawnGood ==
  ASSUME EngineInv, Spawn
  PROVE  StepIsGood
<1>1. /\ UNCHANGED <<row, journal, progress, pending, recovered, intents, attempts, drain_trial,
                     keys, queue, slot_attempts, result, closing, events, budget, mem>>
      /\ pc = "spawn" /\ pc # "down" /\ pc' = "loop" /\ stage' = "event"
      /\ control' = [status |-> "running", active |-> {}]
  BY DEF Spawn, storeVars
<1>2. row \in [Slots -> Rows] /\ \A s \in Slots : row[s].state \in {"pending", "active", "committed"}
  BY DEF EngineInv, StoreInv, StoreTypeOK, Rows
<1>3. /\ slot_states' \in [Slots -> {"Pending", "Committed", "BlockedActive"}]
      /\ \A s \in Slots : s \in committed_schedules => slot_states'[s] = "Committed"
  <2>1. slot_states' = BrokerStates
    BY DEF Spawn
  <2> DEFINE state(s) == CASE s \in committed_schedules -> "Committed"
                          [] row[s].state = "pending" -> "Pending"
                          [] row[s].state = "committed" -> "Committed"
                          [] row[s].state = "active" -> "BlockedActive"
  <2>2. slot_states' = [s \in Slots |-> state(s)]
    BY <2>1 DEF BrokerStates
  <2>3. /\ Working
        /\ committed_schedules = {s \in Slots : row[s].state = "committed"}
    BY <1>1 DEF Working, EngineInv, CommitterInv
  <2>4. ASSUME NEW s \in Slots
        PROVE  /\ state(s) \in {"Pending", "Committed", "BlockedActive"}
               /\ s \in committed_schedules => state(s) = "Committed"
    <3>1. CASE row[s].state = "committed"
      <4>1. s \in committed_schedules
        BY <2>3, <3>1
      <4> QED
        BY <3>1, <4>1
    <3>2. CASE row[s].state # "committed"
      <4>1. s \notin committed_schedules
        BY <2>3, <3>2
      <4>2. row[s].state = "pending" \/ row[s].state = "active"
        BY <1>2, <3>2
      <4> QED
        BY <4>1, <4>2
    <3> QED
      BY <3>1, <3>2
  <2> HIDE DEF state
  <2> QED
    BY <2>2, <2>4
<1>4. FreshBroker'
  <2>1. /\ pruned' \subseteq Variants /\ trial_index' \in 0 .. MaxTrials
        /\ pruned' = mem.pruned
    BY <1>1, MemoryFacts DEF Spawn, EngineInv, EngineTypes
  <2>2. Threads \in SUBSET Workers /\ Threads # {}
    BY DEF EngineInv, BudgetKept
  <2>3. \E ws \in SUBSET Workers :
          ws # {} /\ wpc' = [w \in Workers |-> IF w \in ws THEN "claim" ELSE "exited"]
    BY <2>2 DEF Spawn
  <2>4. /\ in_flight' = {} /\ in_flight_by_variant' = [v \in Variants |-> 0]
        /\ work' = [w \in Workers |-> NoWork]
    BY DEF Spawn
  <2>5. accepting' = TRUE /\ faulted' = FALSE
    BY DEF Spawn
  <2> QED
    BY <1>3, <2>1, <2>3, <2>4, <2>5 DEF FreshBroker
<1>5. BrokerInv' /\ BudgetKept'
  BY <1>1, <1>4, BrokerStartsNext, BudgetStep DEF EngineInv
<1>6. StoreInv' /\ UNCHANGED storeVars /\ RowsKept
  BY <1>1, StorePreservesUnchanged DEF EngineInv, storeVars, RowsKept
<1>7. EngineTypes'
  BY <1>1 DEF EngineInv, EngineTypes
<1>8. ReportsAreTrue'
  <2>1. \A w \in Workers : wpc'[w] \in {"claim", "exited"}
    BY <1>4 DEF FreshBroker
  <2>2. \A w \in Workers : ReportIsDue(w)'
    BY <2>1 DEF ReportIsDue, Busy
  <2>3. events = <<>>
    BY <1>1 DEF EngineInv, CommitterInv, ReportsAreTrue
  <2>4. stage' # "boot" /\ DOMAIN events' = {}
    BY <1>1, <2>3
  <2> QED
    BY <2>2, <2>4 DEF ReportsAreTrue
<1>9. DurableInv'
  BY <1>1, <1>6, DurableKept DEF EngineInv, DurableInv
<1>10. MemoryFollows'
  BY <1>1 DEF EngineInv, MemoryFollows, Spawn
<1>11. CommitterInv'
  <2>1. /\ Working
        /\ committed_schedules = {s \in Slots : row[s].state = "committed"}
        /\ \A s \in Slots : /\ pending[s] # NoResult => queue[s] = pending[s]
                            /\ queue[s] = NoResult
    BY <1>1 DEF Working, EngineInv, CommitterInv
  <2>2. NoResult # Skipped /\ committed_schedules' = committed_schedules
    BY <1>1, ResultKinds DEF committed_schedules
  <2>3. \A s \in Slots : s \in committed_schedules => HandedOver(s)'
    BY <1>3 DEF HandedOver
  <2> QED
    BY <1>1, <2>1, <2>2, <2>3 DEF CommitterInv
<1>12. ResultKept
  BY <1>1 DEF ResultKept
<1> QED
  BY <1>1, <1>5, <1>6, <1>7, <1>8, <1>9, <1>10, <1>11, <1>12 DEF StepIsGood, EngineInv

\* A claim arrives, or a slot is released: one open row changes.
LEMMA OpenRowGood ==
  ASSUME EngineInv, NEW s \in Slots,
         release_schedule_slot_to_pending(s) \/ \E t \in Trials : claim_schedule_slot(s, t),
         UNCHANGED <<progress, pending, control, recovered, intents, attempts, drain_trial, keys,
                     queue, slot_attempts, stage, result, mem, budget>>,
         UNCHANGED brokerVars, pc # "down",
         pc' = pc \/ /\ pc' \notin {"spawn", "commit", "down", "boot"}
                     /\ Working' => Working /\ stage # "boot",
         events' = events \/ (events # <<>> /\ events' = Tail(events)), closing' \subseteq Slots
  PROVE  StepIsGood
<1>1. StoreNext /\ RowsKept /\ journal' = journal
  BY OpenRowKept DEF EngineInv
<1>2. StoreInv'
  BY <1>1, StoreStep DEF EngineInv
<1>3. /\ BrokerInv' /\ \A u : HandedOver(u) => HandedOver(u)'
      /\ pruned' = pruned
  BY BrokerKeeps DEF EngineInv, brokerVars
<1>4. ReportsAreTrue' /\ events' \in Seq(Messages)
  BY ReportsKept DEF EngineInv, EngineTypes
<1>5. EngineTypes'
  BY <1>4 DEF EngineInv, EngineTypes
<1>6. DurableInv'
  BY <1>1, DurableKept DEF EngineInv, DurableInv
<1>7. MemoryFollows'
  BY <1>3 DEF EngineInv, MemoryFollows
<1>8. CommitterInv'
  BY <1>1, <1>3, CommitterKept DEF EngineInv
<1>9. BudgetKept' /\ ResultKept
  BY BudgetStep DEF EngineInv, ResultKept
<1> QED
  BY <1>1, <1>2, <1>3, <1>4, <1>5, <1>6, <1>7, <1>8, <1>9 DEF StepIsGood, EngineInv

\* A claim announced is a claim of a slot.
LEMMA OnClaimedGood ==
  ASSUME EngineInv, OnClaimed
  PROVE  StepIsGood
<1> DEFINE e == Head(events)
<1>1. /\ UNCHANGED <<progress, pending, control, recovered, intents, attempts, drain_trial, keys,
                     queue, slot_attempts, stage, result, mem, budget, closing>>
      /\ UNCHANGED brokerVars /\ pc = "loop" /\ pc' = "control" /\ e.kind = "Claimed"
      /\ claim_schedule_slot(e.slot, e.trial)
      /\ events # <<>> /\ events' = Tail(events)
  BY DEF OnClaimed, Receive, durableVars
<1>2. events \in Seq(Messages)
  BY DEF EngineInv, EngineTypes
<1>3. e = events[1] /\ 1 \in DOMAIN events
  BY <1>1, <1>2, TailElements
<1>4. IsTrue(e)
  BY <1>3 DEF EngineInv, ReportsAreTrue
<1> HIDE DEF e
<1>5. e.trial \in Trials /\ e.slot \in Slots
  BY <1>1, <1>4 DEF IsTrue
<1>6. Working /\ stage # "boot" /\ pc # "down" /\ closing \subseteq Slots
  BY <1>1 DEF EngineInv, CommitterInv, EngineTypes, Working
<1> QED
  BY <1>1, <1>5, <1>6, OpenRowGood

\* The releases of the shutdown and of the recovery.
LEMMA ReleaseGood ==
  ASSUME EngineInv, ReleaseInFlight \/ ReleaseAbandoned \/ ReleaseRow
  PROVE  StepIsGood
<1>1. /\ UNCHANGED <<progress, pending, control, recovered, intents, attempts, drain_trial, keys,
                     queue, slot_attempts, stage, result, mem, budget, events>>
      /\ UNCHANGED brokerVars /\ pc \in {"release", "abandoned", "attempts"}
      /\ pc' = pc \/ pc' = "attempts"
      /\ closing' \subseteq closing
  BY DEF ReleaseInFlight, ReleaseAbandoned, ReleaseRow, durableVars, memoryVars
<1>2. \E s \in Slots : release_schedule_slot_to_pending(s)
  <2>1. /\ closing \subseteq Slots /\ control.active \subseteq Actives
        /\ intents \in [Trials -> Slots \cup {0}]
    BY DEF EngineInv, EngineTypes
  <2>2. \A a \in Claimants : a.slot \in Slots
    BY <2>1 DEF Claimants, Actives
  <2>3. ReleasableRows \subseteq Slots
    BY <2>2 DEF ReleasableRows
  <2> QED
    BY <2>1, <2>3 DEF ReleaseInFlight, ReleaseAbandoned, ReleaseRow
<1>3. PICK s \in Slots : release_schedule_slot_to_pending(s)
  BY <1>2
<1>4. ~Working' /\ pc' \notin {"spawn", "commit", "down", "boot"} /\ pc # "down"
  BY <1>1 DEF Working
<1>5. closing' \subseteq Slots
  BY <1>1 DEF EngineInv, EngineTypes
<1> QED
  BY <1>1, <1>3, <1>4, <1>5, OpenRowGood

-----------------------------------------------------------------------------
(* The end of a process, and what takes a run up again. *)

\* Whenever a process ends, what it leaves on disk is in order.
LEMMA ProcessEndsGood ==
  ASSUME EngineInv, ProcessEnds, BudgetKept', control'.active \subseteq Actives,
         UNCHANGED <<row, journal, progress, pending, intents, attempts>>
  PROVE  StepIsGood
<1>1. NoBroker'
  BY DEF NoBroker, ProcessEnds
<1>2. BrokerInv' /\ pc' = "down"
  BY <1>1, BrokerStartsNext DEF ProcessEnds
<1>3. StoreInv' /\ UNCHANGED storeVars /\ RowsKept
  BY StorePreservesUnchanged DEF EngineInv, storeVars, RowsKept
<1>4. EngineTypes'
  <2>1. NewProgress \in Progresses
    BY TrialsAssumption DEF NewProgress, Progresses
  <2>2. /\ queue' \in [Slots -> Results \cup {Skipped, NoResult}]
        /\ slot_attempts' \in [Slots -> 0 .. MaxAttempts] /\ drain_trial' \in 0 .. MaxTrials
        /\ result' \in [Workers -> Outcomes] /\ events' \in Seq(Messages)
    BY TrialsAssumption, AttemptsAssumption DEF ProcessEnds, Outcomes
  <2> QED
    BY <2>1, <2>2 DEF ProcessEnds, EngineInv, EngineTypes
<1>5. ReportsAreTrue'
  <2>1. \A w \in Workers : wpc'[w] = "exited"
    BY DEF ProcessEnds
  <2>2. events' = <<>>
    BY DEF ProcessEnds
  <2>3. \A w \in Workers : ReportIsDue(w)'
    BY <2>1 DEF ReportIsDue, Busy
  <2>4. DOMAIN events' = {}
    BY <2>2
  <2> QED
    BY <2>1, <2>2, <2>3, <2>4 DEF ReportsAreTrue
<1>6. DurableInv'
  BY <1>3, DurableKept DEF EngineInv, DurableInv
<1>7. MemoryFollows'
  BY <1>2 DEF MemoryFollows, ProcessEnds
<1>8. CommitterInv'
  BY DEF CommitterInv, Working, ProcessEnds
<1>9. ResultKept
  BY DEF ResultKept
<1> QED
  BY <1>2, <1>3, <1>4, <1>5, <1>6, <1>7, <1>8, <1>9 DEF StepIsGood, EngineInv

LEMMA EndGood ==
  ASSUME EngineInv, Conclude \/ Crash \/ FinishRecovery \/ RecoveryFails
  PROVE  StepIsGood
<1>1. /\ ProcessEnds
      /\ UNCHANGED <<row, journal, progress, pending, intents, attempts>>
      /\ budget' = budget \/ Spend("crash") \/ Spend("recover")
      /\ control' = control \/ \E st : control' = [status |-> st, active |-> {}]
  BY DEF Conclude, Crash, FinishRecovery, RecoveryFails, storeVars, durableVars
<1>2. BudgetKept'
  BY <1>1, BudgetStep DEF EngineInv, Faults
<1>3. control'.active \subseteq Actives
  BY <1>1 DEF EngineInv, EngineTypes
<1> QED
  BY <1>1, <1>2, <1>3, ProcessEndsGood

\* A step outside the engine: only the memory, the progress and the notes of the recovery.
LEMMA OperatorStepGood ==
  ASSUME EngineInv, UNCHANGED brokerVars, RowsKept, pending' = pending,
         UNCHANGED <<row, journal, result, events, stage, budget>>,
         EngineTypes', MemoryFollows', CommitterInv',
         \A t \in Trials : attempts[t] # NoAttempt => attempts'[t] # NoAttempt,
         progress'.done = progress.done, progress'.pruned = progress.pruned,
         progress'.failures = progress.failures
  PROVE  StepIsGood
<1>1. BrokerInv' /\ StoreInv' /\ UNCHANGED storeVars /\ BudgetKept'
  BY BrokerKeeps, StorePreservesUnchanged, BudgetStep DEF EngineInv, storeVars
<1>2. ReportsAreTrue'
  <2>1. UNCHANGED <<wpc, work, slot_states, pruned>>
    BY DEF brokerVars
  <2>2. ASSUME NEW w \in Workers PROVE ReportIsDue(w)'
    <3>1. ReportIsDue(w)
      BY DEF EngineInv, ReportsAreTrue
    <3>2. Busy(w) => work[w].trial \in Trials
      BY BusyWork DEF EngineInv, BrokerInv
    <3> QED
      BY <2>1, <3>1, <3>2 DEF ReportIsDue, Busy, HandedOver
  <2>3. \A i \in DOMAIN events' : IsTrue(events[i])'
    BY <2>1 DEF EngineInv, ReportsAreTrue, IsTrue, HandedOver
  <2> QED
    BY <2>1, <2>2, <2>3 DEF EngineInv, ReportsAreTrue
<1>3. DurableInv'
  BY DurableKept DEF EngineInv, DurableInv
<1>4. ResultKept
  BY DEF ResultKept
<1> QED
  BY <1>1, <1>2, <1>3, <1>4 DEF StepIsGood, EngineInv

\* continue_run starts from the progress on disk.
LEMMA ContinueGood ==
  ASSUME EngineInv, ContinueRun
  PROVE  StepIsGood
<1>1. /\ UNCHANGED <<row, journal, progress, pending, intents, attempts, stage, keys, queue,
                     slot_attempts, events, closing, result, budget>>
      /\ UNCHANGED brokerVars /\ pc = "down" /\ pc' = "boot"
      /\ mem' = progress /\ recovered' = control.active
      /\ control' = [status |-> "running", active |-> {}]
      /\ drain_trial' = Max({progress.next_trial} \cup {a.trial : a \in control.active})
  BY DEF ContinueRun, storeVars
<1>2. progress \in Progresses /\ control.active \subseteq Actives
  BY DEF EngineInv, EngineTypes
<1>3. drain_trial' \in 0 .. MaxTrials
  <2> DEFINE S == {progress.next_trial} \cup {a.trial : a \in control.active}
  <2>1. S \in SUBSET (0 .. MaxTrials) /\ S # {}
    BY <1>2, TrialsAssumption DEF Progresses, Actives, Trials
  <2>2. drain_trial' = Max(S)
    BY <1>1
  <2> HIDE DEF S
  <2>3. Max(S) \in S
    BY <2>1, MaxInSet, TrialsAssumption
  <2> QED
    BY <2>1, <2>2, <2>3
<1>4. EngineTypes'
  BY <1>1, <1>2, <1>3 DEF EngineInv, EngineTypes
<1>5. MemoryFollows'
  <2>1. pruned' = {} /\ pc' # "down"
    BY <1>1 DEF EngineInv, MemoryFollows, brokerVars
  <2> QED
    BY <1>1, <2>1 DEF MemoryFollows
<1>6. CommitterInv'
  BY <1>1 DEF EngineInv, CommitterInv, Working
<1>7. RowsKept
  BY <1>1 DEF RowsKept
<1> QED
  BY <1>1, <1>4, <1>5, <1>6, <1>7, OperatorStepGood

\* recover_run finds journal, rows and progress in agreement, and leaves them so.
LEMMA RecoverGood ==
  ASSUME EngineInv, RecoverRun
  PROVE  StepIsGood
<1>1. /\ UNCHANGED <<journal, progress, pending, control, intents, attempts, stage, keys, queue,
                     slot_attempts, events, closing, result, budget, recovered, drain_trial>>
      /\ UNCHANGED brokerVars /\ pc = "down" /\ pc' = "attempts"
  BY DEF RecoverRun, durableVars
<1>2. /\ \A s \in Slots : committed_by_schedule[s] = row[s].commit
      /\ committed_by_schedule \in [Slots -> {row[s].commit : s \in Slots}]
  BY JournalReadsRow DEF EngineInv, committed_by_schedule
<1>3. progress \in Progresses /\ progress.done \in [Slots -> Commits \cup {NoCommit}]
  BY DEF EngineInv, EngineTypes, Progresses
<1>4. progress.done = committed_by_schedule
  BY <1>2, <1>3 DEF EngineInv, DurableInv
<1>5. mem' = progress
  <2>1. mem' = [progress EXCEPT !.done = committed_by_schedule, !.pruned = @, !.failures = @]
    BY <1>4 DEF RecoverRun
  <2> QED
    BY <1>3, <1>4, <2>1 DEF Progresses
<1>6. row' = row
  <2>1. row \in [Slots -> Rows] /\ RowShape
    BY DEF EngineInv, StoreInv, StoreTypeOK
  <2>2. \A s \in Slots : row[s].commit # NoCommit => row[s] = CommittedRow(row[s].commit)
    BY <2>1 DEF RowShape
  <2>3. row' = [s \in Slots |-> IF row[s].commit = NoCommit THEN row[s] ELSE CommittedRow(row[s].commit)]
    BY <1>2 DEF RecoverRun
  <2>4. row' = [s \in Slots |-> row[s]]
    BY <2>2, <2>3
  <2> QED
    BY <2>1, <2>4
<1>7. EngineTypes'
  BY <1>1, <1>3, <1>5 DEF EngineInv, EngineTypes
<1>8. MemoryFollows'
  <2>1. pruned' = {} /\ pc' # "down"
    BY <1>1 DEF EngineInv, MemoryFollows, brokerVars
  <2> QED
    BY <1>1, <1>5, <2>1 DEF MemoryFollows
<1>9. CommitterInv'
  BY <1>1 DEF CommitterInv, Working
<1>10. RowsKept
  BY <1>6 DEF RowsKept
<1> QED
  BY <1>1, <1>6, <1>7, <1>8, <1>9, <1>10, OperatorStepGood

\* An attempt is marked committed, or abandoned with its slot still to release.
LEMMA ReconcileAttemptGood ==
  ASSUME EngineInv, ReconcileAttempt
  PROVE  StepIsGood
<1>1. /\ UNCHANGED <<row, journal, progress, pending, control, intents, stage, keys, queue,
                     slot_attempts, events, result, budget, recovered, drain_trial, mem>>
      /\ UNCHANGED brokerVars /\ pc = "attempts" /\ pc' \in {"attempts", "abandoned"}
  BY DEF ReconcileAttempt, storeVars
<1>2. PICK t \in Unreconciled, phase \in {"committed", "abandoned"} :
           /\ attempts' = [attempts EXCEPT ![t].phase = phase]
           /\ closing' = closing \/ closing' = {attempts[t].slot}
  BY DEF ReconcileAttempt
<1>3. t \in Trials /\ attempts[t].phase # "none"
  BY DEF Unreconciled, CommittedItself, RequiresRelease
<1>4. attempts \in [Trials -> {NoAttempt} \cup Attempted] /\ closing \subseteq Slots
  BY DEF EngineInv, EngineTypes, Attempted
<1>5. attempts[t] \in Attempted
  BY <1>3, <1>4 DEF NoAttempt
<1> DEFINE a == [attempts[t] EXCEPT !.phase = phase]
<1>6. a \in Attempted /\ a # NoAttempt /\ attempts[t].slot \in Slots
  BY <1>5 DEF Attempted, NoAttempt
<1>7. attempts' = [attempts EXCEPT ![t] = a]
  BY <1>2
<1> HIDE DEF a
<1>8. /\ attempts' \in [Trials -> {NoAttempt} \cup Attempted] /\ closing' \subseteq Slots
      /\ \A u \in Trials : attempts[u] # NoAttempt => attempts'[u] # NoAttempt
  BY <1>2, <1>3, <1>4, <1>6, <1>7
<1>9. EngineTypes'
  BY <1>1, <1>8 DEF EngineInv, EngineTypes, Attempted
<1>10. MemoryFollows' /\ CommitterInv' /\ RowsKept
  BY <1>1 DEF EngineInv, MemoryFollows, CommitterInv, Working, RowsKept, brokerVars
<1> QED
  BY <1>1, <1>8, <1>9, <1>10, OperatorStepGood

\* The progress a recovery stores is the one it found.
LEMMA ReconcileProgressGood ==
  ASSUME EngineInv, ReconcileProgress
  PROVE  StepIsGood
<1>1. /\ UNCHANGED <<row, journal, pending, control, intents, attempts, stage, keys, queue,
                     slot_attempts, events, result, budget, recovered, drain_trial, mem, closing>>
      /\ UNCHANGED brokerVars /\ pc = "attempts" /\ pc' = "reconciled" /\ progress' = mem
  BY DEF ReconcileProgress, storeVars, memoryVars
<1>2. EngineTypes'
  BY <1>1 DEF EngineInv, EngineTypes
<1>3. /\ progress'.done = progress.done /\ progress'.pruned = progress.pruned
      /\ progress'.failures = progress.failures
  BY <1>1 DEF EngineInv, MemoryFollows
<1>4. MemoryFollows' /\ CommitterInv' /\ RowsKept
  BY <1>1 DEF EngineInv, MemoryFollows, CommitterInv, Working, RowsKept, brokerVars
<1> QED
  BY <1>1, <1>2, <1>3, <1>4, OperatorStepGood

\* Nothing happens.
LEMMA StutterGood ==
  ASSUME EngineInv, UNCHANGED vars
  PROVE  StepIsGood
<1>1. /\ UNCHANGED <<row, journal, progress, pending, control, intents, attempts, stage, outcome,
                     keys, queue, slot_attempts, events, exited_workers, result, budget, recovered,
                     drain_trial, mem, closing, pc>>
      /\ UNCHANGED brokerVars
  BY DEF vars, storeVars, durableVars, memoryVars
<1>2. EngineTypes' /\ MemoryFollows' /\ RowsKept
  BY <1>1 DEF EngineInv, EngineTypes, MemoryFollows, RowsKept, brokerVars
<1>3. \A s : HandedOver(s) => HandedOver(s)'
  BY <1>1 DEF HandedOver, brokerVars
<1>4. CommitterInv'
  BY <1>1, <1>2, <1>3, CommitterKept DEF EngineInv
<1> QED
  BY <1>1, <1>2, <1>4, OperatorStepGood

-----------------------------------------------------------------------------
(* The committer. *)

\* The keys of the boot are those of the committed slots.
LEMMA KnownSlots ==
  ASSUME EngineInv
  PROVE  {k.slot : k \in known_keys} = {s \in Slots : row[s].state = "committed"}
<1>1. \A s \in Slots : progress.done[s] # NoCommit <=> row[s].state = "committed"
  BY NoCommitIsNoCommit DEF EngineInv, DurableInv, StoreInv, RowShape
<1>2. \A q \in journal : q.kind = "commit" => q.slot \in Slots /\ row[q.slot].state = "committed"
  <2> SUFFICES ASSUME NEW q \in journal, q.kind = "commit"
               PROVE  q.slot \in Slots /\ row[q.slot].state = "committed"
    OBVIOUS
  <2>1. q.slot \in Slots
    BY DEF EngineInv, StoreInv, StoreTypeOK, Records
  <2>2. q \in {r \in journal : r.slot = q.slot /\ r.kind = "commit"}
    OBVIOUS
  <2> QED
    BY <2>1, <2>2 DEF EngineInv, StoreInv, JournalMatchesRows
<1>3. \A s, r : Key(s, r).slot = s
  BY DEF Key
<1>4. \A k \in known_keys : k.slot \in Slots /\ row[k.slot].state = "committed"
  BY <1>1, <1>2, <1>3 DEF known_keys
<1>5. \A s \in Slots : row[s].state = "committed" => Key(s, progress.done[s]) \in known_keys
  BY <1>1 DEF known_keys
<1> QED
  BY <1>3, <1>4, <1>5

\* The highest attempt on record is within the bound.
LEMMA HighestAttempt ==
  ASSUME EngineInv, NEW s \in Slots
  PROVE  highest_attempt(s) \in 0 .. MaxAttempts
<1> DEFINE S == {0, progress.done[s].attempt}
                  \cup {r.commit.attempt : r \in {q \in journal : q.slot = s}}
<1>1. \A c \in Commits : c.attempt \in 0 .. MaxAttempts
  BY AttemptsAssumption DEF Commits, Attempts
<1>2. progress.done[s] \in Commits \cup {NoCommit} /\ NoCommit.attempt = 0
  BY DEF EngineInv, EngineTypes, Progresses, NoCommit
<1>3. \A r \in journal : r.commit \in Commits
  BY DEF EngineInv, StoreInv, StoreTypeOK, Records
<1>4. S \in SUBSET (0 .. MaxAttempts) /\ S # {}
  BY <1>1, <1>2, <1>3, AttemptsAssumption
<1>5. highest_attempt(s) = Max(S)
  BY DEF highest_attempt
<1> HIDE DEF S
<1> QED
  BY <1>4, <1>5, MaxInSet, AttemptsAssumption

\* What the boot restores is a result for an open slot, the persisted one if there is one.
LEMMA RestoredResults ==
  ASSUME EngineInv, NEW s \in Slots
  PROVE  /\ Restored(s) \subseteq Results
         /\ Restored(s) # {} => row[s].state # "committed"
         /\ pending[s] # NoResult => Restored(s) = {pending[s]}
<1>1. IsKnown(s) <=> row[s].state = "committed"
  <2>1. IsKnown(s) <=> s \in {k.slot : k \in known_keys}
    BY DEF IsKnown
  <2> QED
    BY <2>1, KnownSlots
<1>2. LostTrials(s) \subseteq Results
  BY DEF EngineInv, EngineTypes, LostTrials, Actives, Results
<1>3. /\ pending[s] \in Results \cup {NoResult}
      /\ pending[s] # NoResult => row[s].state # "committed"
  BY DEF EngineInv, EngineTypes, DurableInv
<1> QED
  BY <1>1, <1>2, <1>3 DEF Restored

\* The boot takes up what an earlier engine left.
LEMMA BootGood ==
  ASSUME EngineInv, Boot
  PROVE  StepIsGood
<1>1. /\ UNCHANGED <<row, journal, progress, control, intents, attempts, stage, events, closing,
                     result, budget, mem, recovered, drain_trial>>
      /\ UNCHANGED brokerVars /\ pc = "boot" /\ pc' = "drain"
      /\ keys' = known_keys /\ slot_attempts' = [s \in Slots |-> highest_attempt(s)]
      /\ queue' = [s \in Slots |-> IF Restored(s) = {} THEN NoResult
                                   ELSE CHOOSE r \in Restored(s) : TRUE]
      /\ pending' = PendingRecords(queue')
  BY DEF Boot, storeVars
<1>2. \A s \in Slots :
        /\ queue'[s] = NoResult \/ (queue'[s] \in Results /\ row[s].state # "committed")
        /\ pending[s] # NoResult => queue'[s] = pending[s]
  <2> SUFFICES ASSUME NEW s \in Slots
               PROVE  /\ queue'[s] = NoResult \/ (queue'[s] \in Results /\ row[s].state # "committed")
                      /\ pending[s] # NoResult => queue'[s] = pending[s]
    OBVIOUS
  <2>1. queue'[s] = IF Restored(s) = {} THEN NoResult ELSE CHOOSE r \in Restored(s) : TRUE
    BY <1>1
  <2>2. Restored(s) # {} => queue'[s] \in Restored(s)
    BY <2>1
  <2> QED
    BY <2>1, <2>2, RestoredResults
<1>3. \A s \in Slots : pending'[s] = queue'[s]
  BY <1>1, <1>2 DEF PendingRecords
<1>4. /\ queue' \in [Slots -> Results \cup {Skipped, NoResult}]
      /\ pending' \in [Slots -> Results \cup {NoResult}]
      /\ slot_attempts' \in [Slots -> 0 .. MaxAttempts]
  <2>1. DOMAIN queue' = Slots /\ queue' = [s \in Slots |-> queue'[s]]
    BY <1>1
  <2>2. pending' = [s \in Slots |-> pending'[s]]
    BY <1>1 DEF PendingRecords
  <2>3. slot_attempts' \in [Slots -> 0 .. MaxAttempts]
    BY <1>1, HighestAttempt
  <2> QED
    BY <1>2, <1>3, <2>1, <2>2, <2>3
<1>5. EngineTypes' /\ BudgetKept'
  BY <1>1, <1>4, BudgetStep DEF EngineInv, EngineTypes
<1>6. BrokerInv' /\ StoreInv' /\ UNCHANGED storeVars /\ RowsKept
  BY <1>1, BrokerKeeps, StorePreservesUnchanged DEF EngineInv, storeVars, RowsKept
<1>7. ReportsAreTrue'
  BY <1>1, ReportsKept DEF EngineInv, EngineTypes
<1>8. DurableInv'
  BY <1>1, <1>2, <1>3, <1>6, DurableKept DEF EngineInv
<1>9. MemoryFollows'
  BY <1>1 DEF EngineInv, MemoryFollows, brokerVars
<1>10. CommitterInv'
  <2>1. committed_schedules' = {s \in Slots : row'[s].state = "committed"}
    BY <1>1, KnownSlots DEF committed_schedules
  <2>2. stage' = "boot"
    BY <1>1 DEF EngineInv, CommitterInv
  <2>3. \A s \in Slots : queue'[s] # Skipped
    BY <1>2, ResultKinds
  <2> QED
    BY <1>1, <1>2, <1>3, <2>1, <2>2, <2>3 DEF CommitterInv
<1>11. ResultKept
  BY <1>2, <1>3 DEF ResultKept
<1> QED
  BY <1>1, <1>5, <1>6, <1>7, <1>8, <1>9, <1>10, <1>11 DEF StepIsGood, EngineInv

\* The commit of a queued slot is a commit, and says so if it is a skip.
LEMMA CommitOfQueue ==
  ASSUME EngineInv, NEW s \in Slots, queue[s] # NoResult, slot_attempts[s] < MaxAttempts
  PROVE  /\ CommitOf(s) \in Commits /\ CommitOf(s) # NoCommit
         /\ CommitOf(s).trial = queue[s].trial /\ CommitOf(s).status = queue[s].status
         /\ CommitOf(s).attempt = slot_attempts[s] + 1
         /\ CommitOf(s).trial = NoTrial <=> queue[s] = Skipped
         /\ CommitOf(s).trial = NoTrial <=> CommitOf(s).status = "skipped_pruned"
         /\ CommitOf(s).status \in {"completed", "failed", "skipped_pruned"}
<1>1. slot_attempts[s] \in 0 .. MaxAttempts /\ slot_attempts[s] + 1 \in Attempts
  BY AttemptsAssumption DEF EngineInv, EngineTypes, Attempts
<1>2. queue[s] \in Results \/ queue[s] = Skipped
  BY DEF EngineInv, EngineTypes
<1>3. CASE queue[s] \in Results
  <2>1. /\ queue[s].trial \in Trials /\ queue[s].trial # NoTrial /\ queue[s] # Skipped
        /\ queue[s].status \in {"completed", "failed"}
    BY <1>3, ResultKinds
  <2> QED
    BY <1>1, <2>1, NoCommitIsNoCommit DEF CommitOf, Commits
<1>4. CASE queue[s] = Skipped
  <2>1. queue[s].trial = NoTrial /\ queue[s].status = "skipped_pruned"
    BY <1>4 DEF Skipped
  <2> QED
    BY <1>1, <1>4, <2>1, NoCommitIsNoCommit DEF CommitOf, Commits
<1> QED
  BY <1>2, <1>3, <1>4

\* An open slot has no commit record, so its intent replaces nobody's.
LEMMA WriteIntentGood ==
  ASSUME EngineInv, WriteIntent
  PROVE  StepIsGood
<1>1. PICK s \in Slots : /\ pc = "drain" /\ NextReady(s) /\ slot_attempts[s] < MaxAttempts
                         /\ append_slot_commit_record(s, CommitOf(s)) /\ pc' = "commit"
  BY DEF WriteIntent
<1>2. /\ UNCHANGED <<progress, pending, control, intents, attempts, stage, keys, queue,
                     slot_attempts, events, result, budget, recovered, drain_trial, mem, closing>>
      /\ UNCHANGED brokerVars
  BY DEF WriteIntent, durableVars, memoryVars
<1> DEFINE c == CommitOf(s)
           new == [kind |-> "intent", slot |-> s, commit |-> c]
<1>3. queue[s] # NoResult /\ c \in Commits
  BY <1>1, CommitOfQueue DEF NextReady
<1>4. StoreNext /\ row' = row
  BY <1>1, <1>3 DEF StoreNext, append_slot_commit_record
<1>5. StoreInv'
  BY <1>4, StoreStep DEF EngineInv
<1>6. row[s].state # "committed" /\ Working
  BY <1>1, <1>3 DEF EngineInv, CommitterInv, Working
<1>7. /\ new \in journal'
      /\ \A r \in journal' : r.kind = "commit" => r \in journal
      /\ \A r \in journal : r.slot # s => r \in journal'
  BY <1>1 DEF append_slot_commit_record, upsert_slot_commit_record
<1>8. \A r \in journal : r.kind = "commit" => r.slot # s
  BY <1>6 DEF EngineInv, StoreInv, JournalMatchesRows
<1>9. IntentPrecedesCommit'
  <2> SUFFICES ASSUME NEW r \in journal', r.kind = "commit"
               PROVE  [r EXCEPT !.kind = "intent"] \in journal'
    BY DEF IntentPrecedesCommit
  <2>1. r \in journal /\ r.slot # s
    BY <1>7, <1>8
  <2>2. r \in Records
    BY <2>1 DEF EngineInv, StoreInv, StoreTypeOK
  <2>3. [r EXCEPT !.kind = "intent"] \in journal
    BY <2>1 DEF EngineInv, DurableInv, IntentPrecedesCommit
  <2>4. [r EXCEPT !.kind = "intent"].slot # s
    BY <2>1, <2>2 DEF Records
  <2> QED
    BY <1>7, <2>3, <2>4
<1>10. DurableInv'
  BY <1>2, <1>4, <1>9 DEF EngineInv, DurableInv, FailedOf, SkipsAreJustified
<1>11. EngineTypes' /\ BudgetKept' /\ MemoryFollows' /\ BrokerInv'
  BY <1>1, <1>2, BudgetStep, BrokerKeeps DEF EngineInv, EngineTypes, MemoryFollows, brokerVars
<1>12. ReportsAreTrue'
  BY <1>2, ReportsKept DEF EngineInv, EngineTypes
<1>13. CommitterInv'
  <2>1. committed_schedules' = committed_schedules /\ \A u : HandedOver(u)' <=> HandedOver(u)
    BY <1>2 DEF committed_schedules, brokerVars, HandedOver
  <2>2. \A u \in Slots : NextReady(u)' <=> u = s
    BY <1>1, <1>2 DEF NextReady, Slots
  <2>3. CommitOf(s)' = c /\ slot_attempts'[s] < MaxAttempts
    BY <1>1, <1>2 DEF CommitOf
  <2>4. \A u \in Slots : NextReady(u)' =>
          /\ slot_attempts'[u] < MaxAttempts
          /\ [kind |-> "intent", slot |-> u, commit |-> CommitOf(u)'] \in journal'
    BY <1>7, <2>2, <2>3
  <2>5. /\ committed_schedules' = {u \in Slots : row'[u].state = "committed"}
        /\ \A u \in Slots :
             /\ queue'[u] # NoResult => row'[u].state # "committed"
             /\ queue'[u] = Skipped => variant_idx[u] \in mem'.pruned
             /\ pending'[u] # NoResult => queue'[u] = pending'[u]
             /\ stage' # "boot" /\ (u \in committed_schedules' \/ queue'[u] # NoResult)
                  => HandedOver(u)'
    BY <1>2, <1>4, <1>6, <2>1 DEF EngineInv, CommitterInv
  <2> QED
    BY <1>1, <2>4, <2>5 DEF CommitterInv
<1>14. ResultKept
  BY <1>2 DEF ResultKept
<1> QED
  BY <1>2, <1>4, <1>5, <1>10, <1>11, <1>12, <1>13, <1>14 DEF StepIsGood, EngineInv

\* What a commit adds to the progress: the slot, and at most one failure of its variant, which is
\* pruned only if that makes enough.
LEMMA NextProgressFacts ==
  ASSUME NEW s \in Slots, NEW c \in Commits, mem \in Progresses, drain_trial \in 0 .. MaxTrials,
         NEW p, p = NextProgress(s, c)
  PROVE  /\ p \in Progresses
         /\ p.done = [mem.done EXCEPT ![s] = c]
         /\ mem.pruned \subseteq p.pruned
         /\ \A u \in Variants :
              /\ u \in p.pruned \ mem.pruned
                   => u = variant_idx[s] /\ c.status = "failed" /\ MaxFailures <= mem.failures[u] + 1
              /\ \/ p.failures[u] <= mem.failures[u]
                 \/ u = variant_idx[s] /\ c.status = "failed" /\ p.failures[u] = mem.failures[u] + 1
<1> DEFINE v == variant_idx[s]
           count == IF c.status = "completed" THEN 0 ELSE mem.failures[v] + 1
           done == [mem.done EXCEPT ![s] = c]
           failures == [mem.failures EXCEPT ![v] = count]
           more == IF count >= MaxFailures THEN mem.pruned \cup {v} ELSE mem.pruned
<1>1. /\ v \in Variants /\ mem.failures \in [Variants -> Nat] /\ mem.pruned \subseteq Variants
      /\ mem.done \in [Slots -> Commits \cup {NoCommit}] /\ mem.next_trial \in 0 .. MaxTrials
      /\ mem = [done |-> mem.done, next_trial |-> mem.next_trial, pruned |-> mem.pruned,
                failures |-> mem.failures]
  BY VariantAssumption DEF Slots, Progresses
<1>2. done \in [Slots -> Commits \cup {NoCommit}]
  BY <1>1
<1>3. c.trial = NoTrial <=> c.status = "skipped_pruned"
  BY TrialsAssumption DEF Commits, Trials, NoTrial
<1>4. c.status \in {"completed", "failed", "skipped_pruned"}
  BY DEF Commits
<1>5. CASE c.trial = NoTrial
  <2>1. p = [done |-> done, next_trial |-> mem.next_trial, pruned |-> mem.pruned,
             failures |-> mem.failures]
    BY <1>1, <1>5 DEF NextProgress, Progresses
  <2>2. p.done = done /\ p.pruned = mem.pruned /\ p.failures = mem.failures
    BY <2>1
  <2>3. p \in Progresses
    BY <1>1, <1>2, <2>1 DEF Progresses
  <2>4. \A u \in Variants : mem.failures[u] <= mem.failures[u]
    BY <1>1
  <2> QED
    BY <2>2, <2>3, <2>4
<1>6. CASE c.trial # NoTrial
  <2>1. p = [done |-> done, next_trial |-> drain_trial, pruned |-> more, failures |-> failures]
    BY <1>1, <1>6 DEF NextProgress, Progresses
  <2>2. p.done = done /\ p.pruned = more /\ p.failures = failures
    BY <2>1
  <2>3. count \in Nat /\ (c.status = "completed" => ~(count >= MaxFailures))
    BY <1>1, MaxFailuresAssumption
  <2>4. failures \in [Variants -> Nat] /\ more \subseteq Variants
    BY <1>1, <2>3
  <2>5. p \in Progresses
    <3> HIDE DEF done, failures, more
    <3> QED
      BY <1>2, <2>1, <2>4 DEF Progresses
  <2>6. c.status = "completed" \/ (c.status = "failed" /\ count = mem.failures[v] + 1)
    BY <1>3, <1>4, <1>6
  <2>7. \A u \in more : u \in mem.pruned \/ /\ u = v /\ c.status = "failed"
                                            /\ MaxFailures <= mem.failures[v] + 1
    BY <1>1, <2>3, <2>6, MaxFailuresAssumption
  <2>8. \A u \in Variants : \/ failures[u] <= mem.failures[u]
                            \/ u = v /\ c.status = "failed" /\ failures[u] = mem.failures[u] + 1
    <3> SUFFICES ASSUME NEW u \in Variants
                 PROVE  \/ failures[u] <= mem.failures[u]
                        \/ u = v /\ c.status = "failed" /\ failures[u] = mem.failures[u] + 1
      OBVIOUS
    <3>1. mem.failures[u] \in Nat /\ failures[u] = IF u = v THEN count ELSE mem.failures[u]
      BY <1>1
    <3> HIDE DEF failures, v
    <3> QED
      BY <2>6, <3>1
  <2>9. mem.pruned \subseteq more
    OBVIOUS
  <2> HIDE DEF more, failures, done
  <2>10. \A u \in Variants :
           /\ u \in p.pruned \ mem.pruned
                => u = v /\ c.status = "failed" /\ MaxFailures <= mem.failures[u] + 1
           /\ \/ p.failures[u] <= mem.failures[u]
              \/ u = v /\ c.status = "failed" /\ p.failures[u] = mem.failures[u] + 1
    BY <2>2, <2>7, <2>8
  <2> QED
    BY <2>2, <2>5, <2>9, <2>10 DEF done
<1> QED
  BY <1>5, <1>6

\* The failed slots of a variant are counted, and a commit adds its own slot at most.
LEMMA FailedGrows ==
  ASSUME StoreInv, NEW s \in Slots, NEW c \in Commits, row[s].state # "committed",
         row' = [row EXCEPT ![s] = CommittedRow(c)]
  PROVE  \A v \in Variants :
           /\ Cardinality(FailedOf(v)) \in Nat /\ Cardinality(FailedOf(v)') \in Nat
           /\ Cardinality(FailedOf(v)) <= Cardinality(FailedOf(v)')
           /\ v = variant_idx[s] /\ c.status = "failed"
                => Cardinality(FailedOf(v)') = Cardinality(FailedOf(v)) + 1
<1> SUFFICES ASSUME NEW v \in Variants
             PROVE  /\ Cardinality(FailedOf(v)) \in Nat /\ Cardinality(FailedOf(v)') \in Nat
                    /\ Cardinality(FailedOf(v)) <= Cardinality(FailedOf(v)')
                    /\ v = variant_idx[s] /\ c.status = "failed"
                         => Cardinality(FailedOf(v)') = Cardinality(FailedOf(v)) + 1
  OBVIOUS
<1>1. row \in [Slots -> Rows] /\ row[s].commit = NoCommit
  BY DEF StoreInv, StoreTypeOK, RowShape
<1>2. row'[s].commit = c /\ \A r \in Slots \ {s} : row'[r] = row[r]
  BY <1>1, RowFields
<1>3. s \notin FailedOf(v)
  BY <1>1 DEF FailedOf, NoCommit
<1>4. FailedOf(v)' = IF v = variant_idx[s] /\ c.status = "failed" THEN FailedOf(v) \cup {s} ELSE FailedOf(v)
  BY <1>2, <1>3 DEF FailedOf
<1>5. IsFiniteSet(Slots)
  BY FS_Interval, SlotsAssumption DEF Slots
<1>6. FailedOf(v) \in SUBSET Slots
  BY DEF FailedOf
<1>7. IsFiniteSet(FailedOf(v))
  BY <1>5, <1>6, FS_Subset
<1>8. Cardinality(FailedOf(v)) \in Nat
  BY <1>7, FS_CardinalityType
<1>9. Cardinality(FailedOf(v) \cup {s}) = Cardinality(FailedOf(v)) + 1
  BY <1>3, <1>7, FS_AddElement
<1> QED
  BY <1>4, <1>8, <1>9

\* What is on disk stays in order when the slot whose intent is written is committed.
LEMMA CommitIsDurable ==
  ASSUME EngineInv, NEW s \in Slots, NEW c \in Commits, row[s].state # "committed",
         commit_schedule_slot_transaction(s, c),
         [kind |-> "intent", slot |-> s, commit |-> c] \in journal,
         progress' = NextProgress(s, c), mem \in Progresses,
         mem.done = progress.done, mem.pruned = progress.pruned, mem.failures = progress.failures,
         c.status = "skipped_pruned" => variant_idx[s] \in mem.pruned,
         pending' = [pending EXCEPT ![s] = NoResult], drain_trial \in 0 .. MaxTrials
  PROVE  DurableInv'
<1> DEFINE new == [kind |-> "commit", slot |-> s, commit |-> c]
<1>0. /\ progress' \in Progresses /\ progress'.done = [mem.done EXCEPT ![s] = c]
      /\ \A u \in Variants :
           /\ u \in progress'.pruned \ mem.pruned
                => u = variant_idx[s] /\ c.status = "failed" /\ MaxFailures <= mem.failures[u] + 1
           /\ \/ progress'.failures[u] <= mem.failures[u]
              \/ u = variant_idx[s] /\ c.status = "failed" /\ progress'.failures[u] = mem.failures[u] + 1
  BY NextProgressFacts
<1>1. row' = [row EXCEPT ![s] = CommittedRow(c)] /\ journal' = upsert_slot_commit_record("commit", s, c)
  BY DEF commit_schedule_slot_transaction
<1>2. row \in [Slots -> Rows] /\ mem.done \in [Slots -> Commits \cup {NoCommit}]
  BY DEF EngineInv, StoreInv, StoreTypeOK, Progresses
<1>3. /\ row'[s].commit = c /\ row'[s].state = "committed"
      /\ \A r \in Slots \ {s} : row'[r] = row[r]
  BY <1>1, <1>2, RowFields
<1>4. \A r \in Slots : progress'.done[r] = row'[r].commit
  <2>1. \A r \in Slots : mem.done[r] = row[r].commit
    BY DEF EngineInv, DurableInv
  <2> QED
    BY <1>0, <1>2, <1>3, <2>1
<1>5. \A r \in Slots : pending'[r] # NoResult => row'[r].state # "committed"
  <2>1. \A r \in Slots : pending[r] # NoResult => row[r].state # "committed"
    BY DEF EngineInv, DurableInv
  <2>2. pending \in [Slots -> Results \cup {NoResult}]
    BY DEF EngineInv, EngineTypes
  <2> QED
    BY <1>3, <2>1, <2>2
<1>6. IntentPrecedesCommit'
  <2> SUFFICES ASSUME NEW r \in journal', r.kind = "commit"
               PROVE  [r EXCEPT !.kind = "intent"] \in journal'
    BY DEF IntentPrecedesCommit
  <2>1. \A q \in journal : q.kind = "intent" => q \in journal'
    BY <1>1 DEF upsert_slot_commit_record
  <2>2. r \in journal \/ r = new
    BY <1>1 DEF upsert_slot_commit_record
  <2>3. CASE r \in journal
    <3>1. [r EXCEPT !.kind = "intent"] \in journal /\ r \in Records
      BY <2>3 DEF EngineInv, DurableInv, IntentPrecedesCommit, StoreInv, StoreTypeOK
    <3>2. [r EXCEPT !.kind = "intent"].kind = "intent"
      BY <3>1 DEF Records
    <3> QED
      BY <2>1, <3>1, <3>2
  <2>4. CASE r = new
    <3>1. [r EXCEPT !.kind = "intent"] = [kind |-> "intent", slot |-> s, commit |-> c]
      BY <2>4
    <3> QED
      BY <2>1, <3>1
  <2> QED
    BY <2>2, <2>3, <2>4
<1>7. \A v \in Variants : /\ mem.failures[v] <= Cardinality(FailedOf(v)) /\ mem.failures[v] \in Nat
                          /\ v \in mem.pruned => MaxFailures <= Cardinality(FailedOf(v))
  BY DEF EngineInv, DurableInv, Progresses
<1>8. \A v \in Variants :
        /\ Cardinality(FailedOf(v)) \in Nat /\ Cardinality(FailedOf(v)') \in Nat
        /\ Cardinality(FailedOf(v)) <= Cardinality(FailedOf(v)')
        /\ v = variant_idx[s] /\ c.status = "failed"
             => Cardinality(FailedOf(v)') = Cardinality(FailedOf(v)) + 1
  BY <1>1, FailedGrows DEF EngineInv
<1>9. \A v \in Variants : /\ progress'.failures[v] <= Cardinality(FailedOf(v)')
                          /\ v \in progress'.pruned => MaxFailures <= Cardinality(FailedOf(v)')
  <2> SUFFICES ASSUME NEW v \in Variants
               PROVE  /\ progress'.failures[v] <= Cardinality(FailedOf(v)')
                      /\ v \in progress'.pruned => MaxFailures <= Cardinality(FailedOf(v)')
    OBVIOUS
  <2>1. progress'.failures[v] \in Nat
    BY <1>0 DEF Progresses
  <2> QED
    BY <1>0, <1>7, <1>8, <2>1, MaxFailuresAssumption
<1>10. SkipsAreJustified'
  <2> SUFFICES ASSUME NEW r \in Slots, row'[r].commit.status = "skipped_pruned"
               PROVE  MaxFailures <= Cardinality(FailedOf(variant_idx[r])')
    BY DEF SkipsAreJustified, FailedOf
  <2>1. variant_idx[r] \in Variants
    BY VariantAssumption DEF Slots
  <2>2. MaxFailures <= Cardinality(FailedOf(variant_idx[r]))
    <3>1. CASE r = s
      BY <1>3, <1>7, <2>1, <3>1
    <3>2. CASE r # s
      <4>1. row[r].commit.status = "skipped_pruned"
        BY <1>3, <3>2
      <4> QED
        BY <4>1 DEF EngineInv, DurableInv, SkipsAreJustified, FailedOf
    <3> QED
      BY <3>1, <3>2
  <2> QED
    BY <1>8, <2>1, <2>2, MaxFailuresAssumption
<1> QED
  BY <1>4, <1>5, <1>6, <1>9, <1>10 DEF DurableInv

\* The slot that comes next is committed with its queued result.
LEMMA CommitSlotGood ==
  ASSUME EngineInv, CommitSlot
  PROVE  StepIsGood
<1>1. PICK s \in Slots :
        /\ pc = "commit" /\ NextReady(s)
        /\ IF CommitAccepted(s, CommitOf(s))
           THEN /\ commit_schedule_slot_transaction(s, CommitOf(s))
                /\ progress' = NextProgress(s, CommitOf(s))
                /\ pending' = [pending EXCEPT ![s] = NoResult]
                /\ mem' = progress'
                /\ keys' = keys \cup {Key(s, CommitOf(s))}
                /\ queue' = [queue EXCEPT ![s] = NoResult]
                /\ slot_attempts' = [slot_attempts EXCEPT ![s] = CommitOf(s).attempt]
                /\ pc' = "drain" /\ UNCHANGED outcome
           ELSE Fail /\ UNCHANGED <<storeVars, progress, pending, mem, keys, queue, slot_attempts>>
  BY DEF CommitSlot
<1>2. UNCHANGED brokerVars /\ UNCHANGED <<control, intents, attempts, stage, recovered, drain_trial,
                                          events, exited_workers, closing, result, budget>>
  BY DEF CommitSlot
<1>3. /\ queue[s] # NoResult /\ slot_attempts[s] < MaxAttempts /\ row[s].state # "committed"
      /\ [kind |-> "intent", slot |-> s, commit |-> CommitOf(s)] \in journal
  BY <1>1 DEF EngineInv, CommitterInv, Working, NextReady
<1>4. BudgetKept' /\ [CoordinatorStep]_brokerVars
  BY <1>2, BudgetStep DEF EngineInv
<1>5. CASE ~CommitAccepted(s, CommitOf(s))
  <2>1. /\ UNCHANGED <<row, journal, progress, pending, mem, keys, queue, slot_attempts>>
        /\ pc' \in {"join", "shutdown"}
    BY <1>1, <1>5 DEF Fail, storeVars
  <2>2. ~Working' /\ pruned' = pruned
    BY <1>2, <2>1 DEF Working, brokerVars
  <2> QED
    BY <1>1, <1>2, <1>4, <2>1, <2>2, MemoryFacts, QuietStepGood
<1>6. CASE CommitAccepted(s, CommitOf(s))
  <2> DEFINE c == CommitOf(s)
  <2>1. /\ c \in Commits /\ c.attempt = slot_attempts[s] + 1
        /\ c.trial = queue[s].trial /\ c.status = queue[s].status
        /\ c.status = "skipped_pruned" => queue[s] = Skipped
    BY <1>3, CommitOfQueue
  <2>2. /\ commit_schedule_slot_transaction(s, c) /\ progress' = NextProgress(s, c)
        /\ pending' = [pending EXCEPT ![s] = NoResult] /\ mem' = progress'
        /\ keys' = keys \cup {Key(s, c)} /\ queue' = [queue EXCEPT ![s] = NoResult]
        /\ slot_attempts' = [slot_attempts EXCEPT ![s] = c.attempt] /\ pc' = "drain"
    BY <1>1, <1>6
  <2>3. Key(s, c).slot = s
    BY DEF Key
  <2> HIDE DEF c
  <2>4. StoreNext
    BY <2>1, <2>2 DEF StoreNext
  <2>5. StoreInv'
    BY <2>4, StoreStep DEF EngineInv
  <2>6. /\ mem \in Progresses /\ drain_trial \in 0 .. MaxTrials
        /\ mem.done = progress.done /\ mem.pruned = progress.pruned /\ mem.failures = progress.failures
        /\ pruned \subseteq mem.pruned
    BY <1>1 DEF EngineInv, EngineTypes, MemoryFollows
  <2>7. Working /\ Working'
    BY <1>1, <2>2 DEF Working
  <2>8. c.status = "skipped_pruned" => variant_idx[s] \in mem.pruned
    BY <2>1, <2>7 DEF EngineInv, CommitterInv
  <2>9. DurableInv'
    BY <1>3, <2>1, <2>2, <2>6, <2>8, CommitIsDurable DEF c
  <2>10. progress' \in Progresses /\ mem.pruned \subseteq mem'.pruned
    BY <2>1, <2>2, <2>6, NextProgressFacts
  <2>11. /\ pending \in [Slots -> Results \cup {NoResult}]
         /\ queue \in [Slots -> Results \cup {Skipped, NoResult}]
         /\ slot_attempts \in [Slots -> 0 .. MaxAttempts]
         /\ row \in [Slots -> Rows]
    BY DEF EngineInv, EngineTypes, StoreInv, StoreTypeOK
  <2>12. /\ pending' \in [Slots -> Results \cup {NoResult}]
         /\ queue' \in [Slots -> Results \cup {Skipped, NoResult}]
         /\ slot_attempts' \in [Slots -> 0 .. MaxAttempts]
    <3>1. slot_attempts[s] + 1 \in 0 .. MaxAttempts
      BY <1>3, <2>11, AttemptsAssumption
    <3> QED
      BY <2>1, <2>2, <2>11, <3>1
  <2>13. EngineTypes' /\ MemoryFollows' /\ BrokerInv' /\ ReportsAreTrue'
    <3>1. EngineTypes'
      BY <1>2, <2>2, <2>10, <2>12 DEF EngineInv, EngineTypes
    <3>2. MemoryFollows'
      BY <1>2, <2>2, <2>6, <2>10 DEF MemoryFollows, brokerVars
    <3>3. BrokerInv' /\ ReportsAreTrue'
      BY <1>2, <1>4, ReportsKept, BrokerKeeps DEF EngineInv, EngineTypes
    <3> QED
      BY <3>1, <3>2, <3>3
  <2>14. /\ row'[s].state = "committed" /\ row'[s].trial = c.trial /\ row'[s].commit = c
         /\ \A r \in Slots \ {s} : row'[r] = row[r]
    BY <2>2, <2>11, RowFields DEF commit_schedule_slot_transaction
  <2>15. committed_schedules' = committed_schedules \cup {s}
    BY <2>2, <2>3 DEF committed_schedules
  <2>16. /\ queue'[s] = NoResult /\ pending'[s] = NoResult
         /\ \A r \in Slots \ {s} : queue'[r] = queue[r] /\ pending'[r] = pending[r]
    BY <2>2, <2>11
  <2>17. \A r : HandedOver(r)' <=> HandedOver(r)
    BY <1>2 DEF brokerVars, HandedOver
  <2>18. CommitterInv'
    <3>1. /\ committed_schedules = {r \in Slots : row[r].state = "committed"}
          /\ \A r \in Slots :
               /\ queue[r] # NoResult => row[r].state # "committed"
               /\ queue[r] = Skipped => variant_idx[r] \in mem.pruned
               /\ pending[r] # NoResult => queue[r] = pending[r]
               /\ stage # "boot" /\ (r \in committed_schedules \/ queue[r] # NoResult) => HandedOver(r)
      BY <2>7 DEF EngineInv, CommitterInv
    <3>2. committed_schedules' = {r \in Slots : row'[r].state = "committed"}
      BY <2>14, <2>15, <3>1
    <3>3. \A r \in Slots :
            /\ queue'[r] # NoResult => row'[r].state # "committed"
            /\ queue'[r] = Skipped => variant_idx[r] \in mem'.pruned
            /\ pending'[r] # NoResult => queue'[r] = pending'[r]
            /\ stage' # "boot" /\ (r \in committed_schedules' \/ queue'[r] # NoResult) => HandedOver(r)'
      BY <1>2, <1>3, <2>10, <2>14, <2>15, <2>16, <2>17, <3>1, ResultKinds
    <3> QED
      BY <2>2, <3>2, <3>3 DEF CommitterInv
  <2>19. ResultKept
    <3>1. pending[s] # NoResult => queue[s] = pending[s]
      BY <2>7 DEF EngineInv, CommitterInv
    <3> QED
      BY <2>1, <2>14, <2>16, <3>1 DEF ResultKept
  <2> QED
    BY <1>2, <1>4, <2>4, <2>5, <2>9, <2>13, <2>18, <2>19 DEF StepIsGood, EngineInv
<1> QED
  BY <1>5, <1>6

-----------------------------------------------------------------------------
(* A run. *)

\* A new run: its slots are pending, and its process has no engine yet.
LEMMA EngineInitInv == EngineInit => EngineInv
<1> SUFFICES ASSUME EngineInit PROVE EngineInv
  OBVIOUS
<1>1. StoreInv
  BY StoreInitInv DEF EngineInit
<1>2. NoBroker
  BY DEF EngineInit, NoEngine, NoBroker
<1>3. BrokerInv
  BY <1>2, BrokerStarts
<1>4. BudgetKept
  BY BudgetInit DEF EngineInit
<1>5. NewProgress \in Progresses
  BY TrialsAssumption DEF NewProgress, Progresses
<1>6. EngineTypes
  <2>1. /\ queue \in [Slots -> Results \cup {Skipped, NoResult}]
        /\ pending \in [Slots -> Results \cup {NoResult}]
        /\ slot_attempts \in [Slots -> 0 .. MaxAttempts] /\ drain_trial \in 0 .. MaxTrials
        /\ result \in [Workers -> Outcomes] /\ events \in Seq(Messages)
    BY TrialsAssumption, AttemptsAssumption DEF EngineInit, NoEngine, Outcomes
  <2>2. /\ control.active \subseteq Actives /\ recovered \subseteq Actives /\ closing \subseteq Slots
        /\ intents \in [Trials -> Slots \cup {0}] /\ progress = NewProgress /\ mem = NewProgress
    BY DEF EngineInit, NoEngine
  <2>3. attempts \in [Trials -> {NoAttempt} \cup [phase : {"live", "commit_pending", "abandoned",
                                                          "committed"}, slot : Slots]]
    BY DEF EngineInit
  <2> QED
    BY <1>5, <2>1, <2>2, <2>3 DEF EngineTypes
<1>7. ReportsAreTrue
  <2>1. events = <<>> /\ \A w \in Workers : wpc[w] = "exited"
    BY DEF EngineInit, NoEngine
  <2>2. \A w \in Workers : ReportIsDue(w)
    BY <2>1 DEF ReportIsDue, Busy
  <2>3. DOMAIN events = {}
    BY <2>1
  <2> QED
    BY <2>1, <2>2, <2>3 DEF ReportsAreTrue
<1>8. \A s \in Slots : row[s].commit = NoCommit
  BY RowFields DEF EngineInit, StoreInit
<1>9. DurableInv
  <2>1. /\ \A s \in Slots : progress.done[s] = NoCommit /\ pending[s] = NoResult
        /\ progress.pruned = {} /\ \A v \in Variants : progress.failures[v] = 0
    BY DEF EngineInit, NewProgress
  <2>2. \A v \in Variants : FailedOf(v) = {}
    BY <1>8 DEF FailedOf, NoCommit
  <2>3. IntentPrecedesCommit
    BY DEF EngineInit, StoreInit, IntentPrecedesCommit
  <2>4. SkipsAreJustified
    BY <1>8 DEF SkipsAreJustified, NoCommit
  <2> QED
    BY <1>8, <2>1, <2>2, <2>3, <2>4, FS_EmptySet DEF DurableInv
<1>10. MemoryFollows
  BY DEF EngineInit, NoEngine, MemoryFollows
<1>11. CommitterInv
  BY DEF EngineInit, NoEngine, CommitterInv, Working
<1> QED
  BY <1>1, <1>3, <1>4, <1>6, <1>7, <1>9, <1>10, <1>11 DEF EngineInv

\* Every step of a run, the faults and the operator's included.
LEMMA EngineStep == EngineInv /\ [EngineNext]_vars => StepIsGood
<1> SUFFICES ASSUME EngineInv, [EngineNext]_vars PROVE StepIsGood
  OBVIOUS
<1>1. CASE Coordinator
  BY <1>1, BootGood, WriteIntentGood, CommitSlotGood, MarkCommittedGood, UpdatePrunedGood,
     PersistGood, SpawnGood, LeaveLoopGood, OnClaimedGood, ReceiveGood, ControlGood, StopGood,
     ReleaseGood, EndGood
  DEF Coordinator
<1>2. CASE Recovery
  BY <1>2, ReconcileAttemptGood, ReleaseGood, ReconcileProgressGood, EndGood DEF Recovery
<1>3. ASSUME NEW w \in Workers, Worker(w) \/ ClaimFails(w) \/ AttemptFails(w)
      PROVE  StepIsGood
  BY <1>3, WorkerStepGood DEF WorkerActs
<1>4. CASE Fault
  BY <1>3, <1>4, EngineFailsGood, StopGood, EndGood DEF Fault
<1>5. CASE Operator
  BY <1>5, ContinueGood, RecoverGood DEF Operator
<1>6. CASE Finished \/ UNCHANGED vars
  BY <1>6, StutterGood DEF Finished
<1> QED
  BY <1>1, <1>2, <1>3, <1>4, <1>5, <1>6 DEF EngineNext

LEMMA EngineInvariance == EngineSpec => []EngineInv
<1>1. EngineInv /\ [EngineNext]_vars => EngineInv'
  BY EngineStep DEF StepIsGood
<1> QED
  BY <1>1, EngineInitInv, PTL DEF EngineSpec

\* Whatever the engine, its workers, a recovery and a continuation do, and wherever they crash, they
\* change the store only by its transactions and the broker only by its calls: so the theorems about
\* SlotStore (a committed slot is final, the journal implements the ledger) and about SlotBroker (a
\* slot has one owner, the limits hold) hold of every run.
THEOREM RunUsesStoreAndBroker == EngineSpec => UsesStoreAndBroker
<1>1. EngineInit => StoreInit
  BY DEF EngineInit
<1>2. EngineInv /\ [EngineNext]_vars => [StoreNext]_storeVars
  BY EngineStep DEF StepIsGood
<1>3. EngineInv /\ [EngineNext]_vars => [BrokerNext \/ pc = "spawn" \/ pc' = "down"]_brokerVars
  BY EngineStep DEF StepIsGood
<1> QED
  BY <1>1, <1>2, <1>3, EngineInvariance, PTL
  DEF EngineSpec, UsesStoreAndBroker, UsesStore, UsesBroker, StoreSpec

\* So a run implements the ledger: each slot is concluded once, by the trial that owns it, and its
\* conclusion stays, across crashes, recovery and continuation.
THEOREM RunImplementsLedger == EngineSpec => ImplementsLedger /\ CommittedIsFinal /\ CommittedByOwner
<1>1. EngineSpec => StoreSpec
  BY RunUsesStoreAndBroker DEF UsesStoreAndBroker, UsesStore
<1> QED
  BY <1>1, StoreImplementsLedger, CommitsAreFinal, CommitsAreOwned

\* A slot is concluded as skipped only when pruning_max_consecutive_failures trials of its variant
\* are committed as failed, also when the pruning state went through crashes and continuations.
THEOREM SkipsHaveAReason == EngineSpec => []SkipsAreJustified
<1>1. EngineInv => SkipsAreJustified
  BY DEF EngineInv, DurableInv
<1> QED
  BY <1>1, EngineInvariance, PTL

\* A result in pending_trial_completions is there until its slot is committed with it: no step, no
\* crash and no recovery drops or replaces it.
THEOREM ResultsAreNotLost == EngineSpec => DurableResultIsCommitted
<1>1. EngineInv /\ [EngineNext]_vars => [ResultKept]_vars
  BY EngineStep DEF StepIsGood
<1> QED
  BY <1>1, EngineInvariance, PTL DEF EngineSpec, DurableResultIsCommitted

\* The stored schedule_progress names the commit the journal has for every slot, and every commit
\* record has its intent record: recover_run finds nothing diverged, wherever the run was cut off.
LEMMA DiskIsInOrder == EngineSpec => [](ProgressMatchesJournal /\ IntentPrecedesCommit)
<1>1. EngineInv => ProgressMatchesJournal /\ IntentPrecedesCommit
  <2> SUFFICES ASSUME EngineInv PROVE ProgressMatchesJournal /\ IntentPrecedesCommit
    OBVIOUS
  <2>1. \A s \in Slots : commit_record_by_schedule(journal, s) = progress.done[s]
    BY JournalReadsRow DEF EngineInv, DurableInv
  <2>2. progress.done = [s \in Slots |-> progress.done[s]]
    BY DEF EngineInv, EngineTypes, Progresses
  <2> QED
    BY <2>1, <2>2 DEF EngineInv, DurableInv, ProgressMatchesJournal, committed_by_schedule
<1> QED
  BY <1>1, EngineInvariance, PTL

-----------------------------------------------------------------------------
(* No commit is refused. *)

Voices == {"Claimed", "Completed", "SkippedPruned"}
Conclusions == {"Completed", "SkippedPruned"}

\* A trial, or no trial for a skip, speaks for a slot: with its row, in a message, in the queue, or
\* through a worker that has announced it.
RowSpeaks(s, t) == row[s].state = "active" /\ slot_states[s] # "BlockedActive" /\ row[s].trial = t
MessageSpeaks(s, t) ==
  \E i \in DOMAIN events : events[i].kind \in Voices /\ events[i].slot = s /\ events[i].trial = t
QueueSpeaks(s, t) == queue[s] # NoResult /\ queue[s].trial = t
WorkerSpeaks(s, t) ==
  \E w \in Workers : wpc[w] \in {"execute", "report", "skip"} /\ work[w].slot = s /\ work[w].trial = t

Speaks(s, t) == RowSpeaks(s, t) \/ MessageSpeaks(s, t) \/ QueueSpeaks(s, t) \/ WorkerSpeaks(s, t)

Unannounced(w) == wpc[w] \in {"claimed", "announce"}

\* Only one trial speaks for a slot, none before the claim is announced.
OneVoice ==
  /\ \A s \in Slots : \A t, u : Speaks(s, t) /\ Speaks(s, u) => t = u
  /\ \A s \in Slots : \A t : Speaks(s, t) => slot_states[s] \notin {"Pending", "BlockedActive"}
  /\ \A w \in Workers : \A t : Unannounced(w) => ~Speaks(work[w].slot, t)

\* The slot has been concluded, as far as the committer knows.
Concluded(s) == s \in committed_schedules \/ queue[s] # NoResult

MessageConcludes(i, s) == events[i].kind \in Conclusions /\ events[i].slot = s
WorkerConcludes(w, s) == wpc[w] \in {"report", "skip"} /\ work[w].slot = s

\* A slot is concluded once: by a worker that is about to say so, by a message, or by what the
\* committer has.
ConcludedOnce(s) ==
  /\ \A i, j \in DOMAIN events : MessageConcludes(i, s) /\ MessageConcludes(j, s) => i = j
  /\ \A v, w \in Workers : WorkerConcludes(v, s) /\ WorkerConcludes(w, s) => v = w
  /\ \A i \in DOMAIN events, w \in Workers : ~(MessageConcludes(i, s) /\ WorkerConcludes(w, s))
  /\ \A i \in DOMAIN events : MessageConcludes(i, s) => ~Concluded(s)
  /\ \A w \in Workers : WorkerConcludes(w, s) => ~Concluded(s)
  /\ Concluded(s) => HandedOver(s)

OneConclusion == \A s \in Slots : ConcludedOnce(s)

\* A slot whose row is active is active for this trial.
RowAgrees(s, t) == row[s].state = "active" => row[s].trial = t

\* What a crash leaves names the trial of the active row: the results on disk, and the active trials
\* of a run that can be continued; so does what the next engine restores.
RestoredAgrees ==
  /\ \A s \in Slots : pending[s] # NoResult => RowAgrees(s, pending[s].trial)
  /\ control.status \in {"interrupted", "failed"} => \A a \in control.active : RowAgrees(a.slot, a.trial)
  /\ Working \/ pc = "boot" => control.status = "running"
  /\ pc = "boot" => \A a \in recovered : RowAgrees(a.slot, a.trial)
  /\ Working /\ stage = "boot" =>
       \A s \in Slots : queue[s] # NoResult => RowAgrees(s, queue[s].trial)

SpeechInv == (stage # "boot" => OneVoice /\ OneConclusion) /\ RestoredAgrees

\* The coordinator takes the first message or none.
TakesAMessage == events' = events \/ (events # <<>> /\ events' = Tail(events))

\* The messages left are messages that were there, further up.
LEMMA MessagesLeft ==
  ASSUME events \in Seq(Messages), TakesAMessage
  PROVE  \E k \in {0, 1} :
           /\ k = 1 => events # <<>> /\ events' = Tail(events) /\ 1 \in DOMAIN events
           /\ k = 0 => events' = events
           /\ \A i \in DOMAIN events' : /\ i \in Nat \ {0} /\ i + k \in DOMAIN events
                                        /\ events'[i] = events[i + k]
<1>1. CASE events' = events
  <2>1. \A i \in DOMAIN events : i \in Nat \ {0} /\ i + 0 = i
    OBVIOUS
  <2> QED
    BY <1>1, <2>1
<1>2. CASE events # <<>> /\ events' = Tail(events)
  <2>1. /\ Len(events) \in Nat /\ DOMAIN events = 1 .. Len(events) /\ Len(events) # 0
        /\ Tail(events) \in Seq(Messages) /\ Len(Tail(events)) = Len(events) - 1
    BY <1>2
  <2>2. DOMAIN Tail(events) = 1 .. Len(events) - 1
    BY <2>1
  <2>3. \A i \in 1 .. Len(events) - 1 : Tail(events)[i] = events[i + 1]
    BY <1>2
  <2>4. \A i \in 1 .. Len(events) - 1 : i \in Nat \ {0} /\ i + 1 \in 1 .. Len(events)
    BY <2>1
  <2>5. 1 \in DOMAIN events
    BY <2>1
  <2>6. \A i \in DOMAIN events' : /\ i \in Nat \ {0} /\ i + 1 \in DOMAIN events
                                  /\ events'[i] = events[i + 1]
    BY <1>2, <2>1, <2>2, <2>3, <2>4
  <2> WITNESS 1 \in {0, 1}
  <2> QED
    BY <1>2, <2>5, <2>6
<1> QED
  BY <1>1, <1>2 DEF TakesAMessage

\* The coordinator's calls to the broker move no worker on, and block or free no slot.
LEMMA CoordinatorLeavesWorkers ==
  ASSUME BrokerInv, [CoordinatorStep]_brokerVars
  PROVE  /\ work' = work
         /\ \A w \in Workers : wpc'[w] = wpc[w] \/ wpc'[w] = "claim"
         /\ \A s \in Slots : \/ slot_states'[s] = slot_states[s]
                             \/ slot_states[s] # "BlockedActive" /\ slot_states'[s] = "Committed"
<1>1. BrokerTypeOK /\ Ownership
  BY DEF BrokerInv, Ownership
<1>2. CASE UNCHANGED brokerVars
  BY <1>2 DEF brokerVars
<1>3. CASE CoordinatorStep
  <2>1. wpc' = notify_all /\ work' = work
    BY <1>1, <1>3, CoordinatorOwnership
    DEF CoordinatorStep, mark_committed, update_pruned_variants, stop_accepting
  <2>2. \A s \in Slots : \/ slot_states'[s] = slot_states[s]
                         \/ slot_states[s] # "BlockedActive" /\ slot_states'[s] = "Committed"
    BY <1>1, <1>3
    DEF CoordinatorStep, mark_committed, update_pruned_variants, stop_accepting, BrokerTypeOK
  <2> QED
    BY <1>1, <2>1, <2>2, Notified
<1> QED
  BY <1>2, <1>3

\* The coordinator makes nobody speak who did not speak before, and concludes nothing but what the
\* message it takes concludes.
LEMMA CoordinatorSpeech ==
  ASSUME BrokerInv, events \in Seq(Messages), ReportsAreTrue, OneVoice, OneConclusion,
         [CoordinatorStep]_brokerVars, TakesAMessage,
         \A s \in Slots : \A t : RowSpeaks(s, t)' \/ QueueSpeaks(s, t)' => Speaks(s, t),
         \A s \in Slots : Concluded(s)' => \/ Concluded(s)
                                           \/ events # <<>> /\ events' = Tail(events) /\ MessageConcludes(1, s)
  PROVE  OneVoice' /\ OneConclusion'
<1>1. /\ work' = work
      /\ \A w \in Workers : wpc'[w] = wpc[w] \/ wpc'[w] = "claim"
      /\ \A s \in Slots : \/ slot_states'[s] = slot_states[s]
                          \/ slot_states[s] # "BlockedActive" /\ slot_states'[s] = "Committed"
  BY CoordinatorLeavesWorkers
<1>2. PICK k \in {0, 1} :
        /\ k = 1 => events # <<>> /\ events' = Tail(events) /\ 1 \in DOMAIN events
        /\ k = 0 => events' = events
        /\ \A i \in DOMAIN events' : /\ i \in Nat \ {0} /\ i + k \in DOMAIN events
                                     /\ events'[i] = events[i + k]
  BY MessagesLeft
<1>3. \A s \in Slots : \A t : Speaks(s, t)' => Speaks(s, t)
  <2> SUFFICES ASSUME NEW s \in Slots, NEW t, MessageSpeaks(s, t)' \/ WorkerSpeaks(s, t)'
               PROVE  Speaks(s, t)
    BY DEF Speaks
  <2>1. CASE MessageSpeaks(s, t)'
    <3>1. MessageSpeaks(s, t)
      BY <1>2, <2>1 DEF MessageSpeaks
    <3> QED
      BY <3>1 DEF Speaks
  <2>2. CASE WorkerSpeaks(s, t)'
    <3>1. WorkerSpeaks(s, t)
      BY <1>1, <2>2 DEF WorkerSpeaks
    <3> QED
      BY <3>1 DEF Speaks
  <2> QED
    BY <2>1, <2>2
<1>4. OneVoice'
  <2>1. \A s \in Slots : \A t : Speaks(s, t)' => slot_states'[s] \notin {"Pending", "BlockedActive"}
    BY <1>1, <1>3 DEF OneVoice
  <2>2. \A w \in Workers : \A t : Unannounced(w)' => ~Speaks(work[w].slot, t)'
    <3> SUFFICES ASSUME NEW w \in Workers, NEW t, Unannounced(w)' PROVE ~Speaks(work[w].slot, t)'
      OBVIOUS
    <3>1. Unannounced(w) /\ work'[w] = work[w]
      BY <1>1 DEF Unannounced
    <3>2. work[w].slot \in Slots
      BY <3>1, BusyWork DEF Unannounced, Busy, BrokerInv
    <3> QED
      BY <1>1, <1>3, <3>1, <3>2 DEF OneVoice
  <2> QED
    BY <1>3, <2>1, <2>2 DEF OneVoice
<1>5. OneConclusion'
  <2> SUFFICES ASSUME NEW s \in Slots
               PROVE
                 /\ \A i, j \in DOMAIN events' : MessageConcludes(i, s)' /\ MessageConcludes(j, s)' => i = j
                 /\ \A v, w \in Workers : WorkerConcludes(v, s)' /\ WorkerConcludes(w, s)' => v = w
                 /\ \A i \in DOMAIN events', w \in Workers : ~(MessageConcludes(i, s)' /\ WorkerConcludes(w, s)')
                 /\ \A i \in DOMAIN events' : MessageConcludes(i, s)' => ~Concluded(s)'
                 /\ \A w \in Workers : WorkerConcludes(w, s)' => ~Concluded(s)'
                 /\ Concluded(s)' => HandedOver(s)'
    BY DEF OneConclusion, ConcludedOnce
  <2>1. \A i \in DOMAIN events' : MessageConcludes(i, s)' => MessageConcludes(i + k, s)
    BY <1>2 DEF MessageConcludes
  <2>2. \A w \in Workers : WorkerConcludes(w, s)' => WorkerConcludes(w, s)
    BY <1>1 DEF WorkerConcludes
  <2>3. /\ \A i, j \in DOMAIN events : MessageConcludes(i, s) /\ MessageConcludes(j, s) => i = j
        /\ \A v, w \in Workers : WorkerConcludes(v, s) /\ WorkerConcludes(w, s) => v = w
        /\ \A i \in DOMAIN events, w \in Workers : ~(MessageConcludes(i, s) /\ WorkerConcludes(w, s))
        /\ \A i \in DOMAIN events : MessageConcludes(i, s) => ~Concluded(s)
        /\ \A w \in Workers : WorkerConcludes(w, s) => ~Concluded(s)
        /\ Concluded(s) => HandedOver(s)
    BY DEF OneConclusion, ConcludedOnce
  <2>4. \A i \in DOMAIN events' : i \in Nat \ {0} /\ i + k \in DOMAIN events
    BY <1>2
  <2>5. \A i, j \in DOMAIN events' : MessageConcludes(i, s)' /\ MessageConcludes(j, s)' => i = j
    <3> SUFFICES ASSUME NEW i \in DOMAIN events', NEW j \in DOMAIN events',
                        MessageConcludes(i, s)', MessageConcludes(j, s)'
                 PROVE  i = j
      OBVIOUS
    <3>1. i + k = j + k
      BY <2>1, <2>3, <2>4
    <3> QED
      BY <2>4, <3>1
  <2>6. Concluded(s)' => Concluded(s) \/ (k = 1 /\ 1 \in DOMAIN events /\ MessageConcludes(1, s))
    <3>1. events # <<>> /\ events' = Tail(events) => k = 1 \/ events' = events
      BY <1>2
    <3>2. events # <<>> => Tail(events) # events
      <4>1. ASSUME events # <<>> PROVE Len(Tail(events)) = Len(events) - 1 /\ Len(events) \in Nat
        BY <4>1
      <4> QED
        BY <4>1
    <3> QED
      BY <1>2, <3>1, <3>2
  <2>7. \A i \in DOMAIN events' : MessageConcludes(i, s)' => ~Concluded(s)'
    <3> SUFFICES ASSUME NEW i \in DOMAIN events', MessageConcludes(i, s)', Concluded(s)' PROVE FALSE
      OBVIOUS
    <3>1. i + k \in DOMAIN events /\ MessageConcludes(i + k, s) /\ i \in Nat \ {0}
      BY <2>1, <2>4
    <3>2. k = 1 /\ 1 \in DOMAIN events /\ MessageConcludes(1, s)
      BY <2>3, <2>6, <3>1
    <3>3. i + 1 = 1
      BY <2>3, <3>1, <3>2
    <3> QED
      BY <3>1, <3>3
  <2>8. Concluded(s)' => HandedOver(s)'
    <3>1. HandedOver(s) => HandedOver(s)'
      BY BrokerKeeps DEF BrokerNext
    <3>2. 1 \in DOMAIN events /\ MessageConcludes(1, s) => HandedOver(s)
      BY DEF ReportsAreTrue, IsTrue, MessageConcludes, Conclusions
    <3> QED
      BY <2>3, <2>6, <3>1, <3>2
  <2> QED
    BY <2>1, <2>2, <2>3, <2>4, <2>5, <2>6, <2>7, <2>8
<1> QED
  BY <1>4, <1>5

\* A message is sent: it comes last.
LEMMA MessageSent ==
  ASSUME events \in Seq(Messages), NEW w \in Workers, NEW kind, Send(kind, w)
  PROVE  /\ \A i \in DOMAIN events : i \in DOMAIN events' /\ events'[i] = events[i]
         /\ \E n \in DOMAIN events' :
              /\ n \notin DOMAIN events
              /\ events'[n].kind = kind /\ events'[n].slot = work[w].slot
              /\ events'[n].trial = work[w].trial
              /\ \A i \in DOMAIN events' : i = n \/ i \in DOMAIN events
<1> DEFINE e == [kind |-> kind, trial |-> work[w].trial, slot |-> work[w].slot, result |-> result[w]]
<1>1. events' = Append(events, e)
  BY DEF Send
<1>2. e.kind = kind /\ e.slot = work[w].slot /\ e.trial = work[w].trial
  OBVIOUS
<1> HIDE DEF e
<1>3. /\ Len(events) \in Nat /\ DOMAIN events = 1 .. Len(events)
      /\ DOMAIN events' = 1 .. Len(events) + 1
      /\ \A i \in 1 .. Len(events) : events'[i] = events[i]
      /\ events'[Len(events) + 1] = e
  BY <1>1
<1>4. Len(events) + 1 \in DOMAIN events' /\ Len(events) + 1 \notin DOMAIN events
  BY <1>3
<1>5. \A i \in DOMAIN events' : i = Len(events) + 1 \/ i \in DOMAIN events
  BY <1>3
<1> QED
  BY <1>2, <1>3, <1>4, <1>5

\* One voice is left if at most one trial begins to speak, for a slot nobody has spoken for.
LEMMA VoiceStep ==
  ASSUME OneVoice, NEW s0, NEW t0,
         \A s \in Slots : \A t : Speaks(s, t)' => Speaks(s, t) \/ (s = s0 /\ t = t0 /\ \A u : ~Speaks(s0, u)),
         \A s \in Slots : \A t : Speaks(s, t)' => slot_states'[s] \notin {"Pending", "BlockedActive"},
         \A w \in Workers : \A t : Unannounced(w)' => ~Speaks(work[w].slot, t)'
  PROVE  OneVoice'
BY DEF OneVoice

\* What a worker's step leaves of the voices: those of the queue, of other workers, and of rows.
LEMMA WorkerHears ==
  ASSUME EngineInv, NEW w \in Workers, WorkerActs(w), NEW s \in Slots
  PROVE  /\ \A t : QueueSpeaks(s, t)' => QueueSpeaks(s, t)
         /\ Concluded(s)' <=> Concluded(s)
         /\ \A t : RowSpeaks(s, t)' /\ slot_states[s] # "BlockedActive" => RowSpeaks(s, t)
         /\ \A u \in Workers \ {w} :
              /\ WorkerConcludes(u, s)' => WorkerConcludes(u, s)
              /\ Unannounced(u)' => Unannounced(u) /\ work'[u] = work[u]
         /\ \A t : WorkerSpeaks(s, t)' => \/ WorkerSpeaks(s, t)
                                          \/ /\ wpc'[w] \in {"execute", "report", "skip"}
                                             /\ work'[w].slot = s /\ work'[w].trial = t
<1>1. UNCHANGED <<row, keys, queue>>
  BY WorkerLeaves
<1>2. \A u \in Workers \ {w} : (wpc'[u] = wpc[u] \/ wpc'[u] = "claim") /\ work'[u] = work[u]
  BY OthersStay DEF EngineInv
<1>3. /\ \A t : QueueSpeaks(s, t)' => QueueSpeaks(s, t)
      /\ Concluded(s)' <=> Concluded(s)
      /\ \A t : RowSpeaks(s, t)' /\ slot_states[s] # "BlockedActive" => RowSpeaks(s, t)
  BY <1>1 DEF QueueSpeaks, Concluded, committed_schedules, RowSpeaks
<1>4. \A u \in Workers \ {w} :
        /\ WorkerConcludes(u, s)' => WorkerConcludes(u, s)
        /\ Unannounced(u)' => Unannounced(u) /\ work'[u] = work[u]
  BY <1>2 DEF WorkerConcludes, Unannounced
<1>5. \A t : WorkerSpeaks(s, t)' => \/ WorkerSpeaks(s, t)
                                    \/ /\ wpc'[w] \in {"execute", "report", "skip"}
                                       /\ work'[w].slot = s /\ work'[w].trial = t
  BY <1>2 DEF WorkerSpeaks
<1> QED
  BY <1>3, <1>4, <1>5

\* A worker's step keeps one voice if all it makes speak spoke before, but for one trial of a slot s0
\* that nobody has spoken for.
LEMMA WorkerVoiceStep ==
  ASSUME EngineInv, OneVoice, NEW w \in Workers, WorkerActs(w), NEW s0, NEW t0,
         s0 \in Slots => /\ \A u : ~Speaks(s0, u)
                         /\ slot_states'[s0] \notin {"Pending", "BlockedActive"}
                         /\ \A u \in Workers \ {w} : Unannounced(u) => work[u].slot # s0,
         \A s \in Slots : \A t : MessageSpeaks(s, t)' => Speaks(s, t) \/ (s = s0 /\ t = t0),
         \A s \in Slots : \A t :
           wpc'[w] \in {"execute", "report", "skip"} /\ work'[w].slot = s /\ work'[w].trial = t
             => Speaks(s, t) \/ (s = s0 /\ t = t0),
         Unannounced(w)' => work'[w].slot \in Slots \ {s0} /\ \A t : ~Speaks(work'[w].slot, t),
         \A s \in Slots : /\ slot_states[s] = "BlockedActive" => slot_states'[s] = "BlockedActive"
                          /\ \A t : Speaks(s, t) => slot_states'[s] \notin {"Pending", "BlockedActive"}
  PROVE  OneVoice'
<1>1. \A s \in Slots : \A t : Speaks(s, t)' => Speaks(s, t) \/ (s = s0 /\ t = t0 /\ \A u : ~Speaks(s0, u))
  <2> SUFFICES ASSUME NEW s \in Slots, NEW t, Speaks(s, t)' PROVE Speaks(s, t) \/ (s = s0 /\ t = t0)
    OBVIOUS
  <2>1. CASE RowSpeaks(s, t)'
    <3>1. slot_states[s] # "BlockedActive"
      BY <2>1 DEF RowSpeaks
    <3> QED
      BY <2>1, <3>1, WorkerHears DEF Speaks
  <2>2. CASE MessageSpeaks(s, t)'
    BY <2>2
  <2>3. CASE QueueSpeaks(s, t)'
    BY <2>3, WorkerHears DEF Speaks
  <2>4. CASE WorkerSpeaks(s, t)'
    BY <2>4, WorkerHears DEF Speaks
  <2> QED
    BY <2>1, <2>2, <2>3, <2>4 DEF Speaks
<1>2. \A s \in Slots : \A t : Speaks(s, t)' => slot_states'[s] \notin {"Pending", "BlockedActive"}
  BY <1>1
<1>3. \A u \in Workers : \A t : Unannounced(u)' => ~Speaks(work[u].slot, t)'
  <2> SUFFICES ASSUME NEW u \in Workers, NEW t, Unannounced(u)', Speaks(work[u].slot, t)'
               PROVE  FALSE
    OBVIOUS
  <2>1. CASE u = w
    BY <1>1, <2>1
  <2>2. CASE u # w
    <3>1. Unannounced(u) /\ work'[u] = work[u]
      BY <2>2, OthersStay DEF EngineInv, Unannounced
    <3>2. work[u].slot \in Slots
      BY <3>1, BusyWork DEF EngineInv, BrokerInv, Unannounced, Busy
    <3>3. \A x : ~Speaks(work[u].slot, x)
      BY <3>1 DEF OneVoice
    <3> QED
      BY <1>1, <2>2, <3>1, <3>2, <3>3
  <2> QED
    BY <2>1, <2>2
<1> QED
  BY <1>1, <1>2, <1>3, VoiceStep

\* The same for a step by which nobody begins to speak.
LEMMA WorkerSilent ==
  ASSUME EngineInv, OneVoice, NEW w \in Workers, WorkerActs(w),
         \A s \in Slots : \A t : MessageSpeaks(s, t)' => Speaks(s, t),
         wpc'[w] \in {"execute", "report", "skip"}
           => wpc[w] \in {"execute", "report", "skip"} /\ work'[w] = work[w],
         Unannounced(w)' => Unannounced(w) /\ work'[w] = work[w],
         \A s \in Slots : /\ slot_states[s] = "BlockedActive" => slot_states'[s] = "BlockedActive"
                          /\ \A t : Speaks(s, t) => slot_states'[s] \notin {"Pending", "BlockedActive"}
  PROVE  OneVoice'
<1>1. \A s \in Slots : \A t :
        wpc'[w] \in {"execute", "report", "skip"} /\ work'[w].slot = s /\ work'[w].trial = t
          => Speaks(s, t)
  <2> SUFFICES ASSUME NEW s \in Slots, NEW t, wpc'[w] \in {"execute", "report", "skip"},
                      work'[w].slot = s, work'[w].trial = t
               PROVE  WorkerSpeaks(s, t)
    BY DEF Speaks
  <2>1. wpc[w] \in {"execute", "report", "skip"} /\ work[w].slot = s /\ work[w].trial = t
    OBVIOUS
  <2> QED
    BY <2>1 DEF WorkerSpeaks
<1>2. Unannounced(w)' => work'[w].slot \in Slots \ {0} /\ \A t : ~Speaks(work'[w].slot, t)
  <2>1. Unannounced(w) => work[w].slot \in Slots
    BY BusyWork DEF EngineInv, BrokerInv, Unannounced, Busy
  <2> QED
    BY <2>1 DEF OneVoice, Slots
<1>3. 0 \notin Slots
  BY DEF Slots
<1> QED
  BY <1>1, <1>2, <1>3, WorkerVoiceStep

\* A worker speaks for the slot it has claimed, when nobody else does.
LEMMA WorkerVoice ==
  ASSUME EngineInv, OneVoice, NEW w \in Workers, WorkerActs(w)
  PROVE  OneVoice'
<1>0. /\ BrokerTypeOK /\ Ownership /\ events \in Seq(Messages)
      /\ wpc \in [Workers -> WorkerStates] /\ slot_states \in [Slots -> SlotStates]
      /\ work \in [Workers -> [trial : Trials \cup {NoTrial}, slot : Slots \cup {0}]]
  BY DEF EngineInv, BrokerInv, Ownership, BrokerTypeOK, EngineTypes
<1>1. \A s \in Slots : \A t : Speaks(s, t) => slot_states[s] \notin {"Pending", "BlockedActive"}
  BY DEF OneVoice
<1>2. ASSUME events' = events
      PROVE  \A s \in Slots : \A t : MessageSpeaks(s, t)' => Speaks(s, t)
  BY <1>2 DEF MessageSpeaks, Speaks
<1>3. 0 \notin Slots
  BY DEF Slots
<1>4. CASE Pull(w) /\ ClaimTrial(w)
  <2>1. PICK s \in Slots : /\ slot_states[s] = "Pending"
                           /\ slot_states' = [slot_states EXCEPT ![s] = "Active"]
                           /\ work' = [work EXCEPT ![w] = [trial |-> trial_index + 1, slot |-> s]]
                           /\ wpc' = [wpc EXCEPT ![w] = "claimed"]
    BY <1>4 DEF ClaimTrial, FirstClaimable, Claimable
  <2>2. wpc'[w] = "claimed" /\ work'[w].slot = s
    BY <1>0, <2>1
  <2>3. \A t : ~Speaks(s, t)
    BY <1>1, <2>1
  <2>4. \A r \in Slots : slot_states'[r] = IF r = s THEN "Active" ELSE slot_states[r]
    BY <1>0, <2>1
  <2>5. \A r \in Slots : /\ slot_states[r] = "BlockedActive" => slot_states'[r] = "BlockedActive"
                         /\ \A t : Speaks(r, t) => slot_states'[r] \notin {"Pending", "BlockedActive"}
    BY <1>1, <2>1, <2>4
  <2>6. \A r \in Slots : \A t : MessageSpeaks(r, t)' => Speaks(r, t)
    BY <1>2, <1>4 DEF Pull
  <2> QED
    BY <1>3, <2>2, <2>3, <2>5, <2>6, WorkerVoiceStep
<1>5. CASE Pull(w) /\ ClaimSkip(w)
  <2>1. PICK s \in Slots : /\ slot_states[s] = "Pending"
                           /\ slot_states' = [slot_states EXCEPT ![s] = "CompletedPendingCommit"]
                           /\ work' = [work EXCEPT ![w] = [trial |-> NoTrial, slot |-> s]]
                           /\ wpc' = [wpc EXCEPT ![w] = "skip"]
    BY <1>5 DEF ClaimSkip, FirstClaimable, Claimable
  <2>2. wpc'[w] = "skip" /\ work'[w].slot = s /\ work'[w].trial = NoTrial
    BY <1>0, <2>1
  <2>3. \A t : ~Speaks(s, t)
    BY <1>1, <2>1
  <2>4. \A r \in Slots : slot_states'[r] = IF r = s THEN "CompletedPendingCommit" ELSE slot_states[r]
    BY <1>0, <2>1
  <2>5. \A r \in Slots : /\ slot_states[r] = "BlockedActive" => slot_states'[r] = "BlockedActive"
                         /\ \A t : Speaks(r, t) => slot_states'[r] \notin {"Pending", "BlockedActive"}
    BY <1>1, <2>1, <2>4
  <2>6. \A r \in Slots : \A t : MessageSpeaks(r, t)' => Speaks(r, t)
    BY <1>2, <1>5 DEF Pull
  <2>7. \A u \in Workers : Unannounced(u) => work[u].slot # s
    <3> SUFFICES ASSUME NEW u \in Workers, Unannounced(u), work[u].slot = s PROVE FALSE
      OBVIOUS
    <3>1. Dispatch(u) \in in_flight
      BY <1>0, BusyWork DEF Unannounced, Busy
    <3>2. slot_states[s] = "Active"
      BY <1>0, <3>1 DEF Ownership, OwnedOnce, Dispatch
    <3> QED
      BY <2>1, <3>2
  <2>8. ~Unannounced(w)'
    BY <2>2 DEF Unannounced
  <2>9. slot_states'[s] \notin {"Pending", "BlockedActive"}
    BY <2>4
  <2> QED
    BY <2>2, <2>3, <2>5, <2>6, <2>7, <2>8, <2>9, WorkerVoiceStep
<1>6. CASE Pull(w) /\ (ClaimNone(w) \/ ClaimWait(w))
  <2>1. wpc'[w] \in {"exit", "wait"} /\ slot_states' = slot_states
    BY <1>0, <1>6 DEF ClaimNone, ClaimWait
  <2>2. \A r \in Slots : \A t : MessageSpeaks(r, t)' => Speaks(r, t)
    BY <1>2, <1>6 DEF Pull
  <2>3. ~Unannounced(w)'
    BY <2>1 DEF Unannounced
  <2> QED
    BY <1>1, <2>1, <2>2, <2>3, WorkerSilent
<1>7. CASE ClaimFails(w) \/ CompleteTrial(w)
  <2>1. PICK next \in {"Pending", "CompletedPendingCommit"}, at \in {"fatal", "report"} :
          /\ GiveUpSlot(w, next, at) /\ Busy(w)
          /\ next = "Pending" => Unannounced(w)
          /\ at = "report" => wpc[w] = "execute"
    BY <1>7 DEF ClaimFails, CompleteTrial, rollback_claim, release_owned_to_pending, complete_owned,
                Busy, Unannounced
  <2>2. wpc'[w] = at /\ work' = work
    BY <1>0, <2>1, Notified DEF GiveUpSlot
  <2>3. Dispatch(w) \in in_flight /\ work[w].slot \in Slots
    BY <1>0, <2>1, BusyWork
  <2>4. slot_states[work[w].slot] = "Active"
    BY <1>0, <2>3 DEF Ownership, OwnedOnce, Dispatch
  <2>5. \A r \in Slots : slot_states'[r] = IF r = work[w].slot THEN next ELSE slot_states[r]
    BY <1>0, <2>1 DEF GiveUpSlot
  <2>6. next = "Pending" => \A t : ~Speaks(work[w].slot, t)
    BY <2>1 DEF OneVoice
  <2>7. \A r \in Slots : /\ slot_states[r] = "BlockedActive" => slot_states'[r] = "BlockedActive"
                         /\ \A t : Speaks(r, t) => slot_states'[r] \notin {"Pending", "BlockedActive"}
    BY <1>1, <2>4, <2>5, <2>6
  <2>8. \A r \in Slots : \A t : MessageSpeaks(r, t)' => Speaks(r, t)
    BY <1>2, <1>7 DEF ClaimFails, CompleteTrial
  <2>9. ~Unannounced(w)'
    BY <2>2 DEF Unannounced
  <2> QED
    BY <2>1, <2>2, <2>7, <2>8, <2>9, WorkerSilent
<1>8. CASE RecordClaim(w)
  <2>1. wpc[w] = "claimed" /\ wpc'[w] = "announce" /\ work' = work /\ slot_states' = slot_states
    BY <1>0, <1>8 DEF RecordClaim, WriteClaimIntent, WorkerMoves
  <2>2. \A r \in Slots : \A t : MessageSpeaks(r, t)' => Speaks(r, t)
    BY <1>2, <1>8 DEF RecordClaim
  <2> QED
    BY <1>1, <2>1, <2>2, WorkerSilent DEF Unannounced
<1>9. CASE StartAttempt(w) \/ FinishAttempt(w) \/ AttemptFails(w)
  <2>1. wpc' = wpc /\ work' = work /\ slot_states' = slot_states
    BY <1>9 DEF StartAttempt, FinishAttempt, AttemptFails, brokerVars
  <2>2. \A r \in Slots : \A t : MessageSpeaks(r, t)' => Speaks(r, t)
    BY <1>2, <1>9 DEF StartAttempt, FinishAttempt, AttemptFails
  <2>3. Unannounced(w)' => Unannounced(w)
    BY <2>1 DEF Unannounced
  <2> QED
    BY <1>1, <2>1, <2>2, <2>3, WorkerSilent
<1>10. CASE AnnounceClaim(w)
  <2>1. /\ wpc[w] = "announce" /\ wpc'[w] = "execute" /\ work' = work /\ slot_states' = slot_states
        /\ Send("Claimed", w)
    BY <1>0, <1>10 DEF AnnounceClaim, SendClaimed, WorkerMoves
  <2>2. Busy(w) /\ Unannounced(w)
    BY <2>1 DEF Busy, Unannounced
  <2>3. Dispatch(w) \in in_flight /\ work[w].slot \in Slots
    BY <1>0, <2>2, BusyWork
  <2>4. slot_states[work[w].slot] = "Active"
    BY <1>0, <2>3 DEF Ownership, OwnedOnce, Dispatch
  <2>5. \A t : ~Speaks(work[w].slot, t)
    BY <2>2 DEF OneVoice
  <2>6. \A u \in Workers \ {w} : Unannounced(u) => work[u].slot # work[w].slot
    <3> SUFFICES ASSUME NEW u \in Workers \ {w}, Unannounced(u), work[u].slot = work[w].slot PROVE FALSE
      OBVIOUS
    <3>1. Dispatch(u) \in in_flight
      BY <1>0, BusyWork DEF Unannounced, Busy
    <3>2. Dispatch(u) = Dispatch(w)
      BY <1>0, <2>3, <3>1 DEF Ownership, OwnedOnce, Dispatch
    <3> QED
      BY <3>2 DEF Dispatch
  <2>7. \A s \in Slots : \A t : MessageSpeaks(s, t)' => Speaks(s, t) \/ (s = work[w].slot /\ t = work[w].trial)
    <3> SUFFICES ASSUME NEW s \in Slots, NEW t, MessageSpeaks(s, t)'
                 PROVE  MessageSpeaks(s, t) \/ (s = work[w].slot /\ t = work[w].trial)
      BY DEF Speaks
    <3> QED
      BY <1>0, <2>1, MessageSent DEF MessageSpeaks
  <2>8. ~Unannounced(w)'
    BY <2>1 DEF Unannounced
  <2> QED
    BY <1>1, <2>1, <2>3, <2>4, <2>5, <2>6, <2>7, <2>8, WorkerVoiceStep
<1>11. CASE ReportCompleted(w) \/ ReportSkipped(w)
  <2>1. PICK kind \in Conclusions : Send(kind, w)
    BY <1>11 DEF ReportCompleted, ReportSkipped, Conclusions
  <2>2. /\ wpc[w] \in {"report", "skip"} /\ wpc'[w] = "claim" /\ work' = work
        /\ slot_states' = slot_states
    BY <1>0, <1>11 DEF ReportCompleted, ReportSkipped, SendCompleted, SendSkippedPruned, WorkerMoves
  <2>3. \A s \in Slots : \A t : MessageSpeaks(s, t)' => Speaks(s, t)
    <3> SUFFICES ASSUME NEW s \in Slots, NEW t, MessageSpeaks(s, t)'
                 PROVE  MessageSpeaks(s, t) \/ WorkerSpeaks(s, t)
      BY DEF Speaks
    <3>1. MessageSpeaks(s, t) \/ (s = work[w].slot /\ t = work[w].trial)
      BY <1>0, <2>1, MessageSent DEF MessageSpeaks
    <3> QED
      BY <2>2, <3>1 DEF WorkerSpeaks
  <2>4. ~Unannounced(w)'
    BY <2>2 DEF Unannounced
  <2> QED
    BY <1>1, <2>2, <2>3, <2>4, WorkerSilent
<1>12. CASE ReportFatal(w) \/ ReportExited(w)
  <2>1. PICK kind \in {"Fatal", "Exited"} : Send(kind, w)
    BY <1>12 DEF ReportFatal, ReportExited
  <2>2. wpc'[w] \in {"exit", "exited"} /\ slot_states' = slot_states
    BY <1>0, <1>12 DEF ReportFatal, ReportExited, SendFatal, SendExited, WorkerMoves
  <2>3. \A s \in Slots : \A t : MessageSpeaks(s, t)' => Speaks(s, t)
    <3> SUFFICES ASSUME NEW s \in Slots, NEW t, MessageSpeaks(s, t)' PROVE MessageSpeaks(s, t)
      BY DEF Speaks
    <3> QED
      BY <1>0, <2>1, MessageSent DEF MessageSpeaks, Voices
  <2>4. ~Unannounced(w)'
    BY <2>2 DEF Unannounced
  <2> QED
    BY <1>1, <2>2, <2>3, <2>4, WorkerSilent
<1> QED
  BY <1>4, <1>5, <1>6, <1>7, <1>8, <1>9, <1>10, <1>11, <1>12 DEF WorkerActs, Worker, Pull

\* What is concluded, or about to be, is handed over.
LEMMA ConcludedIsHandedOver ==
  ASSUME EngineInv, OneConclusion, NEW s \in Slots, ~HandedOver(s)
  PROVE  /\ \A i \in DOMAIN events : ~MessageConcludes(i, s)
         /\ \A w \in Workers : ~WorkerConcludes(w, s)
         /\ ~Concluded(s)
<1>1. \A i \in DOMAIN events : ~MessageConcludes(i, s)
  BY DEF EngineInv, ReportsAreTrue, IsTrue, MessageConcludes, Conclusions
<1>2. \A w \in Workers : ~WorkerConcludes(w, s)
  BY DEF EngineInv, ReportsAreTrue, ReportIsDue, WorkerConcludes
<1> QED
  BY <1>1, <1>2 DEF OneConclusion, ConcludedOnce

\* A worker's step that sends no conclusion keeps the slot concluded once, if the worker comes to
\* conclude it only when it is not handed over yet.
LEMMA ConclusionKept ==
  ASSUME EngineInv, OneConclusion, NEW w \in Workers, WorkerActs(w), NEW s \in Slots,
         \A i \in DOMAIN events' : MessageConcludes(i, s)' => i \in DOMAIN events /\ MessageConcludes(i, s),
         WorkerConcludes(w, s)' => WorkerConcludes(w, s) \/ ~HandedOver(s)
  PROVE  ConcludedOnce(s)'
<1>1. \A u \in Workers \ {w} : WorkerConcludes(u, s)' => WorkerConcludes(u, s)
  BY WorkerHears
<1>2. Concluded(s)' <=> Concluded(s)
  BY WorkerHears
<1>3. HandedOver(s) => HandedOver(s)'
  BY WorkerUsesBroker, BrokerKeeps DEF EngineInv
<1>4. ConcludedOnce(s)
  BY DEF OneConclusion
<1>5. ~HandedOver(s) => /\ \A i \in DOMAIN events : ~MessageConcludes(i, s)
                        /\ \A u \in Workers : ~WorkerConcludes(u, s)
                        /\ ~Concluded(s)
  BY ConcludedIsHandedOver
<1> QED
  BY <1>1, <1>2, <1>3, <1>4, <1>5 DEF ConcludedOnce

\* A worker concludes the slot it has been working on, and says so once.
LEMMA WorkerConclusion ==
  ASSUME EngineInv, OneConclusion, NEW w \in Workers, WorkerActs(w)
  PROVE  OneConclusion'
<1> SUFFICES ASSUME NEW s \in Slots PROVE ConcludedOnce(s)'
  BY DEF OneConclusion
<1>0. /\ BrokerTypeOK /\ Ownership /\ events \in Seq(Messages)
      /\ wpc \in [Workers -> WorkerStates] /\ slot_states \in [Slots -> SlotStates]
      /\ work \in [Workers -> [trial : Trials \cup {NoTrial}, slot : Slots \cup {0}]]
  BY DEF EngineInv, BrokerInv, Ownership, BrokerTypeOK, EngineTypes
<1>1. ASSUME events' = events
      PROVE  \A i \in DOMAIN events' : MessageConcludes(i, s)' => i \in DOMAIN events /\ MessageConcludes(i, s)
  BY <1>1 DEF MessageConcludes
<1>2. ASSUME NEW kind, kind \notin Conclusions, Send(kind, w)
      PROVE  \A i \in DOMAIN events' : MessageConcludes(i, s)' => i \in DOMAIN events /\ MessageConcludes(i, s)
  BY <1>0, <1>2, MessageSent DEF MessageConcludes
<1>3. CASE Pull(w)
  <2>1. WorkerConcludes(w, s)' => ~HandedOver(s)
    <3> SUFFICES ASSUME WorkerConcludes(w, s)' PROVE ~HandedOver(s)
      OBVIOUS
    <3>1. ClaimSkip(w)
      BY <1>0, <1>3 DEF Pull, ClaimTrial, ClaimNone, ClaimWait, WorkerConcludes
    <3>2. PICK r \in Slots : slot_states[r] = "Pending" /\ work' = [work EXCEPT ![w] = [trial |-> NoTrial, slot |-> r]]
      BY <3>1 DEF ClaimSkip, FirstClaimable, Claimable
    <3>3. work'[w].slot = r
      BY <1>0, <3>2
    <3> QED
      BY <3>2, <3>3 DEF WorkerConcludes, HandedOver
  <2> QED
    BY <1>1, <1>3, <2>1, ConclusionKept DEF Pull
<1>4. CASE CompleteTrial(w)
  <2>1. Busy(w) /\ GiveUpSlot(w, "CompletedPendingCommit", "report") /\ events' = events
    BY <1>4 DEF CompleteTrial, complete_owned, Busy
  <2>2. work' = work /\ Dispatch(w) \in in_flight /\ work[w].slot \in Slots
    BY <1>0, <2>1, BusyWork DEF GiveUpSlot
  <2>3. slot_states[work[w].slot] = "Active"
    BY <1>0, <2>2 DEF Ownership, OwnedOnce, Dispatch
  <2>4. WorkerConcludes(w, s)' => ~HandedOver(s)
    BY <2>2, <2>3 DEF WorkerConcludes, HandedOver
  <2> QED
    BY <1>1, <2>1, <2>4, ConclusionKept
<1>5. CASE ClaimFails(w)
  <2>1. GiveUpSlot(w, "Pending", "fatal") /\ events' = events
    BY <1>5 DEF ClaimFails, rollback_claim, release_owned_to_pending
  <2>2. wpc'[w] = "fatal"
    BY <1>0, <2>1, Notified DEF GiveUpSlot
  <2>3. ~WorkerConcludes(w, s)'
    BY <2>2 DEF WorkerConcludes
  <2> QED
    BY <1>1, <2>1, <2>3, ConclusionKept
<1>6. CASE RecordClaim(w) \/ StartAttempt(w) \/ FinishAttempt(w) \/ AttemptFails(w)
  <2>1. events' = events /\ work' = work /\ (wpc' = wpc \/ wpc'[w] = "announce")
    BY <1>0, <1>6
    DEF RecordClaim, StartAttempt, FinishAttempt, AttemptFails, brokerVars, WriteClaimIntent, WorkerMoves
  <2>2. WorkerConcludes(w, s)' => WorkerConcludes(w, s)
    BY <2>1 DEF WorkerConcludes
  <2> QED
    BY <1>1, <2>1, <2>2, ConclusionKept
<1>7. CASE AnnounceClaim(w) \/ ReportFatal(w) \/ ReportExited(w)
  <2>1. PICK kind \in {"Claimed", "Fatal", "Exited"} : Send(kind, w)
    BY <1>7 DEF AnnounceClaim, ReportFatal, ReportExited
  <2>2. wpc'[w] \in {"execute", "exit", "exited"}
    BY <1>0, <1>7
    DEF AnnounceClaim, ReportFatal, ReportExited, SendClaimed, SendFatal, SendExited, WorkerMoves
  <2>3. ~WorkerConcludes(w, s)'
    BY <2>2 DEF WorkerConcludes
  <2>4. kind \notin Conclusions
    BY DEF Conclusions
  <2> QED
    BY <1>2, <2>1, <2>3, <2>4, ConclusionKept
<1>8. CASE ReportCompleted(w) \/ ReportSkipped(w)
  <2>1. PICK kind \in Conclusions : Send(kind, w)
    BY <1>8 DEF ReportCompleted, ReportSkipped, Conclusions
  <2>2. wpc[w] \in {"report", "skip"} /\ wpc'[w] = "claim"
    BY <1>0, <1>8 DEF ReportCompleted, ReportSkipped, SendCompleted, SendSkippedPruned, WorkerMoves
  <2>3. PICK n \in DOMAIN events' :
          /\ n \notin DOMAIN events
          /\ events'[n].kind = kind /\ events'[n].slot = work[w].slot
          /\ \A i \in DOMAIN events' : i = n \/ (i \in DOMAIN events /\ events'[i] = events[i])
    BY <1>0, <2>1, MessageSent
  <2>4. \A i \in DOMAIN events' : MessageConcludes(i, s)' =>
          (i \in DOMAIN events /\ MessageConcludes(i, s)) \/ (i = n /\ WorkerConcludes(w, s))
    BY <2>2, <2>3 DEF MessageConcludes, WorkerConcludes
  <2>5. ~WorkerConcludes(w, s)' /\ \A u \in Workers \ {w} : WorkerConcludes(u, s)' => WorkerConcludes(u, s)
    BY <2>2, WorkerHears DEF WorkerConcludes
  <2>6. (Concluded(s)' <=> Concluded(s)) /\ (HandedOver(s) => HandedOver(s)')
    BY WorkerHears, WorkerUsesBroker, BrokerKeeps DEF EngineInv
  <2>7. ConcludedOnce(s)
    BY DEF OneConclusion
  <2> QED
    BY <2>4, <2>5, <2>6, <2>7 DEF ConcludedOnce
<1> QED
  BY <1>3, <1>4, <1>5, <1>6, <1>7, <1>8 DEF WorkerActs, Worker

\* A step that restores nothing: rows only leave the active state, results only leave the disk, and
\* run_control names active trials only while the engine runs.
RestoredStays ==
  /\ \A s \in Slots : row'[s].state = "active" => row'[s] = row[s]
  /\ \A s \in Slots : pending'[s] \in {pending[s], NoResult}
  /\ control' = control \/ control'.active = {} \/ control'.status = "running"
  /\ Working' \/ pc' = "boot" => control'.status = "running"
  /\ pc' = "boot" => pc = "boot" /\ recovered' = recovered
  /\ Working' /\ stage' = "boot" =>
       Working /\ stage = "boot" /\ \A s \in Slots : queue'[s] \in {queue[s], NoResult}

LEMMA RestoredKept ==
  ASSUME EngineInv, RestoredAgrees, RestoredStays
  PROVE  RestoredAgrees'
<1>0. \A a \in control.active \cup recovered : a.slot \in Slots
  BY DEF EngineInv, EngineTypes, Actives
<1>1. \A s \in Slots : \A t : RowAgrees(s, t) => RowAgrees(s, t)'
  BY DEF RestoredStays, RowAgrees
<1>2. \A s \in Slots : pending'[s] # NoResult => RowAgrees(s, pending[s].trial)' /\ pending'[s] = pending[s]
  BY <1>1 DEF RestoredAgrees, RestoredStays
<1>3. control'.status \in {"interrupted", "failed"} =>
        \A a \in control'.active : RowAgrees(a.slot, a.trial)'
  BY <1>0, <1>1 DEF RestoredAgrees, RestoredStays
<1>4. pc' = "boot" => \A a \in recovered' : RowAgrees(a.slot, a.trial)'
  BY <1>0, <1>1 DEF RestoredAgrees, RestoredStays
<1>5. Working' /\ stage' = "boot" =>
        \A s \in Slots : queue'[s] # NoResult => RowAgrees(s, queue[s].trial)' /\ queue'[s] = queue[s]
  BY <1>1 DEF RestoredAgrees, RestoredStays
<1> QED
  BY <1>2, <1>3, <1>4, <1>5 DEF RestoredAgrees, RestoredStays, RowAgrees

\* A step of the coordinator that takes no claim and no conclusion says and concludes nothing new.
LEMMA QuietVoices ==
  ASSUME EngineInv, SpeechInv, stage # "boot", [CoordinatorStep]_brokerVars, TakesAMessage,
         \A s \in Slots : row'[s].state = "active" => row'[s] = row[s],
         \A s \in Slots : queue'[s] \in {queue[s], NoResult},
         \A s \in Slots : s \in committed_schedules' => Concluded(s)
  PROVE  OneVoice' /\ OneConclusion'
<1>1. /\ BrokerInv /\ events \in Seq(Messages) /\ ReportsAreTrue /\ OneVoice /\ OneConclusion
  BY DEF EngineInv, EngineTypes, SpeechInv
<1>2. \A s \in Slots : slot_states'[s] # "BlockedActive" => slot_states[s] # "BlockedActive"
  BY <1>1, CoordinatorLeavesWorkers
<1>3. \A s \in Slots : \A t : RowSpeaks(s, t)' => RowSpeaks(s, t)
  BY <1>2 DEF RowSpeaks
<1>4. \A s \in Slots : \A t : QueueSpeaks(s, t)' => QueueSpeaks(s, t)
  BY DEF QueueSpeaks
<1>5. \A s \in Slots : \A t : RowSpeaks(s, t)' \/ QueueSpeaks(s, t)' => Speaks(s, t)
  BY <1>3, <1>4 DEF Speaks
<1>6. \A s \in Slots : Concluded(s)' => Concluded(s)
  BY DEF Concluded
<1> QED
  BY <1>1, <1>5, <1>6, CoordinatorSpeech

LEMMA QuietSpeech ==
  ASSUME EngineInv, SpeechInv, RestoredStays,
         stage' # "boot" => /\ stage # "boot" /\ [CoordinatorStep]_brokerVars /\ TakesAMessage
                            /\ \A s \in Slots : queue'[s] \in {queue[s], NoResult}
                            /\ \A s \in Slots : s \in committed_schedules' => Concluded(s)
  PROVE  SpeechInv'
<1>1. RestoredAgrees'
  BY RestoredKept DEF SpeechInv
<1>2. stage' # "boot" => OneVoice' /\ OneConclusion'
  BY QuietVoices DEF RestoredStays
<1> QED
  BY <1>1, <1>2 DEF SpeechInv

\* A process that ends says nothing; what it leaves names the trials it ran.
LEMMA EndSpeech ==
  ASSUME EngineInv, SpeechInv, Conclude \/ Crash \/ FinishRecovery \/ RecoveryFails
  PROVE  SpeechInv'
<1>1. /\ row' = row /\ pending' = pending /\ pc' = "down" /\ stage' = "boot"
      /\ control' = control \/ control'.active = {}
  BY DEF Conclude, Crash, FinishRecovery, RecoveryFails, storeVars, durableVars, ProcessEnds
<1>2. RestoredStays
  BY <1>1 DEF RestoredStays, Working
<1> QED
  BY <1>1, <1>2, QuietSpeech

\* An engine that fails or shuts down, and a recovery at its work.
LEMMA LeavingSpeech ==
  ASSUME EngineInv, SpeechInv,
         \/ BootFails \/ LoopCheckFails \/ FinishFails \/ OnFatal \/ Shutdown \/ ClearControl
         \/ ReleaseInFlight \/ ReleaseAbandoned \/ ReleaseRow \/ ReconcileAttempt \/ ReconcileProgress
  PROVE  SpeechInv'
<1>1. /\ UNCHANGED <<pending, stage, queue, keys>>
      /\ control' = control \/ control'.active = {}
      /\ ~Working' /\ pc' # "boot"
      /\ TakesAMessage
      /\ UNCHANGED brokerVars \/ stop_accepting
  BY DEF BootFails, LoopCheckFails, FinishFails, OnFatal, Receive, Shutdown, ClearControl, ReleaseInFlight,
         ReleaseAbandoned, ReleaseRow, ReconcileAttempt, ReconcileProgress, Fail, Working, TakesAMessage,
         storeVars, durableVars, memoryVars
<1>2. row' = row \/ \E s : release_schedule_slot_to_pending(s)
  BY DEF BootFails, LoopCheckFails, FinishFails, OnFatal, Shutdown, ClearControl, ReleaseInFlight,
         ReleaseAbandoned, ReleaseRow, ReconcileAttempt, ReconcileProgress, storeVars
<1>3. row \in [Slots -> Rows]
  BY DEF EngineInv, StoreInv, StoreTypeOK
<1>4. \A s \in Slots : row'[s].state = "active" => row'[s] = row[s]
  BY <1>2, <1>3 DEF release_schedule_slot_to_pending, PendingRow
<1>5. RestoredStays
  BY <1>1, <1>4 DEF RestoredStays
<1>6. [CoordinatorStep]_brokerVars
  BY <1>1, StopIsAStep DEF EngineInv
<1>7. \A s \in Slots : s \in committed_schedules' => Concluded(s)
  BY <1>1 DEF committed_schedules, Concluded
<1> QED
  BY <1>1, <1>5, <1>6, <1>7, QuietSpeech

\* The steps of the engine's loop that take neither a claim nor a conclusion.
LEMMA LoopSpeech ==
  ASSUME EngineInv, SpeechInv, WriteIntent \/ MarkCommitted \/ UpdatePruned \/ LeaveLoop \/ OnExited \/ WriteControl
  PROVE  SpeechInv'
<1>1. /\ UNCHANGED <<row, pending, queue, keys>>
      /\ control' = control \/ control'.status = "running"
      /\ Working /\ pc' # "boot"
      /\ stage' = stage \/ (stage' = "final" /\ pc = "loop")
      /\ TakesAMessage
  BY DEF WriteIntent, append_slot_commit_record, MarkCommitted, UpdatePruned, LeaveLoop, OnExited, WriteControl,
         Receive, Working, TakesAMessage, storeVars, durableVars, memoryVars
<1>2. RestoredStays
  <2>1. Working' \/ pc' = "boot" => control'.status = "running"
    BY <1>1 DEF SpeechInv, RestoredAgrees
  <2> QED
    BY <1>1, <2>1 DEF RestoredStays
<1>3. [CoordinatorStep]_brokerVars
  <2>1. CASE MarkCommitted
    <3>1. PICK s \in committed_schedules : slot_states[s] # "Committed" /\ mark_committed(s) /\ stage # "boot"
      BY <2>1 DEF MarkCommitted
    <3>2. HandedOver(s) /\ s \in Slots
      BY <1>1, <3>1 DEF EngineInv, CommitterInv
    <3> QED
      BY <3>1, <3>2 DEF CoordinatorStep, HandedOver
  <2>2. CASE UpdatePruned
    <3>1. update_pruned_variants(mem.pruned) /\ pc # "down"
      BY <2>2 DEF UpdatePruned
    <3> QED
      BY <3>1, MemoryFacts DEF CoordinatorStep
  <2>3. CASE WriteIntent \/ LeaveLoop \/ OnExited \/ WriteControl
    BY <2>3 DEF WriteIntent, LeaveLoop, OnExited, WriteControl
  <2> QED
    BY <2>1, <2>2, <2>3
<1>4. \A s \in Slots : s \in committed_schedules' => Concluded(s)
  BY <1>1 DEF committed_schedules, Concluded
<1>5. stage' # "boot" => stage # "boot"
  BY <1>1 DEF EngineInv, CommitterInv
<1> QED
  BY <1>1, <1>2, <1>3, <1>4, <1>5, QuietSpeech

\* A commit concludes what the queue has concluded, and its row is active no more.
LEMMA CommitSpeech ==
  ASSUME EngineInv, SpeechInv, CommitSlot
  PROVE  SpeechInv'
<1>1. PICK s \in Slots :
        /\ queue[s] # NoResult
        /\ \/ /\ row' = [row EXCEPT ![s] = CommittedRow(CommitOf(s))]
              /\ pending' = [pending EXCEPT ![s] = NoResult]
              /\ queue' = [queue EXCEPT ![s] = NoResult]
              /\ keys' = keys \cup {Key(s, CommitOf(s))}
              /\ pc' = "drain"
           \/ row' = row /\ pending' = pending /\ queue' = queue /\ keys' = keys /\ ~Working' /\ pc' # "boot"
  BY DEF CommitSlot, NextReady, commit_schedule_slot_transaction, Fail, storeVars, Working
<1>2. UNCHANGED <<control, stage, events>> /\ UNCHANGED brokerVars /\ Working
  BY DEF CommitSlot, Working
<1>3. /\ row \in [Slots -> Rows] /\ pending \in [Slots -> Results \cup {NoResult}]
      /\ queue \in [Slots -> Results \cup {Skipped, NoResult}]
  BY DEF EngineInv, StoreInv, StoreTypeOK, EngineTypes
<1>4. /\ \A r \in Slots : row'[r].state = "active" => row'[r] = row[r]
      /\ \A r \in Slots : pending'[r] \in {pending[r], NoResult}
      /\ \A r \in Slots : queue'[r] \in {queue[r], NoResult}
  BY <1>1, <1>3 DEF CommittedRow
<1>5. RestoredStays
  <2>1. Working' \/ pc' = "boot" => control'.status = "running" /\ pc' # "boot"
    BY <1>1, <1>2 DEF SpeechInv, RestoredAgrees
  <2> QED
    BY <1>2, <1>4, <2>1 DEF RestoredStays
<1>6. \A r \in Slots : r \in committed_schedules' => Concluded(r)
  BY <1>1 DEF committed_schedules, Concluded, Key
<1>7. TakesAMessage
  BY <1>2 DEF TakesAMessage
<1> QED
  BY <1>2, <1>4, <1>5, <1>6, <1>7, QuietSpeech

\* Nothing happens, or recover_run forces the rows of the commits.
LEMMA RecoverSpeech ==
  ASSUME EngineInv, SpeechInv, RecoverRun \/ UNCHANGED vars
  PROVE  SpeechInv'
<1>1. CASE RecoverRun
  <2>1. /\ UNCHANGED <<pending, control, stage>> /\ pc = "down" /\ pc' = "attempts"
        /\ row' = [s \in Slots |-> IF committed_by_schedule[s] = NoCommit THEN row[s]
                                  ELSE CommittedRow(committed_by_schedule[s])]
    BY <1>1 DEF RecoverRun, durableVars
  <2>2. \A s \in Slots : row'[s].state = "active" => row'[s] = row[s]
    BY <2>1 DEF CommittedRow
  <2>3. RestoredStays /\ stage' = "boot"
    BY <2>1, <2>2 DEF RestoredStays, Working, EngineInv, CommitterInv
  <2> QED
    BY <2>3, QuietSpeech
<1>2. CASE UNCHANGED vars
  <2>1. UNCHANGED <<row, pending, control, stage, events, queue, keys, pc, recovered>> /\ UNCHANGED brokerVars
    BY <1>2 DEF vars, storeVars, durableVars, memoryVars
  <2>2. RestoredStays
    BY <2>1 DEF RestoredStays, Working, SpeechInv, RestoredAgrees
  <2>3. TakesAMessage /\ \A s \in Slots : s \in committed_schedules' => Concluded(s)
    BY <2>1 DEF TakesAMessage, committed_schedules, Concluded
  <2> QED
    BY <2>1, <2>2, <2>3, QuietSpeech
<1> QED
  BY <1>1, <1>2

\* continue_run takes over the active trials that run_control names.
LEMMA ContinueSpeech ==
  ASSUME EngineInv, SpeechInv, ContinueRun
  PROVE  SpeechInv'
<1>1. /\ UNCHANGED <<row, pending, stage>> /\ pc = "down" /\ pc' = "boot"
      /\ control.status \in {"interrupted", "failed"} /\ control'.status = "running"
      /\ recovered' = control.active
  BY DEF ContinueRun, storeVars
<1>2. stage' = "boot" /\ ~Working'
  BY <1>1 DEF EngineInv, CommitterInv, Working
<1> QED
  BY <1>1, <1>2 DEF SpeechInv, RestoredAgrees, RowAgrees

\* The boot restores the results on disk, and the trials that were active.
LEMMA BootSpeech ==
  ASSUME EngineInv, SpeechInv, Boot
  PROVE  SpeechInv'
<1>1. /\ UNCHANGED <<row, control, stage, recovered>> /\ pc = "boot" /\ pc' = "drain"
      /\ queue' = [s \in Slots |-> IF Restored(s) = {} THEN NoResult ELSE CHOOSE r \in Restored(s) : TRUE]
      /\ pending' = PendingRecords(queue')
  BY DEF Boot, storeVars
<1>2. stage' = "boot" /\ control'.status = "running"
  BY <1>1 DEF EngineInv, CommitterInv, SpeechInv, RestoredAgrees
<1>3. ASSUME NEW s \in Slots, NEW r \in Restored(s) PROVE RowAgrees(s, r.trial)
  <2>1. CASE pending[s] # NoResult
    BY <1>3, <2>1 DEF Restored, SpeechInv, RestoredAgrees
  <2>2. CASE pending[s] = NoResult
    <3>1. PICK a \in recovered : a.slot = s /\ r = [trial |-> a.trial, status |-> "failed"]
      BY <1>3, <2>2 DEF Restored, LostTrials
    <3> QED
      BY <1>1, <3>1 DEF SpeechInv, RestoredAgrees
  <2> QED
    BY <2>1, <2>2
<1>4. ASSUME NEW s \in Slots, queue'[s] # NoResult PROVE RowAgrees(s, queue[s].trial)'
  <2>1. queue'[s] \in Restored(s)
    BY <1>1, <1>4
  <2> QED
    BY <1>1, <1>3, <2>1 DEF RowAgrees
<1>5. ASSUME NEW s \in Slots, pending'[s] # NoResult PROVE RowAgrees(s, pending[s].trial)'
  <2>1. pending'[s] = queue'[s]
    BY <1>1, <1>5 DEF PendingRecords
  <2> QED
    BY <1>4, <1>5, <2>1 DEF RowAgrees
<1> QED
  BY <1>1, <1>2, <1>4, <1>5 DEF SpeechInv, RestoredAgrees

\* A queued result names the trial its row is active for.
LEMMA QueueAgrees ==
  ASSUME EngineInv, SpeechInv, Working, NEW s \in Slots, queue[s] # NoResult
  PROVE  RowAgrees(s, queue[s].trial)
<1>1. CASE stage = "boot"
  BY <1>1 DEF SpeechInv, RestoredAgrees
<1>2. CASE stage # "boot"
  <2>1. slot_states[s] # "BlockedActive"
    BY <1>2 DEF EngineInv, CommitterInv, HandedOver
  <2>2. Speaks(s, queue[s].trial) /\ (row[s].state = "active" => Speaks(s, row[s].trial))
    BY <2>1 DEF Speaks, QueueSpeaks, RowSpeaks
  <2> QED
    BY <1>2, <2>2 DEF SpeechInv, OneVoice, RowAgrees
<1> QED
  BY <1>1, <1>2

\* The queue goes to disk.
LEMMA PersistSpeech ==
  ASSUME EngineInv, SpeechInv, PersistPending \/ PersistResult
  PROVE  SpeechInv'
<1>1. /\ UNCHANGED <<row, control, recovered, keys, queue, stage, events>> /\ UNCHANGED brokerVars
      /\ pending' = PendingRecords(queue) /\ Working /\ pc' # "boot"
  BY DEF PersistPending, PersistResult, storeVars, memoryVars, Working
<1>2. ASSUME NEW s \in Slots, pending'[s] # NoResult PROVE RowAgrees(s, pending[s].trial)'
  <2>1. queue[s] = pending'[s]
    BY <1>1, <1>2, QueueIsPersisted
  <2> QED
    BY <1>1, <1>2, <2>1, QueueAgrees DEF RowAgrees
<1>3. RestoredAgrees'
  BY <1>1, <1>2 DEF SpeechInv, RestoredAgrees, RowAgrees
<1>4. TakesAMessage /\ \A s \in Slots : s \in committed_schedules' => Concluded(s)
  BY <1>1 DEF TakesAMessage, committed_schedules, Concluded
<1>5. stage' # "boot" => OneVoice' /\ OneConclusion'
  BY <1>1, <1>4, QuietVoices
<1> QED
  BY <1>3, <1>5 DEF SpeechInv

\* The broker starts silent: what an earlier engine left active is blocked.
LEMMA SpawnSpeech ==
  ASSUME EngineInv, SpeechInv, Spawn
  PROVE  SpeechInv'
<1>1. /\ UNCHANGED <<row, pending, recovered, keys, queue, events>>
      /\ pc = "spawn" /\ pc' = "loop" /\ stage' = "event" /\ control'.status = "running"
  BY DEF Spawn, storeVars
<1>9. /\ slot_states' = BrokerStates
      /\ wpc' = [w \in Workers |-> IF w \in Threads THEN "claim" ELSE "exited"]
  BY DEF Spawn
<1>2. Working /\ stage = "boot" /\ \A s \in Slots : queue[s] = NoResult
  BY <1>1 DEF EngineInv, CommitterInv, Working
<1>3. RestoredAgrees'
  <2>1. RestoredStays
    BY <1>1 DEF RestoredStays
  <2> QED
    BY <2>1, RestoredKept DEF SpeechInv
<1>4. \A s \in Slots : /\ row[s].state = "active" => slot_states'[s] = "BlockedActive"
                       /\ s \in committed_schedules => slot_states'[s] = "Committed"
  <2> SUFFICES ASSUME NEW s \in Slots
               PROVE  /\ row[s].state = "active" => slot_states'[s] = "BlockedActive"
                      /\ s \in committed_schedules => slot_states'[s] = "Committed"
    OBVIOUS
  <2>1. s \in committed_schedules <=> row[s].state = "committed"
    BY <1>2 DEF EngineInv, CommitterInv
  <2>2. slot_states'[s] = BrokerStates[s]
    BY <1>9
  <2> QED
    BY <2>1, <2>2 DEF BrokerStates
<1>5. DOMAIN events' = {} /\ \A w \in Workers : wpc'[w] \in {"claim", "exited"}
  <2>1. events' = <<>>
    BY <1>1, <1>2 DEF EngineInv, ReportsAreTrue
  <2> QED
    BY <1>9, <2>1
<1>6. \A s \in Slots : \A t : ~Speaks(s, t)'
  <2> SUFFICES ASSUME NEW s \in Slots, NEW t PROVE ~Speaks(s, t)'
    OBVIOUS
  <2>1. ~RowSpeaks(s, t)'
    BY <1>1, <1>4 DEF RowSpeaks
  <2>2. ~QueueSpeaks(s, t)'
    BY <1>1, <1>2 DEF QueueSpeaks
  <2>3. ~MessageSpeaks(s, t)' /\ ~WorkerSpeaks(s, t)'
    BY <1>5 DEF MessageSpeaks, WorkerSpeaks
  <2> QED
    BY <2>1, <2>2, <2>3 DEF Speaks
<1>7. OneVoice'
  <2>1. \A w \in Workers : ~Unannounced(w)'
    BY <1>5 DEF Unannounced
  <2> QED
    BY <1>6, <2>1 DEF OneVoice
<1>8. OneConclusion'
  <2> SUFFICES ASSUME NEW s \in Slots PROVE ConcludedOnce(s)'
    BY DEF OneConclusion
  <2>1. Concluded(s)' => HandedOver(s)'
    BY <1>1, <1>2, <1>4 DEF Concluded, committed_schedules, HandedOver
  <2>2. \A w \in Workers : ~WorkerConcludes(w, s)'
    BY <1>5 DEF WorkerConcludes
  <2> QED
    BY <1>5, <2>1, <2>2 DEF ConcludedOnce
<1> QED
  BY <1>3, <1>7, <1>8 DEF SpeechInv

\* The first message speaks.
LEMMA HeadSpeaks ==
  ASSUME EngineInv, events # <<>>, Head(events).kind \in Voices
  PROVE  /\ 1 \in DOMAIN events /\ events[1] = Head(events)
         /\ MessageSpeaks(Head(events).slot, Head(events).trial)
         /\ IsTrue(Head(events))
<1>1. events \in Seq(Messages)
  BY DEF EngineInv, EngineTypes
<1>2. 1 \in DOMAIN events /\ events[1] = Head(events)
  BY <1>1, TailElements
<1> QED
  BY <1>2 DEF MessageSpeaks, EngineInv, ReportsAreTrue

\* A claim makes its row speak with the voice of its message.
LEMMA ClaimedSpeech ==
  ASSUME EngineInv, SpeechInv, OnClaimed
  PROVE  SpeechInv'
<1> DEFINE e == Head(events)
<1>1. /\ UNCHANGED <<pending, control, recovered, keys, queue, stage>> /\ UNCHANGED brokerVars
      /\ pc = "loop" /\ pc' = "control" /\ e.kind = "Claimed"
      /\ claim_schedule_slot(e.slot, e.trial)
      /\ events # <<>> /\ events' = Tail(events)
  BY DEF OnClaimed, Receive, durableVars
<1>2. MessageSpeaks(e.slot, e.trial) /\ IsTrue(e)
  BY <1>1, HeadSpeaks DEF Voices
<1>3. Working /\ stage # "boot" /\ control.status = "running" /\ OneVoice
  BY <1>1 DEF EngineInv, CommitterInv, SpeechInv, RestoredAgrees, Working
<1> HIDE DEF e
<1>4. e.slot \in Slots /\ Speaks(e.slot, e.trial)
  BY <1>1, <1>2 DEF IsTrue, Speaks
<1>5. row \in [Slots -> Rows]
  BY DEF EngineInv, StoreInv, StoreTypeOK
<1>6. \A s \in Slots : row'[s] = row[s] \/ (s = e.slot /\ row'[s] = ActiveRow(e.trial))
  BY <1>1, <1>5 DEF claim_schedule_slot
<1>7. ASSUME NEW s \in Slots, NEW t, Speaks(s, t), RowAgrees(s, t) PROVE RowAgrees(s, t)'
  BY <1>3, <1>4, <1>6, <1>7 DEF OneVoice, RowAgrees, ActiveRow
<1>8. RestoredAgrees'
  <2>1. ASSUME NEW s \in Slots, pending'[s] # NoResult PROVE RowAgrees(s, pending[s].trial)'
    <3>1. pending[s] # NoResult /\ queue[s] = pending[s]
      BY <1>1, <1>3, <2>1 DEF EngineInv, CommitterInv
    <3>2. Speaks(s, pending[s].trial) /\ RowAgrees(s, pending[s].trial)
      BY <3>1 DEF Speaks, QueueSpeaks, SpeechInv, RestoredAgrees
    <3>3. RowAgrees(s, pending[s].trial)' <=> (row'[s].state = "active" => row'[s].trial = pending[s].trial)
      BY <1>1 DEF RowAgrees
    <3> QED
      BY <1>3, <1>4, <1>6, <3>2, <3>3 DEF OneVoice, RowAgrees, ActiveRow
  <2> QED
    BY <1>1, <1>3, <2>1 DEF RestoredAgrees
<1>9. \A s \in Slots : \A t : RowSpeaks(s, t)' \/ QueueSpeaks(s, t)' => Speaks(s, t)
  <2> SUFFICES ASSUME NEW s \in Slots, NEW t, RowSpeaks(s, t)' \/ QueueSpeaks(s, t)'
               PROVE  Speaks(s, t)
    OBVIOUS
  <2>1. CASE QueueSpeaks(s, t)'
    BY <1>1, <2>1 DEF QueueSpeaks, Speaks
  <2>2. CASE RowSpeaks(s, t)' /\ row'[s] = row[s]
    BY <1>1, <2>2 DEF RowSpeaks, Speaks, brokerVars
  <2>3. CASE RowSpeaks(s, t)' /\ s = e.slot /\ row'[s] = ActiveRow(e.trial)
    BY <1>4, <2>3 DEF RowSpeaks, ActiveRow
  <2> QED
    BY <1>6, <2>1, <2>2, <2>3
<1>10. \A s \in Slots : Concluded(s)' => Concluded(s)
  BY <1>1 DEF Concluded, committed_schedules
<1>11. TakesAMessage
  BY <1>1 DEF TakesAMessage
<1>12. OneVoice' /\ OneConclusion'
  BY <1>1, <1>3, <1>9, <1>10, <1>11, CoordinatorSpeech DEF EngineInv, EngineTypes, SpeechInv
<1> QED
  BY <1>8, <1>12 DEF SpeechInv

\* A conclusion goes from its message to the queue.
LEMMA ConclusionSpeech ==
  ASSUME EngineInv, SpeechInv, OnSkippedPruned \/ OnCompleted
  PROVE  SpeechInv'
<1> DEFINE e == Head(events)
<1>1. /\ UNCHANGED <<row, pending, control, recovered, keys, stage>> /\ UNCHANGED brokerVars
      /\ pc = "loop" /\ pc' # "boot" /\ e.kind \in Conclusions
      /\ events # <<>> /\ events' = Tail(events)
  BY DEF OnSkippedPruned, OnCompleted, Receive, Fail, durableVars, storeVars, Conclusions
<1>2. MessageSpeaks(e.slot, e.trial) /\ IsTrue(e) /\ MessageConcludes(1, e.slot)
  BY <1>1, HeadSpeaks DEF Voices, Conclusions, MessageConcludes
<1>3. Working /\ stage # "boot" /\ control.status = "running"
  BY <1>1 DEF EngineInv, CommitterInv, SpeechInv, RestoredAgrees, Working
<1>4. queue' = queue \/ \E st : queue' = [queue EXCEPT ![e.slot] = [trial |-> e.trial, status |-> st]]
  <2>1. CASE OnCompleted
    BY <2>1 DEF OnCompleted, Enqueued
  <2>2. CASE OnSkippedPruned
    <3>1. e.trial = NoTrial
      BY <1>2, <2>2 DEF OnSkippedPruned, Receive, IsTrue
    <3> QED
      BY <2>2, <3>1 DEF OnSkippedPruned, Enqueued, Skipped
  <2> QED
    BY <2>1, <2>2
<1>5. e.slot \in Slots
  BY <1>1, <1>2 DEF IsTrue, Conclusions, HandedOver
<1> HIDE DEF e
<1>6. queue \in [Slots -> Results \cup {Skipped, NoResult}]
  BY DEF EngineInv, EngineTypes
<1>7. \A s \in Slots : queue'[s] = queue[s] \/ (s = e.slot /\ queue'[s].trial = e.trial)
  <2>1. CASE queue' = queue
    BY <2>1
  <2>2. ASSUME NEW st, queue' = [queue EXCEPT ![e.slot] = [trial |-> e.trial, status |-> st]]
        PROVE  \A s \in Slots : queue'[s] = queue[s] \/ (s = e.slot /\ queue'[s].trial = e.trial)
    <3> DEFINE r == [trial |-> e.trial, status |-> st]
    <3>1. r.trial = e.trial /\ queue' = [queue EXCEPT ![e.slot] = r]
      BY <2>2
    <3> HIDE DEF r
    <3> QED
      BY <1>5, <1>6, <3>1
  <2> QED
    BY <1>4, <2>1, <2>2
<1>8. RestoredAgrees'
  <2>1. RestoredStays
    BY <1>1, <1>3 DEF RestoredStays
  <2> QED
    BY <2>1, RestoredKept DEF SpeechInv
<1>9. \A s \in Slots : \A t : RowSpeaks(s, t)' \/ QueueSpeaks(s, t)' => Speaks(s, t)
  <2> SUFFICES ASSUME NEW s \in Slots, NEW t, RowSpeaks(s, t)' \/ QueueSpeaks(s, t)'
               PROVE  Speaks(s, t)
    OBVIOUS
  <2>1. CASE RowSpeaks(s, t)'
    BY <1>1, <2>1 DEF RowSpeaks, Speaks, brokerVars
  <2>2. CASE QueueSpeaks(s, t)'
    BY <1>2, <1>7, <2>2 DEF QueueSpeaks, Speaks
  <2> QED
    BY <2>1, <2>2
<1>10. \A s \in Slots : Concluded(s)' => Concluded(s) \/ MessageConcludes(1, s)
  BY <1>1, <1>2, <1>7 DEF Concluded, committed_schedules
<1>11. TakesAMessage
  BY <1>1 DEF TakesAMessage
<1>12. OneVoice' /\ OneConclusion'
  BY <1>1, <1>3, <1>9, <1>10, <1>11, CoordinatorSpeech DEF EngineInv, EngineTypes, SpeechInv
<1> QED
  BY <1>8, <1>12 DEF SpeechInv

\* The active trials an interrupt writes down are the trials of their rows: a row that is active and
\* not blocked has been claimed for the one trial that speaks for the slot.
LEMMA InterruptSpeech ==
  ASSUME EngineInv, SpeechInv, Interrupt
  PROVE  SpeechInv'
<1>1. /\ UNCHANGED <<row, pending, recovered, keys, queue, stage, events>>
      /\ pc = "loop" /\ pc' = "shutdown" /\ stop_accepting
      /\ control' = [status |-> "interrupted", active |-> active_trials]
  BY DEF Interrupt, storeVars
<1>2. stage # "boot" /\ OneVoice /\ Ownership /\ BrokerInv
  BY <1>1 DEF EngineInv, CommitterInv, SpeechInv, BrokerInv
<1>3. ASSUME NEW a \in active_trials PROVE RowAgrees(a.slot, a.trial)
  <2>1. PICK d \in in_flight : a.slot = d.slot /\ a.trial = d.trial
    BY <1>3 DEF active_trials
  <2>2. d \in Dispatches /\ d.worker \in Workers /\ d.slot \in Slots
    BY <1>2 DEF Ownership, BrokerTypeOK, Dispatches
  <2>3. /\ Busy(d.worker) /\ work[d.worker].slot = d.slot /\ work[d.worker].trial = d.trial
        /\ slot_states[d.slot] = "Active"
    BY <1>2, <2>2 DEF Ownership, OwnedOnce, Dispatch
  <2>4. row[d.slot].state = "active" => Speaks(d.slot, row[d.slot].trial)
    BY <2>3 DEF Speaks, RowSpeaks
  <2>5. CASE Unannounced(d.worker)
    BY <1>2, <2>1, <2>2, <2>3, <2>4, <2>5 DEF OneVoice, RowAgrees
  <2>6. CASE ~Unannounced(d.worker)
    <3>1. wpc[d.worker] = "execute"
      BY <2>3, <2>6 DEF Busy, Unannounced
    <3>2. Speaks(d.slot, d.trial)
      BY <2>2, <2>3, <3>1 DEF Speaks, WorkerSpeaks
    <3> QED
      BY <1>2, <2>1, <2>2, <2>4, <3>2 DEF OneVoice, RowAgrees
  <2> QED
    BY <2>5, <2>6
<1>4. control'.active = active_trials
  BY <1>1
<1>5. ~Working' /\ pc' # "boot"
  BY <1>1 DEF Working
<1>6. RestoredAgrees'
  BY <1>1, <1>3, <1>4, <1>5 DEF SpeechInv, RestoredAgrees, RowAgrees
<1>7. TakesAMessage /\ [CoordinatorStep]_brokerVars
  BY <1>1, <1>2, StopIsAStep DEF TakesAMessage
<1>8. \A s \in Slots : s \in committed_schedules' => Concluded(s)
  BY <1>1 DEF committed_schedules, Concluded
<1>9. OneVoice' /\ OneConclusion'
  BY <1>1, <1>2, <1>7, <1>8, QuietVoices
<1> QED
  BY <1>6, <1>9 DEF SpeechInv

LEMMA WorkerSpeech ==
  ASSUME EngineInv, SpeechInv, NEW w \in Workers, WorkerActs(w)
  PROVE  SpeechInv'
<1>1. UNCHANGED <<row, pending, control, stage, recovered, queue, pc>>
  BY WorkerLeaves DEF CoordinatorVars, storeVars
<1>2. RestoredStays
  BY <1>1 DEF RestoredStays, Working, SpeechInv, RestoredAgrees
<1> QED
  BY <1>1, <1>2, RestoredKept, WorkerVoice, WorkerConclusion DEF SpeechInv

LEMMA SpeechStep == EngineInv /\ SpeechInv /\ [EngineNext]_vars => SpeechInv'
<1> SUFFICES ASSUME EngineInv, SpeechInv, [EngineNext]_vars PROVE SpeechInv'
  OBVIOUS
<1>1. CASE Coordinator
  BY <1>1, BootSpeech, LoopSpeech, CommitSpeech, PersistSpeech, SpawnSpeech, ClaimedSpeech,
     ConclusionSpeech, LeavingSpeech, EndSpeech
  DEF Coordinator
<1>2. CASE Recovery
  BY <1>2, LeavingSpeech, EndSpeech DEF Recovery
<1>3. ASSUME NEW w \in Workers, Worker(w) \/ ClaimFails(w) \/ AttemptFails(w)
      PROVE  SpeechInv'
  BY <1>3, WorkerSpeech DEF WorkerActs
<1>4. CASE Fault
  BY <1>3, <1>4, LeavingSpeech, InterruptSpeech, EndSpeech DEF Fault
<1>5. CASE Operator
  BY <1>5, ContinueSpeech, RecoverSpeech DEF Operator
<1>6. CASE Finished \/ UNCHANGED vars
  BY <1>6, RecoverSpeech DEF Finished
<1> QED
  BY <1>1, <1>2, <1>3, <1>4, <1>5, <1>6 DEF EngineNext

LEMMA SpeechInvariance == EngineSpec => [](EngineInv /\ SpeechInv)
<1>1. EngineInit => SpeechInv
  <2> SUFFICES ASSUME EngineInit PROVE SpeechInv
    OBVIOUS
  <2>1. /\ stage = "boot" /\ pc = "boot" /\ recovered = {} /\ control.status = "running"
        /\ \A s \in Slots : pending[s] = NoResult
    BY DEF EngineInit, NoEngine
  <2>2. ~Working
    BY <2>1 DEF Working
  <2> QED
    BY <2>1, <2>2 DEF SpeechInv, RestoredAgrees
<1> QED
  BY <1>1, EngineInvariance, SpeechStep, PTL DEF EngineSpec

\* The store accepts what the committer commits, and the committer what it is told.
LEMMA NothingIsRefused ==
  ASSUME EngineInv, SpeechInv
  PROVE  CommitsAreAccepted
<1>1. ASSUME pc = "commit", NEW s \in Slots, NextReady(s) PROVE CommitAccepted(s, CommitOf(s))
  <2>1. Working /\ queue[s] # NoResult
    BY <1>1 DEF Working, NextReady
  <2>2. RowAgrees(s, queue[s].trial) /\ row[s].state # "committed"
    BY <2>1, QueueAgrees DEF EngineInv, CommitterInv
  <2>3. CommitOf(s).trial = queue[s].trial
    BY DEF CommitOf
  <2> QED
    BY <2>2, <2>3 DEF CommitAccepted, OwnerMatches, NotCommittedOtherwise, RowAgrees
<1>2. ASSUME pc = "loop", events # <<>>, Head(events).kind \in Conclusions, NEW r
      PROVE  ~EnqueueFault(Head(events).slot, r)
  <2>1. /\ 1 \in DOMAIN events /\ events[1] = Head(events) /\ IsTrue(Head(events))
    BY <1>2, HeadSpeaks DEF Voices, Conclusions
  <2>2. Head(events).slot \in Slots /\ MessageConcludes(1, Head(events).slot)
    BY <1>2, <2>1 DEF IsTrue, HandedOver, Conclusions, MessageConcludes
  <2>3. stage # "boot"
    BY <1>2 DEF EngineInv, CommitterInv
  <2>4. ~Concluded(Head(events).slot)
    BY <2>1, <2>2, <2>3 DEF SpeechInv, OneConclusion, ConcludedOnce
  <2> QED
    BY <2>4 DEF Concluded, EnqueueFault
<1> QED
  BY <1>1, <1>2 DEF CommitsAreAccepted, Conclusions

\* Whatever a crash, an interrupt or a recovery has cut off, the commits of a run are in order: its
\* stored progress names exactly the commits of the journal, no slot is committed without its intent
\* on disk, and no commit is refused: commit_schedule_slot_transaction finds no row that is active
\* for another trial, and the committer no second conclusion of a slot.
THEOREM CommitsInOrder == EngineSpec => []CommitsAreInOrder
<1>1. EngineInv /\ SpeechInv => CommitsAreAccepted
  BY NothingIsRefused
<1> QED
  BY <1>1, SpeechInvariance, DiskIsInOrder, PTL DEF CommitsAreInOrder

-----------------------------------------------------------------------------
(* What a run that reports completed has left. *)

\* The engine's loop and its drains, before the last one.
Looping == pc \in {"drain", "commit", "persist", "loop", "result", "control"} /\ stage = "event"

\* Somebody will tell the committer of the slot's conclusion, or it has it.
IsHeardOf(s) ==
  \/ \E i \in DOMAIN events : MessageConcludes(i, s)
  \/ \E w \in Workers : WorkerConcludes(w, s)
  \/ Concluded(s)

\* No slot that its worker is through with is forgotten, and the broker knows what is committed.
NoneIsForgotten ==
  Looping =>
    /\ \A s \in Slots : slot_states[s] = "CompletedPendingCommit" => IsHeardOf(s)
    /\ pc \notin {"drain", "commit"} => \A s \in Slots : s \in committed_schedules => slot_states[s] = "Committed"

\* The Exited messages under way, and the threads that have sent theirs.
Exits == {i \in DOMAIN events : events[i].kind = "Exited"}
Gone == {w \in Threads : wpc[w] = "exited"}

\* A thread that is gone has been counted or its message is under way, and no message comes after the
\* last of these.
ExitsAreCounted ==
  /\ Cardinality(Threads) = budget["threads"]
  /\ stage # "boot" =>
       /\ \A w \in Workers \ Threads : wpc[w] = "exited"
       /\ exited_workers \in Nat /\ exited_workers + Cardinality(Exits) = Cardinality(Gone)
       /\ events # <<>> /\ (\A w \in Workers : wpc[w] = "exited") => events[Len(events)].kind = "Exited"
  /\ stage = "boot" => exited_workers = 0

\* What the broker takes for committed or for somebody else's is so in the store, and what the
\* engine releases is neither.
StatesAreTheRows ==
  stage # "boot" =>
    \A s \in Slots :
      /\ slot_states[s] = "Committed" => row[s].state = "committed"
      /\ slot_states[s] = "BlockedActive" => row[s].state # "pending"
      /\ pc = "release" /\ s \in closing => slot_states[s] \notin {"Committed", "BlockedActive"}

\* The slots an engine in its last drain has left.
Settled(s) == slot_states[s] \in {"Committed", "BlockedActive"}

\* An engine comes to its last drain, and so to completed, with no other slots.
LastWord ==
  /\ stage \in {"boot", "event", "final"}
  /\ stage = "final" => \A s \in Slots : Settled(s)
  /\ outcome = "completed" => stage = "final"
  /\ pc \in RecoverPCs => stage = "boot"
  /\ control.status = "completed" => pc = "down" /\ \A s \in Slots : row[s].state # "pending"

CompletionInv == NoneIsForgotten /\ ExitsAreCounted /\ StatesAreTheRows /\ LastWord

\* The sets that are counted are finite.
LEMMA ExitsAreFinite ==
  ASSUME EngineInv
  PROVE  /\ Len(events) \in Nat /\ DOMAIN events = 1 .. Len(events)
         /\ IsFiniteSet(Exits) /\ Cardinality(Exits) \in Nat
         /\ IsFiniteSet(Threads) /\ Cardinality(Threads) \in Nat
         /\ IsFiniteSet(Gone) /\ Cardinality(Gone) \in Nat /\ Cardinality(Gone) <= Cardinality(Threads)
         /\ Cardinality(Gone) = Cardinality(Threads) => Gone = Threads
<1>1. events \in Seq(Messages) /\ Threads \in SUBSET Workers
  BY DEF EngineInv, EngineTypes, BudgetKept
<1>2. Len(events) \in Nat /\ DOMAIN events = 1 .. Len(events)
  BY <1>1
<1>3. IsFiniteSet(1 .. Len(events))
  BY <1>2, FS_Interval
<1>4. IsFiniteSet(Exits)
  BY <1>2, <1>3, FS_Subset DEF Exits
<1>5. IsFiniteSet(Threads)
  BY <1>1, WorkersAssumption, FS_Subset
<1>6. Gone \in SUBSET Threads
  BY DEF Gone
<1>7. /\ IsFiniteSet(Gone) /\ Cardinality(Gone) <= Cardinality(Threads)
      /\ Cardinality(Threads) = Cardinality(Gone) => Threads = Gone
  BY <1>5, <1>6, FS_Subset
<1> QED
  BY <1>2, <1>4, <1>5, <1>7, FS_CardinalityType

\* A step has a fault of its budget, or none.
PaidFor == budget' = budget \/ \E kind \in Faults \ {"any"} : Spend(kind)

\* The coordinator takes the first message or none, and counts those of workers that are gone.
CountsExits ==
  \/ events' = events /\ exited_workers' = exited_workers
  \/ /\ events # <<>> /\ events' = Tail(events)
     /\ exited_workers' = IF Head(events).kind = "Exited" THEN exited_workers + 1 ELSE exited_workers

\* The number of threads does not change.
LEMMA ThreadsStay ==
  ASSUME BudgetKept, PaidFor
  PROVE  budget'["threads"] = budget["threads"] /\ Threads' = Threads
<1>1. budget'["threads"] = budget["threads"]
  <2>1. CASE budget' = budget
    BY <2>1
  <2>2. ASSUME NEW kind \in Faults \ {"any"}, Spend(kind)
        PROVE  budget'["threads"] = budget["threads"]
    BY <2>2 DEF BudgetKept, Spend, Faults, Bounds
  <2> QED
    BY <2>1, <2>2 DEF PaidFor
<1> QED
  BY <1>1 DEF Threads

\* Taking the first message takes one Exited message away, if it is one.
LEMMA ExitTaken ==
  ASSUME EngineInv, events # <<>>, events' = Tail(events), NEW n \in Nat,
         n = IF Head(events).kind = "Exited" THEN 1 ELSE 0
  PROVE  /\ Cardinality(Exits') + n = Cardinality(Exits)
         /\ Cardinality(Exits') \in Nat
         /\ events' # <<>> => events'[Len(events')] = events[Len(events)]
<1>1. /\ events \in Seq(Messages) /\ Len(events) \in Nat /\ DOMAIN events = 1 .. Len(events)
      /\ IsFiniteSet(Exits) /\ Cardinality(Exits) \in Nat
  BY ExitsAreFinite DEF EngineInv, EngineTypes
<1>2. /\ Len(events) # 0 /\ Len(events') = Len(events) - 1
      /\ events' \in Seq(Messages) /\ DOMAIN events' = 1 .. Len(events) - 1 /\ events[1] = Head(events)
  BY <1>1
<1>3. \A i \in 1 .. Len(events) - 1 : events'[i] = events[i + 1]
  BY <1>1, <1>2
<1> DEFINE Rest == Exits \ {1}
           f == [i \in Exits' |-> i + 1]
<1>4. f \in Bijection(Exits', Rest)
  <2>1. \A i \in Exits' : f[i] \in Rest
    BY <1>1, <1>2, <1>3 DEF Exits
  <2>2. \A i, j \in Exits' : f[i] = f[j] => i = j
    BY <1>2 DEF Exits
  <2>3. \A k \in Rest : \E i \in Exits' : f[i] = k
    <3> SUFFICES ASSUME NEW k \in Rest PROVE \E i \in Exits' : f[i] = k
      OBVIOUS
    <3>1. k \in 1 .. Len(events) /\ k # 1 /\ events[k].kind = "Exited"
      BY <1>1 DEF Exits
    <3>2. k - 1 \in 1 .. Len(events) - 1 /\ (k - 1) + 1 = k
      BY <1>1, <3>1
    <3>3. k - 1 \in Exits'
      BY <1>2, <1>3, <3>1, <3>2 DEF Exits
    <3> QED
      BY <3>2, <3>3
  <2> QED
    BY <2>1, <2>2, <2>3 DEF Bijection, Injection, Surjection, IsInjective
<1>5. IsFiniteSet(Exits') /\ Cardinality(Exits') = Cardinality(Rest)
  <2>1. IsFiniteSet(1 .. Len(events) - 1) /\ Exits' \in SUBSET (1 .. Len(events) - 1)
    BY <1>1, <1>2, FS_Interval DEF Exits
  <2>2. IsFiniteSet(Exits')
    BY <2>1, FS_Subset
  <2>3. ExistsBijection(Exits', Rest)
    BY <1>4 DEF ExistsBijection
  <2> QED
    BY <2>2, <2>3, FS_Bijection
<1>6. Cardinality(Rest) = IF 1 \in Exits THEN Cardinality(Exits) - 1 ELSE Cardinality(Exits)
  BY <1>1, FS_RemoveElement
<1>7. 1 \in Exits <=> Head(events).kind = "Exited"
  BY <1>1, <1>2 DEF Exits
<1>8. events' # <<>> => events'[Len(events')] = events[Len(events)]
  <2> SUFFICES ASSUME events' # <<>> PROVE events'[Len(events')] = events[Len(events)]
    OBVIOUS
  <2>1. Len(events') # 0
    BY <1>2
  <2>2. Len(events) - 1 \in 1 .. Len(events) - 1 /\ (Len(events) - 1) + 1 = Len(events)
    BY <1>1, <1>2, <2>1
  <2> QED
    BY <1>2, <1>3, <2>2
<1>9. Cardinality(Exits') \in Nat
  BY <1>5, FS_CardinalityType
<1> QED
  BY <1>1, <1>5, <1>6, <1>7, <1>8, <1>9

\* The coordinator counts what it takes.
LEMMA ExitsKept ==
  ASSUME EngineInv, ExitsAreCounted, stage # "boot", stage' # "boot", PaidFor, CountsExits,
         \A w \in Workers : wpc'[w] = "exited" <=> wpc[w] = "exited"
  PROVE  ExitsAreCounted'
<1>1. Threads' = Threads /\ budget'["threads"] = budget["threads"] /\ Threads \in SUBSET Workers
  BY ThreadsStay DEF EngineInv, BudgetKept
<1>2. Gone' = Gone
  BY <1>1 DEF Gone
<1>3. /\ \A w \in Workers \ Threads' : wpc'[w] = "exited"
      /\ Cardinality(Threads') = budget'["threads"]
  BY <1>1 DEF ExitsAreCounted
<1>4. Cardinality(Exits) \in Nat
  BY ExitsAreFinite
<1>5. CASE events' = events /\ exited_workers' = exited_workers
  BY <1>2, <1>3, <1>5 DEF ExitsAreCounted, Exits
<1>6. CASE /\ events # <<>> /\ events' = Tail(events)
           /\ exited_workers' = IF Head(events).kind = "Exited" THEN exited_workers + 1
                                                                ELSE exited_workers
  <2> DEFINE n == IF Head(events).kind = "Exited" THEN 1 ELSE 0
  <2>1. n \in Nat
    OBVIOUS
  <2>2. /\ Cardinality(Exits') + n = Cardinality(Exits) /\ Cardinality(Exits') \in Nat
        /\ events' # <<>> => events'[Len(events')] = events[Len(events)]
    BY <1>6, <2>1, ExitTaken
  <2>3. exited_workers' = exited_workers + n /\ exited_workers \in Nat
    BY <1>6 DEF ExitsAreCounted
  <2>4. exited_workers' + Cardinality(Exits') = Cardinality(Gone)
    BY <1>4, <2>1, <2>2, <2>3 DEF ExitsAreCounted
  <2>5. exited_workers' \in Nat
    BY <2>1, <2>3
  <2> QED
    BY <1>2, <1>3, <1>6, <2>2, <2>4, <2>5 DEF ExitsAreCounted
<1> QED
  BY <1>5, <1>6 DEF CountsExits

\* The other workers: one that waits may be woken, and that is all.
LEMMA OthersAreWoken ==
  ASSUME EngineInv, NEW w \in Workers, WorkerActs(w), NEW u \in Workers, u # w
  PROVE  /\ wpc'[u] = wpc[u] \/ (wpc[u] = "wait" /\ wpc'[u] = "claim")
         /\ work'[u] = work[u]
<1>0. BrokerTypeOK
  BY DEF EngineInv, BrokerInv, Ownership
<1>1. CASE Pull(w)
  BY <1>0, <1>1 DEF Pull, ClaimTrial, ClaimSkip, ClaimNone, ClaimWait, BrokerTypeOK
<1>2. CASE ClaimFails(w)
  BY <1>0, <1>2, Notified DEF ClaimFails, rollback_claim, release_owned_to_pending, GiveUpSlot
<1>3. CASE CompleteTrial(w)
  BY <1>0, <1>3, Notified DEF CompleteTrial, complete_owned, GiveUpSlot
<1>4. CASE StartAttempt(w) \/ FinishAttempt(w) \/ AttemptFails(w)
  BY <1>4 DEF StartAttempt, FinishAttempt, AttemptFails, brokerVars
<1>5. CASE RecordClaim(w) \/ AnnounceClaim(w) \/ ReportCompleted(w) \/ ReportSkipped(w)
             \/ ReportFatal(w) \/ ReportExited(w)
  BY <1>0, <1>5
  DEF RecordClaim, AnnounceClaim, ReportCompleted, ReportSkipped, ReportFatal, ReportExited,
      WriteClaimIntent, SendClaimed, SendCompleted, SendSkippedPruned, SendFatal, SendExited,
      WorkerMoves, BrokerTypeOK
<1> QED
  BY <1>1, <1>2, <1>3, <1>4, <1>5 DEF WorkerActs, Worker

\* What a worker does to the slots, to its place and to the channel: it touches no slot that is
\* committed or somebody else's, it will tell of a slot that it is through with, and its Exited is the
\* last it says.
LEMMA WorkerConduct ==
  ASSUME EngineInv, NEW w \in Workers, WorkerActs(w)
  PROVE  /\ \A s \in Slots :
              /\ slot_states'[s] = slot_states[s]
                   \/ (~Settled(s) /\ slot_states'[s] \in {"Pending", "Active", "CompletedPendingCommit"})
              /\ slot_states'[s] = "CompletedPendingCommit" =>
                   slot_states[s] = "CompletedPendingCommit" \/ WorkerConcludes(w, s)'
         /\ \/ events' = events /\ wpc'[w] # "exited" /\ wpc[w] \notin {"report", "skip"}
            \/ \E kind \in EventKinds : Send(kind, w) /\ (wpc'[w] = "exited" <=> kind = "Exited")
                                          /\ (wpc[w] \in {"report", "skip"} => kind \in Conclusions)
         /\ PaidFor
<1>0. /\ BrokerTypeOK /\ Ownership
      /\ wpc \in [Workers -> WorkerStates] /\ slot_states \in [Slots -> SlotStates]
      /\ work \in [Workers -> [trial : Trials \cup {NoTrial}, slot : Slots \cup {0}]]
  BY DEF EngineInv, BrokerInv, Ownership, BrokerTypeOK
<1>1. CASE Pull(w)
  <2>1. PaidFor /\ events' = events
    BY <1>1 DEF Pull, PaidFor
  <2>2. wpc'[w] # "exited" /\ wpc[w] = "claim"
    BY <1>0, <1>1 DEF Pull, ClaimTrial, ClaimSkip, ClaimNone, ClaimWait
  <2>3. ASSUME NEW s \in Slots
        PROVE  /\ slot_states'[s] = slot_states[s]
                    \/ (~Settled(s) /\ slot_states'[s] \in {"Pending", "Active", "CompletedPendingCommit"})
               /\ slot_states'[s] = "CompletedPendingCommit" =>
                    slot_states[s] = "CompletedPendingCommit" \/ WorkerConcludes(w, s)'
    <3>1. CASE ClaimTrial(w)
      BY <1>0, <3>1 DEF ClaimTrial, FirstClaimable, Claimable, Settled
    <3>2. CASE ClaimSkip(w)
      BY <1>0, <3>2 DEF ClaimSkip, FirstClaimable, Claimable, Settled, WorkerConcludes
    <3>3. CASE ClaimNone(w) \/ ClaimWait(w)
      BY <3>3 DEF ClaimNone, ClaimWait
    <3> QED
      BY <1>1, <3>1, <3>2, <3>3 DEF Pull
  <2> QED
    BY <2>1, <2>2, <2>3
<1>2. CASE ClaimFails(w) \/ CompleteTrial(w)
  <2>1. PaidFor /\ events' = events
    BY <1>2 DEF ClaimFails, CompleteTrial, PaidFor, Faults
  <2>2. PICK next \in {"Pending", "CompletedPendingCommit"}, at \in {"fatal", "report"} :
             GiveUpSlot(w, next, at) /\ (next = "CompletedPendingCommit" => at = "report")
    BY <1>2 DEF ClaimFails, CompleteTrial, rollback_claim, release_owned_to_pending, complete_owned
  <2>3. Busy(w)
    BY <1>2 DEF ClaimFails, CompleteTrial, rollback_claim, release_owned_to_pending, complete_owned, Busy
  <2>4. work[w].slot \in Slots /\ slot_states[work[w].slot] = "Active"
    BY <1>0, <2>3, BusyWork DEF Ownership, OwnedOnce, Dispatch
  <2>5. wpc'[w] = at /\ work' = work
    BY <1>0, <2>2, Notified DEF GiveUpSlot
  <2>6. slot_states' = [slot_states EXCEPT ![work[w].slot] = next]
    BY <2>2 DEF GiveUpSlot
  <2>7. ASSUME NEW s \in Slots
        PROVE  /\ slot_states'[s] = slot_states[s]
                    \/ (~Settled(s) /\ slot_states'[s] \in {"Pending", "Active", "CompletedPendingCommit"})
               /\ slot_states'[s] = "CompletedPendingCommit" =>
                    slot_states[s] = "CompletedPendingCommit" \/ WorkerConcludes(w, s)'
    BY <1>0, <2>2, <2>4, <2>5, <2>6 DEF Settled, WorkerConcludes
  <2>8. wpc'[w] # "exited" /\ wpc[w] \notin {"report", "skip"}
    BY <2>3, <2>5 DEF Busy
  <2> QED
    BY <2>1, <2>7, <2>8
<1>3. CASE StartAttempt(w) \/ FinishAttempt(w) \/ AttemptFails(w)
  BY <1>3 DEF StartAttempt, FinishAttempt, AttemptFails, brokerVars, PaidFor, Faults
<1>4. CASE RecordClaim(w)
  BY <1>0, <1>4 DEF RecordClaim, WriteClaimIntent, WorkerMoves, PaidFor
<1>5. CASE AnnounceClaim(w) \/ ReportCompleted(w) \/ ReportSkipped(w) \/ ReportFatal(w) \/ ReportExited(w)
  <2>1. slot_states' = slot_states /\ PaidFor
    BY <1>5
    DEF AnnounceClaim, ReportCompleted, ReportSkipped, ReportFatal, ReportExited,
        SendClaimed, SendCompleted, SendSkippedPruned, SendFatal, SendExited, WorkerMoves, PaidFor
  <2>2. \E kind \in EventKinds : Send(kind, w) /\ (wpc'[w] = "exited" <=> kind = "Exited")
                                  /\ (wpc[w] \in {"report", "skip"} => kind \in Conclusions)
    BY <1>0, <1>5
    DEF AnnounceClaim, ReportCompleted, ReportSkipped, ReportFatal, ReportExited,
        SendClaimed, SendCompleted, SendSkippedPruned, SendFatal, SendExited, WorkerMoves,
        EventKinds, Conclusions
  <2> QED
    BY <2>1, <2>2
<1> QED
  BY <1>1, <1>2, <1>3, <1>4, <1>5 DEF WorkerActs, Worker

\* A message put at the end leaves the others where they are.
LEMMA ExitSent ==
  ASSUME EngineInv, NEW w \in Workers, NEW kind \in EventKinds, Send(kind, w)
  PROVE  /\ kind # "Exited" => Exits' = Exits
         /\ kind = "Exited" => Cardinality(Exits') = Cardinality(Exits) + 1
         /\ events' # <<>> /\ events'[Len(events')].kind = kind
<1> DEFINE e == [kind |-> kind, trial |-> work[w].trial, slot |-> work[w].slot, result |-> result[w]]
           n == Len(events) + 1
<1>1. events' = Append(events, e) /\ e.kind = kind
  BY DEF Send
<1> HIDE DEF e
<1>2. /\ events \in Seq(Messages) /\ Len(events) \in Nat /\ DOMAIN events = 1 .. Len(events)
      /\ IsFiniteSet(Exits) /\ Cardinality(Exits) \in Nat
  BY ExitsAreFinite DEF EngineInv, EngineTypes
<1>3. /\ DOMAIN events' = 1 .. n /\ Len(events') = n /\ events'[n] = e /\ events' # <<>>
      /\ \A i \in 1 .. Len(events) : events'[i] = events[i]
  BY <1>1, <1>2
<1>4. n \notin 1 .. Len(events) /\ \A i : i \in 1 .. n <=> (i \in 1 .. Len(events) \/ i = n)
  BY <1>2
<1> HIDE DEF n
<1>5. kind # "Exited" => Exits' = Exits
  BY <1>1, <1>2, <1>3, <1>4 DEF Exits
<1>6. kind = "Exited" => Exits' = Exits \cup {n}
  BY <1>1, <1>2, <1>3, <1>4 DEF Exits
<1>7. n \notin Exits
  BY <1>2, <1>4 DEF Exits
<1>8. Cardinality(Exits \cup {n}) = Cardinality(Exits) + 1
  BY <1>2, <1>7, FS_AddElement
<1> QED
  BY <1>1, <1>3, <1>5, <1>6, <1>8

\* A worker that goes says so, and is the last to speak if all are gone.
LEMMA WorkerExit ==
  ASSUME EngineInv, ExitsAreCounted, stage # "boot", NEW w \in Workers, WorkerActs(w)
  PROVE  ExitsAreCounted'
<1>1. UNCHANGED <<stage, exited_workers>> /\ wpc[w] # "exited" /\ PaidFor
  BY WorkerLeaves, WorkerRuns, WorkerConduct
<1>2. Threads' = Threads /\ budget'["threads"] = budget["threads"] /\ Threads \in SUBSET Workers
  BY <1>1, ThreadsStay DEF EngineInv, BudgetKept
<1>3. \A u \in Workers \ {w} : wpc'[u] = "exited" <=> wpc[u] = "exited"
  BY OthersAreWoken
<1>4. w \in Threads
  BY <1>1 DEF ExitsAreCounted
<1>5. \A u \in Workers \ Threads : wpc'[u] = "exited"
  BY <1>3, <1>4 DEF ExitsAreCounted
<1>6. /\ IsFiniteSet(Gone) /\ Cardinality(Gone) \in Nat /\ Cardinality(Exits) \in Nat
      /\ exited_workers \in Nat /\ exited_workers + Cardinality(Exits) = Cardinality(Gone)
      /\ Cardinality(Threads) = budget["threads"]
  BY ExitsAreFinite DEF ExitsAreCounted
<1>7. CASE wpc'[w] = "exited"
  <2>1. PICK kind \in EventKinds : Send(kind, w) /\ kind = "Exited"
    BY <1>7, WorkerConduct
  <2>2. /\ Cardinality(Exits') = Cardinality(Exits) + 1
        /\ events' # <<>> /\ events'[Len(events')].kind = "Exited"
    BY <2>1, ExitSent
  <2>3. Gone' = Gone \cup {w} /\ w \notin Gone
    BY <1>1, <1>2, <1>3, <1>4, <1>7 DEF Gone
  <2>4. Cardinality(Gone') = Cardinality(Gone) + 1
    BY <1>6, <2>3, FS_AddElement
  <2> QED
    BY <1>1, <1>2, <1>5, <1>6, <2>2, <2>4 DEF ExitsAreCounted
<1>8. CASE wpc'[w] # "exited"
  <2>1. Exits' = Exits
    <3>1. CASE events' = events
      BY <3>1 DEF Exits
    <3>2. ASSUME NEW kind \in EventKinds, Send(kind, w), kind # "Exited" PROVE Exits' = Exits
      BY <3>2, ExitSent
    <3> QED
      BY <1>8, <3>1, <3>2, WorkerConduct
  <2>2. Gone' = Gone
    BY <1>1, <1>2, <1>3, <1>8 DEF Gone
  <2> QED
    BY <1>1, <1>2, <1>5, <1>6, <1>8, <2>1, <2>2 DEF ExitsAreCounted
<1> QED
  BY <1>7, <1>8

\* A worker forgets no slot.
LEMMA WorkerForgetsNothing ==
  ASSUME EngineInv, NoneIsForgotten, NEW w \in Workers, WorkerActs(w)
  PROVE  NoneIsForgotten'
<1>0. UNCHANGED <<pc, stage, keys>> /\ events \in Seq(Messages)
  BY WorkerLeaves DEF EngineInv, EngineTypes
<1> SUFFICES ASSUME Looping PROVE NoneIsForgotten'
  BY <1>0 DEF NoneIsForgotten, Looping
<1>1. ASSUME NEW s \in Slots, slot_states'[s] = "CompletedPendingCommit" PROVE IsHeardOf(s)'
  <2>1. CASE WorkerConcludes(w, s)'
    BY <2>1 DEF IsHeardOf
  <2>2. CASE IsHeardOf(s)
    <3>1. ASSUME NEW i \in DOMAIN events, MessageConcludes(i, s)
          PROVE  \E j \in DOMAIN events' : MessageConcludes(j, s)'
      <4>1. i \in DOMAIN events' /\ events'[i] = events[i]
        BY <1>0, WorkerConduct, MessageSent
      <4> QED
        BY <3>1, <4>1 DEF MessageConcludes
    <3>2. ASSUME NEW u \in Workers \ {w}, WorkerConcludes(u, s) PROVE WorkerConcludes(u, s)'
      BY <3>2, OthersAreWoken DEF WorkerConcludes
    <3>3. ASSUME WorkerConcludes(w, s) PROVE \E j \in DOMAIN events' : MessageConcludes(j, s)'
      <4>1. PICK kind \in Conclusions : Send(kind, w)
        BY <3>3, WorkerConduct DEF WorkerConcludes
      <4>2. PICK n \in DOMAIN events' : events'[n].kind = kind /\ events'[n].slot = work[w].slot
        BY <1>0, <4>1, MessageSent
      <4> QED
        BY <3>3, <4>2 DEF MessageConcludes, WorkerConcludes
    <3>4. Concluded(s) => Concluded(s)'
      BY WorkerHears
    <3> QED
      BY <2>2, <3>1, <3>2, <3>3, <3>4 DEF IsHeardOf
  <2> QED
    BY <1>1, <2>1, <2>2, WorkerConduct DEF NoneIsForgotten
<1>2. pc' \notin {"drain", "commit"} =>
        \A s \in Slots : s \in committed_schedules' => slot_states'[s] = "Committed"
  BY <1>0, WorkerConduct DEF NoneIsForgotten, committed_schedules, Settled
<1> QED
  BY <1>1, <1>2 DEF NoneIsForgotten

LEMMA WorkerCompletion ==
  ASSUME EngineInv, CompletionInv, NEW w \in Workers, WorkerActs(w)
  PROVE  CompletionInv'
<1>1. UNCHANGED <<row, control, stage, outcome, closing, pc>> /\ wpc[w] # "exited"
  BY WorkerLeaves, WorkerRuns
<1>2. stage # "boot"
  BY <1>1 DEF EngineInv, ReportsAreTrue
<1>3. \A s \in Slots : (Settled(s)' <=> Settled(s)) /\ (Settled(s) => slot_states'[s] = slot_states[s])
  BY WorkerConduct DEF Settled
<1>4. StatesAreTheRows'
  BY <1>1, <1>3 DEF CompletionInv, StatesAreTheRows, Settled
<1>5. LastWord'
  BY <1>1, <1>3 DEF CompletionInv, LastWord
<1> QED
  BY <1>2, <1>4, <1>5, WorkerExit, WorkerForgetsNothing DEF CompletionInv

\* The coordinator's calls wake who waits, and that is all.
LEMMA CoordinatorWakes ==
  ASSUME BrokerInv, [CoordinatorStep]_brokerVars
  PROVE  /\ \A w \in Workers : wpc'[w] = wpc[w] \/ (wpc[w] = "wait" /\ wpc'[w] = "claim")
         /\ \A w \in Workers : wpc'[w] = "exited" <=> wpc[w] = "exited"
<1>1. BrokerTypeOK /\ Ownership
  BY DEF BrokerInv, Ownership
<1>2. \A w \in Workers : wpc'[w] = wpc[w] \/ (wpc[w] = "wait" /\ wpc'[w] = "claim")
  <2>1. CASE UNCHANGED brokerVars
    BY <2>1 DEF brokerVars
  <2>2. CASE CoordinatorStep
    BY <1>1, <2>2, CoordinatorOwnership, Notified
  <2> QED
    BY <2>1, <2>2
<1> QED
  BY <1>2

\* Rows change as the broker has it: what is settled stays so, and what the broker comes to take for
\* committed is.
RowsHold ==
  /\ \A s \in Slots : slot_states'[s] = "Committed" /\ slot_states[s] # "Committed" => row'[s].state = "committed"
  /\ \A s \in Slots : \/ row'[s].state = row[s].state
                      \/ row'[s].state = "committed"
                      \/ row[s].state = "pending" /\ row'[s].state = "active"
                      \/ ~Settled(s)
  /\ pc' = "release" => \A s \in Slots : s \in closing' => ~Settled(s)'

\* What the committer has it keeps, and it gets what it is told.
Hears ==
  /\ Looping
  /\ \A s \in Slots : Concluded(s) => Concluded(s)'
  /\ events' # events => \A s \in Slots : MessageConcludes(1, s) => Concluded(s)'
  /\ pc' \notin {"drain", "commit"} =>
       \A s \in Slots : s \in committed_schedules' => slot_states'[s] = "Committed"

\* So the coordinator forgets no slot.
LEMMA CoordinatorForgetsNothing ==
  ASSUME EngineInv, NoneIsForgotten, [CoordinatorStep]_brokerVars, TakesAMessage, Hears
  PROVE  NoneIsForgotten'
<1>0. events \in Seq(Messages) /\ BrokerInv
  BY DEF EngineInv, EngineTypes
<1>1. ASSUME NEW s \in Slots, slot_states'[s] = "CompletedPendingCommit" PROVE IsHeardOf(s)'
  <2>1. slot_states[s] = "CompletedPendingCommit"
    BY <1>0, <1>1, CoordinatorLeavesWorkers
  <2>2. IsHeardOf(s)
    BY <2>1 DEF NoneIsForgotten, Hears
  <2>3. ASSUME NEW i \in DOMAIN events, MessageConcludes(i, s) PROVE IsHeardOf(s)'
    <3>1. CASE events' = events
      BY <2>3, <3>1 DEF IsHeardOf, MessageConcludes
    <3>2. CASE events' # events /\ i = 1
      BY <2>3, <3>2 DEF Hears, IsHeardOf
    <3>3. CASE events' # events /\ i # 1
      <4>1. events # <<>> /\ events' = Tail(events)
        BY <3>3 DEF TakesAMessage
      <4>2. Len(events) \in Nat /\ Len(events') = Len(events) - 1 /\ i \in 1 .. Len(events)
            /\ DOMAIN events' = 1 .. Len(events')
        BY <1>0, <4>1
      <4>3. i - 1 \in DOMAIN events' /\ (i - 1) + 1 = i
        BY <3>3, <4>2
      <4>4. events'[i - 1] = events[i]
        BY <1>0, <4>1, <4>2, <4>3
      <4> QED
        BY <2>3, <4>3, <4>4 DEF IsHeardOf, MessageConcludes
    <3> QED
      BY <3>1, <3>2, <3>3
  <2>4. ASSUME NEW w \in Workers, WorkerConcludes(w, s) PROVE WorkerConcludes(w, s)'
    BY <1>0, <2>4, CoordinatorWakes, CoordinatorLeavesWorkers DEF WorkerConcludes
  <2> QED
    BY <2>2, <2>3, <2>4 DEF IsHeardOf, Hears
<1> QED
  BY <1>1 DEF NoneIsForgotten, Hears

\* A step of a process that stays at what it is at.
LEMMA EngineGoesOn ==
  ASSUME EngineInv, CompletionInv, stage' = stage, PaidFor, CountsExits,
         outcome' = "completed" => stage = "final",
         pc' \in RecoverPCs => stage = "boot",
         control'.status # "completed",
         stage # "boot" => [CoordinatorStep]_brokerVars /\ RowsHold /\ (Looping' => Hears)
  PROVE  CompletionInv'
<1>1. CASE stage = "boot"
  <2>1. events = <<>>
    BY <1>1 DEF EngineInv, ReportsAreTrue
  <2>2. exited_workers' = exited_workers
    BY <2>1 DEF CountsExits
  <2>3. Threads' = Threads /\ budget'["threads"] = budget["threads"]
    BY ThreadsStay DEF EngineInv
  <2>4. NoneIsForgotten' /\ StatesAreTheRows'
    BY <1>1 DEF NoneIsForgotten, StatesAreTheRows, Looping
  <2>5. ExitsAreCounted'
    BY <1>1, <2>2, <2>3 DEF CompletionInv, ExitsAreCounted
  <2>6. LastWord'
    BY <1>1 DEF LastWord
  <2> QED
    BY <2>4, <2>5, <2>6 DEF CompletionInv
<1>2. CASE stage # "boot"
  <2>0. BrokerInv
    BY DEF EngineInv
  <2>1. TakesAMessage
    BY DEF CountsExits, TakesAMessage
  <2>2. NoneIsForgotten'
    BY <1>2, <2>1, CoordinatorForgetsNothing DEF CompletionInv, NoneIsForgotten
  <2>3. ExitsAreCounted'
    BY <1>2, <2>0, ExitsKept, CoordinatorWakes DEF CompletionInv
  <2>4. \A s \in Slots : slot_states'[s] = slot_states[s]
                           \/ (slot_states[s] # "BlockedActive" /\ slot_states'[s] = "Committed")
    BY <1>2, <2>0, CoordinatorLeavesWorkers
  <2>5. StatesAreTheRows'
    BY <1>2, <2>4 DEF CompletionInv, StatesAreTheRows, RowsHold, Settled
  <2>6. LastWord'
    BY <1>2, <2>4 DEF CompletionInv, LastWord, Settled
  <2> QED
    BY <2>2, <2>3, <2>5, <2>6 DEF CompletionInv
<1> QED
  BY <1>1, <1>2

\* The engine at work, while it takes no claim and no conclusion and commits nothing.
LEMMA DrainCompletion ==
  ASSUME EngineInv, CompletionInv,
         WriteIntent \/ MarkCommitted \/ UpdatePruned \/ PersistPending \/ PersistResult \/ OnExited \/ WriteControl
  PROVE  CompletionInv'
<1>1. /\ UNCHANGED <<row, stage, keys, queue, closing, budget>>
      /\ Working /\ pc # "spawn" /\ pc' \notin RecoverPCs \cup {"release"}
      /\ control' = control \/ control'.status = "running"
      /\ outcome' = "completed" => outcome = "completed" \/ stage = "final"
  BY DEF WriteIntent, append_slot_commit_record, MarkCommitted, UpdatePruned, PersistPending, PersistResult,
         OnExited, WriteControl, Receive, Working, RecoverPCs, storeVars, durableVars, memoryVars
<1>2. CountsExits
  BY DEF CountsExits, WriteIntent, MarkCommitted, UpdatePruned, PersistPending, PersistResult, OnExited,
         WriteControl, Receive, memoryVars
<1>3. control'.status # "completed"
  BY <1>1 DEF Working, CompletionInv, LastWord
<1>4. [CoordinatorStep]_brokerVars
  <2>1. CASE MarkCommitted
    <3>1. PICK s \in committed_schedules : slot_states[s] # "Committed" /\ mark_committed(s) /\ stage # "boot"
      BY <2>1 DEF MarkCommitted
    <3>2. HandedOver(s) /\ s \in Slots
      BY <1>1, <3>1 DEF EngineInv, CommitterInv
    <3> QED
      BY <3>1, <3>2 DEF CoordinatorStep, HandedOver
  <2>2. CASE UpdatePruned
    <3>1. update_pruned_variants(mem.pruned) /\ pc # "down"
      BY <2>2 DEF UpdatePruned
    <3> QED
      BY <3>1, MemoryFacts DEF CoordinatorStep
  <2>3. CASE WriteIntent \/ PersistPending \/ PersistResult \/ OnExited \/ WriteControl
    BY <2>3 DEF WriteIntent, PersistPending, PersistResult, OnExited, WriteControl
  <2> QED
    BY <2>1, <2>2, <2>3
<1>5. slot_states' = slot_states \/ \E s \in committed_schedules : slot_states' = [slot_states EXCEPT ![s] = "Committed"]
  BY DEF WriteIntent, MarkCommitted, UpdatePruned, PersistPending, PersistResult, OnExited, WriteControl,
         mark_committed, update_pruned_variants, brokerVars
<1>6. slot_states \in [Slots -> SlotStates] /\ committed_schedules = {s \in Slots : row[s].state = "committed"}
  BY <1>1 DEF EngineInv, BrokerInv, Ownership, BrokerTypeOK, CommitterInv
<1>7. RowsHold
  BY <1>1, <1>5, <1>6 DEF RowsHold
<1>8. ASSUME Looping' PROVE Hears
  <2>1. Looping
    BY <1>1, <1>8 DEF Looping, Working
  <2>2. \A s \in Slots : Concluded(s) => Concluded(s)'
    BY <1>1 DEF Concluded, committed_schedules
  <2>3. events' # events => \A s \in Slots : ~MessageConcludes(1, s)
    <3> SUFFICES ASSUME events' # events PROVE \A s \in Slots : ~MessageConcludes(1, s)
      OBVIOUS
    <3>1. OnExited
      BY DEF WriteIntent, MarkCommitted, UpdatePruned, PersistPending, PersistResult, WriteControl, memoryVars
    <3>2. events # <<>> /\ Head(events).kind = "Exited" /\ events \in Seq(Messages)
      BY <3>1 DEF OnExited, Receive, EngineInv, EngineTypes
    <3>3. events[1].kind = "Exited"
      BY <3>2, TailElements
    <3> QED
      BY <3>3 DEF MessageConcludes, Conclusions
  <2>4. ASSUME pc' \notin {"drain", "commit"}, NEW s \in Slots, s \in committed_schedules'
        PROVE  slot_states'[s] = "Committed"
    <3>1. s \in committed_schedules
      BY <1>1, <2>4 DEF committed_schedules
    <3>2. CASE UpdatePruned
      BY <3>1, <3>2 DEF UpdatePruned, update_pruned_variants
    <3>3. CASE PersistPending \/ PersistResult \/ OnExited \/ WriteControl
      <4>1. slot_states' = slot_states /\ (pc \notin {"drain", "commit"} \/ stage = "boot")
        BY <3>3 DEF PersistPending, PersistResult, OnExited, WriteControl, Receive, brokerVars
      <4> QED
        BY <2>1, <3>1, <4>1 DEF CompletionInv, NoneIsForgotten, Looping
    <3>4. CASE WriteIntent \/ MarkCommitted
      BY <2>4, <3>4 DEF WriteIntent, MarkCommitted
    <3> QED
      BY <3>2, <3>3, <3>4
  <2> QED
    BY <2>1, <2>2, <2>3, <2>4 DEF Hears
<1>9. outcome' = "completed" => stage = "final"
  BY <1>1 DEF CompletionInv, LastWord
<1>10. PaidFor
  BY <1>1 DEF PaidFor
<1> QED
  BY <1>1, <1>2, <1>3, <1>4, <1>7, <1>8, <1>9, <1>10, EngineGoesOn

\* What is in flight is active: so the engine releases nothing that is settled.
LEMMA ClosingIsActive ==
  ASSUME EngineInv, NEW s \in Slots, s \in {d.slot : d \in in_flight}
  PROVE  ~Settled(s)
BY DEF EngineInv, BrokerInv, Ownership, OwnedOnce, Settled

\* An engine that fails or shuts down, and a recovery at its work.
LEMMA LeavingCompletion ==
  ASSUME EngineInv, CompletionInv,
         \/ BootFails \/ LoopCheckFails \/ FinishFails \/ OnFatal \/ Interrupt \/ Shutdown \/ ClearControl
         \/ ReleaseInFlight \/ ReleaseAbandoned \/ ReleaseRow \/ ReconcileAttempt \/ ReconcileProgress
  PROVE  CompletionInv'
<1>1. /\ stage' = stage /\ pc # "down"
      /\ control' = control \/ control'.status \in {"running", "interrupted"}
      /\ ~Looping'
      /\ UNCHANGED brokerVars \/ stop_accepting
      /\ outcome' = "completed" => outcome = "completed"
  BY DEF BootFails, LoopCheckFails, FinishFails, OnFatal, Receive, Interrupt, Shutdown, ClearControl,
         ReleaseInFlight, ReleaseAbandoned, ReleaseRow, ReconcileAttempt, ReconcileProgress, Fail, Looping,
         storeVars, durableVars, memoryVars
<1>2. PaidFor
  BY DEF PaidFor, Faults, BootFails, LoopCheckFails, FinishFails, OnFatal, Interrupt, Shutdown, ClearControl,
         ReleaseInFlight, ReleaseAbandoned, ReleaseRow, ReconcileAttempt, ReconcileProgress
<1>3. CountsExits
  BY DEF CountsExits, BootFails, LoopCheckFails, FinishFails, OnFatal, Receive, Interrupt, Shutdown, ClearControl,
         ReleaseInFlight, ReleaseAbandoned, ReleaseRow, ReconcileAttempt, ReconcileProgress, memoryVars
<1>4. control'.status # "completed" /\ (outcome' = "completed" => stage = "final")
  BY <1>1 DEF CompletionInv, LastWord
<1>5. [CoordinatorStep]_brokerVars
  BY <1>1, StopIsAStep DEF EngineInv
<1>6. pc' \in RecoverPCs => stage = "boot"
  <2>1. pc' \in RecoverPCs => pc \in RecoverPCs
    BY DEF BootFails, LoopCheckFails, FinishFails, OnFatal, Interrupt, Shutdown, ClearControl, Fail,
           ReleaseInFlight, ReleaseAbandoned, ReleaseRow, ReconcileAttempt, ReconcileProgress, RecoverPCs
  <2> QED
    BY <2>1 DEF CompletionInv, LastWord
<1>7. ASSUME stage # "boot" PROVE RowsHold
  <2>1. pc \notin RecoverPCs
    BY <1>7 DEF CompletionInv, LastWord
  <2>2. slot_states' = slot_states
    BY <1>1 DEF brokerVars, stop_accepting
  <2>3. row \in [Slots -> Rows]
    BY DEF EngineInv, StoreInv, StoreTypeOK
  <2>4. CASE ReleaseInFlight
    <3>1. PICK s \in closing : release_schedule_slot_to_pending(s) /\ closing' = closing \ {s} /\ pc = "release"
      BY <2>4 DEF ReleaseInFlight
    <3>2. \A r \in Slots : r \in closing => ~Settled(r)
      BY <1>7, <3>1 DEF CompletionInv, StatesAreTheRows, Settled
    <3> QED
      BY <2>2, <2>3, <3>1, <3>2 DEF RowsHold, release_schedule_slot_to_pending, Settled
  <2>5. CASE Shutdown
    <3>1. row' = row /\ closing' = {d.slot : d \in in_flight}
      BY <2>5 DEF Shutdown, storeVars
    <3> QED
      BY <2>2, <3>1, ClosingIsActive DEF RowsHold, Settled
  <2>6. CASE BootFails \/ LoopCheckFails \/ FinishFails \/ OnFatal \/ Interrupt \/ ClearControl
    <3>1. row' = row /\ pc' # "release"
      BY <2>6 DEF BootFails, LoopCheckFails, FinishFails, OnFatal, Interrupt, ClearControl, Fail, storeVars
    <3> QED
      BY <2>2, <3>1 DEF RowsHold
  <2>7. CASE ReleaseAbandoned \/ ReleaseRow \/ ReconcileAttempt \/ ReconcileProgress
    BY <2>1, <2>7 DEF ReleaseAbandoned, ReleaseRow, ReconcileAttempt, ReconcileProgress, RecoverPCs
  <2> QED
    BY <2>4, <2>5, <2>6, <2>7
<1> QED
  BY <1>1, <1>2, <1>3, <1>4, <1>5, <1>6, <1>7, EngineGoesOn

\* A commit makes a row committed; what the queue had the keys have.
LEMMA CommitCompletion ==
  ASSUME EngineInv, CompletionInv, CommitSlot
  PROVE  CompletionInv'
<1>1. /\ UNCHANGED <<stage, control, events, exited_workers, closing, budget>> /\ UNCHANGED brokerVars
      /\ pc = "commit" /\ pc' \in {"drain", "join", "shutdown"}
      /\ outcome' = "completed" => outcome = "completed"
  BY DEF CommitSlot, Fail
<1>2. PaidFor /\ CountsExits /\ control'.status # "completed" /\ (outcome' = "completed" => stage = "final")
      /\ pc' \notin RecoverPCs
  BY <1>1 DEF PaidFor, CountsExits, CompletionInv, LastWord, RecoverPCs
<1>3. slot_states' = slot_states
  BY <1>1 DEF brokerVars
<1>4. PICK s \in Slots :
        \/ /\ row' = [row EXCEPT ![s] = CommittedRow(CommitOf(s))]
           /\ keys' = keys \cup {Key(s, CommitOf(s))}
           /\ queue' = [queue EXCEPT ![s] = NoResult]
        \/ UNCHANGED <<row, keys, queue>> /\ pc' # "drain"
  BY DEF CommitSlot, commit_schedule_slot_transaction, Fail, storeVars
<1>5. row \in [Slots -> Rows] /\ queue \in [Slots -> Results \cup {Skipped, NoResult}]
  BY DEF EngineInv, StoreInv, StoreTypeOK, EngineTypes
<1>6. CommittedRow(CommitOf(s)).state = "committed" /\ Key(s, CommitOf(s)).slot = s
  BY DEF CommittedRow, Key
<1>7. \A r \in Slots : row'[r].state = row[r].state \/ row'[r].state = "committed"
  BY <1>4, <1>5, <1>6
<1>8. RowsHold
  BY <1>1, <1>3, <1>7 DEF RowsHold
<1>9. ASSUME Looping' PROVE Hears
  <2>1. Looping /\ pc' = "drain"
    BY <1>1, <1>9 DEF Looping
  <2>2. \A r \in Slots : Concluded(r) => Concluded(r)'
    <3>1. \A r \in Slots : r \in committed_schedules => r \in committed_schedules'
      BY <1>4, <2>1 DEF committed_schedules
    <3>2. s \in committed_schedules'
      BY <1>4, <1>6, <2>1 DEF committed_schedules
    <3>3. \A r \in Slots : r # s => queue'[r] = queue[r]
      BY <1>4, <1>5
    <3> QED
      BY <3>1, <3>2, <3>3 DEF Concluded
  <2> QED
    BY <1>1, <2>1, <2>2 DEF Hears
<1>10. [CoordinatorStep]_brokerVars
  BY <1>1
<1> QED
  BY <1>1, <1>2, <1>8, <1>9, <1>10, EngineGoesOn

\* A claim makes a pending row active, if it makes it anything.
LEMMA ClaimedCompletion ==
  ASSUME EngineInv, CompletionInv, OnClaimed
  PROVE  CompletionInv'
<1> DEFINE e == Head(events)
<1>1. /\ UNCHANGED <<stage, control, outcome, keys, queue, exited_workers, closing, budget>> /\ UNCHANGED brokerVars
      /\ pc = "loop" /\ pc' = "control" /\ claim_schedule_slot(e.slot, e.trial)
      /\ events # <<>> /\ e.kind = "Claimed" /\ events' = Tail(events)
  BY DEF OnClaimed, Receive, durableVars
<1>2. PaidFor /\ CountsExits /\ control'.status # "completed" /\ (outcome' = "completed" => stage = "final")
      /\ pc' \notin RecoverPCs
  BY <1>1 DEF PaidFor, CountsExits, CompletionInv, LastWord, RecoverPCs
<1>3. slot_states' = slot_states /\ row \in [Slots -> Rows] /\ events \in Seq(Messages)
  BY <1>1 DEF brokerVars, EngineInv, StoreInv, StoreTypeOK, EngineTypes
<1>4. \A s \in Slots : row'[s].state = row[s].state \/ (row[s].state = "pending" /\ row'[s].state = "active")
  BY <1>1, <1>3 DEF claim_schedule_slot, ActiveRow
<1>5. RowsHold
  BY <1>1, <1>3, <1>4 DEF RowsHold
<1>6. events[1].kind = "Claimed"
  BY <1>1, <1>3, TailElements
<1>7. ASSUME Looping' PROVE Hears
  <2>1. Looping
    BY <1>1, <1>7 DEF Looping
  <2>2. \A s \in Slots : (Concluded(s) => Concluded(s)') /\ ~MessageConcludes(1, s)
    BY <1>1, <1>6 DEF Concluded, committed_schedules, MessageConcludes, Conclusions
  <2>3. \A s \in Slots : s \in committed_schedules' => slot_states'[s] = "Committed"
    BY <1>1, <1>3, <2>1 DEF CompletionInv, NoneIsForgotten, committed_schedules
  <2> QED
    BY <2>1, <2>2, <2>3 DEF Hears
<1>8. [CoordinatorStep]_brokerVars
  BY <1>1
<1> QED
  BY <1>1, <1>2, <1>5, <1>7, <1>8, EngineGoesOn

\* A conclusion goes from its message to the queue, or the engine fails.
LEMMA ConclusionCompletion ==
  ASSUME EngineInv, CompletionInv, OnSkippedPruned \/ OnCompleted
  PROVE  CompletionInv'
<1> DEFINE e == Head(events)
<1>1. /\ UNCHANGED <<row, stage, control, keys, exited_workers, closing, budget>> /\ UNCHANGED brokerVars
      /\ pc = "loop" /\ pc' \in {"join", "shutdown", "drain", "result"} /\ e.kind \in Conclusions
      /\ events # <<>> /\ events' = Tail(events)
      /\ outcome' = "completed" => outcome = "completed"
  BY DEF OnSkippedPruned, OnCompleted, Receive, Fail, durableVars, storeVars, Conclusions
<1>2. PaidFor /\ CountsExits /\ control'.status # "completed" /\ (outcome' = "completed" => stage = "final")
      /\ pc' \notin RecoverPCs
  BY <1>1 DEF PaidFor, CountsExits, CompletionInv, LastWord, RecoverPCs, Conclusions
<1>3. slot_states' = slot_states
  BY <1>1 DEF brokerVars
<1>4. RowsHold
  BY <1>1, <1>3 DEF RowsHold
<1>5. IsTrue(e) /\ e = events[1]
  BY <1>1, HeadSpeaks DEF Voices, Conclusions
<1>6. ASSUME Looping' PROVE Hears
  <2>1. Looping
    BY <1>1, <1>6 DEF Looping
  <2>2. PICK r : r # NoResult /\ queue' = Enqueued(e.slot, r)
    <3>1. CASE OnSkippedPruned
      <4>1. queue' = Enqueued(e.slot, Skipped)
        BY <1>6, <3>1 DEF OnSkippedPruned, Fail, Looping
      <4>2. Skipped # NoResult
        BY DEF Skipped, NoResult
      <4> QED
        BY <4>1, <4>2
    <3>2. CASE OnCompleted
      <4>1. queue' = Enqueued(e.slot, [trial |-> e.trial, status |-> e.result]) /\ e.kind = "Completed"
        BY <1>6, <3>2 DEF OnCompleted, Receive, Fail, Looping
      <4>2. e.result # "none"
        BY <1>5, <4>1 DEF IsTrue
      <4>3. [trial |-> e.trial, status |-> e.result] # NoResult
        BY <4>2 DEF NoResult
      <4> QED
        BY <4>1, <4>3
    <3> QED
      BY <3>1, <3>2
  <2>3. queue \in [Slots -> Results \cup {Skipped, NoResult}]
    BY DEF EngineInv, EngineTypes
  <2>4. \A s \in Slots : Concluded(s) => Concluded(s)'
    BY <1>1, <2>2, <2>3 DEF Enqueued, Concluded, committed_schedules
  <2>5. ASSUME NEW s \in Slots, s = e.slot PROVE Concluded(s)'
    <3>1. CASE Key(s, r) \in keys
      <4>1. s \in committed_schedules
        BY <3>1 DEF committed_schedules, Key
      <4> QED
        BY <1>1, <4>1 DEF Concluded, committed_schedules
    <3>2. CASE Key(s, r) \notin keys
      BY <2>2, <2>3, <2>5, <3>2 DEF Concluded, Enqueued
    <3> QED
      BY <3>1, <3>2
  <2>6. \A s \in Slots : MessageConcludes(1, s) => Concluded(s)'
    BY <1>5, <2>5 DEF MessageConcludes
  <2>7. \A s \in Slots : s \in committed_schedules' => slot_states'[s] = "Committed"
    BY <1>1, <1>3, <2>1 DEF CompletionInv, NoneIsForgotten, committed_schedules
  <2> QED
    BY <2>1, <2>4, <2>6, <2>7 DEF Hears
<1>7. [CoordinatorStep]_brokerVars
  BY <1>1
<1> QED
  BY <1>1, <1>2, <1>4, <1>6, <1>7, EngineGoesOn

\* All threads have been counted, so there is no message left and nobody to send one; a slot that is
\* through is then with the committer, which has nothing queued, so it is committed.
LEMMA LeaveCompletion ==
  ASSUME EngineInv, CompletionInv, LeaveLoop
  PROVE  CompletionInv'
<1>1. /\ UNCHANGED <<row, control, keys, queue, events, exited_workers, closing, budget>> /\ UNCHANGED brokerVars
      /\ pc = "loop" /\ AllExited /\ pc' \in {"drain", "shutdown"}
      /\ \/ stage' = stage /\ pc' = "shutdown" /\ outcome' = "error"
         \/ stage' = "final" /\ pc' = "drain" /\ outcome' = outcome /\ ~has_unfinished_slots
  BY DEF LeaveLoop, storeVars, durableVars
<1>2. PaidFor /\ CountsExits /\ control'.status # "completed" /\ pc' \notin RecoverPCs
  BY <1>1 DEF PaidFor, CountsExits, CompletionInv, LastWord, RecoverPCs
<1>3. slot_states' = slot_states /\ wpc' = wpc /\ [CoordinatorStep]_brokerVars
  BY <1>1 DEF brokerVars
<1>4. RowsHold
  BY <1>1, <1>3 DEF RowsHold
<1>5. CASE stage' = stage /\ pc' = "shutdown" /\ outcome' = "error"
  <2>1. ~Looping'
    BY <1>5 DEF Looping
  <2> QED
    BY <1>2, <1>3, <1>4, <1>5, <2>1, EngineGoesOn
<1>6. CASE stage' = "final" /\ outcome' = outcome /\ ~has_unfinished_slots /\ pc' = "drain"
  <2>1. stage # "boot"
    BY <1>1 DEF EngineInv, CommitterInv
  <2>2. ExitsAreCounted'
    BY <1>2, <1>3, <1>6, <2>1, ExitsKept DEF CompletionInv
  <2>3. StatesAreTheRows'
    BY <1>1, <1>3, <2>1 DEF CompletionInv, StatesAreTheRows
  <2>4. NoneIsForgotten'
    BY <1>6 DEF NoneIsForgotten, Looping
  <2>5. Exits = {} /\ Gone = Threads
    <3>1. /\ exited_workers = Cardinality(Threads) /\ exited_workers + Cardinality(Exits) = Cardinality(Gone)
          /\ exited_workers \in Nat
      BY <1>1, <2>1 DEF AllExited, CompletionInv, ExitsAreCounted
    <3>2. /\ Cardinality(Exits) \in Nat /\ Cardinality(Gone) \in Nat /\ IsFiniteSet(Exits)
          /\ Cardinality(Gone) <= Cardinality(Threads)
          /\ Cardinality(Gone) = Cardinality(Threads) => Gone = Threads
      BY ExitsAreFinite
    <3>3. Cardinality(Exits) = 0 /\ Cardinality(Gone) = Cardinality(Threads)
      BY <3>1, <3>2
    <3> QED
      BY <3>2, <3>3, FS_EmptySet
  <2>6. \A w \in Workers : wpc[w] = "exited"
    BY <2>1, <2>5 DEF CompletionInv, ExitsAreCounted, Gone
  <2>7. events = <<>>
    <3> SUFFICES ASSUME events # <<>> PROVE FALSE
      OBVIOUS
    <3>1. events[Len(events)].kind = "Exited"
      BY <2>1, <2>6 DEF CompletionInv, ExitsAreCounted
    <3>2. events \in Seq(Messages)
      BY DEF EngineInv, EngineTypes
    <3>3. Len(events) \in DOMAIN events
      BY <3>2
    <3> QED
      BY <2>5, <3>1, <3>3 DEF Exits
  <2>8. ASSUME NEW s \in Slots PROVE Settled(s)
    <3>1. slot_states[s] \in SlotStates /\ slot_states[s] \notin {"Pending", "Active"}
      BY <1>6 DEF has_unfinished_slots, EngineInv, BrokerInv, Ownership, BrokerTypeOK
    <3>2. CASE stage = "final"
      BY <3>2 DEF CompletionInv, LastWord
    <3>3. CASE stage = "event" /\ slot_states[s] = "CompletedPendingCommit"
      <4>1. Looping
        BY <1>1, <3>3 DEF Looping
      <4>2. IsHeardOf(s)
        BY <3>3, <4>1 DEF CompletionInv, NoneIsForgotten
      <4>3. Concluded(s)
        <5>1. DOMAIN events = {}
          BY <2>7
        <5> QED
          BY <2>6, <4>2, <5>1 DEF IsHeardOf, WorkerConcludes
      <4>4. queue[s] = NoResult
        BY <1>1 DEF AllExited, HasPending
      <4>5. slot_states[s] = "Committed"
        BY <1>1, <4>1, <4>3, <4>4 DEF Concluded, CompletionInv, NoneIsForgotten
      <4> QED
        BY <3>3, <4>5
    <3>4. stage \in {"event", "final"}
      BY <2>1 DEF CompletionInv, LastWord
    <3> QED
      BY <3>1, <3>2, <3>3, <3>4 DEF SlotStates, Settled
  <2>9. LastWord'
    BY <1>2, <1>3, <1>6, <2>8 DEF LastWord, Settled
  <2> QED
    BY <2>2, <2>3, <2>4, <2>9 DEF CompletionInv
<1> QED
  BY <1>1, <1>5, <1>6

\* A new broker has the slots as the rows are, and as many threads as are counted.
LEMMA SpawnCompletion ==
  ASSUME EngineInv, CompletionInv, Spawn
  PROVE  CompletionInv'
<1>1. /\ UNCHANGED <<row, keys, queue, events, outcome, exited_workers, budget>>
      /\ pc = "spawn" /\ pc' = "loop" /\ stage' = "event" /\ control'.status = "running"
      /\ slot_states' = BrokerStates
      /\ wpc' = [w \in Workers |-> IF w \in Threads THEN "claim" ELSE "exited"]
  BY DEF Spawn, storeVars
<1>2. Working /\ stage = "boot"
  BY <1>1 DEF EngineInv, CommitterInv, Working
<1>3. events' = <<>> /\ exited_workers' = 0 /\ outcome' # "completed"
  BY <1>1, <1>2 DEF EngineInv, ReportsAreTrue, CompletionInv, ExitsAreCounted, LastWord
<1>4. ASSUME NEW s \in Slots
      PROVE  /\ slot_states'[s] # "CompletedPendingCommit"
             /\ slot_states'[s] = "Committed" <=> row[s].state = "committed"
             /\ slot_states'[s] = "BlockedActive" => row[s].state = "active"
             /\ s \in committed_schedules => slot_states'[s] = "Committed"
  <2>1. s \in committed_schedules <=> row[s].state = "committed"
    BY <1>2 DEF EngineInv, CommitterInv
  <2>2. slot_states'[s] = BrokerStates[s]
    BY <1>1
  <2>3. row[s].state \in {"pending", "active", "committed"}
    BY DEF EngineInv, StoreInv, StoreTypeOK, Rows
  <2> QED
    BY <2>1, <2>2, <2>3 DEF BrokerStates
<1>5. NoneIsForgotten'
  BY <1>1, <1>4 DEF NoneIsForgotten, committed_schedules
<1>6. StatesAreTheRows'
  BY <1>1, <1>4 DEF StatesAreTheRows
<1>7. ExitsAreCounted'
  <2>1. Threads' = Threads /\ Threads \in SUBSET Workers /\ budget' = budget
    BY <1>1 DEF Threads, EngineInv, BudgetKept
  <2>2. Exits' = {}
    BY <1>3 DEF Exits
  <2>3. Gone' = {}
    BY <1>1, <2>1 DEF Gone
  <2>4. \A w \in Workers \ Threads : wpc'[w] = "exited"
    BY <1>1
  <2>5. Cardinality({}) = 0
    BY FS_EmptySet
  <2> QED
    BY <1>1, <1>3, <2>1, <2>2, <2>3, <2>4, <2>5 DEF CompletionInv, ExitsAreCounted
<1>8. LastWord'
  BY <1>1, <1>3 DEF LastWord, RecoverPCs
<1> QED
  BY <1>5, <1>6, <1>7, <1>8 DEF CompletionInv

\* A process that ends leaves what the disk says; it says completed only after its last drain.
LEMMA EndCompletion ==
  ASSUME EngineInv, CompletionInv, Conclude \/ Crash \/ FinishRecovery \/ RecoveryFails
  PROVE  CompletionInv'
<1>1. row' = row /\ pc' = "down" /\ stage' = "boot" /\ outcome' = "none" /\ exited_workers' = 0 /\ pc # "down"
  BY DEF Conclude, Crash, FinishRecovery, RecoveryFails, storeVars, ProcessEnds, RecoverPCs
<1>2. PaidFor
  BY DEF PaidFor, Faults, Conclude, Crash, FinishRecovery, RecoveryFails
<1>3. Threads' = Threads /\ budget'["threads"] = budget["threads"]
  BY <1>2, ThreadsStay DEF EngineInv
<1>4. NoneIsForgotten' /\ StatesAreTheRows' /\ ExitsAreCounted'
  BY <1>1, <1>3 DEF NoneIsForgotten, Looping, StatesAreTheRows, ExitsAreCounted, CompletionInv
<1>5. control'.status = "completed" => \A s \in Slots : row[s].state # "pending"
  <2>1. CASE Conclude
    <3> SUFFICES ASSUME control'.status = "completed" PROVE \A s \in Slots : row[s].state # "pending"
      OBVIOUS
    <3>1. "completed" \in LastStatus
      BY <2>1 DEF Conclude
    <3>2. outcome = "completed"
      BY <3>1 DEF LastStatus
    <3>3. stage = "final"
      BY <3>2 DEF CompletionInv, LastWord
    <3> QED
      BY <3>3 DEF CompletionInv, LastWord, StatesAreTheRows, Settled
  <2>2. CASE Crash \/ FinishRecovery \/ RecoveryFails
    <3>1. control' = control \/ control'.status = "interrupted"
      BY <2>2 DEF Crash, FinishRecovery, RecoveryFails, durableVars
    <3> QED
      BY <1>1, <3>1 DEF CompletionInv, LastWord
  <2> QED
    BY <2>1, <2>2
<1>6. LastWord'
  BY <1>1, <1>5 DEF LastWord, RecoverPCs
<1> QED
  BY <1>4, <1>6 DEF CompletionInv

\* A run is taken up again, or the engine boots.
LEMMA StartCompletion ==
  ASSUME EngineInv, CompletionInv, Boot \/ ContinueRun \/ RecoverRun
  PROVE  CompletionInv'
<1>1. /\ UNCHANGED <<stage, outcome, events, exited_workers, budget>> /\ pc \in {"boot", "down"}
  BY DEF Boot, ContinueRun, RecoverRun
<1>2. stage = "boot" /\ outcome # "completed"
  BY <1>1 DEF EngineInv, CommitterInv, CompletionInv, LastWord
<1>3. control'.status # "completed"
  BY DEF Boot, ContinueRun, RecoverRun, durableVars, CompletionInv, LastWord
<1>4. PaidFor /\ CountsExits
  BY <1>1 DEF PaidFor, CountsExits
<1> QED
  BY <1>1, <1>2, <1>3, <1>4, EngineGoesOn

\* A step that changes nothing.
LEMMA StutterCompletion ==
  ASSUME CompletionInv, UNCHANGED vars
  PROVE  CompletionInv'
<1>1. UNCHANGED <<row, slot_states, wpc, work, keys, queue, events, exited_workers, closing, stage, outcome,
                  control, pc, budget>>
  BY DEF vars, storeVars, brokerVars, durableVars, memoryVars
<1>2. Threads' = Threads
  BY <1>1 DEF Threads
<1>3. NoneIsForgotten'
  BY <1>1 DEF CompletionInv, NoneIsForgotten, Looping, IsHeardOf, MessageConcludes, WorkerConcludes, Concluded,
              committed_schedules
<1>4. ExitsAreCounted'
  BY <1>1, <1>2 DEF CompletionInv, ExitsAreCounted, Exits, Gone
<1>5. StatesAreTheRows' /\ LastWord'
  BY <1>1 DEF CompletionInv, StatesAreTheRows, LastWord, Settled
<1> QED
  BY <1>3, <1>4, <1>5 DEF CompletionInv

LEMMA CompletionStep == EngineInv /\ CompletionInv /\ [EngineNext]_vars => CompletionInv'
<1> SUFFICES ASSUME EngineInv, CompletionInv, [EngineNext]_vars PROVE CompletionInv'
  OBVIOUS
<1>1. CASE Coordinator
  BY <1>1, StartCompletion, DrainCompletion, CommitCompletion, SpawnCompletion, ClaimedCompletion,
     ConclusionCompletion, LeaveCompletion, LeavingCompletion, EndCompletion
  DEF Coordinator
<1>2. CASE Recovery
  BY <1>2, LeavingCompletion, EndCompletion DEF Recovery
<1>3. ASSUME NEW w \in Workers, Worker(w) \/ ClaimFails(w) \/ AttemptFails(w)
      PROVE  CompletionInv'
  BY <1>3, WorkerCompletion DEF WorkerActs
<1>4. CASE Fault
  BY <1>3, <1>4, LeavingCompletion, EndCompletion DEF Fault
<1>5. CASE Operator
  BY <1>5, StartCompletion DEF Operator
<1>6. CASE Finished \/ UNCHANGED vars
  BY <1>6, StutterCompletion DEF Finished
<1> QED
  BY <1>1, <1>2, <1>3, <1>4, <1>5, <1>6 DEF EngineNext

LEMMA CompletionInvariance == EngineSpec => []CompletionInv
<1>1. EngineInit => CompletionInv
  <2> SUFFICES ASSUME EngineInit PROVE CompletionInv
    OBVIOUS
  <2>1. stage = "boot" /\ pc = "boot" /\ outcome = "none" /\ control.status = "running" /\ exited_workers = 0
    BY DEF EngineInit, NoEngine
  <2>2. Cardinality(Threads) = budget["threads"]
    <3>1. \E ws \in SUBSET Workers : Cardinality(ws) = budget["threads"]
      BY ThreadsAssumption DEF EngineInit
    <3> QED
      BY <3>1 DEF Threads
  <2> QED
    BY <2>1, <2>2 DEF CompletionInv, NoneIsForgotten, Looping, ExitsAreCounted, StatesAreTheRows, LastWord,
                      RecoverPCs
<1> QED
  BY <1>1, EngineInvariance, CompletionStep, PTL DEF EngineSpec

\* A run that reports completed has no slot left to start, whatever crashed, failed or was interrupted
\* before: the engine comes to its final drain only when every worker it spawned has been counted as
\* gone and every slot they were through with is committed, and what it passes over was not pending
\* when it began (execute_schedule_engine).
THEOREM CompletedRunsLeaveNothingPending == EngineSpec => []CompletedRunHasNoPendingSlot
<1>1. CompletionInv => CompletedRunHasNoPendingSlot
  BY DEF CompletionInv, LastWord, CompletedRunHasNoPendingSlot
<1> QED
  BY <1>1, CompletionInvariance, PTL

=============================================================================
