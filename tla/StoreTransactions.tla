-------------------------- MODULE StoreTransactions --------------------------
(***************************************************************************)
(* The slot operations statement by statement, as connections of several   *)
(* processes run them against SQLite (persistence/store.rs) or Postgres    *)
(* (persistence/postgres.rs).  row and journal are the committed tables;   *)
(* nobody sees what a transaction has not committed.                       *)
(*                                                                         *)
(* Postgres runs at READ COMMITTED: SELECT ... FOR UPDATE and UPDATE lock  *)
(* the rows they meet until the transaction ends, other statements wait    *)
(* for the lock and look at the row as it is then.  SQLite's immediate     *)
(* transactions and its writing statements lock the whole database.  A     *)
(* statement outside a transaction is one of its own.                      *)
(***************************************************************************)
EXTENDS SlotStore

CONSTANTS Conns, Backends

VARIABLES
  backend,   \* the store the run was opened with
  conn       \* what each connection is in the middle of

txVars == <<row, journal, backend, conn>>

Doing(op, s, t, c, go) == [op |-> op, slot |-> s, trial |-> t, commit |-> c, go |-> go]

Idle == Doing("idle", 0, NoTrial, NoCommit, FALSE)
Claiming(s, t, go) == Doing("claim", s, t, NoCommit, go)
Committing(s, c, go) == Doing("commit", s, NoTrial, c, go)
Loaded(s, c) == Doing("loaded", s, NoTrial, c, FALSE)
Marking(s, c) == Doing("mark", s, NoTrial, c, FALSE)

\* Every connection is idle or in one of the four operations of several statements.
TxTypeOK ==
  /\ StoreTypeOK /\ backend \in Backends
  /\ conn \in [Conns -> {Idle}
                 \cup {Claiming(s, t, go) : s \in Slots, t \in Trials, go \in BOOLEAN}
                 \cup {Committing(s, c, go) : s \in Slots, c \in Commits, go \in BOOLEAN}
                 \cup {Loaded(s, c) : s \in Slots, c \in Commits}
                 \cup {Marking(s, c) : s \in Slots, c \in Commits}]

TxInit ==
  /\ StoreInit
  /\ backend \in Backends
  /\ conn = [k \in Conns |-> Idle]

\* Who is in a transaction: BEGIN IMMEDIATE, or SELECT ... FOR UPDATE.
InTransaction(k) == conn[k].op \in {"claim", "commit"}

\* The lock a statement that writes to, or locks, the row of slot s must have.
RowIsFree(s) ==
  \A k \in Conns : InTransaction(k) => backend = "postgres" /\ conn[k].slot # s

\* The lock a writing statement on another table must have.
DatabaseIsFree == backend = "sqlite" => \A k \in Conns : ~InTransaction(k)

To(k, state) == conn' = [conn EXCEPT ![k] = state] /\ UNCHANGED backend

-----------------------------------------------------------------------------
\* claim_schedule_slot: the row is read under the lock; the UPDATE and COMMIT
\* follow if it is pending.
ClaimSelect(k, s, t) ==
  /\ conn[k] = Idle /\ RowIsFree(s)
  /\ To(k, Claiming(s, t, row[s].state = "pending"))
  /\ UNCHANGED storeVars

ClaimCommit(k) ==
  /\ conn[k].op = "claim"
  /\ IF conn[k].go THEN claim_schedule_slot(conn[k].slot, conn[k].trial)
                   ELSE UNCHANGED storeVars
  /\ To(k, Idle)

\* Mutant: SELECT without FOR UPDATE, so that two transactions look at one row.
CommitSelectUnlocked(k, s, c) ==
  /\ conn[k] = Idle
  /\ To(k, Committing(s, c, CommitAccepted(s, c)))
  /\ UNCHANGED storeVars

\* commit_schedule_slot_transaction up to its two checks of the locked row.
CommitSelect(k, s, c) ==
  /\ conn[k] = Idle /\ RowIsFree(s)
  /\ To(k, Committing(s, c, CommitAccepted(s, c)))
  /\ UNCHANGED storeVars

\* The fact rows, the commit record, the row and COMMIT.  The UPDATE has no
\* condition on the owner: the SELECT has made it.
CommitWrite(k) ==
  /\ conn[k].op = "commit" /\ conn[k].go
  /\ LET s == conn[k].slot  c == conn[k].commit IN
       /\ row' = [row EXCEPT ![s] = CommittedRow(c)]
       /\ journal' = upsert_slot_commit_record("commit", s, c)
  /\ To(k, Idle)

\* A refused commit, a statement that fails and a process that dies: the
\* transaction is dropped and rolls back.
Rollback(k) ==
  /\ InTransaction(k)
  /\ To(k, Idle)
  /\ UNCHANGED storeVars

-----------------------------------------------------------------------------
\* One UPDATE; its condition is evaluated on the row the lock was granted for.
Release(s) ==
  /\ RowIsFree(s)
  /\ release_schedule_slot_to_pending(s)
  /\ UNCHANGED <<backend, conn>>

AppendIntent(s, c) ==
  /\ DatabaseIsFree
  /\ append_slot_commit_record(s, c)
  /\ UNCHANGED <<backend, conn>>

\* recover_run loads the commit records once and marks the rows one by one: by
\* then the tables may have moved on.
LoadRecord(k, s) ==
  /\ conn[k] = Idle
  /\ commit_record_by_schedule(journal, s) # NoCommit
  /\ To(k, Loaded(s, commit_record_by_schedule(journal, s)))
  /\ UNCHANGED storeVars

\* mark_schedule_slot_committed is a SELECT and, if the owner matches, an UPDATE
\* without a transaction around them.
MarkSelect(k) ==
  /\ conn[k].op = "loaded"
  /\ To(k, IF OwnerMatches(conn[k].slot, conn[k].commit)
           THEN Marking(conn[k].slot, conn[k].commit) ELSE Idle)
  /\ UNCHANGED storeVars

MarkUpdate(k) ==
  /\ conn[k].op = "mark" /\ RowIsFree(conn[k].slot)
  /\ row' = [row EXCEPT ![conn[k].slot] = CommittedRow(conn[k].commit)]
  /\ To(k, Idle)
  /\ UNCHANGED journal

TxNext ==
  \/ \E k \in Conns, s \in Slots :
       \/ \E t \in Trials : ClaimSelect(k, s, t)
       \/ \E c \in Commits : CommitSelect(k, s, c)
       \/ LoadRecord(k, s)
  \/ \E k \in Conns : \/ ClaimCommit(k) \/ CommitWrite(k) \/ Rollback(k)
                      \/ MarkSelect(k) \/ MarkUpdate(k)
  \/ \E s \in Slots : Release(s) \/ \E c \in Commits : AppendIntent(s, c)

TxSpec == TxInit /\ [][TxNext]_txVars

-----------------------------------------------------------------------------
\* Statement by statement, on either database and with rollbacks anywhere, the
\* tables go through the steps of SlotStore and no others: each operation takes
\* effect at once, also mark_schedule_slot_committed, which writes unconditionally
\* what it read before.  What is proved of StoreSpec holds of both databases.
ImplementsStore == StoreSpec
=============================================================================
