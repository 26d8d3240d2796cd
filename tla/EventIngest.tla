----------------------------- MODULE EventIngest -----------------------------
(***************************************************************************)
(* The trajectory of one trial: the agent appends lines of JSON to a file, *)
(* a thread polls the file and upserts what is new as live rows            *)
(* (trial/events.rs), the worker stops the thread when the agent is done,  *)
(* reads the file once more as evidence, and the committer upserts those   *)
(* rows with the commit of the slot (experiment/commit.rs).  A trial may   *)
(* be retried; the file is kept.                                           *)
(*                                                                         *)
(* A reader may see a line that is not finished.  It then fails to parse,  *)
(* which is a row of its own kind; if it ends inside a character, reading  *)
(* fails.  So does a line of JSON without the fields of an event.          *)
(***************************************************************************)
EXTENDS Integers, Sequences, FiniteSets, FiniteSetsExt

CONSTANTS
  MaxLines,
  MaxAttempts,       \* retry_max_attempts
  SlotAttempts       \* attempts a commit may carry: one more than those on record

VARIABLES
  file,     \* the finished lines
  tail,     \* the unfinished line
  table,    \* event_rows of the trial
  worker, attempt,
  evidence, \* the rows of the file as the worker read them
  ingest,   \* where the polling thread is
  next,     \* next_row_seq
  stop

agentVars == <<file, tail>>
ingestVars == <<ingest, next>>
vars == <<agentVars, table, worker, attempt, evidence, ingestVars, stop>>

Lines == {"event", "blank", "garbage", "foreign"}

\* "split" ends inside a character; "stale" was left by an earlier attempt.
Tails == {"none", "partial", "split", "stale"}

Rows == [seq : 0 .. MaxLines - 1, kind : {"event", "parse_error"}]

\* Every variable has a value of its type.
IngestTypeOK ==
  /\ file \in Seq(Lines) /\ Len(file) <= MaxLines
  /\ tail \in Tails
  /\ table \subseteq [attempt : Nat, row_seq : 0 .. MaxLines - 1, row : Rows, committed : BOOLEAN]
  /\ \A r, s \in table : r.attempt = s.attempt /\ r.row_seq = s.row_seq => r = s
  /\ worker \in {"ready", "agent", "stop", "evidence", "decide", "committed", "error"}
  /\ attempt \in 0 .. MaxAttempts
  /\ evidence \subseteq Rows
  /\ ingest \in {"off", "poll", "check", "final", "ended", "failed"}
  /\ next \in 0 .. MaxLines
  /\ stop \in BOOLEAN

Init ==
  /\ file = <<>> /\ tail = "none"
  /\ table = {}
  /\ worker = "ready" /\ attempt = 0
  /\ evidence = {}
  /\ ingest = "off" /\ next = 0
  /\ stop = FALSE

-----------------------------------------------------------------------------
(* The agent (external).                                                     *)

Append1(line) ==
  /\ worker = "agent" /\ tail = "none" /\ Len(file) < MaxLines
  /\ file' = Append(file, line)
  /\ UNCHANGED <<tail, table, worker, attempt, evidence, ingestVars, stop>>

BeginLine ==
  /\ worker = "agent" /\ tail = "none" /\ Len(file) < MaxLines
  /\ tail' \in {"partial", "split"}
  /\ UNCHANGED <<file, table, worker, attempt, evidence, ingestVars, stop>>

FinishLine ==
  /\ worker = "agent" /\ tail # "none"
  /\ file' = Append(file, IF tail = "stale" THEN "garbage" ELSE "event")
  /\ tail' = "none"
  /\ UNCHANGED <<table, worker, attempt, evidence, ingestVars, stop>>

-----------------------------------------------------------------------------
(* load_event_rows.                                                          *)

Readable == tail # "split" /\ \A i \in DOMAIN file : file[i] # "foreign"

\* seq is the number of the line, blank ones counted.
load_event_rows ==
  {[seq |-> i - 1, kind |-> IF file[i] = "event" THEN "event" ELSE "parse_error"] :
     i \in {j \in DOMAIN file : file[j] # "blank"}}
  \cup (IF tail = "none" THEN {} ELSE {[seq |-> Len(file), kind |-> "parse_error"]})

\* Mutant: a row that is there already stays.
UpsertKeepsOld(rows) ==
  table' = table \cup {r \in rows :
                         \A s \in table : s.attempt # r.attempt \/ s.row_seq # r.row_seq}

\* Rows have the key attempt and row_seq.
Upsert(rows) ==
  table' = {s \in table : \A r \in rows : s.attempt # r.attempt \/ s.row_seq # r.row_seq}
             \cup rows

-----------------------------------------------------------------------------
(* The polling thread.                                                       *)

New == {row \in load_event_rows : row.seq >= next}

LiveRow(row) ==
  [attempt |-> attempt, row_seq |-> row.seq, row |-> row, committed |-> FALSE]

\* The rows from next_row_seq on; a line that was torn when it was read is past.
ingest_new_event_rows(there) ==
  \/ /\ Readable
     /\ Upsert({LiveRow(row) : row \in New})
     /\ next' = IF New = {} THEN next ELSE Max({row.seq : row \in New}) + 1
     /\ ingest' = there
  \/ /\ ~Readable
     /\ ingest' = "failed" /\ UNCHANGED <<table, next>>

Poll ==
  /\ ingest = "poll"
  /\ ingest_new_event_rows("check")
  /\ UNCHANGED <<agentVars, worker, attempt, evidence, stop>>

\* Told to stop, it reads once more.
CheckStop ==
  /\ ingest = "check"
  /\ ingest' = IF stop THEN "final" ELSE "poll"
  /\ UNCHANGED <<agentVars, table, worker, attempt, evidence, next, stop>>

FinalPoll ==
  /\ ingest = "final"
  /\ ingest_new_event_rows("ended")
  /\ UNCHANGED <<agentVars, worker, attempt, evidence, stop>>

-----------------------------------------------------------------------------
(* The worker.                                                               *)

\* An attempt begins: the result of the last one is removed, the trajectory not,
\* and the thread starts at row 0.
StartAttempt ==
  /\ worker = "ready"
  /\ worker' = "agent"
  /\ attempt' = attempt + 1
  /\ tail' = IF tail = "none" THEN "none" ELSE "stale"
  /\ ingest' = "poll" /\ next' = 0 /\ stop' = FALSE
  /\ UNCHANGED <<file, table, evidence>>

\* The agent is done or stopped, perhaps in the middle of a line.
AgentEnds ==
  /\ worker = "agent"
  /\ worker' = "stop" /\ stop' = TRUE
  /\ UNCHANGED <<agentVars, table, attempt, evidence, ingestVars>>

\* The thread is joined; its error is the attempt's.
Join ==
  /\ worker = "stop" /\ ingest \in {"ended", "failed"}
  /\ worker' = IF ingest = "ended" THEN "evidence" ELSE "error"
  /\ UNCHANGED <<agentVars, table, attempt, evidence, ingestVars, stop>>

\* attach_local_runtime_evidence.
attach_local_runtime_evidence ==
  /\ worker = "evidence"
  /\ IF Readable THEN evidence' = load_event_rows /\ worker' = "decide"
     ELSE worker' = "error" /\ UNCHANGED evidence
  /\ UNCHANGED <<agentVars, table, attempt, ingestVars, stop>>

\* The outcome is one the policy retries.
Retry ==
  /\ worker = "decide" /\ attempt < MaxAttempts
  /\ worker' = "ready"
  /\ UNCHANGED <<agentVars, table, attempt, evidence, ingestVars, stop>>

\* annotate_slot_rows: rows get the attempt of the slot and are numbered anew.
annotate_slot_rows(slotAttempt) ==
  {[attempt |-> slotAttempt,
    row_seq |-> Cardinality({e \in evidence : e.seq < row.seq}),
    row |-> row, committed |-> TRUE] : row \in evidence}

Commit ==
  /\ worker = "decide"
  /\ worker' = "committed"
  /\ \E a \in SlotAttempts : Upsert(annotate_slot_rows(a))
  /\ UNCHANGED <<agentVars, attempt, evidence, ingestVars, stop>>

Ingest == Poll \/ CheckStop \/ FinalPoll
Worker == StartAttempt \/ AgentEnds \/ Join \/ attach_local_runtime_evidence \/ Retry \/ Commit

Next ==
  \/ \E line \in Lines : Append1(line)
  \/ BeginLine \/ FinishLine
  \/ Ingest \/ Worker

\* Both threads run; the agent has a time limit.
Fairness == WF_vars(Ingest) /\ WF_vars(Worker)

Spec == Init /\ [][Next]_vars /\ Fairness

-----------------------------------------------------------------------------
\* When the thread has been joined, every line the agent left has its live row
\* under this attempt, the unfinished one too: nothing falls between the last
\* poll and the stop (live_event_ingest_loop).
NothingFallsBehind ==
  worker = "evidence" =>
    \A row \in load_event_rows :
      \E r \in table : r.attempt = attempt /\ r.row_seq = row.seq

\* After the commit the committed rows are the trajectory, each line once and in
\* order, whatever live rows were there under the same keys
\* (commit_schedule_slot_transaction, upsert_event_record_tx).
CommittedRowsAreTheTrajectory ==
  worker = "committed" =>
    LET rows == {r \in table : r.committed} IN
    /\ {r.row : r \in rows} = load_event_rows
    /\ \A r, s \in rows : r.row.seq < s.row.seq <=> r.row_seq < s.row_seq

\* The trial has come to its end: the thread has heard the stop, and the join has
\* returned (what ThreadsFinish of MCRunnerThreads waits for).
TrialEnded == worker \in {"committed", "error"}

-----------------------------------------------------------------------------
\* docs/user/inspecting-results.md: raw_events "includes live rows whose trial has
\* not committed yet".  A committed trial has committed rows only.
LiveRowsEndWithTheCommit ==
  worker = "committed" => \A r \in table : r.committed
=============================================================================
