---------------------------- MODULE CloudProofs ----------------------------
(***************************************************************************)
(* Proofs about the ways to deal with the Cloud (MCCloud), but for the     *)
(* latch's, whose are in BackgroundProofs: that the transactions of the    *)
(* repository keep a run and its attempts in agreement, whatever is lost,  *)
(* lapses or dies; that what is said of a request for access is so; and    *)
(* that what is followed is shown once.                                    *)
(***************************************************************************)
EXTENDS MCCloud, SequenceTheorems, FiniteSetTheorems, WellFoundedInduction, TLAPS

(* The queue.                                                              *)

\* A row of cloud.run_attempts is not there, or is a worker's for a run.
Claimed == [status : {"running", "completed", "failed", "expired"}, run : Runs, worker : Workers]
AttemptRows == attempt \in [Attempts -> Claimed \cup {NoAttempt}]

\* A worker that is in executeClaimedRun has an attempt.
WorkersHold ==
    \A w \in Workers :
        worker[w].at \in {"preparing", "core", "finalizing"} => worker[w].a \in Attempts

\* Attempt numbers are given out in order.
AttemptsInOrder ==
    \A a, b \in Attempts : a <= b /\ attempt[b] # NoAttempt => attempt[a] # NoAttempt

\* A run that is running is held.
RunningIsHeld ==
    \A r \in Runs : run[r] = "running" =>
        \E a \in Attempts : attempt[a].run = r /\ attempt[a].status = "running"

\* A running attempt holds a run that is running, or that its owner has cancelled, and it is
\* the last attempt of that run.
HolderIsLast ==
    \A a \in Attempts : attempt[a].status = "running" =>
        /\ run[attempt[a].run] \in {"running", "cancelled"}
        /\ \A b \in Attempts : attempt[b].run = attempt[a].run => b <= a

RunRows == run \in [Runs -> {"created", "waiting_for_runner", "running"} \cup Finished]

\* What the repository keeps, whoever calls it.
RowsInv ==
    RunRows /\ AttemptRows /\ AttemptsInOrder /\ RunningIsHeld /\ HolderIsLast
      /\ CompletedByItsOwner

QueueInv == QueueTypeOK /\ WorkersHold /\ RowsInv

-----------------------------------------------------------------------------
(* The repository's transactions. *)

\* claimRun puts a new last attempt on a run that no running attempt holds.
LEMMA ClaimKeepsRows ==
  ASSUME RowsInv, NEW r \in Runs, NEW a \in Attempts, NEW w \in Workers, ClaimRow(r, a, w)
  PROVE  RowsInv'
<1> USE QueueAssumption DEF RowsInv, ClaimRow, AttemptRows, RunRows, Queued
<1>1. /\ attempt' \in [Attempts -> Claimed \cup {NoAttempt}]
      /\ run' \in [Runs -> {"created", "waiting_for_runner", "running"} \cup Finished]
  BY DEF Claimed, Finished
<1>2. \A b \in Attempts : attempt[b] # NoAttempt => b < a
  BY DEF AttemptsInOrder, Attempts
<1>3. \A b \in Attempts : b # a => attempt'[b] = attempt[b]
  OBVIOUS
<1>4. attempt'[a] = [status |-> "running", run |-> r, worker |-> w]
  OBVIOUS
<1>5. \A b \in Attempts : b # a => (attempt'[b].run = r => b < a)
  BY <1>2, <1>3 DEF NoAttempt
<1>6. AttemptsInOrder'
  BY <1>2, <1>3, <1>4 DEF AttemptsInOrder, Attempts, NoAttempt
<1>7. RunningIsHeld'
  <2> SUFFICES ASSUME NEW q \in Runs, run'[q] = "running"
               PROVE  \E b \in Attempts : attempt'[b].run = q /\ attempt'[b].status = "running"
    BY DEF RunningIsHeld
  <2>1. CASE q = r
    BY <1>4, <2>1
  <2>2. CASE q # r
    <3>1. PICK b \in Attempts : attempt[b].run = q /\ attempt[b].status = "running"
      BY <2>2 DEF RunningIsHeld
    <3> QED BY <1>3, <3>1 DEF NoAttempt
  <2> QED BY <2>1, <2>2
<1>8. HolderIsLast'
  BY <1>1, <1>3, <1>4, <1>5 DEF HolderIsLast, Attempts, Claimed, NoAttempt
<1>9. CompletedByItsOwner'
  BY <1>1, <1>3, <1>4 DEF CompletedByItsOwner, Attempts, Claimed, NoAttempt
<1> QED BY <1>1, <1>6, <1>7, <1>8, <1>9

\* completeAttempt and failAttempt end a run together with the attempt that holds it.
LEMMA EndKeepsRows ==
  ASSUME RowsInv, NEW a \in Attempts, NEW status \in {"completed", "failed"}, EndRow(a, status)
  PROVE  RowsInv'
<1> USE DEF RowsInv, EndRow, Active, AttemptRows, RunRows
<1>1. attempt[a] \in Claimed /\ attempt[a].run \in Runs /\ attempt[a] # NoAttempt
  BY DEF Claimed, NoAttempt
<1>2. /\ attempt' \in [Attempts -> Claimed \cup {NoAttempt}]
      /\ run' \in [Runs -> {"created", "waiting_for_runner", "running"} \cup Finished]
  BY <1>1 DEF Claimed, Finished
<1>3. /\ attempt'[a].status = status /\ attempt'[a].run = attempt[a].run
      /\ attempt'[a] # NoAttempt
      /\ \A b \in Attempts : b # a => attempt'[b] = attempt[b]
  BY <1>1 DEF Claimed, NoAttempt
<1>4. /\ run'[attempt[a].run] = status
      /\ \A r \in Runs : r # attempt[a].run => run'[r] = run[r]
  BY <1>1
<1>5. \A b \in Attempts : attempt[b].run = attempt[a].run => b <= a
  BY DEF HolderIsLast
<1>6. AttemptsInOrder'
  BY <1>1, <1>3 DEF AttemptsInOrder
<1>7. RunningIsHeld'
  <2> SUFFICES ASSUME NEW q \in Runs, run'[q] = "running"
               PROVE  \E b \in Attempts : attempt'[b].run = q /\ attempt'[b].status = "running"
    BY DEF RunningIsHeld
  <2>1. q # attempt[a].run /\ run[q] = "running"
    BY <1>4
  <2>2. PICK b \in Attempts : attempt[b].run = q /\ attempt[b].status = "running"
    BY <2>1 DEF RunningIsHeld
  <2> QED BY <1>3, <2>1, <2>2
<1>8. HolderIsLast'
  <2> SUFFICES ASSUME NEW b \in Attempts, attempt'[b].status = "running"
               PROVE  /\ run'[attempt'[b].run] \in {"running", "cancelled"}
                      /\ \A c \in Attempts : attempt'[c].run = attempt'[b].run => c <= b
    BY DEF HolderIsLast
  <2>1. b # a /\ attempt[b].status = "running" /\ attempt'[b].run = attempt[b].run
    BY <1>3
  <2>2. attempt[b].run # attempt[a].run
    BY <1>5, <2>1 DEF HolderIsLast, Attempts
  <2>3. attempt[b].run \in Runs
    BY <2>1 DEF Claimed, NoAttempt
  <2> QED BY <1>3, <1>4, <2>1, <2>2, <2>3 DEF HolderIsLast
<1>9. CompletedByItsOwner'
  <2> SUFFICES ASSUME NEW b \in Attempts, attempt'[b].status \in {"completed", "failed"}
               PROVE  /\ run'[attempt'[b].run] = attempt'[b].status
                      /\ \A c \in Attempts : attempt'[c].run = attempt'[b].run => c <= b
    BY DEF CompletedByItsOwner
  <2>1. \A c \in Attempts : attempt'[c].run = attempt[c].run
    BY <1>3
  <2>2. CASE b = a
    BY <1>3, <1>4, <1>5, <2>1, <2>2
  <2>3. CASE b # a
    <3>1. attempt'[b] = attempt[b] /\ attempt[b].run \in Runs
      BY <1>3, <2>3 DEF Claimed, NoAttempt
    <3>2. attempt[b].run # attempt[a].run
      BY <3>1 DEF CompletedByItsOwner
    <3> QED BY <1>4, <2>1, <3>1, <3>2 DEF CompletedByItsOwner
  <2> QED BY <2>2, <2>3
<1> QED BY <1>2, <1>6, <1>7, <1>8, <1>9

\* The owner's cancellation and the pool controller's failure touch the run alone, one that
\* is not at its end.
LEMMA OwnerKeepsRows ==
  ASSUME RowsInv, NEW r \in Runs, cancelRun(r) \/ failQueuedRun(r)
  PROVE  RowsInv'
<1> USE DEF RowsInv, AttemptRows, RunRows, Queued, Finished
<1>1. /\ run[r] \notin Finished /\ attempt' = attempt
      /\ \/ run' = [run EXCEPT ![r] = "cancelled"]
         \/ run[r] \in Queued /\ run' = [run EXCEPT ![r] = "failed"]
  BY DEF cancelRun, failQueuedRun
<1>2. RunRows' /\ AttemptRows' /\ AttemptsInOrder'
  BY <1>1 DEF AttemptsInOrder
<1>3. RunningIsHeld'
  BY <1>1 DEF RunningIsHeld
<1>4. HolderIsLast'
  BY <1>1 DEF HolderIsLast, Claimed, NoAttempt
<1>5. CompletedByItsOwner'
  BY <1>1 DEF CompletedByItsOwner, Claimed, NoAttempt
<1> QED BY <1>2, <1>3, <1>4, <1>5

\* The sweeper gives a run back together with the attempt whose lease has lapsed.
LEMMA SweepKeepsRows ==
  ASSUME RowsInv, NEW w \in Workers, expireLeases(w)
  PROVE  RowsInv'
<1> USE DEF RowsInv, AttemptRows, RunRows
<1>1. \A a \in Lapsed : attempt[a] \in Claimed /\ attempt[a].status = "running"
  BY DEF Lapsed, Claimed, NoAttempt
<1>2. /\ attempt' \in [Attempts -> Claimed \cup {NoAttempt}]
      /\ \A a \in Attempts :
           /\ attempt'[a].run = attempt[a].run
           /\ attempt'[a] = NoAttempt <=> attempt[a] = NoAttempt
           /\ attempt'[a].status = IF a \in Lapsed THEN "expired" ELSE attempt[a].status
  <2> SUFFICES ASSUME NEW a \in Attempts
               PROVE  /\ attempt'[a] \in Claimed \cup {NoAttempt}
                      /\ attempt'[a].run = attempt[a].run
                      /\ attempt'[a] = NoAttempt <=> attempt[a] = NoAttempt
                      /\ attempt'[a].status = IF a \in Lapsed THEN "expired" ELSE attempt[a].status
    BY DEF expireLeases
  <2>1. CASE a \in Lapsed
    <3>1. attempt'[a] = [attempt[a] EXCEPT !.status = "expired"]
      BY <2>1 DEF expireLeases
    <3> QED BY <1>1, <2>1, <3>1 DEF Claimed, NoAttempt
  <2>2. CASE a \notin Lapsed
    BY <2>2 DEF expireLeases
  <2> QED BY <2>1, <2>2
<1>3. /\ run' \in [Runs -> {"created", "waiting_for_runner", "running"} \cup Finished]
      /\ \A r \in Runs : \/ run'[r] = run[r]
                         \/ run[r] = "running" /\ run'[r] = "waiting_for_runner"
      /\ \A r \in Runs : run'[r] = "running" =>
           run[r] = "running" /\ ~\E a \in Lapsed : attempt[a].run = r
  BY DEF expireLeases, Finished
<1>4. AttemptsInOrder'
  BY <1>2 DEF AttemptsInOrder
<1>5. RunningIsHeld'
  BY <1>2, <1>3 DEF RunningIsHeld
<1>6. HolderIsLast'
  <2> SUFFICES ASSUME NEW a \in Attempts, attempt'[a].status = "running"
               PROVE  /\ run'[attempt'[a].run] \in {"running", "cancelled"}
                      /\ \A b \in Attempts : attempt'[b].run = attempt'[a].run => b <= a
    BY DEF HolderIsLast
  <2>1. a \notin Lapsed /\ attempt[a].status = "running" /\ attempt[a].run \in Runs
    BY <1>2 DEF Claimed, NoAttempt
  <2>2. \A b \in Lapsed : attempt[b].run # attempt[a].run
    BY <1>1, <2>1 DEF HolderIsLast, Lapsed, Attempts
  <2>3. run'[attempt[a].run] = run[attempt[a].run]
    BY <2>1, <2>2 DEF expireLeases
  <2> QED BY <1>2, <2>1, <2>3 DEF HolderIsLast
<1>7. CompletedByItsOwner'
  <2> SUFFICES ASSUME NEW a \in Attempts, attempt'[a].status \in {"completed", "failed"}
               PROVE  /\ run'[attempt'[a].run] = attempt'[a].status
                      /\ \A b \in Attempts : attempt'[b].run = attempt'[a].run => b <= a
    BY DEF CompletedByItsOwner
  <2>1. a \notin Lapsed /\ attempt'[a].status = attempt[a].status /\ attempt[a].run \in Runs
    BY <1>2 DEF Claimed, NoAttempt
  <2> QED BY <1>2, <1>3, <2>1 DEF CompletedByItsOwner
<1> QED BY <1>2, <1>3, <1>4, <1>5, <1>6, <1>7

-----------------------------------------------------------------------------
(* The workers. *)

WorkerRows ==
    worker \in [Workers ->
        [at : {"idle", "preparing", "core", "finalizing", "joining", "gone"}, a : Attempts \cup {None},
         core : {"none", "running", "ok", "failed"}, error : BOOLEAN, renewing : BOOLEAN,
         signal : {"none", "cancelled", "lease_lost"}, stopping : BOOLEAN,
         missed : BOOLEAN, overdue : BOOLEAN, waits : SUBSET {"body", "loop"}]]

\* What the bounds leave is never more than they were.
LEMMA SpendKeepsBudget ==
  ASSUME budget \in [faults : 0..MaxFaults, crashes : 0..MaxCrashes],
         NEW how \in {"faults", "crashes"}, Spend(how)
  PROVE  budget' \in [faults : 0..MaxFaults, crashes : 0..MaxCrashes]
BY QueueAssumption DEF Spend

\* A step that leaves the rows alone, or changes them by one of the transactions above.
RowsStep ==
    \/ UNCHANGED <<run, attempt>>
    \/ \E r \in Runs, a \in Attempts, w \in Workers : ClaimRow(r, a, w)
    \/ \E a \in Attempts, status \in {"completed", "failed"} : EndRow(a, status)
    \/ \E r \in Runs : cancelRun(r) \/ failQueuedRun(r)
    \/ \E w \in Workers : expireLeases(w)

\* Everything a worker, an owner or the clock does to the rows is one of the transactions.
LEMMA StepIsTransaction ==
  ASSUME WorkersHold, [Next]_vars
  PROVE  RowsStep
<1>1. CASE UNCHANGED vars
  BY <1>1 DEF vars, RowsStep
<1>2. ASSUME NEW w \in Workers, NEW r \in Runs, NEW a \in Attempts,
             Claim(w, r, a) \/ ClaimLost(w, r, a)
      PROVE  RowsStep
  BY <1>2 DEF Claim, ClaimLost, RowsStep
<1>3. ASSUME NEW w \in Workers, FinalizeFailed(w) \/ FinalizePoisoned(w) \/ FinalizeCompleted(w)
      PROVE  RowsStep
  <2>1. worker[w].a \in Attempts
    BY <1>3 DEF WorkersHold, FinalizeFailed, FinalizePoisoned, FinalizeCompleted
  <2> QED BY <1>3, <2>1 DEF FinalizeFailed, FinalizePoisoned, FinalizeCompleted, RowsStep
<1>4. ASSUME NEW w \in Workers,
             \/ Leave(w) \/ Prepare(w) \/ LoopStops(w) \/ Heartbeat(w) \/ HeartbeatGivesUp(w)
             \/ FinalizeSkipped(w) \/ Restart(w) \/ DeadlinePasses(w) \/ HeartbeatLost(w)
             \/ SideLoopFails(w) \/ requestShutdown(w) \/ Crash(w)
             \/ LoopWaits(w) \/ BodyWaits(w) \/ \E who \in {"body", "loop"} : WaitIsOver(w, who)
             \/ \E ok \in BOOLEAN : CoreExits(w, ok)
      PROVE  RowsStep
  BY <1>4 DEF Leave, Prepare, LoopStops, Heartbeat, HeartbeatGivesUp, FinalizeSkipped, Restart,
              DeadlinePasses, HeartbeatLost, SideLoopFails, requestShutdown, Crash, CoreExits,
              LoopWaits, BodyWaits, WaitIsOver, RowsStep
<1>5. ASSUME NEW a \in Attempts, LeaseLapses(a) \/ LeaseOutrun(a)
      PROVE  RowsStep
  BY <1>5 DEF LeaseLapses, LeaseOutrun, RowsStep
<1>6. ASSUME NEW r \in Runs, cancelRun(r) \/ failQueuedRun(r)
      PROVE  RowsStep
  BY <1>6 DEF RowsStep
<1>7. ASSUME NEW w \in Workers, expireLeases(w)
      PROVE  RowsStep
  BY <1>7 DEF RowsStep
<1> QED BY <1>1, <1>2, <1>3, <1>4, <1>5, <1>6, <1>7 DEF Next, WorkerStep

\* Whatever the step, the rows keep their invariant.
LEMMA StepKeepsRows ==
  ASSUME RowsInv, RowsStep
  PROVE  RowsInv'
<1>1. CASE UNCHANGED <<run, attempt>>
  BY <1>1 DEF RowsInv, RunRows, AttemptRows, AttemptsInOrder, RunningIsHeld, HolderIsLast,
              CompletedByItsOwner
<1> QED BY <1>1, ClaimKeepsRows, EndKeepsRows, OwnerKeepsRows, SweepKeepsRows DEF RowsStep

\* An attempt that a worker has was claimed for it, and stays so.
LEMMA StepKeepsOwners ==
  ASSUME RowsInv, RowsStep
  PROVE  \A a \in Attempts : attempt[a] # NoAttempt => attempt'[a].worker = attempt[a].worker
<1> SUFFICES ASSUME NEW a \in Attempts, attempt[a] # NoAttempt
             PROVE  attempt'[a].worker = attempt[a].worker
  OBVIOUS
<1>1. attempt \in [Attempts -> Claimed \cup {NoAttempt}] /\ attempt[a] \in Claimed
  BY DEF RowsInv, AttemptRows
<1>2. CASE UNCHANGED <<run, attempt>>
  BY <1>2
<1>3. ASSUME NEW r \in Runs, NEW b \in Attempts, NEW w \in Workers, ClaimRow(r, b, w)
      PROVE  attempt'[a].worker = attempt[a].worker
  BY <1>1, <1>3 DEF ClaimRow
<1>4. ASSUME NEW b \in Attempts, NEW status \in {"completed", "failed"}, EndRow(b, status)
      PROVE  attempt'[a].worker = attempt[a].worker
  BY <1>1, <1>4 DEF EndRow, Claimed
<1>5. ASSUME NEW r \in Runs, cancelRun(r) \/ failQueuedRun(r)
      PROVE  attempt'[a].worker = attempt[a].worker
  BY <1>5 DEF cancelRun, failQueuedRun
<1>6. ASSUME NEW w \in Workers, expireLeases(w)
      PROVE  attempt'[a].worker = attempt[a].worker
  BY <1>1, <1>6 DEF expireLeases, Claimed
<1> QED BY <1>2, <1>3, <1>4, <1>5, <1>6 DEF RowsStep

\* What a step may make of a worker: it claims an attempt, forgets the one it has, or keeps
\* it; only a claim takes it into executeClaimedRun.
WorkerMove(w) ==
    \/ worker'[w].a = None /\ worker'[w].at \in {"idle", "gone"}
    \/ worker'[w].a = worker[w].a /\ (worker'[w].at = worker[w].at
                                       \/ worker[w].at \in {"preparing", "core", "finalizing"})
    \/ \E a \in Attempts : worker'[w].a = a /\ attempt'[a].worker = w

\* The type and the move of the one worker a step is about.
LEMMA StepMovesWorkers ==
  ASSUME QueueInv, [Next]_vars
  PROVE  /\ WorkerRows' /\ (live \subseteq Attempts)'
         /\ budget' \in [faults : 0..MaxFaults, crashes : 0..MaxCrashes]
         /\ \A w \in Workers : WorkerMove(w)
<1> DEFINE W == [at : {"idle", "preparing", "core", "finalizing", "joining", "gone"},
                 a : Attempts \cup {None},
                 core : {"none", "running", "ok", "failed"}, error : BOOLEAN, renewing : BOOLEAN,
                 signal : {"none", "cancelled", "lease_lost"}, stopping : BOOLEAN,
                 missed : BOOLEAN, overdue : BOOLEAN, waits : SUBSET {"body", "loop"}]
           Budget == [faults : 0..MaxFaults, crashes : 0..MaxCrashes]
           Good == WorkerRows' /\ (live \subseteq Attempts)' /\ budget' \in Budget
                     /\ \A w \in Workers : WorkerMove(w)
<1>1. /\ worker \in [Workers -> W] /\ live \subseteq Attempts /\ budget \in Budget
      /\ attempt \in [Attempts -> Claimed \cup {NoAttempt}]
  BY DEF QueueInv, QueueTypeOK, RowsInv, AttemptRows
<1>2. Fresh \in W /\ Gone \in W /\ Fresh.a = None /\ Gone.a = None /\ Fresh.at = "idle"
        /\ Gone.at = "gone"
  BY DEF Fresh, Gone
<1>3. ASSUME NEW w \in Workers, NEW v \in W, worker' = [worker EXCEPT ![w] = v],
             \/ v.a = None /\ v.at \in {"idle", "gone"}
             \/ v.a = worker[w].a /\ (v.at = worker[w].at
                                      \/ worker[w].at \in {"preparing", "core", "finalizing"})
             \/ \E a \in Attempts : v.a = a /\ attempt'[a].worker = w
      PROVE  WorkerRows' /\ \A x \in Workers : WorkerMove(x)
  <2> HIDE DEF W
  <2>1. worker' \in [Workers -> W] /\ worker'[w] = v /\ \A x \in Workers : x # w => worker'[x] = worker[x]
    BY <1>1, <1>3
  <2>2. WorkerRows'
    BY <2>1 DEF W, WorkerRows
  <2> QED BY <1>3, <2>1, <2>2 DEF WorkerMove
<1>4. ASSUME worker' = worker
      PROVE  WorkerRows' /\ \A x \in Workers : WorkerMove(x)
  BY <1>1, <1>4 DEF WorkerMove, WorkerRows
<1>5. budget' = budget \/ Spend("faults") \/ Spend("crashes") => budget' \in Budget
  BY <1>1, SpendKeepsBudget
<1>6. ASSUME NEW w \in Workers, LoopStops(w)
      PROVE  Good
  <2> DEFINE v == [worker[w] EXCEPT !.renewing = FALSE]
  <2>1. worker' = [worker EXCEPT ![w] = v] /\ v \in W
    BY <1>1, <1>2, <1>6 DEF LoopStops
  <2>2. v.a = worker[w].a /\ (v.at = worker[w].at \/ worker[w].at \in {"preparing", "core", "finalizing"})
    BY <1>1, <1>6 DEF LoopStops
  <2>3. (live \subseteq Attempts)' /\ budget' \in Budget
    BY <1>1, <1>5, <1>6 DEF LoopStops
  <2> QED BY <1>3, <2>1, <2>2, <2>3
<1>7. ASSUME NEW w \in Workers, Heartbeat(w)
      PROVE  Good
  <2> DEFINE cancelled == run[attempt[worker[w].a].run] = "cancelled"
             v == [worker[w] EXCEPT !.missed = FALSE, !.overdue = FALSE,
                                    !.signal = IF cancelled THEN "cancelled" ELSE @,
                                    !.renewing = ~cancelled]
  <2>0. worker[w] \in W
    BY <1>1
  <2>1. worker' = [worker EXCEPT ![w] = v]
    BY <1>1, <1>7 DEF Heartbeat
  <2>2. v \in W
    <3>1. CASE cancelled
      <4>1. v = [worker[w] EXCEPT !.missed = FALSE, !.overdue = FALSE, !.signal = "cancelled",
                                  !.renewing = FALSE]
        BY <1>1, <3>1
      <4>2. [worker[w] EXCEPT !.missed = FALSE, !.overdue = FALSE, !.signal = "cancelled",
                                  !.renewing = FALSE] \in W
        BY <2>0
      <4> QED BY <4>1, <4>2
    <3>2. CASE ~cancelled
      <4>1. v = [worker[w] EXCEPT !.missed = FALSE, !.overdue = FALSE, !.renewing = TRUE]
        BY <1>1, <3>2
      <4>2. [worker[w] EXCEPT !.missed = FALSE, !.overdue = FALSE, !.renewing = TRUE] \in W
        BY <2>0
      <4> QED BY <4>1, <4>2
    <3> QED BY <3>1, <3>2
  <2>3. v.a = worker[w].a /\ v.at = worker[w].at
    BY <1>1
  <2>4. (live \subseteq Attempts)' /\ budget' \in Budget
    BY <1>1, <1>5, <1>7 DEF Heartbeat
  <2> HIDE DEF v
  <2> QED BY <1>3, <2>1, <2>2, <2>3, <2>4
<1>8. ASSUME NEW w \in Workers, HeartbeatGivesUp(w)
      PROVE  Good
  <2> DEFINE v == [worker[w] EXCEPT !.signal = "lease_lost", !.renewing = FALSE]
  <2>1. worker' = [worker EXCEPT ![w] = v] /\ v \in W
    BY <1>1, <1>2, <1>8 DEF HeartbeatGivesUp
  <2>2. v.a = worker[w].a /\ (v.at = worker[w].at \/ worker[w].at \in {"preparing", "core", "finalizing"})
    BY <1>1, <1>8 DEF HeartbeatGivesUp
  <2>3. (live \subseteq Attempts)' /\ budget' \in Budget
    BY <1>1, <1>5, <1>8 DEF HeartbeatGivesUp
  <2> QED BY <1>3, <2>1, <2>2, <2>3
<1>9. ASSUME NEW w \in Workers, HeartbeatLost(w)
      PROVE  Good
  <2> DEFINE v == [worker[w] EXCEPT !.missed = TRUE]
  <2>1. worker' = [worker EXCEPT ![w] = v] /\ v \in W
    BY <1>1, <1>2, <1>9 DEF HeartbeatLost
  <2>2. v.a = worker[w].a /\ (v.at = worker[w].at \/ worker[w].at \in {"preparing", "core", "finalizing"})
    BY <1>1, <1>9 DEF HeartbeatLost
  <2>3. (live \subseteq Attempts)' /\ budget' \in Budget
    BY <1>1, <1>5, <1>9 DEF HeartbeatLost
  <2> QED BY <1>3, <2>1, <2>2, <2>3
<1>10. ASSUME NEW w \in Workers, DeadlinePasses(w)
      PROVE  Good
  <2> DEFINE v == [worker[w] EXCEPT !.overdue = TRUE]
  <2>1. worker' = [worker EXCEPT ![w] = v] /\ v \in W
    BY <1>1, <1>2, <1>10 DEF DeadlinePasses
  <2>2. v.a = worker[w].a /\ (v.at = worker[w].at \/ worker[w].at \in {"preparing", "core", "finalizing"})
    BY <1>1, <1>10 DEF DeadlinePasses
  <2>3. (live \subseteq Attempts)' /\ budget' \in Budget
    BY <1>1, <1>5, <1>10 DEF DeadlinePasses
  <2> QED BY <1>3, <2>1, <2>2, <2>3
<1>11. ASSUME NEW w \in Workers, SideLoopFails(w) \/ requestShutdown(w)
      PROVE  Good
  <2> DEFINE v == [worker[w] EXCEPT !.stopping = TRUE]
  <2>1. worker' = [worker EXCEPT ![w] = v] /\ v \in W
    BY <1>1, <1>2, <1>11 DEF SideLoopFails, requestShutdown
  <2>2. v.a = worker[w].a /\ (v.at = worker[w].at \/ worker[w].at \in {"preparing", "core", "finalizing"})
    BY <1>1, <1>11 DEF SideLoopFails, requestShutdown
  <2>3. (live \subseteq Attempts)' /\ budget' \in Budget
    BY <1>1, <1>5, <1>11 DEF SideLoopFails, requestShutdown
  <2> QED BY <1>3, <2>1, <2>2, <2>3
<1>12. ASSUME NEW w \in Workers, NEW ok \in BOOLEAN, CoreExits(w, ok)
      PROVE  Good
  <2> DEFINE v == [worker[w] EXCEPT
                    !.at = "finalizing", !.core = IF ok THEN "ok" ELSE "failed",
                    !.error = ~ok \/ worker[w].signal # "none" \/ ~Active(worker[w].a)]
  <2>1. worker' = [worker EXCEPT ![w] = v] /\ v \in W
    BY <1>1, <1>2, <1>12 DEF CoreExits
  <2>2. v.a = worker[w].a /\ (v.at = worker[w].at \/ worker[w].at \in {"preparing", "core", "finalizing"})
    BY <1>1, <1>12 DEF CoreExits
  <2>3. (live \subseteq Attempts)' /\ budget' \in Budget
    BY <1>1, <1>5, <1>12 DEF CoreExits
  <2> HIDE DEF v
  <2> QED BY <1>3, <2>1, <2>2, <2>3
<1>13. ASSUME NEW w \in Workers, Prepare(w)
      PROVE  Good
  <2>1. (live \subseteq Attempts)' /\ budget' \in Budget
    BY <1>1, <1>5, <1>13 DEF Prepare
  <2>2. CASE worker' = [worker EXCEPT ![w].at = "core", ![w].core = "running"]
    <3> DEFINE v == [worker[w] EXCEPT !.at = "core", !.core = "running"]
    <3>0. worker[w] \in W
      BY <1>1
    <3>1. worker' = [worker EXCEPT ![w] = v]
      BY <1>1, <2>2
    <3>2. v \in W /\ v.a = worker[w].a
      BY <3>0
    <3> HIDE DEF v
    <3> QED BY <1>3, <1>13, <2>1, <3>1, <3>2 DEF Prepare
  <2>3. CASE worker' = [worker EXCEPT ![w].at = "finalizing", ![w].error = TRUE]
    <3> DEFINE v == [worker[w] EXCEPT !.at = "finalizing", !.error = TRUE]
    <3>0. worker[w] \in W
      BY <1>1
    <3>1. worker' = [worker EXCEPT ![w] = v]
      BY <1>1, <2>3
    <3>2. v \in W /\ v.a = worker[w].a
      BY <3>0
    <3> HIDE DEF v
    <3> QED BY <1>3, <1>13, <2>1, <3>1, <3>2 DEF Prepare
  <2> QED BY <1>13, <2>2, <2>3 DEF Prepare
<1>14. ASSUME NEW w \in Workers, NEW r \in Runs, NEW a \in Attempts, Claim(w, r, a)
      PROVE  Good
  <2> DEFINE v == [Fresh EXCEPT !.at = "preparing", !.a = a, !.renewing = TRUE]
  <2>1. worker' = [worker EXCEPT ![w] = v] /\ v \in W /\ v.a = a
    BY <1>14 DEF Claim, Fresh
  <2>2. attempt'[a].worker = w /\ (live \subseteq Attempts)' /\ budget' \in Budget
    BY <1>1, <1>14 DEF Claim, ClaimRow
  <2> HIDE DEF v
  <2> QED BY <1>3, <2>1, <2>2
<1>15. ASSUME NEW w \in Workers, worker' = [worker EXCEPT ![w] = Gone] \/ worker' = [worker EXCEPT ![w] = Fresh]
      PROVE  WorkerRows' /\ \A x \in Workers : WorkerMove(x)
  BY <1>2, <1>3, <1>15
<1>16. ASSUME NEW w \in Workers,
             Leave(w) \/ Restart(w) \/ Crash(w) \/ \E r \in Runs, a \in Attempts : ClaimLost(w, r, a)
      PROVE  Good
  <2>1. worker' = [worker EXCEPT ![w] = Gone] \/ worker' = [worker EXCEPT ![w] = Fresh]
    BY <1>16 DEF Leave, Restart, Crash, ClaimLost
  <2>2. budget' = budget \/ Spend("faults") \/ Spend("crashes")
    BY <1>16 DEF Leave, Restart, Crash, ClaimLost
  <2>3. (live \subseteq Attempts)'
    BY <1>1, <1>16 DEF Leave, Restart, Crash, ClaimLost, ClaimRow
  <2> QED BY <1>5, <1>15, <2>1, <2>2, <2>3
<1>24. ASSUME NEW w \in Workers, worker[w].at = "finalizing",
             NEW rejects \in BOOLEAN, NEW stops \in BOOLEAN, Ends(w, rejects, stops)
      PROVE  WorkerRows' /\ \A x \in Workers : WorkerMove(x)
  <2> DEFINE p == [worker[w] EXCEPT !.at = "joining", !.error = rejects, !.stopping = @ \/ stops]
  <2>0. worker[w] \in W
    BY <1>1
  <2>1. p \in W /\ p.a = worker[w].a
    <3> DEFINE halts == worker[w].stopping \/ stops
    <3>1. halts \in BOOLEAN
      BY <2>0
    <3>2. p = [worker[w] EXCEPT !.at = "joining", !.error = rejects, !.stopping = halts]
      OBVIOUS
    <3> HIDE DEF halts
    <3> QED BY <2>0, <3>1, <3>2
  <2>2. worker' = [worker EXCEPT ![w] = IF "loop" \in p.waits THEN p ELSE Freed(p)]
    BY <1>24 DEF Ends
  <2> HIDE DEF p
  <2>3. Freed(p) = Gone \/ Freed(p) = Fresh
    BY DEF Freed
  <2>4. CASE "loop" \in p.waits
    BY <1>3, <1>24, <2>1, <2>2, <2>4
  <2> QED BY <1>15, <2>2, <2>3, <2>4
<1>25. ASSUME NEW w \in Workers,
             FinalizeSkipped(w) \/ FinalizeFailed(w) \/ FinalizePoisoned(w) \/ FinalizeCompleted(w)
      PROVE  Good
  <2>1. /\ worker[w].at = "finalizing"
        /\ \E rejects, stops \in BOOLEAN : Ends(w, rejects, stops)
    BY <1>25 DEF FinalizeSkipped, FinalizeFailed, FinalizePoisoned, FinalizeCompleted
  <2>2. budget' = budget \/ Spend("faults") \/ Spend("crashes")
    BY <1>25 DEF FinalizeSkipped, FinalizeFailed, FinalizePoisoned, FinalizeCompleted
  <2>3. (live \subseteq Attempts)'
    BY <1>1, <1>25 DEF FinalizeSkipped, FinalizeFailed, FinalizePoisoned, FinalizeCompleted, EndRow
  <2> QED BY <1>5, <1>24, <2>1, <2>2, <2>3
<1>26. ASSUME NEW w \in Workers, LoopWaits(w)
      PROVE  Good
  <2> DEFINE v == [worker[w] EXCEPT !.missed = FALSE, !.overdue = FALSE, !.waits = @ \cup {"loop"}]
  <2>0. worker[w] \in W
    BY <1>1
  <2>1. worker' = [worker EXCEPT ![w] = v]
    BY <1>1, <1>26 DEF LoopWaits
  <2>3. v \in W /\ v.a = worker[w].a /\ v.at = worker[w].at
    BY <2>0
  <2>2. (live \subseteq Attempts)' /\ budget' \in Budget
    BY <1>1, <1>5, <1>26 DEF LoopWaits
  <2> HIDE DEF v
  <2> QED BY <1>3, <2>1, <2>2, <2>3
<1>27. ASSUME NEW w \in Workers, BodyWaits(w)
      PROVE  Good
  <2> DEFINE v == [worker[w] EXCEPT !.waits = @ \cup {"body"}]
  <2>1. worker' = [worker EXCEPT ![w] = v] /\ v \in W /\ v.a = worker[w].a /\ v.at = worker[w].at
    BY <1>1, <1>27 DEF BodyWaits
  <2>2. (live \subseteq Attempts)' /\ budget' \in Budget
    BY <1>1, <1>5, <1>27 DEF BodyWaits
  <2> HIDE DEF v
  <2> QED BY <1>3, <2>1, <2>2
<1>28. ASSUME NEW w \in Workers, NEW who \in {"body", "loop"}, WaitIsOver(w, who)
      PROVE  Good
  <2> DEFINE p == [worker[w] EXCEPT !.waits = @ \ {who}]
  <2>1. p \in W /\ p.a = worker[w].a /\ p.at = worker[w].at
    BY <1>1
  <2>2. worker' = [worker EXCEPT ![w] = IF p.at = "joining" THEN Freed(p) ELSE p]
    BY <1>28 DEF WaitIsOver
  <2>3. (live \subseteq Attempts)' /\ budget' \in Budget
    BY <1>1, <1>5, <1>28 DEF WaitIsOver
  <2> HIDE DEF p
  <2>4. Freed(p) = Gone \/ Freed(p) = Fresh
    BY DEF Freed
  <2>5. CASE p.at = "joining"
    BY <1>15, <2>2, <2>3, <2>4, <2>5
  <2>6. CASE p.at # "joining"
    BY <1>3, <2>1, <2>2, <2>3, <2>6
  <2> QED BY <2>5, <2>6
<1>17. ASSUME NEW a \in Attempts, LeaseLapses(a) \/ LeaseOutrun(a)
      PROVE  Good
  BY <1>1, <1>4, <1>5, <1>17 DEF LeaseLapses, LeaseOutrun
<1>18. ASSUME NEW r \in Runs, cancelRun(r) \/ failQueuedRun(r)
      PROVE  Good
  BY <1>1, <1>4, <1>5, <1>18 DEF cancelRun, failQueuedRun
<1>19. ASSUME NEW w \in Workers, expireLeases(w)
      PROVE  Good
  BY <1>1, <1>4, <1>5, <1>19 DEF expireLeases
<1>20. ASSUME UNCHANGED vars PROVE Good
  BY <1>1, <1>4, <1>5, <1>20 DEF vars
<1> HIDE DEF Good, W, Budget
<1>21. ASSUME NEW w \in Workers, WorkerStep(w)
      PROVE  Good
  BY <1>6, <1>7, <1>8, <1>13, <1>14, <1>16, <1>21, <1>25 DEF WorkerStep
<1>22. ASSUME NEW w \in Workers,
             \/ Restart(w) \/ expireLeases(w) \/ DeadlinePasses(w) \/ HeartbeatLost(w)
             \/ FinalizePoisoned(w) \/ SideLoopFails(w) \/ requestShutdown(w) \/ Crash(w)
             \/ LoopWaits(w) \/ BodyWaits(w) \/ \E who \in {"body", "loop"} : WaitIsOver(w, who)
             \/ \E ok \in BOOLEAN : CoreExits(w, ok)
             \/ \E r \in Runs, a \in Attempts : ClaimLost(w, r, a)
      PROVE  Good
  BY <1>9, <1>10, <1>11, <1>12, <1>16, <1>19, <1>22, <1>25, <1>26, <1>27, <1>28
<1>23. ASSUME Next PROVE Good
  <2>1. CASE \E w \in Workers :
               \/ WorkerStep(w) \/ Restart(w) \/ expireLeases(w) \/ DeadlinePasses(w)
               \/ HeartbeatLost(w) \/ FinalizePoisoned(w) \/ SideLoopFails(w)
               \/ requestShutdown(w) \/ Crash(w) \/ LoopWaits(w) \/ BodyWaits(w)
               \/ \E who \in {"body", "loop"} : WaitIsOver(w, who)
               \/ \E ok \in BOOLEAN : CoreExits(w, ok)
               \/ \E r \in Runs, a \in Attempts : ClaimLost(w, r, a)
    BY <2>1, <1>21, <1>22
  <2>2. CASE \E a \in Attempts : LeaseLapses(a) \/ LeaseOutrun(a)
    BY <2>2, <1>17
  <2>3. CASE \E r \in Runs : cancelRun(r) \/ failQueuedRun(r)
    BY <2>3, <1>18
  <2> QED BY <1>23, <2>1, <2>2, <2>3 DEF Next
<1> QED BY <1>20, <1>23 DEF Good, Budget

-----------------------------------------------------------------------------
(* The invariant. *)

LEMMA QueueInitially == Init => QueueInv
<1> SUFFICES ASSUME Init PROVE QueueInv
  OBVIOUS
<1> USE QueueAssumption DEF Init
<1>1. RowsInv
  BY DEF RowsInv, RunRows, AttemptRows, AttemptsInOrder, RunningIsHeld, HolderIsLast,
         CompletedByItsOwner, NoAttempt, Finished
<1>2. WorkersHold
  BY DEF WorkersHold, Fresh
<1>3. QueueTypeOK
  BY DEF QueueTypeOK, NoAttempt, Fresh, Finished
<1> QED BY <1>1, <1>2, <1>3 DEF QueueInv

LEMMA QueueStep == QueueInv /\ [Next]_vars => QueueInv'
<1> SUFFICES ASSUME QueueInv, [Next]_vars PROVE QueueInv'
  OBVIOUS
<1>1. RowsStep
  BY StepIsTransaction DEF QueueInv
<1>2. RowsInv'
  BY <1>1, StepKeepsRows DEF QueueInv
<1>3. /\ WorkerRows' /\ (live \subseteq Attempts)'
      /\ budget' \in [faults : 0..MaxFaults, crashes : 0..MaxCrashes]
      /\ \A w \in Workers : WorkerMove(w)
  BY StepMovesWorkers
<1>4. WorkersHold'
  BY <1>3 DEF WorkersHold, QueueInv, WorkerMove
<1>5. ASSUME NEW w \in Workers, worker'[w].a # None
      PROVE  attempt'[worker'[w].a].worker = w
  <2>1. CASE worker'[w].a = worker[w].a
    <3>1. worker[w].a \in Attempts /\ attempt[worker[w].a].worker = w
      BY <1>5, <2>1 DEF QueueInv, QueueTypeOK
    <3>2. attempt[worker[w].a] # NoAttempt
      BY <3>1, QueueAssumption DEF NoAttempt
    <3> QED BY <1>1, <2>1, <3>1, <3>2, StepKeepsOwners DEF QueueInv
  <2>2. CASE \E a \in Attempts : worker'[w].a = a /\ attempt'[a].worker = w
    BY <2>2
  <2> QED BY <1>3, <1>5, <2>1, <2>2 DEF WorkerMove
<1>6. QueueTypeOK'
  <2>1. RunRows' /\ AttemptRows'
    BY <1>2 DEF RowsInv
  <2>2. (attempt \in [Attempts -> [status : {"none", "running", "completed", "failed", "expired"},
                                 run : Runs \cup {None}, worker : Workers \cup {None}]])'
    BY <2>1 DEF AttemptRows, Claimed, NoAttempt
  <2> QED BY <1>3, <1>5, <2>1, <2>2 DEF QueueTypeOK, RunRows, WorkerRows
<1> QED BY <1>2, <1>4, <1>6 DEF QueueInv

\* Between transactions a run that is running has one attempt that runs, any other has none,
\* except that a cancelled one may have one that has not heard of it.
LEMMA RowsAgree == QueueInv => AttemptsSettleTheRun
<1> SUFFICES ASSUME QueueInv, NEW r \in Runs
             PROVE  /\ run[r] = "running" => Cardinality(RunningOf(r)) = 1
                    /\ run[r] \in Queued \cup {"completed", "failed"} => RunningOf(r) = {}
                    /\ Cardinality(RunningOf(r)) <= 1
  BY DEF AttemptsSettleTheRun, RunMatchesAttempts, QueueInv, RowsInv
<1>1. \A a, b \in RunningOf(r) : a = b
  BY DEF RunningOf, QueueInv, RowsInv, HolderIsLast, Attempts
<1>2. RunningOf(r) = {} \/ \E a \in Attempts : RunningOf(r) = {a}
  BY <1>1 DEF RunningOf
<1>3. RunningOf(r) = {} => Cardinality(RunningOf(r)) = 0
  BY FS_EmptySet
<1>4. \A a \in Attempts : RunningOf(r) = {a} => Cardinality(RunningOf(r)) = 1
  BY FS_Singleton
<1>5. run[r] = "running" => RunningOf(r) # {}
  BY DEF RunningOf, QueueInv, RowsInv, RunningIsHeld
<1>6. RunningOf(r) # {} => run[r] \in {"running", "cancelled"}
  BY DEF RunningOf, QueueInv, RowsInv, HolderIsLast
<1> QED BY <1>2, <1>3, <1>4, <1>5, <1>6 DEF Queued

\* Every row keeps its type, and a worker works on an attempt that was claimed for it
\* (claimRun, executeClaimedRun).
THEOREM QueueTypeCorrect == Spec => []QueueTypeOK
<1>1. QueueInv => QueueTypeOK
  BY DEF QueueInv
<1> QED BY <1>1, QueueInitially, QueueStep, PTL DEF Spec

\* After every transaction a run and its attempts agree on who holds it and who ended it,
\* whatever is lost, late or dead (claimRun, completeAttempt, failAttempt, expireLeases,
\* cancelRun).
THEOREM AttemptsAgree == Spec => []AttemptsSettleTheRun
BY QueueInitially, QueueStep, RowsAgree, PTL DEF Spec

-----------------------------------------------------------------------------
(* Access to a run.                                                        *)

Statuses == Access!Live \cup {"none", "completed", "failed", "expired", "cancelled"}
Requests == [status : Statuses, command : 0..MaxCommands, seen : BOOLEAN]
Looks ==
    [Access!Pollers ->
        [at : {"idle", "accept", "run", "running", "report", "done"},
         command : 0..MaxCommands,
         status : {"none", "completed", "accepted", "active", "failed", "expired"}]]
\* The statuses of a request that is not served yet.
SetUp == {"none", "requested", "accepted"}
\* How the client exits, and the client when it has begun.
Results == {"none", "ok", "error", "asked", "left"}
Asking == [at : {"wait", "attached", "check", "apply", "done"},
           then : {"none", "complete", "cancel"}, result : Results]
Codes == {"none", "running", "zero", "nonzero", "under_way", "no_code"}

\* What the variables hold: `exit` alone has a domain of a size that is not fixed.
AccessTypes ==
    /\ kind \in {"exec", "port_forward"}
    /\ row \in Requests /\ ended \in Requests
    /\ poller \in Looks
    /\ client \in [at : {"start", "wait", "attached", "check", "apply", "done"},
                   then : {"none", "complete", "cancel"}, result : Results]
    /\ exit \in [Access!Commands -> Codes]

\* The row that was remembered is the row, from its end on; and nobody has a version of it
\* in his hands that he could still complete.
EndIsKept ==
    /\ ended = IF row.status \in Access!Live THEN Access!NoRow ELSE row
    /\ row.status \notin Access!Live => ~row.seen

\* A worker's two looks wait for two commands, and report one that has ended.
CommandsAreOwn ==
    /\ \A p \in Access!Pollers :
          /\ poller[p].at = "running" => /\ poller[p].command \in Access!Commands
                                         /\ exit[poller[p].command] = "running"
          /\ poller[p].at = "report" => /\ poller[p].command \in Access!Commands
                                        /\ poller[p].status # "none"
    /\ \A p, q \in Access!Pollers :
          poller[p].at = "running" /\ poller[q].at = "running" /\ p # q =>
              poller[p].command # poller[q].command

\* The command line creates the row, attaches to tunnels that are or were active only, and a
\* command that was completed is one that was started.
ClientIsSound ==
    /\ client.at = "start" => row = Access!NoRow
    /\ kind = "exec" => client.at \notin {"attached", "check", "apply"}
    /\ kind = "exec" /\ row.status = "completed" => row.command \in Access!Commands
    /\ client.result \in {"ok", "left"} => client.at = "done"
    /\ client.at = "attached" => row.status \notin SetUp

AccessInv ==
    AccessTypes /\ EndIsKept /\ CommandsAreOwn /\ ClientIsSound /\ Access!SuccessIsReal

LEMMA AccessBegins == Access!Init => AccessInv
  BY AccessAssumption
  DEF Access!Init, AccessInv, AccessTypes, EndIsKept, CommandsAreOwn, ClientIsSound,
      Access!SuccessIsReal, Requests, Statuses, Codes, Access!Live, Access!NoRow,
      Access!Nowhere, Access!Commands, Access!Pollers, Looks, Results, SetUp

\* A transaction that starts from the row as a read finds it leaves an end as it is.
LEMMA StoreKeepsEnds ==
  ASSUME AccessTypes, EndIsKept, NEW r \in Requests, Access!Store(r),
         row.status \in Access!Live \/ row = Access!NoRow \/ r = row,
         r.status \notin Access!Live => ~r.seen
  PROVE  EndIsKept' /\ row' = r /\ ended' \in Requests
  BY DEF AccessTypes, EndIsKept, Requests, Statuses, Access!Store, Access!Live, Access!NoRow

\* The row as a read finds it: a live one that is due has expired.
LEMMA ExpiredIsARow ==
  ASSUME AccessTypes, EndIsKept
  PROVE  /\ Access!Expired(row) \in Requests
         /\ row.status \notin Access!Live => Access!Expired(row) = row
         /\ Access!Expired(row).status \notin Access!Live => ~Access!Expired(row).seen
         /\ Access!Expired(row) # row => Access!Expired(row).status = "expired"
         /\ Access!Expired(row) # row => row.status \in Access!Live
         /\ Access!Expired(row).command = row.command
  BY DEF AccessTypes, EndIsKept, Requests, Statuses, Access!Expired, Access!Live

\* What an update of a worker leaves: the row as it was, or a live one that is advanced.
LEMMA UpdateKeepsEnds ==
  ASSUME AccessTypes, EndIsKept,
         NEW status \in {"completed", "accepted", "active", "failed", "expired"},
         NEW command \in 0..MaxCommands, NEW done, Access!Update(status, command, done)
  PROVE  /\ EndIsKept' /\ row' \in Requests /\ ended' \in Requests
         /\ row' = row \/ row.status \in Access!Live
         /\ row'.status = "completed" => row' = row \/ (status = "completed" /\ row'.command = command)
         /\ row'.status \in SetUp => row.status \in SetUp
  <1> DEFINE r == Access!Expired(row)
             new == [status |-> status, command |-> command, seen |-> FALSE]
             ok == r.status \in Access!previous_statuses(status)
  <1>1. /\ r \in Requests
        /\ row.status \notin Access!Live => r = row
        /\ r.status \notin Access!Live => ~r.seen
        /\ r # row => r.status = "expired" /\ row.status \in Access!Live
    BY ExpiredIsARow
  <1>2. Access!Store(IF ok THEN new ELSE row)
    BY DEF Access!Update
  <1>3. new \in Requests
    BY DEF Requests, Statuses, Access!Live
  <1>4. /\ ok => r.status \in Access!Live
        /\ ok /\ status = "accepted" => r.status \in {"requested", "accepted"}
    BY DEF Access!previous_statuses, Access!Live
  <1> HIDE DEF r
  <1>5. CASE ok
    <2>1. row.status \in Access!Live
      BY <1>1, <1>4, <1>5
    <2>2. Access!Store(new)
      BY <1>2, <1>5
    <2>3. EndIsKept' /\ row' = new /\ ended' \in Requests
      BY <2>1, <2>2, <1>3, StoreKeepsEnds
    <2>4. row'.status \in SetUp => row.status \in SetUp
      BY <1>1, <1>4, <1>5, <2>3 DEF SetUp
    <2> QED
      BY <2>1, <2>3, <2>4, <1>3
  <1>6. CASE ~ok
    <2>1. Access!Store(row) /\ row \in Requests /\ (row.status \notin Access!Live => ~row.seen)
      BY <1>2, <1>6 DEF AccessTypes, EndIsKept
    <2>2. EndIsKept' /\ row' = row /\ ended' \in Requests
      BY <2>1, StoreKeepsEnds
    <2> QED
      BY <2>1, <2>2
  <1> QED
    BY <1>5, <1>6

\* The parts about the worker and the client, when a transaction leaves a row that is as it
\* was, or was live and has not become a completed command nor gone back to be set up.
LEMMA RowChanges ==
  ASSUME AccessInv, EndIsKept', row' \in Requests, ended' \in Requests,
         row' = row \/ row.status \in Access!Live,
         row'.status \in SetUp => row.status \in SetUp,
         kind = "exec" /\ row'.status = "completed" => row'.command \in Access!Commands,
         client' = client, kind' = kind, exit' = exit,
         poller' \in Looks,
         CommandsAreOwn'
  PROVE  AccessInv'
  <1>1. AccessTypes'
    BY DEF AccessInv, AccessTypes
  <1>2. ClientIsSound'
    BY DEF AccessInv, ClientIsSound, Access!NoRow, Access!Live
  <1>3. Access!SuccessIsReal'
    BY DEF AccessInv, Access!SuccessIsReal, Access!Live, SetUp
  <1> QED
    BY <1>1, <1>2, <1>3 DEF AccessInv

\* A look that has gone somewhere without a command.
LEMMA GotoKeepsCommands ==
  ASSUME AccessInv, NEW p \in Access!Pollers, NEW at \in {"idle", "accept", "run", "done"},
         Access!Goto(p, at), exit' = exit
  PROVE  /\ CommandsAreOwn'
         /\ poller' \in Looks
  <1>1. poller' = [poller EXCEPT ![p] = [at |-> at, command |-> 0, status |-> "none"]]
    BY DEF Access!Goto, Access!Nowhere
  <1>2. 0 \in 0..MaxCommands
    BY AccessAssumption
  <1> QED
    BY <1>1, <1>2 DEF AccessInv, AccessTypes, CommandsAreOwn, Looks

LEMMA RestIsARest == \A p : Access!Rest(p) \in {"idle", "done"}
  BY DEF Access!Rest

LEMMA ListKeepsInv ==
  ASSUME AccessInv, NEW p \in Access!Pollers, Access!List(p)
  PROVE  AccessInv'
  <1> DEFINE r == Access!Expired(row)
             at == CASE r.status = "requested" -> "accept"
                     [] r.status \in Access!Wanted \ {"requested"} -> "run"
                     [] OTHER -> Access!Rest(p)
  <1>1. AccessTypes /\ EndIsKept
    BY DEF AccessInv
  <1>2. Access!Store(r) /\ Access!Goto(p, at) /\ UNCHANGED <<kind, client, exit>>
    BY DEF Access!List
  <1>3. at \in {"idle", "accept", "run", "done"}
    BY RestIsARest
  <1>4. /\ r \in Requests /\ (row.status \notin Access!Live => r = row)
        /\ r.status \notin Access!Live => ~r.seen
        /\ r # row => r.status = "expired" /\ row.status \in Access!Live
    BY <1>1, ExpiredIsARow
  <1> HIDE DEF at, r
  <1>5. EndIsKept' /\ row' = r /\ ended' \in Requests
    BY <1>1, <1>2, <1>4, StoreKeepsEnds
  <1>6. CommandsAreOwn' /\ poller' \in Looks
    BY <1>2, <1>3, GotoKeepsCommands
  <1>7. /\ kind = "exec" /\ row'.status = "completed" => row'.command \in Access!Commands
        /\ row'.status \in SetUp => row.status \in SetUp
    BY <1>4, <1>5 DEF AccessInv, ClientIsSound, SetUp
  <1> QED
    BY <1>2, <1>4, <1>5, <1>6, <1>7, RowChanges

\* The status that a look reports is one that a worker may ask for.
LEMMA ReportIsAnUpdate ==
  ASSUME AccessInv, NEW p \in Access!Pollers, poller[p].at = "report"
  PROVE  /\ poller[p].status \in {"completed", "accepted", "active", "failed", "expired"}
         /\ poller[p].command \in 0..MaxCommands /\ poller[p].command \in Access!Commands
  BY DEF AccessInv, AccessTypes, CommandsAreOwn, Looks

\* An update, and the look goes on without a command.
LEMMA UpdateAndGo ==
  ASSUME AccessInv, NEW p \in Access!Pollers, NEW at \in {"idle", "run", "done"},
         NEW status \in {"completed", "accepted", "active", "failed", "expired"},
         NEW command \in 0..MaxCommands, NEW done, Access!Update(status, command, done),
         status = "completed" => command \in Access!Commands,
         Access!Goto(p, at), UNCHANGED <<kind, client, exit>>
  PROVE  AccessInv'
  <1>1. AccessTypes /\ EndIsKept
    BY DEF AccessInv
  <1>2. /\ EndIsKept' /\ row' \in Requests /\ ended' \in Requests
        /\ row' = row \/ row.status \in Access!Live
        /\ row'.status = "completed" => row' = row \/ (status = "completed" /\ row'.command = command)
        /\ row'.status \in SetUp => row.status \in SetUp
    BY <1>1, UpdateKeepsEnds
  <1>3. CommandsAreOwn' /\ poller' \in Looks
    BY GotoKeepsCommands
  <1>4. kind = "exec" /\ row'.status = "completed" => row'.command \in Access!Commands
    BY <1>2 DEF AccessInv, ClientIsSound
  <1> QED
    BY <1>2, <1>3, <1>4, RowChanges

LEMMA AcceptKeepsInv ==
  ASSUME AccessInv, NEW p \in Access!Pollers, Access!Accept(p)
  PROVE  AccessInv'
  <1>1. PICK done \in BOOLEAN : /\ Access!Update("accepted", 0, done)
                               /\ Access!Goto(p, IF done THEN "run" ELSE Access!Rest(p))
    BY DEF Access!Accept
  <1> DEFINE at == IF done THEN "run" ELSE Access!Rest(p)
  <1>2. at \in {"idle", "run", "done"}
    BY RestIsARest
  <1>3. 0 \in 0..MaxCommands
    BY AccessAssumption
  <1>4. UNCHANGED <<kind, client, exit>>
    BY DEF Access!Accept
  <1>5. Access!Goto(p, at)
    BY <1>1
  <1> HIDE DEF at
  <1> QED
    BY <1>1, <1>2, <1>3, <1>4, <1>5, UpdateAndGo

LEMMA ReportKeepsInv ==
  ASSUME AccessInv, NEW p \in Access!Pollers, Access!Report(p)
  PROVE  AccessInv'
  <1>1. poller[p].at = "report"
    BY DEF Access!Report, Access!At
  <1>2. PICK done \in BOOLEAN : Access!Update(poller[p].status, poller[p].command, done)
    BY DEF Access!Report
  <1>3. Access!Goto(p, Access!Rest(p)) /\ UNCHANGED <<kind, client, exit>>
    BY DEF Access!Report
  <1> QED
    BY <1>1, <1>2, <1>3, RestIsARest, ReportIsAnUpdate, UpdateAndGo

\* A call that fails has made the update or has not.
LEMMA FailedCallKeepsInv ==
  ASSUME AccessInv, NEW p \in Access!Pollers, Access!CallFails(p)
  PROVE  AccessInv'
  <1>1. /\ poller[p].at \in {"accept", "report"}
        /\ Access!Goto(p, Access!Rest(p)) /\ UNCHANGED <<kind, client, exit>>
    BY DEF Access!CallFails
  <1>2. Access!Rest(p) \in {"idle", "run", "done"}
    BY RestIsARest
  <1>3. CASE UNCHANGED <<row, ended>>
    <2>1. CommandsAreOwn' /\ poller' \in Looks
      BY <1>1, <1>2, GotoKeepsCommands
    <2>2. EndIsKept' /\ row' \in Requests /\ ended' \in Requests
      BY <1>3 DEF AccessInv, AccessTypes, EndIsKept
    <2> QED
      BY <1>1, <1>3, <2>1, <2>2, RowChanges DEF AccessInv, ClientIsSound
  <1>4. CASE \E done \in BOOLEAN :
               IF Access!At(p, "accept") THEN Access!Update("accepted", 0, done)
               ELSE Access!Update(poller[p].status, poller[p].command, done)
    <2>1. PICK done \in BOOLEAN :
               IF Access!At(p, "accept") THEN Access!Update("accepted", 0, done)
               ELSE Access!Update(poller[p].status, poller[p].command, done)
      BY <1>4
    <2>2. CASE Access!At(p, "accept")
      <3>1. 0 \in 0..MaxCommands
        BY AccessAssumption
      <3>2. Access!Update("accepted", 0, done)
        BY <2>1, <2>2
      <3> QED
        BY <1>1, <1>2, <3>1, <3>2, UpdateAndGo
    <2>3. CASE ~Access!At(p, "accept")
      <3>1. poller[p].at = "report"
        BY <1>1, <2>3 DEF Access!At
      <3>2. Access!Update(poller[p].status, poller[p].command, done)
        BY <2>1, <2>3
      <3> QED
        BY <1>1, <1>2, <3>1, <3>2, ReportIsAnUpdate, UpdateAndGo
    <2> QED
      BY <2>2, <2>3
  <1> QED
    BY <1>3, <1>4 DEF Access!CallFails

\* A command that begins is nobody's yet.
LEMMA StartKeepsInv ==
  ASSUME AccessInv, NEW p \in Access!Pollers, Access!StartCommand(p)
  PROVE  AccessInv'
  <1>1. PICK c \in Access!Commands \ Access!Started :
          /\ exit' = [exit EXCEPT ![c] = "running"]
          /\ poller' = [poller EXCEPT ![p] = [at |-> "running", command |-> c, status |-> "none"]]
    BY DEF Access!StartCommand
  <1>2. c \in Access!Commands /\ c \in 0..MaxCommands /\ exit[c] = "none"
    BY AccessAssumption DEF Access!Started, Access!Commands
  <1>3. UNCHANGED <<kind, row, client, ended>>
    BY DEF Access!StartCommand
  <1>4. AccessTypes'
    BY <1>1, <1>2, <1>3 DEF AccessInv, AccessTypes, Looks, Codes
  <1>5. EndIsKept' /\ ClientIsSound'
    BY <1>3 DEF AccessInv, EndIsKept, ClientIsSound
  <1>6. CommandsAreOwn'
    BY <1>1, <1>2 DEF AccessInv, AccessTypes, CommandsAreOwn, Looks
  <1>7. Access!SuccessIsReal'
    <2>1. client.result = "ok" /\ kind = "exec" => row.command \in Access!Commands /\ row.command # c
      BY <1>2 DEF AccessInv, Access!SuccessIsReal, ClientIsSound
    <2> QED
      BY <2>1, <1>1, <1>3 DEF AccessInv, AccessTypes, Access!SuccessIsReal
  <1> QED
    BY <1>4, <1>5, <1>6, <1>7 DEF AccessInv

\* A command ends that ran, so it is not the one of which the client was told.
LEMMA EndKeepsInv ==
  ASSUME AccessInv, NEW p \in Access!Pollers, Access!EndCommand(p)
  PROVE  AccessInv'
  <1> DEFINE c == poller[p].command
  <1>1. PICK answer \in Access!Answers :
          /\ exit' = [exit EXCEPT ![c] = Access!CodeOf(answer)]
          /\ poller' = [poller EXCEPT ![p].at = "report", ![p].status = Access!ActionOf(answer)]
    BY DEF Access!EndCommand
  <1>2. c \in Access!Commands /\ exit[c] = "running" /\ poller[p].at = "running"
    BY DEF Access!EndCommand, Access!At, AccessInv, CommandsAreOwn
  <1>3. UNCHANGED <<kind, row, client, ended>>
    BY DEF Access!EndCommand
  <1>4. /\ Access!CodeOf(answer) \in Codes
        /\ Access!ActionOf(answer) \in {"completed", "accepted", "active", "failed", "expired"}
    BY DEF Access!Answers, Access!CodeOf, Access!ActionOf, Codes
  <1>5. AccessTypes'
    <2>1. exit' \in [Access!Commands -> Codes]
      BY <1>1, <1>2, <1>4 DEF AccessInv, AccessTypes
    <2>2. poller' \in Looks
      BY <1>1, <1>4 DEF AccessInv, AccessTypes, Looks
    <2> QED
      BY <1>3, <2>1, <2>2 DEF AccessInv, AccessTypes
  <1>6. EndIsKept' /\ ClientIsSound'
    BY <1>3 DEF AccessInv, EndIsKept, ClientIsSound
  <1>7. CommandsAreOwn'
    BY <1>1, <1>2, <1>4 DEF AccessInv, AccessTypes, CommandsAreOwn, Looks
  <1>8. Access!SuccessIsReal'
    <2>1. client.result = "ok" /\ kind = "exec" => row.command \in Access!Commands /\ row.command # c
      BY <1>2 DEF AccessInv, Access!SuccessIsReal, ClientIsSound
    <2> QED
      BY <2>1, <1>1, <1>3 DEF AccessInv, AccessTypes, Access!SuccessIsReal
  <1> QED
    BY <1>5, <1>6, <1>7, <1>8 DEF AccessInv

\* Somebody reads or cancels the row.
LEMMA OthersKeepInv ==
  ASSUME AccessInv, Access!Read \/ Access!Cancel
  PROVE  AccessInv'
  <1> DEFINE r == Access!Expired(row)
             c == [row EXCEPT !.status = "cancelled", !.seen = FALSE]
  <1>1. AccessTypes /\ EndIsKept
    BY DEF AccessInv
  <1>2. /\ r \in Requests /\ (row.status \notin Access!Live => r = row)
        /\ r.status \notin Access!Live => ~r.seen
        /\ r # row => r.status = "expired" /\ row.status \in Access!Live
    BY <1>1, ExpiredIsARow
  <1>3. UNCHANGED <<kind, client, exit, poller>>
    BY DEF Access!Read, Access!Cancel
  <1>4. CommandsAreOwn' /\ poller' \in Looks
    BY <1>3 DEF AccessInv, AccessTypes, CommandsAreOwn
  <1>5. CASE Access!Read
    <2>1. Access!Store(r)
      BY <1>5 DEF Access!Read
    <2> HIDE DEF r
    <2>2. EndIsKept' /\ row' = r /\ ended' \in Requests
      BY <1>1, <1>2, <2>1, StoreKeepsEnds
    <2> QED
      BY <1>2, <1>3, <1>4, <2>2, RowChanges DEF AccessInv, ClientIsSound, SetUp
  <1>6. CASE Access!Cancel
    <2>1. Access!Store(c) /\ row.status \in Access!Live
      BY <1>6 DEF Access!Cancel
    <2>2. c \in Requests /\ c.status = "cancelled" /\ ~c.seen /\ row.status \in Access!Live
      BY <1>1, <2>1 DEF AccessTypes, Requests, Statuses
    <2> HIDE DEF c
    <2>3. EndIsKept' /\ row' = c /\ ended' \in Requests
      BY <1>1, <2>1, <2>2, StoreKeepsEnds
    <2> QED
      BY <1>3, <1>4, <2>2, <2>3, RowChanges DEF SetUp
  <1> QED
    BY <1>5, <1>6

\* The client's step: the row as above, and what the client makes of it.
LEMMA ClientMoves ==
  ASSUME AccessInv, EndIsKept', row' \in Requests, ended' \in Requests,
         kind' = kind, exit' = exit, poller' = poller,
         client' \in Asking,
         client'.result \in {"ok", "left"} => client'.at = "done",
         client'.at = "attached" => row'.status \notin SetUp,
         kind = "exec" => client'.at \notin {"attached", "check", "apply"},
         kind = "exec" /\ row'.status = "completed" => row'.command \in Access!Commands,
         Access!SuccessIsReal'
  PROVE  AccessInv'
  <1>1. AccessTypes'
    BY DEF AccessInv, AccessTypes, Asking
  <1>2. CommandsAreOwn'
    BY DEF AccessInv, CommandsAreOwn
  <1>3. ClientIsSound'
    BY DEF AccessInv, ClientIsSound, Asking
  <1> QED
    BY <1>1, <1>2, <1>3 DEF AccessInv

LEMMA CreateKeepsInv ==
  ASSUME AccessInv, Access!Create
  PROVE  AccessInv'
  <1> DEFINE new == [status |-> "requested", command |-> 0, seen |-> FALSE]
  <1>1. /\ AccessTypes /\ EndIsKept /\ row = Access!NoRow
        /\ client.result \notin {"ok", "left"} /\ client.at = "start"
    BY DEF AccessInv, ClientIsSound, Access!Create, Access!Client
  <1>2. UNCHANGED <<kind, exit, poller>>
    BY DEF Access!Create
  <1>3. CASE serving = "running"
    <2>1. /\ Access!Store(new)
          /\ \/ client' = [client EXCEPT !.at = "wait"]
             \/ client' = [client EXCEPT !.at = "done", !.result = "asked"]
      BY <1>3 DEF Access!Create, Access!Answer
    <2>2. new \in Requests
      BY AccessAssumption DEF Requests, Statuses, Access!Live
    <2>3. EndIsKept' /\ row' = new /\ ended' \in Requests
      BY <1>1, <2>1, <2>2, StoreKeepsEnds DEF Access!Live
    <2>4. client' \in Asking
          /\ client'.result \notin {"ok", "left"} /\ client'.at \in {"wait", "done"}
      BY <1>1, <2>1 DEF AccessTypes, Asking, Results
    <2>5. Access!SuccessIsReal'
      BY <2>4 DEF Access!SuccessIsReal
    <2> QED
      BY <1>2, <2>2, <2>3, <2>4, <2>5, ClientMoves
  <1>4. CASE serving # "running"
    <2>1. UNCHANGED <<row, ended>> /\ client' = [client EXCEPT !.at = "done", !.result = "error"]
      BY <1>4 DEF Access!Create, Access!Answer
    <2>2. client' \in Asking
          /\ client'.result \notin {"ok", "left"} /\ client'.at = "done"
      BY <1>1, <2>1 DEF AccessTypes, Asking, Results
    <2>3. EndIsKept' /\ row' \in Requests /\ ended' \in Requests
      BY <1>1, <2>1 DEF AccessTypes, EndIsKept
    <2>4. Access!SuccessIsReal'
      BY <2>2 DEF Access!SuccessIsReal
    <2>5. row'.status # "completed"
      BY <1>1, <2>1 DEF Access!NoRow
    <2> QED
      BY <1>2, <2>2, <2>3, <2>4, <2>5, ClientMoves
  <1> QED
    BY <1>3, <1>4

\* An end that the client reads it leaves as it is, and it says "ok" of a completed command
\* that came back with zero.
LEMMA PollKeepsInv ==
  ASSUME AccessInv, Access!Poll
  PROVE  AccessInv'
  <1> DEFINE r == Access!Expired(row)
             s == [r EXCEPT !.seen = (r.status = "active")]
  <1>1. AccessTypes /\ EndIsKept /\ client.at = "wait" /\ client.result \notin {"ok", "left"}
    BY DEF AccessInv, ClientIsSound, Access!Poll, Access!Client
  <1>2. /\ r \in Requests /\ (row.status \notin Access!Live => r = row)
        /\ r.status \notin Access!Live => ~r.seen
        /\ r # row => r.status = "expired" /\ row.status \in Access!Live
    BY <1>1, ExpiredIsARow
  <1>3. /\ Access!Store(s) /\ UNCHANGED <<kind, exit, poller>>
        /\ r.status \in {"failed", "expired", "cancelled",
                         IF kind = "exec" THEN "completed" ELSE "active"}
        /\ r.status = "completed" =>
              client' = [client EXCEPT !.at = "done",
                            !.result = IF exit[r.command] = "zero" THEN "ok" ELSE "error"]
        /\ r.status = "active" => \/ client' = [client EXCEPT !.at = "attached"]
                                  \/ client' = [client EXCEPT !.at = "done", !.result = "left"]
        /\ r.status \notin {"active", "completed"} =>
              client' = [client EXCEPT !.at = "done", !.result = "error"]
    BY DEF Access!Poll, Access!WaitFinished, Access!Answer
  <1> HIDE DEF r
  <1>4. /\ s \in Requests /\ (s.status \notin Access!Live => ~s.seen)
        /\ s.status = r.status /\ s.command = r.command
    BY <1>2 DEF Requests, Access!Live
  <1>5. row.status \in Access!Live \/ s = row
    BY <1>2 DEF Requests, Access!Live
  <1> HIDE DEF s
  <1>6. EndIsKept' /\ row' = s /\ ended' \in Requests
    BY <1>1, <1>3, <1>4, <1>5, StoreKeepsEnds
  <1>7. client' \in Asking
    BY <1>1, <1>3 DEF AccessTypes, Asking, Results
  <1>8. /\ client'.result = "ok" =>
              client'.at = "done" /\ r.status = "completed" /\ exit[r.command] = "zero"
        /\ client'.result = "left" => client'.at = "done" /\ r.status = "active"
        /\ client'.at = "attached" => r.status = "active"
        /\ kind = "exec" => client'.at \notin {"attached", "check", "apply"}
    BY <1>1, <1>3 DEF AccessTypes, Asking
  <1>9. kind = "exec" /\ row'.status = "completed" => row'.command \in Access!Commands
    BY <1>2, <1>4, <1>6 DEF AccessInv, ClientIsSound
  <1>10. Access!SuccessIsReal'
    BY <1>3, <1>4, <1>6, <1>8 DEF Access!SuccessIsReal
  <1> QED
    BY <1>3, <1>4, <1>6, <1>7, <1>8, <1>9, <1>10, ClientMoves DEF SetUp

\* The client waits too long, or its tunnel ends; it does not touch the row.
LEMMA WaitKeepsInv ==
  ASSUME AccessInv, Access!WaitTimesOut \/ Access!AttachEnds
  PROVE  AccessInv'
  <1>1. UNCHANGED <<kind, exit, poller, row, ended>>
    BY DEF Access!WaitTimesOut, Access!AttachEnds
  <1>2. EndIsKept' /\ row' \in Requests /\ ended' \in Requests
    BY <1>1 DEF AccessInv, AccessTypes, EndIsKept
  <1>3. /\ client.result \notin {"ok", "left"} /\ (kind = "exec" => ~Access!AttachEnds)
        /\ Access!AttachEnds => row.status \notin SetUp
    BY DEF AccessInv, ClientIsSound, Access!WaitTimesOut, Access!AttachEnds, Access!Client
  <1>4. /\ client' \in Asking
        /\ client'.result # "ok" /\ (kind = "exec" => client'.at = "done")
        /\ client'.result = "left" => client'.at = "done" /\ Access!AttachEnds
        /\ client'.at # "attached"
    BY <1>3 DEF AccessInv, AccessTypes, Asking, Results, Access!WaitTimesOut, Access!AttachEnds,
                Access!Answer
  <1>5. Access!SuccessIsReal'
    BY <1>1, <1>3, <1>4 DEF Access!SuccessIsReal, SetUp
  <1> QED
    BY <1>1, <1>2, <1>4, <1>5, ClientMoves DEF AccessInv, ClientIsSound

\* The clean-up of a tunnel: it is checked,
LEMMA CheckKeepsInv ==
  ASSUME AccessInv, Access!Check
  PROVE  AccessInv'
  <1> DEFINE r == Access!Expired(row)
  <1>1. AccessTypes /\ EndIsKept /\ kind # "exec" /\ client.result \notin {"ok", "left"}
    BY DEF AccessInv, ClientIsSound, Access!Check, Access!Client
  <1>2. /\ r \in Requests /\ (row.status \notin Access!Live => r = row)
        /\ r.status \notin Access!Live => ~r.seen
        /\ r # row => r.status = "expired" /\ row.status \in Access!Live
    BY <1>1, ExpiredIsARow
  <1>3. /\ Access!Store(r) /\ UNCHANGED <<kind, exit, poller>>
        /\ \/ client' = [client EXCEPT !.at = "apply"]
           \/ client' = [client EXCEPT !.at = "done", !.result = "error"]
    BY DEF Access!Check, Access!Answer
  <1> HIDE DEF r
  <1>4. EndIsKept' /\ row' = r /\ ended' \in Requests
    BY <1>1, <1>2, <1>3, StoreKeepsEnds
  <1>5. /\ client' \in Asking
        /\ client'.result \notin {"ok", "left"} /\ client'.at # "attached"
    BY <1>1, <1>3 DEF AccessTypes, Asking, Results
  <1>6. Access!SuccessIsReal'
    BY <1>5 DEF Access!SuccessIsReal
  <1> QED
    BY <1>1, <1>2, <1>3, <1>4, <1>5, <1>6, ClientMoves

\* and made, if the row is live.
LEMMA ApplyKeepsInv ==
  ASSUME AccessInv, Access!Apply
  PROVE  AccessInv'
  <1> DEFINE s == [row EXCEPT !.seen = FALSE,
                     !.status = IF client.then = "complete" THEN "completed" ELSE "cancelled"]
  <1>1. AccessTypes /\ EndIsKept /\ kind # "exec" /\ client.result \notin {"ok", "left"}
    BY DEF AccessInv, ClientIsSound, Access!Apply, Access!Client
  <1>2. UNCHANGED <<kind, exit, poller>>
    BY DEF Access!Apply
  <1>3. CASE row.status \in Access!CleanupFrom
    <2>1. /\ Access!Store(s)
          /\ client' = [client EXCEPT !.at = "done",
                          !.result = IF client.then = "complete" THEN "ok" ELSE "error"]
      BY <1>3 DEF Access!Apply, Access!Answer
    <2>2. /\ s \in Requests /\ s.status \notin Access!Live /\ ~s.seen /\ row.status \in Access!Live
          /\ client.then = "complete" => s.status = "completed"
      BY <1>1, <1>3 DEF AccessTypes, Requests, Statuses, Access!CleanupFrom, Access!Live
    <2> HIDE DEF s
    <2>3. EndIsKept' /\ row' = s /\ ended' \in Requests
      BY <1>1, <2>1, <2>2, StoreKeepsEnds
    <2>4. /\ client' \in Asking
          /\ client'.at = "done" /\ (client'.result = "ok" => client.then = "complete")
          /\ client'.result # "left"
      BY <1>1, <2>1 DEF AccessTypes, Asking, Results
    <2>5. Access!SuccessIsReal'
      BY <1>1, <1>2, <2>2, <2>3, <2>4 DEF Access!SuccessIsReal
    <2> QED
      BY <1>1, <1>2, <2>2, <2>3, <2>4, <2>5, ClientMoves
  <1>4. CASE row.status \notin Access!CleanupFrom
    <2>1. UNCHANGED <<row, ended>> /\ client' = [client EXCEPT !.at = "done", !.result = "error"]
      BY <1>4 DEF Access!Apply, Access!Answer
    <2>2. EndIsKept' /\ row' \in Requests /\ ended' \in Requests
      BY <1>1, <2>1 DEF AccessTypes, EndIsKept
    <2>3. /\ client' \in Asking
          /\ client'.result \notin {"ok", "left"} /\ client'.at = "done"
      BY <1>1, <2>1 DEF AccessTypes, Asking, Results
    <2>4. Access!SuccessIsReal'
      BY <2>3 DEF Access!SuccessIsReal
    <2> QED
      BY <1>1, <1>2, <2>2, <2>3, <2>4, ClientMoves
  <1> QED
    BY <1>3, <1>4

LEMMA AccessStep ==
  ASSUME AccessInv, Access!Next
  PROVE  AccessInv'
  <1>1. CASE \E p \in Access!Pollers : Access!WorkerStep(p)
    BY <1>1, ListKeepsInv, AcceptKeepsInv, StartKeepsInv, EndKeepsInv, ReportKeepsInv,
       FailedCallKeepsInv DEF Access!WorkerStep
  <1>2. CASE Access!LeaseLapses \/ Access!AttemptEnds \/ Access!TtlPasses
    <2>1. UNCHANGED <<kind, row, poller, client, exit, ended>>
      BY <1>2 DEF Access!LeaseLapses, Access!AttemptEnds, Access!TtlPasses
    <2> QED
      BY <2>1 DEF AccessInv, AccessTypes, EndIsKept, CommandsAreOwn, ClientIsSound,
                  Access!SuccessIsReal
  <1>3. CASE Access!Read \/ Access!Cancel
    BY <1>3, OthersKeepInv
  <1>4. CASE Access!ClientStep
    BY <1>4, CreateKeepsInv, PollKeepsInv, WaitKeepsInv, CheckKeepsInv, ApplyKeepsInv
    DEF Access!ClientStep
  <1> QED
    BY <1>1, <1>2, <1>3, <1>4 DEF Access!Next

-----------------------------------------------------------------------------
(* Following a run.                                                        *)

EventsOf == [source : Trials \cup {Follow!Cloud}, seq : Nat]
Versions == 0..MaxVersion \cup {0}

FollowTypes ==
    /\ cmd \in Follow!Commands
    /\ log \in Seq(Follow!Bytes) /\ previous \in Seq(Follow!Bytes)
    /\ out \in Seq(Follow!Bytes) \cup {<<"old">>}
    /\ read \in [at : Nat, before : Nat, printed : Nat]
    /\ rows \in Seq(EventsOf) /\ shown \in Seq(EventsOf)
    /\ cursor \in Int /\ cursor >= -1 /\ whole \in BOOLEAN
    /\ inventory \in [Resources -> Versions] /\ known \in [Resources -> Versions]

\* What a poll got when the log was `s`.
Seen(s) == IF cmd.tail = 0 THEN s ELSE Follow!tailTextBytes(s, cmd.tail)

\* The last response is of a log that has only grown since; before the first poll there is none.
PreviousIsOfTheLog ==
    cmd.name = "logs" =>
        /\ read.at <= Len(log)
        /\ out = <<"old">> => previous = <<>> /\ read.at = 0
        /\ out # <<"old">> => previous = Seen(SubSeq(log, 1, read.at))

\* Events have numbers of their own, control-plane events positive ones; what was printed is
\* not after the cursor, and the cursor of the control plane is the number of an event.
NumbersAreOwn ==
    /\ \A i, j \in DOMAIN rows : i # j => rows[i] # rows[j]
    /\ \A i \in DOMAIN rows : rows[i].seq <= Len(rows)
    /\ \A i \in Follow!Of(Follow!Cloud) : rows[i].seq >= 1
    /\ \A i \in DOMAIN shown : shown[i].seq <= cursor
    /\ cmd.name = "events" /\ cmd.source = "cloud" /\ cursor > 0 =>
          \E i \in Follow!Of(Follow!Cloud) : rows[i].seq = cursor

\* Of a resource whose changes were told, the view is what the version stands for, if it stands
\* for one, and what is known otherwise; nothing is known that the version says otherwise.
ViewIsOfAVersion ==
    \A r \in Resources \ missed :
        /\ version[r] # 0 => view[r] = version[r] /\ known[r] \in {0, version[r]}
        /\ version[r] = 0 => view[r] = known[r]

FollowInv ==
    FollowTypes /\ PreviousIsOfTheLog /\ NumbersAreOwn /\ ViewIsOfAVersion
      /\ Follow!LogIsNotRepeated /\ Follow!EventsAreShownOnce

\* The module has the operators of the libraries under its own name.
LEMMA FollowMax == \A S : Follow!Max(S) = CHOOSE x \in S : \A y \in S : x >= y
  BY DEF Follow!Max
LEMMA FollowMin == \A S : Follow!Min(S) = CHOOSE x \in S : \A y \in S : x =< y
  BY DEF Follow!Min
LEMMA FollowCardinality == \A S : Follow!Cardinality(S) = Cardinality(S)
  BY DEF Follow!Cardinality, Cardinality
LEMMA FollowInsertAt ==
  \A s, i, e : Follow!InsertAt(s, i, e) = SubSeq(s, 1, i - 1) \o <<e>> \o SubSeq(s, i, Len(s))
  BY DEF Follow!InsertAt

\* A set of numbers has a least one.
LEMMA LeastNumber ==
  ASSUME NEW S \in SUBSET Nat, S # {}
  PROVE  \E m \in S : \A y \in S : m <= y
  <1>1. PICK m \in S : \A y \in S : ~(<<y, m>> \in OpToRel(<, Nat))
    BY NatLessThanWellFounded, WFMin
  <1>2. \A y \in S : m <= y
    <2> SUFFICES ASSUME NEW y \in S PROVE m <= y
      OBVIOUS
    <2>1. y \in Nat /\ m \in Nat
      OBVIOUS
    <2>2. ~(<<y, m>> \in OpToRel(<, Nat))
      BY <1>1
    <2>3. ~(y < m)
      BY <2>1, <2>2, Zenon DEF OpToRel
    <2> QED
      BY <2>1, <2>3
  <1> QED
    BY <1>2

\* A set of numbers with a bound has a greatest one.
LEMMA GreatestNumber ==
  ASSUME NEW S \in SUBSET Nat, S # {}, NEW N \in Nat, \A x \in S : x <= N
  PROVE  \E m \in S : \A y \in S : m >= y
  <1> DEFINE D == {n \in Nat : \E x \in S : n = N - x}
  <1>1. \A x \in S : N - x \in D
    OBVIOUS
  <1>2. PICK m \in D : \A y \in D : m <= y
    BY <1>1, LeastNumber
  <1>3. PICK x \in S : m = N - x
    BY <1>2
  <1>4. \A y \in S : x >= y
    BY <1>1, <1>2, <1>3
  <1> QED
    BY <1>4

LEMMA MaxOf ==
  ASSUME NEW S \in SUBSET Nat, S # {}, NEW N \in Nat, \A x \in S : x <= N
  PROVE  Follow!Max(S) \in S /\ \A y \in S : y <= Follow!Max(S)
  <1>1. PICK m \in S : \A y \in S : m >= y
    BY GreatestNumber
  <1> DEFINE M == CHOOSE x \in S : \A y \in S : x >= y
  <1>2. M \in S /\ \A y \in S : M >= y
    BY <1>1
  <1> HIDE DEF M
  <1>3. \A y \in S : y <= M
    BY <1>2
  <1>4. Follow!Max(S) = M
    BY FollowMax DEF M
  <1> QED
    BY <1>2, <1>3, <1>4

LEMMA MinOf ==
  ASSUME NEW S \in SUBSET Nat, S # {}
  PROVE  Follow!Min(S) \in S /\ \A y \in S : Follow!Min(S) <= y
  <1>1. PICK m \in S : \A y \in S : m <= y
    BY LeastNumber
  <1> QED
    BY <1>1, FollowMin

-----------------------------------------------------------------------------
(* Logs. *)

Starts(s) == {1} \cup {i + 1 : i \in {j \in 1..(Len(s) - 1) : s[j] = Follow!NL}}
Kept(s, n) == {i \in Starts(s) : Cardinality({j \in Starts(s) : j >= i}) <= n}

LEMMA StartsAreBytes ==
  ASSUME NEW S, NEW s \in Seq(S), s # <<>>
  PROVE  /\ Starts(s) \subseteq 1..Len(s) /\ Len(s) \in Nat \ {0}
         /\ IsFiniteSet(Starts(s))
         /\ \A T \in SUBSET Starts(s) : IsFiniteSet(T)
  <1>1. Len(s) \in Nat \ {0}
    BY EmptySeq
  <1>2. Starts(s) \subseteq 1..Len(s)
    BY <1>1 DEF Starts
  <1>3. IsFiniteSet(1..Len(s))
    BY <1>1, FS_Interval
  <1> QED
    BY <1>1, <1>2, <1>3, FS_Subset

\* The last lines begin where a line begins, and not after the first of them.
LEMMA TailIsASuffix ==
  ASSUME NEW S, NEW s \in Seq(S), s # <<>>, NEW n \in Nat, n # 0
  PROVE  \E a \in Kept(s, n) :
            /\ Follow!tailTextBytes(s, n) = SubSeq(s, a, Len(s))
            /\ \A b \in Kept(s, n) : a <= b
  <1>1. /\ Starts(s) \subseteq 1..Len(s) /\ Len(s) \in Nat \ {0}
        /\ 1 \in Starts(s)
    BY StartsAreBytes DEF Starts
  <1>2. PICK last \in Starts(s) : \A y \in Starts(s) : last >= y
    <2>1. Starts(s) \in SUBSET Nat /\ Starts(s) # {} /\ \A x \in Starts(s) : x <= Len(s)
      BY <1>1
    <2> QED
      BY <1>1, <2>1, GreatestNumber
  <1>3. last \in Kept(s, n)
    <2>1. {j \in Starts(s) : j >= last} = {last}
      BY <1>1, <1>2
    <2>2. Cardinality({last}) = 1
      BY FS_Singleton
    <2>3. Cardinality({j \in Starts(s) : j >= last}) = 1
      BY <2>1, <2>2
    <2>4. 1 <= n
      OBVIOUS
    <2>5. Cardinality({j \in Starts(s) : j >= last}) <= n
      BY <2>3, <2>4
    <2> QED
      BY <2>5, Zenon DEF Kept
  <1>4. Kept(s, n) \in SUBSET Nat /\ Kept(s, n) # {}
    <2>1. Kept(s, n) \subseteq Starts(s)
      BY Zenon DEF Kept
    <2> QED
      BY <1>1, <1>3, <2>1
  <1>5. Follow!tailTextBytes(s, n) = SubSeq(s, Follow!Min(Kept(s, n)), Len(s))
    BY FollowCardinality DEF Follow!tailTextBytes, Kept, Starts
  <1> QED
    BY <1>4, <1>5, MinOf

\* More of the log: what was a start is one, and the last lines of the longer log do not
\* begin earlier.
LEMMA TailMovesOn ==
  ASSUME NEW S, NEW s \in Seq(S), NEW k \in 1..Len(s), NEW n \in Nat, n # 0,
         NEW a \in Kept(s, n), a <= k
  PROVE  a \in Kept(SubSeq(s, 1, k), n)
  <1> DEFINE t == SubSeq(s, 1, k)
  <1>1. /\ Len(s) \in Nat /\ k \in Nat /\ k <= Len(s) /\ k >= 1 /\ s # <<>>
    BY LenProperties
  <1>2. /\ t \in Seq(S) /\ Len(t) = k /\ \A i \in 1..k : t[i] = s[i]
    BY <1>1, SubSeqProperties, ElementOfSeq
  <1>3. Starts(s) \subseteq 1..Len(s) /\ \A T \in SUBSET Starts(s) : IsFiniteSet(T)
    BY <1>1, StartsAreBytes
  <1> HIDE DEF t
  <1>4. Starts(t) = {i \in Starts(s) : i <= k}
    <2>1. ASSUME NEW i \in Starts(t) PROVE i \in Starts(s) /\ i <= k
      BY <1>1, <1>2, <2>1 DEF Starts
    <2>2. ASSUME NEW i \in Starts(s), i <= k PROVE i \in Starts(t)
      BY <1>1, <1>2, <2>2 DEF Starts
    <2> QED
      BY <2>1, <2>2
  <1> DEFINE A == {j \in Starts(t) : j >= a}
             B == {j \in Starts(s) : j >= a}
  <1>5. A \subseteq B /\ IsFiniteSet(B)
    BY <1>3, <1>4
  <1>6. Cardinality(A) <= Cardinality(B) /\ Cardinality(A) \in Nat /\ Cardinality(B) \in Nat
    BY <1>5, FS_Subset, FS_CardinalityType
  <1>7. Cardinality(B) <= n /\ a \in Starts(s)
    BY DEF Kept
  <1>8. Cardinality(A) <= n
    <2> HIDE DEF A, B
    <2> QED BY <1>6, <1>7
  <1> QED
    BY <1>4, <1>7, <1>8 DEF Kept, t

\* What is printed is what follows the longest overlap.
LEMMA LongestOverlap ==
  ASSUME NEW S, NEW old \in Seq(S), NEW new \in Seq(S)
  PROVE  \E o \in Nat :
            /\ o <= Len(old) /\ o <= Len(new)
            /\ Follow!appended_raw_log_bytes(old, new) = SubSeq(new, o + 1, Len(new))
            /\ \A m \in 1..Len(old) :
                  m <= Len(new) /\ SubSeq(old, Len(old) - m + 1, Len(old)) = SubSeq(new, 1, m)
                     => m <= o
  <1> DEFINE shorter == IF Len(old) < Len(new) THEN Len(old) ELSE Len(new)
             O == {0} \cup {m \in 1..shorter :
                              SubSeq(old, Len(old) - m + 1, Len(old)) = SubSeq(new, 1, m)}
             o == Follow!Max(O)
  <1>1. Len(old) \in Nat /\ Len(new) \in Nat
    BY LenProperties
  <1>2. O \in SUBSET Nat /\ O # {} /\ shorter \in Nat /\ \A x \in O : x <= shorter
    BY <1>1
  <1>3. o \in O /\ \A y \in O : y <= o
    <2> HIDE DEF O, shorter
    <2> QED BY <1>2, MaxOf
  <1>4. Follow!appended_raw_log_bytes(old, new) = SubSeq(new, Len(new) - (Len(new) - o) + 1, Len(new))
    BY DEF Follow!appended_raw_log_bytes, Follow!Suffix
  <1> HIDE DEF o
  <1>5. o \in Nat /\ o <= Len(old) /\ o <= Len(new)
    BY <1>1, <1>2, <1>3
  <1>6. Len(new) - (Len(new) - o) = o
    BY <1>1, <1>5
  <1>7. \A m \in 1..Len(old) :
           m <= Len(new) /\ SubSeq(old, Len(old) - m + 1, Len(old)) = SubSeq(new, 1, m) => m <= o
    BY <1>1, <1>3
  <1> QED
    BY <1>4, <1>5, <1>6, <1>7

\* What --tail-lines leaves of a log is bytes.
LEMMA SeenIsBytes ==
  ASSUME FollowTypes, cmd.name = "logs", NEW s \in Seq(Follow!Bytes)
  PROVE  /\ Seen(s) \in Seq(Follow!Bytes) /\ cmd.tail \in Nat
         /\ s # <<>> /\ cmd.tail # 0 =>
              \E a \in Kept(s, cmd.tail) :
                 /\ a \in 1..Len(s) /\ Seen(s) = SubSeq(s, a, Len(s))
                 /\ \A b \in Kept(s, cmd.tail) : a <= b
  <1>1. cmd.tail \in Nat
    BY FollowAssumption DEF FollowTypes, Follow!Commands
  <1>2. CASE cmd.tail = 0
    BY <1>1, <1>2 DEF Seen
  <1>3. CASE cmd.tail # 0 /\ s = <<>>
    <2>1. Seen(s) = <<Follow!NL>> /\ Follow!NL \in Follow!Bytes
      BY <1>3 DEF Seen, Follow!tailTextBytes, Follow!Bytes
    <2> HIDE DEF Follow!NL
    <2>2. <<Follow!NL>> \in Seq(Follow!Bytes)
      BY <2>1
    <2> QED
      BY <1>1, <1>3, <2>1, <2>2
  <1>4. CASE cmd.tail # 0 /\ s # <<>>
    <2>1. PICK a \in Kept(s, cmd.tail) :
             /\ Follow!tailTextBytes(s, cmd.tail) = SubSeq(s, a, Len(s))
             /\ \A b \in Kept(s, cmd.tail) : a <= b
      BY <1>1, <1>4, TailIsASuffix
    <2>2. a \in 1..Len(s) /\ Len(s) \in Nat
      <3>1. a \in Starts(s)
        BY Zenon DEF Kept
      <3> QED
        BY <1>4, <3>1, StartsAreBytes
    <2>3. Seen(s) = SubSeq(s, a, Len(s))
      BY <1>4, <2>1 DEF Seen
    <2>4. \A i \in a..Len(s) : s[i] \in Follow!Bytes
      BY <2>2, ElementOfSeq
    <2>5. SubSeq(s, a, Len(s)) \in Seq(Follow!Bytes)
      BY <2>2, <2>4, SubSeqProperties
    <2> QED
      BY <1>1, <2>1, <2>2, <2>3, <2>5
  <1> QED
    BY <1>2, <1>3, <1>4

\* The two responses overlap in what the log had at the last poll, as far as it is in both.
LEMMA ResponsesOverlap ==
  ASSUME NEW S, NEW s \in Seq(S), NEW k \in 1..Len(s), NEW b \in 1..k, NEW a \in b..k,
         NEW old, old = SubSeq(SubSeq(s, 1, k), b, k), NEW new, new = SubSeq(s, a, Len(s))
  PROVE  /\ Len(old) = k - b + 1 /\ Len(new) = Len(s) - a + 1
         /\ SubSeq(old, Len(old) - (k - a + 1) + 1, Len(old)) = SubSeq(new, 1, k - a + 1)
  <1> DEFINE t == SubSeq(s, 1, k)
             L == Len(s)
  <1>1. L \in Nat /\ k \in Nat /\ b \in Nat /\ a \in Nat /\ b <= a /\ a <= k /\ k <= L /\ 1 <= b
    BY LenProperties
  <1>2. \A i \in 1..L : s[i] \in S
    BY ElementOfSeq
  <1>3. t \in Seq(S) /\ Len(t) = k
    BY <1>1, <1>2, SubSeqProperties
  <1>4. \A i \in 1..k : t[i] \in S
    BY <1>3, ElementOfSeq
  <1>5. Len(new) = L - a + 1
    <2>1. \A i \in a..L : s[i] \in S
      BY <1>1, <1>2
    <2> QED
      BY <1>1, <2>1, SubSeqProperties
  <1>6. Len(old) = k - b + 1
    <2>1. \A i \in b..k : t[i] \in S
      BY <1>1, <1>4
    <2> QED
      BY <1>1, <2>1, SubSeqProperties
  <1>7. SubSeq(new, 1, k - a + 1) = SubSeq(s, a, k)
    <2>1. a \in 1..Len(s) /\ Len(s) \in 1..Len(s) /\ 1 \in 1..(Len(s) - a + 1)
          /\ k - a + 1 \in 1..(Len(s) - a + 1) /\ a + 1 - 1 = a /\ a + (k - a + 1) - 1 = k
      BY <1>1
    <2>2. SubSeq(SubSeq(s, a, Len(s)), 1, k - a + 1) = SubSeq(s, a + 1 - 1, a + (k - a + 1) - 1)
      BY <2>1, SubSeqOfSubSeq
    <2> QED
      BY <2>1, <2>2
  <1>8. SubSeq(old, a - b + 1, k - b + 1) = SubSeq(t, a, k)
    <2> HIDE DEF t
    <2>1. b \in 1..Len(t) /\ k \in 1..Len(t) /\ a - b + 1 \in 1..(k - b + 1)
          /\ k - b + 1 \in 1..(k - b + 1) /\ b + (a - b + 1) - 1 = a /\ b + (k - b + 1) - 1 = k
      BY <1>1, <1>3
    <2>2. SubSeq(SubSeq(t, b, k), a - b + 1, k - b + 1)
             = SubSeq(t, b + (a - b + 1) - 1, b + (k - b + 1) - 1)
      BY <1>3, <2>1, SubSeqOfSubSeq
    <2>3. old = SubSeq(t, b, k)
      BY DEF t
    <2> QED
      BY <2>1, <2>2, <2>3
  <1>9. SubSeq(t, a, k) = SubSeq(s, a, k)
    <2>1. 1 \in 1..Len(s) /\ k \in 1..Len(s) /\ a \in 1..(k - 1 + 1) /\ k \in 1..(k - 1 + 1)
          /\ 1 + a - 1 = a /\ 1 + k - 1 = k
      BY <1>1
    <2>2. SubSeq(SubSeq(s, 1, k), a, k) = SubSeq(s, 1 + a - 1, 1 + k - 1)
      BY <2>1, SubSeqOfSubSeq
    <2> QED
      BY <2>1, <2>2
  <1>10. Len(old) - (k - a + 1) + 1 = a - b + 1
    BY <1>1, <1>6
  <1> QED
    BY <1>5, <1>6, <1>7, <1>8, <1>9, <1>10

\* A poll prints what was appended, and no more.
LEMMA PollPrintsTheNew ==
  ASSUME FollowInv, Follow!PollLogs
  PROVE  FollowTypes' /\ PreviousIsOfTheLog' /\ Follow!LogIsNotRepeated'
  <1> DEFINE B == Follow!Bytes
             new == Follow!appended_raw_log_bytes(previous, Seen(log))
             k == read.at
             L == Len(log)
  <1>1. /\ cmd.name = "logs" /\ FollowTypes
        /\ log \in Seq(B) /\ previous \in Seq(B) /\ out \in Seq(B) \cup {<<"old">>}
        /\ k \in Nat /\ L \in Nat /\ k <= L
    <2>1. cmd.name = "logs" /\ FollowTypes
      BY DEF FollowInv, Follow!PollLogs
    <2>2. log \in Seq(B) /\ previous \in Seq(B) /\ out \in Seq(B) \cup {<<"old">>} /\ k \in Nat
      BY <2>1 DEF FollowTypes
    <2>3. L \in Nat
      BY <2>2, LenProperties
    <2>4. k <= L
      BY <2>1 DEF FollowInv, PreviousIsOfTheLog
    <2> QED
      BY <2>1, <2>2, <2>3, <2>4
  <1>2. /\ out' = IF out = <<"old">> THEN new ELSE out \o new
        /\ read' = [at |-> L, before |-> k, printed |-> Len(new)]
        /\ previous' = Seen(log)
        /\ UNCHANGED <<cmd, log, rows, cursor, shown, whole, inventory, known, view>>
    BY DEF Follow!PollLogs, Follow!Response, Seen, Follow!eventVars, Follow!watchVars
  <1>3. Seen(log) \in Seq(B) /\ cmd.tail \in Nat
    BY <1>1, SeenIsBytes
  <1>4. PICK o \in Nat :
            /\ o <= Len(previous) /\ o <= Len(Seen(log))
            /\ new = SubSeq(Seen(log), o + 1, Len(Seen(log)))
            /\ \A m \in 1..Len(previous) :
                  m <= Len(Seen(log))
                  /\ SubSeq(previous, Len(previous) - m + 1, Len(previous)) = SubSeq(Seen(log), 1, m)
                     => m <= o
    BY <1>1, <1>3, LongestOverlap
  <1> HIDE DEF new
  <1>5. new \in Seq(B) /\ Len(new) = Len(Seen(log)) - o /\ Len(Seen(log)) \in Nat /\ Len(new) \in Nat
    <2>1. Len(Seen(log)) \in Nat
      BY <1>3, LenProperties
    <2>2. \A i \in (o + 1)..Len(Seen(log)) : Seen(log)[i] \in B
      BY <1>3, <2>1, ElementOfSeq
    <2>3. o + 1 \in Int /\ Len(Seen(log)) \in Int
      BY <2>1
    <2>4. /\ SubSeq(Seen(log), o + 1, Len(Seen(log))) \in Seq(B)
          /\ Len(SubSeq(Seen(log), o + 1, Len(Seen(log)))) =
                IF o + 1 <= Len(Seen(log)) THEN Len(Seen(log)) - (o + 1) + 1 ELSE 0
      BY <2>2, <2>3, SubSeqProperties
    <2> QED
      BY <1>4, <2>1, <2>4
  <1>6. <<"old">> \notin Seq(B)
    <2>1. "old" \notin B
      BY FollowAssumption DEF Follow!Bytes, Follow!NL
    <2> QED
      BY <2>1
  <1>7. out' \in Seq(B) /\ out' # <<"old">>
    <2>1. out # <<"old">> => out \o new \in Seq(B)
      BY <1>1, <1>5, ConcatProperties
    <2> QED
      BY <1>2, <1>5, <1>6, <2>1
  <1>8. FollowTypes'
    <2>1. read' \in [at : Nat, before : Nat, printed : Nat]
      BY <1>1, <1>2, <1>5
    <2> QED
      BY <1>1, <1>2, <1>3, <1>7, <2>1 DEF FollowTypes
  <1>9. SubSeq(log, 1, L) = log
    BY <1>1, SubSeqFull
  <1>10. PreviousIsOfTheLog'
    <2>1. read'.at = L /\ log' = log
      BY <1>2
    <2>2. Seen(SubSeq(log, 1, read.at))' = Seen(log)
      BY <1>2, <1>9, <2>1 DEF Seen
    <2>3. previous' = Seen(SubSeq(log, 1, read.at))'
      BY <1>2, <2>2
    <2>4. (read.at <= Len(log))'
      BY <1>1, <2>1
    <2> QED
      BY <1>7, <2>3, <2>4 DEF PreviousIsOfTheLog
  <1>11. /\ out = <<"old">> => previous = <<>> /\ k = 0
         /\ out # <<"old">> => previous = Seen(SubSeq(log, 1, k))
    BY <1>1 DEF FollowInv, PreviousIsOfTheLog
  <1>12. ASSUME cmd.tail = 0 PROVE out' = log /\ Len(new) = L - k
    <2>1. Seen(log) = log /\ previous = SubSeq(log, 1, k)
      <3>1. SubSeq(log, 1, 0) = <<>>
        BY SubSeqEmpty
      <3> QED
        BY <1>11, <1>12, <3>1 DEF Seen
    <2>2. Len(previous) = k
      <3>1. \A i \in 1..k : log[i] \in B
        BY <1>1, ElementOfSeq
      <3> QED
        BY <1>1, <2>1, <3>1, SubSeqProperties
    <2>3. o = k
      <3>1. CASE k = 0
        BY <1>4, <2>2, <3>1
      <3>2. CASE k # 0
        <4>1. SubSeq(previous, k - k + 1, k) = previous
          <5>1. SubSeq(previous, 1, Len(previous)) = previous
            BY <1>1, SubSeqFull
          <5>2. k - k + 1 = 1
            BY <1>1
          <5> QED
            BY <5>1, <5>2, <2>2
        <4>2. k \in 1..Len(previous) /\ k <= Len(Seen(log))
          BY <1>1, <2>1, <2>2, <3>2
        <4>3. k <= o
          BY <1>4, <2>1, <2>2, <4>1, <4>2
        <4> QED
          BY <1>1, <1>4, <2>2, <4>3
      <3> QED
        BY <3>1, <3>2
    <2>4. new = SubSeq(log, k + 1, L)
      BY <1>4, <2>1, <2>3
    <2>5. CASE out = <<"old">>
      <3>1. k = 0 /\ k + 1 = 1 /\ out' = new
        BY <1>2, <1>11, <2>5
      <3>2. new = log
        BY <1>9, <2>4, <3>1
      <3> QED
        BY <1>5, <2>1, <2>3, <3>1, <3>2
    <2>6. CASE out # <<"old">>
      <3>1. out = SubSeq(log, 1, k)
        BY <1>1, <1>12, <2>6 DEF FollowInv, Follow!LogIsNotRepeated
      <3>2. SubSeq(log, 1, k) \o SubSeq(log, k + 1, L) = SubSeq(log, 1, L)
        <4>1. 1 \in 1..(Len(log) + 1) /\ k \in (1 - 1)..Len(log) /\ L \in k..Len(log)
          BY <1>1
        <4> QED
          BY <1>1, <4>1, ConcatAdjacentSubSeq
      <3> QED
        BY <1>2, <1>5, <1>9, <2>1, <2>3, <2>4, <2>6, <3>1, <3>2
    <2> QED
      BY <2>5, <2>6
  <1>13. ASSUME cmd.tail # 0, L # 0 PROVE Len(new) <= L - k
    <2>1. log # <<>>
      BY <1>13
    <2>2. PICK a \in Kept(log, cmd.tail) :
             a \in 1..L /\ Seen(log) = SubSeq(log, a, L)
      BY <1>1, <1>13, <2>1, SeenIsBytes
    <2>3. Len(Seen(log)) = L - a + 1
      <3>1. \A i \in a..L : log[i] \in B
        BY <1>1, <2>2, ElementOfSeq
      <3> QED
        BY <1>1, <2>2, <3>1, SubSeqProperties
    <2>4. CASE k = 0
      BY <1>1, <1>5, <2>2, <2>3, <2>4
    <2>5. CASE a > k
      BY <1>1, <1>5, <2>2, <2>3, <2>5
    <2>6. CASE k # 0 /\ a <= k
      <3> DEFINE t == SubSeq(log, 1, k)
      <3>1. k \in 1..L /\ k \in 1..Len(log)
        BY <1>1, <2>6
      <3>2. t \in Seq(B) /\ Len(t) = k /\ t # <<>>
        <4>1. \A i \in 1..k : log[i] \in B
          BY <1>1, ElementOfSeq
        <4>2. t \in Seq(B) /\ Len(t) = k
          BY <1>1, <4>1, SubSeqProperties
        <4> QED
          BY <2>6, <4>2, EmptySeq
      <3>3. previous = Seen(t)
        BY <1>11, <2>6
      <3>4. a \in Kept(t, cmd.tail)
        BY <1>1, <1>3, <1>13, <2>6, <3>1, TailMovesOn
      <3> HIDE DEF t
      <3>5. PICK b \in Kept(t, cmd.tail) :
               /\ b \in 1..k /\ Seen(t) = SubSeq(t, b, k)
               /\ \A c \in Kept(t, cmd.tail) : b <= c
        BY <1>1, <1>13, <3>2, SeenIsBytes
      <3>6. a \in b..k
        BY <2>2, <2>6, <3>4, <3>5
      <3>7. previous = SubSeq(SubSeq(log, 1, k), b, k)
        BY <3>3, <3>5 DEF t
      <3>8. /\ Len(previous) = k - b + 1
            /\ SubSeq(previous, Len(previous) - (k - a + 1) + 1, Len(previous))
                  = SubSeq(Seen(log), 1, k - a + 1)
        <4>1. Seen(log) = SubSeq(log, a, Len(log)) /\ log \in Seq(B)
          BY <1>1, <2>2
        <4>2. b \in 1..k
          BY <3>5
        <4> HIDE DEF B, k
        <4> QED
          BY <3>1, <3>6, <3>7, <4>1, <4>2, ResponsesOverlap
      <3>9. k - a + 1 \in 1..Len(previous) /\ k - a + 1 <= Len(Seen(log))
        <4>1. a \in Nat /\ b \in Nat /\ b <= a /\ a <= k
          BY <1>1, <2>2, <3>5, <3>6
        <4> QED
          <5>1. Len(previous) = k - b + 1
            BY <3>8
          <5> QED
            BY <1>1, <2>3, <4>1, <5>1
      <3>10. k - a + 1 <= o
        BY <1>4, <3>8, <3>9
      <3> QED
        BY <1>1, <1>5, <2>2, <2>3, <3>10
    <2> QED
      BY <1>1, <2>2, <2>4, <2>5, <2>6
  <1>14. Follow!LogIsNotRepeated'
    <2>1. cmd.tail = 0 => out' = SubSeq(log, 1, L)
      BY <1>9, <1>12
    <2>2. Len(new) <= L - k \/ L = 0
      BY <1>1, <1>12, <1>13
    <2> QED
      BY <1>2, <2>1, <2>2 DEF Follow!LogIsNotRepeated
  <1> QED
    BY <1>8, <1>10, <1>14

LEMMA WriteKeepsLog ==
  ASSUME FollowInv, NEW b \in Follow!Bytes, Follow!Write(b)
  PROVE  FollowTypes' /\ PreviousIsOfTheLog' /\ Follow!LogIsNotRepeated'
  <1>1. /\ FollowTypes /\ log \in Seq(Follow!Bytes) /\ read.at \in Nat /\ Len(log) \in Nat
        /\ cmd.name = "logs" /\ read.at <= Len(log)
    <2>1. FollowTypes /\ log \in Seq(Follow!Bytes) /\ read.at \in Nat
      BY DEF FollowInv, FollowTypes
    <2>2. cmd.name = "logs" /\ read.at <= Len(log)
      BY DEF FollowInv, PreviousIsOfTheLog, Follow!Write
    <2> QED
      BY <2>1, <2>2, LenProperties
  <1>2. log' = Append(log, b)
        /\ UNCHANGED <<cmd, out, previous, read, rows, cursor, shown, whole, inventory, known, view>>
    BY DEF Follow!Write, Follow!eventVars, Follow!watchVars
  <1>3. log' \in Seq(Follow!Bytes) /\ Len(log') = Len(log) + 1 /\ log' = log \o <<b>>
    BY <1>1, <1>2, AppendProperties, AppendIsConcat
  <1>4. SubSeq(log', 1, read.at) = SubSeq(log, 1, read.at)
    <2>1. CASE read.at = 0
      BY <2>1, SubSeqEmpty
    <2>2. CASE read.at # 0
      <3>1. 1 \in 1..Len(log) /\ read.at \in 1..Len(log) /\ <<b>> \in Seq(Follow!Bytes)
        BY <1>1, <2>2
      <3>2. SubSeq(log \o <<b>>, 1, read.at) = SubSeq(log, 1, read.at)
        BY <1>1, <3>1, SubSeqOfConcat1
      <3> QED
        BY <1>3, <3>2
    <2> QED
      BY <2>1, <2>2
  <1>5. FollowTypes'
    BY <1>1, <1>2, <1>3 DEF FollowTypes
  <1>6. PreviousIsOfTheLog'
    <2>1. Seen(SubSeq(log, 1, read.at))' = Seen(SubSeq(log, 1, read.at))
      BY <1>2, <1>4 DEF Seen
    <2>2. (read.at <= Len(log))'
      BY <1>1, <1>2, <1>3
    <2> QED
      BY <1>1, <1>2, <2>1, <2>2 DEF FollowInv, PreviousIsOfTheLog
  <1>7. Follow!LogIsNotRepeated'
    BY <1>2, <1>4 DEF FollowInv, Follow!LogIsNotRepeated
  <1> QED
    BY <1>5, <1>6, <1>7

-----------------------------------------------------------------------------
(* Events. *)

Increasing(s) == \A i, j \in DOMAIN s : i < j => s[i] < s[j]

\* Places can be put in order.
LEMMA PlacesHaveAnOrder ==
  ASSUME NEW N \in Nat, NEW S \in SUBSET (1..N)
  PROVE  \E s \in [1..Cardinality(S) -> S] : Increasing(s)
  <1> DEFINE Ordered(T) == \E s \in [1..Cardinality(T) -> T] : Increasing(s)
             Bad == {n \in Nat : \E T \in SUBSET (1..n) : ~Ordered(T)}
  <1> SUFFICES ASSUME Bad # {} PROVE FALSE
    BY Zenon
  <1>1. PICK n \in Bad : \A m \in Bad : n <= m
    BY LeastNumber
  <1>2. PICK T \in SUBSET (1..n) : ~Ordered(T)
    BY <1>1
  <1>3. n \in Nat /\ IsFiniteSet(T) /\ Cardinality(T) \in Nat
    <2>1. n \in Nat
      BY <1>1
    <2>2. IsFiniteSet(1..n)
      BY <2>1, FS_Interval
    <2> QED
      BY <2>1, <2>2, FS_Subset, FS_CardinalityType
  <1>4. CASE n \notin T
    <2>1. n # 0 => T \subseteq 1..(n - 1) /\ n - 1 \in Nat
      BY <1>3, <1>4
    <2>2. n # 0 => n - 1 \in Bad /\ ~(n <= n - 1)
      BY <1>2, <1>3, <2>1
    <2>3. n = 0
      <3> HIDE DEF Bad
      <3> QED BY <1>1, <2>2
    <2>4. T = {} /\ Cardinality(T) = 0
      <3>1. T = {}
        BY <2>3
      <3> QED
        BY <3>1, FS_EmptySet
    <2>5. [i \in {} |-> i] \in [1..Cardinality(T) -> T] /\ Increasing([i \in {} |-> i])
      BY <2>4 DEF Increasing
    <2> QED
      BY <1>2, <2>5
  <1>5. CASE n \in T
    <2> DEFINE U == T \ {n}
               c == Cardinality(U)
    <2>1. n # 0 /\ U \subseteq 1..(n - 1) /\ n - 1 \in Nat
      BY <1>3, <1>5
    <2>2. ~(n <= n - 1)
      BY <1>3
    <2>3. n - 1 \notin Bad
      <3> HIDE DEF Bad
      <3> QED BY <1>1, <2>2
    <2>4. Ordered(U)
      BY <2>1, <2>3
    <2>5. PICK u \in [1..c -> U] : Increasing(u)
      BY <2>4
    <2>6. Cardinality(T) = c + 1 /\ c \in Nat
      <3>1. IsFiniteSet(U) /\ c = Cardinality(T) - 1
        BY <1>3, <1>5, FS_RemoveElement
      <3>2. c \in Nat
        BY <3>1, FS_CardinalityType
      <3> HIDE DEF c
      <3> QED
        BY <1>3, <3>1, <3>2
    <2> HIDE DEF c
    <2> DEFINE s == [i \in 1..(c + 1) |-> IF i <= c THEN u[i] ELSE n]
    <2>7. s \in [1..Cardinality(T) -> T]
      BY <1>5, <2>5, <2>6
    <2>8. Increasing(s)
      <3> SUFFICES ASSUME NEW i \in 1..(c + 1), NEW j \in 1..(c + 1), i < j PROVE s[i] < s[j]
        BY DEF Increasing
      <3>1. i \in 1..c /\ s[i] = u[i] /\ u[i] \in U /\ u[i] \in 1..(n - 1)
        <4>1. i \in 1..c
          BY <2>6
        <4>2. u[i] \in U /\ s[i] = u[i]
          BY <2>5, <2>6, <4>1
        <4> QED
          BY <2>1, <4>1, <4>2
      <3>2. CASE j <= c
        BY <2>5, <2>6, <3>1, <3>2 DEF Increasing
      <3>3. CASE j > c
        BY <1>3, <2>6, <3>1, <3>3
      <3> QED
        BY <2>6, <3>2, <3>3
    <2> HIDE DEF s
    <2> QED
      BY <1>2, <2>7, <2>8
  <1> QED
    BY <1>4, <1>5

\* and are all in that order.
LEMMA OrderHasAll ==
  ASSUME NEW N \in Nat, NEW S \in SUBSET (1..N), NEW s \in [1..Cardinality(S) -> S], Increasing(s)
  PROVE  /\ \A i, j \in 1..Cardinality(S) : i # j => s[i] # s[j]
         /\ \A x \in S : \E i \in 1..Cardinality(S) : s[i] = x
  <1> DEFINE c == Cardinality(S)
  <1>1. IsFiniteSet(S) /\ c \in Nat
    <2>1. IsFiniteSet(1..N)
      BY FS_Interval
    <2> QED
      BY <2>1, FS_Subset, FS_CardinalityType
  <1>2. \A i, j \in 1..c : i # j => s[i] # s[j]
    <2> SUFFICES ASSUME NEW i \in 1..c, NEW j \in 1..c, i # j PROVE s[i] # s[j]
      OBVIOUS
    <2>1. s[i] \in 1..N /\ s[j] \in 1..N
      OBVIOUS
    <2>2. i < j \/ j < i
      <3>1. i \in Int /\ j \in Int
        BY <1>1
      <3> QED
        BY <3>1
    <2> QED
      BY <2>1, <2>2 DEF Increasing
  <1>3. s \in Injection(1..c, S)
    BY <1>2 DEF Injection, IsInjective
  <1>4. Cardinality(1..c) = c
    BY <1>1, FS_Interval
  <1>5. s \in Surjection(1..c, S)
    BY <1>1, <1>3, <1>4, FS_Injection
  <1> QED
    BY <1>2, <1>5 DEF Surjection

\* What an insertion makes of a sequence.
LEMMA InsertedIsThere ==
  ASSUME NEW S, NEW s \in Seq(S), NEW e \in S, NEW p \in 1..(Len(s) + 1)
  PROVE  /\ Follow!InsertAt(s, p, e) \in Seq(S) /\ Len(Follow!InsertAt(s, p, e)) = Len(s) + 1
         /\ \A i \in 1..(Len(s) + 1) :
               Follow!InsertAt(s, p, e)[i] =
                  IF i < p THEN s[i] ELSE IF i = p THEN e ELSE s[i - 1]
  <1> DEFINE a == SubSeq(s, 1, p - 1)
             z == SubSeq(s, p, Len(s))
             b == a \o <<e>>
  <1>1. Len(s) \in Nat /\ p \in Nat /\ p >= 1 /\ p <= Len(s) + 1
    BY LenProperties
  <1>2. \A i \in 1..Len(s) : s[i] \in S
    BY ElementOfSeq
  <1>3. a \in Seq(S) /\ Len(a) = p - 1 /\ \A i \in 1..(p - 1) : a[i] = s[i]
    <2>1. \A i \in 1..(p - 1) : s[i] \in S
      BY <1>1, <1>2
    <2>2. p - 1 \in Int
      BY <1>1
    <2>3. /\ a \in Seq(S) /\ Len(a) = (IF 1 <= p - 1 THEN p - 1 - 1 + 1 ELSE 0)
          /\ \A i \in 1..(p - 1 - 1 + 1) : a[i] = s[1 + i - 1]
      BY <2>1, <2>2, SubSeqProperties
    <2> QED
      BY <1>1, <2>3
  <1>4. z \in Seq(S) /\ Len(z) = Len(s) - p + 1 /\ \A i \in 1..(Len(s) - p + 1) : z[i] = s[p + i - 1]
    <2>1. \A i \in p..Len(s) : s[i] \in S
      BY <1>1, <1>2
    <2>2. p \in Int /\ Len(s) \in Int
      BY <1>1
    <2>3. /\ z \in Seq(S) /\ Len(z) = (IF p <= Len(s) THEN Len(s) - p + 1 ELSE 0)
          /\ \A i \in 1..(Len(s) - p + 1) : z[i] = s[p + i - 1]
      BY <2>1, <2>2, SubSeqProperties
    <2> QED
      BY <1>1, <2>3
  <1> HIDE DEF a, z
  <1>5. <<e>> \in Seq(S) /\ Len(<<e>>) = 1 /\ <<e>>[1] = e
    OBVIOUS
  <1>6. /\ b \in Seq(S) /\ Len(b) = p
        /\ \A i \in 1..p : b[i] = IF i <= p - 1 THEN s[i] ELSE e
    <2>1. /\ b \in Seq(S) /\ Len(b) = Len(a) + Len(<<e>>)
          /\ \A i \in 1..(Len(a) + Len(<<e>>)) :
                b[i] = IF i <= Len(a) THEN a[i] ELSE <<e>>[i - Len(a)]
      BY <1>3, <1>5, ConcatProperties
    <2> QED
      BY <1>1, <1>3, <1>5, <2>1
  <1> HIDE DEF b
  <1>7. /\ b \o z \in Seq(S) /\ Len(b \o z) = Len(b) + Len(z)
        /\ \A i \in 1..(Len(b) + Len(z)) : (b \o z)[i] = IF i <= Len(b) THEN b[i] ELSE z[i - Len(b)]
    BY <1>4, <1>6, ConcatProperties
  <1>8. Len(b) + Len(z) = Len(s) + 1
    BY <1>1, <1>4, <1>6
  <1>9. ASSUME NEW i \in 1..(Len(s) + 1)
        PROVE  (b \o z)[i] = IF i < p THEN s[i] ELSE IF i = p THEN e ELSE s[i - 1]
    <2>1. CASE i <= p
      <3>1. (b \o z)[i] = b[i] /\ i \in 1..p
        BY <1>1, <1>6, <1>7, <1>8, <1>9, <2>1
      <3> QED
        BY <1>1, <1>6, <2>1, <3>1
    <2>2. CASE i > p
      <3>1. (b \o z)[i] = z[i - p] /\ i - p \in 1..(Len(s) - p + 1)
        BY <1>1, <1>6, <1>7, <1>8, <1>9, <2>2
      <3>2. p + (i - p) - 1 = i - 1
        BY <1>1, <1>9
      <3> QED
        BY <1>1, <1>4, <2>2, <3>1, <3>2
    <2>3. i <= p \/ i > p
      BY <1>1
    <2> QED
      BY <2>1, <2>2, <2>3
  <1>10. Follow!InsertAt(s, p, e) = b \o z
    BY FollowInsertAt DEF b, a, z
  <1> QED
    BY <1>7, <1>8, <1>9, <1>10

\* The next number of a source is above all it has.
LEMMA NextSeqIsNext ==
  ASSUME FollowTypes, NumbersAreOwn, NEW source \in Trials \cup {Follow!Cloud}
  PROVE  /\ Follow!NextSeq(source) \in Nat /\ Follow!NextSeq(source) <= Len(rows) + 1
         /\ \A i \in Follow!Of(source) : rows[i].seq < Follow!NextSeq(source)
         /\ source = Follow!Cloud => Follow!NextSeq(source) >= 1
  <1> DEFINE first == IF source = Follow!Cloud THEN 1 ELSE 0
             S == {first} \cup {rows[i].seq + 1 : i \in Follow!Of(source)}
  <1>1. Len(rows) \in Nat /\ DOMAIN rows = 1..Len(rows) /\ \A i \in DOMAIN rows : rows[i] \in EventsOf
    <2>1. rows \in Seq(EventsOf)
      BY DEF FollowTypes
    <2> QED
      BY <2>1, LenProperties, ElementOfSeq
  <1>2. \A i \in Follow!Of(source) : i \in DOMAIN rows /\ rows[i].seq \in Nat
    BY <1>1 DEF Follow!Of, EventsOf
  <1>3. \A i \in Follow!Of(source) : rows[i].seq <= Len(rows)
    BY <1>2 DEF NumbersAreOwn
  <1>4. S \in SUBSET Nat /\ S # {}
    BY <1>2
  <1>5. \A x \in S : x <= Len(rows) + 1
    BY <1>1, <1>2, <1>3
  <1>6. first \in S /\ \A i \in Follow!Of(source) : rows[i].seq + 1 \in S
    OBVIOUS
  <1>7. Follow!NextSeq(source) = Follow!Max(S)
    BY DEF Follow!NextSeq
  <1>8. Len(rows) + 1 \in Nat
    BY <1>1
  <1>9. source = Follow!Cloud => first = 1
    OBVIOUS
  <1> HIDE DEF S, first
  <1>10. Follow!Max(S) \in S /\ \A y \in S : y <= Follow!Max(S)
    BY <1>4, <1>5, <1>8, MaxOf
  <1>11. Follow!Max(S) \in Nat /\ Follow!Max(S) <= Len(rows) + 1
    BY <1>4, <1>5, <1>10
  <1>12. \A i \in Follow!Of(source) : rows[i].seq < Follow!Max(S)
    <2> SUFFICES ASSUME NEW i \in Follow!Of(source) PROVE rows[i].seq < Follow!Max(S)
      OBVIOUS
    <2>1. rows[i].seq + 1 <= Follow!Max(S) /\ rows[i].seq \in Nat
      BY <1>2, <1>6, <1>10
    <2> QED
      BY <1>11, <2>1
  <1>13. source = Follow!Cloud => Follow!Max(S) >= 1
    BY <1>6, <1>9, <1>10, <1>11
  <1> QED
    BY <1>7, <1>11, <1>12, <1>13

\* An event that happens has a number that no other has, after the cursor of the control plane.
LEMMA EventKeepsNumbers ==
  ASSUME FollowInv, NEW source \in Trials \cup {Follow!Cloud}, NEW place,
         Follow!EventHappens(source, place)
  PROVE  FollowTypes' /\ NumbersAreOwn' /\ Follow!EventsAreShownOnce'
  <1> DEFINE n == Len(rows)
             e == [source |-> source, seq |-> Follow!NextSeq(source)]
             old(i) == IF i < place THEN i ELSE i - 1
             now(i) == IF i < place THEN i ELSE i + 1
  <1>1. FollowTypes /\ NumbersAreOwn /\ Follow!EventsAreShownOnce /\ rows \in Seq(EventsOf)
    BY DEF FollowInv, FollowTypes
  <1>2. n \in Nat /\ DOMAIN rows = 1..n /\ \A i \in 1..n : rows[i] \in EventsOf
    BY <1>1, LenProperties, ElementOfSeq
  <1>3. /\ cmd.name = "events" /\ rows' = Follow!InsertAt(rows, place, e)
        /\ UNCHANGED <<cmd, log, out, previous, read, cursor, shown, whole, inventory, known, view>>
        /\ place \in 1..(n + 1)
    <2>1. place \in {n + 1} \cup DOMAIN rows
      BY DEF Follow!EventHappens
    <2>2. place \in 1..(n + 1)
      BY <1>2, <2>1
    <2> QED
      BY <2>2 DEF Follow!EventHappens, Follow!logVars, Follow!watchVars
  <1>4. /\ e.seq \in Nat /\ e.seq <= n + 1 /\ e \in EventsOf
        /\ \A i \in Follow!Of(source) : rows[i].seq < e.seq
        /\ source = Follow!Cloud => e.seq >= 1
    BY <1>1, NextSeqIsNext DEF EventsOf
  <1>5. e.source = source
    OBVIOUS
  <1> HIDE DEF e
  <1>6. /\ rows' \in Seq(EventsOf) /\ Len(rows') = n + 1
        /\ \A i \in 1..(n + 1) : rows'[i] = IF i < place THEN rows[i] ELSE IF i = place THEN e ELSE rows[i - 1]
    BY <1>1, <1>3, <1>4, InsertedIsThere
  <1>7. DOMAIN rows' = 1..(n + 1)
    BY <1>6, LenProperties
  <1>8. \A i \in 1..(n + 1) : i # place => old(i) \in 1..n /\ rows'[i] = rows[old(i)]
    BY <1>2, <1>3, <1>6
  <1>9. rows'[place] = e
    BY <1>3, <1>6
  <1>10. \A i \in 1..n : now(i) \in 1..(n + 1) /\ now(i) # place /\ rows'[now(i)] = rows[i]
    <2> SUFFICES ASSUME NEW i \in 1..n
                 PROVE  now(i) \in 1..(n + 1) /\ now(i) # place /\ rows'[now(i)] = rows[i]
      OBVIOUS
    <2>1. now(i) \in 1..(n + 1) /\ now(i) # place /\ old(now(i)) = i
      BY <1>2, <1>3
    <2> QED
      BY <1>8, <2>1
  <1>11. \A i \in 1..n : rows[i] # e
    BY <1>2, <1>4, <1>5 DEF Follow!Of, EventsOf
  <1>12. \A i, j \in 1..(n + 1) : i # place /\ j # place /\ i # j => old(i) # old(j)
    BY <1>2, <1>3
  <1> HIDE DEF old, now
  <1>13. \A i, j \in DOMAIN rows' : i # j => rows'[i] # rows'[j]
    BY <1>1, <1>2, <1>7, <1>8, <1>9, <1>11, <1>12 DEF NumbersAreOwn
  <1>14. \A i \in DOMAIN rows' : rows'[i].seq <= Len(rows')
    <2> SUFFICES ASSUME NEW i \in 1..(n + 1) PROVE rows'[i].seq <= n + 1
      BY <1>6, <1>7
    <2>1. CASE i = place
      BY <1>4, <1>9, <2>1
    <2>2. CASE i # place
      <3>1. old(i) \in DOMAIN rows /\ rows'[i] = rows[old(i)] /\ rows[old(i)].seq \in Nat
        BY <1>2, <1>8, <2>2 DEF EventsOf
      <3>2. rows[old(i)].seq <= n
        BY <1>1, <3>1 DEF NumbersAreOwn
      <3> QED
        BY <1>2, <3>1, <3>2
    <2> QED
      BY <2>1, <2>2
  <1>15. Follow!Of(Follow!Cloud)' = {i \in 1..(n + 1) : rows'[i].source = Follow!Cloud}
    BY <1>7 DEF Follow!Of, Follow!Cloud
  <1>16. Follow!Of(Follow!Cloud) = {i \in 1..n : rows[i].source = Follow!Cloud}
    BY <1>2 DEF Follow!Of
  <1>17. \A i \in Follow!Of(Follow!Cloud)' : rows'[i].seq >= 1
    BY <1>1, <1>4, <1>5, <1>8, <1>9, <1>15, <1>16 DEF NumbersAreOwn
  <1>18. ASSUME cmd.source = "cloud", source = Follow!Cloud PROVE e.seq > cursor
    <2>1. cursor \in Int
      BY <1>1 DEF FollowTypes
    <2>2. CASE cursor > 0
      <3>1. PICK i \in Follow!Of(Follow!Cloud) : rows[i].seq = cursor
        BY <1>1, <1>3, <1>18, <2>2 DEF NumbersAreOwn
      <3> QED
        BY <1>4, <1>18, <2>1, <3>1
    <2>3. CASE ~(cursor > 0)
      BY <1>4, <1>18, <2>1, <2>3
    <2> QED
      BY <2>2, <2>3
  <1>19. (cmd.name = "events" /\ cmd.source = "cloud" /\ cursor > 0 =>
            \E i \in Follow!Of(Follow!Cloud) : rows[i].seq = cursor)'
    <2> SUFFICES ASSUME cmd.source = "cloud", cursor > 0
                 PROVE  \E i \in Follow!Of(Follow!Cloud)' : rows'[i].seq = cursor
      BY <1>3
    <2>1. PICK i \in Follow!Of(Follow!Cloud) : rows[i].seq = cursor
      BY <1>1, <1>3 DEF NumbersAreOwn
    <2>2. now(i) \in Follow!Of(Follow!Cloud)' /\ rows'[now(i)].seq = cursor
      BY <1>10, <1>15, <1>16, <2>1
    <2> QED
      BY <2>2
  <1>20. NumbersAreOwn'
    BY <1>1, <1>3, <1>13, <1>14, <1>17, <1>19 DEF NumbersAreOwn
  <1>21. ASSUME cmd.source = "cloud"
         PROVE  {rows'[i].seq : i \in {j \in Follow!Of(Follow!Cloud)' : rows'[j].seq <= cursor}}
                  = {rows[i].seq : i \in {j \in Follow!Of(Follow!Cloud) : rows[j].seq <= cursor}}
    <2> DEFINE A == {rows'[i].seq : i \in {j \in Follow!Of(Follow!Cloud)' : rows'[j].seq <= cursor}}
               B == {rows[i].seq : i \in {j \in Follow!Of(Follow!Cloud) : rows[j].seq <= cursor}}
    <2>1. ASSUME NEW x \in A PROVE x \in B
      <3>1. PICK i \in Follow!Of(Follow!Cloud)' : rows'[i].seq <= cursor /\ x = rows'[i].seq
        BY <2>1
      <3>2. i # place
        <4>1. cursor \in Int
          BY <1>1 DEF FollowTypes
        <4>2. i = place => source = Follow!Cloud /\ rows'[i] = e
          BY <1>5, <1>9, <1>15, <3>1
        <4> QED
          BY <1>4, <1>18, <1>21, <3>1, <4>1, <4>2
      <3>3. old(i) \in Follow!Of(Follow!Cloud) /\ rows[old(i)].seq = x /\ rows[old(i)].seq <= cursor
        BY <1>8, <1>15, <1>16, <3>1, <3>2
      <3> QED
        BY <3>3
    <2>2. ASSUME NEW x \in B PROVE x \in A
      <3>1. PICK i \in Follow!Of(Follow!Cloud) : rows[i].seq <= cursor /\ x = rows[i].seq
        BY <2>2
      <3>2. now(i) \in Follow!Of(Follow!Cloud)' /\ rows'[now(i)].seq = x /\ rows'[now(i)].seq <= cursor
        BY <1>10, <1>15, <1>16, <3>1
      <3> QED
        BY <3>2
    <2> QED
      BY <2>1, <2>2
  <1>22. Follow!EventsAreShownOnce'
    BY <1>1, <1>3, <1>21 DEF Follow!EventsAreShownOnce
  <1>23. FollowTypes'
    BY <1>1, <1>3, <1>6 DEF FollowTypes
  <1> QED
    BY <1>20, <1>22, <1>23

\* A page: rows after the cursor, each once; all of them when it is not full.
LEMMA PageIsNew ==
  ASSUME FollowTypes, NumbersAreOwn, cmd.name = "events"
  PROVE  /\ Follow!Page \in Seq(EventsOf)
         /\ \A i \in DOMAIN Follow!Page :
               \E x \in Follow!Matching : Follow!Page[i] = rows[x]
         /\ \A i, j \in DOMAIN Follow!Page : i # j => Follow!Page[i] # Follow!Page[j]
         /\ Follow!Matching \subseteq DOMAIN rows
         /\ \A x \in Follow!Matching : rows[x] \in EventsOf /\ rows[x].seq > cursor
         /\ Follow!Cardinality(Follow!Matching) <= cmd.limit =>
               \A x \in Follow!Matching : \E i \in DOMAIN Follow!Page : Follow!Page[i] = rows[x]
  <1> DEFINE M == Follow!Matching
             c == Cardinality(M)
             m == Follow!InOrder(M)
             P == Follow!Page
             D == {k \in 1..c : k <= cmd.limit}
  <1>1. rows \in Seq(EventsOf) /\ cmd.limit \in Nat /\ cursor \in Int
    BY FollowAssumption DEF FollowTypes, Follow!Commands
  <1>2. Len(rows) \in Nat /\ DOMAIN rows = 1..Len(rows) /\ \A i \in 1..Len(rows) : rows[i] \in EventsOf
    BY <1>1, LenProperties, ElementOfSeq
  <1>3. M \subseteq DOMAIN rows /\ \A x \in M : rows[x].seq > cursor
    BY DEF Follow!Matching, Follow!CloudRows, Follow!TrialRows, Follow!Of
  <1>4. M \in SUBSET (1..Len(rows)) /\ \A x \in M : rows[x] \in EventsOf
    BY <1>2, <1>3
  <1>5. m = CHOOSE s \in [1..c -> M] : Increasing(s)
    BY FollowCardinality DEF Follow!InOrder, Increasing
  <1>6. P = [i \in D |-> rows[m[i]]]
    BY FollowCardinality DEF Follow!Page
  <1>7. Follow!Cardinality(M) = c
    BY FollowCardinality
  <1>8. c \in Nat
    <2>1. IsFiniteSet(1..Len(rows))
      BY <1>2, FS_Interval
    <2> QED
      BY <1>4, <2>1, FS_Subset, FS_CardinalityType
  <1> HIDE DEF M, P, m
  <1>9. m \in [1..c -> M] /\ Increasing(m)
    <2>1. \E s \in [1..c -> M] : Increasing(s)
      BY <1>2, <1>4, PlacesHaveAnOrder
    <2> QED
      BY <1>5, <2>1
  <1>10. /\ \A i, j \in 1..c : i # j => m[i] # m[j]
         /\ \A x \in M : \E i \in 1..c : m[i] = x
    BY <1>2, <1>4, <1>9, OrderHasAll
  <1> HIDE DEF c
  <1>11. DOMAIN P = D /\ \A i \in D : P[i] = rows[m[i]] /\ m[i] \in M
    BY <1>6, <1>9
  <1>12. P \in Seq(EventsOf)
    <2> DEFINE h == IF c <= cmd.limit THEN c ELSE cmd.limit
    <2>1. D = 1..h /\ h \in Nat
      BY <1>1, <1>8
    <2>2. P \in [1..h -> EventsOf]
      BY <1>4, <1>6, <1>11, <2>1
    <2> QED
      BY <2>1, <2>2, SeqDef
  <1>13. \A i, j \in D : i # j => P[i] # P[j]
    BY <1>3, <1>10, <1>11 DEF NumbersAreOwn
  <1>14. c <= cmd.limit => \A x \in M : \E i \in D : P[i] = rows[x]
    <2> SUFFICES ASSUME c <= cmd.limit, NEW x \in M PROVE \E i \in D : P[i] = rows[x]
      OBVIOUS
    <2>1. PICK i \in 1..c : m[i] = x
      BY <1>10
    <2>2. i \in D
      BY <1>1, <1>8, <2>1
    <2> QED
      BY <1>11, <2>1, <2>2
  <1> QED
    BY <1>3, <1>4, <1>7, <1>11, <1>12, <1>13, <1>14 DEF M, P

\* The cursor a page leaves is after all of it and is the old one, the beginning, or of the page.
LEMMA CursorIsOfThePage ==
  ASSUME FollowTypes, NumbersAreOwn, cmd.name = "events"
  PROVE  /\ Follow!NextCursor(Follow!Page) \in Nat /\ cursor <= Follow!NextCursor(Follow!Page)
         /\ \A i \in DOMAIN Follow!Page : Follow!Page[i].seq <= Follow!NextCursor(Follow!Page)
         /\ \/ Follow!NextCursor(Follow!Page) \in {0, cursor}
            \/ \E i \in DOMAIN Follow!Page : Follow!Page[i].seq = Follow!NextCursor(Follow!Page)
  <1> DEFINE P == Follow!Page
             old == IF cursor = -1 THEN 0 ELSE cursor
             S == {old} \cup {P[i].seq : i \in DOMAIN P}
  <1>1. cursor \in Int /\ cursor >= -1
    BY DEF FollowTypes
  <1>2. old \in Nat /\ old \in {0, cursor} /\ cursor <= old
    BY <1>1
  <1>3. Len(rows) \in Nat /\ DOMAIN rows = 1..Len(rows)
    BY LenProperties DEF FollowTypes
  <1>4. \A i \in DOMAIN P : P[i].seq \in Nat /\ P[i].seq <= Len(rows)
    <2> SUFFICES ASSUME NEW i \in DOMAIN P PROVE P[i].seq \in Nat /\ P[i].seq <= Len(rows)
      OBVIOUS
    <2>1. PICK x \in Follow!Matching : P[i] = rows[x]
      BY PageIsNew
    <2>2. x \in DOMAIN rows /\ rows[x] \in EventsOf
      BY PageIsNew
    <2> QED
      BY <2>1, <2>2 DEF NumbersAreOwn, EventsOf
  <1>5. Follow!NextCursor(P) = Follow!Max(S)
    BY DEF Follow!NextCursor
  <1> HIDE DEF P, old
  <1>6. S \in SUBSET Nat /\ S # {} /\ old \in S /\ \A i \in DOMAIN P : P[i].seq \in S
    BY <1>2, <1>4
  <1>7. old + Len(rows) \in Nat /\ \A x \in S : x <= old + Len(rows)
    BY <1>2, <1>3, <1>4
  <1>8. \A x \in S : x = old \/ \E i \in DOMAIN P : P[i].seq = x
    OBVIOUS
  <1> HIDE DEF S
  <1>9. Follow!Max(S) \in S /\ \A y \in S : y <= Follow!Max(S)
    BY <1>6, <1>7, MaxOf
  <1>10. Follow!Max(S) \in Nat
    BY <1>6, <1>9
  <1>11. cursor <= Follow!Max(S)
    BY <1>1, <1>2, <1>6, <1>9, <1>10
  <1> QED
    BY <1>2, <1>5, <1>6, <1>8, <1>9, <1>10, <1>11 DEF P

\* What is printed of a page is its first events, and all of one that is not too long.
LEMMA PrintedIsAStart ==
  ASSUME NEW P \in Seq(EventsOf)
  PROVE  /\ Follow!Printed(P) \in Seq(EventsOf)
         /\ \A i \in DOMAIN Follow!Printed(P) : i \in DOMAIN P /\ Follow!Printed(P)[i] = P[i]
         /\ Len(P) <= EventLines => DOMAIN Follow!Printed(P) = DOMAIN P
  <1> DEFINE S == {EventLines, Len(P)}
             m == Follow!Min(S)
             Q == SubSeq(P, 1, m)
  <1>1. Len(P) \in Nat /\ DOMAIN P = 1..Len(P) /\ \A i \in 1..Len(P) : P[i] \in EventsOf
    BY LenProperties, ElementOfSeq
  <1>2. S \in SUBSET Nat /\ S # {} /\ Len(P) \in S
    BY <1>1, FollowAssumption
  <1>3. m \in S /\ \A y \in S : m <= y
    BY <1>2, MinOf
  <1>4. m \in Nat /\ m <= Len(P) /\ (Len(P) <= EventLines => m = Len(P))
    BY <1>1, <1>2, <1>3, FollowAssumption
  <1> HIDE DEF m
  <1>5. \A i \in 1..m : i \in 1..Len(P) /\ P[i] \in EventsOf
    <2>1. ASSUME NEW i \in 1..m PROVE i \in 1..Len(P)
      <3>1. Len(P) \in Nat /\ m \in Nat /\ m <= Len(P)
        BY <1>1, <1>4
      <3> QED
        BY <3>1
    <2> QED
      BY <1>1, <2>1
  <1>6. /\ Q \in Seq(EventsOf) /\ Len(Q) = IF 1 <= m THEN m - 1 + 1 ELSE 0
        /\ \A i \in 1..(m - 1 + 1) : Q[i] = P[1 + i - 1]
    BY <1>4, <1>5, SubSeqProperties
  <1>7. Len(Q) = m /\ DOMAIN Q = 1..m /\ \A i \in 1..m : Q[i] = P[i]
    BY <1>4, <1>6, LenProperties
  <1>8. Follow!Printed(P) = Q
    BY DEF Follow!Printed, m
  <1> QED
    BY <1>1, <1>4, <1>5, <1>6, <1>7, <1>8

LEMMA PollEventsKeepsNumbers ==
  ASSUME FollowInv, Follow!PollEvents
  PROVE  FollowTypes' /\ NumbersAreOwn' /\ Follow!EventsAreShownOnce'
  <1> DEFINE P == Follow!Page
             Q == Follow!Printed(P)
             M == Follow!Matching
             C == Follow!Of(Follow!Cloud)
             n == Len(shown)
  <1>1. /\ FollowTypes /\ NumbersAreOwn /\ Follow!EventsAreShownOnce /\ cmd.name = "events"
        /\ cursor \in Int /\ shown \in Seq(EventsOf)
    BY DEF FollowInv, FollowTypes, Follow!PollEvents
  <1>2. /\ shown' = shown \o Q /\ cursor' = Follow!NextCursor(P)
        /\ whole' = (whole /\ Follow!Cardinality(M) <= cmd.limit /\ Len(P) <= EventLines)
        /\ UNCHANGED <<cmd, rows, log, out, previous, read, inventory, known, version, view, missed>>
    BY DEF Follow!PollEvents, Follow!logVars, Follow!watchVars
  <1>3. /\ P \in Seq(EventsOf)
        /\ \A i \in DOMAIN P : \E x \in M : P[i] = rows[x]
        /\ \A i, j \in DOMAIN P : i # j => P[i] # P[j]
        /\ M \subseteq DOMAIN rows
        /\ \A x \in M : rows[x] \in EventsOf /\ rows[x].seq > cursor
        /\ Follow!Cardinality(M) <= cmd.limit =>
               \A x \in M : \E i \in DOMAIN P : P[i] = rows[x]
    BY <1>1, PageIsNew
  <1>4. /\ cursor' \in Nat /\ cursor <= cursor'
        /\ \A i \in DOMAIN P : P[i].seq <= cursor'
        /\ cursor' \in {0, cursor} \/ \E i \in DOMAIN P : P[i].seq = cursor'
    BY <1>1, <1>2, CursorIsOfThePage
  <1>5. cmd.source = "cloud" => M = {i \in C : rows[i].seq > cursor}
    BY DEF Follow!Matching, Follow!CloudRows
  <1>20. /\ Q \in Seq(EventsOf) /\ \A i \in DOMAIN Q : i \in DOMAIN P /\ Q[i] = P[i]
         /\ Len(P) <= EventLines => DOMAIN Q = DOMAIN P
    BY <1>3, PrintedIsAStart
  <1> HIDE DEF P, M, Q
  <1>21. /\ \A i \in DOMAIN Q : \E x \in M : Q[i] = rows[x]
         /\ \A i, j \in DOMAIN Q : i # j => Q[i] # Q[j]
         /\ \A i \in DOMAIN Q : Q[i].seq <= cursor'
         /\ Follow!Cardinality(M) <= cmd.limit /\ Len(P) <= EventLines =>
               \A x \in M : \E i \in DOMAIN Q : Q[i] = rows[x]
    BY <1>3, <1>4, <1>20
  <1>6. /\ n \in Nat /\ Len(Q) \in Nat /\ DOMAIN shown = 1..n /\ DOMAIN Q = 1..Len(Q)
        /\ \A i \in 1..n : shown[i] \in EventsOf
        /\ \A i \in 1..Len(Q) : Q[i] \in EventsOf
    BY <1>1, <1>20, LenProperties, ElementOfSeq
  <1>7. /\ shown' \in Seq(EventsOf) /\ Len(shown') = n + Len(Q)
        /\ \A i \in 1..(n + Len(Q)) : shown'[i] = IF i <= n THEN shown[i] ELSE Q[i - n]
    BY <1>1, <1>2, <1>20, ConcatProperties
  <1>8. DOMAIN shown' = 1..(n + Len(Q))
    BY <1>7, LenProperties
  <1>9. \A i \in DOMAIN shown' :
           \/ i \in DOMAIN shown /\ shown'[i] = shown[i]
           \/ i \notin DOMAIN shown /\ i - n \in DOMAIN Q /\ shown'[i] = Q[i - n]
    BY <1>6, <1>7, <1>8
  <1>10. /\ \A i \in DOMAIN shown : i \in DOMAIN shown' /\ shown'[i] = shown[i]
         /\ \A i \in DOMAIN Q : i + n \in DOMAIN shown' /\ shown'[i + n] = Q[i]
    <2>1. \A i \in 1..n : i \in 1..(n + Len(Q)) /\ i <= n
      BY <1>6
    <2>2. \A i \in 1..Len(Q) : i + n \in 1..(n + Len(Q)) /\ ~(i + n <= n) /\ i + n - n = i
      BY <1>6
    <2> QED
      BY <1>6, <1>7, <1>8, <2>1, <2>2
  <1>11. /\ \A i \in DOMAIN shown : shown[i].seq <= cursor /\ shown[i].seq \in Int
         /\ \A i \in DOMAIN Q : Q[i].seq > cursor /\ Q[i].seq \in Int
    BY <1>1, <1>3, <1>6, <1>21 DEF NumbersAreOwn, EventsOf
  <1>12. \A i, j \in DOMAIN shown' : i # j => shown'[i] # shown'[j]
    <2> SUFFICES ASSUME NEW i \in DOMAIN shown', NEW j \in DOMAIN shown', i # j
                 PROVE  shown'[i] # shown'[j]
      OBVIOUS
    <2>1. CASE i \in DOMAIN shown /\ j \in DOMAIN shown
      BY <1>1, <1>9, <2>1 DEF Follow!EventsAreShownOnce
    <2>2. CASE i \notin DOMAIN shown /\ j \notin DOMAIN shown
      <3>1. i - n \in DOMAIN Q /\ j - n \in DOMAIN Q /\ shown'[i] = Q[i - n] /\ shown'[j] = Q[j - n]
        BY <1>9, <2>2
      <3>2. i \in Int /\ j \in Int /\ n \in Int
        BY <1>6, <1>8
      <3>3. i - n # j - n
        BY <3>2
      <3> QED
        BY <1>21, <3>1, <3>3
    <2>3. CASE i \in DOMAIN shown /\ j \notin DOMAIN shown
      <3>1. shown'[i].seq <= cursor /\ shown'[j].seq > cursor /\ shown'[i].seq \in Int
        BY <1>9, <1>11, <2>3
      <3> QED
        BY <1>1, <3>1
    <2>4. CASE i \notin DOMAIN shown /\ j \in DOMAIN shown
      <3>1. shown'[j].seq <= cursor /\ shown'[i].seq > cursor /\ shown'[j].seq \in Int
        BY <1>9, <1>11, <2>4
      <3> QED
        BY <1>1, <3>1
    <2> QED
      BY <2>1, <2>2, <2>3, <2>4
  <1>13. \A i \in DOMAIN shown' : shown'[i].seq <= cursor'
    <2> SUFFICES ASSUME NEW i \in DOMAIN shown' PROVE shown'[i].seq <= cursor'
      OBVIOUS
    <2>1. CASE i \in DOMAIN shown
      <3>1. shown'[i].seq <= cursor /\ shown'[i].seq \in Int
        BY <1>9, <1>11, <2>1
      <3> QED
        BY <1>1, <1>4, <3>1
    <2>2. CASE i \notin DOMAIN shown
      BY <1>9, <1>21, <2>2
    <2> QED
      BY <2>1, <2>2
  <1>14. C' = C
    BY <1>2 DEF Follow!Of, Follow!Cloud
  <1>15. ASSUME cmd.source = "cloud", cursor' > 0 PROVE \E i \in C : rows[i].seq = cursor'
    <2>1. CASE cursor' \in {0, cursor}
      <3>1. cursor' = cursor
        BY <1>15, <2>1
      <3> QED
        BY <1>1, <1>15, <3>1 DEF NumbersAreOwn
    <2>2. CASE \E i \in DOMAIN P : P[i].seq = cursor'
      BY <1>3, <1>5, <1>15, <2>2
    <2> QED
      BY <1>4, <2>1, <2>2
  <1>16. NumbersAreOwn'
    <2>1. (\A i \in C : rows[i].seq >= 1)'
      BY <1>1, <1>2, <1>14 DEF NumbersAreOwn
    <2>2. (cmd.name = "events" /\ cmd.source = "cloud" /\ cursor > 0 =>
             \E i \in C : rows[i].seq = cursor)'
      BY <1>2, <1>14, <1>15
    <2> QED
      BY <1>1, <1>2, <1>13, <2>1, <2>2 DEF NumbersAreOwn
  <1>17. ASSUME cmd.source = "cloud", whole'
         PROVE  {shown'[i].seq : i \in DOMAIN shown'}
                   = {rows[i].seq : i \in {j \in C : rows[j].seq <= cursor'}}
    <2> DEFINE A == {shown'[i].seq : i \in DOMAIN shown'}
               B == {rows[i].seq : i \in {j \in C : rows[j].seq <= cursor'}}
               A0 == {shown[i].seq : i \in DOMAIN shown}
               B0 == {rows[i].seq : i \in {j \in C : rows[j].seq <= cursor}}
    <2>1. A0 = B0 /\ \A x \in M : \E i \in DOMAIN Q : Q[i] = rows[x]
      BY <1>1, <1>2, <1>17, <1>21 DEF Follow!EventsAreShownOnce
    <2>2. \A i \in C : rows[i].seq \in Int
      <3>1. \A i \in DOMAIN rows : rows[i] \in EventsOf
        BY <1>1, LenProperties, ElementOfSeq DEF FollowTypes
      <3> QED
        BY <3>1 DEF Follow!Of, EventsOf
    <2>3. ASSUME NEW x \in A PROVE x \in B
      <3>1. PICK i \in DOMAIN shown' : x = shown'[i].seq
        BY <2>3
      <3>2. CASE i \in DOMAIN shown
        <4>1. x \in A0
          BY <1>9, <3>1, <3>2
        <4>2. PICK j \in C : rows[j].seq = x /\ x <= cursor
          BY <2>1, <4>1
        <4>3. x <= cursor'
          BY <1>1, <1>4, <2>2, <4>2
        <4> QED
          BY <4>2, <4>3
      <3>3. CASE i \notin DOMAIN shown
        <4>1. i - n \in DOMAIN Q /\ x = Q[i - n].seq
          BY <1>9, <3>1, <3>3
        <4>2. PICK j \in M : Q[i - n] = rows[j]
          BY <1>21, <4>1
        <4>3. j \in C /\ rows[j].seq = x /\ x <= cursor'
          BY <1>5, <1>17, <1>21, <4>1, <4>2
        <4> QED
          BY <4>3
      <3> QED
        BY <3>2, <3>3
    <2>4. ASSUME NEW x \in B PROVE x \in A
      <3>1. PICK j \in C : rows[j].seq = x
        BY <2>4
      <3>2. CASE x <= cursor
        <4>1. x \in B0
          BY <3>1, <3>2
        <4>2. PICK i \in DOMAIN shown : shown[i].seq = x
          BY <2>1, <4>1
        <4> QED
          BY <1>10, <4>2
      <3>3. CASE x > cursor
        <4>1. j \in M
          BY <1>5, <1>17, <3>1, <3>3
        <4>2. PICK i \in DOMAIN Q : Q[i] = rows[j]
          BY <2>1, <4>1
        <4>3. i + n \in DOMAIN shown' /\ shown'[i + n].seq = x
          BY <1>10, <3>1, <4>2
        <4> QED
          BY <4>3
      <3> QED
        BY <1>1, <2>2, <3>1, <3>2, <3>3
    <2> QED
      BY <2>3, <2>4
  <1>18. Follow!EventsAreShownOnce'
    BY <1>2, <1>12, <1>14, <1>17 DEF Follow!EventsAreShownOnce
  <1>19. FollowTypes'
    <2>1. whole' \in BOOLEAN /\ cursor' \in Int /\ cursor' >= -1
      BY <1>2, <1>4
    <2> QED
      BY <1>1, <1>2, <1>7, <2>1 DEF FollowTypes
  <1> QED
    BY <1>16, <1>18, <1>19

-----------------------------------------------------------------------------
(* Resources, and all of it. *)

\* The printed changes make of what was known what is there, but for what is missed.
LEMMA WatchKeepsView ==
  ASSUME FollowInv, Follow!PollWatch
  PROVE  FollowTypes' /\ ViewIsOfAVersion'
  <1>1. FollowTypes /\ ViewIsOfAVersion
    BY DEF FollowInv
  <1>2. PICK S \in SUBSET Follow!Changed :
          /\ view' = [r \in Resources |-> IF r \in S THEN Follow!Watched(r).version ELSE view[r]]
          /\ missed' = (missed \ S) \cup (Follow!Changed \ S) \cup Follow!Forgotten
    BY DEF Follow!PollWatch
  <1>3. /\ known' = inventory /\ version' = inventory
        /\ UNCHANGED <<cmd, log, out, previous, read, rows, cursor, shown, whole, inventory>>
    BY DEF Follow!PollWatch, Follow!logVars, Follow!eventVars
  <1>4. ASSUME NEW r \in Resources \ missed' PROVE view'[r] = inventory[r]
    <2>1. CASE r \in S
      BY <1>2, <2>1 DEF Follow!Watched
    <2>2. CASE r \notin S
      <3>1. /\ view'[r] = view[r] /\ r \notin Follow!Changed /\ r \notin Follow!Forgotten
            /\ r \in Resources \ missed
        BY <1>2, <1>4, <2>2
      <3>2. /\ Follow!Watched(r).type = "none"
            /\ version[r] # 0 /\ known[r] = 0 => inventory[r] # 0
        BY <3>1 DEF Follow!Changed, Follow!Forgotten
      <3>3. CASE Follow!UpToDate
        <4>1. version[r] = inventory[r] /\ known[r] = 0
          BY <3>3 DEF Follow!UpToDate, Follow!Absent
        <4> QED
          BY <1>1, <3>1, <4>1 DEF ViewIsOfAVersion
      <3>4. CASE ~Follow!UpToDate
        <4>1. known[r] = inventory[r]
          BY <3>2, <3>4 DEF Follow!Watched
        <4> QED
          BY <1>1, <3>1, <3>2, <4>1 DEF ViewIsOfAVersion
      <3> QED
        BY <3>3, <3>4
    <2> QED
      BY <2>1, <2>2
  <1>5. FollowTypes'
    BY <1>1, <1>3 DEF FollowTypes
  <1> QED
    BY <1>3, <1>4, <1>5 DEF ViewIsOfAVersion

\* The view that the version or what is known stands for.
LEMMA ViewIsCurrent == ViewIsOfAVersion => Follow!WatchIsCurrent
  BY DEF ViewIsOfAVersion, Follow!WatchIsCurrent

LEMMA FollowBegins == Follow!Init => FollowInv
  <1> SUFFICES ASSUME Follow!Init PROVE FollowInv
    OBVIOUS
  <1>1. /\ cmd \in Follow!Commands /\ log = <<>> /\ out = <<"old">> /\ previous = <<>>
        /\ read = [at |-> 0, before |-> 0, printed |-> 0]
        /\ rows = <<>> /\ cursor = -1 /\ shown = <<>> /\ whole = TRUE /\ inventory = Follow!Absent
        /\ view \in Follow!Inventories \cup {Follow!Absent}
        /\ \/ version = view /\ \E S \in SUBSET Resources : known = Follow!Only(view, S)
           \/ version = Follow!Absent /\ known = view
    BY DEF Follow!Init
  <1>2. Follow!Absent \in [Resources -> Versions] /\ Follow!Inventories \subseteq [Resources -> Versions]
    BY DEF Follow!Absent, Follow!Inventories, Versions
  <1>3. <<>> \in Seq(Follow!Bytes) /\ <<>> \in Seq(EventsOf) /\ Len(<<>>) = 0 /\ DOMAIN <<>> = {}
    BY EmptySeq
  <1>10. view \in [Resources -> Versions] /\ known \in [Resources -> Versions]
    BY <1>1, <1>2 DEF Follow!Only, Versions
  <1>11. ViewIsOfAVersion
    BY <1>1, <1>10 DEF ViewIsOfAVersion, Follow!Only, Follow!Absent
  <1>4. FollowTypes
    BY <1>1, <1>2, <1>3, <1>10 DEF FollowTypes
  <1>5. PreviousIsOfTheLog
    BY <1>1, <1>3 DEF PreviousIsOfTheLog
  <1>6. Follow!Of(Follow!Cloud) = {}
    BY <1>1, <1>3 DEF Follow!Of
  <1>7. NumbersAreOwn
    BY <1>1, <1>3, <1>6 DEF NumbersAreOwn
  <1>8. Follow!LogIsNotRepeated
    BY <1>1 DEF Follow!LogIsNotRepeated
  <1>9. Follow!EventsAreShownOnce
    BY <1>1, <1>3, <1>6 DEF Follow!EventsAreShownOnce
  <1> QED
    BY <1>4, <1>5, <1>7, <1>8, <1>9, <1>11 DEF FollowInv

\* A part of the invariant depends on its own variables.
LEMMA PartsStandAlone ==
  ASSUME FollowInv, UNCHANGED cmd
  PROVE  /\ UNCHANGED <<log, out, previous, read>> =>
              PreviousIsOfTheLog' /\ Follow!LogIsNotRepeated'
         /\ UNCHANGED <<rows, cursor, shown, whole>> =>
              NumbersAreOwn' /\ Follow!EventsAreShownOnce'
         /\ UNCHANGED <<known, version, view, missed>> => ViewIsOfAVersion'
  <1>1. UNCHANGED <<log, out, previous, read>> => PreviousIsOfTheLog' /\ Follow!LogIsNotRepeated'
    BY DEF FollowInv, PreviousIsOfTheLog, Seen, Follow!LogIsNotRepeated
  <1>2. UNCHANGED <<rows, cursor, shown, whole>> => NumbersAreOwn'
    BY DEF FollowInv, NumbersAreOwn, Follow!Of
  <1>3. UNCHANGED <<rows, cursor, shown, whole>> => Follow!EventsAreShownOnce'
    <2> SUFFICES ASSUME UNCHANGED <<rows, cursor, shown, whole>> PROVE Follow!EventsAreShownOnce'
      OBVIOUS
    <2>1. Follow!Of(Follow!Cloud)' = Follow!Of(Follow!Cloud)
      BY DEF Follow!Of
    <2> QED
      BY <2>1 DEF FollowInv, Follow!EventsAreShownOnce
  <1> QED
    BY <1>1, <1>2, <1>3 DEF FollowInv, ViewIsOfAVersion

LEMMA FollowStep ==
  ASSUME FollowInv, Follow!Next
  PROVE  FollowInv'
  <1> USE DEF Follow!logVars, Follow!eventVars, Follow!watchVars
  <1>1. ASSUME NEW b \in Follow!Bytes, Follow!Write(b) PROVE FollowInv'
    <2>1. UNCHANGED <<cmd, rows, cursor, shown, whole, known, version, view, missed>>
      BY <1>1 DEF Follow!Write
    <2> QED
      BY <1>1, <2>1, WriteKeepsLog, PartsStandAlone DEF FollowInv
  <1>2. ASSUME NEW s \in Trials \cup {Follow!Cloud}, NEW i, Follow!EventHappens(s, i)
        PROVE  FollowInv'
    <2>1. UNCHANGED <<cmd, log, out, previous, read, known, version, view, missed>>
      BY <1>2 DEF Follow!EventHappens
    <2> QED
      BY <1>2, <2>1, EventKeepsNumbers, PartsStandAlone DEF FollowInv
  <1>3. ASSUME NEW r \in Resources, NEW v \in 0..MaxVersion, Follow!Change(r, v) PROVE FollowInv'
    <2>1. /\ UNCHANGED <<cmd, log, out, previous, read, rows, cursor, shown, whole, known, version, view, missed>>
          /\ inventory' = [inventory EXCEPT ![r] = v]
      BY <1>3 DEF Follow!Change
    <2>2. FollowTypes'
      BY <2>1 DEF FollowInv, FollowTypes, Versions
    <2> QED
      BY <2>1, <2>2, PartsStandAlone DEF FollowInv
  <1>4. CASE Follow!PollLogs
    <2>1. UNCHANGED <<cmd, rows, cursor, shown, whole, known, version, view, missed>>
      BY <1>4 DEF Follow!PollLogs
    <2> QED
      BY <1>4, <2>1, PollPrintsTheNew, PartsStandAlone DEF FollowInv
  <1>5. CASE Follow!PollEvents
    <2>1. UNCHANGED <<cmd, log, out, previous, read, known, version, view, missed>>
      BY <1>5 DEF Follow!PollEvents
    <2> QED
      BY <1>5, <2>1, PollEventsKeepsNumbers, PartsStandAlone DEF FollowInv
  <1>6. CASE Follow!PollWatch
    <2>1. UNCHANGED <<cmd, log, out, previous, read, rows, cursor, shown, whole>>
      BY <1>6 DEF Follow!PollWatch
    <2> QED
      BY <1>6, <2>1, WatchKeepsView, PartsStandAlone DEF FollowInv
  <1> QED
    BY <1>1, <1>2, <1>3, <1>4, <1>5, <1>6 DEF Follow!Next

-----------------------------------------------------------------------------
(* What the client is told. *)

LEMMA WaysKeepInv == AccessInv /\ FollowInv /\ [MCNext]_allVars => (AccessInv /\ FollowInv)'
  <1> SUFFICES ASSUME AccessInv, FollowInv, [MCNext]_allVars PROVE AccessInv' /\ FollowInv'
    OBVIOUS
  <1>1. UNCHANGED accessVars => AccessInv'
    BY DEF accessVars, AccessInv, AccessTypes, EndIsKept, CommandsAreOwn, ClientIsSound,
           Access!SuccessIsReal
  <1>2. UNCHANGED followVars => FollowInv'
    <2> SUFFICES ASSUME UNCHANGED followVars PROVE FollowInv'
      OBVIOUS
    <2>1. FollowTypes'
      BY DEF followVars, FollowInv, FollowTypes
    <2>2. UNCHANGED <<cmd, log, out, previous, read, rows, cursor, shown, whole, known, version, view, missed>>
      BY DEF followVars
    <2> QED
      BY <2>1, <2>2, PartsStandAlone DEF FollowInv
  <1>3. CASE (ByQueue /\ Next) \/ (ByLatch /\ Latch!Next)
    BY <1>1, <1>2, <1>3 DEF ByQueue, ByLatch
  <1>4. CASE ByAccess /\ Access!Next
    BY <1>2, <1>4, AccessStep DEF ByAccess
  <1>5. CASE ByFollow /\ Follow!Next
    BY <1>1, <1>5, FollowStep DEF ByFollow
  <1>6. CASE UNCHANGED allVars
    BY <1>1, <1>2, <1>6 DEF allVars
  <1> QED
    BY <1>3, <1>4, <1>5, <1>6 DEF MCNext

\* For any number of commands, bytes, events and resources, and any number of printed lines: a
\* request that has ended stays as it ended, is called a success only if it was one, and one
\* that was left active does not go back to be set up; a followed log repeats nothing and is
\* whole without --tail-lines; no event is printed twice, and control-plane events are printed
\* to the last one while pages are not cut; and the changes that `watch` prints make the
\* inventory, but for those it cuts or the server does not tell (updateExecRequest,
\* appended_raw_log_bytes, runtime_events_summary_lines, runtime_watch_summary_lines,
\* watchResources).
THEOREM ClientHearsTheTruth == MCSpec => []ClientIsToldTheTruth
  <1>1. MCInit => AccessInv /\ FollowInv
    BY AccessBegins, FollowBegins DEF MCInit
  <1>2. AccessInv /\ FollowInv => ClientIsToldTheTruth
    <2>1. AccessInv => Access!EndIsFinal /\ Access!SuccessIsReal
      BY DEF AccessInv, EndIsKept, Access!EndIsFinal
    <2> QED
      BY <2>1, ViewIsCurrent DEF FollowInv, ClientIsToldTheTruth
  <1> QED
    BY <1>1, <1>2, WaysKeepInv, PTL DEF MCSpec
=============================================================================
