----------------------------- MODULE CloudQueue -----------------------------
(***************************************************************************)
(* The Cloud's run queue and the workers that serve it: claims with        *)
(* leases, heartbeats, cancellation by the owner, the sweeper that         *)
(* requeues the runs of lapsed leases                                      *)
(* (bucephalus-cloud/src/packages/repository.ts, routes/runs.ts,           *)
(* worker.ts).                                                             *)
(*                                                                         *)
(* Every repository operation is one transaction, re-evaluated on the row  *)
(* versions it locks, and so one step here.  Time is the lapse of a lease  *)
(* and of the worker's own estimate of it.  The worker's steps between two *)
(* API calls interleave with everybody else's.                             *)
(***************************************************************************)
EXTENDS Naturals, FiniteSets

CONSTANTS
    Runs,        \* rows of cloud.runs
    MaxAttempts, \* bound: rows of cloud.run_attempts
    Workers,     \* worker processes, each one runner instance
    MaxFaults,   \* bound: API calls that fail or whose answer is lost, late heartbeats, and
                 \* calls without a time limit that do not return at once
    MaxCrashes,  \* bound: workers that die or are told to stop
    None         \* no attempt, no run

ASSUME QueueAssumption ==
    /\ None \notin Runs \cup Workers \cup Nat
    /\ MaxAttempts \in Nat /\ MaxFaults \in Nat /\ MaxCrashes \in Nat

Attempts == 1..MaxAttempts

VARIABLES
    run,       \* status of each run
    attempt,   \* each attempt row: status, run and worker
    live,      \* the attempts whose lease_expires_at is still ahead
    worker,    \* each worker process
    budget     \* what is left of the bounds

vars == <<run, attempt, live, worker, budget>>

NoAttempt == [status |-> "none", run |-> None, worker |-> None]

\* at: where executeClaimedRun is; renewing: the heartbeat loop is on; signal:
\* why the AbortController fired; stopping: shuttingDown; missed: an accepted
\* heartbeat went unanswered; overdue: the estimated deadline has passed; waits: which
\* of executeClaimedRun's body and its heartbeat loop awaits a call that has no time
\* limit (a helper command, Docker, the output of a core process that left a child).
Fresh == [at |-> "idle", a |-> None, core |-> "none", error |-> FALSE, renewing |-> FALSE,
          signal |-> "none", stopping |-> FALSE, missed |-> FALSE, overdue |-> FALSE,
          waits |-> {}]

Queued   == {"created", "waiting_for_runner"}
Finished == {"completed", "failed", "cancelled"}

Init ==
    /\ run = [r \in Runs |-> "created"]
    /\ attempt = [a \in Attempts |-> NoAttempt]
    /\ live = {}
    /\ worker = [w \in Workers |-> Fresh]
    /\ budget = [faults |-> MaxFaults, crashes |-> MaxCrashes]

Spend(kind) == budget[kind] > 0 /\ budget' = [budget EXCEPT ![kind] = @ - 1]

\* The attempt's token is good and its row can be written to.
Active(a) == attempt[a].status = "running" /\ a \in live

\* The worker process ends: an error its main loop does not catch, or its own choice.
Gone == [Fresh EXCEPT !.at = "gone"]

\* Back in the main loop, or out of it: the worker is stopping, or executeClaimedRun rejects.
Freed(p) == IF p.error \/ p.stopping THEN Gone ELSE Fresh

\* executeClaimedRun's `finally` waits for the heartbeat loop, which may be in a helper
\* command.  The error that is left is the one that is thrown.
Ends(w, rejects, stops) ==
    LET p == [worker[w] EXCEPT !.at = "joining", !.error = rejects, !.stopping = @ \/ stops] IN
    worker' = [worker EXCEPT ![w] = IF "loop" \in p.waits THEN p ELSE Freed(p)]

---------------------------------------------------------------------------
(* The repository. *)

\* Mutant: a claim also takes a running run whose lease has lapsed.
ClaimRowSteals(r, a, w) ==
    /\ run[r] \in Queued \/ \E b \in Attempts \ live : attempt[b].status = "running" /\ attempt[b].run = r
    /\ attempt[a] = NoAttempt
    /\ \A b \in Attempts : attempt[b] = NoAttempt => a <= b
    /\ attempt' = [attempt EXCEPT ![a] = [status |-> "running", run |-> r, worker |-> w]]
    /\ live' = live \cup {a}
    /\ run' = [run EXCEPT ![r] = "running"]

\* Mutant: a claim passes over the runs that the sweeper gave back.
ClaimRowOnce(r, a, w) ==
    /\ run[r] = "created"
    /\ attempt[a] = NoAttempt
    /\ \A b \in Attempts : attempt[b] = NoAttempt => a <= b
    /\ attempt' = [attempt EXCEPT ![a] = [status |-> "running", run |-> r, worker |-> w]]
    /\ live' = live \cup {a}
    /\ run' = [run EXCEPT ![r] = "running"]

ClaimRow(r, a, w) ==
    /\ run[r] \in Queued
    /\ attempt[a] = NoAttempt
    /\ \A b \in Attempts : attempt[b] = NoAttempt => a <= b
    /\ attempt' = [attempt EXCEPT ![a] = [status |-> "running", run |-> r, worker |-> w]]
    /\ live' = live \cup {a}
    /\ run' = [run EXCEPT ![r] = "running"]

\* Mutant: no transaction around the two updates, so the first stays when the second misses.
EndRowNotRolledBack(a, status) ==
    /\ Active(a)
    /\ attempt' = [attempt EXCEPT ![a].status = status]
    /\ run' = [run EXCEPT ![attempt[a].run] = IF @ = "running" THEN status ELSE @]
    /\ UNCHANGED live

\* completeAttempt and failAttempt: both rows or neither.
EndRow(a, status) ==
    /\ Active(a)
    /\ run[attempt[a].run] = "running"
    /\ attempt' = [attempt EXCEPT ![a].status = status]
    /\ run' = [run EXCEPT ![attempt[a].run] = status]
    /\ UNCHANGED live

EndRowRefused(a) == ~(Active(a) /\ run[attempt[a].run] = "running")

cancelRun(r) ==
    /\ run[r] \notin Finished
    /\ run' = [run EXCEPT ![r] = "cancelled"]
    /\ UNCHANGED <<attempt, live, worker, budget>>

\* The pool controller gives up on a run no runner can be made for.
failQueuedRun(r) ==
    /\ run[r] \in Queued
    /\ Spend("faults")
    /\ run' = [run EXCEPT ![r] = "failed"]
    /\ UNCHANGED <<attempt, live, worker>>

Lapsed == {a \in Attempts : attempt[a].status = "running" /\ a \notin live}

\* The sweeper of any worker that is not stopping.
expireLeases(w) ==
    /\ worker[w].at # "gone" /\ ~worker[w].stopping
    /\ Lapsed # {}
    /\ attempt' = [a \in Attempts |-> IF a \in Lapsed THEN [attempt[a] EXCEPT !.status = "expired"] ELSE attempt[a]]
    /\ run' = [r \in Runs |-> IF run[r] = "running" /\ \E a \in Lapsed : attempt[a].run = r
                               THEN "waiting_for_runner" ELSE run[r]]
    /\ UNCHANGED <<live, worker, budget>>

---------------------------------------------------------------------------
(* The worker's main loop. *)

Claim(w, r, a) ==
    /\ worker[w].at = "idle" /\ ~worker[w].stopping
    /\ ClaimRow(r, a, w)
    /\ worker' = [worker EXCEPT ![w] = [Fresh EXCEPT !.at = "preparing", !.a = a, !.renewing = TRUE]]
    /\ UNCHANGED budget

\* The claim is committed and the answer lost: the main loop ends.
ClaimLost(w, r, a) ==
    /\ worker[w].at = "idle" /\ ~worker[w].stopping
    /\ Spend("faults")
    /\ ClaimRow(r, a, w)
    /\ worker' = [worker EXCEPT ![w] = Gone]

\* A stopping worker without a run leaves its loop.
Leave(w) ==
    /\ worker[w].at = "idle" /\ worker[w].stopping
    /\ worker' = [worker EXCEPT ![w] = Gone]
    /\ UNCHANGED <<run, attempt, live, budget>>

\* Everything up to the start of the core process: the events it appends need an
\* active attempt, and anything else may fail too.
Prepare(w) ==
    /\ worker[w].at = "preparing" /\ "body" \notin worker[w].waits
    /\ \/ /\ Active(worker[w].a) /\ UNCHANGED budget
          /\ worker' = [worker EXCEPT ![w].at = "core", ![w].core = "running"]
       \/ /\ IF Active(worker[w].a) THEN Spend("faults") ELSE UNCHANGED budget
          /\ worker' = [worker EXCEPT ![w].at = "finalizing", ![w].error = TRUE]
    /\ UNCHANGED <<run, attempt, live>>

\* The core process ends; its outcome is recorded with an event, and a run that was
\* aborted or whose event is refused counts as an error.  Artifacts, snapshots
\* and the cleanup of the workspace follow.
CoreExits(w, ok) ==
    /\ worker[w].at = "core" /\ worker[w].core = "running" /\ "body" \notin worker[w].waits
    /\ worker' = [worker EXCEPT
            ![w].at = "finalizing", ![w].core = IF ok THEN "ok" ELSE "failed",
            ![w].error = ~ok \/ worker[w].signal # "none" \/ ~Active(worker[w].a)]
    /\ UNCHANGED <<run, attempt, live, budget>>

---------------------------------------------------------------------------
(* The heartbeat loop of the attempt. *)

Renewing(w) ==
    /\ worker[w].renewing /\ "loop" \notin worker[w].waits
    /\ worker[w].at \in {"preparing", "core", "finalizing"}

\* The loop looks at shuttingDown before every beat.
LoopStops(w) ==
    /\ Renewing(w) /\ worker[w].stopping
    /\ worker' = [worker EXCEPT ![w].renewing = FALSE]
    /\ UNCHANGED <<run, attempt, live, budget>>

\* A beat the server takes; the answer says whether the owner cancelled the run.
Heartbeat(w) ==
    LET a == worker[w].a IN
    /\ Renewing(w) /\ ~worker[w].stopping
    /\ Active(a)
    /\ worker[w].missed \/ worker[w].overdue \/ run[attempt[a].run] = "cancelled"
    /\ worker' = [worker EXCEPT ![w].missed = FALSE, ![w].overdue = FALSE,
                    ![w].signal = IF run[attempt[a].run] = "cancelled" THEN "cancelled" ELSE @,
                    ![w].renewing = run[attempt[a].run] # "cancelled"]
    /\ UNCHANGED <<run, attempt, live, budget>>

\* A beat the server takes and whose answer is lost.
HeartbeatLost(w) ==
    /\ Renewing(w) /\ ~worker[w].stopping
    /\ Active(worker[w].a)
    /\ Spend("faults")
    /\ worker' = [worker EXCEPT ![w].missed = TRUE]
    /\ UNCHANGED <<run, attempt, live>>

\* A beat the server refuses, or that does not get through, after the estimated
\* deadline: the lease is lost.  Before it, the loop only tries again.
HeartbeatGivesUp(w) ==
    /\ Renewing(w) /\ ~worker[w].stopping
    /\ worker[w].overdue
    /\ IF Active(worker[w].a) THEN Spend("faults") ELSE UNCHANGED budget
    /\ worker' = [worker EXCEPT ![w].signal = "lease_lost", ![w].renewing = FALSE]
    /\ UNCHANGED <<run, attempt, live>>

\* After a beat the loop runs the helper commands that requests for access ask for, and
\* sends no beat meanwhile.
LoopWaits(w) ==
    LET a == worker[w].a IN
    /\ Renewing(w) /\ ~worker[w].stopping
    /\ Active(a) /\ run[attempt[a].run] # "cancelled"
    /\ Spend("faults")
    /\ worker' = [worker EXCEPT ![w].missed = FALSE, ![w].overdue = FALSE, ![w].waits = @ \cup {"loop"}]
    /\ UNCHANGED <<run, attempt, live>>

\* The body awaits helper commands and Docker before the core process, its output, and
\* Docker again after it.
BodyWaits(w) ==
    /\ worker[w].at \in {"preparing", "core", "finalizing"} /\ "body" \notin worker[w].waits
    /\ Spend("faults")
    /\ worker' = [worker EXCEPT ![w].waits = @ \cup {"body"}]
    /\ UNCHANGED <<run, attempt, live>>

\* The call returns after all: nothing but the other program decides whether it does.
WaitIsOver(w, who) ==
    LET p == [worker[w] EXCEPT !.waits = @ \ {who}] IN
    /\ who \in worker[w].waits
    /\ worker' = [worker EXCEPT ![w] = IF p.at = "joining" THEN Freed(p) ELSE p]
    /\ UNCHANGED <<run, attempt, live, budget>>

\* Time: a lease that nobody renews lapses.
LeaseLapses(a) ==
    /\ Active(a)
    /\ \A w \in Workers : worker[w].a = a => ~Renewing(w)
    /\ live' = live \ {a}
    /\ UNCHANGED <<run, attempt, worker, budget>>

\* The beats came too late.
LeaseOutrun(a) ==
    /\ Active(a)
    /\ Spend("faults")
    /\ live' = live \ {a}
    /\ UNCHANGED <<run, attempt, worker>>

\* The estimate runs from the last answer, the lease from the last beat taken.
DeadlinePasses(w) ==
    /\ Renewing(w) /\ ~worker[w].overdue
    /\ worker[w].missed \/ worker[w].a \notin live
    /\ worker' = [worker EXCEPT ![w].overdue = TRUE]
    /\ UNCHANGED <<run, attempt, live, budget>>

---------------------------------------------------------------------------
(* The end of executeClaimedRun. *)

\* The owner cancelled, or the lease is lost: the run is left alone.
FinalizeSkipped(w) ==
    /\ worker[w].at = "finalizing" /\ "body" \notin worker[w].waits
    /\ worker[w].signal # "none"
    /\ Ends(w, FALSE, FALSE)
    /\ UNCHANGED <<run, attempt, live, budget>>

\* fail: a refusal or a lost answer is only logged.
FinalizeFailed(w) ==
    /\ worker[w].at = "finalizing" /\ "body" \notin worker[w].waits
    /\ worker[w].signal = "none" /\ worker[w].error
    /\ \/ EndRow(worker[w].a, "failed") /\ UNCHANGED budget
       \/ EndRowRefused(worker[w].a) /\ UNCHANGED <<run, attempt, live, budget>>
       \/ Spend("faults") /\ UNCHANGED <<run, attempt, live>>
    /\ Ends(w, FALSE, FALSE)

\* The cleanup failed: fail, poison the instance, stop.
FinalizePoisoned(w) ==
    /\ worker[w].at = "finalizing" /\ "body" \notin worker[w].waits
    /\ worker[w].signal = "none"
    /\ Spend("faults")
    /\ EndRow(worker[w].a, "failed") \/ (EndRowRefused(worker[w].a) /\ UNCHANGED <<run, attempt, live>>)
    /\ Ends(w, FALSE, TRUE)

\* complete: a refusal or a lost answer is an error nobody catches.
FinalizeCompleted(w) ==
    /\ worker[w].at = "finalizing" /\ "body" \notin worker[w].waits
    /\ worker[w].signal = "none" /\ ~worker[w].error
    /\ \/ EndRow(worker[w].a, "completed") /\ UNCHANGED budget /\ Ends(w, FALSE, FALSE)
       \/ /\ EndRowRefused(worker[w].a) /\ UNCHANGED <<run, attempt, live, budget>>
          /\ Ends(w, TRUE, FALSE)
       \/ EndRow(worker[w].a, "completed") /\ Spend("faults") /\ Ends(w, TRUE, FALSE)

---------------------------------------------------------------------------
(* What happens to a worker. *)

\* One call of the sweeper or of the instance heartbeat fails: the worker stops
\* after the run it has.  The core process is not told.
SideLoopFails(w) ==
    /\ worker[w].at # "gone" /\ ~worker[w].stopping
    /\ Spend("faults")
    /\ worker' = [worker EXCEPT ![w].stopping = TRUE]
    /\ UNCHANGED <<run, attempt, live>>

\* SIGTERM: the core process gets it as well, and ends as it will.
requestShutdown(w) ==
    /\ worker[w].at # "gone" /\ ~worker[w].stopping
    /\ Spend("crashes")
    /\ worker' = [worker EXCEPT ![w].stopping = TRUE]
    /\ UNCHANGED <<run, attempt, live>>

\* The machine is gone, and the core process with it.
Crash(w) ==
    /\ worker[w].at # "gone"
    /\ Spend("crashes")
    /\ worker' = [worker EXCEPT ![w] = Gone]
    /\ UNCHANGED <<run, attempt, live>>

\* The service manager or the pool controller starts it again, as a new instance.
Restart(w) ==
    /\ worker[w].at = "gone"
    /\ worker' = [worker EXCEPT ![w] = Fresh]
    /\ UNCHANGED <<run, attempt, live, budget>>

---------------------------------------------------------------------------
WorkerStep(w) ==
    \/ \E r \in Runs, a \in Attempts : Claim(w, r, a)
    \/ Leave(w) \/ Prepare(w) \/ LoopStops(w) \/ Heartbeat(w) \/ HeartbeatGivesUp(w)
    \/ FinalizeSkipped(w) \/ FinalizeFailed(w) \/ FinalizeCompleted(w)

Next ==
    \/ \E w \in Workers :
          \/ WorkerStep(w) \/ Restart(w) \/ expireLeases(w) \/ DeadlinePasses(w)
          \/ HeartbeatLost(w) \/ FinalizePoisoned(w) \/ SideLoopFails(w)
          \/ requestShutdown(w) \/ Crash(w) \/ LoopWaits(w) \/ BodyWaits(w)
          \/ \E who \in {"body", "loop"} : WaitIsOver(w, who)
          \/ \E ok \in BOOLEAN : CoreExits(w, ok)
          \/ \E r \in Runs, a \in Attempts : ClaimLost(w, r, a)
    \/ \E a \in Attempts : LeaseLapses(a) \/ LeaseOutrun(a)
    \/ \E r \in Runs : cancelRun(r) \/ failQueuedRun(r)

\* Processes are scheduled, the core process ends (it has a time limit), sweepers
\* sweep, time passes, and a worker that is gone is replaced.  WaitIsOver has no fairness.
Fairness ==
    /\ \A w \in Workers :
          /\ WF_vars(WorkerStep(w)) /\ WF_vars(Restart(w)) /\ WF_vars(DeadlinePasses(w))
          /\ WF_vars(expireLeases(w))
          /\ WF_vars(\E ok \in BOOLEAN : CoreExits(w, ok))
    /\ \A a \in Attempts : WF_vars(LeaseLapses(a))

Spec == Init /\ [][Next]_vars /\ Fairness

---------------------------------------------------------------------------
(* What must hold. *)

RunningOf(r) == {a \in Attempts : attempt[a].run = r /\ attempt[a].status = "running"}

\* Every row and every worker has its type, and a worker works on an attempt that is its own.
QueueTypeOK ==
    /\ run \in [Runs -> {"created", "waiting_for_runner", "running"} \cup Finished]
    /\ attempt \in [Attempts -> [status : {"none", "running", "completed", "failed", "expired"},
                                 run : Runs \cup {None}, worker : Workers \cup {None}]]
    /\ live \subseteq Attempts
    /\ worker \in [Workers ->
          [at : {"idle", "preparing", "core", "finalizing", "joining", "gone"}, a : Attempts \cup {None},
           core : {"none", "running", "ok", "failed"}, error : BOOLEAN, renewing : BOOLEAN,
           signal : {"none", "cancelled", "lease_lost"}, stopping : BOOLEAN,
           missed : BOOLEAN, overdue : BOOLEAN, waits : SUBSET {"body", "loop"}]]
    /\ budget \in [faults : 0..MaxFaults, crashes : 0..MaxCrashes]
    /\ \A w \in Workers : worker[w].a # None => attempt[worker[w].a].worker = w

\* A running run is held by exactly one running attempt, whatever leases lapse,
\* sweepers sweep and workers return late; a run in the queue or at its end by
\* none (a cancelled one by the attempt that has not heard of it yet).
RunMatchesAttempts ==
    \A r \in Runs :
        /\ run[r] = "running" => Cardinality(RunningOf(r)) = 1
        /\ run[r] \in Queued \cup {"completed", "failed"} => RunningOf(r) = {}
        /\ Cardinality(RunningOf(r)) <= 1

\* A run that is completed was completed by the one attempt that is, and that
\* attempt was the last one to claim it: an earlier owner whose lease lapsed
\* cannot complete or fail it.
CompletedByItsOwner ==
    \A a \in Attempts : attempt[a].status \in {"completed", "failed"} =>
        /\ run[attempt[a].run] = attempt[a].status
        /\ \A b \in Attempts : attempt[b].run = attempt[a].run => b <= a

\* After every transaction a run and its attempts agree on who holds it and who ended it
\* (claimRun, completeAttempt, failAttempt, expireLeases).
AttemptsSettleTheRun == RunMatchesAttempts /\ CompletedByItsOwner

\* A call without a time limit holds the run up: the worker that has the run is in one and
\* goes on renewing its lease, or every worker is in one.
HeldUp(r) ==
    \/ \E w \in Workers : "body" \in worker[w].waits /\ Renewing(w) /\ attempt[worker[w].a].run = r
    \/ \A w \in Workers : worker[w].waits # {}

\* A run that is claimed comes to its end: refuted, as long as the worker's heartbeat
\* loop goes on while its body waits for a helper command.
ClaimedRunEnds == \A r \in Runs : run[r] = "running" ~> run[r] # "running"

\* worker.ts says of the attempt's lease that "a single failed heartbeat must
\* never kill lease renewal".
RenewalSurvivesFailure ==
    \A w \in Workers : worker[w].core = "running" /\ Active(worker[w].a) /\ worker[w].signal = "none"
                           => worker[w].renewing

\* worker.ts says of a cancelled run that its worker is freed for the next one.
WorkerSurvivesCancel == \A w \in Workers : worker[w].at # "gone"
=============================================================================
