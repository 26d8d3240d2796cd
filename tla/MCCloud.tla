------------------------------- MODULE MCCloud -------------------------------
(***************************************************************************)
(* Four ways to deal with the Cloud: runs that are queued and served by    *)
(* workers (CloudQueue), results of local latch runs (LatchDispatch, its   *)
(* `budget` renamed), access to a run that is under way (RuntimeAccess)    *)
(* and following one (HostedFollow).  They share no row that the others    *)
(* write, so a behaviour goes one `way`.  The safety of latch dispatch has *)
(* a run of its own, with more callers; here one client keeps asking for   *)
(* its dispatch.                                                           *)
(***************************************************************************)
EXTENDS CloudQueue

CONSTANTS Callers, Dispatches, Daemons, Tools, MaxCalls, MaxGiveUps, MaxFailures, Nobody,
          MaxCommands, MaxLost,
          Letters, MaxBytes, Tails, Trials, MaxRows, Limits, EventLines, WatchLines,
          Resources, MaxVersion

\* Commands are counted; --tail-lines and --limit are numbers, and a log holds nothing that
\* was in the file before.
ASSUME AccessAssumption == MaxCommands \in Nat
ASSUME FollowAssumption ==
    /\ Tails \subseteq Nat /\ Limits \subseteq Nat /\ "old" \notin Letters
    /\ EventLines \in Nat /\ WatchLines \in Nat

VARIABLES
    way,
    daemon, sock, info, jobs, proc, result, record, archive, cloud, caller, left,
    kind, row, ttl, serving, poller, client, exit, faults, ended,
    cmd, log, out, previous, read, rows, cursor, shown, whole, inventory, known, version, view,
    missed

Latch == INSTANCE LatchDispatch WITH budget <- left
Access == INSTANCE RuntimeAccess WITH attempt <- serving, MaxFaults <- MaxLost
Follow == INSTANCE HostedFollow

latchVars == <<daemon, sock, info, jobs, proc, result, record, archive, cloud, caller, left>>
accessVars == <<kind, row, ttl, serving, poller, client, exit, faults, ended>>
followVars ==
    <<cmd, log, out, previous, read, rows, cursor, shown, whole, inventory, known, version,
      view, missed>>
allVars == <<way, vars, latchVars, accessVars, followVars>>

\* A way that is not gone has one initial state.
MCInit ==
    /\ way \in {"queue", "latch", "access", "follow"}
    /\ kind \in IF way = "access" THEN {"exec", "port_forward"} ELSE {"exec"}
    /\ ttl \in IF way = "access" THEN {"none", "ahead"} ELSE {"none"}
    /\ cmd \in IF way = "follow" THEN Follow!Commands ELSE {[name |-> "watch"]}
    /\ view \in IF way = "follow" THEN Follow!Inventories ELSE {Follow!Absent}
    /\ Init /\ Latch!Init /\ Access!Init /\ Follow!Init

ByQueue == way = "queue" /\ UNCHANGED <<way, latchVars, accessVars, followVars>>
ByLatch == way = "latch" /\ UNCHANGED <<way, vars, accessVars, followVars>>
ByAccess == way = "access" /\ UNCHANGED <<way, vars, latchVars, followVars>>
ByFollow == way = "follow" /\ UNCHANGED <<way, vars, latchVars, accessVars>>

MCNext ==
    \/ ByQueue /\ Next
    \/ ByLatch /\ Latch!Next
    \/ ByAccess /\ Access!Next
    \/ ByFollow /\ Follow!Next

\* The fairness of the modules, of the way that is gone.
MCSpec ==
    /\ MCInit /\ [][MCNext]_allVars
    /\ \A w \in Workers :
          /\ WF_allVars(ByQueue /\ WorkerStep(w)) /\ WF_allVars(ByQueue /\ Restart(w))
          /\ WF_allVars(ByQueue /\ DeadlinePasses(w)) /\ WF_allVars(ByQueue /\ expireLeases(w))
          /\ WF_allVars(ByQueue /\ \E ok \in BOOLEAN : CoreExits(w, ok))
    /\ \A a \in Attempts : WF_allVars(ByQueue /\ LeaseLapses(a))
    /\ \A c \in Callers :
          /\ WF_allVars(ByLatch /\ Latch!CallerStep(c)) /\ SF_allVars(ByLatch /\ Latch!GiveUp(c))
          /\ WF_allVars(ByLatch /\ Latch!Serve(c))
          /\ \A d \in Dispatches : SF_allVars(ByLatch /\ Latch!Call(c, "refresh", d))
    /\ \A m \in Daemons : WF_allVars(ByLatch /\ Latch!DaemonStep(m))
    /\ \A d \in Dispatches : WF_allVars(ByLatch /\ result[d] \in Latch!Whole /\ Latch!Exit(d))
    /\ WF_allVars(ByAccess /\ Access!TtlPasses) /\ WF_allVars(ByAccess /\ Access!Read)

\* What the command line says of a hosted run is what happened.  A request for access
\* that has ended stays as it ended, whatever report or cancellation was on its way, is
\* called a success only if it was one, and does not go back to be set up when the client
\* has left it active.  A followed log repeats nothing and is whole without --tail-lines, no
\* event is printed twice, and the changes that `watch` prints make the inventory but for
\* those it cuts or is not told (updateExecRequest, appended_raw_log_bytes,
\* runtimeEventNextAfterRowSeq, runtime_watch_summary_lines, watchResources).
ClientIsToldTheTruth ==
    /\ Access!EndIsFinal /\ Access!SuccessIsReal
    /\ Follow!LogIsNotRepeated /\ Follow!EventsAreShownOnce /\ Follow!WatchIsCurrent

\* A queued run comes to its end, and stays there, whatever workers die, leases lapse
\* and calls fail, unless a call without a time limit holds it up for ever
\* (expireLeases, executeClaimedRun, runJsonCommand).  A latch result on disk reaches the Cloud as
\* long as the client keeps asking, even if the daemon that knew the job is gone and
\* Cloud requests failed before (refresh_dispatch).  A request for access that can expire
\* has an end for whoever looks at it (expireRuntimeAccessRequests).
WorkReachesTheCloud ==
    \A r \in Runs, d \in Dispatches :
        (way = "queue" \/ Latch!ResultIsThere(d) \/ Access!CanExpire)
            ~> [](CASE way = "queue" -> run[r] \in Finished \/ HeldUp(r)
                    [] way = "access" -> row.status \notin Access!Live
                    [] OTHER -> cloud[d] # Latch!NoRow)
=============================================================================
