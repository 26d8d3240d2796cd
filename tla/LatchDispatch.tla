---------------------------- MODULE LatchDispatch ----------------------------
(***************************************************************************)
(* The host side of Tier-1 latch: the MCP server processes (callers), the  *)
(* latch daemon they find through a socket and a state file, the           *)
(* `bucephalus latch run` process of each dispatch, the dispatch record,   *)
(* and the row the Cloud keeps of a submitted result                       *)
(* (rust/crates/lab-cli/src/latch_daemon.rs, main.rs 3205-4246 and 5037 ff,*)
(* rust/crates/lab-runner/src/latch.rs).                                   *)
(*                                                                         *)
(* Every MCP client starts a server of its own, so calls run concurrently  *)
(* and share nothing but files.  A dispatch has one job, whose id it       *)
(* carries; a job is known only to the memory of the daemon that started   *)
(* it, and its process survives that daemon unless the service manager     *)
(* stops the whole service.                                                *)
(***************************************************************************)
EXTENDS Naturals, FiniteSets

CONSTANTS
    Callers,      \* MCP server processes
    Dispatches,   \* dispatch ids, one per dispatch_benchmark call
    Daemons,      \* daemon processes that may ever be started
    Tools,        \* what the callers use; cancel needs BUCEPHALUS_MCP_DEBUG_LATCH_TOOLS
    MaxCalls,     \* bound: finite calls per caller; 0 means the callers go on for ever
    MaxCrashes,   \* bound: daemons that die
    MaxGiveUps,   \* bound: waits for a new daemon that end too early
    MaxFailures,  \* bound: Cloud requests that fail
    Nobody

VARIABLES
    daemon,     \* the life of each daemon process
    sock,       \* the daemon that bound the socket file, Nobody when there is no file
    info,       \* latchd.json: absent, torn while it is written, whole
    jobs,       \* each daemon's memory of each job
    proc,       \* the `latch run` process of each dispatch
    result,     \* latch_result.json of each dispatch
    record,     \* dispatch.json of each dispatch
    archive,    \* submission/latch_result.tgz of each dispatch
    cloud,      \* the Cloud's latch_submissions row of each dispatch
    caller,     \* the call each MCP server is in
    budget      \* what is left of the bounds

vars == <<daemon, sock, info, jobs, proc, result, record, archive, cloud, caller, budget>>
daemonVars == <<daemon, sock, info>>
jobVars == <<jobs, proc, result>>
dispatchVars == <<record, archive, cloud>>

Whole == {"clean", "errors"}
NoRecord == [status |-> "absent", submission |-> "absent"]
Empty    == [status |-> "empty", submission |-> "absent"]
Garbled  == [status |-> "garbled", submission |-> "absent"]
NoRow    == [archive |-> "absent"]
Idle     == [at |-> "idle", tool |-> "none", d |-> Nobody, server |-> Nobody, child |-> Nobody,
             job |-> "unknown", mine |-> NoRecord, bytes |-> "absent"]

Listening(m) == daemon[m] \in {"bound", "writing", "detached", "serving"}

Init ==
    /\ daemon = [m \in Daemons |-> "unborn"]
    /\ sock = Nobody
    /\ info = "absent"
    /\ jobs = [m \in Daemons |-> [d \in Dispatches |-> "unknown"]]
    /\ proc = [d \in Dispatches |-> "none"]
    /\ result = [d \in Dispatches |-> "absent"]
    /\ record = [d \in Dispatches |-> NoRecord]
    /\ archive = [d \in Dispatches |-> "absent"]
    /\ cloud = [d \in Dispatches |-> NoRow]
    /\ caller = [c \in Callers |-> Idle]
    /\ budget = [calls |-> [c \in Callers |-> MaxCalls], crashes |-> MaxCrashes,
                 giveups |-> MaxGiveUps, failures |-> MaxFailures]

---------------------------------------------------------------------------
(* The caller's control: where it goes next, and the end of its call. *)

Go(c, at)  == caller' = [caller EXCEPT ![c].at = at]
Return(c)  == caller' = [caller EXCEPT ![c] = Idle]
Spend(kind) == budget[kind] > 0 /\ budget' = [budget EXCEPT ![kind] = @ - 1]

\* A tool call arrives.  A dispatch id is fresh to the call that makes it; a
\* refresh reads the record first and fails when it does not parse.
Call(c, tool, d) ==
    /\ caller[c].at = "idle"
    /\ MaxCalls > 0 => budget.calls[c] > 0
    /\ CASE tool = "start" ->
                proc[d] = "none" /\ record[d] = NoRecord /\ \A o \in Callers : caller[o].d # d
         [] tool \in {"refresh", "cancel"} ->
                record[d].status \notin {"absent", "empty", "garbled"}
         [] OTHER -> TRUE
    /\ caller' = [caller EXCEPT ![c] =
                     IF tool \in {"status", "current"}
                     THEN [Idle EXCEPT !.at = "ensure", !.tool = tool]
                     ELSE [Idle EXCEPT !.at = "ensure", !.tool = tool, !.d = d, !.mine = record[d]]]
    /\ budget' = [budget EXCEPT !.calls[c] = IF MaxCalls > 0 THEN @ - 1 ELSE @]
    /\ UNCHANGED <<daemonVars, jobVars, dispatchVars>>

---------------------------------------------------------------------------
(* ensure_latch_daemon and current_latch_daemon. *)

\* Failure of a call before the daemon answered: only a refresh goes on, with
\* what the run directory says.
CallFails(c) == IF caller[c].tool = "refresh" THEN Go(c, "fallback") ELSE Return(c)

\* read_daemon_info: only a whole file parses.
ReadInfo(c) ==
    /\ caller[c].at = "ensure"
    /\ \/ info = "whole" /\ Go(c, "probe")
       \/ /\ info # "whole" /\ caller[c].child = Nobody
          /\ IF caller[c].tool = "current" THEN Return(c) ELSE Go(c, "spawn")
    /\ UNCHANGED <<daemonVars, jobVars, dispatchVars, budget>>

\* daemon_is_live connects to whoever owns the socket file now.
Connect(c) ==
    /\ caller[c].at = "probe"
    /\ IF sock # Nobody /\ Listening(sock)
       THEN caller' = [caller EXCEPT ![c].at = "probing", ![c].server = sock]
       ELSE Go(c, IF caller[c].child = Nobody THEN "stale" ELSE "ensure")
    /\ UNCHANGED <<daemonVars, jobVars, dispatchVars, budget>>

\* refresh_jobs: what the daemon knows of its jobs after it looked at their processes.
refresh_jobs(known) ==
    [d \in Dispatches |->
        CASE known[d] = "running" /\ proc[d] = "ok" -> "completed"
          [] known[d] = "running" /\ proc[d] = "failed" -> "failed"
          [] OTHER -> known[d]]

\* The daemon answers the status request, and the probe is done.
daemon_status(c) ==
    LET m == caller[c].server IN
    /\ caller[c].at = "probing"
    /\ daemon[m] = "serving"
    /\ jobs' = [jobs EXCEPT ![m] = refresh_jobs(@)]
    /\ IF caller[c].tool \in {"status", "current"} THEN Return(c) ELSE Go(c, "request")
    /\ UNCHANGED <<daemonVars, proc, result, dispatchVars, budget>>

\* The daemon died with the connection open: an empty response.
ProbeBreaks(c) ==
    /\ caller[c].at = "probing"
    /\ daemon[caller[c].server] = "dead"
    /\ Go(c, IF caller[c].child = Nobody THEN "stale" ELSE "ensure")
    /\ UNCHANGED <<daemonVars, jobVars, dispatchVars, budget>>

\* cleanup_stale_daemon_files removes the two files, whoever they belong to by
\* now; a daemon in the middle of writing its state file writes to a file without
\* a name from then on.
CleanupInfo(c) ==
    /\ caller[c].at = "stale"
    /\ info' = "absent"
    /\ daemon' = [m \in Daemons |-> IF daemon[m] = "writing" THEN "detached" ELSE daemon[m]]
    /\ Go(c, "stale_socket")
    /\ UNCHANGED <<sock, jobVars, dispatchVars, budget>>

CleanupSocket(c) ==
    /\ caller[c].at = "stale_socket"
    /\ sock' = Nobody
    /\ IF caller[c].tool = "current" THEN Return(c) ELSE Go(c, "spawn")
    /\ UNCHANGED <<daemon, info, jobVars, dispatchVars, budget>>

\* The new daemon, which the caller then waits for.
SpawnDaemon(c, m) ==
    /\ caller[c].at = "spawn"
    /\ daemon[m] = "unborn"
    /\ daemon' = [daemon EXCEPT ![m] = "spawned"]
    /\ caller' = [caller EXCEPT ![c].at = "ensure", ![c].child = m]
    /\ UNCHANGED <<sock, info, jobVars, dispatchVars, budget>>

\* The system refuses another process: here, once every daemon was started.
SpawnFails(c) ==
    /\ caller[c].at = "spawn"
    /\ \A m \in Daemons : daemon[m] # "unborn"
    /\ CallFails(c)
    /\ UNCHANGED <<daemonVars, jobVars, dispatchVars, budget>>

\* DAEMON_START_ATTEMPTS are used up: because the new daemon is gone or nobody
\* can reach it, or (bounded) because it is slow.
GiveUp(c) ==
    /\ caller[c].at = "ensure"
    /\ caller[c].child # Nobody
    /\ \/ /\ daemon[caller[c].child] \in {"serving", "dead"}
          /\ info # "whole" \/ sock = Nobody \/ (sock # Nobody /\ ~Listening(sock))
          /\ UNCHANGED budget
       \/ Spend("giveups")
    /\ CallFails(c)
    /\ UNCHANGED <<daemonVars, jobVars, dispatchVars>>

---------------------------------------------------------------------------
(* run_latch_daemon. *)

UnlinkSocket(m) ==
    /\ daemon[m] = "spawned"
    /\ sock' = Nobody
    /\ daemon' = [daemon EXCEPT ![m] = "unlinked"]
    /\ UNCHANGED <<info, jobVars, dispatchVars, caller, budget>>

\* bind refuses a path that exists, and the daemon exits.
Bind(m) ==
    /\ daemon[m] = "unlinked"
    /\ IF sock = Nobody
       THEN sock' = m /\ daemon' = [daemon EXCEPT ![m] = "bound"]
       ELSE UNCHANGED sock /\ daemon' = [daemon EXCEPT ![m] = "dead"]
    /\ UNCHANGED <<info, jobVars, dispatchVars, caller, budget>>

BeginInfo(m) ==
    /\ daemon[m] = "bound"
    /\ info' = "torn"
    /\ daemon' = [daemon EXCEPT ![m] = "writing"]
    /\ UNCHANGED <<sock, jobVars, dispatchVars, caller, budget>>

EndInfo(m) ==
    /\ daemon[m] \in {"writing", "detached"}
    /\ info' = IF daemon[m] = "writing" THEN "whole" ELSE info
    /\ daemon' = [daemon EXCEPT ![m] = "serving"]
    /\ UNCHANGED <<sock, jobVars, dispatchVars, caller, budget>>

\* A daemon dies.  Its jobs live on, or the service manager kills them with it.
Crash(m) ==
    /\ Spend("crashes")
    /\ daemon[m] \notin {"unborn", "dead"}
    /\ daemon' = [daemon EXCEPT ![m] = "dead"]
    /\ \/ UNCHANGED proc
       \/ proc' = [d \in Dispatches |->
                      IF jobs[m][d] = "running" /\ proc[d] = "running" THEN "failed" ELSE proc[d]]
    /\ UNCHANGED <<sock, info, jobs, result, dispatchVars, caller>>

---------------------------------------------------------------------------
(* The request itself, on a connection of its own. *)

Request(c) ==
    /\ caller[c].at = "request"
    /\ IF sock # Nobody /\ Listening(sock)
       THEN caller' = [caller EXCEPT ![c].at = "sent", ![c].server = sock]
       ELSE CallFails(c)
    /\ UNCHANGED <<daemonVars, jobVars, dispatchVars, budget>>

\* The daemon died before it answered.
RequestBreaks(c) ==
    /\ caller[c].at \in {"sent", "starting"}
    /\ daemon[caller[c].server] = "dead"
    /\ CallFails(c)
    /\ UNCHANGED <<daemonVars, jobVars, dispatchVars, budget>>

\* daemon_start: the process is there before the daemon has it in its table.
SpawnJob(c) ==
    /\ caller[c].at = "sent" /\ caller[c].tool = "start"
    /\ daemon[caller[c].server] = "serving"
    /\ proc' = [proc EXCEPT ![caller[c].d] = "running"]
    /\ Go(c, "starting")
    /\ UNCHANGED <<daemonVars, jobs, result, dispatchVars, budget>>

daemon_start(c) ==
    LET m == caller[c].server IN
    /\ caller[c].at = "starting"
    /\ daemon[m] = "serving"
    /\ jobs' = [jobs EXCEPT ![m][caller[c].d] = "running"]
    /\ caller' = [caller EXCEPT ![c].at = "save",
                    ![c].mine = [status |-> "running", submission |-> "waiting"]]
    /\ UNCHANGED <<daemonVars, proc, result, dispatchVars, budget>>

\* daemon_progress: every job is refreshed; an unknown one is an error.
daemon_progress(c) ==
    LET m == caller[c].server
        known == refresh_jobs(jobs[m])
    IN /\ caller[c].at = "sent" /\ caller[c].tool = "refresh"
       /\ daemon[m] = "serving"
       /\ jobs' = [jobs EXCEPT ![m] = known]
       /\ IF known[caller[c].d] = "unknown"
          THEN Go(c, "fallback")
          ELSE caller' = [caller EXCEPT ![c].at = "submission", ![c].job = known[caller[c].d]]
       /\ UNCHANGED <<daemonVars, proc, result, dispatchVars, budget>>

\* daemon_cancel: the child is killed if it is still held, and the job is
\* cancelled whatever it was.
daemon_cancel(c) ==
    LET m == caller[c].server
        d == caller[c].d
    IN /\ caller[c].at = "sent" /\ caller[c].tool = "cancel"
       /\ daemon[m] = "serving"
       /\ IF jobs[m][d] = "unknown"
          THEN UNCHANGED <<jobs, proc>>
          ELSE /\ proc' = [proc EXCEPT ![d] = IF jobs[m][d] = "running" /\ @ = "running" THEN "failed" ELSE @]
               /\ jobs' = [jobs EXCEPT ![m][d] = "cancelled"]
       /\ Return(c)
       /\ UNCHANGED <<daemonVars, result, dispatchVars, budget>>

---------------------------------------------------------------------------
(* The `latch run` process: run_latch_manifest writes the result last. *)

WriteResult(d, outcome) ==
    /\ proc[d] = "running"
    /\ \/ result[d] = "absent" /\ outcome = "torn"
       \/ result[d] = "torn" /\ outcome \in Whole
    /\ result' = [result EXCEPT ![d] = outcome]
    /\ UNCHANGED <<daemonVars, jobs, proc, dispatchVars, caller, budget>>

\* It exits 0 once its result is written, whatever its cases came to.  It may fail, or be
\* killed, at any time: before the write, in the middle of it or after it.
Exit(d) ==
    /\ proc[d] = "running"
    /\ \/ result[d] \in Whole /\ proc' = [proc EXCEPT ![d] = "ok"]
       \/ proc' = [proc EXCEPT ![d] = "failed"]
    /\ UNCHANGED <<daemonVars, jobs, result, dispatchVars, caller, budget>>

---------------------------------------------------------------------------
(* refresh_dispatch after the daemon's answer. *)

\* Mutant: the fallback is content with a result file that exists.
FallbackAnyResult(c) ==
    LET d == caller[c].d IN
    /\ caller[c].at = "fallback"
    /\ IF result[d] # "absent"
       THEN caller' = [caller EXCEPT ![c].at = "submission",
                         ![c].job = IF result[d] = "errors" THEN "failed" ELSE "completed"]
       ELSE Return(c)
    /\ UNCHANGED <<daemonVars, jobVars, dispatchVars, budget>>

\* fallback_dispatch_progress_from_run_root reads the status out of the result
\* file; without one, or with a torn one, the refresh fails.
Fallback(c) ==
    LET d == caller[c].d IN
    /\ caller[c].at = "fallback"
    /\ IF result[d] \in Whole
       THEN caller' = [caller EXCEPT ![c].at = "submission",
                         ![c].job = IF result[d] = "errors" THEN "failed" ELSE "completed"]
       ELSE Return(c)
    /\ UNCHANGED <<daemonVars, jobVars, dispatchVars, budget>>

dispatch_status_from_daemon_status(s) == IF s = "completed" THEN "local_completed" ELSE s

\* The record the refresh will save.
Saves(c, submission) ==
    caller' = [caller EXCEPT ![c].at = "save",
                 ![c].mine = [status |-> dispatch_status_from_daemon_status(caller[c].job),
                              submission |-> submission]]

\* dispatch_submission_lifecycle: a completed submission stays, an unfinished
\* run waits, anything else is submitted.
dispatch_submission_lifecycle(c) ==
    /\ caller[c].at = "submission"
    /\ IF caller[c].mine.submission = "completed" THEN Saves(c, "completed")
       ELSE IF caller[c].job \notin {"completed", "failed"} THEN Saves(c, "waiting")
       ELSE Go(c, "archive")
    /\ UNCHANGED <<daemonVars, jobVars, dispatchVars, budget>>

\* create_dispatch_submission_archive: no result directory, no archive; the
\* archive of the dispatch has one path, and File::create empties it.
CreateArchive(c) ==
    LET d == caller[c].d IN
    /\ caller[c].at = "archive"
    /\ IF result[d] = "absent"
       THEN Saves(c, "failed") /\ UNCHANGED archive
       ELSE Go(c, "archiving") /\ archive' = [archive EXCEPT ![d] = "partial"]
    /\ UNCHANGED <<daemonVars, jobVars, record, cloud, budget>>

FinishArchive(c) ==
    /\ caller[c].at = "archiving"
    /\ archive' = [archive EXCEPT ![caller[c].d] = "whole"]
    /\ Go(c, "upload")
    /\ UNCHANGED <<daemonVars, jobVars, record, cloud, budget>>

\* submit_dispatch_result reads the archive back, takes its digest and uploads it.
Upload(c) ==
    /\ caller[c].at = "upload"
    /\ caller' = [caller EXCEPT ![c].at = "check", ![c].bytes = archive[caller[c].d]]
    /\ UNCHANGED <<daemonVars, jobVars, dispatchVars, budget>>

\* Mutant: a failed request is taken for an accepted submission.
CloudFailsUnnoticed(c) ==
    /\ caller[c].at \in {"upload", "check", "insert"}
    /\ Spend("failures")
    /\ Saves(c, "completed")
    /\ UNCHANGED <<daemonVars, jobVars, dispatchVars>>

\* One of the Cloud requests fails.
CloudFails(c) ==
    /\ caller[c].at \in {"upload", "check", "insert"}
    /\ Spend("failures")
    /\ Saves(c, "failed")
    /\ UNCHANGED <<daemonVars, jobVars, dispatchVars>>

\* createSubmission: the row of the dispatch, if there is one already.
CheckRow(c) ==
    /\ caller[c].at = "check"
    /\ IF cloud[caller[c].d] # NoRow THEN Saves(c, "completed") ELSE Go(c, "insert")
    /\ UNCHANGED <<daemonVars, jobVars, dispatchVars, budget>>

\* ... or a new one, which the unique dispatch id refuses to the second of two.
\* The answer may get lost.
InsertRow(c) ==
    LET d == caller[c].d IN
    /\ caller[c].at = "insert"
    /\ \/ /\ cloud[d] = NoRow
          /\ cloud' = [cloud EXCEPT ![d] = [archive |-> caller[c].bytes]]
          /\ \/ Saves(c, "completed") /\ UNCHANGED budget
             \/ Saves(c, "failed") /\ Spend("failures")
       \/ cloud[d] # NoRow /\ Saves(c, "failed") /\ UNCHANGED <<cloud, budget>>
    /\ UNCHANGED <<daemonVars, jobVars, record, archive>>

\* write_dispatch_record: fs::write truncates the file, then writes it.
TruncateRecord(c) ==
    /\ caller[c].at = "save"
    /\ record' = [record EXCEPT ![caller[c].d] = Empty]
    /\ Go(c, "write")
    /\ UNCHANGED <<daemonVars, jobVars, archive, cloud, budget>>

\* Written over what another refresh wrote since: a shorter text leaves the tail
\* of the longer one behind it.
Overlay(old, new) == IF old \in {Empty, new} THEN {new} ELSE {new, Garbled}

WriteRecord(c) ==
    /\ caller[c].at = "write"
    /\ \E r \in Overlay(record[caller[c].d], caller[c].mine) :
           record' = [record EXCEPT ![caller[c].d] = r]
    /\ Return(c)
    /\ UNCHANGED <<daemonVars, jobVars, archive, cloud, budget>>

---------------------------------------------------------------------------
CallerStep(c) ==
    \/ ReadInfo(c) \/ Connect(c) \/ ProbeBreaks(c) \/ CleanupInfo(c) \/ CleanupSocket(c)
    \/ \E m \in Daemons : SpawnDaemon(c, m)
    \/ SpawnFails(c) \/ GiveUp(c) \/ Request(c) \/ RequestBreaks(c) \/ Fallback(c)
    \/ dispatch_submission_lifecycle(c) \/ CreateArchive(c) \/ FinishArchive(c) \/ Upload(c)
    \/ CheckRow(c) \/ InsertRow(c) \/ TruncateRecord(c) \/ WriteRecord(c)

Serve(c) == daemon_status(c) \/ SpawnJob(c) \/ daemon_start(c) \/ daemon_progress(c) \/ daemon_cancel(c)

DaemonStep(m) == UnlinkSocket(m) \/ Bind(m) \/ BeginInfo(m) \/ EndInfo(m)

Next ==
    \/ \E c \in Callers : CallerStep(c) \/ Serve(c) \/ CloudFails(c)
                          \/ \E tool \in Tools, d \in Dispatches : Call(c, tool, d)
    \/ \E m \in Daemons : DaemonStep(m) \/ Crash(m)
    \/ \E d \in Dispatches : Exit(d) \/ \E outcome \in Whole \cup {"torn"} : WriteResult(d, outcome)

\* Threads and processes are scheduled; what may fail, need not.  A wait that
\* never finds its daemon uses up its attempts.  The client keeps asking for the
\* status of a dispatch it was given.  A process that wrote its result exits; one
\* that has not may run for ever.
Fairness ==
    /\ \A c \in Callers : WF_vars(CallerStep(c)) /\ SF_vars(GiveUp(c)) /\ WF_vars(Serve(c))
    /\ \A c \in Callers, d \in Dispatches : SF_vars(Call(c, "refresh", d))
    /\ \A m \in Daemons : WF_vars(DaemonStep(m))
    /\ \A d \in Dispatches : WF_vars(result[d] \in Whole /\ Exit(d))

Spec == Init /\ [][Next]_vars /\ Fairness

---------------------------------------------------------------------------
Jobs == {"unknown", "running", "completed", "failed", "cancelled"}
Records == [status : {"absent", "empty", "garbled", "running", "local_completed", "failed",
                      "cancelled"},
            submission : {"absent", "waiting", "failed", "completed"}]
Archives == {"absent", "partial", "whole"}

\* Where a caller is: on its way to a daemon, at its request, and after the answer.
Reaching == {"ensure", "probe", "probing", "stale", "stale_socket", "spawn"}
Asking == {"request", "sent", "starting", "fallback"}
Submitting == {"submission", "archive", "archiving", "upload", "check", "insert"}
Calls == [at : {"idle", "save", "write"} \cup Reaching \cup Asking \cup Submitting,
          tool : Tools \cup {"none"}, d : Dispatches \cup {Nobody},
          server : Daemons \cup {Nobody}, child : Daemons \cup {Nobody},
          job : Jobs, mine : Records, bytes : Archives]

\* Type: every variable stays in its range.
LatchTypeOK ==
    /\ daemon \in [Daemons -> {"unborn", "spawned", "unlinked", "bound", "writing", "detached", "serving", "dead"}]
    /\ sock \in Daemons \cup {Nobody}
    /\ info \in {"absent", "torn", "whole"}
    /\ jobs \in [Daemons -> [Dispatches -> Jobs]]
    /\ proc \in [Dispatches -> {"none", "running", "ok", "failed"}]
    /\ result \in [Dispatches -> {"absent", "torn"} \cup Whole]
    /\ record \in [Dispatches -> Records]
    /\ archive \in [Dispatches -> Archives]
    /\ cloud \in [Dispatches -> [archive : Archives]]
    /\ caller \in [Callers -> Calls]

\* A dispatch record, on disk or about to be saved, says that its submission is
\* completed only when the Cloud has the row: through lost answers, refused
\* inserts and refreshes that run side by side (main.rs 3404-3488).
CompletedIsRegistered ==
    \A d \in Dispatches :
        \/ record[d].submission = "completed"
        \/ \E c \in Callers : caller[c].d = d /\ caller[c].mine.submission = "completed"
        => cloud[d] # NoRow

\* The Cloud only has rows of runs whose result will not change any more: it is whole, or
\* the process failed in the middle of it.  A refresh may take the run directory's word
\* while the process still runs, and the daemon's word whatever result there is (main.rs
\* 3371-3402, 3705-3742).
SubmittedRunIsOver ==
    \A d \in Dispatches :
        cloud[d] # NoRow => \/ result[d] \in Whole
                            \/ result[d] = "torn" /\ proc[d] = "failed"

\* What is said of a submission is true: a record that says completed has its row, and a
\* row is of a run that is over, whoever asked and whatever failed or died meanwhile
\* (main.rs 3371-3488).
SubmissionIsTrue == CompletedIsRegistered /\ SubmittedRunIsOver

\* The dispatch is on record and its whole result on disk (what WorkReachesTheCloud of
\* MCCloud starts from).
ResultIsThere(d) == record[d] # NoRecord /\ result[d] \in Whole

\* "Refresh a benchmark dispatch status record." (main.rs:4989): while no daemon
\* has died, the daemon that answers knows the job of a running dispatch.
JobsStayReachable ==
    \A d \in Dispatches :
        /\ record[d].status = "running" /\ proc[d] = "running"
        /\ sock # Nobody /\ daemon[sock] = "serving"
        => jobs[sock][d] # "unknown"

\* "Cloud submission status for the completed local latch result archive"
\* (docs/user/latch.md): the archive the Cloud has is the whole archive.
SubmittedArchiveIsWhole ==
    \A d \in Dispatches : cloud[d].archive # "partial"

\* The same of what is in the archive: the result of the run is whole.
SubmittedResultIsWhole ==
    \A d \in Dispatches : cloud[d] # NoRow => result[d] \in Whole

\* "the scriptable status record" (docs/user/latch.md): the record can be read.
RecordStaysReadable ==
    \A d \in Dispatches : record[d] # Garbled
=============================================================================
