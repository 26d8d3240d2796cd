---------------------------- MODULE RuntimeAccess ----------------------------
(***************************************************************************)
(* Access to a hosted run that is under way: `buc runs exec` and `buc runs *)
(* port-forward`, with or without --no-wait and --attach                   *)
(* (lab-cli/src/bin/buc.rs), the row of                                    *)
(* cloud.runtime_access_requests they create                               *)
(* (bucephalus-cloud/src/runtime/repository.ts), and the worker that       *)
(* serves it with a helper command (bucephalus-cloud/src/worker.ts).       *)
(*                                                                         *)
(* A worker looks for requests in two places that run side by side: once   *)
(* before it starts the core run ("start"), and after each heartbeat       *)
(* ("loop").  The loop waits for the helper command, which has no timeout, *)
(* and sends no heartbeat meanwhile.  Repository operations are single     *)
(* transactions; the version a caller reviewed is compared before the      *)
(* transaction, in a step of its own.                                      *)
(***************************************************************************)
EXTENDS Naturals

CONSTANTS
    MaxCommands, \* bound: helper commands started
    MaxFaults    \* bound: worker calls that fail or whose answer is lost

VARIABLES
    kind,      \* "exec" or "port_forward"
    row,       \* the request: status, the command its connection is of, and
               \* whether its version is the one the client has seen
    ttl,       \* "none", "ahead" or "past": expires_at
    attempt,   \* "running", "lapsed" or "ended": the attempt that serves it
    poller,    \* where "loop" and "start" are, the status they saw, what they report
    client,    \* the command line that asked: where it is, what it does when its tunnel has
               \* ended, and how it exited: "ok" and "error", or well with the request
               \* "asked" for or "left" active
    exit,      \* what each helper command ended with: a code, none, or not yet
    faults,    \* bound
    ended      \* history: the row when it was first at an end

vars == <<kind, row, ttl, attempt, poller, client, exit, faults, ended>>

Pollers == {"loop", "start"}
Live    == {"requested", "accepted", "active"}
NoRow   == [status |-> "none", command |-> 0, seen |-> FALSE]
Nowhere(at) == [at |-> at, command |-> 0, status |-> "none"]

Commands == 1..MaxCommands
Started  == {c \in Commands : exit[c] # "none"}

Init ==
    /\ kind \in {"exec", "port_forward"}
    /\ row = NoRow
    /\ ttl \in {"none", "ahead"}
    /\ attempt = "running"
    /\ poller = [p \in Pollers |-> Nowhere("idle")]
    /\ client = [at |-> "start", then |-> "none", result |-> "none"]
    /\ exit = [c \in Commands |-> "none"]
    /\ faults = MaxFaults
    /\ ended = NoRow

-----------------------------------------------------------------------------
\* The row.

\* Mutant: only a request that nobody has taken up expires.
ExpiredIfRequested(r) ==
    IF r.status = "requested" /\ ttl = "past"
    THEN [r EXCEPT !.status = "expired", !.seen = FALSE] ELSE r

\* What a read finds and an update starts from: due requests are expired first.
Expired(r) ==
    IF r.status \in Live /\ ttl = "past"
    THEN [r EXCEPT !.status = "expired", !.seen = FALSE] ELSE r

\* Mutant: the report of a command is taken whatever has become of the request.
previous_statusesAny(status) ==
    IF status = "accepted" THEN {"requested", "accepted"} ELSE Live \cup {"cancelled", "expired"}

\* The statuses a worker's update may start from.
previous_statuses(status) ==
    CASE status = "accepted" -> {"requested", "accepted"}
      [] status = "active" -> {"accepted", "active"}
      [] status = "completed" -> IF kind = "exec" THEN {"accepted", "active"} ELSE {"active"}
      [] OTHER -> Live

\* A transaction leaves row r; an end is remembered.
Store(r) ==
    /\ row' = r
    /\ ended' = IF ended = NoRow /\ r.status \notin Live THEN r ELSE ended

\* updatePortForwardRequest, updateExecRequest: `done` says if the row was advanced.  A
\* refusal rolls back what the transaction has expired.
Update(status, command, done) ==
    LET ok == Expired(row).status \in previous_statuses(status)
    IN /\ done = ok
       /\ Store(IF ok THEN [status |-> status, command |-> command, seen |-> FALSE] ELSE row)

-----------------------------------------------------------------------------
\* The worker.

At(p, at) == poller[p].at = at
Goto(p, at) == poller' = [poller EXCEPT ![p] = Nowhere(at)]

\* Where a look for requests ends: the loop comes again, the start does not.
Rest(p) == IF p = "loop" THEN "idle" ELSE "done"

Wanted == IF kind = "exec" THEN Live ELSE {"requested", "accepted"}

\* processExecRequests, processPortForwardRequests: the list of the attempt's requests.
List(p) ==
    /\ At(p, "idle") /\ attempt = "running" /\ row # NoRow
    /\ LET r == Expired(row) IN
        /\ Store(r)
        /\ Goto(p, CASE r.status = "requested" -> "accept"
                     [] r.status \in Wanted \ {"requested"} -> "run"
                     [] OTHER -> Rest(p))
    /\ UNCHANGED <<kind, ttl, attempt, client, exit, faults>>

\* fulfillExecRequest, fulfillPortForwardRequest: a request that cannot be accepted is
\* left alone.
Accept(p) ==
    /\ At(p, "accept") /\ attempt = "running"
    /\ \E done \in BOOLEAN :
        /\ Update("accepted", 0, done)
        /\ Goto(p, IF done THEN "run" ELSE Rest(p))
    /\ UNCHANGED <<kind, ttl, attempt, client, exit, faults>>

\* runJsonCommand
StartCommand(p) ==
    /\ At(p, "run")
    /\ \E c \in Commands \ Started :
        /\ \A d \in Commands \ Started : c <= d
        /\ exit' = [exit EXCEPT ![c] = "running"]
        /\ poller' = [poller EXCEPT ![p] = [at |-> "running", command |-> c, status |-> "none"]]
    /\ UNCHANGED <<kind, row, ttl, attempt, client, faults, ended>>

\* What the helper says: an exit code of the user's command, a handle of a tunnel, that it
\* is not done yet, or that it failed.
Answers == IF kind = "exec" THEN {"zero", "nonzero", "accepted", "active", "failed", "expired"}
                            ELSE {"active", "accepted", "failed", "expired"}

\* execCommandAction and its like for tunnels
ActionOf(answer) == IF answer \in {"zero", "nonzero"} THEN "completed" ELSE answer

CodeOf(answer) ==
    CASE answer \in {"zero", "nonzero"} -> answer
      [] answer \in {"accepted", "active"} -> "under_way"
      [] OTHER -> "no_code"

EndCommand(p) ==
    /\ At(p, "running")
    /\ \E answer \in Answers :
        /\ exit' = [exit EXCEPT ![poller[p].command] = CodeOf(answer)]
        /\ poller' = [poller EXCEPT ![p].at = "report", ![p].status = ActionOf(answer)]
    /\ UNCHANGED <<kind, row, ttl, attempt, client, faults, ended>>

\* tryUpdateExecRequest, tryUpdatePortForwardRequest: a report that comes too late is
\* dropped.
Report(p) ==
    /\ At(p, "report") /\ attempt = "running"
    /\ \E done \in BOOLEAN : Update(poller[p].status, poller[p].command, done)
    /\ Goto(p, Rest(p))
    /\ UNCHANGED <<kind, ttl, attempt, client, exit, faults>>

\* A call fails, or is refused because the attempt is over, or its answer is lost; the
\* error is logged and the request is met again at the next look.
CallFails(p) ==
    /\ poller[p].at \in {"accept", "report"}
    /\ \/ attempt # "running" /\ UNCHANGED <<row, ended, faults>>
       \/ /\ attempt = "running" /\ faults > 0 /\ faults' = faults - 1
          /\ \/ UNCHANGED <<row, ended>>
             \/ \E done \in BOOLEAN :
                    IF At(p, "accept") THEN Update("accepted", 0, done)
                    ELSE Update(poller[p].status, poller[p].command, done)
    /\ Goto(p, Rest(p))
    /\ UNCHANGED <<kind, ttl, attempt, client, exit>>

\* No heartbeat is sent while the loop waits for a command.
LeaseLapses ==
    /\ attempt = "running" /\ At("loop", "running")
    /\ attempt' = "lapsed"
    /\ UNCHANGED <<kind, row, ttl, poller, client, exit, faults, ended>>

\* The core run is over, and with it the attempt.
AttemptEnds ==
    /\ attempt = "running"
    /\ attempt' = "ended"
    /\ UNCHANGED <<kind, row, ttl, poller, client, exit, faults, ended>>

-----------------------------------------------------------------------------
\* Time, and other users.

TtlPasses ==
    /\ ttl = "ahead" /\ row # NoRow
    /\ ttl' = "past"
    /\ UNCHANGED <<kind, row, attempt, poller, client, exit, faults, ended>>

\* Somebody looks at the run: listPortForwards, listExecRequests.
Read ==
    /\ row # NoRow
    /\ Store(Expired(row))
    /\ UNCHANGED <<kind, ttl, attempt, poller, client, exit, faults>>

\* Somebody cancels the request they have looked at; it may be due by then.
Cancel ==
    /\ row.status \in Live
    /\ Store([row EXCEPT !.status = "cancelled", !.seen = FALSE])
    /\ UNCHANGED <<kind, ttl, attempt, poller, client, exit, faults>>

-----------------------------------------------------------------------------
\* The command line.

Client(at) == client.at = at
Answer(result) == client' = [client EXCEPT !.at = "done", !.result = result]

\* createExecRequest, createPortForwardRequest: the attempt must be running.  With
\* --no-wait that is all.
Create ==
    /\ Client("start")
    /\ \/ /\ attempt = "running"
          /\ Store([status |-> "requested", command |-> 0, seen |-> FALSE])
          /\ client' = [client EXCEPT !.at = "wait"] \/ Answer("asked")
       \/ attempt # "running" /\ Answer("error") /\ UNCHANGED <<row, ended>>
    /\ UNCHANGED <<kind, ttl, attempt, poller, exit, faults>>

\* runtime_access_wait_finished
WaitFinished(r) ==
    r.status \in {"failed", "expired", "cancelled",
                  IF kind = "exec" THEN "completed" ELSE "active"}

\* ensure_runtime_exec_success, ensure_runtime_port_forward_success: without --attach an
\* active tunnel is left to others.
Poll ==
    /\ Client("wait")
    /\ LET r == Expired(row) IN
        /\ WaitFinished(r)
        /\ Store([r EXCEPT !.seen = (r.status = "active")])
        /\ CASE r.status = "completed" ->
                  Answer(IF exit[r.command] = "zero" THEN "ok" ELSE "error")
             [] r.status = "active" ->
                  client' = [client EXCEPT !.at = "attached"] \/ Answer("left")
             [] OTHER -> Answer("error")
    /\ UNCHANGED <<kind, ttl, attempt, poller, exit, faults>>

WaitTimesOut ==
    /\ Client("wait")
    /\ Answer("error")
    /\ UNCHANGED <<kind, row, ttl, attempt, poller, exit, faults, ended>>

\* run_runtime_port_forward_attach: the local tunnel ends, well or not, and is to be
\* cleaned up; an endpoint of the worker's own is shown and left; and what says neither
\* which tunnel nor which endpoint (runtime_port_forward_attach_plan) is an error.
AttachEnds ==
    /\ Client("attached")
    /\ \/ \E op \in {"complete", "cancel"} : client' = [client EXCEPT !.at = "check", !.then = op]
       \/ Answer("left") \/ Answer("error")
    /\ UNCHANGED <<kind, row, ttl, attempt, poller, exit, faults, ended>>

\* The statuses the clean-up may start from.
CleanupFrom == IF client.then = "complete" THEN {"active"} ELSE Live

\* assertRuntimeResourceVersionPrecondition, assertRuntimeResourceSupportsAction
Check ==
    /\ Client("check")
    /\ LET r == Expired(row) IN
        /\ Store(r)
        /\ IF r.seen /\ r.status \in CleanupFrom
           THEN client' = [client EXCEPT !.at = "apply"] ELSE Answer("error")
    /\ UNCHANGED <<kind, ttl, attempt, poller, exit, faults>>

\* completePortForwardRequest, cancelPortForwardRequest
Apply ==
    /\ Client("apply")
    /\ IF row.status \in CleanupFrom
       THEN /\ Store([row EXCEPT !.seen = FALSE,
                        !.status = IF client.then = "complete" THEN "completed" ELSE "cancelled"])
            /\ Answer(IF client.then = "complete" THEN "ok" ELSE "error")
       ELSE Answer("error") /\ UNCHANGED <<row, ended>>
    /\ UNCHANGED <<kind, ttl, attempt, poller, exit, faults>>

-----------------------------------------------------------------------------
WorkerStep(p) ==
    List(p) \/ Accept(p) \/ StartCommand(p) \/ EndCommand(p) \/ Report(p) \/ CallFails(p)

ClientStep == Create \/ Poll \/ WaitTimesOut \/ AttachEnds \/ Check \/ Apply

Next ==
    \/ \E p \in Pollers : WorkerStep(p)
    \/ LeaseLapses \/ AttemptEnds \/ TtlPasses \/ Read \/ Cancel
    \/ ClientStep

\* Time passes and a wait has a deadline.  A request is only seen through a read.
Spec ==
    /\ Init /\ [][Next]_vars
    /\ WF_vars(TtlPasses) /\ WF_vars(Read)
    /\ WF_vars(Poll \/ WaitTimesOut) /\ WF_vars(Check \/ Apply)

-----------------------------------------------------------------------------
\* A request that has ended stays as it ended: no report that was on its way, no second
\* look and no cancellation changes it (updateExecRequest, isStaleRuntimeAccessUpdate).
EndIsFinal == ended # NoRow => row = ended

\* The command line says that a command or a tunnel ended well only of a request that is
\* completed; of a command only if it came back with zero.  A tunnel that it left active
\* is so or has ended, and does not go back to one that is being set up
\* (ensure_runtime_exec_success, run_client_endpoint_port_forward_attach).
SuccessIsReal ==
    /\ client.result = "ok" =>
          row.status = "completed" /\ (kind = "exec" => exit[row.command] = "zero")
    /\ client.result = "left" => row.status \notin {"none", "requested", "accepted"}

\* A request that can expire comes to its end for whoever looks at it, whatever became
\* of its worker (expireRuntimeAccessRequests).
CanExpire == ttl # "none" /\ row # NoRow
RequestsEnd == CanExpire ~> [](row.status \notin Live)

\* Without the exceptions.  A user's command is run once, unless the helper says that it
\* is still under way; but both looks of the worker may run it.
CommandRunsOnce == kind = "exec" =>
    \A c, d \in Started : c # d => \E e \in {c, d} : exit[e] = "under_way"

\* Whoever exits well has had what it asked for; but a request may be left active or only
\* asked for.
ExitIsCompletion == client.result \in {"ok", "left", "asked"} => row.status = "completed"

\* A tunnel that has ended is not left active; but a second activation changes the
\* version that the clean-up compares.
AttachedIsCleanedUp ==
    client.at = "done" /\ client.then # "none" => row.status \notin Live

\* Serving a request does not cost the run its lease; but no heartbeat is sent meanwhile.
LeaseOutlivesAccess == attempt # "lapsed"
=============================================================================
