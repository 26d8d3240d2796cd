--------------------------- MODULE TrialConclusion ---------------------------
(***************************************************************************)
(* What a trial is recorded as.  A worker prepares the trial, runs attempts*)
(* until one is not to be retried (experiment/runner.rs), and turns what   *)
(* the last one left into a trial record, a trial state and the status of  *)
(* its slot (trial/schedule.rs).  An attempt runs the agent, reads its     *)
(* result, and, in a graded experiment, captures the agent's declared      *)
(* output, runs the grader on it and makes its exit and its output the     *)
(* conclusion (trial/execution/local_docker.rs).                           *)
(*                                                                         *)
(* Agent and grader write to one directory of the trial, which all attempts*)
(* share.  A file is known by the attempt that wrote it and by how far it  *)
(* can be used: "bad" does not parse, "odd" parses but lacks what is asked *)
(* of it.  The mapped grader output and the transport envelope are written *)
(* before they are read in every attempt and are left out.                 *)
(***************************************************************************)
EXTENDS Integers

CONSTANT MaxAttempts

VARIABLES
  conf,        \* the experiment
  pc, attempt,
  out,         \* the files of the out directory
  agent,       \* agent_exit_status of this attempt
  response,    \* the result file as it was read
  grader,      \* how the grader of this attempt ended
  row,         \* reported_outcome of trial_conclusion_row
  grade_error, \* grade_error_reason is some
  given_up,    \* an earlier attempt was a success and was retried
  record,      \* the buffered trial record
  state,       \* status in trial_state.json
  slot,        \* slot_status
  unmarked     \* history: the state of a trial that failed could not be written

phaseVars == <<agent, response, grader, row, grade_error>>
endVars == <<given_up, record, state, slot, unmarked>>
vars == <<conf, pc, attempt, out, phaseVars, endVars>>

Files == {"result", "agent_output", "grader_output"}
Contents == {"none", "bad", "odd", "good"}
Absent == [of |-> 0, content |-> "none"]
NoRecord == [outcome |-> "none", success |-> FALSE]

\* grading: none, by a grader in a container or by one on the host.  Where there is none
\* the agent may be on the host, and no declared output is read.
Confs ==
  {c \in [grading : {"none", "container", "host"}, site : {"container", "host"},
          adapter : BOOLEAN,   \* the agent has a structured_json adapter
          required : BOOLEAN,  \* the declared outputs are required
          retry_on : {{}, {"error", "timeout"}, {"failure"}},
          max : {0, MaxAttempts}] :
     IF c.grading = "none" THEN ~c.required ELSE c.site = "container"}

Exits == {"0", "nonzero", "timeout"}
Outcomes == {"success", "failure", "timeout", "missing", "error", "grading_failed"}
Over == {"ok", "err"}

\* Every variable has a value of its type.
ConclusionTypeOK ==
  /\ conf \in Confs
  /\ pc \in {"new", "next", "agent", "read", "capture", "grader", "collect", "decide",
             "buffer", "classify", "publish"} \cup Over
  /\ attempt \in 0 .. MaxAttempts
  /\ out \in [Files -> [of : 0 .. MaxAttempts, content : Contents]]
  /\ agent \in Exits \cup {"none"} /\ grader \in Exits \cup {"none"}
  /\ response \in [of : 0 .. MaxAttempts, content : Contents]
  /\ row \in {"none", "success", "failure", "timeout"}
  /\ grade_error \in BOOLEAN /\ given_up \in BOOLEAN
  /\ record = NoRecord \/ record \in [outcome : Outcomes, success : BOOLEAN]
  /\ state \in {"none", "running", "completed", "failed"}
  /\ slot \in {"none", "completed", "failed", "grading_failed"}
  /\ unmarked \in BOOLEAN

Init ==
  /\ conf \in Confs
  /\ pc = "new" /\ attempt = 0
  /\ out = [f \in Files |-> Absent]
  /\ agent = "none" /\ response = Absent
  /\ grader = "none" /\ row = "none" /\ grade_error = FALSE
  /\ given_up = FALSE
  /\ record = NoRecord
  /\ state = "none" /\ slot = "none" /\ unmarked = FALSE

Graded == conf.grading # "none"

-----------------------------------------------------------------------------
(* Preparation, and an attempt up to the agent's end.                      *)

\* The state is written once the trial has a directory.
Prepare ==
  /\ pc = "new"
  /\ pc' = "next" /\ state' = "running"
  /\ UNCHANGED <<conf, attempt, out, phaseVars, given_up, record, slot, unmarked>>

\* Mutant: the files of the earlier attempt stay.
ClearNothing == out

\* Of the files that are read later only the result is removed.
ClearedOut == [out EXCEPT !["result"] = Absent]

BeginAttempt ==
  /\ pc = "next" /\ attempt < conf.max
  /\ attempt' = attempt + 1
  /\ out' = ClearedOut
  /\ agent' = "none" /\ response' = Absent
  /\ grader' = "none" /\ row' = "none" /\ grade_error' = FALSE
  /\ pc' = "agent"
  /\ UNCHANGED <<conf, endVars>>

\* f is left alone or written by this attempt.
Written(f, c) == IF c = "none" THEN out[f] ELSE [of |-> attempt, content |-> c]

\* The agent in a container is killed when its time is up; the one on the host runs
\* as long as it likes.
AgentEnds(exit, result, output) ==
  /\ pc = "agent"
  /\ exit = "timeout" => conf.site = "container"
  /\ agent' = exit
  /\ out' = [out EXCEPT !["result"] = Written("result", result),
                        !["agent_output"] = Written("agent_output", output)]
  /\ pc' = "read"
  /\ UNCHANGED <<conf, attempt, response, grader, row, grade_error, endVars>>

\* normalize_agent_result_adapter fails on a result it cannot make an envelope of;
\* without an adapter such a result is read as it is.  A timeout ends the attempt.
ReadResult ==
  /\ pc = "read"
  /\ conf.adapter => out["result"].content \in {"none", "good"}
  /\ response' = out["result"]
  /\ IF agent = "timeout" THEN pc' = "decide" /\ grade_error' = TRUE
     ELSE pc' = (IF Graded THEN "capture" ELSE "decide") /\ UNCHANGED grade_error
  /\ UNCHANGED <<conf, attempt, out, agent, grader, row, endVars>>

-----------------------------------------------------------------------------
(* Grading.                                                                *)

\* capture_runtime_output: a file that is not there counts as null unless it is
\* required; one that does not parse is an error.
Captured(f) ==
  /\ out[f].content # "bad"
  /\ conf.required => out[f].content # "none"

CaptureAgentOutputs ==
  /\ pc = "capture" /\ Captured("agent_output")
  /\ pc' = "grader"
  /\ UNCHANGED <<conf, attempt, out, phaseVars, endVars>>

\* The grader on the host is not timed.
RunGrader(exit, output) ==
  /\ pc = "grader"
  /\ exit = "timeout" => conf.grading = "container"
  /\ grader' = exit
  /\ out' = [out EXCEPT !["grader_output"] = Written("grader_output", output)]
  /\ pc' = "collect"
  /\ UNCHANGED <<conf, attempt, agent, response, row, grade_error, endVars>>

reported_outcome ==
  CASE grader = "timeout" -> "timeout" [] grader = "0" -> "success" [] OTHER -> "failure"

\* An output without a metric is an error if the metric is required; otherwise the
\* conclusion, read back, may still not be one its schema allows.
Conclude ==
  /\ pc = "collect" /\ Captured("grader_output")
  /\ \/ row' = reported_outcome /\ UNCHANGED grade_error
     \/ out["grader_output"].content = "odd" /\ grade_error' = TRUE /\ UNCHANGED row
  /\ pc' = "decide"
  /\ UNCHANGED <<conf, attempt, out, agent, response, grader, endVars>>

-----------------------------------------------------------------------------
(* Retrying.                                                               *)

agent_response_execution_outcome ==
  CASE agent = "timeout" -> "timeout"
    [] agent = "nonzero" -> "error"
    [] OTHER -> CASE response.content = "none" -> "missing"
                  [] response.content = "bad" -> "error"
                  [] OTHER -> "success"

\* Outcome and exit status.
grading_retry_inputs ==
  IF ~Graded THEN <<agent_response_execution_outcome, agent>>
  ELSE IF agent = "timeout" THEN <<"timeout", "timeout">>
  ELSE <<IF grade_error \/ row = "none" THEN "error" ELSE row, "0">>

should_retry_outcome(outcome, status) ==
  IF conf.retry_on = {} THEN outcome = "error" \/ status # "0"
  ELSE \/ "error" \in conf.retry_on /\ outcome = "error"
       \/ "failure" \in conf.retry_on /\ status # "0"
       \/ "timeout" \in conf.retry_on /\ outcome = "timeout"

TrialOutcome ==
  CASE ~Graded \/ agent = "timeout" -> agent_response_execution_outcome
    [] Graded /\ agent # "timeout" /\ grade_error -> "grading_failed"
    [] OTHER -> IF row = "none" THEN "missing" ELSE row

Success == TrialOutcome = "success" /\ ~grade_error

Decide ==
  /\ pc = "decide"
  /\ IF /\ attempt < conf.max
        /\ should_retry_outcome(grading_retry_inputs[1], grading_retry_inputs[2])
     THEN pc' = "next" /\ given_up' = (given_up \/ Success)
     ELSE pc' = "buffer" /\ UNCHANGED given_up
  /\ UNCHANGED <<conf, attempt, out, phaseVars, record, state, slot, unmarked>>

-----------------------------------------------------------------------------
(* finalize_scheduled_trial.                                               *)

\* The rows go to a buffer that an error discards.
BufferRecord ==
  /\ pc = "buffer"
  /\ record' = [outcome |-> TrialOutcome, success |-> Success]
  /\ pc' = "classify"
  /\ UNCHANGED <<conf, attempt, out, phaseVars, given_up, state, slot, unmarked>>

\* Why the trial failed, "none" if it did not.
failure_classification ==
  CASE Graded -> IF grade_error THEN "grade_error" ELSE "none"
    [] ~Graded /\ agent # "0" -> "agent_exit_nonzero"
    [] ~Graded /\ agent = "0" /\ response.content = "none" -> "result_missing"
    [] ~Graded /\ agent = "0" /\ response.content = "bad" -> "result_parse_error"
    [] OTHER -> IF TrialOutcome # "error" THEN "none" ELSE "result_error"

ClassifiedState == IF failure_classification = "none" THEN "completed" ELSE "failed"

\* TrialStateGuard::complete.
Classify ==
  /\ pc = "classify"
  /\ state' = ClassifiedState
  /\ pc' = "publish"
  /\ UNCHANGED <<conf, attempt, out, phaseVars, given_up, record, slot, unmarked>>

slot_status ==
  CASE Graded /\ agent = "timeout" -> "failed"
    [] Graded /\ agent # "timeout" -> IF grade_error THEN "grading_failed" ELSE "completed"
    [] OTHER -> IF agent = "0" /\ TrialOutcome # "error" THEN "completed" ELSE "failed"

\* The surface of the trial is laid out, which in two of four modes removes the
\* state, the scratch directory is removed, and the result goes to the engine.
Publish(keep) ==
  /\ pc = "publish"
  /\ slot' = slot_status
  /\ state' = IF keep THEN state ELSE "none"
  /\ pc' = "ok"
  /\ UNCHANGED <<conf, attempt, out, phaseVars, given_up, record, unmarked>>

\* The state the guard leaves when it is dropped: failed.  There is none before the first
\* write and none to be changed after TrialStateGuard::complete, where the layout may have
\* removed the state.
Aborted ==
  CASE pc = "new" -> {"none", "failed"}
    [] pc = "publish" -> {state, "none"}
    [] OTHER -> {"failed"}

\* The state if that write fails, of which the guard only warns: the one before, which may
\* be of a complete() that failed once its file was in place.
Unwritten ==
  CASE pc = "classify" -> {"running", ClassifiedState}
    [] pc = "publish" -> {}
    [] OTHER -> {"running"}

\* Mutant: an error is returned without the guard.
FailsUnguarded ==
  /\ pc \notin Over
  /\ pc' = "err"
  /\ record' = NoRecord
  /\ UNCHANGED <<conf, attempt, out, phaseVars, given_up, state, slot, unmarked>>

\* Any step may fail, reading what it cannot use or with the disk or with Docker; the
\* error is not retried.
Fails ==
  /\ pc \notin Over
  /\ pc' = "err"
  /\ record' = NoRecord
  /\ \/ state' \in Aborted /\ UNCHANGED unmarked
     \/ state' \in Unwritten /\ unmarked' = TRUE
  /\ UNCHANGED <<conf, attempt, out, phaseVars, given_up, slot>>

Done == pc \in Over /\ UNCHANGED vars

Agent ==
  \E exit \in Exits, result \in Contents,
     output \in IF Graded THEN {"none", "bad", "good"} ELSE {"none"} :
    AgentEnds(exit, result, output)
Grader == \E exit \in Exits, output \in Contents : RunGrader(exit, output)

Worker ==
  \/ Prepare \/ BeginAttempt \/ ReadResult \/ CaptureAgentOutputs \/ Conclude \/ Decide
  \/ BufferRecord \/ Classify \/ \E keep \in BOOLEAN : Publish(keep)

\* What the worker does itself, it does or fails to do.
OwnStep == Worker \/ (Fails /\ pc \notin {"agent", "grader"})

Next == Worker \/ Agent \/ Grader \/ Fails \/ Done

\* What is on the host is waited for and may never end; what is in a container is
\* timed.
Spec ==
  /\ Init /\ [][Next]_vars
  /\ WF_vars(OwnStep)
  /\ WF_vars(Agent /\ conf.site = "container")
  /\ WF_vars(Grader /\ conf.grading = "container")

-----------------------------------------------------------------------------
\* A trial is recorded a success only for what its last attempt did: its grader ended
\* with 0, or, where there is none, its agent did and wrote a result that parses; and
\* its slot is then a completed one (finalize_scheduled_trial,
\* execute_scheduled_trial_attempt).
SuccessIsEarned ==
  record.success =>
    /\ agent # "timeout"
    /\ Graded => grader = "0"
    /\ ~Graded => agent = "0" /\ response.of = attempt /\ response.content # "bad"
    /\ pc = "ok" => slot = "completed"

\* The attempt that is retried is never one that would have been recorded a success
\* (grading_retry_inputs, should_retry_outcome).
SuccessIsKept == ~given_up

\* A trial that has returned is not left running unless the write that would say so failed
\* itself, and its state and the status of its slot agree, except where an agent that is not
\* graded ended with 0 and left no result (TrialStateGuard, finalize_scheduled_trial).
StateAgreesWithSlot ==
  /\ pc \in Over /\ ~unmarked => state # "running"
  /\ pc = "ok" /\ state # "none" /\ ~(~Graded /\ agent = "0" /\ response.content = "none")
       => (state = "completed" <=> slot = "completed")

\* A trial that has returned is not left running.  It is, when the guard cannot write
\* (TrialStateGuard::drop).
ReturnedIsNotRunning == pc \in Over => state # "running"

\* A conclusion is drawn from what its own attempt wrote.  It is not: the declared
\* outputs of an earlier attempt are still there (execute_scheduled_trial_attempt).
ConcludedFromItsOwnOutput ==
  pc = "decide" /\ row # "none" =>
    \A f \in {"agent_output", "grader_output"} : out[f].of \in {0, attempt}

\* A slot is not completed when its trial failed.  It is, without a result
\* (finalize_scheduled_trial).
FailedIsNotCompleted == pc = "ok" /\ state = "failed" => slot # "completed"

\* A trial that ended with an error is not marked completed.  It is, when what follows
\* TrialStateGuard::complete fails (finalize_scheduled_trial).
ErrorIsNotCompleted == pc = "err" => state # "completed"

\* The worker is done, or waits for what is on the host and is not timed.
Concluded ==
  \/ pc \in Over
  \/ pc = "agent" /\ conf.site = "host"
  \/ pc = "grader" /\ conf.grading = "host"
=============================================================================
