------------------------------ MODULE LatchRun ------------------------------
(***************************************************************************)
(* A latch run (lab-runner/src/latch.rs): the cases of a manifest, one     *)
(* after the other, with an agent that is a process of the host, and with  *)
(* the steps of a case materialisation (trial/materialization.rs) before   *)
(* and after it.                                                           *)
(*                                                                         *)
(* A case has a directory named after its id.  The runner seeds a          *)
(* workspace there, starts the agent, polls it until it exits, runs out of *)
(* time or leaves the workspace alone for too long, captures the diff,     *)
(* adds what was kept from the agent, and grades.  Any error but that of   *)
(* the diff ends the whole run.                                            *)
(*                                                                         *)
(* A workspace is a set of <<what, case>>: what the case's seed, its       *)
(* agent, a process that outlived the agent, or a hidden step put there.   *)
(* Neither contents nor the grader's own work is modelled: a check of a    *)
(* file's contents passes or not.                                          *)
(***************************************************************************)
EXTENDS Integers, Sequences, FiniteSetsExt

CONSTANTS
  CaseCount,   \* the cases of the manifest
  Graders,     \* the kinds of graders a manifest may declare; "unchanged" is a diff that
               \* is to be empty, "file" a match, regex or json
  Wall,        \* timeout_seconds, in polls
  Idle,        \* idle_timeout_seconds, in polls; 0 when there is none
  OnStdin      \* task_injection is Stdin

\* A manifest has a case, and the limits are whole numbers of polls.
NumbersOK == CaseCount \in Nat \ {0} /\ Wall \in Nat /\ Idle \in Nat

ASSUME LatchRunAssumption == NumbersOK

Cases == 1 .. CaseCount

VARIABLES
  dir,        \* of each case, the first case whose id gives the same directory name
  grader,     \* the grader of the cases: the manifest's default
  point,      \* where the runner is
  case,       \* the case it is at
  agent,      \* the child: "none", "running", "zero", "other" (exited), "killed"
  age,        \* time since the agent was started
  still,      \* time since last_workspace_change
  silent,     \* time since the agent wrote to its workspace
  seen,       \* last_fingerprint is of the workspace as it is, as it was, or of none
  walked,     \* what the last walk found: the "same" fingerprint, a "new" one, or "lost" it;
              \* "passed" and "stale" when there was a write after the walk
  loose,      \* the cases whose agent left a process behind
  ws,         \* the workspace in each directory
  base,       \* the tree of prepare_workspace_baseline, or <<>> when it failed
  patch,      \* of the case: what the diff holds, or <<>> when there is none
  output,     \* the case whose grader wrote each directory's grader_output.json, or 0
  ending,     \* of the case: how the agent ended
  results     \* of each case that is through: whether its agent ran, what its diff holds,
              \* its grade and the case whose work or output that goes back to

watchVars == <<age, still, silent, seen, walked>>
caseVars == <<base, patch, ending>>
latchVars == <<dir, grader, point, case, agent, watchVars, loose, ws, caseVars, output, results>>

Points == {"begin", "open", "seed", "visible", "baseline", "spawn", "feed", "look", "child",
           "clock", "idle", "compare", "terminate", "capture", "hidden", "grade", "finish",
           "done", "failed"}

Tags == {"seed", "visible", "work", "late", "hidden"} \X Cases

Dir == dir[case]
Workspace == ws[Dir]
Over == point \in {"done", "failed"}

\* A case that finds in its directory what an earlier case of the run left there:
\* validate_manifest compares no ids, and sanitize_for_fs may give two the same name.
Shares(c) == \E e \in Cases : e < c /\ dir[e] = dir[c]

\* Every variable has a value of its type.
LatchTypeOK ==
  /\ dir \in [Cases -> Cases] /\ grader \in Graders
  /\ point \in Points /\ case \in Cases
  /\ agent \in {"none", "running", "zero", "other", "killed"}
  /\ age \in 0 .. Wall /\ still \in 0 .. Wall /\ silent \in 0 .. Wall
  /\ seen \in {"as_it_is", "as_it_was", "none"}
  /\ walked \in {"same", "passed", "new", "stale", "lost"}
  /\ loose \subseteq Cases
  /\ ws \in [Cases -> SUBSET Tags]
  /\ output \in [Cases -> 0 .. CaseCount]
  /\ ending \in {"none", "Completed", "Errored", "TimedOut", "IdleTimedOut"}
  /\ Len(results) \in 0 .. CaseCount

Init ==
  /\ dir \in {f \in [Cases -> Cases] : \A c \in Cases : f[c] <= c /\ f[f[c]] = f[c]}
  /\ grader \in Graders
  /\ point = "begin" /\ case = 1 /\ agent = "none"
  /\ age = 0 /\ still = 0 /\ silent = 0 /\ seen = "as_it_is" /\ walked = "same"
  /\ loose = {} /\ ws = [d \in Cases |-> {}] /\ output = [d \in Cases |-> 0]
  /\ base = <<>> /\ patch = <<>> /\ ending = "none" /\ results = <<>>

Put(what) == ws' = [ws EXCEPT ![Dir] = @ \cup {<<what, case>>}]

(* run_latch_manifest validates, resolves the launch and makes a directory of its own: *)
(* create_dir, with another name when the name is taken.                               *)
Begin ==
  /\ point = "begin" /\ point' = "open"
  /\ UNCHANGED <<dir, grader, case, agent, watchVars, loose, ws, caseVars, output, results>>

(* A `?` of any step, try_wait's too; an agent that runs then is left to itself. *)
Fail ==
  /\ point \in {"begin", "open", "seed", "visible", "spawn", "child", "hidden", "grade",
               "finish"}
  /\ point' = "failed"
  /\ UNCHANGED <<dir, grader, case, agent, watchVars, loose, ws, caseVars, output, results>>

(* The case result is written and pushed; the run goes on with the next case. *)
Push(result) ==
  /\ results' = Append(results, result)
  /\ IF case = CaseCount THEN point' = "finish" /\ case' = case
                         ELSE point' = "open" /\ case' = case + 1
  /\ base' = <<>> /\ patch' = <<>> /\ ending' = "none" /\ agent' = "none"
  /\ UNCHANGED watchVars

(* The directories of the case are there or are made.  What its grader requires is looked *)
(* for, unless there is none; a case that lacks something is over before it starts.       *)
Open ==
  /\ point = "open" /\ point' = "seed"
  /\ UNCHANGED <<dir, grader, case, agent, watchVars, loose, ws, caseVars, output, results>>

Decline ==
  /\ point = "open" /\ grader # "none"
  /\ Push([grade |-> "Declined", by |-> 0, diff |-> {}, ran |-> FALSE])
  /\ UNCHANGED <<dir, grader, loose, ws, output>>

(* The seed is copied, unpacked or cloned, and the steps that the agent may see are run. *)
Seed ==
  /\ point = "seed" /\ point' = "visible"
  /\ Put("seed")
  /\ UNCHANGED <<dir, grader, case, agent, watchVars, loose, caseVars, output, results>>

ShowVisible ==
  /\ point = "visible" /\ point' = "baseline"
  /\ Put("visible")
  /\ UNCHANGED <<dir, grader, case, agent, watchVars, loose, caseVars, output, results>>

(* git add -A and write-tree; an error is kept for the diff. *)
Baseline ==
  /\ point = "baseline" /\ point' = "spawn"
  /\ base' \in {<<Workspace>>, <<>>}
  /\ UNCHANGED <<dir, grader, case, agent, watchVars, loose, ws, patch, ending, output, results>>

Spawn ==
  /\ point = "spawn"
  /\ agent' = "running"
  /\ point' = IF OnStdin THEN "feed" ELSE "look"
  /\ UNCHANGED <<dir, grader, case, watchVars, loose, ws, caseVars, output, results>>

(* write_all of the prompt: all of it fits or is read, or the agent has closed its end,   *)
(* which is an error of the run.  An agent that does neither keeps the runner here; no    *)
(* time limit has begun.                                                                  *)
Feed ==
  /\ point = "feed" /\ point' \in {"look", "failed"}
  /\ UNCHANGED <<dir, grader, case, agent, watchVars, loose, ws, caseVars, output, results>>

(* What workspace_fingerprint gives: of the workspace as it is, or of none when a file    *)
(* goes away under the walk.                                                              *)
Fingerprints == {"as_it_is", "none"}

(* The clocks start here. *)
Look ==
  /\ point = "look" /\ point' = "child"
  /\ seen' \in Fingerprints
  /\ silent' = 0
  /\ UNCHANGED <<dir, grader, case, agent, age, still, walked, loose, ws, caseVars, output, results>>

Ended(status) == ending' = status /\ point' = "capture"

PollChild ==
  /\ point = "child"
  /\ \/ agent = "running" /\ point' = "clock" /\ UNCHANGED ending
     \/ agent = "zero" /\ Ended("Completed")
     \/ agent = "other" /\ Ended("Errored")
  /\ UNCHANGED <<dir, grader, case, agent, watchVars, loose, ws, base, patch, output, results>>

\* Mutant: the child is sent its signal and not waited for.
TerminateAndGo(status) == UNCHANGED agent /\ Ended(status)

(* terminate_child kills the child, not what the child has started, and waits for it; one *)
(* that has exited since it was polled is none the better for it.                         *)
Terminate(status) == agent' = "killed" /\ Ended(status)

\* Mutant: the limit is left to the look at the workspace.
PollNoClock ==
  /\ point = "clock" /\ point' = "idle"
  /\ UNCHANGED <<dir, grader, case, agent, watchVars, loose, ws, caseVars, output, results>>

PollClock ==
  /\ point = "clock"
  /\ IF age >= Wall THEN Terminate("TimedOut")
                    ELSE point' = "idle" /\ UNCHANGED <<agent, ending>>
  /\ UNCHANGED <<dir, grader, case, watchVars, loose, ws, base, patch, output, results>>

(* The workspace is walked; two walks that failed give the same.  The agent runs on. *)
PollWalk ==
  /\ point = "idle"
  /\ \/ Idle = 0 /\ point' = "child" /\ UNCHANGED walked
     \/ /\ Idle > 0 /\ point' = "compare"
        /\ \E current \in Fingerprints :
             walked' = IF current = seen THEN "same" ELSE IF current = "none" THEN "lost" ELSE "new"
  /\ UNCHANGED <<dir, grader, case, agent, age, still, silent, seen, loose, ws, caseVars, output,
                 results>>

\* Mutant: a new fingerprint is kept and the clock of the last change is not set.
CompareNoReset ==
  /\ point = "compare"
  /\ seen' = CASE walked = "new" -> "as_it_is" [] walked = "stale" -> "as_it_was"
               [] walked = "lost" -> "none" [] OTHER -> seen
  /\ point' = IF walked \in {"same", "passed"} /\ still >= Idle THEN "terminate" ELSE "child"
  /\ UNCHANGED <<dir, grader, case, agent, age, still, silent, walked, loose, ws, caseVars, output,
                 results>>

(* What the walk found is compared with last_fingerprint, whatever has been written since. *)
PollCompare ==
  /\ point = "compare"
  /\ \/ /\ walked \in {"same", "passed"}
        /\ point' = IF still >= Idle THEN "terminate" ELSE "child"
        /\ UNCHANGED <<seen, still>>
     \/ /\ walked \in {"new", "stale", "lost"}
        /\ seen' = CASE walked = "new" -> "as_it_is" [] walked = "stale" -> "as_it_was"
                     [] walked = "lost" -> "none"
        /\ still' = 0 /\ point' = "child"
  /\ UNCHANGED <<dir, grader, case, agent, age, silent, walked, loose, ws, caseVars, output, results>>

(* An agent that was found idle is killed without another look. *)
PollTerminate ==
  /\ point = "terminate" /\ Terminate("IdleTimedOut")
  /\ UNCHANGED <<dir, grader, case, watchVars, loose, ws, base, patch, output, results>>

Watched == point \in {"child", "clock", "idle", "compare", "terminate"}

(* A write that comes after the walk and before what the runner does about it. *)
Overtaken ==
  IF point \notin {"compare", "terminate"} THEN walked
  ELSE CASE walked = "same" -> "passed" [] walked = "new" -> "stale" [] OTHER -> walked

Later(t) == IF t < Wall THEN t + 1 ELSE t

(* Time passes, whatever the runner is about to look at. *)
Tick ==
  /\ Watched /\ age < Wall
  /\ age' = age + 1 /\ still' = Later(still) /\ silent' = Later(silent)
  /\ UNCHANGED <<dir, grader, point, case, agent, seen, walked, loose, ws, caseVars, output, results>>

(* The agent: it changes its workspace, starts a process that may outlive it, and ends. *)
AgentWrites ==
  /\ agent = "running"
  /\ Put("work") /\ silent' = 0
  /\ seen' = IF seen = "none" THEN "none" ELSE "as_it_was"
  /\ walked' = Overtaken
  /\ UNCHANGED <<dir, grader, point, case, agent, age, still, loose, caseVars, output, results>>

AgentForks ==
  /\ agent = "running" /\ case \notin loose
  /\ loose' = loose \cup {case}
  /\ UNCHANGED <<dir, grader, point, case, agent, watchVars, ws, caseVars, output, results>>

AgentExits ==
  /\ agent = "running" /\ agent' \in {"zero", "other"}
  /\ UNCHANGED <<dir, grader, point, case, watchVars, loose, ws, caseVars, output, results>>

(* What an agent left behind writes to that agent's workspace, and goes. *)
LooseWrites ==
  \E c \in loose :
    /\ c < case \/ agent \notin {"none", "running"}
    /\ loose' = loose \ {c}
    /\ ws' = [ws EXCEPT ![dir[c]] = @ \cup {<<"late", c>>}]
    /\ seen' = IF dir[c] = Dir /\ seen # "none" THEN "as_it_was" ELSE seen
    /\ walked' = IF dir[c] = Dir THEN Overtaken ELSE walked
    /\ UNCHANGED <<dir, grader, point, case, agent, age, still, silent, caseVars, output, results>>

(* git diff against the baseline; without a baseline, or when git fails, there is no diff *)
(* and the case goes on.  An empty diff makes no file.                                    *)
Capture ==
  /\ point = "capture" /\ point' = "hidden"
  /\ patch' \in {<<>>} \cup
       (IF base # <<>> /\ Workspace # base[1] THEN {<<Workspace \ base[1]>>} ELSE {})
  /\ base' = <<>>
  /\ age' = 0 /\ still' = 0 /\ silent' = 0 /\ seen' = "as_it_is" /\ walked' = "same"
  /\ UNCHANGED <<dir, grader, case, agent, loose, ws, ending, output, results>>

(* The steps that are hidden or of the grader's stage. *)
AddHidden ==
  /\ point = "hidden" /\ point' = "grade"
  /\ Put("hidden")
  /\ UNCHANGED <<dir, grader, case, agent, watchVars, loose, caseVars, output, results>>

Diff == IF patch = <<>> THEN {} ELSE patch[1]

\* The case whose agent last wrote the file a grader looks at, or 0 when there is none.
Maker == Max({0} \cup {c \in Cases : <<"work", c>> \in Workspace})

Verdict(passed) == IF passed THEN "Passed" ELSE "Failed"

(* The case's result with its grade and the case whose agent or grader it goes back to. *)
Record(grade, by) ==
  /\ Push([grade |-> grade, by |-> by, diff |-> Diff, ran |-> TRUE])
  /\ UNCHANGED <<dir, grader, loose, ws>>

(* The graders that look at the diff or at a file of the workspace.  One that is to read a *)
(* file which is not there fails, and with it the run.                                     *)
GradeBuiltin ==
  /\ point = "grade" /\ UNCHANGED output
  /\ \/ grader = "none" /\ Record("none", case)
     \/ grader = "diff" /\ Record(Verdict(Diff # {}), case)
     \/ grader = "unchanged" /\ Record(Verdict(Diff = {}), case)
     \/ grader = "file" /\ Maker # 0
          /\ \E passed \in BOOLEAN : Record(Verdict(passed), Maker)
     \/ grader = "presence" /\ Record(Verdict(Maker # 0), IF Maker = 0 THEN case ELSE Maker)
     \/ grader = "llm_judge" /\ Record("Error", case)

(* run_latch_command_grader: the command exits or is terminated at its limit, and has      *)
(* written its output or not.  What is in the output file, whoever wrote it, goes before   *)
(* how the command ended.                                                                  *)
GradeByCommand ==
  /\ point = "grade" /\ grader = "command"
  /\ \E wrote \in BOOLEAN, ended \in {"Passed", "Failed", "Error"} :
       /\ output' = [output EXCEPT ![Dir] = IF wrote THEN case ELSE @]
       /\ IF output'[Dir] = 0
          THEN Record(ended, case)
          ELSE \E said \in {"Passed", "Failed", "Error"} : Record(said, output'[Dir])

Finish ==
  /\ point = "finish" /\ point' = "done"
  /\ UNCHANGED <<dir, grader, case, agent, watchVars, loose, ws, caseVars, output, results>>

RunnerStep ==
  \/ Begin \/ Open \/ Decline \/ Seed \/ ShowVisible \/ Baseline \/ Spawn \/ Look
  \/ PollChild \/ PollClock \/ PollWalk \/ PollCompare \/ PollTerminate \/ Capture
  \/ AddHidden \/ GradeBuiltin \/ GradeByCommand \/ Finish \/ Fail

AgentStep == AgentWrites \/ AgentForks \/ AgentExits \/ LooseWrites

Next == RunnerStep \/ Feed \/ AgentStep \/ Tick

(* The read end of the prompt's pipe is open in the agent, and in a process that it has     *)
(* left behind: either may leave it unread.                                                *)
PipeIsHeld == agent = "running" \/ case \in loose

(* A write to a pipe that nobody has open any more returns. *)
FeedReturns == ~PipeIsHeld /\ Feed

Spec ==
  /\ Init /\ [][Next]_latchVars
  /\ WF_latchVars(RunnerStep) /\ WF_latchVars(FeedReturns) /\ WF_latchVars(Tick)
-----------------------------------------------------------------------------
\* What is hidden stays hidden: as long as the child runs there is nothing in its
\* workspace that was kept from agents, unless an earlier case of the run has used the
\* directory (CaseMaterializationPhase::includes, run_latch_case).
HiddenStaysHidden ==
  agent = "running" /\ ~Shares(case) =>
    ~\E c \in Cases : <<"hidden", c>> \in Workspace

\* The diff of a case is what its agent did, even in a directory that an earlier case has
\* used: no seed, nothing hidden and no other agent's work, only, perhaps, what a process
\* left behind wrote (prepare_workspace_baseline, capture_workspace_diff).
DiffIsTheAgents ==
  \A c \in 1 .. Len(results) : \A x \in results[c].diff :
    x = <<"work", c>> \/ x[1] = "late"

\* A grade goes back to what the case's own agent and grader did, unless an earlier case
\* has used the directory (run_latch_grader, run_latch_command_grader).
GradeIsTheCases ==
  \A c \in 1 .. Len(results) :
    results[c].ran /\ results[c].by # c => Shares(c)

\* An agent is stopped for being idle only when it has left its workspace alone as long as
\* it may, except where the workspace could not be walked or the agent wrote after the walk
\* that found it idle (wait_for_latch_process).
IdleIsDeserved ==
  point = "capture" /\ ending = "IdleTimedOut" =>
    silent >= Idle \/ seen = "none" \/ walked = "passed"

\* Without the exception for a write after the walk: the agent is killed although it has
\* written meanwhile (wait_for_latch_process).
IdleIsReal ==
  point = "capture" /\ ending = "IdleTimedOut" => silent >= Idle \/ seen = "none"

\* A case stands alone: its agent sees nothing hidden, its diff is its agent's, its grade
\* is its own, and its agent is stopped as idle only when it was at the last walk
\* (run_latch_case).
CaseStandsAlone ==
  HiddenStaysHidden /\ DiffIsTheAgents /\ GradeIsTheCases /\ IdleIsDeserved

\* The run ends, with a result or an error, unless an agent, or a process that it left
\* behind, holds the prompt's pipe and never takes the prompt (wait_for_latch_process,
\* spawn_latch_process).
RunEnds == <>Over \/ <>[](point = "feed" /\ PipeIsHeld)
=============================================================================
