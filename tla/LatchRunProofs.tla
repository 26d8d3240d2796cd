--------------------------- MODULE LatchRunProofs ---------------------------
(***************************************************************************)
(* In a latch run of any number of cases, with any limits and graders, a   *)
(* case stands alone (CasesStandAlone).                                    *)
(*                                                                         *)
(* CaseStandsAlone speaks of results and of one agent, and is not          *)
(* inductive: a diff is the agent's because of what the baseline held, a   *)
(* grade is the case's because whatever is in a directory was put there    *)
(* for a case of that directory, and an agent is idle because the runner's *)
(* clock never runs ahead of the agent's silence while the fingerprint is  *)
(* of the workspace as it is, and what a walk found the same is so until   *)
(* somebody writes.  CaseInv adds these.  A step either leaves   *)
(* workspaces and results alone (QuietStep), puts one thing into one       *)
(* workspace (PutStep), or closes a case (PushStep); baseline, diff and a  *)
(* process that is left behind have lemmas of their own.                   *)
(***************************************************************************)
EXTENDS LatchRun, WellFoundedInduction, TLAPS

\* The grades of a case, and what its result holds.
Grades == {"none", "Declined", "Passed", "Failed", "Error"}
Results == [grade : Grades, by : 0 .. CaseCount, diff : SUBSET Tags, ran : BOOLEAN]

\* The points at which no clock runs, those at which the agent may run, and those at which
\* there is no case.
Preparing == {"begin", "open", "seed", "visible", "baseline", "spawn", "feed", "look", "hidden",
              "grade"}
Live == {"feed", "look", "child", "clock", "idle", "compare", "terminate"}
Closing == {"finish", "done", "failed"}

\* The points before a baseline is taken, and after the diff.
Unbased == {"begin", "open", "seed", "visible", "baseline", "hidden", "grade"}

\* Of an agent or of a process that outlived one.
Agents(x, c) == x = <<"work", c>> \/ x[1] = "late"

\* Every variable has its type, the results and what git took of the workspace too.
RunTypeOK ==
  /\ LatchTypeOK
  /\ results \in Seq(Results)
  /\ base = <<>> \/ \E w \in SUBSET Tags : base = <<w>>
  /\ patch = <<>> \/ \E w \in SUBSET Tags : patch = <<w>>

\* Whatever is in a directory was put there for a case of that directory that has begun.
OwnDirectory ==
  /\ \A d \in Cases : \A x \in ws[d] : dir[x[2]] = d /\ x[2] <= case
  /\ \A d \in Cases : output[d] # 0 => dir[output[d]] = d /\ output[d] <= case
  /\ \A c \in loose : c <= case

\* The agent runs only while it is watched, or after the runner has failed.
AgentIsWatched == agent = "running" => point \in Live \cup {"failed"}

\* Nothing hidden is put there before the agent has ended.
HiddenComesLast ==
  point \notin Closing \cup {"grade"} \/ agent = "running" => <<"hidden", case>> \notin ws[dir[case]]

\* What is new since the baseline is an agent's.
NewIsTheAgents ==
  /\ point \in Unbased => base = <<>>
  /\ base # <<>> => \A x \in ws[dir[case]] \ base[1] : Agents(x, case)
  /\ patch # <<>> => \A x \in patch[1] : Agents(x, case)

\* Each case that is through has its result.
CasesAreCounted == point \notin Closing => Len(results) = case - 1

\* While the fingerprint is of the workspace as it is, the agent has been silent since.
StillIsSilent ==
  /\ point \in Preparing => still = 0
  /\ seen = "as_it_is" => still <= silent

\* A walk that found the same fingerprint is of the workspace as it is until somebody writes,
\* and who is to be killed has been still as long as it may.
WalkIsRecent ==
  /\ point \in {"compare", "terminate"} /\ walked = "same" => seen \in {"as_it_is", "none"}
  /\ point = "terminate" => still >= Idle /\ walked \in {"same", "passed"}

\* The invariant: the parts of CaseStandsAlone that are of results, and what they rest on.
CaseInv ==
  /\ RunTypeOK /\ OwnDirectory /\ AgentIsWatched /\ HiddenComesLast /\ NewIsTheAgents
  /\ CasesAreCounted /\ StillIsSilent /\ WalkIsRecent
  /\ DiffIsTheAgents /\ GradeIsTheCases /\ IdleIsDeserved

-----------------------------------------------------------------------------
(* Steps that leave workspaces and results alone. *)

\* What such a step has to keep.
LEMMA QuietStep ==
  ASSUME CaseInv, UNCHANGED <<dir, grader, case, loose, ws, base, patch, output, results>>,
         point' \in Points, agent' \in {"none", "running", "zero", "other", "killed"},
         age' \in 0 .. Wall, still' \in 0 .. Wall, silent' \in 0 .. Wall,
         seen' \in {"as_it_is", "as_it_was", "none"},
         walked' \in {"same", "passed", "new", "stale", "lost"},
         ending' \in {"none", "Completed", "Errored", "TimedOut", "IdleTimedOut"},
         AgentIsWatched', StillIsSilent', WalkIsRecent', IdleIsDeserved',
         point' \notin Closing \cup {"grade"} => point \notin Closing \cup {"grade"},
         agent' = "running" => agent = "running" \/ point \notin Closing \cup {"grade"},
         point' \notin Closing => point \notin Closing,
         point' \in Unbased => point \in Unbased
  PROVE  CaseInv'
<1>1. RunTypeOK'
  BY DEF CaseInv, RunTypeOK, LatchTypeOK
<1>2. OwnDirectory'
  BY DEF CaseInv, OwnDirectory
<1>3. HiddenComesLast'
  BY DEF CaseInv, HiddenComesLast
<1>4. NewIsTheAgents'
  BY DEF CaseInv, NewIsTheAgents, Unbased, Agents
<1>5. CasesAreCounted'
  BY DEF CaseInv, CasesAreCounted
<1>6. DiffIsTheAgents' /\ GradeIsTheCases'
  BY DEF CaseInv, DiffIsTheAgents, GradeIsTheCases, Shares
<1> QED
  BY <1>1, <1>2, <1>3, <1>4, <1>5, <1>6 DEF CaseInv

\* The runner goes from one point to another.
LEMMA RunnerMoves ==
  ASSUME CaseInv, Begin \/ Open \/ Fail \/ Feed \/ Finish \/ Spawn
  PROVE  CaseInv'
<1>1. LatchTypeOK /\ AgentIsWatched /\ StillIsSilent /\ WalkIsRecent /\ IdleIsDeserved
  BY DEF CaseInv, RunTypeOK
<1>2. /\ UNCHANGED <<dir, grader, case, loose, ws, base, patch, output, results>>
      /\ UNCHANGED <<age, still, silent, seen, walked, ending>>
  BY DEF Begin, Open, Fail, Feed, Finish, Spawn, watchVars, caseVars
<1>3. \/ point' = "failed" /\ agent' = agent
      \/ point = "begin" /\ point' = "open" /\ agent' = agent
      \/ point = "open" /\ point' = "seed" /\ agent' = agent
      \/ point = "feed" /\ point' = "look" /\ agent' = agent
      \/ point = "finish" /\ point' = "done" /\ agent' = agent
      \/ point = "spawn" /\ point' \in {"feed", "look"} /\ agent' = "running"
  BY DEF Begin, Open, Fail, Feed, Finish, Spawn
<1>4. agent' = agent \/ (agent' = "running" /\ point = "spawn")
  BY <1>3
<1>5. /\ point' \in Points /\ AgentIsWatched' /\ StillIsSilent' /\ WalkIsRecent' /\ IdleIsDeserved'
      /\ point' \notin Closing \cup {"grade"} => point \notin Closing \cup {"grade"}
      /\ agent' = "running" => agent = "running" \/ point \notin Closing \cup {"grade"}
      /\ point' \notin Closing => point \notin Closing
      /\ point' \in Unbased => point \in Unbased
  BY <1>1, <1>2, <1>3 DEF Points, AgentIsWatched, Live, StillIsSilent, WalkIsRecent, Preparing,
     IdleIsDeserved, Closing, Unbased
<1> QED
  BY <1>1, <1>2, <1>4, <1>5, QuietStep DEF LatchTypeOK

\* The clocks start, and the child is polled.
LEMMA PollKeeps ==
  ASSUME CaseInv, Look \/ PollChild \/ PollClock
  PROVE  CaseInv'
<1>1. LatchTypeOK /\ AgentIsWatched /\ StillIsSilent /\ WalkIsRecent /\ IdleIsDeserved /\ NumbersOK
  BY LatchRunAssumption DEF CaseInv, RunTypeOK
<1>2. /\ UNCHANGED <<dir, grader, case, loose, ws, base, patch, output, results>>
      /\ UNCHANGED <<age, still, walked>>
  BY DEF Look, PollChild, PollClock, watchVars, caseVars
<1>3. \/ /\ point = "look" /\ point' = "child" /\ seen' \in {"as_it_is", "none"} /\ silent' = 0
         /\ UNCHANGED <<agent, ending>>
      \/ /\ point = "child" /\ point' = "clock" /\ UNCHANGED <<agent, ending, seen, silent>>
      \/ /\ point = "child" /\ point' = "capture" /\ agent' \in {"zero", "other"}
         /\ ending' \in {"Completed", "Errored"} /\ UNCHANGED <<agent, seen, silent>>
      \/ /\ point = "clock" /\ point' = "capture" /\ agent' = "killed" /\ ending' = "TimedOut"
         /\ UNCHANGED <<seen, silent>>
      \/ /\ point = "clock" /\ point' = "idle" /\ UNCHANGED <<agent, ending, seen, silent>>
  BY DEF Look, PollChild, PollClock, Fingerprints, Ended, Terminate, watchVars, caseVars
<1>4. /\ agent' \in {"none", "running", "zero", "other", "killed"}
      /\ silent' \in 0 .. Wall /\ seen' \in {"as_it_is", "as_it_was", "none"}
      /\ ending' \in {"none", "Completed", "Errored", "TimedOut", "IdleTimedOut"}
  BY <1>1, <1>3 DEF LatchTypeOK, NumbersOK
<1>5. /\ point' \in Points /\ AgentIsWatched' /\ IdleIsDeserved'
      /\ point' \notin Closing \cup {"grade"} => point \notin Closing \cup {"grade"}
      /\ agent' = "running" => agent = "running" \/ point \notin Closing \cup {"grade"}
      /\ point' \notin Closing => point \notin Closing
      /\ point' \in Unbased => point \in Unbased
  BY <1>1, <1>2, <1>3 DEF Points, AgentIsWatched, Live, IdleIsDeserved, Closing, Unbased
<1>6. StillIsSilent' /\ WalkIsRecent'
  BY <1>1, <1>2, <1>3 DEF StillIsSilent, WalkIsRecent, Preparing
<1> QED
  BY <1>1, <1>2, <1>4, <1>5, <1>6, QuietStep DEF LatchTypeOK

\* The workspace is walked, and what was found is compared.
LEMMA PollIdleKeeps ==
  ASSUME CaseInv, PollWalk \/ PollCompare
  PROVE  CaseInv'
<1>1. LatchTypeOK /\ AgentIsWatched /\ StillIsSilent /\ WalkIsRecent /\ NumbersOK
  BY LatchRunAssumption DEF CaseInv, RunTypeOK
<1>2. /\ UNCHANGED <<dir, grader, case, loose, ws, base, patch, output, results>>
      /\ UNCHANGED <<age, silent, agent, ending>>
  BY DEF PollWalk, PollCompare, caseVars
<1>3. \/ point = "idle" /\ point' = "child" /\ UNCHANGED <<seen, still, walked>>
      \/ /\ point = "idle" /\ point' = "compare" /\ UNCHANGED <<seen, still>>
         /\ walked' \in {"same", "new", "lost"} /\ (walked' = "same" => seen \in {"as_it_is", "none"})
      \/ /\ point = "compare" /\ point' = "child" /\ UNCHANGED <<seen, still, walked>>
      \/ /\ point = "compare" /\ point' = "terminate" /\ UNCHANGED <<seen, still, walked>>
         /\ walked \in {"same", "passed"} /\ still >= Idle
      \/ /\ point = "compare" /\ point' = "child" /\ UNCHANGED walked
         /\ seen' \in {"as_it_is", "as_it_was", "none"} /\ still' = 0
  BY DEF PollWalk, PollCompare, Fingerprints
<1>4. /\ still' \in 0 .. Wall /\ seen' \in {"as_it_is", "as_it_was", "none"}
      /\ walked' \in {"same", "passed", "new", "stale", "lost"}
  BY <1>1, <1>3 DEF LatchTypeOK, NumbersOK
<1>5. /\ point' \in Points /\ AgentIsWatched' /\ IdleIsDeserved'
      /\ point' \notin Closing \cup {"grade"} => point \notin Closing \cup {"grade"}
      /\ agent' = "running" => agent = "running" \/ point \notin Closing \cup {"grade"}
      /\ point' \notin Closing => point \notin Closing
      /\ point' \in Unbased => point \in Unbased
  BY <1>1, <1>2, <1>3 DEF Points, AgentIsWatched, Live, Closing, Unbased, IdleIsDeserved
<1>6. still \in Nat /\ silent \in Nat /\ Idle \in Nat
  BY <1>1 DEF LatchTypeOK, NumbersOK
<1>7. StillIsSilent' /\ WalkIsRecent'
  BY <1>1, <1>2, <1>3, <1>6 DEF StillIsSilent, WalkIsRecent, Preparing
<1> QED
  BY <1>1, <1>2, <1>4, <1>5, <1>7, QuietStep DEF LatchTypeOK

\* An agent is killed as idle only when it was silent as long as it was seen to be still, or
\* wrote after it was looked at.
LEMMA PollTerminateKeeps ==
  ASSUME CaseInv, PollTerminate
  PROVE  CaseInv'
<1>1. LatchTypeOK /\ AgentIsWatched /\ StillIsSilent /\ WalkIsRecent /\ NumbersOK
  BY LatchRunAssumption DEF CaseInv, RunTypeOK
<1>2. /\ UNCHANGED <<dir, grader, case, loose, ws, base, patch, output, results>>
      /\ UNCHANGED <<age, still, silent, seen, walked>> /\ point = "terminate" /\ point' = "capture"
      /\ agent' = "killed" /\ ending' = "IdleTimedOut"
  BY DEF PollTerminate, Terminate, Ended, watchVars
<1>3. still \in Nat /\ silent \in Nat /\ Idle \in Nat
  BY <1>1 DEF LatchTypeOK, NumbersOK
<1>4. StillIsSilent' /\ WalkIsRecent' /\ IdleIsDeserved'
  BY <1>1, <1>2, <1>3 DEF StillIsSilent, WalkIsRecent, Preparing, IdleIsDeserved
<1>5. /\ point' \in Points /\ AgentIsWatched'
      /\ point' \notin Closing \cup {"grade"} => point \notin Closing \cup {"grade"}
      /\ point' \notin Closing => point \notin Closing
      /\ point' \in Unbased => point \in Unbased
  BY <1>2 DEF Points, AgentIsWatched, Closing, Unbased
<1> QED
  BY <1>1, <1>2, <1>4, <1>5, QuietStep DEF LatchTypeOK

\* Time passes for both clocks.
LEMMA TickKeeps ==
  ASSUME CaseInv, Tick
  PROVE  CaseInv'
<1>1. LatchTypeOK /\ AgentIsWatched /\ StillIsSilent /\ WalkIsRecent /\ NumbersOK
  BY LatchRunAssumption DEF CaseInv, RunTypeOK
<1>2. /\ UNCHANGED <<dir, grader, case, loose, ws, base, patch, output, results>>
      /\ UNCHANGED <<point, agent, seen, walked, ending>>
      /\ point \in {"child", "clock", "idle", "compare", "terminate"}
      /\ age < Wall /\ age' = age + 1 /\ still' = Later(still) /\ silent' = Later(silent)
  BY DEF Tick, Watched, caseVars
<1>3. age \in 0 .. Wall /\ still \in 0 .. Wall /\ silent \in 0 .. Wall /\ Wall \in Nat /\ Idle \in Nat
  BY <1>1 DEF LatchTypeOK, NumbersOK
<1>4. /\ age' \in 0 .. Wall /\ still' \in 0 .. Wall /\ silent' \in 0 .. Wall
      /\ still <= silent => still' <= silent'
      /\ still >= Idle => still' >= Idle
  BY <1>2, <1>3 DEF Later
<1>5. StillIsSilent' /\ WalkIsRecent' /\ AgentIsWatched' /\ IdleIsDeserved'
  BY <1>1, <1>2, <1>4 DEF StillIsSilent, WalkIsRecent, Preparing, AgentIsWatched, IdleIsDeserved
<1> QED
  BY <1>1, <1>2, <1>4, <1>5, QuietStep DEF LatchTypeOK

\* The agent ends.
LEMMA AgentExitsKeeps ==
  ASSUME CaseInv, AgentExits
  PROVE  CaseInv'
<1>1. LatchTypeOK /\ AgentIsWatched /\ StillIsSilent /\ WalkIsRecent /\ IdleIsDeserved
  BY DEF CaseInv, RunTypeOK
<1>2. /\ UNCHANGED <<dir, grader, case, loose, ws, base, patch, output, results>>
      /\ UNCHANGED <<point, age, still, silent, seen, walked, ending>> /\ agent' \in {"zero", "other"}
  BY DEF AgentExits, watchVars, caseVars
<1>3. AgentIsWatched' /\ StillIsSilent' /\ WalkIsRecent' /\ IdleIsDeserved'
  BY <1>1, <1>2 DEF AgentIsWatched, StillIsSilent, WalkIsRecent, IdleIsDeserved
<1> QED
  BY <1>1, <1>2, <1>3, QuietStep DEF LatchTypeOK

-----------------------------------------------------------------------------
(* Steps that put something into a workspace. *)

\* What such a step has to keep.
LEMMA PutStep ==
  ASSUME CaseInv, UNCHANGED <<dir, grader, case, base, patch, output, results>>, loose' \subseteq loose,
         NEW d \in Cases, NEW x \in Tags, ws' = [ws EXCEPT ![d] = @ \cup {x}],
         dir[x[2]] = d, x[2] <= case, base # <<>> => Agents(x, case),
         point' \in Points, agent' \in {"none", "running", "zero", "other", "killed"},
         age' \in 0 .. Wall, still' \in 0 .. Wall, silent' \in 0 .. Wall,
         seen' \in {"as_it_is", "as_it_was", "none"},
         walked' \in {"same", "passed", "new", "stale", "lost"},
         ending' \in {"none", "Completed", "Errored", "TimedOut", "IdleTimedOut"},
         AgentIsWatched', StillIsSilent', WalkIsRecent', IdleIsDeserved',
         x = <<"hidden", case>> => point' \in Closing \cup {"grade"} /\ agent' # "running",
         point' \notin Closing \cup {"grade"} => point \notin Closing \cup {"grade"},
         agent' = "running" => agent = "running",
         point' \notin Closing => point \notin Closing,
         point' \in Unbased => point \in Unbased
  PROVE  CaseInv'
<1>1. LatchTypeOK /\ OwnDirectory /\ HiddenComesLast /\ NewIsTheAgents
  BY DEF CaseInv, RunTypeOK
<1>2. /\ ws' \in [Cases -> SUBSET Tags] /\ ws'[d] = ws[d] \cup {x}
      /\ \A e \in Cases \ {d} : ws'[e] = ws[e]
  BY <1>1 DEF LatchTypeOK
<1>3. RunTypeOK'
  BY <1>2 DEF CaseInv, RunTypeOK, LatchTypeOK
<1>4. OwnDirectory'
  BY <1>1, <1>2 DEF OwnDirectory
<1>5. dir[case] \in Cases
  BY <1>1 DEF LatchTypeOK
<1>6. HiddenComesLast'
  BY <1>1, <1>2, <1>5 DEF HiddenComesLast
<1>7. NewIsTheAgents'
  BY <1>1, <1>2, <1>5 DEF NewIsTheAgents, Unbased, Agents
<1>8. CasesAreCounted'
  BY DEF CaseInv, CasesAreCounted
<1>9. DiffIsTheAgents' /\ GradeIsTheCases'
  BY DEF CaseInv, DiffIsTheAgents, GradeIsTheCases, Shares
<1> QED
  BY <1>3, <1>4, <1>6, <1>7, <1>8, <1>9 DEF CaseInv

\* The runner prepares the workspace, or adds what was kept from the agent.
LEMMA RunnerPuts ==
  ASSUME CaseInv, Seed \/ ShowVisible \/ AddHidden
  PROVE  CaseInv'
<1>1. /\ LatchTypeOK /\ AgentIsWatched /\ StillIsSilent /\ WalkIsRecent /\ IdleIsDeserved
      /\ NewIsTheAgents
  BY DEF CaseInv, RunTypeOK
<1>2. /\ UNCHANGED <<dir, grader, case, base, patch, output, results, loose>>
      /\ UNCHANGED <<agent, age, still, silent, seen, walked, ending>>
  BY DEF Seed, ShowVisible, AddHidden, watchVars, caseVars
<1>3. PICK what \in {"seed", "visible", "hidden"} :
        /\ Put(what)
        /\ \/ what = "seed" /\ point = "seed" /\ point' = "visible"
           \/ what = "visible" /\ point = "visible" /\ point' = "baseline"
           \/ what = "hidden" /\ point = "hidden" /\ point' = "grade"
  BY DEF Seed, ShowVisible, AddHidden
<1>4. /\ Dir \in Cases /\ <<what, case>> \in Tags /\ <<what, case>>[2] = case /\ case \in Cases
      /\ ws' = [ws EXCEPT ![Dir] = @ \cup {<<what, case>>}] /\ dir[case] = Dir /\ case <= case
      /\ <<what, case>> = <<"hidden", case>> => what = "hidden"
  BY <1>1, <1>3 DEF LatchTypeOK, Dir, Put, Tags, Cases
<1>5. base = <<>> /\ agent # "running"
  BY <1>1, <1>3 DEF NewIsTheAgents, Unbased, AgentIsWatched, Live
<1>6. /\ point' \in Points /\ AgentIsWatched' /\ StillIsSilent' /\ WalkIsRecent' /\ IdleIsDeserved'
      /\ what = "hidden" => point' \in Closing \cup {"grade"} /\ agent' # "running"
      /\ point' \notin Closing \cup {"grade"} => point \notin Closing \cup {"grade"}
      /\ point' \notin Closing => point \notin Closing
      /\ point' \in Unbased => point \in Unbased
  BY <1>1, <1>2, <1>3, <1>5 DEF Points, AgentIsWatched, StillIsSilent, WalkIsRecent, Preparing,
     IdleIsDeserved, Closing, Unbased
<1>7. /\ agent' \in {"none", "running", "zero", "other", "killed"}
      /\ age' \in 0 .. Wall /\ still' \in 0 .. Wall /\ silent' \in 0 .. Wall
      /\ seen' \in {"as_it_is", "as_it_was", "none"}
      /\ walked' \in {"same", "passed", "new", "stale", "lost"}
      /\ ending' \in {"none", "Completed", "Errored", "TimedOut", "IdleTimedOut"}
  BY <1>1, <1>2 DEF LatchTypeOK
<1> QED
  BY <1>2, <1>4, <1>5, <1>6, <1>7, PutStep

\* The agent works in its workspace.
LEMMA AgentWritesKeeps ==
  ASSUME CaseInv, AgentWrites
  PROVE  CaseInv'
<1>1. LatchTypeOK /\ AgentIsWatched /\ StillIsSilent /\ WalkIsRecent /\ NumbersOK
  BY LatchRunAssumption DEF CaseInv, RunTypeOK
<1>2. /\ UNCHANGED <<dir, grader, case, base, patch, output, results, loose>>
      /\ UNCHANGED <<point, agent, age, still, ending>> /\ silent' = 0 /\ agent = "running"
      /\ seen' \in {"none", "as_it_was"} /\ (seen' = "none" <=> seen = "none")
      /\ walked' = Overtaken
  BY DEF AgentWrites, caseVars
<1>3. /\ Dir \in Cases /\ <<"work", case>> \in Tags /\ <<"work", case>>[2] = case /\ case \in Cases
      /\ ws' = [ws EXCEPT ![Dir] = @ \cup {<<"work", case>>}] /\ dir[case] = Dir /\ case <= case
      /\ <<"work", case>> # <<"hidden", case>>
  BY <1>1 DEF LatchTypeOK, Dir, AgentWrites, Put, Tags, Cases
<1>4. /\ walked' \in {"same", "passed", "new", "stale", "lost"}
      /\ point \in {"compare", "terminate"} => walked' # "same"
      /\ walked \in {"same", "passed"} => walked' \in {"same", "passed"}
  BY <1>1, <1>2 DEF Overtaken, LatchTypeOK
<1>5. AgentIsWatched' /\ StillIsSilent' /\ WalkIsRecent' /\ IdleIsDeserved' /\ 0 \in 0 .. Wall
  BY <1>1, <1>2, <1>4 DEF AgentIsWatched, Live, StillIsSilent, WalkIsRecent, IdleIsDeserved, NumbersOK
<1>6. Agents(<<"work", case>>, case)
  BY DEF Agents
<1> QED
  BY <1>1, <1>2, <1>3, <1>4, <1>5, <1>6, PutStep DEF LatchTypeOK

\* What an agent left behind works in that agent's workspace.
LEMMA LooseWritesKeeps ==
  ASSUME CaseInv, LooseWrites
  PROVE  CaseInv'
<1>1. /\ LatchTypeOK /\ AgentIsWatched /\ StillIsSilent /\ WalkIsRecent /\ IdleIsDeserved
      /\ OwnDirectory
  BY DEF CaseInv, RunTypeOK
<1>2. PICK c \in loose :
        /\ loose' = loose \ {c}
        /\ ws' = [ws EXCEPT ![dir[c]] = @ \cup {<<"late", c>>}]
        /\ seen' = IF dir[c] = Dir /\ seen # "none" THEN "as_it_was" ELSE seen
        /\ walked' = IF dir[c] = Dir THEN Overtaken ELSE walked
        /\ UNCHANGED <<dir, grader, point, case, agent, age, still, silent, caseVars, output, results>>
  BY DEF LooseWrites
<1>3. /\ dir[c] \in Cases /\ <<"late", c>> \in Tags /\ <<"late", c>>[2] = c /\ c \in Cases /\ c <= case
      /\ <<"late", c>> # <<"hidden", case>>
  BY <1>1, <1>2 DEF LatchTypeOK, Tags, Cases, OwnDirectory
<1>4. UNCHANGED <<base, patch, ending>> /\ seen' \in {seen, "as_it_was"} /\ (seen = "none" => seen' = "none")
  BY <1>2 DEF caseVars
<1>5. /\ walked' \in {"same", "passed", "new", "stale", "lost"}
      /\ point \in {"compare", "terminate"} /\ walked' = "same" => walked = "same" /\ seen' = seen
      /\ walked \in {"same", "passed"} => walked' \in {"same", "passed"}
      /\ walked = "passed" => walked' = "passed"
  BY <1>1, <1>2 DEF Overtaken, LatchTypeOK
<1>6. AgentIsWatched' /\ StillIsSilent' /\ WalkIsRecent' /\ IdleIsDeserved'
  BY <1>1, <1>2, <1>4, <1>5 DEF AgentIsWatched, StillIsSilent, WalkIsRecent, IdleIsDeserved
<1>7. Agents(<<"late", c>>, case)
  BY DEF Agents
<1>8. seen' \in {"as_it_is", "as_it_was", "none"}
  BY <1>1, <1>4 DEF LatchTypeOK
<1> QED
  BY <1>1, <1>2, <1>3, <1>4, <1>5, <1>6, <1>7, <1>8, PutStep DEF LatchTypeOK

\* The agent starts a process that may outlive it.
LEMMA AgentForksKeeps ==
  ASSUME CaseInv, AgentForks
  PROVE  CaseInv'
<1>1. UNCHANGED <<dir, grader, point, case, agent, age, still, silent, seen, walked, ws, base, patch, ending,
                  output, results>> /\ loose' = loose \cup {case}
  BY DEF AgentForks, watchVars, caseVars
<1>2. case \in Cases /\ case <= case
  BY DEF CaseInv, RunTypeOK, LatchTypeOK, Cases
<1>3. RunTypeOK' /\ OwnDirectory'
  BY <1>1, <1>2 DEF CaseInv, RunTypeOK, LatchTypeOK, OwnDirectory
<1>4. /\ AgentIsWatched' /\ HiddenComesLast' /\ NewIsTheAgents' /\ CasesAreCounted' /\ StillIsSilent'
      /\ WalkIsRecent'
  BY <1>1 DEF CaseInv, AgentIsWatched, HiddenComesLast, NewIsTheAgents, Unbased, CasesAreCounted, StillIsSilent,
     WalkIsRecent, Agents
<1>5. DiffIsTheAgents' /\ GradeIsTheCases' /\ IdleIsDeserved'
  BY <1>1 DEF CaseInv, DiffIsTheAgents, GradeIsTheCases, IdleIsDeserved, Shares
<1> QED
  BY <1>3, <1>4, <1>5 DEF CaseInv

-----------------------------------------------------------------------------
(* Baseline and diff. *)

\* The baseline is the workspace as it is, or none.
LEMMA BaselineKeeps ==
  ASSUME CaseInv, Baseline
  PROVE  CaseInv'
<1>1. LatchTypeOK /\ AgentIsWatched /\ StillIsSilent /\ NewIsTheAgents
  BY DEF CaseInv, RunTypeOK
<1>2. /\ UNCHANGED <<dir, grader, case, agent, age, still, silent, seen, walked, loose, ws, patch, ending,
                     output, results>>
      /\ point = "baseline" /\ point' = "spawn" /\ base' \in {<<Workspace>>, <<>>}
  BY DEF Baseline, watchVars
<1>3. Workspace \in SUBSET Tags /\ Workspace = ws[dir[case]]
  BY <1>1 DEF LatchTypeOK, Workspace, Dir
<1>4. RunTypeOK' /\ OwnDirectory'
  BY <1>2, <1>3 DEF CaseInv, RunTypeOK, LatchTypeOK, OwnDirectory, Points
<1>5. NewIsTheAgents'
  BY <1>1, <1>2, <1>3 DEF NewIsTheAgents, Unbased, Agents
<1>6. AgentIsWatched' /\ HiddenComesLast' /\ CasesAreCounted' /\ StillIsSilent' /\ WalkIsRecent'
  BY <1>1, <1>2 DEF CaseInv, AgentIsWatched, Live, HiddenComesLast, Closing, CasesAreCounted, StillIsSilent,
     WalkIsRecent, Preparing
<1>7. DiffIsTheAgents' /\ GradeIsTheCases' /\ IdleIsDeserved'
  BY <1>2 DEF CaseInv, DiffIsTheAgents, GradeIsTheCases, IdleIsDeserved, Shares
<1> QED
  BY <1>4, <1>5, <1>6, <1>7 DEF CaseInv

\* The diff is what is new since.
LEMMA CaptureKeeps ==
  ASSUME CaseInv, Capture
  PROVE  CaseInv'
<1>1. LatchTypeOK /\ AgentIsWatched /\ NewIsTheAgents /\ NumbersOK
  BY LatchRunAssumption DEF CaseInv, RunTypeOK
<1>2. /\ UNCHANGED <<dir, grader, case, agent, loose, ws, ending, output, results>>
      /\ point = "capture" /\ point' = "hidden" /\ base' = <<>>
      /\ age' = 0 /\ still' = 0 /\ silent' = 0 /\ seen' = "as_it_is" /\ walked' = "same"
      /\ patch' = <<>> \/ (base # <<>> /\ patch' = <<Workspace \ base[1]>>)
  BY DEF Capture
<1>3. Workspace \in SUBSET Tags /\ Workspace = ws[dir[case]]
  BY <1>1 DEF LatchTypeOK, Workspace, Dir
<1>4. 0 \in 0 .. Wall
  BY <1>1 DEF NumbersOK
<1>5. RunTypeOK' /\ OwnDirectory'
  BY <1>2, <1>3, <1>4 DEF CaseInv, RunTypeOK, LatchTypeOK, OwnDirectory, Points
<1>6. NewIsTheAgents'
  BY <1>1, <1>2, <1>3 DEF NewIsTheAgents, Unbased, Agents
<1>7. AgentIsWatched' /\ HiddenComesLast' /\ CasesAreCounted' /\ StillIsSilent' /\ WalkIsRecent'
  BY <1>1, <1>2 DEF CaseInv, AgentIsWatched, Live, HiddenComesLast, Closing, CasesAreCounted, StillIsSilent,
     WalkIsRecent, Preparing
<1>8. DiffIsTheAgents' /\ GradeIsTheCases' /\ IdleIsDeserved'
  BY <1>2 DEF CaseInv, DiffIsTheAgents, GradeIsTheCases, IdleIsDeserved, Shares
<1> QED
  BY <1>5, <1>6, <1>7, <1>8 DEF CaseInv

-----------------------------------------------------------------------------
(* The result of a case. *)

\* A result is its case's: what that takes of the result itself.
LEMMA PushStep ==
  ASSUME CaseInv, NEW r \in Results, Push(r), UNCHANGED <<dir, grader, loose, ws>>,
         output' \in [Cases -> 0 .. CaseCount],
         \A d \in Cases : output'[d] # 0 => dir[output'[d]] = d /\ output'[d] <= case,
         point \in {"open", "grade"},
         \A x \in r.diff : Agents(x, case),
         r.ran /\ r.by # case => Shares(case)
  PROVE  CaseInv'
<1>1. /\ LatchTypeOK /\ OwnDirectory /\ StillIsSilent /\ results \in Seq(Results)
      /\ Len(results) = case - 1 /\ case \in Cases /\ case \in Nat \ {0} /\ CaseCount \in Nat \ {0}
      /\ case <= CaseCount
  <2>1. LatchTypeOK /\ OwnDirectory /\ StillIsSilent /\ results \in Seq(Results) /\ case \in Cases
    BY DEF CaseInv, RunTypeOK, LatchTypeOK
  <2>2. Len(results) = case - 1
    BY DEF CaseInv, CasesAreCounted, Closing
  <2>3. CaseCount \in Nat \ {0}
    BY LatchRunAssumption DEF NumbersOK
  <2>4. case \in Nat \ {0} /\ case <= CaseCount
    BY <2>1, <2>3 DEF Cases
  <2> QED
    BY <2>1, <2>2, <2>3, <2>4
<1>2. /\ results' = Append(results, r) /\ base' = <<>> /\ patch' = <<>> /\ ending' = "none"
      /\ agent' = "none" /\ UNCHANGED <<age, still, silent, seen, walked>>
      /\ \/ case = CaseCount /\ point' = "finish" /\ case' = case
         \/ case # CaseCount /\ point' = "open" /\ case' = case + 1
  BY DEF Push, watchVars
<1>3. /\ results' \in Seq(Results) /\ Len(results') = case /\ results'[case] = r
      /\ \A c \in 1 .. case - 1 : results'[c] = results[c]
  BY <1>1, <1>2
<1>4. case' \in Cases /\ case <= case' /\ (point' = "open" => case' = case + 1)
  BY <1>1, <1>2 DEF Cases
<1>5. RunTypeOK'
  <2>1. Len(results') \in 0 .. CaseCount
    BY <1>1, <1>3
  <2>2. point' \in Points
    BY <1>2 DEF Points
  <2>3. LatchTypeOK'
    BY <1>1, <1>2, <1>4, <2>1, <2>2 DEF LatchTypeOK
  <2> QED
    BY <1>2, <1>3, <2>3 DEF RunTypeOK
<1>6. OwnDirectory'
  <2>1. \A n \in Nat : n <= case => n <= case'
    BY <1>1, <1>4 DEF Cases
  <2>2. ASSUME NEW d \in Cases, NEW x \in ws[d]
        PROVE  dir[x[2]] = d /\ x[2] <= case'
    <3>1. x[2] \in Nat
      BY <1>1 DEF LatchTypeOK, Tags, Cases
    <3> QED
      BY <1>1, <2>1, <3>1 DEF OwnDirectory
  <2>3. ASSUME NEW d \in Cases, output'[d] # 0
        PROVE  dir[output'[d]] = d /\ output'[d] <= case'
    <3>1. output'[d] \in Nat
      BY <1>1
    <3> QED
      BY <2>1, <2>3, <3>1
  <2>4. ASSUME NEW c \in loose PROVE c <= case'
    <3>1. c \in Nat
      BY <1>1 DEF LatchTypeOK, Cases
    <3> QED
      BY <1>1, <2>1, <3>1 DEF OwnDirectory
  <2> QED
    BY <2>2, <2>3, <2>4 DEF OwnDirectory
<1>7. HiddenComesLast'
  <2>1. CASE point' = "open"
    <3>1. dir[case'] \in Cases /\ <<"hidden", case'>>[2] = case' /\ ~(case' <= case)
      BY <1>1, <1>4, <2>1 DEF LatchTypeOK
    <3> QED
      BY <1>1, <3>1 DEF OwnDirectory, HiddenComesLast
  <2>2. CASE point' = "finish"
    BY <1>2, <2>2 DEF HiddenComesLast, Closing
  <2> QED
    BY <1>2, <2>1, <2>2
<1>8. AgentIsWatched' /\ NewIsTheAgents' /\ IdleIsDeserved'
  BY <1>2 DEF AgentIsWatched, NewIsTheAgents, Unbased, IdleIsDeserved
<1>9. StillIsSilent' /\ WalkIsRecent'
  BY <1>1, <1>2 DEF StillIsSilent, WalkIsRecent, Preparing
<1>10. CasesAreCounted'
  BY <1>1, <1>2, <1>3 DEF CasesAreCounted, Closing
<1>11. DiffIsTheAgents'
  <2> SUFFICES ASSUME NEW c \in 1 .. Len(results'), NEW x \in results'[c].diff
               PROVE  x = <<"work", c>> \/ x[1] = "late"
    BY DEF DiffIsTheAgents
  <2>1. CASE c = case
    BY <1>3, <2>1 DEF Agents
  <2>2. CASE c # case
    BY <1>1, <1>3, <2>2 DEF CaseInv, DiffIsTheAgents
  <2> QED
    BY <2>1, <2>2
<1>12. GradeIsTheCases'
  <2> SUFFICES ASSUME NEW c \in 1 .. Len(results'), results'[c].ran, results'[c].by # c
               PROVE  Shares(c)'
    BY DEF GradeIsTheCases
  <2>1. CASE c = case
    BY <1>3, <2>1 DEF Shares
  <2>2. CASE c # case
    <3>1. c \in 1 .. Len(results) /\ results'[c] = results[c]
      BY <1>1, <1>3, <2>2
    <3> QED
      BY <3>1 DEF CaseInv, GradeIsTheCases, Shares
  <2> QED
    BY <2>1, <2>2
<1> QED
  BY <1>5, <1>6, <1>7, <1>8, <1>9, <1>10, <1>11, <1>12 DEF CaseInv

\* The last agent that wrote to the workspace is one that did.
LEMMA MakerWrote ==
  ASSUME NumbersOK
  PROVE  Maker \in 0 .. CaseCount /\ (Maker # 0 => Maker \in Cases /\ <<"work", Maker>> \in Workspace)
<1> DEFINE S == {0} \cup {c \in Cases : <<"work", c>> \in Workspace}
           T == {n \in Nat : CaseCount - n \in S}
<1>1. CaseCount \in Nat /\ S \subseteq 0 .. CaseCount /\ 0 \in S /\ CaseCount \in T
  BY DEF NumbersOK, Cases
<1>2. PICK n \in T : \A y \in T : ~(<<y, n>> \in OpToRel(<, Nat))
  BY <1>1, NatLessThanWellFounded, WFMin
<1>3. ASSUME NEW y \in T PROVE ~(y < n)
  <2>1. y \in Nat /\ n \in Nat
    OBVIOUS
  <2>2. ~(<<y, n>> \in OpToRel(<, Nat))
    BY <1>2
  <2> QED
    BY <2>1, <2>2, Zenon DEF OpToRel
<1>4. CaseCount - n \in S
  OBVIOUS
<1>5. \A y \in S : CaseCount - n >= y
  <2> SUFFICES ASSUME NEW y \in S PROVE CaseCount - n >= y
    OBVIOUS
  <2>1. CaseCount - y \in T /\ y \in Nat
    BY <1>1
  <2> HIDE DEF T, S
  <2>2. ~(CaseCount - y < n)
    BY <1>3, <2>1
  <2> QED
    BY <1>1, <2>1, <2>2 DEF T
<1>6. Max(S) \in S
  BY <1>4, <1>5 DEF Max
<1>7. Maker = Max(S)
  BY DEF Maker
<1> HIDE DEF T
<1> QED
  BY <1>1, <1>6, <1>7

\* A case that could not be graded is over before anything was done for it.
LEMMA DeclineKeeps ==
  ASSUME CaseInv, Decline
  PROVE  CaseInv'
<1> DEFINE r == [grade |-> "Declined", by |-> 0, diff |-> {}, ran |-> FALSE]
<1>1. r \in Results
  BY LatchRunAssumption DEF Results, Grades, NumbersOK
<1>2. r.diff = {} /\ r.ran = FALSE
  OBVIOUS
<1>3. /\ Push(r) /\ UNCHANGED <<dir, grader, loose, ws>> /\ output' = output
      /\ point \in {"open", "grade"}
  BY DEF Decline
<1>4. /\ output' \in [Cases -> 0 .. CaseCount]
      /\ \A d \in Cases : output'[d] # 0 => dir[output'[d]] = d /\ output'[d] <= case
  BY <1>3 DEF CaseInv, RunTypeOK, LatchTypeOK, OwnDirectory
<1> HIDE DEF r
<1> QED
  BY <1>1, <1>2, <1>3, <1>4, PushStep

\* A grade that goes back to the case, or to an older case of the same directory.
LEMMA RecordKeeps ==
  ASSUME CaseInv, point = "grade", NEW grade \in Grades, NEW by \in Cases, Record(grade, by),
         output' \in [Cases -> 0 .. CaseCount],
         \A d \in Cases : output'[d] # 0 => dir[output'[d]] = d /\ output'[d] <= case,
         dir[by] = Dir, by <= case
  PROVE  CaseInv'
<1> DEFINE r == [grade |-> grade, by |-> by, diff |-> Diff, ran |-> TRUE]
<1>1. Diff \in SUBSET Tags /\ \A x \in Diff : Agents(x, case)
  BY DEF CaseInv, RunTypeOK, NewIsTheAgents, Unbased, Diff, Agents
<1>2. r \in Results
  BY <1>1 DEF Results, Cases
<1>3. r.diff = Diff /\ r.by = by
  OBVIOUS
<1>4. Push(r) /\ UNCHANGED <<dir, grader, loose, ws>>
  BY DEF Record
<1>5. by # case => Shares(case)
  <2>1. case \in Cases
    BY DEF CaseInv, RunTypeOK, LatchTypeOK
  <2>2. by # case => by < case
    BY <2>1 DEF Cases
  <2> QED
    BY <2>2 DEF Shares, Dir
<1> HIDE DEF r
<1> QED
  BY <1>1, <1>2, <1>3, <1>4, <1>5, PushStep

\* The graders of the runner look at the case's diff or at a workspace whose last writer
\* is a case of the same directory.
LEMMA GradeBuiltinKeeps ==
  ASSUME CaseInv, GradeBuiltin
  PROVE  CaseInv'
<1>1. LatchTypeOK /\ OwnDirectory /\ case \in Cases /\ dir[case] = Dir /\ case <= case /\ Dir \in Cases
  BY DEF CaseInv, RunTypeOK, LatchTypeOK, Cases, Dir
<1>2. /\ output' \in [Cases -> 0 .. CaseCount]
      /\ \A d \in Cases : output'[d] # 0 => dir[output'[d]] = d /\ output'[d] <= case
  BY <1>1 DEF GradeBuiltin, LatchTypeOK, OwnDirectory
<1>3. Maker # 0 => Maker \in Cases /\ dir[Maker] = Dir /\ Maker <= case
  <2>1. Maker # 0 => Maker \in Cases /\ <<"work", Maker>> \in ws[Dir]
    BY MakerWrote, LatchRunAssumption DEF Workspace
  <2>2. <<"work", Maker>>[2] = Maker
    OBVIOUS
  <2> QED
    BY <1>1, <2>1, <2>2 DEF OwnDirectory
<1>4. /\ point = "grade"
      /\ \E grade \in Grades : Record(grade, case) \/ (Maker # 0 /\ Record(grade, Maker))
  <2>1. /\ "none" \in Grades /\ "Error" \in Grades
        /\ \A passed \in BOOLEAN : Verdict(passed) \in Grades
        /\ Verdict(Diff # {}) \in Grades /\ Verdict(Diff = {}) \in Grades /\ Verdict(Maker # 0) \in Grades
    BY DEF Grades, Verdict
  <2>2. CASE Maker = 0
    BY <2>1, <2>2 DEF GradeBuiltin
  <2>3. CASE Maker # 0
    BY <2>1, <2>3 DEF GradeBuiltin
  <2> QED
    BY <2>2, <2>3
<1>5. PICK grade \in Grades : Record(grade, case) \/ (Maker # 0 /\ Record(grade, Maker))
  BY <1>4
<1>6. CASE Record(grade, case)
  BY <1>1, <1>2, <1>4, <1>6, RecordKeeps
<1>7. CASE Maker # 0 /\ Record(grade, Maker)
  BY <1>2, <1>3, <1>4, <1>7, RecordKeeps
<1> QED
  BY <1>5, <1>6, <1>7

\* A command's output is the case's, or that of an older case of the same directory.
LEMMA GradeByCommandKeeps ==
  ASSUME CaseInv, GradeByCommand
  PROVE  CaseInv'
<1>1. LatchTypeOK /\ OwnDirectory /\ case \in Cases /\ dir[case] = Dir /\ case <= case /\ Dir \in Cases
  BY DEF CaseInv, RunTypeOK, LatchTypeOK, Cases, Dir
<1>2. PICK wrote \in BOOLEAN, ended \in {"Passed", "Failed", "Error"} :
        /\ output' = [output EXCEPT ![Dir] = IF wrote THEN case ELSE @]
        /\ IF output'[Dir] = 0
           THEN Record(ended, case)
           ELSE \E said \in {"Passed", "Failed", "Error"} : Record(said, output'[Dir])
  BY DEF GradeByCommand
<1>3. output' \in [Cases -> 0 .. CaseCount]
  BY <1>1, <1>2 DEF LatchTypeOK, Cases
<1>4. ASSUME NEW d \in Cases, output'[d] # 0
      PROVE  dir[output'[d]] = d /\ output'[d] <= case
  <2>1. output'[d] = output[d] \/ (d = Dir /\ output'[d] = case)
    BY <1>1, <1>2 DEF LatchTypeOK
  <2> QED
    BY <1>1, <1>4, <2>1 DEF OwnDirectory
<1>5. point = "grade"
  BY DEF GradeByCommand
<1>6. CASE output'[Dir] = 0
  <2>1. Record(ended, case) /\ ended \in Grades
    BY <1>2, <1>6 DEF Grades
  <2> QED
    BY <1>1, <1>3, <1>4, <1>5, <2>1, RecordKeeps
<1>7. CASE output'[Dir] # 0
  <2>1. PICK said \in {"Passed", "Failed", "Error"} : Record(said, output'[Dir])
    BY <1>2, <1>7
  <2>2. said \in Grades
    BY DEF Grades
  <2>3. output'[Dir] \in Cases /\ dir[output'[Dir]] = Dir /\ output'[Dir] <= case
    BY <1>1, <1>3, <1>4, <1>7 DEF Cases
  <2> QED
    BY <1>3, <1>4, <1>5, <2>1, <2>2, <2>3, RecordKeeps
<1> QED
  BY <1>6, <1>7

-----------------------------------------------------------------------------
(* The run as a whole. *)

\* A run begins with empty directories and no results.
LEMMA RunBegins == Init => CaseInv
<1> SUFFICES ASSUME Init PROVE CaseInv
  OBVIOUS
<1>1. NumbersOK /\ 1 \in Cases
  BY LatchRunAssumption DEF NumbersOK, Cases
<1>2. RunTypeOK
  BY <1>1 DEF Init, RunTypeOK, LatchTypeOK, NumbersOK, Points
<1>3. OwnDirectory /\ AgentIsWatched /\ NewIsTheAgents /\ CasesAreCounted /\ StillIsSilent /\ WalkIsRecent
  BY <1>1 DEF Init, OwnDirectory, AgentIsWatched, NewIsTheAgents, Unbased, CasesAreCounted, StillIsSilent,
     WalkIsRecent
<1>4. HiddenComesLast
  BY <1>1 DEF Init, HiddenComesLast
<1>5. DiffIsTheAgents /\ GradeIsTheCases /\ IdleIsDeserved
  BY DEF Init, DiffIsTheAgents, GradeIsTheCases, IdleIsDeserved
<1> QED
  BY <1>2, <1>3, <1>4, <1>5 DEF CaseInv

\* Every step of the runner, of an agent and of time keeps the invariant.
LEMMA CaseInvStep == CaseInv /\ [Next]_latchVars => CaseInv'
<1> SUFFICES ASSUME CaseInv, [Next]_latchVars PROVE CaseInv'
  OBVIOUS
<1>1. CASE RunnerStep
  BY <1>1, RunnerMoves, PollKeeps, PollIdleKeeps, PollTerminateKeeps, RunnerPuts, BaselineKeeps, CaptureKeeps,
     DeclineKeeps, GradeBuiltinKeeps, GradeByCommandKeeps DEF RunnerStep
<1>2. CASE Feed
  BY <1>2, RunnerMoves
<1>3. CASE AgentStep
  BY <1>3, AgentWritesKeeps, AgentForksKeeps, AgentExitsKeeps, LooseWritesKeeps DEF AgentStep
<1>4. CASE Tick
  BY <1>4, TickKeeps
<1>5. CASE UNCHANGED latchVars
  <2>1. /\ UNCHANGED <<dir, grader, point, case, agent, age, still, silent, seen, walked, loose>>
        /\ UNCHANGED <<ws, base, patch, ending, output, results>>
    BY <1>5 DEF latchVars, watchVars, caseVars
  <2>2. LatchTypeOK /\ AgentIsWatched' /\ StillIsSilent' /\ WalkIsRecent' /\ IdleIsDeserved'
    BY <2>1 DEF CaseInv, RunTypeOK, AgentIsWatched, StillIsSilent, WalkIsRecent, IdleIsDeserved
  <2> QED
    BY <2>1, <2>2, QuietStep DEF LatchTypeOK
<1> QED
  BY <1>1, <1>2, <1>3, <1>4, <1>5 DEF Next

\* A case of its own directory finds nothing hidden there while its agent runs.
LEMMA InvStandsAlone == CaseInv => CaseStandsAlone
<1> SUFFICES ASSUME CaseInv, agent = "running", ~Shares(case),
                    NEW c \in Cases, <<"hidden", c>> \in Workspace
             PROVE  FALSE
  BY DEF CaseInv, CaseStandsAlone, HiddenStaysHidden
<1>1. dir[case] \in Cases /\ case \in Cases /\ <<"hidden", c>> \in ws[dir[case]]
  BY DEF CaseInv, RunTypeOK, LatchTypeOK, Workspace, Dir
<1>2. c # case
  BY <1>1 DEF CaseInv, HiddenComesLast
<1>3. <<"hidden", c>>[2] = c
  OBVIOUS
<1>4. dir[c] = dir[case] /\ c <= case
  BY <1>1, <1>3 DEF CaseInv, OwnDirectory
<1>5. c < case
  BY <1>1, <1>2, <1>4 DEF Cases
<1> QED
  BY <1>4, <1>5 DEF Shares

\* Every variable of a latch run keeps its type, whatever the number of cases, the limits,
\* the graders and the way the prompt is handed over (run_latch_manifest, run_latch_case).
THEOREM LatchRunTypeCorrect == Spec => []LatchTypeOK
<1>1. CaseInv => LatchTypeOK
  BY DEF CaseInv, RunTypeOK
<1> QED
  BY <1>1, RunBegins, CaseInvStep, PTL DEF Spec

\* In every latch run a case stands alone: what was hidden stays hidden from its agent, its
\* diff is its agent's, its grade goes back to its own work, and its agent is stopped as idle
\* only when it was at the last walk of its workspace, save where that walk failed or two
\* cases share a directory (run_latch_case,
\* wait_for_latch_process, run_latch_grader).
THEOREM CasesStandAlone == Spec => []CaseStandsAlone
  BY RunBegins, CaseInvStep, InvStandsAlone, PTL DEF Spec
=============================================================================
