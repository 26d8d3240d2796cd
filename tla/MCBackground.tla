---------------------------- MODULE MCBackground ----------------------------
(***************************************************************************)
(* Processes that work in the background and may die there unseen: the     *)
(* engine of a run, which a recovery takes for dead by its lease, and the  *)
(* latch daemon, which its callers find through a socket and a file.  The  *)
(* two share nothing, so a behaviour takes the steps of one `part`.        *)
(***************************************************************************)
EXTENDS EngineLease, TLC

CONSTANTS Callers, Dispatches, Daemons, Tools, MaxCalls, MaxCrashes, MaxGiveUps, MaxFailures,
          Nobody

VARIABLES
  part,   \* "engine" or "latch"
  daemon, sock, info, jobs, proc, result, record, archive, cloud, caller, budget

Latch == INSTANCE LatchDispatch

latchVars == <<daemon, sock, info, jobs, proc, result, record, archive, cloud, caller, budget>>
allVars == <<part, vars, latchVars>>

MCInit == part \in {"engine", "latch"} /\ Init /\ Latch!Init

OfEngine == part = "engine" /\ UNCHANGED <<part, latchVars>>
OfLatch == part = "latch" /\ UNCHANGED <<part, vars>>

MCNext == (OfEngine /\ Next) \/ (OfLatch /\ Latch!Next)

MCSpec == MCInit /\ [][MCNext]_allVars

\* Engines, callers and daemons differ in nothing but their names; the parts have the same
\* names for engines and callers.
Interchangeable == Permutations(Engines \cup Callers) \cup Permutations(Daemons)

\* What is said of a submission is true: a record that says completed has its row, and a
\* row is of a run that is over (LatchDispatch).
SubmissionIsTrue == Latch!SubmissionIsTrue
=============================================================================
