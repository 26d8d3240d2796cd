--------------------------- MODULE MCTrialRuntime ---------------------------
(***************************************************************************)
(* The two executors of a trial, side by side.  A package names one of     *)
(* them and all trials of its run use that one, so `executor` is chosen    *)
(* once; the other one's variables stay as they are at the start.          *)
(***************************************************************************)
EXTENDS TrialAttempt

CONSTANTS ModalCap, Grading, MaxFaults

ASSUME GradingAssumption == Grading \in {"none", "same", "separate"}

VARIABLES
  executor,   \* "local_docker" or "modal"
  runner, trial, units, modalPhase, removed, launcher, modalResult, boxes, workers, faults

Modal == INSTANCE ModalTrial WITH Cap <- ModalCap, phase <- modalPhase,
                             result <- modalResult

modalVars == <<runner, trial, units, modalPhase, removed, launcher, modalResult,
               boxes, workers, faults>>
allVars == <<executor, vars, modalVars>>

MCInit == executor \in {"local_docker", "modal"} /\ Init /\ Modal!Init

OnDocker == executor = "local_docker" /\ UNCHANGED <<executor, modalVars>>
OnModal == executor = "modal" /\ UNCHANGED <<executor, vars>>

MCNext ==
  \/ Next /\ OnDocker
  \/ Modal!Next /\ OnModal

\* The fairness of the two modules, of the executor that runs.
MCSpec ==
  /\ MCInit /\ [][MCNext]_allVars
  /\ \A t \in Trials :
       /\ WF_allVars(Step(t) /\ OnDocker)
       /\ WF_allVars(Modal!LauncherStep(t) /\ OnModal)
       /\ WF_allVars((Modal!Persist(t) \/ Modal!Launch(t) \/ Modal!Receive(t)
                         \/ Modal!RecordAgent(t) \/ Modal!Finish(t)) /\ OnModal)
       /\ SF_allVars(Modal!Acquire(t) /\ OnModal)

\* Containers are accounted for.  What has come to its end well leaves nothing: a Docker
\* trial that returned a result has no container and no network, over all its attempts,
\* and a Modal launcher that is through has no sandbox of any kind, whatever failed or was
\* cleaned up under it, but those that Modal did not terminate when asked; and the Docker
\* trials under way have no more containers than the limit
\* (execute_local_docker_trial_runtime, runLaunch, ActiveRuntimeLimiter).
ContainersAreAccounted == OkLeavesNothing /\ Modal!LauncherLeavesNothing /\ WithinCap

\* What runs can be found: while an agent or a grader works every container of its
\* trial is in the attempt's record, and a sandbox is in the launcher's or about to be
\* noted there (unless the note itself could not be written), so that pause, kill and
\* recovery reach it; and a recovery that succeeds leaves nothing of an attempt that was
\* interrupted, on record or not
\* (persist_attempt_state, writeRuntimeWorker, recover_run).
RuntimeIsFound ==
  WorkIsOnRecord /\ Modal!SandboxesAreOnRecord /\ RecoveryCleansTheInterrupted

\* Every trial of a runner that stays up comes to its end on either executor: no
\* permit is kept, and none is waited for in vain (ActiveRuntimeLimiter).
TrialsReturn ==
  <>(IF executor = "modal" THEN Modal!AllReturned ELSE AllReturned)
=============================================================================
