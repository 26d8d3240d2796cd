------------------------- MODULE TrialRuntimeProofs -------------------------
(***************************************************************************)
(* Proofs about the two executors of a trial, for any number of trials,    *)
(* sidecars, attempts and permits: what is left where, and on which        *)
(* record, wherever a step fails and wherever the process dies.            *)
(***************************************************************************)
EXTENDS MCTrialRuntime, FiniteSetTheorems, TLAPS

-----------------------------------------------------------------------------
(* On local Docker. *)

\* A trial without a container, and one without a network either.
NoBox(t) == \A r \in Roles : <<t, r>> \notin box
Clean(t) == NoBox(t) /\ t \notin net

\* Every container of the trial has one of these roles.
OnlyHas(t, roles) == \A r \in Roles : <<t, r>> \in box => r \in roles

Early == {"idle", "observe", "begin"}
Stages == {"agent_sidecars", "grader_sidecars"}
Materialized == {"case", "agent_sidecars", "run_agent", "agent", "grade", "grader_sidecars",
                 "grading_container", "run_grader", "grader"}

\* The roles a permit is taken for.
Planned == {"task"} \cup Sidecars \cup (IF Strategy = "Separate" THEN {"grading"} ELSE {})

\* The trials that have a permit, as long as the process is there.
Active == {t \in Trials : pc[t] \notin {"idle", "returned"}}

\* An attempt begins with nothing left of the one before, and what has returned a result
\* has left nothing.
BeginsClean(t) ==
  /\ pc[t] \in Early \cup {"network"} => Clean(t)
  /\ pc[t] = "task" => NoBox(t)
  /\ pc[t] \in Early => attempt[t] < MaxAttempts
  /\ result[t] # "none" => pc[t] = "returned"
  /\ result[t] = "ok" => Clean(t)

\* An attempt that recovery passes over has nothing to find, or came to its own end; and
\* recovery is through when there is nothing else.
PassedOver(t) ==
  /\ phase[t] = "none" => Clean(t)
  /\ phase[t] = "Abandoned" => failed[t] \/ Clean(t)
  /\ up = "yes" /\ pc[t] \notin Early \cup {"returned"} => phase[t] \notin {"none", "Abandoned"}
  /\ up = "recovered" => phase[t] \in {"none", "Abandoned"}

\* What the worker has started it has a handle for, and what it has a handle for is on
\* record, as far as it has come without an error.
HandlesAreKept(t) ==
  up = "yes" =>
    /\ pc[t] \notin Stages => fresh[t] = {}
    /\ pc[t] \in {"network", "task", "record"} => mem[t] = {}
    /\ pc[t] = "record" => OnlyHas(t, {"task"})
    /\ pc[t] \in Materialized \cup {"record_grading", "finalize"} => OnlyHas(t, mem[t] \cup fresh[t])
    /\ pc[t] \in Materialized => mem[t] \subseteq ids[t]
    /\ pc[t] = "record_grading" => mem[t] \subseteq ids[t] \cup {"grading"}
    /\ pc[t] = "agent" => phase[t] = "AgentRunning"
    /\ pc[t] = "grader" => phase[t] = "GraderRunning"

\* The cleanup has removed what it has come past, unless an error is noted.
CleanupIsDone(t) ==
  up = "yes" /\ ~failed[t] /\ ~dirty[t] =>
    /\ pc[t] = "clean_grading" => OnlyHas(t, mem[t])
    /\ pc[t] = "clean_sidecars" => OnlyHas(t, mem[t] \ {"grading"})
    /\ pc[t] = "clean_task" => OnlyHas(t, mem[t] \ ({"grading"} \cup Sidecars))
    /\ pc[t] = "clean_network" => NoBox(t)
    /\ pc[t] = "close" => Clean(t)

TrialInv(t) == BeginsClean(t) /\ PassedOver(t) /\ HandlesAreKept(t) /\ CleanupIsDone(t)

\* The types, without the limiter's counter.
WorkTypes ==
  /\ pc \in [Trials -> States]
  /\ attempt \in [Trials -> 0 .. MaxAttempts]
  /\ mem \in [Trials -> SUBSET Roles]
  /\ fresh \in [Trials -> SUBSET Sidecars]
  /\ phase \in [Trials -> Phases]
  /\ ids \in [Trials -> SUBSET Roles]
  /\ box \subseteq Trials \X Planned
  /\ net \subseteq Trials
  /\ failed \in [Trials -> BOOLEAN]
  /\ dirty \in [Trials -> BOOLEAN]
  /\ result \in [Trials -> {"none", "ok", "err"}]
  /\ up \in {"yes", "no", "recovered", "stuck"}

\* The limiter has counted the trials that have a permit.
PermitsAreCounted ==
  /\ Units * Cardinality(Active) <= Cap
  /\ in_use \in 0 .. Cap
  /\ up = "yes" => in_use = Units * Cardinality(Active)

DockerInv == WorkTypes /\ (\A t \in Trials : TrialInv(t)) /\ PermitsAreCounted

\* A step of one trial leaves the others alone.
Alone(t) ==
  /\ up' = up
  /\ \A u \in Trials \ {t} :
       /\ pc'[u] = pc[u] /\ attempt'[u] = attempt[u] /\ mem'[u] = mem[u]
       /\ fresh'[u] = fresh[u] /\ phase'[u] = phase[u] /\ ids'[u] = ids[u]
       /\ failed'[u] = failed[u] /\ dirty'[u] = dirty[u] /\ result'[u] = result[u]
       /\ \A r \in Roles : <<u, r>> \in box' <=> <<u, r>> \in box
       /\ u \in net' <=> u \in net

\* What a trial's step does to its permit.
PermitStep(t) ==
  \/ (pc[t] \in {"idle", "returned"} <=> pc'[t] \in {"idle", "returned"}) /\ in_use' = in_use
  \/ /\ pc[t] = "idle" /\ pc'[t] = "observe"
     /\ in_use' = in_use + Units /\ in_use' <= Cap
  \/ /\ pc[t] \notin {"idle", "returned"} /\ pc'[t] \in {"idle", "returned"}
     /\ in_use' = in_use - Units

\* What is shown of each step.
StepIsSound(t) == WorkTypes' /\ TrialInv(t)' /\ Alone(t) /\ PermitStep(t)

-----------------------------------------------------------------------------
\* The roles a trial starts are planned.
LEMMA PlannedRoles ==
  /\ Planned \subseteq Roles /\ Sidecars \subseteq Planned /\ Sidecars \subseteq Roles
  /\ "task" \in Planned /\ "task" \in Roles /\ "grading" \in Roles
  /\ Strategy = "Separate" => "grading" \in Planned
  BY DEF Planned, Roles

\* What the others are at is kept.
LEMMA OthersKeepTheirs ==
  ASSUME NEW t \in Trials, NEW u \in Trials \ {t}, TrialInv(u), Alone(t)
  PROVE  TrialInv(u)'
<1>1. NoBox(u)' <=> NoBox(u)
  BY DEF NoBox, Alone
<1>2. Clean(u)' <=> Clean(u)
  BY <1>1 DEF Clean, Alone
<1>3. \A R : OnlyHas(u, R)' <=> OnlyHas(u, R)
  BY DEF OnlyHas, Alone
<1>4. BeginsClean(u)'
  BY <1>1, <1>2 DEF BeginsClean, Alone, TrialInv
<1>5. PassedOver(u)'
  BY <1>2 DEF PassedOver, Alone, TrialInv
<1>6. HandlesAreKept(u)'
  BY DEF HandlesAreKept, OnlyHas, Alone, TrialInv
<1>7. CleanupIsDone(u)'
  BY <1>1, <1>2 DEF CleanupIsDone, OnlyHas, Alone, TrialInv
<1> QED
  BY <1>4, <1>5, <1>6, <1>7 DEF TrialInv

\* ActiveRuntimeLimiter::acquire.
LEMMA AcquireSound ==
  ASSUME DockerInv, NEW t \in Trials, Acquire(t)
  PROVE  StepIsSound(t)
<1> USE DEF Acquire, ReturnsEarly, At, GoTo, workVars, DockerInv
<1>1. WorkTypes'
  BY DEF WorkTypes, States
<1>2. BeginsClean(t)'
  BY DEF TrialInv, BeginsClean, Early, Clean, NoBox, WorkTypes
<1>3. PassedOver(t)'
  BY DEF TrialInv, PassedOver, Early, Clean, NoBox, WorkTypes
<1>4. HandlesAreKept(t)'
  BY DEF TrialInv, HandlesAreKept, Stages, Materialized, OnlyHas, WorkTypes
<1>5. CleanupIsDone(t)'
  BY DEF TrialInv, CleanupIsDone, OnlyHas, Clean, NoBox, WorkTypes
<1>6. Alone(t)
  BY DEF Alone, WorkTypes
<1>7. PermitStep(t)
  BY DEF PermitStep, WorkTypes
<1> QED
  BY <1>1, <1>2, <1>3, <1>4, <1>5, <1>6, <1>7 DEF StepIsSound, TrialInv

\* The containers there are, and the image.
LEMMA ObserveSound ==
  ASSUME DockerInv, NEW t \in Trials,
         Observe(t)
  PROVE  StepIsSound(t)
<1> USE PlannedRoles DEF Observe, ReturnsEarly, Release, At, GoTo, workVars, DockerInv
<1>1. WorkTypes'
  BY DEF WorkTypes, States, Phases
<1>2. BeginsClean(t)'
  BY DEF TrialInv, BeginsClean, CleanupIsDone, Early, Clean, NoBox, WorkTypes
<1>3. PassedOver(t)'
  BY DEF TrialInv, PassedOver, BeginsClean, Early, Clean, NoBox, WorkTypes
<1>4. HandlesAreKept(t)'
  BY DEF TrialInv, HandlesAreKept, BeginsClean, Stages, Materialized, OnlyHas, NoBox, WorkTypes
<1>5. CleanupIsDone(t)'
  BY DEF TrialInv, CleanupIsDone, HandlesAreKept, Stages, Materialized, OnlyHas, Clean, NoBox, WorkTypes
<1>6. Alone(t)
  BY DEF Alone, WorkTypes
<1>7. PermitStep(t)
  BY DEF PermitStep, WorkTypes
<1> QED
  BY <1>1, <1>2, <1>3, <1>4, <1>5, <1>6, <1>7 DEF StepIsSound, TrialInv

\* The attempt is persisted as Pending.
LEMMA BeginSound ==
  ASSUME DockerInv, NEW t \in Trials,
         Begin(t)
  PROVE  StepIsSound(t)
<1> USE PlannedRoles DEF Begin, Persist, At, GoTo, workVars, DockerInv
<1>1. WorkTypes'
  BY MaxAttemptsAssumption DEF WorkTypes, States, Phases, TrialInv, BeginsClean, Early
<1>2. BeginsClean(t)'
  BY MaxAttemptsAssumption DEF TrialInv, BeginsClean, CleanupIsDone, Early, Clean, NoBox, WorkTypes
<1>3. PassedOver(t)'
  BY DEF TrialInv, PassedOver, BeginsClean, Early, Clean, NoBox, WorkTypes
<1>4. HandlesAreKept(t)'
  BY DEF TrialInv, HandlesAreKept, BeginsClean, Stages, Materialized, OnlyHas, NoBox, WorkTypes
<1>5. CleanupIsDone(t)'
  BY DEF TrialInv, CleanupIsDone, HandlesAreKept, Stages, Materialized, OnlyHas, Clean, NoBox, WorkTypes
<1>6. Alone(t)
  BY DEF Alone, WorkTypes
<1>7. PermitStep(t)
  BY DEF PermitStep, WorkTypes
<1> QED
  BY <1>1, <1>2, <1>3, <1>4, <1>5, <1>6, <1>7 DEF StepIsSound, TrialInv

\* The network.
LEMMA CreateNetworkSound ==
  ASSUME DockerInv, NEW t \in Trials,
         CreateNetwork(t)
  PROVE  StepIsSound(t)
<1> USE PlannedRoles DEF CreateNetwork, ReturnsEarly, Release, At, GoTo, workVars, DockerInv
<1>1. WorkTypes'
  BY DEF WorkTypes, States, Phases
<1>2. BeginsClean(t)'
  BY DEF TrialInv, BeginsClean, CleanupIsDone, Early, Clean, NoBox, WorkTypes
<1>3. PassedOver(t)'
  BY DEF TrialInv, PassedOver, BeginsClean, Early, Clean, NoBox, WorkTypes
<1>4. HandlesAreKept(t)'
  BY DEF TrialInv, HandlesAreKept, BeginsClean, Stages, Materialized, OnlyHas, NoBox, WorkTypes
<1>5. CleanupIsDone(t)'
  BY DEF TrialInv, CleanupIsDone, HandlesAreKept, Stages, Materialized, OnlyHas, Clean, NoBox, WorkTypes
<1>6. Alone(t)
  BY DEF Alone, WorkTypes
<1>7. PermitStep(t)
  BY DEF PermitStep, WorkTypes
<1> QED
  BY <1>1, <1>2, <1>3, <1>4, <1>5, <1>6, <1>7 DEF StepIsSound, TrialInv

\* The task container is started.
LEMMA StartTaskSound ==
  ASSUME DockerInv, NEW t \in Trials,
         StartTask(t)
  PROVE  StepIsSound(t)
<1> USE PlannedRoles DEF StartTask, Persist, Start, StartFails, Proceeds, Errs, At, GoTo, workVars, DockerInv
<1>1. WorkTypes'
  <2>1. pc' \in [Trials -> States] /\ failed' \in [Trials -> BOOLEAN]
    BY DEF WorkTypes, States
  <2>2. phase' \in [Trials -> Phases]
    BY DEF WorkTypes, Phases
  <2>3. ids' \in [Trials -> SUBSET Roles]
    BY DEF WorkTypes
  <2>4. mem' \in [Trials -> SUBSET Roles] /\ fresh' \in [Trials -> SUBSET Sidecars]
    BY DEF WorkTypes
  <2>5. box' \subseteq Trials \X Planned
    BY DEF WorkTypes
  <2> QED
    BY <2>1, <2>2, <2>3, <2>4, <2>5 DEF WorkTypes
<1>2. BeginsClean(t)'
  BY DEF TrialInv, BeginsClean, CleanupIsDone, Early, Clean, NoBox, WorkTypes
<1>3. PassedOver(t)'
  BY DEF TrialInv, PassedOver, BeginsClean, Early, Clean, NoBox, WorkTypes
<1>4. HandlesAreKept(t)'
  BY DEF TrialInv, HandlesAreKept, BeginsClean, Stages, Materialized, OnlyHas, NoBox, WorkTypes
<1>5. CleanupIsDone(t)'
  BY DEF TrialInv, CleanupIsDone, HandlesAreKept, Stages, Materialized, OnlyHas, Clean, NoBox, WorkTypes
<1>6. Alone(t)
  BY DEF Alone, WorkTypes
<1>7. PermitStep(t)
  BY DEF PermitStep, WorkTypes
<1> QED
  BY <1>1, <1>2, <1>3, <1>4, <1>5, <1>6, <1>7 DEF StepIsSound, TrialInv

\* The task container is recorded.
LEMMA RecordTaskSound ==
  ASSUME DockerInv, NEW t \in Trials,
         RecordTask(t)
  PROVE  StepIsSound(t)
<1> USE PlannedRoles DEF RecordTask, Persist, Proceeds, Errs, At, GoTo, workVars, DockerInv
<1>1. WorkTypes'
  <2>1. pc' \in [Trials -> States] /\ failed' \in [Trials -> BOOLEAN]
    BY DEF WorkTypes, States
  <2>2. phase' \in [Trials -> Phases]
    BY DEF WorkTypes, Phases
  <2>3. ids' \in [Trials -> SUBSET Roles]
    BY DEF WorkTypes
  <2>4. mem' \in [Trials -> SUBSET Roles] /\ fresh' \in [Trials -> SUBSET Sidecars]
    BY DEF WorkTypes
  <2>5. box' \subseteq Trials \X Planned
    BY DEF WorkTypes
  <2> QED
    BY <2>1, <2>2, <2>3, <2>4, <2>5 DEF WorkTypes
<1>2. BeginsClean(t)'
  BY DEF TrialInv, BeginsClean, CleanupIsDone, Early, Clean, NoBox, WorkTypes
<1>3. PassedOver(t)'
  BY DEF TrialInv, PassedOver, BeginsClean, Early, Clean, NoBox, WorkTypes
<1>4. HandlesAreKept(t)'
  BY DEF TrialInv, HandlesAreKept, BeginsClean, Stages, Materialized, OnlyHas, NoBox, WorkTypes
<1>5. CleanupIsDone(t)'
  BY DEF TrialInv, CleanupIsDone, HandlesAreKept, Stages, Materialized, OnlyHas, Clean, NoBox, WorkTypes
<1>6. Alone(t)
  BY DEF Alone, WorkTypes
<1>7. PermitStep(t)
  BY DEF PermitStep, WorkTypes
<1> QED
  BY <1>1, <1>2, <1>3, <1>4, <1>5, <1>6, <1>7 DEF StepIsSound, TrialInv

\* The case is materialized.
LEMMA RunCaseStepsSound ==
  ASSUME DockerInv, NEW t \in Trials,
         RunCaseSteps(t)
  PROVE  StepIsSound(t)
<1> USE PlannedRoles DEF RunCaseSteps, Proceeds, Errs, At, GoTo, workVars, DockerInv
<1>1. WorkTypes'
  BY DEF WorkTypes, States, Phases
<1>2. BeginsClean(t)'
  BY DEF TrialInv, BeginsClean, CleanupIsDone, Early, Clean, NoBox, WorkTypes
<1>3. PassedOver(t)'
  BY DEF TrialInv, PassedOver, BeginsClean, Early, Clean, NoBox, WorkTypes
<1>4. HandlesAreKept(t)'
  BY DEF TrialInv, HandlesAreKept, BeginsClean, Stages, Materialized, OnlyHas, NoBox, WorkTypes
<1>5. CleanupIsDone(t)'
  BY DEF TrialInv, CleanupIsDone, HandlesAreKept, Stages, Materialized, OnlyHas, Clean, NoBox, WorkTypes
<1>6. Alone(t)
  BY DEF Alone, WorkTypes
<1>7. PermitStep(t)
  BY DEF PermitStep, WorkTypes
<1> QED
  BY <1>1, <1>2, <1>3, <1>4, <1>5, <1>6, <1>7 DEF StepIsSound, TrialInv

\* A sidecar is started.
LEMMA StartSidecarSound ==
  ASSUME DockerInv, NEW t \in Trials, NEW stage \in {"agent_sidecars", "grader_sidecars"},
         StartSidecar(t, stage)
  PROVE  StepIsSound(t)
<1> USE PlannedRoles DEF StartSidecar, Start, Missing, At, GoTo, workVars, DockerInv, Stages
<1>1. WorkTypes'
  <2>0. \A s \in Missing(t, stage) : s \in Sidecars /\ s \in Planned
    BY DEF Sidecars
  <2>1. pc' \in [Trials -> States] /\ failed' \in [Trials -> BOOLEAN]
    BY DEF WorkTypes, States
  <2>2. phase' \in [Trials -> Phases]
    BY DEF WorkTypes, Phases
  <2>3. ids' \in [Trials -> SUBSET Roles]
    BY DEF WorkTypes
  <2>4. mem' \in [Trials -> SUBSET Roles] /\ fresh' \in [Trials -> SUBSET Sidecars]
    BY <2>0 DEF WorkTypes
  <2>5. box' \subseteq Trials \X Planned
    BY <2>0 DEF WorkTypes
  <2> QED
    BY <2>1, <2>2, <2>3, <2>4, <2>5 DEF WorkTypes
<1>2. BeginsClean(t)'
  BY DEF TrialInv, BeginsClean, CleanupIsDone, Early, Clean, NoBox, WorkTypes
<1>3. PassedOver(t)'
  BY DEF TrialInv, PassedOver, BeginsClean, Early, Clean, NoBox, WorkTypes
<1>4. HandlesAreKept(t)'
  BY DEF TrialInv, HandlesAreKept, BeginsClean, Stages, Materialized, OnlyHas, NoBox, WorkTypes
<1>5. CleanupIsDone(t)'
  BY DEF TrialInv, CleanupIsDone, HandlesAreKept, Stages, Materialized, OnlyHas, Clean, NoBox, WorkTypes
<1>6. Alone(t)
  BY DEF Alone, WorkTypes
<1>7. PermitStep(t)
  BY DEF PermitStep, WorkTypes
<1> QED
  BY <1>1, <1>2, <1>3, <1>4, <1>5, <1>6, <1>7 DEF StepIsSound, TrialInv

\* A sidecar does not start.
LEMMA StartSidecarFailsSound ==
  ASSUME DockerInv, NEW t \in Trials, NEW stage \in {"agent_sidecars", "grader_sidecars"},
         StartSidecarFails(t, stage)
  PROVE  StepIsSound(t)
<1> USE PlannedRoles DEF StartSidecarFails, Missing, Errs, At, GoTo, workVars, DockerInv, Stages
<1>1. WorkTypes'
  <2>0. \A s \in Missing(t, stage) : s \in Sidecars /\ s \in Planned
    BY DEF Sidecars
  <2>1. pc' \in [Trials -> States] /\ failed' \in [Trials -> BOOLEAN]
    BY DEF WorkTypes, States
  <2>2. phase' \in [Trials -> Phases]
    BY DEF WorkTypes, Phases
  <2>3. ids' \in [Trials -> SUBSET Roles]
    BY DEF WorkTypes
  <2>4. mem' \in [Trials -> SUBSET Roles] /\ fresh' \in [Trials -> SUBSET Sidecars]
    BY DEF WorkTypes
  <2>5. box' \subseteq Trials \X Planned
    BY <2>0 DEF WorkTypes
  <2> QED
    BY <2>1, <2>2, <2>3, <2>4, <2>5 DEF WorkTypes
<1>2. BeginsClean(t)'
  BY DEF TrialInv, BeginsClean, CleanupIsDone, Early, Clean, NoBox, WorkTypes
<1>3. PassedOver(t)'
  BY DEF TrialInv, PassedOver, BeginsClean, Early, Clean, NoBox, WorkTypes
<1>4. HandlesAreKept(t)'
  BY DEF TrialInv, HandlesAreKept, BeginsClean, Stages, Materialized, OnlyHas, NoBox, WorkTypes
<1>5. CleanupIsDone(t)'
  BY DEF TrialInv, CleanupIsDone, HandlesAreKept, Stages, Materialized, OnlyHas, Clean, NoBox, WorkTypes
<1>6. Alone(t)
  BY DEF Alone, WorkTypes
<1>7. PermitStep(t)
  BY DEF PermitStep, WorkTypes
<1> QED
  BY <1>1, <1>2, <1>3, <1>4, <1>5, <1>6, <1>7 DEF StepIsSound, TrialInv

\* The sidecars of a stage all run.
LEMMA KeepSidecarsSound ==
  ASSUME DockerInv, NEW t \in Trials, NEW stage \in {"agent_sidecars", "grader_sidecars"},
         KeepSidecars(t, stage)
  PROVE  StepIsSound(t)
<1> USE PlannedRoles DEF KeepSidecars, Persist, Missing, Proceeds, At, GoTo, workVars, DockerInv, Stages
<1>1. WorkTypes'
  BY DEF WorkTypes, States, Phases
<1>2. BeginsClean(t)'
  BY DEF TrialInv, BeginsClean, CleanupIsDone, Early, Clean, NoBox, WorkTypes
<1>3. PassedOver(t)'
  BY DEF TrialInv, PassedOver, BeginsClean, Early, Clean, NoBox, WorkTypes
<1>4. HandlesAreKept(t)'
  BY DEF TrialInv, HandlesAreKept, BeginsClean, Stages, Materialized, OnlyHas, NoBox, WorkTypes
<1>5. CleanupIsDone(t)'
  BY DEF TrialInv, CleanupIsDone, HandlesAreKept, Stages, Materialized, OnlyHas, Clean, NoBox, WorkTypes
<1>6. Alone(t)
  BY DEF Alone, WorkTypes
<1>7. PermitStep(t)
  BY DEF PermitStep, WorkTypes
<1> QED
  BY <1>1, <1>2, <1>3, <1>4, <1>5, <1>6, <1>7 DEF StepIsSound, TrialInv

\* The agent is about to run.
LEMMA StartAgentSound ==
  ASSUME DockerInv, NEW t \in Trials,
         StartAgent(t)
  PROVE  StepIsSound(t)
<1> USE PlannedRoles DEF StartAgent, Persist, Proceeds, Errs, At, GoTo, workVars, DockerInv
<1>1. WorkTypes'
  BY DEF WorkTypes, States, Phases
<1>2. BeginsClean(t)'
  BY DEF TrialInv, BeginsClean, CleanupIsDone, Early, Clean, NoBox, WorkTypes
<1>3. PassedOver(t)'
  BY DEF TrialInv, PassedOver, BeginsClean, Early, Clean, NoBox, WorkTypes
<1>4. HandlesAreKept(t)'
  BY DEF TrialInv, HandlesAreKept, BeginsClean, Stages, Materialized, OnlyHas, NoBox, WorkTypes
<1>5. CleanupIsDone(t)'
  BY DEF TrialInv, CleanupIsDone, HandlesAreKept, Stages, Materialized, OnlyHas, Clean, NoBox, WorkTypes
<1>6. Alone(t)
  BY DEF Alone, WorkTypes
<1>7. PermitStep(t)
  BY DEF PermitStep, WorkTypes
<1> QED
  BY <1>1, <1>2, <1>3, <1>4, <1>5, <1>6, <1>7 DEF StepIsSound, TrialInv

\* The agent has ended.
LEMMA EndAgentSound ==
  ASSUME DockerInv, NEW t \in Trials,
         EndAgent(t)
  PROVE  StepIsSound(t)
<1> USE PlannedRoles DEF EndAgent, Persist, Proceeds, Errs, At, GoTo, workVars, DockerInv
<1>1. WorkTypes'
  <2>1. pc' \in [Trials -> States] /\ failed' \in [Trials -> BOOLEAN]
    BY DEF WorkTypes, States
  <2>2. phase' \in [Trials -> Phases]
    BY DEF WorkTypes, Phases
  <2>3. ids' \in [Trials -> SUBSET Roles]
    BY DEF WorkTypes
  <2>4. mem' \in [Trials -> SUBSET Roles] /\ fresh' \in [Trials -> SUBSET Sidecars]
    BY DEF WorkTypes
  <2>5. box' \subseteq Trials \X Planned
    BY DEF WorkTypes
  <2> QED
    BY <2>1, <2>2, <2>3, <2>4, <2>5 DEF WorkTypes
<1>2. BeginsClean(t)'
  BY DEF TrialInv, BeginsClean, CleanupIsDone, Early, Clean, NoBox, WorkTypes
<1>3. PassedOver(t)'
  BY DEF TrialInv, PassedOver, BeginsClean, Early, Clean, NoBox, WorkTypes
<1>4. HandlesAreKept(t)'
  BY DEF TrialInv, HandlesAreKept, BeginsClean, Stages, Materialized, OnlyHas, NoBox, WorkTypes
<1>5. CleanupIsDone(t)'
  BY DEF TrialInv, CleanupIsDone, HandlesAreKept, Stages, Materialized, OnlyHas, Clean, NoBox, WorkTypes
<1>6. Alone(t)
  BY DEF Alone, WorkTypes
<1>7. PermitStep(t)
  BY DEF PermitStep, WorkTypes
<1> QED
  BY <1>1, <1>2, <1>3, <1>4, <1>5, <1>6, <1>7 DEF StepIsSound, TrialInv

\* The grader is next.
LEMMA BeginGradingSound ==
  ASSUME DockerInv, NEW t \in Trials,
         BeginGrading(t)
  PROVE  StepIsSound(t)
<1> USE PlannedRoles DEF BeginGrading, Persist, Proceeds, Errs, At, GoTo, workVars, DockerInv
<1>1. WorkTypes'
  <2>1. pc' \in [Trials -> States] /\ failed' \in [Trials -> BOOLEAN]
    BY DEF WorkTypes, States
  <2>2. phase' \in [Trials -> Phases]
    BY DEF WorkTypes, Phases
  <2>3. ids' \in [Trials -> SUBSET Roles]
    BY DEF WorkTypes
  <2>4. mem' \in [Trials -> SUBSET Roles] /\ fresh' \in [Trials -> SUBSET Sidecars]
    BY DEF WorkTypes
  <2>5. box' \subseteq Trials \X Planned
    BY DEF WorkTypes
  <2> QED
    BY <2>1, <2>2, <2>3, <2>4, <2>5 DEF WorkTypes
<1>2. BeginsClean(t)'
  BY DEF TrialInv, BeginsClean, CleanupIsDone, Early, Clean, NoBox, WorkTypes
<1>3. PassedOver(t)'
  BY DEF TrialInv, PassedOver, BeginsClean, Early, Clean, NoBox, WorkTypes
<1>4. HandlesAreKept(t)'
  BY DEF TrialInv, HandlesAreKept, BeginsClean, Stages, Materialized, OnlyHas, NoBox, WorkTypes
<1>5. CleanupIsDone(t)'
  BY DEF TrialInv, CleanupIsDone, HandlesAreKept, Stages, Materialized, OnlyHas, Clean, NoBox, WorkTypes
<1>6. Alone(t)
  BY DEF Alone, WorkTypes
<1>7. PermitStep(t)
  BY DEF PermitStep, WorkTypes
<1> QED
  BY <1>1, <1>2, <1>3, <1>4, <1>5, <1>6, <1>7 DEF StepIsSound, TrialInv

\* The grading container, where there is one.
LEMMA MaterializeGraderSound ==
  ASSUME DockerInv, NEW t \in Trials,
         MaterializeGrader(t)
  PROVE  StepIsSound(t)
<1> USE PlannedRoles DEF MaterializeGrader, Start, StartFails, Proceeds, Errs, At, GoTo, workVars, DockerInv
<1>1. WorkTypes'
  <2>1. pc' \in [Trials -> States] /\ failed' \in [Trials -> BOOLEAN]
    BY DEF WorkTypes, States
  <2>2. phase' \in [Trials -> Phases]
    BY DEF WorkTypes, Phases
  <2>3. ids' \in [Trials -> SUBSET Roles]
    BY DEF WorkTypes
  <2>4. mem' \in [Trials -> SUBSET Roles] /\ fresh' \in [Trials -> SUBSET Sidecars]
    BY DEF WorkTypes
  <2>5. box' \subseteq Trials \X Planned
    BY DEF WorkTypes
  <2> QED
    BY <2>1, <2>2, <2>3, <2>4, <2>5 DEF WorkTypes
<1>2. BeginsClean(t)'
  BY DEF TrialInv, BeginsClean, CleanupIsDone, Early, Clean, NoBox, WorkTypes
<1>3. PassedOver(t)'
  BY DEF TrialInv, PassedOver, BeginsClean, Early, Clean, NoBox, WorkTypes
<1>4. HandlesAreKept(t)'
  BY DEF TrialInv, HandlesAreKept, BeginsClean, Stages, Materialized, OnlyHas, NoBox, WorkTypes
<1>5. CleanupIsDone(t)'
  BY DEF TrialInv, CleanupIsDone, HandlesAreKept, Stages, Materialized, OnlyHas, Clean, NoBox, WorkTypes
<1>6. Alone(t)
  BY DEF Alone, WorkTypes
<1>7. PermitStep(t)
  BY DEF PermitStep, WorkTypes
<1> QED
  BY <1>1, <1>2, <1>3, <1>4, <1>5, <1>6, <1>7 DEF StepIsSound, TrialInv

\* The grading container is recorded.
LEMMA RecordGradingSound ==
  ASSUME DockerInv, NEW t \in Trials,
         RecordGrading(t)
  PROVE  StepIsSound(t)
<1> USE PlannedRoles DEF RecordGrading, Persist, Proceeds, Errs, At, GoTo, workVars, DockerInv
<1>1. WorkTypes'
  BY DEF WorkTypes, States, Phases
<1>2. BeginsClean(t)'
  BY DEF TrialInv, BeginsClean, CleanupIsDone, Early, Clean, NoBox, WorkTypes
<1>3. PassedOver(t)'
  BY DEF TrialInv, PassedOver, BeginsClean, Early, Clean, NoBox, WorkTypes
<1>4. HandlesAreKept(t)'
  BY DEF TrialInv, HandlesAreKept, BeginsClean, Stages, Materialized, OnlyHas, NoBox, WorkTypes
<1>5. CleanupIsDone(t)'
  BY DEF TrialInv, CleanupIsDone, HandlesAreKept, Stages, Materialized, OnlyHas, Clean, NoBox, WorkTypes
<1>6. Alone(t)
  BY DEF Alone, WorkTypes
<1>7. PermitStep(t)
  BY DEF PermitStep, WorkTypes
<1> QED
  BY <1>1, <1>2, <1>3, <1>4, <1>5, <1>6, <1>7 DEF StepIsSound, TrialInv

\* The grader is about to run.
LEMMA StartGraderSound ==
  ASSUME DockerInv, NEW t \in Trials,
         StartGrader(t)
  PROVE  StepIsSound(t)
<1> USE PlannedRoles DEF StartGrader, Persist, Proceeds, Errs, At, GoTo, workVars, DockerInv
<1>1. WorkTypes'
  BY DEF WorkTypes, States, Phases
<1>2. BeginsClean(t)'
  BY DEF TrialInv, BeginsClean, CleanupIsDone, Early, Clean, NoBox, WorkTypes
<1>3. PassedOver(t)'
  BY DEF TrialInv, PassedOver, BeginsClean, Early, Clean, NoBox, WorkTypes
<1>4. HandlesAreKept(t)'
  BY DEF TrialInv, HandlesAreKept, BeginsClean, Stages, Materialized, OnlyHas, NoBox, WorkTypes
<1>5. CleanupIsDone(t)'
  BY DEF TrialInv, CleanupIsDone, HandlesAreKept, Stages, Materialized, OnlyHas, Clean, NoBox, WorkTypes
<1>6. Alone(t)
  BY DEF Alone, WorkTypes
<1>7. PermitStep(t)
  BY DEF PermitStep, WorkTypes
<1> QED
  BY <1>1, <1>2, <1>3, <1>4, <1>5, <1>6, <1>7 DEF StepIsSound, TrialInv

\* The grader has ended.
LEMMA EndGraderSound ==
  ASSUME DockerInv, NEW t \in Trials,
         EndGrader(t)
  PROVE  StepIsSound(t)
<1> USE PlannedRoles DEF EndGrader, Proceeds, Errs, At, GoTo, workVars, DockerInv
<1>1. WorkTypes'
  BY DEF WorkTypes, States, Phases
<1>2. BeginsClean(t)'
  BY DEF TrialInv, BeginsClean, CleanupIsDone, Early, Clean, NoBox, WorkTypes
<1>3. PassedOver(t)'
  BY DEF TrialInv, PassedOver, BeginsClean, Early, Clean, NoBox, WorkTypes
<1>4. HandlesAreKept(t)'
  BY DEF TrialInv, HandlesAreKept, BeginsClean, Stages, Materialized, OnlyHas, NoBox, WorkTypes
<1>5. CleanupIsDone(t)'
  BY DEF TrialInv, CleanupIsDone, HandlesAreKept, Stages, Materialized, OnlyHas, Clean, NoBox, WorkTypes
<1>6. Alone(t)
  BY DEF Alone, WorkTypes
<1>7. PermitStep(t)
  BY DEF PermitStep, WorkTypes
<1> QED
  BY <1>1, <1>2, <1>3, <1>4, <1>5, <1>6, <1>7 DEF StepIsSound, TrialInv

\* The attempt is finalized.
LEMMA FinalizeSound ==
  ASSUME DockerInv, NEW t \in Trials,
         Finalize(t)
  PROVE  StepIsSound(t)
<1> USE PlannedRoles DEF Finalize, Persist, Proceeds, Errs, At, GoTo, workVars, DockerInv
<1>1. WorkTypes'
  <2>1. pc' \in [Trials -> States] /\ failed' \in [Trials -> BOOLEAN]
    BY DEF WorkTypes, States
  <2>2. phase' \in [Trials -> Phases]
    BY DEF WorkTypes, Phases
  <2>3. ids' \in [Trials -> SUBSET Roles]
    BY DEF WorkTypes
  <2>4. mem' \in [Trials -> SUBSET Roles] /\ fresh' \in [Trials -> SUBSET Sidecars]
    BY DEF WorkTypes
  <2>5. box' \subseteq Trials \X Planned
    BY DEF WorkTypes
  <2> QED
    BY <2>1, <2>2, <2>3, <2>4, <2>5 DEF WorkTypes
<1>2. BeginsClean(t)'
  BY DEF TrialInv, BeginsClean, CleanupIsDone, Early, Clean, NoBox, WorkTypes
<1>3. PassedOver(t)'
  BY DEF TrialInv, PassedOver, BeginsClean, Early, Clean, NoBox, WorkTypes
<1>4. HandlesAreKept(t)'
  BY DEF TrialInv, HandlesAreKept, BeginsClean, Stages, Materialized, OnlyHas, NoBox, WorkTypes
<1>5. CleanupIsDone(t)'
  BY DEF TrialInv, CleanupIsDone, HandlesAreKept, Stages, Materialized, OnlyHas, Clean, NoBox, WorkTypes
<1>6. Alone(t)
  BY DEF Alone, WorkTypes
<1>7. PermitStep(t)
  BY DEF PermitStep, WorkTypes
<1> QED
  BY <1>1, <1>2, <1>3, <1>4, <1>5, <1>6, <1>7 DEF StepIsSound, TrialInv

\* The network is removed.
LEMMA CleanNetworkSound ==
  ASSUME DockerInv, NEW t \in Trials,
         CleanNetwork(t)
  PROVE  StepIsSound(t)
<1> USE PlannedRoles DEF CleanNetwork, At, GoTo, workVars, DockerInv
<1>1. WorkTypes'
  BY DEF WorkTypes, States, Phases
<1>2. BeginsClean(t)'
  BY DEF TrialInv, BeginsClean, CleanupIsDone, Early, Clean, NoBox, WorkTypes
<1>3. PassedOver(t)'
  BY DEF TrialInv, PassedOver, BeginsClean, Early, Clean, NoBox, WorkTypes
<1>4. HandlesAreKept(t)'
  BY DEF TrialInv, HandlesAreKept, BeginsClean, Stages, Materialized, OnlyHas, NoBox, WorkTypes
<1>5. CleanupIsDone(t)'
  BY DEF TrialInv, CleanupIsDone, HandlesAreKept, Stages, Materialized, OnlyHas, Clean, NoBox, WorkTypes
<1>6. Alone(t)
  BY DEF Alone, WorkTypes
<1>7. PermitStep(t)
  BY DEF PermitStep, WorkTypes
<1> QED
  BY <1>1, <1>2, <1>3, <1>4, <1>5, <1>6, <1>7 DEF StepIsSound, TrialInv

\* The attempt comes to its end.
LEMMA CloseSound ==
  ASSUME DockerInv, NEW t \in Trials,
         Close(t)
  PROVE  StepIsSound(t)
<1> USE PlannedRoles DEF Close, Release, At, GoTo, workVars, DockerInv
<1>1. WorkTypes'
  BY DEF WorkTypes, States, Phases
<1>2. BeginsClean(t)'
  BY MaxAttemptsAssumption DEF TrialInv, BeginsClean, CleanupIsDone, Early, Clean, NoBox, WorkTypes
<1>3. PassedOver(t)'
  BY DEF TrialInv, PassedOver, BeginsClean, Early, Clean, NoBox, WorkTypes
<1>4. HandlesAreKept(t)'
  BY DEF TrialInv, HandlesAreKept, BeginsClean, Stages, Materialized, OnlyHas, NoBox, WorkTypes
<1>5. CleanupIsDone(t)'
  BY DEF TrialInv, CleanupIsDone, HandlesAreKept, Stages, Materialized, OnlyHas, Clean, NoBox, WorkTypes
<1>6. Alone(t)
  BY DEF Alone, WorkTypes
<1>7. PermitStep(t)
  BY DEF PermitStep, WorkTypes
<1> QED
  BY <1>1, <1>2, <1>3, <1>4, <1>5, <1>6, <1>7 DEF StepIsSound, TrialInv

\* Containers are removed, or not.
LEMMA CleanContainersSound ==
  ASSUME DockerInv, NEW t \in Trials,
         CleanContainers(t)
  PROVE  StepIsSound(t)
<1> USE PlannedRoles DEF CleanContainers, Remove, ReturnsEarly, Release, At, GoTo, workVars, DockerInv
<1>1. WorkTypes'
  BY DEF WorkTypes, States
<1>2. BeginsClean(t)'
  BY DEF TrialInv, BeginsClean, Early, Clean, NoBox, WorkTypes
<1>3. PassedOver(t)'
  BY DEF TrialInv, PassedOver, Early, Clean, NoBox, WorkTypes
<1>4. HandlesAreKept(t)'
  BY DEF TrialInv, HandlesAreKept, Stages, Materialized, WorkTypes
<1>5. CleanupIsDone(t)'
  <2>1. CASE At(t, "clean_grading") /\ Remove(t, mem[t] \cap {"grading"}, "clean_sidecars")
    BY <2>1 DEF TrialInv, CleanupIsDone, OnlyHas, WorkTypes
  <2>2. CASE At(t, "clean_sidecars") /\ Remove(t, mem[t] \cap Sidecars, "clean_task")
    BY <2>2 DEF TrialInv, CleanupIsDone, OnlyHas, WorkTypes
  <2>3. CASE At(t, "clean_task") /\ Remove(t, mem[t] \cap {"task"}, "clean_network")
    <3>1. Roles = {"task", "grading"} \cup Sidecars
      BY DEF Roles
    <3> QED
      BY <2>3, <3>1 DEF TrialInv, CleanupIsDone, OnlyHas, NoBox, WorkTypes
  <2> QED
    BY <2>1, <2>2, <2>3
<1>6. Alone(t)
  BY DEF Alone, WorkTypes
<1>7. PermitStep(t)
  BY DEF PermitStep, WorkTypes
<1> QED
  BY <1>1, <1>2, <1>3, <1>4, <1>5, <1>6, <1>7 DEF StepIsSound, TrialInv

\* Every step of a worker.
LEMMA WorkerStepSound ==
  ASSUME DockerInv, NEW t \in Trials, Step(t)
  PROVE  StepIsSound(t) /\ up = "yes"
<1>1. up = "yes"
  BY DEF Step, Acquire, Observe, Begin, CreateNetwork, StartTask, RecordTask, RunCaseSteps,
         StartSidecar, StartSidecarFails, KeepSidecars, StartAgent, EndAgent, BeginGrading,
         MaterializeGrader, RecordGrading, StartGrader, EndGrader, Finalize, CleanContainers,
         CleanNetwork, Close, At
<1> QED
  BY <1>1, AcquireSound, ObserveSound, BeginSound, CreateNetworkSound, StartTaskSound,
     RecordTaskSound, RunCaseStepsSound, StartSidecarSound, StartSidecarFailsSound,
     KeepSidecarsSound, StartAgentSound, EndAgentSound, BeginGradingSound,
     MaterializeGraderSound, RecordGradingSound, StartGraderSound, EndGraderSound,
     FinalizeSound, CleanContainersSound, CleanNetworkSound, CloseSound
  DEF Step

\* A permit is for as many containers as a trial may have.
LEMMA UnitsArePlanned ==
  /\ IsFiniteSet(Planned) /\ Units \in Nat
  /\ Cardinality(Planned) \in Nat /\ Cardinality(Planned) <= Units
<1>1. IsFiniteSet(Sidecars) /\ Cardinality(Sidecars) \in Nat
  BY FiniteAssumption, FS_Union, FS_CardinalityType DEF Sidecars
<1> DEFINE S1 == Sidecars \cup {"task"}
<1>2. IsFiniteSet(S1) /\ Cardinality(S1) \in Nat /\ Cardinality(S1) <= Cardinality(Sidecars) + 1
  BY <1>1, FS_AddElement, FS_CardinalityType
<1>3. /\ IsFiniteSet(S1 \cup {"grading"}) /\ Cardinality(S1 \cup {"grading"}) \in Nat
      /\ Cardinality(S1 \cup {"grading"}) <= Cardinality(S1) + 1
  <2> HIDE DEF S1
  <2>1. IsFiniteSet(S1) /\ Cardinality(S1) \in Nat
    BY <1>2
  <2>2. /\ IsFiniteSet(S1 \cup {"grading"})
        /\ Cardinality(S1 \cup {"grading"}) =
             IF "grading" \in S1 THEN Cardinality(S1) ELSE Cardinality(S1) + 1
    BY <2>1, FS_AddElement
  <2> QED
    BY <2>1, <2>2
<1>4. Units \in Nat
  BY <1>1 DEF Units
<1>5. CASE Strategy = "Separate"
  <2>1. Planned = S1 \cup {"grading"} /\ Units = 1 + Cardinality(Sidecars) + 1
    BY <1>5 DEF Planned, Units
  <2> QED
    BY <2>1, <1>1, <1>2, <1>3
<1>6. CASE Strategy # "Separate"
  <2>1. Planned = S1
    BY <1>6 DEF Planned
  <2>2. Units = 1 + Cardinality(Sidecars) + 0
    BY <1>6 DEF Units
  <2> QED
    BY <2>1, <2>2, <1>1, <1>2
<1> QED
  BY <1>4, <1>5, <1>6

\* The trials with a permit are finitely many.
LEMMA ActiveIsFinite ==
  ASSUME WorkTypes
  PROVE  IsFiniteSet(Active) /\ Cardinality(Active) \in Nat
  BY FiniteAssumption, FS_Subset, FS_CardinalityType DEF Active

\* The limiter goes on counting right.
LEMMA PermitsKept ==
  ASSUME DockerInv, NEW t \in Trials, StepIsSound(t), up = "yes"
  PROVE  PermitsAreCounted'
<1> DEFINE n == Cardinality(Active)
<1>1. IsFiniteSet(Active) /\ n \in Nat /\ Units \in Nat
  BY ActiveIsFinite, UnitsArePlanned DEF DockerInv
<1>2. up' = "yes" /\ in_use = Units * n /\ Units * n <= Cap /\ in_use \in 0 .. Cap /\ Cap \in Nat
  BY CapAssumption DEF DockerInv, PermitsAreCounted, StepIsSound, Alone
<1>3. \A u \in Trials : u # t => (u \in Active <=> u \in Active')
  BY DEF Active, StepIsSound, Alone
<1>4. PermitStep(t)
  BY DEF StepIsSound
<1>5. CASE (pc[t] \in {"idle", "returned"} <=> pc'[t] \in {"idle", "returned"}) /\ in_use' = in_use
  <2>1. Active' = Active
    BY <1>3, <1>5 DEF Active
  <2> QED
    BY <2>1, <1>2, <1>5 DEF PermitsAreCounted
<1>6. CASE /\ pc[t] = "idle" /\ pc'[t] = "observe"
           /\ in_use' = in_use + Units /\ in_use' <= Cap
  <2>1. t \notin Active /\ Active' = Active \cup {t}
    BY <1>3, <1>6 DEF Active
  <2>2. Cardinality(Active)' = n + 1
    BY <2>1, <1>1, FS_AddElement
  <2>3. Units * (n + 1) = Units * n + Units
    BY <1>1
  <2> QED
    BY <2>2, <2>3, <1>1, <1>2, <1>6 DEF PermitsAreCounted
<1>7. CASE /\ pc[t] \notin {"idle", "returned"} /\ pc'[t] \in {"idle", "returned"}
           /\ in_use' = in_use - Units
  <2>1. t \in Active /\ Active' = Active \ {t}
    BY <1>3, <1>7 DEF Active
  <2>2. Cardinality(Active)' = n - 1 /\ n - 1 \in Nat
    <3>1. IsFiniteSet(Active \ {t}) /\ Cardinality(Active \ {t}) = n - 1
      BY <2>1, <1>1, FS_RemoveElement
    <3>2. Cardinality(Active \ {t}) \in Nat
      BY <3>1, FS_CardinalityType
    <3> QED
      BY <2>1, <3>1, <3>2
  <2>3. Units * (n - 1) = Units * n - Units /\ Units * (n - 1) >= 0
    <3>1. \A i, k \in Nat : i * k >= 0
      OBVIOUS
    <3> QED
      BY <3>1, <2>2, <1>1
  <2> QED
    BY <2>2, <2>3, <1>1, <1>2, <1>7 DEF PermitsAreCounted
<1> QED
  BY <1>4, <1>5, <1>6, <1>7 DEF PermitStep

\* A worker's step keeps the invariant.
LEMMA WorkerStepKeeps ==
  ASSUME DockerInv, NEW t \in Trials, Step(t)
  PROVE  DockerInv'
<1>1. StepIsSound(t) /\ up = "yes"
  BY WorkerStepSound
<1>2. \A u \in Trials : TrialInv(u)'
  BY <1>1, OthersKeepTheirs DEF StepIsSound, DockerInv
<1> QED
  BY <1>1, <1>2, PermitsKept DEF DockerInv, StepIsSound

\* The process dies.
LEMMA CrashKeeps ==
  ASSUME DockerInv, Crash
  PROVE  DockerInv'
<1> USE DEF Crash
<1>1. WorkTypes'
  BY DEF DockerInv, WorkTypes
<1>2. ASSUME NEW t \in Trials
      PROVE  TrialInv(t)'
  BY DEF DockerInv, TrialInv, BeginsClean, PassedOver, HandlesAreKept, CleanupIsDone, Clean, NoBox
<1>3. PermitsAreCounted'
  BY CapAssumption DEF DockerInv, PermitsAreCounted, Active
<1> QED
  BY <1>1, <1>2, <1>3 DEF DockerInv

\* Recovery removes what it finds of an attempt.
LEMMA ReconcileKeeps ==
  ASSUME DockerInv, NEW t \in Trials, Reconcile(t)
  PROVE  DockerInv'
<1> USE DEF Reconcile, Boxes
<1>1. WorkTypes'
  BY DEF DockerInv, WorkTypes, Phases
<1>2. Clean(t)'
  BY DEF Clean, NoBox
<1>3. ASSUME NEW u \in Trials
      PROVE  TrialInv(u)'
  <2>1. NoBox(u) => NoBox(u)'
    BY DEF NoBox
  <2>2. Clean(u) => Clean(u)'
    BY <2>1 DEF Clean
  <2>3. BeginsClean(u)'
    BY <2>1, <2>2 DEF DockerInv, TrialInv, BeginsClean
  <2>4. PassedOver(u)'
    BY <1>2, <2>2 DEF DockerInv, TrialInv, PassedOver, WorkTypes
  <2> QED
    BY <2>3, <2>4 DEF TrialInv, HandlesAreKept, CleanupIsDone
<1>4. PermitsAreCounted'
  BY DEF DockerInv, PermitsAreCounted, Active
<1> QED
  BY <1>1, <1>3, <1>4 DEF DockerInv

\* Recovery comes to its end, one way or the other.
LEMMA RecoveryEndKeeps ==
  ASSUME DockerInv, Recovered \/ \E t \in Trials : ReconcileFails(t)
  PROVE  DockerInv'
<1> USE DEF Recovered, ReconcileFails, RequiresRelease, workVars
<1>1. WorkTypes'
  BY DEF DockerInv, WorkTypes
<1>2. ASSUME NEW t \in Trials
      PROVE  TrialInv(t)'
  BY DEF DockerInv, TrialInv, BeginsClean, PassedOver, HandlesAreKept, CleanupIsDone, Clean, NoBox
<1>3. PermitsAreCounted'
  BY DEF DockerInv, PermitsAreCounted, Active
<1> QED
  BY <1>1, <1>2, <1>3 DEF DockerInv

\* The invariant holds at the start.
LEMMA DockerInvInit ==
  ASSUME Init
  PROVE  DockerInv
<1> USE DEF Init
<1>1. WorkTypes
  BY MaxAttemptsAssumption DEF WorkTypes, States, Phases
<1>2. ASSUME NEW t \in Trials
      PROVE  TrialInv(t)
  BY MaxAttemptsAssumption
  DEF TrialInv, BeginsClean, PassedOver, HandlesAreKept, CleanupIsDone, Clean, NoBox, OnlyHas,
      Early, Stages, Materialized
<1>3. PermitsAreCounted
  <2>1. Active = {}
    BY DEF Active
  <2>2. Cardinality(Active) = 0
    BY <2>1, FS_EmptySet
  <2> QED
    BY <2>2, UnitsArePlanned, CapAssumption DEF PermitsAreCounted
<1> QED
  BY <1>1, <1>2, <1>3 DEF DockerInv

\* Nothing changes.
LEMMA DockerInvStutters ==
  ASSUME DockerInv, UNCHANGED vars
  PROVE  DockerInv'
<1> USE DEF vars, workVars
<1>1. WorkTypes'
  BY DEF DockerInv, WorkTypes
<1>2. ASSUME NEW t \in Trials
      PROVE  TrialInv(t)'
  BY DEF DockerInv, TrialInv, BeginsClean, PassedOver, HandlesAreKept, CleanupIsDone, Clean,
         NoBox, OnlyHas
<1>3. PermitsAreCounted'
  BY DEF DockerInv, PermitsAreCounted, Active
<1> QED
  BY <1>1, <1>2, <1>3 DEF DockerInv

\* Every step of the Docker executor keeps the invariant.
LEMMA DockerInvStep ==
  ASSUME DockerInv, Next \/ UNCHANGED vars
  PROVE  DockerInv'
  BY WorkerStepKeeps, CrashKeeps, ReconcileKeeps, RecoveryEndKeeps, DockerInvStutters DEF Next

\* The containers of a trial, by their roles.
LEMMA BoxesByRole ==
  ASSUME WorkTypes, NEW t \in Trials
  PROVE  /\ NoBox(t) <=> Boxes(t) = {}
         /\ \A R : OnlyHas(t, R) => Boxes(t) \subseteq {t} \X R
<1>1. \A b \in Boxes(t) : \E r \in Roles : b = <<t, r>>
  BY PlannedRoles DEF WorkTypes, Boxes
<1>2. \A r \in Roles : <<t, r>> \in box <=> <<t, r>> \in Boxes(t)
  BY DEF Boxes
<1>3. NoBox(t) <=> Boxes(t) = {}
  BY <1>1, <1>2 DEF NoBox
<1>4. ASSUME NEW R, OnlyHas(t, R)
      PROVE  Boxes(t) \subseteq {t} \X R
  BY <1>1, <1>2, <1>4 DEF OnlyHas
<1> QED
  BY <1>3, <1>4

\* The containers of the trials under way are among those permits were taken for.
LEMMA CapIsKept ==
  ASSUME DockerInv
  PROVE  WithinCap
<1> DEFINE Live == {b \in box : pc[b[1]] # "returned"}
           n == Cardinality(Active)
           p == Cardinality(Planned)
<1>1. Live \subseteq Active \X Planned
  <2> SUFFICES ASSUME NEW b \in Live
               PROVE  b \in Active \X Planned
    OBVIOUS
  <2>1. PICK t \in Trials, r \in Planned : b = <<t, r>>
    BY DEF DockerInv, WorkTypes
  <2>2. pc[t] # "returned" /\ <<t, r>> \in box
    BY <2>1
  <2>3. pc[t] # "idle"
    BY <2>2, PlannedRoles DEF DockerInv, TrialInv, BeginsClean, Early, Clean, NoBox
  <2> QED
    BY <2>1, <2>2, <2>3 DEF Active
<1>2. /\ IsFiniteSet(Active) /\ IsFiniteSet(Planned)
      /\ n \in Nat /\ p \in Nat /\ p <= Units /\ Units \in Nat
  BY ActiveIsFinite, UnitsArePlanned DEF DockerInv
<1>3. IsFiniteSet(Active \X Planned) /\ Cardinality(Active \X Planned) = n * p
  BY <1>2, FS_Product
<1>4. Cardinality(Live) <= n * p
  <2> HIDE DEF Live
  <2> QED
    BY <1>1, <1>3, FS_Subset
<1>5. n * p <= Units * n
  <2>1. PICK d \in Nat : Units = p + d
    <3>1. Units - p \in Nat /\ Units = p + (Units - p)
      BY <1>2
    <3> QED
      BY <3>1
  <2>2. \A i, j, k \in Nat : (j + k) * i = i * j + i * k
    OBVIOUS
  <2>3. \A i, k \in Nat : i * k >= 0 /\ i * k \in Int
    OBVIOUS
  <2>4. Units * n = n * p + n * d /\ n * d >= 0
    BY <1>2, <2>1, <2>2, <2>3
  <2> QED
    BY <1>2, <2>1, <2>3, <2>4
<1>6. Units * n <= Cap
  BY DEF DockerInv, PermitsAreCounted
<1>7. Cardinality(Live) \in Int /\ n * p \in Int /\ Units * n \in Int /\ Cap \in Int
  <2>1. IsFiniteSet(Live)
    BY <1>1, <1>3, FS_Subset
  <2> QED
    BY <1>2, <2>1, FS_CardinalityType, CapAssumption
<1> QED
  BY <1>4, <1>5, <1>6, <1>7 DEF WithinCap

\* What the invariant says of the Docker executor's properties.
LEMMA DockerProperties ==
  ASSUME DockerInv
  PROVE  OkLeavesNothing /\ WithinCap /\ WorkIsOnRecord /\ RecoveryCleansTheInterrupted
<1>1. OkLeavesNothing
  BY BoxesByRole DEF DockerInv, TrialInv, BeginsClean, Clean, OkLeavesNothing
<1>2. ASSUME NEW t \in Trials, up = "yes", pc[t] \in {"agent", "grader"}
      PROVE  Boxes(t) \subseteq {t} \X ids[t] /\ phase[t] \in {"AgentRunning", "GraderRunning"}
  <2>1. HandlesAreKept(t)
    BY DEF DockerInv, TrialInv
  <2>2. OnlyHas(t, mem[t] \cup fresh[t]) /\ fresh[t] = {} /\ mem[t] \subseteq ids[t]
    BY <1>2, <2>1 DEF HandlesAreKept, Materialized, Stages
  <2>3. OnlyHas(t, ids[t])
    BY <2>2 DEF OnlyHas
  <2>4. Boxes(t) \subseteq {t} \X ids[t]
    BY <2>3, BoxesByRole DEF DockerInv
  <2> QED
    BY <1>2, <2>1, <2>4 DEF HandlesAreKept
<1>3. RecoveryCleansTheInterrupted
  BY BoxesByRole DEF DockerInv, TrialInv, PassedOver, Clean, RecoveryCleansTheInterrupted
<1> QED
  BY <1>1, <1>2, <1>3, CapIsKept DEF WorkIsOnRecord

-----------------------------------------------------------------------------
(* On Modal. *)

\* What a launcher has by the time it is somewhere: a task sandbox from its creation to
\* its termination, a grading sandbox only beside it, and none of its own between two
\* steps; and what it has created it has noted, or is about to.  What is different failed
\* to be terminated or noted.  There is one launcher at most.
LauncherInv(t) ==
  /\ trial[t] \in {"idle", "permit", "persisted"} => launcher[t] = "none"
  /\ \A role \in {"stager", "exporter"} : <<t, role>> \in boxes => <<t, role>> \in faults
  /\ <<t, "task">> \in boxes \ faults =>
       /\ launcher[t] \notin {"none", "stage", "create", "done"}
       /\ "task" \in workers[t] \/ launcher[t] = "note" \/ <<t, "note">> \in faults
  /\ <<t, "grading">> \in boxes \ faults =>
       /\ launcher[t] \in {"notegrader", "grade", "result", "export", "terminate", "broken"}
       /\ "grading" \in workers[t] \/ launcher[t] = "notegrader" \/ <<t, "note">> \in faults

ModalTypes ==
  /\ trial \in [Trials -> Modal!TrialStates]
  /\ launcher \in [Trials -> Modal!LauncherStates]
  /\ workers \in [Trials -> SUBSET {"task", "grading"}]

ModalInv == ModalTypes /\ \A t \in Trials : LauncherInv(t)

\* The launcher's steps.
LEMMA LauncherStepKeeps ==
  ASSUME ModalInv, NEW t \in Trials, Modal!LauncherStep(t)
  PROVE  ModalInv'
<1> USE DEF ModalInv, ModalTypes, LauncherInv, Modal!Goes, Modal!Quiet, Modal!RunErr,
            Modal!LauncherStates, Modal!Fault
<1>1. CASE Modal!Stage(t)
  BY <1>1 DEF Modal!Stage, Modal!borrowSandbox
<1>2. CASE Modal!CreateTask(t)
  BY <1>2 DEF Modal!CreateTask, Modal!SandboxCreated, Modal!CreationFails, Modal!borrowSandbox
<1>3. CASE Modal!NoteTask(t)
  BY <1>3 DEF Modal!NoteTask, Modal!writeRuntimeWorker
<1>4. CASE Modal!Work(t)
  BY <1>4, GradingAssumption DEF Modal!Work
<1>5. CASE Modal!CreateGrader(t)
  BY <1>5 DEF Modal!CreateGrader, Modal!SandboxCreated, Modal!CreationFails,
              Modal!borrowSandbox
<1>6. CASE Modal!NoteGrader(t)
  BY <1>6 DEF Modal!NoteGrader, Modal!writeRuntimeWorker
<1>7. CASE Modal!Grade(t)
  BY <1>7 DEF Modal!Grade
<1>8. CASE Modal!EmitResult(t)
  BY <1>8 DEF Modal!EmitResult
<1>9. CASE Modal!Export(t)
  BY <1>9 DEF Modal!Export, Modal!borrowSandbox
<1>10. CASE Modal!Terminate(t)
  BY <1>10 DEF Modal!Terminate, Modal!terminateSandbox
<1> QED
  BY <1>1, <1>2, <1>3, <1>4, <1>5, <1>6, <1>7, <1>8, <1>9, <1>10 DEF Modal!LauncherStep

\* The runner's steps: only the launch concerns a launcher.
LEMMA RunnerStepKeeps ==
  ASSUME ModalInv, NEW t \in Trials, Modal!RunnerStep(t)
  PROVE  ModalInv'
<1> USE DEF ModalInv, ModalTypes, LauncherInv, Modal!launcherVars, Modal!LauncherStates,
            Modal!TrialStates, Modal!Return, Modal!Continue
<1>1. CASE Modal!Acquire(t)
  BY <1>1 DEF Modal!Acquire
<1>2. CASE Modal!Persist(t)
  BY <1>2 DEF Modal!Persist
<1>3. CASE Modal!Launch(t)
  BY <1>3 DEF Modal!Launch
<1>4. CASE Modal!Receive(t) \/ Modal!RecordAgent(t) \/ Modal!Finish(t)
  BY <1>4 DEF Modal!Receive, Modal!RecordAgent, Modal!Finish
<1> QED
  BY <1>1, <1>2, <1>3, <1>4 DEF Modal!RunnerStep

\* Kill and recovery, a crash, and nothing at all.
LEMMA OthersKeepLaunchers ==
  ASSUME ModalInv,
         (\E t \in Trials : Modal!CleanUp(t)) \/ Modal!Crash \/ UNCHANGED modalVars
  PROVE  ModalInv'
<1> USE DEF ModalInv, ModalTypes, LauncherInv
<1>1. ASSUME NEW t \in Trials, Modal!CleanUp(t)
      PROVE  ModalInv'
  BY <1>1 DEF Modal!CleanUp, Modal!Fault
<1>2. CASE Modal!Crash
  BY <1>2 DEF Modal!Crash, Modal!launcherVars, Modal!TrialStates
<1>3. CASE UNCHANGED modalVars
  BY <1>3 DEF modalVars
<1> QED
  BY <1>1, <1>2, <1>3

\* The invariant holds at the start.
LEMMA ModalInvInit ==
  ASSUME Modal!Init
  PROVE  ModalInv
  BY DEF Modal!Init, ModalInv, ModalTypes, LauncherInv, Modal!LauncherStates, Modal!TrialStates

\* Every step of the Modal executor keeps the invariant.
LEMMA ModalInvStep ==
  ASSUME ModalInv, Modal!Next \/ UNCHANGED modalVars
  PROVE  ModalInv'
  BY LauncherStepKeeps, RunnerStepKeeps, OthersKeepLaunchers DEF Modal!Next

\* What the invariant says of the Modal executor's properties.
LEMMA ModalProperties ==
  ASSUME ModalInv
  PROVE  Modal!LauncherLeavesNothing /\ Modal!SandboxesAreOnRecord
  BY DEF ModalInv, LauncherInv, Modal!SandboxRoles, Modal!LauncherLeavesNothing,
         Modal!SandboxesAreOnRecord

-----------------------------------------------------------------------------
(* The two executors. *)

\* Either executor's invariant is kept, whichever runs.
LEMMA RuntimeInvariant == MCSpec => [](DockerInv /\ ModalInv)
<1>1. MCInit => DockerInv /\ ModalInv
  BY DockerInvInit, ModalInvInit DEF MCInit
<1>2. ASSUME DockerInv /\ ModalInv, [MCNext]_allVars
      PROVE  (DockerInv /\ ModalInv)'
  <2>1. CASE Next /\ OnDocker
    BY <1>2, <2>1, DockerInvStep, ModalInvStep DEF OnDocker
  <2>2. CASE Modal!Next /\ OnModal
    BY <1>2, <2>2, DockerInvStep, ModalInvStep DEF OnModal
  <2>3. CASE UNCHANGED allVars
    BY <1>2, <2>3, DockerInvStep, ModalInvStep DEF allVars
  <2> QED
    BY <1>2, <2>1, <2>2, <2>3 DEF MCNext
<1> QED
  BY <1>1, <1>2, PTL DEF MCSpec

\* A Docker trial that returned a result has left no container and no network, a launcher
\* that is through has no sandbox but those that Modal did not terminate when asked, and the
\* Docker trials under way have no more containers than the limit, for any number of trials,
\* sidecars, attempts and faults and any limit, and wherever the process dies (execute_local_docker_trial_runtime, runLaunch,
\* ActiveRuntimeLimiter).
THEOREM NothingIsLeftBehind == MCSpec => []ContainersAreAccounted
<1>1. DockerInv /\ ModalInv => ContainersAreAccounted
  BY DockerProperties, ModalProperties DEF ContainersAreAccounted
<1> QED
  BY <1>1, RuntimeInvariant, PTL

\* While an agent or a grader works its containers are on record, a sandbox is noted or
\* about to be unless its note could not be written or its creation not be undone, and a
\* recovery that succeeds leaves nothing of an interrupted attempt
\* (persist_attempt_state, writeRuntimeWorker, recover_run).
THEOREM WorkIsFound == MCSpec => []RuntimeIsFound
<1>1. DockerInv /\ ModalInv => RuntimeIsFound
  BY DockerProperties, ModalProperties DEF RuntimeIsFound
<1> QED
  BY <1>1, RuntimeInvariant, PTL

\* The attempt's state on local Docker keeps its types: the attempts stay within
\* retry_max_attempts, and what the limiter has given out within the limit.
THEOREM AttemptTypeCorrect == MCSpec => []AttemptTypeOK
<1>1. ASSUME DockerInv
      PROVE  AttemptTypeOK
  <2>1. box \subseteq Trials \X Roles
    BY <1>1, PlannedRoles DEF DockerInv, WorkTypes
  <2> QED
    BY <1>1, <2>1 DEF DockerInv, WorkTypes, PermitsAreCounted, AttemptTypeOK
<1> QED
  BY <1>1, RuntimeInvariant, PTL
=============================================================================
