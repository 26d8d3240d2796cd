-------------------------- MODULE RunControlProofs --------------------------
(***************************************************************************)
(* Proofs about pause, kill and resume against a live engine: a completed  *)
(* run is quiet, and a kill sweeps a run whose engine is dead, for any     *)
(* number of slots, workers and operations.                                *)
(***************************************************************************)
EXTENDS RunControl, WellFoundedInduction, TLAPS

\* The messages on the channel, and what is known of a trial's containers.
Kinds == {"claimed", "completed", "failed"}
Boxes == [Roles -> {"none", "running", "paused"}]

\* An operation that is busy with a target has one.
HasTarget == op.pc \in {"touch", "load", "store"} => op.todo # {}

\* What the broker has in flight is what the workers are at.
FlightIsBusy == flight = {t \in Trials : wpc[t] \notin {"idle", "reported"}}

\* A trial that left a container behind has told the engine that it failed, and an engine in its
\* loop has not heard of it yet.
LeftoversAreReported ==
  epc \in {"look", "act"} =>
    \A t \in Trials : wpc[t] = "reported" =>
      Labelled(t) = {} \/ \E i \in DOMAIN events : events[i] = <<"failed", t>>

\* An engine that an operation found dead stays dead.
OrphanIsDead == op.orphan \/ op.swept => ~alive

\* A kill without a failure comes to its last write only after the sweep.
SweptBeforeWrite ==
  op.pc = "write" /\ op.kind = "kill" /\ op.bad = {} /\ op.orphan => \A t \in Trials : Labelled(t) = {}

\* The inductive invariant: how workers, engine, containers and operation depend on each other.
ControlInv ==
  /\ ControlTypeOK /\ HasTarget
  /\ FlightIsBusy /\ LeftoversAreReported /\ CompletedRunIsQuiet
  /\ OrphanIsDead /\ SweptBeforeWrite /\ KillSweepsDeadRun

-----------------------------------------------------------------------------
(* The workers. *)

\* The row a worker persists is a row.
LEMMA PersistedRow ==
  ASSUME ControlTypeOK, NEW t \in Trials, NEW phase \in Phases, NEW ids \in SUBSET Roles,
         Persist(t, phase, ids)
  PROVE  row' \in [Trials -> Rows]
<1> DEFINE r == [phase |-> phase, from |-> "none", ids |-> ids]
<1>1. r \in Rows
  BY DEF Rows, Phases
<1>2. row' = [row EXCEPT ![t] = r] /\ row \in [Trials -> Rows]
  BY DEF Persist, ControlTypeOK
<1> HIDE DEF r
<1> QED
  BY <1>1, <1>2

\* The ids a worker has are roles.
LEMMA RolesOfTrial == \A t : Ids(t) \in SUBSET Roles
BY DEF Ids, Roles

\* A container that is started.
LEMMA BoxStarted ==
  ASSUME ControlTypeOK, NEW t \in Trials, NEW r \in Roles,
         box' = [box EXCEPT ![t][r] = "running"]
  PROVE  /\ box' \in [Trials -> Boxes]
         /\ \A u \in Trials \ {t} : box'[u] = box[u]
<1> DEFINE b == [box[t] EXCEPT ![r] = "running"]
<1>1. box \in [Trials -> Boxes]
  BY DEF ControlTypeOK, Boxes
<1>2. box[t] \in Boxes
  BY <1>1
<1>3. b \in Boxes
  BY <1>2 DEF Boxes
<1>4. box' = [box EXCEPT ![t] = b]
  OBVIOUS
<1> HIDE DEF b
<1> QED
  BY <1>1, <1>3, <1>4

\* A clean-up that succeeds leaves no container, and one that fails those that were there.
LEMMA CleanedUp ==
  ASSUME ControlTypeOK, NEW t \in Trials, NEW left \in {{}, Roles}, Cleanup(t, left)
  PROVE  /\ box' \in [Trials -> Boxes] /\ table' \in [Trials -> SUBSET Roles]
         /\ \A u \in Trials \ {t} : box'[u] = box[u]
         /\ left = {} => \A r \in Roles : box'[t][r] = "none"
<1> DEFINE b == [r \in Roles |-> IF r \in left THEN box[t][r] ELSE "none"]
<1>1. box \in [Trials -> Boxes] /\ table \in [Trials -> SUBSET Roles]
  BY DEF ControlTypeOK, Boxes
<1>2. box[t] \in Boxes
  BY <1>1
<1>3. b \in Boxes /\ (left = {} => \A r \in Roles : b[r] = "none")
  BY <1>2 DEF Boxes
<1>4. box' = [box EXCEPT ![t] = b] /\ table' = [table EXCEPT ![t] = table[t] \cap left]
  BY DEF Cleanup
<1> HIDE DEF b
<1> QED
  BY <1>1, <1>3, <1>4

\* A worker's step is one of three: it claims, it goes on, or it reports; and if it reports with a
\* container left behind it reports a failure.
Claims(t) == wpc[t] = "idle" /\ wpc'[t] = "begin" /\ flight' = flight \cup {t}
GoesOn(t) ==
  /\ wpc[t] \notin {"idle", "reported"} /\ wpc'[t] \notin {"idle", "reported"}
  /\ flight' = flight
Reports(t) ==
  /\ wpc[t] \notin {"idle", "reported"} /\ wpc'[t] = "reported" /\ flight' = flight \ {t}
  /\ Labelled(t)' = {} \/ events' = Append(events, <<"failed", t>>)

\* What a worker's step may do to everything but its own trial: nothing.
WorkerFacts(t) ==
  /\ alive /\ Elsewhere
  /\ row' \in [Trials -> Rows] /\ table' \in [Trials -> SUBSET Roles] /\ box' \in [Trials -> Boxes]
  /\ \A u \in Trials \ {t} : box'[u] = box[u]
  /\ \E to \in WorkerStates : wpc' = [wpc EXCEPT ![t] = to]
  /\ events' = events \/ \E k \in Kinds : events' = Append(events, <<k, t>>)
  /\ Claims(t) \/ GoesOn(t) \/ Reports(t)

\* Each of a worker's actions is such a step.
LEMMA WorkerStep ==
  ASSUME ControlTypeOK, NEW t \in Trials, Worker(t)
  PROVE  WorkerFacts(t)
<1>0. /\ wpc \in [Trials -> WorkerStates] /\ row \in [Trials -> Rows]
      /\ table \in [Trials -> SUBSET Roles] /\ box \in [Trials -> Boxes]
  BY DEF ControlTypeOK, Boxes
<1>1. ASSUME NEW from \in WorkerStates, NEW to \in WorkerStates, Moves(t, from, to)
      PROVE  /\ alive /\ wpc[t] = from /\ wpc'[t] = to
             /\ wpc' = [wpc EXCEPT ![t] = to]
  BY <1>0, <1>1 DEF Moves
<1>2. CASE Claim(t)
  <2>1. Moves(t, "idle", "begin") /\ Elsewhere /\ UNCHANGED dockerVars
    BY <1>2 DEF Claim
  <2>2. Claims(t) /\ alive /\ wpc' = [wpc EXCEPT ![t] = "begin"]
    BY <1>1, <1>2, <2>1 DEF Claim, Claims, WorkerStates
  <2>3. events' = Append(events, <<"claimed", t>>)
    BY <1>2 DEF Claim
  <2> QED
    BY <1>0, <2>1, <2>2, <2>3 DEF WorkerFacts, dockerVars, Kinds, WorkerStates
<1>3. ASSUME NEW from \in WorkerStates \ {"idle", "reported"}, NEW to \in WorkerStates \ {"idle", "reported"},
             Moves(t, from, to), Elsewhere, events' = events, flight' = flight,
             row' \in [Trials -> Rows], table' \in [Trials -> SUBSET Roles], box' \in [Trials -> Boxes],
             \A u \in Trials \ {t} : box'[u] = box[u]
      PROVE  WorkerFacts(t)
  <2>1. GoesOn(t) /\ alive /\ wpc' = [wpc EXCEPT ![t] = to]
    BY <1>1, <1>3 DEF GoesOn
  <2> QED
    BY <1>3, <2>1 DEF WorkerFacts
<1>4. CASE BeginAttempt(t)
  <2>1. row' \in [Trials -> Rows]
    BY <1>4, PersistedRow DEF BeginAttempt, Phases
  <2> QED
    BY <1>0, <1>3, <1>4, <2>1 DEF BeginAttempt, WorkerStates
<1>5. CASE StartContainer(t)
  <2>1. row' \in [Trials -> Rows]
    BY <1>5, PersistedRow DEF StartContainer, Phases
  <2>2. box' \in [Trials -> Boxes] /\ \A u \in Trials \ {t} : box'[u] = box[u]
    BY <1>5, BoxStarted DEF StartContainer, Roles
  <2> QED
    BY <1>0, <1>3, <1>5, <2>1, <2>2 DEF StartContainer, WorkerStates
<1>6. CASE RecordContainer(t)
  <2>1. row' \in [Trials -> Rows]
    BY <1>6, PersistedRow DEF RecordContainer, Phases, Roles
  <2>2. table' \in [Trials -> SUBSET Roles]
    BY <1>0, <1>6 DEF RecordContainer, Roles
  <2> QED
    BY <1>0, <1>3, <1>6, <2>1, <2>2 DEF RecordContainer, WorkerStates
<1>7. CASE StartSidecar(t)
  <2>1. box' \in [Trials -> Boxes] /\ \A u \in Trials \ {t} : box'[u] = box[u]
    BY <1>7, BoxStarted DEF StartSidecar, Roles
  <2> QED
    BY <1>0, <1>3, <1>7, <2>1 DEF StartSidecar, WorkerStates
<1>8. CASE RecordSidecar(t) \/ StartAgent(t) \/ AgentEnds(t) \/ AgentTimesOut(t) \/ Finalize(t)
  <2>1. row' \in [Trials -> Rows]
    BY <1>8, PersistedRow, RolesOfTrial
    DEF RecordSidecar, StartAgent, AgentEnds, AgentTimesOut, Finalize, Phases
  <2> QED
    BY <1>0, <1>3, <1>8, <2>1
    DEF RecordSidecar, StartAgent, AgentEnds, AgentTimesOut, Finalize, WorkerStates
<1>9. CASE AgentVanishes(t) \/ Grade(t)
  BY <1>0, <1>3, <1>9 DEF AgentVanishes, Grade, dockerVars, WorkerStates
<1>10. CASE CleanAndReport(t) \/ FailAndReport(t)
  <2>1. PICK from \in {"clean", "fail"} : Moves(t, from, "reported") /\ Elsewhere
    BY <1>10 DEF CleanAndReport, FailAndReport
  <2>2. /\ alive /\ wpc[t] \notin {"idle", "reported"} /\ wpc'[t] = "reported"
        /\ wpc' = [wpc EXCEPT ![t] = "reported"]
    BY <1>1, <2>1 DEF WorkerStates
  <2>3. row' \in [Trials -> Rows]
    BY <1>10, PersistedRow, RolesOfTrial DEF CleanAndReport, FailAndReport, Phases
  <2>4. PICK left \in {{}, Roles}, k \in Kinds :
          Cleanup(t, left) /\ Report(t, k) /\ (left # {} => k = "failed")
    BY <1>10 DEF CleanAndReport, FailAndReport, Kinds
  <2>5. /\ box' \in [Trials -> Boxes] /\ table' \in [Trials -> SUBSET Roles]
        /\ \A u \in Trials \ {t} : box'[u] = box[u]
        /\ left = {} => \A r \in Roles : box'[t][r] = "none"
    BY <2>4, CleanedUp
  <2>6. events' = Append(events, <<k, t>>) /\ flight' = flight \ {t}
    BY <2>4 DEF Report
  <2>7. Labelled(t)' = {} \/ events' = Append(events, <<"failed", t>>)
    BY <2>4, <2>5, <2>6 DEF Labelled
  <2>8. Reports(t)
    BY <2>2, <2>6, <2>7 DEF Reports
  <2> QED
    BY <2>1, <2>2, <2>3, <2>5, <2>6, <2>8 DEF WorkerFacts, WorkerStates
<1> QED
  BY <1>2, <1>4, <1>5, <1>6, <1>7, <1>8, <1>9, <1>10 DEF Worker

\* A message sent joins those that wait and disturbs none of them.
LEMMA AppendedEvent ==
  ASSUME NEW S, NEW e \in S, events \in Seq(S), events' = Append(events, e)
  PROVE  /\ events' \in Seq(S)
         /\ \A i \in DOMAIN events : i \in DOMAIN events' /\ events'[i] = events[i]
         /\ \E i \in DOMAIN events' : events'[i] = e
<1>1. /\ Len(events) \in Nat /\ DOMAIN events = 1 .. Len(events)
      /\ Append(events, e) \in Seq(S) /\ Len(Append(events, e)) = Len(events) + 1
  OBVIOUS
<1>2. DOMAIN events' = 1 .. Len(events) + 1
  BY <1>1
<1>3. events'[Len(events) + 1] = e /\ \A i \in 1 .. Len(events) : events'[i] = events[i]
  BY <1>1
<1>4. Len(events) + 1 \in DOMAIN events' /\ \A i \in 1 .. Len(events) : i \in DOMAIN events'
  BY <1>1, <1>2
<1> QED
  BY <1>1, <1>3, <1>4

\* A worker's step keeps the invariant.
LEMMA WorkerKeeps ==
  ASSUME ControlInv, NEW t \in Trials, Worker(t)
  PROVE  ControlInv'
<1>0. WorkerFacts(t) /\ ControlTypeOK
  BY WorkerStep DEF ControlInv
<1>1. /\ UNCHANGED <<slots, ctl, alive, epc, requested, accepting, op, ops>> /\ alive
      /\ row' \in [Trials -> Rows] /\ table' \in [Trials -> SUBSET Roles] /\ box' \in [Trials -> Boxes]
      /\ \A u \in Trials \ {t} : box'[u] = box[u]
      /\ events' = events \/ \E k \in Kinds : events' = Append(events, <<k, t>>)
      /\ Claims(t) \/ GoesOn(t) \/ Reports(t)
  BY <1>0 DEF WorkerFacts, Elsewhere
<1>2. PICK to \in WorkerStates : wpc' = [wpc EXCEPT ![t] = to]
  BY <1>0 DEF WorkerFacts
<1>3. Trials' = Trials
  BY <1>1 DEF Trials
<1>4. wpc' \in [Trials -> WorkerStates] /\ \A u \in Trials \ {t} : wpc'[u] = wpc[u]
  BY <1>0, <1>2 DEF ControlTypeOK
<1>5. /\ events' \in Seq(Kinds \X Trials)
      /\ \A i \in DOMAIN events : i \in DOMAIN events' /\ events'[i] = events[i]
      /\ events' = Append(events, <<"failed", t>>) => \E i \in DOMAIN events' : events'[i] = <<"failed", t>>
  <2>1. events \in Seq(Kinds \X Trials)
    BY <1>0 DEF ControlTypeOK, Kinds
  <2>2. \A k \in Kinds : <<k, t>> \in Kinds \X Trials
    OBVIOUS
  <2>3. CASE events' = events /\ events' # Append(events, <<"failed", t>>)
    BY <2>1, <2>3
  <2>4. ASSUME NEW k \in Kinds, events' = Append(events, <<k, t>>)
        PROVE  /\ events' \in Seq(Kinds \X Trials)
               /\ \A i \in DOMAIN events : i \in DOMAIN events' /\ events'[i] = events[i]
               /\ \E i \in DOMAIN events' : events'[i] = <<k, t>>
    BY <2>1, <2>2, <2>4, AppendedEvent
  <2>5. "failed" \in Kinds
    BY DEF Kinds
  <2> QED
    BY <1>1, <2>3, <2>4, <2>5
<1>6. flight' = {u \in Trials : wpc'[u] \notin {"idle", "reported"}}
  <2>1. flight = {u \in Trials : wpc[u] \notin {"idle", "reported"}}
    BY DEF ControlInv, FlightIsBusy
  <2> QED
    BY <1>1, <1>4, <2>1 DEF Claims, GoesOn, Reports
<1>7. ControlTypeOK'
  <2>1. flight' \subseteq Trials
    BY <1>6
  <2> QED
    BY <1>0, <1>1, <1>3, <1>4, <1>5, <2>1 DEF ControlTypeOK, Ops, Boxes, Kinds
<1>8. wpc[t] # "reported"
  BY <1>1 DEF Claims, GoesOn, Reports
<1>9. epc # "completed"
  BY <1>8 DEF ControlInv, CompletedRunIsQuiet
<1>10. LeftoversAreReported'
  <2> SUFFICES ASSUME epc \in {"look", "act"}, NEW u \in Trials, wpc'[u] = "reported"
               PROVE  Labelled(u)' = {} \/ \E i \in DOMAIN events' : events'[i] = <<"failed", u>>
    BY <1>1, <1>3 DEF LeftoversAreReported
  <2>1. CASE u = t
    <3>1. Reports(t)
      BY <1>1, <2>1 DEF Claims, GoesOn
    <3> QED
      BY <1>5, <2>1, <3>1 DEF Reports
  <2>2. CASE u # t
    <3>1. wpc[u] = "reported" /\ box'[u] = box[u]
      BY <1>1, <1>4, <2>2
    <3>2. Labelled(u)' = Labelled(u)
      BY <3>1 DEF Labelled
    <3>3. Labelled(u) = {} \/ \E i \in DOMAIN events : events[i] = <<"failed", u>>
      BY <3>1 DEF ControlInv, LeftoversAreReported
    <3> QED
      BY <1>5, <3>2, <3>3
  <2> QED
    BY <2>1, <2>2
<1>11. ~op.orphan /\ ~op.swept
  BY <1>1 DEF ControlInv, OrphanIsDead
<1>12. /\ HasTarget' /\ OrphanIsDead' /\ SweptBeforeWrite' /\ KillSweepsDeadRun' /\ CompletedRunIsQuiet'
  BY <1>1, <1>9, <1>11
  DEF ControlInv, HasTarget, OrphanIsDead, SweptBeforeWrite, KillSweepsDeadRun, CompletedRunIsQuiet
<1>13. FlightIsBusy'
  BY <1>3, <1>6 DEF FlightIsBusy
<1> QED
  BY <1>7, <1>10, <1>12, <1>13 DEF ControlInv

-----------------------------------------------------------------------------
(* The engine. *)

\* No container is started.
NoneStarted ==
  /\ box' \in [Trials -> Boxes]
  /\ \A t \in Trials : Labelled(t)' \subseteq Labelled(t)

\* A step that leaves the containers alone starts none.
LEMMA SameBoxes ==
  ASSUME ControlTypeOK, box' = box
  PROVE  NoneStarted
BY DEF ControlTypeOK, NoneStarted, Labelled, Boxes

\* The engine's steps leave workers and operations alone.
LEMMA EngineKeeps ==
  ASSUME ControlInv, EngineStep \/ Interrupt \/ Crash
  PROVE  ControlInv'
<1>0. /\ ControlTypeOK /\ events \in Seq(Kinds \X Trials) /\ flight \subseteq Trials
  BY DEF ControlInv, ControlTypeOK, Kinds
<1>1. UNCHANGED <<slots, flight, wpc, row, table, op, ops>> /\ alive
  BY DEF EngineStep, Look, HandleEvent, HandleFailure, NoEvent, ReturnOutcome, Complete, Shutdown, Joined,
         Interrupt, Crash, EngineOnly, workerVars, dockerVars
<1>2. NoneStarted
  <2>1. CASE Shutdown
    <3>1. PICK failed \in SUBSET flight :
            box' = [t \in Trials |-> IF t \in flight \ failed THEN [r \in Roles |-> "none"] ELSE box[t]]
      BY <2>1 DEF Shutdown
    <3>2. \A t \in Trials : box'[t] = box[t] \/ box'[t] = [r \in Roles |-> "none"]
      BY <3>1
    <3>3. box' \in [Trials -> Boxes]
      BY <1>0, <3>1 DEF ControlTypeOK, Boxes
    <3>4. ASSUME NEW t \in Trials PROVE Labelled(t)' \subseteq Labelled(t)
      BY <3>2, <3>4 DEF Labelled
    <3> QED
      BY <3>3, <3>4 DEF NoneStarted
  <2>2. CASE ~Shutdown
    <3>1. box' = box
      BY <2>2
      DEF EngineStep, Look, HandleEvent, HandleFailure, NoEvent, ReturnOutcome, Complete, Joined,
          Interrupt, Crash, EngineOnly, dockerVars
    <3> QED
      BY <1>0, <3>1, SameBoxes
  <2> QED
    BY <2>1, <2>2
<1>3. /\ alive' \in BOOLEAN /\ accepting' \in BOOLEAN
      /\ epc' \in {"look", "act", "stop", "join", "ended", "completed"}
      /\ requested' \in {"none", "paused", "killed", "interrupted"}
  BY <1>0
  DEF ControlTypeOK, EngineStep, Look, HandleEvent, HandleFailure, NoEvent, ReturnOutcome, Complete, Shutdown,
      Joined, Interrupt, Crash
<1>4. ctl' \in [status : Statuses, active : SUBSET Trials]
  <2>1. /\ ctl \in [status : Statuses, active : SUBSET Trials]
        /\ schedule_engine_status \in Statuses
    BY <1>0 DEF ControlTypeOK, schedule_engine_status, Statuses
  <2>2. ctl' = ctl \/ \E st \in Statuses, a \in SUBSET Trials : ctl' = [status |-> st, active |-> a]
    BY <1>0, <2>1
    DEF EngineStep, Look, HandleEvent, HandleFailure, NoEvent, ReturnOutcome, Complete, Shutdown,
        Joined, Interrupt, Crash, write_run_control, Statuses
  <2> QED
    BY <2>1, <2>2
<1>5. /\ events' \in Seq(Kinds \X Trials)
      /\ \/ events' = events
         \/ events # <<>> /\ events' = Tail(events) /\ (HandleFailure \/ Head(events)[1] # "failed")
  BY <1>0
  DEF EngineStep, Look, HandleEvent, HandleFailure, NoEvent, ReturnOutcome, Complete, Shutdown,
      Joined, Interrupt, Crash
<1>6. Trials' = Trials
  BY <1>1 DEF Trials
<1>7. ControlTypeOK'
  BY <1>0, <1>1, <1>2, <1>3, <1>4, <1>5, <1>6 DEF ControlTypeOK, NoneStarted, Boxes, Ops, Kinds
<1>8. LeftoversAreReported'
  <2> SUFFICES ASSUME epc' \in {"look", "act"}, NEW u \in Trials, wpc[u] = "reported", Labelled(u)' # {}
               PROVE  \E i \in DOMAIN events' : events'[i] = <<"failed", u>>
    BY <1>1, <1>6 DEF LeftoversAreReported
  <2>1. epc \in {"look", "act"} /\ ~HandleFailure
    BY DEF EngineStep, Look, HandleEvent, HandleFailure, NoEvent, ReturnOutcome, Complete, Shutdown,
           Joined, Interrupt, Crash
  <2>2. PICK i \in DOMAIN events : events[i] = <<"failed", u>>
    BY <1>2, <2>1 DEF ControlInv, LeftoversAreReported, NoneStarted
  <2>3. CASE events' = events
    BY <2>2, <2>3
  <2>4. CASE events # <<>> /\ events' = Tail(events) /\ Head(events)[1] # "failed"
    <3>1. /\ Len(events) \in Nat /\ DOMAIN events = 1 .. Len(events) /\ Head(events) = events[1]
          /\ Len(Tail(events)) = Len(events) - 1 /\ DOMAIN Tail(events) = 1 .. Len(events) - 1
      BY <1>0, <2>4
    <3>2. i # 1
      BY <2>2, <2>4, <3>1
    <3>3. i - 1 \in 1 .. Len(events) - 1
      BY <3>1, <3>2
    <3>4. Tail(events)[i - 1] = events[i]
      BY <1>0, <2>4, <3>1, <3>3
    <3> QED
      BY <2>2, <2>4, <3>1, <3>3, <3>4
  <2> QED
    BY <1>5, <2>1, <2>3, <2>4
<1>9. CompletedRunIsQuiet'
  <2> SUFFICES ASSUME epc' = "completed"
               PROVE  flight = {} /\ \A t \in Trials : wpc[t] = "reported" /\ Labelled(t) = {}
    BY <1>1, <1>2, <1>6 DEF CompletedRunIsQuiet, NoneStarted
  <2>1. CASE epc = "completed"
    BY <2>1 DEF ControlInv, CompletedRunIsQuiet
  <2>2. CASE epc # "completed"
    <3>1. Complete
      BY <2>2
      DEF EngineStep, Look, HandleEvent, HandleFailure, NoEvent, ReturnOutcome, Complete, Shutdown,
          Joined, Interrupt, Crash
    <3>2. epc = "act" /\ events = <<>> /\ \A t \in Trials : wpc[t] = "reported"
      BY <3>1 DEF Complete, AllReported
    <3>3. DOMAIN events = {}
      BY <3>2
    <3>4. \A t \in Trials : Labelled(t) = {}
      BY <3>2, <3>3 DEF ControlInv, LeftoversAreReported
    <3> QED
      BY <3>2, <3>4 DEF ControlInv, FlightIsBusy
  <2> QED
    BY <2>1, <2>2
<1>10. FlightIsBusy'
  BY <1>1, <1>6 DEF ControlInv, FlightIsBusy
<1>11. HasTarget' /\ OrphanIsDead' /\ SweptBeforeWrite' /\ KillSweepsDeadRun'
  BY <1>1 DEF ControlInv, HasTarget, OrphanIsDead, SweptBeforeWrite, KillSweepsDeadRun
<1> QED
  BY <1>7, <1>8, <1>9, <1>10, <1>11 DEF ControlInv

-----------------------------------------------------------------------------
(* The operations. *)

\* The target an operation is at is one that is left.
LEMMA TargetIsLeft ==
  ASSUME ControlInv, op.pc \in {"touch", "load", "store"}
  PROVE  Target \in op.todo /\ Target \in Trials
<1>1. op.todo \subseteq Trials /\ op.todo # {} /\ Trials \subseteq Nat
  BY DEF ControlInv, ControlTypeOK, Ops, HasTarget, Trials
<1>2. PICK m \in op.todo : \A y \in op.todo : ~(<<y, m>> \in OpToRel(<, Nat))
  BY <1>1, NatLessThanWellFounded, WFMin
<1>3. \A y \in op.todo : m <= y
  <2> SUFFICES ASSUME NEW y \in op.todo PROVE m <= y
    OBVIOUS
  <2>1. y \in Nat /\ m \in Nat
    BY <1>1
  <2>2. ~(<<y, m>> \in OpToRel(<, Nat))
    BY <1>2
  <2>3. ~(y < m)
    BY <2>1, <2>2, Zenon DEF OpToRel
  <2> QED
    BY <2>1, <2>3
<1> QED
  BY <1>1, <1>3 DEF Target

\* Freezing, thawing and removing start no container.
LEMMA BoxesSet ==
  ASSUME ControlTypeOK, NEW t \in Trials, NEW roles, NEW from \in SUBSET {"running", "paused"},
         NEW to \in {"none", "running", "paused"}, SetBoxes(t, roles, from, to)
  PROVE  NoneStarted
<1> DEFINE b == [r \in Roles |-> IF r \in roles /\ box[t][r] \in from THEN to ELSE box[t][r]]
<1>1. box \in [Trials -> Boxes]
  BY DEF ControlTypeOK, Boxes
<1>2. box[t] \in Boxes
  BY <1>1
<1>3. b \in Boxes /\ \A r \in Roles : b[r] # "none" => box[t][r] # "none"
  BY <1>2 DEF Boxes
<1>4. box' = [box EXCEPT ![t] = b]
  BY DEF SetBoxes
<1> HIDE DEF b
<1>5. box' \in [Trials -> Boxes] /\ box'[t] = b /\ \A u \in Trials \ {t} : box'[u] = box[u]
  BY <1>1, <1>3, <1>4
<1>6. \A u \in Trials : \A r \in Roles : box'[u][r] # "none" => box[u][r] # "none"
  BY <1>3, <1>5
<1>7. \A u \in Trials : Labelled(u)' \subseteq Labelled(u)
  BY <1>6 DEF Labelled
<1> QED
  BY <1>5, <1>7 DEF NoneStarted

\* What an operation's step does to the operation itself.
OpGoesOn ==
  /\ op' \in Ops
  /\ HasTarget'
  /\ op'.orphan => op.orphan \/ ~alive
  /\ op'.swept => op.swept \/ (op.kind = "kill" /\ op.orphan /\ op.pc = "write" /\ op.bad = {})
  /\ ~(op'.pc = "write" /\ op'.kind = "kill" /\ op'.bad = {})

\* The operation's fields have their types.
LEMMA OpIsTyped ==
  ASSUME ControlInv
  PROVE  /\ op.kind \in {"none", "pause", "kill", "resume"}
         /\ op.pc \in {"touch", "load", "store", "sweep", "write", "done"}
         /\ op.active \subseteq Trials /\ op.todo \subseteq Trials
         /\ op.good \subseteq Trials /\ op.bad \subseteq Trials
         /\ op.row \in Rows /\ op.orphan \in BOOLEAN /\ op.swept \in BOOLEAN
         /\ op \in Ops
BY DEF ControlInv, ControlTypeOK, Ops

\* The row of a trial without one is a row.
LEMMA NoRowIsRow == NoRow \in Rows
BY DEF NoRow, Rows, Phases

\* It begins.
LEMMA OpBegins ==
  ASSUME ControlInv, NEW kind \in {"pause", "kill", "resume"}, NEW targets \in SUBSET Trials,
         kind # "kill" => targets # {}, Begin(kind, targets)
  PROVE  OpGoesOn /\ ops' \in 0 .. MaxOps
<1>1. ctl.active \subseteq Trials /\ alive \in BOOLEAN /\ ops \in 0 .. MaxOps /\ slots \in 1 .. MaxSlots
  BY DEF ControlInv, ControlTypeOK
<1> DEFINE p == CASE kind = "resume" -> "load" [] targets = {} -> "sweep" [] OTHER -> "touch"
<1>2. p \in {"load", "sweep", "touch"} /\ (p # "sweep" => targets # {})
  OBVIOUS
<1>3. op' = [kind |-> kind, active |-> ctl.active, todo |-> targets, good |-> {}, bad |-> {},
             pc |-> p, row |-> NoRow, orphan |-> ~alive, swept |-> FALSE]
  BY DEF Begin
<1> HIDE DEF p
<1>4. op' \in Ops
  BY <1>1, <1>2, <1>3, NoRowIsRow DEF Ops
<1>5. op'.pc = p /\ op'.todo = targets /\ op'.orphan = ~alive /\ op'.swept = FALSE
  BY <1>3
<1>6. OpGoesOn
  BY <1>2, <1>4, <1>5 DEF OpGoesOn, HasTarget
<1>7. ops' = ops + 1 /\ ops + 1 <= MaxOps
  <2>1. ops \in Nat /\ slots \in Nat /\ slots >= 1 /\ (ops + 1) * slots <= MaxOps /\ ops' = ops + 1
    BY <1>1, MaxOpsAssumption, MaxSlotsAssumption DEF Begin
  <2>2. (ops + 1) * slots >= ops + 1
    BY <2>1
  <2> QED
    BY <2>1, <2>2, MaxOpsAssumption
<1> QED
  BY <1>1, <1>6, <1>7, MaxOpsAssumption

\* It ends.
LEMMA OpEnds ==
  ASSUME ControlInv, NEW ok \in BOOLEAN, Ends(ok),
         ok /\ op.kind = "kill" => op.pc = "write" /\ op.bad = {}
  PROVE  OpGoesOn
<1> DEFINE s == ok /\ op.kind = "kill" /\ op.orphan
<1>1. s \in BOOLEAN
  OBVIOUS
<1>2. op' = [kind |-> "none", pc |-> "done", active |-> {}, todo |-> {}, good |-> {},
             bad |-> {}, row |-> NoRow, orphan |-> FALSE, swept |-> s]
  BY DEF Ends, Idle
<1>3. s => op.kind = "kill" /\ op.orphan /\ op.pc = "write" /\ op.bad = {}
  OBVIOUS
<1> HIDE DEF s
<1>4. op' \in Ops
  BY <1>1, <1>2, NoRowIsRow DEF Ops
<1>5. op'.pc = "done" /\ op'.orphan = FALSE /\ op'.swept = s
  BY <1>2
<1> QED
  BY <1>3, <1>4, <1>5 DEF OpGoesOn, HasTarget

\* It goes on with its target.
LEMMA OpMoves ==
  ASSUME ControlInv, NEW next \in {"touch", "load", "store", "sweep", "write", "done"}, NEW r \in Rows,
         op' = [op EXCEPT !.row = r, !.pc = next],
         op.todo # {} \/ next \notin {"touch", "load", "store"},
         next = "write" => op.kind # "kill"
  PROVE  OpGoesOn
<1>1. op' \in Ops
  BY OpIsTyped DEF Ops
<1>2. /\ op'.pc = next /\ op'.todo = op.todo /\ op'.kind = op.kind
      /\ op'.orphan = op.orphan /\ op'.swept = op.swept
  BY OpIsTyped DEF Ops
<1> QED
  BY <1>1, <1>2 DEF OpGoesOn, HasTarget

\* It is through with its target.
LEMMA OpTurns ==
  ASSUME ControlInv, op.pc \in {"touch", "load", "store"},
         NEW good \in SUBSET Trials, NEW bad \in SUBSET Trials, NEW r \in Rows,
         op' = [op EXCEPT !.todo = op.todo \ {Target}, !.good = good, !.bad = bad, !.row = r,
                          !.pc = After(op.todo \ {Target}, bad)]
  PROVE  OpGoesOn
<1> DEFINE left == op.todo \ {Target}
<1> DEFINE p == After(left, bad)
<1>1. /\ p \in {"touch", "sweep", "write"} /\ (p = "touch" => left # {})
      /\ p = "write" => op.kind # "kill" \/ bad # {}
  BY DEF After
<1>2. left \in SUBSET Trials
  BY OpIsTyped
<1>3. op' = [op EXCEPT !.todo = left, !.good = good, !.bad = bad, !.row = r, !.pc = p]
  OBVIOUS
<1> HIDE DEF left, p
<1>4. op' \in Ops
  BY <1>1, <1>2, <1>3, OpIsTyped DEF Ops
<1>5. /\ op'.pc = p /\ op'.todo = left /\ op'.kind = op.kind /\ op'.bad = bad
      /\ op'.orphan = op.orphan /\ op'.swept = op.swept
  BY <1>3, OpIsTyped DEF Ops
<1> QED
  BY <1>1, <1>4, <1>5 DEF OpGoesOn, HasTarget

\* It fails at its target and turns to the next.
LEMMA OpFails ==
  ASSUME ControlInv, op.pc \in {"touch", "load", "store"}, Fails
  PROVE  OpGoesOn
<1>1. op.bad \cup {Target} \in SUBSET Trials /\ op.good \in SUBSET Trials /\ op.row \in Rows
  BY TargetIsLeft, OpIsTyped
<1>2. op' = [op EXCEPT !.todo = op.todo \ {Target}, !.good = op.good, !.bad = op.bad \cup {Target},
                       !.row = op.row, !.pc = After(op.todo \ {Target}, op.bad \cup {Target})]
  BY OpIsTyped DEF Fails, Ops
<1> QED
  BY <1>1, <1>2, OpTurns

\* It stores its target's row and turns to the next.
LEMMA OpStores ==
  ASSUME ControlInv, op.pc \in {"touch", "load", "store"}, NEW r \in Rows, Stored(r)
  PROVE  OpGoesOn /\ row' \in [Trials -> Rows]
<1>1. op.good \cup {Target} \in SUBSET Trials /\ op.bad \in SUBSET Trials
  BY TargetIsLeft, OpIsTyped
<1>2. op' = [op EXCEPT !.todo = op.todo \ {Target}, !.good = op.good \cup {Target}, !.bad = op.bad,
                       !.row = NoRow, !.pc = After(op.todo \ {Target}, op.bad)]
  BY OpIsTyped DEF Stored, Ops
<1>3. OpGoesOn
  BY <1>1, <1>2, NoRowIsRow, OpTurns
<1>4. row' \in [Trials -> Rows]
  BY DEF Stored, ControlInv, ControlTypeOK
<1> QED
  BY <1>3, <1>4

\* Every step of an operation.
OpFacts ==
  /\ UNCHANGED <<slots, alive, epc, requested, events, accepting, flight, wpc, table>>
  /\ ctl' \in [status : Statuses, active : SUBSET Trials]
  /\ row' \in [Trials -> Rows]
  /\ ops' \in 0 .. MaxOps
  /\ NoneStarted
  /\ OpGoesOn \/ /\ op' \in Ops /\ HasTarget' /\ op'.orphan = op.orphan /\ op'.swept = op.swept
                 /\ \A t \in Trials : Labelled(t)' = {}

\* Each action of pause_run, kill_run and resume_trial is such a step.
LEMMA OperationStep ==
  ASSUME ControlInv, OpStep
  PROVE  OpFacts
<1>0. /\ ControlTypeOK /\ ctl \in [status : Statuses, active : SUBSET Trials] /\ row \in [Trials -> Rows]
      /\ ops \in 0 .. MaxOps /\ table \in [Trials -> SUBSET Roles]
  BY DEF ControlInv, ControlTypeOK
<1>1. UNCHANGED <<slots, alive, epc, requested, events, accepting, flight, wpc, table>>
  BY DEF OpStep, PauseBegin, KillBegin, ResumeBegin, Begin, PauseTouch, KillTouch, OpLoad, PauseStore,
         KillStore, PauseWrite, KillSweep, KillWrite, ResumeTouch, ResumeStore, ResumeWrite, OpDies,
         Bystanders, engineVars, workerVars, dockerVars
<1>2. \A st \in Statuses, a \in SUBSET Trials :
        write_run_control(st, a) => ctl' \in [status : Statuses, active : SUBSET Trials]
  BY DEF write_run_control
<1>3. CASE PauseBegin \/ KillBegin \/ ResumeBegin
  <2>1. PICK kind \in {"pause", "kill", "resume"}, targets \in SUBSET Trials :
          Begin(kind, targets) /\ (kind # "kill" => targets # {})
    <3>1. CASE PauseBegin
      <4>1. PICK targets \in {ctl.active} \cup {{t} : t \in ctl.active} : Begin("pause", targets)
        BY <3>1 DEF PauseBegin
      <4>2. targets \in SUBSET Trials /\ targets # {}
        BY <1>0, <3>1, <4>1 DEF PauseBegin
      <4> QED
        BY <4>1, <4>2
    <3>2. CASE KillBegin
      <4>1. ctl.active \in SUBSET Trials /\ Begin("kill", ctl.active)
        BY <1>0, <3>2 DEF KillBegin
      <4> QED
        BY <4>1
    <3>3. CASE ResumeBegin
      <4>1. PICK t \in Trials : Begin("resume", {t})
        BY <3>3 DEF ResumeBegin
      <4>2. {t} \in SUBSET Trials /\ {t} # {}
        OBVIOUS
      <4> QED
        BY <4>1, <4>2
    <3> QED
      BY <1>3, <3>1, <3>2, <3>3
  <2>2. OpGoesOn /\ ops' \in 0 .. MaxOps
    BY <2>1, OpBegins
  <2>3. UNCHANGED <<ctl, row, box>>
    BY <2>1 DEF Begin, dockerVars
  <2> QED
    BY <1>0, <1>1, <2>2, <2>3, SameBoxes DEF OpFacts
<1>4. CASE PauseTouch
  <2>1. op.pc = "touch" /\ op.kind = "pause" /\ Target \in Trials
    BY <1>4, TargetIsLeft DEF PauseTouch
  <2>2. NoneStarted
    BY <1>0, <1>4, <2>1, BoxesSet DEF PauseTouch
  <2>3. OpGoesOn
    <3>1. CASE OpGoes("load")
      <4>1. op' = [op EXCEPT !.row = op.row, !.pc = "load"] /\ op.todo # {} /\ op.row \in Rows
        BY <2>1, <3>1, OpIsTyped, TargetIsLeft DEF OpGoes, Ops
      <4> QED
        BY <4>1, OpMoves
    <3>2. CASE Fails
      BY <2>1, <3>2, OpFails
    <3> QED
      BY <1>4, <3>1, <3>2 DEF PauseTouch
  <2>4. UNCHANGED <<ctl, row, ops>>
    BY <1>4 DEF PauseTouch
  <2> QED
    BY <1>0, <1>1, <2>2, <2>3, <2>4 DEF OpFacts
<1>5. CASE KillTouch
  <2>1. op.pc = "touch" /\ op.kind = "kill" /\ Target \in Trials
    BY <1>5, TargetIsLeft DEF KillTouch
  <2>2. NoneStarted
    BY <1>0, <1>5, <2>1, BoxesSet DEF KillTouch
  <2>3. OpGoesOn
    <3>1. CASE OpGoes("load")
      <4>1. op' = [op EXCEPT !.row = op.row, !.pc = "load"] /\ op.todo # {} /\ op.row \in Rows
        BY <2>1, <3>1, OpIsTyped, TargetIsLeft DEF OpGoes, Ops
      <4> QED
        BY <4>1, OpMoves
    <3>2. CASE Fails
      BY <2>1, <3>2, OpFails
    <3> QED
      BY <1>5, <3>1, <3>2 DEF KillTouch
  <2>4. UNCHANGED <<ctl, row, ops>>
    BY <1>5 DEF KillTouch
  <2> QED
    BY <1>0, <1>1, <2>2, <2>3, <2>4 DEF OpFacts
<1>6. CASE OpLoad
  <2>1. op.pc = "load" /\ Target \in Trials /\ Target \in op.todo
    BY <1>6, TargetIsLeft DEF OpLoad
  <2>2. UNCHANGED <<ctl, row, box, ops>>
    BY <1>6 DEF OpLoad, dockerVars
  <2>3. OpGoesOn
    <3>1. CASE Ends(FALSE)
      BY <3>1, OpEnds
    <3>2. ASSUME NEW next \in {"touch", "store"}, op' = [op EXCEPT !.row = row[Target], !.pc = next]
          PROVE  OpGoesOn
      <4>1. row[Target] \in Rows /\ op.todo # {}
        BY <1>0, <2>1
      <4> QED
        BY <3>2, <4>1, OpMoves
    <3> QED
      BY <1>6, <3>1, <3>2 DEF OpLoad
  <2> QED
    BY <1>0, <1>1, <2>2, <2>3, SameBoxes DEF OpFacts
<1>7. CASE PauseStore \/ KillStore
  <2>1. op.pc = "store" /\ Target \in Trials
    BY <1>7, TargetIsLeft DEF PauseStore, KillStore
  <2>2. PICK r \in Rows : Stored(r)
    <3>1. row[Target] \in Rows /\ op.row \in Rows
      BY <1>0, <2>1, OpIsTyped
    <3>2. PausedRow \in Rows /\ [op.row EXCEPT !.phase = "Killed", !.from = "none"] \in Rows
      BY <3>1 DEF PausedRow, Rows, Phases
    <3> QED
      BY <1>7, <3>1, <3>2 DEF PauseStore, KillStore
  <2>3. OpGoesOn /\ row' \in [Trials -> Rows]
    BY <2>1, <2>2, OpStores
  <2>4. UNCHANGED <<ctl, box, ops>>
    BY <1>7 DEF PauseStore, KillStore
  <2> QED
    BY <1>0, <1>1, <2>3, <2>4, SameBoxes DEF OpFacts
<1>8. CASE PauseWrite \/ KillWrite \/ ResumeWrite
  <2>1. op.pc = "write" /\ UNCHANGED <<row, box, ops>>
    BY <1>8 DEF PauseWrite, KillWrite, ResumeWrite, dockerVars
  <2>2. PICK ok \in BOOLEAN : Ends(ok) /\ (ok /\ op.kind = "kill" => op.bad = {})
    BY <1>8 DEF PauseWrite, KillWrite, ResumeWrite
  <2>3. OpGoesOn
    BY <2>1, <2>2, OpEnds
  <2>4. ctl' \in [status : Statuses, active : SUBSET Trials]
    <3>1. /\ op.good \in SUBSET Trials /\ op.active \ op.good \in SUBSET Trials /\ op.bad \in SUBSET Trials
          /\ op.active \in SUBSET Trials /\ {} \in SUBSET Trials
      BY OpIsTyped
    <3> QED
      BY <1>2, <1>8, <3>1 DEF PauseWrite, KillWrite, ResumeWrite, Statuses
  <2> QED
    BY <1>0, <1>1, <2>1, <2>3, <2>4, SameBoxes DEF OpFacts
<1>9. CASE KillSweep
  <2>1. op.pc = "sweep" /\ UNCHANGED <<row, ops>>
    BY <1>9 DEF KillSweep
  <2>2. CASE box' = [t \in Trials |-> [r \in Roles |-> "none"]] /\ OpGoes("write") /\ UNCHANGED ctl
    <3>1. NoneStarted /\ \A t \in Trials : Labelled(t)' = {}
      BY <2>2 DEF NoneStarted, Boxes, Labelled
    <3>2. /\ op' \in Ops /\ op'.pc = "write" /\ op'.orphan = op.orphan /\ op'.swept = op.swept
      BY <2>2, OpIsTyped DEF OpGoes, Ops
    <3> QED
      BY <1>0, <1>1, <2>1, <2>2, <3>1, <3>2 DEF OpFacts, HasTarget
  <2>3. CASE write_run_control("interrupted", {}) /\ Ends(FALSE) /\ UNCHANGED box
    <3>1. OpGoesOn
      BY <2>3, OpEnds
    <3>2. ctl' \in [status : Statuses, active : SUBSET Trials]
      BY <1>2, <2>3 DEF Statuses
    <3> QED
      BY <1>0, <1>1, <2>1, <2>3, <3>1, <3>2, SameBoxes DEF OpFacts
  <2> QED
    BY <1>9, <2>2, <2>3 DEF KillSweep
<1>10. CASE ResumeTouch
  <2>1. op.pc = "touch" /\ op.kind = "resume" /\ Target \in Trials /\ Target \in op.todo
    BY <1>10, TargetIsLeft DEF ResumeTouch
  <2>2. NoneStarted
    BY <1>0, <1>10, <2>1, BoxesSet DEF ResumeTouch
  <2>3. OpGoesOn
    <3>1. CASE OpGoes("store")
      <4>1. op' = [op EXCEPT !.row = op.row, !.pc = "store"] /\ op.todo # {} /\ op.row \in Rows
        BY <2>1, <3>1, OpIsTyped DEF OpGoes, Ops
      <4> QED
        BY <4>1, OpMoves
    <3>2. CASE Ends(FALSE)
      BY <3>2, OpEnds
    <3> QED
      BY <1>10, <3>1, <3>2 DEF ResumeTouch
  <2>4. UNCHANGED <<ctl, row, ops>>
    BY <1>10 DEF ResumeTouch
  <2> QED
    BY <1>0, <1>1, <2>2, <2>3, <2>4 DEF OpFacts
<1>11. CASE ResumeStore
  <2>1. op.pc = "store" /\ op.kind = "resume" /\ op.row \in Rows /\ UNCHANGED <<ctl, box, ops>>
    BY <1>11, OpIsTyped DEF ResumeStore
  <2>2. row' \in [Trials -> Rows]
    <3> DEFINE r == [op.row EXCEPT !.phase = op.row.from, !.from = "none"]
    <3>1. r \in Rows
      BY <2>1 DEF Rows, Phases
    <3>2. row' = [row EXCEPT ![Target] = r]
      BY <1>11 DEF ResumeStore
    <3> HIDE DEF r
    <3> QED
      BY <1>0, <3>1, <3>2
  <2>3. op' = [op EXCEPT !.row = op.row, !.pc = "write"]
    BY <1>11, OpIsTyped DEF ResumeStore, OpGoes, Ops
  <2>4. OpGoesOn
    BY <2>1, <2>3, OpMoves
  <2> QED
    BY <1>0, <1>1, <2>1, <2>2, <2>4, SameBoxes DEF OpFacts
<1>12. CASE OpDies
  <2>1. Ends(FALSE) /\ UNCHANGED <<ctl, row, box, ops>>
    BY <1>12 DEF OpDies, dockerVars
  <2>2. OpGoesOn
    BY <2>1, OpEnds
  <2> QED
    BY <1>0, <1>1, <2>1, <2>2, SameBoxes DEF OpFacts
<1> QED
  BY <1>3, <1>4, <1>5, <1>6, <1>7, <1>8, <1>9, <1>10, <1>11, <1>12 DEF OpStep

\* An operation's step keeps the invariant.
LEMMA OperationKeeps ==
  ASSUME ControlInv, OpStep
  PROVE  ControlInv'
<1>1. OpFacts /\ ControlTypeOK
  BY OperationStep DEF ControlInv
<1>2. /\ UNCHANGED <<slots, alive, epc, requested, events, accepting, flight, wpc, table>>
      /\ NoneStarted /\ \A t \in Trials : Labelled(t)' \subseteq Labelled(t)
  BY <1>1 DEF OpFacts, NoneStarted
<1>3. Trials' = Trials
  BY <1>2 DEF Trials
<1>4. op' \in Ops /\ HasTarget'
  BY <1>1 DEF OpFacts, OpGoesOn
<1>5. ControlTypeOK'
  BY <1>1, <1>3, <1>4 DEF OpFacts, ControlTypeOK, NoneStarted, Boxes, Ops
<1>6. FlightIsBusy' /\ LeftoversAreReported' /\ CompletedRunIsQuiet'
  BY <1>2, <1>3 DEF ControlInv, FlightIsBusy, LeftoversAreReported, CompletedRunIsQuiet
<1>7. OrphanIsDead'
  BY <1>1, <1>2 DEF ControlInv, OrphanIsDead, OpFacts, OpGoesOn
<1>8. SweptBeforeWrite'
  BY <1>1, <1>3 DEF SweptBeforeWrite, OpFacts, OpGoesOn
<1>9. KillSweepsDeadRun'
  BY <1>1, <1>2, <1>3 DEF ControlInv, KillSweepsDeadRun, SweptBeforeWrite, OpFacts, OpGoesOn
<1> QED
  BY <1>4, <1>5, <1>6, <1>7, <1>8, <1>9 DEF ControlInv

-----------------------------------------------------------------------------
(* The run. *)

\* A run starts with the invariant.
LEMMA ControlInitInv == Init => ControlInv
<1> SUFFICES ASSUME Init PROVE ControlInv
  OBVIOUS
<1>1. ControlTypeOK
  <2>1. Idle \in Ops
    BY NoRowIsRow DEF Idle, Ops
  <2>2. [r \in Roles |-> "none"] \in Boxes
    BY DEF Boxes
  <2> QED
    BY <2>1, <2>2, NoRowIsRow, MaxOpsAssumption DEF Init, ControlTypeOK, Statuses, WorkerStates, Boxes
<1>2. HasTarget /\ OrphanIsDead /\ SweptBeforeWrite /\ KillSweepsDeadRun
  BY DEF Init, Idle, HasTarget, OrphanIsDead, SweptBeforeWrite, KillSweepsDeadRun
<1>3. FlightIsBusy /\ LeftoversAreReported /\ CompletedRunIsQuiet
  BY DEF Init, FlightIsBusy, LeftoversAreReported, CompletedRunIsQuiet
<1> QED
  BY <1>1, <1>2, <1>3 DEF ControlInv

\* Every step keeps it.
LEMMA ControlStepInv == ControlInv /\ [Next]_vars => ControlInv'
<1> SUFFICES ASSUME ControlInv, [Next]_vars PROVE ControlInv'
  OBVIOUS
<1>1. CASE UNCHANGED vars
  <2>1. UNCHANGED <<slots, ctl, alive, epc, requested, events, accepting, flight, wpc, row, table, box, op, ops>>
    BY <1>1 DEF vars, engineVars, workerVars, dockerVars
  <2>2. Trials' = Trials /\ \A t : Labelled(t)' = Labelled(t)
    BY <2>1 DEF Trials, Labelled
  <2>3. ControlTypeOK' /\ HasTarget' /\ FlightIsBusy'
    BY <2>1, <2>2 DEF ControlInv, ControlTypeOK, Ops, HasTarget, FlightIsBusy
  <2>4. LeftoversAreReported' /\ CompletedRunIsQuiet'
    BY <2>1, <2>2 DEF ControlInv, LeftoversAreReported, CompletedRunIsQuiet
  <2>5. OrphanIsDead' /\ SweptBeforeWrite' /\ KillSweepsDeadRun'
    BY <2>1, <2>2 DEF ControlInv, OrphanIsDead, SweptBeforeWrite, KillSweepsDeadRun
  <2> QED
    BY <2>3, <2>4, <2>5 DEF ControlInv
<1> QED
  BY <1>1, WorkerKeeps, EngineKeeps, OperationKeeps DEF Next

\* So it holds throughout.
LEMMA ControlInvariance == Spec => []ControlInv
BY ControlInitInv, ControlStepInv, PTL DEF Spec

\* Control record, channel, workers, containers and operation keep their types whatever a pause, a
\* kill or a resume writes over.
THEOREM ControlTypeCorrect == Spec => []ControlTypeOK
<1>1. ControlInv => ControlTypeOK
  BY DEF ControlInv
<1> QED
  BY <1>1, ControlInvariance, PTL

\* An engine that reports completed has nothing in flight and no container left, frozen or running:
\* a trial whose clean-up failed has said so, and its message ends the loop first.
THEOREM CompletedIsQuiet == Spec => []CompletedRunIsQuiet
<1>1. ControlInv => CompletedRunIsQuiet
  BY DEF ControlInv
<1> QED
  BY <1>1, ControlInvariance, PTL

\* A kill_run that returns Ok for a run whose engine is dead leaves no container of the run: its
\* last write follows a sweep by label, and no worker is left to start another.
THEOREM DeadRunIsSwept == Spec => []KillSweepsDeadRun
<1>1. ControlInv => KillSweepsDeadRun
  BY DEF ControlInv
<1> QED
  BY <1>1, ControlInvariance, PTL
=============================================================================
