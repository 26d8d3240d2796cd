----------------------------- MODULE EngineLease ----------------------------
(***************************************************************************)
(* The engine lease of lab-runner (experiment/lease.rs): the runtime_kv    *)
(* entry engine_lease_v1 that a running engine renews from its heartbeat   *)
(* thread and that recover_run looks at to decide whether the engine is    *)
(* dead.                                                                   *)
(*                                                                         *)
(* A lease is read, and a lease is made and then written, in steps of      *)
(* their own.  No step compares: a heartbeat overwrites an adopted lease   *)
(* and an engine that starts does not ask whether another one lives, so    *)
(* safety rests on timing alone.  The module says how much timing.  The    *)
(* epoch and the owner in the record are never compared with anything and  *)
(* are left out.                                                           *)
(***************************************************************************)
EXTENDS Integers

CONSTANTS
  Engines,     \* processes that run the schedule engine: run or continue
  Recoveries,  \* invocations of recover_run
  TTL,         \* ENGINE_LEASE_TTL_SECONDS, in clock ticks
  Gap,         \* the longest time between two heartbeats of a prompt engine
  Lag,         \* the longest time from reading the clock to the write or check
  MaxClock,    \* bound: the last tick
  MaxCommits   \* bound: the slots committed

ASSUME TimesAssumption == /\ TTL \in Nat /\ Gap \in Nat /\ Lag \in Nat
                          /\ MaxClock \in Nat /\ MaxCommits \in Nat

\* A Gap is ENGINE_LEASE_HEARTBEAT_SECONDS and a Lag: with 2 s, and a TTL of
\* 6 s, a Lag of 4/3 s meets the assumption.
ASSUME PromptAssumption == Lag <= Gap /\ Gap + Lag + Lag <= TTL

VARIABLES
  lease,      \* expires_at of the stored lease, or NoLease
  clock,      \* Utc::now(), in ticks
  pc,         \* where each process is
  draft,      \* the now of the lease a process has made
  beat,       \* the now of the lease an engine last wrote
  commits,    \* how many slots are committed
  snapshot,   \* the commits recover_run has loaded
  loadedAt,   \* and when it loaded them
  readAt,     \* the now recover_run compares the lease with
  slow        \* history: a heartbeat, a write or a check came too late

vars == <<lease, clock, pc, draft, beat, commits, snapshot, loadedAt, readAt, slow>>
recoveryVars == <<snapshot, loadedAt, readAt>>

Processes == Engines \cup Recoveries
Times == 0 .. MaxClock
NoLease == -1

States == {"idle", "ensuring", "ensured", "starting", "running", "beating", "stopped",
           "loaded", "checking", "adopting", "writing", "recovering", "refused"}

\* The lease, the clock and what the processes remember have values of their type.
TypeOK ==
  /\ lease \in -1 .. (MaxClock + TTL)
  /\ clock \in Times
  /\ pc \in [Processes -> States]
  /\ draft \in [Processes -> Times]
  /\ beat \in [Engines -> Times]
  /\ commits \in 0 .. MaxCommits
  /\ snapshot \in [Recoveries -> 0 .. MaxCommits]
  /\ loadedAt \in [Recoveries -> Times] /\ readAt \in [Recoveries -> Times]
  /\ slow \in BOOLEAN

Init ==
  /\ lease = NoLease
  /\ clock = 0
  /\ pc = [p \in Processes |-> "idle"]
  /\ draft = [p \in Processes |-> 0]
  /\ beat = [e \in Engines |-> 0]
  /\ commits = 0
  /\ snapshot = [r \in Recoveries |-> 0]
  /\ loadedAt = [r \in Recoveries |-> 0] /\ readAt = [r \in Recoveries |-> 0]
  /\ slow = FALSE

Goto(p, from, to) ==
  /\ pc[p] = from
  /\ pc' = [pc EXCEPT ![p] = to]

\* make_engine_lease reads the clock; the write comes later.
make_engine_lease(p, from, to) ==
  /\ Goto(p, from, to)
  /\ draft' = [draft EXCEPT ![p] = clock]
  /\ UNCHANGED <<lease, clock, beat, commits, recoveryVars, slow>>

write_engine_lease(p, from, to) ==
  /\ Goto(p, from, to)
  /\ lease' = draft[p] + TTL
  /\ UNCHANGED <<clock, draft, commits, recoveryVars, slow>>

-----------------------------------------------------------------------------
\* start_engine_lease_heartbeat_with_writer: ensure_engine_lease_for_run makes
\* sure that there is a lease, then the engine writes one of its own.

EnsureFound(e) ==
  /\ lease # NoLease
  /\ Goto(e, "idle", "ensured")
  /\ UNCHANGED <<lease, clock, draft, beat, commits, recoveryVars, slow>>

EnsureMake(e) == lease = NoLease /\ make_engine_lease(e, "idle", "ensuring")
EnsureWrite(e) == write_engine_lease(e, "ensuring", "ensured") /\ UNCHANGED beat

StartMake(e) == make_engine_lease(e, "ensured", "starting")

StartWrite(e) ==
  /\ write_engine_lease(e, "starting", "running")
  /\ beat' = [beat EXCEPT ![e] = draft[e]]

\* The heartbeat thread.  A write that fails is a warning.
BeatMake(e) == make_engine_lease(e, "running", "beating")

\* Mutant: the heartbeat renews heartbeat_at and not expires_at.
BeatWriteKeepsExpiry(e) ==
  /\ Goto(e, "beating", "running")
  /\ beat' = [beat EXCEPT ![e] = draft[e]]
  /\ UNCHANGED <<lease, clock, draft, commits, recoveryVars, slow>>

BeatWrite(e) ==
  /\ write_engine_lease(e, "beating", "running")
  /\ beat' = [beat EXCEPT ![e] = draft[e]]

BeatFails(e) ==
  /\ Goto(e, "beating", "running")
  /\ UNCHANGED <<lease, clock, draft, beat, commits, recoveryVars, slow>>

Alive(e) == pc[e] \in {"running", "beating"}

\* The engine at work: each commit is one more for a recovery to know of.
CommitSlot(e) ==
  /\ Alive(e)
  /\ commits < MaxCommits
  /\ commits' = commits + 1
  /\ UNCHANGED <<lease, clock, pc, draft, beat, recoveryVars, slow>>

\* The engine ends, its guard stops the heartbeat; or the process dies.
Stop(e) ==
  /\ pc[e] \notin {"idle", "stopped"}
  /\ pc' = [pc EXCEPT ![e] = "stopped"]
  /\ UNCHANGED <<lease, clock, draft, beat, commits, recoveryVars, slow>>

-----------------------------------------------------------------------------
\* recover_run loads progress and journal before it adopts the lease.
LoadJournal(r) ==
  /\ Goto(r, "idle", "loaded")
  /\ snapshot' = [snapshot EXCEPT ![r] = commits]
  /\ loadedAt' = [loadedAt EXCEPT ![r] = clock]
  /\ UNCHANGED <<lease, clock, draft, beat, commits, readAt, slow>>

\* adopt_engine_lease_for_recovery reads now, ...
AdoptNow(r) ==
  /\ Goto(r, "loaded", "checking")
  /\ readAt' = [readAt EXCEPT ![r] = clock]
  /\ UNCHANGED <<lease, clock, draft, beat, commits, snapshot, loadedAt, slow>>

\* Mutant: a lease is already stale in the second it expires.
StaleAtExpiry(now) == lease = NoLease \/ now >= lease

engine_lease_is_stale(now) == lease = NoLease \/ now > lease

\* ... loads the lease and finds it stale, or overrides it, or gives up.
CheckPasses(r) ==
  /\ engine_lease_is_stale(readAt[r])
  /\ Goto(r, "checking", "adopting")
  /\ UNCHANGED <<lease, clock, draft, beat, commits, recoveryVars, slow>>

CheckForced(r) ==
  /\ ~engine_lease_is_stale(readAt[r])
  /\ Goto(r, "checking", "adopting")
  /\ UNCHANGED <<lease, clock, draft, beat, commits, recoveryVars, slow>>

CheckRefuses(r) ==
  /\ ~engine_lease_is_stale(readAt[r])
  /\ Goto(r, "checking", "refused")
  /\ UNCHANGED <<lease, clock, draft, beat, commits, recoveryVars, slow>>

AdoptMake(r) == make_engine_lease(r, "adopting", "writing")
AdoptWrite(r) == write_engine_lease(r, "writing", "recovering") /\ UNCHANGED beat

-----------------------------------------------------------------------------
Writing == {"ensuring", "starting", "beating", "writing"}

\* What the next tick makes late.
Overdue ==
  \/ \E e \in Engines : Alive(e) /\ clock >= beat[e] + Gap
  \/ \E p \in Processes : pc[p] \in Writing /\ clock >= draft[p] + Lag
  \/ \E r \in Recoveries : pc[r] \in {"loaded", "checking"} /\ clock >= loadedAt[r] + Lag

Tick ==
  /\ clock < MaxClock
  /\ clock' = clock + 1
  /\ slow' = (slow \/ Overdue)
  /\ UNCHANGED <<lease, pc, draft, beat, commits, recoveryVars>>

Next ==
  \/ \E e \in Engines :
       \/ EnsureFound(e) \/ EnsureMake(e) \/ EnsureWrite(e) \/ StartMake(e) \/ StartWrite(e)
       \/ BeatMake(e) \/ BeatWrite(e) \/ BeatFails(e) \/ CommitSlot(e) \/ Stop(e)
  \/ \E r \in Recoveries :
       \/ LoadJournal(r) \/ AdoptNow(r) \/ CheckPasses(r) \/ CheckForced(r) \/ CheckRefuses(r)
       \/ AdoptMake(r) \/ AdoptWrite(r)
  \/ Tick

Spec == Init /\ [][Next]_vars

-----------------------------------------------------------------------------
\* Recovery r takes the engine for dead without being forced to.
TakesForDead(r) ==
  pc[r] = "checking" /\ pc'[r] = "adopting" /\ engine_lease_is_stale(readAt[r])

\* As long as everyone is prompt, recover_run takes over without --force only
\* when no engine lives: no other engine's heartbeat, start or stop, and no
\* other recovery's lease, forced or not, can hide a live engine.
LiveEngineIsSafe ==
  [][\A r \in Recoveries : ~slow /\ TakesForDead(r) => \A e \in Engines : ~Alive(e)]_vars

\* And then the journal recover_run loaded before it looked at the lease holds
\* every commit: an engine that could have committed in between would have left
\* a lease that is still fresh.
SnapshotIsCurrent ==
  [][\A r \in Recoveries : ~slow /\ TakesForDead(r) => snapshot[r] = commits]_vars
=============================================================================
