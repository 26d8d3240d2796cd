-------------------------- MODULE BackgroundProofs --------------------------
(***************************************************************************)
(* Proofs about the processes that work in the background: the engine      *)
(* lease, for any number of engines and recoveries and for every heartbeat *)
(* gap, lag and TTL with Lag <= Gap and Gap + 2 Lag <= TTL; and latch      *)
(* dispatches, for any number of callers, dispatches and daemons, and any  *)
(* number of crashes and failed requests.                                  *)
(***************************************************************************)
EXTENDS MCBackground, TLAPS

-----------------------------------------------------------------------------
(* The engine lease. *)


\* Every time a process has read lies in the past.
Past ==
  /\ \A p \in Processes : draft[p] <= clock
  /\ \A e \in Engines : beat[e] <= clock
  /\ \A r \in Recoveries : loadedAt[r] <= clock /\ readAt[r] <= clock

\* A live engine's lease was written over at most by a lease a Lag older.
LeaseCovers == \A e \in Engines : Alive(e) => beat[e] + TTL - Lag <= lease /\ clock <= beat[e] + Gap

WritesArePrompt == \A p \in Processes : pc[p] \in Writing => clock <= draft[p] + Lag

Loading(r) == pc[r] \in {"loaded", "checking"}

ChecksArePrompt == \A r \in Recoveries : Loading(r) => clock <= loadedAt[r] + Lag

\* A commit that a loading recovery has missed has left a lease that outlasts it.
MissedIsCovered ==
  \A r \in Recoveries : Loading(r) /\ snapshot[r] # commits => loadedAt[r] + Lag <= lease

Covered == LeaseCovers /\ WritesArePrompt /\ ChecksArePrompt /\ MissedIsCovered

LeaseInv == TypeOK /\ Past /\ (~slow => Covered)

\* The lease, the clock and the processes keep their types.
LEMMA TypeStep == TypeOK /\ [Next]_vars => TypeOK'
  <1> SUFFICES ASSUME TypeOK, [Next]_vars PROVE TypeOK'
    OBVIOUS
  <1> USE TimesAssumption
  <1> USE DEF TypeOK, Times, Processes
  <1>1. ASSUME NEW p \in Processes, NEW a \in States, NEW b \in States,
               make_engine_lease(p, a, b)
        PROVE TypeOK'
    BY <1>1 DEF make_engine_lease, Goto, recoveryVars
  <1>2. ASSUME NEW p \in Processes, NEW a \in States, NEW b \in States,
               write_engine_lease(p, a, b), beat' \in [Engines -> Times]
        PROVE TypeOK'
    BY <1>2 DEF write_engine_lease, Goto, recoveryVars
  <1>3. ASSUME NEW e \in Engines
        PROVE /\ [beat EXCEPT ![e] = draft[e]] \in [Engines -> Times]
              /\ e \in Processes
    OBVIOUS
  <1>4. ASSUME NEW e \in Engines, EnsureMake(e) \/ StartMake(e) \/ BeatMake(e) PROVE TypeOK'
    BY <1>1, <1>3, <1>4 DEF EnsureMake, StartMake, BeatMake, States
  <1>5. ASSUME NEW e \in Engines, EnsureWrite(e) \/ StartWrite(e) \/ BeatWrite(e) PROVE TypeOK'
    BY <1>2, <1>3, <1>5 DEF EnsureWrite, StartWrite, BeatWrite, States
  <1>6. ASSUME NEW e \in Engines, EnsureFound(e) \/ BeatFails(e) \/ Stop(e) PROVE TypeOK'
    BY <1>3, <1>6 DEF EnsureFound, BeatFails, Stop, Goto, recoveryVars, States
  <1>7. ASSUME NEW e \in Engines, CommitSlot(e) PROVE TypeOK'
    BY <1>7 DEF CommitSlot, recoveryVars
  <1>8. ASSUME NEW r \in Recoveries, LoadJournal(r) \/ AdoptNow(r) PROVE TypeOK'
    BY <1>8 DEF LoadJournal, AdoptNow, Goto, States
  <1>9. ASSUME NEW r \in Recoveries, CheckPasses(r) \/ CheckForced(r) \/ CheckRefuses(r) PROVE TypeOK'
    BY <1>9 DEF CheckPasses, CheckForced, CheckRefuses, Goto, recoveryVars, States
  <1>10. ASSUME NEW r \in Recoveries, AdoptMake(r) \/ AdoptWrite(r) PROVE TypeOK'
    BY <1>1, <1>2, <1>10 DEF AdoptMake, AdoptWrite, States
  <1>11. CASE Tick
    BY <1>11 DEF Tick, recoveryVars
  <1>12. CASE UNCHANGED vars
    BY <1>12 DEF vars
  <1> QED
    BY <1>4, <1>5, <1>6, <1>7, <1>8, <1>9, <1>10, <1>11, <1>12 DEF Next

\* What a process reads from the clock is never in the future.
LEMMA PastStep == TypeOK /\ Past /\ [Next]_vars => Past'
  <1> SUFFICES ASSUME TypeOK, Past, [Next]_vars PROVE Past'
    OBVIOUS
  <1> USE TimesAssumption
  <1> USE DEF TypeOK, Past, Times, Processes
  <1>1. ASSUME NEW p \in Processes, NEW a, NEW b, make_engine_lease(p, a, b) PROVE Past'
    BY <1>1 DEF make_engine_lease, Goto, recoveryVars
  <1>2. ASSUME NEW p \in Processes, NEW a, NEW b, write_engine_lease(p, a, b),
               beat' = beat \/ \E e \in Engines : beat' = [beat EXCEPT ![e] = draft[e]]
        PROVE Past'
    BY <1>2 DEF write_engine_lease, Goto, recoveryVars
  <1>4. ASSUME NEW e \in Engines, EnsureMake(e) \/ StartMake(e) \/ BeatMake(e) PROVE Past'
    BY <1>1, <1>4 DEF EnsureMake, StartMake, BeatMake
  <1>5. ASSUME NEW e \in Engines, EnsureWrite(e) \/ StartWrite(e) \/ BeatWrite(e) PROVE Past'
    BY <1>2, <1>5 DEF EnsureWrite, StartWrite, BeatWrite
  <1>6. ASSUME NEW e \in Engines, EnsureFound(e) \/ BeatFails(e) \/ Stop(e) \/ CommitSlot(e)
        PROVE Past'
    BY <1>6 DEF EnsureFound, BeatFails, Stop, CommitSlot, recoveryVars
  <1>8. ASSUME NEW r \in Recoveries, LoadJournal(r) \/ AdoptNow(r) PROVE Past'
    BY <1>8 DEF LoadJournal, AdoptNow
  <1>9. ASSUME NEW r \in Recoveries, CheckPasses(r) \/ CheckForced(r) \/ CheckRefuses(r) PROVE Past'
    BY <1>9 DEF CheckPasses, CheckForced, CheckRefuses, recoveryVars
  <1>10. ASSUME NEW r \in Recoveries, AdoptMake(r) \/ AdoptWrite(r) PROVE Past'
    BY <1>1, <1>2, <1>10 DEF AdoptMake, AdoptWrite
  <1>11. CASE Tick
    BY <1>11 DEF Tick, recoveryVars
  <1>12. CASE UNCHANGED vars
    BY <1>12 DEF vars
  <1> QED
    BY <1>4, <1>5, <1>6, <1>8, <1>9, <1>10, <1>11, <1>12 DEF Next

\* The timing argument.  A lease is at most a Lag old when it is written, so it
\* outlasts what any live engine still has of its gap, and a Lag more.
LEMMA CoveredStep == LeaseInv /\ [Next]_vars /\ ~slow' => Covered'
  <1> SUFFICES ASSUME LeaseInv, [Next]_vars, ~slow' PROVE Covered'
    OBVIOUS
  <1>0. ~slow
    BY DEF Next, vars, EnsureFound, EnsureMake, EnsureWrite, StartMake, StartWrite, BeatMake,
           BeatWrite, BeatFails, CommitSlot, Stop, LoadJournal, AdoptNow, CheckPasses, CheckForced,
           CheckRefuses, AdoptMake, AdoptWrite, make_engine_lease, write_engine_lease, Tick
  <1> USE <1>0, TimesAssumption, PromptAssumption
  <1> USE DEF LeaseInv, TypeOK, Past, Covered, LeaseCovers, WritesArePrompt, ChecksArePrompt,
              MissedIsCovered, Loading, Alive, Writing, Times, Processes
  <1>1. ASSUME NEW p \in Processes, NEW a, NEW b, make_engine_lease(p, a, b),
               b \in Writing, b = "beating" => a = "running"
        PROVE Covered'
    BY <1>1 DEF make_engine_lease, Goto, recoveryVars
  <1>2. ASSUME NEW p \in Processes, NEW a \in Writing, NEW b \in {"ensured", "running", "recovering"},
               write_engine_lease(p, a, b),
               \/ beat' = beat /\ b # "running"
               \/ p \in Engines /\ beat' = [beat EXCEPT ![p] = draft[p]]
        PROVE Covered'
    <2>1. clock <= draft[p] + Lag /\ lease' = draft[p] + TTL /\ clock' = clock /\ commits' = commits
      BY <1>2 DEF write_engine_lease, Goto
    <2>2. LeaseCovers'
      BY <1>2, <2>1 DEF write_engine_lease, Goto
    <2>3. WritesArePrompt' /\ ChecksArePrompt' /\ MissedIsCovered'
      BY <1>2, <2>1 DEF write_engine_lease, Goto, recoveryVars
    <2> QED
      BY <2>2, <2>3
  <1>4. ASSUME NEW e \in Engines, EnsureMake(e) \/ StartMake(e) \/ BeatMake(e) PROVE Covered'
    BY <1>1, <1>4 DEF EnsureMake, StartMake, BeatMake
  <1>5. ASSUME NEW e \in Engines, EnsureWrite(e) \/ StartWrite(e) \/ BeatWrite(e) PROVE Covered'
    BY <1>2, <1>5 DEF EnsureWrite, StartWrite, BeatWrite
  <1>6. ASSUME NEW e \in Engines, EnsureFound(e) \/ BeatFails(e) \/ Stop(e) PROVE Covered'
    BY <1>6 DEF EnsureFound, BeatFails, Stop, Goto, recoveryVars
  <1>7. ASSUME NEW e \in Engines, CommitSlot(e) PROVE Covered'
    BY <1>7 DEF CommitSlot, recoveryVars
  <1>8. ASSUME NEW r \in Recoveries, LoadJournal(r) \/ AdoptNow(r) PROVE Covered'
    BY <1>8 DEF LoadJournal, AdoptNow, Goto
  <1>9. ASSUME NEW r \in Recoveries, CheckPasses(r) \/ CheckForced(r) \/ CheckRefuses(r) PROVE Covered'
    BY <1>9 DEF CheckPasses, CheckForced, CheckRefuses, Goto, recoveryVars
  <1>10. ASSUME NEW r \in Recoveries, AdoptMake(r) \/ AdoptWrite(r) PROVE Covered'
    BY <1>1, <1>2, <1>10 DEF AdoptMake, AdoptWrite
  <1>11. CASE Tick
    <2>1. clock' = clock + 1 /\ ~Overdue /\ UNCHANGED <<lease, pc, draft, beat, commits, recoveryVars>>
      BY <1>11 DEF Tick
    <2>2. LeaseCovers'
      BY <2>1 DEF Overdue
    <2>3. WritesArePrompt'
      BY <2>1 DEF Overdue
    <2>4. ChecksArePrompt' /\ MissedIsCovered'
      BY <2>1 DEF Overdue, recoveryVars
    <2> QED
      BY <2>2, <2>3, <2>4
  <1>12. CASE UNCHANGED vars
    BY <1>12 DEF vars
  <1> QED
    BY <1>4, <1>5, <1>6, <1>7, <1>8, <1>9, <1>10, <1>11, <1>12 DEF Next

\* The invariant from which both properties follow.
LEMMA LeaseInvHolds == Spec => []LeaseInv
  <1>1. Init => LeaseInv
    <2> SUFFICES ASSUME Init PROVE LeaseInv
      OBVIOUS
    <2>1. TypeOK
      <3>1. /\ -1 \in -1 .. (MaxClock + TTL)
            /\ 0 \in 0 .. MaxClock /\ 0 \in 0 .. MaxCommits
        BY TimesAssumption
      <3>2. slow \in BOOLEAN
        BY Zenon DEF Init
      <3> QED
        BY <3>1, <3>2, Zenon DEF Init, TypeOK, Times, States, NoLease
    <2>2. Past
      BY TimesAssumption DEF Init, Past, Processes
    <2>3. Covered
      BY DEF Init, Covered, LeaseCovers, WritesArePrompt, ChecksArePrompt, MissedIsCovered, Loading,
             Alive, Writing, Processes
    <2> QED
      BY <2>1, <2>2, <2>3 DEF LeaseInv
  <1>2. LeaseInv /\ [Next]_vars => LeaseInv'
    BY TypeStep, PastStep, CoveredStep DEF LeaseInv
  <1> QED
    BY <1>1, <1>2, PTL DEF Spec

\* While engines and recoveries are prompt, recover_run without --force never
\* takes a run from a live engine.
THEOREM LiveEngineSafety == Spec => LiveEngineIsSafe
  <1>1. LeaseInv /\ [Next]_vars
          => [\A r \in Recoveries : ~slow /\ TakesForDead(r) => \A e \in Engines : ~Alive(e)]_vars
    <2> SUFFICES ASSUME LeaseInv, NEW r \in Recoveries, ~slow, TakesForDead(r),
                        NEW e \in Engines, Alive(e)
                 PROVE FALSE
      OBVIOUS
    <2>1. beat[e] + TTL - Lag <= lease /\ clock <= beat[e] + Gap /\ readAt[r] <= clock
      BY DEF LeaseInv, Covered, LeaseCovers, Past
    <2> QED
      BY <2>1, TimesAssumption, PromptAssumption
      DEF LeaseInv, TypeOK, Times, TakesForDead, engine_lease_is_stale, NoLease
  <1> QED
    BY <1>1, LeaseInvHolds, PTL DEF Spec, LiveEngineIsSafe

\* While engines and recoveries are prompt, the journal an unforced recover_run
\* works from is complete, although it is loaded before the lease is checked.
THEOREM SnapshotCurrency == Spec => SnapshotIsCurrent
  <1>1. LeaseInv /\ [Next]_vars
          => [\A r \in Recoveries : ~slow /\ TakesForDead(r) => snapshot[r] = commits]_vars
    <2> SUFFICES ASSUME LeaseInv, NEW r \in Recoveries, ~slow, TakesForDead(r),
                        snapshot[r] # commits
                 PROVE FALSE
      OBVIOUS
    <2>1. loadedAt[r] + Lag <= lease /\ clock <= loadedAt[r] + Lag /\ readAt[r] <= clock
      BY DEF LeaseInv, Covered, MissedIsCovered, ChecksArePrompt, Loading, Past, TakesForDead
    <2> QED
      BY <2>1, TimesAssumption
      DEF LeaseInv, TypeOK, Times, TakesForDead, engine_lease_is_stale, NoLease
  <1> QED
    BY <1>1, LeaseInvHolds, PTL DEF Spec, SnapshotIsCurrent

-----------------------------------------------------------------------------
(* Latch dispatches. *)


\* No daemon has a job of the dispatch in its memory.
NoJob(d) == \A m \in Daemons : jobs[m][d] = "unknown"

\* The result of the dispatch will not change any more.
Over(d) == result[d] \in Latch!Whole \/ proc[d] = "failed"

\* There is one, and it will not change.
Left(d) == Over(d) /\ result[d] # "absent"

\* One daemon has the job, and what it believes of an ended one is so.
JobsAreTrue ==
  \A d \in Dispatches :
    /\ proc[d] = "none" => NoJob(d)
    /\ proc[d] = "ok" => result[d] \in Latch!Whole
    /\ \A m, n \in Daemons : jobs[m][d] # "unknown" /\ jobs[n][d] # "unknown" => m = n
    /\ \A m \in Daemons :
         /\ jobs[m][d] = "completed" => result[d] \in Latch!Whole
         /\ jobs[m][d] = "failed" => proc[d] = "failed"

\* A call is for a dispatch, unless it only asks for the daemon; it talks to a daemon.
ReachesFor(k) ==
  /\ k.at = "idle" => k.tool # "start" /\ k.mine = Latch!NoRecord
  /\ k.at # "idle" /\ k.tool \notin {"status", "current"} => k.d \in Dispatches
  /\ k.tool \in {"status", "current"} =>
       k.at \in {"idle"} \cup Latch!Reaching /\ k.mine = Latch!NoRecord
  /\ k.at \in {"probing", "sent", "starting"} => k.server \in Daemons

\* A start is of an id whose process it starts itself, and whose job no daemon has yet.
StartsFresh(k) ==
  /\ k.tool = "start" /\ k.at \in Latch!Reaching \cup {"request", "sent"} => proc[k.d] = "none"
  /\ k.at = "starting" => k.tool = "start" /\ proc[k.d] # "none" /\ NoJob(k.d)

\* A refresh that submits was told of an end, and archives a result that will not change; it
\* calls a submission completed only when there is a row.
SubmitsWhole(k) ==
  /\ k.at \in Latch!Submitting => k.job # "unknown"
  /\ k.at \in {"submission", "archive"} /\ k.job \in {"completed", "failed"} =>
       Over(k.d)
  /\ k.at = "archive" => k.job \in {"completed", "failed"}
  /\ k.at \in {"archiving", "upload", "check", "insert"} => Left(k.d)
  /\ k.at = "upload" => archive[k.d] # "absent"
  /\ k.at \in {"check", "insert"} => k.bytes # "absent"
  /\ k.at # "idle" /\ k.mine.submission = "completed" => cloud[k.d] # Latch!NoRow

\* What a call has seen still holds.
CallIsSound(k) == ReachesFor(k) /\ StartsFresh(k) /\ SubmitsWhole(k)

CallsAreSound == \A c \in Callers : CallIsSound(caller[c])

\* A dispatch id is started by one call.
StartsAlone ==
  \A c, o \in Callers :
    c # o /\ caller[c].tool = "start" /\ caller[o].tool = "start" => caller[c].d # caller[o].d

\* A record that says completed has its row, and a row its result.
RecordsAreTrue ==
  \A d \in Dispatches :
    /\ record[d].submission = "completed" => cloud[d] # Latch!NoRow
    /\ cloud[d] # Latch!NoRow => Left(d)

\* The inductive invariant.
DispatchInv == Latch!LatchTypeOK /\ JobsAreTrue /\ CallsAreSound /\ StartsAlone /\ RecordsAreTrue
-----------------------------------------------------------------------------
(* What a step may do to the rest. *)

\* Results, ended processes, archives and rows stay.
WorldStays ==
  \A d \in Dispatches :
    /\ result[d] \in Latch!Whole => result'[d] \in Latch!Whole
    /\ Over(d) => Over(d)'
    /\ Left(d) => Left(d)'
    /\ archive[d] # "absent" => archive'[d] # "absent"
    /\ cloud[d] # Latch!NoRow => cloud'[d] # Latch!NoRow

\* The step is not the start of the dispatch.
Calm(d) ==
  /\ (proc[d] = "none") <=> (proc'[d] = "none")
  /\ NoJob(d) => NoJob(d)'

\* Only the caller moves.
OnlyMoves(c) == caller' \in [Callers -> Latch!Calls] /\ \A o \in Callers \ {c} : caller'[o] = caller[o]

\* A call that sees a calm world stay still holds.
LEMMA CallStays ==
  ASSUME Latch!LatchTypeOK, NEW c \in Callers, CallIsSound(caller[c]), caller'[c] = caller[c],
         WorldStays,
         caller[c].tool = "start" /\ caller[c].at # "idle" => Calm(caller[c].d)
  PROVE  CallIsSound(caller[c])'
<1>1. ReachesFor(caller[c])'
  BY DEF CallIsSound, ReachesFor
<1>2. StartsFresh(caller[c])'
  <2>1. CASE caller[c].tool = "start" /\ caller[c].at # "idle"
    BY <2>1 DEF CallIsSound, StartsFresh, Calm
  <2>2. CASE ~(caller[c].tool = "start" /\ caller[c].at # "idle")
    BY <2>2 DEF CallIsSound, StartsFresh, Latch!Reaching
  <2> QED
    BY <2>1, <2>2
<1>3. SubmitsWhole(caller[c])'
  <2>1. caller[c].at \in Latch!Submitting => caller[c].d \in Dispatches
    BY DEF CallIsSound, ReachesFor, Latch!Submitting, Latch!Reaching
  <2>2. caller[c].at # "idle" /\ caller[c].mine.submission = "completed" => caller[c].d \in Dispatches
    BY DEF CallIsSound, ReachesFor, Latch!NoRecord
  <2> QED
    BY <2>1, <2>2 DEF CallIsSound, SubmitsWhole, WorldStays, Latch!Submitting
<1> QED
  BY <1>1, <1>2, <1>3 DEF CallIsSound

\* A caller that moves disturbs no other call.
LEMMA CallerTurns ==
  ASSUME DispatchInv, NEW c \in Callers, OnlyMoves(c), WorldStays, CallIsSound(caller[c])',
         \A d \in Dispatches : Calm(d) \/ (caller[c].tool = "start" /\ caller[c].d = d),
         caller'[c].tool = "start" =>
           \/ caller[c].tool = "start" /\ caller'[c].d = caller[c].d
           \/ \A o \in Callers \ {c} : caller[o].d # caller'[c].d
  PROVE  CallsAreSound' /\ StartsAlone'
<1>1. ASSUME NEW o \in Callers \ {c}
      PROVE  CallIsSound(caller[o])'
  <2>1. caller'[o] = caller[o] /\ CallIsSound(caller[o])
    BY DEF OnlyMoves, DispatchInv, CallsAreSound
  <2>2. caller[o].tool = "start" /\ caller[o].at # "idle" => Calm(caller[o].d)
    BY <2>1 DEF DispatchInv, StartsAlone, CallIsSound, ReachesFor
  <2> QED
    BY <2>1, <2>2, CallStays DEF DispatchInv
<1>2. StartsAlone'
  BY DEF DispatchInv, StartsAlone, OnlyMoves
<1> QED
  BY <1>1, <1>2 DEF CallsAreSound

\* A caller's step that leaves jobs and files of dispatches alone keeps the invariant if it
\* leaves the call sound.
LEMMA CallerGoes ==
  ASSUME DispatchInv, NEW c \in Callers, OnlyMoves(c), CallIsSound(caller[c])',
         UNCHANGED <<Latch!jobVars, Latch!dispatchVars>>,
         daemon' \in [Daemons -> {"unborn", "spawned", "unlinked", "bound", "writing", "detached",
                                  "serving", "dead"}],
         sock' \in Daemons \cup {Nobody}, info' \in {"absent", "torn", "whole"},
         \A m \in Daemons : daemon[m] = "dead" => daemon'[m] = "dead",
         caller'[c].tool = "start" =>
           \/ caller[c].tool = "start" /\ caller'[c].d = caller[c].d
           \/ \A o \in Callers \ {c} : caller[o].d # caller'[c].d
  PROVE  DispatchInv'
<1>1. WorldStays /\ \A d \in Dispatches : Calm(d)
  BY DEF Over, Left, Latch!jobVars, Latch!dispatchVars, WorldStays, Calm, NoJob
<1>2. CallsAreSound' /\ StartsAlone'
  BY <1>1, CallerTurns
<1>3. Latch!LatchTypeOK'
  BY DEF DispatchInv, Latch!LatchTypeOK, Latch!jobVars, Latch!dispatchVars, OnlyMoves
<1>4. JobsAreTrue'
  BY DEF DispatchInv, JobsAreTrue, NoJob, Latch!jobVars, Latch!LatchTypeOK
<1>5. RecordsAreTrue'
  BY DEF Over, Left, DispatchInv, RecordsAreTrue, Latch!jobVars, Latch!dispatchVars
<1> QED
  BY <1>2, <1>3, <1>4, <1>5 DEF DispatchInv

-----------------------------------------------------------------------------
(* The way to a daemon. *)

\* The points of a call.
Ats == {"idle", "save", "write"} \cup Latch!Reaching \cup Latch!Asking \cup Latch!Submitting

\* Going on changes where the caller is, and nothing else.
LEMMA GoMoves ==
  ASSUME Latch!LatchTypeOK, NEW c \in Callers, NEW at \in Ats, Latch!Go(c, at)
  PROVE  OnlyMoves(c) /\ caller'[c] = [caller[c] EXCEPT !.at = at] /\ caller[c] \in Latch!Calls
<1> DEFINE k == [caller[c] EXCEPT !.at = at]
<1>1. caller \in [Callers -> Latch!Calls] /\ caller[c] \in Latch!Calls
  BY DEF Latch!LatchTypeOK
<1>2. k \in Latch!Calls
  BY <1>1 DEF Latch!Calls, Ats
<1>3. caller' = [caller EXCEPT ![c] = k]
  BY DEF Latch!Go
<1> HIDE DEF k
<1>4. OnlyMoves(c) /\ caller'[c] = k
  BY <1>1, <1>2, <1>3 DEF OnlyMoves
<1> QED
  BY <1>1, <1>4 DEF k

\* Returning forgets the call.
LEMMA ReturnMoves ==
  ASSUME Latch!LatchTypeOK, NEW c \in Callers, Latch!Return(c)
  PROVE  OnlyMoves(c) /\ caller'[c] = Latch!Idle /\ CallIsSound(caller[c])' /\ caller'[c].tool # "start"
<1>1. Latch!Idle \in Latch!Calls
  BY DEF Latch!Idle, Latch!Calls, Latch!NoRecord, Latch!Records, Latch!Jobs, Latch!Archives
<1>2. OnlyMoves(c) /\ caller'[c] = Latch!Idle
  BY <1>1 DEF Latch!LatchTypeOK, Latch!Return, OnlyMoves
<1>3. CallIsSound(caller[c])'
  BY <1>2 DEF CallIsSound, ReachesFor, StartsFresh, SubmitsWhole, Latch!Idle, Latch!Reaching,
     Latch!Submitting, Latch!NoRecord
<1> QED
  BY <1>2, <1>3 DEF Latch!Idle

\* A step on the way to the daemon keeps the call sound.
LEMMA OnTheWay ==
  ASSUME DispatchInv, NEW c \in Callers, NEW at \in Ats, Latch!Go(c, at),
         UNCHANGED <<Latch!jobVars, Latch!dispatchVars>>,
         \/ caller[c].at \in Latch!Reaching /\ at \in Latch!Reaching \ {"probing"}
         \/ caller[c].at \in Latch!Reaching /\ at = "request"
              /\ caller[c].tool \notin {"status", "current"}
         \/ caller[c].at \in Latch!Reaching \cup Latch!Asking /\ at = "fallback"
              /\ caller[c].tool = "refresh"
  PROVE  OnlyMoves(c) /\ CallIsSound(caller[c])' /\ caller'[c].tool = caller[c].tool
         /\ caller'[c].d = caller[c].d
<1>1. OnlyMoves(c) /\ caller'[c] = [caller[c] EXCEPT !.at = at] /\ caller[c] \in Latch!Calls
  BY GoMoves DEF DispatchInv
<1>2. /\ caller'[c].at = at /\ caller'[c].tool = caller[c].tool /\ caller'[c].d = caller[c].d
      /\ caller'[c].mine = caller[c].mine /\ caller[c].at # "idle"
  BY <1>1 DEF Latch!Calls, Latch!Reaching, Latch!Asking
<1>3. CallIsSound(caller[c])
  BY DEF DispatchInv, CallsAreSound
<1>4. ReachesFor(caller[c])'
  BY <1>2, <1>3 DEF CallIsSound, ReachesFor, Latch!Reaching
<1>5. StartsFresh(caller[c])'
  BY <1>2, <1>3 DEF CallIsSound, StartsFresh, Latch!Reaching, Latch!jobVars
<1>6. SubmitsWhole(caller[c])'
  BY <1>2, <1>3 DEF CallIsSound, SubmitsWhole, Latch!Reaching, Latch!Submitting, Latch!dispatchVars
<1> QED
  BY <1>1, <1>2, <1>4, <1>5, <1>6 DEF CallIsSound

\* A call that fails on the way goes on with the run directory or returns.
LEMMA FailedOnTheWay ==
  ASSUME DispatchInv, NEW c \in Callers, Latch!CallFails(c), UNCHANGED <<Latch!jobVars,
         Latch!dispatchVars>>,
         caller[c].at \in Latch!Reaching \cup Latch!Asking
  PROVE  OnlyMoves(c) /\ CallIsSound(caller[c])'
         /\ (caller'[c].tool = "start" => caller[c].tool = "start" /\ caller'[c].d = caller[c].d)
<1>1. "fallback" \in Ats /\ Latch!LatchTypeOK
  BY DEF Ats, Latch!Asking, DispatchInv
<1>2. CASE caller[c].tool = "refresh"
  BY <1>1, <1>2, OnTheWay DEF Latch!CallFails
<1>3. CASE caller[c].tool # "refresh"
  BY <1>1, <1>3, ReturnMoves DEF Latch!CallFails
<1> QED
  BY <1>2, <1>3

\* A tool call: what it takes from the record is true, and a fresh id is nobody's.
LEMMA CallKeeps ==
  ASSUME DispatchInv, NEW c \in Callers, NEW tool \in Tools, NEW d \in Dispatches, Latch!Call(c,
         tool, d)
  PROVE  DispatchInv'
<1> DEFINE short == [Latch!Idle EXCEPT !.at = "ensure", !.tool = tool]
           long == [Latch!Idle EXCEPT !.at = "ensure", !.tool = tool, !.d = d, !.mine = record[d]]
           k == IF tool \in {"status", "current"} THEN short ELSE long
<1>1. Latch!LatchTypeOK /\ record[d] \in Latch!Records
  BY DEF DispatchInv, Latch!LatchTypeOK
<1>2. /\ short.at = "ensure" /\ short.tool = tool /\ short.mine = Latch!NoRecord
      /\ short \in Latch!Calls
      /\ long.at = "ensure" /\ long.tool = tool /\ long.mine = record[d] /\ long.d = d
      /\ long \in Latch!Calls
  BY <1>1 DEF Latch!Idle, Latch!Calls, Latch!NoRecord, Latch!Records, Latch!Jobs, Latch!Archives,
     Latch!Reaching
<1>3. caller' = [caller EXCEPT ![c] = k]
  BY DEF Latch!Call
<1> HIDE DEF short, long
<1>4. OnlyMoves(c) /\ caller'[c] = k
  BY <1>1, <1>2, <1>3 DEF Latch!LatchTypeOK, OnlyMoves
<1>5. /\ caller'[c].at = "ensure" /\ caller'[c].tool = tool
      /\ IF tool \in {"status", "current"} THEN caller'[c].mine = Latch!NoRecord
         ELSE caller'[c].d = d /\ caller'[c].mine = record[d]
  BY <1>2, <1>4
<1>6. UNCHANGED <<Latch!jobVars, Latch!dispatchVars>> /\ UNCHANGED Latch!daemonVars
  BY DEF Latch!Call
<1>7. tool = "start" => proc[d] = "none" /\ \A o \in Callers : caller[o].d # d
  BY DEF Latch!Call
<1>8. CallIsSound(caller[c])'
  <2>1. ReachesFor(caller[c])'
    BY <1>5 DEF ReachesFor, Latch!Reaching
  <2>2. StartsFresh(caller[c])'
    BY <1>5, <1>6, <1>7 DEF StartsFresh, Latch!jobVars
  <2>3. SubmitsWhole(caller[c])'
    BY <1>5, <1>6 DEF SubmitsWhole, Latch!Submitting, Latch!NoRecord, DispatchInv, RecordsAreTrue,
       Latch!dispatchVars
  <2> QED
    BY <2>1, <2>2, <2>3 DEF CallIsSound
<1> QED
  BY <1>4, <1>5, <1>6, <1>7, <1>8, CallerGoes DEF Latch!daemonVars, DispatchInv, Latch!LatchTypeOK

\* ensure_latch_daemon and the request: nothing but the caller and the daemons' files.
LEMMA WayKeeps ==
  ASSUME DispatchInv, NEW c \in Callers,
         \/ Latch!ReadInfo(c) \/ Latch!ProbeBreaks(c) \/ Latch!CleanupInfo(c) \/ Latch!CleanupSocket(c)
         \/ Latch!SpawnFails(c) \/ Latch!GiveUp(c) \/ Latch!RequestBreaks(c)
  PROVE  DispatchInv'
<1>1. /\ Latch!LatchTypeOK /\ caller[c] \in Latch!Calls
      /\ {"probe", "spawn", "stale", "ensure", "stale_socket"} \subseteq Latch!Reaching \ {"probing"}
      /\ Latch!Reaching \subseteq Ats
  BY DEF DispatchInv, Latch!LatchTypeOK, Latch!Reaching, Ats
<1>2. /\ UNCHANGED <<Latch!jobVars, Latch!dispatchVars>>
      /\ daemon' \in [Daemons -> {"unborn", "spawned", "unlinked", "bound", "writing", "detached",
                                  "serving", "dead"}]
      /\ sock' \in Daemons \cup {Nobody} /\ info' \in {"absent", "torn", "whole"}
      /\ \A m \in Daemons : daemon[m] = "dead" => daemon'[m] = "dead"
  BY <1>1 DEF Latch!LatchTypeOK, Latch!ReadInfo, Latch!ProbeBreaks, Latch!CleanupInfo,
     Latch!CleanupSocket, Latch!SpawnFails, Latch!GiveUp, Latch!RequestBreaks, Latch!daemonVars,
     Latch!jobVars
<1>3. \/ caller[c].at \in Latch!Reaching /\ \E at \in Latch!Reaching \ {"probing"} : Latch!Go(c, at)
      \/ Latch!Return(c)
      \/ caller[c].at \in Latch!Reaching \cup Latch!Asking /\ Latch!CallFails(c)
  BY <1>1 DEF Latch!ReadInfo, Latch!ProbeBreaks, Latch!CleanupInfo, Latch!CleanupSocket,
     Latch!SpawnFails, Latch!GiveUp, Latch!RequestBreaks, Latch!Reaching, Latch!Asking
<1>4. /\ OnlyMoves(c) /\ CallIsSound(caller[c])'
      /\ caller'[c].tool = "start" => caller[c].tool = "start" /\ caller'[c].d = caller[c].d
  BY <1>1, <1>2, <1>3, OnTheWay, ReturnMoves, FailedOnTheWay
<1> QED
  BY <1>2, <1>4, CallerGoes

\* A connection names a daemon that listens.
LEMMA ConnectKeeps ==
  ASSUME DispatchInv, NEW c \in Callers, Latch!Connect(c) \/ Latch!Request(c)
  PROVE  DispatchInv'
<1>1. /\ Latch!LatchTypeOK /\ caller[c] \in Latch!Calls /\ caller \in [Callers -> Latch!Calls]
      /\ {"stale", "ensure"} \subseteq Latch!Reaching \ {"probing"} /\ Latch!Reaching \subseteq Ats
  BY DEF DispatchInv, Latch!LatchTypeOK, Latch!Reaching, Ats
<1>2. UNCHANGED <<Latch!jobVars, Latch!dispatchVars, Latch!daemonVars>>
  BY DEF Latch!Connect, Latch!Request
<1>3. ASSUME NEW at \in {"probing", "sent"}, caller[c].at \in Latch!Reaching \cup Latch!Asking,
             sock \in Daemons,
             at = "sent" => caller[c].at = "request",
             caller[c].at = "request" => at = "sent",
             caller[c].at \in Latch!Reaching \/ caller[c].at = "request",
             caller' = [caller EXCEPT ![c].at = at, ![c].server = sock]
      PROVE  /\ OnlyMoves(c) /\ CallIsSound(caller[c])'
             /\ caller'[c].tool = "start" => caller[c].tool = "start" /\ caller'[c].d = caller[c].d
  <2> DEFINE k == [caller[c] EXCEPT !.at = at, !.server = sock]
  <2>1. /\ k \in Latch!Calls /\ k.at = at /\ k.server = sock /\ k.tool = caller[c].tool
        /\ k.d = caller[c].d /\ k.mine = caller[c].mine
    BY <1>1, <1>3 DEF Latch!Calls, Latch!Reaching, Latch!Asking
  <2>2. caller' = [caller EXCEPT ![c] = k]
    BY <1>3
  <2> HIDE DEF k
  <2>3. OnlyMoves(c) /\ caller'[c] = k
    BY <1>1, <2>1, <2>2 DEF OnlyMoves
  <2>4. CallIsSound(caller[c])
    BY DEF DispatchInv, CallsAreSound
  <2>5. ReachesFor(caller[c])'
    BY <1>3, <2>1, <2>3, <2>4 DEF CallIsSound, ReachesFor, Latch!Reaching
  <2>6. StartsFresh(caller[c])'
    BY <1>2, <1>3, <2>1, <2>3, <2>4 DEF CallIsSound, StartsFresh, Latch!Reaching, Latch!jobVars
  <2>7. SubmitsWhole(caller[c])'
    BY <1>2, <1>3, <2>1, <2>3, <2>4 DEF CallIsSound, SubmitsWhole, Latch!Reaching,
       Latch!Submitting, Latch!dispatchVars
  <2> QED
    BY <2>1, <2>3, <2>5, <2>6, <2>7 DEF CallIsSound
<1>4. /\ OnlyMoves(c) /\ CallIsSound(caller[c])'
      /\ caller'[c].tool = "start" => caller[c].tool = "start" /\ caller'[c].d = caller[c].d
  <2>1. CASE Latch!Connect(c) /\ sock # Nobody /\ Latch!Listening(sock)
    BY <1>1, <1>3, <2>1 DEF Latch!Connect, Latch!LatchTypeOK, Latch!Reaching
  <2>2. CASE Latch!Request(c) /\ sock # Nobody /\ Latch!Listening(sock)
    BY <1>1, <1>3, <2>2 DEF Latch!Request, Latch!LatchTypeOK, Latch!Reaching, Latch!Asking
  <2>3. CASE Latch!Connect(c) /\ ~(sock # Nobody /\ Latch!Listening(sock))
    <3>1. caller[c].at \in Latch!Reaching /\ \E at \in Latch!Reaching \ {"probing"} : Latch!Go(c, at)
      BY <1>1, <2>3 DEF Latch!Connect, Latch!Reaching
    <3> QED
      BY <1>1, <1>2, <3>1, OnTheWay
  <2>4. CASE Latch!Request(c) /\ ~(sock # Nobody /\ Latch!Listening(sock))
    BY <1>2, <2>4, FailedOnTheWay DEF Latch!Request, Latch!Asking
  <2> QED
    BY <2>1, <2>2, <2>3, <2>4
<1> QED
  BY <1>1, <1>2, <1>4, CallerGoes DEF Latch!daemonVars, Latch!LatchTypeOK

\* The daemon that a caller starts.
LEMMA SpawnDaemonKeeps ==
  ASSUME DispatchInv, NEW c \in Callers, NEW m \in Daemons, Latch!SpawnDaemon(c, m)
  PROVE  DispatchInv'
<1> DEFINE k == [caller[c] EXCEPT !.at = "ensure", !.child = m]
<1>1. Latch!LatchTypeOK /\ caller[c] \in Latch!Calls /\ caller \in [Callers -> Latch!Calls]
      /\ caller[c].at = "spawn"
  BY DEF DispatchInv, Latch!LatchTypeOK, Latch!SpawnDaemon
<1>2. /\ k \in Latch!Calls /\ k.at = "ensure" /\ k.tool = caller[c].tool
      /\ k.d = caller[c].d /\ k.mine = caller[c].mine
  BY <1>1 DEF Latch!Calls, Latch!Reaching
<1>3. caller' = [caller EXCEPT ![c] = k]
  BY DEF Latch!SpawnDaemon
<1> HIDE DEF k
<1>4. OnlyMoves(c) /\ caller'[c] = k
  BY <1>1, <1>2, <1>3 DEF OnlyMoves
<1>5. CallIsSound(caller[c])
  BY DEF DispatchInv, CallsAreSound
<1>6. UNCHANGED <<Latch!jobVars, Latch!dispatchVars>> /\ sock' = sock /\ info' = info
  BY DEF Latch!SpawnDaemon
<1>7. CallIsSound(caller[c])'
  BY <1>1, <1>2, <1>4, <1>5, <1>6 DEF CallIsSound, ReachesFor, StartsFresh, SubmitsWhole,
     Latch!Reaching, Latch!Submitting, Latch!jobVars, Latch!dispatchVars
<1>8. /\ daemon' \in [Daemons -> {"unborn", "spawned", "unlinked", "bound", "writing", "detached",
                                  "serving", "dead"}]
      /\ \A n \in Daemons : daemon[n] = "dead" => daemon'[n] = "dead"
  BY <1>1 DEF Latch!LatchTypeOK, Latch!SpawnDaemon
<1> QED
  BY <1>1, <1>2, <1>4, <1>6, <1>7, <1>8, CallerGoes DEF Latch!LatchTypeOK

-----------------------------------------------------------------------------
(* The submission. *)

\* A caller that is submitting has a dispatch, and knows its job.
LEMMA SubmittingCall ==
  ASSUME DispatchInv, NEW c \in Callers, caller[c].at \in Latch!Submitting \cup {"fallback"}
  PROVE  /\ caller[c].d \in Dispatches /\ caller[c].tool \notin {"status", "current"}
         /\ caller[c].at \in Latch!Submitting => caller[c].job \in Latch!Jobs \ {"unknown"}
BY DEF DispatchInv, Latch!LatchTypeOK, Latch!Calls, CallsAreSound, CallIsSound, ReachesFor,
   SubmitsWhole, Latch!Reaching, Latch!Submitting

\* What a refresh is about to save is sound if its submission is.
LEMMA SavesSoundly ==
  ASSUME DispatchInv, NEW c \in Callers, NEW sub \in {"waiting", "failed", "completed"},
         caller[c].at \in Latch!Submitting, Latch!Saves(c, sub),
         sub = "completed" => cloud'[caller[c].d] # Latch!NoRow
  PROVE  OnlyMoves(c) /\ CallIsSound(caller[c])' /\ caller'[c].tool = caller[c].tool
         /\ caller'[c].d = caller[c].d
<1> DEFINE r == [status |-> Latch!dispatch_status_from_daemon_status(caller[c].job), submission |-> sub]
           k == [caller[c] EXCEPT !.at = "save", !.mine = r]
<1>1. /\ caller[c] \in Latch!Calls /\ caller \in [Callers -> Latch!Calls] /\ caller[c].d \in Dispatches
      /\ caller[c].tool \notin {"status", "current"} /\ caller[c].job \in Latch!Jobs \ {"unknown"}
  BY SubmittingCall DEF DispatchInv, Latch!LatchTypeOK
<1>2. r \in Latch!Records /\ r.submission = sub
  BY <1>1 DEF Latch!Records, Latch!dispatch_status_from_daemon_status, Latch!Jobs
<1>3. caller' = [caller EXCEPT ![c] = k]
  BY DEF Latch!Saves
<1> HIDE DEF r
<1>4. /\ k \in Latch!Calls /\ k.at = "save" /\ k.tool = caller[c].tool
      /\ k.d = caller[c].d /\ k.mine = r
  BY <1>1, <1>2 DEF Latch!Calls
<1> HIDE DEF k
<1>5. OnlyMoves(c) /\ caller'[c] = k
  BY <1>1, <1>3, <1>4 DEF OnlyMoves
<1>6. CallIsSound(caller[c])'
  BY <1>1, <1>2, <1>4, <1>5 DEF CallIsSound, ReachesFor, StartsFresh, SubmitsWhole, Latch!Reaching,
     Latch!Submitting
<1> QED
  BY <1>4, <1>5, <1>6

\* The next point of a submission.
LEMMA GoesSoundly ==
  ASSUME DispatchInv, NEW c \in Callers, NEW at \in Latch!Submitting,
         caller[c].at \in Latch!Submitting, Latch!Go(c, at),
         UNCHANGED <<result, proc, cloud>>,
         /\ at \in {"submission", "archive"} /\ caller[c].job \in {"completed", "failed"} =>
              caller[c].at = "submission"
         /\ at = "archive" => caller[c].job \in {"completed", "failed"}
         /\ at \in {"archiving", "upload", "check", "insert"} => Left(caller[c].d)
         /\ at = "upload" => archive'[caller[c].d] # "absent"
         /\ at \in {"check", "insert"} => caller[c].bytes # "absent"
  PROVE  OnlyMoves(c) /\ CallIsSound(caller[c])' /\ caller'[c].tool = caller[c].tool
         /\ caller'[c].d = caller[c].d
<1>1. /\ Latch!LatchTypeOK /\ at \in Ats /\ caller[c].d \in Dispatches
      /\ caller[c].tool \notin {"status", "current"} /\ caller[c].job \in Latch!Jobs \ {"unknown"}
  BY SubmittingCall DEF DispatchInv, Ats
<1>2. OnlyMoves(c) /\ caller'[c] = [caller[c] EXCEPT !.at = at] /\ caller[c] \in Latch!Calls
  BY <1>1, GoMoves
<1>3. /\ caller'[c].at = at /\ caller'[c].tool = caller[c].tool /\ caller'[c].d = caller[c].d
      /\ caller'[c].mine = caller[c].mine /\ caller'[c].job = caller[c].job
      /\ caller'[c].bytes = caller[c].bytes
  BY <1>2 DEF Latch!Calls
<1>4. CallIsSound(caller[c])
  BY DEF DispatchInv, CallsAreSound
<1>5. ReachesFor(caller[c])' /\ StartsFresh(caller[c])'
  BY <1>1, <1>3 DEF ReachesFor, StartsFresh, Latch!Reaching, Latch!Submitting
<1>6. SubmitsWhole(caller[c])'
  BY <1>1, <1>3, <1>4 DEF Over, Left, CallIsSound, SubmitsWhole, Latch!Submitting
<1> QED
  BY <1>2, <1>3, <1>5, <1>6 DEF CallIsSound

\* Without an answer the run directory's result is taken, and only a whole one.
LEMMA FallbackKeeps ==
  ASSUME DispatchInv, NEW c \in Callers, Latch!Fallback(c)
  PROVE  DispatchInv'
<1>1. /\ Latch!LatchTypeOK /\ caller[c] \in Latch!Calls /\ caller \in [Callers -> Latch!Calls]
      /\ caller[c].at = "fallback"
      /\ caller[c].d \in Dispatches /\ caller[c].tool \notin {"status", "current"}
  BY SubmittingCall DEF DispatchInv, Latch!LatchTypeOK, Latch!Fallback
<1>2. UNCHANGED <<Latch!jobVars, Latch!dispatchVars, Latch!daemonVars>>
  BY DEF Latch!Fallback
<1>3. CASE result[caller[c].d] \in Latch!Whole
  <2> DEFINE j == IF result[caller[c].d] = "errors" THEN "failed" ELSE "completed"
             k == [caller[c] EXCEPT !.at = "submission", !.job = j]
  <2>1. j \in {"completed", "failed"}
    OBVIOUS
  <2>2. caller' = [caller EXCEPT ![c] = k]
    BY <1>3 DEF Latch!Fallback
  <2> HIDE DEF j
  <2>3. /\ k \in Latch!Calls /\ k.at = "submission" /\ k.tool = caller[c].tool
        /\ k.d = caller[c].d /\ k.mine = caller[c].mine /\ k.job = j
    BY <1>1, <2>1 DEF Latch!Calls, Latch!Submitting, Latch!Jobs
  <2> HIDE DEF k
  <2>4. OnlyMoves(c) /\ caller'[c] = k
    BY <1>1, <2>2, <2>3 DEF OnlyMoves
  <2>5. CallIsSound(caller[c])
    BY DEF DispatchInv, CallsAreSound
  <2>6. CallIsSound(caller[c])'
    BY <1>1, <1>2, <1>3, <2>1, <2>3, <2>4, <2>5 DEF Over, Left, CallIsSound, ReachesFor, StartsFresh,
       SubmitsWhole, Latch!Reaching, Latch!Submitting, Latch!jobVars, Latch!dispatchVars
  <2> QED
    BY <1>1, <1>2, <2>3, <2>4, <2>6, CallerGoes DEF Latch!daemonVars, Latch!LatchTypeOK
<1>4. CASE result[caller[c].d] \notin Latch!Whole
  BY <1>1, <1>2, <1>4, ReturnMoves, CallerGoes DEF Latch!Fallback, Latch!daemonVars,
     Latch!LatchTypeOK
<1> QED
  BY <1>3, <1>4

\* dispatch_submission_lifecycle and the Cloud's answers that change no row.
LEMMA AnswerKeeps ==
  ASSUME DispatchInv, NEW c \in Callers,
         Latch!dispatch_submission_lifecycle(c) \/ Latch!CloudFails(c) \/ Latch!CheckRow(c)
  PROVE  DispatchInv'
<1>1. Latch!LatchTypeOK /\ CallIsSound(caller[c]) /\ caller[c].at \in Latch!Submitting
  BY DEF DispatchInv, CallsAreSound, Latch!dispatch_submission_lifecycle, Latch!CloudFails,
     Latch!CheckRow, Latch!Submitting
<1>2. UNCHANGED <<Latch!jobVars, Latch!dispatchVars, Latch!daemonVars>>
  BY DEF Latch!dispatch_submission_lifecycle, Latch!CloudFails, Latch!CheckRow
<1>3. /\ OnlyMoves(c) /\ CallIsSound(caller[c])' /\ caller'[c].tool = caller[c].tool
      /\ caller'[c].d = caller[c].d
  <2>1. CASE Latch!dispatch_submission_lifecycle(c) /\ caller[c].mine.submission = "completed"
    <3>1. Latch!Saves(c, "completed") /\ cloud'[caller[c].d] # Latch!NoRow
      BY <1>1, <1>2, <2>1 DEF Latch!dispatch_submission_lifecycle, CallIsSound, SubmitsWhole,
         Latch!dispatchVars
    <3> QED
      BY <1>1, <3>1, SavesSoundly
  <2>2. CASE /\ Latch!dispatch_submission_lifecycle(c) /\ caller[c].mine.submission # "completed"
             /\ caller[c].job \notin {"completed", "failed"}
    BY <1>1, <2>2, SavesSoundly DEF Latch!dispatch_submission_lifecycle
  <2>3. CASE /\ Latch!dispatch_submission_lifecycle(c) /\ caller[c].mine.submission # "completed"
             /\ caller[c].job \in {"completed", "failed"}
    <3>1. Latch!Go(c, "archive") /\ caller[c].at = "submission" /\ "archive" \in Latch!Submitting
      BY <2>3 DEF Latch!dispatch_submission_lifecycle, Latch!Submitting
    <3> QED
      BY <1>1, <1>2, <2>3, <3>1, GoesSoundly DEF Latch!jobVars, Latch!dispatchVars
  <2>4. CASE Latch!CloudFails(c)
    BY <1>1, <2>4, SavesSoundly DEF Latch!CloudFails
  <2>5. CASE Latch!CheckRow(c) /\ cloud[caller[c].d] # Latch!NoRow
    BY <1>1, <1>2, <2>5, SavesSoundly DEF Latch!CheckRow, Latch!dispatchVars
  <2>6. CASE Latch!CheckRow(c) /\ cloud[caller[c].d] = Latch!NoRow
    <3>1. Latch!Go(c, "insert") /\ caller[c].at = "check" /\ "insert" \in Latch!Submitting
      BY <2>6 DEF Latch!CheckRow, Latch!Submitting
    <3>2. Left(caller[c].d) /\ caller[c].bytes # "absent"
      BY <1>1, <3>1 DEF CallIsSound, SubmitsWhole
    <3> QED
      BY <1>1, <1>2, <3>1, <3>2, GoesSoundly DEF Latch!jobVars, Latch!dispatchVars
  <2> QED
    BY <2>1, <2>2, <2>3, <2>4, <2>5, <2>6
<1> QED
  BY <1>1, <1>2, <1>3, CallerGoes DEF Latch!daemonVars, Latch!LatchTypeOK

\* The archive is read back.
LEMMA UploadKeeps ==
  ASSUME DispatchInv, NEW c \in Callers, Latch!Upload(c)
  PROVE  DispatchInv'
<1> DEFINE b == archive[caller[c].d]
           k == [caller[c] EXCEPT !.at = "check", !.bytes = b]
<1>1. /\ Latch!LatchTypeOK /\ caller[c] \in Latch!Calls /\ caller \in [Callers -> Latch!Calls]
      /\ caller[c].at = "upload"
      /\ caller[c].d \in Dispatches /\ caller[c].tool \notin {"status", "current"}
      /\ b \in Latch!Archives
  BY SubmittingCall DEF DispatchInv, Latch!LatchTypeOK, Latch!Upload, Latch!Submitting
<1>2. UNCHANGED <<Latch!jobVars, Latch!dispatchVars, Latch!daemonVars>>
      /\ caller' = [caller EXCEPT ![c] = k]
  BY DEF Latch!Upload
<1>3. CallIsSound(caller[c]) /\ b # "absent"
  BY <1>1 DEF DispatchInv, CallsAreSound, CallIsSound, SubmitsWhole
<1> HIDE DEF b
<1>4. /\ k \in Latch!Calls /\ k.at = "check" /\ k.tool = caller[c].tool
      /\ k.d = caller[c].d /\ k.mine = caller[c].mine /\ k.job = caller[c].job /\ k.bytes = b
  BY <1>1 DEF Latch!Calls, Latch!Submitting
<1> HIDE DEF k
<1>5. OnlyMoves(c) /\ caller'[c] = k
  BY <1>1, <1>2, <1>4 DEF OnlyMoves
<1>6. CallIsSound(caller[c])'
  BY <1>1, <1>2, <1>3, <1>4, <1>5 DEF Over, Left, CallIsSound, ReachesFor, StartsFresh, SubmitsWhole,
     Latch!Reaching, Latch!Submitting, Latch!jobVars, Latch!dispatchVars
<1> QED
  BY <1>1, <1>2, <1>4, <1>5, <1>6, CallerGoes DEF Latch!daemonVars, Latch!LatchTypeOK

-----------------------------------------------------------------------------
(* The files of a dispatch and the Cloud's row. *)

\* A caller's step that leaves daemons and jobs alone.
LEMMA FilesTurn ==
  ASSUME DispatchInv, NEW c \in Callers, OnlyMoves(c), CallIsSound(caller[c])',
         UNCHANGED <<Latch!jobVars, Latch!daemonVars>>,
         record' \in [Dispatches -> Latch!Records], archive' \in [Dispatches -> Latch!Archives],
         cloud' \in [Dispatches -> [archive : Latch!Archives]], RecordsAreTrue',
         \A d \in Dispatches : archive[d] # "absent" => archive'[d] # "absent",
         \A d \in Dispatches : cloud[d] # Latch!NoRow => cloud'[d] # Latch!NoRow,
         caller'[c].tool = "start" => caller[c].tool = "start" /\ caller'[c].d = caller[c].d
  PROVE  DispatchInv'
<1>1. WorldStays /\ \A d \in Dispatches : Calm(d)
  BY DEF Over, Left, Latch!jobVars, WorldStays, Calm, NoJob
<1>2. CallsAreSound' /\ StartsAlone'
  BY <1>1, CallerTurns
<1>3. Latch!LatchTypeOK'
  BY DEF DispatchInv, Latch!LatchTypeOK, Latch!jobVars, Latch!daemonVars, OnlyMoves
<1>4. JobsAreTrue'
  BY DEF DispatchInv, JobsAreTrue, NoJob, Latch!jobVars, Latch!daemonVars
<1> QED
  BY <1>2, <1>3, <1>4 DEF DispatchInv

\* The archive.
LEMMA ArchiveKeeps ==
  ASSUME DispatchInv, NEW c \in Callers, Latch!CreateArchive(c) \/ Latch!FinishArchive(c)
  PROVE  DispatchInv'
<1> DEFINE d == caller[c].d
<1>1. Latch!LatchTypeOK /\ CallIsSound(caller[c]) /\ caller[c].at \in Latch!Submitting
  BY DEF DispatchInv, CallsAreSound, Latch!CreateArchive, Latch!FinishArchive, Latch!Submitting
<1>2. d \in Dispatches /\ {"archiving", "upload"} \subseteq Latch!Submitting
  BY <1>1, SubmittingCall DEF Latch!Submitting
<1>3. /\ UNCHANGED <<Latch!jobVars, Latch!daemonVars>> /\ UNCHANGED <<record, cloud>>
      /\ archive' \in [Dispatches -> Latch!Archives]
      /\ \A e \in Dispatches : archive[e] # "absent" => archive'[e] # "absent"
  BY <1>1, <1>2 DEF Latch!CreateArchive, Latch!FinishArchive, Latch!LatchTypeOK, Latch!Archives
<1>4. UNCHANGED <<result, proc, cloud>>
  BY <1>3 DEF Latch!jobVars
<1>5. /\ OnlyMoves(c) /\ CallIsSound(caller[c])' /\ caller'[c].tool = caller[c].tool
      /\ caller'[c].d = caller[c].d
  <2>1. CASE Latch!CreateArchive(c) /\ result[d] = "absent"
    BY <1>1, <2>1, SavesSoundly DEF Latch!CreateArchive
  <2>2. CASE Latch!CreateArchive(c) /\ result[d] # "absent"
    <3>1. Latch!Go(c, "archiving") /\ caller[c].at = "archive" /\ Left(d)
      BY <1>1, <2>2 DEF Over, Left, Latch!CreateArchive, CallIsSound, SubmitsWhole
    <3> QED
      BY <1>1, <1>2, <1>4, <3>1, GoesSoundly
  <2>3. CASE Latch!FinishArchive(c)
    <3>1. Latch!Go(c, "upload") /\ caller[c].at = "archiving" /\ Left(d)
      BY <1>1, <2>3 DEF Over, Left, Latch!FinishArchive, CallIsSound, SubmitsWhole
    <3>2. archive'[d] # "absent"
      BY <1>1, <1>2, <2>3 DEF Latch!FinishArchive, Latch!LatchTypeOK
    <3> QED
      BY <1>1, <1>2, <1>4, <3>1, <3>2, GoesSoundly
  <2> QED
    BY <2>1, <2>2, <2>3
<1>6. RecordsAreTrue'
  BY <1>3, <1>4 DEF Over, Left, DispatchInv, RecordsAreTrue
<1> QED
  BY <1>1, <1>3, <1>5, <1>6, FilesTurn DEF Latch!LatchTypeOK

\* The row of the Cloud is made of a whole result.
LEMMA InsertRowKeeps ==
  ASSUME DispatchInv, NEW c \in Callers, Latch!InsertRow(c)
  PROVE  DispatchInv'
<1> DEFINE d == caller[c].d
<1>1. /\ Latch!LatchTypeOK /\ CallIsSound(caller[c]) /\ caller[c].at = "insert"
      /\ caller[c].at \in Latch!Submitting
      /\ caller[c] \in Latch!Calls
  BY DEF DispatchInv, CallsAreSound, Latch!InsertRow, Latch!Submitting, Latch!LatchTypeOK
<1>2. d \in Dispatches /\ Left(d) /\ caller[c].bytes \in Latch!Archives \ {"absent"}
  BY <1>1, SubmittingCall DEF CallIsSound, SubmitsWhole, Latch!Calls
<1>3. UNCHANGED <<Latch!jobVars, Latch!daemonVars>> /\ UNCHANGED <<record, archive>>
  BY DEF Latch!InsertRow
<1>4. /\ cloud' \in [Dispatches -> [archive : Latch!Archives]] /\ cloud'[d] # Latch!NoRow
      /\ \A e \in Dispatches : cloud[e] # Latch!NoRow => cloud'[e] # Latch!NoRow
      /\ \A e \in Dispatches \ {d} : cloud'[e] = cloud[e]
  <2>1. CASE cloud[d] = Latch!NoRow
    <3> DEFINE r == [archive |-> caller[c].bytes]
    <3>1. r \in [archive : Latch!Archives] /\ r # Latch!NoRow
      BY <1>2 DEF Latch!NoRow
    <3>2. cloud' = [cloud EXCEPT ![d] = r] /\ cloud \in [Dispatches -> [archive : Latch!Archives]]
      BY <1>1, <2>1 DEF Latch!InsertRow, Latch!LatchTypeOK
    <3> HIDE DEF r
    <3> QED
      BY <1>2, <3>1, <3>2
  <2>2. CASE cloud[d] # Latch!NoRow
    BY <1>1, <2>2 DEF Latch!InsertRow, Latch!LatchTypeOK
  <2> QED
    BY <2>1, <2>2
<1>5. Latch!Saves(c, "completed") \/ Latch!Saves(c, "failed")
  BY DEF Latch!InsertRow
<1>6. /\ OnlyMoves(c) /\ CallIsSound(caller[c])' /\ caller'[c].tool = caller[c].tool
      /\ caller'[c].d = caller[c].d
  BY <1>1, <1>4, <1>5, SavesSoundly
<1>7. RecordsAreTrue'
  BY <1>2, <1>3, <1>4 DEF Over, Left, DispatchInv, RecordsAreTrue, Latch!jobVars
<1> QED
  BY <1>1, <1>3, <1>4, <1>6, <1>7, FilesTurn DEF Latch!LatchTypeOK

\* The record is truncated, and written over what is there by then.
LEMMA TruncateKeeps ==
  ASSUME DispatchInv, NEW c \in Callers, Latch!TruncateRecord(c)
  PROVE  DispatchInv'
<1> DEFINE d == caller[c].d
<1>1. /\ Latch!LatchTypeOK /\ CallIsSound(caller[c]) /\ caller[c].at = "save" /\ "write" \in Ats
      /\ Latch!Empty \in Latch!Records /\ Latch!Empty.submission = "absent"
  BY DEF DispatchInv, CallsAreSound, Latch!TruncateRecord, Ats, Latch!Empty, Latch!Records
<1>2. d \in Dispatches /\ caller[c].tool \notin {"status", "current"}
  BY <1>1 DEF CallIsSound, ReachesFor, Latch!Reaching
<1>3. UNCHANGED <<Latch!jobVars, Latch!daemonVars>> /\ UNCHANGED <<archive, cloud>>
      /\ Latch!Go(c, "write")
  BY DEF Latch!TruncateRecord
<1>4. record' = [record EXCEPT ![d] = Latch!Empty] /\ record \in [Dispatches -> Latch!Records]
  BY <1>1 DEF Latch!TruncateRecord, Latch!LatchTypeOK
<1>5. /\ record' \in [Dispatches -> Latch!Records]
      /\ \A e \in Dispatches : record'[e].submission = "completed" => record[e].submission = "completed"
  BY <1>1, <1>2, <1>4
<1>6. OnlyMoves(c) /\ caller'[c] = [caller[c] EXCEPT !.at = "write"] /\ caller[c] \in Latch!Calls
  BY <1>1, <1>3, GoMoves
<1>7. /\ caller'[c].at = "write" /\ caller'[c].tool = caller[c].tool /\ caller'[c].d = d
      /\ caller'[c].mine = caller[c].mine
  BY <1>6 DEF Latch!Calls
<1>8. CallIsSound(caller[c])'
  BY <1>1, <1>2, <1>3, <1>7 DEF CallIsSound, ReachesFor, StartsFresh, SubmitsWhole, Latch!Reaching,
     Latch!Submitting
<1>9. RecordsAreTrue'
  BY <1>3, <1>5 DEF Over, Left, DispatchInv, RecordsAreTrue, Latch!jobVars
<1> QED
  BY <1>1, <1>3, <1>5, <1>6, <1>7, <1>8, <1>9, FilesTurn DEF Latch!LatchTypeOK

\* What is written is what the caller has made, or is not a record at all.
LEMMA WriteRecordKeeps ==
  ASSUME DispatchInv, NEW c \in Callers, Latch!WriteRecord(c)
  PROVE  DispatchInv'
<1> DEFINE d == caller[c].d
<1>1. /\ Latch!LatchTypeOK /\ CallIsSound(caller[c]) /\ caller[c].at = "write"
      /\ Latch!Garbled \in Latch!Records /\ Latch!Garbled.submission = "absent"
      /\ caller[c].mine \in Latch!Records
  BY DEF DispatchInv, CallsAreSound, Latch!WriteRecord, Latch!Garbled, Latch!Records,
     Latch!LatchTypeOK, Latch!Calls
<1>2. d \in Dispatches /\ caller[c].tool \notin {"status", "current"}
      /\ (caller[c].mine.submission = "completed" => cloud[d] # Latch!NoRow)
  BY <1>1 DEF CallIsSound, ReachesFor, Latch!Reaching, SubmitsWhole
<1>3. UNCHANGED <<Latch!jobVars, Latch!daemonVars>> /\ UNCHANGED <<archive, cloud>> /\ Latch!Return(c)
  BY DEF Latch!WriteRecord
<1>4. PICK r \in {caller[c].mine, Latch!Garbled} : record' = [record EXCEPT ![d] = r]
  BY DEF Latch!WriteRecord, Latch!Overlay
<1>5. /\ record' \in [Dispatches -> Latch!Records]
      /\ \A e \in Dispatches : record'[e].submission = "completed" =>
           record[e].submission = "completed" \/ cloud[e] # Latch!NoRow
  BY <1>1, <1>2, <1>4 DEF Latch!LatchTypeOK
<1>6. OnlyMoves(c) /\ CallIsSound(caller[c])' /\ caller'[c].tool # "start"
  BY <1>1, <1>3, ReturnMoves
<1>7. RecordsAreTrue'
  BY <1>3, <1>5 DEF Over, Left, DispatchInv, RecordsAreTrue, Latch!jobVars
<1> QED
  BY <1>1, <1>3, <1>5, <1>6, <1>7, FilesTurn DEF Latch!LatchTypeOK

-----------------------------------------------------------------------------
(* Daemons and their jobs. *)

\* A caller's step that leaves daemons and the files of dispatches alone.
LEMMA JobsTurn ==
  ASSUME DispatchInv, NEW c \in Callers, OnlyMoves(c), CallIsSound(caller[c])',
         UNCHANGED <<Latch!daemonVars, Latch!dispatchVars>>, result' = result,
         jobs' \in [Daemons -> [Dispatches -> Latch!Jobs]],
         proc' \in [Dispatches -> {"none", "running", "ok", "failed"}],
         JobsAreTrue',
         \A d \in Dispatches : proc[d] = "failed" => proc'[d] = "failed",
         \A d \in Dispatches : Calm(d) \/ (caller[c].tool = "start" /\ caller[c].d = d),
         caller'[c].tool = "start" => caller[c].tool = "start" /\ caller'[c].d = caller[c].d
  PROVE  DispatchInv'
<1>1. WorldStays
  BY DEF Over, Left, WorldStays, Latch!dispatchVars
<1>2. CallsAreSound' /\ StartsAlone'
  BY <1>1, CallerTurns
<1>3. Latch!LatchTypeOK'
  BY DEF DispatchInv, Latch!LatchTypeOK, Latch!dispatchVars, Latch!daemonVars, OnlyMoves
<1>4. RecordsAreTrue'
  BY DEF Over, Left, DispatchInv, RecordsAreTrue, Latch!dispatchVars
<1> QED
  BY <1>2, <1>3, <1>4 DEF DispatchInv

\* What a live daemon learns of its jobs is so.
LEMMA RefreshedJobs ==
  ASSUME DispatchInv, NEW m \in Daemons, daemon[m] # "dead",
         jobs' = [jobs EXCEPT ![m] = Latch!refresh_jobs(jobs[m])], UNCHANGED <<daemon, proc, result>>
  PROVE  /\ jobs' \in [Daemons -> [Dispatches -> Latch!Jobs]] /\ JobsAreTrue'
         /\ \A d \in Dispatches : Calm(d)
         /\ \A d \in Dispatches :
              /\ jobs'[m][d] = Latch!refresh_jobs(jobs[m])[d] /\ jobs'[m][d] \in Latch!Jobs
              /\ jobs'[m][d] = "completed" => result[d] \in Latch!Whole
              /\ jobs'[m][d] = "failed" => proc[d] = "failed"
<1>1. Latch!LatchTypeOK /\ JobsAreTrue
  BY DEF DispatchInv
<1>2. /\ Latch!refresh_jobs(jobs[m]) \in [Dispatches -> Latch!Jobs]
      /\ \A d \in Dispatches : Latch!refresh_jobs(jobs[m])[d] = "unknown" <=> jobs[m][d] = "unknown"
      /\ \A d \in Dispatches :
           /\ Latch!refresh_jobs(jobs[m])[d] = "completed" => jobs[m][d] = "completed" \/ proc[d] = "ok"
           /\ Latch!refresh_jobs(jobs[m])[d] = "failed" =>
                jobs[m][d] = "failed" \/ (jobs[m][d] = "running" /\ proc[d] = "failed")
           /\ Latch!refresh_jobs(jobs[m])[d] = "running" => jobs[m][d] = "running"
  BY <1>1 DEF Latch!refresh_jobs, Latch!LatchTypeOK, Latch!Jobs
<1>3. /\ jobs' \in [Daemons -> [Dispatches -> Latch!Jobs]] /\ jobs'[m] = Latch!refresh_jobs(jobs[m])
      /\ \A n \in Daemons \ {m} : jobs'[n] = jobs[n]
  BY <1>1, <1>2 DEF Latch!LatchTypeOK
<1>4. \A n \in Daemons, d \in Dispatches : jobs'[n][d] = "unknown" <=> jobs[n][d] = "unknown"
  BY <1>2, <1>3
<1>5. \A d \in Dispatches : (NoJob(d) <=> NoJob(d)') /\ Calm(d)
  BY <1>4 DEF NoJob, Calm
<1>6. \A d \in Dispatches :
        /\ jobs'[m][d] = "completed" => result[d] \in Latch!Whole
        /\ jobs'[m][d] = "failed" => proc[d] = "failed"
        /\ jobs'[m][d] = "running" => jobs[m][d] = "running"
  BY <1>1, <1>2, <1>3 DEF JobsAreTrue
<1>7. JobsAreTrue'
  <2>1. ASSUME NEW d \in Dispatches, NEW n \in Daemons
        PROVE  /\ jobs'[n][d] = "completed" => result'[d] \in Latch!Whole
               /\ jobs'[n][d] = "failed" => proc'[d] = "failed"
    BY <1>1, <1>3, <1>6 DEF JobsAreTrue
  <2> QED
    BY <1>1, <1>4, <1>5, <2>1 DEF JobsAreTrue
<1> QED
  BY <1>2, <1>3, <1>5, <1>6, <1>7 DEF Latch!LatchTypeOK

\* The status of a daemon, for a probe.
LEMMA StatusKeeps ==
  ASSUME DispatchInv, NEW c \in Callers, Latch!daemon_status(c)
  PROVE  DispatchInv'
<1> DEFINE m == caller[c].server
<1>1. /\ Latch!LatchTypeOK /\ caller[c] \in Latch!Calls /\ caller[c].at = "probing"
      /\ CallIsSound(caller[c])
      /\ m \in Daemons /\ daemon[m] = "serving" /\ "request" \in Ats
  BY DEF DispatchInv, Latch!LatchTypeOK, Latch!daemon_status, CallsAreSound, CallIsSound,
     ReachesFor, Ats, Latch!Asking
<1>2. /\ UNCHANGED <<Latch!daemonVars, Latch!dispatchVars>> /\ UNCHANGED <<proc, result>>
      /\ UNCHANGED daemon
      /\ jobs' = [jobs EXCEPT ![m] = Latch!refresh_jobs(jobs[m])]
  BY DEF Latch!daemon_status, Latch!daemonVars
<1>3. jobs' \in [Daemons -> [Dispatches -> Latch!Jobs]] /\ JobsAreTrue' /\ \A d \in Dispatches : Calm(d)
  BY <1>1, <1>2, RefreshedJobs
<1>4. /\ OnlyMoves(c) /\ CallIsSound(caller[c])'
      /\ caller'[c].tool = "start" => caller[c].tool = "start" /\ caller'[c].d = caller[c].d
  <2>1. CASE caller[c].tool \in {"status", "current"}
    BY <1>1, <2>1, ReturnMoves DEF Latch!daemon_status
  <2>2. CASE caller[c].tool \notin {"status", "current"}
    <3>1. OnlyMoves(c) /\ caller'[c] = [caller[c] EXCEPT !.at = "request"]
      BY <1>1, <2>2, GoMoves DEF Latch!daemon_status
    <3>2. /\ caller'[c].at = "request" /\ caller'[c].tool = caller[c].tool /\ caller'[c].d = caller[c].d
          /\ caller'[c].mine = caller[c].mine
      BY <1>1, <3>1 DEF Latch!Calls
    <3>3. CallIsSound(caller[c])'
      BY <1>1, <1>2, <2>2, <3>2 DEF CallIsSound, ReachesFor, StartsFresh, SubmitsWhole,
         Latch!Reaching, Latch!Submitting, Latch!dispatchVars
    <3> QED
      BY <3>1, <3>2, <3>3
  <2> QED
    BY <2>1, <2>2
<1> QED
  BY <1>1, <1>2, <1>3, <1>4, JobsTurn DEF Latch!LatchTypeOK

\* A refresh that the daemon answers.
LEMMA ProgressKeeps ==
  ASSUME DispatchInv, NEW c \in Callers, Latch!daemon_progress(c)
  PROVE  DispatchInv'
<1> DEFINE m == caller[c].server
           d == caller[c].d
           j == Latch!refresh_jobs(jobs[m])[d]
           k == [caller[c] EXCEPT !.at = "submission", !.job = j]
<1>1. /\ Latch!LatchTypeOK /\ caller[c] \in Latch!Calls /\ caller \in [Callers -> Latch!Calls]
      /\ caller[c].at = "sent"
      /\ CallIsSound(caller[c]) /\ m \in Daemons /\ daemon[m] = "serving"
      /\ d \in Dispatches /\ caller[c].tool = "refresh"
      /\ "fallback" \in Ats
  BY DEF DispatchInv, Latch!LatchTypeOK, Latch!daemon_progress, CallsAreSound, CallIsSound,
     ReachesFor, Ats, Latch!Asking
<1>2. /\ UNCHANGED <<Latch!daemonVars, Latch!dispatchVars>> /\ UNCHANGED <<proc, result>>
      /\ UNCHANGED daemon
      /\ jobs' = [jobs EXCEPT ![m] = Latch!refresh_jobs(jobs[m])]
  BY DEF Latch!daemon_progress, Latch!daemonVars
<1>3. /\ jobs' \in [Daemons -> [Dispatches -> Latch!Jobs]] /\ JobsAreTrue'
      /\ \A e \in Dispatches : Calm(e)
      /\ j \in Latch!Jobs /\ (j = "completed" => result[d] \in Latch!Whole)
      /\ j = "failed" => proc[d] = "failed"
  BY <1>1, <1>2, RefreshedJobs
<1>4. /\ OnlyMoves(c) /\ CallIsSound(caller[c])' /\ caller'[c].tool = caller[c].tool
  <2>1. CASE j = "unknown"
    <3>1. OnlyMoves(c) /\ caller'[c] = [caller[c] EXCEPT !.at = "fallback"]
      BY <1>1, <2>1, GoMoves DEF Latch!daemon_progress
    <3>2. /\ caller'[c].at = "fallback" /\ caller'[c].tool = caller[c].tool
          /\ caller'[c].d = caller[c].d
          /\ caller'[c].mine = caller[c].mine
      BY <1>1, <3>1 DEF Latch!Calls
    <3>3. CallIsSound(caller[c])'
      BY <1>1, <1>2, <3>2 DEF CallIsSound, ReachesFor, StartsFresh, SubmitsWhole, Latch!Reaching,
         Latch!Submitting, Latch!dispatchVars
    <3> QED
      BY <3>1, <3>2, <3>3
  <2>2. CASE j # "unknown"
    <3>1. caller' = [caller EXCEPT ![c] = k]
      BY <2>2 DEF Latch!daemon_progress
    <3> HIDE DEF j
    <3>2. /\ k \in Latch!Calls /\ k.at = "submission" /\ k.tool = caller[c].tool
          /\ k.d = d /\ k.mine = caller[c].mine /\ k.job = j
      BY <1>1, <1>3 DEF Latch!Calls, Latch!Submitting
    <3> HIDE DEF k
    <3>3. OnlyMoves(c) /\ caller'[c] = k
      BY <1>1, <3>1, <3>2 DEF OnlyMoves
    <3>4. CallIsSound(caller[c])'
      BY <1>1, <1>2, <1>3, <2>2, <3>2, <3>3 DEF Over, CallIsSound, ReachesFor, StartsFresh, SubmitsWhole,
         Latch!Reaching, Latch!Submitting, Latch!dispatchVars
    <3> QED
      BY <3>2, <3>3, <3>4
  <2> QED
    BY <2>1, <2>2
<1> QED
  BY <1>1, <1>2, <1>3, <1>4, JobsTurn DEF Latch!LatchTypeOK

\* A cancelled job may be anything.
LEMMA CancelKeeps ==
  ASSUME DispatchInv, NEW c \in Callers, Latch!daemon_cancel(c)
  PROVE  DispatchInv'
<1> DEFINE m == caller[c].server
           d == caller[c].d
<1>1. /\ Latch!LatchTypeOK /\ caller[c].at = "sent" /\ CallIsSound(caller[c]) /\ m \in Daemons
      /\ d \in Dispatches /\ caller[c].tool = "cancel" /\ JobsAreTrue
  BY DEF DispatchInv, Latch!daemon_cancel, CallsAreSound, CallIsSound, ReachesFor
<1>2. UNCHANGED <<Latch!daemonVars, Latch!dispatchVars>> /\ UNCHANGED daemon /\ result' = result
      /\ Latch!Return(c)
  BY DEF Latch!daemon_cancel, Latch!daemonVars
<1>3. OnlyMoves(c) /\ CallIsSound(caller[c])' /\ caller'[c].tool # "start"
  BY <1>1, <1>2, ReturnMoves
<1>4. CASE jobs[m][d] = "unknown"
  <2>1. jobs' = jobs /\ proc' = proc
    BY <1>4 DEF Latch!daemon_cancel
  <2>2. JobsAreTrue' /\ \A e \in Dispatches : Calm(e)
    BY <1>1, <1>2, <2>1 DEF JobsAreTrue, NoJob, Calm
  <2> QED
    BY <1>1, <1>2, <1>3, <2>1, <2>2, JobsTurn DEF Latch!LatchTypeOK
<1>5. CASE jobs[m][d] # "unknown"
  <2>1. /\ jobs' = [jobs EXCEPT ![m][d] = "cancelled"]
        /\ proc' = [proc EXCEPT ![d] = IF jobs[m][d] = "running" /\ proc[d] = "running"
                                       THEN "failed" ELSE proc[d]]
    BY <1>5 DEF Latch!daemon_cancel
  <2>2. /\ jobs' \in [Daemons -> [Dispatches -> Latch!Jobs]]
        /\ proc' \in [Dispatches -> {"none", "running", "ok", "failed"}]
        /\ jobs'[m][d] = "cancelled"
        /\ \A n \in Daemons, e \in Dispatches : n # m \/ e # d => jobs'[n][e] = jobs[n][e]
        /\ \A e \in Dispatches \ {d} : proc'[e] = proc[e]
        /\ proc'[d] = "failed" \/ proc'[d] = proc[d]
        /\ proc'[d] = "none" <=> proc[d] = "none"
    BY <1>1, <2>1 DEF Latch!LatchTypeOK, Latch!Jobs
  <2>3. \A n \in Daemons : n # m => jobs'[n][d] = "unknown"
    BY <1>1, <1>5, <2>2 DEF JobsAreTrue
  <2>4. \A e \in Dispatches : Calm(e)
    BY <1>1, <1>2, <1>5, <2>2 DEF Calm, NoJob
  <2>5. JobsAreTrue'
    <3>1. ASSUME NEW e \in Dispatches \ {d}
          PROVE  /\ proc'[e] = "none" => NoJob(e)'
                 /\ proc'[e] = "ok" => result'[e] \in Latch!Whole
                 /\ \A n, o \in Daemons : jobs'[n][e] # "unknown" /\ jobs'[o][e] # "unknown" => n = o
                 /\ \A n \in Daemons :
                      /\ jobs'[n][e] = "completed" => result'[e] \in Latch!Whole
                      /\ jobs'[n][e] = "failed" => proc'[e] = "failed"
      BY <1>1, <1>2, <2>2 DEF JobsAreTrue, NoJob
    <3>2. /\ proc'[d] = "none" => \A n \in Daemons : jobs'[n][d] = "unknown"
          /\ proc'[d] = "ok" => result'[d] \in Latch!Whole
          /\ \A n, o \in Daemons : jobs'[n][d] # "unknown" /\ jobs'[o][d] # "unknown" => n = o
          /\ \A n \in Daemons :
               /\ jobs'[n][d] = "completed" => result'[d] \in Latch!Whole
               /\ jobs'[n][d] = "failed" => proc'[d] = "failed"
      BY <1>1, <1>2, <1>5, <2>2, <2>3 DEF JobsAreTrue, NoJob
    <3> QED
      BY <3>1, <3>2 DEF JobsAreTrue, NoJob
  <2> QED
    BY <1>1, <1>2, <1>3, <2>2, <2>4, <2>5, JobsTurn DEF Latch!LatchTypeOK
<1> QED
  BY <1>4, <1>5

\* A job is started: first its process, then the daemon's entry.
LEMMA StartKeeps ==
  ASSUME DispatchInv, NEW c \in Callers, Latch!SpawnJob(c) \/ Latch!daemon_start(c)
  PROVE  DispatchInv'
<1> DEFINE m == caller[c].server
           d == caller[c].d
<1>1. /\ Latch!LatchTypeOK /\ caller[c] \in Latch!Calls /\ caller \in [Callers -> Latch!Calls]
      /\ CallIsSound(caller[c]) /\ m \in Daemons /\ d \in Dispatches
      /\ caller[c].tool = "start" /\ JobsAreTrue /\ "starting" \in Ats
  BY DEF DispatchInv, Latch!SpawnJob, Latch!daemon_start, CallsAreSound, CallIsSound, ReachesFor,
     StartsFresh, Latch!LatchTypeOK, Ats, Latch!Asking
<1>2. UNCHANGED <<Latch!daemonVars, Latch!dispatchVars>> /\ UNCHANGED daemon /\ result' = result
  BY DEF Latch!SpawnJob, Latch!daemon_start, Latch!daemonVars
<1>3. CASE Latch!SpawnJob(c)
  <2>1. /\ caller[c].at = "sent" /\ proc[d] = "none" /\ NoJob(d) /\ jobs' = jobs
        /\ proc' = [proc EXCEPT ![d] = "running"] /\ Latch!Go(c, "starting")
    BY <1>1, <1>3 DEF Latch!SpawnJob, CallIsSound, StartsFresh, JobsAreTrue
  <2>2. /\ proc' \in [Dispatches -> {"none", "running", "ok", "failed"}] /\ proc'[d] = "running"
        /\ \A e \in Dispatches \ {d} : proc'[e] = proc[e]
    BY <1>1, <2>1 DEF Latch!LatchTypeOK
  <2>3. JobsAreTrue' /\ \A n \in Daemons : jobs'[n][d] = "unknown"
    BY <1>1, <1>2, <2>1, <2>2 DEF JobsAreTrue, NoJob
  <2>4. \A e \in Dispatches : Calm(e) \/ e = d
    BY <1>2, <2>1, <2>2 DEF Calm, NoJob
  <2>5. OnlyMoves(c) /\ caller'[c] = [caller[c] EXCEPT !.at = "starting"]
    BY <1>1, <2>1, GoMoves
  <2>6. /\ caller'[c].at = "starting" /\ caller'[c].tool = "start" /\ caller'[c].d = d
        /\ caller'[c].mine = caller[c].mine /\ caller'[c].server = m
    BY <1>1, <2>5 DEF Latch!Calls
  <2>7. CallIsSound(caller[c])'
    BY <1>1, <1>2, <2>1, <2>2, <2>3, <2>6 DEF CallIsSound, ReachesFor, StartsFresh, SubmitsWhole,
       Latch!Reaching, Latch!Submitting, NoJob, Latch!dispatchVars
  <2> QED
    BY <1>1, <1>2, <2>1, <2>2, <2>3, <2>4, <2>5, <2>6, <2>7, JobsTurn DEF Latch!LatchTypeOK
<1>4. CASE Latch!daemon_start(c)
  <2> DEFINE r == [status |-> "running", submission |-> "waiting"]
             k == [caller[c] EXCEPT !.at = "save", !.mine = r]
  <2>1. /\ caller[c].at = "starting" /\ proc[d] # "none" /\ NoJob(d) /\ proc' = proc
        /\ jobs' = [jobs EXCEPT ![m][d] = "running"] /\ caller' = [caller EXCEPT ![c] = k]
    BY <1>1, <1>4 DEF Latch!daemon_start, CallIsSound, StartsFresh
  <2>2. /\ jobs' \in [Daemons -> [Dispatches -> Latch!Jobs]] /\ jobs'[m][d] = "running"
        /\ \A n \in Daemons, e \in Dispatches : n # m \/ e # d => jobs'[n][e] = jobs[n][e]
    BY <1>1, <2>1 DEF Latch!LatchTypeOK, Latch!Jobs
  <2>3. JobsAreTrue'
    <3>1. ASSUME NEW e \in Dispatches
          PROVE  /\ proc'[e] = "none" => NoJob(e)'
                 /\ proc'[e] = "ok" => result'[e] \in Latch!Whole
                 /\ \A n, o \in Daemons : jobs'[n][e] # "unknown" /\ jobs'[o][e] # "unknown" => n = o
                 /\ \A n \in Daemons :
                      /\ jobs'[n][e] = "completed" => result'[e] \in Latch!Whole
                      /\ jobs'[n][e] = "failed" => proc'[e] = "failed"
      BY <1>1, <1>2, <2>1, <2>2 DEF JobsAreTrue, NoJob
    <3> QED
      BY <3>1 DEF JobsAreTrue
  <2>4. \A e \in Dispatches : Calm(e) \/ e = d
    BY <1>2, <2>1, <2>2 DEF Calm, NoJob
  <2>5. r \in Latch!Records /\ r.submission = "waiting"
    BY DEF Latch!Records
  <2> HIDE DEF r
  <2>6. /\ k \in Latch!Calls /\ k.at = "save" /\ k.tool = "start" /\ k.d = d /\ k.mine = r
    BY <1>1, <2>5 DEF Latch!Calls
  <2> HIDE DEF k
  <2>7. OnlyMoves(c) /\ caller'[c] = k
    BY <1>1, <2>1, <2>6 DEF OnlyMoves
  <2>8. CallIsSound(caller[c])'
    BY <1>1, <2>5, <2>6, <2>7 DEF CallIsSound, ReachesFor, StartsFresh, SubmitsWhole,
       Latch!Reaching, Latch!Submitting
  <2> QED
    BY <1>1, <1>2, <2>1, <2>2, <2>3, <2>4, <2>6, <2>7, <2>8, JobsTurn DEF Latch!LatchTypeOK
<1> QED
  BY <1>3, <1>4

-----------------------------------------------------------------------------
(* Daemons and processes by themselves. *)

\* A step without a caller keeps the invariant if it keeps what the calls have seen.
LEMMA NobodyMoves ==
  ASSUME DispatchInv, caller' = caller, UNCHANGED Latch!dispatchVars, Latch!LatchTypeOK',
         JobsAreTrue', WorldStays,
         \A d \in Dispatches : Calm(d)
  PROVE  DispatchInv'
<1>1. ASSUME NEW c \in Callers
      PROVE  CallIsSound(caller[c])'
  <2>1. CallIsSound(caller[c]) /\ Latch!LatchTypeOK /\ caller'[c] = caller[c]
    BY DEF DispatchInv, CallsAreSound
  <2>2. caller[c].tool = "start" /\ caller[c].at # "idle" => Calm(caller[c].d)
    BY <2>1 DEF CallIsSound, ReachesFor
  <2> QED
    BY <2>1, <2>2, CallStays
<1>2. StartsAlone' /\ RecordsAreTrue'
  BY DEF DispatchInv, StartsAlone, RecordsAreTrue, Latch!dispatchVars, WorldStays
<1> QED
  BY <1>1, <1>2 DEF DispatchInv, CallsAreSound

\* A daemon on its way up.
LEMMA DaemonKeeps ==
  ASSUME DispatchInv, NEW m \in Daemons, Latch!DaemonStep(m)
  PROVE  DispatchInv'
<1>1. /\ caller' = caller /\ UNCHANGED Latch!dispatchVars /\ UNCHANGED Latch!jobVars
      /\ Latch!LatchTypeOK /\ JobsAreTrue
      /\ \A n \in Daemons : daemon[n] = "dead" => daemon'[n] = "dead"
  BY DEF DispatchInv, Latch!LatchTypeOK, Latch!DaemonStep, Latch!UnlinkSocket, Latch!Bind,
     Latch!BeginInfo, Latch!EndInfo
<1>2. Latch!LatchTypeOK'
  BY <1>1 DEF Latch!LatchTypeOK, Latch!DaemonStep, Latch!UnlinkSocket, Latch!Bind, Latch!BeginInfo,
     Latch!EndInfo, Latch!jobVars, Latch!dispatchVars
<1>3. JobsAreTrue' /\ WorldStays /\ \A d \in Dispatches : Calm(d)
  BY <1>1 DEF Over, Left, JobsAreTrue, NoJob, WorldStays, Calm, Latch!jobVars, Latch!dispatchVars
<1> QED
  BY <1>1, <1>2, <1>3, NobodyMoves

\* A daemon dies, its processes perhaps with it: they are of jobs nobody else knows.
LEMMA CrashKeeps ==
  ASSUME DispatchInv, NEW m \in Daemons, Latch!Crash(m)
  PROVE  DispatchInv'
<1>1. /\ caller' = caller /\ UNCHANGED Latch!dispatchVars /\ Latch!LatchTypeOK /\ JobsAreTrue
      /\ jobs' = jobs /\ result' = result /\ sock' = sock /\ info' = info
      /\ daemon' = [daemon EXCEPT ![m] = "dead"]
  BY DEF DispatchInv, Latch!Crash
<1>2. /\ proc' \in [Dispatches -> {"none", "running", "ok", "failed"}]
      /\ \A d \in Dispatches :
           \/ proc'[d] = proc[d]
           \/ jobs[m][d] = "running" /\ proc[d] = "running" /\ proc'[d] = "failed"
  BY <1>1 DEF Latch!LatchTypeOK, Latch!Crash
<1>3. Latch!LatchTypeOK'
  BY <1>1, <1>2 DEF Latch!LatchTypeOK, Latch!dispatchVars
<1>4. WorldStays /\ \A d \in Dispatches : Calm(d)
  BY <1>1, <1>2 DEF Over, Left, WorldStays, Calm, NoJob, Latch!dispatchVars
<1>5. JobsAreTrue'
  <2>1. ASSUME NEW d \in Dispatches
        PROVE  /\ proc'[d] = "none" => NoJob(d)'
               /\ proc'[d] = "ok" => result'[d] \in Latch!Whole
    BY <1>1, <1>2 DEF JobsAreTrue, NoJob
  <2>2. ASSUME NEW d \in Dispatches, NEW n \in Daemons
        PROVE  /\ jobs'[n][d] = "completed" => result'[d] \in Latch!Whole
               /\ jobs'[n][d] = "failed" => proc'[d] = "failed"
    <3>1. CASE n = m
      BY <1>1, <1>2, <3>1 DEF JobsAreTrue, Latch!LatchTypeOK
    <3>2. CASE n # m
      BY <1>1, <1>2, <3>2 DEF JobsAreTrue, Latch!LatchTypeOK
    <3> QED
      BY <3>1, <3>2
  <2>3. \A d \in Dispatches, n, o \in Daemons :
          jobs'[n][d] # "unknown" /\ jobs'[o][d] # "unknown" => n = o
    BY <1>1 DEF JobsAreTrue
  <2> QED
    BY <2>1, <2>2, <2>3 DEF JobsAreTrue
<1> QED
  BY <1>1, <1>3, <1>4, <1>5, NobodyMoves

\* The process of a dispatch writes its result and exits.
LEMMA ProcessKeeps ==
  ASSUME DispatchInv, NEW d \in Dispatches,
         Latch!Exit(d) \/ \E outcome \in Latch!Whole \cup {"torn"} : Latch!WriteResult(d, outcome)
  PROVE  DispatchInv'
<1>1. /\ caller' = caller /\ UNCHANGED Latch!dispatchVars /\ UNCHANGED Latch!daemonVars
      /\ Latch!LatchTypeOK /\ JobsAreTrue
      /\ jobs' = jobs /\ proc[d] = "running"
  BY DEF DispatchInv, Latch!Exit, Latch!WriteResult
<1>2. /\ proc' \in [Dispatches -> {"none", "running", "ok", "failed"}]
      /\ result' \in [Dispatches -> {"absent", "torn"} \cup Latch!Whole]
      /\ \A e \in Dispatches \ {d} : proc'[e] = proc[e] /\ result'[e] = result[e]
      /\ \/ result'[d] = result[d] /\ proc'[d] = "ok" /\ result[d] \in Latch!Whole
         \/ result'[d] = result[d] /\ proc'[d] = "failed"
         \/ result[d] \notin Latch!Whole /\ proc'[d] = "running" /\ result'[d] # "absent"
  BY <1>1 DEF Latch!LatchTypeOK, Latch!Exit, Latch!WriteResult, Latch!Whole
<1>3. Latch!LatchTypeOK'
  BY <1>1, <1>2 DEF Latch!LatchTypeOK, Latch!dispatchVars, Latch!daemonVars
<1>4. WorldStays /\ \A e \in Dispatches : Calm(e)
  BY <1>1, <1>2 DEF Over, Left, WorldStays, Calm, NoJob, Latch!dispatchVars
<1>5. JobsAreTrue'
  <2>1. ASSUME NEW e \in Dispatches
        PROVE  /\ proc'[e] = "none" => NoJob(e)'
               /\ proc'[e] = "ok" => result'[e] \in Latch!Whole
               /\ \A n, o \in Daemons : jobs'[n][e] # "unknown" /\ jobs'[o][e] # "unknown" => n = o
    BY <1>1, <1>2 DEF JobsAreTrue, NoJob
  <2>2. ASSUME NEW e \in Dispatches, NEW n \in Daemons
        PROVE  /\ jobs'[n][e] = "completed" => result'[e] \in Latch!Whole
               /\ jobs'[n][e] = "failed" => proc'[e] = "failed"
    BY <1>1, <1>2 DEF JobsAreTrue, Latch!daemonVars
  <2> QED
    BY <2>1, <2>2 DEF JobsAreTrue
<1> QED
  BY <1>1, <1>3, <1>4, <1>5, NobodyMoves

-----------------------------------------------------------------------------
(* The whole. *)

\* No daemon, no call, no file.
LEMMA DispatchInitInv == Latch!Init => DispatchInv
<1> SUFFICES ASSUME Latch!Init PROVE DispatchInv
  OBVIOUS
<1>1. Latch!Idle \in Latch!Calls /\ Latch!NoRecord \in Latch!Records
      /\ Latch!NoRow \in [archive : Latch!Archives]
  BY DEF Latch!Idle, Latch!Calls, Latch!NoRecord, Latch!Records, Latch!Jobs, Latch!Archives,
     Latch!NoRow
<1>2. Latch!LatchTypeOK
  BY <1>1 DEF Latch!Init, Latch!LatchTypeOK, Latch!Jobs, Latch!Archives
<1>3. JobsAreTrue
  BY DEF Latch!Init, JobsAreTrue, NoJob
<1>4. CallsAreSound
  BY DEF Latch!Init, CallsAreSound, CallIsSound, ReachesFor, StartsFresh, SubmitsWhole, Latch!Idle,
     Latch!NoRecord, Latch!Reaching, Latch!Submitting
<1>5. StartsAlone
  BY DEF Latch!Init, StartsAlone, Latch!Idle
<1>6. RecordsAreTrue
  BY DEF Latch!Init, RecordsAreTrue, Latch!NoRecord
<1> QED
  BY <1>2, <1>3, <1>4, <1>5, <1>6 DEF DispatchInv

\* Every step of callers, daemons and processes keeps the invariant.
LEMMA DispatchStepInv == DispatchInv /\ [Latch!Next]_Latch!vars => DispatchInv'
<1> SUFFICES ASSUME DispatchInv, [Latch!Next]_Latch!vars PROVE DispatchInv'
  OBVIOUS
<1>1. CASE UNCHANGED Latch!vars
  BY <1>1 DEF Over, Left, Latch!vars, DispatchInv, Latch!LatchTypeOK, JobsAreTrue, NoJob, CallsAreSound,
     CallIsSound, ReachesFor, StartsFresh, SubmitsWhole, StartsAlone, RecordsAreTrue
<1>2. ASSUME NEW c \in Callers, Latch!CallerStep(c)
      PROVE  DispatchInv'
  BY <1>2, WayKeeps, ConnectKeeps, SpawnDaemonKeeps, FallbackKeeps, AnswerKeeps, UploadKeeps,
     ArchiveKeeps, InsertRowKeeps, TruncateKeeps, WriteRecordKeeps DEF Latch!CallerStep
<1>3. ASSUME NEW c \in Callers, Latch!Serve(c)
      PROVE  DispatchInv'
  BY <1>3, StatusKeeps, StartKeeps, ProgressKeeps, CancelKeeps DEF Latch!Serve
<1>4. ASSUME NEW c \in Callers, Latch!CloudFails(c)
      PROVE  DispatchInv'
  BY <1>4, AnswerKeeps
<1> QED
  BY <1>1, <1>2, <1>3, <1>4, CallKeeps, DaemonKeeps, CrashKeeps, ProcessKeeps DEF Latch!Next

\* So it always holds.
LEMMA DispatchInvariance == Latch!Spec => []DispatchInv
  BY DispatchInitInv, DispatchStepInv, PTL DEF Latch!Spec

\* Daemons, jobs, files, rows and calls keep their types, whoever dies or fails.
THEOREM LatchTypeCorrect == Latch!Spec => []Latch!LatchTypeOK
<1>1. DispatchInv => Latch!LatchTypeOK
  BY DEF DispatchInv
<1> QED
  BY <1>1, DispatchInvariance, PTL

\* What is said of a submission is true, however many clients refresh a dispatch side by
\* side: a record that says completed has its row at the Cloud, and a row is of a run whose
\* result is whole, or torn by a process that has failed (dispatch_submission_lifecycle).
THEOREM SubmissionsAreTrue == Latch!Spec => []SubmissionIsTrue
<1>1. DispatchInv => SubmissionIsTrue
  <2> SUFFICES ASSUME DispatchInv PROVE SubmissionIsTrue
    OBVIOUS
  <2>1. Latch!SubmittedRunIsOver
    BY DEF Over, Left, DispatchInv, RecordsAreTrue, Latch!LatchTypeOK, Latch!SubmittedRunIsOver
  <2>2. ASSUME NEW c \in Callers, caller[c].mine.submission = "completed"
        PROVE  cloud[caller[c].d] # Latch!NoRow
    BY <2>2 DEF DispatchInv, CallsAreSound, CallIsSound, ReachesFor, SubmitsWhole, Latch!NoRecord
  <2>3. Latch!CompletedIsRegistered
    BY <2>2 DEF DispatchInv, RecordsAreTrue, Latch!CompletedIsRegistered
  <2> QED
    BY <2>1, <2>3 DEF SubmissionIsTrue, Latch!SubmissionIsTrue
<1> QED
  BY <1>1, DispatchInvariance, PTL
=============================================================================
