-------------------------- MODULE DockerCoordinator --------------------------
(***************************************************************************)
(* The process-wide DockerCoordinator (backend/docker.rs): threads that    *)
(* need images and containers share one daemon.                            *)
(*                                                                         *)
(* ensure_image is single-flight for each image: a map gives every image a *)
(* mutex, and the last user of the mutex takes it out of the map again.  A *)
(* pull also needs a permit of a counting semaphore.  The mutex is an Arc, *)
(* which a caller drops only after it has unlocked it; whether an Arc is   *)
(* the last one is decided by its reference count.                         *)
(*                                                                         *)
(* The daemon answers, is slow or fails (external).  MaxCalls bounds the   *)
(* calls of each thread.                                                   *)
(***************************************************************************)
EXTENDS Integers, FiniteSets, FiniteSetsExt

CONSTANTS
  Threads,
  Refs,        \* image references
  Platforms,
  MaxPulls,    \* BUCEPHALUS_DOCKER_MAX_IMAGE_PULLS
  MaxCalls

ASSUME MaxPullsAssumption == MaxPulls \in Nat \ {0}
ASSUME MaxCallsAssumption == MaxCalls \in Nat
ASSUME RefsAssumption == IsFiniteSet(Refs) /\ IsFiniteSet(Platforms)

\* ImageKey: a reference and the platform it is wanted for.
Images == Refs \X Platforms

VARIABLES
  image_locks,  \* the map, 0 for no entry; a mutex is known by its number
  owner,        \* who has locked each mutex
  arc,          \* the mutex a thread has an Arc of, or 0
  pc, calls,
  wants,        \* the image of the last call
  pulls,        \* image_pull_limiter.state
  local,        \* the references the daemon has an image for
  result        \* of the last call

vars == <<image_locks, owner, arc, pc, wants, calls, pulls, local, result>>

\* More than are ever alive: one per thread, one per image.
Locks == 1 .. (Cardinality(Threads) + Cardinality(Images))

Nobody == "nobody"

\* The threads of a process; none of them is the value for no thread.
ASSUME ThreadsAssumption == IsFiniteSet(Threads) /\ Nobody \notin Threads

PCs == {"idle", "lock", "inspect", "acquire", "sleep", "pull", "reinspect", "release",
        "cleanup", "unlock", "drop"}

\* Every variable has a value of its type.
CoordinatorTypeOK ==
  /\ image_locks \in [Images -> Locks \cup {0}]
  /\ owner \in [Locks -> Threads \cup {Nobody}]
  /\ arc \in [Threads -> Locks \cup {0}]
  /\ pc \in [Threads -> PCs]
  /\ wants \in [Threads -> Images]
  /\ calls \in [Threads -> 0 .. MaxCalls]
  /\ pulls \in 0 .. MaxPulls
  /\ local \subseteq Refs
  /\ result \in [Threads -> {"none", "ok", "err"}]

Init ==
  /\ image_locks = [i \in Images |-> 0]
  /\ owner = [l \in Locks |-> Nobody]
  /\ arc = [t \in Threads |-> 0]
  /\ pc = [t \in Threads |-> "idle"]
  /\ wants = [t \in Threads |-> CHOOSE i \in Images : TRUE]
  /\ calls = [t \in Threads |-> 0]
  /\ pulls = 0
  /\ local \in SUBSET Refs
  /\ result = [t \in Threads |-> "none"]

At(t, here) == pc[t] = here
GoTo(t, there) == pc' = [pc EXCEPT ![t] = there]

\* Arc::strong_count.
strong_count(l) ==
  Cardinality({t \in Threads : arc[t] = l}) + Cardinality({i \in Images : image_locks[i] = l})

NewLock == Min({l \in Locks : strong_count(l) = 0})

-----------------------------------------------------------------------------
\* image_lock: the entry of the map, made if there is none, and one Arc more.
image_lock(t) ==
  /\ At(t, "idle") /\ calls[t] < MaxCalls
  /\ calls' = [calls EXCEPT ![t] = @ + 1]
  /\ \E i \in Images :
       LET l == IF image_locks[i] = 0 THEN NewLock ELSE image_locks[i] IN
       /\ wants' = [wants EXCEPT ![t] = i]
       /\ image_locks' = [image_locks EXCEPT ![i] = l]
       /\ arc' = [arc EXCEPT ![t] = l]
  /\ GoTo(t, "lock")
  /\ UNCHANGED <<owner, pulls, local, result>>

\* lock.lock().
Lock(t) ==
  /\ At(t, "lock") /\ owner[arc[t]] = Nobody
  /\ owner' = [owner EXCEPT ![arc[t]] = t]
  /\ GoTo(t, "inspect")
  /\ UNCHANGED <<image_locks, arc, wants, calls, pulls, local, result>>

Ends(t, r, there) == result' = [result EXCEPT ![t] = r] /\ GoTo(t, there)

\* There is an image of that reference, for whichever platform, or there is none,
\* or the daemon cannot say.
Inspect(t) ==
  /\ At(t, "inspect")
  /\ \/ wants[t][1] \in local /\ Ends(t, "ok", "cleanup")
     \/ wants[t][1] \notin local /\ GoTo(t, "acquire") /\ UNCHANGED result
     \/ Ends(t, "err", "cleanup")
  /\ UNCHANGED <<image_locks, owner, arc, wants, calls, pulls, local>>

\* CountingSemaphore::acquire.
acquire(t) ==
  /\ At(t, "acquire")
  /\ IF pulls < MaxPulls THEN GoTo(t, "pull") /\ pulls' = pulls + 1
     ELSE GoTo(t, "sleep") /\ UNCHANGED pulls
  /\ UNCHANGED <<image_locks, owner, arc, wants, calls, local, result>>

\* A wait may return for no reason.
SpuriousWakeup(t) ==
  /\ At(t, "sleep")
  /\ GoTo(t, "acquire")
  /\ UNCHANGED <<image_locks, owner, arc, wants, calls, pulls, local, result>>

Pull(t) ==
  /\ At(t, "pull")
  /\ \/ local' = local \cup {wants[t][1]} /\ GoTo(t, "reinspect") /\ UNCHANGED result
     \/ local' \in {local, local \cup {wants[t][1]}} /\ Ends(t, "err", "release")
  /\ UNCHANGED <<image_locks, owner, arc, wants, calls, pulls>>

Reinspect(t) ==
  /\ At(t, "reinspect")
  /\ \/ wants[t][1] \in local /\ Ends(t, "ok", "release")
     \/ Ends(t, "err", "release")
  /\ UNCHANGED <<image_locks, owner, arc, wants, calls, pulls, local>>

\* Mutant: nobody is told.
releaseSilently(t) ==
  /\ At(t, "release")
  /\ pulls' = pulls - 1
  /\ GoTo(t, "cleanup")
  /\ UNCHANGED <<image_locks, owner, arc, wants, calls, local, result>>

\* CountingSemaphorePermit::drop: one sleeper is notified, if there is one.
release(t) ==
  /\ At(t, "release")
  /\ pulls' = pulls - 1
  /\ LET sleepers == {u \in Threads : pc[u] = "sleep"} IN
     IF sleepers = {} THEN GoTo(t, "cleanup")
     ELSE \E u \in sleepers : pc' = [pc EXCEPT ![t] = "cleanup", ![u] = "acquire"]
  /\ UNCHANGED <<image_locks, owner, arc, wants, calls, local, result>>

\* Mutant: the entry goes whoever else may hold the Arc.
cleanup_image_lockAlways(t) ==
  /\ At(t, "cleanup")
  /\ image_locks' = [image_locks EXCEPT ![wants[t]] = IF @ = arc[t] THEN 0 ELSE @]
  /\ GoTo(t, "unlock")
  /\ UNCHANGED <<owner, arc, wants, calls, pulls, local, result>>

\* cleanup_image_lock: the entry goes if it is this mutex, and the map and this
\* thread are the only ones to hold it.  The mutex is still locked.
cleanup_image_lock(t) ==
  /\ At(t, "cleanup")
  /\ image_locks' = [image_locks EXCEPT ![wants[t]] =
                       IF @ = arc[t] /\ strong_count(arc[t]) = 2 THEN 0 ELSE @]
  /\ GoTo(t, "unlock")
  /\ UNCHANGED <<owner, arc, wants, calls, pulls, local, result>>

\* The guard is dropped, then the Arc: the caller returns.
Unlock(t) ==
  /\ At(t, "unlock")
  /\ owner' = [owner EXCEPT ![arc[t]] = Nobody]
  /\ GoTo(t, "drop")
  /\ UNCHANGED <<image_locks, arc, wants, calls, pulls, local, result>>

DropArc(t) ==
  /\ At(t, "drop")
  /\ arc' = [arc EXCEPT ![t] = 0]
  /\ GoTo(t, "idle")
  /\ UNCHANGED <<image_locks, owner, wants, calls, pulls, local, result>>

\* Somebody else removes an image from the daemon.
ImageRemoved ==
  /\ \E i \in local : local' = local \ {i}
  /\ UNCHANGED <<image_locks, owner, arc, pc, wants, calls, pulls, result>>

Step(t) == Lock(t) \/ Inspect(t) \/ acquire(t) \/ Pull(t) \/ Reinspect(t) \/ release(t)
           \/ cleanup_image_lock(t) \/ Unlock(t) \/ DropArc(t)

Next ==
  \/ \E t \in Threads : image_lock(t) \/ Step(t) \/ SpuriousWakeup(t)
  \/ ImageRemoved

\* A thread inside a call runs on.  A mutex or a permit that is free again and
\* again is had at last.
Fairness == \A t \in Threads : SF_vars(Step(t))

Spec == Init /\ [][Next]_vars /\ Fairness

-----------------------------------------------------------------------------
AtWork == {"inspect", "acquire", "sleep", "pull", "reinspect", "release"}

\* At most one thread is at work on an image: the one that had the mutex from the
\* map and one that made a new mutex for it never overlap (cleanup_image_lock).
SingleFlight ==
  \A t, u \in Threads :
    t # u /\ pc[t] \in AtWork /\ pc[u] \in AtWork => wants[t] # wants[u]

\* No more pulls run than the limit, and the count is exact (CountingSemaphore).
PullsAreCounted ==
  pulls = Cardinality({t \in Threads : pc[t] \in {"pull", "reinspect", "release"}})

\* No call is under way (what ThreadsFinish of MCRunnerThreads waits for).
AllReturned == \A t \in Threads : pc[t] = "idle"

-----------------------------------------------------------------------------
\* tests.rs: "unused image locks should not accumulate in the global Docker
\* coordinator".  When no call is under way the map is empty.
UnusedLocksAreGone ==
  AllReturned => \A i \in Images : image_locks[i] = 0
=============================================================================
