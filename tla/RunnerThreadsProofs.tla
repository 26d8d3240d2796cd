------------------------- MODULE RunnerThreadsProofs -------------------------
(***************************************************************************)
(* Proofs about the parts of a runner that work beside its engine, each    *)
(* from an inductive invariant of its own.                                 *)
(***************************************************************************)
EXTENDS MCRunnerThreads, FiniteSetTheorems, WellFoundedInduction, TLAPS

-----------------------------------------------------------------------------
(* The coordinator.                                                        *)

\* The types a step needs.
CoordinatorTypes ==
  /\ image_locks \in [Images -> Locks \cup {0}]
  /\ owner \in [Locks -> Threads \cup {Nobody}]
  /\ arc \in [Threads -> Locks \cup {0}]
  /\ pc \in [Threads -> PCs]
  /\ DOMAIN wants = Threads
  /\ pulls \in Nat
  /\ \A t \in Threads : pc[t] # "idle" => wants[t] \in Images

\* Where a thread has the mutex.
Locked == AtWork \cup {"cleanup", "unlock"}

\* A thread holds an Arc while it is in a call, and who has locked a mutex has its Arc and is
\* where the code holds the guard.
ArcsAreHeld ==
  /\ \A t \in Threads : arc[t] = 0 <=> pc[t] = "idle"
  /\ \A t \in Threads : pc[t] \in Locked => owner[arc[t]] = t
  /\ \A t \in Threads, l \in Locks : owner[l] = t => pc[t] \in Locked /\ arc[t] = l

\* A mutex is of one image.
MutexIsOfOneImage ==
  /\ \A i, j \in Images : image_locks[i] = image_locks[j] => image_locks[i] = 0 \/ i = j
  /\ \A t \in Threads, i \in Images : arc[t] # 0 /\ image_locks[i] = arc[t] => wants[t] = i

\* Until its own cleanup, the mutex a thread has is the one in the map.
EntryIsKept ==
  \A t \in Threads : pc[t] \in {"lock", "cleanup"} \cup AtWork => image_locks[wants[t]] = arc[t]

PermitsAreCounted == PullsAreCounted /\ pulls <= MaxPulls

CoordinatorInv ==
  /\ CoordinatorTypes /\ ArcsAreHeld /\ MutexIsOfOneImage /\ EntryIsKept /\ PermitsAreCounted

-----------------------------------------------------------------------------
\* The images a run names are finitely many.
LEMMA ImagesAreFinite == IsFiniteSet(Images)
  BY RefsAssumption, FS_Product DEF Images

LEMMA LocksAreFinite ==
  /\ Cardinality(Threads) \in Nat /\ Cardinality(Images) \in Nat
  /\ IsFiniteSet(Locks)
  /\ Cardinality(Locks) = Cardinality(Threads) + Cardinality(Images)
  /\ Locks \subseteq Nat \ {0}
  <1>1. Cardinality(Threads) \in Nat /\ Cardinality(Images) \in Nat
    BY ThreadsAssumption, ImagesAreFinite, FS_CardinalityType
  <1> DEFINE n == Cardinality(Threads) + Cardinality(Images)
  <1>2. n \in Nat
    BY <1>1
  <1>3. Locks = 1 .. n
    BY DEF Locks
  <1> HIDE DEF n
  <1>4. IsFiniteSet(1 .. n) /\ Cardinality(1 .. n) = IF 1 > n THEN 0 ELSE n - 1 + 1
    BY <1>2, FS_Interval
  <1>5. Cardinality(1 .. n) = n
    BY <1>2, <1>4
  <1> QED
    BY <1>1, <1>2, <1>3, <1>4, <1>5 DEF n

\* The holders of a mutex are the threads with its Arc and its entries in the map.
LEMMA HoldersAreFinite ==
  ASSUME NEW l
  PROVE  /\ IsFiniteSet({t \in Threads : arc[t] = l})
         /\ IsFiniteSet({i \in Images : image_locks[i] = l})
         /\ Cardinality({t \in Threads : arc[t] = l}) \in Nat
         /\ Cardinality({i \in Images : image_locks[i] = l}) \in Nat
  <1>1. /\ IsFiniteSet({t \in Threads : arc[t] = l})
        /\ IsFiniteSet({i \in Images : image_locks[i] = l})
    BY ThreadsAssumption, ImagesAreFinite, FS_Subset
  <1> QED
    BY <1>1, FS_CardinalityType

\* A mutex nobody counts has no holder.
LEMMA UncountedIsUnheld ==
  ASSUME NEW l, strong_count(l) = 0
  PROVE  /\ \A t \in Threads : arc[t] # l
         /\ \A i \in Images : image_locks[i] # l
  <1> DEFINE T == {t \in Threads : arc[t] = l}
             I == {i \in Images : image_locks[i] = l}
  <1>1. Cardinality(T) \in Nat /\ Cardinality(I) \in Nat /\ Cardinality(T) + Cardinality(I) = 0
    BY HoldersAreFinite DEF strong_count
  <1>2. Cardinality(T) = 0 /\ Cardinality(I) = 0
    <2> HIDE DEF T, I
    <2> QED
      BY <1>1
  <1>3. IsFiniteSet(T) /\ IsFiniteSet(I)
    BY HoldersAreFinite
  <1>4. T = {} /\ I = {}
    <2> HIDE DEF T, I
    <2> QED
      BY <1>2, <1>3, FS_EmptySet
  <1> QED
    BY <1>4

\* A mutex that the map has, and a thread, and a count of two, no other thread has.
LEMMA CountOfTwo ==
  ASSUME NEW l, strong_count(l) = 2, NEW t \in Threads, arc[t] = l,
         NEW i \in Images, image_locks[i] = l
  PROVE  \A u \in Threads : arc[u] = l => u = t
  <1> SUFFICES ASSUME NEW u \in Threads, arc[u] = l, u # t PROVE FALSE
    OBVIOUS
  <1> DEFINE T == {x \in Threads : arc[x] = l}
             I == {j \in Images : image_locks[j] = l}
  <1>1. IsFiniteSet(T) /\ IsFiniteSet(I) /\ Cardinality(T) \in Nat /\ Cardinality(I) \in Nat
    BY HoldersAreFinite
  <1>2. {i} \in SUBSET I /\ Cardinality({i}) = 1
    BY FS_Singleton
  <1>3. Cardinality(I) >= 1
    <2> HIDE DEF I
    <2> QED
      BY <1>1, <1>2, FS_Subset
  <1>4. {t} \cup {u} \in SUBSET T
    OBVIOUS
  <1>5. Cardinality({t} \cup {u}) = 2
    <2>1. IsFiniteSet({t}) /\ Cardinality({t}) = 1 /\ u \notin {t}
      BY FS_Singleton
    <2>2. Cardinality({t} \cup {u}) = IF u \in {t} THEN Cardinality({t}) ELSE Cardinality({t}) + 1
      BY <2>1, FS_AddElement
    <2> QED
      BY <2>1, <2>2
  <1>6. Cardinality(T) >= 2
    <2> HIDE DEF T
    <2> QED
      BY <1>1, <1>4, <1>5, FS_Subset
  <1>7. Cardinality(T) + Cardinality(I) = 2
    BY DEF strong_count
  <1> HIDE DEF T, I
  <1> QED
    BY <1>1, <1>3, <1>6, <1>7

\* What a function takes on a finite set is no more than the set.
LEMMA ImageIsNoLarger ==
  ASSUME NEW S, IsFiniteSet(S), NEW f
  PROVE  IsFiniteSet({f[x] : x \in S}) /\ Cardinality({f[x] : x \in S}) <= Cardinality(S)
  <1> DEFINE T == {f[x] : x \in S}
             g == [x \in S |-> f[x]]
  <1>1. g \in Surjection(S, T)
    BY DEF Surjection
  <1> HIDE DEF g, T
  <1>2. IsFiniteSet(T) /\ Cardinality(T) <= Cardinality(S)
    BY <1>1, FS_Surjection
  <1> QED
    BY <1>2 DEF T

\* A set of numbers that is not empty has its Min in it.
LEMMA MinIsMember ==
  ASSUME NEW S \in SUBSET Nat, S # {}
  PROVE  Min(S) \in S
  <1>1. PICK m \in S : \A y \in S : ~(<<y, m>> \in OpToRel(<, Nat))
    BY NatLessThanWellFounded, WFMin
  <1>2. \A y \in S : m <= y
    <2> SUFFICES ASSUME NEW y \in S PROVE m <= y
      OBVIOUS
    <2>1. y \in Nat /\ m \in Nat
      OBVIOUS
    <2>2. ~(<<y, m>> \in OpToRel(<, Nat))
      BY <1>1
    <2>3. ~(y < m)
      BY <2>1, <2>2, Zenon DEF OpToRel
    <2> QED
      BY <2>1, <2>3
  <1> QED
    BY <1>2 DEF Min

\* A thread that has no Arc finds a mutex that nobody has: there are more than all the other
\* threads and the map can have.
LEMMA NewLockIsNew ==
  ASSUME CoordinatorTypes, NEW t \in Threads, arc[t] = 0
  PROVE  /\ NewLock \in Locks
         /\ \A u \in Threads : arc[u] # NewLock
         /\ \A i \in Images : image_locks[i] # NewLock
  <1> DEFINE Free == {l \in Locks : strong_count(l) = 0}
             R == Threads \ {t}
             A == {arc[u] : u \in R}
             B == {image_locks[i] : i \in Images}
  <1>1. IsFiniteSet(R) /\ Cardinality(R) = Cardinality(Threads) - 1
    BY ThreadsAssumption, FS_RemoveElement
  <1>2. IsFiniteSet(A) /\ Cardinality(A) <= Cardinality(R)
    <2> HIDE DEF R
    <2> QED
      BY <1>1, ImageIsNoLarger
  <1>3. IsFiniteSet(B) /\ Cardinality(B) <= Cardinality(Images)
    BY ImagesAreFinite, ImageIsNoLarger
  <1>4. /\ IsFiniteSet(A \cup B)
        /\ Cardinality(A \cup B) = Cardinality(A) + Cardinality(B) - Cardinality(A \cap B)
    <2> HIDE DEF A, B
    <2> QED
      BY <1>2, <1>3, FS_Union
  <1>5. Cardinality(A) \in Nat /\ Cardinality(B) \in Nat /\ Cardinality(A \cap B) \in Nat
    <2> HIDE DEF A, B
    <2> QED
      BY <1>2, <1>3, FS_CardinalityType, FS_Intersection
  <1>6. Cardinality(A \cup B) < Cardinality(Locks)
    <2> HIDE DEF A, B, R
    <2> QED
      BY <1>1, <1>2, <1>3, <1>4, <1>5, LocksAreFinite
  <1>7. PICK l \in Locks : l \notin A \cup B
    <2> SUFFICES ASSUME Locks \in SUBSET (A \cup B) PROVE FALSE
      OBVIOUS
    <2> HIDE DEF A, B
    <2>1. Cardinality(Locks) <= Cardinality(A \cup B)
      BY <1>4, FS_Subset
    <2>2. Cardinality(A \cup B) \in Nat
      BY <1>4, FS_CardinalityType
    <2> QED
      BY <1>6, <2>1, <2>2, LocksAreFinite
  <1>8. l # 0
    BY LocksAreFinite
  <1>9. {u \in Threads : arc[u] = l} = {} /\ {i \in Images : image_locks[i] = l} = {}
    BY <1>7, <1>8
  <1>10. strong_count(l) = 0
    BY <1>9, FS_EmptySet DEF strong_count
  <1>11. Free \in SUBSET Nat /\ Free # {}
    BY <1>10, LocksAreFinite
  <1>12. Min(Free) \in Free
    <2> HIDE DEF Free
    <2> QED
      BY <1>11, MinIsMember
  <1>13. NewLock = Min(Free)
    BY DEF NewLock
  <1>14. NewLock \in Locks /\ strong_count(NewLock) = 0
    <2> HIDE DEF NewLock
    <2> QED
      BY <1>12, <1>13
  <1> HIDE DEF NewLock
  <1> QED
    BY <1>14, UncountedIsUnheld

-----------------------------------------------------------------------------
\* A run begins with no call under way.
LEMMA CoordinatorBegins == Init => CoordinatorInv
  <1> SUFFICES ASSUME Init PROVE CoordinatorInv
    OBVIOUS
  <1>1. 0 \notin Locks
    BY LocksAreFinite
  <1>2. {t \in Threads : pc[t] \in {"pull", "reinspect", "release"}} = {}
    BY DEF Init
  <1>3. PermitsAreCounted
    BY <1>2, FS_EmptySet, MaxPullsAssumption DEF Init, PermitsAreCounted, PullsAreCounted
  <1>4. CoordinatorTypes
    BY DEF Init, CoordinatorTypes, PCs
  <1>5. ArcsAreHeld
    BY <1>1, ThreadsAssumption DEF Init, ArcsAreHeld, Locked, AtWork
  <1>6. MutexIsOfOneImage
    BY DEF Init, MutexIsOfOneImage
  <1>7. EntryIsKept
    BY DEF Init, EntryIsKept, AtWork
  <1> QED
    BY <1>3, <1>4, <1>5, <1>6, <1>7 DEF CoordinatorInv

\* Where a permit is held.
Permitted == {"pull", "reinspect", "release"}

\* A step of one thread that neither takes nor gives back a permit, and wakes none that
\* sleeps, changes no count.
LEMMA CountIsKept ==
  ASSUME PermitsAreCounted, pulls' = pulls,
         \A u \in Threads : pc[u] \in Permitted <=> pc'[u] \in Permitted
  PROVE  PermitsAreCounted'
  <1>1. {t \in Threads : pc'[t] \in Permitted} = {t \in Threads : pc[t] \in Permitted}
    OBVIOUS
  <1> QED
    BY <1>1 DEF PermitsAreCounted, PullsAreCounted, Permitted

\* A permit more, for a thread that had none.
LEMMA PermitIsTaken ==
  ASSUME PermitsAreCounted, pulls \in Nat, pulls < MaxPulls, pulls' = pulls + 1, NEW t \in Threads,
         pc[t] \notin Permitted, pc'[t] \in Permitted,
         \A u \in Threads : u # t => pc'[u] = pc[u]
  PROVE  PermitsAreCounted'
  <1> DEFINE P == {u \in Threads : pc[u] \in Permitted}
             Q == {u \in Threads : pc'[u] \in Permitted}
  <1>1. Q = P \cup {t} /\ t \notin P
    OBVIOUS
  <1>2. IsFiniteSet(P)
    BY ThreadsAssumption, FS_Subset
  <1>3. pulls = Cardinality(P)
    BY DEF PermitsAreCounted, PullsAreCounted, Permitted
  <1>4. Cardinality(Q) = Cardinality(P) + 1
    <2> HIDE DEF P, Q
    <2> QED
      BY <1>1, <1>2, FS_AddElement
  <1>5. pulls' = Cardinality(Q) /\ pulls' <= MaxPulls
    <2> HIDE DEF P, Q
    <2> QED
      BY <1>3, <1>4, MaxPullsAssumption
  <1> QED
    BY <1>5 DEF PermitsAreCounted, PullsAreCounted, Permitted

\* A permit less, from the thread that had it; a sleeper that is told has none.
LEMMA PermitIsGiven ==
  ASSUME PermitsAreCounted, pulls \in Nat, pulls' = pulls - 1, NEW t \in Threads,
         pc[t] \in Permitted, pc'[t] \notin Permitted,
         \A u \in Threads : u # t => (pc'[u] \in Permitted <=> pc[u] \in Permitted)
  PROVE  PermitsAreCounted' /\ pulls' \in Nat
  <1> DEFINE P == {u \in Threads : pc[u] \in Permitted}
             Q == {u \in Threads : pc'[u] \in Permitted}
  <1>1. Q = P \ {t} /\ t \in P
    OBVIOUS
  <1>2. IsFiniteSet(P)
    BY ThreadsAssumption, FS_Subset
  <1>3. pulls = Cardinality(P)
    BY DEF PermitsAreCounted, PullsAreCounted, Permitted
  <1>4. Cardinality(Q) = Cardinality(P) - 1 /\ IsFiniteSet(Q)
    <2> HIDE DEF P, Q
    <2> QED
      BY <1>1, <1>2, FS_RemoveElement
  <1>5. Cardinality(Q) \in Nat
    <2> HIDE DEF P, Q
    <2> QED
      BY <1>4, FS_CardinalityType
  <1>6. pulls' = Cardinality(Q) /\ pulls' <= MaxPulls /\ pulls' \in Nat
    <2> HIDE DEF P, Q
    <2> QED
      BY <1>3, <1>4, <1>5, MaxPullsAssumption DEF PermitsAreCounted
  <1> QED
    BY <1>6 DEF PermitsAreCounted, PullsAreCounted, Permitted

\* A step of a thread inside its call, which leaves the mutexes, the map and the Arcs alone,
\* and goes from one place where the guard is held and the entry kept to another.
LEMMA MutexIsLeft ==
  ASSUME CoordinatorInv, UNCHANGED <<image_locks, owner, arc, wants>>,
         pc' \in [Threads -> PCs], pulls' \in Nat,
         \A u \in Threads : \/ pc'[u] = pc[u]
                            \/ pc[u] \in AtWork /\ pc'[u] \in AtWork \cup {"cleanup"},
         PermitsAreCounted'
  PROVE  CoordinatorInv'
  <1>1. CoordinatorTypes'
    BY DEF CoordinatorInv, CoordinatorTypes, AtWork
  <1>2. ArcsAreHeld'
    BY DEF CoordinatorInv, ArcsAreHeld, Locked, AtWork
  <1>3. MutexIsOfOneImage'
    BY DEF CoordinatorInv, MutexIsOfOneImage
  <1>4. EntryIsKept'
    BY DEF CoordinatorInv, EntryIsKept, AtWork
  <1> QED
    BY <1>1, <1>2, <1>3, <1>4 DEF CoordinatorInv

LEMMA image_lockKeeps ==
  ASSUME CoordinatorInv, NEW t \in Threads, image_lock(t)
  PROVE  CoordinatorInv'
  <1> USE DEF CoordinatorInv
  <1>1. PICK i \in Images :
          LET l == IF image_locks[i] = 0 THEN NewLock ELSE image_locks[i] IN
          /\ wants' = [wants EXCEPT ![t] = i]
          /\ image_locks' = [image_locks EXCEPT ![i] = l]
          /\ arc' = [arc EXCEPT ![t] = l]
    BY Zenon DEF image_lock
  <1> DEFINE l == IF image_locks[i] = 0 THEN NewLock ELSE image_locks[i]
  <1>2. /\ wants' = [wants EXCEPT ![t] = i]
        /\ image_locks' = [image_locks EXCEPT ![i] = l]
        /\ arc' = [arc EXCEPT ![t] = l]
        /\ pc[t] = "idle" /\ pc' = [pc EXCEPT ![t] = "lock"]
        /\ owner' = owner /\ pulls' = pulls
    BY <1>1 DEF image_lock, At, GoTo
  <1>3. arc[t] = 0
    BY <1>2 DEF ArcsAreHeld
  <1>4. /\ NewLock \in Locks
        /\ \A u \in Threads : arc[u] # NewLock
        /\ \A j \in Images : image_locks[j] # NewLock
    BY <1>3, NewLockIsNew
  <1>5. /\ l \in Locks /\ l # 0
        /\ \A j \in Images : image_locks[j] = l => j = i
        /\ \A u \in Threads : arc[u] = l => wants[u] = i /\ image_locks[i] = l
        /\ image_locks[i] \in {0, l}
    BY <1>4, LocksAreFinite DEF CoordinatorTypes, MutexIsOfOneImage
  <1> HIDE DEF l
  <1>6. CoordinatorTypes'
    BY <1>2, <1>5 DEF CoordinatorTypes, PCs
  <1>7. ArcsAreHeld'
    <2>1. owner \in [Locks -> Threads \cup {Nobody}] /\ \A k \in Locks : owner[k] # t
      BY <1>2 DEF CoordinatorTypes, ArcsAreHeld, Locked, AtWork
    <2> QED
      BY <1>2, <1>5, <2>1 DEF ArcsAreHeld, CoordinatorTypes, Locked, AtWork
  <1>8. MutexIsOfOneImage'
    <2>1. \A j, k \in Images : image_locks'[j] = image_locks'[k] => image_locks'[j] = 0 \/ j = k
      BY <1>2, <1>5 DEF MutexIsOfOneImage, CoordinatorTypes
    <2>2. \A u \in Threads, j \in Images :
            arc'[u] # 0 /\ image_locks'[j] = arc'[u] => wants'[u] = j
      <3> SUFFICES ASSUME NEW u \in Threads, NEW j \in Images,
                          arc'[u] # 0, image_locks'[j] = arc'[u]
                   PROVE  wants'[u] = j
        OBVIOUS
      <3>1. CASE u = t
        BY <1>2, <1>5, <3>1 DEF CoordinatorTypes
      <3>2. CASE u # t
        BY <1>2, <1>5, <3>2 DEF CoordinatorTypes, MutexIsOfOneImage
      <3> QED
        BY <3>1, <3>2
    <2> QED
      BY <2>1, <2>2 DEF MutexIsOfOneImage
  <1>9. EntryIsKept'
    <2> SUFFICES ASSUME NEW u \in Threads, pc'[u] \in {"lock", "cleanup"} \cup AtWork
                 PROVE  image_locks'[wants'[u]] = arc'[u]
      BY Zenon DEF EntryIsKept
    <2>1. CASE u = t
      BY <1>2, <1>5, <2>1 DEF CoordinatorTypes
    <2>2. CASE u # t
      <3>1. pc'[u] = pc[u] /\ wants'[u] = wants[u] /\ arc'[u] = arc[u]
        BY <1>2, <2>2 DEF CoordinatorTypes
      <3>2. image_locks[wants[u]] = arc[u] /\ wants[u] \in Images /\ arc[u] # 0
        BY <3>1 DEF EntryIsKept, CoordinatorTypes, ArcsAreHeld, AtWork
      <3> QED
        BY <1>2, <1>5, <3>1, <3>2 DEF CoordinatorTypes
    <2> QED
      BY <2>1, <2>2
  <1>10. PermitsAreCounted'
    BY <1>2, CountIsKept DEF Permitted, CoordinatorTypes
  <1> QED
    BY <1>6, <1>7, <1>8, <1>9, <1>10

LEMMA LockKeeps ==
  ASSUME CoordinatorInv, NEW t \in Threads, Lock(t)
  PROVE  CoordinatorInv'
  <1> USE DEF CoordinatorInv
  <1>1. /\ pc[t] = "lock" /\ owner[arc[t]] = Nobody /\ owner' = [owner EXCEPT ![arc[t]] = t]
        /\ pc' = [pc EXCEPT ![t] = "inspect"]
        /\ UNCHANGED <<image_locks, arc, wants, pulls>>
    BY DEF Lock, At, GoTo
  <1>2. arc[t] \in Locks /\ arc[t] # 0
    BY <1>1 DEF CoordinatorTypes, ArcsAreHeld
  <1>3. CoordinatorTypes'
    BY <1>1, <1>2 DEF CoordinatorTypes, PCs
  <1>4. ArcsAreHeld'
    BY <1>1, <1>2, ThreadsAssumption DEF ArcsAreHeld, CoordinatorTypes, Locked, AtWork
  <1>5. MutexIsOfOneImage'
    BY <1>1 DEF MutexIsOfOneImage
  <1>6. EntryIsKept'
    BY <1>1 DEF EntryIsKept, CoordinatorTypes, AtWork
  <1>7. PermitsAreCounted'
    BY <1>1, CountIsKept DEF Permitted, CoordinatorTypes
  <1> QED
    BY <1>3, <1>4, <1>5, <1>6, <1>7

\* Taking the entry out leaves the others: nobody else has the Arc, so nobody else relies on it.
LEMMA cleanup_image_lockKeeps ==
  ASSUME CoordinatorInv, NEW t \in Threads, cleanup_image_lock(t)
  PROVE  CoordinatorInv'
  <1> USE DEF CoordinatorInv
  <1> DEFINE i == wants[t]
             gone == image_locks[i] = arc[t] /\ strong_count(arc[t]) = 2
  <1>1. /\ pc[t] = "cleanup" /\ pc' = [pc EXCEPT ![t] = "unlock"]
        /\ image_locks' = [image_locks EXCEPT ![i] = IF gone THEN 0 ELSE @]
        /\ UNCHANGED <<owner, arc, wants, pulls>>
    BY DEF cleanup_image_lock, At, GoTo
  <1>2. i \in Images /\ arc[t] \in Locks /\ arc[t] # 0
    BY <1>1 DEF CoordinatorTypes, ArcsAreHeld
  <1>3. gone => \A u \in Threads : arc[u] = arc[t] => u = t
    BY <1>2, CountOfTwo
  <1> HIDE DEF gone, i
  <1>4. \A j \in Images : image_locks'[j] = image_locks[j] \/ (j = i /\ gone /\ image_locks'[j] = 0)
    BY <1>1, <1>2 DEF CoordinatorTypes
  <1>5. CoordinatorTypes'
    BY <1>1, <1>2 DEF CoordinatorTypes, PCs
  <1>6. ArcsAreHeld'
    BY <1>1 DEF ArcsAreHeld, CoordinatorTypes, Locked, AtWork
  <1>7. MutexIsOfOneImage'
    BY <1>1, <1>4 DEF MutexIsOfOneImage
  <1>8. EntryIsKept'
    <2> SUFFICES ASSUME NEW u \in Threads, pc'[u] \in {"lock", "cleanup"} \cup AtWork
                 PROVE  image_locks'[wants'[u]] = arc'[u]
      BY Zenon DEF EntryIsKept
    <2>1. u # t /\ pc'[u] = pc[u]
      BY <1>1 DEF CoordinatorTypes, AtWork
    <2>2. image_locks[wants[u]] = arc[u] /\ wants[u] \in Images
      BY <2>1 DEF EntryIsKept, CoordinatorTypes, AtWork
    <2>3. gone /\ wants[u] = i => arc[u] = arc[t]
      BY <2>2 DEF gone
    <2>4. ~(gone /\ wants[u] = i)
      BY <1>3, <2>1, <2>3
    <2> QED
      BY <1>1, <1>4, <2>2, <2>4
  <1>9. PermitsAreCounted'
    BY <1>1, CountIsKept DEF Permitted, CoordinatorTypes
  <1> QED
    BY <1>5, <1>6, <1>7, <1>8, <1>9

LEMMA UnlockKeeps ==
  ASSUME CoordinatorInv, NEW t \in Threads, Unlock(t)
  PROVE  CoordinatorInv'
  <1> USE DEF CoordinatorInv
  <1>1. /\ pc[t] = "unlock" /\ owner' = [owner EXCEPT ![arc[t]] = Nobody]
        /\ pc' = [pc EXCEPT ![t] = "drop"]
        /\ UNCHANGED <<image_locks, arc, wants, pulls>>
    BY DEF Unlock, At, GoTo
  <1>2. arc[t] \in Locks /\ arc[t] # 0 /\ owner[arc[t]] = t
    BY <1>1 DEF CoordinatorTypes, ArcsAreHeld, Locked
  <1>3. CoordinatorTypes'
    BY <1>1, <1>2 DEF CoordinatorTypes, PCs
  <1>4. ArcsAreHeld'
    BY <1>1, <1>2, ThreadsAssumption DEF ArcsAreHeld, CoordinatorTypes, Locked, AtWork
  <1>5. MutexIsOfOneImage'
    BY <1>1 DEF MutexIsOfOneImage
  <1>6. EntryIsKept'
    BY <1>1 DEF EntryIsKept, CoordinatorTypes, AtWork
  <1>7. PermitsAreCounted'
    BY <1>1, CountIsKept DEF Permitted, CoordinatorTypes
  <1> QED
    BY <1>3, <1>4, <1>5, <1>6, <1>7

LEMMA DropArcKeeps ==
  ASSUME CoordinatorInv, NEW t \in Threads, DropArc(t)
  PROVE  CoordinatorInv'
  <1> USE DEF CoordinatorInv
  <1>1. /\ pc[t] = "drop" /\ arc' = [arc EXCEPT ![t] = 0]
        /\ pc' = [pc EXCEPT ![t] = "idle"]
        /\ UNCHANGED <<image_locks, owner, wants, pulls>>
    BY DEF DropArc, At, GoTo
  <1>2. CoordinatorTypes'
    BY <1>1 DEF CoordinatorTypes, PCs
  <1>3. ArcsAreHeld'
    BY <1>1 DEF ArcsAreHeld, CoordinatorTypes, Locked, AtWork
  <1>4. MutexIsOfOneImage'
    BY <1>1 DEF MutexIsOfOneImage, CoordinatorTypes
  <1>5. EntryIsKept'
    BY <1>1 DEF EntryIsKept, CoordinatorTypes, AtWork
  <1>6. PermitsAreCounted'
    BY <1>1, CountIsKept DEF Permitted, CoordinatorTypes
  <1> QED
    BY <1>2, <1>3, <1>4, <1>5, <1>6

\* The steps between the lock and the cleanup.
LEMMA WorkKeeps ==
  ASSUME CoordinatorInv, NEW t \in Threads,
         Inspect(t) \/ acquire(t) \/ SpuriousWakeup(t) \/ Pull(t) \/ Reinspect(t) \/ release(t)
  PROVE  CoordinatorInv'
  <1>0. CoordinatorTypes /\ PermitsAreCounted /\ pulls \in Nat /\ pc \in [Threads -> PCs]
    BY DEF CoordinatorInv, CoordinatorTypes
  <1>1. CASE Inspect(t)
    <2>1. /\ pc[t] = "inspect"
          /\ \/ pc' = [pc EXCEPT ![t] = "cleanup"]
             \/ pc' = [pc EXCEPT ![t] = "acquire"]
          /\ UNCHANGED <<image_locks, owner, arc, wants, pulls>>
      BY <1>1 DEF Inspect, At, GoTo, Ends
    <2>2. PermitsAreCounted'
      BY <1>0, <2>1, CountIsKept DEF Permitted
    <2> QED
      BY <1>0, <2>1, <2>2, MutexIsLeft DEF AtWork, PCs
  <1>2. CASE acquire(t)
    <2>1. /\ pc[t] = "acquire"
          /\ \/ pulls < MaxPulls /\ pc' = [pc EXCEPT ![t] = "pull"] /\ pulls' = pulls + 1
             \/ pc' = [pc EXCEPT ![t] = "sleep"] /\ pulls' = pulls
          /\ UNCHANGED <<image_locks, owner, arc, wants>>
      BY <1>2 DEF acquire, At, GoTo
    <2>2. CASE pulls < MaxPulls /\ pc' = [pc EXCEPT ![t] = "pull"] /\ pulls' = pulls + 1
      <3>1. PermitsAreCounted'
        BY <1>0, <2>1, <2>2, PermitIsTaken DEF Permitted
      <3> QED
        BY <1>0, <2>1, <2>2, <3>1, MutexIsLeft DEF AtWork, PCs
    <2>3. CASE pc' = [pc EXCEPT ![t] = "sleep"] /\ pulls' = pulls
      <3>1. PermitsAreCounted'
        BY <1>0, <2>1, <2>3, CountIsKept DEF Permitted
      <3> QED
        BY <1>0, <2>1, <2>3, <3>1, MutexIsLeft DEF AtWork, PCs
    <2> QED
      BY <2>1, <2>2, <2>3
  <1>3. CASE SpuriousWakeup(t)
    <2>1. /\ pc[t] = "sleep" /\ pc' = [pc EXCEPT ![t] = "acquire"]
          /\ UNCHANGED <<image_locks, owner, arc, wants, pulls>>
      BY <1>3 DEF SpuriousWakeup, At, GoTo
    <2>2. PermitsAreCounted'
      BY <1>0, <2>1, CountIsKept DEF Permitted
    <2> QED
      BY <1>0, <2>1, <2>2, MutexIsLeft DEF AtWork, PCs
  <1>4. CASE Pull(t)
    <2>1. /\ pc[t] = "pull"
          /\ \/ pc' = [pc EXCEPT ![t] = "reinspect"]
             \/ pc' = [pc EXCEPT ![t] = "release"]
          /\ UNCHANGED <<image_locks, owner, arc, wants, pulls>>
      BY <1>4 DEF Pull, At, GoTo, Ends
    <2>2. PermitsAreCounted'
      BY <1>0, <2>1, CountIsKept DEF Permitted
    <2> QED
      BY <1>0, <2>1, <2>2, MutexIsLeft DEF AtWork, PCs
  <1>5. CASE Reinspect(t)
    <2>1. /\ pc[t] = "reinspect" /\ pc' = [pc EXCEPT ![t] = "release"]
          /\ UNCHANGED <<image_locks, owner, arc, wants, pulls>>
      BY <1>5 DEF Reinspect, At, GoTo, Ends
    <2>2. PermitsAreCounted'
      BY <1>0, <2>1, CountIsKept DEF Permitted
    <2> QED
      BY <1>0, <2>1, <2>2, MutexIsLeft DEF AtWork, PCs
  <1>6. CASE release(t)
    <2>1. /\ pc[t] = "release" /\ pulls' = pulls - 1
          /\ \/ pc' = [pc EXCEPT ![t] = "cleanup"]
             \/ \E u \in Threads : /\ pc[u] = "sleep"
                                   /\ pc' = [pc EXCEPT ![t] = "cleanup", ![u] = "acquire"]
          /\ UNCHANGED <<image_locks, owner, arc, wants>>
      BY <1>6 DEF release, At, GoTo
    <2>2. /\ pc' \in [Threads -> PCs] /\ pc'[t] = "cleanup"
          /\ \A u \in Threads : u # t =>
               pc'[u] = pc[u] \/ (pc[u] = "sleep" /\ pc'[u] = "acquire")
      BY <1>0, <2>1 DEF PCs
    <2>3. PermitsAreCounted' /\ pulls' \in Nat
      BY <1>0, <2>1, <2>2, PermitIsGiven DEF Permitted
    <2> QED
      BY <2>1, <2>2, <2>3, MutexIsLeft DEF AtWork
  <1> QED
    BY <1>1, <1>2, <1>3, <1>4, <1>5, <1>6

LEMMA CoordinatorStep == CoordinatorInv /\ [Next]_vars => CoordinatorInv'
  <1> SUFFICES ASSUME CoordinatorInv, [Next]_vars PROVE CoordinatorInv'
    OBVIOUS
  <1>1. CASE \E t \in Threads : image_lock(t) \/ Step(t) \/ SpuriousWakeup(t)
    BY <1>1, image_lockKeeps, LockKeeps, cleanup_image_lockKeeps, UnlockKeeps, DropArcKeeps,
       WorkKeeps DEF Step
  <1>2. CASE ImageRemoved \/ UNCHANGED vars
    <2>1. UNCHANGED <<image_locks, owner, arc, pc, wants, pulls>>
      BY <1>2 DEF ImageRemoved, vars
    <2>2. PermitsAreCounted'
      BY <2>1, CountIsKept DEF CoordinatorInv
    <2> QED
      BY <2>1, <2>2, MutexIsLeft DEF CoordinatorInv, CoordinatorTypes
  <1> QED
    BY <1>1, <1>2 DEF Next

\* Two threads at work on one image have the mutex of its entry, and only one has locked it.
LEMMA CoordinatorInvSerializes == CoordinatorInv => SingleFlight /\ PullsAreCounted /\ pulls <= MaxPulls
  <1> SUFFICES ASSUME CoordinatorInv PROVE SingleFlight
    BY DEF CoordinatorInv, PermitsAreCounted
  <1> SUFFICES ASSUME NEW t \in Threads, NEW u \in Threads, t # u,
                      pc[t] \in AtWork, pc[u] \in AtWork, wants[t] = wants[u]
               PROVE  FALSE
    BY DEF SingleFlight
  <1>1. arc[t] = arc[u]
    BY DEF CoordinatorInv, EntryIsKept
  <1>2. owner[arc[t]] = t /\ owner[arc[u]] = u
    BY DEF CoordinatorInv, ArcsAreHeld, Locked
  <1> QED
    BY <1>1, <1>2

\* For any images, platforms, threads and limit: at most one thread is at work on an image for a
\* platform, and the pulls that run are the permits taken and within the limit (cleanup_image_lock,
\* CountingSemaphore).
THEOREM CoordinatorSerializesPulls == Spec => []PullsAreSerialized
  <1>1. Spec => []CoordinatorInv
    BY CoordinatorBegins, CoordinatorStep, PTL DEF Spec
  <1>2. CoordinatorInv => PullsAreSerialized
    BY CoordinatorInvSerializes DEF PullsAreSerialized
  <1> QED
    BY <1>1, <1>2, PTL

-----------------------------------------------------------------------------
(* The writer of the store.                                                *)

WriterTypes ==
  /\ queue \in Seq((Callers \X Nat) \cup {Writer!StopCommand})
  /\ store \in [Callers -> Nat] /\ DOMAIN told = Callers /\ writes \in [Callers -> Nat]
  /\ reply \in [Callers -> {"none", "ok", "err", "dropped"}]

\* A caller has one command in the channel at most, its last, and waits for it without an answer.
CommandsAreWaitedFor ==
  \A c \in Callers, i \in DOMAIN queue :
    queue[i][1] = c => /\ queue[i][2] = writes[c]
                       /\ c \in waiting /\ reply[c] = "none" /\ store[c] \in told[c]
                       /\ \A j \in DOMAIN queue : queue[j][1] = c => j = i

\* An answer tells what became of the row.
AnswersAreTrue ==
  \A c \in Callers :
    /\ c \notin waiting => reply[c] = "none" /\ store[c] \in told[c]
    /\ reply[c] = "ok" => store[c] = writes[c]
    /\ reply[c] = "err" => store[c] \in told[c] \cup {writes[c]}
    /\ reply[c] = "dropped" => store[c] \in told[c]

WriterInv == WriterTypes /\ CommandsAreWaitedFor /\ AnswersAreTrue

-----------------------------------------------------------------------------
LEMMA WriterBegins == Writer!Init => WriterInv
  BY DEF Writer!Init, WriterInv, WriterTypes, CommandsAreWaitedFor, AnswersAreTrue

\* What is sent goes to the end.
LEMMA SendKeeps ==
  ASSUME WriterInv, NEW c \in Callers, Writer!Send(c)
  PROVE  WriterInv'
  <1>1. /\ c \notin waiting /\ writes' = [writes EXCEPT ![c] = @ + 1]
        /\ UNCHANGED <<store, reply, told>>
        /\ \/ UNCHANGED <<queue, waiting>>
           \/ queue' = Append(queue, <<c, writes[c] + 1>>) /\ waiting' = waiting \cup {c}
    BY DEF Writer!Send
  <1>2. reply[c] = "none" /\ store[c] \in told[c] /\ \A i \in DOMAIN queue : queue[i][1] # c
    BY <1>1 DEF WriterInv, CommandsAreWaitedFor, AnswersAreTrue
  <1>3. writes' \in [Callers -> Nat] /\ writes'[c] = writes[c] + 1
        /\ \A d \in Callers : d # c => writes'[d] = writes[d]
    BY <1>1 DEF WriterInv, WriterTypes
  <1>4. CASE UNCHANGED <<queue, waiting>>
    BY <1>1, <1>2, <1>3, <1>4 DEF WriterInv, WriterTypes, CommandsAreWaitedFor, AnswersAreTrue
  <1>5. CASE queue' = Append(queue, <<c, writes[c] + 1>>) /\ waiting' = waiting \cup {c}
    <2> DEFINE n == Len(queue) + 1
    <2>1. /\ queue' \in Seq((Callers \X Nat) \cup {Writer!StopCommand})
          /\ DOMAIN queue' = DOMAIN queue \cup {n} /\ n \notin DOMAIN queue
          /\ queue'[n] = <<c, writes'[c]>>
          /\ \A i \in DOMAIN queue : queue'[i] = queue[i]
      BY <1>3, <1>5 DEF WriterInv, WriterTypes
    <2> HIDE DEF n
    <2>2. WriterTypes'
      BY <1>1, <1>3, <2>1 DEF WriterInv, WriterTypes
    <2>3. CommandsAreWaitedFor'
      <3> SUFFICES ASSUME NEW d \in Callers, NEW i \in DOMAIN queue', queue'[i][1] = d
                   PROVE  /\ queue'[i][2] = writes'[d]
                          /\ d \in waiting' /\ reply'[d] = "none" /\ store'[d] \in told'[d]
                          /\ \A j \in DOMAIN queue' : queue'[j][1] = d => j = i
        BY Zenon DEF CommandsAreWaitedFor
      <3>1. CASE i = n
        BY <1>1, <1>2, <1>5, <2>1, <3>1
      <3>2. CASE i \in DOMAIN queue
        <4>1. d # c
          BY <1>2, <2>1, <3>2
        <4> QED
          BY <1>1, <1>3, <1>5, <2>1, <3>2, <4>1 DEF WriterInv, CommandsAreWaitedFor
      <3> QED
        BY <2>1, <3>1, <3>2
    <2>4. AnswersAreTrue'
      BY <1>1, <1>2, <1>3, <1>5 DEF WriterInv, AnswersAreTrue
    <2> QED
      BY <2>2, <2>3, <2>4 DEF WriterInv
  <1> QED
    BY <1>1, <1>4, <1>5

LEMMA ReceiveKeeps ==
  ASSUME WriterInv, NEW c \in Callers, Writer!Receive(c)
  PROVE  WriterInv'
  <1>1. /\ c \in waiting /\ reply[c] # "none" /\ waiting' = waiting \ {c}
        /\ reply' = [reply EXCEPT ![c] = "none"]
        /\ told' = [told EXCEPT ![c] = CASE reply[c] = "ok" -> {writes[c]}
                                         [] reply[c] = "err" -> @ \cup {writes[c]}
                                         [] OTHER -> @]
        /\ UNCHANGED <<queue, store, writes>>
    BY DEF Writer!Receive
  <1>2. /\ \A i \in DOMAIN queue : queue[i][1] # c
        /\ reply[c] = "ok" => store[c] = writes[c]
        /\ reply[c] = "err" => store[c] \in told[c] \cup {writes[c]}
        /\ reply[c] \notin {"ok", "err"} => store[c] \in told[c]
    BY <1>1 DEF WriterInv, WriterTypes, CommandsAreWaitedFor, AnswersAreTrue
  <1>3. /\ reply'[c] = "none" /\ store[c] \in told'[c]
        /\ \A d \in Callers : d # c => reply'[d] = reply[d] /\ told'[d] = told[d]
    BY <1>1, <1>2 DEF WriterInv, WriterTypes
  <1>4. WriterTypes'
    BY <1>1 DEF WriterInv, WriterTypes
  <1>5. CommandsAreWaitedFor'
    BY <1>1, <1>2, <1>3 DEF WriterInv, CommandsAreWaitedFor
  <1>6. AnswersAreTrue'
    BY <1>1, <1>3 DEF WriterInv, AnswersAreTrue
  <1> QED
    BY <1>4, <1>5, <1>6 DEF WriterInv

\* The thread ends: who has a command in the channel is told that it was dropped.
LEMMA EndsKeeps ==
  ASSUME WriterInv, Writer!Ends, UNCHANGED <<store, waiting, writes, told>>
  PROVE  WriterInv'
  <1>1. /\ queue' = <<>>
        /\ \A c \in Callers : \/ reply'[c] = reply[c]
                              \/ reply'[c] = "dropped" /\ \E i \in DOMAIN queue : queue[i][1] = c
    BY DEF Writer!Ends
  <1>2. WriterTypes'
    BY DEF WriterInv, WriterTypes, Writer!Ends
  <1>3. CommandsAreWaitedFor'
    BY <1>1 DEF CommandsAreWaitedFor
  <1>4. AnswersAreTrue'
    BY <1>1 DEF WriterInv, CommandsAreWaitedFor, AnswersAreTrue
  <1> QED
    BY <1>2, <1>3, <1>4 DEF WriterInv

\* What is applied is the only command of its caller, and is answered.
LEMMA ApplyKeeps ==
  ASSUME WriterInv, Writer!Apply
  PROVE  WriterInv'
  <1> DEFINE c == Head(queue)[1]
             v == Head(queue)[2]
  <1>1. /\ queue # <<>> /\ Head(queue) # Writer!StopCommand /\ queue' = Tail(queue)
        /\ UNCHANGED <<waiting, writes, told>>
        /\ \/ store' = [store EXCEPT ![c] = v] /\ reply' = [reply EXCEPT ![c] = "ok"]
           \/ /\ store' \in {store, [store EXCEPT ![c] = v]}
              /\ reply' = [reply EXCEPT ![c] = "err"]
    BY DEF Writer!Apply
  <1>2. 1 \in DOMAIN queue /\ queue[1] = Head(queue) /\ queue[1] \in Callers \X Nat
    BY <1>1 DEF WriterInv, WriterTypes
  <1>3. c \in Callers /\ queue[1][1] = c /\ queue[1][2] = v /\ v \in Nat
    BY <1>2
  <1> HIDE DEF c, v
  <1>4. /\ v = writes[c] /\ c \in waiting /\ reply[c] = "none" /\ store[c] \in told[c]
        /\ \A j \in DOMAIN queue : queue[j][1] = c => j = 1
    BY <1>2, <1>3 DEF WriterInv, CommandsAreWaitedFor
  <1>5. /\ queue' \in Seq((Callers \X Nat) \cup {Writer!StopCommand})
        /\ \A i \in DOMAIN queue' : /\ i + 1 \in DOMAIN queue /\ i \in Nat /\ i # 0
                                    /\ queue'[i] = queue[i + 1]
    BY <1>1 DEF WriterInv, WriterTypes
  <1>6. WriterTypes'
    BY <1>1, <1>3, <1>5 DEF WriterInv, WriterTypes
  <1>7. CommandsAreWaitedFor'
    <2> SUFFICES ASSUME NEW d \in Callers, NEW i \in DOMAIN queue', queue'[i][1] = d
                 PROVE  /\ queue'[i][2] = writes'[d]
                        /\ d \in waiting' /\ reply'[d] = "none" /\ store'[d] \in told'[d]
                        /\ \A j \in DOMAIN queue' : queue'[j][1] = d => j = i
      BY Zenon DEF CommandsAreWaitedFor
    <2>1. i + 1 \in DOMAIN queue /\ queue[i + 1][1] = d /\ i + 1 # 1
      BY <1>5
    <2>2. d # c
      BY <1>4, <2>1
    <2>3. reply'[d] = reply[d] /\ store'[d] = store[d]
      BY <1>1, <2>2 DEF WriterInv, WriterTypes
    <2>4. /\ queue[i + 1][2] = writes[d]
          /\ d \in waiting /\ reply[d] = "none" /\ store[d] \in told[d]
          /\ \A j \in DOMAIN queue : queue[j][1] = d => j = i + 1
      BY <2>1 DEF WriterInv, CommandsAreWaitedFor
    <2>5. \A j \in DOMAIN queue' : queue'[j][1] = d => j = i
      BY <1>5, <2>4
    <2> QED
      BY <1>1, <1>5, <2>3, <2>4, <2>5
  <1>8. AnswersAreTrue'
    BY <1>1, <1>3, <1>4 DEF WriterInv, WriterTypes, AnswersAreTrue
  <1> QED
    BY <1>6, <1>7, <1>8 DEF WriterInv

\* The stop is nobody's command.
LEMMA DropGuardKeeps ==
  ASSUME WriterInv, Writer!DropGuard
  PROVE  WriterInv'
  <1>1. /\ UNCHANGED <<store, waiting, reply, writes, told>>
        /\ queue' = queue \/ queue' = Append(queue, Writer!StopCommand)
    BY DEF Writer!DropGuard
  <1>2. CASE queue' = queue
    BY <1>1, <1>2 DEF WriterInv, WriterTypes, CommandsAreWaitedFor, AnswersAreTrue
  <1>3. CASE queue' = Append(queue, Writer!StopCommand)
    <2> DEFINE n == Len(queue) + 1
    <2>1. /\ queue' \in Seq((Callers \X Nat) \cup {Writer!StopCommand})
          /\ DOMAIN queue' = DOMAIN queue \cup {n} /\ n \notin DOMAIN queue
          /\ queue'[n] = Writer!StopCommand
          /\ \A i \in DOMAIN queue : queue'[i] = queue[i]
      BY <1>3 DEF WriterInv, WriterTypes
    <2> HIDE DEF n
    <2>2. queue'[n][1] \notin Callers
      BY <2>1, CallersAssumption DEF Writer!StopCommand
    <2>3. WriterTypes' /\ AnswersAreTrue'
      BY <1>1, <2>1 DEF WriterInv, WriterTypes, AnswersAreTrue
    <2>4. CommandsAreWaitedFor'
      BY <1>1, <2>1, <2>2 DEF WriterInv, CommandsAreWaitedFor
    <2> QED
      BY <2>3, <2>4 DEF WriterInv
  <1> QED
    BY <1>1, <1>2, <1>3

LEMMA WriterStep == WriterInv /\ [Writer!Next]_Writer!vars => WriterInv'
  <1> SUFFICES ASSUME WriterInv, [Writer!Next]_Writer!vars PROVE WriterInv'
    OBVIOUS
  <1>1. CASE \E c \in Callers : Writer!Send(c) \/ Writer!Receive(c)
    BY <1>1, SendKeeps, ReceiveKeeps
  <1>2. CASE Writer!Ends /\ UNCHANGED <<store, waiting, writes, told>>
    BY <1>2, EndsKeeps
  <1>3. CASE Writer!Apply \/ Writer!DropGuard
    BY <1>3, ApplyKeeps, DropGuardKeeps
  <1>4. CASE UNCHANGED <<queue, store, waiting, reply, writes, told>>
    BY <1>4 DEF WriterInv, WriterTypes, CommandsAreWaitedFor, AnswersAreTrue
  <1>5. CASE Writer!OpenStore \/ Writer!Stop
    BY <1>2, <1>4, <1>5 DEF Writer!OpenStore, Writer!Stop
  <1>6. CASE Writer!Join \/ UNCHANGED Writer!vars
    BY <1>4, <1>6 DEF Writer!Join, Writer!vars
  <1> QED
    BY <1>1, <1>3, <1>5, <1>6 DEF Writer!Next

LEMMA WriterInvMatches == WriterInv => Writer!StoreMatchesReplies
  BY DEF WriterInv, AnswersAreTrue, Writer!StoreMatchesReplies

-----------------------------------------------------------------------------
(* The events of a trial.                                                  *)

\* Line n has its row in the table, live or not, under this attempt.
HasRow(n) == \E r \in table : r.attempt = attempt /\ r.row_seq = n

IngestTypes ==
  /\ file \in Seq(Events!Lines) /\ tail \in Events!Tails /\ next \in Nat
  /\ worker \in {"ready", "agent", "stop", "evidence", "decide", "committed", "error"}
  /\ ingest \in {"off", "poll", "check", "final", "ended", "failed"}

\* While the agent writes nobody has told the thread to stop, so it will read again; what the
\* worker goes on with is what the thread has ended on.
ThreadIsAhead ==
  /\ worker = "agent" => ~stop /\ ingest \notin {"final", "ended"}
  /\ worker = "evidence" => ingest = "ended"
  /\ worker \notin {"agent", "stop"} => ingest \in {"off", "ended", "failed"}
  /\ ingest = "ended" => \A e \in Events!load_event_rows : e.seq < next

\* What the thread has passed is in the table, and it has passed no line that is not begun.
PassedIsLive ==
  worker \in {"agent", "stop", "evidence"} =>
    /\ next <= Len(file) + 1 /\ (tail = "none" => next <= Len(file))
    /\ \A e \in Events!load_event_rows : e.seq < next => HasRow(e.seq)

\* Rows are committed with the slot only; the evidence is the file, which nobody writes any more.
EvidenceIsTheFile ==
  /\ worker # "committed" => \A r \in table : ~r.committed
  /\ worker = "decide" => evidence = Events!load_event_rows
  /\ Events!CommittedRowsAreTheTrajectory

IngestInv == IngestTypes /\ ThreadIsAhead /\ PassedIsLive /\ EvidenceIsTheFile

-----------------------------------------------------------------------------
\* The row of a line, and of the line that is not finished.
LEMMA RowsOfTheFile ==
  ASSUME file \in Seq(Events!Lines)
  PROVE  /\ Len(file) \in Nat /\ DOMAIN file = 1 .. Len(file)
         /\ \A e \in Events!load_event_rows :
              \/ \E i \in 1 .. Len(file) : file[i] # "blank" /\ e.seq = i - 1
              \/ tail # "none" /\ e.seq = Len(file)
         /\ \A e \in Events!load_event_rows : e.seq \in Nat /\ e.seq <= Len(file)
         /\ \A e \in Events!load_event_rows : tail = "none" => e.seq < Len(file)
  <1>1. Len(file) \in Nat /\ DOMAIN file = 1 .. Len(file)
    OBVIOUS
  <1>2. \A e \in Events!load_event_rows :
              \/ \E i \in 1 .. Len(file) : file[i] # "blank" /\ e.seq = i - 1
              \/ tail # "none" /\ e.seq = Len(file)
    BY <1>1 DEF Events!load_event_rows
  <1> QED
    BY <1>1, <1>2

\* The rows of the file are finite in number.
LEMMA RowsAreFinite ==
  ASSUME file \in Seq(Events!Lines)
  PROVE  IsFiniteSet(Events!load_event_rows)
  <1> DEFINE D == {j \in DOMAIN file : file[j] # "blank"}
             f == [i \in D |-> [seq |-> i - 1,
                                kind |-> IF file[i] = "event" THEN "event" ELSE "parse_error"]]
             A == {f[i] : i \in D}
             B == IF tail = "none" THEN {} ELSE {[seq |-> Len(file), kind |-> "parse_error"]}
  <1>1. IsFiniteSet(D)
    <2>1. DOMAIN file = 1 .. Len(file) /\ Len(file) \in Nat
      OBVIOUS
    <2>2. IsFiniteSet(1 .. Len(file)) /\ D \in SUBSET (1 .. Len(file))
      BY <2>1, FS_Interval
    <2> QED
      BY <2>2, FS_Subset
  <1>2. IsFiniteSet(A)
    <2> HIDE DEF f, D
    <2> QED
      BY <1>1, ImageIsNoLarger
  <1>3. IsFiniteSet(B)
    BY FS_EmptySet, FS_Singleton
  <1>4. Events!load_event_rows = A \cup B
    BY DEF Events!load_event_rows
  <1> HIDE DEF A, B
  <1> QED
    BY <1>2, <1>3, <1>4, FS_Union

\* Upserting keeps every key that is there and adds those of the rows.
LEMMA UpsertKeepsKeys ==
  ASSUME NEW rows, Events!Upsert(rows)
  PROVE  /\ \A r \in rows : r \in table'
         /\ \A s \in table : \E r \in table' : r.attempt = s.attempt /\ r.row_seq = s.row_seq
         /\ \A s \in table' : s \in table \/ s \in rows
  BY DEF Events!Upsert

\* A set of numbers with a bound has its Max in it.
LEMMA MaxIsMember ==
  ASSUME NEW S \in SUBSET Nat, S # {}, NEW N \in Nat, \A x \in S : x <= N
  PROVE  Max(S) \in S /\ \A y \in S : y <= Max(S)
  <1> DEFINE D == {n \in Nat : \E x \in S : n = N - x}
  <1>1. \A x \in S : N - x \in D
    OBVIOUS
  <1>2. D \in SUBSET Nat /\ D # {}
    BY <1>1
  <1>3. PICK m \in D : \A y \in D : ~(<<y, m>> \in OpToRel(<, Nat))
    BY <1>2, NatLessThanWellFounded, WFMin
  <1>4. PICK x \in S : m = N - x
    BY <1>3
  <1>5. ASSUME NEW y \in S PROVE y <= x
    <2>1. N - y \in D /\ N - y \in Nat /\ m \in Nat
      BY <1>1
    <2> HIDE DEF D
    <2>2. ~(<<N - y, m>> \in OpToRel(<, Nat))
      BY <1>3, <2>1
    <2>3. ~(N - y < m)
      BY <2>1, <2>2, Zenon DEF OpToRel
    <2> QED
      BY <1>4, <2>1, <2>3
  <1>6. \E z \in S : \A y \in S : z >= y
    BY <1>5
  <1> QED
    BY <1>6 DEF Max

LEMMA IngestBegins == Events!Init => IngestInv
  <1> SUFFICES ASSUME Events!Init PROVE IngestInv
    OBVIOUS
  <1>1. IngestTypes
    <2>1. file = <<>> /\ tail = "none" /\ next = 0 /\ worker = "ready" /\ ingest = "off"
      BY DEF Events!Init
    <2>2. <<>> \in Seq(Events!Lines)
      OBVIOUS
    <2> QED
      BY <2>1, <2>2 DEF IngestTypes, Events!Tails
  <1>2. ThreadIsAhead /\ PassedIsLive
    BY DEF Events!Init, ThreadIsAhead, PassedIsLive
  <1>3. EvidenceIsTheFile
    BY DEF Events!Init, EvidenceIsTheFile, Events!CommittedRowsAreTheTrajectory
  <1> QED
    BY <1>1, <1>2, <1>3 DEF IngestInv

-----------------------------------------------------------------------------
\* What the agent writes comes after what has been passed: the rows below next keep their
\* numbers.
LEMMA AgentWrites ==
  ASSUME IngestInv, worker = "agent",
         (\E line \in Events!Lines : Events!Append1(line)) \/ Events!BeginLine \/ Events!FinishLine
  PROVE  /\ file' \in Seq(Events!Lines) /\ tail' \in Events!Tails
         /\ next <= Len(file') + 1 /\ (tail' = "none" => next <= Len(file'))
         /\ \A e \in Events!load_event_rows' :
              e.seq < next => \E d \in Events!load_event_rows : d.seq = e.seq
  <1>1. file \in Seq(Events!Lines) /\ tail \in Events!Tails /\ next \in Nat
    BY DEF IngestInv, IngestTypes
  <1>2. next <= Len(file) + 1 /\ (tail = "none" => next <= Len(file))
    BY DEF IngestInv, PassedIsLive
  <1>3. Len(file) \in Nat /\ DOMAIN file = 1 .. Len(file)
    BY <1>1
  <1>4. /\ file' \in Seq(Events!Lines) /\ tail' \in Events!Tails
        /\ \/ tail' # "none" /\ file' = file /\ tail = "none"
           \/ tail' = "none" /\ \E line \in Events!Lines : file' = Append(file, line)
    BY <1>1 DEF Events!Append1, Events!BeginLine, Events!FinishLine, Events!Tails, Events!Lines
  <1>5. CASE tail' # "none" /\ file' = file /\ tail = "none"
    <2>1. \A e \in Events!load_event_rows' : e.seq < next => e \in Events!load_event_rows
      BY <1>1, <1>2, <1>3, <1>5 DEF Events!load_event_rows
    <2> QED
      BY <1>2, <1>4, <1>5, <2>1
  <1>6. CASE tail' = "none" /\ \E line \in Events!Lines : file' = Append(file, line)
    <2>1. PICK line \in Events!Lines : file' = Append(file, line)
      BY <1>6
    <2>2. /\ Len(file') = Len(file) + 1 /\ DOMAIN file' = 1 .. (Len(file) + 1)
          /\ \A i \in 1 .. Len(file) : file'[i] = file[i]
      BY <1>1, <2>1
    <2>3. ASSUME NEW e \in Events!load_event_rows', e.seq < next
          PROVE  \E d \in Events!load_event_rows : d.seq = e.seq
      <3>1. PICK i \in 1 .. (Len(file) + 1) : file'[i] # "blank" /\ e.seq = i - 1
        BY <2>2, <1>6 DEF Events!load_event_rows
      <3>2. CASE i <= Len(file)
        <4>1. i \in DOMAIN file /\ file[i] # "blank"
          BY <1>3, <2>2, <3>1, <3>2
        <4> DEFINE d == [seq |-> i - 1, kind |-> IF file[i] = "event" THEN "event" ELSE "parse_error"]
        <4>2. d \in Events!load_event_rows /\ d.seq = e.seq
          BY <3>1, <4>1 DEF Events!load_event_rows
        <4> QED
          BY <4>2
      <3>3. CASE i = Len(file) + 1
        <4>1. e.seq = Len(file)
          BY <1>3, <3>1, <3>3
        <4>2. tail # "none"
          BY <1>1, <1>2, <1>3, <2>3, <4>1
        <4> DEFINE d == [seq |-> Len(file), kind |-> "parse_error"]
        <4>3. d \in Events!load_event_rows /\ d.seq = e.seq
          BY <4>1, <4>2 DEF Events!load_event_rows
        <4> QED
          BY <4>3
      <3> QED
        BY <1>3, <3>1, <3>2, <3>3
    <2> QED
      BY <1>1, <1>2, <1>3, <1>4, <1>6, <2>2, <2>3
  <1> QED
    BY <1>4, <1>5, <1>6

LEMMA AgentKeepsIngest ==
  ASSUME IngestInv,
         (\E line \in Events!Lines : Events!Append1(line)) \/ Events!BeginLine \/ Events!FinishLine
  PROVE  IngestInv'
  <1>1. /\ worker = "agent"
        /\ table' = table /\ worker' = worker /\ attempt' = attempt /\ evidence' = evidence
        /\ ingest' = ingest /\ next' = next /\ stop' = stop
    BY DEF Events!Append1, Events!BeginLine, Events!FinishLine, Events!ingestVars
  <1>2. /\ file' \in Seq(Events!Lines) /\ tail' \in Events!Tails
        /\ next <= Len(file') + 1 /\ (tail' = "none" => next <= Len(file'))
        /\ \A e \in Events!load_event_rows' :
             e.seq < next => \E d \in Events!load_event_rows : d.seq = e.seq
    BY <1>1, AgentWrites
  <1>3. IngestTypes'
    BY <1>1, <1>2 DEF IngestInv, IngestTypes
  <1>4. ThreadIsAhead'
    BY <1>1, Zenon DEF IngestInv, ThreadIsAhead
  <1>5. PassedIsLive'
    <2>1. \A d \in Events!load_event_rows : d.seq < next => HasRow(d.seq)
      BY <1>1 DEF IngestInv, PassedIsLive
    <2>2. \A e \in Events!load_event_rows' : e.seq < next' => HasRow(e.seq)'
      <3> SUFFICES ASSUME NEW e \in Events!load_event_rows', e.seq < next PROVE HasRow(e.seq)'
        BY <1>1
      <3>1. PICK d \in Events!load_event_rows : d.seq = e.seq
        BY <1>2
      <3>2. HasRow(e.seq)
        BY <2>1, <3>1
      <3> QED
        BY <1>1, <3>2 DEF HasRow
    <2>3. next' <= Len(file') + 1 /\ (tail' = "none" => next' <= Len(file'))
      BY <1>1, <1>2
    <2> QED
      BY <2>2, <2>3, Zenon DEF PassedIsLive
  <1>6. EvidenceIsTheFile'
    BY <1>1 DEF IngestInv, EvidenceIsTheFile, Events!CommittedRowsAreTheTrajectory
  <1> QED
    BY <1>3, <1>4, <1>5, <1>6 DEF IngestInv

-----------------------------------------------------------------------------
\* The module of the events has the standard operators under its own name.
LEMMA EventsMax == \A S : Events!Max(S) = Max(S)
  BY DEF Events!Max, Max

\* What the thread reads gets its rows, and it passes what it has read.
LEMMA ReadingIsLive ==
  ASSUME IngestInv, NEW there, Events!ingest_new_event_rows(there), ingest' # "failed",
         file' = file, tail' = tail, attempt' = attempt, worker \in {"agent", "stop"},
         there # "failed"
  PROVE  /\ next' \in Nat /\ next' <= Len(file) + 1 /\ (tail = "none" => next' <= Len(file))
         /\ \A e \in Events!load_event_rows : e.seq < next' /\ HasRow(e.seq)'
         /\ (\A r \in table : ~r.committed) => \A r \in table' : ~r.committed
  <1>1. file \in Seq(Events!Lines) /\ next \in Nat
    BY DEF IngestInv, IngestTypes
  <1>2. /\ Len(file) \in Nat
        /\ \A e \in Events!load_event_rows : e.seq \in Nat /\ e.seq <= Len(file)
        /\ \A e \in Events!load_event_rows : tail = "none" => e.seq < Len(file)
    BY <1>1, RowsOfTheFile
  <1>3. /\ next <= Len(file) + 1 /\ (tail = "none" => next <= Len(file))
        /\ \A e \in Events!load_event_rows : e.seq < next => HasRow(e.seq)
    BY DEF IngestInv, PassedIsLive
  <1>4. /\ Events!Upsert({Events!LiveRow(e) : e \in Events!New})
        /\ next' = IF Events!New = {} THEN next ELSE Max({e.seq : e \in Events!New}) + 1
    BY EventsMax DEF Events!ingest_new_event_rows
  <1> DEFINE S == {e.seq : e \in Events!New}
             L == {Events!LiveRow(e) : e \in Events!New}
  <1>5. /\ Events!New \subseteq Events!load_event_rows
        /\ \A e \in Events!load_event_rows : e \in Events!New <=> e.seq >= next
    BY DEF Events!New
  <1>6. /\ next' \in Nat /\ next' <= Len(file) + 1 /\ (tail = "none" => next' <= Len(file))
        /\ \A e \in Events!load_event_rows : e.seq < next'
    <2>1. CASE Events!New = {}
      BY <1>1, <1>2, <1>3, <1>4, <1>5, <2>1
    <2>2. CASE Events!New # {}
      <3>1. S \in SUBSET Nat /\ S # {} /\ \A x \in S : x <= Len(file)
        BY <1>2, <1>5, <2>2
      <3>2. \A x \in S : tail = "none" => x < Len(file)
        BY <1>2, <1>5
      <3>3. \A e \in Events!New : e.seq \in S
        OBVIOUS
      <3>4. next' = Max(S) + 1
        BY <1>4, <2>2
      <3> HIDE DEF S
      <3>5. Max(S) \in S /\ \A y \in S : y <= Max(S)
        BY <1>2, <3>1, MaxIsMember
      <3>6. Max(S) \in Nat
        BY <3>1, <3>5
      <3>7. next <= Max(S)
        <4>1. PICK e \in Events!New : TRUE
          BY <2>2
        <4>2. e.seq >= next /\ e.seq \in Nat /\ e.seq <= Max(S)
          BY <1>2, <1>5, <3>3, <3>5
        <4> QED
          BY <1>1, <3>6, <4>2
      <3>8. ASSUME NEW e \in Events!load_event_rows PROVE e.seq < next'
        <4>1. e.seq \in Nat
          BY <1>2
        <4>2. CASE e.seq >= next
          <5>1. e.seq <= Max(S)
            BY <1>5, <3>3, <3>5, <4>2
          <5> QED
            BY <3>4, <3>6, <4>1, <5>1
        <4>3. CASE e.seq < next
          BY <1>1, <3>4, <3>6, <3>7, <4>1, <4>3
        <4> QED
          BY <1>1, <4>1, <4>2, <4>3
      <3> QED
        BY <1>2, <3>1, <3>2, <3>4, <3>5, <3>6, <3>8
    <2> QED
      BY <2>1, <2>2
  <1>7. /\ \A r \in L : r \in table'
        /\ \A s \in table : \E r \in table' : r.attempt = s.attempt /\ r.row_seq = s.row_seq
        /\ \A s \in table' : s \in table \/ s \in L
    <2>1. Events!Upsert(L)
      BY <1>4
    <2> HIDE DEF L
    <2> QED
      BY <2>1, UpsertKeepsKeys
  <1>8. ASSUME NEW e \in Events!load_event_rows PROVE HasRow(e.seq)'
    <2>1. CASE e.seq >= next
      <3>1. /\ Events!LiveRow(e) \in table' /\ Events!LiveRow(e).attempt = attempt
            /\ Events!LiveRow(e).row_seq = e.seq
        BY <1>5, <1>7, <2>1 DEF Events!LiveRow
      <3> QED
        BY <3>1 DEF HasRow
    <2>2. CASE e.seq < next
      <3>1. PICK s \in table : s.attempt = attempt /\ s.row_seq = e.seq
        BY <1>3, <2>2 DEF HasRow
      <3>2. PICK r \in table' : r.attempt = attempt /\ r.row_seq = e.seq
        BY <1>7, <3>1
      <3> QED
        BY <3>2 DEF HasRow
    <2> QED
      BY <1>1, <1>2, <2>1, <2>2
  <1>9. ASSUME \A r \in table : ~r.committed PROVE \A r \in table' : ~r.committed
    BY <1>7, <1>9 DEF Events!LiveRow
  <1> QED
    BY <1>6, <1>8, <1>9

LEMMA IngestKeeps ==
  ASSUME IngestInv, Events!Ingest
  PROVE  IngestInv'
  <1>1. /\ worker \in {"agent", "stop"}
        /\ file' = file /\ tail' = tail /\ worker' = worker /\ attempt' = attempt
        /\ evidence' = evidence /\ stop' = stop
    <2>1. ingest \in {"poll", "check", "final"}
      BY DEF Events!Ingest, Events!Poll, Events!CheckStop, Events!FinalPoll
    <2>2. /\ file' = file /\ tail' = tail /\ worker' = worker /\ attempt' = attempt
          /\ evidence' = evidence /\ stop' = stop
      BY DEF Events!Ingest, Events!Poll, Events!CheckStop, Events!FinalPoll, Events!agentVars
    <2> QED
      BY <2>1, <2>2 DEF IngestInv, ThreadIsAhead
  <1>2. Events!load_event_rows' = Events!load_event_rows
    BY <1>1 DEF Events!load_event_rows
  <1>3. \A r \in table : ~r.committed
    BY <1>1 DEF IngestInv, EvidenceIsTheFile
  <1>4. CASE table' = table /\ next' = next /\ ingest' \in {"poll", "final", "failed"}
             /\ (worker = "agent" => ingest' # "final")
    <2>1. IngestTypes'
      BY <1>1, <1>4 DEF IngestInv, IngestTypes
    <2>2. ThreadIsAhead'
      BY <1>1, <1>4, Zenon DEF IngestInv, ThreadIsAhead
    <2>3. PassedIsLive'
      BY <1>1, <1>2, <1>4 DEF IngestInv, PassedIsLive, HasRow
    <2>4. EvidenceIsTheFile'
      BY <1>1, <1>2, <1>3, <1>4 DEF EvidenceIsTheFile, Events!CommittedRowsAreTheTrajectory
    <2> QED
      BY <2>1, <2>2, <2>3, <2>4 DEF IngestInv
  <1>5. ASSUME NEW there \in {"check", "ended"}, Events!ingest_new_event_rows(there), ingest' = there,
               worker = "agent" => there # "ended"
        PROVE  IngestInv'
    <2>1. /\ next' \in Nat /\ next' <= Len(file) + 1 /\ (tail = "none" => next' <= Len(file))
          /\ \A e \in Events!load_event_rows : e.seq < next' /\ HasRow(e.seq)'
          /\ \A r \in table' : ~r.committed
      <3>1. there # "failed"
        OBVIOUS
      <3> QED
        BY <1>1, <1>3, <1>5, <3>1, ReadingIsLive
    <2>2. IngestTypes'
      BY <1>1, <1>5, <2>1 DEF IngestInv, IngestTypes
    <2>3. ThreadIsAhead'
      <3>1. \A e \in Events!load_event_rows' : e.seq < next'
        BY <1>2, <2>1
      <3>2. worker' = "agent" => ~stop' /\ ingest' \notin {"final", "ended"}
        <4>1. worker = "agent" => ~stop
          BY DEF IngestInv, ThreadIsAhead
        <4> QED
          BY <1>1, <1>5, <4>1
      <3> QED
        BY <1>1, <3>1, <3>2, Zenon DEF ThreadIsAhead
    <2>4. PassedIsLive'
      BY <1>1, <1>2, <2>1 DEF PassedIsLive
    <2>5. EvidenceIsTheFile'
      BY <1>1, <2>1 DEF EvidenceIsTheFile, Events!CommittedRowsAreTheTrajectory
    <2> QED
      BY <2>2, <2>3, <2>4, <2>5 DEF IngestInv
  <1>6. CASE Events!Poll
    <2>1. Events!ingest_new_event_rows("check")
      BY <1>6 DEF Events!Poll
    <2>2. ingest' = "check" \/ (ingest' = "failed" /\ table' = table /\ next' = next)
      BY <2>1 DEF Events!ingest_new_event_rows
    <2> QED
      BY <1>4, <1>5, <2>1, <2>2
  <1>7. CASE Events!FinalPoll
    <2>1. Events!ingest_new_event_rows("ended") /\ ingest = "final"
      BY <1>7 DEF Events!FinalPoll
    <2>2. ingest' = "ended" \/ (ingest' = "failed" /\ table' = table /\ next' = next)
      BY <2>1 DEF Events!ingest_new_event_rows
    <2>3. worker # "agent"
      BY <2>1 DEF IngestInv, ThreadIsAhead
    <2> QED
      BY <1>4, <1>5, <2>1, <2>2, <2>3
  <1>8. CASE Events!CheckStop
    <2>1. table' = table /\ next' = next /\ ingest' = (IF stop THEN "final" ELSE "poll")
      BY <1>8 DEF Events!CheckStop
    <2>2. worker = "agent" => ~stop
      BY DEF IngestInv, ThreadIsAhead
    <2> QED
      BY <1>4, <2>1, <2>2
  <1> QED
    BY <1>6, <1>7, <1>8 DEF Events!Ingest

-----------------------------------------------------------------------------
\* The worker before the commit.
LEMMA WorkerKeepsIngest ==
  ASSUME IngestInv,
         \/ Events!StartAttempt \/ Events!AgentEnds \/ Events!Join
         \/ Events!attach_local_runtime_evidence \/ Events!Retry
  PROVE  IngestInv'
  <1>1. /\ file' = file /\ table' = table /\ worker # "committed" /\ worker' # "committed"
        /\ tail' \in Events!Tails /\ next' \in Nat
    BY DEF IngestInv, IngestTypes, Events!StartAttempt, Events!AgentEnds, Events!Join,
       Events!attach_local_runtime_evidence,
           Events!Retry, Events!agentVars, Events!ingestVars, Events!Tails
  <1>2. \A r \in table : ~r.committed
    BY <1>1 DEF IngestInv, EvidenceIsTheFile
  <1>3. IngestTypes'
    BY <1>1 DEF IngestInv, IngestTypes, Events!StartAttempt, Events!AgentEnds, Events!Join,
           Events!attach_local_runtime_evidence, Events!Retry, Events!agentVars, Events!ingestVars
  <1>4. CASE Events!StartAttempt
    <2>1. /\ worker' = "agent" /\ next' = 0 /\ stop' = FALSE /\ ingest' = "poll"
      BY <1>4 DEF Events!StartAttempt
    <2>2. ThreadIsAhead'
      BY <2>1, Zenon DEF ThreadIsAhead
    <2>3. Len(file') \in Nat /\ \A e \in Events!load_event_rows' : e.seq \in Nat
      <3>1. file' \in Seq(Events!Lines)
        BY <1>3 DEF IngestTypes
      <3>2. Len(file') \in Nat /\ DOMAIN file' = 1 .. Len(file')
        BY <3>1
      <3> QED
        BY <3>2 DEF Events!load_event_rows
    <2>4. PassedIsLive'
      BY <2>1, <2>3 DEF PassedIsLive
    <2>5. EvidenceIsTheFile'
      BY <1>1, <1>2, <2>1 DEF EvidenceIsTheFile, Events!CommittedRowsAreTheTrajectory
    <2> QED
      BY <1>3, <2>2, <2>4, <2>5 DEF IngestInv
  <1>5. CASE Events!AgentEnds \/ Events!Join \/ Events!attach_local_runtime_evidence \/ Events!Retry
    <2>1. tail' = tail /\ attempt' = attempt /\ ingest' = ingest /\ next' = next
      BY <1>5 DEF Events!AgentEnds, Events!Join, Events!attach_local_runtime_evidence, Events!Retry,
         Events!agentVars, Events!ingestVars
    <2>2. Events!load_event_rows' = Events!load_event_rows
      BY <1>1, <2>1 DEF Events!load_event_rows
    <2>3. ThreadIsAhead'
      <3>1. /\ worker' # "agent" /\ (worker' = "evidence" => ingest = "ended")
            /\ (worker' \notin {"agent", "stop"} => ingest \in {"off", "ended", "failed"})
        BY <1>5 DEF IngestInv, ThreadIsAhead, Events!AgentEnds, Events!Join,
           Events!attach_local_runtime_evidence, Events!Retry
      <3>2. ingest' = "ended" => \A e \in Events!load_event_rows' : e.seq < next'
        BY <2>1, <2>2 DEF IngestInv, ThreadIsAhead
      <3> QED
        BY <2>1, <3>1, <3>2, Zenon DEF ThreadIsAhead
    <2>4. PassedIsLive'
      <3>1. worker' \in {"agent", "stop", "evidence"} => worker \in {"agent", "stop", "evidence"}
        BY <1>5 DEF Events!AgentEnds, Events!Join, Events!attach_local_runtime_evidence, Events!Retry
      <3> QED
        BY <1>1, <2>1, <2>2, <3>1 DEF IngestInv, PassedIsLive, HasRow
    <2>5. EvidenceIsTheFile'
      <3>1. worker' = "decide" => evidence' = Events!load_event_rows
        BY <1>5 DEF Events!AgentEnds, Events!Join, Events!attach_local_runtime_evidence, Events!Retry
      <3> QED
        BY <1>1, <1>2, <2>2, <3>1 DEF EvidenceIsTheFile, Events!CommittedRowsAreTheTrajectory
    <2> QED
      BY <1>3, <2>3, <2>4, <2>5 DEF IngestInv
  <1> QED
    BY <1>4, <1>5

\* The rows before a row are the more the later it is.
LEMMA RankGrows ==
  ASSUME NEW E, IsFiniteSet(E), \A e \in E : e.seq \in Nat, NEW x \in E, NEW y \in E
  PROVE  x.seq < y.seq <=>
           Cardinality({e \in E : e.seq < x.seq}) < Cardinality({e \in E : e.seq < y.seq})
  <1> DEFINE X == {e \in E : e.seq < x.seq}
             Y == {e \in E : e.seq < y.seq}
  <1>1. IsFiniteSet(X) /\ IsFiniteSet(Y)
    BY FS_Subset
  <1>2. Cardinality(X) \in Nat /\ Cardinality(Y) \in Nat
    BY <1>1, FS_CardinalityType
  <1>3. x.seq \in Nat /\ y.seq \in Nat
    OBVIOUS
  <1>4. CASE x.seq < y.seq
    <2>1. X \in SUBSET Y
      BY <1>3, <1>4
    <2>2. x \in Y /\ x \notin X
      BY <1>3, <1>4
    <2> HIDE DEF X, Y
    <2>3. Cardinality(X) <= Cardinality(Y) /\ Cardinality(X) # Cardinality(Y)
      BY <1>1, <2>1, <2>2, FS_Subset
    <2>4. Cardinality(X) < Cardinality(Y)
      BY <1>2, <2>3
    <2> QED
      BY <1>4, <2>4 DEF X, Y
  <1>5. CASE ~(x.seq < y.seq)
    <2>1. Y \in SUBSET X
      BY <1>3, <1>5
    <2> HIDE DEF X, Y
    <2>2. Cardinality(Y) <= Cardinality(X)
      BY <1>1, <2>1, FS_Subset
    <2>3. ~(Cardinality(X) < Cardinality(Y))
      BY <1>2, <2>2
    <2> QED
      BY <1>5, <2>3 DEF X, Y
  <1> QED
    BY <1>4, <1>5

\* The module of the events has the standard operators under its own name.
LEMMA EventsCardinality == \A S : Events!Cardinality(S) = Cardinality(S)
  BY DEF Events!Cardinality, Cardinality

\* The commit takes the place of the live rows with its keys.
LEMMA CommitKeepsIngest ==
  ASSUME IngestInv, Events!Commit
  PROVE  IngestInv'
  <1>1. /\ worker = "decide" /\ worker' = "committed"
        /\ file' = file /\ tail' = tail /\ ingest' = ingest /\ next' = next
    BY DEF Events!Commit, Events!agentVars, Events!ingestVars
  <1>2. evidence = Events!load_event_rows /\ \A r \in table : ~r.committed
    BY <1>1 DEF IngestInv, EvidenceIsTheFile
  <1>3. PICK a \in SlotAttempts : Events!Upsert(Events!annotate_slot_rows(a))
    BY DEF Events!Commit
  <1>4. Events!load_event_rows' = Events!load_event_rows
    BY <1>1 DEF Events!load_event_rows
  <1> DEFINE rank(e) == Cardinality({d \in evidence : d.seq < e.seq})
             committed == [e \in evidence |-> [attempt |-> a, row_seq |-> rank(e), row |-> e,
                                               committed |-> TRUE]]
  <1>5. {r \in table' : r.committed} = {committed[e] : e \in evidence}
    <2>1. Events!annotate_slot_rows(a) = {committed[e] : e \in evidence}
      BY EventsCardinality DEF Events!annotate_slot_rows
    <2>2. \A r \in Events!annotate_slot_rows(a) : r \in table' /\ r.committed
      <3>1. ASSUME NEW r \in Events!annotate_slot_rows(a) PROVE r.committed
        <4>1. PICK e \in evidence : r = [attempt |-> a, row_seq |-> rank(e), row |-> e,
                                         committed |-> TRUE]
          BY EventsCardinality DEF Events!annotate_slot_rows
        <4> HIDE DEF rank
        <4> QED
          BY <4>1, Zenon
      <3> QED
        BY <1>3, <3>1, UpsertKeepsKeys
    <2>3. \A r \in table' : r.committed => r \in Events!annotate_slot_rows(a)
      BY <1>2, <1>3, UpsertKeepsKeys
    <2> HIDE DEF committed
    <2> QED
      BY <2>1, <2>2, <2>3
  <1>6. \A e \in evidence : committed[e].row = e /\ committed[e].row_seq = rank(e)
    OBVIOUS
  <1>7. \A x, y \in evidence : x.seq < y.seq <=> rank(x) < rank(y)
    <2>1. file \in Seq(Events!Lines)
      BY DEF IngestInv, IngestTypes
    <2>2. IsFiniteSet(evidence) /\ \A e \in evidence : e.seq \in Nat
      BY <1>2, <2>1, RowsAreFinite, RowsOfTheFile
    <2> QED
      BY <2>2, RankGrows
  <1>8. Events!CommittedRowsAreTheTrajectory'
    <2> HIDE DEF committed, rank
    <2> DEFINE C == {r \in table' : r.committed}
    <2>1. \A r \in C : \E e \in evidence : r = committed[e]
      BY <1>5
    <2>2. \A e \in evidence : committed[e] \in C
      BY <1>5
    <2> HIDE DEF C
    <2>3. {r.row : r \in C} = Events!load_event_rows'
      BY <1>2, <1>4, <1>6, <2>1, <2>2
    <2>4. \A r, s \in C : r.row.seq < s.row.seq <=> r.row_seq < s.row_seq
      BY <1>6, <1>7, <2>1
    <2> QED
      BY <2>3, <2>4 DEF Events!CommittedRowsAreTheTrajectory, C
  <1>9. IngestTypes'
    BY <1>1 DEF IngestInv, IngestTypes
  <1>10. ThreadIsAhead'
    BY <1>1, <1>4 DEF IngestInv, ThreadIsAhead
  <1>11. PassedIsLive' /\ EvidenceIsTheFile'
    BY <1>1, <1>8 DEF PassedIsLive, EvidenceIsTheFile
  <1> QED
    BY <1>9, <1>10, <1>11 DEF IngestInv

LEMMA IngestStep == IngestInv /\ [Events!Next]_Events!vars => IngestInv'
  <1> SUFFICES ASSUME IngestInv, [Events!Next]_Events!vars PROVE IngestInv'
    OBVIOUS
  <1>1. CASE Events!Next
    BY <1>1, AgentKeepsIngest, IngestKeeps, WorkerKeepsIngest, CommitKeepsIngest DEF Events!Next,
       Events!Worker
  <1>2. CASE UNCHANGED Events!vars
    BY <1>2 DEF Events!vars, Events!agentVars, Events!ingestVars, IngestInv, IngestTypes,
       ThreadIsAhead, PassedIsLive,
         EvidenceIsTheFile, Events!CommittedRowsAreTheTrajectory, HasRow, Events!load_event_rows
  <1> QED
    BY <1>1, <1>2

LEMMA IngestInvIsTheTrajectory ==
  IngestInv => Events!NothingFallsBehind /\ Events!CommittedRowsAreTheTrajectory
  BY DEF IngestInv, ThreadIsAhead, PassedIsLive, EvidenceIsTheFile, Events!NothingFallsBehind, HasRow

-----------------------------------------------------------------------------
(* What a trial is recorded as.                                            *)

\* The stages from the agent's end on, those of the grader, those from the end of the attempt
\* on, and those with a record.
Ran == {"read", "capture", "grader", "collect", "decide", "buffer", "classify", "publish", "ok"}
Grading == {"capture", "grader", "collect"}
Attempted == {"decide", "buffer", "classify", "publish", "ok"}
Recorded == {"classify", "publish", "ok"}

\* The files this attempt is judged by are its own or not there.
ResultIsItsOwn ==
  /\ DOMAIN out = Conclusion!Files
  /\ out["result"].content # "none" => out["result"].of = tries
  /\ response.content # "none" => response.of = tries

\* What is known of the attempt agrees with how its agent and its grader ended.
PhasesAgree ==
  /\ step \in Ran => agent \in Conclusion!Exits
  /\ row = "success" => grader = "0"
  /\ step \in Grading => agent # "timeout"
  /\ step \in Grading \cup {"agent", "read"} => row = "none"
  /\ step \in Attempted /\ agent = "timeout" => grade_error

\* The record, the state and the slot follow from the last attempt.
EndAgrees ==
  /\ record.success => step \in Recorded /\ Conclusion!Success
  /\ step = "publish" => state = Conclusion!ClassifiedState
  /\ step = "ok" =>
       /\ slot = Conclusion!slot_status
       /\ state \in {"none", Conclusion!ClassifiedState}
  /\ step = "err" /\ ~unmarked => state # "running"

ConclusionInv == ResultIsItsOwn /\ PhasesAgree /\ EndAgrees /\ ~given_up

-----------------------------------------------------------------------------
\* What a success is made of.
LEMMA SuccessMeans ==
  ASSUME PhasesAgree, Conclusion!Success, step \in Attempted
  PROVE  /\ agent # "timeout" /\ ~grade_error
         /\ Conclusion!Graded => row = "success" /\ grader = "0"
         /\ ~Conclusion!Graded => agent = "0" /\ response.content \notin {"none", "bad"}
                       /\ Conclusion!agent_response_execution_outcome = "success"
  <1>1. Conclusion!TrialOutcome = "success" /\ ~grade_error
    BY DEF Conclusion!Success
  <1>2. agent \in Conclusion!Exits
    BY DEF PhasesAgree, Attempted, Ran
  <1>3. agent # "timeout"
    BY <1>1 DEF PhasesAgree
  <1>4. CASE ~Conclusion!Graded
    <2>1. Conclusion!agent_response_execution_outcome = "success"
      BY <1>1, <1>4 DEF Conclusion!TrialOutcome
    <2>2. agent = "0"
      BY <1>2, <1>3, <2>1 DEF Conclusion!agent_response_execution_outcome, Conclusion!Exits
    <2>3. response.content # "none" /\ response.content # "bad"
      BY <2>1, <2>2 DEF Conclusion!agent_response_execution_outcome
    <2> QED
      BY <1>1, <1>3, <1>4, <2>1, <2>2, <2>3
  <1>5. CASE Conclusion!Graded
    <2>1. row = "success"
      BY <1>1, <1>3, <1>5 DEF Conclusion!TrialOutcome
    <2> QED
      BY <1>1, <1>3, <1>5, <2>1 DEF PhasesAgree
  <1> QED
    BY <1>4, <1>5

\* An attempt that would be recorded a success is not retried.
LEMMA SuccessIsNotRetried ==
  ASSUME PhasesAgree, Conclusion!Success, step \in Attempted
  PROVE  ~Conclusion!should_retry_outcome(Conclusion!grading_retry_inputs[1], Conclusion!grading_retry_inputs[2])
  <1>1. /\ agent # "timeout" /\ ~grade_error
        /\ Conclusion!Graded => row = "success" /\ grader = "0"
        /\ ~Conclusion!Graded => agent = "0" /\ Conclusion!agent_response_execution_outcome = "success"
    BY SuccessMeans
  <1>2. Conclusion!grading_retry_inputs = <<"success", "0">>
    <2>1. CASE ~Conclusion!Graded
      BY <1>1, <2>1 DEF Conclusion!grading_retry_inputs
    <2>2. CASE Conclusion!Graded
      <3>1. ~(grade_error \/ row = "none") /\ row = "success"
        BY <1>1, <2>2
      <3> QED
        BY <1>1, <2>2, <3>1, Zenon DEF Conclusion!grading_retry_inputs
    <2> QED
      BY <2>1, <2>2
  <1> QED
    BY <1>2 DEF Conclusion!should_retry_outcome

\* A success has a completed slot.
LEMMA SuccessIsCompleted ==
  ASSUME PhasesAgree, Conclusion!Success, step \in Attempted
  PROVE  Conclusion!slot_status = "completed"
  <1>1. /\ agent # "timeout" /\ ~grade_error
        /\ Conclusion!Graded => row = "success" /\ grader = "0"
        /\ ~Conclusion!Graded => agent = "0" /\ response.content \notin {"none", "bad"}
                      /\ Conclusion!agent_response_execution_outcome = "success"
    BY SuccessMeans
  <1>2. Conclusion!TrialOutcome = "success"
    BY DEF Conclusion!Success
  <1>3. CASE Conclusion!Graded
    BY <1>1, <1>3 DEF Conclusion!slot_status
  <1>4. CASE ~Conclusion!Graded
    BY <1>1, <1>2, <1>4 DEF Conclusion!slot_status
  <1> QED
    BY <1>3, <1>4

\* The state and the status of the slot come from the same attempt.
LEMMA ClassificationAgrees ==
  ASSUME PhasesAgree, step \in Attempted,
         ~(~Conclusion!Graded /\ agent = "0" /\ response.content = "none")
  PROVE  Conclusion!failure_classification = "none" <=> Conclusion!slot_status = "completed"
  <1>1. agent \in Conclusion!Exits
    BY DEF PhasesAgree, Attempted, Ran
  <1>2. agent = "timeout" => grade_error
    BY DEF PhasesAgree
  <1>3. CASE Conclusion!Graded
    <2>1. CASE grade_error
      BY <1>3, <2>1 DEF Conclusion!failure_classification, Conclusion!slot_status
    <2>2. CASE ~grade_error
      BY <1>2, <1>3, <2>2 DEF Conclusion!failure_classification, Conclusion!slot_status
    <2> QED
      BY <2>1, <2>2
  <1>4. CASE ~Conclusion!Graded
    <2>1. CASE agent # "0"
      BY <1>4, <2>1 DEF Conclusion!failure_classification, Conclusion!slot_status
    <2>2. CASE agent = "0" /\ response.content = "bad"
      <3>1. Conclusion!TrialOutcome = "error"
        BY <1>4, <2>2 DEF Conclusion!TrialOutcome, Conclusion!agent_response_execution_outcome
      <3> QED
        BY <1>4, <2>2, <3>1 DEF Conclusion!failure_classification, Conclusion!slot_status
    <2>3. CASE agent = "0" /\ response.content \notin {"none", "bad"}
      <3>1. Conclusion!TrialOutcome = "success"
        BY <1>4, <2>3 DEF Conclusion!TrialOutcome, Conclusion!agent_response_execution_outcome
      <3> QED
        BY <1>4, <2>3, <3>1 DEF Conclusion!failure_classification, Conclusion!slot_status
    <2> QED
      BY <1>4, <2>1, <2>2, <2>3
  <1> QED
    BY <1>3, <1>4

LEMMA ConclusionBegins == Conclusion!Init => ConclusionInv
  <1> SUFFICES ASSUME Conclusion!Init PROVE ConclusionInv
    OBVIOUS
  <1>1. ResultIsItsOwn
    BY DEF Conclusion!Init, ResultIsItsOwn, Conclusion!Absent, Conclusion!Files
  <1>2. PhasesAgree
    BY DEF Conclusion!Init, PhasesAgree, Ran, Grading, Attempted
  <1>3. ~record.success
    BY Zenon DEF Conclusion!Init, Conclusion!NoRecord
  <1>4. EndAgrees /\ ~given_up
    BY <1>3 DEF Conclusion!Init, EndAgrees
  <1> QED
    BY <1>1, <1>2, <1>4 DEF ConclusionInv

-----------------------------------------------------------------------------
\* While there is no record the attempt may still change.
LEMMA Unrecorded ==
  ASSUME ConclusionInv, step \notin Recorded, record' = record, ResultIsItsOwn', PhasesAgree',
         given_up' = given_up, step' \notin {"publish", "ok", "err"}
  PROVE  ConclusionInv'
  <1>1. ~record.success
    BY DEF ConclusionInv, EndAgrees
  <1>2. ~record'.success
    BY <1>1
  <1>3. EndAgrees'
    BY <1>2 DEF EndAgrees
  <1> QED
    BY <1>3 DEF ConclusionInv

\* The attempt up to its end.
LEMMA AttemptKeeps ==
  ASSUME ConclusionInv,
         \/ Conclusion!Prepare \/ Conclusion!BeginAttempt \/ Conclusion!Agent \/ Conclusion!ReadResult
         \/ Conclusion!CaptureAgentOutputs \/ Conclusion!Grader \/ Conclusion!Conclude
  PROVE  ConclusionInv'
  <1>1. /\ step \notin Recorded /\ record' = record /\ given_up' = given_up
        /\ step' \notin {"publish", "ok", "err"}
    BY DEF Conclusion!Prepare, Conclusion!BeginAttempt, Conclusion!Agent, Conclusion!AgentEnds,
       Conclusion!ReadResult, Conclusion!CaptureAgentOutputs, Conclusion!Grader,
           Conclusion!RunGrader, Conclusion!Conclude, Recorded, Conclusion!endVars
  <1>2. ResultIsItsOwn /\ PhasesAgree
    BY DEF ConclusionInv
  <1>3. CASE Conclusion!Prepare \/ Conclusion!CaptureAgentOutputs
    <2>1. /\ out' = out /\ response' = response /\ tries' = tries /\ agent' = agent
          /\ row' = row /\ grader' = grader /\ step' \notin Attempted
          /\ (step' \in Ran => step \in Ran) /\ (step' \in Grading => step \in Grading)
          /\ step' \notin {"agent", "read"}
      BY <1>3 DEF Conclusion!Prepare, Conclusion!CaptureAgentOutputs, Conclusion!phaseVars, Attempted,
         Ran, Grading
    <2> QED
      BY <1>1, <1>2, <2>1, Unrecorded DEF ResultIsItsOwn, PhasesAgree
  <1>4. CASE Conclusion!BeginAttempt
    <2>1. ResultIsItsOwn'
      <3>1. out' = [out EXCEPT !["result"] = Conclusion!Absent] /\ response' = Conclusion!Absent
        BY <1>4 DEF Conclusion!BeginAttempt, Conclusion!ClearedOut
      <3>2. DOMAIN out' = Conclusion!Files /\ out'["result"] = Conclusion!Absent
        BY <1>2, <3>1 DEF ResultIsItsOwn, Conclusion!Files
      <3> QED
        BY <3>1, <3>2 DEF ResultIsItsOwn, Conclusion!Absent
    <2>2. PhasesAgree'
      BY <1>4 DEF Conclusion!BeginAttempt, PhasesAgree, Ran, Grading, Attempted
    <2> QED
      BY <1>1, <2>1, <2>2, Unrecorded
  <1>5. CASE Conclusion!Agent
    <2>1. PICK exit \in Conclusion!Exits, res \in Conclusion!Contents, output \in Conclusion!Contents :
            Conclusion!AgentEnds(exit, res, output)
      BY <1>5 DEF Conclusion!Agent, Conclusion!Contents
    <2>2. ResultIsItsOwn'
      <3>1. /\ out' = [out EXCEPT !["result"] = Conclusion!Written("result", res),
                                  !["agent_output"] = Conclusion!Written("agent_output", output)]
            /\ response' = response /\ tries' = tries
        BY <2>1 DEF Conclusion!AgentEnds
      <3>2. DOMAIN out' = Conclusion!Files /\ out'["result"] = Conclusion!Written("result", res)
        BY <1>2, <3>1 DEF ResultIsItsOwn, Conclusion!Files
      <3> QED
        BY <1>2, <3>1, <3>2 DEF ResultIsItsOwn, Conclusion!Written
    <2>3. PhasesAgree'
      BY <1>2, <2>1 DEF Conclusion!AgentEnds, PhasesAgree, Ran, Grading, Attempted
    <2> QED
      BY <1>1, <2>2, <2>3, Unrecorded
  <1>6. CASE Conclusion!ReadResult
    <2>1. ResultIsItsOwn'
      BY <1>2, <1>6 DEF Conclusion!ReadResult, ResultIsItsOwn
    <2>2. PhasesAgree'
      <3>1. agent' = agent /\ row' = row /\ grader' = grader /\ agent \in Conclusion!Exits
        BY <1>2, <1>6 DEF Conclusion!ReadResult, PhasesAgree, Ran, Grading, Attempted
      <3>2. agent' = "timeout" => grade_error'
        BY <1>6, <3>1, Zenon DEF Conclusion!ReadResult
      <3>3. step' \notin {"agent", "read"} /\ (step' \in Grading => agent # "timeout") /\ row = "none"
        BY <1>2, <1>6 DEF Conclusion!ReadResult, PhasesAgree, Grading
      <3> QED
        BY <1>2, <3>1, <3>2, <3>3 DEF PhasesAgree
    <2> QED
      BY <1>1, <2>1, <2>2, Unrecorded
  <1>7. CASE Conclusion!Grader
    <2>1. PICK exit \in Conclusion!Exits, output \in Conclusion!Contents : Conclusion!RunGrader(exit, output)
      BY <1>7 DEF Conclusion!Grader
    <2>2. ResultIsItsOwn'
      <3>1. /\ out' = [out EXCEPT !["grader_output"] = Conclusion!Written("grader_output", output)]
            /\ response' = response /\ tries' = tries
        BY <2>1 DEF Conclusion!RunGrader
      <3>2. DOMAIN out' = Conclusion!Files /\ out'["result"] = out["result"]
        BY <1>2, <3>1 DEF ResultIsItsOwn, Conclusion!Files
      <3> QED
        BY <1>2, <3>1, <3>2 DEF ResultIsItsOwn
    <2>3. PhasesAgree'
      BY <1>2, <2>1 DEF Conclusion!RunGrader, PhasesAgree, Ran, Grading, Attempted
    <2> QED
      BY <1>1, <2>2, <2>3, Unrecorded
  <1>8. CASE Conclusion!Conclude
    <2>1. ResultIsItsOwn'
      BY <1>2, <1>8 DEF Conclusion!Conclude, ResultIsItsOwn
    <2>2. PhasesAgree'
      BY <1>2, <1>8 DEF Conclusion!Conclude, Conclusion!reported_outcome, PhasesAgree, Ran, Grading,
         Attempted
    <2> QED
      BY <1>1, <2>1, <2>2, Unrecorded
  <1> QED
    BY <1>3, <1>4, <1>5, <1>6, <1>7, <1>8

-----------------------------------------------------------------------------
\* The attempt is over and is not touched any more.
LEMMA AttemptIsKept ==
  ASSUME UNCHANGED <<conf, tries, out, Conclusion!phaseVars>>
  PROVE  /\ ResultIsItsOwn' <=> ResultIsItsOwn
         /\ Conclusion!Success' <=> Conclusion!Success
         /\ Conclusion!failure_classification' = Conclusion!failure_classification
         /\ Conclusion!ClassifiedState' = Conclusion!ClassifiedState
         /\ Conclusion!slot_status' = Conclusion!slot_status
         /\ Conclusion!Graded' <=> Conclusion!Graded
         /\ Conclusion!TrialOutcome' = Conclusion!TrialOutcome
  <1>1. /\ conf' = conf /\ tries' = tries /\ out' = out /\ agent' = agent
        /\ response' = response /\ grader' = grader /\ row' = row /\ grade_error' = grade_error
    BY DEF Conclusion!phaseVars
  <1>2. (Conclusion!Graded' <=> Conclusion!Graded) /\ (ResultIsItsOwn' <=> ResultIsItsOwn)
        /\ Conclusion!agent_response_execution_outcome' = Conclusion!agent_response_execution_outcome
    BY <1>1, Zenon DEF Conclusion!Graded, ResultIsItsOwn, Conclusion!agent_response_execution_outcome
  <1>3. Conclusion!TrialOutcome' = Conclusion!TrialOutcome
    BY <1>1, <1>2, Zenon DEF Conclusion!TrialOutcome, Conclusion!Graded,
       Conclusion!agent_response_execution_outcome
  <1>4. Conclusion!Success' <=> Conclusion!Success
    BY <1>1, <1>3, Zenon DEF Conclusion!Success
  <1>5. /\ Conclusion!failure_classification' = Conclusion!failure_classification
        /\ Conclusion!slot_status' = Conclusion!slot_status
    BY <1>1, Zenon DEF Conclusion!failure_classification, Conclusion!slot_status,
       Conclusion!TrialOutcome, Conclusion!Graded,
         Conclusion!agent_response_execution_outcome
  <1>6. Conclusion!ClassifiedState' = Conclusion!ClassifiedState
    BY <1>5 DEF Conclusion!ClassifiedState
  <1> QED
    BY <1>2, <1>3, <1>4, <1>5, <1>6

\* The phases still agree at a later stage.
LEMMA PhasesStay ==
  ASSUME PhasesAgree, UNCHANGED Conclusion!phaseVars, step \in Attempted,
         step' \in Attempted \cup {"next"}
  PROVE  PhasesAgree'
  <1>1. /\ agent' = agent /\ grader' = grader /\ row' = row /\ grade_error' = grade_error
    BY DEF Conclusion!phaseVars
  <1>2. agent \in Conclusion!Exits /\ (agent = "timeout" => grade_error)
    BY DEF PhasesAgree, Attempted, Ran
  <1>3. step' \notin Grading \cup {"agent", "read"}
    BY DEF Attempted, Grading
  <1> QED
    BY <1>1, <1>2, <1>3 DEF PhasesAgree

LEMMA DecideKeeps ==
  ASSUME ConclusionInv, Conclusion!Decide
  PROVE  ConclusionInv'
  <1>1. /\ step \in Attempted \ Recorded /\ step' \in {"next", "buffer"} /\ record' = record
        /\ UNCHANGED <<conf, tries, out, Conclusion!phaseVars>>
    BY DEF Conclusion!Decide, Attempted, Recorded
  <1>2. ResultIsItsOwn'
    BY <1>1, AttemptIsKept DEF ConclusionInv
  <1>3. PhasesAgree'
    BY <1>1, PhasesStay DEF ConclusionInv, Attempted
  <1>4. ~given_up'
    <2>1. CASE step' = "next"
      <3>1. /\ Conclusion!should_retry_outcome(Conclusion!grading_retry_inputs[1], Conclusion!grading_retry_inputs[2])
            /\ given_up' = (given_up \/ Conclusion!Success)
        BY <2>1 DEF Conclusion!Decide
      <3>2. ~Conclusion!Success
        BY <1>1, <3>1, SuccessIsNotRetried DEF ConclusionInv
      <3>3. ~given_up
        BY DEF ConclusionInv
      <3> QED
        BY <3>1, <3>2, <3>3, Zenon
    <2>2. CASE step' = "buffer"
      BY <2>2, Zenon DEF Conclusion!Decide, ConclusionInv
    <2> QED
      BY <1>1, <2>1, <2>2
  <1>5. EndAgrees'
    <2>1. ~record'.success
      BY <1>1 DEF ConclusionInv, EndAgrees
    <2> QED
      BY <1>1, <2>1 DEF EndAgrees
  <1> QED
    BY <1>2, <1>3, <1>4, <1>5 DEF ConclusionInv

\* finalize_scheduled_trial.
LEMMA FinalizeKeeps ==
  ASSUME ConclusionInv,
         \/ Conclusion!BufferRecord \/ Conclusion!Classify
         \/ \E keep \in BOOLEAN : Conclusion!Publish(keep)
  PROVE  ConclusionInv'
  <1>1. /\ step \in {"buffer", "classify", "publish"} /\ step' \in Recorded /\ given_up' = given_up
        /\ UNCHANGED <<conf, tries, out, Conclusion!phaseVars>>
    BY DEF Conclusion!BufferRecord, Conclusion!Classify, Conclusion!Publish, Recorded
  <1>2. ResultIsItsOwn'
    BY <1>1, AttemptIsKept DEF ConclusionInv
  <1>3. PhasesAgree'
    BY <1>1, PhasesStay DEF ConclusionInv, Attempted, Recorded
  <1>4. /\ Conclusion!Success' <=> Conclusion!Success
        /\ Conclusion!ClassifiedState' = Conclusion!ClassifiedState
        /\ Conclusion!slot_status' = Conclusion!slot_status
    BY <1>1, AttemptIsKept
  <1>5. record'.success => step' \in Recorded /\ Conclusion!Success'
    <2>1. CASE Conclusion!BufferRecord
      <3>1. record'.success <=> Conclusion!Success
        BY <2>1, Zenon DEF Conclusion!BufferRecord
      <3> QED
        BY <1>1, <1>4, <3>1
    <2>2. CASE record' = record
      <3>1. record.success => Conclusion!Success
        BY DEF ConclusionInv, EndAgrees
      <3> QED
        BY <1>1, <1>4, <2>2, <3>1
    <2> QED
      BY <2>1, <2>2 DEF Conclusion!Classify, Conclusion!Publish
  <1>6. EndAgrees'
    <2> DEFINE End == Conclusion!ClassifiedState
    <2>1. step' = "publish" => state' = End
      BY DEF Conclusion!BufferRecord, Conclusion!Classify, Conclusion!Publish
    <2>2. step' = "ok" => slot' = Conclusion!slot_status /\ state' \in {"none", End}
      <3> SUFFICES ASSUME step' = "ok" PROVE slot' = Conclusion!slot_status /\ state' \in {"none", End}
        OBVIOUS
      <3>1. PICK keep \in BOOLEAN : Conclusion!Publish(keep)
        BY DEF Conclusion!BufferRecord, Conclusion!Classify
      <3>2. state = End
        BY <3>1 DEF Conclusion!Publish, ConclusionInv, EndAgrees
      <3> HIDE DEF End
      <3> QED
        BY <3>1, <3>2 DEF Conclusion!Publish
    <2>3. step' # "err"
      BY <1>1 DEF Recorded
    <2> QED
      BY <1>4, <1>5, <2>1, <2>2, <2>3 DEF EndAgrees
  <1>7. ~given_up'
    BY <1>1 DEF ConclusionInv
  <1> QED
    BY <1>2, <1>3, <1>6, <1>7 DEF ConclusionInv

LEMMA FailsKeeps ==
  ASSUME ConclusionInv, Conclusion!Fails
  PROVE  ConclusionInv'
  <1>1. /\ step' = "err" /\ given_up' = given_up /\ record' = Conclusion!NoRecord
        /\ UNCHANGED <<conf, tries, out, Conclusion!phaseVars>>
    BY DEF Conclusion!Fails
  <1>2. ResultIsItsOwn'
    BY <1>1, AttemptIsKept DEF ConclusionInv
  <1>3. PhasesAgree'
    <2>1. row' = row /\ grader' = grader
      BY <1>1 DEF Conclusion!phaseVars
    <2>2. step' \notin Ran /\ step' \notin Grading \cup {"agent", "read"} /\ step' \notin Attempted
      BY <1>1 DEF Ran, Grading, Attempted
    <2> QED
      BY <2>1, <2>2 DEF ConclusionInv, PhasesAgree
  <1>4. ~record'.success
    BY <1>1, Zenon DEF Conclusion!NoRecord
  <1>5. ~unmarked' => state' # "running"
    <2>1. CASE state' \in Conclusion!Aborted
      <3>1. step = "publish" => state # "running"
        BY DEF ConclusionInv, EndAgrees, Conclusion!ClassifiedState
      <3> QED
        BY <2>1, <3>1 DEF Conclusion!Aborted
    <2>2. CASE unmarked'
      BY <2>2
    <2> QED
      BY <2>1, <2>2, Zenon DEF Conclusion!Fails
  <1>6. EndAgrees' /\ ~given_up'
    BY <1>1, <1>4, <1>5 DEF ConclusionInv, EndAgrees
  <1> QED
    BY <1>2, <1>3, <1>6 DEF ConclusionInv

LEMMA ConclusionStep == ConclusionInv /\ [Conclusion!Next]_Conclusion!vars => ConclusionInv'
  <1> SUFFICES ASSUME ConclusionInv, [Conclusion!Next]_Conclusion!vars PROVE ConclusionInv'
    OBVIOUS
  <1>1. CASE UNCHANGED Conclusion!vars
    <2>1. UNCHANGED <<conf, tries, out, Conclusion!phaseVars>> /\ UNCHANGED <<step, Conclusion!endVars>>
      BY <1>1 DEF Conclusion!vars
    <2>2. /\ Conclusion!Success' <=> Conclusion!Success
          /\ Conclusion!ClassifiedState' = Conclusion!ClassifiedState
          /\ Conclusion!slot_status' = Conclusion!slot_status
          /\ ResultIsItsOwn'
      BY <2>1, AttemptIsKept DEF ConclusionInv
    <2>3. PhasesAgree'
      BY <2>1 DEF ConclusionInv, PhasesAgree, Conclusion!phaseVars
    <2>4. step' = step /\ state' = state /\ slot' = slot /\ unmarked' = unmarked /\ record' = record /\ given_up' = given_up
      BY <2>1 DEF Conclusion!endVars
    <2>5. EndAgrees' /\ ~given_up'
      BY <2>2, <2>4 DEF ConclusionInv, EndAgrees
    <2> QED
      BY <2>2, <2>3, <2>5 DEF ConclusionInv
  <1>2. CASE Conclusion!Next
    BY <1>1, <1>2, AttemptKeeps, DecideKeeps, FinalizeKeeps, FailsKeeps DEF Conclusion!Next,
       Conclusion!Worker, Conclusion!Done
  <1> QED
    BY <1>1, <1>2

LEMMA ConclusionInvIsTrue ==
  ConclusionInv => Conclusion!SuccessIsEarned /\ Conclusion!SuccessIsKept /\ Conclusion!StateAgreesWithSlot
  <1> SUFFICES ASSUME ConclusionInv
               PROVE  Conclusion!SuccessIsEarned /\ Conclusion!SuccessIsKept /\ Conclusion!StateAgreesWithSlot
    OBVIOUS
  <1>1. PhasesAgree /\ ResultIsItsOwn
    BY DEF ConclusionInv
  <1>2. Conclusion!SuccessIsEarned
    <2> SUFFICES ASSUME record.success PROVE Conclusion!SuccessIsEarned
      BY DEF Conclusion!SuccessIsEarned
    <2>1. step \in Attempted /\ Conclusion!Success
      BY DEF ConclusionInv, EndAgrees, Recorded, Attempted
    <2>2. /\ agent # "timeout"
          /\ Conclusion!Graded => grader = "0"
          /\ ~Conclusion!Graded => agent = "0" /\ response.content \notin {"none", "bad"}
      BY <1>1, <2>1, SuccessMeans
    <2>3. Conclusion!slot_status = "completed"
      BY <1>1, <2>1, SuccessIsCompleted
    <2>4. step = "ok" => slot = "completed"
      BY <2>3 DEF ConclusionInv, EndAgrees
    <2> QED
      BY <1>1, <2>2, <2>4 DEF Conclusion!SuccessIsEarned, ResultIsItsOwn
  <1>3. Conclusion!SuccessIsKept
    BY DEF ConclusionInv, Conclusion!SuccessIsKept
  <1>4. Conclusion!StateAgreesWithSlot
    <2>1. step \in Conclusion!Over /\ ~unmarked => state # "running"
      BY DEF Conclusion!Over, ConclusionInv, EndAgrees, Conclusion!ClassifiedState
    <2>2. ASSUME step = "ok", state # "none", ~(~Conclusion!Graded /\ agent = "0" /\ response.content = "none")
          PROVE  state = "completed" <=> slot = "completed"
      <3>1. Conclusion!failure_classification = "none" <=> Conclusion!slot_status = "completed"
        BY <1>1, <2>2, ClassificationAgrees DEF Attempted
      <3>2. /\ slot = Conclusion!slot_status
            /\ state = IF Conclusion!failure_classification = "none" THEN "completed" ELSE "failed"
        BY <2>2 DEF ConclusionInv, EndAgrees, Conclusion!ClassifiedState
      <3> QED
        BY <3>1, <3>2
    <2> QED
      BY <2>1, <2>2 DEF Conclusion!StateAgreesWithSlot
  <1> QED
    BY <1>2, <1>3, <1>4

\* For any number of callers, writes, lines and attempts what is recorded is what happened: the
\* store is what its callers were told it may be, the committed rows of a trial are its trajectory, and the
\* record, the state and the slot of a trial agree with its last attempt, but for a missing result
\* and a state the guard could not write (run_store_writer_loop, live_event_ingest_loop,
\* commit_schedule_slot_transaction, finalize_scheduled_trial, TrialStateGuard).
THEOREM RecordsStayTrue == Writer!Spec /\ Events!Spec /\ Conclusion!Spec => []RecordsAreTrue
  <1>1. Writer!Spec => []WriterInv
    BY WriterBegins, WriterStep, PTL DEF Writer!Spec
  <1>2. Events!Spec => []IngestInv
    BY IngestBegins, IngestStep, PTL DEF Events!Spec
  <1>3. Conclusion!Spec => []ConclusionInv
    BY ConclusionBegins, ConclusionStep, PTL DEF Conclusion!Spec
  <1>4. WriterInv /\ IngestInv /\ ConclusionInv => RecordsAreTrue
    BY WriterInvMatches, IngestInvIsTheTrajectory, ConclusionInvIsTrue DEF RecordsAreTrue
  <1> QED
    BY <1>1, <1>2, <1>3, <1>4, PTL

-----------------------------------------------------------------------------
(* Preflight.                                                              *)

\* A run that Docker will run, with its agent in a container, and no check that failed.
Unfailed == failed = {} /\ pkg.executor = "LocalDocker" /\ pkg.site # "Host"

\* The probe was made in every image, for the variants of V.
Tried(probe, V) == \A v \in V, i \in 1 .. pkg.images : <<probe, v, i>> \in proved

AllVariants == 1 .. Variants
Earlier == {v \in AllVariants : v < variant}

PreflightTypes ==
  /\ pkg \in Checks!Packages /\ variant \in Nat
  /\ index \in Nat \ {0}
  /\ at \in [Probers -> Nat]
  /\ outcome \in [1 .. PkgImages -> {"none", "ok", "fail"}]
  /\ broke \in BOOLEAN

\* The pool hands each index out once: what a thread has in hand is taken, has no result yet
\* and is in no other hand; an index that is taken and in no hand has a result; a result is the
\* truth about the image.  Where nothing is probed the pool is empty.
PoolIsSound ==
  /\ ~Checks!Probing => index = 1
  /\ index <= pkg.images + 1
  /\ \A w \in Probers : at[w] # 0 => at[w] < index /\ outcome[at[w]] = "none"
  /\ \A v, w \in Probers : at[v] = at[w] /\ at[v] # 0 => v = w
  /\ \A i \in 1 .. PkgImages :
       /\ i >= index => outcome[i] = "none"
       /\ i < index => outcome[i] # "none" \/ \E w \in Probers : at[w] = i
       /\ outcome[i] = "ok" => <<stage, variant, i>> \in proved

\* A probe that failed is in the report, or among the results that will be.
NothingIsForgotten == broke /\ pkg.executor = "LocalDocker" => failed # {} \/ Checks!ProbesFailed

\* What has been tried when the checks have come this far and none has failed.
StageIsEarned ==
  Unfailed =>
    /\ stage \in {"connect", "idle"} => Tried("fetch", Earlier)
    /\ stage = "idle" => Checks!ImagesResolved(pkg) /\ Tried("fetch", {variant})
    /\ stage \in {"agent", "grader", "report", "started"} =>
         Checks!ImagesResolved(pkg) /\ Tried("fetch", AllVariants)
    /\ stage = "agent" => Tried("agent", Earlier)
    /\ stage \in {"grader", "report", "started"} => Tried("agent", AllVariants)
    /\ stage = "grader" => pkg.env /\ (pkg.strategy \notin {"None", "Host"} => Tried("grader", Earlier))
    /\ stage \in {"report", "started"} =>
         (pkg.strategy \notin {"None", "Host"} => Tried("grader", AllVariants))

\* The first checks are made once, before anything is probed, and a run that starts has failed none.
ChecksBegin ==
  /\ stage \in {"shape", "host"} => variant = 1
  /\ stage = "shape" => ~broke
  /\ stage = "started" => failed = {}

PreflightInv == PreflightTypes /\ PoolIsSound /\ NothingIsForgotten /\ StageIsEarned /\ ChecksBegin

-----------------------------------------------------------------------------
LEMMA PreflightBegins == Checks!Init => PreflightInv
  <1> SUFFICES ASSUME Checks!Init PROVE PreflightInv
    OBVIOUS
  <1>1. PreflightTypes
    <2>1. /\ pkg \in Checks!Packages /\ variant \in Nat /\ index \in Nat \ {0}
          /\ at \in [Probers -> Nat]
          /\ outcome \in [1 .. PkgImages -> {"none", "ok", "fail"}]
      BY DEF Checks!Init
    <2>2. broke \in BOOLEAN
      BY DEF Checks!Init
    <2> QED
      BY <2>1, <2>2 DEF PreflightTypes
  <1>2. PoolIsSound
    BY <1>1, PreflightAssumption DEF Checks!Init, PoolIsSound, PreflightTypes, Checks!Packages
  <1>3. NothingIsForgotten
    BY DEF Checks!Init, NothingIsForgotten
  <1>4. StageIsEarned
    BY DEF Checks!Init, StageIsEarned
  <1>5. ChecksBegin
    BY DEF Checks!Init, ChecksBegin
  <1> QED
    BY <1>1, <1>2, <1>3, <1>4, <1>5 DEF PreflightInv

LEMMA PkgTypes ==
  ASSUME PreflightTypes
  PROVE  /\ pkg.images \in 0 .. PkgImages /\ pkg.images \in Nat /\ pkg.images <= PkgImages
         /\ PkgImages \in Nat /\ Variants \in Nat
  BY PreflightAssumption DEF PreflightTypes, Checks!Packages

\* An empty pool is sound, whatever is probed next.
LEMMA EmptyPool ==
  ASSUME PreflightTypes, pkg' = pkg, index' = 1, at' = [w \in Probers |-> 0],
         outcome' = [i \in 1 .. PkgImages |-> "none"]
  PROVE  PoolIsSound' /\ ~Checks!ProbesFailed'
  <1>1. /\ \A w \in Probers : at'[w] = 0
        /\ \A i \in 1 .. PkgImages : outcome'[i] = "none" /\ ~(i < 1)
        /\ 1 <= pkg.images + 1 /\ \A i \in 1 .. pkg.images : i \in 1 .. PkgImages
    BY PkgTypes
  <1> QED
    BY <1>1 DEF PoolIsSound, Checks!ProbesFailed

\* Where nothing is probed the pool is as it was made.
LEMMA IdlePool ==
  ASSUME PreflightTypes, PoolIsSound, ~Checks!Probing
  PROVE  /\ index = 1 /\ at = [w \in Probers |-> 0] /\ outcome = [i \in 1 .. PkgImages |-> "none"]
         /\ ~Checks!ProbesFailed
  <1>1. index = 1
    BY DEF PoolIsSound
  <1>2. \A w \in Probers : at[w] = 0
    BY <1>1 DEF PoolIsSound, PreflightTypes
  <1>3. \A i \in 1 .. PkgImages : outcome[i] = "none"
    <2> SUFFICES ASSUME NEW i \in 1 .. PkgImages PROVE outcome[i] = "none"
      OBVIOUS
    <2>1. i >= index
      BY <1>1, PkgTypes
    <2> QED
      BY <2>1 DEF PoolIsSound
  <1>4. ~Checks!ProbesFailed
    BY <1>3, PkgTypes DEF Checks!ProbesFailed
  <1> QED
    BY <1>1, <1>2, <1>3, <1>4 DEF PreflightTypes

\* When the scope has ended and no probe failed, the probe of this variant was made in
\* every image.
LEMMA ScopeIsComplete ==
  ASSUME PreflightTypes, PoolIsSound, Checks!ScopeEnds, ~Checks!ProbesFailed
  PROVE  Tried(stage, {variant})
  <1> SUFFICES ASSUME NEW i \in 1 .. pkg.images PROVE <<stage, variant, i>> \in proved
    BY DEF Tried
  <1>1. i \in 1 .. PkgImages /\ i < index /\ outcome[i] # "fail"
    BY PkgTypes DEF Checks!ScopeEnds, Checks!ProbesFailed, PreflightTypes
  <1>2. ~\E w \in Probers : at[w] = i
    BY <1>1 DEF Checks!ScopeEnds
  <1>3. outcome[i] \in {"none", "ok", "fail"}
    BY <1>1 DEF PreflightTypes
  <1>4. outcome[i] = "ok"
    BY <1>1, <1>2, <1>3 DEF PoolIsSound
  <1> QED
    BY <1>1, <1>4 DEF PoolIsSound

\* What was tried stays tried.
LEMMA TriedStays ==
  ASSUME pkg' = pkg, proved \subseteq proved', NEW probe, NEW V, Tried(probe, V)
  PROVE  Tried(probe, V)'
  BY DEF Tried

\* For the first variant there is nothing earlier; for the next one, the one before it as well;
\* after the last, the earlier ones and the last are all.
LEMMA NextVariantTried ==
  ASSUME PreflightTypes, pkg' = pkg, proved \subseteq proved', NEW probe, Tried(probe, Earlier),
         \A i \in 1 .. pkg.images : <<probe, variant, i>> \in proved'
  PROVE  /\ variant' = variant + 1 => Tried(probe, Earlier)'
         /\ ~(variant < Variants) => Tried(probe, AllVariants)'
  <1>1. ASSUME NEW v \in AllVariants, NEW i \in 1 .. pkg.images, v <= variant
        PROVE  <<probe, v, i>> \in proved'
    BY <1>1, PkgTypes DEF PreflightTypes, Tried, Earlier, AllVariants
  <1>2. ASSUME variant' = variant + 1, NEW v \in Earlier' PROVE v \in AllVariants /\ v <= variant
    BY <1>2, PkgTypes DEF PreflightTypes, Earlier, AllVariants
  <1>3. ASSUME ~(variant < Variants), NEW v \in AllVariants PROVE v <= variant
    BY <1>3, PkgTypes DEF PreflightTypes, AllVariants
  <1>4. variant' = variant + 1 => Tried(probe, Earlier)'
    BY <1>1, <1>2 DEF Tried
  <1>5. ~(variant < Variants) => Tried(probe, AllVariants)'
    BY <1>1, <1>3 DEF Tried
  <1> QED
    BY <1>4, <1>5

LEMMA FirstVariantTried ==
  ASSUME variant' = 1, NEW probe
  PROVE  Tried(probe, Earlier)'
  <1>1. Earlier' = {}
    BY PreflightAssumption DEF Earlier, AllVariants
  <1> QED
    BY <1>1 DEF Tried

\* A check that probes nothing, and leaves the pool as it is.
LEMMA PoolIsLeft ==
  ASSUME PreflightTypes, PoolIsSound, ~Checks!Probing, pkg' = pkg, UNCHANGED Checks!pool
  PROVE  PoolIsSound' /\ ~Checks!ProbesFailed' /\ ~Checks!ProbesFailed
  BY IdlePool, EmptyPool DEF Checks!pool

LEMMA CheckShapeKeeps ==
  ASSUME PreflightInv, Checks!CheckShape
  PROVE  PreflightInv'
  <1>1. /\ stage = "shape" /\ pkg' = pkg /\ UNCHANGED <<variant, Checks!pool, proved, broke>>
        /\ stage' = "host" \/ (stage' = "report" /\ failed' # {})
    BY DEF Checks!CheckShape
  <1>2. ~Checks!Probing
    BY <1>1 DEF Checks!Probing
  <1>3. PreflightTypes'
    BY <1>1 DEF PreflightInv, PreflightTypes, Checks!pool
  <1>4. PoolIsSound'
    BY <1>1, <1>2, PoolIsLeft DEF PreflightInv
  <1>5. NothingIsForgotten' /\ ChecksBegin'
    BY <1>1 DEF PreflightInv, ChecksBegin, NothingIsForgotten
  <1>6. StageIsEarned'
    BY <1>1 DEF StageIsEarned, Unfailed
  <1> QED
    BY <1>3, <1>4, <1>5, <1>6 DEF PreflightInv

LEMMA CheckHostKeeps ==
  ASSUME PreflightInv, Checks!CheckHost
  PROVE  PreflightInv'
  <1>1. /\ stage = "host" /\ pkg' = pkg /\ UNCHANGED <<variant, Checks!pool, proved, broke>>
        /\ failed \subseteq failed'
        /\ stage' = IF Checks!ContainerRequired(pkg) THEN "connect" ELSE "agent"
    BY DEF Checks!CheckHost
  <1>2. ~Checks!Probing
    BY <1>1 DEF Checks!Probing
  <1>3. PreflightTypes'
    BY <1>1 DEF PreflightInv, PreflightTypes, Checks!pool
  <1>4. PoolIsSound' /\ ~Checks!ProbesFailed
    BY <1>1, <1>2, PoolIsLeft DEF PreflightInv
  <1>5. NothingIsForgotten' /\ ChecksBegin'
    BY <1>1, <1>4 DEF PreflightInv, ChecksBegin, NothingIsForgotten
  <1>6. StageIsEarned'
    <2> SUFFICES ASSUME Unfailed' PROVE stage' = "connect" /\ Tried("fetch", Earlier)'
      BY <1>1 DEF StageIsEarned
    <2>1. Checks!ContainerRequired(pkg)
      BY <1>1 DEF Unfailed, Checks!ContainerRequired, Checks!InContainer, PreflightInv, PreflightTypes,
         Checks!Packages, Checks!Sites
    <2>2. variant' = 1
      BY <1>1 DEF PreflightInv, ChecksBegin
    <2> QED
      BY <1>1, <2>1, <2>2, FirstVariantTried
  <1> QED
    BY <1>3, <1>4, <1>5, <1>6 DEF PreflightInv

\* A check of the containers that fails, or that is not Docker's.
LEMMA NotReadyKeeps ==
  ASSUME PreflightInv, Checks!ModalReady \/ Checks!NotReady
  PROVE  PreflightInv'
  <1>1. /\ stage = "connect" /\ pkg' = pkg /\ UNCHANGED <<Checks!pool, proved, broke>>
        /\ pkg.executor # "LocalDocker" \/ failed' # {}
        /\ failed \subseteq failed'
        /\ stage' \in {"connect", "report", "agent"} /\ (variant' = variant + 1 \/ variant' = 1)
    BY DEF Checks!ModalReady, Checks!NotReady, Checks!AfterContainerReady, Checks!NextVariantOr
  <1>2. ~Checks!Probing
    BY <1>1 DEF Checks!Probing
  <1>3. PreflightTypes'
    BY <1>1 DEF PreflightInv, PreflightTypes, Checks!pool
  <1>4. PoolIsSound'
    BY <1>1, <1>2, PoolIsLeft DEF PreflightInv
  <1>5. NothingIsForgotten' /\ ChecksBegin'
    BY <1>1 DEF ChecksBegin, NothingIsForgotten
  <1>6. StageIsEarned'
    BY <1>1 DEF StageIsEarned, Unfailed
  <1> QED
    BY <1>3, <1>4, <1>5, <1>6 DEF PreflightInv

LEMMA EnsureImagesKeeps ==
  ASSUME PreflightInv, Checks!EnsureImages
  PROVE  PreflightInv'
  <1>1. PICK have \in SUBSET (1 .. pkg.images) :
          /\ proved' = proved \cup Checks!Fetched(have)
          /\ IF have # 1 .. pkg.images
             THEN /\ failed' = failed \cup {"container_ready"} /\ broke' = TRUE
                  /\ Checks!AfterContainerReady
             ELSE /\ UNCHANGED <<failed, broke>>
                  /\ IF pkg.resolved THEN Checks!AfterContainerReady
                     ELSE stage' = "idle" /\ UNCHANGED variant
    BY DEF Checks!EnsureImages
  <1>2. /\ stage = "connect" /\ pkg.executor = "LocalDocker" /\ Checks!ImagesResolved(pkg)
        /\ pkg' = pkg /\ UNCHANGED Checks!pool /\ proved \subseteq proved'
    BY <1>1 DEF Checks!EnsureImages
  <1>3. ~Checks!Probing
    BY <1>2 DEF Checks!Probing
  <1>4. CASE have # 1 .. pkg.images
    <2>1. /\ failed' # {} /\ broke' = TRUE
          /\ stage' \in {"connect", "report", "agent"} /\ (variant' = variant + 1 \/ variant' = 1)
      BY <1>1, <1>4 DEF Checks!AfterContainerReady, Checks!NextVariantOr
    <2>2. PreflightTypes'
      BY <1>2, <2>1 DEF PreflightInv, PreflightTypes, Checks!pool
    <2>3. PoolIsSound'
      BY <1>2, <1>3, PoolIsLeft DEF PreflightInv
    <2>4. NothingIsForgotten' /\ ChecksBegin' /\ StageIsEarned'
      BY <2>1 DEF ChecksBegin, NothingIsForgotten, StageIsEarned, Unfailed
    <2> QED
      BY <2>2, <2>3, <2>4 DEF PreflightInv
  <1>5. CASE have = 1 .. pkg.images
    <2>1. /\ UNCHANGED <<failed, broke>>
          /\ \/ stage' = "idle" /\ variant' = variant
             \/ variant < Variants /\ variant' = variant + 1 /\ stage' = "connect"
             \/ /\ ~(variant < Variants) /\ variant' = 1
                /\ stage' = IF "container_ready" \in failed THEN "report" ELSE "agent"
      BY <1>1, <1>5 DEF Checks!AfterContainerReady, Checks!NextVariantOr
    <2>2. PreflightTypes'
      BY <1>2, <2>1 DEF PreflightInv, PreflightTypes, Checks!pool
    <2>3. PoolIsSound' /\ ~Checks!ProbesFailed
      BY <1>2, <1>3, PoolIsLeft DEF PreflightInv
    <2>4. NothingIsForgotten' /\ ChecksBegin'
      BY <1>2, <2>1, <2>3 DEF PreflightInv, ChecksBegin, NothingIsForgotten
    <2>5. \A i \in 1 .. pkg.images : <<"fetch", variant, i>> \in proved'
      BY <1>1, <1>5 DEF Checks!Fetched
    <2>6. StageIsEarned'
      <3> SUFFICES ASSUME Unfailed' PROVE StageIsEarned'
        BY DEF StageIsEarned
      <3>1. Unfailed /\ Tried("fetch", Earlier) /\ failed = {}
        BY <1>2, <2>1 DEF PreflightInv, StageIsEarned, Unfailed
      <3>2. Checks!ImagesResolved(pkg)'
        BY <1>2
      <3>3. CASE stage' = "idle" /\ variant' = variant
        <4>1. Tried("fetch", Earlier)' /\ Tried("fetch", {variant})'
          BY <1>2, <2>5, <3>1, <3>3 DEF Tried, Earlier
        <4> QED
          BY <3>2, <3>3, <4>1 DEF StageIsEarned
      <3>4. CASE variant < Variants /\ variant' = variant + 1 /\ stage' = "connect"
        <4>1. Tried("fetch", Earlier)'
          BY <1>2, <2>5, <3>1, <3>4, NextVariantTried DEF PreflightInv
        <4> QED
          BY <3>4, <4>1 DEF StageIsEarned
      <3>5. CASE ~(variant < Variants) /\ variant' = 1 /\ stage' = "agent"
        <4>1. Tried("fetch", AllVariants)'
          BY <1>2, <2>5, <3>1, <3>5, NextVariantTried DEF PreflightInv
        <4>2. Tried("agent", Earlier)'
          BY <3>5, FirstVariantTried
        <4> QED
          BY <3>2, <3>5, <4>1, <4>2 DEF StageIsEarned
      <3> QED
        BY <2>1, <3>1, <3>3, <3>4, <3>5
    <2> QED
      BY <2>2, <2>3, <2>4, <2>6 DEF PreflightInv
  <1> QED
    BY <1>4, <1>5

-----------------------------------------------------------------------------
\* Nothing but the pool, the history and the results changes, and what is tried only grows.
LEMMA StageIsLeft ==
  ASSUME StageIsEarned, UNCHANGED <<pkg, stage, variant, failed>>, proved \subseteq proved'
  PROVE  StageIsEarned'
  <1>1. \A probe, V : Tried(probe, V) => \A v \in V, i \in 1 .. pkg'.images : <<probe, v, i>> \in proved'
    BY DEF Tried
  <1>2. Earlier' = Earlier
    BY DEF Earlier
  <1>3. /\ Tried("fetch", Earlier) => Tried("fetch", Earlier)'
        /\ Tried("agent", Earlier) => Tried("agent", Earlier)'
        /\ Tried("grader", Earlier) => Tried("grader", Earlier)'
        /\ Tried("fetch", {variant}) => Tried("fetch", {variant})'
        /\ Tried("fetch", AllVariants) => Tried("fetch", AllVariants)'
        /\ Tried("agent", AllVariants) => Tried("agent", AllVariants)'
        /\ Tried("grader", AllVariants) => Tried("grader", AllVariants)'
    BY <1>1, <1>2 DEF Tried
  <1>4. (Unfailed' <=> Unfailed) /\ (Checks!ImagesResolved(pkg)' <=> Checks!ImagesResolved(pkg))
    BY DEF Unfailed, Checks!ImagesResolved
  <1> QED
    BY <1>3, <1>4 DEF StageIsEarned

\* A thread takes an index nobody has had.
LEMMA FetchKeeps ==
  ASSUME PreflightInv, NEW w \in Probers, Checks!Fetch(w)
  PROVE  PreflightInv'
  <1>1. /\ Checks!Probing /\ at[w] = 0 /\ index <= pkg.images
        /\ at' = [at EXCEPT ![w] = index] /\ index' = index + 1
        /\ UNCHANGED <<pkg, stage, variant, failed, outcome, proved, broke>>
    BY DEF Checks!Fetch
  <1>2. index \in 1 .. PkgImages /\ pkg.images \in Nat /\ index \in Nat
    BY <1>1, PkgTypes DEF PreflightInv, PreflightTypes
  <1>3. PreflightTypes'
    BY <1>1, <1>2 DEF PreflightInv, PreflightTypes
  <1>4. /\ at'[w] = index /\ \A u \in Probers : u # w => at'[u] = at[u]
        /\ \A u \in Probers : at[u] \in Nat
    BY <1>1 DEF PreflightInv, PreflightTypes
  <1>5. PoolIsSound'
    <2>1. Checks!Probing' /\ index' <= pkg'.images + 1
      BY <1>1, <1>2 DEF Checks!Probing
    <2>2. \A u \in Probers : at'[u] # 0 => at'[u] < index' /\ outcome'[at'[u]] = "none"
      <3>1. outcome[index] = "none"
        <4>1. index >= index
          BY <1>2
        <4> QED
          BY <1>2, <4>1 DEF PreflightInv, PoolIsSound
      <3> QED
        BY <1>1, <1>2, <1>4, <3>1 DEF PreflightInv, PoolIsSound
    <2>3. \A u, v \in Probers : at'[u] = at'[v] /\ at'[u] # 0 => u = v
      BY <1>2, <1>4 DEF PreflightInv, PoolIsSound
    <2>4. ASSUME NEW i \in 1 .. PkgImages
          PROVE  /\ i >= index' => outcome'[i] = "none"
                 /\ i < index' => outcome'[i] # "none" \/ \E u \in Probers : at'[u] = i
                 /\ outcome'[i] = "ok" => <<stage', variant', i>> \in proved'
      <3>1. i \in Nat /\ index \in Nat
        BY <1>2
      <3>2. i >= index' => outcome'[i] = "none"
        <4>1. i >= index' => i >= index
          BY <1>1, <3>1
        <4> QED
          BY <1>1, <4>1 DEF PreflightInv, PoolIsSound
      <3>3. outcome'[i] = "ok" => <<stage', variant', i>> \in proved'
        BY <1>1 DEF PreflightInv, PoolIsSound
      <3>4. CASE i = index
        BY <1>4, <3>2, <3>3, <3>4
      <3>5. CASE i # index
        <4>1. i < index' => i < index
          BY <1>1, <3>1, <3>5
        <4>2. i < index => outcome[i] # "none" \/ \E u \in Probers : at[u] = i
          BY DEF PreflightInv, PoolIsSound
        <4>3. ASSUME NEW u \in Probers, at[u] = i PROVE at'[u] = i
          BY <1>1, <1>4, <3>1, <4>3
        <4> QED
          BY <1>1, <3>2, <3>3, <4>1, <4>2, <4>3
      <3> QED
        BY <3>4, <3>5
    <2> QED
      BY <2>1, <2>2, <2>3, <2>4 DEF PoolIsSound
  <1>6. NothingIsForgotten' /\ ChecksBegin'
    BY <1>1 DEF PreflightInv, NothingIsForgotten, ChecksBegin, Checks!ProbesFailed
  <1>7. StageIsEarned'
    BY <1>1, StageIsLeft DEF PreflightInv
  <1> QED
    BY <1>3, <1>5, <1>6, <1>7 DEF PreflightInv

\* A thread stores the result of its own image, which had none.
LEMMA ProbeKeeps ==
  ASSUME PreflightInv, NEW w \in Probers, Checks!Probe(w)
  PROVE  PreflightInv'
  <1> DEFINE own == at[w]
  <1>1. /\ own # 0 /\ at' = [at EXCEPT ![w] = 0]
        /\ UNCHANGED <<pkg, stage, variant, failed, index>>
        /\ \/ /\ outcome' = [outcome EXCEPT ![own] = "ok"]
              /\ proved' = proved \cup {<<stage, variant, own>>} /\ broke' = broke
           \/ /\ outcome' = [outcome EXCEPT ![own] = "fail"]
              /\ proved' = proved /\ broke' = TRUE
    BY DEF Checks!Probe
  <1>2. /\ own \in 1 .. PkgImages /\ own \in 1 .. pkg.images /\ own < index /\ outcome[own] = "none"
        /\ index \in Nat
    BY <1>1, PkgTypes DEF PreflightInv, PreflightTypes, PoolIsSound
  <1> HIDE DEF own
  <1>3. PreflightTypes'
    <2>1. broke' \in BOOLEAN
      BY <1>1 DEF PreflightInv, PreflightTypes
    <2>2. outcome' \in [1 .. PkgImages -> {"none", "ok", "fail"}] /\ at' \in [Probers -> Nat]
      BY <1>1 DEF PreflightInv, PreflightTypes
    <2> QED
      BY <1>1, <2>1, <2>2 DEF PreflightInv, PreflightTypes
  <1>4. /\ at[w] = own /\ at'[w] = 0 /\ \A u \in Probers : u # w => at'[u] = at[u] /\ at[u] # own
        /\ \A u \in Probers : at[u] \in Nat
        /\ outcome'[own] # "none" /\ \A i \in 1 .. PkgImages : i # own => outcome'[i] = outcome[i]
        /\ outcome'[own] = "ok" => <<stage, variant, own>> \in proved'
        /\ proved \subseteq proved'
    <2>1. at[w] = own /\ \A u \in Probers : u # w => at[u] # own
      BY <1>1 DEF PreflightInv, PoolIsSound, own
    <2>2. at'[w] = 0 /\ \A u \in Probers : u # w => at'[u] = at[u]
      BY <1>1 DEF PreflightInv, PreflightTypes
    <2>3. /\ outcome'[own] # "none" /\ \A i \in 1 .. PkgImages : i # own => outcome'[i] = outcome[i]
          /\ outcome'[own] = "ok" => <<stage, variant, own>> \in proved'
          /\ proved \subseteq proved'
      BY <1>1, <1>2 DEF PreflightInv, PreflightTypes
    <2> QED
      BY <2>1, <2>2, <2>3 DEF PreflightInv, PreflightTypes
  <1>5. PoolIsSound'
    <2>1. /\ ~Checks!Probing' => index' = 1
          /\ index' <= pkg'.images + 1
      BY <1>1 DEF PreflightInv, PoolIsSound, Checks!Probing
    <2>2. ASSUME NEW u \in Probers, at'[u] # 0
          PROVE  at'[u] < index' /\ outcome'[at'[u]] = "none"
      <3>1. u # w /\ at'[u] = at[u] /\ at[u] # own /\ at[u] # 0
        BY <1>4, <2>2
      <3>2. at[u] < index /\ outcome[at[u]] = "none"
        BY <3>1 DEF PreflightInv, PoolIsSound
      <3>3. at[u] \in 1 .. PkgImages
        BY <1>4, <3>1, <3>2, PkgTypes, <1>2 DEF PreflightInv, PoolIsSound
      <3> QED
        BY <1>1, <1>4, <3>1, <3>2, <3>3
    <2>3. \A u, v \in Probers : at'[u] = at'[v] /\ at'[u] # 0 => u = v
      BY <1>4 DEF PreflightInv, PoolIsSound
    <2>4. ASSUME NEW i \in 1 .. PkgImages
          PROVE  /\ i >= index' => outcome'[i] = "none"
                 /\ i < index' => outcome'[i] # "none" \/ \E u \in Probers : at'[u] = i
                 /\ outcome'[i] = "ok" => <<stage', variant', i>> \in proved'
      <3>1. CASE i = own
        <4>1. ~(i >= index')
          BY <1>1, <1>2, <3>1
        <4> QED
          BY <1>1, <1>4, <3>1, <4>1
      <3>2. CASE i # own
        <4>1. outcome'[i] = outcome[i]
          BY <1>4, <3>2
        <4>2. /\ i >= index => outcome[i] = "none"
              /\ i < index => outcome[i] # "none" \/ \E u \in Probers : at[u] = i
              /\ outcome[i] = "ok" => <<stage, variant, i>> \in proved
          BY DEF PreflightInv, PoolIsSound
        <4>3. ASSUME NEW u \in Probers, at[u] = i PROVE at'[u] = i
          BY <1>4, <3>2, <4>3
        <4> QED
          BY <1>1, <1>4, <4>1, <4>2, <4>3
      <3> QED
        BY <3>1, <3>2
    <2> QED
      BY <2>1, <2>2, <2>3, <2>4 DEF PoolIsSound
  <1>6. NothingIsForgotten'
    <2>1. CASE outcome'[own] = "fail"
      BY <1>1, <1>2, <2>1 DEF NothingIsForgotten, Checks!ProbesFailed
    <2>2. CASE outcome'[own] # "fail"
      <3>1. broke' = broke
        BY <1>1, <1>2, <2>2 DEF PreflightInv, PreflightTypes
      <3>2. Checks!ProbesFailed => Checks!ProbesFailed'
        BY <1>1, <1>2, <1>4, PkgTypes DEF Checks!ProbesFailed, PreflightInv
      <3> QED
        BY <1>1, <3>1, <3>2 DEF PreflightInv, NothingIsForgotten
    <2> QED
      BY <2>1, <2>2
  <1>7. StageIsEarned'
    BY <1>1, <1>4, StageIsLeft DEF PreflightInv
  <1>8. ChecksBegin'
    <2>1. stage # "shape"
      <3>1. Checks!Probing
        BY <1>2 DEF PreflightInv, PoolIsSound
      <3> QED
        BY <3>1 DEF Checks!Probing
    <2> QED
      BY <1>1, <2>1 DEF PreflightInv, ChecksBegin
  <1> QED
    BY <1>3, <1>5, <1>6, <1>7, <1>8 DEF PreflightInv

-----------------------------------------------------------------------------
\* A check whose probes are all in: what failed is in the report, and the pool is empty again.
LEMMA ScopeKeeps ==
  ASSUME PreflightInv, Checks!ScopeEnds, Checks!ResetPool, UNCHANGED <<pkg, proved, broke>>, NEW name,
         failed' = IF Checks!ProbesFailed THEN failed \cup {name} ELSE failed,
         variant' \in Nat, stage' \notin {"shape", "host", "started"}
  PROVE  /\ PreflightTypes' /\ PoolIsSound' /\ NothingIsForgotten' /\ ChecksBegin'
         /\ Unfailed' => Unfailed /\ failed' = failed /\ Tried(stage, {variant})
  <1>1. PreflightTypes'
    BY DEF PreflightInv, PreflightTypes, Checks!ResetPool
  <1>2. PoolIsSound'
    BY EmptyPool DEF PreflightInv, Checks!ResetPool
  <1>3. NothingIsForgotten' /\ ChecksBegin'
    BY DEF PreflightInv, NothingIsForgotten, ChecksBegin
  <1>4. Unfailed' => Unfailed /\ failed' = failed /\ Tried(stage, {variant})
    BY ScopeIsComplete DEF PreflightInv, Unfailed
  <1> QED
    BY <1>1, <1>2, <1>3, <1>4

LEMMA IdleProbedKeeps ==
  ASSUME PreflightInv, Checks!IdleProbed
  PROVE  PreflightInv'
  <1>1. /\ stage = "idle" /\ Checks!ScopeEnds /\ Checks!ResetPool /\ UNCHANGED <<pkg, proved, broke>>
        /\ failed' = IF Checks!ProbesFailed THEN failed \cup {"container_ready"} ELSE failed
        /\ \/ variant < Variants /\ variant' = variant + 1 /\ stage' = "connect"
           \/ /\ ~(variant < Variants) /\ variant' = 1
              /\ stage' = IF "container_ready" \in failed' THEN "report" ELSE "agent"
    BY DEF Checks!IdleProbed, Checks!AfterContainerReady, Checks!NextVariantOr
  <1>2. variant' \in Nat /\ stage' \notin {"shape", "host", "started"}
    BY <1>1 DEF PreflightInv, PreflightTypes
  <1>3. /\ PreflightTypes' /\ PoolIsSound' /\ NothingIsForgotten' /\ ChecksBegin'
        /\ Unfailed' => Unfailed /\ failed' = failed
    BY <1>1, <1>2, ScopeKeeps
  <1>4. StageIsEarned'
    <2> SUFFICES ASSUME Unfailed' PROVE StageIsEarned'
      BY DEF StageIsEarned
    <2>1. /\ failed = {} /\ Checks!ImagesResolved(pkg)' /\ Tried("fetch", Earlier)
          /\ \A i \in 1 .. pkg.images : <<"fetch", variant, i>> \in proved'
      BY <1>1, <1>3 DEF PreflightInv, StageIsEarned, Unfailed, Tried
    <2>2. CASE variant < Variants /\ variant' = variant + 1 /\ stage' = "connect"
      <3>1. Tried("fetch", Earlier)'
        BY <1>1, <2>1, <2>2, NextVariantTried DEF PreflightInv
      <3> QED
        BY <2>2, <3>1 DEF StageIsEarned
    <2>3. CASE ~(variant < Variants) /\ variant' = 1 /\ stage' = "agent"
      <3>1. Tried("fetch", AllVariants)'
        BY <1>1, <2>1, <2>3, NextVariantTried DEF PreflightInv
      <3>2. Tried("agent", Earlier)'
        BY <2>3, FirstVariantTried
      <3> QED
        BY <2>1, <2>3, <3>1, <3>2 DEF StageIsEarned
    <2> QED
      BY <1>1, <1>3, <2>1, <2>2, <2>3
  <1> QED
    BY <1>3, <1>4 DEF PreflightInv

LEMMA AgentProbedKeeps ==
  ASSUME PreflightInv, Checks!AgentProbed
  PROVE  PreflightInv'
  <1>1. /\ stage = "agent" /\ Checks!ScopeEnds /\ Checks!ResetPool /\ UNCHANGED <<pkg, proved, broke>>
        /\ failed' = IF Checks!ProbesFailed THEN failed \cup {"agent_runtime_reachable"} ELSE failed
        /\ \/ variant < Variants /\ variant' = variant + 1 /\ stage' = "agent"
           \/ /\ ~(variant < Variants) /\ variant' = 1
              /\ stage' = IF \/ "agent_runtime_reachable" \in failed'
                          \/ pkg.strategy = "None" \/ pkg.executor = "Modal"
                       THEN "report" ELSE "grader"
    BY DEF Checks!AgentProbed, Checks!AfterAgent, Checks!NextVariantOr
  <1>2. variant' \in Nat /\ stage' \notin {"shape", "host", "started"}
    BY <1>1 DEF PreflightInv, PreflightTypes
  <1>3. /\ PreflightTypes' /\ PoolIsSound' /\ NothingIsForgotten' /\ ChecksBegin'
        /\ Unfailed' => Unfailed /\ failed' = failed /\ Tried("agent", {variant})
    BY <1>1, <1>2, ScopeKeeps
  <1>4. pkg.env
    BY <1>1 DEF Checks!ScopeEnds, Checks!Probing
  <1>5. StageIsEarned'
    <2> SUFFICES ASSUME Unfailed' PROVE StageIsEarned'
      BY DEF StageIsEarned
    <2>1. /\ failed' = {} /\ pkg.executor = "LocalDocker" /\ Checks!ImagesResolved(pkg)'
          /\ Tried("agent", Earlier) /\ Tried("fetch", AllVariants)'
          /\ \A i \in 1 .. pkg.images : <<"agent", variant, i>> \in proved'
      BY <1>1, <1>3 DEF PreflightInv, StageIsEarned, Unfailed, Tried
    <2>2. CASE variant < Variants /\ variant' = variant + 1 /\ stage' = "agent"
      <3>1. Tried("agent", Earlier)'
        BY <1>1, <2>1, <2>2, NextVariantTried DEF PreflightInv
      <3> QED
        BY <2>1, <2>2, <3>1 DEF StageIsEarned
    <2>3. CASE ~(variant < Variants) /\ variant' = 1 /\ stage' = "report" /\ pkg.strategy = "None"
      <3>1. Tried("agent", AllVariants)'
        BY <1>1, <2>1, <2>3, NextVariantTried DEF PreflightInv
      <3> QED
        BY <1>1, <2>1, <2>3, <3>1 DEF StageIsEarned
    <2>4. CASE ~(variant < Variants) /\ variant' = 1 /\ stage' = "grader"
      <3>1. Tried("agent", AllVariants)'
        BY <1>1, <2>1, <2>4, NextVariantTried DEF PreflightInv
      <3>2. Tried("grader", Earlier)'
        BY <2>4, FirstVariantTried
      <3> QED
        BY <1>1, <1>4, <2>1, <2>4, <3>1, <3>2 DEF StageIsEarned
    <2> QED
      BY <1>1, <2>1, <2>2, <2>3, <2>4
  <1> QED
    BY <1>3, <1>5 DEF PreflightInv

\* An agent in a container that was not probed, on Docker, is a failure.
LEMMA AgentNotProbedKeeps ==
  ASSUME PreflightInv, Checks!AgentNotProbed
  PROVE  PreflightInv'
  <1>1. /\ stage = "agent" /\ ~Checks!Probing /\ pkg' = pkg /\ UNCHANGED <<Checks!pool, proved, broke>>
        /\ failed \subseteq failed'
        /\ pkg.executor = "Modal" \/ pkg.site = "Host" \/ failed' # {}
        /\ stage' \in {"agent", "report", "grader"} /\ (variant' = variant + 1 \/ variant' = 1)
    BY DEF Checks!AgentNotProbed, Checks!AfterAgent, Checks!NextVariantOr
  <1>2. PreflightTypes'
    BY <1>1 DEF PreflightInv, PreflightTypes, Checks!pool
  <1>3. PoolIsSound' /\ ~Checks!ProbesFailed
    BY <1>1, PoolIsLeft DEF PreflightInv
  <1>4. NothingIsForgotten' /\ ChecksBegin'
    BY <1>1, <1>3 DEF PreflightInv, ChecksBegin, NothingIsForgotten
  <1>5. StageIsEarned'
    BY <1>1 DEF StageIsEarned, Unfailed
  <1> QED
    BY <1>2, <1>3, <1>4, <1>5 DEF PreflightInv

\* The grader's stage is left for the next variant or for the report.
LEMMA GraderKeeps ==
  ASSUME PreflightInv, Checks!GraderProbed \/ Checks!HostGraderChecked
  PROVE  PreflightInv'
  <1>1. /\ stage = "grader" /\ UNCHANGED <<pkg, proved, broke>>
        /\ \/ variant < Variants /\ variant' = variant + 1 /\ stage' = "grader"
           \/ ~(variant < Variants) /\ variant' = 1 /\ stage' = "report"
    BY DEF Checks!GraderProbed, Checks!HostGraderChecked, Checks!NextVariantOr
  <1>2. variant' \in Nat /\ stage' \notin {"shape", "host", "started"}
    BY <1>1 DEF PreflightInv, PreflightTypes
  <1>3. /\ PreflightTypes' /\ PoolIsSound' /\ NothingIsForgotten' /\ ChecksBegin'
        /\ Unfailed' => /\ Unfailed
                        /\ pkg.strategy \notin {"None", "Host"} => Tried("grader", {variant})
    <2>1. CASE Checks!GraderProbed
      <3>1. /\ Checks!ScopeEnds /\ Checks!ResetPool
            /\ failed' = IF Checks!ProbesFailed THEN failed \cup {"grader_reachable"} ELSE failed
        BY <2>1 DEF Checks!GraderProbed
      <3> QED
        BY <1>1, <1>2, <3>1, ScopeKeeps
    <2>2. CASE Checks!HostGraderChecked
      <3>1. ~Checks!Probing /\ UNCHANGED Checks!pool /\ failed \subseteq failed'
        BY <2>2 DEF Checks!HostGraderChecked
      <3>2. PreflightTypes'
        BY <1>1, <1>2, <3>1 DEF PreflightInv, PreflightTypes, Checks!pool
      <3>3. PoolIsSound' /\ ~Checks!ProbesFailed
        BY <1>1, <3>1, PoolIsLeft DEF PreflightInv
      <3>4. NothingIsForgotten' /\ ChecksBegin'
        BY <1>1, <3>1, <3>3 DEF PreflightInv, ChecksBegin, NothingIsForgotten
      <3>5. Unfailed' => Unfailed
        BY <1>1, <3>1 DEF Unfailed
      <3>6. Unfailed => pkg.strategy \in {"None", "Host"}
        BY <1>1, <3>1 DEF PreflightInv, StageIsEarned, Checks!Probing, Unfailed
      <3> QED
        BY <3>2, <3>3, <3>4, <3>5, <3>6
    <2> QED
      BY <2>1, <2>2
  <1>4. StageIsEarned'
    <2> SUFFICES ASSUME Unfailed' PROVE StageIsEarned'
      BY DEF StageIsEarned
    <2>1. /\ Checks!ImagesResolved(pkg)' /\ Tried("fetch", AllVariants)' /\ Tried("agent", AllVariants)'
          /\ pkg'.env
      BY <1>1, <1>3 DEF PreflightInv, StageIsEarned, Tried
    <2>2. CASE pkg.strategy \in {"None", "Host"}
      BY <1>1, <2>1, <2>2 DEF StageIsEarned
    <2>3. CASE pkg.strategy \notin {"None", "Host"}
      <3>1. Tried("grader", Earlier) /\ \A i \in 1 .. pkg.images : <<"grader", variant, i>> \in proved'
        BY <1>1, <1>3, <2>3 DEF PreflightInv, StageIsEarned, Tried
      <3>2. /\ variant' = variant + 1 => Tried("grader", Earlier)'
            /\ ~(variant < Variants) => Tried("grader", AllVariants)'
        BY <1>1, <3>1, NextVariantTried DEF PreflightInv
      <3> QED
        BY <1>1, <2>1, <3>2 DEF StageIsEarned
    <2> QED
      BY <2>2, <2>3
  <1> QED
    BY <1>3, <1>4 DEF PreflightInv

LEMMA ReportKeeps ==
  ASSUME PreflightInv, Checks!Report
  PROVE  PreflightInv'
  <1>1. /\ stage = "report" /\ UNCHANGED <<pkg, variant, failed, Checks!pool, proved, broke>>
        /\ (stage' = "started" /\ failed = {}) \/ (stage' = "preflight_failed" /\ failed # {})
    BY DEF Checks!Report
  <1>2. ~Checks!Probing
    BY <1>1 DEF Checks!Probing
  <1>3. PreflightTypes'
    BY <1>1 DEF PreflightInv, PreflightTypes, Checks!pool
  <1>4. PoolIsSound' /\ ~Checks!ProbesFailed
    BY <1>1, <1>2, PoolIsLeft DEF PreflightInv
  <1>5. NothingIsForgotten' /\ ChecksBegin'
    BY <1>1, <1>4 DEF PreflightInv, ChecksBegin, NothingIsForgotten
  <1>6. StageIsEarned'
    <2> SUFFICES ASSUME Unfailed' PROVE StageIsEarned'
      BY DEF StageIsEarned
    <2>1. /\ Checks!ImagesResolved(pkg)' /\ Tried("fetch", AllVariants)' /\ Tried("agent", AllVariants)'
          /\ pkg'.strategy \notin {"None", "Host"} => Tried("grader", AllVariants)'
      BY <1>1 DEF PreflightInv, StageIsEarned, Unfailed, Tried
    <2> QED
      BY <1>1, <2>1 DEF StageIsEarned, Unfailed
  <1> QED
    BY <1>3, <1>4, <1>5, <1>6 DEF PreflightInv

LEMMA PreflightStep == PreflightInv /\ [Checks!Next]_Checks!vars => PreflightInv'
  <1> SUFFICES ASSUME PreflightInv, [Checks!Next]_Checks!vars PROVE PreflightInv'
    OBVIOUS
  <1>1. CASE Checks!Next
    BY <1>1, CheckShapeKeeps, CheckHostKeeps, NotReadyKeeps, EnsureImagesKeeps, FetchKeeps, ProbeKeeps,
       IdleProbedKeeps, AgentProbedKeeps, AgentNotProbedKeeps, GraderKeeps, ReportKeeps DEF Checks!Next
  <1>2. CASE UNCHANGED Checks!vars
    <2>1. UNCHANGED <<pkg, stage, variant, failed, index, at, outcome, proved, broke>>
      BY <1>2 DEF Checks!vars
    <2>2. PreflightTypes' /\ PoolIsSound' /\ NothingIsForgotten' /\ ChecksBegin'
      BY <2>1 DEF PreflightInv, PreflightTypes, PoolIsSound, Checks!Probing, NothingIsForgotten,
                  Checks!ProbesFailed, ChecksBegin
    <2>3. StageIsEarned'
      BY <2>1, StageIsLeft DEF PreflightInv
    <2> QED
      BY <2>2, <2>3 DEF PreflightInv
  <1> QED
    BY <1>1, <1>2

\* At the start of the run nothing failed, so everything was tried.
LEMMA PreflightInvTried == PreflightInv => Checks!StartedRunWasTried
  <1> SUFFICES ASSUME PreflightInv, stage = "started", pkg.executor = "LocalDocker", pkg.site # "Host"
               PROVE  /\ ~broke /\ pkg.images > 0 /\ ~pkg.bare
                      /\ \A v \in 1 .. Variants, i \in 1 .. pkg.images :
                           /\ <<"fetch", v, i>> \in proved
                           /\ <<"agent", v, i>> \in proved
                           /\ pkg.strategy \notin {"None", "Host"} => <<"grader", v, i>> \in proved
    BY Zenon DEF Checks!StartedRunWasTried
  <1>1. failed = {} /\ Unfailed
    BY DEF PreflightInv, ChecksBegin, Unfailed
  <1>2. ~Checks!ProbesFailed
    BY IdlePool DEF PreflightInv, Checks!Probing
  <1>3. ~broke
    BY <1>1, <1>2 DEF PreflightInv, NothingIsForgotten
  <1>4. /\ Checks!ImagesResolved(pkg) /\ Tried("fetch", AllVariants) /\ Tried("agent", AllVariants)
        /\ pkg.strategy \notin {"None", "Host"} => Tried("grader", AllVariants)
    BY <1>1 DEF PreflightInv, StageIsEarned
  <1> QED
    BY <1>3, <1>4 DEF Tried, AllVariants, Checks!ImagesResolved

\* For any package, number of variants and number of probers: a run that starts on Docker has had
\* every image fetched and probed for every variant, and no probe has failed
\* (collect_preflight_checks_for_executor, run_bounded_image_probes).
THEOREM PreflightTriesEverything == Checks!Spec => []StartedRunWasTried
  <1>1. Checks!Spec => []PreflightInv
    BY PreflightBegins, PreflightStep, PTL DEF Checks!Spec
  <1>2. PreflightInv => StartedRunWasTried
    BY PreflightInvTried DEF StartedRunWasTried
  <1> QED
    BY <1>1, <1>2, PTL

-----------------------------------------------------------------------------
(* The cache of unpacked artifacts.                                        *)

\* Where a thread holds the lock of its process, and where it has found no marker under it.
Behind == {"look", "list", "clean", "remove", "make", "unpack", "rename", "undo", "mark"}
Filling == Behind \ {"look"}

ArtifactTypes ==
  /\ mpc \in [Procs -> [Jobs -> Behind \cup {"unborn", "ask", "lock", "mounted", "failed", "dead", "left"}]]
  /\ DOMAIN mlock = Procs /\ DOMAIN staging = Procs /\ DOMAIN done = Procs
  /\ mmet \in BOOLEAN /\ ready \in BOOLEAN /\ spoiled \in BOOLEAN

\* Who is behind a lock holds it, and unless two processes have met only one lock is held.
OneIsBehind ==
  /\ \A p \in Procs, t \in Jobs : mpc[p][t] \in Behind => mlock[p] = {t}
  /\ ~mmet => \A p, q \in Procs : p # q => mlock[p] = {} \/ mlock[q] = {}

\* The marker is on a whole directory, whoever has it mounted has seen the marker, and
\* nobody fills the cache while it is there.
MarkerIsTrue ==
  /\ ready => unpacked = Artifact!All
  /\ \A p \in Procs, t \in Jobs :
       /\ mpc[p][t] = "mounted" => ready
       /\ mpc[p][t] \in Filling => ~ready

\* The staging directory holds what its thread has unpacked, up to the rename.
StagingIsWhole ==
  \A p \in Procs, t \in Jobs :
    /\ mpc[p][t] = "unpack" => done[p] \in 0 .. Entries /\ staging[p] = 1 .. done[p]
    /\ mpc[p][t] = "rename" => staging[p] = Artifact!All
    /\ mpc[p][t] = "mark" => unpacked = Artifact!All

ArtifactInv == ArtifactTypes /\ OneIsBehind /\ (~mmet /\ ~spoiled => MarkerIsTrue /\ StagingIsWhole)

-----------------------------------------------------------------------------
LEMMA ArtifactBegins == Artifact!Init => ArtifactInv
  <1> SUFFICES ASSUME Artifact!Init PROVE ArtifactInv
    OBVIOUS
  <1>1. /\ \A p \in Procs : DOMAIN mpc[p] = Jobs /\ \A t \in Jobs : mpc[p][t] = "unborn"
        /\ \A p \in Procs : mlock[p] = {}
        /\ ready = FALSE
    BY DEF Artifact!Init
  <1>2. ArtifactTypes
    BY DEF Artifact!Init, ArtifactTypes
  <1>3. OneIsBehind
    BY <1>1 DEF OneIsBehind, Behind
  <1>4. MarkerIsTrue /\ StagingIsWhole
    BY <1>1 DEF MarkerIsTrue, StagingIsWhole, Filling, Behind
  <1> QED
    BY <1>2, <1>3, <1>4 DEF ArtifactInv

\* A step of one thread that leaves the other threads where they are.
Moves(p, t) == \A q \in Procs, u \in Jobs : q # p \/ u # t => mpc'[q][u] = mpc[q][u]

\* Unless two processes have met, no other thread is behind a lock.
LEMMA Alone ==
  ASSUME ArtifactInv, ~mmet, NEW p \in Procs, NEW t \in Jobs, mpc[p][t] \in Behind,
         NEW q \in Procs, NEW u \in Jobs, mpc[q][u] \in Behind
  PROVE  q = p /\ u = t
  <1>1. mlock[p] = {t} /\ mlock[q] = {u}
    BY DEF ArtifactInv, OneIsBehind
  <1>2. q = p
    BY <1>1 DEF ArtifactInv, OneIsBehind
  <1> QED
    BY <1>1, <1>2

\* Where a step has gone.
LEMMA GotoTypes ==
  ASSUME ArtifactTypes, NEW p \in Procs, NEW t \in Jobs, NEW there, Artifact!Goto(p, t, there)
  PROVE  /\ mpc'[p][t] = there /\ Moves(p, t)
         /\ there \in Behind \cup {"unborn", "ask", "lock", "mounted", "failed", "dead", "left"} =>
              mpc' \in [Procs -> [Jobs -> Behind \cup {"unborn", "ask", "lock", "mounted", "failed", "dead", "left"}]]
  BY DEF ArtifactTypes, Artifact!Goto, Moves

\* The holder of a lock goes on, or returns and drops it.
LEMMA HolderMoves ==
  ASSUME ArtifactInv, NEW p \in Procs, NEW t \in Jobs, mpc[p][t] \in Behind, Moves(p, t),
         mmet' = mmet,
         \/ mlock' = mlock
         \/ mlock' = [mlock EXCEPT ![p] = {}] /\ mpc'[p][t] \notin Behind
  PROVE  OneIsBehind'
  <1>1. \A q \in Procs : mlock'[q] = mlock[q] \/ mlock'[q] = {}
    BY DEF ArtifactInv, ArtifactTypes
  <1>2. ~mmet' => \A q, r \in Procs : q # r => mlock'[q] = {} \/ mlock'[r] = {}
    BY <1>1 DEF ArtifactInv, OneIsBehind
  <1>3. ASSUME NEW q \in Procs, NEW u \in Jobs, mpc'[q][u] \in Behind
        PROVE  mlock'[q] = {u}
    <2>0. mpc[q][u] \in Behind
      BY <1>3 DEF Moves
    <2>1. mlock[q] = {u} /\ mlock[p] = {t}
      BY <2>0 DEF ArtifactInv, OneIsBehind
    <2>2. CASE mlock' = mlock
      BY <2>1, <2>2
    <2>3. CASE mlock' = [mlock EXCEPT ![p] = {}] /\ mpc'[p][t] \notin Behind
      <3>1. q # p
        BY <1>3, <2>1, <2>3
      <3> QED
        BY <2>1, <2>3, <3>1 DEF ArtifactInv, ArtifactTypes
    <2> QED
      BY <2>2, <2>3
  <1> QED
    BY <1>2, <1>3 DEF OneIsBehind

\* What the holder needs to show of the cache when it is alone: of all the others, none fills
\* it, and those that have it mounted keep the marker.
LEMMA HolderFills ==
  ASSUME ArtifactInv, ~mmet, ~spoiled, NEW p \in Procs, NEW t \in Jobs, mpc[p][t] \in Behind, Moves(p, t),
         ready' => unpacked' = Artifact!All,
         ready => ready',
         mpc'[p][t] = "mounted" => ready',
         mpc'[p][t] \in Filling => ~ready',
         mpc'[p][t] = "unpack" => done'[p] \in 0 .. Entries /\ staging'[p] = 1 .. done'[p],
         mpc'[p][t] = "rename" => staging'[p] = Artifact!All,
         mpc'[p][t] = "mark" => unpacked' = Artifact!All
  PROVE  MarkerIsTrue' /\ StagingIsWhole'
  <1>1. \A q \in Procs, u \in Jobs : (q # p \/ u # t) => mpc'[q][u] = mpc[q][u] /\ mpc[q][u] \notin Behind
    BY Alone DEF Moves
  <1>2. MarkerIsTrue'
    BY <1>1 DEF ArtifactInv, MarkerIsTrue, Filling
  <1>3. StagingIsWhole'
    BY <1>1 DEF StagingIsWhole, Behind
  <1> QED
    BY <1>2, <1>3

LEMMA ArtifactAskKeeps ==
  ASSUME ArtifactInv, NEW p \in Procs, NEW t \in Jobs, Artifact!Ask(p, t)
  PROVE  ArtifactInv'
  <1>1. /\ mpc[p][t] = "ask" /\ Artifact!Goto(p, t, IF ready THEN "mounted" ELSE "lock")
        /\ UNCHANGED <<mlock, staging, unpacked, ready, done, mmet, spoiled>>
    BY DEF Artifact!Ask, Artifact!At
  <1>2. ArtifactTypes' /\ Moves(p, t) /\ mpc'[p][t] = IF ready THEN "mounted" ELSE "lock"
    BY <1>1, GotoTypes DEF ArtifactInv, ArtifactTypes
  <1>3. OneIsBehind'
    BY <1>1, <1>2 DEF ArtifactInv, OneIsBehind, Moves, Behind
  <1>4. ~mmet /\ ~spoiled => MarkerIsTrue'
    BY <1>1, <1>2 DEF ArtifactInv, MarkerIsTrue, Moves, Filling, Behind
  <1>5. ~mmet /\ ~spoiled => StagingIsWhole'
    BY <1>1, <1>2 DEF ArtifactInv, StagingIsWhole, Moves
  <1> QED
    BY <1>1, <1>2, <1>3, <1>4, <1>5 DEF ArtifactInv

LEMMA ArtifactLockKeeps ==
  ASSUME ArtifactInv, NEW p \in Procs, NEW t \in Jobs, Artifact!Lock(p, t)
  PROVE  ArtifactInv'
  <1>1. /\ mpc[p][t] = "lock" /\ mlock[p] = {} /\ Artifact!Goto(p, t, "look")
        /\ mlock' = [mlock EXCEPT ![p] = {t}]
        /\ mmet' = (mmet \/ \E q \in Procs \ {p} : mlock[q] # {})
        /\ UNCHANGED <<staging, unpacked, ready, done, spoiled>>
    BY DEF Artifact!Lock, Artifact!At
  <1>2. ArtifactTypes' /\ Moves(p, t) /\ mpc'[p][t] = "look"
    <2>1. mmet' \in BOOLEAN
      BY <1>1, Zenon
    <2> QED
      BY <1>1, <2>1, GotoTypes DEF ArtifactInv, ArtifactTypes, Behind
  <1>3. ~mmet' => ~mmet /\ \A q \in Procs : q # p => mlock[q] = {}
    BY <1>1, Zenon
  <1>4. OneIsBehind'
    <2>1. mlock'[p] = {t} /\ \A q \in Procs : q # p => mlock'[q] = mlock[q]
      BY <1>1 DEF ArtifactInv, ArtifactTypes
    <2>2. \A q \in Procs, u \in Jobs : mpc'[q][u] \in Behind => mlock'[q] = {u}
      BY <1>1, <1>2, <2>1 DEF ArtifactInv, OneIsBehind, Moves
    <2>3. ~mmet' => \A q, r \in Procs : q # r => mlock'[q] = {} \/ mlock'[r] = {}
      BY <1>3, <2>1
    <2> QED
      BY <2>2, <2>3 DEF OneIsBehind
  <1>5. ~mmet' /\ ~spoiled' => MarkerIsTrue'
    BY <1>1, <1>2, <1>3 DEF ArtifactInv, MarkerIsTrue, Moves, Filling
  <1>6. ~mmet' /\ ~spoiled' => StagingIsWhole'
    BY <1>1, <1>2, <1>3 DEF ArtifactInv, StagingIsWhole, Moves
  <1> QED
    BY <1>2, <1>4, <1>5, <1>6 DEF ArtifactInv

\* The steps under the lock that leave the staging directory of the thread alone.
LEMMA ArtifactLookKeeps ==
  ASSUME ArtifactInv, NEW p \in Procs, NEW t \in Jobs,
         Artifact!Look(p, t) \/ Artifact!ListStaging(p, t) \/ Artifact!Undo(p, t)
  PROVE  ArtifactInv'
  <1> USE DEF ArtifactInv, ArtifactTypes
  <1>1. CASE Artifact!Look(p, t)
    <2>1. /\ mpc[p][t] = "look" /\ UNCHANGED <<staging, unpacked, ready, done, mmet, spoiled>>
          /\ \/ ready /\ Artifact!Goto(p, t, "mounted") /\ mlock' = [mlock EXCEPT ![p] = {}]
             \/ ~ready /\ Artifact!Goto(p, t, "list") /\ mlock' = mlock
      BY <1>1 DEF Artifact!Look, Artifact!At, Artifact!Return
    <2>2. /\ ArtifactTypes' /\ Moves(p, t) /\ mpc[p][t] \in Behind
          /\ \/ ready /\ mpc'[p][t] = "mounted" /\ mlock' = [mlock EXCEPT ![p] = {}]
             \/ ~ready /\ mpc'[p][t] = "list" /\ mlock' = mlock
      BY <2>1, GotoTypes DEF Behind
    <2>3. OneIsBehind'
      BY <2>1, <2>2, HolderMoves DEF Behind
    <2>4. ~mmet /\ ~spoiled => MarkerIsTrue' /\ StagingIsWhole'
      <3> SUFFICES ASSUME ~mmet, ~spoiled PROVE MarkerIsTrue' /\ StagingIsWhole'
        OBVIOUS
      <3>1. ready => unpacked = Artifact!All
        BY DEF MarkerIsTrue
      <3> QED
        BY <2>1, <2>2, <3>1, HolderFills DEF Filling, Behind
    <2> QED
      BY <2>1, <2>2, <2>3, <2>4
  <1>2. CASE Artifact!ListStaging(p, t)
    <2>1. /\ mpc[p][t] = "list" /\ UNCHANGED <<mlock, staging, unpacked, ready, done, mmet, spoiled>>
          /\ Artifact!Goto(p, t, "clean")
      BY <1>2 DEF Artifact!ListStaging, Artifact!At
    <2>2. ArtifactTypes' /\ Moves(p, t) /\ mpc[p][t] \in Behind /\ mpc'[p][t] = "clean"
      BY <2>1, GotoTypes DEF Behind
    <2>3. OneIsBehind'
      BY <2>1, <2>2, HolderMoves DEF Behind
    <2>4. ~mmet /\ ~spoiled => MarkerIsTrue' /\ StagingIsWhole'
      <3> SUFFICES ASSUME ~mmet, ~spoiled PROVE MarkerIsTrue' /\ StagingIsWhole'
        OBVIOUS
      <3>1. ~ready
        BY <2>1 DEF MarkerIsTrue, Filling, Behind
      <3> QED
        BY <2>1, <2>2, <3>1, HolderFills
    <2> QED
      BY <2>1, <2>2, <2>3, <2>4
  <1>3. CASE Artifact!Undo(p, t)
    <2>1. /\ mpc[p][t] = "undo" /\ UNCHANGED <<unpacked, ready, done, mmet, spoiled>>
          /\ staging' = [staging EXCEPT ![p] = Artifact!Gone]
          /\ Artifact!Goto(p, t, "failed") /\ mlock' = [mlock EXCEPT ![p] = {}]
      BY <1>3 DEF Artifact!Undo, Artifact!At, Artifact!Return
    <2>2. ArtifactTypes' /\ Moves(p, t) /\ mpc[p][t] \in Behind /\ mpc'[p][t] = "failed"
      BY <2>1, GotoTypes DEF Behind
    <2>3. OneIsBehind'
      BY <2>1, <2>2, HolderMoves DEF Behind
    <2>4. ~mmet /\ ~spoiled => MarkerIsTrue' /\ StagingIsWhole'
      <3> SUFFICES ASSUME ~mmet, ~spoiled PROVE MarkerIsTrue' /\ StagingIsWhole'
        OBVIOUS
      <3>1. ~ready
        BY <2>1 DEF MarkerIsTrue, Filling, Behind
      <3> QED
        BY <2>1, <2>2, <3>1, HolderFills DEF Filling, Behind
    <2> QED
      BY <2>1, <2>2, <2>3, <2>4
  <1> QED
    BY <1>1, <1>2, <1>3

\* Cleaning up, whosever the directories are, ends in the next stage or in an error.
LEMMA CleanStagingKeeps ==
  ASSUME ArtifactInv, NEW p \in Procs, NEW t \in Jobs, Artifact!CleanStaging(p, t)
  PROVE  ArtifactInv'
  <1> USE DEF ArtifactInv, ArtifactTypes
  <1>1. /\ mpc[p][t] = "clean" /\ UNCHANGED <<unpacked, ready, done, mmet, spoiled>>
        /\ DOMAIN staging' = Procs
        /\ \/ mpc' = mpc /\ mlock' = mlock
           \/ Artifact!Goto(p, t, "remove") /\ mlock' = mlock
           \/ Artifact!Goto(p, t, "failed") /\ mlock' = [mlock EXCEPT ![p] = {}]
    BY DEF Artifact!CleanStaging, Artifact!At, Artifact!Return
  <1>2. /\ ArtifactTypes' /\ Moves(p, t) /\ mpc[p][t] \in Behind
        /\ \/ mpc'[p][t] \in {"clean", "remove"} /\ mlock' = mlock
           \/ mpc'[p][t] = "failed" /\ mlock' = [mlock EXCEPT ![p] = {}]
    BY <1>1, GotoTypes DEF Behind, Moves
  <1>3. OneIsBehind'
    BY <1>1, <1>2, HolderMoves DEF Behind
  <1>4. ~mmet /\ ~spoiled => MarkerIsTrue' /\ StagingIsWhole'
    <2> SUFFICES ASSUME ~mmet, ~spoiled PROVE MarkerIsTrue' /\ StagingIsWhole'
      OBVIOUS
    <2>1. ~ready
      BY <1>1 DEF MarkerIsTrue, Filling, Behind
    <2> QED
      BY <1>1, <1>2, <2>1, HolderFills
  <1> QED
    BY <1>1, <1>2, <1>3, <1>4

\* What is removed has no marker, so nobody has it mounted.
LEMMA RemoveUnpackedKeeps ==
  ASSUME ArtifactInv, NEW p \in Procs, NEW t \in Jobs, Artifact!RemoveUnpacked(p, t)
  PROVE  ArtifactInv'
  <1> USE DEF ArtifactInv, ArtifactTypes
  <1>0. ready' = ready \/ ready' = FALSE
    BY Zenon DEF Artifact!RemoveUnpacked
  <1>1. /\ mpc[p][t] = "remove" /\ UNCHANGED <<staging, done, mmet, spoiled>>
        /\ \/ mpc' = mpc /\ mlock' = mlock
           \/ Artifact!Goto(p, t, "make") /\ mlock' = mlock
           \/ Artifact!Goto(p, t, "failed") /\ mlock' = [mlock EXCEPT ![p] = {}]
    BY DEF Artifact!RemoveUnpacked, Artifact!At, Artifact!Return
  <1>2. /\ ArtifactTypes' /\ Moves(p, t) /\ mpc[p][t] \in Behind
        /\ \/ mpc'[p][t] \in {"remove", "make"} /\ mlock' = mlock
           \/ mpc'[p][t] = "failed" /\ mlock' = [mlock EXCEPT ![p] = {}]
    BY <1>0, <1>1, GotoTypes DEF Behind, Moves
  <1>3. OneIsBehind'
    BY <1>1, <1>2, HolderMoves DEF Behind
  <1>4. ~mmet /\ ~spoiled => MarkerIsTrue' /\ StagingIsWhole'
    <2> SUFFICES ASSUME ~mmet, ~spoiled PROVE MarkerIsTrue' /\ StagingIsWhole'
      OBVIOUS
    <2>1. ~ready
      BY <1>1 DEF MarkerIsTrue, Filling, Behind
    <2>2. ~ready'
      BY <1>0, <2>1
    <2> QED
      BY <1>1, <1>2, <2>1, <2>2, HolderFills
  <1> QED
    BY <1>1, <1>2, <1>3, <1>4

\* Unpacking adds the entries in their order.
LEMMA UnpackKeeps ==
  ASSUME ArtifactInv, NEW p \in Procs, NEW t \in Jobs,
         Artifact!MakeStaging(p, t) \/ Artifact!Unpack(p, t)
  PROVE  ArtifactInv'
  <1> USE DEF ArtifactInv, ArtifactTypes
  <1>1. CASE Artifact!MakeStaging(p, t)
    <2>1. /\ mpc[p][t] = "make" /\ UNCHANGED <<mlock, unpacked, ready, mmet, spoiled>>
          /\ staging' = [staging EXCEPT ![p] = {}] /\ done' = [done EXCEPT ![p] = 0]
          /\ Artifact!Goto(p, t, "unpack")
      BY <1>1 DEF Artifact!MakeStaging, Artifact!At
    <2>2. ArtifactTypes' /\ Moves(p, t) /\ mpc[p][t] \in Behind /\ mpc'[p][t] = "unpack"
      BY <2>1, GotoTypes DEF Behind
    <2>3. OneIsBehind'
      BY <2>1, <2>2, HolderMoves DEF Behind
    <2>4. ~mmet /\ ~spoiled => MarkerIsTrue' /\ StagingIsWhole'
      <3> SUFFICES ASSUME ~mmet, ~spoiled PROVE MarkerIsTrue' /\ StagingIsWhole'
        OBVIOUS
      <3>1. ~ready
        BY <2>1 DEF MarkerIsTrue, Filling, Behind
      <3>2. done'[p] = 0 /\ staging'[p] = {}
        BY <2>1
      <3>3. done'[p] \in 0 .. Entries /\ staging'[p] = 1 .. done'[p]
        BY <3>2, EntriesAssumption
      <3> QED
        BY <2>1, <2>2, <3>1, <3>3, HolderFills
    <2> QED
      BY <2>1, <2>2, <2>3, <2>4
  <1>2. CASE Artifact!Unpack(p, t)
    <2>1. /\ mpc[p][t] = "unpack" /\ UNCHANGED <<mlock, unpacked, ready, mmet, spoiled>>
          /\ \/ /\ done[p] < Entries /\ mpc' = mpc
                /\ staging' = [staging EXCEPT ![p] = @ \cup {done[p] + 1}]
                /\ done' = [done EXCEPT ![p] = @ + 1]
             \/ /\ Artifact!Goto(p, t, IF done[p] = Entries THEN "rename" ELSE "undo")
                /\ UNCHANGED <<staging, done>>
      BY <1>2 DEF Artifact!Unpack, Artifact!At
    <2>2. /\ ArtifactTypes' /\ Moves(p, t) /\ mpc[p][t] \in Behind
          /\ \/ /\ mpc'[p][t] = "unpack" /\ done[p] < Entries
                /\ staging'[p] = staging[p] \cup {done[p] + 1} /\ done'[p] = done[p] + 1
             \/ /\ mpc'[p][t] = IF done[p] = Entries THEN "rename" ELSE "undo"
                /\ UNCHANGED <<staging, done>>
      BY <2>1, GotoTypes DEF Behind, Moves
    <2>3. OneIsBehind'
      BY <2>1, <2>2, HolderMoves DEF Behind
    <2>4. ~mmet /\ ~spoiled => MarkerIsTrue' /\ StagingIsWhole'
      <3> SUFFICES ASSUME ~mmet, ~spoiled PROVE MarkerIsTrue' /\ StagingIsWhole'
        OBVIOUS
      <3>1. ~ready
        BY <2>1 DEF MarkerIsTrue, Filling, Behind
      <3>2. done[p] \in 0 .. Entries /\ staging[p] = 1 .. done[p]
        BY <2>1 DEF StagingIsWhole
      <3>3. mpc'[p][t] = "unpack" => done'[p] \in 0 .. Entries /\ staging'[p] = 1 .. done'[p]
        <4> SUFFICES ASSUME mpc'[p][t] = "unpack"
                     PROVE  done'[p] \in 0 .. Entries /\ staging'[p] = 1 .. done'[p]
          OBVIOUS
        <4> DEFINE d == done[p]
        <4>1. /\ d < Entries /\ d \in 0 .. Entries
              /\ done'[p] = d + 1 /\ staging'[p] = (1 .. d) \cup {d + 1}
          BY <2>2, <3>2
        <4> HIDE DEF d
        <4>2. d + 1 \in 0 .. Entries /\ 1 .. (d + 1) = (1 .. d) \cup {d + 1}
          BY <4>1, EntriesAssumption
        <4> QED
          BY <4>1, <4>2
      <3>4. mpc'[p][t] = "rename" => staging'[p] = Artifact!All
        BY <2>2, <3>2 DEF Artifact!All
      <3>5. mpc'[p][t] \in {"unpack", "rename", "undo"}
        BY <2>2
      <3> QED
        BY <2>1, <2>2, <3>1, <3>3, <3>4, <3>5, HolderFills
    <2> QED
      BY <2>1, <2>2, <2>3, <2>4
  <1> QED
    BY <1>1, <1>2

\* What is put in place is whole, and is marked only then.
LEMMA RenameKeeps ==
  ASSUME ArtifactInv, NEW p \in Procs, NEW t \in Jobs, Artifact!Rename(p, t) \/ Artifact!Mark(p, t)
  PROVE  ArtifactInv'
  <1> USE DEF ArtifactInv, ArtifactTypes
  <1>1. CASE Artifact!Rename(p, t)
    <2>1. /\ mpc[p][t] = "rename" /\ UNCHANGED <<mlock, ready, done, mmet, spoiled>>
          /\ DOMAIN staging' = Procs
          /\ \/ unpacked' = staging[p] /\ Artifact!Goto(p, t, "mark")
             \/ unpacked' = unpacked /\ Artifact!Goto(p, t, "undo")
      BY <1>1 DEF Artifact!Rename, Artifact!At
    <2>2. /\ ArtifactTypes' /\ Moves(p, t) /\ mpc[p][t] \in Behind
          /\ \/ unpacked' = staging[p] /\ mpc'[p][t] = "mark"
             \/ unpacked' = unpacked /\ mpc'[p][t] = "undo"
      BY <2>1, GotoTypes DEF Behind
    <2>3. OneIsBehind'
      BY <2>1, <2>2, HolderMoves DEF Behind
    <2>4. ~mmet /\ ~spoiled => MarkerIsTrue' /\ StagingIsWhole'
      <3> SUFFICES ASSUME ~mmet, ~spoiled PROVE MarkerIsTrue' /\ StagingIsWhole'
        OBVIOUS
      <3>1. ~ready /\ staging[p] = Artifact!All
        BY <2>1 DEF MarkerIsTrue, StagingIsWhole, Filling, Behind
      <3> QED
        BY <2>1, <2>2, <3>1, HolderFills
    <2> QED
      BY <2>1, <2>2, <2>3, <2>4
  <1>2. CASE Artifact!Mark(p, t)
    <2>1. /\ mpc[p][t] = "mark" /\ UNCHANGED <<staging, unpacked, done, mmet, spoiled>>
          /\ mlock' = [mlock EXCEPT ![p] = {}]
          /\ \/ ready' = TRUE /\ Artifact!Goto(p, t, "mounted")
             \/ ready' = ready /\ Artifact!Goto(p, t, "failed")
      BY <1>2 DEF Artifact!Mark, Artifact!At, Artifact!Return
    <2>2. /\ ArtifactTypes' /\ Moves(p, t) /\ mpc[p][t] \in Behind
          /\ \/ ready' = TRUE /\ mpc'[p][t] = "mounted"
             \/ ready' = ready /\ mpc'[p][t] = "failed"
      BY <2>1, GotoTypes DEF Behind
    <2>3. OneIsBehind'
      BY <2>1, <2>2, HolderMoves DEF Behind
    <2>4. ~mmet /\ ~spoiled => MarkerIsTrue' /\ StagingIsWhole'
      <3> SUFFICES ASSUME ~mmet, ~spoiled PROVE MarkerIsTrue' /\ StagingIsWhole'
        OBVIOUS
      <3>1. ~ready /\ unpacked = Artifact!All
        BY <2>1 DEF MarkerIsTrue, StagingIsWhole, Filling, Behind
      <3> QED
        BY <2>1, <2>2, <3>1, HolderFills DEF Filling, Behind
    <2> QED
      BY <2>1, <2>2, <2>3, <2>4
  <1> QED
    BY <1>1, <1>2

\* A process that starts is behind no lock, and one that dies is not any more.
LEMMA ProcessKeeps ==
  ASSUME ArtifactInv, NEW p \in Procs, Artifact!Start(p) \/ Artifact!Crash(p)
  PROVE  ArtifactInv'
  <1>1. /\ UNCHANGED <<staging, unpacked, ready, done, mmet, spoiled>>
        /\ \/ mpc' = [mpc EXCEPT ![p] = [t \in Jobs |-> "ask"]] /\ mlock' = mlock
           \/ mpc' = [mpc EXCEPT ![p] = [t \in Jobs |-> IF mpc[p][t] = "mounted" THEN "left" ELSE "dead"]]
              /\ mlock' = [mlock EXCEPT ![p] = {}]
    BY DEF Artifact!Start, Artifact!Crash, Artifact!At
  <1>2. /\ ArtifactTypes'
        /\ \A t \in Jobs : mpc'[p][t] \in {"ask", "dead", "left"}
        /\ \A q \in Procs : q # p => mpc'[q] = mpc[q] /\ mlock'[q] = mlock[q]
        /\ \A q \in Procs : mlock'[q] = {} \/ mlock'[q] = mlock[q]
    BY <1>1 DEF ArtifactInv, ArtifactTypes
  <1>3. \A q \in Procs, u \in Jobs : mpc'[q][u] \in {"ask", "dead", "left"} \/ (q # p /\ mpc'[q][u] = mpc[q][u])
    BY <1>2
  <1>4. OneIsBehind'
    BY <1>1, <1>2, <1>3 DEF ArtifactInv, OneIsBehind, Behind
  <1>5. ~mmet /\ ~spoiled => MarkerIsTrue'
    BY <1>1, <1>3 DEF ArtifactInv, MarkerIsTrue, Filling, Behind
  <1>6. ~mmet /\ ~spoiled => StagingIsWhole'
    BY <1>1, <1>3 DEF ArtifactInv, StagingIsWhole
  <1> QED
    BY <1>1, <1>2, <1>4, <1>5, <1>6 DEF ArtifactInv

\* An agent that writes is what the invariant excepts.
LEMMA AgentWritesKeeps ==
  ASSUME ArtifactInv, NEW p \in Procs, NEW t \in Jobs, Artifact!AgentWrites(p, t)
  PROVE  ArtifactInv'
  <1>1. UNCHANGED <<mpc, mlock, staging, done, mmet>> /\ spoiled' = TRUE
    BY DEF Artifact!AgentWrites
  <1>2. ready' \in BOOLEAN
    BY Zenon DEF Artifact!AgentWrites, ArtifactInv, ArtifactTypes
  <1> QED
    BY <1>1, <1>2 DEF ArtifactInv, ArtifactTypes, OneIsBehind

LEMMA ArtifactStep == ArtifactInv /\ [Artifact!Next]_Artifact!vars => ArtifactInv'
  <1> SUFFICES ASSUME ArtifactInv, [Artifact!Next]_Artifact!vars PROVE ArtifactInv'
    OBVIOUS
  <1>1. ASSUME NEW p \in Procs, Artifact!Start(p) \/ Artifact!Crash(p)
                            \/ \E t \in Jobs : Artifact!Step(p, t) \/ Artifact!AgentWrites(p, t)
        PROVE  ArtifactInv'
    BY <1>1, ProcessKeeps, ArtifactAskKeeps, ArtifactLockKeeps, ArtifactLookKeeps, CleanStagingKeeps,
       RemoveUnpackedKeeps,
       UnpackKeeps, RenameKeeps, AgentWritesKeeps DEF Artifact!Step
  <1>2. CASE UNCHANGED Artifact!vars
    BY <1>2 DEF Artifact!vars, ArtifactInv, ArtifactTypes, OneIsBehind, MarkerIsTrue, StagingIsWhole
  <1> QED
    BY <1>1, <1>2 DEF Artifact!Next

LEMMA ArtifactInvIsWhole == ArtifactInv => Artifact!MountedIsWhole
  BY DEF ArtifactInv, MarkerIsTrue, Artifact!MountedIsWhole, Artifact!At

-----------------------------------------------------------------------------
(* The cache of credentials.                                               *)

\* Where a thread holds the seed lock of its process.
Seeding == {"look", "create", "fill", "again", "replace", "install"}
CredentialStages == Seeding \cup {"unborn", "lock", "running", "failed", "dead"}

CredentialTypes ==
  /\ cpc \in [Procs -> [Jobs -> CredentialStages]]
  /\ DOMAIN clock = Procs /\ DOMAIN tmp = Procs
  /\ cmet \in BOOLEAN /\ torn \in BOOLEAN /\ refreshed \in BOOLEAN

\* Who seeds holds the lock, and unless two processes have met only one lock is held.
OneSeeds ==
  /\ \A p \in Procs, t \in Jobs : cpc[p][t] \in Seeding => clock[p] = {t}
  /\ ~cmet => \A p, q \in Procs : p # q => clock[p] = {} \/ clock[q] = {}

\* While no agent has the file truncated it is what the last refresh made it, or the seed, for
\* whoever runs.
CacheIsKept ==
  opened = {} => /\ refreshed => cache = "fresh"
                 /\ \A p \in Procs, t \in Jobs :
                      cpc[p][t] = "running" => Credential!credential_cache_file_is_usable

\* Who has a copy to put in place has a whole one, and who has looked a second time and found
\* no credential may remove what is there: nobody runs, nobody has it open, nobody has refreshed it.
SeedIsSafe ==
  \A p \in Procs, t \in Jobs :
    /\ cpc[p][t] \in {"again", "replace", "install"} => tmp[p] = "whole"
    /\ cpc[p][t] \in {"replace", "install"} =>
         /\ opened = {} /\ ~refreshed
         /\ \A q \in Procs, u \in Jobs : cpc[q][u] # "running"

CredentialInv == CredentialTypes /\ OneSeeds /\ (~cmet /\ ~torn => CacheIsKept /\ SeedIsSafe)

-----------------------------------------------------------------------------
LEMMA CredentialBegins == Credential!Init => CredentialInv
  <1> SUFFICES ASSUME Credential!Init PROVE CredentialInv
    OBVIOUS
  <1>1. /\ \A p \in Procs : DOMAIN cpc[p] = Jobs /\ \A t \in Jobs : cpc[p][t] = "unborn"
        /\ \A p \in Procs : clock[p] = {}
        /\ refreshed = FALSE
    BY DEF Credential!Init
  <1>2. CredentialTypes
    BY DEF Credential!Init, CredentialTypes, CredentialStages
  <1>3. OneSeeds
    BY <1>1 DEF OneSeeds, Seeding
  <1>4. CacheIsKept /\ SeedIsSafe
    BY <1>1 DEF CacheIsKept, SeedIsSafe
  <1> QED
    BY <1>2, <1>3, <1>4 DEF CredentialInv

\* A step of one thread that leaves the other threads where they are.
OnlyMoves(p, t) == \A q \in Procs, u \in Jobs : q # p \/ u # t => cpc'[q][u] = cpc[q][u]

\* Where a step has gone.
LEMMA SeedGoto ==
  ASSUME CredentialTypes, NEW p \in Procs, NEW t \in Jobs, NEW there \in CredentialStages,
         Credential!Goto(p, t, there)
  PROVE  cpc'[p][t] = there /\ OnlyMoves(p, t) /\ cpc' \in [Procs -> [Jobs -> CredentialStages]]
  BY DEF CredentialTypes, Credential!Goto, OnlyMoves

\* Unless two processes have met, no other thread seeds.
LEMMA SeedsAlone ==
  ASSUME CredentialInv, ~cmet, NEW p \in Procs, NEW t \in Jobs, cpc[p][t] \in Seeding,
         NEW q \in Procs, NEW u \in Jobs, cpc[q][u] \in Seeding
  PROVE  q = p /\ u = t
  <1>1. clock[p] = {t} /\ clock[q] = {u}
    BY DEF CredentialInv, OneSeeds
  <1>2. q = p
    BY <1>1 DEF CredentialInv, OneSeeds
  <1> QED
    BY <1>1, <1>2

\* The holder of the lock goes on, or returns and drops it.
LEMMA SeederMoves ==
  ASSUME CredentialInv, NEW p \in Procs, NEW t \in Jobs, cpc[p][t] \in Seeding, OnlyMoves(p, t),
         cmet' = cmet,
         \/ clock' = clock
         \/ clock' = [clock EXCEPT ![p] = {}] /\ cpc'[p][t] \notin Seeding
  PROVE  OneSeeds'
  <1>1. \A q \in Procs : clock'[q] = clock[q] \/ clock'[q] = {}
    BY DEF CredentialInv, CredentialTypes
  <1>2. ~cmet' => \A q, r \in Procs : q # r => clock'[q] = {} \/ clock'[r] = {}
    BY <1>1 DEF CredentialInv, OneSeeds
  <1>3. ASSUME NEW q \in Procs, NEW u \in Jobs, cpc'[q][u] \in Seeding
        PROVE  clock'[q] = {u}
    <2>0. cpc[q][u] \in Seeding
      BY <1>3 DEF OnlyMoves
    <2>1. clock[q] = {u} /\ clock[p] = {t}
      BY <2>0 DEF CredentialInv, OneSeeds
    <2>2. CASE clock' = clock
      BY <2>1, <2>2
    <2>3. CASE clock' = [clock EXCEPT ![p] = {}] /\ cpc'[p][t] \notin Seeding
      <3>1. q # p
        BY <1>3, <2>1, <2>3
      <3> QED
        BY <2>1, <2>3, <3>1 DEF CredentialInv, CredentialTypes
    <2> QED
      BY <2>2, <2>3
  <1> QED
    BY <1>2, <1>3 DEF OneSeeds

LEMMA SeedLockKeeps ==
  ASSUME CredentialInv, NEW p \in Procs, NEW t \in Jobs, Credential!Lock(p, t)
  PROVE  CredentialInv'
  <1>1. /\ cpc[p][t] = "lock" /\ clock[p] = {} /\ Credential!Goto(p, t, "look")
        /\ clock' = [clock EXCEPT ![p] = {t}]
        /\ cmet' = (cmet \/ \E q \in Procs \ {p} : clock[q] # {})
        /\ UNCHANGED <<tmp, cache, opened, torn, refreshed>>
    BY DEF Credential!Lock, Credential!At
  <1>2. CredentialTypes' /\ OnlyMoves(p, t) /\ cpc'[p][t] = "look"
    <2>1. cmet' \in BOOLEAN
      BY <1>1, Zenon
    <2>2. "look" \in CredentialStages
      BY DEF CredentialStages, Seeding
    <2> QED
      BY <1>1, <2>1, <2>2, SeedGoto DEF CredentialInv, CredentialTypes
  <1>3. ~cmet' => ~cmet /\ \A q \in Procs : q # p => clock[q] = {}
    BY <1>1, Zenon
  <1>4. OneSeeds'
    <2>1. clock'[p] = {t} /\ \A q \in Procs : q # p => clock'[q] = clock[q]
      BY <1>1 DEF CredentialInv, CredentialTypes
    <2>2. \A q \in Procs, u \in Jobs : cpc'[q][u] \in Seeding => clock'[q] = {u}
      BY <1>1, <1>2, <2>1 DEF CredentialInv, OneSeeds, OnlyMoves
    <2>3. ~cmet' => \A q, r \in Procs : q # r => clock'[q] = {} \/ clock'[r] = {}
      BY <1>3, <2>1
    <2> QED
      BY <2>2, <2>3 DEF OneSeeds
  <1>5. ~cmet' /\ ~torn => CacheIsKept'
    BY <1>1, <1>2, <1>3 DEF CredentialInv, CacheIsKept, OnlyMoves,
       Credential!credential_cache_file_is_usable
  <1>6. ~cmet' /\ ~torn => SeedIsSafe'
    BY <1>1, <1>2, <1>3 DEF CredentialInv, SeedIsSafe, OnlyMoves
  <1> QED
    BY <1>1, <1>2, <1>4, <1>5, <1>6 DEF CredentialInv

\* The holder leaves the file alone.  It comes to run only with a credential, and to replace the
\* file only when there is none and no agent is about to write one.
LEMMA FileIsLeft ==
  ASSUME CredentialInv, ~cmet, ~torn, NEW p \in Procs, NEW t \in Jobs, cpc[p][t] \in Seeding,
         OnlyMoves(p, t), UNCHANGED <<cache, opened, refreshed>>,
         cpc'[p][t] = "running" => Credential!credential_cache_file_is_usable,
         cpc'[p][t] \in {"again", "replace", "install"} => tmp'[p] = "whole",
         cpc'[p][t] \in {"replace", "install"} => opened = {} /\ ~Credential!credential_cache_file_is_usable
  PROVE  CacheIsKept' /\ SeedIsSafe'
  <1>1. \A q \in Procs, u \in Jobs : (q # p \/ u # t) => cpc'[q][u] = cpc[q][u] /\ cpc[q][u] \notin Seeding
    BY SeedsAlone DEF OnlyMoves
  <1>2. CacheIsKept /\ SeedIsSafe
    BY DEF CredentialInv
  <1>3. CacheIsKept'
    BY <1>1, <1>2 DEF CacheIsKept, Credential!credential_cache_file_is_usable
  <1>4. opened = {} /\ ~Credential!credential_cache_file_is_usable =>
          ~refreshed /\ \A q \in Procs, u \in Jobs : cpc[q][u] # "running"
    BY <1>2 DEF CacheIsKept, Credential!credential_cache_file_is_usable
  <1>5. SeedIsSafe'
    <2> SUFFICES ASSUME NEW q \in Procs, NEW u \in Jobs
                 PROVE  /\ cpc'[q][u] \in {"again", "replace", "install"} => tmp'[q] = "whole"
                        /\ cpc'[q][u] \in {"replace", "install"} =>
                             /\ opened' = {} /\ ~refreshed'
                             /\ \A r \in Procs, v \in Jobs : cpc'[r][v] # "running"
      BY Zenon DEF SeedIsSafe
    <2>1. CASE q # p \/ u # t
      BY <1>1, <2>1 DEF Seeding
    <2>2. CASE q = p /\ u = t
      BY <1>1, <1>4, <2>2
    <2> QED
      BY <2>1, <2>2
  <1> QED
    BY <1>3, <1>5

LEMMA SeedLookKeeps ==
  ASSUME CredentialInv, NEW p \in Procs, NEW t \in Jobs, Credential!Look(p, t)
  PROVE  CredentialInv'
  <1>1. /\ cpc[p][t] = "look" /\ UNCHANGED <<tmp, cache, opened, torn, refreshed, cmet>>
        /\ \/ /\ Credential!credential_cache_file_is_usable /\ Credential!Goto(p, t, "running")
              /\ clock' = [clock EXCEPT ![p] = {}]
           \/ Credential!Goto(p, t, "create") /\ clock' = clock
    BY DEF Credential!Look, Credential!At, Credential!Return
  <1>2. /\ CredentialTypes' /\ OnlyMoves(p, t) /\ cpc[p][t] \in Seeding
        /\ \/ /\ Credential!credential_cache_file_is_usable /\ cpc'[p][t] = "running"
              /\ clock' = [clock EXCEPT ![p] = {}]
           \/ cpc'[p][t] = "create" /\ clock' = clock
    BY <1>1, SeedGoto DEF CredentialInv, CredentialTypes, CredentialStages, Seeding
  <1>3. OneSeeds'
    BY <1>1, <1>2, SeederMoves DEF Seeding
  <1>4. ~cmet /\ ~torn => CacheIsKept' /\ SeedIsSafe'
    BY <1>1, <1>2, FileIsLeft
  <1> QED
    BY <1>1, <1>2, <1>3, <1>4 DEF CredentialInv

LEMMA CopyKeeps ==
  ASSUME CredentialInv, NEW p \in Procs, NEW t \in Jobs,
         Credential!CopyBegins(p, t) \/ Credential!CopyEnds(p, t)
  PROVE  CredentialInv'
  <1>1. /\ cpc[p][t] \in {"create", "fill"} /\ UNCHANGED <<cache, opened, torn, refreshed, cmet>>
        /\ \/ /\ tmp' = [tmp EXCEPT ![p] = "part"] /\ Credential!Goto(p, t, "fill") /\ clock' = clock
           \/ /\ tmp' = [tmp EXCEPT ![p] = "whole"] /\ Credential!Goto(p, t, "again") /\ clock' = clock
           \/ /\ tmp' = [tmp EXCEPT ![p] = "none"] /\ Credential!Goto(p, t, "failed")
              /\ clock' = [clock EXCEPT ![p] = {}]
    BY DEF Credential!CopyBegins, Credential!CopyEnds, Credential!At, Credential!Return
  <1>2. /\ CredentialTypes' /\ OnlyMoves(p, t) /\ cpc[p][t] \in Seeding
        /\ \/ cpc'[p][t] = "fill" /\ clock' = clock
           \/ cpc'[p][t] = "again" /\ tmp'[p] = "whole" /\ clock' = clock
           \/ cpc'[p][t] = "failed" /\ clock' = [clock EXCEPT ![p] = {}]
    BY <1>1, SeedGoto DEF CredentialInv, CredentialTypes, CredentialStages, Seeding
  <1>3. OneSeeds'
    BY <1>1, <1>2, SeederMoves DEF Seeding
  <1>4. ~cmet /\ ~torn => CacheIsKept' /\ SeedIsSafe'
    BY <1>1, <1>2, FileIsLeft
  <1> QED
    BY <1>1, <1>2, <1>3, <1>4 DEF CredentialInv

\* Who finds the file truncated by an agent has torn it; otherwise nobody is there to lose it.
LEMMA LookAgainKeeps ==
  ASSUME CredentialInv, NEW p \in Procs, NEW t \in Jobs, Credential!LookAgain(p, t)
  PROVE  CredentialInv'
  <1>1. /\ cpc[p][t] = "again" /\ UNCHANGED <<cache, opened, refreshed, cmet>>
        /\ \/ /\ Credential!credential_cache_file_is_usable /\ Credential!Goto(p, t, "running")
              /\ tmp' = [tmp EXCEPT ![p] = "none"]
              /\ clock' = [clock EXCEPT ![p] = {}]
           \/ ~Credential!credential_cache_file_is_usable /\ Credential!Goto(p, t, "replace") /\ clock' = clock /\ tmp' = tmp
    BY DEF Credential!LookAgain, Credential!At, Credential!Return
  <1>2. \/ Credential!credential_cache_file_is_usable /\ torn' = torn
        \/ torn' = (torn \/ opened # {})
    BY Zenon DEF Credential!LookAgain
  <1>3. /\ torn' \in BOOLEAN /\ (~torn' => ~torn)
        /\ ~torn' /\ ~Credential!credential_cache_file_is_usable => opened = {}
    BY <1>2, Zenon DEF CredentialInv, CredentialTypes
  <1>4. /\ CredentialTypes' /\ OnlyMoves(p, t) /\ cpc[p][t] \in Seeding
        /\ \/ /\ Credential!credential_cache_file_is_usable /\ cpc'[p][t] = "running"
              /\ clock' = [clock EXCEPT ![p] = {}]
           \/ ~Credential!credential_cache_file_is_usable /\ cpc'[p][t] = "replace" /\ clock' = clock /\ tmp' = tmp
    BY <1>1, <1>3, SeedGoto DEF CredentialInv, CredentialTypes, CredentialStages, Seeding
  <1>5. OneSeeds'
    BY <1>1, <1>4, SeederMoves DEF Seeding
  <1>6. ~cmet /\ ~torn => tmp[p] = "whole"
    BY <1>1 DEF CredentialInv, SeedIsSafe
  <1>7. ~cmet /\ ~torn' => CacheIsKept' /\ SeedIsSafe'
    BY <1>1, <1>3, <1>4, <1>6, FileIsLeft
  <1> QED
    BY <1>1, <1>4, <1>5, <1>7 DEF CredentialInv

\* The file is removed and put in place while nobody runs.
LEMMA InstallKeeps ==
  ASSUME CredentialInv, NEW p \in Procs, NEW t \in Jobs,
         Credential!RemoveEmpty(p, t) \/ Credential!Install(p, t)
  PROVE  CredentialInv'
  <1>1. /\ cpc[p][t] \in {"replace", "install"} /\ UNCHANGED <<torn, refreshed, cmet>>
        /\ \/ Credential!Goto(p, t, "install") /\ clock' = clock /\ tmp' = tmp /\ opened' = {}
           \/ /\ Credential!Goto(p, t, "running") /\ clock' = [clock EXCEPT ![p] = {}]
              /\ cache' = (IF tmp[p] = "whole" THEN "seed" ELSE "empty")
              /\ DOMAIN tmp' = Procs /\ opened' = {}
           \/ /\ Credential!Goto(p, t, "failed") /\ clock' = [clock EXCEPT ![p] = {}]
              /\ DOMAIN tmp' = Procs /\ UNCHANGED <<cache, opened>>
    BY DEF Credential!RemoveEmpty, Credential!Install, Credential!At, Credential!Return, CredentialInv,
       CredentialTypes
  <1>2. /\ CredentialTypes' /\ OnlyMoves(p, t) /\ cpc[p][t] \in Seeding
        /\ \/ cpc'[p][t] = "install" /\ clock' = clock /\ tmp' = tmp /\ opened' = {}
           \/ /\ cpc'[p][t] = "running" /\ clock' = [clock EXCEPT ![p] = {}]
              /\ cache' = (IF tmp[p] = "whole" THEN "seed" ELSE "empty") /\ opened' = {}
           \/ /\ cpc'[p][t] = "failed" /\ clock' = [clock EXCEPT ![p] = {}]
              /\ UNCHANGED <<cache, opened>>
    BY <1>1, SeedGoto DEF CredentialInv, CredentialTypes, CredentialStages, Seeding
  <1>3. OneSeeds'
    BY <1>1, <1>2, SeederMoves DEF Seeding
  <1>4. ASSUME ~cmet, ~torn PROVE CacheIsKept' /\ SeedIsSafe'
    <2>1. /\ tmp[p] = "whole" /\ opened = {} /\ ~refreshed
          /\ \A q \in Procs, u \in Jobs : cpc[q][u] # "running"
      BY <1>1, <1>4 DEF CredentialInv, SeedIsSafe
    <2>2. \A q \in Procs, u \in Jobs : (q # p \/ u # t) =>
            cpc'[q][u] = cpc[q][u] /\ cpc[q][u] \notin Seeding /\ cpc[q][u] # "running"
      BY <1>2, <1>4, <2>1, SeedsAlone DEF OnlyMoves
    <2>3. opened' = {} /\ ~refreshed'
      BY <1>1, <2>1
    <2>4. CacheIsKept'
      BY <1>2, <2>1, <2>2, <2>3 DEF CacheIsKept, Credential!credential_cache_file_is_usable
    <2>5. SeedIsSafe'
      <3> SUFFICES ASSUME NEW q \in Procs, NEW u \in Jobs
                   PROVE  /\ cpc'[q][u] \in {"again", "replace", "install"} => tmp'[q] = "whole"
                          /\ cpc'[q][u] \in {"replace", "install"} =>
                               /\ opened' = {} /\ ~refreshed'
                               /\ \A r \in Procs, v \in Jobs : cpc'[r][v] # "running"
        BY Zenon DEF SeedIsSafe
      <3>1. CASE q # p \/ u # t
        BY <2>2, <3>1 DEF Seeding
      <3>2. CASE q = p /\ u = t
        BY <1>2, <2>1, <2>2, <2>3, <3>2
      <3> QED
        BY <3>1, <3>2
    <2> QED
      BY <2>4, <2>5
  <1> QED
    BY <1>1, <1>2, <1>3, <1>4 DEF CredentialInv

\* An agent that runs, or that has the file open, makes it fresh or leaves it open.
LEMMA AgentKeeps ==
  ASSUME CredentialInv, NEW p \in Procs, NEW t \in Jobs, Credential!Agent(p, t)
  PROVE  CredentialInv'
  <1>1. /\ UNCHANGED <<cpc, clock, tmp, torn, cmet>>
        /\ cpc[p][t] = "running" \/ opened # {}
        /\ cache' = "fresh" \/ opened' # {}
    BY DEF Credential!Agent, Credential!Replace, Credential!Truncate, Credential!Rewrite, Credential!At
  <1>2. refreshed' = refreshed \/ refreshed' = TRUE
    BY Zenon DEF Credential!Agent, Credential!Replace, Credential!Truncate, Credential!Rewrite
  <1>3. CredentialTypes'
    BY <1>1, <1>2 DEF CredentialInv, CredentialTypes
  <1>4. OneSeeds'
    BY <1>1 DEF CredentialInv, OneSeeds
  <1>5. ASSUME ~cmet, ~torn PROVE CacheIsKept' /\ SeedIsSafe'
    <2>1. CacheIsKept'
      BY <1>1 DEF CacheIsKept, Credential!credential_cache_file_is_usable
    <2>2. SeedIsSafe'
      BY <1>1, <1>5 DEF CredentialInv, SeedIsSafe
    <2> QED
      BY <2>1, <2>2
  <1> QED
    BY <1>1, <1>3, <1>4, <1>5 DEF CredentialInv

\* A process that starts does not seed yet, and one that dies leaves the file as it is.
LEMMA SeedProcessKeeps ==
  ASSUME CredentialInv, NEW p \in Procs, Credential!Start(p) \/ Credential!Crash(p)
  PROVE  CredentialInv'
  <1>1. /\ UNCHANGED <<tmp, cache, opened, torn, refreshed, cmet>>
        /\ \/ cpc' = [cpc EXCEPT ![p] = [t \in Jobs |-> "lock"]] /\ clock' = clock
           \/ cpc' = [cpc EXCEPT ![p] = [t \in Jobs |-> "dead"]] /\ clock' = [clock EXCEPT ![p] = {}]
    BY DEF Credential!Start, Credential!Crash
  <1>2. /\ CredentialTypes'
        /\ \A t \in Jobs : cpc'[p][t] \in {"lock", "dead"}
        /\ \A q \in Procs : q # p => cpc'[q] = cpc[q] /\ clock'[q] = clock[q]
        /\ \A q \in Procs : clock'[q] = {} \/ clock'[q] = clock[q]
    BY <1>1 DEF CredentialInv, CredentialTypes, CredentialStages
  <1>3. \A q \in Procs, u \in Jobs : cpc'[q][u] \in {"lock", "dead"} \/ (q # p /\ cpc'[q][u] = cpc[q][u])
    BY <1>2
  <1>4. OneSeeds'
    BY <1>1, <1>2, <1>3 DEF CredentialInv, OneSeeds, Seeding
  <1>5. ~cmet /\ ~torn => CacheIsKept'
    BY <1>1, <1>3 DEF CredentialInv, CacheIsKept, Credential!credential_cache_file_is_usable
  <1>6. ~cmet /\ ~torn => SeedIsSafe'
    BY <1>1, <1>3 DEF CredentialInv, SeedIsSafe
  <1> QED
    BY <1>1, <1>2, <1>4, <1>5, <1>6 DEF CredentialInv

LEMMA CredentialStep == CredentialInv /\ [Credential!Next]_Credential!vars => CredentialInv'
  <1> SUFFICES ASSUME CredentialInv, [Credential!Next]_Credential!vars PROVE CredentialInv'
    OBVIOUS
  <1>1. ASSUME NEW p \in Procs,
               Credential!Start(p) \/ Credential!Crash(p) \/ \E t \in Jobs : Credential!Seed(p,
               t) \/ Credential!Agent(p, t)
        PROVE  CredentialInv'
    BY <1>1, SeedProcessKeeps, SeedLockKeeps, SeedLookKeeps, CopyKeeps, LookAgainKeeps, InstallKeeps,
       AgentKeeps DEF Credential!Seed
  <1>2. CASE UNCHANGED Credential!vars
    BY <1>2 DEF Credential!vars, CredentialInv, CredentialTypes, OneSeeds, CacheIsKept, SeedIsSafe,
                Credential!credential_cache_file_is_usable
  <1> QED
    BY <1>1, <1>2 DEF Credential!Next

LEMMA CredentialInvKeepsRefresh == CredentialInv => Credential!RefreshIsKept
  BY DEF CredentialInv, CacheIsKept, Credential!RefreshIsKept, Credential!At

\* For any processes, trials and entries: a mounted artifact is whole, and the cached credential is
\* never empty nor set back to its seed, unless two processes have met at a cache, an agent has written
\* to an artifact mounted writable, or the credential was found truncated (resolve_agent_artifact_mount_dir, seed_credential_cache_file).
THEOREM CachesStayWhole == Artifact!Spec /\ Credential!Spec => []CachesAreWhole
  <1>1. Artifact!Spec => []ArtifactInv
    BY ArtifactBegins, ArtifactStep, PTL DEF Artifact!Spec
  <1>2. Credential!Spec => []CredentialInv
    BY CredentialBegins, CredentialStep, PTL DEF Credential!Spec
  <1>3. ArtifactInv /\ CredentialInv => CachesAreWhole
    BY ArtifactInvIsWhole, CredentialInvKeepsRefresh DEF CachesAreWhole
  <1> QED
    BY <1>1, <1>2, <1>3, PTL
=============================================================================
