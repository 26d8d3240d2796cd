--------------------------- MODULE OperationLease ---------------------------
(***************************************************************************)
(* The run operation lease of lab-runner (experiment/lease.rs): the file   *)
(* runtime/operation_lease.json that every run-level operation (continue,  *)
(* recover, pause, kill, resume, fork, replay) takes before it touches a   *)
(* run and gives back when its guard is dropped.                           *)
(*                                                                         *)
(* The file system gives three atomic steps: O_EXCL creation, the rename   *)
(* behind atomic_write_json_pretty, and unlink.  Everything between two of *)
(* them is a point where another invocation may run, the clock may advance *)
(* or the process may die.  Each member of Ops is one invocation of an     *)
(* operation and doubles as the operation_id it mints.                     *)
(***************************************************************************)
EXTENDS Integers

CONSTANTS
  Ops,       \* operation invocations; next_unique_id never repeats an id
  NoOp,      \* no invocation
  TTL,       \* OPERATION_LEASE_TTL_SECONDS, in clock ticks
  MaxClock   \* bound: the last tick a behaviour reaches

ASSUME OpsAssumption == NoOp \notin Ops
ASSUME TTLAssumption == TTL \in Nat
ASSUME MaxClockAssumption == MaxClock \in Nat

VARIABLES
  file,      \* the lease file: Absent, or a record with its writer's id
  clock,     \* Utc::now(), in ticks
  pc,        \* where each invocation is
  readAt,    \* the `now` an invocation compares the existing lease with
  seen,      \* the existing lease an invocation loaded
  expires,   \* expires_at of the lease an invocation wrote
  raced      \* history: a write or an unlink hit a lease it had not inspected

vars == <<file, clock, pc, readAt, seen, expires, raced>>

Times == 0 .. (MaxClock + TTL)

Files == [kind : {"absent", "torn", "lease"}, op : Ops \cup {NoOp}, expires : Times]

Absent == [kind |-> "absent", op |-> NoOp, expires |-> 0]

\* create_new made the file; its record is not written yet, so it does not parse.
Torn(p) == [kind |-> "torn", op |-> p, expires |-> 0]

Lease(p, t) == [kind |-> "lease", op |-> p, expires |-> t]

States == {"idle", "created", "exists", "takeover", "held", "unlinking",
           "done", "refused", "crashed"}

\* The lease file, the clock and every invocation have values of their type.
TypeOK ==
  /\ file \in Files
  /\ clock \in 0 .. MaxClock
  /\ pc \in [Ops -> States]
  /\ readAt \in [Ops -> 0 .. MaxClock]
  /\ seen \in [Ops -> Files]
  /\ expires \in [Ops -> Times]
  /\ raced \in BOOLEAN

Init ==
  /\ file = Absent
  /\ clock = 0
  /\ pc = [p \in Ops |-> "idle"]
  /\ readAt = [p \in Ops |-> 0]
  /\ seen = [p \in Ops |-> Absent]
  /\ expires = [p \in Ops |-> 0]
  /\ raced = FALSE

Goto(p, from, to) ==
  /\ pc[p] = from
  /\ pc' = [pc EXCEPT ![p] = to]

\* Mutant: a lease is already stale in the second it expires.
StaleAtExpiry(lease, now) == now >= lease.expires

lease_expires_at_is_stale(lease, now) == now > lease.expires

-----------------------------------------------------------------------------
\* acquire_run_operation_lease

\* OpenOptions::create_new succeeds: the file exists and is empty.
CreateNew(p) ==
  /\ file = Absent
  /\ Goto(p, "idle", "created")
  /\ file' = Torn(p)
  /\ UNCHANGED <<clock, readAt, seen, expires, raced>>

\* The record goes through the handle of the created file: if that file was
\* unlinked meanwhile, the write reaches no path and the caller cannot tell.
WriteRecord(p) ==
  /\ Goto(p, "created", "held")
  /\ expires' = [expires EXCEPT ![p] = clock + TTL]
  /\ file' = IF file = Torn(p) THEN Lease(p, clock + TTL) ELSE file
  /\ raced' = (raced \/ file # Torn(p))
  /\ UNCHANGED <<clock, readAt, seen>>

\* create_new failed with AlreadyExists: `now` is read before the lease is.
AlreadyExists(p) ==
  /\ file # Absent
  /\ Goto(p, "idle", "exists")
  /\ readAt' = [readAt EXCEPT ![p] = clock]
  /\ UNCHANGED <<file, clock, seen, expires, raced>>

\* Mutant: any lease that parses is taken over, fresh or not.
LoadExistingUnchecked(p) ==
  /\ seen' = [seen EXCEPT ![p] = file]
  /\ \/ file.kind = "lease" /\ Goto(p, "exists", "takeover")
     \/ file.kind # "lease" /\ Goto(p, "exists", "refused")
  /\ UNCHANGED <<file, clock, readAt, expires, raced>>

\* A stale lease is to be replaced; a fresh one, one that does not parse or one
\* that has just disappeared ends the operation with an error.
LoadExisting(p) ==
  /\ seen' = [seen EXCEPT ![p] = file]
  /\ \/ /\ file.kind = "lease"
        /\ lease_expires_at_is_stale(file, readAt[p])
        /\ Goto(p, "exists", "takeover")
     \/ /\ file.kind = "lease" => ~lease_expires_at_is_stale(file, readAt[p])
        /\ Goto(p, "exists", "refused")
  /\ UNCHANGED <<file, clock, readAt, expires, raced>>

\* atomic_write_json_pretty renames the replacement over whatever is there now.
WriteReplacement(p) ==
  /\ Goto(p, "takeover", "held")
  /\ expires' = [expires EXCEPT ![p] = clock + TTL]
  /\ file' = Lease(p, clock + TTL)
  /\ raced' = (raced \/ file # seen[p])
  /\ UNCHANGED <<clock, readAt, seen>>

\* An error between create_new and the record (operation_owner_host, write_all,
\* sync_all) returns without removing the empty file.
AcquireFails(p) ==
  /\ Goto(p, "created", "refused")
  /\ UNCHANGED <<file, clock, readAt, seen, expires, raced>>

-----------------------------------------------------------------------------
\* Drop for RunOperationLease

\* The guard unlinks the file only if the record it loads carries its own id.
DropInspect(p) ==
  /\ \/ /\ file.kind = "lease" /\ file.op = p
        /\ Goto(p, "held", "unlinking")
     \/ /\ ~(file.kind = "lease" /\ file.op = p)
        /\ Goto(p, "held", "done")
  /\ UNCHANGED <<file, clock, readAt, seen, expires, raced>>

\* remove_file removes what the path names now; a missing file is a warning.
DropUnlink(p) ==
  /\ Goto(p, "unlinking", "done")
  /\ file' = Absent
  /\ raced' = (raced \/ (file # Absent /\ file # Lease(p, expires[p])))
  /\ UNCHANGED <<clock, readAt, seen, expires>>

-----------------------------------------------------------------------------
\* The environment: a process dies at any point, time passes.

Crash(p) ==
  /\ pc[p] \in {"created", "exists", "takeover", "held", "unlinking"}
  /\ pc' = [pc EXCEPT ![p] = "crashed"]
  /\ UNCHANGED <<file, clock, readAt, seen, expires, raced>>

Tick ==
  /\ clock < MaxClock
  /\ clock' = clock + 1
  /\ UNCHANGED <<file, pc, readAt, seen, expires, raced>>

Next ==
  \/ \E p \in Ops :
       \/ CreateNew(p) \/ WriteRecord(p) \/ AlreadyExists(p) \/ LoadExisting(p)
       \/ WriteReplacement(p) \/ AcquireFails(p)
       \/ DropInspect(p) \/ DropUnlink(p) \/ Crash(p)
  \/ Tick

Spec == Init /\ [][Next]_vars

-----------------------------------------------------------------------------
\* An invocation is inside its operation with a lease that has not expired.
HoldsFresh(p) == pc[p] = "held" /\ clock <= expires[p]

\* At most one operation works on the run under an unexpired lease, as the
\* test run_operation_lease_is_exclusive has it ("second lock must fail").
Exclusive == \A p, q \in Ops : HoldsFresh(p) /\ HoldsFresh(q) => p = q

\* The takeover of a stale lease and the unlink in Drop act on a lease read in
\* an earlier step.  As long as no such step hits a lease other than the one it
\* inspected, unexpired leases are exclusive: the two windows are the only hole
\* in acquire_run_operation_lease.
ExclusiveUnlessRaced == ~raced => Exclusive

\* A step that leaves every fresh holder's record in place.
KeepsFreshLeases ==
  \A p \in Ops : file = Lease(p, expires[p]) /\ HoldsFresh(p)
                   => file' = file \/ pc'[p] # "held"

\* A lease is displaced by another operation's only once it has expired: no
\* step of one operation replaces or removes another's fresh, parsable lease,
\* again unless one of the two windows was hit.
FreshLeaseStays == [][~raced' => KeepsFreshLeases]_vars
=============================================================================
