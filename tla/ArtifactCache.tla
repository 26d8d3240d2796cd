---------------------------- MODULE ArtifactCache ----------------------------
(***************************************************************************)
(* The unpacked agent artifact beside its archive                          *)
(* (resolve_agent_artifact_mount_dir, trial/execution.rs): worker threads  *)
(* that all want the same digest, in a runner that may die and be started  *)
(* again, or be started twice.  The mutex is one process' own; the cache   *)
(* directory belongs to everyone who runs the package.                     *)
(*                                                                         *)
(* A directory is the set of archive entries it holds.  Removing one is    *)
(* not atomic: it empties it entry by entry.                               *)
(***************************************************************************)
EXTENDS Integers, FiniteSets

CONSTANTS
  Procs,      \* runs of the program, each with its pid
  Trials,     \* worker threads in each
  Entries     \* how many entries the archive has

All == 1 .. Entries
Gone == {0}   \* no directory: entries are counted from 1

VARIABLES
  pc,        \* where each thread of each process is
  lock,      \* who holds agent_artifact_cache_lock of each process
  staging,   \* <digest>.tmp.<pid>.<time>: Gone, or the entries in it
  unpacked,  \* <digest>: Gone, or the entries in it
  ready,     \* .bucephalus_ready is in it
  done,      \* how many entries each process has unpacked
  stale,     \* the staging directories a clean-up has listed and not yet removed
  met,       \* history: two processes were behind their locks at once
  spoiled    \* history: an agent has written to the directory it was given

vars == <<pc, lock, staging, unpacked, ready, done, stale, met, spoiled>>

Init ==
  /\ pc = [p \in Procs |-> [t \in Trials |-> "unborn"]]
  /\ lock = [p \in Procs |-> {}]
  /\ staging = [p \in Procs |-> Gone]
  /\ unpacked = Gone /\ ready = FALSE
  /\ done = [p \in Procs |-> 0]
  /\ stale = [p \in Procs |-> {}]
  /\ met = FALSE /\ spoiled = FALSE

At(p, t, here) == pc[p][t] = here
Goto(p, t, there) == pc' = [pc EXCEPT ![p][t] = there]

\* The guard is dropped with the return, whichever it is.
Return(p, t, how) ==
  /\ Goto(p, t, how)
  /\ lock' = [lock EXCEPT ![p] = {}]

-----------------------------------------------------------------------------
\* A process starts: its threads ask for the artifact.
Start(p) ==
  /\ \A t \in Trials : At(p, t, "unborn")
  /\ pc' = [pc EXCEPT ![p] = [t \in Trials |-> "ask"]]
  /\ UNCHANGED <<lock, staging, unpacked, ready, done, stale, met, spoiled>>

\* The marker is looked for before the lock is taken.
Ask(p, t) ==
  /\ At(p, t, "ask")
  /\ Goto(p, t, IF ready THEN "mounted" ELSE "lock")
  /\ UNCHANGED <<lock, staging, unpacked, ready, done, stale, met, spoiled>>

Lock(p, t) ==
  /\ At(p, t, "lock") /\ lock[p] = {}
  /\ lock' = [lock EXCEPT ![p] = {t}]
  /\ met' = (met \/ \E q \in Procs \ {p} : lock[q] # {})
  /\ Goto(p, t, "look")
  /\ UNCHANGED <<staging, unpacked, ready, done, stale, spoiled>>

\* Mutant: the marker is not looked for again under the lock.
LookAway(p, t) ==
  /\ At(p, t, "look")
  /\ Goto(p, t, "list")
  /\ UNCHANGED <<lock, staging, unpacked, ready, done, stale, met, spoiled>>

\* And again under it.
Look(p, t) ==
  /\ At(p, t, "look")
  /\ IF ready THEN Return(p, t, "mounted") ELSE Goto(p, t, "list") /\ UNCHANGED lock
  /\ UNCHANGED <<staging, unpacked, ready, done, stale, met, spoiled>>

\* cleanup_agent_artifact_staging_dirs lists the directories of this digest,
ListStaging(p, t) ==
  /\ At(p, t, "list")
  /\ stale' = [stale EXCEPT ![p] = {q \in Procs : staging[q] # Gone}]
  /\ Goto(p, t, "clean")
  /\ UNCHANGED <<lock, staging, unpacked, ready, done, met, spoiled>>

\* and removes them one by one, whosever they are.  One that is gone, or that
\* fills up behind it, is an error.
CleanStaging(p, t) ==
  /\ At(p, t, "clean")
  /\ \/ /\ stale[p] = {} /\ Goto(p, t, "remove")
        /\ UNCHANGED <<lock, staging, stale>>
     \/ \E q \in stale[p] :
          \/ /\ staging[q] # {} /\ Return(p, t, "failed")
             /\ UNCHANGED <<staging, stale>>
          \/ /\ staging[q] = {}
             /\ staging' = [staging EXCEPT ![q] = Gone]
             /\ stale' = [stale EXCEPT ![p] = @ \ {q}]
             /\ UNCHANGED <<pc, lock>>
          \/ /\ staging[q] # Gone /\ \E e \in staging[q] :
                  staging' = [staging EXCEPT ![q] = @ \ {e}]
             /\ UNCHANGED <<pc, lock, stale>>
  /\ UNCHANGED <<unpacked, ready, done, met, spoiled>>

\* What was unpacked and not marked is removed, the marker with it if it has come.
RemoveUnpacked(p, t) ==
  /\ At(p, t, "remove")
  /\ \/ /\ unpacked = Gone \/ (unpacked = {} /\ ~ready)
        /\ unpacked' = Gone
        /\ Goto(p, t, "make") /\ UNCHANGED <<lock, ready>>
     \/ /\ unpacked # Gone /\ \E e \in unpacked : unpacked' = unpacked \ {e}
        /\ UNCHANGED <<pc, lock, ready>>
     \/ /\ unpacked # Gone /\ ready /\ ready' = FALSE
        /\ UNCHANGED <<pc, lock, unpacked>>
     \/ /\ unpacked # Gone /\ Return(p, t, "failed")
        /\ UNCHANGED <<unpacked, ready>>
  /\ UNCHANGED <<staging, done, stale, met, spoiled>>

MakeStaging(p, t) ==
  /\ At(p, t, "make")
  /\ staging' = [staging EXCEPT ![p] = {}]
  /\ done' = [done EXCEPT ![p] = 0]
  /\ Goto(p, t, "unpack")
  /\ UNCHANGED <<lock, unpacked, ready, stale, met, spoiled>>

\* unpack_agent_artifact_archive: the entries in their order; it fails on a bad
\* archive, a full disk or a directory that is gone.
Unpack(p, t) ==
  /\ At(p, t, "unpack")
  /\ \/ /\ staging[p] # Gone /\ done[p] < Entries
        /\ staging' = [staging EXCEPT ![p] = @ \cup {done[p] + 1}]
        /\ done' = [done EXCEPT ![p] = @ + 1]
        /\ UNCHANGED pc
     \/ /\ Goto(p, t, IF done[p] = Entries THEN "rename" ELSE "undo")
        /\ UNCHANGED <<staging, done>>
  /\ UNCHANGED <<lock, unpacked, ready, stale, met, spoiled>>

\* rename takes the place of nothing or of an empty directory.
Rename(p, t) ==
  /\ At(p, t, "rename")
  /\ \/ /\ staging[p] # Gone /\ unpacked \in {Gone, {}} /\ ~ready
        /\ unpacked' = staging[p]
        /\ staging' = [staging EXCEPT ![p] = Gone]
        /\ Goto(p, t, "mark")
     \/ /\ Goto(p, t, "undo")
        /\ UNCHANGED <<staging, unpacked>>
  /\ UNCHANGED <<lock, ready, done, stale, met, spoiled>>

\* remove_path_if_exists of the process' own staging directory, and the error.
Undo(p, t) ==
  /\ At(p, t, "undo")
  /\ staging' = [staging EXCEPT ![p] = Gone]
  /\ Return(p, t, "failed")
  /\ UNCHANGED <<unpacked, ready, done, stale, met, spoiled>>

Mark(p, t) ==
  /\ At(p, t, "mark")
  /\ \/ /\ unpacked # Gone /\ ready' = TRUE
        /\ Return(p, t, "mounted")
     \/ /\ Return(p, t, "failed") /\ UNCHANGED ready
  /\ UNCHANGED <<staging, unpacked, done, stale, met, spoiled>>

\* The process dies where it is; what it has made stays, and so do the containers that
\* have the directory mounted.
Crash(p) ==
  /\ \E t \in Trials : pc[p][t] \notin {"unborn", "dead", "left"}
  /\ pc' = [pc EXCEPT ![p] = [t \in Trials |-> IF At(p, t, "mounted") THEN "left" ELSE "dead"]]
  /\ lock' = [lock EXCEPT ![p] = {}]
  /\ UNCHANGED <<staging, unpacked, ready, done, stale, met, spoiled>>

\* The bound on what agents do to the cache: the first write is taken, by whichever agent
\* and at whatever time, and none after it.
FirstWrite == ~spoiled

\* With mount.read_only false the agent's container has the cache itself, not a copy, and
\* the agent changes or removes an entry, or the marker.
AgentWrites(p, t) ==
  /\ FirstWrite
  /\ pc[p][t] \in {"mounted", "left"} /\ unpacked # Gone
  /\ \/ \E e \in unpacked : unpacked' = unpacked \ {e} /\ UNCHANGED ready
     \/ ready /\ ready' = FALSE /\ UNCHANGED unpacked
  /\ spoiled' = TRUE
  /\ UNCHANGED <<pc, lock, staging, done, stale, met>>

Step(p, t) ==
  \/ Ask(p, t) \/ Lock(p, t) \/ Look(p, t) \/ ListStaging(p, t) \/ CleanStaging(p, t)
  \/ RemoveUnpacked(p, t) \/ MakeStaging(p, t) \/ Unpack(p, t) \/ Rename(p, t)
  \/ Undo(p, t) \/ Mark(p, t)

Next ==
  \E p \in Procs :
    Start(p) \/ Crash(p) \/ \E t \in Trials : Step(p, t) \/ AgentWrites(p, t)

\* Some thread that can run runs; each takes the lock once, so all get it.
Fairness == WF_vars(\E p \in Procs, t \in Trials : Step(p, t))

Spec == Init /\ [][Next]_vars /\ Fairness

-----------------------------------------------------------------------------
\* A thread that was given the directory finds every entry of the archive in it,
\* for as long as it runs and whatever was left behind by a process that died,
\* unless two processes were at the cache at once or an agent with a writable mount has
\* changed what all agents share (resolve_agent_artifact_mount_dir).
MountedIsWhole ==
  ~met /\ ~spoiled => \A p \in Procs, t \in Trials : At(p, t, "mounted") => unpacked = All

\* Without the exception: two processes can leave a marked directory that lacks
\* entries, because each removes the staging directories of all.
MarkedIsWhole == ready => unpacked = All

\* What one trial's agent does is not seen by another's: with one process at the cache a
\* thread that was given the directory finds it whole.  It does not, when an agent wrote
\* there.
TrialsAreIsolated ==
  ~met => \A p \in Procs, t \in Trials : At(p, t, "mounted") => unpacked = All

\* Every thread that asked has its directory or an error.
AllServed ==
  \A p \in Procs, t \in Trials : pc[p][t] \in {"unborn", "mounted", "failed", "dead", "left"}
=============================================================================
