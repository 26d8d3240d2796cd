--------------------------- MODULE CredentialCache ---------------------------
(***************************************************************************)
(* The cached credential of a secret (seed_credential_cache_file,          *)
(* experiment/runtime.rs): it is seeded from the operator's file, mounted  *)
(* into every trial that declares it, and refreshed there by the agent.    *)
(* The lock is one process' own; the cache outlives processes and is       *)
(* shared by all that resolve the same secret.                             *)
(***************************************************************************)
EXTENDS Integers, FiniteSets

CONSTANTS
  Procs,     \* runs of the program
  Trials     \* worker threads in each

VARIABLES
  pc,        \* where each trial is
  lock,      \* who holds credential_cache_seed_lock of each process
  tmp,       \* .<name>.<pid>.<n>.seed.tmp of each process: "none", "part", "whole"
  cache,     \* the file: "none", "empty", "seed", "fresh"
  opened,    \* trials whose agent has truncated the file that is there
  torn,      \* history: a trial that starts has taken such a file for an empty one
  refreshed, \* history: an agent has put a new credential into the file
  met        \* history: two processes were behind their locks at once

vars == <<pc, lock, tmp, cache, opened, torn, refreshed, met>>

Init ==
  /\ pc = [p \in Procs |-> [t \in Trials |-> "unborn"]]
  /\ lock = [p \in Procs |-> {}]
  /\ tmp = [p \in Procs |-> "none"]
  /\ cache \in {"none", "empty"}
  /\ opened = {}
  /\ torn = FALSE /\ refreshed = FALSE /\ met = FALSE

At(p, t, here) == pc[p][t] = here
Goto(p, t, there) == pc' = [pc EXCEPT ![p][t] = there]

Return(p, t, how) ==
  /\ Goto(p, t, how)
  /\ lock' = [lock EXCEPT ![p] = {}]

\* A file with something in it.
credential_cache_file_is_usable == cache \in {"seed", "fresh"}

-----------------------------------------------------------------------------
Start(p) ==
  /\ \A t \in Trials : At(p, t, "unborn")
  /\ pc' = [pc EXCEPT ![p] = [t \in Trials |-> "lock"]]
  /\ UNCHANGED <<lock, tmp, cache, opened, torn, refreshed, met>>

Lock(p, t) ==
  /\ At(p, t, "lock") /\ lock[p] = {}
  /\ lock' = [lock EXCEPT ![p] = {t}]
  /\ met' = (met \/ \E q \in Procs \ {p} : lock[q] # {})
  /\ Goto(p, t, "look")
  /\ UNCHANGED <<tmp, cache, opened, torn, refreshed>>

Look(p, t) ==
  /\ At(p, t, "look")
  /\ IF credential_cache_file_is_usable THEN Return(p, t, "running")
     ELSE Goto(p, t, "create") /\ UNCHANGED lock
  /\ UNCHANGED <<tmp, cache, opened, torn, refreshed, met>>

\* fs::copy creates the file and fills it; if it fails the file is removed.
CopyBegins(p, t) ==
  /\ At(p, t, "create")
  /\ tmp' = [tmp EXCEPT ![p] = "part"]
  /\ Goto(p, t, "fill")
  /\ UNCHANGED <<lock, cache, opened, torn, refreshed, met>>

CopyEnds(p, t) ==
  /\ At(p, t, "fill")
  /\ \/ /\ tmp' = [tmp EXCEPT ![p] = "whole"]
        /\ Goto(p, t, "again") /\ UNCHANGED lock
     \/ /\ tmp' = [tmp EXCEPT ![p] = "none"]
        /\ Return(p, t, "failed")
  /\ UNCHANGED <<cache, opened, torn, refreshed, met>>

\* "existing cache won race": what has come in the meantime stays.
LookAgain(p, t) ==
  /\ At(p, t, "again")
  /\ IF credential_cache_file_is_usable
     THEN /\ tmp' = [tmp EXCEPT ![p] = "none"]
          /\ Return(p, t, "running") /\ UNCHANGED torn
     ELSE /\ torn' = (torn \/ opened # {})
          /\ Goto(p, t, "replace") /\ UNCHANGED <<lock, tmp>>
  /\ UNCHANGED <<cache, opened, refreshed, met>>

\* An empty file is removed first, and with it what an agent is to write into it.
RemoveEmpty(p, t) ==
  /\ At(p, t, "replace")
  /\ cache' = "none" /\ opened' = {}
  /\ Goto(p, t, "install")
  /\ UNCHANGED <<lock, tmp, torn, refreshed, met>>

Install(p, t) ==
  /\ At(p, t, "install")
  /\ tmp' = [tmp EXCEPT ![p] = "none"]
  /\ \/ /\ cache' = IF tmp[p] = "whole" THEN "seed" ELSE "empty"
        /\ opened' = {}
        /\ Return(p, t, "running")
     \/ Return(p, t, "failed") /\ UNCHANGED <<cache, opened>>
  /\ UNCHANGED <<torn, refreshed, met>>

-----------------------------------------------------------------------------
(* The agent in its container: not this repository's code. *)

\* It replaces the file with a new one,
Replace(p, t) ==
  /\ At(p, t, "running")
  /\ cache' = "fresh" /\ refreshed' = TRUE
  /\ opened' = {}
  /\ UNCHANGED <<pc, lock, tmp, torn, met>>

\* or truncates it and writes to it: to the file it has open.
Truncate(p, t) ==
  /\ At(p, t, "running") /\ cache # "none"
  /\ cache' = "empty" /\ opened' = opened \cup {<<p, t>>}
  /\ UNCHANGED <<pc, lock, tmp, torn, refreshed, met>>

Rewrite(p, t) ==
  /\ <<p, t>> \in opened
  /\ cache' = "fresh" /\ opened' = opened \ {<<p, t>>}
  /\ refreshed' = TRUE
  /\ UNCHANGED <<pc, lock, tmp, torn, met>>

\* The process dies; its containers may go on.
Crash(p) ==
  /\ \E t \in Trials : ~At(p, t, "unborn") /\ ~At(p, t, "dead")
  /\ pc' = [pc EXCEPT ![p] = [t \in Trials |-> "dead"]]
  /\ lock' = [lock EXCEPT ![p] = {}]
  /\ UNCHANGED <<tmp, cache, opened, torn, refreshed, met>>

-----------------------------------------------------------------------------
Seed(p, t) ==
  \/ Lock(p, t) \/ Look(p, t) \/ CopyBegins(p, t) \/ CopyEnds(p, t)
  \/ LookAgain(p, t) \/ RemoveEmpty(p, t) \/ Install(p, t)

Agent(p, t) == Replace(p, t) \/ Truncate(p, t) \/ Rewrite(p, t)

Next ==
  \E p \in Procs : Start(p) \/ Crash(p) \/ \E t \in Trials : Seed(p, t) \/ Agent(p, t)

\* Some thread that can run runs; each takes the lock once, so all get it.
Fairness == WF_vars(\E p \in Procs, t \in Trials : Seed(p, t))

Spec == Init /\ [][Next]_vars /\ Fairness

-----------------------------------------------------------------------------
\* A trial runs with a whole credential, and one that an agent has refreshed is not
\* replaced by the seed, however many trials start while others refresh.  The
\* exceptions are two processes that seed at once, and a trial that starts while
\* an agent has the file truncated (seed_credential_cache_file).
RefreshIsKept ==
  ~met /\ ~torn /\ opened = {} =>
    /\ refreshed => cache = "fresh"
    /\ \A p \in Procs, t \in Trials : At(p, t, "running") => credential_cache_file_is_usable

\* Without the second exception.
RefreshIsNeverLost == ~met /\ opened = {} /\ refreshed => cache = "fresh"

\* Every trial has its mount or an error.
AllSeeded ==
  \A p \in Procs, t \in Trials : pc[p][t] \in {"unborn", "running", "failed", "dead"}
=============================================================================
