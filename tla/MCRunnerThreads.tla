--------------------------- MODULE MCRunnerThreads ---------------------------
(***************************************************************************)
(* Seven parts of a runner that work beside its engine and share no state  *)
(* with each other: the Docker coordinator, the store's writer, the ingest *)
(* of a trial's events, what a trial is recorded as, preflight, and the    *)
(* two caches of what is mounted into trials.  Since no step of one is     *)
(* visible to another, a behaviour takes the steps of one `part` only, and *)
(* the other parts stay where they start.                                  *)
(***************************************************************************)
EXTENDS DockerCoordinator, Sequences

CONSTANTS Callers, MaxWrites, MaxLines, MaxAttempts, SlotAttempts,
          PkgImages, Variants, Probers, Procs, Jobs, Entries

\* No caller is the command to stop.
ASSUME CallersAssumption == "Stop" \notin Callers /\ MaxWrites \in Nat
ASSUME PreflightAssumption == PkgImages \in Nat /\ Variants \in Nat
ASSUME EntriesAssumption == Entries \in Nat

VARIABLES
  part,
  queue, thread, guard, store, waiting, reply, writes, told,
  file, tail, table, worker, attempt, evidence, ingest, next, stop,
  conf, step, tries, out, agent, response, grader, row, grade_error, given_up, record,
  state, slot, unmarked,
  pkg, stage, variant, failed, index, at, outcome, proved, broke,
  mpc, mlock, staging, unpacked, ready, done, stale, mmet, spoiled,
  cpc, clock, tmp, cache, opened, torn, refreshed, cmet

Writer == INSTANCE StoreWriter
Events == INSTANCE EventIngest
Conclusion == INSTANCE TrialConclusion WITH pc <- step, attempt <- tries
Checks == INSTANCE Preflight
            WITH Images <- PkgImages, Workers <- Probers, pc <- stage, next <- index,
                 result <- outcome
Artifact == INSTANCE ArtifactCache
              WITH Trials <- Jobs, pc <- mpc, lock <- mlock, met <- mmet
Credential == INSTANCE CredentialCache
                WITH Trials <- Jobs, pc <- cpc, lock <- clock, met <- cmet

writerVars == <<queue, thread, guard, store, waiting, reply, writes, told>>
eventVars == <<file, tail, table, worker, attempt, evidence, ingest, next, stop>>
conclusionVars ==
  <<conf, step, tries, out, agent, response, grader, row, grade_error, given_up, record,
    state, slot, unmarked>>
checkVars == <<pkg, stage, variant, failed, index, at, outcome, proved, broke>>
artifactVars == <<mpc, mlock, staging, unpacked, ready, done, stale, mmet, spoiled>>
credentialVars == <<cpc, clock, tmp, cache, opened, torn, refreshed, cmet>>
cacheVars == <<artifactVars, credentialVars>>
allVars == <<part, vars, writerVars, eventVars, conclusionVars, checkVars, cacheVars>>

SomePackage == CHOOSE p \in Checks!Packages : TRUE
SomeConf == CHOOSE c \in Conclusion!Confs : TRUE

\* A part that does not run has one initial state.
MCInit ==
  /\ part \in {"coordinator", "writer", "events", "conclusion", "preflight", "artifact",
               "credential"}
  /\ local \in IF part = "coordinator" THEN SUBSET Refs ELSE {{}}
  /\ pkg \in IF part = "preflight" THEN Checks!Packages ELSE {SomePackage}
  /\ conf \in IF part = "conclusion" THEN Conclusion!Confs ELSE {SomeConf}
  /\ cache \in IF part = "credential" THEN {"none", "empty"} ELSE {"none"}
  /\ Init /\ Writer!Init /\ Events!Init /\ Conclusion!Init /\ Checks!Init
  /\ Artifact!Init /\ Credential!Init

OfTrials == UNCHANGED <<part, vars, writerVars, checkVars, cacheVars>>
OfCoordinator ==
  part = "coordinator"
  /\ UNCHANGED <<part, writerVars, eventVars, conclusionVars, checkVars, cacheVars>>
OfWriter ==
  part = "writer"
  /\ UNCHANGED <<part, vars, eventVars, conclusionVars, checkVars, cacheVars>>
OfEvents == part = "events" /\ OfTrials /\ UNCHANGED conclusionVars
OfConclusion == part = "conclusion" /\ OfTrials /\ UNCHANGED eventVars
OfPreflight ==
  part = "preflight"
  /\ UNCHANGED <<part, vars, writerVars, eventVars, conclusionVars, cacheVars>>
OfCaches == UNCHANGED <<part, vars, writerVars, eventVars, conclusionVars, checkVars>>
OfArtifact == part = "artifact" /\ OfCaches /\ UNCHANGED credentialVars
OfCredential == part = "credential" /\ OfCaches /\ UNCHANGED artifactVars

MCNext ==
  \/ OfCoordinator /\ Next
  \/ OfWriter /\ Writer!Next
  \/ OfEvents /\ Events!Next
  \/ OfConclusion /\ Conclusion!Next
  \/ OfPreflight /\ Checks!Next
  \/ OfArtifact /\ Artifact!Next
  \/ OfCredential /\ Credential!Next

\* The fairness of the seven modules, of the part that runs.
MCSpec ==
  /\ MCInit /\ [][MCNext]_allVars
  /\ \A t \in Threads : SF_allVars(OfCoordinator /\ Step(t))
  /\ \A c \in Callers : WF_allVars(OfWriter /\ Writer!Receive(c))
  /\ WF_allVars(OfWriter /\ (Writer!OpenStore \/ Writer!Apply \/ Writer!Stop))
  /\ WF_allVars(OfWriter /\ Writer!DropGuard) /\ WF_allVars(OfWriter /\ Writer!Join)
  /\ WF_allVars(OfEvents /\ Events!Ingest) /\ WF_allVars(OfEvents /\ Events!Worker)
  /\ WF_allVars(OfConclusion /\ Conclusion!OwnStep)
  /\ WF_allVars(OfConclusion /\ Conclusion!Agent /\ conf.site = "container")
  /\ WF_allVars(OfConclusion /\ Conclusion!Grader /\ conf.grading = "container")
  /\ WF_allVars(OfPreflight /\ Checks!Next)
  /\ WF_allVars(OfArtifact /\ (\E p \in Procs, t \in Jobs : Artifact!Step(p, t)))
  /\ WF_allVars(OfCredential /\ (\E p \in Procs, t \in Jobs : Credential!Seed(p, t)))

\* At most one thread is at work on an image for a platform, and the pulls that run
\* are the permits that are taken, so that they stay within the limit
\* (cleanup_image_lock, CountingSemaphore).
PullsAreSerialized == SingleFlight /\ PullsAreCounted /\ pulls <= MaxPulls

\* What is recorded is what happened.  The rows: for a caller that is not waiting the row
\* is the last write it was told is done, or a later one that the store reported an error of,
\* and a call that was dropped wrote nothing.  A trial's
\* trajectory: when the poller has been joined every line has its live row, and after the
\* commit the committed rows are the lines, each once and in order, whatever live rows
\* were there under the same keys.  Its conclusion: a success is what the last attempt's
\* grader, or its agent with a result of its own, came to; no attempt that was one is
\* retried; the state of the trial and the status of its slot agree, except where a
\* result is missing; and no trial that is over is left running, but for a guard that
\* could not write (run_store_writer_loop, live_event_ingest_loop,
\* commit_schedule_slot_transaction, finalize_scheduled_trial, TrialStateGuard).
RecordsAreTrue ==
  /\ Writer!StoreMatchesReplies
  /\ Events!NothingFallsBehind /\ Events!CommittedRowsAreTheTrajectory
  /\ Conclusion!SuccessIsEarned /\ Conclusion!SuccessIsKept
  /\ Conclusion!StateAgreesWithSlot

\* A run that starts on Docker has had every image its rows name fetched and the
\* agent, and a grader in a container, tried in it, for every variant; and no probe
\* has failed (collect_preflight_checks_for_executor, run_bounded_image_probes).
StartedRunWasTried == Checks!StartedRunWasTried

\* What is mounted into a trial is whole and stays so: the unpacked artifact has every
\* entry, whatever a process that died has left behind, and the cached credential is
\* never empty nor set back to its seed after an agent has refreshed it.  The
\* exceptions are two processes at one cache, an agent that wrote to an artifact mounted
\* writable, and a credential found truncated
\* (resolve_agent_artifact_mount_dir, seed_credential_cache_file).
CachesAreWhole == Artifact!MountedIsWhole /\ Credential!RefreshIsKept

\* Every call of ensure_image returns, no caller of the writer waits for ever and
\* the run can end its writer, the events of a trial are read to their end, a trial
\* comes to a result unless something on the host never ends, preflight comes to a
\* verdict, and who asks a cache is served (CountingSemaphore, RunStoreWriterGuard::drop,
\* live_event_ingest_loop, execute_local_trial, run_experiment, agent_artifact_cache_lock,
\* credential_cache_seed_lock).  Calls and writes are bounded in number, so that all of
\* them return if the threads come to rest.
ThreadsFinish ==
  <>[](CASE part = "coordinator" -> AllReturned
         [] part = "writer" -> Writer!AllAnswered
         [] part = "events" -> Events!TrialEnded
         [] part = "conclusion" -> Conclusion!Concluded
         [] part = "preflight" -> Checks!VerdictReached
         [] part = "artifact" -> Artifact!AllServed
         [] part = "credential" -> Credential!AllSeeded)
=============================================================================
