# Bucephalus: a TLA+ verification project

Bucephalus runs agent experiments. `lab-runner` (Rust) compiles a package into a
schedule of trials, runs the trials on worker threads in Docker, on Modal or on
the host, commits their results to a run store in schedule order, and can take a
run up again after a pause, an interruption or a crash. `lab-cli` holds its
command lines, `lab-analysis` reads what it leaves, and `bucephalus-cloud`
(TypeScript) queues runs, leases them to remote workers and gives access to them.

The project models what decides whether a result is lost, counted twice or
attributed to the wrong trial, whether a container, permit or thread is left
behind, and whether what a user is told is so. Paths below are relative to
`rust/crates/lab-runner/src/` unless they say otherwise; `worker.ts` and
`…/repository.ts` are under `bucephalus-cloud/src/`, `main.rs`,
`latch_daemon.rs`, `cloud_login.rs` and `bin/…` under `rust/crates/lab-cli/src/`.

## 1. Inventory

| Part | State | Operations | Hard because |
|---|---|---|---|
| Operation lease (`experiment/lease.rs`) | one JSON file per run | acquire, take over, drop | processes that read and then write a file; crashes; time |
| Engine lease (`experiment/lease.rs`) | one key in the run store | start, heartbeat, adopt (with `--force`) | nothing is compared on write; safety is timing |
| Run store (`persistence/store.rs`, `postgres.rs`, `journal.rs`) | `schedule_slots`, `slot_commit_records`, pending completions, progress, attempts | claim, release, commit, intent, mark committed | several processes; statements interleave; crash between transactions |
| Store writer (`persistence/writer.rs`) | a channel and a thread | write, reply, stop | request and reply across threads |
| Slot broker and pull workers (`experiment/runner.rs`) | slot states, in-flight map, per-variant counts, pruned set; mutex and condition variable | claim_next, rollback, release, complete, stop | lost wake-ups, exact counts, all-exited |
| Schedule engine (`experiment/runner.rs`) | event loop, worker channel, run_control | run, events, shutdown, interrupt | events that come late; errors in the middle |
| Committer (`experiment/commit.rs`) | committed keys, pending by schedule, attempts, progress | enqueue, drain | intent, transaction, memory: a crash can divide them |
| Continuation and recovery (`experiment/runner.rs`) | all of the above, reloaded | continue_run, recover_run | must accept any state a crash leaves |
| Run control (`experiment/control.rs`) | run_control, attempt rows, containers | pause, kill, resume | read-modify-write against the engine and its trials |
| Replay and fork (`experiment/runner.rs`) | rows, objects and manifests of a trial run once more | replay_trial, fork_trial, resume_trial without a container | outside the schedule but in its tables; names by the second; a lease that is not renewed |
| Trial attempts (`trial/execution/local_docker.rs`, `modal.rs`; `modal-launcher/main.go`) | attempt rows with phases, containers or sandboxes, permits | start, exec, grade, clean up, retry, recover | any call fails; the runner dies; the launcher outlives it |
| Trial conclusion (`trial/schedule.rs`, `grade.rs`) | the trial's out directory, record, state | run, read, grade, retry, record | attempts share a directory; each source of a verdict may be missing or bad |
| Docker coordinator (`backend/docker.rs`) | a mutex per image, a counting semaphore | ensure_image | locks taken out of the map while others take them |
| Event ingest (`trial/events.rs`) | the agent's file, `event_rows` | poll, stop, commit | a reader behind a writer; half lines; two keys for one row |
| Preflight (`experiment/preflight.rs`) | verdicts, a shared counter | checks, probe threads | what one check defers another must do |
| Artifact cache (`trial/execution.rs`), credential cache (`experiment/runtime.rs`) | files shared by processes | unpack, seed, refresh | locks are per process, files are not |
| Latch run (`latch.rs`, `trial/materialization.rs`) | a directory per case, the agent's process, baseline, diff, grader output | seed, spawn, poll, capture, reveal, grade | an agent that works, idles, forks and exits between two looks; directories by name |
| Latch dispatch (`main.rs`, `latch_daemon.rs`) | socket, info file, jobs in memory, dispatch record, archive | start, refresh, status, cancel, submit | clients and daemons share only files |
| Cloud queue (`packages/repository.ts`, `worker.ts`) | runs, attempts | claim, heartbeat, complete, fail, cancel, expire | leases and lost answers over a network |
| Runtime access (`runtime/repository.ts`, `worker.ts`, `bin/buc.rs`) | access requests | exec, port-forward --attach, expire, cancel | two looks of one worker, time to live, versions |
| Followed output (`bin/buc.rs`, `runtime/repository.ts`) | cursor, overlap, known versions | logs, events, watch with `--follow` | the stream grows between two polls |
| Cloud login (`cloud_login.rs`, `main.rs`, `bin/bucephalus-cloud.rs`) | access token, refresh token, cache, profile: four files | login, logout, refresh | three programs, no lock; files written one by one; tokens the server revokes |
| Packages (`package/`, `main.rs`) | a directory with payload, blobs, checksums, lock, report and manifest; the path it is published at; `experiment_bundles` | build, publish, check, register, run, mark as tested | commands share a path and no lock; each verifies with a look of its own |
| Authoring, schemas, analysis, formatting | — | — | not modelled, see section 6 |

How they interact. The engine's workers and its coordinator meet in the broker,
under its mutex, in the event channel, and on disk (claim intents and attempts
are written by the worker, slot rows by the coordinator). Continuation and
recovery see only what is on disk. The leases keep two processes from working on
one run, and run control reaches into a live one through its record, its attempt
rows and its containers. A trial's worker uses the Docker coordinator, the caches,
the store's writer and the ingest thread. A cloud worker runs a whole runner as
its child and serves requests beside it; latch runs an agent on the host, without the
engine, behind a daemon. A run
begins with a package, which it loads from a path that other commands publish to.

What makes each part correct:

* leases: one operation at a time works under an unexpired lease; an unforced
  recovery takes over only from a dead engine, with all its commits in view;
* store: a slot is concluded once, by the trial that owns it; rows and journal
  agree, whoever calls and however the statements interleave;
* broker: a slot has one owner, no variant exceeds its cap, nobody sleeps for
  ever, workers do not leave while there is work;
* engine: progress and journal agree after any crash, a durable result is
  committed and not replaced, skips are justified, engines end, a run that is
  taken up again finishes whole;
* run control: a completed run has nothing running, a kill leaves nothing of a
  dead engine's run, and no request keeps the engine from ending;
* replay and fork: what returned is on record, and neither the trials of the run nor
  their recovery are disturbed;
* packages: a run executes the payload of one package that was verified, whatever
  happens at its path, and a full run one that a smoke test went through with;
* trials: success leaves nothing behind, the cap holds, what runs can be found by
  those who must stop it, every trial returns, and its record is of what its
  last attempt did;
* the threads beside the engine: one pull per image, replies that tell what the
  store did, no event lost at the stop, no start without the probes, whole
  caches, and all of them come to their end;
* latch runs: what is hidden from the agent stays hidden, diff and grade are those of
  the case, an agent is stopped for idleness only when it was found idle, the run ends;
* Cloud login: the files hold the login that is in force, and always a token;
* latch and Cloud: a record that says completed has its row, only runs that are over
  are submitted, a run and its attempts agree, its last owner ends it, clients
  are told what happened, work arrives in the end.

`PROJECT.json` lists every component and the hazards, each at its line.

## 2. Modules

| Module | Models | State ↔ code |
|---|---|---|
| `Schedule` | slots, variants, trial ids, commits | `TrialSlot`, `trial_<n>`, `SlotCommitRecord` |
| `RunLedger` | abstract specification: each slot is concluded once | — |
| `SlotStore` | the slot tables; each operation is one step; any caller at any time | `row`, `journal` |
| `StoreTransactions` | the same operations as the SQL statements of several connections, on SQLite or on Postgres at READ COMMITTED, with rollbacks | `row`, `journal` are what is committed; `conn` what a connection is in the middle of |
| `SlotBroker` | `SlotBroker`, `spawn_pull_worker`; one action per critical section | the struct's fields; `wpc`, `work` are a worker's control point and locals |
| `ScheduleEngine` | `execute_schedule_engine`, `DeterministicCommitter`, `continue_run`, `recover_run`; composes `SlotStore` and `SlotBroker` | durable: `progress`, `pending`, `control`, `intents`, `attempts`, the store; in memory: the rest |
| `OperationLease`, `EngineLease` | the two leases | `file`, `lease`; the rest are locals of an invocation |
| `RunControl` | `pause_run`, `kill_run`, `resume_trial` against the engine's loop, its workers and Docker | run_control, attempt rows, containers by label and id |
| `TrialRerun` | `replay_trial`, `fork_trial`, a resume that forks, and the recovery of the run beside them | `trial_attempts`, their containers, `attempt_objects`, `runtime_ops`, slots; the lease as one step |
| `SealedPackage` | `build_experiment_package`, `publish_build_run_package`, `check_package`, the gate of `run` and `build-run`, what a run copies | package directories by who built them; the content of a file is the version of the sources it was read from |
| `TrialAttempt` | `execute_local_docker_trial_runtime` with retries, permits, crash and recovery | containers, network, attempt row, permit |
| `ModalTrial` | the runner's side of a Modal trial and `runLaunch` of the launcher | sandboxes of the trial and of the launcher's own, `runtime_workers.json`, permit, persisted attempt; `faults` remembers which dropped error is of what |
| `TrialConclusion` | from the attempt's files to record, state and slot status | the out directory by file, the attempt that wrote it and its quality; `unmarked` says that the guard could not write |
| `DockerCoordinator` | `ensure_image`, `CountingSemaphore` | the lock map with reference counts, permits |
| `EventIngest` | `live_event_ingest_loop` and the commit of the rows | file, `event_rows`, `next_row_seq`, stop flag |
| `StoreWriter` | `run_store_writer_loop`, `RunStoreWriterGuard` | channel, replies, rows |
| `Preflight` | order and skipping of the checks, `run_bounded_image_probes` | the package's kind, verdicts, the counter |
| `ArtifactCache`, `CredentialCache` | `resolve_agent_artifact_mount_dir`, `seed_credential_cache_file` | directories by the entries they hold, `spoiled` once an agent wrote to the mounted one; the file as none, empty, seed or fresh |
| `LatchRun` | `run_latch_manifest`, case by case, with the steps of a materialisation | workspaces by who put what there, the child, the poll's memory and its last walk, baseline and diff |
| `LatchDispatch` | daemon start and discovery, jobs, dispatch record, archive, submission | files, sockets, memory of each daemon, the Cloud's row |
| `CloudQueue` | the repository's transactions on runs and attempts, and the worker's loops | `cloud.runs`, `cloud.run_attempts`; what the worker believes, and whether its body or its heartbeat loop is in a call without a time limit |
| `RuntimeAccess` | access requests from the command line through the repository to the worker | `cloud.runtime_access_requests`; the two looks of the worker; the client |
| `HostedFollow` | logs, events and watch with `--follow` | the log's bytes, the rows, cursor, known versions and list version; what was printed, and of which resources a change was not |
| `CloudLogin` | `run_login`, `run_logout`, `shared_cloud_user_token`, `refresh_cloud_token_cache` and their twins | the four files as absent, empty, garbled or whole; what the server accepts |
| `MCOperations`, `MCBackground`, `MCTrialRuntime`, `MCRunnerThreads`, `MCCloud` | sums of modules that share no state | see below |
| other `MC*` | constants and symmetry for TLC | — |
| `*Proofs` | theorems and their proofs: `ScheduleEngineProofs` of `SlotStore`, `StoreTransactions`, `SlotBroker` and `ScheduleEngine`, `RunControlProofs` and `LatchRunProofs` of the module they are named after, `OperationProofs`, `BackgroundProofs`, `TrialRuntimeProofs`, `RunnerThreadsProofs` and `CloudProofs` of the parts of the sum of that name | — |

A sum chooses once, in its initial state, which of its parts runs (`executor`,
`part`, `way`); the others stay where they start, and the fairness of each part
is guarded by that choice. The parts of a sum have no variable in common and none
of their steps reads another's, so their product would only add interleavings
that no property could tell apart.

Grain of atomicity. In `OperationLease` and the caches the atomic steps are the
file system's: exclusive creation, rename, unlink, an entry removed. In
`EngineLease` reading the clock, reading the lease and writing it are separate.
In `SlotStore` a step is a transaction, in `StoreTransactions` a statement, in
`SlotBroker` and `DockerCoordinator` a critical section. In `ScheduleEngine`,
`RunControl`, `TrialAttempt` and `ModalTrial` every durable write and every call
to Docker or Modal is a step of its own, and a crash may come between any two. In
`SealedPackage` it is a rename, a file copied, or a verification, in `CloudLogin` a file
truncated, written or removed, in `LatchRun` a step of the runner between two of which
the agent may do anything: the walk of the workspace, the comparison and the kill are
three. In the Cloud
modules a step is a repository transaction or what a process does between two
calls.

Definitions named like a function of the source model that function. Operators
whose comment starts with "Mutant:" are variants with a plausible bug; no
specification uses them, they serve to confirm that a property can fail.

### What is abstracted

* A commit is its attempt, trial and status, which is what
  `make_slot_commit_id` digests; facts, metrics and lineage travel in the same
  transaction. The run status `invalid_isolation` is left out.
* `ScheduleEngine` has one process on the run at a time. That it is so is the
  leases' business; `SlotStore` and `StoreTransactions` are checked and proved
  without that assumption. A trial in it makes one runtime attempt, whose phases
  are `live`, `commit_pending`, `abandoned` and `committed`; `TrialAttempt` has
  them all, with retries.
* A fault in `ScheduleEngine` is a crash, an interrupt, a trial that returns an
  error, a worker that cannot claim, an error of the engine itself, or a failed
  or killed recovery. `Budgets` says how many of each kind, how many in all and
  how many worker threads the engines of a behaviour have.
* The engine in `RunControl` is its loop as far as run_control and containers
  go; slots and commits are those of `ScheduleEngine`.
* `TrialRerun` has two trials of a run that was left with one of them paused. What is
  recorded of a trial (integration level, lineage, output, checkpoints) decides how the
  checks at the start of a rerun come out; all combinations over two names and two
  steps are gone through once, for the set of outcomes. Its trial state is
  `TrialConclusion`'s, the steps of its attempt `TrialAttempt`'s, those of recovery
  that do not go by attempts `ScheduleEngine`'s.
* `SealedPackage` has one path and one large asset. Equal digests are equal contents,
  and the digest of a package is its checksums. A verification is one step: it
  compares everything with the manifest it read first, so that one which spans a
  replacement either fails or speaks of one package. The report of a check is
  computed and written in one step. Commands that build into a directory of their own
  or only read are left out, and so is `build --out`, which builds in place.
* In `ModalTrial` an error that the launcher drops is a fault: a `Terminate` that leaves
  the sandbox, a note that is not written or truncates the file, a clean-up that stops half
  way. One that goes well changes nothing that a later step could tell from success.
* `TrialConclusion` leaves out containers, `TrialAttempt` what agent and grader
  leave. What is made of a Modal trial's outputs is not modelled.
* In `LatchRun` a workspace is the set of what the seed, the agents, processes they left
  behind and the hidden steps put there, by case. A check of a file's contents passes or
  not. All cases have the manifest's default grader. The grader's process and its
  own time limit are one step; the daemon around the run is `LatchDispatch`.
* In `CloudLogin` a token is the number of its issue, and access tokens expire in that
  order. How the browser or the device brings the first tokens is one step that succeeds
  or fails. The profile stands for the deployment a login was made with.
* Agents, graders, Docker, Modal and helper commands are external: they answer,
  fail, are slow or, on the host, never end.
* All processes read one clock. The owner, pid and epoch of the engine lease are
  never compared by the code and are left out.
* In `HostedFollow` a poll is one request and one print; nothing is modelled of
  a request that fails, because the command then ends. `buc` prints 20 events of a page
  and 50 changes of a watch; the model has `EventLines` and `WatchLines` for them, which
  the theorems leave open and the run sets to 2 and 1, so that a page of four rows and a
  change of both resources are too long.
* An agent that writes to a writable artifact is one that does it once (`FirstWrite`):
  what it leaves has no entry or no marker, and the property excepts all that follows.
* In `CloudQueue` a call without a time limit (a helper command, a request to Docker, the
  output of a core process whose child holds it open) is one wait of the body or of the
  heartbeat loop that may or may not be over some day.

## 3. Runs

Times are for two TLC workers; each run is complete within its bounds.

| Run | Checks | Bounds |
|---|---|---|
| `operations` | unexpired leases are exclusive, and never displaced, unless one of two windows is hit; reruns are on record; recovery leaves paused trials alone, unless for the row of a rerun; a run that starts is of one verified package; the files hold the login in force, and a token is always to be found | 3 operations, TTL 1, 3 ticks: a holder, its taker-over and a bystander; 2 reruns and a recovery, 2 trials, 2 seconds, a lease that lapses in the second; 2 commands, 2 edits, one version that fails its checks; 2 shells, 3 tokens, one command killed |
| `background` | unforced recovery takes over only from the dead, with every commit in its snapshot; a latch submission that is completed is registered, a submitted run is over and its result final | 2 engines, 1 recovery, TTL 3, Gap 1, Lag 1 (the tight case), 5 ticks; 2 clients with 2 calls each, one dispatch, 2 daemons, one crash, one failed Cloud call |
| `slot_store` | rows and journal agree; statements implement `SlotStore`; the journal implements `RunLedger` | 1 slot (operations on different slots commute), 3 connections, 2 trials, 2 attempts, both databases |
| `slot_broker` | ownership, cap, no lost wake-up, no protocol fault, every worker exits | 2 workers, 3 slots, 2 variants, cap 1, 5 trial ids |
| `engine_faults` | skips justified, commits accepted, order after a crash, durable results kept, store and broker used as specified, nothing left to start when completed | 2 slots of one variant pruned after one failure; 2 workers and one fault, or 1 worker and three |
| `engine_crash` | no slot is stranded (recovery releases all, completed is whole), engines end, the schedule completes | 2 workers, one crash, with fairness |
| `engine_trial_error` | **violated**: finding 2 | 1 worker, one trial error |
| `run_control` | completed is quiet, kill sweeps, the engine ends | 1 trial and up to 3 operations, or 2 trials and 1 operation; a sidecar, a grader |
| `trial_runtime` | success leaves nothing, cap, what runs is found, trials return | 2 trials, 2 attempts; Docker: 3 sidecar roles, network, grading container, a cap that holds one trial; Modal: separate graders, one trial at a time, one dropped error |
| `runner_threads` | the seven parts of `MCRunnerThreads` | 3 threads and 2 platforms; 3 callers with 2 writes; 3 lines, 2 attempts; every trial configuration with 2 attempts; every package over 2 images and 2 variants, 2 probe threads; 2 processes of 2 threads, 2 archive entries |
| `latch_run` | hidden stays hidden, diff and grade are the case's, idleness was seen, the run ends | 2 cases in one directory or two, 7 kinds of graders, a limit of 2 polls and 1 idle poll, prompt on stdin |
| `cloud` | run and attempts agree, the last owner ends a run, the client is told the truth, work arrives | 1 run, 2 workers, 4 attempts, 2 calls lost or without end, 1 lost machine; 1 latch client; 1 request, 2 commands, 1 lost call; logs of 5 bytes, 4 events of 2 trials and the Cloud in pages of which 2 are printed, 2 resources of 2 versions with 1 printed change |

The longest take about three minutes.

Why the bounds are enough. Two slots allow one to be committed while the other
is in flight, out-of-order completion, and one failure that prunes the other.
`MaxTrials` and `MaxAttempts` of the engine exceed what its faults can use up (a commit
beyond `MaxAttempts` is not modelled); the theorems hold for every value of them.
Two attempts are what it takes for a retry to meet its predecessor's leavings,
and a cap that holds one of two trials what it takes for one to wait for the
other. Three threads at one image are a holder, a waiter and one who finds the
lock gone. Four attempts of a cloud run are two lapses, a crash and a finish; two faults are a
lost answer before or after a call that does not return, or a body and a loop that both
wait. One dropped error of a launcher is enough, since it excepts one sandbox or one note.
Two commands serve one request from both looks of the worker. Five bytes hold two
equal lines and one more. Two cases are enough for one to find what the other left, two
polls for a change between the look and the limit. Three tokens are a login with two
refreshes, or a login over a refreshed one. `MaxClock` is past the second expiry. Deadlock is not
checked where the modelled system ends by itself: operations done, workers
exited, the clock at its bound.

### Fairness

* `SlotBroker`, `ScheduleEngine`: weak fairness of each thread's own next step; a
  claimed trial ends because `execute_local_trial` is bounded by the trial's
  timeouts. `engine_crash` has an operator besides: `continue_run` is eventually
  called on a run it keeps being able to continue (strong, because a recovery in
  between disables it), and `recover_run` on one left `running` by a dead process.
  `EngineStops` does not depend on the operator.
* `RunControl`: engine and workers take their steps, the agent's time limit
  included; none of the operations is fair.
* `TrialAttempt`, `ModalTrial`: each trial's own steps; strong for taking a Modal
  permit, which others may take first, each at most a bounded number of times.
* `DockerCoordinator`: strong, for the mutex and the condition variable; calls
  are bounded in number, so it says that who waits is served once the others
  have come to rest.
* `StoreWriter`, `EventIngest`, `Preflight`, the caches: the threads run. No caller
  has to write, no agent has to refresh.
* `TrialConclusion`: the worker's steps; agent and grader only in containers,
  where they have a time limit. On the host they are waited for without one, and
  a trial that waits there counts as settled.
* `LatchRun`: the runner takes its steps and the clock runs; a write to the agent's stdin
  returns once neither the agent nor a process that it left behind has the pipe open. No
  agent has to read, write or end, and a prompt that is never taken is the exception in
  `RunEnds`.
* `LatchDispatch` (in `cloud`): the client keeps asking, daemons serve, a
  process that has written its result exits.
* `CloudQueue`: workers take their steps, are restarted, and sweep; leases lapse;
  a core run ends. A call without a time limit is under no fairness (`WaitIsOver`): while a
  worker's body is in one it takes no step, and a run that is so held up for good is the
  exception in `WorkReachesTheCloud` (`HeldUp`).
* `RuntimeAccess`: time passes and somebody looks. A request expires in the
  transaction that reads it, so it has no status but the one that is read.

## 4. Proofs

Each theorem holds for every value of the constants that meets the named
`ASSUME`s, that is, for any number of slots, workers, connections, ticks.

* `ScheduleEngineProofs`, the store. `StoreInv` = `StoreTypeOK`, `RowShape` (an open row has no
  commit) and `JournalMatchesRows`. It is inductive: a commit is accepted only if
  the row is open or already has this very commit, so the upsert of the commit
  record can neither add a second record nor replace the first. From it:
  `StoreTypeCorrect`, `TablesAgree`, `CommitsAreFinal`, `CommitsAreOwned`, and
  `StoreImplementsLedger`, the refinement of `RunLedger` under which each slot
  shows its last commit record.
* `ScheduleEngineProofs`, the statements. `TxInv` = `StoreInv`, `ConnTypeOK`,
  `LocksAreExclusive` (two open transactions do not hold one row),
  `ChecksHold` (what a transaction read under its lock is still so when it
  writes) and `LoadedIsDone` (the record that a recovery loaded without a lock is
  one the journal keeps, so the late mark repeats what is there or is refused).
  With it every statement is a step of `SlotStore` or leaves the tables alone:
  `TransactionsImplementStore`, and through `StoreImplementsLedger`
  `TransactionsImplementLedger`.
* `ScheduleEngineProofs`, the broker. `BrokerInv` = `Ownership` (types, `OwnedOnce`, every
  dispatched trial was minted) ∧ `CountsExact` ∧ `SleepsForAReason` ∧
  `StillWorking`. Ownership shows that a give-up removes exactly one dispatch,
  which makes the counts exact (so the saturating subtraction never saturates),
  which bounds them by the cap, and which lets a pending but unclaimable slot
  imply a busy worker; that worker wakes a sleeper, and the last to leave finds
  nothing pending. From it: `SlotsAreOwnedOnce`, `VariantsAreCapped`,
  `NoLostWakeup`, `ProtocolFaultUnreachable`. The assumption is that there are finitely
  many workers, and some.
* `OperationProofs`, operation lease. `IInv` = types, `SeenIsStale` (whoever is about to
  replace a lease saw one that has expired) and `FileNamesHolder` (unless a
  window was hit, a fresh holder's record is in the file). From it:
  `LeaseExclusion`, `FreshLeaseIsKept`.
* `BackgroundProofs`, the engine lease. `LeaseInv` = types, `Past` (remembered times are not in
  the future) and, while nobody is slow, `Covered`: a live engine's last
  heartbeat, and the stored lease, are recent enough that the lease outlives the
  engine's next beat whoever writes in between. From it: `LiveEngineSafety`,
  `SnapshotCurrency`. The assumption is `Lag <= Gap` and `Gap + 2 Lag <= TTL`. The
  code beats every 2 s with a TTL of 6 s, so with Gap = 2 s + Lag it allows a Lag
  of 4/3 s between reading the clock and the write or the check. When some step
  is slower, `slow` is set and nothing is claimed.

* `ScheduleEngineProofs`, the run. The engine, its workers, recovery and continuation as one
  system over the disk. `EngineInv` = `StoreInv` ∧ `BrokerInv` (the invariants of the
  two parts, taken over) ∧ `EngineTypes` ∧ `BudgetKept` ∧
  `ReportsAreTrue` (what a worker has in its hands, or has sent, is about a slot that it
  has handed over, and a skip is of a variant the broker calls pruned) ∧
  `DurableInv` (what any crash leaves: the stored progress is the rows' commits, a
  pending result belongs to an open slot, each commit record has its intent, the stored
  failures of a variant are at most its failed slots, and what is stored as pruned has
  enough of them) ∧ `MemoryFollows` (the memory of a process at work has what is stored,
  and the broker prunes no more than it) ∧ `CommitterInv` (the committer knows exactly
  the committed slots, queues open ones only, among them every result on disk, skips
  only pruned variants, and has written the intent of the slot it is about to commit).
  The last two are needed because a skip and a commit are decided from memory: without
  them nothing relates what the engine believes to what a crash left. `StepIsGood` says
  that a step keeps `EngineInv`, is a step of `SlotStore` and of `SlotBroker` or
  stutters there, and loses no result; there is a lemma for each action, and
  `EngineStep` puts them together. From it: `RunUsesStoreAndBroker`,
  `RunImplementsLedger` (through `StoreImplementsLedger`, `CommitsAreFinal` and
  `CommitsAreOwned`), `SkipsHaveAReason`, `ResultsAreNotLost`.
  That no commit is refused needs a second invariant, `SpeechInv`, on top of it. Several
  things *speak* for a slot: its active row, the messages under way, the queue, and the
  worker that has announced its trial. `OneVoice` says that they all name one trial, and
  that before a claim is announced nobody speaks; `OneConclusion`, that a slot is
  concluded at one place only, by a worker about to say so, by a message, or in the
  committer; `RestoredAgrees`, that what a crash leaves (the results on disk, the active
  trials of a run that can be continued) names the trial of the active row. A row that an
  earlier engine left active is `BlockedActive` and has no voice; that is why the
  voices start from silence in each engine. From both: `CommitsInOrder`.
  What a run that reports completed has left needs a third, `CompletionInv`:
  `NoneIsForgotten` (a slot that its worker is through with is about to be announced by
  that worker, is in a message, or is with the committer; outside the drains the broker
  knows what is committed) ∧ `ExitsAreCounted` (the workers counted as exited and the
  `Exited` messages under way are together the threads that are gone, and when all are
  gone the last message is an `Exited`) ∧ `StatesAreTheRows` (what the broker takes for
  committed is committed in the store, what it takes for blocked is not pending there,
  and what an engine releases is neither) ∧ `LastWord` (the last drain is entered with
  such slots only, and a completed run stays as it is). When the count reaches the
  number of threads the channel is empty and nobody is left to announce anything, so
  each slot that is through is with the committer, which has nothing queued: it is
  committed. From the three: `CompletedRunsLeaveNothingPending`. It says nothing of rows
  that an earlier engine left active; those are findings 2 and 3. The
  assumptions on the constants are that at least one failure is needed to prune, that
  there are finitely many workers and that
  a budget names a number of threads, at least one, that `Workers` can supply.
* `RunControlProofs`. `ControlInv` = `ControlTypeOK` ∧ `HasTarget` ∧ `FlightIsBusy` (what
  the broker has in flight is what the workers are at) ∧ `LeftoversAreReported` (a trial
  whose clean-up left a container has reported a failure, and an engine still in its loop
  has that message ahead of it) ∧ `OrphanIsDead` ∧ `SweptBeforeWrite` ∧ the two results.
  An engine leaves its loop as completed only with an empty channel and nothing in
  flight, so no leftover can be unheard of: `CompletedIsQuiet`. A kill comes to its last
  write without a failure only through the sweep by label, and the workers of an engine
  it found dead start nothing after the sweep: `DeadRunIsSwept`. An operation is proved in
  two layers: what its step does to its own record (`OpBegins`, `OpMoves`, `OpTurns`,
  `OpEnds`), and that it starts no container (`BoxesSet`). Also `ControlTypeCorrect`.
* `CloudProofs`, the queue. `QueueInv` = `QueueTypeOK` ∧ `WorkersHold` (who works on an
  attempt knows which) ∧ `RowsInv`. `RowsInv` is about the two tables alone: a
  running run is held by exactly its last attempt, an attempt that ended ended the run,
  and attempts are numbered in the order of the claims. It is inductive under the
  repository's transactions whoever calls them, so `StepIsTransaction` first shows that
  every step of clients, sweeps and workers, waits included, is one of these transactions
  or leaves the tables alone; a late heartbeat, completion or failure is refused by the transaction and
  not by what the worker believes. From it: `QueueTypeCorrect`, `AttemptsAgree`.
* `BackgroundProofs`, latch dispatches. `DispatchInv` = `LatchTypeOK` ∧ `JobsAreTrue` ∧ `CallsAreSound` ∧
  `StartsAlone` ∧ `RecordsAreTrue`. Nobody reads a result whole before it submits, so
  that a row is only of a run that is over rests on who may say that it has ended. A
  process may fail or be killed over a half-written result, and its job is submitted all
  the same (finding 22); what must not be is a row of a result that is still being
  written. `JobsAreTrue` shows that only one daemon has the job in its memory (an id is
  started by one call, `StartsAlone`) and that what it believes to have ended has a result
  that is `Over`: whole, or of a failed process, which writes no more. `CallsAreSound`
  carries what a call was told to where it submits. From it: `LatchTypeCorrect`,
  `SubmissionsAreTrue`.
* `OperationProofs`, Cloud login. `LoginInv` = `LoginsWere` (types; what names a login names
  one there was) ∧ `ChangesAlone` ∧ `HeldBetween` ∧ `AsksForCached` ∧ `WritesAreTrue` ∧
  `RemovesTokens`. `LoginIsKept` is about the moments between commands; the invariant says
  what is so while one is at the files: what it has written is there, a refresh leaves the
  profile because it is of the session already (its token is younger than its login), and
  the cache is whole until the access file is written. A command that was alone when it
  began to change the files stays alone or the run is `upset`. The assumption is that the
  bounds are numbers. From it: `LoginTypeCorrect`, `LoginLasts`.
* `LatchRunProofs`. `CaseInv` = the types ∧ `OwnDirectory` ∧ `AgentIsWatched` ∧
  `HiddenComesLast` ∧ `NewIsTheAgents` ∧ `CasesAreCounted` ∧ `StillIsSilent` ∧
  `WalkIsRecent` ∧ the parts of `CaseStandsAlone`. A diff is the agent's because nothing but the agent and processes left
  behind put anything into the workspace between baseline and diff (`NewIsTheAgents`); a
  grade is the case's because everything in a directory, the grader's output too, was put
  there for a case that has that directory (`OwnDirectory`); nothing hidden is there while
  an agent runs because the child is dead before it is added (`AgentIsWatched`,
  `HiddenComesLast`); and idleness was real at the last walk because the runner's
  clock is not ahead of the agent's silence as long as the fingerprint is of the workspace
  as it is (`StillIsSilent`), although any number of writes may fall between two looks, and
  a walk that found nothing new is of the workspace as it is until somebody writes
  (`WalkIsRecent`). Who writes between the walk and the kill is the exception. The one
  assumption is that a manifest has a case and the limits are whole numbers of polls. From
  it: `LatchRunTypeCorrect`, `CasesStandAlone`.

* `OperationProofs`, the package. `PackageInv` = `PackageShape` ∧ `PathIsApart` (a command's
  directory is nowhere before the command has put it at the path, and at one place only) ∧
  `ReportsHold` (a report that passed is of tasks without flaw) ∧ `MarksHold` ∧
  `CommandIsSound`. A command reads the package several times before its run starts, and
  between two reads another command may publish. So what a command holds is said of the
  package it has *seen*: its plan is of the stage it is at (`PlanIsOfItsStage`), what it
  has copied is of one verified package (`RunIsSound`), and, unless another command
  replaced the package under it, that is still the one at the path (`PathIsSeen`) and it
  went through a smoke test or the test was waived (`FullIsTested`). The assumption is
  that the package there at first has no flaw and is nobody's build. From it:
  `StartedRunsAreSealed`.
* `OperationProofs`, reruns. `RerunInv` = `RerunTypes` ∧ `IdsAreMade` (the second of a
  rerun is set once, with its id) ∧ `ResultsAreKept` (what a rerun has put is there, unless
  another has the same second) ∧ `AnswersHold` ∧ `PlansAreSound` (a recovery has only rows
  before it that have a phase and are not of paused trials) ∧
  `PausedTrialKeepsItsSlot` ∧ `StuckByRerun`. The assumptions are that time is
  whole seconds and that no operation is both a rerun and a recovery. From it:
  `RerunsAgreeWithRecovery`.
* `TrialRuntimeProofs`, local Docker. `DockerInv` = `WorkTypes` ∧ `PermitsAreCounted` ∧, for
  each trial, `BeginsClean` (an attempt starts without a container or network of the
  ones before) ∧ `PassedOver` (an attempt that a recovery passes over has nothing to find or
  came to its own end) ∧ `HandlesAreKept` (the worker has a handle for what it started, and
  what it has a handle for is on record) ∧ `CleanupIsDone` (the cleanup has removed what it
  has come past, unless an error is noted). A result is returned only through a cleanup that did
  not fail, so it leaves nothing. The limit is met because the permits in use are the
  units of a trial times the trials that have a permit, a trial's containers are among the
  roles its plan names, and those are no more than its units; the lemmas on cardinality
  are in the module. The assumptions are that trials and sidecars are finitely many
  and that a grading is one of the three the code knows.
* `TrialRuntimeProofs`, Modal. `ModalInv` = `ModalTypes` ∧ `LauncherInv`: at each step of
  `runLaunch` which sandboxes can exist and which of them are noted, and that its
  `finally` has been through them when it ends, each time but for those that a fault names.
  It holds for any number of faults, so what the two theorems except is what the
  launcher was not told, and nothing else. From both:
  `NothingIsLeftBehind`, `WorkIsFound`, `AttemptTypeCorrect`.
* `RunnerThreadsProofs`. One invariant for each part of the sum.
  - Images: `CoordinatorInv`. Who waits for or holds an image's lock is counted in its
    entry, so the entry goes with its last user and nobody locks a second one.
    From it: `CoordinatorSerializesPulls`.
  - Store writer: `WriterInv` = `WriterTypes` ∧ `CommandsAreWaitedFor` (each command in the
    channel has its one caller waiting) ∧ `AnswersAreTrue`. Live ingest: `IngestInv` =
    `IngestTypes` ∧ `ThreadIsAhead` (nobody stops the thread while the agent writes, so it
    reads once more) ∧ `PassedIsLive` ∧ `EvidenceIsTheFile`. Conclusion: `ConclusionInv` = `ResultIsItsOwn` (no file in the
    out directory is of an earlier attempt) ∧ `PhasesAgree` ∧ `EndAgrees`. After an error
    a write may be in the store or not, and the trial is failed or, if its guard could not
    write, as it was. From the three: `RecordsStayTrue`.
  - Preflight: `PreflightInv` = `PreflightTypes` ∧ `PoolIsSound` (each job was taken by one
    thread or is ahead of the counter) ∧ `NothingIsForgotten` (a failed probe stays in what
    the pool returns) ∧ `StageIsEarned` ∧ `ChecksBegin`. From it: `PreflightTriesEverything`.
  - Caches: `ArtifactInv` = `ArtifactTypes` ∧ `OneIsBehind` and, until two processes meet
    or an agent writes to what it has mounted, `MarkerIsTrue` (the marker is there only
    beside every entry) ∧ `StagingIsWhole`;
    `CredentialInv` = `CredentialTypes` and, until they meet or a file was found truncated,
    `OneSeeds` ∧ `CacheIsKept` ∧ `SeedIsSafe`. From both: `CachesStayWhole`.
* `CloudProofs`, what the client is told. `AccessInv` = `AccessTypes` ∧ `EndIsKept` (an
  ended request does not change) ∧ `CommandsAreOwn` ∧ `ClientIsSound` (a client that is
  attached has a request that is past its set-up, and it never goes back) ∧ `SuccessIsReal`
  (a success was reported by the helper that ran; what was left active had been set up).
  `FollowInv` = `FollowTypes` ∧ `PreviousIsOfTheLog` ∧ `NumbersAreOwn` ∧ `ViewIsOfAVersion`
  and the properties of logs and events. `ViewIsOfAVersion` is stronger than `WatchIsCurrent`:
  a resource whose changes were all printed is as the list version has it, and what the
  client knows is that or nothing, which is what a watch from `--resource-version` alone
  begins with. A log followed with `--tail-lines` is a window that moves; that nothing is
  printed twice rests on three lemmas about windows of one log: a later one does not begin
  earlier (`TailMovesOn`), two answers overlap in what both windows have
  (`ResponsesOverlap`), and the overlap that `buc` looks for, the longest, is at least that
  (`LongestOverlap`). That no event is printed twice rests on their numbers
  (`NumbersAreOwn`: what was printed is not after the cursor) and on there being an order of
  the rows of a page, which is shown by a least counterexample (`PlacesHaveAnOrder`), as
  induction over data is not at hand. The assumptions are
  that the bounds are numbers and the sets finite where they are counted. From both:
  `ClientHearsTheTruth`.

Only model-checked: all liveness, since liveness under fairness is beyond this
prover; and `NoSlotIsStranded` of `ScheduleEngine`. Its parts, `CompletedRunIsWhole` and
`RecoveryReleasesAll`,
hold under the faults of their run, one crash and no trial that returns an error, and TLC
refutes them with more (findings 2 and 3), so they are no theorems of the whole
specification. What does hold of it under any faults is `CompletedRunHasNoPendingSlot`.

## 5. What was found

Finding 2 is a run that TLC ends with a counterexample. Where a finding names no
definition it is what the properties of its module except. The others are stated as
definitions of their modules, next to the properties that hold, and TLC refutes
each of them with the constants given here; each property that does hold says
which of these cases it excepts.

**Leases and engine**

1. *The operation lease is not exclusive* (`experiment/lease.rs:267`): `Exclusive`
   of `OperationLease`. Two operations that load the same expired lease both
   replace it; a test says "second lock must fail" (`tests.rs:5891`). The proof
   shows that this window and the one in `Drop` (`:99`) are the only ones. A
   process that dies between `create_new` and the record (`:242`) leaves a file
   that no later operation can parse or replace.
2. *A failed trial can vanish from a completed run* (`experiment/runner.rs:2131`):
   `CompletedRunIsWhole` in the run `engine_trial_error`. A trial that returns an
   error leaves its row active; the continued run takes the slot for blocked, does
   not count it as unfinished and reports completed.
3. *A recovery that dies can strand a slot* (`experiment/runner.rs:3035`):
   `RecoveryReleasesAll` with a budget of one crash and one recovery fault. An
   attempt is stored as abandoned before its slot is released; the next recovery
   passes over both. Together with finding 4, two crashes and no fault of a recovery
   are enough (`:3251`): the id of an attempt that the first recovery abandoned is minted
   again, the claim is stored, and the process dies before the new attempt is; the second
   recovery finds an attempt of that id, takes it for dealt with, and leaves the row
   active.
4. *Trial ids are reused* (`experiment/runner.rs:309`): `TrialIdsAreUnique`, one
   crash. After a crash between a durable result and its commit the next engine
   mints the same id for another slot. "The launched process runs once per trial"
   (`docs/user/agent-runtime-contract.md:5`).
5. *A finished run may never be reported* (`experiment/runner.rs:207`):
   `FinishedRunIsReported`, one crash, with the operator. If the process dies after
   the last commit, recovery makes the run interrupted and continuation refuses it.

**Run control** (`RunControl`, constants of `RunControl.cfg`)

6. *A kill is undone* (`experiment/runner.rs:2275`): `KillIsNotUndone`. The engine
   writes run_control from its own view; a kill between its look (`:2084`) and its
   next write is replaced. "Stop a running or paused experiment." (`README.md:182`)
7. *A resumed trial's sidecars stay frozen* (`experiment/control.rs:460`):
   `ResumeThawsTheTrial`. Pause freezes what the attempt's record names, resume
   thaws what the runtime-container table names.
8. *A resumed run still stops* (`experiment/runner.rs:2085`): `ResumeIsNotUndone`.
   Once the engine has seen a pause its outcome never changes back.

**Replay, fork and recovery** (`TrialRerun` with 1 rerun, 1 recovery, 2 seconds)

9. *A rerun keeps a run from being recovered* (`experiment/runner.rs:3015`, `:3532`):
   `RecoveryIsPossible`. A replay or fork leaves its attempt in `trial_attempts` at
   `agent_finished`, because `reconcile_trial_attempt_as_committed` rewrites only the
   file in its own directory; recovery takes the row for an interrupted trial of slot
   0, finds no container, and fails, every time. If the rerun died with its container
   on record it is slot 0 that is released, whoever has it. Two reruns of a kind that
   start in one second have one name and overwrite each other (`:3367`, `:3661`).
10. *A recovered run loses its paused trials*: `PausedTrialKeepsItsContainer`
   (`:3290`): when a slot was released every container with the run's label is removed,
   frozen ones included. `KeptSlotCanBeResumed` (`:2996`): the slot of a paused trial
   stays active, the run becomes interrupted, and resume takes only paused runs; the
   next engine passes over the slot as in finding 2. Also, whichever checkpoint a fork
   selects, it is given the latest lineage version of the trial, and starts from
   neither's workspace (`:3680`, `:4315`).

**Trials**

11. *Recovery can fail for good* (`trial/execution/local_docker.rs:674`):
   `RecoveryIsPossible` of `TrialAttempt` with 1 trial, Cap 1, no sidecars,
   `InTaskRuntime`. An attempt stored as pending before its first container is
   started is reported as missing its container, by every recovery.
12. *Modal*: `SandboxesWithinCap` (2 trials, Cap 1, no grading;
    `trial/execution/modal.rs:2023`): a launcher that failed to terminate its
    sandbox gives the permit back. `RemovedIsGone` (1 trial, Cap 1; `:1126`): the
    sandboxes are recorded as removed before the launcher terminates them.
    `CleanedUpStaysClean` (1 trial, Cap 2, separate grader; `:343`): the launcher
    outlives the runner and creates the grader's sandbox after the clean-up. "a
    stopped or interrupted run should not leave service containers or same-sandbox
    service processes behind" (`docs/user/ephemerals.md:118`).
    `EndedLauncherLeavesNothing` (`TrialRuntime.cfg`; `modal-launcher/main.go:516`): what
    Modal answers to `Terminate` is dropped, so the launcher ends well with a sandbox
    running, the trial's own or one it made to stage or export files, of which there is no
    note. The error of the note itself is dropped too (`:436`); a write that fails half way
    leaves a file that recovery cannot parse. The two properties except the
    sandboxes of such a call.
13. *A retried attempt may be graded on its predecessor's output*
    (`trial/schedule.rs:374`): `ConcludedFromItsOwnOutput` of `TrialConclusion`
    with 2 attempts. Only the result file is removed between attempts. On Modal
    the same holds of `runtime_transport_envelope.json`.
14. *State and slot disagree*: `FailedIsNotCompleted` (`trial/schedule.rs:787–861`,
    `experiment/commit.rs:467`): without a result the trial is failed and its slot
    completed. `ErrorIsNotCompleted` (`trial/schedule.rs:816–847`): the trial is
    marked completed before steps that may still fail. `ReturnedIsNotRunning`
    (`trial/state.rs:488–505`): the guard that marks an abandoned trial failed only warns
    when it cannot write, and the trial stays `running` on disk, or keeps the state of a
    `complete` that failed after its file was in place.
15. *Live rows outlive the commit* (`trial/events.rs:180`):
    `LiveRowsEndWithTheCommit` of `EventIngest` with 1 line, 2 attempts,
    SlotAttempts {1}. Live rows are kept under the runtime attempt, committed ones
    under the slot's. The view "includes live rows whose trial has not committed"
    (`docs/user/inspecting-results.md:347`).

**Beside the engine**

16. *Unused image locks accumulate* (`backend/docker.rs:131`): `UnusedLocksAreGone`
    of `DockerCoordinator` with 2 threads, 1 image. A test asserts "unused image
    locks should not accumulate" (`tests.rs:14465`).
17. *A deferred probe is not made* (`experiment/preflight.rs:1690`):
    `DeferredProbeIsMade` of `Preflight` with 1 image, 1 variant, 1 worker. The
    report says "idle container probe deferred to grader_reachable" (`:1949`).
18. *Two processes can leave half an artifact* (`trial/execution.rs:1461–1511`):
    `MarkedIsWhole` of `ArtifactCache` with 2 processes, 2 threads, 2 entries. Each
    removes the staging directories of all. *An agent can change the artifact of all later
    trials* (`trial/execution/local_docker.rs:191`): `TrialsAreIsolated`. With
    `mount.read_only` false (`docs/user/agent-runtime-contract.md:59`,
    `tests.rs:5291–5324`) the agent has the cache itself mounted, not a copy, and what
    it removes there is gone for every trial, with the marker in place.
19. *A refreshed credential can be replaced by the seed*
    (`experiment/runtime.rs:1491`): `RefreshIsNeverLost` of `CredentialCache`. A
    trial that starts while an agent has the file truncated takes it for empty.

**Packages** (`SealedPackage`, constants of `Operations.cfg`)

20. *A run may mix two packages* (`experiment/runner.rs:2553`, `:2612`):
    `RunsAreOfOnePackage`. The experiment is that of the first load, the payload that
    of the second verification, and the lock is compared only with what it was
    copied from. *A mark may be of another package* (`persistence/store.rs:571`):
    `MarksAreEarned`. What is marked as tested is what is at the path when the smoke
    test is over. Both take a package that is replaced meanwhile.
21. *A good package may be spoilt, or lost*. `SealLasts` (`package/checks.rs:75`): a
    check writes its report, with the digest it read first, into the package that
    has replaced the one it verified, and no command loads it any more.
    `PublishedLoads` (`package/cas.rs:91`): an asset saved between its hash and its
    copy makes a package that is published in the place of a good one and cannot be
    loaded. `PathKeepsAPackage` (`main.rs:864`): a process that dies between the two
    renames leaves nothing at the path.

**Latch**

22. `LatchDispatch`, constants of `Background.cfg`. `JobsStayReachable` (`latch_daemon.rs:95`): two clients each start a daemon, the
    second takes the socket, and the first one's jobs are out of reach.
    `SubmittedArchiveIsWhole` (`main.rs:3671`): a second refresh truncates the
    archive the first one uploads. `RecordStaysReadable` (`main.rs:3245`): two
    refreshes write one file in place, and what they leave no call can parse.
    `SubmittedResultIsWhole` (`latch.rs:417`, `latch_daemon.rs:385`, `main.rs:3417`): a
    process that fails or is killed in the middle of writing its result leaves a torn
    file; the job counts as failed, and a failed job with a result file is submitted.
    `docs/user/latch.md:114` speaks of "the completed local latch result archive".

23. What `CaseStandsAlone` and `RunEnds` of `LatchRun` except. *Cases with equal ids share
    a directory* (`latch.rs:600`; `sanitize_for_fs` may also make two ids equal): the later
    case starts among the earlier one's files, hidden ones included, and its grade
    may go back to the earlier agent's work or the earlier grader's
    `grader_output.json`. *Processes the agent started survive it* (`:1705`): only the
    child is killed, and what they write during capture and grading counts. *The prompt
    has no time limit* (`:1576`): an agent that does not read its stdin keeps the run for
    good, and so does one that exits and leaves a process behind which has the pipe open
    (`:1577`); one that closes it fails the run and is left running. *An agent that works
    can be stopped as idle*: `IdleIsReal` of `LatchRun`, constants of `LatchRun.cfg`
    (`:1688–1693`). The workspace is walked, the fingerprints compared, and the child
    killed; what it writes in between, or to a directory the walk has passed, is not seen.
    Also: a diff that is to be
    empty is passed when the capture failed (`:1183`), a grader's missing file ends the
    whole run with the cases that were through (`:1211`), a command grader's output file
    outweighs its timeout (`:1291`), and two walks of the workspace that both
    fail count as no change (`:1687`).

**Cloud**

24. `RenewalSurvivesFailure` of `CloudQueue` (`worker.ts:145`): a failed instance
    heartbeat ends the renewal of the lease, although "A single failed heartbeat must
    never kill lease renewal." (`worker.ts:254`). `WorkerSurvivesCancel` (`:438`): a
    cancellation after the last heartbeat makes `complete` fail and the worker end.
    `ClaimedRunEnds` (`worker.ts:324–332`, `:3309`): before the core process the worker
    awaits helper commands, image pulls and the network policy without a time limit, and
    its heartbeat loop goes on renewing the lease, so nobody else gets the run. The end of an attempt
    awaits that loop (`:444`), which may itself be in a helper command, and a worker so
    caught takes no other run.
25. `RuntimeAccess` with 2 commands and no lost call. `CommandRunsOnce`
    (`worker.ts:279`, `:329`): "accepted" may follow "accepted", so both looks of a
    worker accept and run one exec request. `AttachedIsCleanedUp`: a second
    activation changes the version, the clean-up is refused and the forward stays
    active, although "When the CLI-owned local attach process exits, the CLI marks
    the `PortForward` resource `completed`" (`docs/user/cloud-cli.md:424`).
    `ExitIsCompletion`: a tunnel of the worker's own is shown and left active, as the docs
    say (`:426`), and `--no-wait` returns with the request only asked for.
    `LeaseOutlivesAccess` (`worker.ts:284`): the heartbeat loop waits for a helper
    command without a time limit. Also, a request without `--ttl-seconds` whose
    worker is gone stays live for ever.
26. `HostedFollow`, constants of `Cloud.cfg`. `EveryEventIsShown`
    (`runtime/repository.ts:10018`): one cursor serves the rows of all trials and
    of the Cloud, so rows with smaller numbers are passed over, and row 0 is after
    an empty first poll. `PagesArePrinted` and `WatchTellsAll` (`bin/buc.rs:8978`, `:8884`):
    of a page 20 events and of a poll 50 changes are printed, and the next poll is after
    all of them; the rest is counted with "rerun with --json for full output", which
    `--follow` refuses (`:1667`, `:1749`). `WatchTellsAll` too (`runtime/repository.ts:2091`,
    `:2113`): a watch from `--resource-version` alone knows no resources and is told of
    none that is deleted. `AppendedIsPrinted` (`bin/buc.rs:6148`): with
    `--tail-lines` equal lines are taken for an overlap and not printed. An empty
    log with `--tail-lines` is served as one line end
    (`runtime/repository.ts:10451`).
27. `CloudLogin`, constants of `Operations.cfg`. `CachedTokenIsAccepted`
    (`cloud_login.rs:342`): two commands that refresh at once, or one that is killed after
    the server's answer, leave a refresh token that the server has revoked; every later
    command then fails to refresh, although the access file may hold a valid token
    (`:299`). `LogoutIsFinal` (`:206`): a refresh under way writes the files again after a
    logout, as it does after a new login. Also, a login without a refresh token leaves that
    of the login before it in its file (`:1030`), and `buc` caches the id token (`:999`)
    where the other programs cache, and every refresh returns, the access token.

## 6. Not modelled, and why

* **Authoring** (`package/authoring.rs`, `validate.rs`, `staging.rs`): what an
  experiment file means and how its paths are rewritten, a sequential transformation
  of JSON; `SealedPackage` has its outcome.
* **Schemas, core, provenance** (`lab-schemas`, `lab-core`, `lab-provenance`):
  validation and digests of data.
* **Analysis** (`lab-analysis`): SQL and floating-point statistics, out of TLC's
  reach.
* **Command lines** beyond `latch`, the commands of `SealedPackage`, `exec`,
  `port-forward`, `--follow` and the Cloud login: most of
  `bin/buc.rs` and `main.rs` checks options, makes one call, and formats the answer,
  and a large part of both files is their tests. `main.rs` calls the operations
  that are modelled where they are implemented.
* **The pool controller** decides on numbers of machines from one query.
* Of the **Cloud login** the dialogue with the browser and the authorization server.
* **Configuration, telemetry and environment**: parsing and measurement.
* What is made of a **Modal** trial's outputs; it is close to the container case.
* The Cloud's **packages, grants, secrets and projections** are rows written by one
  statement and read back.

Because of this the map names a minor part of the lines of the repository: what is
left is, for the most part, data and its layout.

## 7. Plan

1. **Theorems.** Every safety property of the runs that holds of its whole
   specification is proved. Open is a statement of which slots a recovery can leave
   active, and a completed run with them, under any number of crashes: those of findings
   2 and 3, and no others.
2. **Run control and engine composed**: pause and resume under a continued run.
