---------------------------- MODULE SealedPackage ----------------------------
(***************************************************************************)
(* A package from its sources to the run that executes it: the build       *)
(* (package/compile.rs), what a seal is and how it is verified             *)
(* (package/sealed.rs), how the command line publishes a package at a path *)
(* that may hold one already and which packages it lets run                *)
(* (lab-cli/main.rs), and what the run takes over                          *)
(* (run_experiment_with_behavior).                                         *)
(*                                                                         *)
(* Commands run in processes of their own on one path; nothing locks it.   *)
(* A package has one large asset, kept as a blob under its digest with a   *)
(* pointer in its place, and the tasks, which stand for what is copied as  *)
(* it is.  The content of a file is the version of the sources it was read *)
(* from, and is its digest; the digest of a package is its checksums.      *)
(* A verification that spans the replacement of the package passes only    *)
(* where the parts agree with the manifest it read first, so that what it  *)
(* returns is of one package: here it is one step.                         *)
(***************************************************************************)
EXTENDS Integers, Sequences

CONSTANTS
  Commands,   \* invocations of the command line
  MaxEdits,   \* bound: how often the author changes the sources
  Flawed      \* the versions whose task rows fail the package checks

Versions == 1 .. MaxEdits + 1
Contents == 0 .. MaxEdits + 1   \* 0: there is no such file

NoFiles == [asset |-> 0, tasks |-> 0, resolved |-> 0]
NoBlobs == [d \in Versions |-> 0]

\* checksums.json: the digests of all files; the digest of it names the package.
NoSums == [files |-> NoFiles, blobs |-> NoBlobs]
NoReport == [of |-> NoSums, passed |-> FALSE]
NoManifest == [digest |-> NoSums, resolved |-> 0]

EmptyDir ==
  [files |-> NoFiles, blobs |-> NoBlobs, sums |-> NoSums, lock |-> NoSums,
   checks |-> NoReport, manifest |-> NoManifest]

Blob(v, c) == [NoBlobs EXCEPT ![v] = c]

\* The package that is at the path before any command.
Present == "present"
Nothing == "nothing"
PresentSums == [files |-> [asset |-> 1, tasks |-> 1, resolved |-> 1], blobs |-> Blob(1, 1)]
PresentDir ==
  [files |-> PresentSums.files, blobs |-> PresentSums.blobs, sums |-> PresentSums,
   lock |-> PresentSums, checks |-> [of |-> PresentSums, passed |-> TRUE],
   manifest |-> [digest |-> PresentSums, resolved |-> 1]]

NoRun == [resolved |-> 0, files |-> NoFiles, blobs |-> NoBlobs, lock |-> NoSums]

\* hashed: the digest of the asset, taken before it is copied; held: the checksums that
\* were verified, or read, last; early: the experiment the run loaded; run: its directory.
Fresh == [hashed |-> 0, held |-> NoSums, early |-> 0, run |-> NoRun]

VARIABLES
  src,      \* the version of the sources the author has on disk
  dirs,     \* the package directories, by the command that built them
  out,      \* whose directory is at the path
  aside,    \* the directory a publishing command has renamed away
  todo,     \* what a command has still to do: "build", "publish", ...
  at,       \* where it is in the first of them
  mine,     \* what it keeps in memory, and its run directory: see Fresh
  tested,   \* experiment_bundles: the rows with smoke_tested, their digest and smoke run
  smoked,   \* history: the packages that a smoke test went through with
  waived,   \* history: commands that run what is not tested, as they were told
  met       \* history: commands that had the package replaced under them

vars == <<src, dirs, out, aside, todo, at, mine, tested, smoked, waived, met>>

place == <<out, aside, met>>
gate == <<tested, smoked, waived>>

\* The work of a command in its order.  dev and lint check what they have published,
\* build-run registers it; run takes the package that is there.  A smoke test is marked
\* when it is through.  Commands that only read a package are left out, and so are those
\* that build where nobody else does.
Smoke == <<"run", "mark">>
Full == <<"run">>
SmokeThenFull == <<"run", "mark", "run">>
Work ==
  [lint      |-> <<"build", "publish", "check">>,
   dev       |-> <<"build", "publish", "check", "run", "mark">>,
   build_run |-> <<"build", "publish", "register">>,
   run       |-> <<"gate">>,
   check     |-> <<"check">>]

Init ==
  /\ src = 1
  /\ dirs = [d \in Commands \cup {Present} |-> IF d = Present THEN PresentDir ELSE EmptyDir]
  /\ out = Present
  /\ aside = [c \in Commands |-> Nothing]
  /\ todo = [c \in Commands |-> <<>>]
  /\ at = [c \in Commands |-> "idle"]
  /\ mine = [c \in Commands |-> Fresh]
  /\ tested = {} /\ smoked = {} /\ waived = {} /\ met = {}

-----------------------------------------------------------------------------
\* Where a piece of work begins.
First(work) ==
  CASE work = "build" -> "author"
    [] work = "publish" -> "look"
    [] work = "check" -> "digest"
    [] work = "run" -> "load"
    [] OTHER -> work

At(c, here) == at[c] = here
GotoWith(c, there, m) ==
  /\ at' = [at EXCEPT ![c] = there] /\ mine' = [mine EXCEPT ![c] = m]
  /\ UNCHANGED todo
Goto(c, there) == GotoWith(c, there, mine[c])

\* The command goes on with `rest`, or returns, and its memory is gone.
GoOnWith(c, rest) ==
  /\ todo' = [todo EXCEPT ![c] = rest]
  /\ IF rest = <<>>
     THEN at' = [at EXCEPT ![c] = "done"] /\ mine' = [mine EXCEPT ![c] = Fresh]
     ELSE at' = [at EXCEPT ![c] = First(Head(rest))] /\ UNCHANGED mine
GoOn(c) == GoOnWith(c, Tail(todo[c]))

\* `?` in the command: the error is its answer.
End(c, how) ==
  /\ at' = [at EXCEPT ![c] = how]
  /\ todo' = [todo EXCEPT ![c] = <<>>] /\ mine' = [mine EXCEPT ![c] = Fresh]
Fail(c) == End(c, "failed")

\* The directories after those in `gone` have been removed, or left under a name that
\* nobody looks for.
Without(gone) == [d \in DOMAIN dirs |-> IF d \in gone THEN EmptyDir ELSE dirs[d]]

\* A command that relies on what is at the path.
Uses(c) == todo[c] # <<>> /\ Head(todo[c]) \notin {"build", "publish"}

\* The directory at the path is another one from now on.
Replaced(c, d) ==
  /\ out' = d
  /\ met' = met \cup {e \in Commands \ {c} : Uses(e)}

-----------------------------------------------------------------------------
\* verify_sealed_package_integrity_snapshot: every file has its checksum and there is
\* no other, every pointer has its blob, the lock, the report and the manifest name
\* these checksums, the report has passed, and the manifest holds the experiment that
\* is on disk.
PointerHasItsBlob(d) == d.files.asset # 0 /\ d.blobs[d.files.asset] = d.files.asset

\* Mutant: verify_package_cas_pointers is left out.
VerifiedWithoutBlobs(d) ==
  /\ d.manifest # NoManifest
  /\ d.files = d.sums.files /\ d.blobs = d.sums.blobs
  /\ d.manifest.digest = d.sums /\ d.lock = d.sums
  /\ d.checks = [of |-> d.sums, passed |-> TRUE]
  /\ d.manifest.resolved = d.files.resolved

Verified(d) ==
  /\ d.manifest # NoManifest
  /\ d.files = d.sums.files /\ d.blobs = d.sums.blobs
  /\ PointerHasItsBlob(d)
  /\ d.manifest.digest = d.sums /\ d.lock = d.sums
  /\ d.checks = [of |-> d.sums, passed |-> TRUE]
  /\ d.manifest.resolved = d.files.resolved

\* What the path names, and whether it can be loaded.
AtPath == IF out = Nothing THEN EmptyDir ELSE dirs[out]

Begin(c) ==
  /\ At(c, "idle")
  /\ \E kind \in DOMAIN Work : GoOnWith(c, Work[kind])
  /\ UNCHANGED <<src, dirs, place, gate>>

\* The author saves another version.
Edit ==
  /\ src <= MaxEdits
  /\ src' = src + 1
  /\ UNCHANGED <<dirs, place, todo, at, mine, gate>>

-----------------------------------------------------------------------------
\* build_experiment_package into a directory of the command's own.  The experiment is
\* loaded, then the tasks, which are written to the package,
LoadAuthoring(c) ==
  /\ At(c, "author")
  /\ dirs' = [dirs EXCEPT ![c].files.resolved = src]
  /\ Goto(c, "tasks")
  /\ UNCHANGED <<src, place, gate>>

WriteTasks(c) ==
  /\ At(c, "tasks")
  /\ dirs' = [dirs EXCEPT ![c].files.tasks = src]
  /\ Goto(c, "hash")
  /\ UNCHANGED <<src, place, gate>>

\* the asset is hashed,
HashAsset(c) ==
  /\ At(c, "hash")
  /\ GotoWith(c, "copy", [mine[c] EXCEPT !.hashed = src])
  /\ UNCHANGED <<src, dirs, place, gate>>

\* copied to the place its digest names, unless a blob is there, and the pointer written,
CopyAsset(c) ==
  /\ At(c, "copy")
  /\ LET digest == mine[c].hashed
     IN  dirs' = [dirs EXCEPT ![c].blobs[digest] = IF @ = 0 THEN src ELSE @,
                              ![c].files.asset = digest]
  /\ GotoWith(c, "seal", Fresh)
  /\ UNCHANGED <<src, place, gate>>

\* and the seal follows: the checksums of what is there, the lock, the report, and the
\* manifest at last, which nobody sees before the directory is published.
Seal(c) ==
  /\ At(c, "seal")
  /\ LET d == dirs[c]
         sums == [files |-> d.files, blobs |-> d.blobs]
     IN  dirs' = [dirs EXCEPT ![c].sums = sums, ![c].lock = sums,
                    ![c].checks = [of |-> sums, passed |-> d.files.tasks \notin Flawed],
                    ![c].manifest = [digest |-> sums, resolved |-> d.files.resolved]]
  /\ GoOn(c)
  /\ UNCHANGED <<src, place, gate>>

\* An error on the way: build_experiment_package_for_build_run removes the directory.
BuildFails(c) ==
  /\ at[c] \in {"author", "tasks", "hash", "copy", "seal"}
  /\ dirs' = Without({c})
  /\ Fail(c)
  /\ UNCHANGED <<src, place, gate>>

-----------------------------------------------------------------------------
\* publish_build_run_package: is there a package at the path?  What is published has a
\* manifest, so that it looks like one.
Look(c) ==
  /\ At(c, "look")
  /\ Goto(c, IF out = Nothing THEN "place" ELSE "aside")
  /\ UNCHANGED <<src, dirs, place, gate>>

\* It is renamed away, if it is still there,
MoveAside(c) ==
  /\ At(c, "aside")
  /\ \/ /\ out # Nothing
        /\ aside' = [aside EXCEPT ![c] = out]
        /\ Replaced(c, Nothing) /\ Goto(c, "place")
        /\ UNCHANGED dirs
     \/ /\ Fail(c) /\ dirs' = Without({c})
        /\ UNCHANGED place
  /\ UNCHANGED <<src, gate>>

\* and the new one takes its place, if nobody else's has.  With that the old one is
\* removed; an error of the removal is the command's.
Place(c) ==
  /\ At(c, "place")
  /\ \/ /\ out = Nothing
        /\ Replaced(c, c)
        /\ dirs' = Without({aside[c]})
        /\ aside' = [aside EXCEPT ![c] = Nothing]
        /\ GoOn(c) \/ (aside[c] # Nothing /\ Fail(c))
     \/ /\ IF aside[c] = Nothing
           THEN Fail(c) /\ dirs' = Without({c})
           ELSE Goto(c, "rollback") /\ UNCHANGED dirs
        /\ UNCHANGED place
  /\ UNCHANGED <<src, gate>>

\* The rename failed: what was there is put back, if the place is still free.
Rollback(c) ==
  /\ At(c, "rollback")
  /\ \/ /\ out = Nothing /\ Replaced(c, aside[c])
        /\ dirs' = Without({c})
     \/ /\ dirs' = Without({c, aside[c]})
        /\ UNCHANGED <<out, met>>
  /\ aside' = [aside EXCEPT ![c] = Nothing]
  /\ Fail(c)
  /\ UNCHANGED <<src, gate>>

-----------------------------------------------------------------------------
\* check_package reads the digest from the lock,
ReadDigest(c) ==
  /\ At(c, "digest")
  /\ IF AtPath.lock = NoSums THEN Fail(c)
     ELSE GotoWith(c, "verify", [mine[c] EXCEPT !.held = AtPath.lock])
  /\ UNCHANGED <<src, dirs, place, gate>>

\* verifies the package,
CheckVerifies(c) ==
  /\ At(c, "verify")
  /\ IF Verified(AtPath) THEN Goto(c, "report") ELSE Fail(c)
  /\ UNCHANGED <<src, dirs, place, gate>>

\* and writes a new report to the path; lint and dev stop at one that has not passed.
WriteReport(c) ==
  /\ At(c, "report")
  /\ IF out = Nothing THEN Fail(c) /\ UNCHANGED dirs
     ELSE /\ dirs' = [dirs EXCEPT ![out].checks =
                        [of |-> mine[c].held, passed |-> AtPath.files.tasks \notin Flawed]]
          /\ IF AtPath.files.tasks \in Flawed THEN Fail(c) ELSE GoOn(c)
  /\ UNCHANGED <<src, place, gate>>

-----------------------------------------------------------------------------
IsTested == \E t \in tested : t.digest = AtPath.sums

\* The user has the package run although it is not tested.
Waive(c) == GoOnWith(c, Full) /\ waived' = waived \cup {c}

\* Commands::BuildRun: register_experiment_bundle says whether the package is tested; if
\* it is not, the smoke test comes first, unless the user waives it.
Register(c) ==
  /\ At(c, "register")
  /\ \/ /\ Verified(AtPath)
        /\ \/ GoOnWith(c, Smoke) /\ UNCHANGED waived
           \/ GoOnWith(c, IF IsTested THEN Full ELSE SmokeThenFull) /\ UNCHANGED waived
           \/ Waive(c)
     \/ ~Verified(AtPath) /\ Fail(c) /\ UNCHANGED waived
  /\ UNCHANGED <<src, dirs, place, tested, smoked>>

\* Mutant: registration is taken for the test.
GateOpen(c) ==
  /\ At(c, "gate")
  /\ IF Verified(AtPath) THEN GoOnWith(c, Full) ELSE Fail(c)
  /\ UNCHANGED <<src, dirs, place, gate>>

\* Commands::Run, resolve_run_validation_action: a package that is not tested is run on
\* the user's word only, by flag or at the prompt.
Gate(c) ==
  /\ At(c, "gate")
  /\ \/ /\ Verified(AtPath)
        /\ \/ GoOnWith(c, Smoke) /\ UNCHANGED waived
           \/ GoOnWith(c, IF IsTested THEN Full ELSE <<>>) /\ UNCHANGED waived
           \/ Waive(c)
     \/ ~Verified(AtPath) /\ Fail(c) /\ UNCHANGED waived
  /\ UNCHANGED <<src, dirs, place, tested, smoked>>

\* run_experiment_with_behavior loads the package, which verifies it,
LoadForRun(c) ==
  /\ At(c, "load")
  /\ IF Verified(AtPath)
     THEN GotoWith(c, "verify_again", [Fresh EXCEPT !.early = AtPath.manifest.resolved])
     ELSE Fail(c)
  /\ UNCHANGED <<src, dirs, place, gate>>

\* makes the run's directory, and verifies it again before it copies:
\* copy_verified_package_payload_for_run.
VerifyAgain(c) ==
  /\ At(c, "verify_again")
  /\ IF Verified(AtPath)
     THEN GotoWith(c, "copy_blobs", [mine[c] EXCEPT !.held = AtPath.sums])
     ELSE Fail(c)
  /\ UNCHANGED <<src, dirs, place, gate>>

Payload(files) == [files EXCEPT !.resolved = 0]

CopyBlobs(c) == GotoWith(c, "copy_files", [mine[c] EXCEPT !.run.blobs = AtPath.blobs])
CopyFiles(c) == GotoWith(c, "copy_lock", [mine[c] EXCEPT !.run.files = Payload(AtPath.files)])

\* Mutant: the copy is not hashed.
CopyUnchecked(c) ==
  /\ \/ At(c, "copy_blobs") /\ CopyBlobs(c)
     \/ At(c, "copy_files") /\ CopyFiles(c)
  /\ UNCHANGED <<src, dirs, place, gate>>

\* File by file, in the order of the checksums: each copy must have the digest that was
\* verified.
CopyPayload(c) ==
  /\ \/ /\ At(c, "copy_blobs")
        /\ IF AtPath.blobs = mine[c].held.blobs THEN CopyBlobs(c) ELSE Fail(c)
     \/ /\ At(c, "copy_files")
        /\ IF Payload(AtPath.files) = Payload(mine[c].held.files) THEN CopyFiles(c) ELSE Fail(c)
  /\ UNCHANGED <<src, dirs, place, gate>>

\* The copied lock is compared with the lock it was copied from; then the experiment
\* that was loaded first is written, and the run goes to its preflight and its schedule.
CopyLock(c) ==
  /\ At(c, "copy_lock")
  /\ IF AtPath.lock = NoSums THEN Fail(c)
     ELSE GotoWith(c, "started", [mine[c] EXCEPT !.run.lock = AtPath.lock,
                                                 !.run.resolved = mine[c].early])
  /\ UNCHANGED <<src, dirs, place, gate>>

\* ensure_smoke_test_completed, or the end of the full run.
RunEnds(c) ==
  /\ At(c, "started")
  /\ \/ /\ GoOn(c)
        /\ smoked' = IF Tail(todo[c]) # <<>> THEN smoked \cup {mine[c].held} ELSE smoked
     \/ /\ Fail(c) /\ UNCHANGED smoked
  /\ UNCHANGED <<src, dirs, place, tested, waived>>

\* mark_experiment_bundle_smoke_tested looks at the path once more and marks what it finds.
Mark(c) ==
  /\ At(c, "mark")
  /\ IF Verified(AtPath)
     THEN /\ tested' = {t \in tested : t.digest # AtPath.sums}
                       \cup {[digest |-> AtPath.sums, by |-> c]}
          /\ GoOn(c)
     ELSE Fail(c) /\ UNCHANGED tested
  /\ UNCHANGED <<src, dirs, place, smoked, waived>>

\* The process dies; what it has made or moved stays.
Crash(c) ==
  /\ at[c] \notin {"idle", "done", "failed", "dead"}
  /\ End(c, "dead")
  /\ dirs' = IF out = c \/ \E e \in Commands : aside[e] = c THEN dirs ELSE Without({c})
  /\ UNCHANGED <<src, place, gate>>

Step(c) ==
  \/ Begin(c) \/ LoadAuthoring(c) \/ WriteTasks(c) \/ HashAsset(c) \/ CopyAsset(c)
  \/ Seal(c) \/ BuildFails(c)
  \/ Look(c) \/ MoveAside(c) \/ Place(c) \/ Rollback(c)
  \/ ReadDigest(c) \/ CheckVerifies(c) \/ WriteReport(c)
  \/ Register(c) \/ Gate(c)
  \/ LoadForRun(c) \/ VerifyAgain(c) \/ CopyPayload(c) \/ CopyLock(c) \/ RunEnds(c)
  \/ Mark(c) \/ Crash(c)

Next == Edit \/ \E c \in Commands : Step(c)

Spec == Init /\ [][Next]_vars

-----------------------------------------------------------------------------
Started(c) == at[c] = "started"

\* The payload of a run that starts is the payload of one package that has passed the
\* verification, pointer and blob together, whatever was done to the path meanwhile
\* (copy_verified_package_payload_for_run, verify_package_cas_pointers).
RunHoldsItsSeal ==
  \A c \in Commands : Started(c) =>
    /\ mine[c].run.files = Payload(mine[c].held.files) /\ mine[c].run.blobs = mine[c].held.blobs
    /\ mine[c].run.blobs[mine[c].run.files.asset] = mine[c].run.files.asset
    /\ mine[c].run.files.tasks \notin Flawed

\* So are its experiment and its lock, unless the package was replaced under it: each of
\* the three is read after a look of its own (run_experiment_with_behavior).
OfOnePackage(c) == mine[c].run.resolved = mine[c].held.files.resolved /\ mine[c].run.lock = mine[c].held
RunIsOfOnePackage == \A c \in Commands \ met : Started(c) => OfOnePackage(c)

\* A package is marked as tested when a smoke test went through with it, and a full run
\* that was not waived executes such a one; the exceptions are marks made, and runs
\* started, by commands that had the package replaced under them
\* (resolve_run_validation_action, mark_experiment_bundle_smoke_tested).
FullRunWasSmoked ==
  /\ \A t \in tested : t.by \notin met => t.digest \in smoked
  /\ \A c \in Commands \ (met \cup waived) :
       Started(c) /\ Tail(todo[c]) = <<>> =>
         \/ mine[c].held \in smoked
         \/ \E t \in tested : t.digest = mine[c].held /\ t.by \in met

\* What the code does not give.  Without the exceptions: a run may mix two packages, and
\* a package that no smoke test has seen may be marked.
RunsAreOfOnePackage == \A c \in Commands : Started(c) => OfOnePackage(c)
MarksAreEarned == \A t \in tested : t.digest \in smoked

\* A package that can be loaded stays so while it is at its path: the report of a check
\* may be about the package that was there before.
SealLasts ==
  [][out' = out /\ out # Nothing /\ Verified(AtPath) => Verified(AtPath)']_vars

\* What is published can be loaded: an asset saved between its hash and its copy is
\* found out only when the package is loaded, and the package it replaced is gone.
PublishedLoads == \A c \in Commands : out = c => Verified(dirs[c]) \/ dirs[c].files.tasks \in Flawed

\* There is a package at the path whenever nobody is about to put one there: a command
\* may die between its two renames.
PathKeepsAPackage == out = Nothing => \E c \in Commands : at[c] \in {"place", "rollback"}
=============================================================================
