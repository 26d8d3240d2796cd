---------------------------- MODULE MCOperations ----------------------------
(***************************************************************************)
(* The command line's operations from outside an engine: how those on a    *)
(* run take and give back its lease, file system step by step, what reruns *)
(* and recoveries do under it, the commands that build a package and run   *)
(* it, and those that log in to the Cloud and out, or use the login.  The  *)
(* lease does not depend on what its holders do, TrialRerun has it as one  *)
(* step, a package is touched only before there is a run, and the login is *)
(* the user's, not the run's; so a behaviour takes the steps of one `part` *)
(* and the others stay where they start.                                   *)
(***************************************************************************)
EXTENDS OperationLease, TLC

CONSTANTS Reruns, Recoveries, LeaseTTL, LastSecond, Commands, MaxEdits, Flawed,
          Shells, MaxIssued, MaxDeaths

\* The bounds on tokens and on killed commands are numbers.
ASSUME LoginAssumption == MaxIssued \in Nat /\ MaxDeaths \in Nat

\* A rerun is not a recovery, and the bound on the time is a number.
ASSUME RerunAssumption == LastSecond \in Nat /\ Reruns \cap Recoveries = {}

\* The package that is there at first has passed its checks, and no command has its name.
ASSUME PackageAssumption == 1 \notin Flawed /\ Commands \cap {"present", "nothing"} = {}

VARIABLES
  part,   \* "lease", "rerun", "package" or "login"
  answers, paused, now, lease, at, call, second, phase, recorded, box, objects, op_rows, slot,
  status, plan, released, misled,
  src, dirs, out, aside, todo, step, mine, tested, smoked, waived, met,
  last, grant, old, secrets, place, files, entry, session, upset, deaths

Rerun == INSTANCE TrialRerun
Package == INSTANCE SealedPackage WITH at <- step
Login == INSTANCE CloudLogin WITH file <- secrets

rerunVars == <<answers, paused, now, lease, at, call, second, phase, recorded, box, objects,
               op_rows, slot, status, plan, released, misled>>
packageVars == <<src, dirs, out, aside, todo, step, mine, tested, smoked, waived, met>>
loginVars == <<last, grant, old, secrets, place, files, entry, session, upset, deaths>>
allVars == <<part, vars, rerunVars, packageVars, loginVars>>

\* A part that does not run has one initial state; of the packages there is none.
NoPackage ==
  /\ src = 0 /\ dirs = <<>> /\ out = "" /\ aside = <<>> /\ todo = <<>> /\ step = <<>>
  /\ mine = <<>> /\ tested = {} /\ smoked = {} /\ waived = {} /\ met = {}

MCInit ==
  /\ part \in {"lease", "rerun", "package", "login"}
  /\ Init /\ Rerun!Init /\ Login!Init
  /\ part # "rerun" => paused = {0} /\ box = {}
  /\ IF part = "package" THEN Package!Init ELSE NoPackage

OfLease == part = "lease" /\ UNCHANGED <<part, rerunVars, packageVars, loginVars>>
OfRerun == part = "rerun" /\ UNCHANGED <<part, vars, packageVars, loginVars>>
OfPackage == part = "package" /\ UNCHANGED <<part, vars, rerunVars, loginVars>>
OfLogin == part = "login" /\ UNCHANGED <<part, vars, rerunVars, packageVars>>

MCNext ==
  (OfLease /\ Next) \/ (OfRerun /\ Rerun!Next) \/ (OfPackage /\ Package!Next)
    \/ (OfLogin /\ Login!Next)

MCSpec == MCInit /\ [][MCNext]_allVars

\* Invocations differ in nothing but their names; the parts have the same names for them.
Invocations == Permutations(Reruns \cup Commands \cup Shells)

\* What reruns leave is on record, and recovery respects what it finds.  A replay or fork
\* that returned has its input, output and manifest, whatever failed, died or was recovered
\* meanwhile, unless another was started in the same second; the checkpoint that a resume
\* selects is found by the fork that looks it up again; a recovery leaves a paused trial its
\* phase and its slot, and comes to its end where the runtimes of all trials are on record,
\* the exception to both being the row of a rerun (replay_trial, fork_trial_inner,
\* resolve_resume_selector, reconcile_runtime_trials_for_recovery).
RerunsAndRecoveryAgree ==
  /\ Rerun!RerunIsRecorded /\ Rerun!ResumeFindsItsCheckpoint
  /\ Rerun!PausedTrialKeepsItsSlot /\ Rerun!StuckByRerun

\* A run that starts has the payload of one package that passed its verification, whatever
\* happens at the path meanwhile; and unless the package was replaced under the command,
\* its experiment and lock are of the same package, and that package has been through a
\* smoke test or the user has waived it (copy_verified_package_payload_for_run,
\* resolve_run_validation_action, mark_experiment_bundle_smoke_tested).
StartedRunIsItsPackage ==
  part = "package" =>
    Package!RunHoldsItsSeal /\ Package!RunIsOfOnePackage /\ Package!FullRunWasSmoked

\* A login lasts until the logout: the files hold it between commands, and a token can be
\* had from them while they are written (CloudLogin).
LoginIsKept == Login!LoginIsKept
=============================================================================
