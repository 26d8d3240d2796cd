--------------------------- MODULE OperationProofs --------------------------
(***************************************************************************)
(* Proofs about the parts of MCOperations: the operation lease, for any    *)
(* number of invocations, any TTL and any length of time, the Cloud login, *)
(* for any number of shells, tokens and killed commands, the package, for  *)
(* any number of commands that build, publish, check and run it, and the   *)
(* reruns and recoveries of a run, for any number of them.                 *)
(***************************************************************************)
EXTENDS MCOperations, Sequences, TLAPS

-----------------------------------------------------------------------------
(* The operation lease. *)


\* While no window was hit, an unexpired holder is the one whose record is in
\* the file, and an invocation between create_new and its record still owns the
\* empty file.
FileNamesHolder ==
  ~raced => /\ \A p \in Ops : HoldsFresh(p) => file = Lease(p, expires[p])
            /\ \A p \in Ops : pc[p] = "created" => file = Torn(p)

\* An invocation about to replace a lease loaded one that was stale by a `now`
\* that has passed.
SeenIsStale ==
  \A p \in Ops : /\ readAt[p] <= clock
                 /\ pc[p] = "takeover" => /\ seen[p].kind = "lease"
                                          /\ seen[p].expires < readAt[p]

IInv == TypeOK /\ SeenIsStale /\ FileNamesHolder

\* The facts about the clock and the file alphabet that typing steps use.
LEMMA Shapes ==
  /\ 0 \in Times /\ 0 \in 0 .. MaxClock
  /\ \A t \in 0 .. MaxClock : t \in Times /\ t + TTL \in Times
  /\ Absent \in Files
  /\ \A p \in Ops : Torn(p) \in Files
  /\ \A p \in Ops, t \in Times : Lease(p, t) \in Files
  BY TTLAssumption, MaxClockAssumption DEF Times, Files, Absent, Torn, Lease

\* TypeOK is inductive: the lease file, the clock and the invocations keep
\* their types whatever the interleaving.
LEMMA TypeCorrect == Spec => []TypeOK
  <1>1. Init => TypeOK
    BY Shapes DEF Init, TypeOK, States
  <1>2. TypeOK /\ [Next]_vars => TypeOK'
    <2> SUFFICES ASSUME TypeOK, [Next]_vars PROVE TypeOK'
      OBVIOUS
    <2> USE Shapes DEF TypeOK, Goto, States
    <2>1. ASSUME NEW p \in Ops, CreateNew(p) PROVE TypeOK'
      BY <2>1 DEF CreateNew
    <2>2. ASSUME NEW p \in Ops, WriteRecord(p) PROVE TypeOK'
      BY <2>2 DEF WriteRecord
    <2>3. ASSUME NEW p \in Ops, AlreadyExists(p) PROVE TypeOK'
      BY <2>3 DEF AlreadyExists
    <2>4. ASSUME NEW p \in Ops, LoadExisting(p) PROVE TypeOK'
      BY <2>4 DEF LoadExisting
    <2>5. ASSUME NEW p \in Ops, WriteReplacement(p) PROVE TypeOK'
      BY <2>5 DEF WriteReplacement
    <2>6. ASSUME NEW p \in Ops, AcquireFails(p) PROVE TypeOK'
      BY <2>6 DEF AcquireFails
    <2>7. ASSUME NEW p \in Ops, DropInspect(p) PROVE TypeOK'
      BY <2>7 DEF DropInspect
    <2>8. ASSUME NEW p \in Ops, DropUnlink(p) PROVE TypeOK'
      BY <2>8 DEF DropUnlink
    <2>9. ASSUME NEW p \in Ops, Crash(p) PROVE TypeOK'
      BY <2>9 DEF Crash
    <2>10. CASE Tick
      BY <2>10, MaxClockAssumption DEF Tick
    <2>11. CASE UNCHANGED vars
      BY <2>11 DEF vars
    <2> QED
      BY <2>1, <2>2, <2>3, <2>4, <2>5, <2>6, <2>7, <2>8, <2>9, <2>10, <2>11
      DEF Next
  <1> QED
    BY <1>1, <1>2, PTL DEF Spec

\* Telling the three shapes of the file apart.
LEMMA Distinct ==
  /\ \A p, q \in Ops : \A s, t : Lease(p, s) = Lease(q, t) => p = q /\ s = t
  /\ \A p, q \in Ops : Torn(p) = Torn(q) => p = q
  /\ \A p, q \in Ops : \A t : Lease(p, t) # Torn(q)
  /\ \A p \in Ops : Torn(p) # Absent /\ \A t : Lease(p, t) # Absent
  /\ \A p \in Ops : \A t : Lease(p, t).expires = t /\ Lease(p, t).kind = "lease"
  /\ \A p \in Ops : Torn(p).kind = "torn"
  BY OpsAssumption DEF Lease, Torn, Absent

\* The strengthened invariant is preserved by every step.
LEMMA Inductive == IInv /\ TypeOK' /\ [Next]_vars => IInv'
  <1> SUFFICES ASSUME IInv, TypeOK', [Next]_vars PROVE SeenIsStale' /\ FileNamesHolder'
    BY DEF IInv
  <1> USE Distinct DEF IInv, TypeOK, Goto
  <1>1. ASSUME NEW p \in Ops, CreateNew(p) PROVE SeenIsStale' /\ FileNamesHolder'
    BY <1>1 DEF CreateNew, SeenIsStale, FileNamesHolder, HoldsFresh
  <1>2. ASSUME NEW p \in Ops, WriteRecord(p) PROVE SeenIsStale' /\ FileNamesHolder'
    BY <1>2 DEF WriteRecord, SeenIsStale, FileNamesHolder, HoldsFresh
  <1>3. ASSUME NEW p \in Ops, AlreadyExists(p) PROVE SeenIsStale' /\ FileNamesHolder'
    BY <1>3 DEF AlreadyExists, SeenIsStale, FileNamesHolder, HoldsFresh
  <1>4. ASSUME NEW p \in Ops, LoadExisting(p) PROVE SeenIsStale' /\ FileNamesHolder'
    BY <1>4 DEF LoadExisting, lease_expires_at_is_stale, SeenIsStale, FileNamesHolder,
                HoldsFresh, Files, Times
  <1>5. ASSUME NEW p \in Ops, WriteReplacement(p) PROVE SeenIsStale' /\ FileNamesHolder'
    <2>1. SeenIsStale'
      BY <1>5 DEF WriteReplacement, SeenIsStale
    <2>2. ASSUME NEW q \in Ops, ~raced', HoldsFresh(q)', q # p PROVE FALSE
      \* q held a fresh lease already, so the file is q's: p saw q's lease stale.
      <3>1. HoldsFresh(q) /\ ~raced /\ file = seen[p]
        BY <1>5, <2>2 DEF WriteReplacement, HoldsFresh
      <3>2. seen[p] = Lease(q, expires[q])
        BY <3>1 DEF FileNamesHolder
      <3> QED
        BY <1>5, <3>1, <3>2 DEF WriteReplacement, SeenIsStale, HoldsFresh, Times
    <2>3. ASSUME NEW q \in Ops, ~raced', (pc[q] = "created")' PROVE FALSE
      <3>1. pc[q] = "created" /\ pc[p] = "takeover" /\ ~raced /\ file = seen[p]
        BY <1>5, <2>3 DEF WriteReplacement
      <3>2. seen[p].kind = "torn"
        BY <3>1 DEF FileNamesHolder
      <3> QED
        BY <3>1, <3>2 DEF SeenIsStale
    <2> QED
      BY <1>5, <2>1, <2>2, <2>3 DEF WriteReplacement, FileNamesHolder
  <1>6. ASSUME NEW p \in Ops, AcquireFails(p) PROVE SeenIsStale' /\ FileNamesHolder'
    BY <1>6 DEF AcquireFails, SeenIsStale, FileNamesHolder, HoldsFresh
  <1>7. ASSUME NEW p \in Ops, DropInspect(p) PROVE SeenIsStale' /\ FileNamesHolder'
    BY <1>7 DEF DropInspect, SeenIsStale, FileNamesHolder, HoldsFresh
  <1>8. ASSUME NEW p \in Ops, DropUnlink(p) PROVE SeenIsStale' /\ FileNamesHolder'
    <2>1. SeenIsStale'
      BY <1>8 DEF DropUnlink, SeenIsStale
    <2>2. ~raced' => ~raced /\ (file = Absent \/ file = Lease(p, expires[p]))
      BY <1>8 DEF DropUnlink
    <2>3. \A q \in Ops : HoldsFresh(q)' => HoldsFresh(q) /\ q # p
      BY <1>8 DEF DropUnlink, HoldsFresh
    <2>4. \A q \in Ops : (pc[q] = "created")' => pc[q] = "created"
      BY <1>8 DEF DropUnlink
    <2> QED
      BY <2>1, <2>2, <2>3, <2>4 DEF FileNamesHolder
  <1>9. ASSUME NEW p \in Ops, Crash(p) PROVE SeenIsStale' /\ FileNamesHolder'
    BY <1>9 DEF Crash, SeenIsStale, FileNamesHolder, HoldsFresh
  <1>10. CASE Tick
    BY <1>10 DEF Tick, SeenIsStale, FileNamesHolder, HoldsFresh, Times
  <1>11. CASE UNCHANGED vars
    BY <1>11 DEF vars, SeenIsStale, FileNamesHolder, HoldsFresh
  <1> QED
    BY <1>1, <1>2, <1>3, <1>4, <1>5, <1>6, <1>7, <1>8, <1>9, <1>10, <1>11 DEF Next

\* In every behaviour of the lease protocol the strengthened invariant holds.
LEMMA Invariance == Spec => []IInv
  <1>1. Init => SeenIsStale /\ FileNamesHolder
    BY DEF Init, SeenIsStale, FileNamesHolder, HoldsFresh
  <1> QED
    BY <1>1, TypeCorrect, Inductive, PTL DEF Spec, IInv

\* acquire_run_operation_lease and Drop keep unexpired leases exclusive, for
\* any number of operations and crashes, as long as neither the takeover write
\* nor the unlink hits a lease it had not inspected.
THEOREM LeaseExclusion == Spec => []ExclusiveUnlessRaced
  <1>1. IInv => ExclusiveUnlessRaced
    BY Distinct DEF IInv, FileNamesHolder, ExclusiveUnlessRaced, Exclusive
  <1> QED
    BY <1>1, Invariance, PTL

\* No step of another operation replaces or removes a fresh lease, unless one
\* of the two windows was hit.
THEOREM FreshLeaseIsKept == Spec => FreshLeaseStays
  <1>1. ASSUME IInv, Next, ~raced' PROVE KeepsFreshLeases
    <2> SUFFICES ASSUME NEW p \in Ops, file = Lease(p, expires[p]), HoldsFresh(p)
                 PROVE  file' = file \/ pc'[p] # "held"
      BY DEF KeepsFreshLeases
    <2> USE Distinct DEF IInv, TypeOK, Goto
    <2>1. ASSUME NEW q \in Ops, WriteReplacement(q) PROVE FALSE
      <3>1. seen[q] = Lease(p, expires[p]) /\ pc[q] = "takeover"
        BY <1>1, <2>1 DEF WriteReplacement
      <3>2. expires[p] < readAt[q] /\ readAt[q] <= clock /\ clock <= expires[p]
        BY <1>1, <3>1 DEF SeenIsStale, HoldsFresh
      <3> QED
        BY <1>1, <3>2, MaxClockAssumption, TTLAssumption DEF Times
    <2>2. ASSUME NEW q \in Ops, DropUnlink(q) PROVE pc'[p] # "held"
      <3>1. file = Lease(q, expires[q])
        BY <1>1, <2>2 DEF DropUnlink
      <3>2. Lease(p, expires[p]) = Lease(q, expires[q])
        BY <3>1
      <3>3. q = p
        BY <3>2
      <3> QED
        BY <1>1, <2>2, <3>3 DEF DropUnlink
    <2>3. ASSUME NEW q \in Ops, CreateNew(q) \/ WriteRecord(q) PROVE file' = file
      BY <1>1, <2>3 DEF CreateNew, WriteRecord
    <2> QED
      BY <1>1, <2>1, <2>2, <2>3
      DEF Next, AlreadyExists, LoadExisting, AcquireFails, DropInspect, Crash, Tick
  <1>2. IInv /\ [Next]_vars => [~raced' => KeepsFreshLeases]_vars
    BY <1>1
  <1> QED
    BY <1>2, Invariance, PTL DEF Spec, FreshLeaseStays

-----------------------------------------------------------------------------
(* The Cloud login.                                                        *)
(*                                                                         *)
(* LoginIsKept speaks of the moments between commands and is not           *)
(* inductive: what a command that writes leaves depends on what it has     *)
(* written already (WritesAreTrue), on the cache it refreshed from         *)
(* (AsksForCached), and on nobody else having been at the files meanwhile  *)
(* (ChangesAlone).                                                         *)

\* The files with tokens, and the places where a command is changing files.
Tokens == {"access", "refresh", "cache"}
Writing(s) == place[s] \in {"open", "write", "remove"}

\* A command that asks or writes has an entry, one that writes or removes has a file to do
\* it to, and what is known of logins is of logins there were.
CommandsHaveWork ==
  \A s \in Shells :
    /\ place[s] \in {"ask", "open", "write"} => entry[s] \in Login!Entries /\ entry[s].login <= last
    /\ Writing(s) => files[s] # {}

\* Every variable has its type, and names only logins there were.
LoginsWere ==
  /\ Login!LoginTypeOK /\ CommandsHaveWork
  /\ session <= last
  /\ secrets["cache"].is = "whole" => secrets["cache"].of.login <= last

\* Unless two commands met, one at most is changing the files.
ChangesAlone ==
  ~upset => \A s, t \in Shells : Login!Changing(s) /\ Login!Changing(t) => s = t

\* Between the commands that write or remove, the files hold the session.
HeldBetween == ~upset /\ (\A s \in Shells : ~Writing(s)) => Login!SessionIsHeld

\* Who asks the server for a token has what is in the cache.
AsksForCached ==
  ~upset => \A s \in Shells : place[s] = "ask" =>
    secrets["cache"].is = "whole" /\ entry[s] = secrets["cache"].of /\ entry[s].refresh # 0

\* A command that writes an entry: what it has written is there, what it is not to write is
\* right already, and until the access file is written the cache is whole.
WritesEntry(s) ==
  LET e == entry[s] IN
  /\ files[s] \subseteq Login!FilesOf(e)
  /\ e.refresh = grant[e.login]
  /\ \A name \in Login!FilesOf(e) \ files[s] : secrets[name] = Login!Whole(Login!Part(name, e))
  /\ e.token # e.login => session = e.login /\ secrets["profile"] = Login!Whole(e.login)
  /\ place[s] = "write" => secrets[Login!First(files[s])] = Login!Empty
  /\ session # 0 /\ "access" \in files[s] => secrets["cache"].is = "whole"

\* Who writes has an entry of which this is so.
WritesAreTrue ==
  ~upset => \A s \in Shells : place[s] \in {"open", "write"} => WritesEntry(s)

\* What a logout has removed is gone.
RemovesTokens ==
  ~upset => \A s \in Shells : place[s] = "remove" =>
    files[s] \subseteq Tokens /\ \A name \in Tokens \ files[s] : secrets[name] = Login!Absent

\* The invariant of the login.
LoginInv ==
  /\ LoginsWere /\ ChangesAlone /\ HeldBetween /\ AsksForCached /\ WritesAreTrue /\ RemovesTokens
-----------------------------------------------------------------------------
(* Entries, files and commands. *)

\* What is in a file shows which it is.
LEMMA FileKinds ==
  /\ Login!Absent.is = "absent" /\ Login!Empty.is = "empty" /\ Login!Garbled.is = "garbled"
  /\ \A v : Login!Whole(v).is = "whole" /\ Login!Whole(v).of = v
  BY DEF Login!Absent, Login!Empty, Login!Garbled, Login!Whole

\* The numbers of an entry.
LEMMA EntryNumbers ==
  /\ \A e \in Login!Entries : /\ e.login \in 1 .. MaxIssued /\ e.token \in 1 .. MaxIssued
                        /\ e.refresh \in 0 .. MaxIssued
  /\ \A l, t \in 1 .. MaxIssued, r \in 0 .. MaxIssued :
       [login |-> l, token |-> t, refresh |-> r] \in Login!Entries
  BY DEF Login!Entries

\* A whole cache holds an entry, and only a whole one does.
LEMMA CacheHolds ==
  ASSUME Login!LoginTypeOK, secrets["cache"].is = "whole"
  PROVE  secrets["cache"].of \in Login!Entries /\ secrets["cache"] = Login!Whole(secrets["cache"].of)
<1>1. secrets["cache"] \in {Login!Absent, Login!Empty, Login!Garbled}
                          \cup {Login!Whole(Login!Part("cache", e)) : e \in Login!Entries}
  BY DEF Login!LoginTypeOK, Login!Contents, Login!Names
<1>2. PICK e \in Login!Entries : secrets["cache"] = Login!Whole(Login!Part("cache", e))
  BY <1>1, FileKinds
<1>3. Login!Part("cache", e) = e
  BY DEF Login!Part
<1> QED
  BY <1>2, <1>3, FileKinds

\* Files are written and removed in an order, and each is one of those to go.
LEMMA FirstIsOne ==
  ASSUME NEW names \in SUBSET Login!Names, names # {}
  PROVE  Login!First(names) \in names /\ ("access" \in names => Login!First(names) = "access")
  BY DEF Login!First, Login!Names

\* What an entry's files are given.
LEMMA Parts ==
  ASSUME NEW e
  PROVE  /\ Login!Part("access", e) = e.token /\ Login!Part("refresh", e) = e.refresh
         /\ Login!Part("cache", e) = e /\ Login!Part("profile", e) = e.login
  BY DEF Login!Part

\* A step of one shell leaves the others where they are.
LEMMA Moves ==
  ASSUME Login!LoginTypeOK, NEW s \in Shells, NEW to \in Login!Places, NEW names \in SUBSET Login!Names,
         NEW e \in Login!Entries \cup {Login!NoEntry}, Login!Move(s, to, names, e)
  PROVE  /\ place' \in [Shells -> Login!Places] /\ files' \in [Shells -> SUBSET Login!Names]
         /\ entry' \in [Shells -> Login!Entries \cup {Login!NoEntry}]
         /\ place'[s] = to /\ files'[s] = names /\ entry'[s] = e
         /\ \A t \in Shells \ {s} : place'[t] = place[t] /\ files'[t] = files[t] /\ entry'[t] = entry[t]
  BY DEF Login!LoginTypeOK, Login!Move

-----------------------------------------------------------------------------
(* Steps that leave the files alone. *)

\* Such a step keeps types and logins when its shell has what its place needs.
LEMMA QuietTypes ==
  ASSUME LoginInv, NEW s \in Shells, NEW to \in Login!Places, NEW names \in SUBSET Login!Names,
         NEW e \in Login!Entries \cup {Login!NoEntry}, Login!Move(s, to, names, e),
         UNCHANGED <<secrets, session, old>>,
         last' \in last .. MaxIssued, grant' \in [1 .. MaxIssued -> 0 .. MaxIssued],
         upset' \in BOOLEAN, deaths' \in 0 .. MaxDeaths,
         to \in {"ask", "open", "write"} => e \in Login!Entries /\ e.login <= last',
         to \in {"open", "write", "remove"} => names # {}
  PROVE  /\ LoginsWere'
         /\ place'[s] = to /\ files'[s] = names /\ entry'[s] = e
         /\ \A t \in Shells \ {s} : place'[t] = place[t] /\ files'[t] = files[t] /\ entry'[t] = entry[t]
<1>1. Login!LoginTypeOK /\ last \in Nat /\ MaxIssued \in Nat
  BY LoginAssumption DEF LoginInv, LoginsWere, Login!LoginTypeOK
<1>2. /\ place' \in [Shells -> Login!Places] /\ files' \in [Shells -> SUBSET Login!Names]
      /\ entry' \in [Shells -> Login!Entries \cup {Login!NoEntry}]
      /\ place'[s] = to /\ files'[s] = names /\ entry'[s] = e
      /\ \A t \in Shells \ {s} : place'[t] = place[t] /\ files'[t] = files[t] /\ entry'[t] = entry[t]
  BY <1>1, Moves
<1>3. last' \in 0 .. MaxIssued /\ last <= last' /\ last' \in Nat
  BY <1>1
<1>4. Login!LoginTypeOK'
  <2>1. old' \in 0 .. last'
    BY <1>1, <1>3 DEF Login!LoginTypeOK
  <2> QED
    BY <1>1, <1>2, <1>3, <2>1 DEF Login!LoginTypeOK, Login!Contents, Login!Part
<1>5. CommandsHaveWork'
  <2>1. \A t \in Shells : place[t] \in {"ask", "open", "write"} => entry[t].login \in Nat
    BY EntryNumbers DEF LoginInv, LoginsWere, CommandsHaveWork
  <2> QED
    BY <1>1, <1>2, <1>3, <2>1 DEF LoginInv, LoginsWere, CommandsHaveWork, Writing
<1>6. (session <= last)'
  BY <1>1, <1>3 DEF LoginInv, LoginsWere, Login!LoginTypeOK
<1>7. (secrets["cache"].is = "whole" => secrets["cache"].of.login <= last)'
  <2>1. secrets["cache"].is = "whole" => secrets["cache"].of.login \in Nat
    BY <1>1, CacheHolds, EntryNumbers
  <2> QED
    BY <1>1, <1>3, <2>1 DEF LoginInv, LoginsWere
<1> QED
  BY <1>2, <1>4, <1>5, <1>6, <1>7 DEF LoginsWere

\* A command ends without another file; if it was at the files, that is upsetting.
LEMMA StopKeeps ==
  ASSUME LoginInv, NEW s \in Shells, Login!Stop(s), UNCHANGED <<secrets, session, old>>,
         last' \in last .. MaxIssued, grant' \in [1 .. MaxIssued -> 0 .. MaxIssued],
         upset' \in BOOLEAN, deaths' \in 0 .. MaxDeaths,
         upset \/ Writing(s) => upset', ~upset' => grant' = grant
  PROVE  LoginInv'
<1>1. "idle" \in Login!Places /\ {} \in SUBSET Login!Names
  BY DEF Login!Places
<1>2. /\ LoginsWere' /\ place'[s] = "idle"
      /\ \A t \in Shells \ {s} : place'[t] = place[t] /\ files'[t] = files[t] /\ entry'[t] = entry[t]
  BY <1>1, QuietTypes DEF Login!Stop
<1>3. ChangesAlone'
  BY <1>2 DEF LoginInv, ChangesAlone, Login!Changing
<1>4. HeldBetween'
  BY <1>2 DEF LoginInv, HeldBetween, Writing, Login!SessionIsHeld
<1>5. AsksForCached' /\ RemovesTokens'
  BY <1>2 DEF LoginInv, AsksForCached, RemovesTokens
<1>6. WritesAreTrue'
  BY <1>2 DEF LoginInv, WritesAreTrue, WritesEntry
<1> QED
  BY <1>2, <1>3, <1>4, <1>5, <1>6 DEF LoginInv

\* What a command that is about to change the files finds, when nobody else is: the session.
LEMMA BeginsAlone ==
  ASSUME LoginInv, NEW s \in Shells, ~Writing(s), Login!Changes(s), ~upset'
  PROVE  /\ ~upset /\ Login!SessionIsHeld
         /\ \A t \in Shells \ {s} : ~Login!Changing(t) /\ ~Writing(t)
<1>1. ~upset /\ \A t \in Shells \ {s} : ~Login!Changing(t)
  BY DEF Login!Changes
<1>2. \A t \in Shells \ {s} : ~Writing(t)
  BY <1>1 DEF Login!Changing, Writing
<1> QED
  BY <1>1, <1>2 DEF LoginInv, HeldBetween

\* A command reads the cache and goes to the server, or to the access file.
LEMMA ReadCacheKeeps ==
  ASSUME LoginInv, NEW s \in Shells, Login!ReadCache(s)
  PROVE  LoginInv'
<1>1. /\ Login!LoginTypeOK /\ place[s] = "idle"
      /\ UNCHANGED <<last, grant, old, secrets, session, deaths>>
  BY DEF LoginInv, LoginsWere, Login!ReadCache, Login!serverVars
<1>2. CASE /\ secrets["cache"].is # "whole" /\ UNCHANGED upset
           /\ Login!Move(s, "read_access", {}, Login!NoEntry)
  <2>1. /\ last' \in last .. MaxIssued /\ grant' \in [1 .. MaxIssued -> 0 .. MaxIssued]
        /\ upset' \in BOOLEAN /\ deaths' \in 0 .. MaxDeaths /\ "read_access" \in Login!Places
    BY <1>1, <1>2 DEF Login!LoginTypeOK, Login!Places
  <2>2. /\ LoginsWere' /\ place'[s] = "read_access"
        /\ \A t \in Shells \ {s} : place'[t] = place[t] /\ files'[t] = files[t] /\ entry'[t] = entry[t]
    BY <1>1, <1>2, <2>1, QuietTypes
  <2>3. ChangesAlone'
    BY <1>1, <1>2, <2>2 DEF LoginInv, ChangesAlone, Login!Changing
  <2>4. HeldBetween'
    BY <1>1, <1>2, <2>2 DEF LoginInv, HeldBetween, Writing, Login!SessionIsHeld
  <2>5. AsksForCached' /\ RemovesTokens'
    BY <1>1, <1>2, <2>2 DEF LoginInv, AsksForCached, RemovesTokens
  <2>6. WritesAreTrue'
    BY <1>1, <1>2, <2>2 DEF LoginInv, WritesAreTrue, WritesEntry
  <2> QED
    BY <2>2, <2>3, <2>4, <2>5, <2>6 DEF LoginInv
<1>3. CASE /\ secrets["cache"].is = "whole" /\ Login!NeedsRefresh(secrets["cache"].of)
           /\ Login!Move(s, "ask", {}, secrets["cache"].of) /\ Login!Changes(s)
  <2>1. /\ last' \in last .. MaxIssued /\ grant' \in [1 .. MaxIssued -> 0 .. MaxIssued]
        /\ upset' \in BOOLEAN /\ deaths' \in 0 .. MaxDeaths /\ "ask" \in Login!Places
    BY <1>1, <1>3 DEF Login!LoginTypeOK, Login!Places, Login!Changes
  <2>2. secrets["cache"].of \in Login!Entries /\ secrets["cache"].of.login <= last'
    BY <1>1, <1>3, CacheHolds DEF LoginInv, LoginsWere
  <2>3. /\ LoginsWere' /\ place'[s] = "ask" /\ entry'[s] = secrets["cache"].of
        /\ \A t \in Shells \ {s} : place'[t] = place[t] /\ files'[t] = files[t] /\ entry'[t] = entry[t]
    BY <1>1, <1>3, <2>1, <2>2, QuietTypes
  <2>4. ~upset' => /\ ~upset /\ Login!SessionIsHeld
                   /\ \A t \in Shells \ {s} : ~Login!Changing(t) /\ ~Writing(t)
    BY <1>1, <1>3, BeginsAlone DEF Writing
  <2>5. ChangesAlone'
    BY <2>3, <2>4 DEF ChangesAlone, Login!Changing
  <2>6. HeldBetween'
    BY <1>1, <2>4 DEF HeldBetween, Login!SessionIsHeld
  <2>7. AsksForCached'
    BY <1>1, <1>3, <2>3, <2>4 DEF AsksForCached, Login!Changing, Login!NeedsRefresh
  <2>8. WritesAreTrue' /\ RemovesTokens'
    BY <2>3, <2>4 DEF WritesAreTrue, RemovesTokens, Writing
  <2> QED
    BY <2>3, <2>5, <2>6, <2>7, <2>8 DEF LoginInv
<1> QED
  BY <1>2, <1>3 DEF Login!ReadCache
\* A login begins with the browser, a logout with the files.
LEMMA BeginKeeps ==
  ASSUME LoginInv, NEW s \in Shells, Login!BeginLogin(s) \/ Login!BeginLogout(s)
  PROVE  LoginInv'
<1>1. /\ Login!LoginTypeOK /\ place[s] = "idle"
      /\ UNCHANGED <<last, grant, old, secrets, session, deaths>> /\ Login!Changes(s)
  BY DEF LoginInv, LoginsWere, Login!BeginLogin, Login!BeginLogout, Login!serverVars
<1>2. /\ last' \in last .. MaxIssued /\ grant' \in [1 .. MaxIssued -> 0 .. MaxIssued]
      /\ upset' \in BOOLEAN /\ deaths' \in 0 .. MaxDeaths
      /\ "sign_in" \in Login!Places /\ "remove" \in Login!Places /\ {} \in SUBSET Login!Names
      /\ Tokens \in SUBSET Login!Names
      /\ Tokens # {}
  BY <1>1 DEF Login!LoginTypeOK, Login!Places, Login!Changes, Tokens, Login!Names
<1>3. Login!Move(s, "sign_in", {}, Login!NoEntry) \/ Login!Move(s, "remove", Tokens, Login!NoEntry)
  BY DEF Login!BeginLogin, Login!BeginLogout, Tokens
<1>4. /\ LoginsWere'
      /\ place'[s] = "sign_in" \/ (place'[s] = "remove" /\ files'[s] = Tokens)
      /\ \A t \in Shells \ {s} : place'[t] = place[t] /\ files'[t] = files[t] /\ entry'[t] = entry[t]
  <2>1. CASE Login!Move(s, "sign_in", {}, Login!NoEntry)
    BY <1>1, <1>2, <2>1, QuietTypes
  <2>2. CASE Login!Move(s, "remove", Tokens, Login!NoEntry)
    BY <1>1, <1>2, <2>2, QuietTypes
  <2> QED
    BY <1>3, <2>1, <2>2
<1>5. ~upset' => /\ ~upset /\ Login!SessionIsHeld
                 /\ \A t \in Shells \ {s} : ~Login!Changing(t) /\ ~Writing(t)
  BY <1>1, BeginsAlone DEF Writing
<1>6. ChangesAlone'
  BY <1>4, <1>5 DEF ChangesAlone, Login!Changing
<1>7. HeldBetween'
  BY <1>1, <1>5 DEF HeldBetween, Login!SessionIsHeld
<1>8. AsksForCached' /\ WritesAreTrue'
  BY <1>4, <1>5 DEF AsksForCached, WritesAreTrue, Writing, Login!Changing
<1>9. RemovesTokens'
  BY <1>4, <1>5 DEF RemovesTokens, Writing
<1> QED
  BY <1>4, <1>6, <1>7, <1>8, <1>9 DEF LoginInv

\* Tokens have come, and a command that was alone is about to write them.
LEMMA OpensKeeps ==
  ASSUME LoginInv, NEW s \in Shells, Login!Changing(s), ~Writing(s), NEW e \in Login!Entries,
         Login!Move(s, "open", Login!FilesOf(e), e), UNCHANGED <<secrets, session, old, upset, deaths>>,
         last' \in last .. MaxIssued, e.login <= last',
         grant' \in [1 .. MaxIssued -> 0 .. MaxIssued], e.refresh = grant'[e.login],
         ~upset => (e.token # e.login => session = e.login)
  PROVE  LoginInv'
<1>1. Login!LoginTypeOK /\ upset' \in BOOLEAN /\ deaths' \in 0 .. MaxDeaths /\ "open" \in Login!Places
  BY DEF LoginInv, LoginsWere, Login!LoginTypeOK, Login!Places
<1>2. /\ Login!FilesOf(e) \in SUBSET Login!Names /\ "access" \in Login!FilesOf(e)
      /\ Login!FilesOf(e) # {}
  BY DEF Login!FilesOf, Login!Names
<1>3. /\ LoginsWere' /\ place'[s] = "open" /\ files'[s] = Login!FilesOf(e) /\ entry'[s] = e
      /\ \A t \in Shells \ {s} : place'[t] = place[t] /\ files'[t] = files[t] /\ entry'[t] = entry[t]
  BY <1>1, <1>2, QuietTypes
<1>4. ~upset => /\ \A t \in Shells \ {s} : ~Login!Changing(t) /\ ~Writing(t)
                /\ Login!SessionIsHeld
  <2>1. ~upset => \A t \in Shells \ {s} : ~Login!Changing(t)
    BY DEF LoginInv, ChangesAlone
  <2>2. ~upset => \A t \in Shells \ {s} : ~Writing(t)
    BY <2>1 DEF Login!Changing, Writing
  <2> QED
    BY <2>1, <2>2 DEF LoginInv, HeldBetween
<1>5. ChangesAlone'
  BY <1>3, <1>4 DEF ChangesAlone, Login!Changing
<1>6. HeldBetween'
  BY <1>3 DEF HeldBetween, Writing
<1>7. AsksForCached' /\ RemovesTokens'
  BY <1>3, <1>4 DEF AsksForCached, RemovesTokens, Writing, Login!Changing
<1>8. ~upset' => WritesEntry(s)'
  <2>1. e.login # 0
    BY EntryNumbers
  <2>2. ~upset /\ session # 0 =>
          secrets["cache"].is = "whole" /\ secrets["profile"] = Login!Whole(session)
    BY <1>4 DEF Login!SessionIsHeld
  <2> QED
    BY <1>3, <2>1, <2>2 DEF WritesEntry
<1>9. WritesAreTrue'
  BY <1>3, <1>4, <1>8 DEF WritesAreTrue, Writing
<1> QED
  BY <1>3, <1>5, <1>6, <1>7, <1>9 DEF LoginInv

\* The server answers a refresh, or its answer is lost.
LEMMA AskServerKeeps ==
  ASSUME LoginInv, NEW s \in Shells, Login!AskServer(s)
  PROVE  LoginInv'
<1>1. /\ Login!LoginTypeOK /\ last \in Nat /\ MaxIssued \in Nat /\ last < MaxIssued
      /\ last' = last + 1
      /\ place[s] = "ask" /\ UNCHANGED <<old, secrets, session, deaths>>
      /\ entry[s].refresh = grant[entry[s].login] /\ deaths' \in 0 .. MaxDeaths
      /\ last + 1 \in 1 .. MaxIssued /\ last' \in last .. MaxIssued
  BY LoginAssumption DEF LoginInv, LoginsWere, Login!LoginTypeOK, Login!AskServer
<1>2. /\ entry[s] \in Login!Entries /\ entry[s].login <= last /\ entry[s].login \in 1 .. MaxIssued
      /\ entry[s].refresh \in 0 .. MaxIssued
  BY <1>1, EntryNumbers DEF LoginInv, LoginsWere, CommandsHaveWork
<1>3. PICK rotated \in BOOLEAN, answered \in BOOLEAN :
        LET e == Login!Merged(entry[s], last + 1, rotated) IN
        /\ grant' = IF rotated THEN [grant EXCEPT ![e.login] = last + 1] ELSE grant
        /\ IF answered
           THEN Login!Move(s, "open", Login!FilesOf(e), e) /\ UNCHANGED upset
           ELSE Login!Stop(s) /\ upset' = (upset \/ rotated)
  BY DEF Login!AskServer
<1> DEFINE e == Login!Merged(entry[s], last + 1, rotated)
<1>4. /\ e \in Login!Entries /\ e.login = entry[s].login /\ e.token = last + 1
      /\ e.refresh = IF rotated THEN last + 1 ELSE entry[s].refresh
  BY <1>1, <1>2, EntryNumbers DEF Login!Merged
<1> HIDE DEF e
<1>5. /\ grant' = IF rotated THEN [grant EXCEPT ![e.login] = last + 1] ELSE grant
      /\ IF answered
         THEN Login!Move(s, "open", Login!FilesOf(e), e) /\ UNCHANGED upset
         ELSE Login!Stop(s) /\ upset' = (upset \/ rotated)
  BY <1>3 DEF e
<1>6. grant' \in [1 .. MaxIssued -> 0 .. MaxIssued] /\ e.refresh = grant'[e.login]
  BY <1>1, <1>2, <1>4, <1>5 DEF Login!LoginTypeOK
<1>7. CASE answered
  <2>1. Login!Changing(s) /\ ~Writing(s)
    BY <1>1 DEF Login!Changing, Writing
  <2>2. e.login <= last'
    BY <1>1, <1>2, <1>4
  <2>3. ~upset => session = e.login
    <3> SUFFICES ASSUME ~upset PROVE session = e.login
      OBVIOUS
    <3>1. secrets["cache"].is = "whole" /\ entry[s] = secrets["cache"].of
      BY <1>1 DEF LoginInv, AsksForCached
    <3>2. \A t \in Shells : Writing(t) => Login!Changing(t) /\ t # s
      BY <2>1 DEF Writing, Login!Changing
    <3>3. Login!SessionIsHeld
      BY <2>1, <3>2 DEF LoginInv, HeldBetween, ChangesAlone
    <3>4. secrets["cache"] # Login!Absent
      BY <3>1, FileKinds
    <3> QED
      BY <1>4, <3>1, <3>3, <3>4 DEF Login!SessionIsHeld, Login!Names
  <2> QED
    BY <1>1, <1>4, <1>5, <1>6, <1>7, <2>1, <2>2, <2>3, OpensKeeps
<1>8. CASE ~answered
  <2>1. upset' \in BOOLEAN /\ (upset => upset') /\ (~upset' => grant' = grant) /\ ~Writing(s)
    BY <1>1, <1>5, <1>8 DEF Writing, Login!LoginTypeOK
  <2> QED
    BY <1>1, <1>5, <1>6, <1>8, <2>1, StopKeeps
<1> QED
  BY <1>7, <1>8

\* A login has its tokens.
LEMMA SignInKeeps ==
  ASSUME LoginInv, NEW s \in Shells, Login!SignIn(s)
  PROVE  LoginInv'
<1>1. /\ Login!LoginTypeOK /\ last \in Nat /\ MaxIssued \in Nat /\ last < MaxIssued
      /\ last' = last + 1
      /\ place[s] = "sign_in" /\ UNCHANGED <<old, secrets, session, upset, deaths>>
      /\ last + 1 \in 1 .. MaxIssued /\ last' \in last .. MaxIssued
  BY LoginAssumption DEF LoginInv, LoginsWere, Login!LoginTypeOK, Login!SignIn
<1>2. PICK given \in {0, last + 1} :
        LET e == [login |-> last + 1, token |-> last + 1, refresh |-> given] IN
        grant' = [grant EXCEPT ![last + 1] = given] /\ Login!Move(s, "open", Login!FilesOf(e), e)
  BY DEF Login!SignIn
<1> DEFINE e == [login |-> last + 1, token |-> last + 1, refresh |-> given]
<1>3. e \in Login!Entries /\ e.login = last + 1 /\ e.token = last + 1 /\ e.refresh = given
  BY <1>1, EntryNumbers
<1> HIDE DEF e
<1>4. grant' = [grant EXCEPT ![last + 1] = given] /\ Login!Move(s, "open", Login!FilesOf(e), e)
  BY <1>2 DEF e
<1>5. /\ grant' \in [1 .. MaxIssued -> 0 .. MaxIssued] /\ e.refresh = grant'[e.login]
      /\ e.login <= last' /\ Login!Changing(s) /\ ~Writing(s)
  BY <1>1, <1>3, <1>4 DEF Login!LoginTypeOK, Login!Changing, Writing
<1> QED
  BY <1>1, <1>3, <1>4, <1>5, OpensKeeps

\* A command comes to an end early.
LEMMA EndsEarlyKeep ==
  ASSUME LoginInv, NEW s \in Shells,
         \/ Login!ReadAccess(s) \/ Login!AskFails(s) \/ Login!SignInFails(s)
         \/ Login!RemoveFails(s) \/ Login!Die(s)
  PROVE  LoginInv'
<1>1. Login!LoginTypeOK /\ Login!Stop(s) /\ UNCHANGED <<secrets, session, old, last, grant>>
  BY DEF LoginInv, LoginsWere, Login!ReadAccess, Login!AskFails, Login!SignInFails,
     Login!RemoveFails, Login!Die, Login!serverVars
<1>2. last' \in last .. MaxIssued /\ grant' \in [1 .. MaxIssued -> 0 .. MaxIssued]
  BY <1>1 DEF Login!LoginTypeOK
<1>3. upset' \in BOOLEAN /\ (upset \/ Writing(s) => upset')
  BY <1>1 DEF Login!LoginTypeOK, Login!ReadAccess, Login!AskFails, Login!SignInFails,
     Login!RemoveFails, Login!Die, Writing
<1>4. deaths' \in 0 .. MaxDeaths
  BY <1>1, LoginAssumption DEF Login!LoginTypeOK, Login!ReadAccess, Login!AskFails,
     Login!SignInFails, Login!RemoveFails, Login!Die
<1> QED
  BY <1>1, <1>2, <1>3, <1>4, StopKeeps

\* Time passes, or nothing happens.
LEMMA ExpireKeeps ==
  ASSUME LoginInv, Login!Expire \/ UNCHANGED Login!loginVars
  PROVE  LoginInv'
<1>1. UNCHANGED <<last, grant, secrets, place, files, entry, session, upset, deaths>>
  BY DEF Login!Expire, Login!loginVars, Login!serverVars, Login!shellVars
<1>2. old' \in 0 .. last
  BY LoginAssumption DEF LoginInv, LoginsWere, Login!LoginTypeOK, Login!Expire, Login!loginVars,
     Login!serverVars
<1>3. LoginsWere'
  BY <1>1, <1>2 DEF LoginInv, LoginsWere, Login!LoginTypeOK, Login!Contents, Login!Part,
     CommandsHaveWork, Writing
<1>4. ChangesAlone' /\ AsksForCached' /\ RemovesTokens'
  BY <1>1 DEF LoginInv, ChangesAlone, Login!Changing, AsksForCached, RemovesTokens
<1>5. HeldBetween' /\ WritesAreTrue'
  BY <1>1 DEF LoginInv, HeldBetween, Writing, Login!SessionIsHeld, WritesAreTrue, WritesEntry
<1> QED
  BY <1>3, <1>4, <1>5 DEF LoginInv
-----------------------------------------------------------------------------
(* Steps on the files. *)

\* Such a step keeps types and logins, when what it makes of the file is of its type.
LEMMA FileTypes ==
  ASSUME LoginInv, NEW s \in Shells, NEW to \in Login!Places, NEW names \in SUBSET Login!Names,
         NEW e \in Login!Entries \cup {Login!NoEntry}, Login!Move(s, to, names, e),
         secrets' = [m \in Login!Names |-> secrets'[m]],
         \A m \in Login!Names : secrets'[m] \in Login!Contents(m),
         secrets'["cache"].is = "whole" => secrets'["cache"].of.login <= last,
         UNCHANGED <<last, grant, old, upset, deaths>>, session' \in 0 .. MaxIssued, session' <= last,
         to \in {"ask", "open", "write"} => e \in Login!Entries /\ e.login <= last,
         to \in {"open", "write", "remove"} => names # {}
  PROVE  /\ LoginsWere'
         /\ place'[s] = to /\ files'[s] = names /\ entry'[s] = e
         /\ \A t \in Shells \ {s} : place'[t] = place[t] /\ files'[t] = files[t] /\ entry'[t] = entry[t]
<1>1. Login!LoginTypeOK
  BY DEF LoginInv, LoginsWere
<1>2. /\ place' \in [Shells -> Login!Places] /\ files' \in [Shells -> SUBSET Login!Names]
      /\ entry' \in [Shells -> Login!Entries \cup {Login!NoEntry}]
      /\ place'[s] = to /\ files'[s] = names /\ entry'[s] = e
      /\ \A t \in Shells \ {s} : place'[t] = place[t] /\ files'[t] = files[t] /\ entry'[t] = entry[t]
  BY <1>1, Moves
<1>3. Login!LoginTypeOK'
  <2>1. (\A m \in Login!Names : secrets[m] \in Login!Contents(m))'
    BY DEF Login!Contents, Login!Part
  <2> QED
    BY <1>1, <1>2, <2>1 DEF Login!LoginTypeOK
<1>4. CommandsHaveWork'
  BY <1>2 DEF LoginInv, LoginsWere, CommandsHaveWork, Writing
<1> QED
  BY <1>2, <1>3, <1>4 DEF LoginsWere

\* A file is given contents of its type, and the others keep theirs.
LEMMA FileIsSet ==
  ASSUME LoginInv, NEW n \in Login!Names, NEW v \in Login!Contents(n),
         secrets' = [secrets EXCEPT ![n] = v],
         n = "cache" => v.is # "whole" \/ v.of.login <= last
  PROVE  /\ secrets' = [m \in Login!Names |-> secrets'[m]]
         /\ \A m \in Login!Names : secrets'[m] \in Login!Contents(m)
         /\ secrets'["cache"].is = "whole" => secrets'["cache"].of.login <= last
         /\ secrets'[n] = v /\ \A m \in Login!Names \ {n} : secrets'[m] = secrets[m]
<1>1. /\ secrets = [m \in Login!Names |-> secrets[m]]
      /\ \A m \in Login!Names : secrets[m] \in Login!Contents(m)
  BY DEF LoginInv, LoginsWere, Login!LoginTypeOK
<1>2. /\ secrets' = [m \in Login!Names |-> secrets'[m]]
      /\ secrets'[n] = v /\ \A m \in Login!Names \ {n} : secrets'[m] = secrets[m]
  BY <1>1
<1>3. \A m \in Login!Names : secrets'[m] \in Login!Contents(m)
  BY <1>1, <1>2
<1>4. secrets'["cache"].is = "whole" => secrets'["cache"].of.login <= last
  BY <1>2 DEF LoginInv, LoginsWere, Login!Names
<1> QED
  BY <1>2, <1>3, <1>4

\* Who is at the files is alone with them, unless two have met.
LEMMA WritesAlone ==
  ASSUME LoginInv, NEW s \in Shells, Writing(s), ~upset
  PROVE  \A t \in Shells \ {s} : ~Login!Changing(t) /\ ~Writing(t) /\ place[t] # "ask"
<1>1. Login!Changing(s)
  BY DEF Writing, Login!Changing
<1>2. \A t \in Shells \ {s} : ~Login!Changing(t)
  BY <1>1 DEF LoginInv, ChangesAlone
<1> QED
  BY <1>2 DEF Login!Changing, Writing

\* A file is truncated.
LEMMA OpenFileKeeps ==
  ASSUME LoginInv, NEW s \in Shells, Login!OpenFile(s)
  PROVE  LoginInv'
<1> DEFINE n == Login!First(files[s])
<1>1. /\ Login!LoginTypeOK /\ place[s] = "open" /\ Writing(s)
      /\ Login!Move(s, "write", files[s], entry[s])
      /\ secrets' = [secrets EXCEPT ![n] = Login!Empty]
      /\ UNCHANGED <<last, grant, old, session, upset, deaths>>
      /\ files[s] \in SUBSET Login!Names /\ files[s] # {} /\ entry[s] \in Login!Entries
      /\ entry[s].login <= last
  BY DEF LoginInv, LoginsWere, Login!LoginTypeOK, CommandsHaveWork, Writing, Login!OpenFile,
     Login!serverVars
<1>2. n \in files[s] /\ n \in Login!Names /\ ("access" \in files[s] => n = "access")
  BY <1>1, FirstIsOne
<1>3. /\ Login!Empty \in Login!Contents(n) /\ Login!Empty.is # "whole" /\ "write" \in Login!Places
      /\ session' \in 0 .. MaxIssued /\ session' <= last
  BY <1>1, FileKinds DEF Login!Contents, Login!Places, LoginInv, LoginsWere, Login!LoginTypeOK
<1> HIDE DEF n
<1>4. /\ LoginsWere' /\ place'[s] = "write" /\ files'[s] = files[s] /\ entry'[s] = entry[s]
      /\ \A t \in Shells \ {s} : place'[t] = place[t] /\ files'[t] = files[t] /\ entry'[t] = entry[t]
      /\ secrets'[n] = Login!Empty /\ \A m \in Login!Names \ {n} : secrets'[m] = secrets[m]
  <2>1. /\ secrets' = [m \in Login!Names |-> secrets'[m]]
        /\ \A m \in Login!Names : secrets'[m] \in Login!Contents(m)
        /\ secrets'["cache"].is = "whole" => secrets'["cache"].of.login <= last
        /\ secrets'[n] = Login!Empty /\ \A m \in Login!Names \ {n} : secrets'[m] = secrets[m]
    BY <1>1, <1>2, <1>3, FileIsSet
  <2>2. /\ Login!Move(s, "write", files[s], entry[s]) /\ UNCHANGED <<last, grant, old, upset, deaths>>
        /\ files[s] \in SUBSET Login!Names /\ files[s] # {} /\ entry[s] \in Login!Entries
        /\ entry[s].login <= last
    BY <1>1
  <2> QED
    BY <1>3, <2>1, <2>2, FileTypes
<1>5. ~upset => \A t \in Shells \ {s} : ~Login!Changing(t) /\ ~Writing(t) /\ place[t] # "ask"
  BY <1>1, WritesAlone
<1>6. ChangesAlone' /\ AsksForCached' /\ RemovesTokens' /\ HeldBetween'
  BY <1>1, <1>4, <1>5 DEF ChangesAlone, Login!Changing, AsksForCached, RemovesTokens, HeldBetween,
     Writing
<1>7. ASSUME ~upset' PROVE WritesEntry(s)'
  <2>1. WritesEntry(s) /\ ~upset
    BY <1>1, <1>7 DEF LoginInv, WritesAreTrue
  <2>2. files[s] \subseteq Login!FilesOf(entry[s]) /\ Login!FilesOf(entry[s]) \subseteq Login!Names
    BY <2>1 DEF WritesEntry, Login!FilesOf
  <2>3. \A name \in Login!FilesOf(entry[s]) \ files[s] :
          secrets'[name] = Login!Whole(Login!Part(name, entry[s]))
    BY <1>2, <1>4, <2>1, <2>2 DEF WritesEntry
  <2>4. entry[s].token # entry[s].login =>
          session = entry[s].login /\ secrets'["profile"] = Login!Whole(session)
    <3>1. entry[s].token # entry[s].login => "profile" \notin Login!FilesOf(entry[s])
      BY DEF Login!FilesOf
    <3> QED
      BY <1>2, <1>4, <2>1, <2>2, <3>1 DEF WritesEntry, Login!Names
  <2>5. secrets'[Login!First(files[s])] = Login!Empty
    BY <1>4 DEF n
  <2>6. session # 0 /\ "access" \in files[s] => secrets'["cache"].is = "whole"
    BY <1>2, <1>4, <2>1 DEF WritesEntry, Login!Names
  <2>7. entry[s].refresh = grant[entry[s].login]
    BY <2>1 DEF WritesEntry
  <2> QED
    BY <1>1, <1>4, <2>2, <2>3, <2>4, <2>5, <2>6, <2>7 DEF WritesEntry
<1>8. WritesAreTrue'
  BY <1>1, <1>4, <1>5, <1>7 DEF WritesAreTrue, Writing
<1> QED
  BY <1>4, <1>6, <1>8 DEF LoginInv

\* A file is written; with the last one the session is the entry's.
LEMMA WriteFileKeeps ==
  ASSUME LoginInv, NEW s \in Shells, Login!WriteFile(s)
  PROVE  LoginInv'
<1> DEFINE n == Login!First(files[s])
           e == entry[s]
           whole == Login!Whole(Login!Part(n, e))
<1>1. /\ Login!LoginTypeOK /\ place[s] = "write" /\ Writing(s)
      /\ UNCHANGED <<last, grant, old, upset, deaths>>
      /\ files[s] \in SUBSET Login!Names /\ files[s] # {} /\ e \in Login!Entries /\ e.login <= last
  BY DEF LoginInv, LoginsWere, Login!LoginTypeOK, CommandsHaveWork, Writing, Login!WriteFile,
     Login!serverVars
<1>2. n \in files[s] /\ n \in Login!Names /\ ("access" \in files[s] => n = "access")
  BY <1>1, FirstIsOne
<1>3. PICK put \in IF secrets[n] = Login!Empty THEN {whole} ELSE {whole, Login!Garbled} :
        secrets' = [secrets EXCEPT ![n] = put]
  BY DEF Login!WriteFile
<1>4. /\ put \in Login!Contents(n)
      /\ n = "cache" => put.is # "whole" \/ put.of.login <= last
      /\ "idle" \in Login!Places /\ "open" \in Login!Places /\ {} \in SUBSET Login!Names
      /\ files[s] \ {n} \in SUBSET Login!Names
      /\ e.login \in 0 .. MaxIssued /\ e.login # 0 /\ session \in 0 .. MaxIssued /\ session <= last
  <2>1. whole \in Login!Contents(n) /\ Login!Garbled \in Login!Contents(n)
    BY <1>1 DEF Login!Contents
  <2>2. n = "cache" => whole.of = e
    BY FileKinds, Parts
  <2>3. Login!Garbled.is # "whole"
    BY FileKinds
  <2>4. e.login \in 0 .. MaxIssued /\ e.login # 0
    BY <1>1, EntryNumbers
  <2>5. put = whole \/ put = Login!Garbled
    BY <1>3
  <2> HIDE DEF whole, n, e
  <2> QED
    BY <1>1, <2>1, <2>2, <2>3, <2>4, <2>5 DEF LoginInv, LoginsWere, Login!LoginTypeOK, Login!Places
<1>5. \/ files[s] = {n} /\ Login!Move(s, "idle", {}, Login!NoEntry) /\ session' = e.login
      \/ files[s] # {n} /\ Login!Move(s, "open", files[s] \ {n}, e) /\ session' = session
  BY DEF Login!WriteFile, Login!Stop
<1>6. ~upset => \A t \in Shells \ {s} : ~Login!Changing(t) /\ ~Writing(t) /\ place[t] # "ask"
  BY <1>1, WritesAlone
<1>7. ASSUME ~upset
      PROVE  /\ put = whole /\ files[s] \subseteq Login!FilesOf(e)
             /\ Login!FilesOf(e) \subseteq Login!Names
             /\ e.refresh = grant[e.login]
             /\ \A name \in Login!FilesOf(e) \ files[s] : secrets[name] = Login!Whole(Login!Part(name, e))
             /\ e.token # e.login => /\ session = e.login /\ secrets["profile"] = Login!Whole(e.login)
                                     /\ "profile" \notin Login!FilesOf(e)
  <2>1. WritesEntry(s)
    BY <1>1, <1>7 DEF LoginInv, WritesAreTrue
  <2> QED
    BY <1>1, <1>3, <2>1 DEF WritesEntry, Login!FilesOf
<1> HIDE DEF n, e, whole
<1>8. ASSUME NEW m \in Login!Names, ~upset, secrets'[n] = put,
             \A k \in Login!Names \ {n} : secrets'[k] = secrets[k],
             m \in Login!FilesOf(e), m \notin files[s] \ {n}
      PROVE  secrets'[m] = Login!Whole(Login!Part(m, e))
  BY <1>7, <1>8 DEF whole
<1>set. /\ secrets' = [m \in Login!Names |-> secrets'[m]]
        /\ \A m \in Login!Names : secrets'[m] \in Login!Contents(m)
        /\ secrets'["cache"].is = "whole" => secrets'["cache"].of.login <= last
        /\ secrets'[n] = put /\ \A m \in Login!Names \ {n} : secrets'[m] = secrets[m]
  BY <1>2, <1>3, <1>4, FileIsSet
<1>9. CASE files[s] = {n} /\ Login!Move(s, "idle", {}, Login!NoEntry) /\ session' = e.login
  <2>1. /\ LoginsWere' /\ place'[s] = "idle"
        /\ \A t \in Shells \ {s} : place'[t] = place[t] /\ files'[t] = files[t] /\ entry'[t] = entry[t]
        /\ secrets'[n] = put /\ \A m \in Login!Names \ {n} : secrets'[m] = secrets[m]
    BY <1>1, <1>4, <1>set, <1>9, FileTypes
  <2>2. ChangesAlone' /\ AsksForCached' /\ RemovesTokens' /\ WritesAreTrue'
    BY <1>1, <1>6, <2>1 DEF ChangesAlone, Login!Changing, AsksForCached, RemovesTokens,
       WritesAreTrue, Writing
  <2>3. ASSUME ~upset PROVE Login!SessionIsHeld'
    <3>1. \A m \in Login!FilesOf(e) : secrets'[m] = Login!Whole(Login!Part(m, e))
      BY <1>7, <1>8, <1>9, <2>1, <2>3
    <3>2. /\ "access" \in Login!FilesOf(e) /\ "cache" \in Login!FilesOf(e)
          /\ e.refresh # 0 => "refresh" \in Login!FilesOf(e)
          /\ e.token = e.login => "profile" \in Login!FilesOf(e)
      BY DEF Login!FilesOf, Login!Names
    <3>3. secrets'["access"] = Login!Whole(e.token) /\ secrets'["cache"] = Login!Whole(e)
      BY <3>1, <3>2, Parts
    <3>4. e.refresh # 0 => secrets'["refresh"] = Login!Whole(e.refresh)
      BY <3>1, <3>2, Parts
    <3>5. secrets'["profile"] = Login!Whole(e.login)
      <4>1. CASE e.token = e.login
        BY <3>1, <3>2, <4>1, Parts
      <4>2. CASE e.token # e.login
        BY <1>2, <1>7, <2>1, <2>3, <4>2 DEF Login!Names
      <4> QED
        BY <4>1, <4>2
    <3>6. secrets'["cache"].is = "whole" /\ secrets'["cache"].of = e
      BY <3>3, FileKinds
    <3> QED
      BY <1>1, <1>4, <1>7, <1>9, <2>3, <3>3, <3>4, <3>5, <3>6 DEF Login!SessionIsHeld
  <2>4. HeldBetween'
    BY <1>1, <2>3 DEF HeldBetween
  <2> QED
    BY <2>1, <2>2, <2>4 DEF LoginInv
<1>10. CASE files[s] # {n} /\ Login!Move(s, "open", files[s] \ {n}, e) /\ session' = session
  <2>1. files[s] \ {n} # {}
    BY <1>2, <1>10
  <2>2. /\ LoginsWere' /\ place'[s] = "open" /\ files'[s] = files[s] \ {n} /\ entry'[s] = e
        /\ \A t \in Shells \ {s} : place'[t] = place[t] /\ files'[t] = files[t] /\ entry'[t] = entry[t]
        /\ secrets'[n] = put /\ \A m \in Login!Names \ {n} : secrets'[m] = secrets[m]
    BY <1>1, <1>4, <1>set, <1>10, <2>1, FileTypes
  <2>3. ChangesAlone' /\ AsksForCached' /\ RemovesTokens' /\ HeldBetween'
    BY <1>1, <1>6, <2>2 DEF ChangesAlone, Login!Changing, AsksForCached, RemovesTokens, HeldBetween,
       Writing
  <2>4. ASSUME ~upset PROVE WritesEntry(s)'
    <3>1. \A m \in Login!FilesOf(e) \ (files[s] \ {n}) : secrets'[m] = Login!Whole(Login!Part(m, e))
      BY <1>7, <1>8, <2>2, <2>4
    <3>2. "access" \notin files[s] \ {n}
      BY <1>2
    <3>3. e.token # e.login => session' = e.login /\ secrets'["profile"] = Login!Whole(e.login)
      BY <1>2, <1>7, <1>10, <2>2, <2>4 DEF Login!Names
    <3> QED
      BY <1>1, <1>7, <2>2, <2>4, <3>1, <3>2, <3>3 DEF WritesEntry
  <2>5. WritesAreTrue'
    BY <1>1, <1>6, <2>2, <2>4 DEF WritesAreTrue, Writing
  <2> QED
    BY <2>2, <2>3, <2>5 DEF LoginInv
<1> QED
  BY <1>5, <1>9, <1>10

\* A file is removed; with the last one there is no session.
LEMMA RemoveKeeps ==
  ASSUME LoginInv, NEW s \in Shells, Login!Remove(s)
  PROVE  LoginInv'
<1> DEFINE n == Login!First(files[s])
<1>1. /\ Login!LoginTypeOK /\ place[s] = "remove" /\ Writing(s)
      /\ secrets' = [secrets EXCEPT ![n] = Login!Absent]
      /\ UNCHANGED <<last, grant, old, upset, deaths>>
      /\ files[s] \in SUBSET Login!Names /\ files[s] # {}
  BY DEF LoginInv, LoginsWere, Login!LoginTypeOK, CommandsHaveWork, Writing, Login!Remove,
     Login!serverVars
<1>2. n \in files[s] /\ n \in Login!Names
  BY <1>1, FirstIsOne
<1>3. /\ Login!Absent \in Login!Contents(n) /\ Login!Absent.is # "whole"
      /\ "idle" \in Login!Places /\ "remove" \in Login!Places
      /\ session \in 0 .. MaxIssued /\ session <= last /\ 0 \in 0 .. MaxIssued /\ 0 <= last
      /\ {} \in SUBSET Login!Names /\ files[s] \ {n} \in SUBSET Login!Names
  BY <1>1, FileKinds, LoginAssumption DEF Login!Contents, Login!Places, LoginInv, LoginsWere,
     Login!LoginTypeOK
<1>4. \/ files[s] = {n} /\ Login!Move(s, "idle", {}, Login!NoEntry) /\ session' = 0
      \/ files[s] # {n} /\ Login!Move(s, "remove", files[s] \ {n}, Login!NoEntry) /\ session' = session
  BY DEF Login!Remove, Login!Stop
<1>5. ~upset => \A t \in Shells \ {s} : ~Login!Changing(t) /\ ~Writing(t) /\ place[t] # "ask"
  BY <1>1, WritesAlone
<1>6. ~upset => files[s] \subseteq Tokens /\ \A name \in Tokens \ files[s] : secrets[name] = Login!Absent
  BY <1>1 DEF LoginInv, RemovesTokens
<1> HIDE DEF n
<1>set. /\ secrets' = [m \in Login!Names |-> secrets'[m]]
        /\ \A m \in Login!Names : secrets'[m] \in Login!Contents(m)
        /\ secrets'["cache"].is = "whole" => secrets'["cache"].of.login <= last
        /\ secrets'[n] = Login!Absent /\ \A m \in Login!Names \ {n} : secrets'[m] = secrets[m]
  BY <1>1, <1>2, <1>3, FileIsSet
<1>7. CASE files[s] = {n} /\ Login!Move(s, "idle", {}, Login!NoEntry) /\ session' = 0
  <2>1. /\ LoginsWere' /\ place'[s] = "idle"
        /\ \A t \in Shells \ {s} : place'[t] = place[t] /\ files'[t] = files[t] /\ entry'[t] = entry[t]
        /\ secrets'[n] = Login!Absent /\ \A m \in Login!Names \ {n} : secrets'[m] = secrets[m]
    BY <1>1, <1>3, <1>set, <1>7, FileTypes
  <2>2. ChangesAlone' /\ AsksForCached' /\ RemovesTokens' /\ WritesAreTrue'
    BY <1>1, <1>5, <2>1 DEF ChangesAlone, Login!Changing, AsksForCached, RemovesTokens,
       WritesAreTrue, Writing
  <2>3. ~upset => Login!SessionIsHeld'
    BY <1>6, <1>7, <2>1 DEF Login!SessionIsHeld, Login!Names, Tokens
  <2>4. HeldBetween'
    BY <1>1, <2>3 DEF HeldBetween
  <2> QED
    BY <2>1, <2>2, <2>4 DEF LoginInv
<1>8. CASE files[s] # {n} /\ Login!Move(s, "remove", files[s] \ {n}, Login!NoEntry) /\ session' = session
  <2>1. files[s] \ {n} # {}
    BY <1>2, <1>8
  <2>2. /\ LoginsWere' /\ place'[s] = "remove" /\ files'[s] = files[s] \ {n}
        /\ \A t \in Shells \ {s} : place'[t] = place[t] /\ files'[t] = files[t] /\ entry'[t] = entry[t]
        /\ secrets'[n] = Login!Absent /\ \A m \in Login!Names \ {n} : secrets'[m] = secrets[m]
    <3>1. /\ UNCHANGED <<last, grant, old, upset, deaths>>
          /\ Login!NoEntry \in Login!Entries \cup {Login!NoEntry}
      BY <1>1
    <3>2. /\ Login!Move(s, "remove", files[s] \ {n}, Login!NoEntry)
          /\ files[s] \ {n} \in SUBSET Login!Names
          /\ session' \in 0 .. MaxIssued /\ session' <= last /\ "remove" \in Login!Places
          /\ "remove" \notin {"ask", "open", "write"}
      BY <1>3, <1>8
    <3> QED
      BY <1>set, <2>1, <3>1, <3>2, FileTypes
  <2>3. ChangesAlone' /\ AsksForCached' /\ HeldBetween' /\ WritesAreTrue'
    BY <1>1, <1>5, <2>2 DEF ChangesAlone, Login!Changing, AsksForCached, HeldBetween, WritesAreTrue,
       Writing
  <2>4. RemovesTokens'
    BY <1>1, <1>5, <1>6, <2>2 DEF RemovesTokens, Writing, Tokens, Login!Names
  <2> QED
    BY <2>2, <2>3, <2>4 DEF LoginInv
<1> QED
  BY <1>4, <1>7, <1>8

-----------------------------------------------------------------------------
(* The login as a whole. *)

\* There is no login at first.
LEMMA LoginBegins == Login!Init => LoginInv
<1> SUFFICES ASSUME Login!Init PROVE LoginInv
  OBVIOUS
<1>1. Login!LoginTypeOK
  <2>1. /\ secrets = [name \in Login!Names |-> secrets[name]]
        /\ \A name \in Login!Names : secrets[name] \in Login!Contents(name)
    BY DEF Login!Init, Login!Contents
  <2>2. /\ last \in 0 .. MaxIssued /\ old \in 0 .. last /\ session \in 0 .. MaxIssued
        /\ grant \in [1 .. MaxIssued -> 0 .. MaxIssued] /\ deaths \in 0 .. MaxDeaths
    BY LoginAssumption DEF Login!Init
  <2> QED
    BY <2>1, <2>2 DEF Login!Init, Login!LoginTypeOK, Login!Places
<1>2. \A name \in Login!Names : secrets[name] = Login!Absent
  BY DEF Login!Init
<1>3. secrets["cache"].is # "whole"
  BY <1>2, FileKinds DEF Login!Names
<1>4. LoginsWere
  BY <1>1, <1>3 DEF Login!Init, LoginsWere, CommandsHaveWork, Writing
<1>5. Login!SessionIsHeld
  BY <1>2 DEF Login!Init, Login!SessionIsHeld
<1> QED
  BY <1>4, <1>5 DEF Login!Init, LoginInv, ChangesAlone, Login!Changing, HeldBetween, AsksForCached,
     WritesAreTrue,
     RemovesTokens

\* Every step of a command, and the passing of time, keeps the invariant.
LEMMA LoginStep == LoginInv /\ [Login!Next]_Login!loginVars => LoginInv'
<1> SUFFICES ASSUME LoginInv, [Login!Next]_Login!loginVars PROVE LoginInv'
  OBVIOUS
<1>1. CASE Login!Expire \/ UNCHANGED Login!loginVars
  BY <1>1, ExpireKeeps
<1>2. ASSUME NEW s \in Shells,
             \/ Login!ReadCache(s) \/ Login!ReadAccess(s) \/ Login!AskServer(s) \/ Login!AskFails(s)
             \/ Login!BeginLogin(s) \/ Login!SignIn(s) \/ Login!SignInFails(s) \/ Login!OpenFile(s)
             \/ Login!WriteFile(s)
             \/ Login!BeginLogout(s) \/ Login!Remove(s) \/ Login!RemoveFails(s) \/ Login!Die(s)
      PROVE  LoginInv'
  BY <1>2, ReadCacheKeeps, EndsEarlyKeep, AskServerKeeps, BeginKeeps, SignInKeeps, OpenFileKeeps,
     WriteFileKeeps, RemoveKeeps
<1> QED
  BY <1>1, <1>2 DEF Login!Next

\* The invariant keeps the login, between commands and while one is at the files.
LEMMA InvKeepsLogin == LoginInv => Login!LoginIsKept
<1> SUFFICES ASSUME LoginInv PROVE Login!LoginIsKept
  OBVIOUS
<1>1. Login!FilesHoldTheSession
  BY DEF Login!FilesHoldTheSession, Login!Quiet, LoginInv, HeldBetween, Writing
<1>2. Login!ATokenIsThere
  <2> SUFFICES ASSUME session # 0, ~upset, \A s \in Shells : place[s] # "remove"
               PROVE  secrets["cache"].is = "whole" \/ secrets["access"].is = "whole"
    BY DEF Login!ATokenIsThere
  <2>1. CASE \A s \in Shells : ~Writing(s)
    BY <2>1 DEF LoginInv, HeldBetween, Login!SessionIsHeld
  <2>2. ASSUME NEW s \in Shells, Writing(s)
        PROVE  secrets["cache"].is = "whole" \/ secrets["access"].is = "whole"
    <3>1. WritesEntry(s)
      BY <2>2 DEF LoginInv, WritesAreTrue, Writing
    <3>2. "access" \in Login!FilesOf(entry[s])
      BY DEF Login!FilesOf, Login!Names
    <3> QED
      BY <3>1, <3>2, FileKinds DEF WritesEntry
  <2> QED
    BY <2>1, <2>2
<1> QED
  BY <1>1, <1>2 DEF Login!LoginIsKept

\* The files, the server's grants and the commands keep their types, whatever the number of
\* shells and tokens (cloud_login.rs).
THEOREM LoginTypeCorrect == Login!Spec => []Login!LoginTypeOK
<1>1. LoginInv => Login!LoginTypeOK
  BY DEF LoginInv, LoginsWere
<1> QED
  BY <1>1, LoginBegins, LoginStep, PTL DEF Login!Spec

\* A login lasts until the logout, whatever the number of shells, tokens and killed commands:
\* the files hold it between commands, with a refresh token the server accepts, and a token
\* can be had while they are written (shared_cloud_user_token, refresh_cloud_token_cache,
\* write_cloud_token_cache, run_logout).
THEOREM LoginLasts == Login!Spec => []LoginIsKept
  BY LoginBegins, LoginStep, InvKeepsLogin, PTL DEF Login!Spec, LoginIsKept

-----------------------------------------------------------------------------
(* The package. *)

\* Where a command is: at its build, at its publication, at a check, at a run.
Unsealed == {"idle", "author", "tasks", "hash", "copy", "seal"}
Publishing == {"look", "aside", "place", "rollback"}
Checking == {"digest", "verify", "report"}
Loading == {"load", "verify_again"}
Copying == {"copy_blobs", "copy_files", "copy_lock"}
Holding == Copying \cup {"started"}
Running == Loading \cup Holding

Dirs == Commands \cup {Package!Present}

\* Every directory and every command has its fields.
PackageShape ==
  /\ DOMAIN dirs = Dirs /\ out \in Dirs \cup {Package!Nothing}
  /\ DOMAIN aside = Commands /\ \A c \in Commands : aside[c] \in Dirs \cup {Package!Nothing}
  /\ \A d \in Dirs :
       /\ DOMAIN dirs[d] = DOMAIN Package!EmptyDir /\ DOMAIN dirs[d].files = DOMAIN Package!NoFiles
  /\ DOMAIN todo = Commands /\ DOMAIN step = Commands /\ DOMAIN mine = Commands
  /\ \A c \in Commands : DOMAIN mine[c] = DOMAIN Package!Fresh
    /\ DOMAIN mine[c].run = DOMAIN Package!NoRun

\* What a command has still to do begins with what it is at, and nothing is built or published
\* after that.
PlanIsOfItsStage(c) ==
  /\ step[c] \in Unsealed \ {"idle"} =>
       todo[c] \in {<<"build", "publish", "check">>, <<"build", "publish", "register">>,
                    <<"build", "publish", "check", "run", "mark">>}
  /\ step[c] \in Publishing =>
       todo[c] \in {<<"publish", "check">>, <<"publish", "register">>,
                    <<"publish", "check", "run", "mark">>}
  /\ step[c] \in Checking => todo[c] \in {<<"check">>, <<"check", "run", "mark">>}
  /\ step[c] \in Running => todo[c] \in {<<"run">>, <<"run", "mark">>, <<"run", "mark", "run">>}
  /\ step[c] = "mark" => todo[c] \in {<<"mark">>, <<"mark", "run">>}

\* The directory of a command is nowhere before it has put it at the path, and a directory is
\* at one place only.
PathIsApart ==
  /\ \A c \in Commands : step[c] \in Unsealed \cup Publishing =>
       out # c /\ \A e \in Commands : aside[e] # c
  /\ \A c \in Commands : aside[c] # Package!Nothing => aside[c] # out
  /\ \A c, e \in Commands : aside[c] # Package!Nothing /\ aside[c] = aside[e] => c = e

\* A report that has passed is of tasks that are not flawed; there is none before the seal.
ReportsHold ==
  /\ \A d \in Dirs : dirs[d].checks.passed = TRUE => dirs[d].files.tasks \notin Flawed
  /\ \A c \in Commands : step[c] \in Unsealed => dirs[c].checks.passed # TRUE

\* What a run holds was verified, and what it has copied is what it holds.
HeldIsSound(held) ==
  /\ DOMAIN held.files = DOMAIN Package!NoFiles
  /\ held.blobs[held.files.asset] = held.files.asset /\ held.files.tasks \notin Flawed

RunIsSound(c) ==
  /\ step[c] \in Holding => HeldIsSound(mine[c].held)
  /\ step[c] \in Holding \ {"copy_blobs"} => mine[c].run.blobs = mine[c].held.blobs
  /\ step[c] \in {"copy_lock", "started"} => mine[c].run.files = Package!Payload(mine[c].held.files)
  /\ step[c] = "mark" => mine[c].held \in smoked

\* What a command has seen is still at the path, unless it was replaced.
PathIsSeen(c) ==
  /\ step[c] = "verify_again" => out # Package!Nothing /\ mine[c].early = Package!AtPath.files.resolved
  /\ step[c] \in Holding \cup {"mark"} => out # Package!Nothing /\ mine[c].held = Package!AtPath.sums
  /\ step[c] \in Copying =>
       Package!AtPath.lock = mine[c].held /\ mine[c].early = mine[c].held.files.resolved
  /\ step[c] = "started" => Package!OfOnePackage(c)

\* A full run that nobody waived is of a package that has been marked or gone through a smoke
\* test.
GoodDigest(sums) == sums \in smoked \/ \E t \in tested : t.digest = sums

FullIsTested(c) ==
  step[c] \in Running /\ Tail(todo[c]) = <<>> =>
    /\ step[c] \in Loading => out # Package!Nothing /\ GoodDigest(Package!AtPath.sums)
    /\ step[c] \in Holding => GoodDigest(mine[c].held)

CommandIsSound(c) ==
  /\ PlanIsOfItsStage(c) /\ RunIsSound(c)
  /\ c \notin met => PathIsSeen(c)
  /\ c \notin met \cup waived => FullIsTested(c)

MarksHold == \A t \in tested : t.by \notin met => t.digest \in smoked

PackageInv ==
  /\ PackageShape /\ PathIsApart /\ ReportsHold /\ MarksHold
  /\ \A c \in Commands : CommandIsSound(c)

-----------------------------------------------------------------------------
LEMMA PackageBegins == Package!Init => PackageInv
  <1> SUFFICES ASSUME Package!Init PROVE PackageInv
    OBVIOUS
  <1>1. /\ DOMAIN Package!EmptyDir = {"files", "blobs", "sums", "lock", "checks", "manifest"}
        /\ DOMAIN Package!NoFiles = {"asset", "tasks", "resolved"}
        /\ DOMAIN Package!Fresh = {"hashed", "held", "early", "run"}
        /\ Package!EmptyDir.files = Package!NoFiles /\ Package!EmptyDir.checks.passed # TRUE
        /\ Package!Fresh.run = Package!NoRun
    BY DEF Package!EmptyDir, Package!NoFiles, Package!Fresh, Package!NoReport
  <1>2. /\ DOMAIN Package!PresentDir = {"files", "blobs", "sums", "lock", "checks", "manifest"}
        /\ DOMAIN Package!PresentDir.files = {"asset", "tasks", "resolved"}
        /\ Package!PresentDir.files.tasks \notin Flawed
    BY PackageAssumption DEF Package!PresentDir, Package!PresentSums
  <1>3. /\ DOMAIN dirs = Dirs /\ dirs[Package!Present] = Package!PresentDir
        /\ \A c \in Commands : dirs[c] = Package!EmptyDir
    BY PackageAssumption DEF Package!Init, Dirs, Package!Present
  <1>4. /\ out = Package!Present /\ step = [c \in Commands |-> "idle"]
        /\ todo = [c \in Commands |-> <<>>]
        /\ aside = [c \in Commands |-> Package!Nothing] /\ mine = [c \in Commands |-> Package!Fresh]
        /\ tested = {} /\ met = {}
    BY DEF Package!Init
  <1>5. PackageShape
    BY <1>1, <1>2, <1>3, <1>4 DEF PackageShape, Dirs
  <1>6. PathIsApart
    BY <1>4, PackageAssumption DEF PathIsApart, Package!Present, Package!Nothing
  <1>7. ReportsHold
    BY <1>1, <1>2, <1>3 DEF ReportsHold, Dirs
  <1>8. \A c \in Commands : CommandIsSound(c)
    BY <1>4 DEF CommandIsSound, PlanIsOfItsStage, RunIsSound, PathIsSeen, FullIsTested, Unsealed,
         Publishing, Checking, Running, Loading, Holding, Copying
  <1> QED
    BY <1>4, <1>5, <1>6, <1>7, <1>8 DEF PackageInv, MarksHold

-----------------------------------------------------------------------------
\* What is left of the work of a command.
LEMMA Tails ==
  /\ Tail(<<"run">>) = <<>> /\ Tail(<<"run", "mark">>) = <<"mark">>
  /\ Tail(<<"run", "mark", "run">>) = <<"mark", "run">>
  /\ Tail(<<"mark">>) = <<>> /\ Tail(<<"mark", "run">>) = <<"run">>
  /\ Tail(<<"check">>) = <<>> /\ Tail(<<"check", "run", "mark">>) = <<"run", "mark">>
  OBVIOUS

\* The path and what is at it, the report left aside.
PathKept ==
  /\ out' = out /\ Package!AtPath'.files = Package!AtPath.files
  /\ Package!AtPath'.sums = Package!AtPath.sums
  /\ Package!AtPath'.lock = Package!AtPath.lock

\* The marks and the smoke tests on record, and who was replaced or waived, only grow.
RecordsGrow ==
  /\ smoked \subseteq smoked' /\ waived \subseteq waived' /\ met \subseteq met'
  /\ \A t \in tested : \E u \in tested' : u.digest = t.digest

\* A command that is running or marking uses the path.
LEMMA RunningUses ==
  ASSUME NEW c \in Commands, PlanIsOfItsStage(c), step[c] \in Running \cup {"mark"}
  PROVE  Package!Uses(c)
  BY DEF PlanIsOfItsStage, Package!Uses, Running, Loading, Holding, Copying

\* The step of another command leaves a command what it has, if it keeps the path or the
\* replacement is noted.
LEMMA OtherIsSound ==
  ASSUME NEW c \in Commands, CommandIsSound(c), RecordsGrow,
         step'[c] = step[c], todo'[c] = todo[c], mine'[c] = mine[c],
         Package!Uses(c) => c \in met' \/ PathKept
  PROVE  CommandIsSound(c)'
  <1>1. PlanIsOfItsStage(c)'
    BY Zenon DEF CommandIsSound, PlanIsOfItsStage
  <1>2. RunIsSound(c)'
    BY DEF CommandIsSound, RunIsSound, RecordsGrow, HeldIsSound, Package!Payload
  <1>3. ASSUME c \notin met' PROVE PathIsSeen(c)'
    <2>1. CASE step[c] \in Running \cup {"mark"}
      <3>1. PathKept /\ PathIsSeen(c)
        BY <1>3, <2>1, RunningUses DEF CommandIsSound, RecordsGrow
      <3> QED
        BY <3>1 DEF PathKept, PathIsSeen, Package!OfOnePackage
    <2>2. CASE step[c] \notin Running \cup {"mark"}
      BY <2>2 DEF PathIsSeen, Running, Loading, Holding, Copying
    <2> QED
      BY <2>1, <2>2
  <1>4. ASSUME c \notin met' \cup waived' PROVE FullIsTested(c)'
    <2>1. CASE step[c] \in Running \cup {"mark"}
      <3>1. PathKept /\ FullIsTested(c)
        BY <1>4, <2>1, RunningUses DEF CommandIsSound, RecordsGrow
      <3>2. \A x : GoodDigest(x) => GoodDigest(x)'
        BY DEF GoodDigest, RecordsGrow
      <3> QED
        BY <3>1, <3>2 DEF PathKept, FullIsTested
    <2>2. CASE step[c] \notin Running \cup {"mark"}
      BY <2>2 DEF FullIsTested, Running
    <2> QED
      BY <2>1, <2>2
  <1> QED
    BY <1>1, <1>2, <1>3, <1>4 DEF CommandIsSound

\* A step of c that keeps the records, moves c alone, and is sound for c itself.
LEMMA CommandsStay ==
  ASSUME PackageInv, NEW c \in Commands, RecordsGrow, CommandIsSound(c)',
         \A e \in Commands \ {c} :
           /\ step'[e] = step[e] /\ todo'[e] = todo[e] /\ mine'[e] = mine[e]
           /\ Package!Uses(e) => e \in met' \/ PathKept
  PROVE  \A e \in Commands : CommandIsSound(e)'
  <1> SUFFICES ASSUME NEW e \in Commands PROVE CommandIsSound(e)'
    OBVIOUS
  <1>1. CASE e # c
    <2>1. CommandIsSound(e)
      BY DEF PackageInv
    <2> QED
      BY <1>1, <2>1, OtherIsSound
  <1>2. CASE e = c
    BY <1>2
  <1> QED
    BY <1>1, <1>2

-----------------------------------------------------------------------------
\* A command goes somewhere, with a plan and a memory; the others stay where they are.
Moved(c, there, work, m) ==
  /\ step'[c] = there /\ todo'[c] = work /\ mine'[c] = m
  /\ DOMAIN m = DOMAIN Package!Fresh /\ DOMAIN m.run = DOMAIN Package!NoRun
  /\ DOMAIN step' = Commands /\ DOMAIN todo' = Commands /\ DOMAIN mine' = Commands
  /\ \A e \in Commands \ {c} : step'[e] = step[e] /\ todo'[e] = todo[e] /\ mine'[e] = mine[e]

LEMMA FreshShape ==
  /\ DOMAIN Package!Fresh = {"hashed", "held", "early", "run"}
  /\ DOMAIN Package!Fresh.run = DOMAIN Package!NoRun
  /\ DOMAIN Package!NoRun = {"resolved", "files", "blobs", "lock"}
  BY DEF Package!Fresh, Package!NoRun

LEMMA GotoMoves ==
  ASSUME PackageInv, NEW c \in Commands, NEW there, NEW m, Package!GotoWith(c, there, m),
         DOMAIN m = DOMAIN Package!Fresh, DOMAIN m.run = DOMAIN Package!NoRun
  PROVE  Moved(c, there, todo[c], m)
  BY DEF Package!GotoWith, Moved, PackageInv, PackageShape

LEMMA EndMoves ==
  ASSUME PackageInv, NEW c \in Commands, NEW how, Package!End(c, how)
  PROVE  Moved(c, how, <<>>, Package!Fresh)
  BY FreshShape DEF Package!End, Moved, PackageInv, PackageShape

LEMMA GoOnMoves ==
  ASSUME PackageInv, NEW c \in Commands, NEW rest, Package!GoOnWith(c, rest)
  PROVE  /\ rest = <<>> => Moved(c, "done", <<>>, Package!Fresh)
         /\ rest # <<>> => Moved(c, Package!First(Head(rest)), rest, mine[c])
  <1>1. CASE rest = <<>>
    BY <1>1, FreshShape DEF Package!GoOnWith, Moved, PackageInv, PackageShape
  <1>2. CASE rest # <<>>
    BY <1>2 DEF Package!GoOnWith, Moved, PackageInv, PackageShape
  <1> QED
    BY <1>1, <1>2

\* The invariant from its parts.
LEMMA MoveKeeps ==
  ASSUME PackageInv, NEW c \in Commands, NEW there, NEW work, NEW m, Moved(c, there, work, m),
         DOMAIN dirs' = Dirs, out' \in Dirs \cup {Package!Nothing},
         DOMAIN aside' = Commands, \A e \in Commands : aside'[e] \in Dirs \cup {Package!Nothing},
         \A d \in Dirs : DOMAIN dirs'[d] = DOMAIN Package!EmptyDir
           /\ DOMAIN dirs'[d].files = DOMAIN Package!NoFiles,
         PathIsApart', ReportsHold', MarksHold', RecordsGrow, CommandIsSound(c)',
         \A e \in Commands \ {c} : Package!Uses(e) => e \in met' \/ PathKept
  PROVE  PackageInv'
  <1>1. PackageShape'
    BY DEF PackageInv, PackageShape, Moved
  <1>2. \A e \in Commands : CommandIsSound(e)'
    BY CommandsStay DEF Moved
  <1> QED
    BY <1>1, <1>2 DEF PackageInv

\* A step that leaves the directories and the path alone.
LEMMA QuietKeeps ==
  ASSUME PackageInv, NEW c \in Commands, NEW there, NEW work, NEW m, Moved(c, there, work, m),
         dirs' = dirs, UNCHANGED Package!place, MarksHold', RecordsGrow, CommandIsSound(c)',
         there \in Unsealed => step[c] \in Unsealed,
         there \in Publishing => step[c] \in Unsealed \cup Publishing
  PROVE  PackageInv'
  <1>1. out' = out /\ aside' = aside /\ met' = met
    BY DEF Package!place
  <1>2. PathIsApart'
    <2>1. \A e \in Commands : step'[e] \in Unsealed \cup Publishing => step[e] \in Unsealed \cup Publishing
      BY DEF Moved
    <2> QED
      BY <1>1, <2>1 DEF PackageInv, PathIsApart
  <1>3. ReportsHold'
    <2>1. \A e \in Commands : step'[e] \in Unsealed => step[e] \in Unsealed
      BY DEF Moved
    <2> QED
      BY <2>1 DEF PackageInv, ReportsHold
  <1>4. PathKept
    BY <1>1 DEF PathKept, Package!AtPath
  <1>5. PackageShape
    BY DEF PackageInv
  <1> QED
    BY <1>1, <1>2, <1>3, <1>4, <1>5, MoveKeeps DEF PackageShape

\* Nothing is recorded.
LEMMA GateStays ==
  ASSUME PackageInv, UNCHANGED Package!gate, met \subseteq met'
  PROVE  RecordsGrow /\ MarksHold'
  BY DEF Package!gate, RecordsGrow, PackageInv, MarksHold

\* A command that is neither running nor marking has nothing to lose.
LEMMA IdleIsSound ==
  ASSUME NEW c \in Commands, PlanIsOfItsStage(c)', step'[c] \notin Running \cup {"mark"}
  PROVE  CommandIsSound(c)'
  BY DEF CommandIsSound, RunIsSound, PathIsSeen, FullIsTested, Running, Loading, Holding, Copying

LEMMA EndIsSound ==
  ASSUME NEW c \in Commands, NEW how \in {"done", "failed", "dead"}, Moved(c, how, <<>>, Package!Fresh)
  PROVE  CommandIsSound(c)'
  <1>1. step'[c] \in {"done", "failed", "dead"}
    BY DEF Moved
  <1>2. PlanIsOfItsStage(c)'
    BY <1>1 DEF PlanIsOfItsStage, Unsealed, Publishing, Checking, Running, Loading, Holding, Copying
  <1> QED
    BY <1>1, <1>2, IdleIsSound DEF Running, Loading, Holding, Copying

\* A command that comes to its run has seen nothing of it yet.
LEMMA LoadIsSound ==
  ASSUME NEW c \in Commands, step'[c] = "load",
         todo'[c] \in {<<"run">>, <<"run", "mark">>, <<"run", "mark", "run">>},
         c \notin met' \cup waived' /\ Tail(todo'[c]) = <<>> =>
           out' # Package!Nothing /\ GoodDigest(Package!AtPath.sums)'
  PROVE  CommandIsSound(c)'
  <1>1. PlanIsOfItsStage(c)'
    BY DEF PlanIsOfItsStage, Unsealed, Publishing, Checking, Running, Loading, Holding, Copying
  <1>2. RunIsSound(c)' /\ PathIsSeen(c)'
    BY DEF RunIsSound, PathIsSeen, Holding, Copying
  <1>3. c \notin met' \cup waived' => FullIsTested(c)'
    BY DEF FullIsTested, Holding, Copying
  <1> QED
    BY <1>1, <1>2, <1>3 DEF CommandIsSound

\* What is verified is there, and sound.
LEMMA VerifiedIsSound ==
  ASSUME PackageInv, Package!Verified(Package!AtPath)
  PROVE  /\ out # Package!Nothing /\ HeldIsSound(Package!AtPath.sums)
         /\ Package!AtPath.sums.files = Package!AtPath.files
         /\ Package!AtPath.lock = Package!AtPath.sums
         /\ Package!AtPath.manifest.resolved = Package!AtPath.files.resolved
  <1>1. out # Package!Nothing
    BY DEF Package!Verified, Package!AtPath, Package!EmptyDir
  <1>2. Package!AtPath = dirs[out] /\ out \in Dirs
    BY <1>1 DEF Package!AtPath, PackageInv, PackageShape
  <1>3. dirs[out].checks = [of |-> dirs[out].sums, passed |-> TRUE]
    BY <1>2 DEF Package!Verified
  <1>4. dirs[out].checks.passed = TRUE
    BY <1>3
  <1>5. dirs[out].files.tasks \notin Flawed /\ DOMAIN dirs[out].files = DOMAIN Package!NoFiles
    BY <1>2, <1>4 DEF PackageInv, PackageShape, ReportsHold
  <1> QED
    BY <1>1, <1>2, <1>5 DEF Package!Verified, Package!PointerHasItsBlob, HeldIsSound

-----------------------------------------------------------------------------
(* Steps that leave the directories alone. *)

\* The end of a command, in failure or not.
LEMMA EndKeeps ==
  ASSUME PackageInv, NEW c \in Commands, NEW how \in {"done", "failed", "dead"},
         Moved(c, how, <<>>, Package!Fresh), dirs' = dirs, UNCHANGED Package!place, MarksHold',
         RecordsGrow
  PROVE  PackageInv'
  <1>1. CommandIsSound(c)'
    BY EndIsSound
  <1>2. how \notin Unsealed /\ how \notin Publishing
    BY DEF Unsealed, Publishing
  <1> QED
    BY <1>1, <1>2, QuietKeeps

LEMMA FailKeeps ==
  ASSUME PackageInv, NEW c \in Commands, Package!Fail(c), dirs' = dirs, UNCHANGED <<Package!place,
         Package!gate>>
  PROVE  PackageInv'
  <1>1. Moved(c, "failed", <<>>, Package!Fresh)
    BY EndMoves DEF Package!Fail
  <1>2. RecordsGrow /\ MarksHold'
    BY GateStays DEF Package!place
  <1> QED
    BY <1>1, <1>2, EndKeeps

\* A command goes on in its build, its publication or its check.
LEMMA GotoKeeps ==
  ASSUME PackageInv, NEW c \in Commands, NEW there, NEW m, Package!GotoWith(c, there, m),
         DOMAIN m = DOMAIN Package!Fresh, DOMAIN m.run = DOMAIN Package!NoRun, dirs' = dirs,
         UNCHANGED <<Package!place, Package!gate>>,
         \/ {step[c], there} \subseteq Unsealed \ {"idle"}
         \/ {step[c], there} \subseteq Publishing
         \/ {step[c], there} \subseteq Checking
  PROVE  PackageInv'
  <1>1. Moved(c, there, todo[c], m)
    BY GotoMoves
  <1>2. RecordsGrow /\ MarksHold'
    BY GateStays DEF Package!place
  <1>3. step'[c] = there /\ todo'[c] = todo[c] /\ PlanIsOfItsStage(c)
    BY <1>1 DEF Moved, PackageInv, CommandIsSound
  <1>4. PlanIsOfItsStage(c)' /\ step'[c] \notin Running \cup {"mark"}
    BY <1>3 DEF PlanIsOfItsStage, Unsealed, Publishing, Checking, Running, Loading, Holding, Copying
  <1>5. CommandIsSound(c)'
    BY <1>4, IdleIsSound
  <1>6. /\ there \in Unsealed => step[c] \in Unsealed
        /\ there \in Publishing => step[c] \in Unsealed \cup Publishing
    BY DEF Unsealed, Publishing, Checking
  <1> QED
    BY <1>1, <1>2, <1>5, <1>6, QuietKeeps

LEMMA PackageBeginKeeps ==
  ASSUME PackageInv, NEW c \in Commands, Package!Begin(c)
  PROVE  PackageInv'
  <1>1. PICK kind \in DOMAIN Package!Work : Package!GoOnWith(c, Package!Work[kind])
    BY DEF Package!Begin
  <1>2. DOMAIN Package!Work = {"lint", "dev", "build_run", "run", "check"}
    BY DEF Package!Work
  <1>3. /\ Package!Work["lint"] = <<"build", "publish", "check">>
        /\ Package!Work["dev"] = <<"build", "publish", "check", "run", "mark">>
        /\ Package!Work["build_run"] = <<"build", "publish", "register">>
        /\ Package!Work["run"] = <<"gate">> /\ Package!Work["check"] = <<"check">>
    BY DEF Package!Work
  <1>4. /\ step[c] = "idle" /\ dirs' = dirs /\ UNCHANGED <<Package!place, Package!gate>>
    BY DEF Package!Begin, Package!At
  <1>5. RecordsGrow /\ MarksHold'
    BY <1>4, GateStays DEF Package!place
  <1> DEFINE rest == Package!Work[kind]
  <1>6. rest \in {<<"build", "publish", "check">>, <<"build", "publish", "check", "run", "mark">>,
                  <<"build", "publish", "register">>, <<"gate">>, <<"check">>}
    BY <1>2, <1>3
  <1>7. Package!GoOnWith(c, rest)
    BY <1>1
  <1> HIDE DEF rest
  <1>8. /\ rest # <<>>
        /\ \/ Head(rest) = "build" /\ rest \notin {<<"gate">>, <<"check">>}
           \/ Head(rest) = "gate"
           \/ Head(rest) = "check" /\ rest = <<"check">>
    BY <1>6
  <1>9. Moved(c, Package!First(Head(rest)), rest, mine[c])
    BY <1>7, <1>8, GoOnMoves
  <1>10. /\ step'[c] = Package!First(Head(rest)) /\ todo'[c] = rest
         /\ Package!First(Head(rest)) \in {"author", "gate", "digest"}
         /\ Package!First(Head(rest)) = "author" => rest \notin {<<"gate">>, <<"check">>}
         /\ Package!First(Head(rest)) = "digest" => rest = <<"check">>
    BY <1>8, <1>9 DEF Moved, Package!First
  <1>11. CommandIsSound(c)'
    <2>1. PlanIsOfItsStage(c)' /\ step'[c] \notin Running \cup {"mark"}
      BY <1>6, <1>10
         DEF PlanIsOfItsStage, Unsealed, Publishing, Checking, Running, Loading, Holding, Copying
    <2> QED
      BY <2>1, IdleIsSound
  <1>12. step[c] \in Unsealed /\ Package!First(Head(rest)) \notin Publishing
    BY <1>4, <1>10 DEF Unsealed, Publishing
  <1> QED
    BY <1>4, <1>5, <1>9, <1>11, <1>12, QuietKeeps

LEMMA BuildQuietKeeps ==
  ASSUME PackageInv, NEW c \in Commands,
         Package!HashAsset(c) \/ Package!Look(c) \/ Package!ReadDigest(c) \/ Package!CheckVerifies(c)
  PROVE  PackageInv'
  <1>1. dirs' = dirs /\ UNCHANGED <<Package!place, Package!gate>>
    BY DEF Package!HashAsset, Package!Look, Package!ReadDigest, Package!CheckVerifies
  <1>2. /\ DOMAIN mine[c] = {"hashed", "held", "early", "run"}
        /\ DOMAIN mine[c].run = DOMAIN Package!NoRun /\ DOMAIN mine[c] = DOMAIN Package!Fresh
    BY FreshShape DEF PackageInv, PackageShape
  <1>3. CASE Package!Fail(c)
    BY <1>1, <1>3, FailKeeps
  <1>4. CASE Package!HashAsset(c)
    <2> DEFINE m == [mine[c] EXCEPT !.hashed = src]
    <2>1. DOMAIN m = DOMAIN Package!Fresh /\ m.run = mine[c].run
      BY <1>2
    <2>2. Package!GotoWith(c, "copy", m) /\ {step[c], "copy"} \subseteq Unsealed \ {"idle"}
      BY <1>4 DEF Package!HashAsset, Package!At, Unsealed
    <2> HIDE DEF m
    <2> QED
      BY <1>1, <1>2, <2>1, <2>2, GotoKeeps
  <1>5. CASE Package!Look(c)
    <2>1. PICK there \in {"place", "aside"} : Package!GotoWith(c, there, mine[c])
      BY <1>5 DEF Package!Look, Package!Goto
    <2>2. {step[c], there} \subseteq Publishing
      BY <1>5 DEF Package!Look, Package!At, Publishing
    <2> QED
      BY <1>1, <1>2, <2>1, <2>2, GotoKeeps
  <1>6. CASE Package!ReadDigest(c) /\ ~Package!Fail(c)
    <2> DEFINE m == [mine[c] EXCEPT !.held = Package!AtPath.lock]
    <2>1. DOMAIN m = DOMAIN Package!Fresh /\ m.run = mine[c].run
      BY <1>2
    <2>2. Package!GotoWith(c, "verify", m) /\ {step[c], "verify"} \subseteq Checking
      BY <1>6 DEF Package!ReadDigest, Package!At, Checking
    <2> HIDE DEF m
    <2> QED
      BY <1>1, <1>2, <2>1, <2>2, GotoKeeps
  <1>7. CASE Package!CheckVerifies(c) /\ ~Package!Fail(c)
    <2>1. Package!GotoWith(c, "report", mine[c]) /\ {step[c], "report"} \subseteq Checking
      BY <1>7 DEF Package!CheckVerifies, Package!At, Package!Goto, Checking
    <2> QED
      BY <1>1, <1>2, <2>1, GotoKeeps
  <1> QED
    BY <1>3, <1>4, <1>5, <1>6, <1>7

\* A command that was let through comes to its run.
LEMMA ToRunKeeps ==
  ASSUME PackageInv, NEW c \in Commands,
         Package!GoOnWith(c, <<"run">>) \/ Package!GoOnWith(c, <<"run", "mark">>)
                                         \/ Package!GoOnWith(c, <<"run", "mark", "run">>),
         Package!GoOnWith(c,
         <<"run">>) => c \in waived' \/ (out # Package!Nothing /\ GoodDigest(Package!AtPath.sums)'),
         dirs' = dirs, UNCHANGED Package!place, RecordsGrow, MarksHold'
  PROVE  PackageInv'
  <1>1. PICK rest \in {<<"run">>, <<"run", "mark">>, <<"run", "mark", "run">>} : Package!GoOnWith(c,
        rest)
    OBVIOUS
  <1>2. rest # <<>> /\ Head(rest) = "run" /\ Package!First("run") = "load"
    BY DEF Package!First
  <1>3. Moved(c, "load", rest, mine[c])
    BY <1>1, <1>2, GoOnMoves
  <1>4. step'[c] = "load" /\ todo'[c] = rest
    BY <1>3 DEF Moved
  <1>5. Tail(rest) = <<>> => rest = <<"run">>
    <2>1. /\ Tail(<<"run", "mark">>) = <<"mark">> /\ Tail(<<"run", "mark", "run">>) = <<"mark", "run">>
          /\ <<"mark">> # <<>> /\ <<"mark", "run">> # <<>>
      OBVIOUS
    <2> QED
      BY <2>1
  <1>6. out' = out
    BY DEF Package!place
  <1>7. CommandIsSound(c)'
    BY <1>1, <1>4, <1>5, <1>6, LoadIsSound
  <1>8. "load" \notin Unsealed /\ "load" \notin Publishing
    BY DEF Unsealed, Publishing
  <1> QED
    BY <1>3, <1>7, <1>8, QuietKeeps

\* Who may run: a package that is tested, or one the user waives; others are tested first.
LEMMA GateKeeps ==
  ASSUME PackageInv, NEW c \in Commands, Package!Register(c) \/ Package!Gate(c)
  PROVE  PackageInv'
  <1>1. dirs' = dirs /\ UNCHANGED Package!place /\ tested' = tested /\ smoked' = smoked /\ met' = met
    BY DEF Package!Register, Package!Gate, Package!place
  <1>2. \/ Package!Verified(Package!AtPath) /\ Package!GoOnWith(c, <<"run", "mark">>) /\ waived' = waived
        \/ Package!Verified(Package!AtPath) /\ Package!IsTested /\ Package!GoOnWith(c, <<"run">>)
             /\ waived' = waived
        \/ Package!Verified(Package!AtPath) /\ Package!GoOnWith(c, <<"run", "mark", "run">>)
             /\ waived' = waived
        \/ Package!Verified(Package!AtPath) /\ Package!GoOnWith(c, <<>>) /\ waived' = waived
        \/ Package!Verified(Package!AtPath) /\ Package!GoOnWith(c, <<"run">>)
             /\ waived' = waived \cup {c}
        \/ Package!Fail(c) /\ waived' = waived
    BY DEF Package!Register, Package!Gate, Package!Waive, Package!Smoke, Package!Full,
       Package!SmokeThenFull
  <1>3. waived \subseteq waived'
    BY <1>2
  <1>4. RecordsGrow /\ MarksHold'
    BY <1>1, <1>3 DEF RecordsGrow, PackageInv, MarksHold
  <1>5. CASE Package!Fail(c) /\ waived' = waived
    BY <1>1, <1>5, FailKeeps DEF Package!gate
  <1>6. CASE Package!GoOnWith(c, <<>>)
    <2>1. Moved(c, "done", <<>>, Package!Fresh)
      BY <1>6, GoOnMoves
    <2> QED
      BY <1>1, <1>4, <2>1, EndKeeps
  <1>7. CASE /\ Package!Verified(Package!AtPath)
             /\ \/ Package!GoOnWith(c, <<"run", "mark">>)
                \/ Package!IsTested /\ Package!GoOnWith(c, <<"run">>)
                \/ Package!GoOnWith(c, <<"run", "mark", "run">>)
                \/ Package!GoOnWith(c, <<"run">>) /\ waived' = waived \cup {c}
    <2>1. out # Package!Nothing
      BY <1>7, VerifiedIsSound
    <2>2. Package!AtPath' = Package!AtPath
      BY <1>1 DEF Package!AtPath, Package!place
    <2>3. Package!IsTested => GoodDigest(Package!AtPath.sums)'
      BY <1>1, <2>2 DEF Package!IsTested, GoodDigest
    <2>4. /\ Package!GoOnWith(c, <<"run", "mark">>) => todo'[c] = <<"run", "mark">>
          /\ Package!GoOnWith(c, <<"run", "mark", "run">>) => todo'[c] = <<"run", "mark", "run">>
          /\ Package!GoOnWith(c, <<"run">>) => todo'[c] = <<"run">>
      BY DEF Package!GoOnWith, PackageInv, PackageShape
    <2>5. <<"run">> # <<"run", "mark">> /\ <<"run">> # <<"run", "mark", "run">>
      OBVIOUS
    <2>6. Package!GoOnWith(c, <<"run">>) => Package!IsTested \/ c \in waived'
      BY <1>7, <2>4, <2>5
    <2> QED
      BY <1>1, <1>4, <1>7, <2>1, <2>3, <2>6, ToRunKeeps
  <1> QED
    BY <1>2, <1>5, <1>6, <1>7

-----------------------------------------------------------------------------
(* The steps of a run. *)

\* A run goes on from one look at the path to the next.
LEMMA RunGotoKeeps ==
  ASSUME PackageInv, NEW c \in Commands, NEW there \in Running \ {"load"}, NEW m,
         Package!GotoWith(c, there, m), step[c] \in Running,
         DOMAIN m = DOMAIN Package!Fresh, DOMAIN m.run = DOMAIN Package!NoRun, dirs' = dirs,
         UNCHANGED <<Package!place, Package!gate>>,
         RunIsSound(c)', c \notin met => PathIsSeen(c)',
         c \notin met \cup waived /\ FullIsTested(c) => FullIsTested(c)'
  PROVE  PackageInv'
  <1>1. Moved(c, there, todo[c], m)
    BY GotoMoves
  <1>2. RecordsGrow /\ MarksHold' /\ met' = met /\ waived' = waived
    BY GateStays DEF Package!place, Package!gate
  <1>3. step'[c] = there /\ todo'[c] = todo[c] /\ CommandIsSound(c)
    BY <1>1 DEF Moved, PackageInv
  <1>4. PlanIsOfItsStage(c)'
    BY <1>3 DEF CommandIsSound, PlanIsOfItsStage, Unsealed, Publishing, Checking, Running, Loading,
         Holding, Copying
  <1>5. CommandIsSound(c)'
    BY <1>2, <1>3, <1>4 DEF CommandIsSound
  <1>6. there \notin Unsealed /\ there \notin Publishing
    BY DEF Unsealed, Publishing, Running, Loading, Holding, Copying
  <1> QED
    BY <1>1, <1>2, <1>5, <1>6, QuietKeeps

LEMMA LoadKeeps ==
  ASSUME PackageInv, NEW c \in Commands, Package!LoadForRun(c)
  PROVE  PackageInv'
  <1>1. dirs' = dirs /\ UNCHANGED <<Package!place, Package!gate>> /\ step[c] = "load"
    BY DEF Package!LoadForRun, Package!At
  <1>2. CASE Package!Fail(c)
    BY <1>1, <1>2, FailKeeps
  <1>3. CASE ~Package!Fail(c)
    <2> DEFINE m == [Package!Fresh EXCEPT !.early = Package!AtPath.manifest.resolved]
    <2>1. /\ DOMAIN m = DOMAIN Package!Fresh /\ DOMAIN m.run = DOMAIN Package!NoRun
          /\ m.early = Package!AtPath.manifest.resolved
      BY FreshShape
    <2>2. Package!GotoWith(c, "verify_again", m) /\ Package!Verified(Package!AtPath)
      BY <1>3 DEF Package!LoadForRun
    <2>3. out # Package!Nothing /\ Package!AtPath.manifest.resolved = Package!AtPath.files.resolved
      BY <2>2, VerifiedIsSound
    <2> HIDE DEF m
    <2>4. step'[c] = "verify_again" /\ mine'[c] = m /\ todo'[c] = todo[c]
      BY <2>1, <2>2, GotoMoves DEF Moved
    <2>5. Package!AtPath' = Package!AtPath /\ out' = out /\ tested' = tested /\ smoked' = smoked
      BY <1>1 DEF Package!AtPath, Package!place, Package!gate
    <2>6. RunIsSound(c)' /\ PathIsSeen(c)'
      BY <2>1, <2>3, <2>4, <2>5 DEF RunIsSound, PathIsSeen, Holding, Copying
    <2>7. FullIsTested(c) => FullIsTested(c)'
      BY <1>1, <2>4, <2>5 DEF FullIsTested, GoodDigest, Running, Loading, Holding, Copying
    <2>8. step[c] \in Running /\ "verify_again" \in Running \ {"load"}
      BY <1>1 DEF Running, Loading
    <2> QED
      BY <1>1, <2>1, <2>2, <2>6, <2>7, <2>8, RunGotoKeeps
  <1> QED
    BY <1>2, <1>3

LEMMA VerifyAgainKeeps ==
  ASSUME PackageInv, NEW c \in Commands, Package!VerifyAgain(c)
  PROVE  PackageInv'
  <1>1. dirs' = dirs /\ UNCHANGED <<Package!place, Package!gate>> /\ step[c] = "verify_again"
    BY DEF Package!VerifyAgain, Package!At
  <1>2. CASE Package!Fail(c)
    BY <1>1, <1>2, FailKeeps
  <1>3. CASE ~Package!Fail(c)
    <2> DEFINE m == [mine[c] EXCEPT !.held = Package!AtPath.sums]
    <2>1. /\ DOMAIN m = DOMAIN Package!Fresh /\ DOMAIN m.run = DOMAIN Package!NoRun
          /\ m.early = mine[c].early
          /\ m.held = Package!AtPath.sums
      BY FreshShape DEF PackageInv, PackageShape
    <2>2. Package!GotoWith(c, "copy_blobs", m) /\ Package!Verified(Package!AtPath)
      BY <1>3 DEF Package!VerifyAgain
    <2>3. /\ out # Package!Nothing /\ HeldIsSound(Package!AtPath.sums)
          /\ Package!AtPath.sums.files = Package!AtPath.files
          /\ Package!AtPath.lock = Package!AtPath.sums
      BY <2>2, VerifiedIsSound
    <2> HIDE DEF m
    <2>4. step'[c] = "copy_blobs" /\ mine'[c] = m /\ todo'[c] = todo[c]
      BY <2>1, <2>2, GotoMoves DEF Moved
    <2>5. Package!AtPath' = Package!AtPath /\ out' = out /\ tested' = tested /\ smoked' = smoked
      BY <1>1 DEF Package!AtPath, Package!place, Package!gate
    <2>6. RunIsSound(c)'
      BY <2>1, <2>3, <2>4 DEF RunIsSound, Holding, Copying, HeldIsSound
    <2>7. ASSUME c \notin met PROVE PathIsSeen(c)'
      <3>1. mine[c].early = Package!AtPath.files.resolved
        BY <1>1, <2>7 DEF PackageInv, CommandIsSound, PathIsSeen
      <3> QED
        BY <2>1, <2>3, <2>4, <2>5, <3>1 DEF PathIsSeen
    <2>8. FullIsTested(c) => FullIsTested(c)'
      BY <1>1, <2>1, <2>4, <2>5 DEF FullIsTested, GoodDigest, Running, Loading, Holding, Copying
    <2>9. step[c] \in Running /\ "copy_blobs" \in Running \ {"load"}
      BY <1>1 DEF Running, Loading, Holding, Copying
    <2> QED
      BY <1>1, <2>1, <2>2, <2>6, <2>7, <2>8, <2>9, RunGotoKeeps
  <1> QED
    BY <1>2, <1>3

\* What is copied is compared with what was verified; then the lock and the experiment follow.
LEMMA CopyKeeps ==
  ASSUME PackageInv, NEW c \in Commands, Package!CopyPayload(c) \/ Package!CopyLock(c)
  PROVE  PackageInv'
  <1>1. dirs' = dirs /\ UNCHANGED <<Package!place, Package!gate>> /\ step[c] \in Copying
    BY DEF Package!CopyPayload, Package!CopyLock, Package!At, Copying
  <1>2. CASE Package!Fail(c)
    BY <1>1, <1>2, FailKeeps
  <1>3. CASE ~Package!Fail(c)
    <2>1. /\ DOMAIN mine[c] = {"hashed", "held", "early", "run"}
          /\ DOMAIN mine[c].run = {"resolved", "files", "blobs", "lock"}
      BY FreshShape DEF PackageInv, PackageShape
    <2>2. RunIsSound(c) /\ (c \notin met => PathIsSeen(c))
      BY DEF PackageInv, CommandIsSound
    <2>3. Package!AtPath' = Package!AtPath /\ out' = out /\ tested' = tested /\ smoked' = smoked
      BY <1>1 DEF Package!AtPath, Package!place, Package!gate
    <2>4. PICK there, m :
            /\ Package!GotoWith(c, there, m) /\ there \in Holding \ {"copy_blobs"}
            /\ DOMAIN m = DOMAIN Package!Fresh /\ DOMAIN m.run = DOMAIN Package!NoRun
            /\ m.held = mine[c].held /\ m.early = mine[c].early
            /\ m.run.blobs = mine[c].held.blobs
            /\ there \in {"copy_lock", "started"} => m.run.files = Package!Payload(mine[c].held.files)
            /\ there = "started" => m.run.lock = Package!AtPath.lock /\ m.run.resolved = mine[c].early
      <3>1. CASE step[c] = "copy_blobs"
        <4> DEFINE n == [mine[c] EXCEPT !.run.blobs = Package!AtPath.blobs]
        <4>1. Package!GotoWith(c, "copy_files", n) /\ Package!AtPath.blobs = mine[c].held.blobs
          BY <1>3, <3>1 DEF Package!CopyPayload, Package!CopyLock, Package!At, Package!CopyBlobs
        <4>2. /\ DOMAIN n = DOMAIN Package!Fresh /\ DOMAIN n.run = DOMAIN Package!NoRun
              /\ n.held = mine[c].held /\ n.early = mine[c].early /\ n.run.blobs = Package!AtPath.blobs
          BY <2>1, FreshShape
        <4> HIDE DEF n
        <4> QED
          BY <4>1, <4>2 DEF Holding, Copying
      <3>2. CASE step[c] = "copy_files"
        <4> DEFINE n == [mine[c] EXCEPT !.run.files = Package!Payload(Package!AtPath.files)]
        <4>1. /\ Package!GotoWith(c, "copy_lock", n)
              /\ Package!Payload(Package!AtPath.files) = Package!Payload(mine[c].held.files)
          BY <1>3, <3>2 DEF Package!CopyPayload, Package!CopyLock, Package!At, Package!CopyFiles
        <4>2. /\ DOMAIN n = DOMAIN Package!Fresh /\ DOMAIN n.run = DOMAIN Package!NoRun
              /\ n.held = mine[c].held /\ n.early = mine[c].early
              /\ n.run.blobs = mine[c].run.blobs /\ n.run.files = Package!Payload(Package!AtPath.files)
          BY <2>1, FreshShape
        <4>3. mine[c].run.blobs = mine[c].held.blobs
          BY <2>2, <3>2 DEF RunIsSound, Holding, Copying
        <4> HIDE DEF n
        <4> QED
          BY <4>1, <4>2, <4>3 DEF Holding, Copying
      <3>3. CASE step[c] = "copy_lock"
        <4> DEFINE n == [mine[c] EXCEPT !.run.lock = Package!AtPath.lock, !.run.resolved = mine[c].early]
        <4>1. Package!GotoWith(c, "started", n)
          BY <1>3, <3>3 DEF Package!CopyPayload, Package!CopyLock, Package!At
        <4>2. /\ DOMAIN n = DOMAIN Package!Fresh /\ DOMAIN n.run = DOMAIN Package!NoRun
              /\ n.held = mine[c].held /\ n.early = mine[c].early
              /\ n.run.blobs = mine[c].run.blobs /\ n.run.files = mine[c].run.files
              /\ n.run.lock = Package!AtPath.lock /\ n.run.resolved = mine[c].early
          BY <2>1, FreshShape
        <4>3. /\ mine[c].run.blobs = mine[c].held.blobs
              /\ mine[c].run.files = Package!Payload(mine[c].held.files)
          BY <2>2, <3>3 DEF RunIsSound, Holding, Copying
        <4> HIDE DEF n
        <4> QED
          BY <4>1, <4>2, <4>3 DEF Holding, Copying
      <3> QED
        BY <1>1, <3>1, <3>2, <3>3 DEF Copying
    <2>5. step'[c] = there /\ mine'[c] = m /\ todo'[c] = todo[c]
      BY <2>4, GotoMoves DEF Moved
    <2>6. /\ there \in Running \ {"load"} /\ there \notin {"mark", "verify_again"}
          /\ step[c] \in Running /\ step[c] \in Holding
      BY <1>1, <2>4 DEF Running, Loading, Holding, Copying
    <2>7. RunIsSound(c)'
      BY <2>2, <2>4, <2>5, <2>6 DEF RunIsSound, HeldIsSound, Package!Payload
    <2>8. ASSUME c \notin met PROVE PathIsSeen(c)'
      BY <1>1, <2>2, <2>3, <2>4, <2>5, <2>6, <2>8 DEF PathIsSeen, Package!OfOnePackage
    <2>9. FullIsTested(c) => FullIsTested(c)'
      BY <2>3, <2>4, <2>5, <2>6 DEF FullIsTested, GoodDigest, Loading, Holding, Copying
    <2> QED
      BY <1>1, <2>4, <2>6, <2>7, <2>8, <2>9, RunGotoKeeps
  <1> QED
    BY <1>2, <1>3

LEMMA RunEndsKeeps ==
  ASSUME PackageInv, NEW c \in Commands, Package!RunEnds(c)
  PROVE  PackageInv'
  <1>1. /\ dirs' = dirs /\ UNCHANGED Package!place /\ step[c] = "started"
        /\ tested' = tested /\ waived' = waived /\ met' = met /\ smoked \subseteq smoked'
    BY DEF Package!RunEnds, Package!At, Package!place
  <1>2. RecordsGrow /\ MarksHold'
    BY <1>1 DEF RecordsGrow, PackageInv, MarksHold
  <1>3. CASE Package!Fail(c)
    <2>1. Moved(c, "failed", <<>>, Package!Fresh)
      BY <1>3, EndMoves DEF Package!Fail
    <2> QED
      BY <1>1, <1>2, <2>1, EndKeeps
  <1>4. CASE ~Package!Fail(c)
    <2> DEFINE rest == Tail(todo[c])
    <2>1. /\ Package!GoOnWith(c, rest)
          /\ rest # <<>> => mine[c].held \in smoked'
      BY <1>4 DEF Package!RunEnds, Package!GoOn
    <2>2. CASE rest = <<>>
      <3>1. Moved(c, "done", <<>>, Package!Fresh)
        BY <2>1, <2>2, GoOnMoves
      <3> QED
        BY <1>1, <1>2, <3>1, EndKeeps
    <2>3. CASE rest # <<>>
      <3>1. todo[c] \in {<<"run">>, <<"run", "mark">>, <<"run", "mark", "run">>}
        BY <1>1 DEF PackageInv, CommandIsSound, PlanIsOfItsStage, Running, Holding
      <3>2. rest \in {<<"mark">>, <<"mark", "run">>} /\ Head(rest) = "mark"
        <4>1. rest = <<"mark">> \/ rest = <<"mark", "run">>
          BY <2>3, <3>1, Tails
        <4>2. Head(<<"mark">>) = "mark" /\ Head(<<"mark", "run">>) = "mark"
          OBVIOUS
        <4> HIDE DEF rest
        <4> QED
          BY <4>1, <4>2
      <3> HIDE DEF rest
      <3>3. Moved(c, "mark", rest, mine[c])
        BY <2>1, <2>3, <3>2, GoOnMoves DEF Package!First
      <3>4. step'[c] = "mark" /\ todo'[c] = rest /\ mine'[c] = mine[c]
        BY <3>3 DEF Moved
      <3>5. Package!AtPath' = Package!AtPath /\ out' = out
        BY <1>1 DEF Package!AtPath, Package!place
      <3>6. CommandIsSound(c)'
        <4>1. PlanIsOfItsStage(c)'
          BY <3>2, <3>4 DEF PlanIsOfItsStage, Unsealed, Publishing, Checking, Running, Loading,
               Holding, Copying
        <4>2. RunIsSound(c)'
          BY <2>1, <2>3, <3>4 DEF RunIsSound, Holding, Copying
        <4>3. c \notin met => PathIsSeen(c)'
          BY <1>1, <3>4, <3>5 DEF PackageInv, CommandIsSound, PathIsSeen, Holding, Copying
        <4>4. FullIsTested(c)'
          BY <3>4 DEF FullIsTested, Running, Loading, Holding, Copying
        <4> QED
          BY <1>1, <4>1, <4>2, <4>3, <4>4 DEF CommandIsSound
      <3>7. "mark" \notin Unsealed /\ "mark" \notin Publishing
        BY DEF Unsealed, Publishing
      <3> QED
        BY <1>1, <1>2, <3>3, <3>6, <3>7, QuietKeeps
    <2> QED
      BY <2>2, <2>3
  <1> QED
    BY <1>3, <1>4

\* What is marked is what the smoke test went through with, unless it was replaced.
LEMMA MarkKeeps ==
  ASSUME PackageInv, NEW c \in Commands, Package!Mark(c)
  PROVE  PackageInv'
  <1>1. /\ dirs' = dirs /\ UNCHANGED Package!place /\ step[c] = "mark"
        /\ smoked' = smoked /\ waived' = waived /\ met' = met
    BY DEF Package!Mark, Package!At, Package!place
  <1>2. CASE ~Package!Verified(Package!AtPath)
    BY <1>1, <1>2, FailKeeps DEF Package!Mark, Package!gate
  <1>3. CASE Package!Verified(Package!AtPath)
    <2> DEFINE u == [digest |-> Package!AtPath.sums, by |-> c]
    <2>1. /\ tested' = {t \in tested : t.digest # Package!AtPath.sums} \cup {u}
          /\ Package!GoOnWith(c, Tail(todo[c]))
      BY <1>3 DEF Package!Mark, Package!GoOn
    <2>2. u.digest = Package!AtPath.sums /\ u.by = c
      OBVIOUS
    <2> HIDE DEF u
    <2>3. RecordsGrow
      BY <1>1, <2>1, <2>2 DEF RecordsGrow
    <2>4. MarksHold'
      <3>1. c \notin met => Package!AtPath.sums \in smoked
        <4>1. mine[c].held \in smoked /\ (c \notin met => mine[c].held = Package!AtPath.sums)
          BY <1>1 DEF PackageInv, CommandIsSound, RunIsSound, PathIsSeen
        <4> QED
          BY <4>1
      <3> QED
        BY <1>1, <2>1, <2>2, <3>1 DEF PackageInv, MarksHold
    <2>5. out # Package!Nothing
      BY <1>3, VerifiedIsSound
    <2>6. GoodDigest(Package!AtPath.sums)'
      <3>1. Package!AtPath' = Package!AtPath
        BY <1>1 DEF Package!AtPath, Package!place
      <3> QED
        BY <2>1, <2>2, <3>1 DEF GoodDigest
    <2>7. todo[c] \in {<<"mark">>, <<"mark", "run">>}
      BY <1>1 DEF PackageInv, CommandIsSound, PlanIsOfItsStage
    <2>8. Tail(todo[c]) = <<>> \/ Tail(todo[c]) = <<"run">>
      BY <2>7, Tails
    <2>9. CASE Tail(todo[c]) = <<>>
      <3>1. Moved(c, "done", <<>>, Package!Fresh)
        BY <2>1, <2>9, GoOnMoves
      <3> QED
        BY <1>1, <2>3, <2>4, <3>1, EndKeeps
    <2>10. CASE Tail(todo[c]) = <<"run">>
      <3>1. Package!GoOnWith(c, <<"run">>)
        BY <2>1, <2>10
      <3> QED
        BY <1>1, <2>3, <2>4, <2>5, <2>6, <3>1, ToRunKeeps
    <2> QED
      BY <2>8, <2>9, <2>10
  <1> QED
    BY <1>2, <1>3

-----------------------------------------------------------------------------
(* The build: a command writes to a directory that nobody else looks at. *)

LEMMA EmptyDirShape ==
  /\ DOMAIN Package!EmptyDir = {"files", "blobs", "sums", "lock", "checks", "manifest"}
  /\ DOMAIN Package!NoFiles = {"asset", "tasks", "resolved"}
  /\ Package!EmptyDir.files = Package!NoFiles /\ Package!EmptyDir.checks.passed # TRUE
  BY DEF Package!EmptyDir, Package!NoFiles, Package!NoReport

\* A command changes its own directory, which is not at the path.
LEMMA OwnDirKeeps ==
  ASSUME PackageInv, NEW c \in Commands, out # c, NEW there, NEW work, NEW m,
         Moved(c, there, work, m), UNCHANGED <<Package!place, Package!gate>>, CommandIsSound(c)',
         there \in Unsealed \cup Publishing => step[c] \in Unsealed \cup Publishing,
         DOMAIN dirs' = Dirs, \A d \in Dirs \ {c} : dirs'[d] = dirs[d],
         DOMAIN dirs'[c] = DOMAIN Package!EmptyDir, DOMAIN dirs'[c].files = DOMAIN Package!NoFiles,
         dirs'[c].checks.passed = TRUE => dirs'[c].files.tasks \notin Flawed,
         there \in Unsealed => dirs'[c].checks.passed # TRUE
  PROVE  PackageInv'
  <1>1. out' = out /\ aside' = aside /\ met' = met
    BY DEF Package!place
  <1>2. PathIsApart'
    <2>1. \A e \in Commands : step'[e] \in Unsealed \cup Publishing => step[e] \in Unsealed \cup Publishing
      BY DEF Moved
    <2> QED
      BY <1>1, <2>1 DEF PackageInv, PathIsApart
  <1>3. ReportsHold'
    <2>1. ReportsHold
      BY DEF PackageInv
    <2>2. \A d \in Dirs : dirs'[d].checks.passed = TRUE => dirs'[d].files.tasks \notin Flawed
      BY <2>1 DEF ReportsHold
    <2>3. \A e \in Commands : step'[e] \in Unsealed => dirs'[e].checks.passed # TRUE
      BY <2>1 DEF ReportsHold, Moved, Dirs
    <2> QED
      BY <2>2, <2>3 DEF ReportsHold
  <1>4. PackageShape
    BY DEF PackageInv
  <1>5. Package!AtPath' = Package!AtPath
    BY <1>1, <1>4 DEF Package!AtPath, PackageShape
  <1>6. PathKept
    BY <1>1, <1>5 DEF PathKept
  <1>7. RecordsGrow /\ MarksHold'
    BY <1>1, GateStays
  <1>8. \A d \in Dirs : DOMAIN dirs'[d] = DOMAIN Package!EmptyDir
          /\ DOMAIN dirs'[d].files = DOMAIN Package!NoFiles
    BY <1>4 DEF PackageShape
  <1>9. /\ out' \in Dirs \cup {Package!Nothing} /\ DOMAIN aside' = Commands
        /\ \A e \in Commands : aside'[e] \in Dirs \cup {Package!Nothing}
    BY <1>1, <1>4 DEF PackageShape
  <1> QED
    BY <1>2, <1>3, <1>6, <1>7, <1>8, <1>9, MoveKeeps

\* A command ends and its directory is removed.
LEMMA DropKeeps ==
  ASSUME PackageInv, NEW c \in Commands, NEW how \in {"failed", "dead"}, Package!End(c, how),
         out # c, dirs' = Package!Without({c}), UNCHANGED <<Package!place, Package!gate>>
  PROVE  PackageInv'
  <1>1. Moved(c, how, <<>>, Package!Fresh)
    BY EndMoves
  <1>2. CommandIsSound(c)' /\ how \notin Unsealed \cup Publishing
    BY <1>1, EndIsSound DEF Unsealed, Publishing
  <1>3. /\ DOMAIN dirs' = Dirs /\ dirs'[c] = Package!EmptyDir
        /\ \A d \in Dirs \ {c} : dirs'[d] = dirs[d]
    BY DEF Package!Without, PackageInv, PackageShape, Dirs
  <1> QED
    BY <1>1, <1>2, <1>3, EmptyDirShape, OwnDirKeeps

\* What is changed of the directory of the command, before the seal.
LEMMA WriteKeeps ==
  ASSUME PackageInv, NEW c \in Commands, NEW d, NEW there, NEW m, Package!GotoWith(c, there, m),
         DOMAIN m = DOMAIN Package!Fresh, DOMAIN m.run = DOMAIN Package!NoRun,
         {step[c], there} \subseteq Unsealed \ {"idle"},
         dirs' = [dirs EXCEPT ![c] = d], UNCHANGED <<Package!place, Package!gate>>,
         DOMAIN d = DOMAIN Package!EmptyDir, DOMAIN d.files = DOMAIN Package!NoFiles,
         d.checks = dirs[c].checks
  PROVE  PackageInv'
  <1>1. Moved(c, there, todo[c], m)
    BY GotoMoves
  <1>2. CommandIsSound(c)'
    <2>1. step'[c] = there /\ todo'[c] = todo[c] /\ PlanIsOfItsStage(c)
      BY <1>1 DEF Moved, PackageInv, CommandIsSound
    <2>2. PlanIsOfItsStage(c)' /\ step'[c] \notin Running \cup {"mark"}
      BY <2>1 DEF PlanIsOfItsStage, Unsealed, Publishing, Checking, Running, Loading, Holding, Copying
    <2> QED
      BY <2>2, IdleIsSound
  <1>3. step[c] \in Unsealed /\ there \in Unsealed
    OBVIOUS
  <1>4. out # c /\ dirs[c].checks.passed # TRUE
    BY <1>3 DEF PackageInv, PathIsApart, ReportsHold
  <1>5. /\ DOMAIN dirs' = Dirs /\ dirs'[c] = d
        /\ \A e \in Dirs \ {c} : dirs'[e] = dirs[e]
    BY DEF PackageInv, PackageShape, Dirs
  <1> QED
    BY <1>1, <1>2, <1>3, <1>4, <1>5, OwnDirKeeps

LEMMA BuildKeeps ==
  ASSUME PackageInv, NEW c \in Commands,
         Package!LoadAuthoring(c) \/ Package!WriteTasks(c) \/ Package!CopyAsset(c)
  PROVE  PackageInv'
  <1>1. /\ DOMAIN dirs = Dirs /\ c \in Dirs
        /\ DOMAIN dirs[c] = {"files", "blobs", "sums", "lock", "checks", "manifest"}
        /\ DOMAIN dirs[c].files = {"asset", "tasks", "resolved"}
        /\ DOMAIN mine[c] = DOMAIN Package!Fresh /\ DOMAIN mine[c].run = DOMAIN Package!NoRun
    BY EmptyDirShape DEF PackageInv, PackageShape, Dirs
  <1>2. UNCHANGED <<Package!place, Package!gate>>
    BY DEF Package!LoadAuthoring, Package!WriteTasks, Package!CopyAsset
  <1>3. CASE Package!LoadAuthoring(c)
    <2> DEFINE d == [dirs[c] EXCEPT !.files.resolved = src]
    <2>1. dirs' = [dirs EXCEPT ![c] = d] /\ Package!GotoWith(c, "tasks", mine[c]) /\ step[c] = "author"
      BY <1>3 DEF Package!LoadAuthoring, Package!Goto, Package!At
    <2>2. /\ DOMAIN d = DOMAIN Package!EmptyDir /\ DOMAIN d.files = DOMAIN Package!NoFiles
          /\ d.checks = dirs[c].checks
      BY <1>1, EmptyDirShape
    <2> HIDE DEF d
    <2>3. {step[c], "tasks"} \subseteq Unsealed \ {"idle"}
      BY <2>1 DEF Unsealed
    <2> QED
      BY <1>1, <1>2, <2>1, <2>2, <2>3, WriteKeeps
  <1>4. CASE Package!WriteTasks(c)
    <2> DEFINE d == [dirs[c] EXCEPT !.files.tasks = src]
    <2>1. dirs' = [dirs EXCEPT ![c] = d] /\ Package!GotoWith(c, "hash", mine[c]) /\ step[c] = "tasks"
      BY <1>4 DEF Package!WriteTasks, Package!Goto, Package!At
    <2>2. /\ DOMAIN d = DOMAIN Package!EmptyDir /\ DOMAIN d.files = DOMAIN Package!NoFiles
          /\ d.checks = dirs[c].checks
      BY <1>1, EmptyDirShape
    <2> HIDE DEF d
    <2>3. {step[c], "hash"} \subseteq Unsealed \ {"idle"}
      BY <2>1 DEF Unsealed
    <2> QED
      BY <1>1, <1>2, <2>1, <2>2, <2>3, WriteKeeps
  <1>5. CASE Package!CopyAsset(c)
    <2> DEFINE digest == mine[c].hashed
               b == [dirs[c].blobs EXCEPT ![digest] = IF @ = 0 THEN src ELSE @]
               d == [dirs[c] EXCEPT !.blobs = b, !.files.asset = digest]
    <2>1. /\ dirs' = [dirs EXCEPT ![c].blobs[digest] = IF @ = 0 THEN src ELSE @,
                                  ![c].files.asset = digest]
          /\ Package!GotoWith(c, "seal", Package!Fresh) /\ step[c] = "copy"
      BY <1>5 DEF Package!CopyAsset, Package!At
    <2>2. dirs' = [dirs EXCEPT ![c] = d]
      BY <1>1, <2>1
    <2>3. /\ DOMAIN d = DOMAIN Package!EmptyDir /\ DOMAIN d.files = DOMAIN Package!NoFiles
          /\ d.checks = dirs[c].checks
      BY <1>1, EmptyDirShape
    <2> HIDE DEF d
    <2>4. {step[c], "seal"} \subseteq Unsealed \ {"idle"}
      BY <2>1 DEF Unsealed
    <2>5. DOMAIN Package!Fresh.run = DOMAIN Package!NoRun
      BY FreshShape
    <2> QED
      BY <1>1, <1>2, <2>1, <2>2, <2>3, <2>4, <2>5, WriteKeeps
  <1> QED
    BY <1>3, <1>4, <1>5

LEMMA BuildFailsKeeps ==
  ASSUME PackageInv, NEW c \in Commands, Package!BuildFails(c)
  PROVE  PackageInv'
  <1>1. step[c] \in Unsealed
    BY DEF Package!BuildFails, Unsealed
  <1>2. out # c
    BY <1>1 DEF PackageInv, PathIsApart
  <1> QED
    BY <1>2, DropKeeps DEF Package!BuildFails, Package!Fail

\* What is left after the build, and after the publication.
LEMMA BuildTails ==
  /\ Tail(<<"build", "publish", "check">>) = <<"publish", "check">>
  /\ Tail(<<"build", "publish", "register">>) = <<"publish", "register">>
  /\ Tail(<<"build", "publish", "check", "run", "mark">>) = <<"publish", "check", "run", "mark">>
  /\ Tail(<<"publish", "check">>) = <<"check">>
  /\ Tail(<<"publish", "register">>) = <<"register">>
  /\ Tail(<<"publish", "check", "run", "mark">>) = <<"check", "run", "mark">>
  OBVIOUS

LEMMA SealKeeps ==
  ASSUME PackageInv, NEW c \in Commands, Package!Seal(c)
  PROVE  PackageInv'
  <1>1. /\ DOMAIN dirs = Dirs /\ c \in Dirs
        /\ DOMAIN dirs[c] = {"files", "blobs", "sums", "lock", "checks", "manifest"}
        /\ DOMAIN dirs[c].files = {"asset", "tasks", "resolved"}
    BY EmptyDirShape DEF PackageInv, PackageShape, Dirs
  <1>2. /\ UNCHANGED <<Package!place, Package!gate>> /\ step[c] = "seal"
        /\ Package!GoOnWith(c, Tail(todo[c]))
    BY DEF Package!Seal, Package!At, Package!GoOn
  <1> DEFINE rest == Tail(todo[c])
             sums == [files |-> dirs[c].files, blobs |-> dirs[c].blobs]
             report == [of |-> sums, passed |-> dirs[c].files.tasks \notin Flawed]
             d == [dirs[c] EXCEPT !.sums = sums, !.lock = sums, !.checks = report,
                     !.manifest = [digest |-> sums, resolved |-> dirs[c].files.resolved]]
  <1>3. dirs' = [dirs EXCEPT ![c] = d]
    BY <1>1 DEF Package!Seal
  <1>4. report.passed = (dirs[c].files.tasks \notin Flawed)
    BY Zenon
  <1> HIDE DEF report
  <1>5. DOMAIN d = DOMAIN Package!EmptyDir /\ d.files = dirs[c].files /\ d.checks = report
    BY <1>1, EmptyDirShape
  <1> HIDE DEF d
  <1>6. d.checks.passed = TRUE => d.files.tasks \notin Flawed
    BY <1>4, <1>5
  <1>7. /\ DOMAIN dirs' = Dirs /\ dirs'[c] = d
        /\ \A e \in Dirs \ {c} : dirs'[e] = dirs[e]
    BY <1>1, <1>3
  <1>8. rest \in {<<"publish", "check">>, <<"publish", "register">>,
                  <<"publish", "check", "run", "mark">>}
    <2>1. todo[c] \in {<<"build", "publish", "check">>, <<"build", "publish", "register">>,
                       <<"build", "publish", "check", "run", "mark">>}
      BY <1>2 DEF PackageInv, CommandIsSound, PlanIsOfItsStage, Unsealed
    <2> QED
      BY <2>1, BuildTails
  <1> HIDE DEF rest
  <1>9. rest # <<>> /\ Head(rest) = "publish" /\ Package!First("publish") = "look"
    BY <1>8 DEF Package!First
  <1>10. Moved(c, "look", rest, mine[c])
    BY <1>2, <1>9, GoOnMoves DEF rest
  <1>11. CommandIsSound(c)'
    <2>1. step'[c] = "look" /\ todo'[c] = rest
      BY <1>10 DEF Moved
    <2>2. PlanIsOfItsStage(c)' /\ step'[c] \notin Running \cup {"mark"}
      BY <1>8, <2>1 DEF PlanIsOfItsStage, Unsealed, Publishing, Checking, Running, Loading,
           Holding, Copying
    <2> QED
      BY <2>2, IdleIsSound
  <1>12. step[c] \in Unsealed /\ "look" \notin Unsealed
    BY <1>2 DEF Unsealed
  <1>13. out # c
    BY <1>12 DEF PackageInv, PathIsApart
  <1> QED
    BY <1>1, <1>2, <1>5, <1>6, <1>7, <1>10, <1>11, <1>12, <1>13, EmptyDirShape, OwnDirKeeps

-----------------------------------------------------------------------------
(* The publication. *)

\* A directory comes to the path or leaves it, others are removed; those who use the path are
\* noted, or do not see it.
LEMMA PublishKeeps ==
  ASSUME PackageInv, NEW c \in Commands, NEW there, NEW work, NEW m, Moved(c, there, work, m),
         there \notin Unsealed, dirs' = dirs \/ (\E gone : dirs' = Package!Without(gone)),
         UNCHANGED Package!gate, met \subseteq met',
         out' \in Dirs \cup {Package!Nothing}, NEW d \in Dirs \cup {Package!Nothing},
         aside' = [aside EXCEPT ![c] = d], PathIsApart', CommandIsSound(c)',
         \A e \in Commands \ {c} : Package!Uses(e) => e \in met' \/ PathKept
  PROVE  PackageInv'
  <1>1. PackageShape /\ ReportsHold
    BY DEF PackageInv
  <1>2. DOMAIN dirs' = Dirs /\ \A e \in Dirs : dirs'[e] = dirs[e] \/ dirs'[e] = Package!EmptyDir
    BY <1>1 DEF Package!Without, PackageShape
  <1>3. \A e \in Dirs : DOMAIN dirs'[e] = DOMAIN Package!EmptyDir
          /\ DOMAIN dirs'[e].files = DOMAIN Package!NoFiles
    BY <1>1, <1>2, EmptyDirShape DEF PackageShape
  <1>4. ReportsHold'
    <2>1. \A e \in Dirs : dirs'[e].checks.passed = TRUE => dirs'[e].files.tasks \notin Flawed
      BY <1>1, <1>2, EmptyDirShape DEF ReportsHold
    <2>2. \A e \in Commands : step'[e] \in Unsealed => step[e] \in Unsealed
      BY DEF Moved
    <2>3. \A e \in Commands : step'[e] \in Unsealed => dirs'[e].checks.passed # TRUE
      BY <1>1, <1>2, <2>2, EmptyDirShape DEF ReportsHold, Dirs
    <2> QED
      BY <2>1, <2>3 DEF ReportsHold
  <1>5. DOMAIN aside' = Commands /\ \A e \in Commands : aside'[e] \in Dirs \cup {Package!Nothing}
    BY <1>1 DEF PackageShape
  <1>6. RecordsGrow /\ MarksHold'
    BY GateStays
  <1> QED
    BY <1>2, <1>3, <1>4, <1>5, <1>6, MoveKeeps

\* Who uses the path and is not the one who publishes is noted.
LEMMA ReplacedNotes ==
  ASSUME NEW c \in Commands, NEW d, Package!Replaced(c, d)
  PROVE  met \subseteq met' /\ out' = d /\ \A e \in Commands \ {c} : Package!Uses(e) => e \in met'
  BY DEF Package!Replaced

LEMMA MoveAsideKeeps ==
  ASSUME PackageInv, NEW c \in Commands, Package!MoveAside(c)
  PROVE  PackageInv'
  <1>1. step[c] = "aside" /\ step[c] \in Publishing /\ UNCHANGED Package!gate
    BY DEF Package!MoveAside, Package!At, Publishing
  <1>2. PathIsApart /\ PackageShape
    BY DEF PackageInv
  <1>3. CASE Package!Fail(c) /\ dirs' = Package!Without({c}) /\ UNCHANGED Package!place
    <2>1. out # c
      BY <1>1, <1>2 DEF PathIsApart
    <2> QED
      BY <1>1, <1>3, <2>1, DropKeeps DEF Package!Fail
  <1>4. CASE /\ out # Package!Nothing /\ aside' = [aside EXCEPT ![c] = out]
             /\ Package!Replaced(c, Package!Nothing) /\ Package!Goto(c, "place") /\ dirs' = dirs
    <2>1. Moved(c, "place", todo[c], mine[c])
      BY <1>2, <1>4, GotoMoves DEF Package!Goto, PackageShape
    <2>2. CommandIsSound(c)'
      <3>1. step'[c] = "place" /\ todo'[c] = todo[c] /\ PlanIsOfItsStage(c)
        BY <2>1 DEF Moved, PackageInv, CommandIsSound
      <3>2. PlanIsOfItsStage(c)' /\ step'[c] \notin Running \cup {"mark"}
        BY <1>1, <3>1 DEF PlanIsOfItsStage, Unsealed, Publishing, Checking, Running, Loading,
             Holding, Copying
      <3> QED
        BY <3>2, IdleIsSound
    <2>3. PathIsApart'
      <3>1. /\ out' = Package!Nothing /\ aside'[c] = out
            /\ \A e \in Commands \ {c} : aside'[e] = aside[e]
        BY <1>2, <1>4 DEF Package!Replaced, PackageShape
      <3>2. \A e \in Commands : step'[e] \in Unsealed \cup Publishing => step[e] \in Unsealed \cup Publishing
        BY <1>1, <2>1 DEF Moved
      <3>3. \A e \in Commands : e # Package!Nothing
        BY PackageAssumption DEF Package!Nothing
      <3> QED
        BY <1>2, <3>1, <3>2, <3>3 DEF PathIsApart
    <2>4. met \subseteq met' /\ out' = Package!Nothing
            /\ \A e \in Commands \ {c} : Package!Uses(e) => e \in met'
      BY <1>4, ReplacedNotes
    <2>5. out \in Dirs \cup {Package!Nothing} /\ "place" \notin Unsealed
      BY <1>2 DEF PackageShape, Unsealed
    <2> QED
      BY <1>1, <1>4, <2>1, <2>2, <2>3, <2>4, <2>5, PublishKeeps
  <1> QED
    BY <1>3, <1>4 DEF Package!MoveAside

LEMMA PlaceKeeps ==
  ASSUME PackageInv, NEW c \in Commands, Package!Place(c)
  PROVE  PackageInv'
  <1>1. step[c] = "place" /\ step[c] \in Publishing /\ UNCHANGED Package!gate
    BY DEF Package!Place, Package!At, Publishing
  <1>2. PathIsApart /\ PackageShape
    BY DEF PackageInv
  <1>3. CASE Package!Fail(c) /\ dirs' = Package!Without({c}) /\ UNCHANGED Package!place
    <2>1. out # c
      BY <1>1, <1>2 DEF PathIsApart
    <2> QED
      BY <1>1, <1>3, <2>1, DropKeeps DEF Package!Fail
  <1>4. CASE Package!Goto(c, "rollback") /\ dirs' = dirs /\ UNCHANGED Package!place
    <2>1. {step[c], "rollback"} \subseteq Publishing
      BY <1>1 DEF Publishing
    <2> QED
      BY <1>1, <1>2, <1>4, <2>1, GotoKeeps DEF Package!Goto, PackageShape
  <1>5. CASE /\ out = Package!Nothing /\ Package!Replaced(c, c) /\ dirs' = Package!Without({aside[c]})
             /\ aside' = [aside EXCEPT ![c] = Package!Nothing]
             /\ Package!GoOn(c) \/ Package!Fail(c)
    <2> DEFINE rest == Tail(todo[c])
    <2>1. PICK there, work, m :
            /\ Moved(c, there, work, m)
            /\ \/ there = "failed" /\ work = <<>>
               \/ there = "digest" /\ work \in {<<"check">>, <<"check", "run", "mark">>}
               \/ there = "register" /\ work = <<"register">>
      <3>1. CASE Package!Fail(c)
        <4>1. Moved(c, "failed", <<>>, Package!Fresh)
          BY <3>1, EndMoves DEF Package!Fail
        <4> QED
          BY <4>1
      <3>2. CASE Package!GoOn(c)
        <4>1. todo[c] \in {<<"publish", "check">>, <<"publish", "register">>,
                           <<"publish", "check", "run", "mark">>}
          BY <1>1 DEF PackageInv, CommandIsSound, PlanIsOfItsStage
        <4>2. rest \in {<<"check">>, <<"register">>, <<"check", "run", "mark">>}
          BY <4>1, BuildTails
        <4>3. Package!GoOnWith(c, rest)
          BY <3>2 DEF Package!GoOn
        <4> HIDE DEF rest
        <4>4. /\ rest # <<>>
              /\ \/ Head(rest) = "check" /\ rest \in {<<"check">>, <<"check", "run", "mark">>}
                 \/ Head(rest) = "register" /\ rest = <<"register">>
          BY <4>2
        <4>5. Package!First("check") = "digest" /\ Package!First("register") = "register"
          BY DEF Package!First
        <4>6. Moved(c, Package!First(Head(rest)), rest, mine[c])
          BY <4>3, <4>4, GoOnMoves
        <4> QED
          BY <4>4, <4>5, <4>6
      <3> QED
        BY <1>5, <3>1, <3>2
    <2>2. step'[c] = there /\ todo'[c] = work
      BY <2>1 DEF Moved
    <2>3. there \notin Unsealed \cup Publishing
      BY <2>1 DEF Unsealed, Publishing
    <2>4. CommandIsSound(c)'
      <3>1. PlanIsOfItsStage(c)' /\ step'[c] \notin Running \cup {"mark"}
        BY <2>1, <2>2 DEF PlanIsOfItsStage, Unsealed, Publishing, Checking, Running, Loading,
             Holding, Copying
      <3> QED
        BY <3>1, IdleIsSound
    <2>5. PathIsApart'
      <3>1. /\ out' = c /\ aside'[c] = Package!Nothing
            /\ \A e \in Commands \ {c} : aside'[e] = aside[e]
        BY <1>2, <1>5 DEF Package!Replaced, PackageShape
      <3>2. \A e \in Commands : step'[e] \in Unsealed \cup Publishing =>
              e # c /\ step[e] \in Unsealed \cup Publishing
        BY <2>1, <2>2, <2>3 DEF Moved
      <3>3. \A e \in Commands : e # Package!Nothing /\ aside[e] # c
        BY <1>1, <1>2, PackageAssumption DEF Package!Nothing, PathIsApart
      <3> QED
        BY <1>2, <3>1, <3>2, <3>3 DEF PathIsApart
    <2>6. met \subseteq met' /\ out' = c /\ \A e \in Commands \ {c} : Package!Uses(e) => e \in met'
      BY <1>5, ReplacedNotes
    <2>7. c \in Dirs
      BY DEF Dirs
    <2> QED
      BY <1>1, <1>5, <2>1, <2>3, <2>4, <2>5, <2>6, <2>7, PublishKeeps
  <1> QED
    BY <1>3, <1>4, <1>5 DEF Package!Place

LEMMA RollbackKeeps ==
  ASSUME PackageInv, NEW c \in Commands, Package!Rollback(c)
  PROVE  PackageInv'
  <1>1. /\ step[c] = "rollback" /\ step[c] \in Publishing /\ UNCHANGED Package!gate /\ Package!Fail(c)
        /\ aside' = [aside EXCEPT ![c] = Package!Nothing]
    BY DEF Package!Rollback, Package!At, Publishing
  <1>2. PathIsApart /\ PackageShape
    BY DEF PackageInv
  <1>3. Moved(c, "failed", <<>>, Package!Fresh)
    BY <1>1, EndMoves DEF Package!Fail
  <1>4. CommandIsSound(c)' /\ "failed" \notin Unsealed \cup Publishing
    BY <1>3, EndIsSound DEF Unsealed, Publishing
  <1>5. aside'[c] = Package!Nothing /\ \A e \in Commands \ {c} : aside'[e] = aside[e]
    BY <1>1, <1>2 DEF PackageShape
  <1>6. \A e \in Commands : step'[e] \in Unsealed \cup Publishing => step[e] \in Unsealed \cup Publishing
    BY <1>3, <1>4 DEF Moved
  <1>7. \A e \in Commands : e # Package!Nothing
    BY PackageAssumption DEF Package!Nothing
  <1>8. out \in Dirs \cup {Package!Nothing} /\ aside[c] \in Dirs \cup {Package!Nothing}
    BY <1>2 DEF PackageShape
  <1>9. CASE out = Package!Nothing /\ Package!Replaced(c, aside[c]) /\ dirs' = Package!Without({c})
    <2>1. /\ met \subseteq met' /\ out' = aside[c]
          /\ \A e \in Commands \ {c} : Package!Uses(e) => e \in met'
      BY <1>9, ReplacedNotes
    <2>2. PathIsApart'
      BY <1>2, <1>5, <1>6, <1>7, <2>1 DEF PathIsApart
    <2> QED
      BY <1>1, <1>3, <1>4, <1>8, <1>9, <2>1, <2>2, PublishKeeps
  <1>10. CASE dirs' = Package!Without({c, aside[c]}) /\ out' = out /\ met' = met
    <2>1. PathIsApart'
      BY <1>2, <1>5, <1>6, <1>7, <1>10 DEF PathIsApart
    <2>2. PathKept
      <3>1. out # Package!Nothing => out # c /\ out # aside[c]
        BY <1>1, <1>2 DEF PathIsApart
      <3>2. Package!AtPath' = Package!AtPath
        BY <1>2, <1>8, <1>10, <3>1 DEF Package!AtPath, Package!Without, PackageShape
      <3> QED
        BY <1>10, <3>2 DEF PathKept
    <2> QED
      BY <1>1, <1>3, <1>4, <1>8, <1>10, <2>1, <2>2, PublishKeeps
  <1> QED
    BY <1>9, <1>10 DEF Package!Rollback

-----------------------------------------------------------------------------
(* The report, the end of a process, and all steps together. *)

\* The report of a check replaces the one at the path, and nothing else of the package.
LEMMA WriteReportKeeps ==
  ASSUME PackageInv, NEW c \in Commands, Package!WriteReport(c)
  PROVE  PackageInv'
  <1>1. /\ step[c] = "report" /\ UNCHANGED <<Package!place, Package!gate>> /\ out' = out
        /\ aside' = aside
        /\ met' = met
    BY DEF Package!WriteReport, Package!At, Package!place
  <1>2. PathIsApart /\ PackageShape /\ ReportsHold
    BY DEF PackageInv
  <1>3. CASE out = Package!Nothing
    BY <1>1, <1>3, FailKeeps DEF Package!WriteReport
  <1>4. CASE out # Package!Nothing
    <2> DEFINE report == [of |-> mine[c].held, passed |-> dirs[out].files.tasks \notin Flawed]
               d == [dirs[out] EXCEPT !.checks = report]
    <2>1. out \in Dirs /\ Package!AtPath = dirs[out]
      BY <1>2, <1>4 DEF PackageShape, Package!AtPath
    <2>2. dirs' = [dirs EXCEPT ![out] = d]
      BY <1>4, <2>1 DEF Package!WriteReport
    <2>3. report.passed = (dirs[out].files.tasks \notin Flawed)
      BY Zenon
    <2> HIDE DEF report
    <2>4. /\ DOMAIN dirs[out] = {"files", "blobs", "sums", "lock", "checks", "manifest"}
          /\ DOMAIN dirs[out].files = DOMAIN Package!NoFiles
      BY <1>2, <2>1, EmptyDirShape DEF PackageShape
    <2>5. /\ DOMAIN d = DOMAIN Package!EmptyDir /\ d.files = dirs[out].files /\ d.checks = report
          /\ d.sums = dirs[out].sums /\ d.lock = dirs[out].lock
      BY <2>4, EmptyDirShape
    <2> HIDE DEF d
    <2>6. /\ DOMAIN dirs' = Dirs /\ dirs'[out] = d
          /\ \A e \in Dirs \ {out} : dirs'[e] = dirs[e]
      BY <1>2, <2>1, <2>2 DEF PackageShape
    <2>7. PathKept
      BY <1>1, <1>4, <2>1, <2>5, <2>6 DEF PathKept, Package!AtPath
    <2>8. RecordsGrow /\ MarksHold'
      BY <1>1, GateStays
    <2>9. PICK there, work, m :
            /\ Moved(c, there, work, m)
            /\ there \in {"failed", "done"} \/ (there = "load" /\ work = <<"run", "mark">>)
      <3>1. CASE Package!Fail(c)
        <4>1. Moved(c, "failed", <<>>, Package!Fresh)
          BY <3>1, EndMoves DEF Package!Fail
        <4> QED
          BY <4>1
      <3>2. CASE Package!GoOn(c)
        <4> DEFINE rest == Tail(todo[c])
        <4>1. todo[c] \in {<<"check">>, <<"check", "run", "mark">>}
          BY <1>1 DEF PackageInv, CommandIsSound, PlanIsOfItsStage, Checking
        <4>2. rest = <<>> \/ rest = <<"run", "mark">>
          BY <4>1, Tails
        <4>3. Package!GoOnWith(c, rest)
          BY <3>2 DEF Package!GoOn
        <4> HIDE DEF rest
        <4>4. /\ <<"run", "mark">> # <<>> /\ Head(<<"run", "mark">>) = "run"
              /\ Package!First("run") = "load"
          BY DEF Package!First
        <4>5. Moved(c, "done", <<>>, Package!Fresh) \/ Moved(c, "load", <<"run", "mark">>, mine[c])
          BY <4>2, <4>3, <4>4, GoOnMoves
        <4> QED
          BY <4>5
      <3> QED
        BY <1>4, <3>1, <3>2 DEF Package!WriteReport
    <2>10. step'[c] = there /\ todo'[c] = work /\ there \notin Unsealed \cup Publishing
      BY <2>9 DEF Moved, Unsealed, Publishing
    <2>11. CommandIsSound(c)'
      <3>1. CASE there \in {"failed", "done"}
        <4>1. PlanIsOfItsStage(c)' /\ step'[c] \notin Running \cup {"mark"}
          BY <2>10, <3>1 DEF PlanIsOfItsStage, Unsealed, Publishing, Checking, Running, Loading,
               Holding, Copying
        <4> QED
          BY <4>1, IdleIsSound
      <3>2. CASE there = "load" /\ work = <<"run", "mark">>
        <4>1. Tail(<<"run", "mark">>) # <<>>
          BY Tails
        <4> QED
          BY <2>10, <3>2, <4>1, LoadIsSound
      <3> QED
        BY <2>9, <3>1, <3>2
    <2>12. \A e \in Commands : step'[e] \in Unsealed \cup Publishing =>
              e # c /\ step[e] = step'[e]
      BY <2>9, <2>10 DEF Moved
    <2>13. PathIsApart'
      BY <1>1, <1>2, <2>12 DEF PathIsApart
    <2>14. ReportsHold'
      <3>1. \A e \in Dirs : dirs'[e].checks.passed = TRUE => dirs'[e].files.tasks \notin Flawed
        BY <1>2, <2>3, <2>5, <2>6 DEF ReportsHold
      <3>2. \A e \in Commands : step'[e] \in Unsealed => dirs'[e].checks.passed # TRUE
        <4>1. \A e \in Commands : step'[e] \in Unsealed => e # out /\ step[e] \in Unsealed /\ e \in Dirs
          BY <1>2, <2>12 DEF PathIsApart, Dirs
        <4> QED
          BY <1>2, <2>6, <4>1 DEF ReportsHold
      <3> QED
        BY <3>1, <3>2 DEF ReportsHold
    <2>15. \A e \in Dirs : DOMAIN dirs'[e] = DOMAIN Package!EmptyDir
             /\ DOMAIN dirs'[e].files = DOMAIN Package!NoFiles
      BY <1>2, <2>4, <2>5, <2>6 DEF PackageShape
    <2>16. /\ out' \in Dirs \cup {Package!Nothing} /\ DOMAIN aside' = Commands
           /\ \A e \in Commands : aside'[e] \in Dirs \cup {Package!Nothing}
      BY <1>1, <1>2 DEF PackageShape
    <2> QED
      BY <2>6, <2>7, <2>8, <2>9, <2>11, <2>13, <2>14, <2>15, <2>16, MoveKeeps
  <1> QED
    BY <1>3, <1>4

LEMMA CrashKeeps ==
  ASSUME PackageInv, NEW c \in Commands, Package!Crash(c)
  PROVE  PackageInv'
  <1>1. Package!End(c, "dead") /\ UNCHANGED <<Package!place, Package!gate>>
    BY DEF Package!Crash
  <1>2. CASE dirs' = dirs
    <2>1. Moved(c, "dead", <<>>, Package!Fresh)
      BY <1>1, EndMoves
    <2>2. RecordsGrow /\ MarksHold'
      BY <1>1, GateStays DEF Package!place
    <2> QED
      BY <1>1, <1>2, <2>1, <2>2, EndKeeps
  <1>3. CASE dirs' # dirs
    <2>1. dirs' = Package!Without({c}) /\ out # c
      BY <1>3 DEF Package!Crash
    <2> QED
      BY <1>1, <2>1, DropKeeps
  <1> QED
    BY <1>2, <1>3

LEMMA PackageStays ==
  ASSUME PackageInv, UNCHANGED <<dirs, Package!place, todo, step, mine, Package!gate>>
  PROVE  PackageInv'
  <1>1. /\ dirs' = dirs /\ out' = out /\ aside' = aside /\ met' = met /\ todo' = todo /\ step' = step
        /\ mine' = mine /\ tested' = tested /\ smoked' = smoked /\ waived' = waived
    BY DEF Package!place, Package!gate
  <1>2. Package!AtPath' = Package!AtPath
    BY <1>1 DEF Package!AtPath
  <1>3. \A c \in Commands : CommandIsSound(c)'
    BY <1>1, <1>2 DEF PackageInv, CommandIsSound, PlanIsOfItsStage, RunIsSound, PathIsSeen,
         FullIsTested, HeldIsSound, Package!OfOnePackage, GoodDigest, Package!Payload
  <1> QED
    BY <1>1, <1>3 DEF PackageInv, PackageShape, PathIsApart, ReportsHold, MarksHold

\* Every step keeps the invariant.
LEMMA PackageStep == PackageInv /\ [Package!Next]_Package!vars => PackageInv'
  <1> SUFFICES ASSUME PackageInv, [Package!Next]_Package!vars PROVE PackageInv'
    OBVIOUS
  <1>1. CASE UNCHANGED Package!vars
    BY <1>1, PackageStays DEF Package!vars, Package!place, Package!gate
  <1>2. CASE Package!Edit
    BY <1>2, PackageStays DEF Package!Edit
  <1>3. ASSUME NEW c \in Commands, Package!Step(c) PROVE PackageInv'
    <2>1. CASE Package!Begin(c) \/ Package!LoadAuthoring(c) \/ Package!WriteTasks(c)
               \/ Package!HashAsset(c) \/ Package!CopyAsset(c)
               \/ Package!Seal(c) \/ Package!BuildFails(c)
      BY <2>1, PackageBeginKeeps, BuildKeeps, BuildQuietKeeps, SealKeeps, BuildFailsKeeps
    <2>2. CASE Package!Look(c) \/ Package!MoveAside(c) \/ Package!Place(c) \/ Package!Rollback(c)
      BY <2>2, BuildQuietKeeps, MoveAsideKeeps, PlaceKeeps, RollbackKeeps
    <2>3. CASE Package!ReadDigest(c) \/ Package!CheckVerifies(c) \/ Package!WriteReport(c)
               \/ Package!Register(c) \/ Package!Gate(c)
      BY <2>3, BuildQuietKeeps, WriteReportKeeps, GateKeeps
    <2>4. CASE Package!LoadForRun(c) \/ Package!VerifyAgain(c) \/ Package!CopyPayload(c)
               \/ Package!CopyLock(c) \/ Package!RunEnds(c)
               \/ Package!Mark(c) \/ Package!Crash(c)
      BY <2>4, LoadKeeps, VerifyAgainKeeps, CopyKeeps, RunEndsKeeps, MarkKeeps, CrashKeeps
    <2> QED
      BY <1>3, <2>1, <2>2, <2>3, <2>4 DEF Package!Step
  <1> QED
    BY <1>1, <1>2, <1>3 DEF Package!Next

\* What the invariant says of a run that has started.
LEMMA PackageIsSealed ==
  ASSUME PackageInv
  PROVE  Package!RunHoldsItsSeal /\ Package!RunIsOfOnePackage /\ Package!FullRunWasSmoked
  <1>1. \A c \in Commands : CommandIsSound(c)
    BY DEF PackageInv
  <1>2. Package!RunHoldsItsSeal
    <2> SUFFICES ASSUME NEW c \in Commands, step[c] = "started"
                 PROVE  /\ mine[c].run.files = Package!Payload(mine[c].held.files)
                        /\ mine[c].run.blobs = mine[c].held.blobs
                        /\ mine[c].run.blobs[mine[c].run.files.asset] = mine[c].run.files.asset
                        /\ mine[c].run.files.tasks \notin Flawed
      BY DEF Package!RunHoldsItsSeal, Package!Started
    <2>1. /\ mine[c].run.files = Package!Payload(mine[c].held.files)
          /\ mine[c].run.blobs = mine[c].held.blobs
          /\ HeldIsSound(mine[c].held)
      BY <1>1 DEF CommandIsSound, RunIsSound, Holding, Copying
    <2> DEFINE f == mine[c].held.files
    <2>2. DOMAIN f = {"asset", "tasks", "resolved"}
      BY <2>1, EmptyDirShape DEF HeldIsSound
    <2>3. Package!Payload(f).asset = f.asset /\ Package!Payload(f).tasks = f.tasks
      BY <2>2 DEF Package!Payload
    <2> QED
      BY <2>1, <2>3 DEF HeldIsSound
  <1>3. Package!RunIsOfOnePackage
    BY <1>1 DEF Package!RunIsOfOnePackage, Package!Started, CommandIsSound, PathIsSeen
  <1>4. Package!FullRunWasSmoked
    <2>1. \A t \in tested : t.by \notin met => t.digest \in smoked
      BY DEF PackageInv, MarksHold
    <2>2. \A c \in Commands \ (met \cup waived) : step[c] = "started" /\ Tail(todo[c]) = <<>> =>
            GoodDigest(mine[c].held)
      BY <1>1 DEF CommandIsSound, FullIsTested, Running, Loading, Holding, Copying
    <2> QED
      BY <2>1, <2>2 DEF Package!FullRunWasSmoked, GoodDigest, Package!Started
  <1> QED
    BY <1>2, <1>3, <1>4

\* For any number of commands, edits and flawed versions: a run that starts has the payload of
\* one package that was verified, and unless the package was replaced under the command its
\* experiment and lock are of that package, which has been through a smoke test or was waived
\* (copy_verified_package_payload_for_run, resolve_run_validation_action,
\* mark_experiment_bundle_smoke_tested).
THEOREM StartedRunsAreSealed == Package!Spec => []StartedRunIsItsPackage
  <1>1. Package!Spec => []PackageInv
    BY PackageBegins, PackageStep, PTL DEF Package!Spec
  <1>2. PackageInv => StartedRunIsItsPackage
    BY PackageIsSealed DEF StartedRunIsItsPackage
  <1> QED
    BY <1>1, <1>2, PTL

-----------------------------------------------------------------------------
(* Reruns and recovery. *)

\* A rerun has its id.
Attempting == {"prepare", "start", "agent", "input", "output", "operation", "close", "returned"}

Writers == Reruns \cup {Rerun!NoOne}

RerunTypes ==
  /\ now \in Rerun!Seconds /\ paused \subseteq Rerun!Slots
  /\ DOMAIN at = Rerun!Callers /\ DOMAIN second = Reruns /\ DOMAIN call = Reruns
  /\ DOMAIN phase = Rerun!Rows /\ DOMAIN recorded = Rerun!Rows /\ DOMAIN slot = Rerun!Slots
  /\ objects \in [Rerun!RerunIds -> [input : Writers, output : Writers]]
  /\ DOMAIN op_rows = {"replay", "fork"} \X Rerun!Seconds
  /\ DOMAIN plan = Recoveries /\ \A o \in Recoveries : plan[o] \subseteq Rerun!Rows
  /\ \A o \in Reruns : call[o].of \in Rerun!Slots

\* The second of a rerun is set once, when its id is made.
IdsAreMade ==
  \A o \in Reruns :
    /\ second[o] \in Rerun!Seconds \cup {Rerun!Unset}
    /\ at[o] \in {"idle", "mint"} => second[o] = Rerun!Unset
    /\ at[o] \in Attempting => second[o] \in Rerun!Seconds

\* What a rerun has put is what is there, unless another has the same second.
ResultsAreKept ==
  \A o \in Reruns : (\A p \in Reruns : ~Rerun!SameSecond(o, p)) =>
    /\ at[o] \in {"output", "operation", "close", "returned"} => objects[Rerun!Id(o)].input = o
    /\ at[o] \in {"operation", "close", "returned"} => objects[Rerun!Id(o)].output = o
    /\ at[o] \in {"close", "returned"} => op_rows[Rerun!OpKey(o)] = o

\* The checks may come out in the ways that were computed, and no resume is unfound.
AnswersHold ==
  /\ answers = [replay |-> Rerun!ReplayOutcomes, fork |-> Rerun!ForkOutcomes,
                resume |-> Rerun!ResumeOutcomes]
  /\ Rerun!ResumeFindsItsCheckpoint

\* A recovery has only rows before it that have a phase and are not of paused trials; the
\* runtime of a trial is on record.
PlansAreSound ==
  /\ \A o \in Recoveries, r \in Rerun!Rows : r \in plan[o] =>
       phase[r] # "none" /\ \A s \in paused : r # Rerun!Trial(s)
  /\ \A s \in Rerun!Slots : recorded[Rerun!Trial(s)] # "none"

RerunInv ==
  /\ RerunTypes /\ IdsAreMade /\ ResultsAreKept /\ AnswersHold /\ PlansAreSound
  /\ Rerun!PausedTrialKeepsItsSlot /\ Rerun!StuckByRerun

-----------------------------------------------------------------------------
\* A name that resume selects is in the output.
LEMMA ResumeIsFound == "unfound" \notin Rerun!ResumeOutcomes
  <1> SUFFICES ASSUME NEW r \in Rerun!Records, NEW label, NEW strict,
                      NEW n \in Rerun!resolve_resume_selector(r.checkpoints, label)
               PROVE  Rerun!Outcome("resume", r, Rerun!ByName(n), strict) # "unfound"
    BY DEF Rerun!ResumeOutcomes
  <1> DEFINE cps == r.checkpoints
  <1>1. Rerun!ResumeChoice(cps) \subseteq DOMAIN cps
    BY DEF Rerun!ResumeChoice, Rerun!HighestStep
  <1>2. \E i \in DOMAIN cps : cps[i].name = n
    BY <1>1 DEF Rerun!resolve_resume_selector
  <1>3. Rerun!Selected(cps, Rerun!ByName(n))
    BY <1>2 DEF Rerun!Selected, Rerun!ByName
  <1> QED
    BY <1>3 DEF Rerun!Outcome

LEMMA RowKinds ==
  /\ \A s \in Rerun!Slots : Rerun!Trial(s) \in Rerun!Rows /\ Rerun!Trial(s) \in Rerun!Trials
    /\ Rerun!Trial(s) \notin Rerun!RerunIds
                      /\ Rerun!Trial(s).of = s
  /\ \A r \in Rerun!RerunIds : r \in Rerun!Rows /\ r \notin Rerun!Trials
  /\ \A r \in Rerun!Rows \ Rerun!Trials : r \in Rerun!RerunIds
  /\ \A r \in Rerun!Trials : \E s \in Rerun!Slots : r = Rerun!Trial(s)
  /\ \A s, t \in Rerun!Slots : Rerun!Trial(s) = Rerun!Trial(t) => s = t
  <1>1. \A s : Rerun!Trial(s).kind = "trial" /\ Rerun!Trial(s).of = s
    BY DEF Rerun!Trial
  <1>2. \A r \in Rerun!RerunIds : r.kind \in {"replay", "fork"}
    BY DEF Rerun!RerunIds
  <1> QED
    BY <1>1, <1>2 DEF Rerun!Trials, Rerun!Rows

LEMMA RerunBegins == Rerun!Init => RerunInv
  <1> SUFFICES ASSUME Rerun!Init PROVE RerunInv
    OBVIOUS
  <1>1. 0 \in Rerun!Seconds /\ Rerun!Unset \notin Rerun!Seconds
    BY RerunAssumption DEF Rerun!Seconds, Rerun!Unset
  <1>2. /\ at = [o \in Rerun!Callers |-> "idle"] /\ call = [o \in Reruns |-> Rerun!NoCall]
        /\ second = [o \in Reruns |-> Rerun!Unset] /\ plan = [o \in Recoveries |-> {}] /\ now = 0
        /\ objects = [r \in Rerun!RerunIds |-> [input |-> Rerun!NoOne, output |-> Rerun!NoOne]]
        /\ op_rows = [k \in {"replay", "fork"} \X Rerun!Seconds |-> Rerun!NoOne]
        /\ slot = [s \in Rerun!Slots |-> IF phase[Rerun!Trial(s)] = "committed" THEN "committed" ELSE "active"]
        /\ paused = {s \in Rerun!Slots : phase[Rerun!Trial(s)] = "paused"}
        /\ answers = [replay |-> Rerun!ReplayOutcomes, fork |-> Rerun!ForkOutcomes,
                resume |-> Rerun!ResumeOutcomes]
        /\ recorded = [r \in Rerun!Rows |-> IF r \in box THEN "live"
                                      ELSE IF r \in Rerun!Trials THEN "removed" ELSE "none"]
    BY DEF Rerun!Init
  <1>3. DOMAIN phase = Rerun!Rows
    BY DEF Rerun!Init
  <1>4. \A o \in Reruns : at[o] = "idle" /\ call[o].of = 0
    BY <1>2 DEF Rerun!Callers, Rerun!NoCall
  <1>5. RerunTypes
    <2>1. objects \in [Rerun!RerunIds -> [input : Writers, output : Writers]]
      BY <1>2 DEF Writers
    <2> QED
      BY <1>1, <1>2, <1>3, <1>4, <2>1 DEF RerunTypes, Rerun!Slots
  <1>6. IdsAreMade
    BY <1>2, <1>4 DEF IdsAreMade, Attempting
  <1>7. ResultsAreKept
    BY <1>4 DEF ResultsAreKept
  <1>8. AnswersHold
    BY <1>2, <1>4 DEF AnswersHold, Rerun!ResumeFindsItsCheckpoint
  <1>9. PlansAreSound
    BY <1>2, RowKinds DEF PlansAreSound
  <1>10. Rerun!PausedTrialKeepsItsSlot
    BY <1>2 DEF Rerun!PausedTrialKeepsItsSlot
  <1>11. Rerun!StuckByRerun
    BY <1>2 DEF Rerun!StuckByRerun, Rerun!Callers
  <1> QED
    BY <1>5, <1>6, <1>7, <1>8, <1>9, <1>10, <1>11 DEF RerunInv

-----------------------------------------------------------------------------
\* The id of a rerun that has one.
LEMMA IdIsOne ==
  ASSUME RerunTypes, NEW o \in Reruns, second[o] \in Rerun!Seconds
  PROVE  /\ Rerun!Kind(o) \in {"replay", "fork"} /\ Rerun!Id(o) \in Rerun!RerunIds
    /\ Rerun!OpKey(o) \in DOMAIN op_rows
         /\ Rerun!Id(o).kind = Rerun!Kind(o) /\ Rerun!Id(o).at = second[o]
  BY DEF RerunTypes, Rerun!Kind, Rerun!Id, Rerun!RerunIds, Rerun!OpKey

\* A rerun that has its id keeps it, with what it was asked for.
LEMMA IdsStay ==
  ASSUME RerunInv, Rerun!Next, NEW o \in Reruns, second[o] \in Rerun!Seconds
  PROVE  second'[o] = second[o] /\ call'[o] = call[o]
  <1>1. Rerun!Unset \notin Rerun!Seconds
    BY RerunAssumption DEF Rerun!Seconds, Rerun!Unset
  <1>2. at[o] \notin {"idle", "mint"}
    BY <1>1 DEF RerunInv, IdsAreMade
  <1>3. CASE \E p \in Reruns : Rerun!Begin(p)
    BY <1>2, <1>3 DEF RerunInv, RerunTypes, Rerun!Begin, Rerun!Enter, Rerun!Goto
  <1>4. CASE \E p \in Reruns : Rerun!Mint(p)
    BY <1>2, <1>4 DEF RerunInv, RerunTypes, Rerun!Mint, Rerun!Goto
  <1>5. CASE ~\E p \in Reruns : Rerun!Begin(p) \/ Rerun!Mint(p)
    BY <1>5 DEF Rerun!Next, Rerun!RerunStep, Rerun!RecoverStep, Rerun!Prepare, Rerun!Start,
       Rerun!AgentEnds, Rerun!PutInput, Rerun!PutOutput,
         Rerun!PutOperation, Rerun!Return, Rerun!Fails, Rerun!RecoverBegin, Rerun!ReconcileRow,
         Rerun!ReconcileFails, Rerun!Sweep, Rerun!Crash, Rerun!Tick
  <1> QED
    BY <1>3, <1>4, <1>5

\* The checks come out in one of three ways.
LEMMA OutcomesAre ==
  Rerun!ReplayOutcomes \cup Rerun!ForkOutcomes \cup Rerun!ResumeOutcomes \subseteq {"mint", "unfound",
  "refused"}
  BY DEF Rerun!ReplayOutcomes, Rerun!ForkOutcomes, Rerun!ResumeOutcomes, Rerun!Outcome

LEMMA BeginEnters ==
  ASSUME RerunInv, NEW o \in Reruns, Rerun!Begin(o)
  PROVE  \E kind \in {"replay", "fork", "resume"}, s \in Rerun!Slots, to \in {"mint", "unfound",
  "refused"} :
           Rerun!Enter(o, kind, s, to) /\ (kind = "resume" => to # "unfound")
  <1>1. /\ answers.replay = Rerun!ReplayOutcomes /\ answers.fork = Rerun!ForkOutcomes
        /\ answers.resume = Rerun!ResumeOutcomes
    BY DEF RerunInv, AnswersHold
  <1>2. PICK s \in Rerun!Slots :
          \/ \E to \in Rerun!ReplayOutcomes : Rerun!Enter(o, "replay", s, to)
          \/ \E to \in Rerun!ForkOutcomes : Rerun!Enter(o, "fork", s, to)
          \/ \E to \in Rerun!ResumeOutcomes : Rerun!Enter(o, "resume", s, to)
    BY <1>1 DEF Rerun!Begin
  <1>3. CASE \E to \in Rerun!ReplayOutcomes : Rerun!Enter(o, "replay", s, to)
    BY <1>3, OutcomesAre
  <1>4. CASE \E to \in Rerun!ForkOutcomes : Rerun!Enter(o, "fork", s, to)
    BY <1>4, OutcomesAre
  <1>5. CASE \E to \in Rerun!ResumeOutcomes : Rerun!Enter(o, "resume", s, to)
    BY <1>5, OutcomesAre, ResumeIsFound
  <1> QED
    BY <1>2, <1>3, <1>4, <1>5

LEMMA RerunTypesStep ==
  ASSUME RerunInv, Rerun!Next
  PROVE  RerunTypes'
  <1> USE DEF RerunTypes
  <1>1. RerunTypes
    BY DEF RerunInv
  <1>2. ASSUME NEW o \in Reruns, Rerun!Begin(o) PROVE RerunTypes'
    <2>1. PICK kind \in {"replay", "fork", "resume"}, s \in Rerun!Slots,
               to \in {"mint", "unfound", "refused"} : Rerun!Enter(o, kind, s, to)
      BY <1>2, BeginEnters
    <2> QED
      BY <1>1, <1>2, <2>1 DEF Rerun!Begin, Rerun!Enter, Rerun!Goto, Rerun!tables, Rerun!results,
         Rerun!recovery
  <1>3. ASSUME NEW o \in Reruns, Rerun!Mint(o) PROVE RerunTypes'
    BY <1>1, <1>3 DEF Rerun!Mint, Rerun!Goto, Rerun!tables, Rerun!results, Rerun!recovery
  <1>4. ASSUME NEW o \in Reruns,
        Rerun!Prepare(o) \/ Rerun!Start(o) \/ Rerun!AgentEnds(o) PROVE RerunTypes'
    BY <1>1, <1>4 DEF Rerun!Prepare, Rerun!Start, Rerun!AgentEnds, Rerun!CleanUp, Rerun!Goto,
       Rerun!results, Rerun!recovery
  <1>5. ASSUME NEW o \in Reruns, Rerun!PutInput(o) PROVE RerunTypes'
    <2>1. objects' \in [Rerun!RerunIds -> [input : Writers, output : Writers]]
      BY <1>1, <1>5 DEF Rerun!PutInput, Writers
    <2> QED
      BY <1>1, <1>5, <2>1 DEF Rerun!PutInput, Rerun!Goto, Rerun!tables, Rerun!recovery
  <1>6. ASSUME NEW o \in Reruns, Rerun!PutOutput(o) PROVE RerunTypes'
    <2>1. objects' \in [Rerun!RerunIds -> [input : Writers, output : Writers]]
      BY <1>1, <1>6 DEF Rerun!PutOutput, Writers
    <2> QED
      BY <1>1, <1>6, <2>1 DEF Rerun!PutOutput, Rerun!Goto, Rerun!tables, Rerun!recovery
  <1>7. ASSUME NEW o \in Reruns, Rerun!PutOperation(o) PROVE RerunTypes'
    BY <1>1, <1>7 DEF Rerun!PutOperation, Rerun!Goto, Rerun!tables, Rerun!recovery
  <1>8. ASSUME NEW o \in Reruns, Rerun!Return(o) PROVE RerunTypes'
    BY <1>1, <1>8 DEF Rerun!Return, Rerun!Goto, Rerun!tables, Rerun!results, Rerun!recovery
  <1>9. ASSUME NEW o \in Reruns, Rerun!Fails(o) PROVE RerunTypes'
    BY <1>1, <1>9 DEF Rerun!Fails, Rerun!CleanUp, Rerun!results, Rerun!recovery
  <1>10. ASSUME NEW o \in Recoveries, Rerun!RecoverBegin(o) PROVE RerunTypes'
    BY <1>1, <1>10 DEF Rerun!RecoverBegin, Rerun!Goto, Rerun!tables, Rerun!results
  <1>11. ASSUME NEW o \in Recoveries, Rerun!ReconcileRow(o) PROVE RerunTypes'
    BY <1>1, <1>11 DEF Rerun!ReconcileRow, Rerun!results
  <1>12. ASSUME NEW o \in Recoveries, Rerun!ReconcileFails(o) \/ Rerun!Sweep(o) PROVE RerunTypes'
    BY <1>1, <1>12 DEF Rerun!ReconcileFails, Rerun!Sweep, Rerun!Goto, Rerun!tables, Rerun!results,
       Rerun!recovery
  <1>13. ASSUME NEW o \in Rerun!Callers, Rerun!Crash(o) PROVE RerunTypes'
    BY <1>1, <1>13 DEF Rerun!Crash, Rerun!tables, Rerun!results, Rerun!recovery
  <1>14. CASE Rerun!Tick
    <2>1. now' \in Rerun!Seconds
      BY <1>1, <1>14, RerunAssumption DEF Rerun!Tick, Rerun!Seconds
    <2> QED
      BY <1>1, <1>14, <2>1 DEF Rerun!Tick, Rerun!tables, Rerun!results, Rerun!recovery
  <1> QED
    BY <1>2, <1>3, <1>4, <1>5, <1>6, <1>7, <1>8, <1>9, <1>10, <1>11, <1>12, <1>13, <1>14
       DEF Rerun!Next, Rerun!RerunStep, Rerun!RecoverStep

LEMMA BeginOutcome ==
  ASSUME RerunInv, NEW o \in Reruns, Rerun!Begin(o)
  PROVE  /\ at[o] = "idle" /\ at'[o] \in {"mint", "unfound", "refused"}
         /\ call'[o].kind = "resume" => at'[o] # "unfound"
         /\ \A p \in Rerun!Callers \ {o} : at'[p] = at[p]
         /\ \A p \in Reruns \ {o} : call'[p] = call[p]
  <1>1. PICK kind \in {"replay", "fork", "resume"}, s \in Rerun!Slots, to \in {"mint", "unfound",
             "refused"} :
          Rerun!Enter(o, kind, s, to) /\ (kind = "resume" => to # "unfound")
    BY BeginEnters
  <1> QED
    BY <1>1 DEF Rerun!Enter, Rerun!Goto, RerunInv, RerunTypes, Rerun!Callers

\* Where a rerun is, before a step and after it.
LEMMA RerunMoves ==
  ASSUME RerunInv, Rerun!Next, NEW o \in Reruns
  PROVE  \/ at'[o] = at[o]
         \/ Rerun!Begin(o) \/ Rerun!Mint(o) \/ Rerun!Prepare(o) \/ Rerun!Start(o) \/ Rerun!AgentEnds(o)
         \/ Rerun!PutInput(o) \/ Rerun!PutOutput(o) \/ Rerun!PutOperation(o) \/ Rerun!Return(o)
         \/ at'[o] \in {"refused", "dead"}
  <1> USE DEF RerunInv, RerunTypes, Rerun!Callers
  <1>1. ASSUME NEW p \in Reruns, Rerun!RerunStep(p), p # o PROVE at'[o] = at[o]
    <2>1. CASE Rerun!Begin(p)
      BY <1>1, <2>1, BeginOutcome
    <2>2. CASE ~Rerun!Begin(p)
      BY <1>1, <2>2 DEF Rerun!RerunStep, Rerun!Mint, Rerun!Prepare, Rerun!Start, Rerun!AgentEnds,
         Rerun!PutInput, Rerun!PutOutput, Rerun!PutOperation,
           Rerun!Return, Rerun!Fails, Rerun!Goto
    <2> QED
      BY <2>1, <2>2
  <1>2. ASSUME NEW p \in Recoveries, Rerun!RecoverStep(p) PROVE at'[o] = at[o]
    <2>1. p # o
      BY RerunAssumption
    <2> QED
      BY <1>2, <2>1 DEF Rerun!RecoverStep, Rerun!RecoverBegin, Rerun!ReconcileRow,
         Rerun!ReconcileFails, Rerun!Sweep, Rerun!Goto
  <1>3. CASE Rerun!Fails(o)
    BY <1>3 DEF Rerun!Fails
  <1>4. ASSUME NEW p \in Rerun!Callers, Rerun!Crash(p) PROVE at'[o] = at[o] \/ at'[o] = "dead"
    BY <1>4 DEF Rerun!Crash
  <1>5. CASE Rerun!Tick
    BY <1>5 DEF Rerun!Tick
  <1> QED
    BY <1>1, <1>2, <1>3, <1>4, <1>5 DEF Rerun!Next, Rerun!RerunStep

\* Only what makes an id sets a second.
LEMMA SecondIsSet ==
  ASSUME RerunInv, Rerun!Next, NEW o \in Reruns
  PROVE  second'[o] = second[o] \/ (at'[o] = "prepare" /\ second'[o] = now)
  <1>1. ASSUME NEW p \in Reruns, Rerun!Mint(p)
        PROVE  second'[o] = second[o] \/ (at'[o] = "prepare" /\ second'[o] = now)
    BY <1>1 DEF Rerun!Mint, Rerun!Goto, RerunInv, RerunTypes, Rerun!Callers
  <1>2. CASE ~\E p \in Reruns : Rerun!Mint(p)
    BY <1>2 DEF Rerun!Next, Rerun!RerunStep, Rerun!RecoverStep, Rerun!Begin, Rerun!Prepare,
       Rerun!Start, Rerun!AgentEnds, Rerun!PutInput, Rerun!PutOutput,
         Rerun!PutOperation, Rerun!Return, Rerun!Fails, Rerun!RecoverBegin, Rerun!ReconcileRow,
         Rerun!ReconcileFails, Rerun!Sweep, Rerun!Crash, Rerun!Tick
  <1> QED
    BY <1>1, <1>2

LEMMA IdsAreMadeStep ==
  ASSUME RerunInv, Rerun!Next
  PROVE  IdsAreMade'
  <1> SUFFICES ASSUME NEW o \in Reruns
               PROVE  /\ second'[o] \in Rerun!Seconds \cup {Rerun!Unset}
                      /\ at'[o] \in {"idle", "mint"} => second'[o] = Rerun!Unset
                      /\ at'[o] \in Attempting => second'[o] \in Rerun!Seconds
    BY DEF IdsAreMade
  <1>1. IdsAreMade /\ now \in Rerun!Seconds
    BY DEF RerunInv, RerunTypes
  <1>2. DOMAIN at = Rerun!Callers /\ o \in Rerun!Callers
    BY DEF RerunInv, RerunTypes, Rerun!Callers
  <1>3. \/ at'[o] = at[o]
        \/ at[o] = "idle" /\ at'[o] \in {"mint", "unfound", "refused"}
        \/ at[o] = "mint" /\ at'[o] = "prepare" /\ second'[o] = now
        \/ at[o] \in Attempting /\ at'[o] \in Attempting
        \/ at'[o] \in {"refused", "dead"}
    BY <1>2, RerunMoves, BeginOutcome
       DEF Rerun!Mint, Rerun!Prepare, Rerun!Start, Rerun!AgentEnds, Rerun!PutInput, Rerun!PutOutput,
       Rerun!PutOperation, Rerun!Return, Rerun!Goto,
           Attempting, RerunInv, RerunTypes
  <1> QED
    BY <1>1, <1>3, SecondIsSet, IdsStay DEF IdsAreMade, Attempting

\* What is put is put under the id of the one that puts it.
LEMMA ResultsAreKeptStep ==
  ASSUME RerunInv, Rerun!Next
  PROVE  ResultsAreKept'
  <1> SUFFICES ASSUME NEW o \in Reruns, \A p \in Reruns : ~Rerun!SameSecond(o, p)',
                      at'[o] \in {"output", "operation", "close", "returned"}
               PROVE  /\ objects'[Rerun!Id(o)'].input = o
                      /\ at'[o] \in {"operation", "close", "returned"} => objects'[Rerun!Id(o)'].output = o
                      /\ at'[o] \in {"close", "returned"} => op_rows'[Rerun!OpKey(o)'] = o
    BY DEF ResultsAreKept
  <1>1. RerunTypes /\ IdsAreMade
    BY DEF RerunInv
  <1>2. \/ at'[o] = at[o]
        \/ at[o] = "input" /\ Rerun!PutInput(o)
        \/ at[o] = "output" /\ Rerun!PutOutput(o)
        \/ at[o] = "operation" /\ Rerun!PutOperation(o)
        \/ at[o] = "close" /\ Rerun!Return(o)
    BY RerunMoves, BeginOutcome
       DEF Rerun!Mint, Rerun!Prepare, Rerun!Start, Rerun!AgentEnds, Rerun!PutInput, Rerun!PutOutput,
       Rerun!PutOperation, Rerun!Return, Rerun!Goto,
           RerunInv, RerunTypes, Rerun!Callers
  <1>3. second[o] \in Rerun!Seconds
    BY <1>1, <1>2 DEF IdsAreMade, Attempting
  <1>4. /\ Rerun!Kind(o)' = Rerun!Kind(o) /\ Rerun!Id(o)' = Rerun!Id(o)
        /\ Rerun!OpKey(o)' = Rerun!OpKey(o) /\ second'[o] = second[o]
    BY <1>3, IdsStay DEF Rerun!Kind, Rerun!Id, Rerun!OpKey
  <1>5. \A p \in Reruns : ~Rerun!SameSecond(o, p)
    <2> SUFFICES ASSUME NEW p \in Reruns, Rerun!SameSecond(o, p) PROVE FALSE
      OBVIOUS
    <2>1. second[p] \in Rerun!Seconds
      BY <1>3 DEF Rerun!SameSecond
    <2>2. second'[p] = second[p] /\ call'[p] = call[p]
      BY <2>1, IdsStay
    <2>3. Rerun!Kind(p)' = Rerun!Kind(p)
      BY <2>2 DEF Rerun!Kind
    <2>4. Rerun!SameSecond(o, p)'
      BY <1>4, <2>2, <2>3 DEF Rerun!SameSecond
    <2> QED
      BY <2>4
  <1>6. /\ at[o] \in {"output", "operation", "close", "returned"} => objects[Rerun!Id(o)].input = o
        /\ at[o] \in {"operation", "close", "returned"} => objects[Rerun!Id(o)].output = o
        /\ at[o] \in {"close", "returned"} => op_rows[Rerun!OpKey(o)] = o
    BY <1>5 DEF RerunInv, ResultsAreKept
  <1>7. /\ Rerun!Id(o) \in Rerun!RerunIds /\ Rerun!OpKey(o) \in DOMAIN op_rows
        /\ Rerun!Id(o).kind = Rerun!Kind(o)
        /\ Rerun!Id(o).at = second[o]
    BY <1>1, <1>3, IdIsOne
  <1>8. ASSUME NEW p \in Reruns, p # o, second[p] \in Rerun!Seconds
        PROVE  Rerun!Id(p) # Rerun!Id(o) /\ Rerun!OpKey(p) # Rerun!OpKey(o)
          /\ Rerun!Id(p) \in Rerun!RerunIds
    BY <1>1, <1>5, <1>7, <1>8, IdIsOne DEF Rerun!SameSecond, Rerun!OpKey
  <1>9. ASSUME NEW p \in Reruns, Rerun!PutInput(p) \/ Rerun!PutOutput(p) \/ Rerun!PutOperation(p)
        PROVE  second[p] \in Rerun!Seconds
    BY <1>1, <1>9 DEF Rerun!PutInput, Rerun!PutOutput, Rerun!PutOperation, Rerun!Goto, IdsAreMade,
       Attempting
  <1> HIDE DEF Rerun!Id, Rerun!OpKey
  <1>10. ASSUME NEW p \in Reruns, Rerun!PutInput(p)
         PROVE  /\ op_rows' = op_rows /\ objects'[Rerun!Id(o)].output = objects[Rerun!Id(o)].output
                /\ objects'[Rerun!Id(o)].input = IF p = o THEN o ELSE objects[Rerun!Id(o)].input
    <2>1. objects' = [objects EXCEPT ![Rerun!Id(p)].input = p] /\ op_rows' = op_rows
      BY <1>10 DEF Rerun!PutInput
    <2>2. objects[Rerun!Id(o)] \in [input : Writers, output : Writers]
      BY <1>1, <1>7 DEF RerunTypes
    <2> QED
      BY <1>1, <1>7, <1>8, <1>9, <1>10, <2>1, <2>2 DEF RerunTypes
  <1>11. ASSUME NEW p \in Reruns, Rerun!PutOutput(p)
         PROVE  /\ op_rows' = op_rows /\ objects'[Rerun!Id(o)].input = objects[Rerun!Id(o)].input
                /\ objects'[Rerun!Id(o)].output = IF p = o THEN o ELSE objects[Rerun!Id(o)].output
    <2>1. objects' = [objects EXCEPT ![Rerun!Id(p)].output = p] /\ op_rows' = op_rows
      BY <1>11 DEF Rerun!PutOutput
    <2>2. objects[Rerun!Id(o)] \in [input : Writers, output : Writers]
      BY <1>1, <1>7 DEF RerunTypes
    <2> QED
      BY <1>1, <1>7, <1>8, <1>9, <1>11, <2>1, <2>2 DEF RerunTypes
  <1>12. ASSUME NEW p \in Reruns, Rerun!PutOperation(p)
         PROVE  objects' = objects
           /\ op_rows'[Rerun!OpKey(o)] = IF p = o THEN o ELSE op_rows[Rerun!OpKey(o)]
    <2>1. objects' = objects /\ op_rows' = [op_rows EXCEPT ![Rerun!OpKey(p)] = p]
      BY <1>12 DEF Rerun!PutOperation
    <2> QED
      BY <1>7, <1>8, <1>9, <1>12, <2>1
  <1>13. ASSUME NEW p \in Reruns, Rerun!PutInput(p) \/ Rerun!PutOutput(p) \/ Rerun!PutOperation(p)
         PROVE  /\ at[p] \in {"input", "output", "operation"}
                /\ at'[p] \in {"output", "operation", "close"}
                /\ p # o => at'[o] = at[o]
    BY <1>1, <1>13 DEF Rerun!PutInput, Rerun!PutOutput, Rerun!PutOperation, Rerun!Goto, RerunTypes,
       Rerun!Callers
  <1>14. CASE \E p \in Reruns : Rerun!PutInput(p)
    <2>1. PICK p \in Reruns : Rerun!PutInput(p)
      BY <1>14
    <2>2. p = o => at'[o] = "output"
      BY <1>1, <2>1 DEF Rerun!PutInput, Rerun!Goto, RerunTypes, Rerun!Callers
    <2> QED
      BY <1>4, <1>6, <1>10, <1>13, <2>1, <2>2
  <1>15. CASE \E p \in Reruns : Rerun!PutOutput(p)
    <2>1. PICK p \in Reruns : Rerun!PutOutput(p)
      BY <1>15
    <2>2. p = o => at[o] = "output" /\ at'[o] = "operation"
      BY <1>1, <2>1 DEF Rerun!PutOutput, Rerun!Goto, RerunTypes, Rerun!Callers
    <2> QED
      BY <1>4, <1>6, <1>11, <1>13, <2>1, <2>2
  <1>16. CASE \E p \in Reruns : Rerun!PutOperation(p)
    <2>1. PICK p \in Reruns : Rerun!PutOperation(p)
      BY <1>16
    <2>2. p = o => at[o] = "operation"
      BY <1>1, <2>1 DEF Rerun!PutOperation, Rerun!Goto, RerunTypes, Rerun!Callers
    <2> QED
      BY <1>4, <1>6, <1>12, <1>13, <2>1, <2>2
  <1>17. CASE ~\E p \in Reruns : Rerun!PutInput(p) \/ Rerun!PutOutput(p) \/ Rerun!PutOperation(p)
    <2>1. objects' = objects /\ op_rows' = op_rows
      BY <1>17 DEF Rerun!Next, Rerun!RerunStep, Rerun!RecoverStep, Rerun!Begin, Rerun!Mint,
         Rerun!Prepare, Rerun!Start, Rerun!AgentEnds, Rerun!Return, Rerun!Fails,
           Rerun!RecoverBegin, Rerun!ReconcileRow, Rerun!ReconcileFails, Rerun!Sweep, Rerun!Crash,
           Rerun!Tick, Rerun!results
    <2>2. at'[o] = at[o] \/ (at[o] = "close" /\ at'[o] = "returned")
      BY <1>1, <1>2, <1>17 DEF Rerun!Return, Rerun!Goto, RerunTypes, Rerun!Callers
    <2> QED
      BY <1>4, <1>6, <2>1, <2>2
  <1> QED
    BY <1>14, <1>15, <1>16, <1>17

\* A phase is set to one that is not "none": of the row of a rerun that has its id, or of one that
\* a recovery goes through.
LEMMA PhaseIsSet ==
  ASSUME RerunInv, Rerun!Next, NEW r \in Rerun!Rows
  PROVE  \/ phase'[r] = phase[r]
         \/ r \in Rerun!RerunIds /\ phase'[r] # "none"
         \/ phase'[r] = "abandoned" /\ \E o \in Recoveries : Rerun!ReconcileRow(o) /\ r \in plan[o]
  <1>1. RerunTypes /\ IdsAreMade
    BY DEF RerunInv
  <1>2. ASSUME NEW o \in Reruns,
        Rerun!Prepare(o) \/ Rerun!Start(o) \/ Rerun!AgentEnds(o) \/ Rerun!Fails(o)
        PROVE  phase'[r] = phase[r] \/ (r \in Rerun!RerunIds /\ phase'[r] # "none")
    <2>1. at[o] \in Attempting
      BY <1>2 DEF Rerun!Prepare, Rerun!Start, Rerun!AgentEnds, Rerun!Fails, Rerun!Goto, Attempting
    <2>2. Rerun!Id(o) \in Rerun!RerunIds
      BY <1>1, <2>1, IdIsOne DEF IdsAreMade
    <2>3. \/ phase' = phase
          \/ \E ph \in {"pending", "agent_running", "agent_finished", "abandoned"} :
               phase' = [phase EXCEPT ![Rerun!Id(o)] = ph]
      BY <1>2 DEF Rerun!Prepare, Rerun!Start, Rerun!AgentEnds, Rerun!Fails
    <2> QED
      BY <1>1, <2>2, <2>3 DEF RerunTypes
  <1>3. ASSUME NEW o \in Recoveries, Rerun!ReconcileRow(o)
        PROVE  phase'[r] = phase[r] \/ (phase'[r] = "abandoned" /\ r \in plan[o])
    BY <1>1, <1>3 DEF Rerun!ReconcileRow, RerunTypes
  <1>4. CASE /\ \A o \in Reruns : ~(Rerun!Prepare(o) \/ Rerun!Start(o))
             /\ \A o \in Reruns : ~(Rerun!AgentEnds(o) \/ Rerun!Fails(o))
             /\ \A o \in Recoveries : ~Rerun!ReconcileRow(o)
    BY <1>4 DEF Rerun!Next, Rerun!RerunStep, Rerun!RecoverStep, Rerun!Begin, Rerun!Mint,
       Rerun!PutInput, Rerun!PutOutput, Rerun!PutOperation, Rerun!Return,
         Rerun!RecoverBegin, Rerun!ReconcileFails, Rerun!Sweep, Rerun!Crash, Rerun!Tick, Rerun!tables
  <1> QED
    BY <1>2, <1>3, <1>4

LEMMA AnswersStep ==
  ASSUME RerunInv, Rerun!Next
  PROVE  AnswersHold'
  <1>1. answers' = answers
    BY DEF Rerun!Next, Rerun!RerunStep, Rerun!RecoverStep, Rerun!Begin, Rerun!Mint, Rerun!Prepare,
       Rerun!Start, Rerun!AgentEnds, Rerun!PutInput, Rerun!PutOutput,
       Rerun!PutOperation, Rerun!Return, Rerun!Fails, Rerun!RecoverBegin, Rerun!ReconcileRow,
       Rerun!ReconcileFails, Rerun!Sweep, Rerun!Crash, Rerun!Tick
  <1>2. ASSUME NEW o \in Reruns, call'[o].kind = "resume", at'[o] = "unfound" PROVE FALSE
    <2>1. at'[o] = at[o] \/ Rerun!Begin(o)
      BY <1>2, RerunMoves DEF Rerun!Mint, Rerun!Prepare, Rerun!Start, Rerun!AgentEnds, Rerun!PutInput,
         Rerun!PutOutput, Rerun!PutOperation,
           Rerun!Return, Rerun!Goto, RerunInv, RerunTypes, Rerun!Callers
    <2>2. ~Rerun!Begin(o)
      BY <1>2, BeginOutcome
    <2>3. call'[o] = call[o]
      <3>1. CASE \E p \in Reruns : Rerun!Begin(p)
        BY <2>2, <3>1, BeginOutcome
      <3>2. CASE ~\E p \in Reruns : Rerun!Begin(p)
        BY <3>2 DEF Rerun!Next, Rerun!RerunStep, Rerun!RecoverStep, Rerun!Mint, Rerun!Prepare,
           Rerun!Start, Rerun!AgentEnds, Rerun!PutInput, Rerun!PutOutput,
             Rerun!PutOperation, Rerun!Return, Rerun!Fails, Rerun!RecoverBegin, Rerun!ReconcileRow,
             Rerun!ReconcileFails, Rerun!Sweep, Rerun!Crash, Rerun!Tick
      <3> QED
        BY <3>1, <3>2
    <2> QED
      BY <1>2, <2>1, <2>2, <2>3 DEF RerunInv, AnswersHold, Rerun!ResumeFindsItsCheckpoint
  <1> QED
    BY <1>1, <1>2 DEF RerunInv, AnswersHold, Rerun!ResumeFindsItsCheckpoint

LEMMA PausedStays == RerunInv /\ Rerun!Next => paused' = paused
  BY DEF Rerun!Next, Rerun!RerunStep, Rerun!RecoverStep, Rerun!Begin, Rerun!Mint, Rerun!Prepare,
     Rerun!Start, Rerun!AgentEnds, Rerun!PutInput, Rerun!PutOutput,
     Rerun!PutOperation, Rerun!Return, Rerun!Fails, Rerun!RecoverBegin, Rerun!ReconcileRow,
     Rerun!ReconcileFails, Rerun!Sweep, Rerun!Crash, Rerun!Tick

\* The runtime of a trial stays on record.
LEMMA RuntimesStay ==
  ASSUME RerunInv, Rerun!Next, NEW s \in Rerun!Slots
  PROVE  recorded'[Rerun!Trial(s)] = recorded[Rerun!Trial(s)]
  <1>1. /\ RerunTypes /\ IdsAreMade /\ Rerun!Trial(s) \in Rerun!Rows
        /\ Rerun!Trial(s) \notin Rerun!RerunIds
    BY RowKinds DEF RerunInv
  <1>2. ASSUME NEW o \in Reruns, Rerun!Start(o) \/ Rerun!AgentEnds(o) \/ Rerun!Fails(o)
        PROVE  recorded'[Rerun!Trial(s)] = recorded[Rerun!Trial(s)]
    <2>1. at[o] \in Attempting
      BY <1>2 DEF Rerun!Start, Rerun!AgentEnds, Rerun!Fails, Rerun!Goto, Attempting
    <2>2. Rerun!Id(o) # Rerun!Trial(s)
      BY <1>1, <2>1, IdIsOne DEF IdsAreMade
    <2> QED
      BY <1>1, <1>2, <2>2 DEF Rerun!Start, Rerun!AgentEnds, Rerun!Fails, Rerun!CleanUp, RerunTypes
  <1>3. CASE ~\E o \in Reruns : Rerun!Start(o) \/ Rerun!AgentEnds(o) \/ Rerun!Fails(o)
    BY <1>3 DEF Rerun!Next, Rerun!RerunStep, Rerun!RecoverStep, Rerun!Begin, Rerun!Mint, Rerun!Prepare,
       Rerun!PutInput, Rerun!PutOutput,
         Rerun!PutOperation, Rerun!Return, Rerun!RecoverBegin, Rerun!ReconcileRow,
         Rerun!ReconcileFails, Rerun!Sweep, Rerun!Crash, Rerun!Tick, Rerun!tables
  <1> QED
    BY <1>2, <1>3

LEMMA PlansStep ==
  ASSUME RerunInv, Rerun!Next
  PROVE  PlansAreSound'
  <1>1. RerunTypes /\ PlansAreSound /\ paused' = paused /\ Rerun!PausedTrialKeepsItsSlot
    BY PausedStays DEF RerunInv
  <1>2. ASSUME NEW o \in Recoveries, NEW r \in Rerun!Rows, r \in plan'[o]
        PROVE  phase'[r] # "none" /\ \A s \in paused : r # Rerun!Trial(s)
    <2>1. CASE r \in plan[o]
      <3>1. phase[r] # "none" /\ \A s \in paused : r # Rerun!Trial(s)
        BY <1>1, <2>1 DEF PlansAreSound
      <3>2. phase'[r] # "none"
        BY <3>1, PhaseIsSet
      <3> QED
        BY <3>1, <3>2
    <2>2. CASE r \notin plan[o]
      <3>1. /\ \E p \in Recoveries : Rerun!RecoverBegin(p)
            /\ Rerun!trial_phase_requires_recovery_release(phase[r])
        <4>1. CASE \E p \in Recoveries : Rerun!RecoverBegin(p)
          BY <1>1, <1>2, <2>2, <4>1 DEF Rerun!RecoverBegin, RerunTypes
        <4>2. CASE \E p \in Recoveries : Rerun!ReconcileRow(p)
          BY <1>1, <1>2, <2>2, <4>2 DEF Rerun!ReconcileRow, RerunTypes
        <4>3. CASE ~\E p \in Recoveries : Rerun!RecoverBegin(p) \/ Rerun!ReconcileRow(p)
          BY <1>2, <2>2, <4>3 DEF Rerun!Next, Rerun!RerunStep, Rerun!RecoverStep, Rerun!Begin,
             Rerun!Mint, Rerun!Prepare, Rerun!Start, Rerun!AgentEnds,
               Rerun!PutInput, Rerun!PutOutput, Rerun!PutOperation, Rerun!Return, Rerun!Fails,
               Rerun!ReconcileFails, Rerun!Sweep, Rerun!Crash, Rerun!Tick,
               Rerun!recovery
        <4> QED
          BY <4>1, <4>2, <4>3
      <3>2. phase' = phase
        BY <3>1 DEF Rerun!RecoverBegin, Rerun!tables
      <3> QED
        BY <1>1, <3>1, <3>2 DEF Rerun!trial_phase_requires_recovery_release,
           Rerun!PausedTrialKeepsItsSlot
    <2> QED
      BY <2>1, <2>2
  <1>3. \A s \in Rerun!Slots : recorded'[Rerun!Trial(s)] # "none"
    BY <1>1, RuntimesStay DEF PlansAreSound
  <1> QED
    BY <1>1, <1>2, <1>3 DEF PlansAreSound

\* A recovery goes by the rows: a slot it releases is that of a trial that is not paused, or the
\* first for the row of a rerun, which is noted.
LEMMA PausedStep ==
  ASSUME RerunInv, Rerun!Next
  PROVE  Rerun!PausedTrialKeepsItsSlot'
  <1>1. RerunTypes /\ PlansAreSound /\ paused' = paused /\ Rerun!PausedTrialKeepsItsSlot
    BY PausedStays DEF RerunInv
  <1> SUFFICES ASSUME NEW s \in paused
               PROVE  phase'[Rerun!Trial(s)] = "paused" /\ (slot'[s] = "active" \/ s \in misled')
    BY <1>1 DEF Rerun!PausedTrialKeepsItsSlot
  <1>2. s \in Rerun!Slots /\ Rerun!Trial(s) \in Rerun!Rows /\ Rerun!Trial(s) \notin Rerun!RerunIds
    BY <1>1, RowKinds DEF RerunTypes
  <1>3. phase[Rerun!Trial(s)] = "paused" /\ (slot[s] = "active" \/ s \in misled)
    BY <1>1 DEF Rerun!PausedTrialKeepsItsSlot
  <1>4. phase'[Rerun!Trial(s)] = "paused"
    BY <1>1, <1>2, <1>3, PhaseIsSet DEF PlansAreSound
  <1>5. ASSUME NEW o \in Recoveries, Rerun!ReconcileRow(o) PROVE slot'[s] = "active" \/ s \in misled'
    <2>1. PICK r \in plan[o] :
            /\ slot' = [slot EXCEPT ![Rerun!ScheduleIdx(r)] = IF @ = "committed" THEN @ ELSE "pending"]
            /\ misled' = IF r \in Rerun!Trials THEN misled ELSE misled \cup {0}
      BY <1>5 DEF Rerun!ReconcileRow
    <2>2. r \in Rerun!Rows /\ r # Rerun!Trial(s)
      BY <1>1, <1>5 DEF PlansAreSound, RerunTypes
    <2>3. CASE r \in Rerun!Trials
      <3>1. Rerun!ScheduleIdx(r) # s
        BY <2>2, <2>3, RowKinds DEF Rerun!ScheduleIdx
      <3> QED
        BY <1>1, <1>2, <1>3, <2>1, <2>3, <3>1 DEF RerunTypes
    <2>4. CASE r \notin Rerun!Trials
      BY <1>1, <1>2, <1>3, <2>1, <2>4 DEF RerunTypes, Rerun!ScheduleIdx
    <2> QED
      BY <2>3, <2>4
  <1>6. CASE ~\E o \in Recoveries : Rerun!ReconcileRow(o)
    <2>1. slot' = slot /\ misled' = misled
      BY <1>6 DEF Rerun!Next, Rerun!RerunStep, Rerun!RecoverStep, Rerun!Begin, Rerun!Mint,
         Rerun!Prepare, Rerun!Start, Rerun!AgentEnds, Rerun!PutInput,
           Rerun!PutOutput, Rerun!PutOperation, Rerun!Return, Rerun!Fails, Rerun!RecoverBegin,
           Rerun!ReconcileFails, Rerun!Sweep, Rerun!Crash, Rerun!Tick,
           Rerun!tables, Rerun!recovery
    <2> QED
      BY <1>3, <1>4, <2>1
  <1> QED
    BY <1>4, <1>5, <1>6

\* A recovery is stuck at a row of a rerun: the runtimes of the trials are on record.
LEMMA StuckStep ==
  ASSUME RerunInv, Rerun!Next
  PROVE  Rerun!StuckByRerun'
  <1>1. RerunTypes /\ PlansAreSound /\ Rerun!StuckByRerun
    BY DEF RerunInv
  <1> SUFFICES ASSUME NEW o \in Recoveries, at'[o] = "stuck"
               PROVE  \E r \in Rerun!RerunIds : phase'[r] # "none"
    BY DEF Rerun!StuckByRerun
  <1>2. CASE at[o] = "stuck"
    <2>1. PICK r \in Rerun!RerunIds : phase[r] # "none"
      BY <1>1, <1>2 DEF Rerun!StuckByRerun
    <2>2. phase'[r] # "none"
      BY <2>1, PhaseIsSet, RowKinds
    <2> QED
      BY <2>2
  <1>3. CASE at[o] # "stuck"
    <2>1. o \in Rerun!Callers /\ o \notin Reruns /\ DOMAIN at = Rerun!Callers
      BY <1>1, RerunAssumption DEF Rerun!Callers, RerunTypes
    <2>2. Rerun!ReconcileFails(o)
      <3>1. ASSUME NEW p \in Reruns, Rerun!RerunStep(p) PROVE at'[o] = at[o]
        <4>1. CASE Rerun!Begin(p)
          BY <2>1, <4>1, BeginOutcome
        <4>2. CASE ~Rerun!Begin(p)
          BY <2>1, <3>1, <4>2 DEF Rerun!RerunStep, Rerun!Mint, Rerun!Prepare, Rerun!Start,
             Rerun!AgentEnds, Rerun!PutInput, Rerun!PutOutput,
               Rerun!PutOperation, Rerun!Return, Rerun!Fails, Rerun!Goto
        <4> QED
          BY <4>1, <4>2
      <3>2. ASSUME NEW p \in Recoveries, Rerun!RecoverStep(p),
            ~Rerun!ReconcileFails(o) PROVE at'[o] # "stuck"
        BY <1>3, <2>1, <3>2 DEF Rerun!RecoverStep, Rerun!RecoverBegin, Rerun!ReconcileRow,
           Rerun!ReconcileFails, Rerun!Sweep, Rerun!Goto
      <3>3. ASSUME NEW p \in Rerun!Callers, Rerun!Crash(p) PROVE at'[o] # "stuck"
        BY <1>3, <2>1, <3>3 DEF Rerun!Crash
      <3>4. CASE Rerun!Tick
        BY <1>3, <3>4 DEF Rerun!Tick
      <3> QED
        BY <1>3, <3>1, <3>2, <3>3, <3>4 DEF Rerun!Next
    <2>3. PICK r \in plan[o] : ~Rerun!Findable(r)
      BY <2>2 DEF Rerun!ReconcileFails
    <2>4. r \in Rerun!Rows /\ phase[r] # "none"
      BY <1>1, <2>3 DEF RerunTypes, PlansAreSound
    <2>5. r \notin Rerun!Trials
      BY <1>1, <2>3, RowKinds DEF Rerun!Findable, PlansAreSound
    <2>6. r \in Rerun!RerunIds /\ phase' = phase
      BY <2>2, <2>4, <2>5, RowKinds DEF Rerun!ReconcileFails, Rerun!tables
    <2> QED
      BY <2>4, <2>6
  <1> QED
    BY <1>2, <1>3

\* Every step keeps the invariant.
LEMMA RerunStepKeeps == RerunInv /\ [Rerun!Next]_Rerun!vars => RerunInv'
  <1> SUFFICES ASSUME RerunInv, [Rerun!Next]_Rerun!vars PROVE RerunInv'
    OBVIOUS
  <1>1. CASE Rerun!Next
    BY <1>1, RerunTypesStep, IdsAreMadeStep, ResultsAreKeptStep, AnswersStep, PlansStep, PausedStep,
       StuckStep DEF RerunInv
  <1>2. CASE UNCHANGED Rerun!vars
    BY <1>2 DEF Rerun!vars, Rerun!tables, Rerun!results, Rerun!recovery, RerunInv, RerunTypes,
       IdsAreMade, ResultsAreKept,
         AnswersHold, PlansAreSound, Rerun!PausedTrialKeepsItsSlot, Rerun!StuckByRerun,
         Rerun!SameSecond, Rerun!Id, Rerun!OpKey, Rerun!Kind,
         Rerun!ResumeFindsItsCheckpoint
  <1> QED
    BY <1>1, <1>2

\* What the invariant says of a rerun that returned.
LEMMA RerunInvAgrees == RerunInv => Rerun!RerunIsRecorded
  <1> SUFFICES ASSUME RerunInv, NEW o \in Reruns, at[o] = "returned",
  \A p \in Reruns : ~Rerun!SameSecond(o, p)
               PROVE  /\ objects[Rerun!Id(o)] = [input |-> o, output |-> o]
                      /\ op_rows[<<Rerun!Kind(o), second[o]>>] = o
    BY DEF Rerun!RerunIsRecorded
  <1>1. objects[Rerun!Id(o)].input = o /\ objects[Rerun!Id(o)].output = o /\ op_rows[Rerun!OpKey(o)] = o
    BY DEF RerunInv, ResultsAreKept
  <1>2. Rerun!Id(o) \in Rerun!RerunIds
    BY IdIsOne DEF RerunInv, IdsAreMade, Attempting
  <1>3. objects[Rerun!Id(o)] \in [input : Writers, output : Writers]
    BY <1>2 DEF RerunInv, RerunTypes
  <1> QED
    BY <1>1, <1>3 DEF Rerun!OpKey

\* For any number of reruns and recoveries, any lease and any time: a replay or fork that returned
\* has its input, output and manifest on record unless another started in its second, the
\* checkpoint that a resume selects is found again, a recovery leaves a paused trial its phase and
\* its slot, and what keeps one from its end is the row of a rerun, the exception to both
\* (replay_trial, fork_trial_inner, resolve_resume_selector, reconcile_runtime_trials_for_recovery).
THEOREM RerunsAgreeWithRecovery == Rerun!Spec => []RerunsAndRecoveryAgree
  <1>1. Rerun!Spec => []RerunInv
    BY RerunBegins, RerunStepKeeps, PTL DEF Rerun!Spec
  <1>2. RerunInv => RerunsAndRecoveryAgree
    BY RerunInvAgrees DEF RerunInv, AnswersHold, RerunsAndRecoveryAgree
  <1> QED
    BY <1>1, <1>2, PTL
=============================================================================
