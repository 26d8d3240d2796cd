----------------------------- MODULE CloudLogin -----------------------------
(***************************************************************************)
(* The Cloud login of a user as three programs keep it in four files       *)
(* (lab-cli/src/cloud_login.rs of buc, main.rs of bucephalus,              *)
(* bin/bucephalus-cloud.rs): one with the access token, one with the       *)
(* refresh token, a cache with both, and the profile, which says whose     *)
(* Cloud it is.  Each is truncated and written in place, without a lock.   *)
(*                                                                         *)
(* A command that needs a token takes the cached one, or refreshes it when *)
(* it is about to expire; login and logout write and remove the files.     *)
(* The authorization server may give no refresh token with a login; it     *)
(* answers a refresh with or without a new one, and a new one revokes the  *)
(* old.                                                                    *)
(***************************************************************************)
EXTENDS Integers

CONSTANTS
  Shells,       \* processes, one command after the other
  MaxIssued,    \* tokens the server will issue
  MaxDeaths     \* commands that are killed, or whose write fails

VARIABLES
  last,       \* the number of the last token issued; an access and a refresh token share it
  grant,      \* of each login, by its first token: the refresh token the server accepts, or 0
  old,        \* the last access token that has expired or is about to; they do so in order
  file,       \* what the four files hold
  place,      \* of each shell: where its command is
  files,      \* of each shell: the files it is still to write or remove
  entry,      \* of each shell: the cache entry it has read, or is to write
  session,    \* the login that is in force, or 0 after a logout
  upset,      \* two commands have changed the files at once, or one was cut short
  deaths

serverVars == <<last, grant, old>>
shellVars == <<place, files, entry>>
loginVars == <<serverVars, file, shellVars, session, upset, deaths>>

Names == {"access", "refresh", "cache", "profile"}
Absent == [is |-> "absent"]
Empty == [is |-> "empty"]
Garbled == [is |-> "garbled"]
Whole(v) == [is |-> "whole", of |-> v]

\* What a cache holds; a refresh token of 0 is none.
Entries == [login : 1 .. MaxIssued, token : 1 .. MaxIssued, refresh : 0 .. MaxIssued]
NoEntry == [login |-> 0, token |-> 0, refresh |-> 0]

\* What a file is given of an entry.
Part(name, e) ==
  CASE name = "access" -> e.token
    [] name = "refresh" -> e.refresh
    [] name = "cache" -> e
    [] OTHER -> e.login

Contents(name) == {Absent, Empty, Garbled} \cup {Whole(Part(name, e)) : e \in Entries}

Places == {"idle", "read_access", "ask", "sign_in", "open", "write", "remove"}
Changing(s) == place[s] \in {"sign_in", "ask", "open", "write", "remove"}
Quiet == \A s \in Shells : place[s] = "idle"

\* Every variable has a value of its type.
LoginTypeOK ==
  /\ last \in 0 .. MaxIssued /\ old \in 0 .. last
  /\ grant \in [1 .. MaxIssued -> 0 .. MaxIssued]
  /\ file = [name \in Names |-> file[name]]
  /\ \A name \in Names : file[name] \in Contents(name)
  /\ place \in [Shells -> Places]
  /\ files \in [Shells -> SUBSET Names]
  /\ entry \in [Shells -> Entries \cup {NoEntry}]
  /\ session \in 0 .. MaxIssued /\ upset \in BOOLEAN /\ deaths \in 0 .. MaxDeaths

Init ==
  /\ last = 0 /\ grant = [n \in 1 .. MaxIssued |-> 0] /\ old = 0
  /\ file = [name \in Names |-> Absent]
  /\ place = [s \in Shells |-> "idle"] /\ files = [s \in Shells |-> {}]
  /\ entry = [s \in Shells |-> NoEntry]
  /\ session = 0 /\ upset = FALSE /\ deaths = 0

Move(s, to, names, e) ==
  /\ place' = [place EXCEPT ![s] = to] /\ files' = [files EXCEPT ![s] = names]
  /\ entry' = [entry EXCEPT ![s] = e]
Stop(s) == Move(s, "idle", {}, NoEntry)

(* A command is about to change the files, perhaps while another one does. *)
Changes(s) == upset' = (upset \/ \E other \in Shells \ {s} : Changing(other))

(* cloud_token_cache_needs_refresh: only an entry that has a refresh token. *)
NeedsRefresh(e) == e.refresh # 0 /\ e.token <= old

(* shared_cloud_user_token, cloud_bearer_token.  A cache that cannot be read or parsed is  *)
(* no cache, and the access file is looked at instead.  A cached token ends the command.   *)
ReadCache(s) ==
  /\ place[s] = "idle"
  /\ \/ file["cache"].is # "whole" /\ Move(s, "read_access", {}, NoEntry) /\ UNCHANGED upset
     \/ /\ file["cache"].is = "whole" /\ NeedsRefresh(file["cache"].of)
        /\ Move(s, "ask", {}, file["cache"].of) /\ Changes(s)
  /\ UNCHANGED <<serverVars, file, session, deaths>>

ReadAccess(s) ==
  /\ place[s] = "read_access" /\ Stop(s)
  /\ UNCHANGED <<serverVars, file, session, upset, deaths>>

\* Mutant: a login leaves the profile of the one before it.
FilesOfTokens(e) == {name \in Names \ {"profile"} : name = "refresh" => e.refresh # 0}

(* write_cloud_token_cache leaves the refresh file alone if there is no refresh token; the *)
(* profile is a login's to write.                                                          *)
FilesOf(e) ==
  {name \in Names : /\ name = "refresh" => e.refresh # 0
                    /\ name = "profile" => e.token = e.login}

(* The order in which files are written and removed. *)
First(names) ==
  IF "access" \in names THEN "access"
  ELSE IF "refresh" \in names THEN "refresh" ELSE IF "cache" \in names THEN "cache" ELSE "profile"

\* Mutant: the cache keeps what came, and nothing else.
MergedForgets(e, new, rotated) ==
  [login |-> e.login, token |-> new, refresh |-> IF rotated THEN new ELSE 0]

(* The entry of a refresh: the old refresh token is kept when no new one came. *)
Merged(e, new, rotated) ==
  [login |-> e.login, token |-> new, refresh |-> IF rotated THEN new ELSE e.refresh]

(* The server issues a token for a refresh token it accepts, and may put another in its    *)
(* place; the answer may be lost.                                                          *)
AskServer(s) ==
  /\ place[s] = "ask" /\ entry[s].refresh = grant[entry[s].login] /\ last < MaxIssued
  /\ last' = last + 1
  /\ \E rotated, answered \in BOOLEAN :
       LET e == Merged(entry[s], last + 1, rotated) IN
       /\ grant' = IF rotated THEN [grant EXCEPT ![e.login] = last + 1] ELSE grant
       /\ IF answered
          THEN Move(s, "open", FilesOf(e), e) /\ UNCHANGED upset
          ELSE Stop(s) /\ upset' = (upset \/ rotated)
  /\ UNCHANGED <<old, file, session, deaths>>

(* The server refuses, or is not reached. *)
AskFails(s) ==
  /\ place[s] = "ask" /\ Stop(s)
  /\ UNCHANGED <<serverVars, file, session, upset, deaths>>

(* run_login: the browser's callback or the device's poll brings tokens, or is denied, or  *)
(* the time is up.                                                                         *)
BeginLogin(s) ==
  /\ place[s] = "idle" /\ last < MaxIssued
  /\ Move(s, "sign_in", {}, NoEntry) /\ Changes(s)
  /\ UNCHANGED <<serverVars, file, session, deaths>>

SignIn(s) ==
  /\ place[s] = "sign_in" /\ last < MaxIssued
  /\ last' = last + 1
  /\ \E given \in {0, last + 1} :
       LET e == [login |-> last + 1, token |-> last + 1, refresh |-> given] IN
       grant' = [grant EXCEPT ![last + 1] = given] /\ Move(s, "open", FilesOf(e), e)
  /\ UNCHANGED <<old, file, session, upset, deaths>>

SignInFails(s) ==
  /\ place[s] = "sign_in" /\ Stop(s)
  /\ UNCHANGED <<serverVars, file, session, upset, deaths>>

(* write_secret_file, write_cloud_profile: truncate, then write. *)
OpenFile(s) ==
  /\ place[s] = "open"
  /\ file' = [file EXCEPT ![First(files[s])] = Empty]
  /\ Move(s, "write", files[s], entry[s])
  /\ UNCHANGED <<serverVars, session, upset, deaths>>

(* What another has written meanwhile is overwritten from the start, and its end may show. *)
(* With the last file a login is in force, and a refreshing command has its token.         *)
WriteFile(s) ==
  /\ place[s] = "write"
  /\ LET name == First(files[s])
         whole == Whole(Part(name, entry[s]))
     IN \E now \in IF file[name] = Empty THEN {whole} ELSE {whole, Garbled} :
          file' = [file EXCEPT ![name] = now]
  /\ IF files[s] = {First(files[s])}
     THEN Stop(s) /\ session' = entry[s].login
     ELSE Move(s, "open", files[s] \ {First(files[s])}, entry[s]) /\ UNCHANGED session
  /\ UNCHANGED <<serverVars, upset, deaths>>

(* run_logout removes the files that are there, all but the profile; the server is not     *)
(* told.                                                                                   *)
BeginLogout(s) ==
  /\ place[s] = "idle"
  /\ Move(s, "remove", {"access", "refresh", "cache"}, NoEntry) /\ Changes(s)
  /\ UNCHANGED <<serverVars, file, session, deaths>>

Remove(s) ==
  /\ place[s] = "remove"
  /\ file' = [file EXCEPT ![First(files[s])] = Absent]
  /\ IF files[s] = {First(files[s])}
     THEN Stop(s) /\ session' = 0
     ELSE Move(s, "remove", files[s] \ {First(files[s])}, NoEntry) /\ UNCHANGED session
  /\ UNCHANGED <<serverVars, upset, deaths>>

(* A file that was there when it was looked for, and that another logout has removed since. *)
RemoveFails(s) ==
  /\ place[s] = "remove" /\ upset /\ file[First(files[s])] = Absent /\ Stop(s)
  /\ UNCHANGED <<serverVars, file, session, upset, deaths>>

(* A command is killed, or cannot write: what it has done to the files stays. *)
Die(s) ==
  /\ place[s] # "idle" /\ deaths < MaxDeaths
  /\ deaths' = deaths + 1 /\ Stop(s)
  /\ upset' = (upset \/ place[s] \in {"open", "write", "remove"})
  /\ UNCHANGED <<serverVars, file, session>>

Expire ==
  /\ old < last /\ old' = old + 1
  /\ UNCHANGED <<last, grant, file, shellVars, session, upset, deaths>>

Next ==
  \/ Expire
  \/ \E s \in Shells :
       \/ ReadCache(s) \/ ReadAccess(s) \/ AskServer(s) \/ AskFails(s)
       \/ BeginLogin(s) \/ SignIn(s) \/ SignInFails(s) \/ OpenFile(s) \/ WriteFile(s)
       \/ BeginLogout(s) \/ Remove(s) \/ RemoveFails(s) \/ Die(s)

Spec == Init /\ [][Next]_loginVars
-----------------------------------------------------------------------------
\* The files hold the session: cache, access file and profile are of its login, its refresh
\* token is the one the server accepts; or there is no session and no token.
SessionIsHeld ==
  IF session = 0
  THEN \A name \in Names \ {"profile"} : file[name] = Absent
  ELSE /\ file["cache"].is = "whole" /\ file["profile"] = Whole(session)
       /\ LET e == file["cache"].of IN
          /\ e.login = session /\ e.refresh = grant[session]
          /\ file["access"] = Whole(e.token)
          /\ e.refresh # 0 => file["refresh"] = Whole(e.refresh)

\* Between commands the files hold the session: cache, access file and profile are of one
\* login, its refresh token is the one the server accepts, however often it was refreshed,
\* and after a logout there is no token; unless two commands changed the files at once, or
\* one was cut short between the server's answer and the last file
\* (refresh_cloud_token_cache, write_cloud_token_cache, run_logout).
FilesHoldTheSession == Quiet /\ ~upset => SessionIsHeld

\* While a command refreshes or signs in again, another that wants a token finds one: at no
\* moment are the cache and the access file both without it (write_cloud_token_cache).
ATokenIsThere ==
  session # 0 /\ ~upset /\ (\A s \in Shells : place[s] # "remove") =>
    file["cache"].is = "whole" \/ file["access"].is = "whole"

\* A login lasts until the logout: the files hold it between commands, and a token can be
\* had from them while they are written (shared_cloud_user_token, write_cloud_token_cache).
LoginIsKept == FilesHoldTheSession /\ ATokenIsThere

\* A cached refresh token is one the server accepts.  Two commands that refresh at once, or
\* one that is killed before the cache is written, leave a revoked one.
CachedTokenIsAccepted ==
  Quiet /\ file["cache"].is = "whole" =>
    file["cache"].of.refresh \in {0, grant[file["cache"].of.login]}

\* After a logout only a login puts tokens there.  A refresh that was under way does too.
LogoutIsFinal ==
  [][session = 0 /\ session' # 0 =>
       \E s \in Shells : files[s] = {"profile"} /\ place'[s] = "idle"]_loginVars
=============================================================================
