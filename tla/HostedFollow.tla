----------------------------- MODULE HostedFollow -----------------------------
(***************************************************************************)
(* What `buc runs logs`, `events` and `watch` show of a hosted run when    *)
(* they --follow it (lab-cli/src/bin/buc.rs), together with the reads of   *)
(* bucephalus-cloud/src/runtime/repository.ts they poll.                   *)
(*                                                                         *)
(* One command follows one run; the run goes on between two polls.  A poll *)
(* is one request and one print.  A log is its bytes: letters and line     *)
(* ends.  An event is its source and row_seq, and the rows are kept in the *)
(* order of their time stamps.  A resource is its version, and the version *)
(* of the collection the versions of its members.                          *)
(***************************************************************************)
EXTENDS Integers, Sequences, FiniteSetsExt, SequencesExt

CONSTANTS
    Letters,     \* the bytes a log is made of, besides the line end
    MaxBytes,    \* bound: length of a log
    Tails,       \* values of --tail-lines, numbers; 0 when it is not given
    Trials,      \* the trials whose event_rows there are, positive numbers
    MaxRows,     \* bound: events of the run
    Limits,      \* values of --limit, positive numbers
    EventLines,  \* the events of a page that are printed: 20
    WatchLines,  \* the changes of a poll that are printed: 50
    Resources,   \* the runtime resources there may be
    MaxVersion   \* bound: versions of a resource

VARIABLES
    cmd,        \* the command and its options
    log,        \* the bytes of the stream
    out,        \* what is on the terminal or in the file of --out
    previous,   \* the last response of `logs`
    read,       \* history: the log's length at the last poll and at the one before, and the
                \* bytes the last poll printed
    rows,       \* the run's events in the order of their time stamps
    cursor,     \* the continue token; -1 for none
    shown,      \* the events printed
    whole,      \* history: no page was full or longer than what is printed of it
    inventory,  \* each resource's version; 0 when there is none
    known,      \* the --known-resource values
    version,    \* the inventory that --resource-version stands for; Absent for none
    view,       \* what the printed events make of the inventory
    missed      \* history: the resources of which a change was not told

vars == <<cmd, log, out, previous, read, rows, cursor, shown, whole, inventory, known, version,
          view, missed>>

NL    == "\n"
Cloud == 0
Bytes == Letters \cup {NL}
Absent == [r \in Resources |-> 0]
Inventories == [Resources -> 0..MaxVersion]

Commands ==
    [name : {"logs"}, tail : Tails]
    \cup [name : {"events"}, limit : Limits, source : {"all", "cloud"}]
    \cup [name : {"watch"}]

Only(inv, S) == [r \in Resources |-> IF r \in S THEN inv[r] ELSE 0]

\* A file of --out may have been there; a watch may go on from an inventory, of which it
\* says the version, all or some of the resources, or both.
Init ==
    /\ cmd \in Commands
    /\ log = <<>> /\ out = <<"old">> /\ previous = <<>> /\ read = [at |-> 0, before |-> 0, printed |-> 0]
    /\ rows = <<>> /\ cursor = -1 /\ shown = <<>> /\ whole = TRUE
    /\ inventory = Absent /\ missed = {}
    /\ view \in IF cmd.name = "watch" THEN Inventories ELSE {Absent}
    /\ \/ version = view /\ known \in {Only(view, S) : S \in SUBSET Resources}
       \/ version = Absent /\ known = view

logVars == <<log, out, previous, read>>
eventVars == <<rows, cursor, shown, whole>>
watchVars == <<inventory, known, version, view, missed>>

-----------------------------------------------------------------------------
\* Logs.

Suffix(s, n) == SubSeq(s, Len(s) - n + 1, Len(s))

\* The last n lines.  A stream without a byte has one line end, as the server splits it.
tailTextBytes(s, n) ==
    IF s = <<>> THEN <<NL>>
    ELSE LET starts == {1} \cup {i + 1 : i \in {j \in 1..(Len(s) - 1) : s[j] = NL}}
             kept == {i \in starts : Cardinality({j \in starts : j >= i}) <= n}
         IN SubSeq(s, Min(kept), Len(s))

Response == IF cmd.tail = 0 THEN log ELSE tailTextBytes(log, cmd.tail)

\* Mutant: the shortest overlap is taken.
appended_raw_log_bytesShort(old, new) ==
    LET shorter == IF Len(old) < Len(new) THEN Len(old) ELSE Len(new)
        overlaps == {n \in 1..shorter : Suffix(old, n) = SubSeq(new, 1, n)}
    IN Suffix(new, Len(new) - IF overlaps = {} THEN 0 ELSE Min(overlaps))

\* What of the response is new: all that follows the longest overlap with the last one.
appended_raw_log_bytes(old, new) ==
    LET shorter == IF Len(old) < Len(new) THEN Len(old) ELSE Len(new)
        overlap == Max({0} \cup {n \in 1..shorter : Suffix(old, n) = SubSeq(new, 1, n)})
    IN Suffix(new, Len(new) - overlap)

Write(b) ==
    /\ cmd.name = "logs" /\ Len(log) < MaxBytes
    /\ log' = Append(log, b)
    /\ UNCHANGED <<cmd, out, previous, read, eventVars, watchVars>>

\* run_logs: the first poll writes over the file, the others append to it.
PollLogs ==
    /\ cmd.name = "logs"
    /\ LET new == appended_raw_log_bytes(previous, Response) IN
        /\ out' = IF out = <<"old">> THEN new ELSE out \o new
        /\ read' = [at |-> Len(log), before |-> read.at, printed |-> Len(new)]
    /\ previous' = Response
    /\ UNCHANGED <<cmd, log, eventVars, watchVars>>

-----------------------------------------------------------------------------
\* Events.

\* The places of a source's events.
Of(source) == {i \in DOMAIN rows : rows[i].source = source}

\* One more than the highest; control-plane events start from 1, a trial's rows from 0.
NextSeq(source) ==
    Max({IF source = Cloud THEN 1 ELSE 0} \cup {rows[i].seq + 1 : i \in Of(source)})

\* A trial's row is stamped when it is written.  A control-plane event is stamped when its
\* transaction begins and numbered when it has the run's lock, so that two of them may
\* come in the other order.
EventHappens(source, place) ==
    /\ cmd.name = "events" /\ Len(rows) < MaxRows
    /\ place \in {Len(rows) + 1} \cup
                 {i \in DOMAIN rows : i = Len(rows) /\ source = Cloud /\ rows[i].source = Cloud}
    /\ rows' = InsertAt(rows, place, [source |-> source, seq |-> NextSeq(source)])
    /\ UNCHANGED <<cmd, cursor, shown, whole, logVars, watchVars>>

\* event_rows are read up to one more than the limit, in the order of trial and row.
TrialRows ==
    LET later == {i \in DOMAIN rows : rows[i].source \in Trials /\ rows[i].seq > cursor}
        before(i, j) == \/ rows[i].source < rows[j].source
                        \/ rows[i].source = rows[j].source /\ rows[i].seq < rows[j].seq
    IN {i \in later : Cardinality({j \in later : before(j, i)}) <= cmd.limit}

CloudRows == {i \in Of(Cloud) : rows[i].seq > cursor}

Matching == CloudRows \cup IF cmd.source = "all" THEN TrialRows ELSE {}

InOrder(places) ==
    CHOOSE s \in [1..Cardinality(places) -> places] : \A i, j \in DOMAIN s : i < j => s[i] < s[j]

\* The first cmd.limit of the rows that match, by time.
Page ==
    [i \in {k \in 1..Cardinality(Matching) : k <= cmd.limit} |-> rows[InOrder(Matching)[i]]]

\* runtimeEventNextAfterRowSeq, runtimeEventListResourceVersion: the highest row_seq
\* shown so far, and 0 for none.
NextCursor(page) ==
    Max({IF cursor = -1 THEN 0 ELSE cursor} \cup {page[i].seq : i \in DOMAIN page})

\* runtime_events_summary_lines: of a long page the rest is counted.
Printed(page) == SubSeq(page, 1, Min({EventLines, Len(page)}))

\* run_events: the next page is after all of this one.
PollEvents ==
    /\ cmd.name = "events"
    /\ shown' = shown \o Printed(Page)
    /\ cursor' = NextCursor(Page)
    /\ whole' = (whole /\ Cardinality(Matching) <= cmd.limit /\ Len(Page) <= EventLines)
    /\ UNCHANGED <<cmd, rows, logVars, watchVars>>

-----------------------------------------------------------------------------
\* Resources.

\* A resource appears, changes, goes, or comes back as it was.
Change(r, v) ==
    /\ cmd.name = "watch" /\ v # inventory[r]
    /\ inventory' = [inventory EXCEPT ![r] = v]
    /\ UNCHANGED <<cmd, known, version, view, missed, logVars, eventVars>>

\* Nothing is told to who names the version of the inventory and no resource.
UpToDate == version = inventory /\ known = Absent

\* watchResources: ADDED and MODIFIED carry the version, DELETED takes the resource away;
\* the rest is as it was known.
Watched(r) ==
    [type |-> CASE UpToDate -> "none"
                [] ~UpToDate /\ known[r] = 0 /\ inventory[r] # 0 -> "ADDED"
                [] ~UpToDate /\ known[r] # 0 /\ inventory[r] = 0 -> "DELETED"
                [] ~UpToDate /\ 0 \notin {known[r], inventory[r]} /\ known[r] # inventory[r] -> "MODIFIED"
                [] OTHER -> "none",
     version |-> inventory[r]]

Changed == {r \in Resources : Watched(r).type # "none"}

\* runtime_watch_summary_lines: the first changes, what was deleted last; the rest is counted.
MayPrint(S) ==
    /\ Cardinality(S) = Min({Cardinality(Changed), WatchLines})
    /\ \A d \in S, r \in Changed \ S :
          Watched(d).type = "DELETED" => Watched(r).type = "DELETED"

\* What only the version stood for and is gone, nobody is told.
Forgotten == {r \in Resources : version[r] # 0 /\ known[r] = 0 /\ inventory[r] = 0}

\* run_watch, runtime_watch_follow_cursors: the next poll goes on from the whole inventory.
PollWatch ==
    /\ cmd.name = "watch"
    /\ \E S \in SUBSET Changed :
         /\ MayPrint(S)
         /\ view' = [r \in Resources |-> IF r \in S THEN Watched(r).version ELSE view[r]]
         /\ missed' = (missed \ S) \cup (Changed \ S) \cup Forgotten
    /\ known' = inventory /\ version' = inventory
    /\ UNCHANGED <<cmd, inventory, logVars, eventVars>>

-----------------------------------------------------------------------------
Next ==
    \/ \E b \in Bytes : Write(b)
    \/ \E s \in Trials \cup {Cloud}, i \in 1..(MaxRows + 1) : EventHappens(s, i)
    \/ \E r \in Resources, v \in 0..MaxVersion : Change(r, v)
    \/ PollLogs \/ PollEvents \/ PollWatch

Spec == Init /\ [][Next]_vars

-----------------------------------------------------------------------------
\* A followed log repeats no byte: a poll prints no more than was appended since the one
\* before, and without --tail-lines the log as it is (appended_raw_log_bytes).  The
\* exception is the line end that --tail-lines makes of an empty log.
LogIsNotRepeated ==
    cmd.name = "logs" /\ out # <<"old">> =>
        /\ cmd.tail = 0 => out = SubSeq(log, 1, read.at)
        /\ read.printed <= read.at - read.before \/ read.at = 0

\* No event is printed twice.  The control-plane events alone are printed to the last
\* one, as long as no page was full or longer than what is printed of one
\* (runtimeEventNextAfterRowSeq, runtime_events_summary_lines).
EventsAreShownOnce ==
    /\ \A i, j \in DOMAIN shown : i # j => shown[i] # shown[j]
    /\ cmd.name = "events" /\ cmd.source = "cloud" /\ whole =>
          {shown[i].seq : i \in DOMAIN shown}
              = {rows[i].seq : i \in {j \in Of(Cloud) : rows[j].seq <= cursor}}

\* Whoever has applied the printed changes has the inventory of the last poll, or before it
\* the one the watch goes on from, but for the resources of which a change was not printed
\* or only --resource-version stood (runtime_watch_follow_cursors, watchResources).
WatchIsCurrent ==
    \A r \in Resources \ missed : view[r] \in {known[r], version[r]}

\* Without the exception: more changes than are printed, or a watch from --resource-version
\* alone, leave a resource that is gone or an old version in the view.
WatchTellsAll == \A r \in Resources : view[r] \in {known[r], version[r]}

\* The rest of a page is printed by a later poll; but the cursor has passed it.
PagesArePrinted ==
    cmd.name = "events" /\ cmd.source = "cloud" /\ Len(rows) <= cmd.limit =>
        {rows[i].seq : i \in {j \in Of(Cloud) : rows[j].seq <= cursor}}
            \subseteq {shown[i].seq : i \in DOMAIN shown}

\* Without the exceptions: when a poll leaves nothing for the next one, every event has
\* been printed.  One cursor serves the rows of all trials, and an empty first page
\* passes row 0.
EveryEventIsShown ==
    cmd.name = "events" /\ cmd.source = "all" /\ cursor # -1 /\ Matching = {} =>
        ToSet(rows) \subseteq ToSet(shown)

\* With --tail-lines too all that was appended and is in the response is printed.  Equal
\* lines are taken for an overlap.
AppendedIsPrinted ==
    cmd.name = "logs" =>
        read.printed >= Min({read.at - read.before, Len(previous)})
=============================================================================
