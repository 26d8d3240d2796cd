----------------------------- MODULE StoreWriter -----------------------------
(***************************************************************************)
(* The writer thread of a run's store (persistence/writer.rs): the engine, *)
(* its workers and the heartbeat send their writes over one channel and    *)
(* wait for the reply.  The guard sends Stop and joins the thread; what is *)
(* still in the channel then is dropped with it, and so are the senders of *)
(* the replies.                                                            *)
(*                                                                         *)
(* Each caller writes a row of its own: a trial's attempt, the lease, the  *)
(* run's control record.  MaxWrites bounds the writes of each.             *)
(***************************************************************************)
EXTENDS Integers, Sequences, FiniteSets

CONSTANTS Callers, MaxWrites

VARIABLES
  queue,    \* the channel: <<caller, value>> or Stop
  thread,   \* "open", "loop", "ended"
  guard,    \* "live", "join", "dropped"
  store,    \* the row of each caller
  waiting,  \* callers blocked in recv
  reply,    \* what is in each caller's reply channel
  writes,   \* writes a caller has started: the value of the last one
  told      \* history: what the row may be by all its caller was told

vars == <<queue, thread, guard, store, waiting, reply, writes, told>>

\* RunStoreWriteCommand::Stop, in the shape of a write.
StopCommand == <<"Stop", 0>>

\* Every variable has a value of its type; the callers that wait are those whose
\* command is in the channel or whose answer has come (put_runtime_json,
\* run_store_writer_loop).
WriterTypeOK ==
  /\ queue \in Seq((Callers \X (1 .. MaxWrites)) \cup {StopCommand})
  /\ thread \in {"open", "loop", "ended"}
  /\ guard \in {"live", "join", "dropped"}
  /\ store \in [Callers -> 0 .. MaxWrites]
  /\ waiting \subseteq Callers
  /\ reply \in [Callers -> {"none", "ok", "err", "dropped"}]
  /\ writes \in [Callers -> 0 .. MaxWrites]
  /\ told \in [Callers -> SUBSET (0 .. MaxWrites)]
  /\ waiting = {c \in Callers : \/ reply[c] # "none"
                               \/ \E i \in DOMAIN queue : queue[i][1] = c}

Init ==
  /\ queue = <<>>
  /\ thread = "open"
  /\ guard = "live"
  /\ store = [c \in Callers |-> 0]
  /\ waiting = {}
  /\ reply = [c \in Callers |-> "none"]
  /\ writes = [c \in Callers |-> 0]
  /\ told = [c \in Callers |-> {0}]

-----------------------------------------------------------------------------
\* put_runtime_json, upsert_trial_attempt_state: the command is sent, and the
\* caller waits; with the thread gone the call has failed already.
Send(c) ==
  /\ c \notin waiting /\ writes[c] < MaxWrites
  /\ writes' = [writes EXCEPT ![c] = @ + 1]
  /\ IF thread = "ended" THEN UNCHANGED <<queue, waiting>>
     ELSE /\ queue' = Append(queue, <<c, writes[c] + 1>>)
          /\ waiting' = waiting \cup {c}
  /\ UNCHANGED <<thread, guard, store, reply, told>>

\* rx.recv(): a reply, or no sender is left.  After an error of the store the caller cannot
\* tell whether the write was made; one that was dropped was not.
Receive(c) ==
  /\ c \in waiting /\ reply[c] # "none"
  /\ waiting' = waiting \ {c}
  /\ reply' = [reply EXCEPT ![c] = "none"]
  /\ told' = [told EXCEPT ![c] = CASE reply[c] = "ok" -> {writes[c]}
                                   [] reply[c] = "err" -> @ \cup {writes[c]}
                                   [] OTHER -> @]
  /\ UNCHANGED <<queue, thread, guard, store, writes>>

-----------------------------------------------------------------------------
\* The thread ends: the receiver goes, the commands in it, their reply senders.
Ends ==
  /\ thread' = "ended"
  /\ queue' = <<>>
  /\ reply' = [c \in Callers |->
                 IF \E i \in DOMAIN queue : queue[i][1] = c
                 THEN "dropped" ELSE reply[c]]

\* The store is opened; if that fails the thread ends at once.
OpenStore ==
  /\ thread = "open"
  /\ \/ thread' = "loop" /\ UNCHANGED <<queue, reply>>
     \/ Ends
  /\ UNCHANGED <<guard, store, waiting, writes, told>>

\* Mutant: the reply is sent whatever became of the write.
ApplyAndPraise ==
  /\ thread = "loop" /\ queue # <<>> /\ Head(queue) # StopCommand
  /\ LET c == Head(queue)[1] IN
       /\ store' \in {store, [store EXCEPT ![c] = Head(queue)[2]]}
       /\ reply' = [reply EXCEPT ![c] = "ok"]
  /\ queue' = Tail(queue)
  /\ UNCHANGED <<thread, guard, waiting, writes, told>>

\* A write is carried out and answered, or the store reports an error, which may come after
\* the commit.
Apply ==
  /\ thread = "loop" /\ queue # <<>> /\ Head(queue) # StopCommand
  /\ LET c == Head(queue)[1] IN
       \/ /\ store' = [store EXCEPT ![c] = Head(queue)[2]]
          /\ reply' = [reply EXCEPT ![c] = "ok"]
       \/ /\ reply' = [reply EXCEPT ![c] = "err"]
          /\ store' \in {store, [store EXCEPT ![c] = Head(queue)[2]]}
  /\ queue' = Tail(queue)
  /\ UNCHANGED <<thread, guard, waiting, writes, told>>

Stop ==
  /\ thread = "loop" /\ queue # <<>> /\ Head(queue) = StopCommand
  /\ Ends
  /\ UNCHANGED <<guard, store, waiting, writes, told>>

\* RunStoreWriterGuard::drop: Stop, if somebody is there to hear it, then join.
DropGuard ==
  /\ guard = "live"
  /\ guard' = "join"
  /\ queue' = IF thread = "ended" THEN queue ELSE Append(queue, StopCommand)
  /\ UNCHANGED <<thread, store, waiting, reply, writes, told>>

Join ==
  /\ guard = "join" /\ thread = "ended"
  /\ guard' = "dropped"
  /\ UNCHANGED <<queue, thread, store, waiting, reply, writes, told>>

Next ==
  \/ \E c \in Callers : Send(c) \/ Receive(c)
  \/ OpenStore \/ Apply \/ Stop \/ DropGuard \/ Join

\* The threads run; the guard is dropped when the run is over.
Fairness ==
  /\ \A c \in Callers : WF_vars(Receive(c))
  /\ WF_vars(OpenStore \/ Apply \/ Stop)
  /\ WF_vars(DropGuard) /\ WF_vars(Join)

Spec == Init /\ [][Next]_vars /\ Fairness

-----------------------------------------------------------------------------
\* For a caller that is not waiting the row is the last write it was told is done, or one
\* since then that the store reported an error of: a call that came too late, or was dropped
\* with the channel, wrote nothing (run_store_writer_loop).
StoreMatchesReplies ==
  \A c \in Callers : c \notin waiting => store[c] \in told[c]

\* The writer is gone and nobody waits for it (what ThreadsFinish of
\* MCRunnerThreads waits for).
AllAnswered == guard = "dropped" /\ waiting = {}
=============================================================================
