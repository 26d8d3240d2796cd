----------------------------- MODULE RunLedger ------------------------------
(***************************************************************************)
(* What a run promises about its schedule: every slot is concluded at most *)
(* once, with one outcome, and a conclusion is never taken back or         *)
(* replaced.  SlotStore implements this, whoever calls it.                 *)
(***************************************************************************)
EXTENDS Schedule

VARIABLE ledger   \* the commit of each slot, NoCommit while it is open

Init == ledger = [s \in Slots |-> NoCommit]

Conclude(s, c) ==
  /\ ledger[s] = NoCommit
  /\ ledger' = [ledger EXCEPT ![s] = c]

Next == \E s \in Slots : \E c \in Commits : Conclude(s, c)

Spec == Init /\ [][Next]_ledger
=============================================================================
