---------------------------- MODULE MCSlotBroker ----------------------------
(* Three slots of two variants pulled by two workers, one trial per variant. *)
EXTENDS SlotBroker

MCvariant_idx == [s \in 1 .. NumSlots |-> IF s < 3 THEN 1 ELSE 2]
=============================================================================
