------------------------ MODULE MCStoreTransactions -------------------------
(* One slot of one variant, claimed and committed over several connections. *)
EXTENDS StoreTransactions

MCvariant_idx == [s \in 1 .. NumSlots |-> s]
=============================================================================
