-------------------------- MODULE MCScheduleEngine --------------------------
(* Two slots of one variant, so that a failed trial prunes the other slot. *)
EXTENDS ScheduleEngine

MCvariant_idx == [s \in 1 .. NumSlots |-> 1]

NoFaults == [k \in Bounds |-> IF k = "threads" THEN 2 ELSE 0]
EveryFault == [k \in Bounds |-> IF k = "threads" THEN 2 ELSE 1]

\* One fault of any kind with two worker threads, or three of different kinds
\* with one.
MCFaults == {EveryFault, [EveryFault EXCEPT !["any"] = 3, !["threads"] = 1]}

\* The engine dies once.
MCCrash == {[NoFaults EXCEPT !["crash"] = 1, !["any"] = 1]}

\* One trial fails with an error.
MCTrialError == {[NoFaults EXCEPT !["trial"] = 1, !["any"] = 1, !["threads"] = 1]}
=============================================================================
