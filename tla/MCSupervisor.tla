---------------------------- MODULE MCSupervisor ----------------------------
(***************************************************************************)
(* Instances of Supervisor for TLC: calls with a common id, a cancellation  *)
(* of that id, process slots so that a second live child could appear.      *)
(***************************************************************************)
EXTENDS SupervisorProps, TLC

CONSTANTS c1, c2, c3, k1, p1, p2, idA, idB

MCIdOf     == [c \in Calls |-> IF c = c3 THEN idB ELSE idA]
MCTargetOf == [k \in Cancels |-> idA]
MCSymmetry == Permutations(Procs)
=============================================================================
