----------------------------- MODULE MCAnalysis -----------------------------
(* Two analyses, two scenarios, two positions, a few writes of the draft. *)
EXTENDS Analysis, TLC

MCSymmetry == Permutations(Runs) \cup Permutations(Scenarios) \cup Permutations(Boards)
=============================================================================
