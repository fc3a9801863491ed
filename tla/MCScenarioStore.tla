-------------------------- MODULE MCScenarioStore --------------------------
(* Two tabs, two scenarios, two sessions, room for one scenario. *)
EXTENDS ScenarioStore, TLC

MCSymmetry == Permutations(Tabs) \cup Permutations(Ids) \cup Permutations(Sessions)
=============================================================================
