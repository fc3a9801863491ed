--------------------------- MODULE MCScenarioTabs ---------------------------
(* Two windows on the same scenario, and a second scenario.                 *)
EXTENDS ScenarioTabs, TLC

MCSymmetry == Permutations(Windows)
=============================================================================
