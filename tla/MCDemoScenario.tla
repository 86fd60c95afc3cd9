-------------------------- MODULE MCDemoScenario ----------------------------
(***************************************************************************)
(* Instances of DemoScenario for TLC.                                      *)
(***************************************************************************)
EXTENDS DemoScenario, TLC

CONSTANTS x, y   \* tabs; where there are two scenarios, y shows the second

OneScenario == [t \in Tabs |-> CHOOSE s \in Scenarios : TRUE]
AScenarioEach == [t \in Tabs |-> IF t = y THEN "research" ELSE "repair"]

\* Generations are told apart by nothing but their names, nor are tabs of one scenario.
MCSymmetry == Permutations(Generations) \cup Permutations(Tabs)
MCGenerationSymmetry == Permutations(Generations)
=============================================================================
