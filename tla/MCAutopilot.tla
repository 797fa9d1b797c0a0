----------------------------- MODULE MCAutopilot -----------------------------
(***************************************************************************)
(* A small instance of the demonstration system: a high-value payment and  *)
(* one of the other scenarios or of two background payments, one that      *)
(* lacked funds and one abandoned at checkout.                             *)
(***************************************************************************)
EXTENDS StrategyLab

MCPayments == {1, 2}
MCCases == 1..3
MCActions == 1..6
MCHighValue == {2}
MCSeeds == <<{ScenarioA, ScenarioB, ScenarioD} \cup {Background(i) : i \in {1, 4}},
             {ScenarioC}>>
=============================================================================
