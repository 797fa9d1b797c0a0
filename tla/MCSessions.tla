------------------------------ MODULE MCSessions ------------------------------
(***************************************************************************)
(* Small instances of WorkflowSessions.                                    *)
(***************************************************************************)
EXTENDS WorkflowSessions, TLC

CONSTANTS s1, s2

MCPayments == {"p1"}
MCTwoPayments == {"p1", "p2"}
MCHighValue == {"p2"}
MCOneCase == {1}
MCTwoCases == 1..2
MCTwoActions == 1..2
MCThreeActions == 1..3

\* Sessions are interchangeable unless some are the autopilot's.
MCSessionSymmetry == Permutations({s1, s2})
===============================================================================
