----------------------------- MODULE MCRecovery -----------------------------
(***************************************************************************)
(* Small instances of Recovery.  Rows are numbered so that a fresh         *)
(* identifier is the least free one.                                       *)
(***************************************************************************)
EXTENDS Recovery

MCPayments == {"p1"}
MCTwoPayments == {"p1", "p2"}
MCHighValue == {"p2"}
MCThreeCases == 1..3
MCTwoCases == 1..2
MCActions4 == 1..4
MCActions5 == 1..5
=============================================================================
