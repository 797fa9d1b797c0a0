------------------------------- MODULE MCTrail -------------------------------
(***************************************************************************)
(* A small instance of the audit trail: two sessions run one case, and a   *)
(* script advances and resets the clock they read.  The sessions are       *)
(* interchangeable and every property is an invariant.                     *)
(***************************************************************************)
EXTENDS AuditTrail

CONSTANTS s1, s2, cli   \* model values

MCSessions == {s1, s2}
MCProcesses == MCSessions \cup {cli}
MCSymmetry == Permutations(MCSessions)
=============================================================================
