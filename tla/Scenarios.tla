------------------------------ MODULE Scenarios ------------------------------
(***************************************************************************)
(* The synthetic data every demonstration starts from: four scenarios      *)
(* whose outcome is meant to be guaranteed and a background population     *)
(* (services/scenario_generator.py), and the board that shows what is      *)
(* expected of the four (api/routes/command_center.py).                    *)
(*                                                                         *)
(* A seed is an at-risk payment together with its customer.  Amounts are   *)
(* whole rupees and success rates whole percent.                           *)
(***************************************************************************)
EXTENDS PolicyRules, Scoring, Sequences

CONSTANT HighValueThreshold   \* settings.high_value_escalation_threshold, in rupees

ASSUME ThresholdAssumption == HighValueThreshold \in Nat

AtRiskPayment == [key : {"A", "B", "C", "D", None}, status : Unsuccessful, reason : FailureReason,
                  attempts : Nat \ {0}, amount : Nat, rate : 0..100, subscriber : BOOLEAN]
AtRisk(key, status, reason, attempts, amount, rate, subscriber) ==
    [key |-> key, status |-> status, reason |-> reason, attempts |-> attempts,
     amount |-> amount, rate |-> rate, subscriber |-> subscriber]

ScenarioA == AtRisk("A", "FAILED", "BANK_TIMEOUT", 1, 10000, 94, TRUE)
ScenarioB == AtRisk("B", "FAILED", "INSUFFICIENT_FUNDS", MaxAutomaticRetries, 2500, 50, FALSE)
ScenarioC == AtRisk("C", "FAILED", "BANK_TIMEOUT", 1, HighValueThreshold + 40000, 92, TRUE)
ScenarioD == AtRisk("D", "FAILED", "EXPIRED_CARD", 1, 6000, 94, TRUE)

\* One at-risk payment per background customer, cycling the failure causes.
BackgroundMix == <<[reason |-> "BANK_TIMEOUT", amount |-> 2499],
                   [reason |-> "INSUFFICIENT_FUNDS", amount |-> 1899],
                   [reason |-> "EXPIRED_CARD", amount |-> 4999],
                   [reason |-> "NETWORK_ERROR", amount |-> 1299],
                   [reason |-> "CHECKOUT_ABANDONMENT", amount |-> 899],
                   [reason |-> "SUBSCRIPTION_FAILURE", amount |-> 799]>>

\* Customer i: payments made before, how many failed, and a subscription; one
\* that is past due counts as one, as CustomerSnapshot.is_subscriber has it.
BackgroundRate(i) ==
    LET total == 4 + ((3 * i) % 26)
    IN  RoundHalfEven(100 * (total - (i % 5)), total)

Background(i) ==
    LET mix == BackgroundMix[(i % Len(BackgroundMix)) + 1]
    IN  AtRisk(None, IF mix.reason = "CHECKOUT_ABANDONMENT" THEN "ABANDONED" ELSE "FAILED",
               mix.reason, 1, mix.amount + 50 * i, BackgroundRate(i), i % 3 = 0 \/ i % 7 = 0)

\* What the board promises of the four scenarios.
DemoScenarioSpecs ==
    [A |-> [action |-> "RETRY_LATER", final |-> "RECOVERED"],
     B |-> [action |-> "RETRY_LATER", final |-> "STOPPED"],
     C |-> [action |-> "RETRY_LATER", final |-> "ESCALATED"],
     D |-> [action |-> "CHANGE_PAYMENT_METHOD", final |-> "RECOVERED"]]
==============================================================================
