------------------------------- MODULE Scoring -------------------------------
(***************************************************************************)
(* How a recovery action is chosen: the diagnosis of the cause, the        *)
(* probability of each candidate (ml/deterministic_scorer.py), its         *)
(* expected value in money (services/expected_value.py) and the ranking    *)
(* (services/decision_engine.py).                                          *)
(*                                                                         *)
(* The source computes in floating point and rounds; here probabilities    *)
(* are whole per mille, amounts whole rupees and values paise, all exact.  *)
(* Binary floats may round an exact tie of the last digit either way, so a *)
(* probability can be off by one per mille there and nowhere else.         *)
(***************************************************************************)
EXTENDS Integers, Enums

(***************************************************************************)
(* Diagnosis.                                                              *)
(***************************************************************************)
Verdict(category, transience, human) ==
    [category |-> category, transience |-> transience, requiresEscalation |-> human]

Classification ==
    [r \in FailureReason |->
        CASE r \in {"BANK_TIMEOUT", "NETWORK_ERROR"} -> Verdict("TRANSIENT", "TRANSIENT", FALSE)
          [] r = "EXPIRED_CARD"         -> Verdict("CUSTOMER_ACTION", "PERSISTENT", FALSE)
          [] r = "INSUFFICIENT_FUNDS"   -> Verdict("TIME_DEPENDENT", "TRANSIENT", FALSE)
          [] r = "CHECKOUT_ABANDONMENT" -> Verdict("ENGAGEMENT", "PERSISTENT", FALSE)
          [] r = "SUBSCRIPTION_FAILURE" -> Verdict("ENGAGEMENT", "TRANSIENT", FALSE)
          [] r = "UNKNOWN"              -> Verdict("UNKNOWN", "UNKNOWN", TRUE)]

PermitsHumanHandling(reason) ==
    Classification[reason].category # "UNKNOWN" \/ Classification[reason].requiresEscalation

(***************************************************************************)
(* Probability.  A context gives the cause, the recorded attempts, the     *)
(* amount, the customer (success rate in percent, subscriber or not), and  *)
(* which actions failed or succeeded before.                               *)
(***************************************************************************)
RatesSwapped(later, now, link, change, reminder, human) ==   \* mutant of Rates
    [a \in ActionType |->
        CASE a = "RETRY_NOW"             -> now
          [] a = "RETRY_LATER"           -> later
          [] a = "SEND_PAYMENT_LINK"     -> link
          [] a = "CHANGE_PAYMENT_METHOD" -> change
          [] a = "SEND_REMINDER"         -> reminder
          [] a = "ESCALATE_HUMAN"        -> human
          [] a = "STOP"                  -> 0]
Rates(now, later, link, change, reminder, human) ==
    [a \in ActionType |->
        CASE a = "RETRY_NOW"             -> now
          [] a = "RETRY_LATER"           -> later
          [] a = "SEND_PAYMENT_LINK"     -> link
          [] a = "CHANGE_PAYMENT_METHOD" -> change
          [] a = "SEND_REMINDER"         -> reminder
          [] a = "ESCALATE_HUMAN"        -> human
          [] a = "STOP"                  -> 0]

BaseRate ==       \* in percent
    [r \in FailureReason |->
        CASE r = "BANK_TIMEOUT"         -> Rates(35, 78, 55, 45, 25, 30)
          [] r = "NETWORK_ERROR"        -> Rates(55, 70, 48, 40, 22, 30)
          [] r = "INSUFFICIENT_FUNDS"   -> Rates(12, 45, 40, 38, 35, 28)
          [] r = "EXPIRED_CARD"         -> Rates(5, 5, 58, 72, 30, 30)
          [] r = "CHECKOUT_ABANDONMENT" -> Rates(8, 10, 42, 15, 30, 20)
          [] r = "SUBSCRIPTION_FAILURE" -> Rates(25, 60, 48, 42, 35, 28)
          [] r = "UNKNOWN"              -> Rates(10, 12, 18, 15, 12, 25)]

RoundHalfEven(n, d) ==
    LET q == n \div d
        r == n % d
    IN  IF 2 * r > d \/ (2 * r = d /\ q % 2 = 1) THEN q + 1 ELSE q

Clamp(x, low, high) == IF x \in low..high THEN x ELSE IF x < low THEN low ELSE high

\* A failure on this payment outweighs a success; in twentieths.
HistoryFactor(ctx, action) ==
    IF action \in ctx.failed THEN 12 ELSE IF action \in ctx.succeeded THEN 23 ELSE 20

\* The customer's record (0.70 + 0.60 rate) and subscription (1.05), in ten thousandths.
CustomerFactor(ctx) == (350 + 3 * ctx.rate) * (IF ctx.subscriber THEN 21 ELSE 20)

\* Each attempt leaves three quarters of the rate.
Probability(ctx, action) ==
    LET numerator   == BaseRate[ctx.reason][action] * 3 ^ ctx.attempts
                       * CustomerFactor(ctx) * HistoryFactor(ctx, action)
        denominator == 20000 * 4 ^ ctx.attempts
    IN  Clamp(RoundHalfEven(numerator, denominator), 20, 970)

(***************************************************************************)
(* Expected value, under an economy [cost, friction] in paise.             *)
(***************************************************************************)
DefaultEconomy ==
    [cost     |-> [a \in ActionType |->
                     CASE a = "RETRY_NOW" -> 500      [] a = "RETRY_LATER" -> 2000
                       [] a = "SEND_REMINDER" -> 1000 [] a = "ESCALATE_HUMAN" -> 50000
                       [] a = "STOP" -> 0             [] OTHER -> 3000],
     friction |-> [a \in ActionType |->
                     CASE a = "RETRY_NOW" -> 2000     [] a = "RETRY_LATER" -> 10000
                       [] a = "SEND_PAYMENT_LINK" -> 15000
                       [] a = "CHANGE_PAYMENT_METHOD" -> 20000
                       [] a = "SEND_REMINDER" -> 8000 [] OTHER -> 0]]

ExpectedValue(p, amount, action, economy) ==
    RoundHalfEven(p * amount, 10) - economy.cost[action] - economy.friction[action]

Valuation(ctx, action, economy) ==
    LET p == Probability(ctx, action)
    IN  [action |-> action, probability |-> p, cost |-> economy.cost[action],
         value  |-> ExpectedValue(p, ctx.amount, action, economy)]

(***************************************************************************)
(* Ranking: by value, then probability, then the cheaper action, then the  *)
(* order in which ActionType declares them.                                *)
(***************************************************************************)
DeclarationOrder ==
    [a \in ActionType |->
        CASE a = "RETRY_NOW"             -> 1
          [] a = "RETRY_LATER"           -> 2
          [] a = "SEND_PAYMENT_LINK"     -> 3
          [] a = "CHANGE_PAYMENT_METHOD" -> 4
          [] a = "SEND_REMINDER"         -> 5
          [] a = "ESCALATE_HUMAN"        -> 6
          [] a = "STOP"                  -> 7]

CheapestFirst(u, v) ==                       \* mutant of Before: the value is ignored
    \/ u.cost < v.cost
    \/ u.cost = v.cost /\ DeclarationOrder[u.action] < DeclarationOrder[v.action]
Before(u, v) ==
    \/ u.value > v.value
    \/ u.value = v.value /\ u.probability > v.probability
    \/ u.value = v.value /\ u.probability = v.probability /\ u.cost < v.cost
    \/ /\ u.value = v.value /\ u.probability = v.probability /\ u.cost = v.cost
       /\ DeclarationOrder[u.action] < DeclarationOrder[v.action]

Best(ctx, candidates, economy) ==
    LET scored == {Valuation(ctx, a, economy) : a \in candidates}
    IN  (CHOOSE v \in scored : \A w \in scored \ {v} : Before(v, w)).action

\* The disposition when the generator returns nothing.
FallbackAction(reason, allowHuman) ==
    IF PermitsHumanHandling(reason) /\ allowHuman THEN "ESCALATE_HUMAN" ELSE "STOP"

SelectedAction(ctx, candidates, economy, allowHuman) ==
    IF candidates = {} THEN FallbackAction(ctx.reason, allowHuman)
                       ELSE Best(ctx, candidates, economy)
==============================================================================
