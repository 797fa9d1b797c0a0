----------------------------- MODULE PolicyRules -----------------------------
(***************************************************************************)
(* The policy gate: seven ordered rules, each of which may object to the   *)
(* selected action, and a default approval when none does                  *)
(* (services/policy_rules.py, services/policy_engine.py).  A rule reads    *)
(* the context built for the run: the payment's status, failure reason     *)
(* and recorded attempts, the number of its outcomes verified as           *)
(* unsuccessful, and whether its amount is above the threshold.            *)
(***************************************************************************)
EXTENDS Integers, Enums

CONSTANTS
    MaxAutomaticRetries,    \* settings.max_automatic_retries
    RepeatedFailureLimit,   \* settings.repeated_failure_limit
    AllowHumanEscalation,   \* settings.allow_human_escalation
    SupportedActions        \* executor.supported_actions

\* The settings are plain, unvalidated ints and a bool.
ASSUME SettingsAssumption ==
    /\ MaxAutomaticRetries \in Int
    /\ RepeatedFailureLimit \in Int
    /\ AllowHumanEscalation \in BOOLEAN
    /\ SupportedActions \subseteq ActionType

Context == [status : PaymentStatus, reason : FailureReason, attempts : Nat,
            failures : Nat, highValue : BOOLEAN]

(***************************************************************************)
(* What each rule objects to.                                              *)
(***************************************************************************)
InvalidUnlessPending(ctx, action) ==              \* mutant of InvalidPaymentState
    action \notin TerminalActions /\ ctx.status \notin Unsuccessful \cup {"PENDING"}
InvalidPaymentState(ctx, action) ==
    action \notin TerminalActions /\ ctx.status \notin Unsuccessful

UnsupportedAction(ctx, action) == action \notin SupportedActions

RetryLimitReached(ctx, action) ==
    action \in RetryActions /\ ctx.attempts >= MaxAutomaticRetries

BudgetForRetriesOnly(ctx, action) ==              \* mutants of RecoveryBudgetExhausted
    action \in RetryActions /\ ctx.attempts >= MaxAutomaticRetries
BudgetAtExactly(ctx, action) ==
    action \notin TerminalActions /\ ctx.attempts = MaxAutomaticRetries
RecoveryBudgetExhausted(ctx, action) ==
    action \notin TerminalActions /\ ctx.attempts >= MaxAutomaticRetries

MoreThanRepeated(ctx, action) == ctx.failures > RepeatedFailureLimit   \* mutants of
NeverRepeated(ctx, action) == FALSE                                    \* RepeatedFailures
RepeatedFailures(ctx, action) == ctx.failures >= RepeatedFailureLimit

UnknownFailure(ctx, action) == ctx.reason = "UNKNOWN"

HighValueTransaction(ctx, action) == ctx.highValue

(***************************************************************************)
(* The first rule that objects decides.  The five blocking rules come      *)
(* first, so any objection of theirs blocks; the two escalating rules      *)
(* block too when no human may be asked.                                   *)
(***************************************************************************)
Blocking(ctx, action) ==
    \/ InvalidPaymentState(ctx, action)
    \/ UnsupportedAction(ctx, action)
    \/ RetryLimitReached(ctx, action)
    \/ RecoveryBudgetExhausted(ctx, action)
    \/ RepeatedFailures(ctx, action)

Escalating(ctx, action) ==
    \/ UnknownFailure(ctx, action)
    \/ HighValueTransaction(ctx, action)

PolicyVerdict(ctx, action) ==
    IF Blocking(ctx, action)
    THEN "BLOCKED"
    ELSE IF ~Escalating(ctx, action)
         THEN "APPROVED"
         ELSE IF AllowHumanEscalation THEN "ESCALATED" ELSE "BLOCKED"
==============================================================================
