------------------------------ MODULE Recovery ------------------------------
(***************************************************************************)
(* The revenue-recovery core over the committed database: one action per   *)
(* transaction.  Payments are ingested, failed and captured by requests    *)
(* and webhooks; the risk detector opens recovery cases; a workflow run    *)
(* picks one action for a case, passes it through the policy gate and      *)
(* stops, escalates, schedules or executes it; the clock makes scheduled   *)
(* actions due.                                                            *)
(*                                                                         *)
(* A run commits once, at its end (recovery_workflow.py:212), so the case  *)
(* states it walks through never reach the database and do not appear      *)
(* here.  Ingestion commits the payment first and the case later; between  *)
(* the two the request is counted in "detecting".                          *)
(***************************************************************************)
EXTENDS PolicyRules, FiniteSets

CONSTANTS
    Payments,       \* identifiers of payments, cases and actions
    Cases,
    Actions,
    HighValue,      \* payments above settings.high_value_escalation_threshold
    Provider,       \* the configured executor
    RetryDelay,     \* settings.retry_later_delay_minutes, in clock steps
    IngestReasons,  \* failure causes reported from outside
    OpenOnIngest,   \* values requests give open_recovery_case
    AttemptCap,     \* bound: no outside event past this many attempts
    DetectCap,      \* bound: requests between their two commits, per payment
    OrderCap        \* bound: orders left behind by runs that failed

ASSUME ConstantsAssumption ==
    /\ Payments # {} /\ Cases # {}
    /\ IsFiniteSet(Actions)
    /\ HighValue \subseteq Payments
    /\ Provider \in {"simulator", "razorpay"}
    /\ RetryDelay \in Nat
    /\ IngestReasons \subseteq FailureReason
    /\ OpenOnIngest \subseteq BOOLEAN
    /\ AttemptCap \in Nat /\ DetectCap \in Nat /\ OrderCap \in Nat

VARIABLES
    payments,       \* Payment rows
    cases,          \* RecoveryCase rows
    actions,        \* RecoveryAction rows, each with its RecoveryOutcome
    detecting,      \* requests that committed a failure and have not yet detected it
    orders          \* orders and payment links that exist at Razorpay

vars == <<payments, cases, actions, detecting, orders>>

Outcome == {None, "recovered", "unrecovered"}

PaymentRow == [status : PaymentStatus \cup {Absent},
               reason : FailureReason \cup {None}, attempts : Nat]
CaseRow    == [state : CaseState \cup {Absent}, payment : Payments]
\* "wait" is the time left until scheduled_at, 0 once it is due.
ActionRow  == [status : ActionStatus \cup {Absent}, case : Cases, type : ActionType,
               scheduled : BOOLEAN, wait : Nat, executed : BOOLEAN, outcome : Outcome]

NoPayment == [status |-> Absent, reason |-> None, attempts |-> 0]
NoCase    == [state |-> Absent, payment |-> CHOOSE p \in Payments : TRUE]
Proposed(c, t) == [status |-> "PROPOSED", case |-> c, type |-> t, scheduled |-> FALSE,
                   wait |-> 0, executed |-> FALSE, outcome |-> None]
NoAction  == [Proposed(CHOOSE c \in Cases : TRUE, "STOP") EXCEPT !.status = Absent]

Init ==
    /\ payments  = [p \in Payments |-> NoPayment]
    /\ cases     = [c \in Cases |-> NoCase]
    /\ actions   = [a \in Actions |-> NoAction]
    /\ detecting = [p \in Payments |-> 0]
    /\ orders    = [p \in Payments |-> 0]

(***************************************************************************)
(* Reads.                                                                  *)
(***************************************************************************)
Open(c)      == cases[c].state \notin TerminalStates \cup {Absent}
OpenCases(p) == {c \in Cases : Open(c) /\ cases[c].payment = p}
Exists(a)    == actions[a].status # Absent
PaymentOf(a) == cases[actions[a].case].payment

\* scheduled_at set, executed_at not.
Pending(a)        == Exists(a) /\ actions[a].scheduled /\ ~actions[a].executed
PendingActions(c) == {a \in Actions : Pending(a) /\ actions[a].case = c}

Failures(p) == {a \in Actions : Exists(a) /\ actions[a].outcome = "unrecovered" /\ PaymentOf(a) = p}

\* RecoveryContextBuilder.build, as far as policy and candidates read it.
ContextFrom(row, p) ==
    [status    |-> row.status,
     reason    |-> IF row.reason = None THEN "UNKNOWN" ELSE row.reason,
     attempts  |-> row.attempts,
     failures  |-> Cardinality(Failures(p)),
     highValue |-> p \in HighValue]
ContextOf(p) == ContextFrom(payments[p], p)

\* Actions that already failed are dropped unless nothing would be left.
CandidateActions(p, reason) ==
    LET base   == CandidatesByReason[reason]
        failed == {actions[a].type : a \in Failures(p)}
        viable == {t \in base : t \in TerminalActions \/ t \notin failed}
    IN  IF viable = {} THEN base ELSE viable

\* Any row not inserted yet will do for a fresh identifier.
FreshCase   == CHOOSE c \in Cases : cases[c].state = Absent
FreshAction == CHOOSE a \in Actions : ~Exists(a)
SomeCaseFree   == \E c \in Cases : cases[c].state = Absent
SomeActionFree == \E a \in Actions : ~Exists(a)

(***************************************************************************)
(* Payments change outside of workflow runs.                               *)
(***************************************************************************)
\* PaymentService.record_recovery_attempt on a payment row.
RecordRecoveryAttempt(row, status, reason) ==
    [status   |-> status,
     reason   |-> IF status = "SUCCEEDED" THEN None
                  ELSE IF reason # None THEN reason ELSE row.reason,
     attempts |-> row.attempts + 1]

\* A payment that is ingested or simulated.  /ingest demands a cause for an
\* unsuccessful payment and is the only one of the two to open a case; an id
\* that exists already breaks the primary key and changes nothing.
CreatePayment(p, status, reason, open) ==
    /\ payments[p].status = Absent
    /\ status \in Unsuccessful /\ reason = None => ~open
    /\ detecting[p] < DetectCap
    /\ payments' = [payments EXCEPT ![p] =
                      [status   |-> status,
                       reason   |-> IF status \in Unsuccessful THEN reason ELSE None,
                       attempts |-> IF status \in Unsuccessful \cup {"SUCCEEDED"} THEN 1 ELSE 0]]
    /\ detecting' = [detecting EXCEPT ![p] = IF open /\ status \in Unsuccessful THEN @ + 1 ELSE @]
    /\ UNCHANGED <<cases, actions, orders>>

\* A failure reported for a known payment, whatever its status.
FailPayment(p, reason) ==
    /\ payments[p].status # Absent
    /\ payments[p].attempts < AttemptCap /\ detecting[p] < DetectCap
    /\ payments'  = [payments EXCEPT ![p] = [status |-> "FAILED", reason |-> reason,
                                             attempts |-> @.attempts + 1]]
    /\ detecting' = [detecting EXCEPT ![p] = @ + 1]
    /\ UNCHANGED <<cases, actions, orders>>

PaymentFailedWebhook(p, reason) ==
    IF payments[p].status = Absent THEN CreatePayment(p, "FAILED", reason, TRUE)
                                   ELSE FailPayment(p, reason)

DetectRiskAlwaysOpens(p) ==                  \* mutant of DetectRisk: find_open_case dropped
    /\ detecting[p] > 0 /\ SomeCaseFree
    /\ detecting' = [detecting EXCEPT ![p] = @ - 1]
    /\ cases' = [cases EXCEPT ![FreshCase] = [state |-> "DETECTED", payment |-> p]]
    /\ UNCHANGED <<payments, actions, orders>>

\* The second transaction of such a request.  The session still holds the row
\* as the request wrote it, so the payment is assessed as unsuccessful even
\* when it was captured meanwhile.
DetectRisk(p) ==
    /\ detecting[p] > 0
    /\ detecting' = [detecting EXCEPT ![p] = @ - 1]
    /\ IF OpenCases(p) # {} THEN UNCHANGED cases
       ELSE /\ SomeCaseFree
            /\ cases' = [cases EXCEPT ![FreshCase] = [state |-> "DETECTED", payment |-> p]]
    /\ UNCHANGED <<payments, actions, orders>>

LoseRequestAnytime(p) ==                     \* mutant of LoseRequest
    /\ detecting' = [detecting EXCEPT ![p] = @ - 1]
    /\ UNCHANGED <<payments, cases, actions, orders>>

\* The request dies, or its second transaction fails, after the first commit.
LoseRequest(p) ==
    /\ detecting[p] > 0
    /\ detecting' = [detecting EXCEPT ![p] = @ - 1]
    /\ UNCHANGED <<payments, cases, actions, orders>>

CaptureOnlyPayment(p) ==                     \* mutants of PaymentCapturedWebhook: the case
    /\ payments[p].status # Absent           \* is forgotten; the state filter is dropped
    /\ payments[p].attempts < AttemptCap
    /\ payments' = [payments EXCEPT ![p] = RecordRecoveryAttempt(@, "SUCCEEDED", None)]
    /\ UNCHANGED <<cases, actions, detecting, orders>>
CaptureClosesAnyCase(p) ==
    /\ payments[p].status # Absent
    /\ payments[p].attempts < AttemptCap
    /\ payments' = [payments EXCEPT ![p] = RecordRecoveryAttempt(@, "SUCCEEDED", None)]
    /\ \E c \in Cases : /\ cases[c].state # Absent /\ cases[c].payment = p
                        /\ cases' = [cases EXCEPT ![c].state = "RECOVERED"]
    /\ UNCHANGED <<actions, detecting, orders>>

\* payment.captured, payment_link.paid and order.paid.
PaymentCapturedWebhook(p) ==
    /\ payments[p].status # Absent
    /\ payments[p].attempts < AttemptCap
    /\ payments' = [payments EXCEPT ![p] = RecordRecoveryAttempt(@, "SUCCEEDED", None)]
    /\ IF OpenCases(p) = {} THEN UNCHANGED cases
       ELSE \E c \in OpenCases(p) : cases' = [cases EXCEPT ![c].state = "RECOVERED"]
    /\ UNCHANGED <<actions, detecting, orders>>

(***************************************************************************)
(* What an executor may do to the payment, report and leave at Razorpay.   *)
(***************************************************************************)
Effect(row, reported, ordered) == [payment |-> row, reported |-> reported, ordered |-> ordered]

\* Scripted pairs of failure cause and action; every other pair is a draw.
AlwaysSucceed == {<<"BANK_TIMEOUT", "RETRY_LATER">>, <<"EXPIRED_CARD", "CHANGE_PAYMENT_METHOD">>}
AlwaysFail    == {"EXPIRED_CARD", "INSUFFICIENT_FUNDS"} \X {"RETRY_NOW", "RETRY_LATER"}

SimulatedOutcomes(reason, t) ==
    CASE <<reason, t>> \in AlwaysSucceed -> {TRUE}
      [] <<reason, t>> \in AlwaysFail    -> {FALSE}
      [] OTHER                           -> BOOLEAN

SimulatorEffects(row, reason, t) ==
    LET charged == RecordRecoveryAttempt(row, "SUCCEEDED", None)
        refused == RecordRecoveryAttempt(row, "FAILED", reason)
    IN  {Effect(IF ok THEN charged ELSE refused, ok, 0) : ok \in SimulatedOutcomes(reason, t)}

\* A call that raises may still have reached Razorpay.
RazorpayRetryNow(row) ==
    {Effect(RecordRecoveryAttempt(row, "PENDING", None), TRUE, 1)}
    \cup {Effect(RecordRecoveryAttempt(row, "FAILED", None), FALSE, n) : n \in {0, 1}}

\* The handler only says SCHEDULED again, which is no success.
RazorpayRetryLater(row) == {Effect(row, FALSE, 0)}

\* Links, changes of method and reminders all create a payment link.
RazorpayLink(row) == {Effect(row, TRUE, 1), Effect(row, FALSE, 0), Effect(row, FALSE, 1)}

RazorpayEffects(row, t) ==
    CASE t = "RETRY_NOW"   -> RazorpayRetryNow(row)
      [] t = "RETRY_LATER" -> RazorpayRetryLater(row)
      [] OTHER             -> RazorpayLink(row)

Effects(row, reason, t) ==
    IF Provider = "simulator" THEN SimulatorEffects(row, reason, t) ELSE RazorpayEffects(row, t)

(***************************************************************************)
(* Workflow runs.                                                          *)
(***************************************************************************)
DecidesForClosedToo(c, t, verdict) ==        \* mutant of Decides: CaseAlreadyTerminal dropped
    /\ cases[c].state \in {"DETECTED", "FAILED"} \cup TerminalStates
    /\ t \in CandidateActions(cases[c].payment, ContextOf(cases[c].payment).reason)
    /\ PolicyVerdict(ContextOf(cases[c].payment), t) = verdict
    /\ SomeActionFree

\* A full cycle of case c selects action t and the gate answers with verdict.
\* The ranking behind the selection is left open.
Decides(c, t, verdict) ==
    /\ cases[c].state \in {"DETECTED", "FAILED"}
    /\ t \in CandidateActions(cases[c].payment, ContextOf(cases[c].payment).reason)
    /\ PolicyVerdict(ContextOf(cases[c].payment), t) = verdict
    /\ SomeActionFree

\* Every disposition but an execution only writes the case and its new action.
Dispose(c, state, row) ==
    /\ cases'   = [cases EXCEPT ![c].state = state]
    /\ actions' = [actions EXCEPT ![FreshAction] = row]
    /\ UNCHANGED <<payments, detecting, orders>>

Stop(c, t) ==
    /\ Decides(c, t, "BLOCKED")
    /\ Dispose(c, "STOPPED", [Proposed(c, t) EXCEPT !.status = "BLOCKED"])

Escalate(c, t) ==
    /\ Decides(c, t, "ESCALATED")
    /\ Dispose(c, "ESCALATED", [Proposed(c, t) EXCEPT !.status = "ESCALATED"])

\* An approved action that moves no money is reported by the executor, but the
\* row is never marked executed.
HandOver(c, t) ==
    /\ t \in TerminalActions
    /\ Decides(c, t, "APPROVED")
    /\ Dispose(c, IF t = "STOP" THEN "STOPPED" ELSE "ESCALATED",
             [Proposed(c, t) EXCEPT !.status = "APPROVED"])

DeferredRetry(c) == [Proposed(c, "RETRY_LATER") EXCEPT !.status = "SCHEDULED",
                                                       !.scheduled = TRUE, !.wait = RetryDelay]
Schedule(c) ==
    /\ Decides(c, "RETRY_LATER", "APPROVED")
    /\ Dispose(c, "SCHEDULED", DeferredRetry(c))

\* OutcomeVerifier.verify: captured now and not before.
Recovers(p, e) == e.payment.status = "SUCCEEDED" /\ payments[p].status # "SUCCEEDED"

ApplyUnstamped(c, a, row, e) ==              \* mutant of ApplyEffect: executed_at not set
    /\ payments' = [payments EXCEPT ![cases[c].payment] = e.payment]
    /\ orders'   = [orders EXCEPT ![cases[c].payment] = @ + e.ordered]
    /\ actions'  = [actions EXCEPT ![a] =
                      [row EXCEPT !.status  = IF e.reported THEN "EXECUTED" ELSE "FAILED",
                                  !.outcome = IF Recovers(cases[c].payment, e)
                                              THEN "recovered" ELSE "unrecovered"]]
    /\ cases'    = [cases EXCEPT ![c].state =
                      IF Recovers(cases[c].payment, e) THEN "RECOVERED" ELSE "FAILED"]
    /\ UNCHANGED detecting

\* Execute, then verify from the payment row and not from the report.
ApplyEffect(c, a, row, e) ==
    /\ payments' = [payments EXCEPT ![cases[c].payment] = e.payment]
    /\ orders'   = [orders EXCEPT ![cases[c].payment] = @ + e.ordered]
    /\ actions'  = [actions EXCEPT ![a] =
                      [row EXCEPT !.status   = IF e.reported THEN "EXECUTED" ELSE "FAILED",
                                  !.executed = TRUE,
                                  !.outcome  = IF Recovers(cases[c].payment, e)
                                               THEN "recovered" ELSE "unrecovered"]]
    /\ cases'    = [cases EXCEPT ![c].state =
                      IF Recovers(cases[c].payment, e) THEN "RECOVERED" ELSE "FAILED"]
    /\ UNCHANGED detecting

ExecuteAndVerify(c, a, row) ==
    LET p == cases[c].payment
    IN  \E e \in Effects(payments[p], ContextOf(p).reason, row.type) : ApplyEffect(c, a, row, e)

Execute(c, t) ==
    /\ t \notin TerminalActions \cup {"RETRY_LATER"}
    /\ Decides(c, t, "APPROVED")
    /\ ExecuteAndVerify(c, FreshAction, Proposed(c, t))

ResumeOnlyAfterDue(c) ==                     \* mutant of ResumeScheduled: > for >= in is_due
    /\ cases[c].state = "SCHEDULED"
    /\ \E a \in PendingActions(c) : actions[a].wait < 0 /\ ExecuteAndVerify(c, a, actions[a])

\* The pending action that is due first is executed once it is due: nothing is
\* decided and nothing passes the gate again.
ResumeScheduled(c) ==
    /\ cases[c].state = "SCHEDULED"
    /\ IF PendingActions(c) = {}
       THEN /\ cases' = [cases EXCEPT ![c].state = "FAILED"]
            /\ UNCHANGED <<payments, actions, detecting, orders>>
       ELSE \E a \in PendingActions(c) :
              /\ \A b \in PendingActions(c) : actions[a].wait <= actions[b].wait
              /\ actions[a].wait = 0
              /\ ExecuteAndVerify(c, a, actions[a])

Run(c) ==
    \/ \E t \in ActionType : Stop(c, t) \/ Escalate(c, t) \/ HandOver(c, t) \/ Execute(c, t)
    \/ Schedule(c)
    \/ ResumeScheduled(c)

\* The order reached Razorpay, then a later stage raised or the process died:
\* everything the run wrote is rolled back and the case keeps its state.
RunFailsAfterOrder(c, t) ==
    /\ Provider = "razorpay"
    /\ t \notin TerminalActions \cup {"RETRY_LATER"}
    /\ Decides(c, t, "APPROVED")
    /\ orders[cases[c].payment] < OrderCap
    /\ orders' = [orders EXCEPT ![cases[c].payment] = @ + 1]
    /\ UNCHANGED <<payments, cases, actions, detecting>>

\* POST /simulate/advance, the autopilot, or real time in production.
AdvanceClock ==
    /\ \E a \in Actions : actions[a].wait > 0
    /\ actions' = [a \in Actions |->
                     IF actions[a].wait > 0 THEN [actions[a] EXCEPT !.wait = @ - 1] ELSE actions[a]]
    /\ UNCHANGED <<payments, cases, detecting, orders>>

Next ==
    \/ \E p \in Payments :
         \/ \E status \in PaymentStatus, reason \in IngestReasons \cup {None}, open \in OpenOnIngest :
              CreatePayment(p, status, reason, open)
         \/ \E reason \in IngestReasons : FailPayment(p, reason) \/ PaymentFailedWebhook(p, reason)
         \/ DetectRisk(p)
         \/ LoseRequest(p)
         \/ PaymentCapturedWebhook(p)
    \/ \E c \in Cases : Run(c)
    \/ \E c \in Cases, t \in ActionType : RunFailsAfterOrder(c, t)
    \/ AdvanceClock

\* The autopilot runs every open case until it is closed and moves the clock
\* when a case waits.  Nothing is assumed of customers, merchants or Razorpay.
Fairness ==
    /\ \A c \in Cases : WF_vars(Run(c))
    /\ WF_vars(AdvanceClock)

Spec == Init /\ [][Next]_vars /\ Fairness

(***************************************************************************)
(* Properties.                                                             *)
(***************************************************************************)
\* Every row has the columns its table declares.
TypeOK ==
    /\ payments  \in [Payments -> PaymentRow]
    /\ cases     \in [Cases -> CaseRow]
    /\ actions   \in [Actions -> ActionRow]
    /\ detecting \in [Payments -> Nat]
    /\ orders    \in [Payments -> Nat]

\* A payment never has two open cases, however many requests report its
\* failure: the detector reuses the open one (risk_detector.py:121-126).
OneOpenCase ==
    \A c, d \in Cases : Open(c) /\ Open(d) /\ cases[c].payment = cases[d].payment => c = d

\* A scheduled case waits for exactly one action, and an action is pending only
\* for a scheduled case or for one a capture closed while it was waiting: the
\* "no pending action" branch of a resumption (recovery_workflow.py:225-235)
\* is never needed and no retry is executed twice.
ScheduledCaseAwaitsOne ==
    /\ \A c \in Cases : cases[c].state = "SCHEDULED" => PendingActions(c) # {}
    /\ \A a \in Actions : Pending(a) => cases[actions[a].case].state \in {"SCHEDULED", "RECOVERED"}
    /\ \A a, b \in Actions : Pending(a) /\ Pending(b) /\ actions[a].case = actions[b].case => a = b

\* No open case works on a payment that needs no recovery: while a retry waits
\* its payment is still unsuccessful, although resuming checks nothing again,
\* and a case with a failed action never belongs to a captured payment.
OpenCaseMatchesPayment ==
    \A c \in Cases :
        /\ cases[c].state = "SCHEDULED" => payments[cases[c].payment].status \in Unsuccessful
        /\ cases[c].state = "FAILED" =>
             payments[cases[c].payment].status \in Unsuccessful \cup {"PENDING"}

\* An amount is recovered once: a case has at most one outcome verified as
\* recovered, and it is closed as RECOVERED for good (recovered_amount is
\* summed over outcomes by analytics_service.py and autopilot.py).
RecoveredOnce ==
    \A a \in Actions : Exists(a) /\ actions[a].outcome = "recovered" =>
        /\ cases[actions[a].case].state = "RECOVERED"
        /\ \A b \in Actions : Exists(b) /\ actions[b].outcome = "recovered"
                              /\ actions[b].case = actions[a].case => a = b

\* A payment collects no more unsuccessful outcomes than the limit allows, over
\* all its cases and although a scheduled action is executed without asking the
\* gate again (RepeatedFailureRule, the backstop of policy_rules.py:202-225).
FailuresWithinLimit ==
    \A p \in Payments : Failures(p) # {} => Cardinality(Failures(p)) <= RepeatedFailureLimit

\* With the simulator every executed action is an attempt, so the budget bounds
\* how often one payment is pushed, over all its cases: the failure that made it
\* at risk counts, and the action that uses the last attempt is executed.
ExecutionsWithinBudget ==
    \A p \in Payments :
        LET executed == {a \in Actions : Exists(a) /\ actions[a].executed /\ PaymentOf(a) = p}
        IN  executed # {} => Cardinality(executed) < MaxAutomaticRetries

\* A closed case is closed for good, whatever webhook or run comes later
\* (CaseState.terminal, the empty rows of TRANSITIONS).
TerminalAbsorbing ==
    [][\A c \in Cases : cases[c].state \in TerminalStates => cases'[c] = cases[c]]_vars

\* No step charges, orders or sends a link for a payment that is captured or
\* still pending, or that has no open case (InvalidPaymentStateRule: recovering
\* such a payment "would double-charge a customer").
Executes(a) == ~actions[a].executed /\ actions'[a].executed
ChargeOnlyOpenFailed ==
    [][\A p \in Payments :
         \/ orders'[p] # orders[p]
         \/ \E a \in Actions : Executes(a) /\ cases[actions'[a].case].payment = p
         => payments[p].status \in Unsuccessful /\ OpenCases(p) # {}]_vars

\* Runs and the clock drive every open case to a terminal state, whatever the
\* ranking selects and whatever the provider answers (AutopilotService.run_batch).
EveryCaseResolves ==
    \A c \in Cases : Open(c) ~> cases[c].state \in TerminalStates

(***************************************************************************)
(* What comments of the repository say and the code does not do.  Each is  *)
(* checked by a run that finds it violated.                                *)
(***************************************************************************)
\* "RecoveryBudgetRule ... is what makes the limit unbypassable"
\* (policy_rules.py:327-329): nothing is executed once the budget is used up.
BudgetUnbypassable ==
    [][\A a \in Actions : Executes(a) =>
         payments[cases[actions'[a].case].payment].attempts < MaxAutomaticRetries]_vars

\* "Record a scheduled retry - Razorpay will execute it at the due time"
\* (razorpay_executor.py:153): a resumed retry reaches the provider.
ScheduledRetryIsMade ==
    [][\A a \in Actions : Pending(a) /\ Executes(a) =>
         orders'[PaymentOf(a)] > orders[PaymentOf(a)]]_vars

\* "Mark a case as recovered (on payment.captured after a recovery attempt)"
\* (webhooks.py:8): the capture of an attempted payment leaves it recovered.
CaptureAfterAttemptRecovers ==
    [][\A p \in Payments :
         /\ payments[p].status \notin {Absent, "SUCCEEDED"} /\ payments'[p].status = "SUCCEEDED"
         /\ \E a \in Actions : Exists(a) /\ actions[a].status = "EXECUTED" /\ PaymentOf(a) = p
         => \E c \in Cases : cases'[c].payment = p /\ cases'[c].state = "RECOVERED"]_vars

\* "Open a recovery case if warranted (unless open_recovery_case=false)"
\* (payments.py:107): an unsuccessful payment no request is working on has a case.
AtRiskHasCase ==
    \A p \in Payments : payments[p].status \in Unsuccessful /\ detecting[p] = 0 =>
        \E c \in Cases : cases[c].state # Absent /\ cases[c].payment = p
=============================================================================
