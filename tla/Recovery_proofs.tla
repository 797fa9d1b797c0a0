--------------------------- MODULE Recovery_proofs ---------------------------
(***************************************************************************)
(* What holds of Recovery for every number of payments, cases and actions, *)
(* every setting and both executors.                                       *)
(***************************************************************************)
EXTENDS Recovery, TLAPS, FiniteSetTheorems

(***************************************************************************)
(* The policy gate.                                                        *)
(***************************************************************************)
\* Only an unsuccessful payment gets an automatic action approved, and only
\* while its budget lasts: no later rule can overrule an earlier objection.
LEMMA ApprovedIsSafe ==
    ASSUME NEW ctx, NEW t, PolicyVerdict(ctx, t) = "APPROVED", t \notin TerminalActions
    PROVE  /\ ctx.status \in Unsuccessful
           /\ ~(ctx.attempts >= MaxAutomaticRetries)
           /\ ~(ctx.failures >= RepeatedFailureLimit)
    BY DEF PolicyVerdict, Blocking, InvalidPaymentState, RecoveryBudgetExhausted, RepeatedFailures

\* The same for the context of a payment.
LEMMA ApprovedPaymentUnsuccessful ==
    ASSUME NEW p, NEW t, PolicyVerdict(ContextOf(p), t) = "APPROVED", t \notin TerminalActions
    PROVE  payments[p].status \in Unsuccessful
    BY ApprovedIsSafe DEF ContextOf, ContextFrom

(***************************************************************************)
(* Fresh identifiers and typed building blocks.                            *)
(***************************************************************************)
\* The identifier a run takes for its action belongs to no row yet.
LEMMA FreshActionIsFree ==
    ASSUME SomeActionFree
    PROVE  FreshAction \in Actions /\ ~Exists(FreshAction)
    BY DEF SomeActionFree, FreshAction

\* The identifier the detector takes for a case belongs to no row yet.
LEMMA FreshCaseIsFree ==
    ASSUME SomeCaseFree
    PROVE  FreshCase \in Cases /\ cases[FreshCase].state = Absent
    BY DEF SomeCaseFree, FreshCase

\* A recorded attempt leaves a payment row with the status it was given.
LEMMA RecordType ==
    ASSUME NEW row \in PaymentRow, NEW status \in PaymentStatus, NEW reason \in FailureReason \cup {None}
    PROVE  /\ RecordRecoveryAttempt(row, status, reason) \in PaymentRow
           /\ RecordRecoveryAttempt(row, status, reason).status = status
    BY DEF RecordRecoveryAttempt, PaymentRow

\* The row a run persists for its decision is an action row.
LEMMA ProposedType ==
    ASSUME NEW c \in Cases, NEW t \in ActionType
    PROVE  Proposed(c, t) \in ActionRow
    BY DEF Proposed, ActionRow, ActionStatus, Outcome

\* The cause a run works with is always one of the known ones.
LEMMA ReasonType ==
    ASSUME TypeOK, NEW p \in Payments
    PROVE  ContextOf(p).reason \in FailureReason
<1>1. payments[p] \in PaymentRow
  BY DEF TypeOK
<1> QED
  BY <1>1 DEF ContextOf, ContextFrom, PaymentRow, FailureReason

\* Whatever the executor does, the row stays a payment row, and an unsuccessful
\* payment ends up unsuccessful, pending or captured.
LEMMA EffectsType ==
    ASSUME NEW row \in PaymentRow, NEW reason \in FailureReason, NEW t \in ActionType,
           NEW e \in Effects(row, reason, t)
    PROVE  /\ e.payment \in PaymentRow /\ e.reported \in BOOLEAN /\ e.ordered \in Nat
           /\ row.status \in Unsuccessful =>
                e.payment.status \in Unsuccessful \cup {"PENDING", "SUCCEEDED"}
<1> DEFINE charged == RecordRecoveryAttempt(row, "SUCCEEDED", None)
           ordered == RecordRecoveryAttempt(row, "PENDING", None)
           refused == RecordRecoveryAttempt(row, "FAILED", reason)
           raised  == RecordRecoveryAttempt(row, "FAILED", None)
<1>3. /\ charged \in PaymentRow /\ charged.status = "SUCCEEDED"
      /\ ordered \in PaymentRow /\ ordered.status = "PENDING"
      /\ refused \in PaymentRow /\ refused.status = "FAILED"
      /\ raised \in PaymentRow /\ raised.status = "FAILED"
  BY RecordType DEF PaymentStatus
<1>5. CASE Provider = "simulator"
  <2>1. PICK ok \in SimulatedOutcomes(reason, t) : e = Effect(IF ok THEN charged ELSE refused, ok, 0)
    BY <1>5 DEF Effects, SimulatorEffects
  <2>2. ok \in BOOLEAN
    BY <2>1 DEF SimulatedOutcomes
  <2> HIDE DEF charged, refused
  <2>3. e.payment \in {charged, refused} /\ e.reported = ok /\ e.ordered = 0
    BY <2>1, <2>2 DEF Effect
  <2> QED
    BY <1>3, <2>2, <2>3 DEF Unsuccessful
<1>6. CASE Provider # "simulator"
  <2>1. e \in RazorpayEffects(row, t)
    BY <1>6 DEF Effects
  <2>2. \/ e = Effect(ordered, TRUE, 1)
        \/ \E n \in {0, 1} : e = Effect(raised, FALSE, n)
        \/ e = Effect(row, FALSE, 0)
        \/ e = Effect(row, TRUE, 1)
        \/ e = Effect(row, FALSE, 1)
    <3>1. CASE t = "RETRY_NOW"
      BY <2>1, <3>1 DEF RazorpayEffects, RazorpayRetryNow
    <3>2. CASE t = "RETRY_LATER"
      BY <2>1, <3>2 DEF RazorpayEffects, RazorpayRetryLater
    <3>3. CASE t \notin {"RETRY_NOW", "RETRY_LATER"}
      BY <2>1, <3>3 DEF RazorpayEffects, RazorpayLink
    <3> QED
      BY <3>1, <3>2, <3>3
  <2> HIDE DEF ordered, raised
  <2>3. \E left \in {row, ordered, raised}, ok \in BOOLEAN, n \in {0, 1} : e = Effect(left, ok, n)
    BY <2>2, Zenon
  <2>4. e.payment \in {row, ordered, raised} /\ e.reported \in BOOLEAN /\ e.ordered \in {0, 1}
    BY <2>3 DEF Effect
  <2> QED
    BY <1>3, <2>4 DEF Unsuccessful
<1> QED
  BY <1>5, <1>6

(***************************************************************************)
(* Type correctness.                                                       *)
(***************************************************************************)
\* The empty database is well typed.
LEMMA InitType == Init => TypeOK
<1> SUFFICES ASSUME Init PROVE TypeOK
  OBVIOUS
<1>1. NoPayment \in PaymentRow
  BY DEF NoPayment, PaymentRow
<1>2. NoCase \in CaseRow
  BY ConstantsAssumption DEF NoCase, CaseRow
<1>3. NoAction \in ActionRow
  <2>1. (CHOOSE c \in Cases : TRUE) \in Cases
    BY ConstantsAssumption
  <2>2. Proposed(CHOOSE c \in Cases : TRUE, "STOP") \in ActionRow
    BY <2>1, ProposedType DEF ActionType
  <2> QED
    BY <2>2 DEF NoAction, ActionRow
<1> QED
  BY <1>1, <1>2, <1>3 DEF Init, TypeOK

\* Writing the case and its new action keeps the database well typed.
LEMMA DisposeType ==
    ASSUME TypeOK, NEW c \in Cases, NEW state \in CaseState, NEW row \in ActionRow,
           SomeActionFree, Dispose(c, state, row)
    PROVE  TypeOK'
<1>1. FreshAction \in Actions
  BY FreshActionIsFree
<1>2. cases' \in [Cases -> CaseRow]
  BY DEF TypeOK, Dispose, CaseRow
<1>3. actions' \in [Actions -> ActionRow]
  BY <1>1 DEF TypeOK, Dispose
<1> QED
  BY <1>2, <1>3 DEF TypeOK, Dispose

\* Executing and verifying an action keeps the database well typed.
LEMMA ExecuteType ==
    ASSUME TypeOK, NEW c \in Cases, NEW a \in Actions, NEW row \in ActionRow,
           ExecuteAndVerify(c, a, row)
    PROVE  TypeOK'
<1> DEFINE p == cases[c].payment
<1>1. p \in Payments /\ payments[p] \in PaymentRow /\ row.type \in ActionType
  BY DEF TypeOK, CaseRow, ActionRow
<1>2. PICK e \in Effects(payments[p], ContextOf(p).reason, row.type) : ApplyEffect(c, a, row, e)
  BY DEF ExecuteAndVerify
<1>3. e.payment \in PaymentRow /\ e.ordered \in Nat
  <2> HIDE DEF p
  <2> QED
    BY <1>1, <1>2, ReasonType, EffectsType
<1>4. payments' \in [Payments -> PaymentRow]
  BY <1>1, <1>2, <1>3 DEF TypeOK, ApplyEffect
<1>5. orders' \in [Payments -> Nat]
  BY <1>1, <1>2, <1>3 DEF TypeOK, ApplyEffect
<1>6. actions' \in [Actions -> ActionRow]
  BY <1>2 DEF TypeOK, ApplyEffect, ActionRow, ActionStatus, Outcome
<1>7. cases' \in [Cases -> CaseRow]
  BY <1>2 DEF TypeOK, ApplyEffect, CaseRow, CaseState
<1> QED
  BY <1>2, <1>4, <1>5, <1>6, <1>7 DEF TypeOK, ApplyEffect

\* No step puts a value in a row that its table does not declare.
LEMMA StepType == TypeOK /\ [Next]_vars => TypeOK'
<1> SUFFICES ASSUME TypeOK, [Next]_vars PROVE TypeOK'
  OBVIOUS
<1> USE DEF TypeOK
<1>1. ASSUME NEW p \in Payments, NEW status \in PaymentStatus, NEW reason \in FailureReason \cup {None},
             NEW open \in BOOLEAN, CreatePayment(p, status, reason, open)
      PROVE  TypeOK'
  <2>1. payments' \in [Payments -> PaymentRow]
    BY <1>1 DEF CreatePayment, PaymentRow
  <2>2. detecting' \in [Payments -> Nat]
    BY <1>1 DEF CreatePayment
  <2> QED
    BY <1>1, <2>1, <2>2 DEF CreatePayment
<1>2. ASSUME NEW p \in Payments, NEW reason \in FailureReason, FailPayment(p, reason)
      PROVE  TypeOK'
  <2>1. payments' \in [Payments -> PaymentRow]
    BY <1>2 DEF FailPayment, PaymentRow, PaymentStatus
  <2> QED
    BY <1>2, <2>1 DEF FailPayment
<1>3. ASSUME NEW p \in Payments, NEW reason \in FailureReason, PaymentFailedWebhook(p, reason)
      PROVE  TypeOK'
  BY <1>1, <1>2, <1>3 DEF PaymentFailedWebhook, PaymentStatus
<1>4. ASSUME NEW p \in Payments, DetectRisk(p) PROVE TypeOK'
  <2>1. detecting' \in [Payments -> Nat]
    BY <1>4 DEF DetectRisk
  <2>2. cases' \in [Cases -> CaseRow]
    BY <1>4, FreshCaseIsFree DEF DetectRisk, CaseRow, CaseState
  <2> QED
    BY <1>4, <2>1, <2>2 DEF DetectRisk
<1>5. ASSUME NEW p \in Payments, LoseRequest(p) PROVE TypeOK'
  BY <1>5 DEF LoseRequest
<1>6. ASSUME NEW p \in Payments, PaymentCapturedWebhook(p) PROVE TypeOK'
  <2>1. payments' \in [Payments -> PaymentRow]
    BY <1>6, RecordType DEF PaymentCapturedWebhook, PaymentStatus
  <2>2. cases' \in [Cases -> CaseRow]
    BY <1>6 DEF PaymentCapturedWebhook, OpenCases, CaseRow, CaseState
  <2> QED
    BY <1>6, <2>1, <2>2 DEF PaymentCapturedWebhook
<1>7. ASSUME NEW c \in Cases, NEW t \in ActionType,
             Stop(c, t) \/ Escalate(c, t) \/ HandOver(c, t)
      PROVE  TypeOK'
  <2>1. PICK state \in CaseState, status \in ActionStatus :
          SomeActionFree /\ Dispose(c, state, [Proposed(c, t) EXCEPT !.status = status])
    BY <1>7 DEF Stop, Escalate, HandOver, Decides, CaseState, ActionStatus
  <2>2. [Proposed(c, t) EXCEPT !.status = status] \in ActionRow
    BY ProposedType DEF ActionRow
  <2> QED
    BY <2>1, <2>2, DisposeType
<1>8. ASSUME NEW c \in Cases, Schedule(c) PROVE TypeOK'
  <2>1. DeferredRetry(c) \in ActionRow
    BY ConstantsAssumption
       DEF DeferredRetry, Proposed, ActionRow, ActionType, ActionStatus, Outcome
  <2> QED
    BY <1>8, <2>1, DisposeType DEF Schedule, Decides, CaseState
<1>9. ASSUME NEW c \in Cases, NEW t \in ActionType, Execute(c, t) PROVE TypeOK'
  BY <1>9, FreshActionIsFree, ProposedType, ExecuteType DEF Execute, Decides
<1>10. ASSUME NEW c \in Cases, ResumeScheduled(c) PROVE TypeOK'
  <2>1. CASE PendingActions(c) = {}
    BY <1>10, <2>1 DEF ResumeScheduled, CaseRow, CaseState
  <2>2. CASE PendingActions(c) # {}
    <3>1. PICK a \in PendingActions(c) : ExecuteAndVerify(c, a, actions[a])
      BY <1>10, <2>2 DEF ResumeScheduled
    <3> QED
      BY <3>1, ExecuteType DEF PendingActions
  <2> QED
    BY <2>1, <2>2
<1>11. ASSUME NEW c \in Cases, NEW t \in ActionType, RunFailsAfterOrder(c, t) PROVE TypeOK'
  BY <1>11 DEF RunFailsAfterOrder, CaseRow
<1>12. ASSUME AdvanceClock PROVE TypeOK'
  BY <1>12 DEF AdvanceClock, ActionRow
<1>13. CASE UNCHANGED vars
  BY <1>13 DEF vars
<1> QED
  BY <1>1, <1>2, <1>3, <1>4, <1>5, <1>6, <1>7, <1>8, <1>9, <1>10, <1>11, <1>12, <1>13,
     ConstantsAssumption DEF Next, Run

\* Every row of every reachable database is well typed.
THEOREM TypeCorrect == Spec => []TypeOK
  BY InitType, StepType, PTL DEF Spec

(***************************************************************************)
(* Cases, their actions and their payments.  The four properties support   *)
(* each other: a retry that waits keeps its payment unsuccessful because   *)
(* no other case of the payment is open, and executing it closes the wait  *)
(* because it is the only one.                                             *)
(***************************************************************************)
CaseInv == OneOpenCase /\ ScheduledCaseAwaitsOne /\ OpenCaseMatchesPayment /\ RecoveredOnce
IInv    == TypeOK /\ CaseInv

\* The empty database has no case or action to go wrong.
LEMMA InitCaseInv == Init => CaseInv
<1> SUFFICES ASSUME Init PROVE CaseInv
  OBVIOUS
<1>1. \A c \in Cases : cases[c].state = Absent
  BY DEF Init, NoCase
<1>2. \A a \in Actions : actions[a].status = Absent
  BY DEF Init, NoAction, Proposed
<1>3. Absent \notin CaseState
  BY DEF Absent, CaseState
<1> QED
  BY <1>1, <1>2, <1>3 DEF CaseInv, OneOpenCase, ScheduledCaseAwaitsOne, OpenCaseMatchesPayment,
       RecoveredOnce, Open, Pending, Exists, Absent

\* What only concerns cases and actions survives a step that leaves them alone.
LEMMA CasesUntouched ==
    ASSUME CaseInv, UNCHANGED <<cases, actions>>, OpenCaseMatchesPayment'
    PROVE  CaseInv'
  BY DEF CaseInv, OneOpenCase, ScheduledCaseAwaitsOne, RecoveredOnce, Open, Pending,
         PendingActions, Exists

\* A payment that is ingested, or reported as failed again, is no longer or not
\* yet one an open case could disagree with.
LEMMA PaymentStepCaseInv ==
    ASSUME IInv, NEW p \in Payments, UNCHANGED <<cases, actions>>,
           \/ payments[p].status = Absent
           \/ payments'[p].status \in Unsuccessful,
           \A q \in Payments : q # p => payments'[q] = payments[q]
    PROVE  CaseInv'
<1>1. OpenCaseMatchesPayment'
  BY DEF IInv, CaseInv, OpenCaseMatchesPayment, TypeOK, CaseRow, Unsuccessful, Absent
<1> QED
  BY <1>1, CasesUntouched DEF IInv

\* Detection opens a case only where the payment has none open, and nothing
\* refers to it yet.
LEMMA DetectCaseInv ==
    ASSUME IInv, NEW p \in Payments, DetectRisk(p)
    PROVE  CaseInv'
<1>1. CASE OpenCases(p) # {}
  <2>1. UNCHANGED <<payments, cases, actions>>
    BY <1>1 DEF DetectRisk
  <2> QED
    BY <2>1, CasesUntouched DEF IInv, CaseInv, OpenCaseMatchesPayment
<1>2. CASE OpenCases(p) = {}
  <2>1. /\ FreshCase \in Cases /\ cases[FreshCase].state = Absent
        /\ cases' = [cases EXCEPT ![FreshCase] = [state |-> "DETECTED", payment |-> p]]
        /\ UNCHANGED <<payments, actions>>
    BY <1>2, FreshCaseIsFree DEF DetectRisk
  <2> DEFINE f == FreshCase
  <2>2. /\ f \in Cases /\ cases[f].state = Absent
        /\ cases'[f] = [state |-> "DETECTED", payment |-> p]
        /\ \A d \in Cases : d # f => cases'[d] = cases[d]
    BY <2>1 DEF IInv, TypeOK
  <2> HIDE DEF f
  <2>3. OneOpenCase'
    BY <1>2, <2>2 DEF IInv, CaseInv, OneOpenCase, Open, OpenCases, TerminalStates, Absent
  <2>4. ScheduledCaseAwaitsOne'
    <3>1. \A a \in Actions : Pending(a)' <=> Pending(a)
      BY <2>1 DEF Pending, Exists
    <3>2. \A a \in Actions : Pending(a) => actions[a].case # f /\ actions[a].case \in Cases
      BY <2>2 DEF IInv, CaseInv, ScheduledCaseAwaitsOne, TypeOK, ActionRow, Pending, Exists, Absent
    <3> QED
      BY <2>1, <2>2, <3>1, <3>2 DEF IInv, CaseInv, ScheduledCaseAwaitsOne, PendingActions
  <2>5. OpenCaseMatchesPayment'
    BY <2>1, <2>2 DEF IInv, CaseInv, OpenCaseMatchesPayment
  <2>6. RecoveredOnce'
    <3>1. \A a \in Actions : Exists(a)' <=> Exists(a)
      BY <2>1 DEF Exists
    <3>2. \A a \in Actions : Exists(a) /\ actions[a].outcome = "recovered" =>
             actions[a].case # f /\ actions[a].case \in Cases
      BY <2>2 DEF IInv, CaseInv, RecoveredOnce, TypeOK, ActionRow, Exists, Absent
    <3> QED
      BY <2>1, <2>2, <3>1, <3>2 DEF IInv, CaseInv, RecoveredOnce
  <2> QED
    BY <2>3, <2>4, <2>5, <2>6 DEF CaseInv
<1> QED
  BY <1>1, <1>2

\* A capture closes the only open case of the payment, so that none is left
\* that the captured payment would contradict.
LEMMA CaptureCaseInv ==
    ASSUME IInv, NEW p \in Payments, PaymentCapturedWebhook(p)
    PROVE  CaseInv'
<1>1. UNCHANGED actions /\ \A q \in Payments : q # p => payments'[q] = payments[q]
  BY DEF PaymentCapturedWebhook, IInv, TypeOK
<1>2. CASE OpenCases(p) = {}
  <2>1. UNCHANGED cases
    BY <1>2 DEF PaymentCapturedWebhook
  <2>2. OpenCaseMatchesPayment'
    BY <1>1, <1>2, <2>1
       DEF IInv, CaseInv, OpenCaseMatchesPayment, TypeOK, CaseRow, OpenCases, Open,
           TerminalStates, Absent
  <2> QED
    BY <1>1, <2>1, <2>2, CasesUntouched DEF IInv
<1>3. CASE OpenCases(p) # {}
  <2>1. PICK c \in OpenCases(p) : cases' = [cases EXCEPT ![c].state = "RECOVERED"]
    BY <1>3 DEF PaymentCapturedWebhook
  <2>2. /\ c \in Cases /\ Open(c) /\ cases[c].payment = p
        /\ cases'[c].state = "RECOVERED" /\ cases'[c].payment = p
        /\ \A d \in Cases : d # c => cases'[d] = cases[d]
    BY <2>1 DEF OpenCases, IInv, TypeOK, CaseRow
  <2>3. OneOpenCase'
    BY <2>2 DEF IInv, CaseInv, OneOpenCase, Open, TerminalStates
  <2>4. ScheduledCaseAwaitsOne'
    BY <1>1, <2>2
       DEF IInv, CaseInv, ScheduledCaseAwaitsOne, Pending, PendingActions, Exists,
           TypeOK, ActionRow, Absent
  <2>5. OpenCaseMatchesPayment'
    BY <1>1, <2>2
       DEF IInv, CaseInv, OpenCaseMatchesPayment, OneOpenCase, TypeOK, CaseRow, Open,
           TerminalStates, Absent
  <2>6. RecoveredOnce'
    BY <1>1, <2>2
       DEF IInv, CaseInv, RecoveredOnce, Exists, TypeOK, ActionRow, Absent
  <2> QED
    BY <2>3, <2>4, <2>5, <2>6 DEF CaseInv
<1> QED
  BY <1>2, <1>3

\* A disposition writes one new action that is not executed; it is pending
\* exactly when the case is left scheduled.
LEMMA DisposeCaseInv ==
    ASSUME IInv, NEW c \in Cases, NEW state, NEW row \in ActionRow,
           cases[c].state \in {"DETECTED", "FAILED"}, SomeActionFree, Dispose(c, state, row),
           row.case = c, row.outcome = None, ~row.executed,
           \/ state \in TerminalStates /\ ~row.scheduled
           \/ /\ state = "SCHEDULED" /\ row.scheduled /\ row.status # Absent
              /\ payments[cases[c].payment].status \in Unsuccessful
    PROVE  CaseInv'
<1>1. PICK n \in Actions :
      /\ ~Exists(n) /\ actions'[n] = row
      /\ \A b \in Actions : b # n => actions'[b] = actions[b]
      /\ cases'[c].state = state /\ cases'[c].payment = cases[c].payment
      /\ \A d \in Cases : d # c => cases'[d] = cases[d]
      /\ UNCHANGED payments
  BY FreshActionIsFree DEF Dispose, IInv, TypeOK, CaseRow
<1>2. \A b \in Actions : Exists(b) => actions[b].case \in Cases
  BY DEF IInv, TypeOK, ActionRow, Exists, Absent
<1>3. \A b \in Actions : Pending(b) => b # n /\ actions[b].case # c
  BY <1>1 DEF IInv, CaseInv, ScheduledCaseAwaitsOne, Pending
<1>4. \A b \in Actions : b # n => (Pending(b)' <=> Pending(b))
  BY <1>1 DEF Pending, Exists
<1>5. OneOpenCase'
  BY <1>1 DEF IInv, CaseInv, OneOpenCase, Open, TerminalStates, Absent
<1>6. ScheduledCaseAwaitsOne'
  <2>1. CASE state \in TerminalStates /\ ~row.scheduled
    <3>1. ~Pending(n)'
      BY <1>1, <2>1 DEF Pending
    <3> QED
      BY <1>1, <1>2, <1>3, <1>4, <2>1, <3>1
         DEF IInv, CaseInv, ScheduledCaseAwaitsOne, PendingActions, TerminalStates, Pending
  <2>2. CASE state = "SCHEDULED" /\ row.scheduled /\ row.status # Absent
    <3>1. Pending(n)' /\ actions'[n].case = c
      BY <1>1, <2>2 DEF Pending, Exists
    <3> QED
      BY <1>1, <1>2, <1>3, <1>4, <2>2, <3>1
         DEF IInv, CaseInv, ScheduledCaseAwaitsOne, PendingActions, Pending
  <2> QED
    BY <2>1, <2>2
<1>7. OpenCaseMatchesPayment'
  BY <1>1 DEF IInv, CaseInv, OpenCaseMatchesPayment, TerminalStates
<1>8. RecoveredOnce'
  <2>1. \A b \in Actions : Exists(b)' /\ actions'[b].outcome = "recovered" =>
           b # n /\ Exists(b) /\ actions'[b] = actions[b] /\ actions[b].case # c
    BY <1>1 DEF IInv, CaseInv, RecoveredOnce, Exists, None
  <2> QED
    BY <1>1, <1>2, <2>1 DEF IInv, CaseInv, RecoveredOnce
<1> QED
  BY <1>5, <1>6, <1>7, <1>8 DEF CaseInv

\* What an execution writes to payment, case and action: the action "base" with
\* what came of it.
Verified(base, p, e) ==
    [base EXCEPT !.status   = IF e.reported THEN "EXECUTED" ELSE "FAILED",
                 !.executed = TRUE,
                 !.outcome  = IF Recovers(p, e) THEN "recovered" ELSE "unrecovered"]

WritesEffect(c, p, a, base, e) ==
    /\ payments' = [payments EXCEPT ![p] = e.payment]
    /\ cases' = [cases EXCEPT ![c].state = IF Recovers(p, e) THEN "RECOVERED" ELSE "FAILED"]
    /\ actions' = [actions EXCEPT ![a] = Verified(base, p, e)]

LEMMA ExecutionWrites ==
    ASSUME NEW c, NEW a, NEW row, ExecuteAndVerify(c, a, row)
    PROVE  \E e \in Effects(payments[cases[c].payment], ContextOf(cases[c].payment).reason, row.type) :
             WritesEffect(c, cases[c].payment, a, row, e)
  BY DEF ExecuteAndVerify, ApplyEffect, WritesEffect, Verified

\* An execution ends the wait of its case, if it waited, and opens none.
LEMMA ExecuteCaseInv ==
    ASSUME IInv, NEW c \in Cases, NEW a \in Actions, NEW row \in ActionRow,
           NEW e \in Effects(payments[cases[c].payment], ContextOf(cases[c].payment).reason, row.type),
           WritesEffect(c, cases[c].payment, a, row, e), Open(c), row.case = c,
           payments[cases[c].payment].status \in Unsuccessful,
           \/ ~Exists(a) /\ cases[c].state # "SCHEDULED"
           \/ row = actions[a] /\ Pending(a)
    PROVE  CaseInv'
<1> DEFINE p == cases[c].payment
<1>1. p \in Payments /\ payments[p] \in PaymentRow /\ row.type \in ActionType
  BY DEF IInv, TypeOK, CaseRow, ActionRow
<1>2. e \in Effects(payments[p], ContextOf(p).reason, row.type) /\ WritesEffect(c, p, a, row, e)
  OBVIOUS
<1>3. PICK state \in {"RECOVERED", "FAILED"} :
      /\ state = IF e.payment.status = "SUCCEEDED" THEN "RECOVERED" ELSE "FAILED"
      /\ cases'[c].state = state /\ cases'[c].payment = p
      /\ \A d \in Cases : d # c => cases'[d] = cases[d]
      /\ payments'[p] = e.payment
      /\ \A q \in Payments : q # p => payments'[q] = payments[q]
      /\ \A b \in Actions : b # a => actions'[b] = actions[b]
      /\ actions'[a].executed /\ actions'[a].case = c
      /\ actions'[a].outcome = "recovered" => state = "RECOVERED"
  <2>1. Recovers(p, e) <=> e.payment.status = "SUCCEEDED"
    BY DEF Recovers, Unsuccessful
  <2> QED
    BY <1>1, <1>2, <2>1 DEF WritesEffect, Verified, IInv, TypeOK, CaseRow, ActionRow
<1>4. e.payment.status \in Unsuccessful \cup {"PENDING", "SUCCEEDED"}
  <2>1. payments[p].status \in Unsuccessful /\ TypeOK
    BY DEF IInv
  <2> HIDE DEF p
  <2> QED
    BY <1>1, <1>2, <2>1, ReasonType, EffectsType
<1>5. \A b \in Actions : Exists(b) => actions[b].case \in Cases
  BY DEF IInv, TypeOK, ActionRow, Exists, Absent
<1>6. \A d \in Cases : Open(d) /\ cases[d].payment = p => d = c
  BY DEF IInv, CaseInv, OneOpenCase
<1>7. OneOpenCase'
  BY <1>3, <1>6 DEF IInv, CaseInv, OneOpenCase, Open, TerminalStates, Absent
<1>8. ScheduledCaseAwaitsOne'
  <2>1. \A b \in Actions : Pending(b)' => b # a /\ Pending(b) /\ actions'[b] = actions[b]
    BY <1>3 DEF Pending, Exists
  <2>2. \A b \in Actions : Pending(b) /\ b # a => actions[b].case # c
    BY DEF IInv, CaseInv, ScheduledCaseAwaitsOne, Open, TerminalStates
  <2>3. \A b \in Actions : Pending(b) /\ b # a => Pending(b)'
    BY <1>3 DEF Pending, Exists
  <2>4. \A d \in Cases : cases'[d].state = "SCHEDULED" => d # c /\ cases[d].state = "SCHEDULED"
    BY <1>3
  <2>5. \A d \in Cases : cases'[d].state = "SCHEDULED" => PendingActions(d)' # {}
    <3> SUFFICES ASSUME NEW d \in Cases, cases'[d].state = "SCHEDULED"
                 PROVE  PendingActions(d)' # {}
      OBVIOUS
    <3>1. PICK b \in Actions : Pending(b) /\ actions[b].case = d
      BY <2>4 DEF IInv, CaseInv, ScheduledCaseAwaitsOne, PendingActions
    <3>2. b # a
      BY <2>4, <3>1 DEF Pending
    <3> QED
      BY <1>3, <2>3, <3>1, <3>2 DEF PendingActions
  <2>6. \A b \in Actions : Pending(b)' => cases'[actions'[b].case].state \in {"SCHEDULED", "RECOVERED"}
    BY <1>3, <1>5, <2>1, <2>2 DEF IInv, CaseInv, ScheduledCaseAwaitsOne, Pending
  <2> QED
    BY <2>1, <2>5, <2>6 DEF IInv, CaseInv, ScheduledCaseAwaitsOne
<1>9. OpenCaseMatchesPayment'
  <2>1. \A d \in Cases : d # c /\ cases[d].state \in {"SCHEDULED", "FAILED"} =>
           cases[d].payment \in Payments /\ cases[d].payment # p
    BY <1>6 DEF Open, TerminalStates, Absent, IInv, TypeOK, CaseRow
  <2> QED
    BY <1>3, <1>4, <2>1 DEF IInv, CaseInv, OpenCaseMatchesPayment
<1>10. RecoveredOnce'
  <2>1. \A b \in Actions : Exists(b) /\ actions[b].outcome = "recovered" => actions[b].case # c
    BY DEF IInv, CaseInv, RecoveredOnce, Open, TerminalStates
  <2>2. \A b \in Actions : b # a => (Exists(b)' <=> Exists(b))
    BY <1>3 DEF Exists
  <2> QED
    BY <1>3, <1>5, <2>1, <2>2 DEF IInv, CaseInv, RecoveredOnce
<1> QED
  BY <1>7, <1>8, <1>9, <1>10 DEF CaseInv

\* Passing time only makes actions due.
LEMMA ClockCaseInv ==
    ASSUME IInv, AdvanceClock
    PROVE  CaseInv'
<1>1. \A a \in Actions : /\ actions'[a].status = actions[a].status
                         /\ actions'[a].case = actions[a].case
                         /\ actions'[a].scheduled = actions[a].scheduled
                         /\ actions'[a].executed = actions[a].executed
                         /\ actions'[a].outcome = actions[a].outcome
  BY DEF AdvanceClock, IInv, TypeOK, ActionRow
<1>2. UNCHANGED <<cases, payments>>
  BY DEF AdvanceClock
<1>3. \A a \in Actions : (Exists(a)' <=> Exists(a)) /\ (Pending(a)' <=> Pending(a))
  BY <1>1 DEF Exists, Pending
<1>4. OneOpenCase' /\ OpenCaseMatchesPayment'
  BY <1>2 DEF IInv, CaseInv, OneOpenCase, OpenCaseMatchesPayment, Open
<1>5. ScheduledCaseAwaitsOne'
  BY <1>1, <1>2, <1>3 DEF IInv, CaseInv, ScheduledCaseAwaitsOne, PendingActions
<1>6. RecoveredOnce'
  BY <1>1, <1>2, <1>3 DEF IInv, CaseInv, RecoveredOnce
<1> QED
  BY <1>4, <1>5, <1>6 DEF CaseInv

\* Every step keeps the four properties, given all of them before it.
LEMMA StepCaseInv == IInv /\ [Next]_vars => CaseInv'
<1> SUFFICES ASSUME IInv, [Next]_vars PROVE CaseInv'
  OBVIOUS
<1>1. ASSUME NEW p \in Payments, NEW status \in PaymentStatus, NEW reason \in FailureReason \cup {None},
             NEW open \in BOOLEAN, CreatePayment(p, status, reason, open)
      PROVE  CaseInv'
  BY <1>1, PaymentStepCaseInv DEF CreatePayment, IInv, TypeOK
<1>2. ASSUME NEW p \in Payments, NEW reason \in FailureReason, FailPayment(p, reason)
      PROVE  CaseInv'
  BY <1>2, PaymentStepCaseInv DEF FailPayment, IInv, TypeOK, Unsuccessful
<1>3. ASSUME NEW p \in Payments, NEW reason \in FailureReason, PaymentFailedWebhook(p, reason)
      PROVE  CaseInv'
  BY <1>1, <1>2, <1>3 DEF PaymentFailedWebhook, PaymentStatus
<1>4. ASSUME UNCHANGED <<payments, cases, actions>> PROVE CaseInv'
  BY <1>4, CasesUntouched DEF IInv, CaseInv, OpenCaseMatchesPayment
<1>5. ASSUME NEW c \in Cases, NEW t \in ActionType,
             Stop(c, t) \/ Escalate(c, t) \/ HandOver(c, t)
      PROVE  CaseInv'
  <2>1. PICK state \in TerminalStates, status \in ActionStatus :
          /\ cases[c].state \in {"DETECTED", "FAILED"} /\ SomeActionFree
          /\ Dispose(c, state, [Proposed(c, t) EXCEPT !.status = status])
    BY <1>5 DEF Stop, Escalate, HandOver, Decides, TerminalStates, ActionStatus
  <2>2. LET row == [Proposed(c, t) EXCEPT !.status = status]
        IN  row \in ActionRow /\ row.case = c /\ row.outcome = None /\ ~row.executed /\ ~row.scheduled
    BY DEF Proposed, ActionRow, Outcome
  <2> QED
    BY <2>1, <2>2, DisposeCaseInv
<1>6. ASSUME NEW c \in Cases, Schedule(c) PROVE CaseInv'
  <2>1. /\ DeferredRetry(c) \in ActionRow /\ DeferredRetry(c).case = c
        /\ DeferredRetry(c).outcome = None /\ ~DeferredRetry(c).executed
        /\ DeferredRetry(c).scheduled /\ DeferredRetry(c).status # Absent
    BY ConstantsAssumption
       DEF DeferredRetry, Proposed, ActionRow, ActionType, ActionStatus, Outcome, Absent
  <2>2. payments[cases[c].payment].status \in Unsuccessful
    BY <1>6, ApprovedPaymentUnsuccessful DEF Schedule, Decides, TerminalActions
  <2> QED
    BY <1>6, <2>1, <2>2, DisposeCaseInv DEF Schedule, Decides
<1>7. ASSUME NEW c \in Cases, NEW t \in ActionType, Execute(c, t) PROVE CaseInv'
  <2>1. payments[cases[c].payment].status \in Unsuccessful
    BY <1>7, ApprovedPaymentUnsuccessful DEF Execute, Decides
  <2>2. Open(c) /\ cases[c].state # "SCHEDULED"
    BY <1>7 DEF Execute, Decides, Open, TerminalStates, Absent
  <2>3. Proposed(c, t) \in ActionRow /\ Proposed(c, t).case = c
    BY ProposedType DEF Proposed
  <2> QED
    BY <1>7, <2>1, <2>2, <2>3, FreshActionIsFree, ExecutionWrites, ExecuteCaseInv DEF Execute, Decides
<1>8. ASSUME NEW c \in Cases, ResumeScheduled(c) PROVE CaseInv'
  <2>1. PICK a \in PendingActions(c) : ExecuteAndVerify(c, a, actions[a])
    BY <1>8 DEF ResumeScheduled, IInv, CaseInv, ScheduledCaseAwaitsOne
  <2>2. /\ a \in Actions /\ actions[a] \in ActionRow /\ actions[a].case = c /\ Pending(a)
    BY DEF PendingActions, IInv, TypeOK
  <2>3. Open(c) /\ payments[cases[c].payment].status \in Unsuccessful
    BY <1>8 DEF ResumeScheduled, Open, TerminalStates, Absent, IInv, CaseInv, OpenCaseMatchesPayment
  <2> QED
    BY <2>1, <2>2, <2>3, ExecutionWrites, ExecuteCaseInv
<1>9. ASSUME NEW p \in Payments, LoseRequest(p) PROVE CaseInv'
  BY <1>4, <1>9 DEF LoseRequest
<1>10. ASSUME NEW c \in Cases, NEW t \in ActionType, RunFailsAfterOrder(c, t) PROVE CaseInv'
  BY <1>4, <1>10 DEF RunFailsAfterOrder
<1>11. CASE UNCHANGED vars
  BY <1>4, <1>11 DEF vars
<1> QED
  BY <1>1, <1>2, <1>3, <1>5, <1>6, <1>7, <1>8, <1>9, <1>10, <1>11, DetectCaseInv,
     CaptureCaseInv, ClockCaseInv, ConstantsAssumption DEF Next, Run

\* The types and the four properties together are inductive, and so hold in
\* every reachable database.
THEOREM Invariance == Spec => []IInv
<1>1. Init => IInv
  BY InitType, InitCaseInv DEF IInv
<1>2. IInv /\ [Next]_vars => IInv'
  BY StepType, StepCaseInv DEF IInv
<1> QED
  BY <1>1, <1>2, PTL DEF Spec

\* A payment never has two open cases, for any number of requests between
\* their two transactions.
THEOREM AtMostOneOpenCase == Spec => []OneOpenCase
  BY Invariance, PTL DEF IInv, CaseInv

\* A scheduled case waits for exactly one action, which is executed once.
THEOREM ScheduleIsExact == Spec => []ScheduledCaseAwaitsOne
  BY Invariance, PTL DEF IInv, CaseInv

\* Although a resumption checks nothing again, the payment of a waiting retry
\* is still unsuccessful.
THEOREM OpenCasesMatchPayments == Spec => []OpenCaseMatchesPayment
  BY Invariance, PTL DEF IInv, CaseInv

\* No case is counted as recovered twice.
THEOREM RecoveredAtMostOnce == Spec => []RecoveredOnce
  BY Invariance, PTL DEF IInv, CaseInv

(***************************************************************************)
(* What a step may never do.                                               *)
(***************************************************************************)
\* No step of the program writes a case that is closed: runs refuse it, detection
\* takes a fresh row and a capture looks for an open case.
LEMMA TerminalStep ==
    ASSUME IInv, Next, NEW d \in Cases, cases[d].state \in TerminalStates
    PROVE  cases'[d] = cases[d]
<1>1. ASSUME NEW c \in Cases, NEW state, NEW row, Dispose(c, state, row), c # d
      PROVE  cases'[d] = cases[d]
  BY <1>1 DEF Dispose, IInv, TypeOK
<1>2. ASSUME NEW c \in Cases, NEW a, NEW row, ExecuteAndVerify(c, a, row), c # d
      PROVE  cases'[d] = cases[d]
  BY <1>2 DEF ExecuteAndVerify, ApplyEffect, IInv, TypeOK
<1>3. ASSUME NEW c \in Cases, Run(c) PROVE cases'[d] = cases[d]
  <2>1. c # d
    BY <1>3 DEF Run, Stop, Escalate, HandOver, Execute, Schedule, ResumeScheduled, Decides, TerminalStates
  <2>2. CASE \E t \in ActionType : Stop(c, t) \/ Escalate(c, t) \/ HandOver(c, t) \/ Execute(c, t)
    BY <1>1, <1>2, <2>1, <2>2 DEF Stop, Escalate, HandOver, Execute
  <2>3. CASE Schedule(c)
    BY <1>1, <2>1, <2>3 DEF Schedule
  <2>4. CASE ResumeScheduled(c)
    BY <1>2, <2>1, <2>4 DEF ResumeScheduled, IInv, TypeOK
  <2> QED
    BY <1>3, <2>2, <2>3, <2>4 DEF Run
<1>4. ASSUME NEW p \in Payments, DetectRisk(p) PROVE cases'[d] = cases[d]
  <2>1. SomeCaseFree => FreshCase # d
    BY FreshCaseIsFree DEF TerminalStates, Absent
  <2> QED
    BY <1>4, <2>1 DEF DetectRisk, IInv, TypeOK
<1>5. ASSUME NEW p \in Payments, PaymentCapturedWebhook(p) PROVE cases'[d] = cases[d]
  BY <1>5 DEF PaymentCapturedWebhook, OpenCases, Open, IInv, TypeOK
<1>6. ASSUME UNCHANGED cases PROVE cases'[d] = cases[d]
  BY <1>6
<1> QED
  BY <1>3, <1>4, <1>5, <1>6
     DEF Next, CreatePayment, FailPayment, PaymentFailedWebhook, LoseRequest, RunFailsAfterOrder,
         AdvanceClock

\* A closed case never changes again.
THEOREM ClosedForGood == Spec => TerminalAbsorbing
<1>1. IInv /\ [Next]_vars =>
        [\A c \in Cases : cases[c].state \in TerminalStates => cases'[c] = cases[c]]_vars
  BY TerminalStep
<1> QED
  BY <1>1, Invariance, PTL DEF Spec, TerminalAbsorbing

\* A step that creates an order or executes an action does so for an unsuccessful
\* payment with an open case: the gate sees to it when the action is decided and
\* the invariant when it is resumed.
LEMMA ChargeStep ==
    ASSUME IInv, Next, NEW p \in Payments,
           \/ orders'[p] # orders[p]
           \/ \E a \in Actions : Executes(a) /\ cases[actions'[a].case].payment = p
    PROVE  payments[p].status \in Unsuccessful /\ OpenCases(p) # {}
<1> USE DEF IInv, TypeOK
<1>1. ASSUME NEW c \in Cases, NEW state, NEW row, ~row.executed, SomeActionFree, Dispose(c, state, row)
      PROVE  FALSE
  BY <1>1, FreshActionIsFree DEF Dispose, Executes
<1>2. ASSUME NEW c \in Cases, NEW a \in Actions, NEW row \in ActionRow, row.case = c,
             ExecuteAndVerify(c, a, row), Open(c), payments[cases[c].payment].status \in Unsuccessful
      PROVE  payments[p].status \in Unsuccessful /\ OpenCases(p) # {}
  <2>1. PICK e : ApplyEffect(c, a, row, e)
    BY <1>2 DEF ExecuteAndVerify
  <2>2. actions'[a].case = c /\ \A b \in Actions : b # a => actions'[b] = actions[b]
    BY <1>2, <2>1 DEF ApplyEffect, ActionRow
  <2>3. cases[c].payment = p
    BY <2>1, <2>2 DEF ApplyEffect, Executes
  <2> QED
    BY <1>2, <2>3 DEF OpenCases
<1>3. ASSUME NEW c \in Cases, NEW t \in ActionType,
             Stop(c, t) \/ Escalate(c, t) \/ HandOver(c, t)
      PROVE  FALSE
  <2>1. PICK state, status : SomeActionFree /\ Dispose(c, state, [Proposed(c, t) EXCEPT !.status = status])
    BY <1>3 DEF Stop, Escalate, HandOver, Decides
  <2>2. ~[Proposed(c, t) EXCEPT !.status = status].executed
    BY DEF Proposed
  <2> QED
    BY <1>1, <2>1, <2>2
<1>4. ASSUME NEW c \in Cases, Schedule(c) PROVE FALSE
  <2>1. ~DeferredRetry(c).executed
    BY DEF DeferredRetry, Proposed
  <2> QED
    BY <1>1, <1>4, <2>1 DEF Schedule, Decides
<1>5. ASSUME NEW c \in Cases, NEW t \in ActionType, Execute(c, t)
      PROVE  payments[p].status \in Unsuccessful /\ OpenCases(p) # {}
  <2>1. payments[cases[c].payment].status \in Unsuccessful
    BY <1>5, ApprovedPaymentUnsuccessful DEF Execute, Decides
  <2>2. Open(c)
    BY <1>5 DEF Execute, Decides, Open, TerminalStates, Absent
  <2>3. Proposed(c, t) \in ActionRow /\ Proposed(c, t).case = c
    BY ProposedType DEF Proposed
  <2> QED
    BY <1>2, <1>5, <2>1, <2>2, <2>3, FreshActionIsFree DEF Execute, Decides
<1>6. ASSUME NEW c \in Cases, ResumeScheduled(c)
      PROVE  payments[p].status \in Unsuccessful /\ OpenCases(p) # {}
  <2>1. Open(c) /\ payments[cases[c].payment].status \in Unsuccessful
    BY <1>6 DEF ResumeScheduled, Open, TerminalStates, Absent, CaseInv, OpenCaseMatchesPayment
  <2>2. PICK a \in PendingActions(c) : ExecuteAndVerify(c, a, actions[a])
    BY <1>6 DEF ResumeScheduled, CaseInv, ScheduledCaseAwaitsOne
  <2> QED
    BY <1>2, <2>1, <2>2 DEF PendingActions
<1>7. ASSUME NEW c \in Cases, NEW t \in ActionType, RunFailsAfterOrder(c, t)
      PROVE  payments[p].status \in Unsuccessful /\ OpenCases(p) # {}
  <2>1. payments[cases[c].payment].status \in Unsuccessful
    BY <1>7, ApprovedPaymentUnsuccessful DEF RunFailsAfterOrder, Decides
  <2>2. cases[c].payment = p /\ c \in OpenCases(p)
    BY <1>7 DEF RunFailsAfterOrder, Decides, Executes, OpenCases, Open, TerminalStates, Absent
  <2> QED
    BY <2>1, <2>2
<1>8. ASSUME AdvanceClock PROVE FALSE
  BY <1>8 DEF AdvanceClock, Executes, ActionRow
<1>9. ASSUME UNCHANGED <<actions, orders>> PROVE FALSE
  BY <1>9 DEF Executes
<1> QED
  BY <1>3, <1>4, <1>5, <1>6, <1>7, <1>8, <1>9
     DEF Next, Run, CreatePayment, FailPayment, PaymentFailedWebhook, DetectRisk, LoseRequest,
         PaymentCapturedWebhook

\* Nothing is charged, ordered or sent for a payment that is captured, pending
\* or without an open case.
THEOREM NoDoubleCharge == Spec => ChargeOnlyOpenFailed
<1>1. IInv /\ [Next]_vars =>
        [\A p \in Payments :
           \/ orders'[p] # orders[p]
           \/ \E a \in Actions : Executes(a) /\ cases[actions'[a].case].payment = p
           => payments[p].status \in Unsuccessful /\ OpenCases(p) # {}]_vars
  BY ChargeStep
<1> QED
  BY <1>1, Invariance, PTL DEF Spec, ChargeOnlyOpenFailed
(***************************************************************************)
(* How often one payment is pushed: the bounds that count actions.         *)
(***************************************************************************)
\* The actions executed for a payment, over all its cases.
Executed(p) == {a \in Actions : Exists(a) /\ actions[a].executed /\ PaymentOf(a) = p}

(***************************************************************************)
(* Counting.                                                               *)
(***************************************************************************)
\* Sets of actions are finite, and gain at most one by one insertion.
LEMMA CountActions ==
    ASSUME NEW S \in SUBSET Actions
    PROVE  /\ Cardinality(S) \in Nat
           /\ S = {} => Cardinality(S) = 0
           /\ \A a, T : T \subseteq S \cup {a} =>
                Cardinality(T) \in Nat /\ Cardinality(T) <= Cardinality(S) + 1
<1>1. IsFiniteSet(S)
  BY ConstantsAssumption, FS_Subset
<1>2. ASSUME NEW a, NEW T, T \subseteq S \cup {a}
      PROVE  Cardinality(T) \in Nat /\ Cardinality(T) <= Cardinality(S) + 1
  <2>1. IsFiniteSet(S \cup {a}) /\ Cardinality(S \cup {a}) <= Cardinality(S) + 1
    BY <1>1, FS_AddElement, FS_CardinalityType
  <2>2. IsFiniteSet(T) /\ Cardinality(T) <= Cardinality(S \cup {a})
    BY <1>2, <2>1, FS_Subset
  <2> QED
    BY <1>1, <2>1, <2>2, FS_CardinalityType
<1> QED
  BY <1>1, <1>2, FS_CardinalityType, FS_EmptySet

(***************************************************************************)
(* The invariants.  A scheduled action is executed without asking the gate *)
(* again, so its case keeps room for it: room there was when the action    *)
(* was approved, and no other case of the payment is open to use it up.    *)
(***************************************************************************)
NoOrphans == \A a \in Actions : Exists(a) => cases[actions[a].case].state # Absent

RoomToFail ==
    \A c \in Cases : cases[c].state = "SCHEDULED" =>
        Cardinality(Failures(cases[c].payment)) < RepeatedFailureLimit

RoomToExecute ==
    \A c \in Cases : cases[c].state = "SCHEDULED" =>
        Cardinality(Executed(cases[c].payment)) + 1 < MaxAutomaticRetries

\* Every execution is an attempt, and so was the failure that came before it.
AttemptsCover ==
    \A p \in Payments :
        /\ payments[p].status = Absent => payments[p].attempts = 0
        /\ \/ Cardinality(Executed(p)) + 1 <= payments[p].attempts
           \/ Executed(p) = {} /\ payments[p].status \notin Unsuccessful

FailureInv == NoOrphans /\ FailuresWithinLimit /\ RoomToFail
BudgetInv  == Provider = "simulator" => ExecutionsWithinBudget /\ RoomToExecute /\ AttemptsCover
LimitInv   == FailureInv /\ BudgetInv

\* The budget bound in terms of Executed.
LEMMA BudgetByExecuted ==
    ExecutionsWithinBudget <=>
        \A p \in Payments : Executed(p) # {} => Cardinality(Executed(p)) < MaxAutomaticRetries
  BY DEF ExecutionsWithinBudget, Executed
(***************************************************************************)
(* Steps that execute nothing.                                             *)
(***************************************************************************)
\* The empty database has no action to count.
LEMMA InitLimit == Init => LimitInv
<1> SUFFICES ASSUME Init PROVE LimitInv
  OBVIOUS
<1>1. /\ \A a \in Actions : ~Exists(a)
      /\ \A c \in Cases : cases[c].state # "SCHEDULED"
      /\ \A p \in Payments : payments[p].status = Absent /\ payments[p].attempts = 0
  BY DEF Init, NoCase, NoAction, NoPayment, Proposed, Exists, Absent
<1>2. \A p : Failures(p) = {} /\ Executed(p) = {}
  BY <1>1 DEF Failures, Executed
<1>3. FailureInv
  BY <1>1, <1>2 DEF FailureInv, NoOrphans, FailuresWithinLimit, RoomToFail
<1>4. ExecutionsWithinBudget /\ RoomToExecute /\ AttemptsCover
  BY <1>1, <1>2, BudgetByExecuted DEF RoomToExecute, AttemptsCover, Absent, Unsuccessful
<1> QED
  BY <1>3, <1>4 DEF LimitInv, BudgetInv

\* Nothing counted changes hands when cases keep their payments and actions
\* their results; a new action without a result is not counted.
LEMMA CountsUnchanged ==
    ASSUME IInv, LimitInv,
           \A a \in Actions :
              \/ /\ Exists(a)' <=> Exists(a)
                 /\ actions'[a].case = actions[a].case
                 /\ actions'[a].outcome = actions[a].outcome
                 /\ actions'[a].executed = actions[a].executed
              \/ ~Exists(a) /\ actions'[a].outcome = None /\ ~actions'[a].executed,
           \A c \in Cases : cases[c].state # Absent => cases'[c].payment = cases[c].payment
    PROVE  \A p \in Payments : Failures(p)' = Failures(p) /\ Executed(p)' = Executed(p)
<1>1. \A a \in Actions : Exists(a) => PaymentOf(a)' = PaymentOf(a)
  BY DEF IInv, TypeOK, ActionRow, LimitInv, FailureInv, NoOrphans, Exists, PaymentOf
<1> QED
  BY <1>1 DEF Failures, Executed, None

\* Such a step keeps the bounds when it schedules nothing and takes no attempt
\* away.
LEMMA QuietStep ==
    ASSUME IInv, LimitInv, NoOrphans',
           \A p \in Payments : Failures(p)' = Failures(p) /\ Executed(p)' = Executed(p),
           \A c \in Cases : cases'[c].state = "SCHEDULED" =>
              cases[c].state = "SCHEDULED" /\ cases'[c].payment = cases[c].payment,
           \A p \in Payments :
              \/ payments'[p] = payments[p]
              \/ /\ payments[p].status # Absent /\ payments'[p].status # Absent
                 /\ payments'[p].attempts = payments[p].attempts + 1
              \/ /\ payments[p].status = Absent /\ payments'[p].status # Absent
                 /\ payments'[p].status \in Unsuccessful => payments'[p].attempts = 1
    PROVE  LimitInv'
<1>1. \A c \in Cases : cases[c].payment \in Payments
  BY DEF IInv, TypeOK, CaseRow
<1>2. FailureInv'
  BY <1>1 DEF LimitInv, FailureInv, FailuresWithinLimit, RoomToFail
<1>3. CASE Provider = "simulator"
  <2>1. /\ \A p \in Payments : Executed(p) # {} => Cardinality(Executed(p)) < MaxAutomaticRetries
        /\ RoomToExecute /\ AttemptsCover
    BY <1>3, BudgetByExecuted DEF LimitInv, BudgetInv
  <2>2. RoomToExecute'
    BY <1>1, <2>1 DEF RoomToExecute
  <2>3. AttemptsCover'
    <3> SUFFICES ASSUME NEW p \in Payments
                 PROVE  /\ payments'[p].status = Absent => payments'[p].attempts = 0
                        /\ \/ Cardinality(Executed(p)) + 1 <= payments'[p].attempts
                           \/ Executed(p) = {} /\ payments'[p].status \notin Unsuccessful
      BY DEF AttemptsCover
    <3> DEFINE n == Cardinality(Executed(p))
    <3>1. Executed(p) \in SUBSET Actions
      BY DEF Executed
    <3>2. n \in Nat /\ (Executed(p) = {} => n = 0) /\ payments[p].attempts \in Nat
      BY <3>1, CountActions DEF IInv, TypeOK, PaymentRow
    <3>3. /\ payments[p].status = Absent => payments[p].attempts = 0
          /\ \/ n + 1 <= payments[p].attempts
             \/ Executed(p) = {} /\ payments[p].status \notin Unsuccessful
      BY <2>1 DEF AttemptsCover
    <3> HIDE DEF n
    <3> QED
      BY <3>2, <3>3 DEF n
  <2>4. ExecutionsWithinBudget'
    BY <2>1 DEF ExecutionsWithinBudget, Executed
  <2> QED
    BY <1>2, <2>2, <2>3, <2>4 DEF LimitInv, BudgetInv
<1> QED
  BY <1>2, <1>3 DEF LimitInv, BudgetInv
(***************************************************************************)
(* Steps that schedule or execute.                                         *)
(***************************************************************************)
\* What an approved verdict says of the counts.
LEMMA ApprovedHasRoom ==
    ASSUME IInv, LimitInv, NEW c \in Cases, NEW t, Decides(c, t, "APPROVED"), t \notin TerminalActions
    PROVE  LET p == cases[c].payment
           IN  /\ payments[p].status \in Unsuccessful
               /\ Cardinality(Failures(p)) < RepeatedFailureLimit
               /\ Provider = "simulator" => /\ Cardinality(Executed(p)) + 1 < MaxAutomaticRetries
                                            /\ Cardinality(Executed(p)) + 1 <= payments[p].attempts
<1> DEFINE p == cases[c].payment
<1>1. /\ payments[p].status \in Unsuccessful
      /\ ~(payments[p].attempts >= MaxAutomaticRetries)
      /\ ~(Cardinality(Failures(p)) >= RepeatedFailureLimit)
  BY ApprovedIsSafe DEF Decides, ContextOf, ContextFrom
<1>2. p \in Payments /\ payments[p].attempts \in Nat
  BY DEF IInv, TypeOK, CaseRow, PaymentRow
<1>3. Failures(p) \in SUBSET Actions /\ Executed(p) \in SUBSET Actions
  BY DEF Failures, Executed
<1>4. Cardinality(Failures(p)) \in Nat /\ Cardinality(Executed(p)) \in Nat
  BY <1>3, CountActions
<1>5. Provider = "simulator" => Cardinality(Executed(p)) + 1 <= payments[p].attempts
  BY <1>1, <1>2 DEF LimitInv, BudgetInv, AttemptsCover
<1> HIDE DEF p
<1>6. /\ Cardinality(Failures(p)) < RepeatedFailureLimit
      /\ Provider = "simulator" => Cardinality(Executed(p)) + 1 < MaxAutomaticRetries
  BY <1>1, <1>2, <1>4, <1>5, SettingsAssumption
<1> QED
  BY <1>1, <1>5, <1>6 DEF p

\* A disposition counts nothing; the retry it may schedule has room.
LEMMA DisposeLimit ==
    ASSUME IInv, LimitInv, NEW c \in Cases, NEW t, NEW verdict, NEW state, NEW row \in ActionRow,
           Decides(c, t, verdict), Dispose(c, state, row),
           row.case = c, row.outcome = None, ~row.executed, state # Absent,
           state = "SCHEDULED" => verdict = "APPROVED" /\ t \notin TerminalActions
    PROVE  LimitInv'
<1>1. PICK n \in Actions :
      /\ ~Exists(n) /\ actions'[n] = row
      /\ \A b \in Actions : b # n => actions'[b] = actions[b]
      /\ cases'[c].state = state /\ cases'[c].payment = cases[c].payment
      /\ \A d \in Cases : d # c => cases'[d] = cases[d]
      /\ UNCHANGED payments
  BY FreshActionIsFree DEF Decides, Dispose, IInv, TypeOK, CaseRow
<1>2. \A p \in Payments : Failures(p)' = Failures(p) /\ Executed(p)' = Executed(p)
  <2>1. \A a \in Actions : a # n => (Exists(a)' <=> Exists(a))
    BY <1>1 DEF Exists
  <2>2. \A d \in Cases : cases'[d].payment = cases[d].payment
    BY <1>1
  <2> QED
    BY <1>1, <2>1, <2>2, CountsUnchanged
<1>3. NoOrphans'
  BY <1>1 DEF LimitInv, FailureInv, NoOrphans, Exists, IInv, TypeOK, ActionRow, Absent
<1>4. CASE state # "SCHEDULED"
  <2>1. \A d \in Cases : cases'[d].state = "SCHEDULED" =>
           cases[d].state = "SCHEDULED" /\ cases'[d].payment = cases[d].payment
    BY <1>1, <1>4
  <2> QED
    BY <1>1, <1>2, <1>3, <2>1, QuietStep
<1>5. CASE state = "SCHEDULED"
  <2> DEFINE p == cases[c].payment
  <2>1. /\ Cardinality(Failures(p)) < RepeatedFailureLimit
        /\ Provider = "simulator" => Cardinality(Executed(p)) + 1 < MaxAutomaticRetries
    BY <1>5, ApprovedHasRoom
  <2>2. \A d \in Cases : cases'[d].payment = cases[d].payment /\ cases[d].payment \in Payments
    BY <1>1 DEF IInv, TypeOK, CaseRow
  <2>3. RoomToFail'
    BY <1>1, <1>2, <2>1, <2>2 DEF LimitInv, FailureInv, RoomToFail
  <2>4. FailuresWithinLimit'
    BY <1>2 DEF LimitInv, FailureInv, FailuresWithinLimit
  <2>5. ASSUME Provider = "simulator" PROVE (ExecutionsWithinBudget /\ RoomToExecute /\ AttemptsCover)'
    <3>1. RoomToExecute'
      BY <1>1, <1>2, <2>1, <2>2, <2>5 DEF LimitInv, BudgetInv, RoomToExecute
    <3>2. AttemptsCover'
      BY <1>1, <1>2, <2>5 DEF LimitInv, BudgetInv, AttemptsCover
    <3>3. ExecutionsWithinBudget'
      BY <1>2, <2>5 DEF LimitInv, BudgetInv, ExecutionsWithinBudget, Executed
    <3> QED
      BY <3>1, <3>2, <3>3
  <2> QED
    BY <1>3, <2>3, <2>4, <2>5 DEF LimitInv, FailureInv, BudgetInv
<1> QED
  BY <1>4, <1>5

\* Every execution of the simulator is recorded as an attempt.
LEMMA SimulatorAttempts ==
    ASSUME Provider = "simulator", NEW row \in PaymentRow, NEW reason, NEW t,
           NEW e \in Effects(row, reason, t)
    PROVE  e.payment.status # Absent /\ e.payment.attempts = row.attempts + 1
<1>1. PICK ok : e = Effect(IF ok THEN RecordRecoveryAttempt(row, "SUCCEEDED", None)
                           ELSE RecordRecoveryAttempt(row, "FAILED", reason), ok, 0)
  BY DEF Effects, SimulatorEffects
<1> QED
  BY <1>1 DEF Effect, RecordRecoveryAttempt, Absent

\* An execution uses the room its case kept: one action more is counted, and
\* only for the payment of the case.
LEMMA ExecuteLimit ==
    ASSUME IInv, LimitInv, NEW c \in Cases, NEW a \in Actions, NEW row \in ActionRow,
           ExecuteAndVerify(c, a, row), Open(c), row.case = c,
           ~Exists(a) \/ row = actions[a],
           Cardinality(Failures(cases[c].payment)) < RepeatedFailureLimit,
           Provider = "simulator" =>
              /\ Cardinality(Executed(cases[c].payment)) + 1 < MaxAutomaticRetries
              /\ Cardinality(Executed(cases[c].payment)) + 1 <= payments[cases[c].payment].attempts
    PROVE  LimitInv'
<1>1. PICK p \in Payments : p = cases[c].payment /\ payments[p] \in PaymentRow
  BY DEF IInv, TypeOK, CaseRow
<1>2. PICK e \in Effects(payments[p], ContextOf(p).reason, row.type) : ApplyEffect(c, a, row, e)
  BY <1>1 DEF ExecuteAndVerify
<1>3. /\ cases'[c].state \in {"RECOVERED", "FAILED"}
      /\ \A d \in Cases : cases'[d].payment = cases[d].payment
      /\ \A d \in Cases : d # c => cases'[d] = cases[d]
      /\ payments'[p] = e.payment
      /\ \A q \in Payments : q # p => payments'[q] = payments[q]
      /\ \A b \in Actions : b # a => actions'[b] = actions[b]
      /\ actions'[a].case = c
  BY <1>1, <1>2 DEF ApplyEffect, IInv, TypeOK, CaseRow, ActionRow
<1>4. \A b \in Actions : b # a =>
         (Exists(b)' <=> Exists(b)) /\ (Exists(b) => PaymentOf(b)' = PaymentOf(b))
  BY <1>3 DEF Exists, PaymentOf, IInv, TypeOK, ActionRow, Absent
<1>5. PaymentOf(a)' = p /\ (Exists(a) => PaymentOf(a) = p)
  BY <1>1, <1>3 DEF PaymentOf
<1>6. Failures(p)' \subseteq Failures(p) \cup {a} /\ Executed(p)' \subseteq Executed(p) \cup {a}
  BY <1>3, <1>4 DEF Failures, Executed
<1>7. \A q \in Payments : q # p => Failures(q)' = Failures(q) /\ Executed(q)' = Executed(q)
  BY <1>3, <1>4, <1>5 DEF Failures, Executed
<1>8. \A d \in Cases : cases'[d].state = "SCHEDULED" =>
         cases[d].state = "SCHEDULED" /\ cases'[d].payment \in Payments /\ cases'[d].payment # p
  BY <1>1, <1>3 DEF IInv, CaseInv, OneOpenCase, Open, TerminalStates, Absent, TypeOK, CaseRow
<1>9. /\ Cardinality(Failures(p)) \in Nat /\ Cardinality(Failures(p)') \in Nat
      /\ Cardinality(Failures(p)') <= Cardinality(Failures(p)) + 1
      /\ Cardinality(Executed(p)) \in Nat /\ Cardinality(Executed(p)') \in Nat
      /\ Cardinality(Executed(p)') <= Cardinality(Executed(p)) + 1
  <2>1. Failures(p) \in SUBSET Actions /\ Executed(p) \in SUBSET Actions
    BY DEF Failures, Executed
  <2> QED
    BY <1>6, <2>1, CountActions
<1>10. NoOrphans'
  BY <1>3, <1>4 DEF LimitInv, FailureInv, NoOrphans, IInv, TypeOK, ActionRow, Exists, Absent
<1>11. FailuresWithinLimit'
  <2>1. Cardinality(Failures(p)') <= RepeatedFailureLimit
    BY <1>1, <1>9, SettingsAssumption
  <2> QED
    BY <1>7, <2>1 DEF LimitInv, FailureInv, FailuresWithinLimit
<1>12. RoomToFail'
  BY <1>3, <1>7, <1>8 DEF LimitInv, FailureInv, RoomToFail
<1>13. ASSUME Provider = "simulator" PROVE (ExecutionsWithinBudget /\ RoomToExecute /\ AttemptsCover)'
  <2>1. e.payment.status # Absent /\ e.payment.attempts = payments[p].attempts + 1
    BY <1>1, <1>2, <1>13, SimulatorAttempts
  <2>2. payments[p].attempts \in Nat
    BY <1>1 DEF PaymentRow
  <2>3. Cardinality(Executed(p)') < MaxAutomaticRetries
    BY <1>1, <1>9, <1>13, SettingsAssumption
  <2>4. Cardinality(Executed(p)') + 1 <= payments'[p].attempts
    BY <1>1, <1>3, <1>9, <1>13, <2>1, <2>2
  <2>5. ExecutionsWithinBudget'
    <3>1. \A q \in Payments : Executed(q) # {} => Cardinality(Executed(q)) < MaxAutomaticRetries
      BY <1>13, BudgetByExecuted DEF LimitInv, BudgetInv
    <3>2. \A q \in Payments : Executed(q)' # {} => Cardinality(Executed(q)') < MaxAutomaticRetries
      BY <1>7, <2>3, <3>1
    <3> QED
      BY <3>2 DEF ExecutionsWithinBudget, Executed
  <2>6. RoomToExecute'
    BY <1>3, <1>7, <1>8, <1>13 DEF LimitInv, BudgetInv, RoomToExecute
  <2>7. AttemptsCover'
    BY <1>3, <1>7, <1>13, <2>1, <2>4 DEF LimitInv, BudgetInv, AttemptsCover
  <2> QED
    BY <2>5, <2>6, <2>7
<1> QED
  BY <1>10, <1>11, <1>12, <1>13 DEF LimitInv, FailureInv, BudgetInv
(***************************************************************************)
(* Every step.                                                             *)
(***************************************************************************)
\* Requests and webhooks execute nothing, and attempts only go up.
LEMMA PaymentStepLimit ==
    ASSUME IInv, LimitInv, NEW p \in Payments,
           \/ \E status \in PaymentStatus, reason \in FailureReason \cup {None}, open \in BOOLEAN :
                CreatePayment(p, status, reason, open)
           \/ \E reason \in FailureReason : FailPayment(p, reason) \/ PaymentFailedWebhook(p, reason)
           \/ DetectRisk(p)
           \/ PaymentCapturedWebhook(p)
    PROVE  LimitInv'
<1>1. /\ UNCHANGED actions
      /\ \A c \in Cases : cases[c].state # Absent =>
            cases'[c].payment = cases[c].payment /\ cases'[c].state # Absent
      /\ \A c \in Cases : cases'[c].state = "SCHEDULED" => cases'[c] = cases[c]
  <2>1. CASE UNCHANGED <<cases, actions>>
    BY <2>1
  <2>2. CASE DetectRisk(p) /\ cases' # cases
    <3>1. FreshCase \in Cases /\ cases[FreshCase].state = Absent
      BY <2>2, FreshCaseIsFree DEF DetectRisk
    <3> QED
      BY <2>2, <3>1 DEF DetectRisk, IInv, TypeOK
  <2>3. CASE PaymentCapturedWebhook(p)
    BY <2>3 DEF PaymentCapturedWebhook, IInv, TypeOK, CaseRow, Absent
  <2> QED
    BY <2>1, <2>2, <2>3 DEF CreatePayment, FailPayment, PaymentFailedWebhook, DetectRisk
<1>2. \A q \in Payments : Failures(q)' = Failures(q) /\ Executed(q)' = Executed(q)
  BY <1>1, CountsUnchanged DEF Exists
<1>3. NoOrphans'
  BY <1>1 DEF LimitInv, FailureInv, NoOrphans, Exists, IInv, TypeOK, ActionRow, Absent
<1>4. \A q \in Payments :
         \/ payments'[q] = payments[q]
         \/ /\ payments[q].status # Absent /\ payments'[q].status # Absent
            /\ payments'[q].attempts = payments[q].attempts + 1
         \/ /\ payments[q].status = Absent /\ payments'[q].status # Absent
            /\ payments'[q].status \in Unsuccessful => payments'[q].attempts = 1
  BY DEF CreatePayment, FailPayment, PaymentFailedWebhook, DetectRisk, PaymentCapturedWebhook,
         RecordRecoveryAttempt, IInv, TypeOK, PaymentStatus, Unsuccessful, Absent
<1> QED
  BY <1>1, <1>2, <1>3, <1>4, QuietStep

\* Nothing that is counted changes when payments, cases and results stay.
LEMMA OtherStepLimit ==
    ASSUME IInv, LimitInv, AdvanceClock \/ UNCHANGED <<payments, cases, actions>>
    PROVE  LimitInv'
<1>1. UNCHANGED <<payments, cases>>
  BY DEF AdvanceClock
<1>2. \A a \in Actions : /\ Exists(a)' <=> Exists(a)
                         /\ actions'[a].case = actions[a].case
                         /\ actions'[a].outcome = actions[a].outcome
                         /\ actions'[a].executed = actions[a].executed
  BY DEF AdvanceClock, IInv, TypeOK, ActionRow, Exists
<1>3. \A q \in Payments : Failures(q)' = Failures(q) /\ Executed(q)' = Executed(q)
  BY <1>1, <1>2, CountsUnchanged
<1>4. NoOrphans'
  BY <1>1, <1>2 DEF LimitInv, FailureInv, NoOrphans
<1> QED
  BY <1>1, <1>3, <1>4, QuietStep

\* A resumption finds the room that was kept for it.
LEMMA ResumeLimit ==
    ASSUME IInv, LimitInv, NEW c \in Cases, ResumeScheduled(c)
    PROVE  LimitInv'
<1>1. PICK a \in PendingActions(c) : ExecuteAndVerify(c, a, actions[a])
  BY DEF ResumeScheduled, IInv, CaseInv, ScheduledCaseAwaitsOne
<1>2. /\ a \in Actions /\ actions[a] \in ActionRow /\ actions[a].case = c
      /\ cases[c].state = "SCHEDULED" /\ Open(c)
      /\ payments[cases[c].payment].status \in Unsuccessful
      /\ cases[c].payment \in Payments
  BY DEF ResumeScheduled, PendingActions, IInv, TypeOK, CaseRow, CaseInv, OpenCaseMatchesPayment,
         Open, TerminalStates, Absent
<1>3. Cardinality(Failures(cases[c].payment)) < RepeatedFailureLimit
  BY <1>2 DEF LimitInv, FailureInv, RoomToFail
<1>4. Provider = "simulator" =>
         /\ Cardinality(Executed(cases[c].payment)) + 1 < MaxAutomaticRetries
         /\ Cardinality(Executed(cases[c].payment)) + 1 <= payments[cases[c].payment].attempts
  BY <1>2 DEF LimitInv, BudgetInv, RoomToExecute, AttemptsCover
<1> QED
  BY <1>1, <1>2, <1>3, <1>4, ExecuteLimit

\* Every step keeps the bounds.
LEMMA StepLimit == IInv /\ LimitInv /\ [Next]_vars => LimitInv'
<1> SUFFICES ASSUME IInv, LimitInv, [Next]_vars PROVE LimitInv'
  OBVIOUS
<1>1. ASSUME NEW c \in Cases, NEW t \in ActionType, NEW verdict, NEW state \in TerminalStates,
             NEW status \in ActionStatus, Decides(c, t, verdict),
             Dispose(c, state, [Proposed(c, t) EXCEPT !.status = status])
      PROVE  LimitInv'
  <2>1. LET row == [Proposed(c, t) EXCEPT !.status = status]
        IN  row \in ActionRow /\ row.case = c /\ row.outcome = None /\ ~row.executed
    BY DEF Proposed, ActionRow, Outcome
  <2> QED
    BY <1>1, <2>1, DisposeLimit DEF TerminalStates, Absent
<1>2. ASSUME NEW c \in Cases, NEW t \in ActionType,
             Stop(c, t) \/ Escalate(c, t) \/ HandOver(c, t)
      PROVE  LimitInv'
  <2>1. {"STOPPED", "ESCALATED"} \subseteq TerminalStates
        /\ {"BLOCKED", "ESCALATED", "APPROVED"} \subseteq ActionStatus
    BY DEF TerminalStates, ActionStatus
  <2>2. CASE Stop(c, t)
    BY <1>1, <2>1, <2>2 DEF Stop
  <2>3. CASE Escalate(c, t)
    BY <1>1, <2>1, <2>3 DEF Escalate
  <2>4. CASE HandOver(c, t)
    BY <1>1, <2>1, <2>4 DEF HandOver
  <2> QED
    BY <1>2, <2>2, <2>3, <2>4
<1>3. ASSUME NEW c \in Cases, Schedule(c) PROVE LimitInv'
  <2>1. /\ DeferredRetry(c) \in ActionRow /\ DeferredRetry(c).case = c
        /\ DeferredRetry(c).outcome = None /\ ~DeferredRetry(c).executed
    BY ConstantsAssumption
       DEF DeferredRetry, Proposed, ActionRow, ActionType, ActionStatus, Outcome
  <2> QED
    BY <1>3, <2>1, DisposeLimit DEF Schedule, TerminalActions, Absent
<1>4. ASSUME NEW c \in Cases, NEW t \in ActionType, Execute(c, t) PROVE LimitInv'
  <2>1. Open(c) /\ SomeActionFree
    BY <1>4 DEF Execute, Decides, Open, TerminalStates, Absent
  <2>2. Proposed(c, t) \in ActionRow /\ Proposed(c, t).case = c
    BY ProposedType DEF Proposed
  <2> QED
    BY <1>4, <2>1, <2>2, FreshActionIsFree, ApprovedHasRoom, ExecuteLimit DEF Execute
<1>5. ASSUME UNCHANGED <<payments, cases, actions>> PROVE LimitInv'
  BY <1>5, OtherStepLimit
<1> QED
  BY <1>2, <1>3, <1>4, <1>5, PaymentStepLimit, OtherStepLimit, ResumeLimit, ConstantsAssumption
     DEF Next, Run, LoseRequest, RunFailsAfterOrder, vars

\* The bounds hold in every reachable database.
LEMMA LimitInvariance == Spec => []LimitInv
<1>1. Init => LimitInv
  BY InitLimit
<1>2. IInv /\ LimitInv /\ [Next]_vars => LimitInv'
  BY StepLimit
<1> QED
  BY <1>1, <1>2, Invariance, PTL DEF Spec

\* A payment collects no more unsuccessful outcomes than the limit allows, with
\* either executor, over all its cases, although a resumption asks nobody.
THEOREM FailuresBounded == Spec => []FailuresWithinLimit
  BY LimitInvariance, PTL DEF LimitInv, FailureInv

\* With the simulator a payment is pushed less often than the budget says.
THEOREM ExecutionsBounded == Spec => [](Provider = "simulator" => ExecutionsWithinBudget)
<1>1. LimitInv => (Provider = "simulator" => ExecutionsWithinBudget)
  BY DEF LimitInv, BudgetInv
<1> QED
  BY <1>1, LimitInvariance, PTL
==============================================================================
