------------------------- MODULE Demonstration_proofs -------------------------

(***************************************************************************)
(* The demonstration system for every population: what the recovery core   *)
(* guarantees still holds under seeding, seeding again, a driven clock and *)
(* a batch whose copy of a payment is outdated, and the figures and        *)
(* projections agree with what the runs did.                               *)
(***************************************************************************)
EXTENDS StrategyLab, Recovery_proofs, Scoring_proofs, FiniteSetTheorems, WellFoundedInduction

(***************************************************************************)
(* The inductive invariant.                                                *)
(***************************************************************************)
\* Every payment was seeded with one of its seeds, and every action row belongs
\* to a case; only a deferred retry waits, and it is approved.
RowsKept ==
    /\ \A p \in Payments : seed[p] \in Seeds[p]
    /\ \A a \in Actions : Exists(a) =>
         /\ cases[actions[a].case].state # Absent
         /\ actions[a].scheduled => actions[a].status \in {"SCHEDULED", "EXECUTED", "FAILED"}

\* A case with an action has a diagnosis, and the diagnosis is the cause its
\* waiting or recovering action was chosen for.
CausesKept ==
    \A a \in Actions : Exists(a) =>
        /\ diagnosed[actions[a].case] # None
        /\ Pending(a) \/ actions[a].outcome = "recovered" =>
             actions[a].type \in CandidatesByReason[diagnosed[actions[a].case]]

\* A run of an open case that takes its payment for unsuccessful is right.
Fits(c, h) ==
    Open(c) /\ h.status \in Unsuccessful => payments[cases[c].payment].status \in Unsuccessful

\* A batch works on cases that exist; the payment it holds may be outdated, but
\* as long as its case is open the payment has not been captured meanwhile.
HeldFits ==
    /\ \A c \in todo : cases[c].state # Absent
    /\ Loaded => Fits(Current, pilot.held)

\* A copy of payment q, as a run of its case may have it in hand: as it was seeded
\* until an action is executed, and never with more attempts than were made.
SeededCopy(h, q) ==
    /\ ExecutedFor(q) = {} => h = SeededPayment(seed[q])
    /\ h.attempts \in seed[q].attempts..(seed[q].attempts + Cardinality(ExecutedFor(q)))
    /\ Open(q) => h.status \in Unsuccessful /\ h.reason = seed[q].reason

\* Only runs have touched payment q: it has its seeded case and no other and,
\* unless that is recovered, the seeded cause.  An executed action adds an attempt
\* to the seeded ones; all of them do, unless a batch ran on an outdated copy.
SeededRow(q) ==
    /\ detecting[q] = 0
    /\ \A c \in Cases : cases[c].state # Absent /\ cases[c].payment = q <=> c = q
    /\ diagnosed[q] \in {None, seed[q].reason}
    /\ \/ payments[q].status \in Unsuccessful /\ payments[q].reason = seed[q].reason
       \/ payments[q].status = "SUCCEEDED" /\ cases[q].state = "RECOVERED"
    /\ SeededCopy(payments[q], q)
    /\ ExecutedFor(q) # {} => payments[q].attempts > seed[q].attempts
    /\ q \notin crossed =>
         payments[q].attempts = seed[q].attempts + Cardinality(ExecutedFor(q))

\* The context a payment is detected with.
SeedContext(s) ==
    [status |-> "FAILED", reason |-> s.reason, attempts |-> s.attempts,
     amount |-> s.amount, rate |-> s.rate, subscriber |-> s.subscriber,
     failures |-> 0, failed |-> {}, succeeded |-> {},
     highValue |-> s.amount > HighValueThreshold]

\* Action a is the one the ranking, the gate and the simulator gave that context.
AsProjected(a, s) ==
    /\ actions[a].type = Choose("Paychecker", SeedContext(s))
    /\ PolicyOutcomeOf(a) = PolicyVerdict(SeedContext(s), actions[a].type)
    /\ actions[a].executed =>
         (actions[a].outcome = "recovered") \in SimulatedOutcomes(s.reason, actions[a].type)

\* While such a payment has only one action, that one is the projected one.
FirstKept(q) ==
    \A a \in Actions : /\ Exists(a) /\ actions[a].case = q
                       /\ \A b \in Actions \ {a} : Exists(b) => actions[b].case # q
                       => AsProjected(a, seed[q])

HeldSeeded(q) == Loaded /\ Current = q => SeededCopy(pilot.held, q)

Seeded   == \A q \in Payments \ disturbed : SeededRow(q) /\ FirstKept(q) /\ HeldSeeded(q)
DemoInv  == AutopilotTypeOK /\ CaseInv /\ RowsKept /\ CausesKept /\ HeldFits /\ Seeded

(***************************************************************************)
(* The selection.                                                          *)
(***************************************************************************)
\* The most of three is there.
LEMMA SomeFirst ==
    ASSUME NEW u \in Valuations, NEW v \in Valuations, NEW w \in Valuations,
           u = v \/ u.action # v.action, u = w \/ u.action # w.action, v = w \/ v.action # w.action
    PROVE  \E x \in {u, v, w} : \A y \in {u, v, w} \ {x} : Before(x, y)
<1>1. /\ u = v \/ Before(u, v) \/ Before(v, u)
      /\ u = w \/ Before(u, w) \/ Before(w, u)
      /\ v = w \/ Before(v, w) \/ Before(w, v)
  BY BeforeTotal
<1>2. /\ Before(u, v) /\ Before(v, w) => Before(u, w)
      /\ Before(u, w) /\ Before(w, v) => Before(u, v)
      /\ Before(v, u) /\ Before(u, w) => Before(v, w)
      /\ Before(v, w) /\ Before(w, u) => Before(v, u)
      /\ Before(w, u) /\ Before(u, v) => Before(w, v)
      /\ Before(w, v) /\ Before(v, u) => Before(w, u)
  BY BeforeTransitive
<1>3. \/ (u = v \/ Before(u, v)) /\ (u = w \/ Before(u, w))
      \/ (v = u \/ Before(v, u)) /\ (v = w \/ Before(v, w))
      \/ (w = u \/ Before(w, u)) /\ (w = v \/ Before(w, v))
  BY <1>1, <1>2
<1> QED
  BY <1>3

\* A probability is between 2 and 97 percent, and the rounded return an amount.
LEMMA ReturnType ==
    ASSUME NEW ctx, NEW t, ctx.amount \in Nat
    PROVE  RoundHalfEven(Probability(ctx, t) * ctx.amount, 10) \in Int
<1>1. \A x : Clamp(x, 20, 970) \in Int
  BY DEF Clamp
<1>2. Probability(ctx, t) \in Int
  BY <1>1 DEF Probability
<1> DEFINE n == Probability(ctx, t) * ctx.amount
<1>3. n \in Int
  BY <1>2
<1> HIDE DEF n
<1>4. n \div 10 \in Int
  BY <1>3
<1>5. RoundHalfEven(n, 10) \in Int
  BY <1>4 DEF RoundHalfEven
<1> QED
  BY <1>5 DEF n

\* Every action has a value for a context.
LEMMA ValuationType ==
    ASSUME NEW ctx, ctx.amount \in Nat, NEW t \in ActionType
    PROVE  LET v == Valuation(ctx, t, DefaultEconomy)
           IN  v \in Valuations /\ v.action = t /\ v.value \in Int
<1>1. Probability(ctx, t) \in Int /\ RoundHalfEven(Probability(ctx, t) * ctx.amount, 10) \in Int
  <2>1. \A x : Clamp(x, 20, 970) \in Int
    BY DEF Clamp
  <2>2. Probability(ctx, t) \in Int
    BY <2>1 DEF Probability
  <2> QED
    BY <2>2, ReturnType
<1>2. DefaultEconomy.cost[t] \in Int /\ DefaultEconomy.friction[t] \in Int
  BY DEF DefaultEconomy, ActionType
<1> DEFINE p     == Probability(ctx, t)
           gross == RoundHalfEven(Probability(ctx, t) * ctx.amount, 10)
           spent == DefaultEconomy.cost[t]
           lost  == DefaultEconomy.friction[t]
<1>3. Valuation(ctx, t, DefaultEconomy) =
        [action |-> t, probability |-> p, cost |-> spent, value |-> gross - spent - lost]
  BY DEF Valuation, ExpectedValue
<1>4. p \in Int /\ gross \in Int /\ spent \in Int /\ lost \in Int
  BY <1>1, <1>2
<1> HIDE DEF p, gross, spent, lost
<1>5. gross - spent - lost \in Int
  BY <1>4
<1> QED
  BY <1>3, <1>4, <1>5 DEF Valuations

\* Of three candidates, which need not differ, the selection takes one, and none
\* is worth more.
LEMMA BestIsSelected ==
    ASSUME NEW ctx, ctx.amount \in Nat, NEW human,
           NEW a \in ActionType, NEW b \in ActionType, NEW d \in ActionType
    PROVE  LET selected == SelectedAction(ctx, {a, b, d}, DefaultEconomy, human)
           IN  /\ selected \in {a, b, d}
               /\ \A t \in {a, b, d} : Valuation(ctx, t, DefaultEconomy).value
                                         <= Valuation(ctx, selected, DefaultEconomy).value
<1> DEFINE V(t) == Valuation(ctx, t, DefaultEconomy)
           First(x) == \A y \in {V(a), V(b), V(d)} \ {x} : Before(x, y)
<1>2. ASSUME NEW t \in ActionType PROVE V(t) \in Valuations /\ V(t).action = t
  BY ValuationType
<1>3. {V(t) : t \in {a, b, d}} = {V(a), V(b), V(d)}
  OBVIOUS
<1> HIDE DEF V
<1>4. /\ V(a) = V(b) \/ V(a).action # V(b).action
      /\ V(a) = V(d) \/ V(a).action # V(d).action
      /\ V(b) = V(d) \/ V(b).action # V(d).action
  BY <1>2
<1>5. \E x \in {V(a), V(b), V(d)} : First(x)
  BY <1>2, <1>4, SomeFirst
<1> DEFINE best == CHOOSE x \in {V(a), V(b), V(d)} : First(x)
<1>6. best \in {V(a), V(b), V(d)} /\ First(best)
  BY <1>5
<1>7. SelectedAction(ctx, {a, b, d}, DefaultEconomy, human) = best.action
  BY <1>3 DEF SelectedAction, Best, V
<1> HIDE DEF best
<1>8. best.action \in {a, b, d} /\ V(best.action) = best
  BY <1>2, <1>6
<1>9. ASSUME NEW t \in {a, b, d} PROVE V(t).value <= best.value
  <2>1. V(t) \in Valuations /\ best \in Valuations
    BY <1>2, <1>6
  <2>2. V(t).value \in Int /\ best.value \in Int
    BY <2>1 DEF Valuations
  <2>3. V(t) = best \/ Before(best, V(t))
    BY <1>6
  <2> DEFINE i == V(t).value
             j == best.value
  <2>4. i \in Int /\ j \in Int /\ (i = j \/ j > i)
    BY <2>2, <2>3 DEF Before
  <2> HIDE DEF i, j
  <2>5. i <= j
    BY <2>4
  <2> QED
    BY <2>5 DEF i, j
<1> QED
  BY <1>7, <1>8, <1>9 DEF V

\* For every cause there are candidates, at most three.
LEMMA CandidatesAreThree ==
    ASSUME NEW p, NEW reason \in FailureReason
    PROVE  \E a, b, d \in ActionType :
             /\ CandidateActions(p, reason) = {a, b, d}
             /\ CandidateActions(p, reason) \subseteq CandidatesByReason[reason]
<1> DEFINE base   == CandidatesByReason[reason]
           chosen == CandidateActions(p, reason)
<1>1. PICK a \in ActionType, b \in ActionType, d \in ActionType : base = {a, b, d}
  <2> DEFINE Three(S) == \E x, y, z \in ActionType : S = {x, y, z}
  <2>1. /\ Three({"RETRY_NOW", "RETRY_LATER", "SEND_PAYMENT_LINK"})
        /\ Three({"CHANGE_PAYMENT_METHOD", "SEND_PAYMENT_LINK", "ESCALATE_HUMAN"})
        /\ Three({"RETRY_LATER", "SEND_PAYMENT_LINK", "SEND_REMINDER"})
        /\ Three({"SEND_REMINDER", "SEND_PAYMENT_LINK", "SEND_PAYMENT_LINK"})
        /\ Three({"RETRY_NOW", "RETRY_LATER", "RETRY_LATER"})
        /\ Three({"RETRY_LATER", "SEND_REMINDER", "SEND_PAYMENT_LINK"})
        /\ Three({"ESCALATE_HUMAN", "STOP", "STOP"})
    BY DEF ActionType
  <2>2. /\ {"SEND_REMINDER", "SEND_PAYMENT_LINK", "SEND_PAYMENT_LINK"}
             = {"SEND_REMINDER", "SEND_PAYMENT_LINK"}
        /\ {"RETRY_NOW", "RETRY_LATER", "RETRY_LATER"} = {"RETRY_NOW", "RETRY_LATER"}
        /\ {"ESCALATE_HUMAN", "STOP", "STOP"} = {"ESCALATE_HUMAN", "STOP"}
    OBVIOUS
  <2> HIDE DEF Three
  <2>3. Three(base)
    BY <2>1, <2>2 DEF CandidatesByReason, FailureReason
  <2> QED
    BY <2>3 DEF Three
<1>2. chosen \subseteq base /\ chosen # {}
  BY <1>1 DEF CandidateActions
<1> HIDE DEF chosen, base
<1>3. \E x, y, z \in chosen : chosen = {x, y, z}
  <2>1. CASE a \in chosen
    <3> DEFINE y == IF b \in chosen THEN b ELSE a
               z == IF d \in chosen THEN d ELSE a
    <3>1. chosen = {a, y, z} /\ y \in chosen /\ z \in chosen
      BY <1>1, <1>2, <2>1
    <3> QED
      BY <2>1, <3>1
  <2>2. CASE a \notin chosen /\ b \in chosen
    <3> DEFINE z == IF d \in chosen THEN d ELSE b
    <3>1. chosen = {b, b, z} /\ z \in chosen
      BY <1>1, <1>2, <2>2
    <3> QED
      BY <2>2, <3>1
  <2>3. CASE a \notin chosen /\ b \notin chosen
    <3>1. chosen = {d, d, d} /\ d \in chosen
      BY <1>1, <1>2, <2>3
    <3> QED
      BY <3>1
  <2> QED
    BY <2>1, <2>2, <2>3
<1> QED
  BY <1>1, <1>2, <1>3 DEF chosen, base

\* The context of a row has a known cause.
LEMMA RowReason ==
    ASSUME NEW h \in PaymentRow, NEW p
    PROVE  ContextFrom(h, p).reason \in FailureReason /\ ContextFrom(h, p).reason # None
<1>1. \A reason \in FailureReason : reason # None
  BY DEF FailureReason, None
<1>2. ContextFrom(h, p).reason = IF h.reason = None THEN "UNKNOWN" ELSE h.reason
  BY DEF ContextFrom
<1>3. h.reason \in FailureReason \cup {None} /\ "UNKNOWN" \in FailureReason
  BY DEF PaymentRow, FailureReason
<1> QED
  BY <1>1, <1>2, <1>3

\* The engine picks a candidate, and none that is worth more was left.
LEMMA PickIsACandidate ==
    ASSUME AutopilotTypeOK, NEW p \in Payments, NEW h \in PaymentRow
    PROVE  LET ctx        == ScoredContext(p, h)
               candidates == CandidateActions(p, ContextFrom(h, p).reason)
               pick       == EnginePick(p, ctx)
           IN  /\ pick \in candidates /\ pick \in ActionType
               /\ candidates \subseteq CandidatesByReason[ContextFrom(h, p).reason]
               /\ \A t \in candidates : Valuation(ctx, t, DefaultEconomy).value
                                          <= Valuation(ctx, pick, DefaultEconomy).value
<1> DEFINE ctx        == ScoredContext(p, h)
           candidates == CandidateActions(p, ContextFrom(h, p).reason)
<1>1. ctx.amount \in Nat /\ ctx.reason = ContextFrom(h, p).reason
  BY DEF ScoredContext, AutopilotTypeOK, AtRiskPayment
<1>2. ContextFrom(h, p).reason \in FailureReason
  BY RowReason
<1>3. PICK a \in ActionType, b \in ActionType, d \in ActionType :
        /\ candidates = {a, b, d}
        /\ candidates \subseteq CandidatesByReason[ContextFrom(h, p).reason]
  BY <1>2, CandidatesAreThree
<1>4. EnginePick(p, ctx) = SelectedAction(ctx, {a, b, d}, DefaultEconomy, AllowHumanEscalation)
  <2> HIDE DEF ctx
  <2> QED
    BY <1>1, <1>3 DEF EnginePick
<1> HIDE DEF ctx, candidates
<1> QED
  BY <1>1, <1>3, <1>4, BestIsSelected DEF ctx, candidates

(***************************************************************************)
(* What a run, whatever it decides, writes.                                *)
(***************************************************************************)
\* What the gate said of an action row.
RowVerdict(row) == IF row.status \in {"BLOCKED", "ESCALATED"} THEN row.status ELSE "APPROVED"

\* The row is a new one, for what the ranking selected and the gate judged from
\* the payment in hand.
Chosen(c, h, a, row) ==
    /\ cases[c].state \in {"DETECTED", "FAILED"} /\ ~Exists(a)
    /\ row.type = EnginePick(cases[c].payment, ScoredContext(cases[c].payment, h))
    /\ row.type \in CandidateActions(cases[c].payment, ContextFrom(h, cases[c].payment).reason)
    /\ RowVerdict(row) = PolicyVerdict(ContextFrom(h, cases[c].payment), row.type)

\* The row is the one the case was waiting for.
Resumed(c, a, row) ==
    /\ cases[c].state = "SCHEDULED" /\ Pending(a) /\ actions[a].case = c /\ actions[a].wait = 0
    /\ row.type = actions[a].type /\ row.scheduled /\ row.wait = 0

\* The action is left for later, or for nobody: it closes the case.
Rests(h, row, state, pay) ==
    /\ pay = h
    /\ ~row.executed /\ row.outcome = None /\ row.wait <= RetryDelay
    /\ \/ /\ state \in {"STOPPED", "ESCALATED"} /\ ~row.scheduled
          /\ row.status \in {"BLOCKED", "ESCALATED"} \/ row.type \in TerminalActions
          /\ row.status = "BLOCKED" => state = "STOPPED"
          /\ row.status = "ESCALATED" => state = "ESCALATED"
       \/ /\ state = "SCHEDULED" /\ row.scheduled /\ row.type = "RETRY_LATER"
          /\ row.status = "SCHEDULED" /\ h.status \in Unsuccessful

\* The simulator answers ok, or not, and the payment, the case and the outcome say
\* so; a payment that was captured before is not recovered again.
Answered(c, h, ok, row, state, pay) ==
    /\ ok \in SimulatedOutcomes(ContextFrom(h, cases[c].payment).reason, row.type)
    /\ pay = RecordRecoveryAttempt(h, IF ok THEN "SUCCEEDED" ELSE "FAILED",
                                   IF ok THEN None ELSE ContextFrom(h, cases[c].payment).reason)
    /\ \/ ok /\ h.status # "SUCCEEDED" /\ row.outcome = "recovered" /\ state = "RECOVERED"
       \/ ~(ok /\ h.status # "SUCCEEDED") /\ row.outcome = "unrecovered" /\ state = "FAILED"
Acts(c, h, row, state, pay) ==
    /\ row.executed /\ row.status \in {"EXECUTED", "FAILED"}
    /\ \E ok \in BOOLEAN : Answered(c, h, ok, row, state, pay)

Writes(c, h, a, row, state, pay) ==
    /\ payments' = [payments EXCEPT ![cases[c].payment] = Flushed(@, h, pay)]
    /\ cases' = [cases EXCEPT ![c].state = state]
    /\ actions' = [actions EXCEPT ![a] = row]
    /\ UNCHANGED <<detecting, orders>>

RunShape(c, h, a, row, state, pay) ==
    /\ row.case = c /\ row.status # Absent
    /\ \/ Chosen(c, h, a, row) /\ Rests(h, row, state, pay)
       \/ /\ Chosen(c, h, a, row) /\ h.status \in Unsuccessful /\ Acts(c, h, row, state, pay)
          /\ row.type \notin TerminalActions /\ ~row.scheduled /\ row.wait = 0
       \/ Resumed(c, a, row) /\ Acts(c, h, row, state, pay)
    /\ Writes(c, h, a, row, state, pay)

\* The only executor here is the simulator.
LEMMA SimulatedEffects ==
    ASSUME NEW row, NEW reason, NEW t, NEW e \in Effects(row, reason, t)
    PROVE  \E ok \in BOOLEAN :
             /\ ok \in SimulatedOutcomes(reason, t)
             /\ e = Effect(RecordRecoveryAttempt(row, IF ok THEN "SUCCEEDED" ELSE "FAILED",
                                                 IF ok THEN None ELSE reason), ok, 0)
<1>1. e \in SimulatorEffects(row, reason, t)
  BY AutopilotAssumption DEF Effects
<1>2. PICK ok \in SimulatedOutcomes(reason, t) :
        e = Effect(IF ok THEN RecordRecoveryAttempt(row, "SUCCEEDED", None)
                         ELSE RecordRecoveryAttempt(row, "FAILED", reason), ok, 0)
  BY <1>1 DEF SimulatorEffects
<1>3. ok \in BOOLEAN
  BY DEF SimulatedOutcomes
<1> QED
  BY <1>2, <1>3

\* The result is an answer of the simulator to the action "base", in row a.
Performed(c, h, a, base, result) ==
    \E row \in ActionRow, state \in CaseState :
        /\ row.case = base.case /\ row.type = base.type /\ row.status # Absent
        /\ row.scheduled = base.scheduled /\ row.wait = base.wait
        /\ Acts(c, h, row, state, result.after) /\ result.after \in PaymentRow
        /\ result = Result(state, result.after, [actions EXCEPT ![a] = row], 0)

\* The result is a new row for action t that is not executed.
Aside(c, h, t, verdict, result) ==
    \E row \in ActionRow, state \in CaseState :
        /\ row.case = c /\ row.type = t /\ row.status # Absent /\ RowVerdict(row) = verdict
        /\ Rests(h, row, state, h)
        /\ result = Result(state, h, [actions EXCEPT ![FreshAction] = row], 0)

\* An execution ends with an answer of the simulator.
LEMMA PerformShape ==
    ASSUME NEW c, NEW h \in PaymentRow, NEW a \in Actions, NEW base \in ActionRow,
           NEW result \in Perform(cases[c].payment, a, base, h)
    PROVE  Performed(c, h, a, base, result)
<1> DEFINE p == cases[c].payment
           reason == ContextFrom(h, p).reason
           Made(e) == e.payment.status = "SUCCEEDED" /\ h.status # "SUCCEEDED"
           Row(e) == [base EXCEPT !.status   = IF e.reported THEN "EXECUTED" ELSE "FAILED",
                                  !.executed = TRUE,
                                  !.outcome  = IF Made(e) THEN "recovered" ELSE "unrecovered"]
           State(e) == IF Made(e) THEN "RECOVERED" ELSE "FAILED"
<1>1. PICK e \in Effects(h, reason, base.type) :
        result = Result(State(e), e.payment, [actions EXCEPT ![a] = Row(e)], e.ordered)
  BY DEF Perform
<1>2. reason \in FailureReason
  BY RowReason
<1> HIDE DEF p, reason
<1>3. PICK ok \in BOOLEAN :
        /\ ok \in SimulatedOutcomes(reason, base.type)
        /\ e = Effect(RecordRecoveryAttempt(h, IF ok THEN "SUCCEEDED" ELSE "FAILED",
                                            IF ok THEN None ELSE reason), ok, 0)
  BY SimulatedEffects
<1>4. /\ e.payment = RecordRecoveryAttempt(h, IF ok THEN "SUCCEEDED" ELSE "FAILED",
                                           IF ok THEN None ELSE reason)
      /\ e.ordered = 0
  BY <1>3 DEF Effect
<1>5. e.payment \in PaymentRow /\ e.payment.status = IF ok THEN "SUCCEEDED" ELSE "FAILED"
  <2>1. /\ (IF ok THEN "SUCCEEDED" ELSE "FAILED") \in PaymentStatus
        /\ (IF ok THEN None ELSE reason) \in FailureReason \cup {None}
    BY <1>2 DEF PaymentStatus
  <2> QED
    BY <1>4, <2>1, RecordType
<1>6. Made(e) <=> ok /\ h.status # "SUCCEEDED"
  BY <1>5
<1> HIDE DEF Made
<1>7. /\ Row(e) \in ActionRow /\ Row(e).case = base.case /\ Row(e).type = base.type
      /\ Row(e).executed /\ Row(e).status \in {"EXECUTED", "FAILED"} /\ Row(e).status # Absent
      /\ Row(e).scheduled = base.scheduled /\ Row(e).wait = base.wait
      /\ Row(e).outcome = IF Made(e) THEN "recovered" ELSE "unrecovered"
  BY DEF ActionRow, ActionStatus, Outcome, Absent
<1>8. State(e) \in CaseState
  BY DEF CaseState
<1> HIDE DEF Row
<1>9. Answered(c, h, ok, Row(e), State(e), e.payment)
  BY <1>3, <1>4, <1>6, <1>7 DEF Answered, p, reason
<1>10. result.after = e.payment /\ result = Result(State(e), e.payment, [actions EXCEPT ![a] = Row(e)], 0)
  BY <1>1, <1>4 DEF Result, Row, Made, State
<1> HIDE DEF State
<1> QED
  BY <1>5, <1>7, <1>8, <1>9, <1>10 DEF Acts, Performed

\* An action that is not executed is left in a new row.
LEMMA AsideShape ==
    ASSUME NEW c \in Cases, NEW h \in PaymentRow, NEW t \in ActionType, NEW verdict \in PolicyOutcome,
           verdict = PolicyVerdict(ContextFrom(h, cases[c].payment), t),
           ~(verdict = "APPROVED" /\ t \notin TerminalActions \cup {"RETRY_LATER"})
    PROVE  Aside(c, h, t, verdict, PutAside(c, t, verdict, h))
<1>1. CASE verdict = "APPROVED" /\ t = "RETRY_LATER"
  <2> DEFINE row == DeferredRetry(c)
  <2>1. /\ row \in ActionRow /\ row.case = c /\ row.type = t /\ row.status = "SCHEDULED"
        /\ row.status # Absent /\ ~row.executed /\ row.outcome = None /\ row.scheduled
        /\ RowVerdict(row) = "APPROVED" /\ row.wait = RetryDelay
    BY <1>1, ConstantsAssumption
       DEF DeferredRetry, Proposed, ActionRow, ActionType, ActionStatus, Outcome, RowVerdict, Absent
  <2>2. h.status \in Unsuccessful
    BY <1>1, ApprovedIsSafe DEF ContextFrom, TerminalActions
  <2>3. PutAside(c, t, verdict, h) = Result("SCHEDULED", h, [actions EXCEPT ![FreshAction] = row], 0)
    BY <1>1, Zenon DEF PutAside
  <2> HIDE DEF row
  <2>4. row.wait <= RetryDelay
    BY <2>1, ConstantsAssumption
  <2> QED
    BY <1>1, <2>1, <2>2, <2>3, <2>4 DEF Rests, CaseState, Aside
<1>2. CASE ~(verdict = "APPROVED" /\ t = "RETRY_LATER")
  <2> DEFINE row   == [Proposed(c, t) EXCEPT !.status = verdict]
             state == IF verdict = "BLOCKED" \/ (verdict = "APPROVED" /\ t = "STOP")
                      THEN "STOPPED" ELSE "ESCALATED"
  <2>1. /\ row \in ActionRow /\ row.case = c /\ row.type = t /\ row.status # Absent
        /\ ~row.executed /\ row.outcome = None /\ ~row.scheduled /\ RowVerdict(row) = verdict
        /\ row.status = verdict /\ row.wait = 0
    BY DEF PolicyOutcome, Proposed, ActionRow, ActionStatus, Outcome, RowVerdict, Absent
  <2>2. \/ verdict = "BLOCKED" \/ verdict = "ESCALATED"
        \/ verdict = "APPROVED" /\ t = "STOP"
        \/ verdict = "APPROVED" /\ t = "ESCALATE_HUMAN"
    <3>1. t \in TerminalActions => t = "STOP" \/ t = "ESCALATE_HUMAN"
      BY DEF TerminalActions
    <3>2. verdict = "APPROVED" => t \in TerminalActions
      BY <1>2
    <3>3. verdict \in {"APPROVED", "BLOCKED", "ESCALATED"}
      BY DEF PolicyOutcome
    <3> QED
      BY <3>1, <3>2, <3>3
  <2>3. PutAside(c, t, verdict, h) = Result(state, h, [actions EXCEPT ![FreshAction] = row], 0)
    BY <2>2 DEF PutAside
  <2>4. state \in {"STOPPED", "ESCALATED"} /\ state \in CaseState
    BY DEF CaseState
  <2>5. /\ verdict = "BLOCKED" => state = "STOPPED"
        /\ verdict = "ESCALATED" => state = "ESCALATED"
        /\ verdict \in {"BLOCKED", "ESCALATED"} \/ t \in TerminalActions
    BY <2>2 DEF TerminalActions
  <2> HIDE DEF row, state
  <2>6. row.wait <= RetryDelay
    BY <2>1, ConstantsAssumption
  <2> QED
    BY <2>1, <2>3, <2>4, <2>5, <2>6 DEF Rests, Aside
<1> QED
  BY <1>1, <1>2

\* Every workflow run has one of the three shapes: it writes the payment, the
\* case and one action row.
LEMMA RunWrites ==
    ASSUME AutopilotTypeOK, CaseInv, NEW c \in Cases, NEW h \in PaymentRow,
           NEW result \in RunResults(c, h), WorkflowRun(c, h, result)
    PROVE  /\ result.after \in PaymentRow
           /\ \E a \in Actions, row \in ActionRow :
                RunShape(c, h, a, row, result.state, result.after)
           /\ result.state \in CaseState
<1> USE DEF AutopilotTypeOK
<1> DEFINE p == cases[c].payment
           Fine(r) == /\ r.after \in PaymentRow /\ r.state \in CaseState
                      /\ \E a \in Actions, row \in ActionRow : RunShape(c, h, a, row, r.state, r.after)
<1>1. p \in Payments
  BY DEF TypeOK, CaseRow
<1>2. ASSUME NEW a \in Actions, NEW row, NEW state, NEW pay,
             result = Result(state, pay, [actions EXCEPT ![a] = row], 0)
      PROVE  Writes(c, h, a, row, result.state, result.after)
  <2>1. result.state = state /\ result.after = pay /\ result.ordered = 0
        /\ result.rows = [actions EXCEPT ![a] = row]
    BY <1>2 DEF Result
  <2>2. orders' = orders
    <3>1. orders[p] + 0 = orders[p]
      BY <1>1 DEF TypeOK
    <3> QED
      BY <2>1, <3>1 DEF WorkflowRun, TypeOK
  <2> QED
    BY <2>1, <2>2 DEF WorkflowRun, Writes
<1>3. CASE cases[c].state = "SCHEDULED"
  <2>1. PendingActions(c) # {}
    BY <1>3 DEF CaseInv, ScheduledCaseAwaitsOne
  <2>2. result \in Resume(c, h)
    BY <1>3 DEF RunResults
  <2>3. PICK a \in PendingActions(c) : result \in Perform(p, a, actions[a], h) /\ actions[a].wait = 0
    BY <2>1, <2>2 DEF Resume
  <2>4. a \in Actions /\ actions[a] \in ActionRow /\ actions[a].case = c /\ Pending(a)
    BY DEF PendingActions, TypeOK
  <2>5. PICK row \in ActionRow, state \in CaseState :
          /\ row.case = c /\ row.type = actions[a].type /\ row.status # Absent
          /\ row.scheduled = actions[a].scheduled /\ row.wait = actions[a].wait
          /\ Acts(c, h, row, state, result.after) /\ result.after \in PaymentRow
          /\ result = Result(state, result.after, [actions EXCEPT ![a] = row], 0)
    <3>1. Performed(c, h, a, actions[a], result)
      BY <2>3, <2>4, PerformShape
    <3> QED
      BY <2>4, <3>1 DEF Performed
  <2>6. Writes(c, h, a, row, result.state, result.after) /\ result.state = state
    BY <1>2, <2>4, <2>5 DEF Result
  <2>7. Resumed(c, a, row)
    BY <1>3, <2>3, <2>4, <2>5 DEF Resumed, Pending
  <2> QED
    BY <2>4, <2>5, <2>6, <2>7 DEF RunShape
<1>4. CASE cases[c].state # "SCHEDULED"
  <2> DEFINE t == EnginePick(p, ScoredContext(p, h))
             verdict == PolicyVerdict(ContextFrom(h, p), t)
             execute == verdict = "APPROVED" /\ t \notin TerminalActions \cup {"RETRY_LATER"}
  <2>1. cases[c].state \in {"DETECTED", "FAILED"} /\ result \in Cycle(c, h)
    BY <1>4 DEF RunResults
  <2>2. /\ SomeActionFree
        /\ result \in IF execute THEN Perform(p, FreshAction, Proposed(c, t), h)
                                 ELSE {PutAside(c, t, verdict, h)}
    BY <2>1 DEF Cycle
  <2>3. FreshAction \in Actions /\ ~Exists(FreshAction)
    BY <2>2, FreshActionIsFree
  <2>4. t \in ActionType /\ t \in CandidateActions(p, ContextFrom(h, p).reason)
    BY <1>1, PickIsACandidate
  <2>5. verdict \in PolicyOutcome
    BY DEF PolicyVerdict, PolicyOutcome
  <2>6. ASSUME NEW row, row.type = t, RowVerdict(row) = verdict
        PROVE  Chosen(c, h, FreshAction, row)
    BY <2>1, <2>3, <2>4, <2>6 DEF Chosen
  <2>7. CASE execute
    <3>1. /\ Proposed(c, t) \in ActionRow /\ Proposed(c, t).case = c /\ Proposed(c, t).type = t
          /\ Proposed(c, t).scheduled = FALSE /\ Proposed(c, t).wait = 0
      BY <2>4, ProposedType DEF Proposed
    <3>2. result \in Perform(p, FreshAction, Proposed(c, t), h)
      BY <2>2, <2>7
    <3> HIDE DEF t, verdict
    <3>3. PICK row \in ActionRow, state \in CaseState :
            /\ row.case = c /\ row.type = t /\ row.status # Absent
            /\ row.scheduled = FALSE /\ row.wait = 0
            /\ Acts(c, h, row, state, result.after) /\ result.after \in PaymentRow
            /\ result = Result(state, result.after, [actions EXCEPT ![FreshAction] = row], 0)
      <4>1. Performed(c, h, FreshAction, Proposed(c, t), result)
        BY <2>3, <3>1, <3>2, PerformShape
      <4> QED
        BY <3>1, <4>1 DEF Performed
    <3>4. Writes(c, h, FreshAction, row, result.state, result.after) /\ result.state = state
      BY <1>2, <2>3, <3>3 DEF Result
    <3>5. RowVerdict(row) = "APPROVED"
      BY <3>3 DEF Acts, RowVerdict
    <3>6. Chosen(c, h, FreshAction, row)
      BY <2>6, <2>7, <3>3, <3>5
    <3>7. h.status \in Unsuccessful /\ t \notin TerminalActions
      BY <2>7, ApprovedIsSafe DEF verdict, ContextFrom
    <3> QED
      BY <2>3, <3>3, <3>4, <3>6, <3>7 DEF RunShape
  <2>8. CASE ~execute
    <3>1. result = PutAside(c, t, verdict, h)
      BY <2>2, <2>8
    <3>2. PICK row \in ActionRow, state \in CaseState :
            /\ row.case = c /\ row.type = t /\ row.status # Absent /\ RowVerdict(row) = verdict
            /\ Rests(h, row, state, h)
            /\ result = Result(state, h, [actions EXCEPT ![FreshAction] = row], 0)
      <4>1. verdict = PolicyVerdict(ContextFrom(h, p), t)
        OBVIOUS
      <4> HIDE DEF t, verdict
      <4>2. Aside(c, h, t, verdict, result)
        BY <2>4, <2>5, <2>8, <3>1, <4>1, AsideShape
      <4> QED
        BY <4>2 DEF Aside
    <3> HIDE DEF t, verdict, execute
    <3>3. /\ Writes(c, h, FreshAction, row, result.state, result.after)
          /\ result.state = state /\ result.after = h
      BY <1>2, <2>3, <3>2 DEF Result
    <3>4. Chosen(c, h, FreshAction, row)
      BY <2>6, <3>2
    <3> QED
      BY <2>3, <3>2, <3>3, <3>4 DEF RunShape
  <2> QED
    BY <2>7, <2>8
<1> QED
  BY <1>3, <1>4

\* A flush takes the columns that changed and leaves the others.
LEMMA FlushedRow ==
    ASSUME NEW row \in PaymentRow, NEW before \in PaymentRow, NEW after \in PaymentRow
    PROVE  LET left == Flushed(row, before, after)
           IN  /\ left \in PaymentRow
               /\ left.status   = IF after.status = before.status THEN row.status ELSE after.status
               /\ left.reason   = IF after.reason = before.reason THEN row.reason ELSE after.reason
               /\ left.attempts = IF after.attempts = before.attempts THEN row.attempts
                                                                     ELSE after.attempts
               /\ row = before => left = after
               /\ before = after => left = row
<1> DEFINE left == Flushed(row, before, after)
<1>1. DOMAIN row = {"status", "reason", "attempts"}
  BY DEF PaymentRow
<1>2. /\ left.status   = IF after.status = before.status THEN row.status ELSE after.status
      /\ left.reason   = IF after.reason = before.reason THEN row.reason ELSE after.reason
      /\ left.attempts = IF after.attempts = before.attempts THEN row.attempts ELSE after.attempts
      /\ left = [status |-> left.status, reason |-> left.reason, attempts |-> left.attempts]
  BY <1>1 DEF Flushed
<1>3. left \in PaymentRow
  <2> HIDE DEF left
  <2>1. left.status \in PaymentStatus \cup {Absent} /\ left.reason \in FailureReason \cup {None}
        /\ left.attempts \in Nat
    BY <1>2 DEF PaymentRow
  <2> QED
    BY <1>2, <2>1 DEF PaymentRow
<1> HIDE DEF left
<1>4. row = before => left = after
  BY <1>2 DEF PaymentRow
<1>5. before = after => left = row
  BY <1>2 DEF PaymentRow
<1> QED
  BY <1>2, <1>3, <1>4, <1>5 DEF left

\* A run writes one payment, one case and one action.
LEMMA RunPointwise ==
    ASSUME TypeOK, NEW c \in Cases, NEW h \in PaymentRow, NEW a \in Actions, NEW row \in ActionRow,
           NEW state \in CaseState, NEW pay \in PaymentRow, RunShape(c, h, a, row, state, pay)
    PROVE  /\ cases'[c].state = state /\ state # Absent /\ cases'[c].payment = cases[c].payment
           /\ \A d \in Cases : d # c => cases'[d] = cases[d]
           /\ actions'[a] = row /\ Exists(a)'
           /\ \A b \in Actions : b # a => /\ actions'[b] = actions[b]
                                          /\ (Exists(b)' <=> Exists(b))
                                          /\ (Pending(b)' <=> Pending(b))
           /\ payments'[cases[c].payment] = Flushed(payments[cases[c].payment], h, pay)
           /\ \A q \in Payments : q # cases[c].payment => payments'[q] = payments[q]
           /\ cases[c].state \in {"DETECTED", "FAILED", "SCHEDULED"}
<1>1. Writes(c, h, a, row, state, pay) /\ row.status # Absent
  BY DEF RunShape
<1>2. cases[c] \in CaseRow /\ cases[c].payment \in Payments
  BY DEF TypeOK, CaseRow
<1>3. /\ cases'[c].state = state /\ cases'[c].payment = cases[c].payment
      /\ \A d \in Cases : d # c => cases'[d] = cases[d]
  BY <1>1, <1>2 DEF Writes, TypeOK, CaseRow
<1>4. state # Absent
  BY DEF CaseState, Absent
<1>5. /\ actions'[a] = row
      /\ \A b \in Actions : b # a => actions'[b] = actions[b]
  BY <1>1 DEF Writes, TypeOK
<1>6. \A b \in Actions : b # a => (Exists(b)' <=> Exists(b)) /\ (Pending(b)' <=> Pending(b))
  BY <1>5 DEF Exists, Pending
<1>7. /\ payments'[cases[c].payment] = Flushed(payments[cases[c].payment], h, pay)
      /\ \A q \in Payments : q # cases[c].payment => payments'[q] = payments[q]
  BY <1>1, <1>2 DEF Writes, TypeOK
<1>8. cases[c].state \in {"DETECTED", "FAILED", "SCHEDULED"}
  BY DEF RunShape, Chosen, Resumed
<1>9. Exists(a)'
  BY <1>1, <1>5 DEF Exists
<1> QED
  BY <1>3, <1>4, <1>5, <1>6, <1>7, <1>8, <1>9

\* What the run leaves of the payment: captured exactly when the case is
\* recovered, and unsuccessful as long as the case is open.
LEMMA RunLeaves ==
    ASSUME TypeOK, CaseInv, NEW c \in Cases, NEW h \in PaymentRow, Fits(c, h),
           NEW a \in Actions, NEW row \in ActionRow, NEW state \in CaseState,
           NEW pay \in PaymentRow, RunShape(c, h, a, row, state, pay)
    PROVE  /\ state \in {"STOPPED", "ESCALATED", "SCHEDULED", "RECOVERED", "FAILED"}
           /\ state = "RECOVERED" <=> row.outcome = "recovered"
           /\ state \in {"SCHEDULED", "FAILED"} =>
                payments'[cases[c].payment].status \in Unsuccessful
           /\ state = "RECOVERED" => payments'[cases[c].payment].status = "SUCCEEDED"
<1> DEFINE p == cases[c].payment
<1>1. p \in Payments /\ payments[p] \in PaymentRow
  BY DEF TypeOK, CaseRow
<1>2. payments'[p].status = IF pay.status = h.status THEN payments[p].status ELSE pay.status
  <2>1. payments'[p] = Flushed(payments[p], h, pay)
    BY RunPointwise
  <2> HIDE DEF p
  <2> QED
    BY <1>1, <2>1, FlushedRow
<1>3. Open(c) /\ (h.status \in Unsuccessful => payments[p].status \in Unsuccessful)
  BY DEF RunShape, Chosen, Resumed, Fits, Open, TerminalStates, Absent
<1>4. CASE Rests(h, row, state, pay)
  BY <1>2, <1>3, <1>4 DEF Rests, None
<1>5. CASE /\ Acts(c, h, row, state, pay)
           /\ h.status \in Unsuccessful \/ Resumed(c, a, row)
  <2>1. PICK ok \in BOOLEAN : Answered(c, h, ok, row, state, pay)
    BY <1>5 DEF Acts
  <2>2. payments[p].status \in Unsuccessful
    BY <1>3, <1>5 DEF Resumed, CaseInv, OpenCaseMatchesPayment
  <2>3. pay.status = IF ok THEN "SUCCEEDED" ELSE "FAILED"
    BY <2>1 DEF Answered, RecordRecoveryAttempt
  <2> HIDE DEF p
  <2>4. CASE ok /\ h.status # "SUCCEEDED"
    BY <1>2, <2>1, <2>3, <2>4 DEF Answered, p
  <2>5. CASE ~(ok /\ h.status # "SUCCEEDED")
    <3>1. payments'[p].status \in Unsuccessful
      BY <1>2, <2>2, <2>3, <2>5 DEF Unsuccessful
    <3> QED
      BY <2>1, <2>5, <3>1 DEF Answered, p
  <2> QED
    BY <2>4, <2>5
<1> QED
  BY <1>4, <1>5 DEF RunShape

(***************************************************************************)
(* Seeding.                                                                *)
(***************************************************************************)
\* A database that has just been seeded.
FreshlySeeded ==
    /\ seed \in [Payments -> AtRiskPayment]
    /\ payments = [p \in Payments |-> SeededPayment(seed[p])]
    /\ cases = SeededCases
    /\ actions = [a \in Actions |-> NoAction]

\* The rows seeding writes are rows of their tables.
LEMMA SeededTypes ==
    /\ \A s \in AtRiskPayment : /\ SeededPayment(s) \in PaymentRow
                                /\ SeededPayment(s).status \in Unsuccessful
    /\ SeededCases \in [Cases -> CaseRow]
    /\ NoAction \in ActionRow /\ NoAction.status = Absent
<1>1. ASSUME NEW s \in AtRiskPayment
      PROVE  SeededPayment(s) \in PaymentRow /\ SeededPayment(s).status \in Unsuccessful
  BY DEF AtRiskPayment, SeededPayment, PaymentRow, PaymentStatus, Unsuccessful
<1>2. SeededCases \in [Cases -> CaseRow]
  BY ConstantsAssumption, AutopilotAssumption DEF SeededCases, NoCase, CaseRow, CaseState
<1>3. NoAction \in ActionRow /\ NoAction.status = Absent
  BY ConstantsAssumption, ProposedType DEF NoAction, ActionRow, ActionType
<1> QED
  BY <1>1, <1>2, <1>3

\* Each payment has one case, nothing has been decided, and every payment still
\* has to be recovered.
LEMMA SeedingCaseInv == FreshlySeeded => CaseInv
<1> SUFFICES ASSUME FreshlySeeded PROVE CaseInv
  OBVIOUS
<1>1. \A a \in Actions : ~Exists(a) /\ ~Pending(a)
  BY SeededTypes DEF FreshlySeeded, Exists, Pending
<1>2. \A c \in Cases : /\ cases[c].state \in {"DETECTED", Absent}
                       /\ cases[c].state = "DETECTED" => cases[c].payment = c
  BY DEF FreshlySeeded, SeededCases, NoCase, Absent
<1>3. OneOpenCase
  BY <1>2 DEF OneOpenCase, Open
<1>4. ScheduledCaseAwaitsOne /\ RecoveredOnce
  BY <1>1, <1>2 DEF ScheduledCaseAwaitsOne, RecoveredOnce, Absent
<1>5. OpenCaseMatchesPayment
  BY <1>2 DEF OpenCaseMatchesPayment, Absent
<1> QED
  BY <1>3, <1>4, <1>5 DEF CaseInv

\* The same after the step that seeds again.
LEMMA ReseedingCaseInv == FreshlySeeded' => CaseInv'
  BY SeedingCaseInv, PTL

(***************************************************************************)
(* What a step of the demonstration does to the rows.                      *)
(***************************************************************************)
\* The batch goes on with the cases and the payment it has.
HeldKept == UNCHANGED todo /\ pilot'.held = pilot.held

\* A run of case c makes "pay" of the payment h it works on, which is what is
\* committed or, in a batch, the copy held.
Runs(c, h, pay) ==
    /\ \E result \in RunResults(c, h) : WorkflowRun(c, h, result) /\ pay = result.after
    /\ Fits(c, h)
    /\ \/ h = payments[cases[c].payment] /\ UNCHANGED batch
       \/ /\ Loaded /\ c = Current /\ h = pilot.held
          /\ UNCHANGED todo /\ pilot'.held = pay /\ pilot' # pilot
    /\ crossed' = IF h = payments[cases[c].payment] THEN crossed
                                                   ELSE crossed \cup {cases[c].payment}

\* Time passes, by one step or as far as the autopilot moves the clock.
Ticks ==
    /\ \A a \in Actions : \E w \in Nat : actions'[a] = [actions[a] EXCEPT !.wait = w]
    /\ actions' \in [Actions -> ActionRow]
    /\ UNCHANGED <<payments, cases, detecting, orders, world, diagnosed, disturbed, crossed>>
    /\ HeldKept

\* Only the batch moves on.
BatchMoves ==
    /\ UNCHANGED <<vars, world, diagnosed, disturbed, crossed>>
    /\ \/ LoadHead
       \/ HeldKept
       \/ pilot' = Idle /\ \A c \in todo' : c \in Cases /\ (c \in todo \/ Open(c))

RowStep ==
    \/ \E c \in Cases, h, pay \in PaymentRow : Runs(c, h, pay)
    \/ Ticks
    \/ \E p \in Payments : Disturb(p)
    \/ ResetDemo
    \/ SeedAgain
    \/ BatchMoves

\* A batch that has cases left works on one of them.
LEMMA CurrentIsACase ==
    ASSUME todo \subseteq Cases, todo # {}
    PROVE  Current \in Cases /\ Current \in todo
<1>1. todo \subseteq Nat
  BY AutopilotAssumption
<1> DEFINE less == {ss \in Nat \X Nat : ss[1] < ss[2]}
<1>2. IsWellFoundedOn(less, Nat)
  BY NatLessThanWellFounded, Zenon DEF OpToRel
<1>3. PICK x \in todo : \A y \in todo : ~ (<<y, x>> \in less)
  <2> HIDE DEF less
  <2> QED
    BY <1>1, <1>2, WFMin
<1>4. ASSUME NEW y \in todo PROVE x =< y
  <2>1. x \in Nat /\ y \in Nat
    BY <1>1
  <2>2. y < x => <<y, x>> \in less
    BY <2>1
  <2> HIDE DEF less
  <2> QED
    BY <1>3, <2>1, <2>2
<1> QED
  BY <1>4 DEF Current, Min

\* A run by hand reads the payment, and a batch has it.
LEMMA ManualRuns ==
    ASSUME AutopilotTypeOK, CaseInv, NEW c \in Cases, ManualRun(c)
    PROVE  \E h, pay \in PaymentRow : Runs(c, h, pay)
<1> DEFINE h == payments[cases[c].payment]
<1>1. h \in PaymentRow /\ Fits(c, h)
  BY DEF AutopilotTypeOK, TypeOK, CaseRow, Fits
<1>2. PICK result \in RunResults(c, h) : WorkflowRun(c, h, result)
  BY DEF ManualRun
<1> HIDE DEF h
<1>3. result.after \in PaymentRow
  BY <1>1, <1>2, RunWrites
<1>4. Runs(c, h, result.after)
  BY <1>1, <1>2 DEF Runs, ManualRun, h
<1> QED
  BY <1>1, <1>3, <1>4

\* A round of the batch runs its case, or finds that it has to wait.
LEMMA HeadRuns ==
    ASSUME AutopilotTypeOK, CaseInv, HeldFits, RunHead
    PROVE  /\ Current \in Cases /\ pilot'.runs = pilot.runs + 1 /\ UNCHANGED todo
           /\ pilot'.waiting <=> cases'[Current].state = "SCHEDULED"
           /\ \/ \E h, pay \in PaymentRow : Runs(Current, h, pay)
              \/ NotDue(Current) /\ BatchMoves
<1>1. Current \in Cases /\ Loaded
  BY CurrentIsACase DEF RunHead, Loaded, AutopilotTypeOK
<1> DEFINE h == pilot.held
<1>2. h \in PaymentRow /\ Fits(Current, h) /\ pilot.runs \in Nat
  BY <1>1 DEF AutopilotTypeOK, HeldFits, MaxRunsPerCase
<1>3. CASE NotDue(Current) /\ pilot' = [pilot EXCEPT !.runs = @ + 1, !.waiting = TRUE]
           /\ UNCHANGED <<vars, world, diagnosed, disturbed, crossed>>
  <2>1. /\ pilot'.held = pilot.held /\ UNCHANGED todo
        /\ pilot'.runs = pilot.runs + 1 /\ pilot'.waiting
    BY <1>3 DEF RunHead, AutopilotTypeOK
  <2>2. cases'[Current].state = "SCHEDULED"
    BY <1>3 DEF NotDue, vars
  <2> QED
    BY <1>1, <1>3, <2>1, <2>2 DEF BatchMoves, HeldKept
<1>4. CASE \E result \in RunResults(Current, pilot.held), p \in {cases[Current].payment} :
            /\ WorkflowRun(Current, pilot.held, result)
            /\ pilot' = [runs |-> pilot.runs + 1, waiting |-> result.state = "SCHEDULED",
                         held |-> result.after]
            /\ crossed' = IF pilot.held = payments[p] THEN crossed ELSE crossed \cup {p}
  <2> HIDE DEF h
  <2>1. PICK result \in RunResults(Current, h) :
            /\ WorkflowRun(Current, h, result)
            /\ pilot' = [runs |-> pilot.runs + 1, waiting |-> result.state = "SCHEDULED",
                         held |-> result.after]
            /\ crossed' = IF h = payments[cases[Current].payment] THEN crossed
                                                     ELSE crossed \cup {cases[Current].payment}
    BY <1>4 DEF h
  <2>2. result.after \in PaymentRow
    <3> HIDE DEF Current
    <3> QED
      BY <1>1, <1>2, <2>1, RunWrites
  <2>3. pilot'.held = result.after /\ pilot' # pilot
    <3>1. pilot'.runs = pilot.runs + 1
      BY <2>1
    <3> QED
      BY <1>2, <2>1, <3>1
  <2>4. UNCHANGED todo
    BY DEF RunHead
  <2>5. pilot'.waiting <=> cases'[Current].state = "SCHEDULED"
    <3>1. cases'[Current].state = result.state
      BY <1>1, <2>1 DEF WorkflowRun, AutopilotTypeOK, TypeOK, CaseRow
    <3> QED
      BY <2>1, <3>1
  <2>6. Runs(Current, h, result.after)
    BY <1>1, <1>2, <2>1, <2>3, <2>4 DEF Runs, h
  <2> QED
    BY <1>1, <1>2, <2>1, <2>2, <2>4, <2>5, <2>6
<1> QED
  BY <1>3, <1>4 DEF RunHead

\* Every step does one of a few things to the rows, whoever takes it.
LEMMA EveryStep ==
    ASSUME AutopilotTypeOK, CaseInv, HeldFits, [ANext]_avars
    PROVE  RowStep
<1>1. CASE \E limit \in Limits : StartBatch(limit)
  <2>1. PICK limit \in Limits : StartBatch(limit)
    BY <1>1
  <2>2. \A c \in todo' : c \in Cases /\ Open(c)
    BY <2>1 DEF StartBatch, PendingCases
  <2>3. UNCHANGED <<vars, world, diagnosed, disturbed, crossed>> /\ pilot' = Idle
    BY <2>1 DEF StartBatch
  <2> QED
    BY <2>2, <2>3 DEF RowStep, BatchMoves
<1>2. CASE RunHead
  BY <1>2, HeadRuns DEF RowStep
<1>3. CASE DriveClock
  <2>1. \A a \in Actions : /\ actions[a] \in ActionRow
                           /\ actions'[a] = [actions[a] EXCEPT !.wait =
                                IF @ > RetryDelay THEN @ - RetryDelay ELSE 0]
    BY <1>3 DEF DriveClock, AutopilotTypeOK, TypeOK
  <2>2. ASSUME NEW a \in Actions
        PROVE  \E w \in Nat : actions'[a] = [actions[a] EXCEPT !.wait = w]
    <3>1. actions[a].wait \in Nat
      BY <2>1 DEF ActionRow
    <3>2. (IF actions[a].wait > RetryDelay THEN actions[a].wait - RetryDelay ELSE 0) \in Nat
      BY <3>1, ConstantsAssumption
    <3> QED
      BY <2>1, <3>2
  <2>3. \A a \in Actions : actions'[a] \in ActionRow
    BY <2>1, <2>2 DEF ActionRow
  <2>4. actions' \in [Actions -> ActionRow]
    BY <1>3, <2>3 DEF DriveClock
  <2> QED
    BY <1>3, <2>2, <2>4 DEF DriveClock, RowStep, Ticks, HeldKept, AutopilotTypeOK
<1>4. CASE LoadHead \/ FinishHead \/ AbortBatch
  <2>1. CASE LoadHead
    BY <2>1 DEF LoadHead, RowStep, BatchMoves
  <2>2. CASE FinishHead \/ AbortBatch
    <3>1. pilot' = Idle /\ todo' \subseteq todo /\ todo \subseteq Cases
      BY <2>2 DEF FinishHead, AbortBatch, AutopilotTypeOK
    <3>2. UNCHANGED <<vars, world, diagnosed, disturbed, crossed>>
      BY <2>2 DEF FinishHead, AbortBatch
    <3> QED
      BY <3>1, <3>2 DEF RowStep, BatchMoves
  <2> QED
    BY <1>4, <2>1, <2>2
<1>5. CASE \E c \in Cases : ManualRun(c)
  BY <1>5, ManualRuns DEF RowStep
<1>6. CASE TimePasses
  <2>1. \A a \in Actions : /\ actions[a] \in ActionRow
                           /\ actions'[a] = IF actions[a].wait > 0
                                THEN [actions[a] EXCEPT !.wait = @ - 1] ELSE actions[a]
    BY <1>6 DEF TimePasses, AdvanceClock, AutopilotTypeOK, TypeOK
  <2>2. ASSUME NEW a \in Actions
        PROVE  \E w \in Nat : actions'[a] = [actions[a] EXCEPT !.wait = w]
    <3>1. actions[a].wait \in Nat /\ actions[a] = [actions[a] EXCEPT !.wait = actions[a].wait]
      BY <2>1 DEF ActionRow
    <3>2. actions[a].wait > 0 => actions[a].wait - 1 \in Nat
      BY <3>1
    <3> QED
      BY <2>1, <3>1, <3>2
  <2>3. \A a \in Actions : actions'[a] \in ActionRow
    BY <2>1, <2>2 DEF ActionRow
  <2>4. actions' \in [Actions -> ActionRow]
    BY <1>6, <2>3 DEF TimePasses, AdvanceClock
  <2> QED
    BY <1>6, <2>2, <2>4 DEF TimePasses, AdvanceClock, RowStep, Ticks, HeldKept, batch
<1>7. CASE \E p \in Outside : Disturb(p)
  BY <1>7, AutopilotAssumption DEF RowStep
<1>8. CASE ResetDemo \/ SeedAgain
  BY <1>8 DEF RowStep
<1>9. CASE UNCHANGED avars
  BY <1>9 DEF avars, batch, RowStep, BatchMoves, HeldKept
<1> QED
  BY <1>1, <1>2, <1>3, <1>4, <1>5, <1>6, <1>7, <1>8, <1>9 DEF ANext

PilotType == [runs : 0..MaxRunsPerCase, waiting : BOOLEAN, held : PaymentRow]

\* The batch keeps to existing case numbers and its loop to its limit.
LEMMA BatchType ==
    ASSUME AutopilotTypeOK, CaseInv, [ANext]_avars
    PROVE  todo' \subseteq Cases /\ pilot' \in PilotType
<1> USE DEF AutopilotTypeOK, PilotType
<1>1. ASSUME NEW limit \in Limits, StartBatch(limit)
      PROVE  todo' \subseteq Cases /\ pilot' = Idle
  BY <1>1 DEF StartBatch, PendingCases
<1>2. ASSUME RunHead
      PROVE  todo' = todo /\ pilot' \in PilotType
  <2>1. pilot.runs + 1 \in 0..MaxRunsPerCase
    BY <1>2 DEF RunHead, MaxRunsPerCase
  <2>2. Current \in Cases /\ pilot.held \in PaymentRow
    BY <1>2, CurrentIsACase DEF RunHead, Loaded
  <2>3. CASE \E result \in RunResults(Current, pilot.held) :
              /\ WorkflowRun(Current, pilot.held, result)
              /\ pilot' = [runs |-> pilot.runs + 1, waiting |-> result.state = "SCHEDULED",
                           held |-> result.after]
    <3>1. PICK result \in RunResults(Current, pilot.held) :
              /\ WorkflowRun(Current, pilot.held, result)
              /\ pilot' = [runs |-> pilot.runs + 1, waiting |-> result.state = "SCHEDULED",
                           held |-> result.after]
      BY <2>3
    <3>2. result.after \in PaymentRow
      <4> HIDE DEF Current
      <4> QED
        BY <2>2, <3>1, RunWrites
    <3>3. (result.state = "SCHEDULED") \in BOOLEAN
      OBVIOUS
    <3> QED
      BY <1>2, <2>1, <3>1, <3>2, <3>3 DEF RunHead
  <2>4. CASE pilot' = [pilot EXCEPT !.runs = @ + 1, !.waiting = TRUE]
    BY <1>2, <2>1, <2>4 DEF RunHead
  <2> QED
    BY <1>2, <2>3, <2>4 DEF RunHead
<1>3. Idle \in PilotType
  BY DEF Idle, MaxRunsPerCase, NoPayment, PaymentRow
<1>4. ASSUME DriveClock
      PROVE  todo' = todo /\ pilot' \in PilotType
  BY <1>4 DEF DriveClock
<1>7. ASSUME LoadHead
      PROVE  todo' = todo /\ pilot' \in PilotType
  <2>1. Current \in Cases
    BY <1>7, CurrentIsACase DEF LoadHead
  <2>2. payments[cases[Current].payment] \in PaymentRow
    BY <2>1 DEF TypeOK, CaseRow
  <2> QED
    BY <1>7, <2>2 DEF LoadHead
<1>5. ASSUME FinishHead \/ AbortBatch
      PROVE  todo' \subseteq todo /\ pilot' = Idle
  BY <1>5 DEF FinishHead, AbortBatch
<1>6. ASSUME \/ \E c \in Cases : ManualRun(c)
             \/ TimePasses
             \/ \E p \in Outside : Disturb(p)
             \/ ResetDemo \/ SeedAgain \/ UNCHANGED avars
      PROVE  UNCHANGED batch
  BY <1>6 DEF ManualRun, TimePasses, Disturb, ResetDemo, SeedAgain, avars, batch
<1> QED
  BY <1>1, <1>2, <1>3, <1>4, <1>5, <1>6, <1>7 DEF ANext, batch

(***************************************************************************)
(* Types and cases.                                                        *)
(***************************************************************************)
\* Runs write what RunShape says, and the diagnosis they are based on.
LEMMA RunIsShaped ==
    ASSUME AutopilotTypeOK, CaseInv, NEW c \in Cases, NEW h \in PaymentRow,
           NEW pay \in PaymentRow, Runs(c, h, pay)
    PROVE  /\ \E a \in Actions, row \in ActionRow, state \in CaseState :
                RunShape(c, h, a, row, state, pay)
           /\ UNCHANGED <<detecting, orders, seed, clock, disturbed>>
           /\ diagnosed' \in [Cases -> FailureReason \cup {None}]
           /\ cases[c].state = "SCHEDULED" => diagnosed'[c] = diagnosed[c]
           /\ cases[c].state # "SCHEDULED" =>
                diagnosed'[c] = ContextFrom(h, cases[c].payment).reason
           /\ \A d \in Cases : d # c => diagnosed'[d] = diagnosed[d]
<1>1. PICK result \in RunResults(c, h) : WorkflowRun(c, h, result) /\ pay = result.after
  BY DEF Runs
<1>2. /\ \E a \in Actions, row \in ActionRow : RunShape(c, h, a, row, result.state, pay)
      /\ result.state \in CaseState
  BY <1>1, RunWrites
<1>3. ContextFrom(h, cases[c].payment).reason \in FailureReason
  BY RowReason
<1>4. /\ diagnosed' = [diagnosed EXCEPT ![c] =
                       IF cases[c].state = "SCHEDULED" THEN @
                       ELSE ContextFrom(h, cases[c].payment).reason]
      /\ UNCHANGED <<detecting, seed, clock, disturbed>>
  BY <1>1 DEF WorkflowRun, world
<1>5. UNCHANGED orders
  BY <1>2 DEF RunShape, Writes
<1> QED
  BY <1>2, <1>3, <1>4, <1>5 DEF AutopilotTypeOK

\* A run leaves the tables in their types, and a case that agrees with its
\* payment and its actions.
LEMMA RunCaseInv ==
    ASSUME TypeOK, CaseInv, NEW c \in Cases, NEW h \in PaymentRow, Fits(c, h),
           NEW a \in Actions, NEW row \in ActionRow, NEW state \in CaseState,
           NEW pay \in PaymentRow, RunShape(c, h, a, row, state, pay)
    PROVE  TypeOK' /\ CaseInv'
<1> DEFINE p == cases[c].payment
<1>1. p \in Payments /\ payments[p] \in PaymentRow
  BY DEF TypeOK, CaseRow
<1>2. /\ cases'[c].state = state /\ cases'[c].payment = p
      /\ \A d \in Cases : d # c => cases'[d] = cases[d]
      /\ actions'[a] = row /\ row.case = c /\ Exists(a)'
      /\ \A b \in Actions : b # a => /\ actions'[b] = actions[b]
                                     /\ (Exists(b)' <=> Exists(b))
                                     /\ (Pending(b)' <=> Pending(b))
      /\ \A q \in Payments : q # p => payments'[q] = payments[q]
  BY RunPointwise DEF RunShape
<1>3. /\ state \in {"STOPPED", "ESCALATED", "SCHEDULED", "RECOVERED", "FAILED"}
      /\ state = "RECOVERED" <=> row.outcome = "recovered"
      /\ state \in {"SCHEDULED", "FAILED"} => payments'[p].status \in Unsuccessful
  BY RunLeaves
<1>4. Open(c)
  BY DEF RunShape, Chosen, Resumed, Open, TerminalStates, Absent
<1>5. Pending(a)' <=> state = "SCHEDULED"
  BY <1>2 DEF RunShape, Rests, Acts, Answered, Pending
<1>6. \A b \in Actions : b # a /\ Pending(b) => actions[b].case # c
  BY DEF RunShape, Chosen, Resumed, CaseInv, ScheduledCaseAwaitsOne
<1>7. \A b \in Actions : actions[b].case \in Cases
  BY DEF TypeOK, ActionRow
<1>8. TypeOK'
  <2>1. payments'[p] \in PaymentRow
    <3>1. payments'[p] = Flushed(payments[p], h, pay)
      BY RunPointwise
    <3> HIDE DEF p
    <3> QED
      BY <1>1, <3>1, FlushedRow
  <2>2. Writes(c, h, a, row, state, pay)
    BY DEF RunShape
  <2>3. payments' \in [Payments -> PaymentRow]
    <3>1. \A q \in Payments : payments'[q] \in PaymentRow
      BY <1>2, <2>1 DEF TypeOK
    <3>2. \E f : payments' = [payments EXCEPT ![p] = f]
      BY <2>2 DEF Writes
    <3>3. DOMAIN payments' = Payments /\ payments' = [q \in Payments |-> payments'[q]]
      BY <3>2 DEF TypeOK
    <3> QED
      BY <3>1, <3>3
  <2>4. cases' \in [Cases -> CaseRow] /\ actions' \in [Actions -> ActionRow]
    BY <2>2 DEF Writes, TypeOK, CaseRow
  <2> QED
    BY <2>2, <2>3, <2>4 DEF Writes, TypeOK
<1>9. OneOpenCase'
  BY <1>2, <1>4 DEF CaseInv, OneOpenCase, Open
<1>10. ScheduledCaseAwaitsOne'
  <2>1. \A d \in Cases : cases'[d].state = "SCHEDULED" => PendingActions(d)' # {}
    <3>1. state = "SCHEDULED" => a \in PendingActions(c)'
      BY <1>2, <1>5 DEF PendingActions
    <3>2. ASSUME NEW d \in Cases, d # c, cases'[d].state = "SCHEDULED"
          PROVE  PendingActions(d)' # {}
      <4>1. PICK b \in Actions : Pending(b) /\ actions[b].case = d
        BY <1>2, <3>2 DEF CaseInv, ScheduledCaseAwaitsOne, PendingActions
      <4>2. b # a
        BY <3>2, <4>1 DEF RunShape, Chosen, Resumed, Pending
      <4> QED
        BY <1>2, <4>1, <4>2 DEF PendingActions
    <3> QED
      BY <1>2, <3>1, <3>2
  <2>2. \A b \in Actions : Pending(b)' => cases'[actions'[b].case].state \in {"SCHEDULED", "RECOVERED"}
    BY <1>2, <1>5, <1>6, <1>7 DEF CaseInv, ScheduledCaseAwaitsOne
  <2>3. \A b, d \in Actions : Pending(b)' /\ Pending(d)' /\ actions'[b].case = actions'[d].case => b = d
    BY <1>2, <1>6 DEF CaseInv, ScheduledCaseAwaitsOne
  <2> QED
    BY <2>1, <2>2, <2>3 DEF ScheduledCaseAwaitsOne
<1>11. OpenCaseMatchesPayment'
  <2>1. \A d \in Cases : d # c /\ cases[d].state \in {"SCHEDULED", "FAILED"} =>
           cases[d].payment \in Payments /\ cases[d].payment # p
    BY <1>4 DEF CaseInv, OneOpenCase, Open, TerminalStates, Absent, TypeOK, CaseRow
  <2> QED
    BY <1>2, <1>3, <2>1 DEF CaseInv, OpenCaseMatchesPayment
<1>12. RecoveredOnce'
  <2>1. \A b \in Actions : Exists(b) /\ actions[b].outcome = "recovered" => actions[b].case # c
    BY <1>4 DEF CaseInv, RecoveredOnce, Open, TerminalStates
  <2> QED
    BY <1>2, <1>3, <1>7, <2>1 DEF CaseInv, RecoveredOnce
<1> QED
  BY <1>8, <1>9, <1>10, <1>11, <1>12 DEF CaseInv

\* Passing time changes nothing of an action but how long it has to wait.
LEMMA TickRows ==
    ASSUME TypeOK, Ticks, NEW a \in Actions
    PROVE  /\ actions'[a].status = actions[a].status
           /\ actions'[a].case = actions[a].case
           /\ actions'[a].type = actions[a].type
           /\ actions'[a].scheduled = actions[a].scheduled
           /\ actions'[a].executed = actions[a].executed
           /\ actions'[a].outcome = actions[a].outcome
           /\ (Exists(a)' <=> Exists(a)) /\ (Pending(a)' <=> Pending(a))
<1>1. PICK w \in Nat : actions'[a] = [actions[a] EXCEPT !.wait = w]
  BY DEF Ticks
<1>2. actions[a] \in ActionRow
  BY DEF TypeOK
<1> QED
  BY <1>1, <1>2 DEF ActionRow, Exists, Pending

\* Only rows the core knows come out of a step.
LEMMA StepRowTypes ==
    ASSUME AutopilotTypeOK, CaseInv, RowStep
    PROVE  TypeOK' /\ CaseInv'
<1> USE DEF AutopilotTypeOK
<1>1. ASSUME \/ \E p \in Payments : Disturb(p)
             \/ UNCHANGED vars
      PROVE  TypeOK' /\ CaseInv'
  <2>1. [Next]_vars
    BY <1>1 DEF Disturb, Next
  <2> QED
    BY <2>1, StepType, StepCaseInv DEF IInv
<1>2. ASSUME Ticks PROVE TypeOK' /\ CaseInv'
  <2>1. UNCHANGED <<payments, cases, detecting, orders>> /\ actions' \in [Actions -> ActionRow]
    BY <1>2 DEF Ticks
  <2>2. TypeOK'
    BY <2>1 DEF TypeOK
  <2>3. \A a \in Actions : /\ actions'[a].case = actions[a].case
                           /\ actions'[a].outcome = actions[a].outcome
                           /\ (Exists(a)' <=> Exists(a)) /\ (Pending(a)' <=> Pending(a))
    BY <1>2, TickRows
  <2>4. OneOpenCase' /\ OpenCaseMatchesPayment'
    BY <2>1 DEF CaseInv, OneOpenCase, OpenCaseMatchesPayment, Open
  <2>5. ScheduledCaseAwaitsOne'
    BY <2>1, <2>3 DEF CaseInv, ScheduledCaseAwaitsOne, PendingActions
  <2>6. RecoveredOnce'
    BY <2>1, <2>3 DEF CaseInv, RecoveredOnce
  <2> QED
    BY <2>2, <2>4, <2>5, <2>6 DEF CaseInv
<1>3. ASSUME ResetDemo PROVE TypeOK' /\ CaseInv'
  <2>1. FreshlySeeded' /\ UNCHANGED <<detecting, orders>>
    BY <1>3 DEF ResetDemo, FreshlySeeded, world
  <2>2. TypeOK'
    BY <2>1, SeededTypes DEF FreshlySeeded, TypeOK
  <2> QED
    BY <2>1, <2>2, ReseedingCaseInv
<1>4. ASSUME SeedAgain PROVE TypeOK' /\ CaseInv'
  <2>1. /\ UNCHANGED <<cases, actions, detecting, orders>>
        /\ payments' = [p \in Payments |-> SeededPayment(seed[p])]
    BY <1>4 DEF SeedAgain
  <2>2. \A p \in Payments : payments'[p] \in PaymentRow /\ payments'[p].status \in Unsuccessful
    BY <2>1, SeededTypes
  <2>3. TypeOK'
    BY <2>1, <2>2 DEF TypeOK
  <2>4. OpenCaseMatchesPayment'
    BY <2>1, <2>2 DEF OpenCaseMatchesPayment, TypeOK, CaseRow
  <2> QED
    BY <2>1, <2>3, <2>4, CasesUntouched
<1>5. ASSUME NEW c \in Cases, NEW h \in PaymentRow, NEW pay \in PaymentRow, Runs(c, h, pay)
      PROVE  TypeOK' /\ CaseInv'
  <2>1. PICK a \in Actions, row \in ActionRow, state \in CaseState :
          RunShape(c, h, a, row, state, pay)
    BY <1>5, RunIsShaped
  <2>2. Fits(c, h)
    BY <1>5 DEF Runs
  <2> QED
    BY <2>1, <2>2, RunCaseInv
<1> QED
  BY <1>1, <1>2, <1>3, <1>4, <1>5 DEF RowStep, BatchMoves

\* What is recorded next to the rows keeps its type.
LEMMA StepHistoryTypes ==
    ASSUME AutopilotTypeOK, CaseInv, RowStep
    PROVE  /\ UNCHANGED <<seed, clock>>
           /\ diagnosed' \in [Cases -> FailureReason \cup {None}]
           /\ disturbed' \subseteq Payments /\ crossed' \subseteq Payments
<1> USE DEF AutopilotTypeOK, world
<1>1. ASSUME NEW c \in Cases, NEW h \in PaymentRow, NEW pay \in PaymentRow, Runs(c, h, pay)
      PROVE  /\ UNCHANGED <<seed, clock, disturbed>> /\ crossed' \subseteq Payments
             /\ diagnosed' \in [Cases -> FailureReason \cup {None}]
  <2>1. cases[c].payment \in Payments
    BY DEF TypeOK, CaseRow
  <2> QED
    BY <1>1, <2>1, RunIsShaped DEF Runs
<1>2. ASSUME NEW p \in Payments, Disturb(p)
      PROVE  UNCHANGED <<world, diagnosed, crossed>> /\ disturbed' \subseteq Payments
  BY <1>2 DEF Disturb
<1>3. ASSUME ResetDemo
      PROVE  /\ UNCHANGED world /\ disturbed' \subseteq Payments /\ crossed' \subseteq Payments
             /\ diagnosed' \in [Cases -> FailureReason \cup {None}]
  BY <1>3 DEF ResetDemo
<1>4. ASSUME SeedAgain
      PROVE  UNCHANGED <<world, diagnosed, crossed>> /\ disturbed' \subseteq Payments
  BY <1>4 DEF SeedAgain
<1>5. ASSUME Ticks \/ BatchMoves
      PROVE  UNCHANGED <<world, diagnosed, disturbed, crossed>>
  BY <1>5 DEF Ticks, BatchMoves
<1> QED
  BY <1>1, <1>2, <1>3, <1>4, <1>5 DEF RowStep

\* The variables keep their types, and the cases agree with their payments and
\* actions, in every step of the demonstration.
LEMMA StepDemoTypes ==
    ASSUME AutopilotTypeOK, CaseInv, HeldFits, [ANext]_avars
    PROVE  AutopilotTypeOK' /\ CaseInv'
<1>1. RowStep
  BY EveryStep
<1>2. TypeOK' /\ CaseInv'
  BY <1>1, StepRowTypes
<1>3. /\ UNCHANGED <<seed, clock>>
      /\ diagnosed' \in [Cases -> FailureReason \cup {None}]
      /\ disturbed' \subseteq Payments /\ crossed' \subseteq Payments
  BY <1>1, StepHistoryTypes
<1>4. todo' \subseteq Cases /\ pilot' \in PilotType
  BY BatchType
<1> QED
  BY <1>2, <1>3, <1>4 DEF AutopilotTypeOK, PilotType

\* The same for the database the demonstration starts from.
LEMMA InitDemoTypes ==
    ASSUME AInit
    PROVE  AutopilotTypeOK /\ CaseInv /\ FreshlySeeded
<1>1. FreshlySeeded
  BY AutopilotAssumption DEF AInit, FreshlySeeded
<1>2. CaseInv
  BY <1>1, SeedingCaseInv
<1>3. TypeOK
  BY <1>1, SeededTypes DEF AInit, FreshlySeeded, TypeOK
<1>4. /\ seed \in [Payments -> AtRiskPayment] /\ clock \in Clocks
      /\ diagnosed \in [Cases -> FailureReason \cup {None}]
      /\ disturbed \subseteq Payments /\ todo \subseteq Cases /\ crossed \subseteq Payments
  BY <1>1 DEF AInit, FreshlySeeded
<1>5. pilot \in PilotType
  BY DEF AInit, Idle, MaxRunsPerCase, PilotType, NoPayment, PaymentRow
<1> QED
  BY <1>1, <1>2, <1>3, <1>4, <1>5 DEF AutopilotTypeOK, PilotType

(***************************************************************************)
(* Actions and their causes.                                               *)
(***************************************************************************)
\* A webhook, a detection or a lost request concerns one payment and its cases.
LEMMA DisturbPointwise ==
    ASSUME TypeOK, NEW p \in Payments, Disturb(p)
    PROVE  /\ UNCHANGED <<actions, diagnosed, seed, batch, crossed>> /\ disturbed' = disturbed \cup {p}
           /\ \A q \in Payments : q # p => payments'[q] = payments[q] /\ detecting'[q] = detecting[q]
           /\ \A d \in Cases : \/ cases'[d] = cases[d]
                               \/ /\ cases[d].state = Absent \/ cases[d].payment = p
                                  /\ cases'[d].payment = p /\ cases'[d].state # Absent
<1> USE DEF TypeOK
<1>1. UNCHANGED <<actions, diagnosed, seed, batch, crossed>> /\ disturbed' = disturbed \cup {p}
  BY DEF Disturb, world, PaymentFailedWebhook, CreatePayment, FailPayment, PaymentCapturedWebhook,
         DetectRisk, LoseRequest
<1>2. \A q \in Payments : q # p => payments'[q] = payments[q] /\ detecting'[q] = detecting[q]
  BY DEF Disturb, PaymentFailedWebhook, CreatePayment, FailPayment, PaymentCapturedWebhook,
         DetectRisk, LoseRequest
<1>3. ASSUME DetectRisk(p), NEW d \in Cases, cases'[d] # cases[d]
      PROVE  cases[d].state = Absent /\ cases'[d].payment = p /\ cases'[d].state # Absent
  BY <1>3, FreshCaseIsFree DEF DetectRisk, Absent
<1>4. ASSUME PaymentCapturedWebhook(p), NEW d \in Cases, cases'[d] # cases[d]
      PROVE  cases[d].payment = p /\ cases'[d].payment = p /\ cases'[d].state # Absent
  <2>1. PICK c \in OpenCases(p) : cases' = [cases EXCEPT ![c].state = "RECOVERED"]
    BY <1>4 DEF PaymentCapturedWebhook
  <2>2. d = c /\ cases[d].payment = p
    BY <1>4, <2>1 DEF OpenCases
  <2> QED
    BY <2>1, <2>2 DEF CaseRow, Absent
<1>5. \/ DetectRisk(p) \/ PaymentCapturedWebhook(p) \/ UNCHANGED cases
  BY DEF Disturb, PaymentFailedWebhook, CreatePayment, FailPayment, LoseRequest
<1> QED
  BY <1>1, <1>2, <1>3, <1>4, <1>5

\* No existing case disappears, but in a reset.
LEMMA CasesStay ==
    ASSUME AutopilotTypeOK, CaseInv, RowStep, ~ResetDemo, NEW d \in Cases, cases[d].state # Absent
    PROVE  cases'[d].state # Absent /\ cases'[d].payment = cases[d].payment
<1> USE DEF AutopilotTypeOK
<1>1. ASSUME NEW c \in Cases, NEW h \in PaymentRow, NEW pay \in PaymentRow, Runs(c, h, pay)
      PROVE  cases'[d].state # Absent /\ cases'[d].payment = cases[d].payment
  <2>1. PICK a \in Actions, row \in ActionRow, state \in CaseState :
          RunShape(c, h, a, row, state, pay)
    BY <1>1, RunIsShaped
  <2> QED
    BY <2>1, RunPointwise
<1>2. ASSUME NEW p \in Payments, Disturb(p)
      PROVE  cases'[d].state # Absent /\ cases'[d].payment = cases[d].payment
  BY <1>2, DisturbPointwise
<1>3. ASSUME Ticks \/ SeedAgain \/ BatchMoves PROVE UNCHANGED cases
  BY <1>3 DEF Ticks, SeedAgain, BatchMoves, vars
<1> QED
  BY <1>1, <1>2, <1>3 DEF RowStep

\* Every action keeps a case, and a row that waited says that it did.
LEMMA StepRowsKept ==
    ASSUME AutopilotTypeOK, CaseInv, RowsKept, RowStep
    PROVE  RowsKept'
<1> USE DEF AutopilotTypeOK
<1>1. \A p \in Payments : seed'[p] \in Seeds[p]
  BY StepHistoryTypes DEF RowsKept
<1> DEFINE Kept(a) == Exists(a) => /\ cases[actions[a].case].state # Absent
                                   /\ actions[a].scheduled =>
                                        actions[a].status \in {"SCHEDULED", "EXECUTED", "FAILED"}
<1>2. \A a \in Actions : Kept(a) /\ actions[a].case \in Cases
  BY DEF RowsKept, TypeOK, ActionRow
<1>3. ASSUME NEW c \in Cases, NEW h \in PaymentRow, NEW pay \in PaymentRow, Runs(c, h, pay),
             NEW b \in Actions
      PROVE  Kept(b)'
  <2>1. PICK a \in Actions, row \in ActionRow, state \in CaseState :
          RunShape(c, h, a, row, state, pay)
    BY <1>3, RunIsShaped
  <2>2. row.case = c /\ (row.scheduled => row.status \in {"SCHEDULED", "EXECUTED", "FAILED"})
    BY <2>1 DEF RunShape, Rests, Acts
  <2>3. CASE b = a
    BY <2>1, <2>2, <2>3, RunPointwise
  <2>4. CASE b # a
    <3>1. actions'[b] = actions[b] /\ (Exists(b)' <=> Exists(b))
      BY <2>1, <2>4, RunPointwise
    <3>2. cases[actions[b].case].state # Absent => cases'[actions[b].case].state # Absent
      BY <1>2, <2>1, RunPointwise
    <3> QED
      BY <1>2, <3>1, <3>2
  <2> QED
    BY <2>3, <2>4
<1>4. ASSUME NEW p \in Payments, Disturb(p), NEW b \in Actions PROVE Kept(b)'
  <2>1. UNCHANGED actions
    BY <1>4, DisturbPointwise
  <2>2. cases[actions[b].case].state # Absent => cases'[actions[b].case].state # Absent
    BY <1>2, <1>4, DisturbPointwise
  <2> QED
    BY <1>2, <2>1, <2>2 DEF Exists
<1>5. ASSUME Ticks, NEW b \in Actions PROVE Kept(b)'
  BY <1>2, <1>5, TickRows DEF Ticks
<1>6. ASSUME ResetDemo, NEW b \in Actions PROVE Kept(b)'
  BY <1>6, SeededTypes DEF ResetDemo, Exists
<1>7. ASSUME SeedAgain \/ BatchMoves, NEW b \in Actions PROVE Kept(b)'
  BY <1>2, <1>7 DEF SeedAgain, BatchMoves, vars, Exists
<1>8. \A b \in Actions : Kept(b)'
  BY <1>3, <1>4, <1>5, <1>6, <1>7 DEF RowStep
<1> QED
  BY <1>1, <1>8 DEF RowsKept

\* A case keeps the cause its actions were chosen for while one of them waits
\* and once one of them recovered it.
LEMMA StepCausesKept ==
    ASSUME AutopilotTypeOK, CaseInv, CausesKept, RowStep
    PROVE  CausesKept'
<1> USE DEF AutopilotTypeOK
<1> DEFINE Kept(a) == Exists(a) =>
             /\ diagnosed[actions[a].case] # None
             /\ Pending(a) \/ actions[a].outcome = "recovered" =>
                  actions[a].type \in CandidatesByReason[diagnosed[actions[a].case]]
<1>1. \A a \in Actions : Kept(a) /\ actions[a].case \in Cases
  BY DEF CausesKept, TypeOK, ActionRow
<1>2. ASSUME NEW c \in Cases, NEW h \in PaymentRow, NEW pay \in PaymentRow, Runs(c, h, pay),
             NEW b \in Actions
      PROVE  Kept(b)'
  <2>1. PICK a \in Actions, row \in ActionRow, state \in CaseState :
          RunShape(c, h, a, row, state, pay)
    BY <1>2, RunIsShaped
  <2>2. /\ actions'[a] = row /\ row.case = c
        /\ \A d \in Actions : d # a => /\ actions'[d] = actions[d] /\ (Exists(d)' <=> Exists(d))
                                       /\ (Pending(d)' <=> Pending(d))
        /\ cases[c].state \in {"DETECTED", "FAILED", "SCHEDULED"}
    BY <2>1, RunPointwise DEF RunShape
  <2>3. Chosen(c, h, a, row) \/ Resumed(c, a, row)
    BY <2>1 DEF RunShape
  <2>5. diagnosed'[c] # None /\ row.type \in CandidatesByReason[diagnosed'[c]]
    <3>1. CASE Chosen(c, h, a, row)
      <4>1. diagnosed'[c] = ContextFrom(h, cases[c].payment).reason
        BY <1>2, <3>1, RunIsShaped DEF Chosen
      <4> QED
        BY <3>1, <4>1, RowReason DEF Chosen, CandidateActions
    <3>2. CASE Resumed(c, a, row)
      <4>1. diagnosed'[c] = diagnosed[c]
        BY <1>2, <3>2, RunIsShaped DEF Resumed
      <4>2. Exists(a) /\ Pending(a) /\ actions[a].case = c /\ row.type = actions[a].type
        BY <3>2 DEF Resumed, Pending
      <4> QED
        BY <1>1, <4>1, <4>2
    <3> QED
      BY <2>3, <3>1, <3>2
  <2>6. CASE b = a
    BY <2>2, <2>5, <2>6
  <2>7. CASE b # a /\ actions[b].case # c
    <3>1. diagnosed'[actions[b].case] = diagnosed[actions[b].case]
      BY <1>1, <1>2, <2>7, RunIsShaped
    <3> QED
      BY <1>1, <2>2, <2>7, <3>1
  <2>8. CASE b # a /\ actions[b].case = c
    <3>1. Exists(b) => actions[b].outcome # "recovered"
      BY <2>2, <2>8 DEF CaseInv, RecoveredOnce
    <3>2. ~Pending(b)
      BY <2>2, <2>3, <2>8 DEF CaseInv, ScheduledCaseAwaitsOne, Chosen, Resumed
    <3> QED
      BY <2>2, <2>5, <2>8, <3>1, <3>2
  <2> QED
    BY <2>6, <2>7, <2>8
<1>3. ASSUME UNCHANGED <<actions, diagnosed>>, NEW b \in Actions PROVE Kept(b)'
  BY <1>1, <1>3 DEF Exists, Pending
<1>4. ASSUME Ticks, NEW b \in Actions PROVE Kept(b)'
  <2>1. UNCHANGED diagnosed
    BY <1>4 DEF Ticks
  <2>2. /\ actions'[b].case = actions[b].case /\ actions'[b].type = actions[b].type
        /\ actions'[b].outcome = actions[b].outcome
        /\ (Exists(b)' <=> Exists(b)) /\ (Pending(b)' <=> Pending(b))
    BY <1>4, TickRows
  <2> QED
    BY <1>1, <2>1, <2>2
<1>5. ASSUME ResetDemo, NEW b \in Actions PROVE Kept(b)'
  BY <1>5, SeededTypes DEF ResetDemo, Exists
<1>6. ASSUME \/ \E p \in Payments : Disturb(p)
             \/ SeedAgain \/ BatchMoves
      PROVE  UNCHANGED <<actions, diagnosed>>
  BY <1>6, DisturbPointwise DEF SeedAgain, BatchMoves, vars
<1>7. \A b \in Actions : Kept(b)'
  BY <1>2, <1>3, <1>4, <1>5, <1>6 DEF RowStep
<1> QED
  BY <1>7 DEF CausesKept

\* No figure of an action that stays is taken back by a step.
LEMMA FiguresStep ==
    ASSUME AutopilotTypeOK, CaseInv, RowsKept, CausesKept, RowStep,
           NEW b \in Actions, Exists(b), Exists(b)'
    PROVE  /\ PolicyOutcomeOf(b)' = PolicyOutcomeOf(b)
           /\ actions[b].executed => actions'[b].executed /\ actions'[b].outcome = actions[b].outcome
           /\ actions[b].outcome = "recovered" =>
                ResolveFailureReason(actions[b].case)' = ResolveFailureReason(actions[b].case)
<1> USE DEF AutopilotTypeOK
<1> DEFINE Grown == /\ actions'[b].case = actions[b].case
                    /\ PolicyOutcomeOf(b)' = PolicyOutcomeOf(b)
                    /\ actions[b].executed =>
                         actions'[b].executed /\ actions'[b].outcome = actions[b].outcome
                    /\ actions[b].outcome = "recovered" =>
                         diagnosed'[actions[b].case] = diagnosed[actions[b].case]
<1>1. ASSUME NEW c \in Cases, NEW h \in PaymentRow, NEW pay \in PaymentRow, Runs(c, h, pay)
      PROVE  Grown
  <2>1. PICK a \in Actions, row \in ActionRow, state \in CaseState :
          RunShape(c, h, a, row, state, pay)
    BY <1>1, RunIsShaped
  <2>2. /\ actions'[a] = row /\ row.case = c
        /\ \A d \in Actions : d # a => actions'[d] = actions[d]
        /\ cases[c].state \in {"DETECTED", "FAILED", "SCHEDULED"}
    BY <2>1, RunPointwise DEF RunShape
  <2>3. actions[b].outcome = "recovered" => actions[b].case # c /\ actions[b].case \in Cases
    BY <2>2 DEF CaseInv, RecoveredOnce, TypeOK, ActionRow
  <2>4. actions[b].outcome = "recovered" => diagnosed'[actions[b].case] = diagnosed[actions[b].case]
    BY <1>1, <2>3, RunIsShaped
  <2>5. CASE b = a
    <3>1. Resumed(c, a, row) /\ Acts(c, h, row, state, pay)
      BY <2>1, <2>5 DEF RunShape, Chosen
    <3>2. Pending(a) /\ actions[a].case = c /\ ~actions[a].executed
      BY <3>1 DEF Resumed, Pending
    <3>3. actions[a].status \in {"SCHEDULED", "EXECUTED", "FAILED"}
      BY <3>2 DEF RowsKept, Pending
    <3>4. actions'[a].status \in {"EXECUTED", "FAILED"}
      BY <2>2, <3>1 DEF Acts
    <3> QED
      BY <2>2, <2>4, <2>5, <3>2, <3>3, <3>4 DEF PolicyOutcomeOf
  <2>6. CASE b # a
    BY <2>2, <2>4, <2>6 DEF PolicyOutcomeOf
  <2> QED
    BY <2>5, <2>6
<1>2. ASSUME UNCHANGED <<actions, diagnosed>> PROVE Grown
  BY <1>2 DEF PolicyOutcomeOf
<1>3. ASSUME Ticks PROVE Grown
  BY <1>3, TickRows DEF Ticks, PolicyOutcomeOf
<1>4. ~ResetDemo
  BY SeededTypes DEF ResetDemo, Exists
<1>5. ASSUME \/ \E p \in Payments : Disturb(p)
             \/ SeedAgain \/ BatchMoves
      PROVE  UNCHANGED <<actions, diagnosed>>
  BY <1>5, DisturbPointwise DEF SeedAgain, BatchMoves, vars
<1>6. Grown
  BY <1>1, <1>2, <1>3, <1>4, <1>5 DEF RowStep
<1>7. diagnosed[actions[b].case] # None
  BY DEF CausesKept
<1> QED
  BY <1>6, <1>7 DEF ResolveFailureReason

(***************************************************************************)
(* The payment a batch holds.                                              *)
(***************************************************************************)
\* What is reported of a payment either fails it or closes its open case.
LEMMA DisturbFits ==
    ASSUME TypeOK, CaseInv, NEW p \in Payments, Disturb(p), NEW d \in Cases, cases[d].state # Absent
    PROVE  /\ cases'[d].payment = cases[d].payment
           /\ Open(d)' => /\ Open(d)
                          /\ \/ payments'[cases[d].payment] = payments[cases[d].payment]
                             \/ payments'[cases[d].payment].status \in Unsuccessful
<1> USE DEF TypeOK
<1>1. cases'[d].payment = cases[d].payment
  BY DisturbPointwise
<1>2. cases[d].payment \in Payments
  BY DEF CaseRow
<1>3. ASSUME NEW reason, PaymentFailedWebhook(p, reason)
      PROVE  UNCHANGED cases /\ payments'[p].status \in Unsuccessful
  BY <1>3 DEF PaymentFailedWebhook, CreatePayment, FailPayment, Unsuccessful
<1>4. ASSUME PaymentCapturedWebhook(p), Open(d)'
      PROVE  Open(d) /\ cases[d].payment # p
  <2>1. CASE OpenCases(p) = {}
    BY <1>4, <2>1 DEF PaymentCapturedWebhook, OpenCases, Open
  <2>2. CASE OpenCases(p) # {}
    <3>1. PICK c \in OpenCases(p) : cases' = [cases EXCEPT ![c].state = "RECOVERED"]
      BY <1>4, <2>2 DEF PaymentCapturedWebhook
    <3>2. d # c /\ cases'[d] = cases[d] /\ Open(d)
      BY <1>4, <3>1 DEF OpenCases, Open, TerminalStates, CaseRow
    <3> QED
      BY <3>1, <3>2 DEF OpenCases, CaseInv, OneOpenCase
  <2> QED
    BY <2>1, <2>2
<1>5. ASSUME DetectRisk(p) \/ LoseRequest(p), Open(d)'
      PROVE  Open(d) /\ UNCHANGED payments
  <2>1. cases'[d] = cases[d] \/ cases[d].state = Absent
    BY <1>5, FreshCaseIsFree DEF DetectRisk, LoseRequest
  <2> QED
    BY <1>5, <2>1 DEF DetectRisk, LoseRequest, Open
<1>6. \A q \in Payments : q # p => payments'[q] = payments[q]
  BY DisturbPointwise
<1>7. CASE \E reason \in IngestReasons : PaymentFailedWebhook(p, reason)
  BY <1>1, <1>2, <1>3, <1>6, <1>7 DEF Open
<1> QED
  BY <1>1, <1>2, <1>4, <1>5, <1>6, <1>7 DEF Disturb

\* A run never leaves another open case on its payment.
LEMMA OtherCaseFits ==
    ASSUME TypeOK, CaseInv, NEW c \in Cases, NEW h \in PaymentRow,
           NEW a \in Actions, NEW row \in ActionRow, NEW state \in CaseState,
           NEW pay \in PaymentRow, RunShape(c, h, a, row, state, pay), NEW d \in Cases \ {c}
    PROVE  /\ cases'[d] = cases[d]
           /\ Open(d) => payments'[cases[d].payment] = payments[cases[d].payment]
<1>1. Open(c)
  BY DEF RunShape, Chosen, Resumed, Open, TerminalStates, Absent
<1>2. cases'[d] = cases[d]
  BY RunPointwise
<1>3. Open(d) => cases[d].payment \in Payments /\ cases[d].payment # cases[c].payment
  BY <1>1 DEF CaseInv, OneOpenCase, TypeOK, CaseRow
<1> QED
  BY <1>2, <1>3, RunPointwise

\* The payment a batch holds fits the case it works on, whatever happens around it.
LEMMA StepHeldFits ==
    ASSUME AutopilotTypeOK, CaseInv, HeldFits, RowStep
    PROVE  HeldFits'
<1> USE DEF AutopilotTypeOK
<1> DEFINE Stay(c) == cases'[c].state # Absent
<1>1. ASSUME ~ResetDemo PROVE \A c \in todo : Stay(c) /\ cases'[c].payment = cases[c].payment
  BY <1>1, CasesStay DEF HeldFits
<1>2. ASSUME HeldKept
      PROVE  (Loaded' <=> Loaded) /\ Current' = Current /\ todo' = todo
  BY <1>2 DEF HeldKept, Loaded, Current
<1>3. ASSUME Loaded PROVE Current \in Cases /\ Current \in todo
  BY <1>3, CurrentIsACase DEF Loaded
<1>4. ASSUME NEW c \in Cases, NEW h \in PaymentRow, NEW pay \in PaymentRow, Runs(c, h, pay)
      PROVE  HeldFits'
  <2>1. PICK a \in Actions, row \in ActionRow, state \in CaseState : RunShape(c, h, a, row, state, pay)
    BY <1>4, RunIsShaped
  <2>2. todo' = todo /\ Current' = Current
    BY <1>4 DEF Runs, batch, Current
  <2>3. ASSUME NEW d \in Cases, d = c PROVE Fits(d, pilot.held)'
    <3>1. cases'[c].state = state /\ cases'[c].payment = cases[c].payment
      BY <2>1, RunPointwise
    <3>2. Open(c)' => state \in {"SCHEDULED", "FAILED"}
      BY <1>4, <2>1, <3>1, RunLeaves DEF Runs, Open, TerminalStates
    <3>3. state \in {"SCHEDULED", "FAILED"} => payments'[cases[c].payment].status \in Unsuccessful
      BY <1>4, <2>1, RunLeaves DEF Runs
    <3> QED
      BY <2>3, <3>1, <3>2, <3>3 DEF Fits
  <2>4. ASSUME NEW d \in Cases, d = Current, d # c, Loaded' PROVE Fits(d, pilot.held)'
    <3>1. UNCHANGED batch
      BY <1>4, <2>4 DEF Runs
    <3>2. Loaded /\ Fits(d, pilot.held)
      BY <2>4, <3>1 DEF HeldFits, Loaded, batch
    <3>3. cases'[d] = cases[d] /\ (Open(d) => payments'[cases[d].payment] = payments[cases[d].payment])
      BY <2>1, <2>4, OtherCaseFits
    <3> QED
      BY <3>1, <3>2, <3>3 DEF Fits, Open, batch
  <2>5. Loaded' => Current \in Cases /\ Current' = Current
    BY <2>2, CurrentIsACase DEF Loaded
  <2>6. Loaded' => Fits(Current, pilot.held)'
    <3> SUFFICES ASSUME Loaded' PROVE Fits(Current, pilot.held)'
      OBVIOUS
    <3>1. PICK d \in Cases : d = Current /\ Current' = d
      BY <2>5
    <3>2. Fits(d, pilot.held)'
      BY <2>3, <2>4, <3>1
    <3> QED
      BY <3>1, <3>2 DEF Fits, Open
  <2>7. ~ResetDemo \/ todo = {}
    BY DEF ResetDemo
  <2> QED
    BY <1>1, <2>2, <2>6, <2>7 DEF HeldFits
<1>5. ASSUME NEW p \in Payments, Disturb(p) PROVE HeldFits'
  <2>1. UNCHANGED batch
    BY <1>5, DisturbPointwise
  <2>2. HeldKept
    BY <2>1 DEF batch, HeldKept
  <2>3. \A c \in todo' : Stay(c)
    BY <1>1, <2>1 DEF ResetDemo, batch
  <2>4. Loaded' => Fits(Current, pilot.held)'
    <3> SUFFICES ASSUME Loaded' PROVE Fits(Current, pilot.held)'
      OBVIOUS
    <3>1. PICK d \in Cases : /\ d = Current /\ Current' = d
                             /\ cases[d].state # Absent /\ Fits(d, pilot.held)
      BY <1>2, <1>3, <2>2 DEF HeldFits
    <3>3. pilot'.held = pilot.held
      BY <2>2 DEF HeldKept
    <3>4. Open(d)' => Open(d) /\ cases'[d].payment = cases[d].payment
                       /\ (\/ payments'[cases[d].payment] = payments[cases[d].payment]
                           \/ payments'[cases[d].payment].status \in Unsuccessful)
      BY <1>5, <3>1, DisturbFits
    <3> QED
      BY <3>1, <3>3, <3>4 DEF Fits, Open
  <2> QED
    BY <2>3, <2>4 DEF HeldFits
<1>6. ASSUME Ticks PROVE HeldFits'
  <2>1. HeldKept /\ UNCHANGED <<payments, cases>>
    BY <1>6 DEF Ticks
  <2> QED
    BY <1>2, <2>1 DEF HeldFits, HeldKept, Fits, Open
<1>7. ASSUME ResetDemo PROVE HeldFits'
  BY <1>7 DEF ResetDemo, batch, HeldFits, Loaded
<1>8. ASSUME SeedAgain PROVE HeldFits'
  <2>1. UNCHANGED <<cases, batch>> /\ payments' = [p \in Payments |-> SeededPayment(seed[p])]
    BY <1>8 DEF SeedAgain
  <2>2. \A p \in Payments : payments'[p].status \in Unsuccessful
    BY <2>1, SeededTypes
  <2>3. HeldKept
    BY <2>1 DEF HeldKept, batch
  <2>4. Loaded' => cases'[Current].payment \in Payments
    BY <1>2, <1>3, <2>1, <2>3 DEF TypeOK, CaseRow
  <2> QED
    BY <1>2, <2>1, <2>2, <2>3, <2>4 DEF HeldFits, Fits
<1>9. ASSUME BatchMoves PROVE HeldFits'
  <2>1. UNCHANGED <<payments, cases>>
    BY <1>9 DEF BatchMoves, vars
  <2>2. CASE LoadHead
    <3>1. todo' = todo /\ Current' = Current /\ pilot'.held = payments[cases[Current].payment]
      BY <2>2 DEF LoadHead, Current
    <3> QED
      BY <2>1, <3>1 DEF HeldFits, Fits
  <2>3. CASE HeldKept
    BY <1>2, <2>1, <2>3 DEF HeldFits, HeldKept, Fits, Open
  <2>4. CASE pilot' = Idle /\ \A c \in todo' : c \in Cases /\ (c \in todo \/ Open(c))
    <3>1. ~Loaded'
      BY <2>4 DEF Idle, Loaded
    <3> QED
      BY <2>1, <2>4, <3>1 DEF HeldFits, Open
  <2> QED
    BY <1>9, <2>2, <2>3, <2>4 DEF BatchMoves
<1> QED
  BY <1>4, <1>5, <1>6, <1>7, <1>8, <1>9 DEF RowStep

(***************************************************************************)
(* Payments only runs have touched.                                        *)
(***************************************************************************)
\* The selection reads nothing of a context but the cause, the attempts, the
\* amount, the customer and what was tried before.
LEMMA SelectionReads ==
    ASSUME NEW u, NEW v, NEW S, NEW economy, NEW allow,
           u.reason = v.reason, u.attempts = v.attempts, u.amount = v.amount, u.rate = v.rate,
           u.subscriber = v.subscriber, u.failed = v.failed, u.succeeded = v.succeeded
    PROVE  SelectedAction(u, S, economy, allow) = SelectedAction(v, S, economy, allow)
<1>1. \A t : Probability(u, t) = Probability(v, t)
  BY DEF Probability, CustomerFactor, HistoryFactor
<1>2. \A t : Valuation(u, t, economy) = Valuation(v, t, economy)
  BY <1>1 DEF Valuation
<1>3. {Valuation(u, t, economy) : t \in S} = {Valuation(v, t, economy) : t \in S}
  BY <1>2
<1>4. Best(u, S, economy) = Best(v, S, economy)
  BY <1>3 DEF Best
<1> QED
  BY <1>4 DEF SelectedAction

\* The gate reads nothing but whether the payment is unsuccessful, the cause, the
\* two counts and whether the amount is high.
LEMMA VerdictReads ==
    ASSUME NEW u, NEW v, NEW t, u.status \in Unsuccessful, v.status \in Unsuccessful,
           u.reason = v.reason, u.attempts = v.attempts, u.failures = v.failures,
           u.highValue <=> v.highValue
    PROVE  PolicyVerdict(u, t) = PolicyVerdict(v, t)
<1>1. Blocking(u, t) <=> Blocking(v, t)
  BY DEF Blocking, InvalidPaymentState, UnsupportedAction, RetryLimitReached,
         RecoveryBudgetExhausted, RepeatedFailures
<1>2. Escalating(u, t) <=> Escalating(v, t)
  BY DEF Escalating, UnknownFailure, HighValueTransaction
<1> QED
  BY <1>1, <1>2 DEF PolicyVerdict

\* A run of such a payment works with the cause it was seeded with.
LEMMA SeededCause ==
    ASSUME AutopilotTypeOK, NEW q \in Payments, NEW h, h.reason = seed[q].reason
    PROVE  ContextFrom(h, q).reason = seed[q].reason /\ seed[q].reason # None
<1>1. seed[q].reason \in FailureReason
  BY DEF AutopilotTypeOK, AtRiskPayment
<1>2. seed[q].reason # None
  BY <1>1 DEF FailureReason, None
<1> QED
  BY <1>2 DEF ContextFrom

\* What is executed for a case is finite.
LEMMA ExecutedIsFinite ==
    ASSUME NEW q
    PROVE  IsFiniteSet(ExecutedFor(q)) /\ Cardinality(ExecutedFor(q)) \in Nat
<1>1. IsFiniteSet(ExecutedFor(q))
  BY ConstantsAssumption, FS_Subset DEF ExecutedFor
<1> QED
  BY <1>1, FS_CardinalityType

\* Its first run sees the context it was detected with.
LEMMA BeforeFirst ==
    ASSUME AutopilotTypeOK, RowsKept, NEW q \in Payments, SeededRow(q),
           NEW h \in PaymentRow, SeededCopy(h, q),
           \A a \in Actions : Exists(a) => actions[a].case # q
    PROVE  /\ EnginePick(q, ScoredContext(q, h)) = Choose("Paychecker", SeedContext(seed[q]))
           /\ \A t : PolicyVerdict(ContextFrom(h, q), t) = PolicyVerdict(SeedContext(seed[q]), t)
<1>1. h = SeededPayment(seed[q]) /\ seed[q] \in AtRiskPayment /\ seed[q] \in Seeds[q]
  BY DEF SeededCopy, ExecutedFor, AutopilotTypeOK, RowsKept
<1>2. h.reason = seed[q].reason /\ h.attempts = seed[q].attempts /\ h.status \in Unsuccessful
  BY <1>1 DEF SeededPayment, AtRiskPayment
<1>3. ContextFrom(h, q).reason = seed[q].reason
  BY <1>2, SeededCause
<1>4. \A a \in Actions : Exists(a) => PaymentOf(a) # q
  BY DEF SeededRow, RowsKept, AutopilotTypeOK, TypeOK, ActionRow, PaymentOf
<1>5. Failures(q) = {} /\ \A outcome : TypesWith(q, outcome) = {}
  BY <1>4 DEF Failures, TypesWith
<1>6. CandidateActions(q, seed[q].reason) = CandidatesByReason[seed[q].reason]
  BY <1>5 DEF CandidateActions
<1>7. Cardinality(Failures(q)) = 0
  BY <1>5, FS_EmptySet
<1> DEFINE u == ScoredContext(q, h)
           v == SeedContext(seed[q])
<1>8. /\ u.reason = v.reason /\ u.attempts = v.attempts /\ u.amount = v.amount /\ u.rate = v.rate
      /\ u.subscriber = v.subscriber /\ u.failed = v.failed /\ u.succeeded = v.succeeded
      /\ u.reason = seed[q].reason /\ v.reason = seed[q].reason
  BY <1>2, <1>3, <1>5 DEF ScoredContext, SeedContext
<1>9. EnginePick(q, u) = SelectedAction(u, CandidatesByReason[seed[q].reason], DefaultEconomy,
                                        AllowHumanEscalation)
  <2> HIDE DEF u, v
  <2> QED
    BY <1>6, <1>8 DEF EnginePick
<1>10. Choose("Paychecker", v) = SelectedAction(v, CandidatesByReason[seed[q].reason],
                                                DefaultEconomy, AllowHumanEscalation)
  <2> HIDE DEF u, v
  <2> QED
    BY <1>8 DEF Choose
<1>11. EnginePick(q, u) = Choose("Paychecker", v)
  <2> HIDE DEF u, v
  <2> QED
    BY <1>8, <1>9, <1>10, SelectionReads
<1>12. ASSUME NEW t PROVE PolicyVerdict(ContextFrom(h, q), t) = PolicyVerdict(v, t)
  <2>1. /\ ContextFrom(h, q).status \in Unsuccessful /\ ContextFrom(h, q).attempts = v.attempts
        /\ ContextFrom(h, q).failures = 0
        /\ (ContextFrom(h, q).highValue <=> q \in HighValue)
    BY <1>2, <1>7 DEF ContextFrom, SeedContext
  <2>2. v.status \in Unsuccessful /\ v.failures = 0 /\ v.reason = seed[q].reason
    BY DEF SeedContext, Unsuccessful
  <2>3. v.highValue <=> seed[q].amount > HighValueThreshold
    BY DEF SeedContext
  <2>4. ContextFrom(h, q).highValue <=> v.highValue
    BY <1>1, <2>1, <2>3, AutopilotAssumption
  <2> HIDE DEF v
  <2> QED
    BY <1>3, <2>1, <2>2, <2>4, VerdictReads
<1> QED
  BY <1>11, <1>12

\* A copy somebody holds is none the worse for what runs and others do.
LEMMA CopyKept ==
    ASSUME AutopilotTypeOK, NEW q \in Payments, NEW h \in PaymentRow, SeededCopy(h, q), UNCHANGED seed,
           ExecutedFor(q) \subseteq ExecutedFor(q)', Open(q)' => Open(q)
    PROVE  SeededCopy(h, q)'
<1> DEFINE n == Cardinality(ExecutedFor(q))
           m == Cardinality(ExecutedFor(q)')
           s == seed[q].attempts
<1>1. IsFiniteSet(ExecutedFor(q)')
  BY ConstantsAssumption, FS_Subset DEF ExecutedFor
<1>2. n \in Nat /\ m \in Nat /\ n <= m
  BY <1>1, ExecutedIsFinite, FS_Subset, FS_CardinalityType
<1>3. s \in Nat /\ h.attempts \in Nat /\ h.attempts >= s /\ h.attempts <= s + n
  BY <1>2 DEF SeededCopy, AutopilotTypeOK, AtRiskPayment, PaymentRow
<1>4. h.attempts \in s..(s + m)
  BY <1>2, <1>3
<1> QED
  BY <1>4 DEF SeededCopy

LEMMA HeldCopyKept ==
    ASSUME AutopilotTypeOK, NEW q \in Payments, HeldSeeded(q), HeldKept, UNCHANGED seed,
           ExecutedFor(q) \subseteq ExecutedFor(q)', Open(q)' => Open(q)
    PROVE  HeldSeeded(q)'
<1> SUFFICES ASSUME Loaded', Current' = q PROVE SeededCopy(pilot.held, q)'
  BY DEF HeldSeeded
<1>1. PICK h \in PaymentRow : h = pilot.held /\ pilot'.held = h
  BY DEF HeldKept, AutopilotTypeOK
<1>2. SeededCopy(h, q)
  BY <1>1 DEF HeldSeeded, HeldKept, Loaded, Current
<1>3. SeededCopy(h, q)'
  BY <1>2, CopyKept
<1> QED
  BY <1>1, <1>3 DEF SeededCopy

\* Nothing is said about a payment of which a step changes nothing.
LEMMA SeededFrame ==
    ASSUME AutopilotTypeOK, NEW q \in Payments, SeededRow(q), FirstKept(q),
           UNCHANGED seed, payments'[q] = payments[q], detecting'[q] = detecting[q],
           diagnosed'[q] = diagnosed[q], cases'[q].state = cases[q].state,
           q \notin crossed' => q \notin crossed,
           \A c \in Cases : cases'[c].state # Absent /\ cases'[c].payment = q <=> c = q,
           \A a \in Actions : Exists(a)' /\ actions'[a].case = q <=> Exists(a) /\ actions[a].case = q,
           \A a \in Actions : Exists(a) /\ actions[a].case = q =>
             /\ actions'[a].type = actions[a].type /\ actions'[a].status = actions[a].status
             /\ actions'[a].executed = actions[a].executed
             /\ actions'[a].outcome = actions[a].outcome
    PROVE  /\ SeededRow(q)' /\ FirstKept(q)'
           /\ HeldSeeded(q) /\ HeldKept => HeldSeeded(q)'
<1>1. ExecutedFor(q)' = ExecutedFor(q)
  BY DEF ExecutedFor
<1>2. Open(q)' <=> Open(q)
  BY DEF Open
<1>3. SeededCopy(payments[q], q)'
  BY <1>1, <1>2 DEF SeededRow, SeededCopy
<1>4. SeededRow(q)'
  BY <1>1, <1>3 DEF SeededRow
<1>5. ASSUME NEW a \in Actions, Exists(a), actions[a].case = q, AsProjected(a, seed[q])
      PROVE  AsProjected(a, seed[q])'
  <2>1. PolicyOutcomeOf(a)' = PolicyOutcomeOf(a)
    BY <1>5 DEF PolicyOutcomeOf
  <2> QED
    BY <1>5, <2>1 DEF AsProjected
<1>6. FirstKept(q)'
  BY <1>5 DEF FirstKept
<1> QED
  BY <1>1, <1>2, <1>4, <1>6, HeldCopyKept

\* A run of the payment's own case has a copy of it in hand.
LEMMA RunHasCopy ==
    ASSUME NEW q \in Payments, q \in Cases, SeededRow(q), HeldSeeded(q),
           NEW h, NEW pay, Runs(q, h, pay)
    PROVE  SeededCopy(h, q)
  BY DEF Runs, SeededRow, HeldSeeded

\* It counts what it executes, and leaves a copy in hand.
LEMMA RunKeepsRow ==
    ASSUME AutopilotTypeOK, CaseInv, NEW q \in Payments, q \in Cases, SeededRow(q),
           NEW h \in PaymentRow, NEW pay \in PaymentRow, Runs(q, h, pay), SeededCopy(h, q)
    PROVE  /\ SeededRow(q)' /\ SeededCopy(pay, q)'
           /\ ExecutedFor(q) \subseteq ExecutedFor(q)' /\ (Open(q)' => Open(q))
<1> USE DEF AutopilotTypeOK
<1>1. cases[q].payment = q /\ cases[q].state # Absent
  BY DEF SeededRow
<1>2. PICK a \in Actions, row \in ActionRow, state \in CaseState : RunShape(q, h, a, row, state, pay)
  BY RunIsShaped
<1>3. /\ cases'[q].state = state /\ state # Absent /\ cases'[q].payment = q
      /\ \A d \in Cases : d # q => cases'[d] = cases[d]
      /\ actions'[a] = row /\ Exists(a)'
      /\ \A b \in Actions : b # a => actions'[b] = actions[b] /\ (Exists(b)' <=> Exists(b))
      /\ payments'[q] = Flushed(payments[q], h, pay)
      /\ cases[q].state \in {"DETECTED", "FAILED", "SCHEDULED"}
  BY <1>1, <1>2, RunPointwise
<1>4. /\ row.case = q
      /\ Chosen(q, h, a, row) \/ Resumed(q, a, row)
      /\ Rests(h, row, state, pay) \/ Acts(q, h, row, state, pay)
  BY <1>2 DEF RunShape
<1>5. /\ UNCHANGED <<seed, detecting>>
      /\ diagnosed'[q] \in {diagnosed[q], ContextFrom(h, q).reason}
  BY <1>1, RunIsShaped
<1>6. Open(q)
  BY <1>3 DEF Open, TerminalStates, Absent
<1>7. /\ payments[q] \in PaymentRow /\ payments[q].status \in Unsuccessful
      /\ payments[q].reason = seed[q].reason
      /\ h.status \in Unsuccessful /\ h.reason = seed[q].reason
  BY <1>3, <1>6 DEF SeededRow, SeededCopy, TypeOK
<1>8. ContextFrom(h, q).reason = seed[q].reason /\ seed[q].reason # None
  BY <1>7, SeededCause
<1>9. diagnosed'[q] \in {None, seed'[q].reason}
  BY <1>5, <1>8 DEF SeededRow
<1>10. a \notin ExecutedFor(q)
  BY <1>4 DEF ExecutedFor, Chosen, Resumed, Pending
<1>11. \A c \in Cases : cases'[c].state # Absent /\ cases'[c].payment = q <=> c = q
  BY <1>3 DEF SeededRow
<1>12. q \notin crossed' => q \notin crossed /\ h = payments[q]
  BY <1>1 DEF Runs
<1> DEFINE n    == Cardinality(ExecutedFor(q))
           left == Flushed(payments[q], h, pay)
<1>13. n \in Nat /\ seed[q].attempts \in Nat /\ h.attempts \in Nat
  BY ExecutedIsFinite DEF PaymentRow, AtRiskPayment
<1>14. /\ left.status = IF pay.status = h.status THEN payments[q].status ELSE pay.status
       /\ left.reason = IF pay.reason = h.reason THEN payments[q].reason ELSE pay.reason
       /\ left.attempts = IF pay.attempts = h.attempts THEN payments[q].attempts ELSE pay.attempts
       /\ h = pay => left = payments[q]
  BY <1>7, FlushedRow
<1>15. CASE Rests(h, row, state, pay)
  <2>1. ExecutedFor(q)' = ExecutedFor(q)
    BY <1>3, <1>10, <1>15 DEF ExecutedFor, Rests
  <2>2. payments'[q] = payments[q] /\ pay = h
    BY <1>3, <1>14, <1>15 DEF Rests
  <2>3. Open(q)' => Open(q)
    BY <1>6
  <2>4. SeededCopy(pay, q)' /\ SeededCopy(payments[q], q)'
    BY <1>5, <1>6, <2>1, <2>2 DEF SeededCopy, SeededRow
  <2>5. SeededRow(q)'
    BY <1>3, <1>5, <1>7, <1>9, <1>11, <1>12, <2>1, <2>2, <2>4 DEF SeededRow
  <2> QED
    BY <2>1, <2>3, <2>4, <2>5
<1>16. CASE Acts(q, h, row, state, pay)
  <2>1. PICK ok \in BOOLEAN : Answered(q, h, ok, row, state, pay)
    BY <1>16 DEF Acts
  <2>2. ExecutedFor(q)' = ExecutedFor(q) \cup {a}
    BY <1>3, <1>4, <1>16 DEF ExecutedFor, Acts
  <2>3. Cardinality(ExecutedFor(q)') = n + 1 /\ ExecutedFor(q)' # {}
    BY <1>10, <2>2, ExecutedIsFinite, FS_AddElement
  <2>4. /\ pay.status = IF ok THEN "SUCCEEDED" ELSE "FAILED"
        /\ pay.reason = IF ok THEN None ELSE seed[q].reason
        /\ pay.attempts = h.attempts + 1
        /\ state = IF ok THEN "RECOVERED" ELSE "FAILED"
    BY <1>1, <1>7, <1>8, <2>1 DEF Answered, RecordRecoveryAttempt, Unsuccessful
  <2>5. /\ left.status = "SUCCEEDED" <=> ok
        /\ ~ok => left.status \in Unsuccessful /\ left.reason = seed[q].reason
    BY <1>7, <1>8, <1>14, <2>4 DEF Unsuccessful
  <2>6. left.attempts = h.attempts + 1
    BY <1>13, <1>14, <2>4
  <2>7. h.attempts >= seed[q].attempts /\ h.attempts <= seed[q].attempts + n
    BY <1>13 DEF SeededCopy
  <2> HIDE DEF n, left
  <2>8. h.attempts + 1 \in seed'[q].attempts..(seed'[q].attempts + Cardinality(ExecutedFor(q)'))
    BY <1>5, <1>13, <2>3, <2>7
  <2>9. Open(q)' => ~ok
    BY <1>3, <2>4 DEF Open, TerminalStates
  <2>10. SeededCopy(pay, q)' /\ SeededCopy(payments[q], q)'
    BY <1>3, <1>5, <2>3, <2>4, <2>5, <2>6, <2>8, <2>9 DEF SeededCopy, Unsuccessful, left
  <2>11. /\ payments'[q].attempts > seed'[q].attempts
         /\ q \notin crossed' =>
              payments'[q].attempts = seed'[q].attempts + Cardinality(ExecutedFor(q)')
    BY <1>3, <1>5, <1>12, <1>13, <2>3, <2>6, <2>7 DEF SeededRow, left, n
  <2>12. \/ payments'[q].status \in Unsuccessful /\ payments'[q].reason = seed'[q].reason
         \/ payments'[q].status = "SUCCEEDED" /\ cases'[q].state = "RECOVERED"
    BY <1>3, <1>5, <2>4, <2>5 DEF left
  <2>13. SeededRow(q)'
    BY <1>3, <1>5, <1>9, <1>11, <2>10, <2>11, <2>12 DEF SeededRow
  <2> QED
    BY <1>6, <2>2, <2>10, <2>13
<1> QED
  BY <1>4, <1>15, <1>16

\* Its first action is the projected one.
LEMMA RunKeepsFirst ==
    ASSUME AutopilotTypeOK, CaseInv, RowsKept, NEW q \in Payments, q \in Cases,
           SeededRow(q), FirstKept(q),
           NEW h \in PaymentRow, NEW pay \in PaymentRow, Runs(q, h, pay), SeededCopy(h, q)
    PROVE  FirstKept(q)'
<1> USE DEF AutopilotTypeOK
<1>1. cases[q].payment = q
  BY DEF SeededRow
<1>2. PICK a \in Actions, row \in ActionRow, state \in CaseState : RunShape(q, h, a, row, state, pay)
  BY RunIsShaped
<1>3. /\ actions'[a] = row /\ Exists(a)'
      /\ \A b \in Actions : b # a => actions'[b] = actions[b] /\ (Exists(b)' <=> Exists(b))
      /\ cases[q].state \in {"DETECTED", "FAILED", "SCHEDULED"}
  BY <1>1, <1>2, RunPointwise
<1>4. /\ row.case = q
      /\ Chosen(q, h, a, row) \/ Resumed(q, a, row)
      /\ Rests(h, row, state, pay) \/ Acts(q, h, row, state, pay)
  BY <1>2 DEF RunShape
<1>5. UNCHANGED seed
  BY RunIsShaped
<1>6. h.reason = seed[q].reason /\ h.status \in Unsuccessful
  BY <1>3 DEF SeededCopy, Open, TerminalStates, Absent
<1>7. ContextFrom(h, q).reason = seed[q].reason
  BY <1>6, SeededCause
<1>13. ASSUME \A b \in Actions \ {a} : Exists(b)' => actions'[b].case # q
       PROVE  AsProjected(a, seed[q])'
  <2>1. \A b \in Actions \ {a} : Exists(b) => actions[b].case # q
    BY <1>3, <1>13
  <2>2. /\ row.type = Choose("Paychecker", SeedContext(seed[q]))
        /\ RowVerdict(row) = PolicyVerdict(SeedContext(seed[q]), row.type)
    <3>1. CASE Chosen(q, h, a, row)
      <4>1. \A b \in Actions : Exists(b) => actions[b].case # q
        BY <2>1, <3>1 DEF Chosen
      <4> QED
        BY <1>1, <3>1, <4>1, BeforeFirst DEF Chosen
    <3>2. CASE Resumed(q, a, row)
      <4>1. Exists(a) /\ Pending(a) /\ actions[a].case = q /\ actions[a].scheduled
        BY <3>2 DEF Resumed, Pending
      <4>2. AsProjected(a, seed[q])
        BY <2>1, <4>1 DEF FirstKept
      <4>3. PolicyOutcomeOf(a) = "APPROVED"
        BY <4>1 DEF RowsKept, PolicyOutcomeOf
      <4>4. RowVerdict(row) = "APPROVED"
        BY <1>2, <3>2 DEF RunShape, Chosen, Resumed, Acts, RowVerdict
      <4> QED
        BY <3>2, <4>2, <4>3, <4>4 DEF AsProjected, Resumed
    <3> QED
      BY <1>4, <3>1, <3>2
  <2>3. ASSUME row.executed
        PROVE  (row.outcome = "recovered") \in SimulatedOutcomes(seed[q].reason, row.type)
    <3>1. PICK ok \in BOOLEAN : Answered(q, h, ok, row, state, pay)
      BY <1>4, <2>3 DEF Rests, Acts
    <3>2. ok \in SimulatedOutcomes(seed[q].reason, row.type)
      BY <1>1, <1>7, <3>1 DEF Answered
    <3>3. (row.outcome = "recovered") = ok
      BY <1>6, <3>1 DEF Answered, Unsuccessful
    <3> QED
      BY <3>2, <3>3, Zenon
  <2>4. PolicyOutcomeOf(a)' = RowVerdict(row)
    BY <1>3 DEF PolicyOutcomeOf, RowVerdict
  <2> QED
    BY <1>3, <1>5, <2>2, <2>3, <2>4 DEF AsProjected
<1> QED
  BY <1>3, <1>4, <1>5, <1>13 DEF FirstKept

\* The batch holds what its run made of the payment; to a run by hand, the copy of
\* the batch is one somebody holds.
LEMMA RunKeepsHeld ==
    ASSUME AutopilotTypeOK, NEW q \in Payments, HeldSeeded(q), UNCHANGED seed,
           NEW h, NEW pay, Runs(q, h, pay), SeededCopy(pay, q)',
           ExecutedFor(q) \subseteq ExecutedFor(q)', Open(q)' => Open(q)
    PROVE  HeldSeeded(q)'
<1>1. CASE UNCHANGED batch
  BY <1>1, HeldCopyKept DEF HeldKept, batch
<1>2. CASE pilot'.held = pay
  BY <1>2 DEF HeldSeeded, SeededCopy
<1> QED
  BY <1>1, <1>2 DEF Runs

\* A run of another case concerns another payment.
LEMMA OtherRunKeepsSeeded ==
    ASSUME AutopilotTypeOK, CaseInv, NEW q \in Payments, q \in Cases,
           SeededRow(q), FirstKept(q), HeldSeeded(q), NEW c \in Cases, c # q,
           NEW h \in PaymentRow, NEW pay \in PaymentRow, Runs(c, h, pay)
    PROVE  SeededRow(q)' /\ FirstKept(q)' /\ HeldSeeded(q)'
<1> USE DEF AutopilotTypeOK
<1>1. PICK a \in Actions, row \in ActionRow, state \in CaseState : RunShape(c, h, a, row, state, pay)
  BY RunIsShaped
<1>2. /\ cases'[c].state = state /\ state # Absent /\ cases'[c].payment = cases[c].payment
      /\ \A d \in Cases : d # c => cases'[d] = cases[d]
      /\ actions'[a] = row /\ row.case = c
      /\ \A b \in Actions : b # a => actions'[b] = actions[b] /\ (Exists(b)' <=> Exists(b))
      /\ \A p \in Payments : p # cases[c].payment => payments'[p] = payments[p]
      /\ cases[c].state \in {"DETECTED", "FAILED", "SCHEDULED"}
  BY <1>1, RunPointwise DEF RunShape
<1>3. cases[c].payment # q
  BY <1>2 DEF SeededRow, Absent
<1>4. UNCHANGED <<seed, detecting>> /\ payments'[q] = payments[q] /\ cases'[q] = cases[q]
  BY <1>2, <1>3, RunIsShaped
<1>5. diagnosed'[q] = diagnosed[q]
  BY RunIsShaped
<1>6. \A d \in Cases : cases'[d].state # Absent /\ cases'[d].payment = q <=> d = q
  BY <1>2, <1>3 DEF SeededRow
<1>7. ~(Exists(a) /\ actions[a].case = q)
  BY <1>1 DEF RunShape, Chosen, Resumed
<1>8. \A b \in Actions : Exists(b)' /\ actions'[b].case = q <=> Exists(b) /\ actions[b].case = q
  BY <1>2, <1>7
<1>9. \A b \in Actions : Exists(b) /\ actions[b].case = q => actions'[b] = actions[b]
  BY <1>2, <1>7
<1>10. q \notin crossed' => q \notin crossed
  BY DEF Runs
<1>11. /\ SeededRow(q)' /\ FirstKept(q)'
       /\ HeldSeeded(q) /\ HeldKept => HeldSeeded(q)'
  BY <1>4, <1>5, <1>6, <1>8, <1>9, <1>10, SeededFrame
<1>12. HeldKept \/ (Loaded' => Current' # q)
  BY DEF Runs, HeldKept, batch, Current
<1> QED
  BY <1>11, <1>12 DEF HeldSeeded

\* Seeding leaves every payment as a run finds it first, unless a request is
\* between its two commits.
NothingDiagnosed == diagnosed = [c \in Cases |-> None]
SeededUnlessDetecting == \A q \in Payments : detecting[q] = 0 => SeededRow(q) /\ FirstKept(q)

LEMMA FreshIsSeeded == FreshlySeeded /\ NothingDiagnosed => SeededUnlessDetecting
<1> SUFFICES ASSUME FreshlySeeded, NothingDiagnosed, NEW q \in Payments, detecting[q] = 0
             PROVE  SeededRow(q) /\ FirstKept(q)
  BY DEF SeededUnlessDetecting
<1>1. \A a \in Actions : ~Exists(a)
  BY SeededTypes DEF FreshlySeeded, Exists
<1>2. payments[q] = SeededPayment(seed[q]) /\ seed[q] \in AtRiskPayment
  BY DEF FreshlySeeded
<1>3. ExecutedFor(q) = {} /\ Cardinality(ExecutedFor(q)) = 0
  BY <1>1, FS_EmptySet DEF ExecutedFor
<1>4. \A c \in Cases : cases[c].state # Absent /\ cases[c].payment = q <=> c = q
  BY AutopilotAssumption DEF FreshlySeeded, SeededCases, NoCase, Absent
<1>5. /\ payments[q].attempts = seed[q].attempts + 0
      /\ payments[q].status \in Unsuccessful /\ payments[q].reason = seed[q].reason
  BY <1>2 DEF SeededPayment, AtRiskPayment
<1>6. diagnosed[q] = None
  BY AutopilotAssumption DEF NothingDiagnosed
<1>7. SeededCopy(payments[q], q)
  <2>1. seed[q].attempts \in Nat
    BY <1>2 DEF AtRiskPayment
  <2> QED
    BY <1>2, <1>3, <1>5, <2>1 DEF SeededCopy
<1> QED
  BY <1>1, <1>2, <1>3, <1>4, <1>5, <1>6, <1>7 DEF SeededRow, FirstKept

\* The same after the step that seeds again.
LEMMA ReseededIsSeeded == FreshlySeeded' /\ NothingDiagnosed' => SeededUnlessDetecting'
  BY FreshIsSeeded, PTL

\* Payments nobody else touches stay as the runs of their case leave them.
LEMMA StepSeeded ==
    ASSUME AutopilotTypeOK, CaseInv, RowsKept, Seeded, RowStep
    PROVE  Seeded'
<1> USE DEF AutopilotTypeOK
<1> DEFINE Good(q) == SeededRow(q) /\ FirstKept(q) /\ HeldSeeded(q)
<1>1. ASSUME NEW q \in Payments, q \notin disturbed' PROVE Good(q)'
  <2>1. q \in Cases
    BY AutopilotAssumption
  <2>2. CASE ResetDemo
    <3>1. FreshlySeeded' /\ NothingDiagnosed' /\ UNCHANGED detecting
      BY <2>2 DEF ResetDemo, FreshlySeeded, NothingDiagnosed, world
    <3>2. detecting'[q] = 0
      BY <1>1, <2>2, <3>1 DEF ResetDemo, TypeOK
    <3>3. ~Loaded'
      BY <2>2 DEF ResetDemo, batch, Loaded
    <3> QED
      BY <3>1, <3>2, <3>3, ReseededIsSeeded DEF SeededUnlessDetecting, HeldSeeded
  <2>3. ASSUME q \notin disturbed PROVE Good(q)
    BY <2>3 DEF Seeded
  <2>4. ASSUME NEW c \in Cases, NEW h \in PaymentRow, NEW pay \in PaymentRow, Runs(c, h, pay)
        PROVE  Good(q)'
    <3>1. q \notin disturbed /\ UNCHANGED seed
      BY <1>1, <2>4, RunIsShaped
    <3>2. SeededRow(q) /\ FirstKept(q) /\ HeldSeeded(q)
      BY <2>3, <3>1
    <3>3. CASE c = q
      <4>1. SeededCopy(h, q)
        BY <2>1, <2>4, <3>2, <3>3, RunHasCopy
      <4>2. /\ SeededRow(q)' /\ SeededCopy(pay, q)'
            /\ ExecutedFor(q) \subseteq ExecutedFor(q)' /\ (Open(q)' => Open(q))
        BY <2>1, <2>4, <3>2, <3>3, <4>1, RunKeepsRow
      <4>3. FirstKept(q)'
        BY <2>1, <2>4, <3>2, <3>3, <4>1, RunKeepsFirst
      <4>4. HeldSeeded(q)'
        BY <2>4, <3>1, <3>2, <3>3, <4>2, RunKeepsHeld
      <4> QED
        BY <4>2, <4>3, <4>4
    <3>4. CASE c # q
      BY <2>1, <2>4, <3>2, <3>4, OtherRunKeepsSeeded
    <3> QED
      BY <3>3, <3>4
  <2>5. ASSUME Ticks PROVE Good(q)'
    <3>1. UNCHANGED <<payments, cases, detecting, seed, diagnosed, disturbed, crossed>> /\ HeldKept
      BY <2>5 DEF Ticks, world
    <3>2. Good(q)
      BY <1>1, <2>3, <3>1
    <3>3. \A a \in Actions : /\ (Exists(a)' <=> Exists(a)) /\ actions'[a].case = actions[a].case
                             /\ actions'[a].type = actions[a].type
                             /\ actions'[a].status = actions[a].status
                             /\ actions'[a].executed = actions[a].executed
                             /\ actions'[a].outcome = actions[a].outcome
      BY <2>5, TickRows
    <3>4. \A d \in Cases : cases'[d].state # Absent /\ cases'[d].payment = q <=> d = q
      BY <3>1, <3>2 DEF SeededRow
    <3> QED
      BY <3>1, <3>2, <3>3, <3>4, SeededFrame
  <2>6. ASSUME NEW p \in Payments, Disturb(p) PROVE Good(q)'
    <3>1. /\ UNCHANGED <<actions, diagnosed, seed, batch, crossed>> /\ disturbed' = disturbed \cup {p}
          /\ \A r \in Payments : r # p => payments'[r] = payments[r] /\ detecting'[r] = detecting[r]
          /\ \A d \in Cases : \/ cases'[d] = cases[d]
                              \/ /\ cases[d].state = Absent \/ cases[d].payment = p
                                 /\ cases'[d].payment = p /\ cases'[d].state # Absent
      BY <2>6, DisturbPointwise
    <3>2. q # p /\ Good(q)
      BY <1>1, <2>3, <3>1
    <3>3. \A d \in Cases : cases'[d].state # Absent /\ cases'[d].payment = q <=> d = q
      BY <3>1, <3>2 DEF SeededRow
    <3>4. cases'[q] = cases[q]
      BY <2>1, <3>1, <3>2 DEF SeededRow
    <3>5. \A a \in Actions : Exists(a)' <=> Exists(a)
      BY <3>1 DEF Exists
    <3>6. HeldKept
      BY <3>1 DEF batch, HeldKept
    <3> QED
      BY <3>1, <3>2, <3>3, <3>4, <3>5, <3>6, SeededFrame
  <2>7. ASSUME SeedAgain PROVE Good(q)'
    <3>1. /\ UNCHANGED <<cases, actions, detecting, seed, diagnosed, crossed>> /\ HeldKept
          /\ payments'[q] = SeededPayment(seed[q]) /\ disturbed = {}
      BY <2>7 DEF SeedAgain, world, batch, HeldKept
    <3>2. payments'[q] = payments[q]
      BY <1>1, <2>7, <3>1 DEF SeedAgain
    <3>3. Good(q)
      BY <2>3, <3>1
    <3>4. \A a \in Actions : Exists(a)' <=> Exists(a)
      BY <3>1 DEF Exists
    <3>5. \A d \in Cases : cases'[d].state # Absent /\ cases'[d].payment = q <=> d = q
      BY <3>1, <3>3 DEF SeededRow
    <3> QED
      BY <3>1, <3>2, <3>3, <3>4, <3>5, SeededFrame
  <2>8. ASSUME BatchMoves PROVE Good(q)'
    <3>1. UNCHANGED <<payments, cases, actions, detecting, seed, diagnosed, disturbed, crossed>>
      BY <2>8 DEF BatchMoves, vars, world
    <3>2. Good(q)
      BY <1>1, <2>3, <3>1
    <3>3. \A a \in Actions : Exists(a)' <=> Exists(a)
      BY <3>1 DEF Exists
    <3>4. \A d \in Cases : cases'[d].state # Absent /\ cases'[d].payment = q <=> d = q
      BY <3>1, <3>2 DEF SeededRow
    <3>5. /\ SeededRow(q)' /\ FirstKept(q)'
          /\ HeldSeeded(q) /\ HeldKept => HeldSeeded(q)'
      BY <3>1, <3>2, <3>3, <3>4, SeededFrame
    <3>6. CASE LoadHead
      <4>1. pilot'.held = payments[cases[Current].payment] /\ Current' = Current
        BY <3>6 DEF LoadHead, Current
      <4>2. Current = q => pilot'.held = payments'[q]
        BY <2>1, <3>1, <3>2, <4>1 DEF SeededRow
      <4> QED
        BY <3>5, <4>1, <4>2 DEF HeldSeeded, SeededRow
    <3>7. CASE HeldKept
      BY <3>2, <3>5, <3>7
    <3>8. CASE pilot' = Idle
      BY <3>5, <3>8 DEF HeldSeeded, Loaded, Idle
    <3> QED
      BY <2>8, <3>6, <3>7, <3>8 DEF BatchMoves
  <2> QED
    BY <2>2, <2>4, <2>5, <2>6, <2>7, <2>8 DEF RowStep
<1> QED
  BY <1>1 DEF Seeded

(***************************************************************************)
(* The demonstration, at any time.                                         *)
(***************************************************************************)
\* The database the demonstration starts from.
LEMMA InitDemoInv == AInit => DemoInv
<1> SUFFICES ASSUME AInit PROVE DemoInv
  OBVIOUS
<1>1. AutopilotTypeOK /\ CaseInv /\ FreshlySeeded
  BY InitDemoTypes
<1>2. \A a \in Actions : ~Exists(a)
  BY <1>1, SeededTypes DEF FreshlySeeded, Exists
<1>3. RowsKept /\ CausesKept /\ HeldFits
  BY <1>2 DEF AInit, RowsKept, CausesKept, HeldFits, Loaded
<1>4. Seeded
  BY <1>1, FreshIsSeeded
     DEF AInit, NothingDiagnosed, SeededUnlessDetecting, Seeded, HeldSeeded, Loaded
<1> QED
  BY <1>1, <1>3, <1>4 DEF DemoInv

\* Whatever is done to it next.
LEMMA StepDemoInv == DemoInv /\ [ANext]_avars => DemoInv'
<1> SUFFICES ASSUME DemoInv, [ANext]_avars PROVE DemoInv'
  OBVIOUS
<1>1. RowStep
  BY EveryStep DEF DemoInv
<1> QED
  BY <1>1, StepDemoTypes, StepRowsKept, StepCausesKept, StepHeldFits, StepSeeded DEF DemoInv

\* Types, cases, causes, the payment a batch holds and the payments only runs have
\* touched support each other: whatever is done next, all of it still holds.
THEOREM DemonstrationInvariant == ASpec => []DemoInv
  BY InitDemoInv, StepDemoInv, PTL DEF ASpec

\* Every variable of the demonstration keeps its type.
THEOREM DemonstrationTypeCorrect == ASpec => []AutopilotTypeOK
  BY DemonstrationInvariant, PTL DEF DemoInv

\* Seeding, seeding again and the autopilot's clock break none of the properties
\* of cases, actions and payments.
THEOREM DemonstrationKeepsCases == ASpec => []CaseInv
  BY DemonstrationInvariant, PTL DEF DemoInv

\* Recovered money is filed under the cause its action was chosen for.
THEOREM MoneyUnderItsCause == ASpec => []MoneyKeepsItsCause
<1>1. DemoInv => MoneyKeepsItsCause
  BY DEF DemoInv, CausesKept, MoneyKeepsItsCause, ResolveFailureReason
<1> QED
  BY <1>1, DemonstrationInvariant, PTL

\* No verdict, execution or recovered amount is ever taken back.
THEOREM FiguresNeverShrink == ASpec => FiguresOnlyGrow
<1> DEFINE Grows == \A a \in Actions : Exists(a) /\ Exists(a)' =>
         /\ PolicyOutcomeOf(a)' = PolicyOutcomeOf(a)
         /\ actions[a].executed => actions'[a].executed /\ actions'[a].outcome = actions[a].outcome
         /\ actions[a].outcome = "recovered" =>
              ResolveFailureReason(actions[a].case)' = ResolveFailureReason(actions[a].case)
<1>1. DemoInv /\ [ANext]_avars => [Grows]_avars
  BY EveryStep, FiguresStep DEF DemoInv
<1> QED
  BY <1>1, DemonstrationInvariant, PTL DEF ASpec, FiguresOnlyGrow

\* A seed of which only some of the attempts are found again.
Reseeded(s, attempts) == [s EXCEPT !.attempts = attempts]

\* The benchmark rebuilds for such a case the context it was detected with, but
\* for attempts a batch has lost.
LEMMA RebuiltContext ==
    ASSUME AutopilotTypeOK, RowsKept, CausesKept, Seeded, NEW c \in Cases, Undisturbed(c)
    PROVE  /\ c \in Payments /\ c \notin disturbed /\ cases[c].payment = c
           /\ \E k \in 1..seed[c].attempts :
                /\ AsDetected(c) = SeedContext(Reseeded(seed[c], k))
                /\ c \notin crossed \/ Cardinality(ExecutedFor(c)) <= 1 => k = seed[c].attempts
<1> DEFINE q == cases[c].payment
           n == Cardinality(ExecutedFor(c))
           s == seed[c].attempts
           x == payments[c].attempts - n
           k == IF x >= 1 THEN x ELSE 1
<1>1. q \in Payments /\ q \notin disturbed /\ cases[c].state # Absent
  BY DEF Undisturbed, AutopilotTypeOK, TypeOK, CaseRow
<1>2. SeededRow(q) /\ c = q
  BY <1>1 DEF Seeded, SeededRow
<1>3. seed[c] \in AtRiskPayment /\ s \in Nat /\ s >= 1 /\ n \in Nat
  BY <1>1, <1>2, ExecutedIsFinite DEF AutopilotTypeOK, AtRiskPayment
<1>4. ResolveFailureReason(c) = seed[c].reason
  <2>1. CASE diagnosed[c] = None
    <3>1. ExecutedFor(c) = {}
      BY <2>1 DEF CausesKept, ExecutedFor
    <3>2. payments[c].reason = seed[c].reason
      BY <1>2, <3>1 DEF SeededRow, SeededCopy, SeededPayment
    <3> QED
      BY <1>1, <1>2, <2>1, <3>2, SeededCause DEF ResolveFailureReason, ContextOf
  <2>2. CASE diagnosed[c] # None
    BY <1>2, <2>2 DEF SeededRow, ResolveFailureReason
  <2> QED
    BY <2>1, <2>2
<1>5. payments[c].attempts \in Nat /\ payments[c].attempts >= s /\ payments[c].attempts <= s + n
  BY <1>2, <1>3 DEF SeededRow, SeededCopy
<1>6. x \in Int /\ x <= s
  BY <1>3, <1>5
<1>7. c \notin crossed => x = s
  BY <1>2, <1>3 DEF SeededRow
<1>8. n <= 1 => x = s
  <2>1. CASE n = 0
    BY <1>3, <1>5, <2>1
  <2>2. CASE n = 1
    <3>1. ExecutedFor(c) # {}
      BY <2>2, FS_EmptySet
    <3>2. payments[c].attempts > s
      BY <1>2, <3>1 DEF SeededRow
    <3> HIDE DEF n
    <3> QED
      BY <1>3, <1>5, <2>2, <3>2
  <2> QED
    BY <1>3, <2>1, <2>2
<1>9. AsDetected(c) = Detected(c, x)
  BY <1>2 DEF AsDetected
<1> HIDE DEF n, s, x
<1>10. k \in 1..s /\ (c \notin crossed \/ n <= 1 => k = s)
  BY <1>3, <1>6, <1>7, <1>8
<1>11. Max({x, 1}) = k
  BY <1>6 DEF Max
<1> HIDE DEF k
<1>12. AsDetected(c) = ContextWith(c, seed[c].amount > HighValueThreshold, "FAILED", seed[c].reason,
                                   k, 0, {}, {})
  BY <1>2, <1>4, <1>9, <1>11 DEF Detected
<1>13. AsDetected(c) = SeedContext(Reseeded(seed[c], k))
  BY <1>3, <1>12 DEF ContextWith, SeedContext, Reseeded, AtRiskPayment
<1> QED
  BY <1>1, <1>2, <1>10, <1>13 DEF n, s

\* The benchmark is reproducible: whatever runs and batches made of a case, the
\* context rebuilt for it has everything it was detected with, and the attempts
\* too unless a batch ran on an outdated payment.
THEOREM BenchmarkReproducible == ASpec => []BenchmarkStable
<1>1. ASSUME DemoInv PROVE BenchmarkStable
  <2> SUFFICES ASSUME NEW c \in Cases, Undisturbed(c)
               PROVE  \E s \in {seed[cases[c].payment]}, attempts \in {AsDetected(c).attempts} :
            /\ IF cases[c].payment \in crossed THEN attempts \in 1..s.attempts
                                               ELSE attempts = s.attempts
            /\ AsDetected(c) = [status |-> "FAILED", reason |-> s.reason, attempts |-> attempts,
                                amount |-> s.amount, rate |-> s.rate, subscriber |-> s.subscriber,
                                failures |-> 0, failed |-> {}, succeeded |-> {},
                                highValue |-> s.amount > HighValueThreshold]
    BY Zenon DEF BenchmarkStable
  <2>1. c \in Payments /\ cases[c].payment = c /\ seed[c] \in AtRiskPayment
    BY <1>1, RebuiltContext DEF DemoInv, AutopilotTypeOK
  <2>2. PICK k \in 1..seed[c].attempts :
          /\ AsDetected(c) = SeedContext(Reseeded(seed[c], k))
          /\ c \notin crossed => k = seed[c].attempts
    BY <1>1, RebuiltContext DEF DemoInv
  <2>3. AsDetected(c) = [status |-> "FAILED", reason |-> seed[c].reason, attempts |-> k,
                         amount |-> seed[c].amount, rate |-> seed[c].rate,
                         subscriber |-> seed[c].subscriber,
                         failures |-> 0, failed |-> {}, succeeded |-> {},
                         highValue |-> seed[c].amount > HighValueThreshold]
    BY <2>1, <2>2 DEF SeedContext, Reseeded, AtRiskPayment
  <2>4. AsDetected(c).attempts = k
    BY <2>3
  <2> QED
    BY <2>1, <2>2, <2>3, <2>4
<1> QED
  BY <1>1, DemonstrationInvariant, PTL

\* The first action of a case is the projected one, with the projected verdict,
\* on the projected attempt and with a projected outcome.
THEOREM FirstActionIsProjected == ASpec => []FirstActionAsProjected
<1>1. DemoInv => FirstActionAsProjected
  <2> SUFFICES ASSUME DemoInv, NEW a \in Actions, Exists(a), Undisturbed(actions[a].case),
                      \A b \in Actions \ {a} : Exists(b) => actions[b].case # actions[a].case
               PROVE  LET projected == ProjectCase(actions[a].case, "Paychecker")
                      IN  /\ actions[a].type = projected.action
                          /\ PolicyOutcomeOf(a) = projected.verdict
                          /\ actions[a].executed =>
                               /\ payments[PaymentOf(a)].attempts = projected.attempt
                               /\ (actions[a].outcome = "recovered") \in projected.succeeds
    BY Zenon DEF FirstActionAsProjected
  <2> DEFINE c == actions[a].case
             ctx == SeedContext(seed[c])
  <2>1. c \in Cases
    BY DEF DemoInv, AutopilotTypeOK, TypeOK, ActionRow
  <2>2. /\ c \in Payments /\ c \notin disturbed /\ cases[c].payment = c /\ AsDetected(c) = ctx
        /\ ExecutedFor(c) \subseteq {a}
    <3>1. ExecutedFor(c) \subseteq {a}
      BY DEF ExecutedFor
    <3>2. Cardinality(ExecutedFor(c)) <= 1
      <4>1. IsFiniteSet({a}) /\ Cardinality({a}) = 1
        BY FS_Singleton
      <4>2. ExecutedFor(c) \in SUBSET {a}
        BY <3>1
      <4> HIDE DEF c
      <4> QED
        BY <4>1, <4>2, FS_Subset
    <3>3. /\ c \in Payments /\ c \notin disturbed /\ cases[c].payment = c
          /\ AsDetected(c) = SeedContext(Reseeded(seed[c], seed[c].attempts))
      <4> HIDE DEF c
      <4> QED
        BY <2>1, <3>2, RebuiltContext DEF DemoInv, c
    <3>4. Reseeded(seed[c], seed[c].attempts) = seed[c]
      <4>1. seed[c] \in AtRiskPayment
        BY <3>3 DEF DemoInv, AutopilotTypeOK
      <4> QED
        BY <4>1 DEF Reseeded, AtRiskPayment
    <3> QED
      BY <3>1, <3>3, <3>4
  <2>3. SeededRow(c) /\ FirstKept(c)
    BY <2>2 DEF DemoInv, Seeded
  <2>4. AsProjected(a, seed[c])
    BY <2>3 DEF FirstKept
  <2>5. ctx.reason = seed[c].reason /\ ctx.attempts = seed[c].attempts
    BY DEF SeedContext
  <2> HIDE DEF c, ctx
  <2>6. LET projected == ProjectCase(c, "Paychecker")
        IN  /\ projected.action = Choose("Paychecker", ctx)
            /\ projected.verdict = PolicyVerdict(ctx, Choose("Paychecker", ctx))
            /\ projected.attempt = seed[c].attempts + 1
            /\ projected.succeeds = SimulatedOutcomes(seed[c].reason, Choose("Paychecker", ctx))
    BY <2>2, <2>5 DEF ProjectCase, NextAttempt
  <2>7. /\ actions[a].type = Choose("Paychecker", ctx)
        /\ PolicyOutcomeOf(a) = PolicyVerdict(ctx, Choose("Paychecker", ctx))
        /\ actions[a].executed => (actions[a].outcome = "recovered") \in
             SimulatedOutcomes(seed[c].reason, Choose("Paychecker", ctx))
    BY <2>4 DEF AsProjected, ctx
  <2>8. ASSUME actions[a].executed PROVE payments[c].attempts = seed[c].attempts + 1
    <3>1. ExecutedFor(c) = {a}
      BY <2>8 DEF ExecutedFor, c
    <3>2. Cardinality(ExecutedFor(c)) = 1
      BY <3>1, FS_Singleton
    <3>3. seed[c].attempts \in Nat /\ payments[c].attempts \in Nat
      BY <2>2 DEF DemoInv, AutopilotTypeOK, AtRiskPayment, TypeOK, PaymentRow
    <3>4. payments[c].attempts > seed[c].attempts /\ payments[c].attempts <= seed[c].attempts + 1
      BY <2>3, <3>1, <3>2, <3>3 DEF SeededRow, SeededCopy
    <3> QED
      BY <3>3, <3>4
  <2>9. PaymentOf(a) = c
    BY <2>2 DEF PaymentOf, c
  <2> QED
    BY <2>6, <2>7, <2>8, <2>9 DEF c
<1> QED
  BY <1>1, DemonstrationInvariant, PTL

(***************************************************************************)
(* What-if.                                                                *)
(***************************************************************************)
\* Settings that ask no less of a case than others, action by action.
LooserThan(wide, narrow) ==
    /\ narrow.retries \in Int /\ wide.retries \in Int /\ narrow.retries <= wide.retries
    /\ narrow.limit \in Int /\ wide.limit \in Int /\ narrow.limit <= wide.limit
    /\ narrow.threshold \in Int /\ wide.threshold \in Int /\ narrow.threshold <= wide.threshold
    /\ \A t \in ActionType :
         /\ narrow.economy.cost[t] \in Int /\ wide.economy.cost[t] = narrow.economy.cost[t]
         /\ narrow.economy.friction[t] \in Int /\ wide.economy.friction[t] \in Int
         /\ wide.economy.friction[t] <= narrow.economy.friction[t]

\* The context under other settings differs in nothing but the high value.
LEMMA ContextUnder ==
    ASSUME AutopilotTypeOK, NEW c \in Cases, NEW s, s.threshold \in Int
    PROVE  LET ctx == LiveContext(c, s)
               p   == cases[c].payment
           IN  /\ ctx.status = payments[p].status /\ ctx.reason = ContextOf(p).reason
               /\ ctx.attempts = payments[p].attempts /\ ctx.attempts \in Nat
               /\ ctx.failures = Cardinality(Failures(p)) /\ ctx.failures \in Nat
               /\ (ctx.highValue <=> seed[p].amount > s.threshold)
               /\ ctx.amount = seed[p].amount /\ ctx.amount \in Nat
               /\ ctx.rate = seed[p].rate /\ ctx.subscriber = seed[p].subscriber
               /\ ctx.failed = TypesWith(p, "unrecovered")
               /\ ctx.succeeded = TypesWith(p, "recovered")
<1> DEFINE p == cases[c].payment
<1>1. p \in Payments /\ payments[p].attempts \in Nat /\ seed[p].amount \in Nat
  BY DEF AutopilotTypeOK, TypeOK, CaseRow, PaymentRow, AtRiskPayment
<1>2. Cardinality(Failures(p)) \in Nat
  BY ConstantsAssumption, FS_Subset, FS_CardinalityType DEF Failures
<1> HIDE DEF p
<1> DEFINE high == seed[p].amount > s.threshold
<1>3. LiveContext(c, s) = ContextWith(p, high, payments[p].status, ContextOf(p).reason,
                                      payments[p].attempts, Cardinality(Failures(p)),
                                      TypesWith(p, "unrecovered"), TypesWith(p, "recovered"))
  BY DEF LiveContext, p
<1> DEFINE ctx == LiveContext(c, s)
<1>4. /\ ctx.status = payments[p].status /\ ctx.reason = ContextOf(p).reason
      /\ ctx.attempts = payments[p].attempts /\ ctx.failures = Cardinality(Failures(p))
      /\ ctx.amount = seed[p].amount /\ ctx.rate = seed[p].rate
      /\ ctx.subscriber = seed[p].subscriber
      /\ ctx.failed = TypesWith(p, "unrecovered") /\ ctx.succeeded = TypesWith(p, "recovered")
  BY <1>3 DEF ContextWith
<1>5. ctx.highValue <=> seed[p].amount > s.threshold
  <2>1. high \in BOOLEAN
    BY <1>1
  <2> HIDE DEF high
  <2>2. ctx.highValue = high
    BY <1>3 DEF ContextWith
  <2> HIDE DEF ctx
  <2>3. ctx.highValue <=> high
    BY <2>1, <2>2
  <2> QED
    BY <2>3 DEF high
<1> HIDE DEF ctx
<1> QED
  BY <1>1, <1>2, <1>4, <1>5 DEF p, ctx

\* The gate of looser settings approves whatever that of stricter ones approves.
LEMMA LooserApproves ==
    ASSUME NEW wide, NEW narrow, LooserThan(wide, narrow), NEW u, NEW v, NEW t \in ActionType,
           u.status = v.status, u.reason = v.reason, u.attempts = v.attempts, u.attempts \in Nat,
           u.failures = v.failures, u.failures \in Nat, u.highValue => v.highValue,
           VerdictUnder(narrow, v, t) = "APPROVED"
    PROVE  VerdictUnder(wide, u, t) = "APPROVED"
<1>1. /\ ~Gate(narrow.retries, narrow.limit)!Blocking(v, t)
      /\ ~Gate(narrow.retries, narrow.limit)!Escalating(v, t)
  BY DEF VerdictUnder, Gate!PolicyVerdict
<1>2. ~Gate(wide.retries, wide.limit)!Blocking(u, t)
  <2>1. /\ narrow.retries \in Int /\ wide.retries \in Int /\ narrow.retries <= wide.retries
        /\ narrow.limit \in Int /\ wide.limit \in Int /\ narrow.limit <= wide.limit
    BY DEF LooserThan
  <2>2. /\ ~(t \notin TerminalActions /\ v.status \notin Unsuccessful)
        /\ ~(t \in RetryActions /\ v.attempts >= narrow.retries)
        /\ ~(t \notin TerminalActions /\ v.attempts >= narrow.retries)
        /\ ~(v.failures >= narrow.limit)
    BY <1>1 DEF Gate!Blocking, Gate!InvalidPaymentState, Gate!RetryLimitReached,
                Gate!RecoveryBudgetExhausted, Gate!RepeatedFailures, Gate!TerminalActions,
                Gate!RetryActions, Gate!Unsuccessful, TerminalActions, RetryActions, Unsuccessful
  <2>3. /\ u.attempts >= wide.retries => u.attempts >= narrow.retries
        /\ u.failures >= wide.limit => u.failures >= narrow.limit
    BY <2>1
  <2> QED
    BY <2>2, <2>3 DEF Gate!Blocking, Gate!InvalidPaymentState, Gate!UnsupportedAction,
         Gate!RetryLimitReached, Gate!RecoveryBudgetExhausted, Gate!RepeatedFailures,
         Gate!TerminalActions, Gate!RetryActions, Gate!Unsuccessful,
         TerminalActions, RetryActions, Unsuccessful
<1>3. ~Gate(wide.retries, wide.limit)!Escalating(u, t)
  BY <1>1 DEF Gate!Escalating, Gate!UnknownFailure, Gate!HighValueTransaction
<1> QED
  BY <1>2, <1>3 DEF VerdictUnder, Gate!PolicyVerdict

\* Looser settings cover what stricter ones allow, at no lower value.
LEMMA LooserCovers ==
    ASSUME AutopilotTypeOK, NEW c \in Cases, NEW wide, NEW narrow, LooserThan(wide, narrow)
    PROVE  Covers(Eligible(Options(c, wide)), Eligible(Options(c, narrow)))
<1> DEFINE u == LiveContext(c, wide)
           v == LiveContext(c, narrow)
<1>1. narrow.threshold \in Int /\ wide.threshold \in Int /\ narrow.threshold <= wide.threshold
  BY DEF LooserThan
<1>2. /\ u.status = v.status /\ u.reason = v.reason /\ u.attempts = v.attempts
      /\ u.attempts \in Nat /\ u.failures = v.failures /\ u.failures \in Nat
      /\ u.amount = v.amount /\ u.amount \in Nat /\ v.amount \in Nat
      /\ u.rate = v.rate /\ u.subscriber = v.subscriber
      /\ u.failed = v.failed /\ u.succeeded = v.succeeded
  <2> HIDE DEF u, v
  <2> QED
    BY <1>1, ContextUnder DEF u, v
<1>3. u.highValue => v.highValue
  <2>1. /\ u.highValue <=> u.amount > wide.threshold
        /\ v.highValue <=> u.amount > narrow.threshold
    BY <1>1, ContextUnder
  <2> HIDE DEF u, v
  <2> QED
    BY <1>1, <1>2, <2>1
<1> HIDE DEF u, v
<1>4. ASSUME NEW t \in ActionType
      PROVE  Valuation(u, t, wide.economy).value >= Valuation(v, t, narrow.economy).value
  <2>1. Probability(u, t) = Probability(v, t)
    BY <1>2 DEF Probability, CustomerFactor, HistoryFactor
  <2> DEFINE gross == RoundHalfEven(Probability(v, t) * v.amount, 10)
  <2>2. gross \in Int
    BY <1>2, ReturnType
  <2>3. /\ Valuation(u, t, wide.economy).value
             = gross - wide.economy.cost[t] - wide.economy.friction[t]
        /\ Valuation(v, t, narrow.economy).value
             = gross - narrow.economy.cost[t] - narrow.economy.friction[t]
    BY <1>2, <2>1 DEF Valuation, ExpectedValue
  <2> HIDE DEF gross
  <2>4. /\ narrow.economy.cost[t] \in Int /\ wide.economy.cost[t] = narrow.economy.cost[t]
        /\ narrow.economy.friction[t] \in Int /\ wide.economy.friction[t] \in Int
        /\ wide.economy.friction[t] <= narrow.economy.friction[t]
    BY DEF LooserThan
  <2> QED
    BY <2>2, <2>3, <2>4
<1>5. ASSUME NEW o \in Eligible(Options(c, narrow))
      PROVE  \E w \in Eligible(Options(c, wide)) : w.action = o.action /\ w.value >= o.value
  <2>1. PICK t \in ComparableActions : o = Option(v, narrow, t)
    BY DEF Eligible, Options, v
  <2>2. VerdictUnder(narrow, v, t) = "APPROVED" /\ t \in ActionType
    BY <2>1 DEF Eligible, Option, ComparableActions
  <2>3. VerdictUnder(wide, u, t) = "APPROVED"
    BY <1>2, <1>3, <2>2, LooserApproves
  <2>4. Option(u, wide, t) \in Eligible(Options(c, wide))
    BY <2>3 DEF Eligible, Options, Option, u
  <2>5. Option(u, wide, t).value >= o.value /\ Option(u, wide, t).action = o.action
    BY <1>4, <2>1, <2>2 DEF Option
  <2> QED
    BY <2>4, <2>5
<1> QED
  BY <1>5 DEF Covers

\* No slider of the lab takes an option away or lowers its value when it is
\* moved to the looser side.
THEOREM LooserForbidsNothing == ASpec => []LooserNeverForbids
<1> DEFINE rich == Settings(MaxAutomaticRetries + 1, RepeatedFailureLimit + 1,
                            2 * HighValueThreshold, Frictionless)
<1>1. \A t \in ActionType : /\ DefaultEconomy.cost[t] \in Int
                            /\ DefaultEconomy.friction[t] \in Nat
                            /\ Frictionless.cost[t] = DefaultEconomy.cost[t]
                            /\ Frictionless.friction[t] = 0
  BY DEF DefaultEconomy, Frictionless, ActionType
<1>2. MaxAutomaticRetries \in Int /\ RepeatedFailureLimit \in Int /\ HighValueThreshold \in Nat
  BY SettingsAssumption, ThresholdAssumption
<1>3. LooserThan(Unchanged, Stricter)
  BY <1>1, <1>2 DEF LooserThan, Unchanged, Stricter, Settings
<1>4. ASSUME NEW settings \in Looser PROVE LooserThan(settings, Unchanged)
  BY <1>1, <1>2 DEF LooserThan, Looser, Unchanged, Settings
<1>5. AutopilotTypeOK => LooserNeverForbids
  BY <1>3, <1>4, LooserCovers, Zenon DEF LooserNeverForbids, ExistingCases
<1> QED
  BY <1>5, DemonstrationTypeCorrect, PTL

\* What the gate approves for a payment as it is, the lab's gate permits under
\* the settings in force, even if the executor could not carry it out.
LEMMA LabPermits ==
    ASSUME AutopilotTypeOK, RowsKept, NEW c \in Cases, NEW t \in ActionType,
           PolicyVerdict(ContextOf(cases[c].payment), t) = "APPROVED"
    PROVE  VerdictUnder(Unchanged, LiveContext(c, Unchanged), t) = "APPROVED"
<1> DEFINE p == cases[c].payment
           u == ContextOf(p)
           v == LiveContext(c, Unchanged)
<1>1. Unchanged.threshold \in Int /\ Unchanged.threshold = HighValueThreshold
  BY ThresholdAssumption DEF Unchanged, Settings
<1>2. /\ v.status = payments[p].status /\ v.reason = u.reason /\ v.attempts = payments[p].attempts
      /\ v.failures = Cardinality(Failures(p)) /\ (v.highValue <=> seed[p].amount > HighValueThreshold)
  BY <1>1, ContextUnder
<1>3. p \in HighValue <=> seed[p].amount > HighValueThreshold
  <2>1. p \in Payments
    BY DEF AutopilotTypeOK, TypeOK, CaseRow
  <2> HIDE DEF p
  <2> QED
    BY <2>1, AutopilotAssumption DEF RowsKept
<1>4. /\ u.status = v.status /\ u.reason = v.reason /\ u.attempts = v.attempts
      /\ u.failures = v.failures /\ (u.highValue <=> p \in HighValue)
  <2> HIDE DEF p, v
  <2> QED
    BY <1>2 DEF ContextOf, ContextFrom
<1>5. v.highValue => u.highValue
  BY <1>2, <1>3, <1>4
<1>6. ~Blocking(u, t) /\ ~Escalating(u, t)
  BY DEF PolicyVerdict
<1> HIDE DEF p, u, v
<1>7. ~Gate(Unchanged.retries, Unchanged.limit)!Blocking(v, t)
  BY <1>4, <1>6 DEF Blocking, InvalidPaymentState, RetryLimitReached, RecoveryBudgetExhausted,
       RepeatedFailures, Unchanged, Settings, Gate!Blocking, Gate!InvalidPaymentState,
       Gate!UnsupportedAction, Gate!RetryLimitReached, Gate!RecoveryBudgetExhausted,
       Gate!RepeatedFailures, Gate!TerminalActions, Gate!RetryActions, Gate!Unsuccessful,
       TerminalActions, RetryActions, Unsuccessful
<1>8. ~Gate(Unchanged.retries, Unchanged.limit)!Escalating(v, t)
  BY <1>4, <1>5, <1>6 DEF Escalating, UnknownFailure, HighValueTransaction,
       Gate!Escalating, Gate!UnknownFailure, Gate!HighValueTransaction
<1> QED
  BY <1>7, <1>8 DEF VerdictUnder, Gate!PolicyVerdict, v

\* An action row that appears as approved was chosen in that step, for its case
\* as it was, and approved by the gate, unless a batch ran on an outdated payment.
LEMMA NewlyApproved ==
    ASSUME AutopilotTypeOK, CaseInv, RowStep, NEW c \in Cases, NEW a \in Actions, ~RunsOutdated(c),
           ~Exists(a), Exists(a)', actions'[a].case = c, PolicyOutcomeOf(a)' = "APPROVED"
    PROVE  LET p == cases[c].payment
               t == actions'[a].type
           IN  /\ t = EnginePick(p, ScoredContext(p, payments[p]))
               /\ PolicyVerdict(ContextOf(p), t) = "APPROVED"
<1>1. TypeOK
  BY DEF AutopilotTypeOK
<1>2. PICK d \in Cases, h \in PaymentRow, pay \in PaymentRow : Runs(d, h, pay)
  <2>1. ~Ticks
    BY DEF Ticks, Exists, TypeOK, ActionRow, AutopilotTypeOK
  <2>2. actions' # actions
    BY DEF Exists
  <2>3. \A p \in Payments : ~Disturb(p)
    BY <2>2 DEF Disturb, PaymentFailedWebhook, CreatePayment, FailPayment,
                PaymentCapturedWebhook, DetectRisk, LoseRequest
  <2>4. ~ResetDemo
    BY DEF ResetDemo, NoAction, Proposed, Exists
  <2>5. ~SeedAgain /\ ~BatchMoves
    BY <2>2 DEF SeedAgain, BatchMoves, vars
  <2> QED
    BY <2>1, <2>3, <2>4, <2>5 DEF RowStep
<1>3. PICK b \in Actions, row \in ActionRow, state \in CaseState : RunShape(d, h, b, row, state, pay)
  BY <1>2, RunIsShaped
<1>4. actions' = [actions EXCEPT ![b] = row] /\ row.case = d
  BY <1>3 DEF RunShape, Writes
<1>5. b = a /\ actions'[a] = row /\ d = c
  BY <1>1, <1>4 DEF TypeOK, Exists
<1>6. Chosen(c, h, a, row)
  BY <1>3, <1>5 DEF RunShape, Resumed, Pending
<1>7. RowVerdict(row) = "APPROVED"
  BY <1>5 DEF PolicyOutcomeOf, RowVerdict
<1>8. h = payments[cases[c].payment]
  BY <1>2, <1>5 DEF Runs, RunsOutdated
<1> QED
  BY <1>5, <1>6, <1>7, <1>8 DEF Chosen, ContextOf

\* The lab, asked just before, permitted what a full cycle then does, and what it
\* recommended was worth no more unless it is no candidate for the cause.
LEMMA LabAgrees ==
    ASSUME AutopilotTypeOK, CaseInv, RowsKept, RowStep, NEW c \in Cases, NEW a \in Actions,
           ~RunsOutdated(c),
           ~Exists(a), Exists(a)', actions'[a].case = c, PolicyOutcomeOf(a)' = "APPROVED"
    PROVE  LET candidates == CandidateActions(cases[c].payment, ContextOf(cases[c].payment).reason)
               options    == Options(c, Unchanged)
               best       == {o.action : o \in Recommended(options)}
           IN  /\ actions'[a].type \in {o.action : o \in Eligible(options)}
               /\ best \cap candidates # {} => actions'[a].type \in best
<1> DEFINE p       == cases[c].payment
           t       == actions'[a].type
           u       == ScoredContext(p, payments[p])
           v       == LiveContext(c, Unchanged)
           O(x)    == Option(v, Unchanged, x)
           options == Options(c, Unchanged)
           candidates == CandidateActions(p, ContextOf(p).reason)
<1>1. t = EnginePick(p, u) /\ PolicyVerdict(ContextOf(p), t) = "APPROVED"
  BY NewlyApproved
<1>2. p \in Payments /\ payments[p] \in PaymentRow
  BY DEF AutopilotTypeOK, TypeOK, CaseRow
<1>3. /\ t \in candidates /\ t \in ActionType
      /\ candidates \subseteq CandidatesByReason[ContextOf(p).reason]
      /\ \A x \in candidates : Valuation(u, x, DefaultEconomy).value
                                 <= Valuation(u, t, DefaultEconomy).value
  <2> HIDE DEF p
  <2> QED
    BY <1>1, <1>2, PickIsACandidate DEF ContextOf
<1>4. ContextOf(p).reason \in FailureReason /\ ContextOf(p).reason # "UNKNOWN"
  <2>1. ContextOf(p).reason \in FailureReason
    <3> HIDE DEF p
    <3> QED
      BY <1>2, RowReason DEF ContextOf
  <2> QED
    BY <1>1, <2>1 DEF PolicyVerdict, Escalating, UnknownFailure
<1>5. candidates \subseteq ComparableActions
  <2> HIDE DEF p, candidates
  <2> QED
    BY <1>3, <1>4 DEF CandidatesByReason, FailureReason, ComparableActions, ActionType
<1>6. VerdictUnder(Unchanged, v, t) = "APPROVED"
  BY <1>1, <1>3, LabPermits
<1>7. O(t) \in Eligible(options) /\ O(t).action = t
  BY <1>3, <1>5, <1>6 DEF Eligible, Options, Option
<1>8. \A x : O(x).value = Valuation(u, x, DefaultEconomy).value /\ O(x).action = x
  <2>1. /\ u.reason = v.reason /\ u.attempts = v.attempts /\ u.amount = v.amount /\ u.rate = v.rate
        /\ u.subscriber = v.subscriber /\ u.failed = v.failed /\ u.succeeded = v.succeeded
    BY DEF ScoredContext, LiveContext, ContextWith, ContextOf
  <2> HIDE DEF u, v
  <2>2. \A x : Probability(u, x) = Probability(v, x)
    BY <2>1 DEF Probability, CustomerFactor, HistoryFactor
  <2>3. \A x : Valuation(u, x, DefaultEconomy) = Valuation(v, x, DefaultEconomy)
    BY <2>1, <2>2 DEF Valuation
  <2>4. Unchanged.economy = DefaultEconomy
    BY DEF Unchanged, Settings
  <2> QED
    BY <2>3, <2>4 DEF Option
<1>9. \A o \in options : O(o.action) = o
  BY DEF Options, Option
<1> HIDE DEF t, u, v, O, options, candidates
<1>10. ASSUME NEW o \in Recommended(options), o.action \in candidates PROVE O(t) \in Recommended(options)
  <2>1. o \in options /\ \A other \in Eligible(options) : o.value >= other.value
    BY <1>10 DEF Recommended, Eligible
  <2> DEFINE W(x) == Valuation(u, x, DefaultEconomy).value
  <2>2. W(o.action) <= W(t) /\ o.value = W(o.action) /\ O(t).value = W(t)
    BY <1>3, <1>8, <1>9, <1>10, <2>1
  <2>3. o.value >= O(t).value
    BY <1>7, <2>1
  <2>4. W(t) \in Int /\ W(o.action) \in Int
    BY <1>2, <1>3, <1>5, <1>10, ValuationType DEF u, ScoredContext, AutopilotTypeOK, AtRiskPayment,
       ComparableActions
  <2>5. O(t).value = o.value
    <3> DEFINE i == W(t)
               j == W(o.action)
    <3>1. i \in Int /\ j \in Int /\ j <= i /\ j >= i
      BY <2>2, <2>3, <2>4
    <3> HIDE DEF i, j
    <3>2. i = j
      BY <3>1
    <3> QED
      BY <2>2, <3>2 DEF i, j
  <2> QED
    BY <1>7, <2>1, <2>5 DEF Recommended
<1>11. \E o \in Eligible(options) : o.action = t
  BY <1>7
<1>12. (\E o \in Recommended(options) : o.action \in candidates) =>
         \E o \in Recommended(options) : o.action = t
  BY <1>7, <1>10
<1> QED
  BY <1>11, <1>12 DEF t, options, candidates, p

\* The lab permitted, asked just before, whatever a full cycle then schedules or
\* executes, and the cycle follows its recommendation wherever that is a candidate,
\* unless a batch runs on a payment it has held for too long.
THEOREM LabPermitsRuns == ASpec => LabPermitsWhatRunsDo
<1> DEFINE Permits ==
      \A c \in Cases, a \in Actions :
         /\ cases[c].state \in {"DETECTED", "FAILED"}
         /\ ~Exists(a) /\ Exists(a)' /\ actions'[a].case = c
         /\ PolicyOutcomeOf(a)' = "APPROVED" /\ ~RunsOutdated(c)
         => LET p          == cases[c].payment
                candidates == CandidateActions(p, ContextOf(p).reason)
                options    == Options(c, Unchanged)
                best       == {o.action : o \in Recommended(options)}
            IN  /\ actions'[a].type \in {o.action : o \in Eligible(options)}
                /\ best \cap candidates # {} => actions'[a].type \in best
<1>1. ASSUME DemoInv, RowStep PROVE Permits
  BY <1>1, LabAgrees, Zenon DEF DemoInv
<1>2. DemoInv /\ [ANext]_avars => [Permits]_avars
  <2> HIDE DEF Permits
  <2> QED
    BY <1>1, EveryStep DEF DemoInv
<1> QED
  BY <1>2, DemonstrationInvariant, PTL DEF ASpec, LabPermitsWhatRunsDo
==============================================================================
