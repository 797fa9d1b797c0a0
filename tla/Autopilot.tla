------------------------------ MODULE Autopilot ------------------------------
(***************************************************************************)
(* The demonstration system: the recovery core over seeded payments, with  *)
(* the ranking that chooses each action, the simulator's draws, and the    *)
(* autopilot that drives a batch of cases (services/autopilot.py) while    *)
(* single runs, webhooks, resets and the clock go on around it.            *)
(*                                                                         *)
(* Recovery leaves the selected action open; here Scoring determines it.   *)
(* The simulator's unscripted answers stay open: a hash of seed, payment,  *)
(* action and attempt number decides them, and no attempt number is used   *)
(* twice for a payment until the demonstration is seeded again.            *)
(***************************************************************************)
EXTENDS Recovery, Scenarios, FiniteSetsExt

CONSTANTS
    Seeds,      \* [Payments -> sets of seeds], one is chosen for each payment
    Clocks,     \* subset of {"virtual", "wall"}
    Limits,     \* batch sizes requests ask for
    Outside     \* bound: payments that webhooks and merchants report on

\* Payment p is seeded with case p; a case number is its place in a batch.
ASSUME AutopilotAssumption ==
    /\ Payments \subseteq Cases /\ Cases \subseteq Nat
    /\ Clocks \subseteq {"virtual", "wall"}
    /\ Limits \subseteq Nat \ {0}
    /\ Outside \subseteq Payments
    /\ Provider = "simulator"
    /\ \A p \in Payments : \A s \in Seeds[p] :
         s \in AtRiskPayment /\ (p \in HighValue <=> s.amount > HighValueThreshold)

VARIABLES
    seed,       \* the seed of each payment
    clock,      \* which clock the process was built with
    diagnosed,  \* case.diagnosis["failure_reason"]
    disturbed,  \* history: payments something outside of runs has touched
    todo,       \* cases the running batch has still to finish
    pilot,      \* the loop over the first of them, and the payment it holds
    crossed     \* history: payments a batch ran on an outdated copy of

world == <<seed, clock>>
batch == <<todo, pilot>>
avars == <<vars, world, diagnosed, disturbed, batch, crossed>>

Idle == [runs |-> 0, waiting |-> FALSE, held |-> NoPayment]

(***************************************************************************)
(* Seeding.                                                                *)
(***************************************************************************)
SeededPayment(s) == [status |-> s.status, reason |-> s.reason, attempts |-> s.attempts]
SeededCases == [c \in Cases |-> IF c \in Payments THEN [state |-> "DETECTED", payment |-> c]
                                                  ELSE NoCase]

AInit ==
    /\ seed \in [Payments -> UNION {Seeds[p] : p \in Payments}]
    /\ \A p \in Payments : seed[p] \in Seeds[p]
    /\ clock \in Clocks
    /\ payments = [p \in Payments |-> SeededPayment(seed[p])]
    /\ cases = SeededCases
    /\ actions = [a \in Actions |-> NoAction]
    /\ detecting = [p \in Payments |-> 0]
    /\ orders = [p \in Payments |-> 0]
    /\ diagnosed = [c \in Cases |-> None]
    /\ disturbed = {}
    /\ todo = {} /\ pilot = Idle
    /\ crossed = {}

(***************************************************************************)
(* One workflow run, with its selection and its outcome.  A session reads  *)
(* a payment once and goes on with the row it has in hand ("before"), which *)
(* need not be what is committed; a run makes of it "after".               *)
(***************************************************************************)
TypesWith(p, outcome) ==
    {actions[a].type : a \in {b \in Actions : Exists(b) /\ PaymentOf(b) = p
                                              /\ actions[b].outcome = outcome}}

ScoredContext(p, row) ==
    [reason |-> ContextFrom(row, p).reason, attempts |-> row.attempts,
     amount |-> seed[p].amount, rate |-> seed[p].rate, subscriber |-> seed[p].subscriber,
     failed |-> TypesWith(p, "unrecovered"), succeeded |-> TypesWith(p, "recovered")]

EnginePick(p, ctx) ==
    SelectedAction(ctx, CandidateActions(p, ctx.reason), DefaultEconomy, AllowHumanEscalation)

\* What a run can come to: the state of the case, the payment in hand, the rows
\* of the actions, and the orders placed.
Result(state, after, rows, ordered) ==
    [state |-> state, after |-> after, rows |-> rows, ordered |-> ordered]

PerformUnstamped(p, a, row, before) ==           \* mutant of Perform: executed_at not set
    {LET recovers == e.payment.status = "SUCCEEDED" /\ before.status # "SUCCEEDED"
         stamped  == [row EXCEPT !.status  = IF e.reported THEN "EXECUTED" ELSE "FAILED",
                                 !.outcome = IF recovers THEN "recovered" ELSE "unrecovered"]
     IN  Result(IF recovers THEN "RECOVERED" ELSE "FAILED", e.payment,
                [actions EXCEPT ![a] = stamped], e.ordered)
       : e \in Effects(before, ContextFrom(before, p).reason, row.type)}

\* Execute, then verify from the payment in hand.
Perform(p, a, row, before) ==
    {LET recovers == e.payment.status = "SUCCEEDED" /\ before.status # "SUCCEEDED"
         stamped  == [row EXCEPT !.status   = IF e.reported THEN "EXECUTED" ELSE "FAILED",
                                 !.executed = TRUE,
                                 !.outcome  = IF recovers THEN "recovered" ELSE "unrecovered"]
     IN  Result(IF recovers THEN "RECOVERED" ELSE "FAILED", e.payment,
                [actions EXCEPT ![a] = stamped], e.ordered)
       : e \in Effects(before, ContextFrom(before, p).reason, row.type)}

\* An action that is refused, handed over or left for later only writes its row.
PutAside(c, t, verdict, before) ==
    LET Closed(state) ==
            Result(state, before,
                   [actions EXCEPT ![FreshAction] = [Proposed(c, t) EXCEPT !.status = verdict]], 0)
    IN  CASE verdict = "BLOCKED"   -> Closed("STOPPED")
          [] verdict = "ESCALATED" -> Closed("ESCALATED")
          [] verdict = "APPROVED" /\ t = "STOP"           -> Closed("STOPPED")
          [] verdict = "APPROVED" /\ t = "ESCALATE_HUMAN" -> Closed("ESCALATED")
          [] verdict = "APPROVED" /\ t = "RETRY_LATER"    ->
               Result("SCHEDULED", before, [actions EXCEPT ![FreshAction] = DeferredRetry(c)], 0)

\* A full cycle on the payment in hand; verified outcomes are queried.
Cycle(c, before) ==
    LET p          == cases[c].payment
        Gated(t)   == PolicyVerdict(ContextFrom(before, p), t)
        Answered(t) ==
            IF Gated(t) = "APPROVED" /\ t \notin TerminalActions \cup {"RETRY_LATER"}
            THEN Perform(p, FreshAction, Proposed(c, t), before)
            ELSE {PutAside(c, t, Gated(t), before)}
    IN  IF SomeActionFree
        THEN UNION {Answered(t) : t \in {EnginePick(p, ctx) : ctx \in {ScoredContext(p, before)}}}
        ELSE {}

\* The pending action that is due first, once it is due.
Resume(c, before) ==
    LET first == {a \in PendingActions(c) :
                    \A b \in PendingActions(c) : actions[a].wait <= actions[b].wait}
    IN  IF PendingActions(c) = {} THEN {Result("FAILED", before, actions, 0)}
        ELSE UNION {Perform(cases[c].payment, a, actions[a], before) :
                      a \in {b \in first : actions[b].wait = 0}}

RunResults(c, before) ==
    IF cases[c].state = "SCHEDULED" THEN Resume(c, before)
    ELSE IF cases[c].state \in {"DETECTED", "FAILED"} THEN Cycle(c, before)
    ELSE {}

\* A flush updates the columns that changed in hand and no other.
Flushed(row, before, after) ==
    [column \in DOMAIN row |-> IF after[column] = before[column] THEN row[column]
                                                                 ELSE after[column]]

\* The run commits.  A full cycle also records the diagnosis it is based on.
WorkflowRun(c, before, result) ==
    /\ payments'  = [payments EXCEPT ![cases[c].payment] = Flushed(@, before, result.after)]
    /\ cases'     = [cases EXCEPT ![c].state = result.state]
    /\ actions'   = result.rows
    /\ orders'    = [orders EXCEPT ![cases[c].payment] = @ + result.ordered]
    /\ diagnosed' = [diagnosed EXCEPT ![c] =
                       IF cases[c].state = "SCHEDULED" THEN @
                       ELSE ContextFrom(before, cases[c].payment).reason]
    /\ UNCHANGED <<detecting, world, disturbed>>

\* A run of a scheduled case whose action is not due changes nothing.
NotDue(c) ==
    /\ cases[c].state = "SCHEDULED"
    /\ PendingActions(c) # {} /\ \A a \in PendingActions(c) : actions[a].wait > 0

(***************************************************************************)
(* The autopilot.                                                          *)
(***************************************************************************)
ThreeRunsPerCase == 3                        \* mutant of MaxRunsPerCase
MaxRunsPerCase == 8

\* The first limit pending cases, in the order of their numbers.
PendingCases(limit) ==
    LET pending == {c \in Cases : Open(c)}
    IN  {c \in pending : Cardinality({d \in pending : d < c}) < limit}

\* run_batch: one case after the other, in the same order.
StartBatch(limit) ==
    /\ todo = {}
    /\ todo' = PendingCases(limit)
    /\ pilot' = Idle
    /\ UNCHANGED <<vars, world, diagnosed, disturbed, crossed>>

Current == Min(todo)
Loaded  == todo # {} /\ pilot.held # NoPayment

\* _run_case reads the payment once, before its first round.
LoadHead ==
    /\ todo # {} /\ ~Loaded
    /\ pilot' = [pilot EXCEPT !.held = payments[cases[Current].payment]]
    /\ UNCHANGED <<vars, world, diagnosed, disturbed, todo, crossed>>

\* One round of the loop: refresh the case, and run it unless it is closed.  The
\* payment is not refreshed: every run of the case works on the row held.
RunHead ==
    /\ Loaded /\ ~pilot.waiting /\ pilot.runs < MaxRunsPerCase
    /\ \/ \E result \in RunResults(Current, pilot.held), p \in {cases[Current].payment} :
            /\ WorkflowRun(Current, pilot.held, result)
            /\ pilot' = [runs |-> pilot.runs + 1, waiting |-> result.state = "SCHEDULED",
                         held |-> result.after]
            /\ crossed' = IF pilot.held = payments[p] THEN crossed ELSE crossed \cup {p}
       \/ /\ NotDue(Current)
          /\ pilot' = [pilot EXCEPT !.runs = @ + 1, !.waiting = TRUE]
          /\ UNCHANGED <<vars, world, diagnosed, disturbed, crossed>>
    /\ UNCHANGED todo

DriveClockUnclamped ==                       \* mutant of DriveClock
    /\ todo # {} /\ pilot.waiting /\ clock = "virtual"
    /\ actions' = [a \in Actions |-> [actions[a] EXCEPT !.wait = @ - RetryDelay]]
    /\ pilot' = [pilot EXCEPT !.waiting = FALSE]
    /\ UNCHANGED <<payments, cases, detecting, orders, world, diagnosed, disturbed, todo, crossed>>

\* A virtual clock is moved by the retry delay when the run has to wait.
DriveClock ==
    /\ todo # {} /\ pilot.waiting /\ clock = "virtual"
    /\ actions' = [a \in Actions |->
                     [actions[a] EXCEPT !.wait = IF @ > RetryDelay THEN @ - RetryDelay ELSE 0]]
    /\ pilot' = [pilot EXCEPT !.waiting = FALSE]
    /\ UNCHANGED <<payments, cases, detecting, orders, world, diagnosed, disturbed, todo, crossed>>

AmountOfEveryOutcome(c) ==                   \* mutant of RecoveredAmount
    LET verified == {a \in Actions : Exists(a) /\ actions[a].case = c /\ actions[a].outcome # None}
    IN  Cardinality(verified) * seed[cases[c].payment].amount

\* Verified money of a case: the autopilot's sum and the analytics' are the same.
RecoveredAmount(c) ==
    LET recovered == {a \in Actions : Exists(a) /\ actions[a].case = c
                                      /\ actions[a].outcome = "recovered"}
    IN  Cardinality(recovered) * seed[cases[c].payment].amount

FinishClosedHead ==                          \* mutant of FinishHead: nothing else ends a case
    /\ Loaded /\ ~Open(Current)
    /\ todo' = todo \ {Current} /\ pilot' = Idle
    /\ UNCHANGED <<vars, world, diagnosed, disturbed, crossed>>

\* The case is closed, out of runs, or has to wait for real time.
FinishHead ==
    /\ Loaded
    /\ IF pilot.waiting THEN clock = "wall"
       ELSE ~Open(Current) \/ pilot.runs >= MaxRunsPerCase
    /\ todo' = todo \ {Current} /\ pilot' = Idle
    /\ UNCHANGED <<vars, world, diagnosed, disturbed, crossed>>

\* Only a PaycheckerError is caught per case.  Any other exception of a run or
\* of a refresh ends the whole batch: what was committed stays, nothing is
\* reported.
AbortBatch ==
    /\ todo # {}
    /\ todo' = {} /\ pilot' = Idle
    /\ UNCHANGED <<vars, world, diagnosed, disturbed, crossed>>

BatchStep == LoadHead \/ DriveClock \/ FinishHead \/ RunHead

(***************************************************************************)
(* Around the batch.                                                       *)
(***************************************************************************)
\* POST /recovery/{case}/run and the simulation clock, from another request: its
\* session is new and reads what is committed.
ManualRun(c) ==
    /\ \E before \in {payments[cases[c].payment]} : \E result \in RunResults(c, before) :
         WorkflowRun(c, before, result)
    /\ UNCHANGED <<batch, crossed>>
TimePasses == AdvanceClock /\ UNCHANGED <<world, diagnosed, disturbed, batch, crossed>>

\* Webhooks and failure reports; a second case of the payment has no diagnosis.
Disturb(p) ==
    /\ \/ \E reason \in IngestReasons : PaymentFailedWebhook(p, reason)
       \/ PaymentCapturedWebhook(p)
       \/ DetectRisk(p)
       \/ LoseRequest(p)
    /\ disturbed' = disturbed \cup {p}
    /\ UNCHANGED <<world, diagnosed, batch, crossed>>

\* POST /demo/reset drops every table, puts the clock back and seeds again.
\* Requests between their two commits go on with the new rows.  Bound: nobody
\* resets a database while a batch runs on it.
ResetDemo ==
    /\ todo = {}
    /\ payments' = [p \in Payments |-> SeededPayment(seed[p])]
    /\ cases' = SeededCases
    /\ actions' = [a \in Actions |-> NoAction]
    /\ diagnosed' = [c \in Cases |-> None]
    /\ disturbed' = {p \in Payments : detecting[p] > 0}
    /\ crossed' = {}
    /\ UNCHANGED <<detecting, orders, world, batch>>

\* Seeding again without a reset (scripts/seed.py) merges the payments, as they
\* were, over the rows; detection reuses the open cases.  Where none is open, it
\* inserts one whose fixed identifier is taken, and everything is rolled back.
\* Bound: nobody does so after webhooks have reported on the seeded payments.
SeedAgain ==
    /\ disturbed = {} /\ \A p \in Payments : OpenCases(p) # {}
    /\ payments' = [p \in Payments |-> SeededPayment(seed[p])]
    /\ disturbed' = {p \in Payments : payments[p] # SeededPayment(seed[p])}
    /\ UNCHANGED <<cases, actions, detecting, orders, world, diagnosed, batch, crossed>>

ANext ==
    \/ \E limit \in Limits : StartBatch(limit)
    \/ LoadHead \/ RunHead \/ DriveClock \/ FinishHead \/ AbortBatch
    \/ \E c \in Cases : ManualRun(c)
    \/ TimePasses
    \/ \E p \in Outside : Disturb(p)
    \/ ResetDemo \/ SeedAgain

\* The request that runs the batch is one thread that keeps going.
ASpec == AInit /\ [][ANext]_avars /\ WF_avars(BatchStep)

(***************************************************************************)
(* Properties.                                                             *)
(***************************************************************************)
\* Every variable has the shape the code gives it.
AutopilotTypeOK ==
    /\ TypeOK
    /\ seed \in [Payments -> AtRiskPayment] /\ clock \in Clocks
    /\ diagnosed \in [Cases -> FailureReason \cup {None}]
    /\ disturbed \subseteq Payments
    /\ todo \subseteq Cases
    /\ pilot \in [runs : 0..MaxRunsPerCase, waiting : BOOLEAN, held : PaymentRow]
    /\ crossed \subseteq Payments

\* "Drive every pending case to a terminal state" (autopilot.py:145): eight runs
\* are enough for every case of a batch, whatever happens to its payment
\* meanwhile and whoever else runs them, unless the clock is real.
BatchClosesAll ==
    [][FinishHead /\ clock = "virtual" =>
         cases[Current].state \in TerminalStates]_avars

\* The four demo cases are "constructed so [their] outcome is guaranteed rather
\* than probable" (scenario_generator.py:17-19), by a batch, by hand or by both
\* at once: nothing but the promised action is ever selected for them, and when
\* they are closed it is in the promised state.
DemoGuaranteed ==
    \A p \in Payments \ disturbed : seed[p].key # None =>
        LET spec == DemoScenarioSpecs[seed[p].key]
        IN  /\ cases[p].state \in TerminalStates => cases[p].state = spec.final
            /\ \A a \in Actions : Exists(a) /\ actions[a].case = p => actions[a].type = spec.action

\* Every batch ends, with an answer or without one.
BatchEnds == todo # {} ~> todo = {}
=============================================================================
