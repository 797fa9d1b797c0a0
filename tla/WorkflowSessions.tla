-------------------------- MODULE WorkflowSessions --------------------------
(***************************************************************************)
(* Workflow runs and capture webhooks step by step, each in a database     *)
(* session of its own, on top of the committed rows of Recovery.           *)
(*                                                                         *)
(* A session reads committed rows, keeps what Python variables hold, locks *)
(* a row when it first writes it (READ COMMITTED with row locks, no        *)
(* version column) and makes its writes visible when it commits, and then  *)
(* only the columns it changed.  A run holds on to its case object, so its *)
(* state is as old as the run; it reads the payment anew for the diagnosis,*)
(* for the gate and for the execution.  The autopilot holds on to the      *)
(* payment as well, over all runs of a case.                               *)
(*                                                                         *)
(* With Exclusive no two sessions or requests work on one payment at a     *)
(* time and the clock stands still while a run is under way; the runs then *)
(* implement the atomic ones of Recovery.                                  *)
(***************************************************************************)
EXTENDS Recovery

CONSTANTS
    Sessions,       \* sessions that may be open at a time
    Batch,          \* those of the autopilot
    Exclusive       \* whether sessions and requests on one payment exclude each other

ASSUME SessionsAssumption ==
    /\ Sessions # {} /\ Batch \subseteq Sessions
    /\ Actions # {}
    /\ Exclusive \in BOOLEAN /\ (Exclusive => Batch = {})

VARIABLE sessions

svars == <<payments, cases, actions, detecting, orders, sessions>>

Stage == {"idle",
          "begun", "diagnosed", "gated", "executed", "ending",  \* a run
          "failing", "restoring",                                \* its error handler
          "notified", "recorded"}                                \* a capture webhook

(***************************************************************************)
(* The payment is read as "before" and written as "after"; "held" is the   *)
(* autopilot's own object.  "row" is the action to insert or, in a         *)
(* resumption, to write back to "act"; "final" is the case state to write, *)
(* None when there is no case to write.                                    *)
(***************************************************************************)
Session == [at : Stage, payment : Payments, case : Cases, entry : RunnableStates,
            held : PaymentRow, reason : FailureReason,
            before : PaymentRow, after : PaymentRow, ordered : {0, 1},
            act : Actions, row : ActionRow, final : CaseState \cup {None}]

NoSession ==
    [at |-> "idle", payment |-> NoCase.payment, case |-> NoAction.case, entry |-> "DETECTED",
     held |-> NoPayment, reason |-> "UNKNOWN", before |-> NoPayment, after |-> NoPayment,
     ordered |-> 0, act |-> CHOOSE a \in Actions : TRUE, row |-> NoAction, final |-> None]

SInit == Init /\ sessions = [s \in Sessions |-> NoSession]

Move(s, next) == sessions' = [sessions EXCEPT ![s] = next]

(***************************************************************************)
(* Locks and visibility.                                                   *)
(***************************************************************************)
Busy(s)  == sessions[s].at # "idle"
QuietUntilGated(p) ==                        \* mutant of Quiet: let go before the execution
    \A s \in Sessions : sessions[s].at \in {"begun", "diagnosed"} => sessions[s].payment # p
Quiet(p) == Exclusive => \A s \in Sessions : Busy(s) => sessions[s].payment # p

\* A full cycle locks its case when the audit event of the diagnosis flushes
\* the first state change, a resumption only with everything else.
HoldsCase(s, c) ==
    /\ sessions[s].at \in {"gated", "executed", "ending"} /\ sessions[s].entry # "SCHEDULED"
    /\ sessions[s].case = c
HoldsPayment(s, p)   == sessions[s].at = "recorded" /\ sessions[s].payment = p
CaseUnlocked(s, c)   == \A o \in Sessions \ {s} : ~HoldsCase(o, c)
PaymentUnlocked(s, p) == \A o \in Sessions \ {s} : ~HoldsPayment(o, p)

\* session.get(Payment): the object in hand, else the committed row.
PaymentOfSession(s) ==
    IF sessions[s].held.status # Absent THEN sessions[s].held ELSE payments[sessions[s].payment]

MergeCounter(row, before, after) ==          \* mutant of Merge
    [row EXCEPT !.attempts = after.attempts]
\* An UPDATE sets the columns that differ from what was read.
Merge(row, before, after) ==
    [column \in DOMAIN row |-> IF after[column] = before[column] THEN row[column] ELSE after[column]]

(***************************************************************************)
(* A workflow run.                                                         *)
(***************************************************************************)
\* The autopilot takes its payment object along from run to run of a case.
HeldRows(s, c) ==
    IF s \notin Batch THEN {NoPayment}
    ELSE {payments[cases[c].payment]}
         \cup {row \in {sessions[s].held} : sessions[s].case = c /\ row.status # Absent}

BeginRun(s, c) ==
    /\ ~Busy(s) /\ cases[c].state \in RunnableStates /\ Quiet(cases[c].payment)
    /\ \E row \in HeldRows(s, c) :
         Move(s, [NoSession EXCEPT !.at = "begun", !.case = c, !.payment = cases[c].payment,
                                   !.entry = cases[c].state, !.held = row])
    /\ UNCHANGED vars

ContextOfSession(s) == ContextFrom(PaymentOfSession(s), sessions[s].payment)

\* The first context only serves the diagnosis.
Diagnose(s) ==
    /\ sessions[s].at = "begun" /\ sessions[s].entry # "SCHEDULED"
    /\ Move(s, [sessions[s] EXCEPT !.at = "diagnosed", !.reason = ContextOfSession(s).reason])
    /\ UNCHANGED vars

EscalateBlocked(c, t, verdict) ==            \* mutant of Disposition
    [final |-> "ESCALATED", row |-> [Proposed(c, t) EXCEPT !.status = "ESCALATED"]]

\* What a decision that executes nothing leaves behind.
Disposition(c, t, verdict) ==
    CASE verdict = "BLOCKED"   -> [final |-> "STOPPED", row |-> [Proposed(c, t) EXCEPT !.status = "BLOCKED"]]
      [] verdict = "ESCALATED" -> [final |-> "ESCALATED", row |-> [Proposed(c, t) EXCEPT !.status = "ESCALATED"]]
      [] OTHER -> IF t = "RETRY_LATER" THEN [final |-> "SCHEDULED", row |-> DeferredRetry(c)]
                  ELSE [final |-> IF t = "STOP" THEN "STOPPED" ELSE "ESCALATED",
                        row   |-> [Proposed(c, t) EXCEPT !.status = "APPROVED"]]

\* The case row is locked from here on; the second context decides.
Decide(s, t) ==
    LET session == sessions[s]
        ctx     == ContextOfSession(s)
        verdict == PolicyVerdict(ctx, t)
        result  == Disposition(session.case, t, verdict)
    IN  /\ session.at = "diagnosed" /\ CaseUnlocked(s, session.case)
        /\ t \in CandidateActions(session.payment, session.reason)
        /\ Move(s, IF verdict = "APPROVED" /\ t \notin TerminalActions \cup {"RETRY_LATER"}
                   THEN [session EXCEPT !.at = "gated", !.reason = ctx.reason,
                                        !.row = Proposed(session.case, t)]
                   ELSE [session EXCEPT !.at = "ending", !.row = result.row, !.final = result.final])
        /\ UNCHANGED vars

\* What a session leaves in memory when its run is over.
Ended(s) == IF s \in Batch
            THEN [NoSession EXCEPT !.case = sessions[s].case, !.payment = sessions[s].payment,
                                   !.held = IF sessions[s].at = "executed" THEN sessions[s].after
                                            ELSE sessions[s].held]
            ELSE NoSession

\* A scheduled case: nothing pending, not due yet, or due.
Resume(s) ==
    LET session == sessions[s]
        pending == PendingActions(session.case)
    IN  /\ session.at = "begun" /\ session.entry = "SCHEDULED"
        /\ IF pending = {}
           THEN Move(s, [session EXCEPT !.at = "ending", !.final = "FAILED"])
           ELSE \E a \in pending :
                  /\ \A b \in pending : actions[a].wait <= actions[b].wait
                  /\ Move(s, IF actions[a].wait > 0 THEN Ended(s)
                             ELSE [session EXCEPT !.at = "gated", !.reason = ContextOfSession(s).reason,
                                                  !.act = a, !.row = actions[a]])
        /\ UNCHANGED vars

\* The provider answers; what it did outside the database is done.
ExecuteStep(s) ==
    LET session == sessions[s]
        row     == PaymentOfSession(s)
    IN  /\ session.at = "gated"
        /\ \E e \in Effects(row, session.reason, session.row.type) :
             LET recovered == e.payment.status = "SUCCEEDED" /\ row.status # "SUCCEEDED"
             IN  /\ orders' = [orders EXCEPT ![session.payment] = @ + e.ordered]
                 /\ Move(s, [session EXCEPT
                      !.at = "executed", !.before = row, !.after = e.payment, !.ordered = e.ordered,
                      !.final = IF recovered THEN "RECOVERED" ELSE "FAILED",
                      !.row.status   = IF e.reported THEN "EXECUTED" ELSE "FAILED",
                      !.row.executed = TRUE,
                      !.row.outcome  = IF recovered THEN "recovered" ELSE "unrecovered"])
        /\ UNCHANGED <<payments, cases, actions, detecting>>

\* The one commit of a run.
CommitRun(s) ==
    LET session == sessions[s] IN
    /\ session.at \in {"executed", "ending"}
    /\ CaseUnlocked(s, session.case)
    /\ session.before # session.after => PaymentUnlocked(s, session.payment)
    /\ payments' = [payments EXCEPT ![session.payment] = Merge(@, session.before, session.after)]
    /\ cases' = [cases EXCEPT ![session.case].state = session.final]
    /\ IF session.row.status = Absent THEN UNCHANGED actions
       ELSE IF session.entry = "SCHEDULED"
       THEN actions' = [actions EXCEPT ![session.act].status   = session.row.status,
                                       ![session.act].executed = TRUE,
                                       ![session.act].outcome  = session.row.outcome]
       ELSE SomeActionFree /\ actions' = [actions EXCEPT ![FreshAction] = session.row]
    /\ Move(s, Ended(s))
    /\ UNCHANGED <<detecting, orders>>

(***************************************************************************)
(* Failures.  Everything a session wrote is rolled back and its locks are  *)
(* gone, be it that a stage raised, that the database chose it to resolve  *)
(* a deadlock or that the process died; an order at Razorpay stays.        *)
(***************************************************************************)
\* Orders placed by runs that have not committed.
InFlight(p) == {s \in Sessions : /\ sessions[s].at = "executed" /\ sessions[s].ordered = 1
                                 /\ sessions[s].payment = p}
Settled == [p \in Payments |-> orders[p] - Cardinality(InFlight(p))]

MayAbandon(s) == s \in InFlight(sessions[s].payment) =>
                     Settled[sessions[s].payment] < OrderCap /\ SomeActionFree

RunFails(s) ==
    /\ sessions[s].at \in {"begun", "diagnosed", "gated", "executed", "ending"} /\ MayAbandon(s)
    /\ Move(s, [NoSession EXCEPT !.at = "failing", !.case = sessions[s].case,
                                 !.payment = sessions[s].payment, !.entry = sessions[s].entry])
    /\ UNCHANGED vars

\* The handler reads the case again and sets its state; nothing is written
\* to the column when that is what it was.
ReadForRestore(s) ==
    /\ sessions[s].at = "failing"
    /\ Move(s, [sessions[s] EXCEPT !.at = "restoring",
                  !.final = IF cases[sessions[s].case].state = sessions[s].entry
                            THEN None ELSE sessions[s].entry])
    /\ UNCHANGED vars

KeepStageOnFailure(s) ==                     \* mutant of RestoreEntry
    /\ sessions[s].at = "restoring" /\ CaseUnlocked(s, sessions[s].case)
    /\ cases' = [cases EXCEPT ![sessions[s].case].state = "EVALUATING"]
    /\ Move(s, NoSession)
    /\ UNCHANGED <<payments, actions, detecting, orders>>

RestoreEntry(s) ==
    /\ sessions[s].at = "restoring" /\ CaseUnlocked(s, sessions[s].case)
    /\ cases' = IF sessions[s].final = None THEN cases
                ELSE [cases EXCEPT ![sessions[s].case].state = sessions[s].final]
    /\ Move(s, NoSession)
    /\ UNCHANGED <<payments, actions, detecting, orders>>

Die(s) ==
    /\ Busy(s) /\ MayAbandon(s)
    /\ Move(s, NoSession)
    /\ UNCHANGED vars

(***************************************************************************)
(* A capture webhook: the payment first, then the case.                    *)
(***************************************************************************)
Notify(s, p) ==
    /\ ~Busy(s) /\ s \notin Batch /\ Quiet(p)
    /\ payments[p].status # Absent /\ payments[p].attempts < AttemptCap
    /\ Move(s, [NoSession EXCEPT !.at = "notified", !.payment = p, !.before = payments[p],
                  !.after = RecordRecoveryAttempt(payments[p], "SUCCEEDED", None)])
    /\ UNCHANGED vars

RecordCapture(s) ==
    LET session == sessions[s] IN
    /\ session.at = "notified" /\ PaymentUnlocked(s, session.payment)
    /\ IF OpenCases(session.payment) = {}
       THEN Move(s, [session EXCEPT !.at = "recorded"])
       ELSE \E c \in OpenCases(session.payment) :
              Move(s, [session EXCEPT !.at = "recorded", !.case = c, !.final = "RECOVERED"])
    /\ UNCHANGED vars

CommitCapture(s) ==
    LET session == sessions[s] IN
    /\ session.at = "recorded"
    /\ payments' = [payments EXCEPT ![session.payment] = Merge(@, session.before, session.after)]
    /\ IF session.final = None THEN UNCHANGED cases
       ELSE /\ CaseUnlocked(s, session.case)
            /\ cases' = [cases EXCEPT ![session.case].state = session.final]
    /\ Move(s, NoSession)
    /\ UNCHANGED <<actions, detecting, orders>>

(***************************************************************************)
(* Every other request is one step, as in Recovery, and waits for the lock *)
(* on a payment it writes.                                                 *)
(***************************************************************************)
Request(p) ==
    /\ Quiet(p)
    /\ \/ /\ \A s \in Sessions : ~HoldsPayment(s, p)
          /\ \/ \E status \in PaymentStatus, reason \in IngestReasons \cup {None}, open \in OpenOnIngest :
                  CreatePayment(p, status, reason, open)
             \/ \E reason \in IngestReasons : PaymentFailedWebhook(p, reason)
       \/ DetectRisk(p)
       \/ LoseRequest(p)
    /\ UNCHANGED sessions

\* Also the due time that a run has computed and not yet committed comes closer.
TickAll(row) == [row EXCEPT !.wait = @ - 1]  \* mutant of Tick
Tick(row) == IF row.wait > 0 THEN [row EXCEPT !.wait = @ - 1] ELSE row
TimePasses ==
    /\ Exclusive => \A s \in Sessions : ~Busy(s)
    /\ \/ \E a \in Actions : actions[a].wait > 0
       \/ \E s \in Sessions : sessions[s].row.wait > 0
    /\ actions'  = [a \in Actions |-> Tick(actions[a])]
    /\ sessions' = [s \in Sessions |-> [sessions[s] EXCEPT !.row = Tick(@)]]
    /\ UNCHANGED <<payments, cases, detecting, orders>>

SNext ==
    \/ \E s \in Sessions :
         \/ \E c \in Cases : BeginRun(s, c)
         \/ Diagnose(s)
         \/ \E t \in ActionType : Decide(s, t)
         \/ Resume(s)
         \/ ExecuteStep(s)
         \/ CommitRun(s)
         \/ RunFails(s)
         \/ ReadForRestore(s)
         \/ RestoreEntry(s)
         \/ Die(s)
         \/ \E p \in Payments : Notify(s, p)
         \/ RecordCapture(s)
         \/ CommitCapture(s)
    \/ \E p \in Payments : Request(p)
    \/ TimePasses

SSpec == SInit /\ [][SNext]_svars

(***************************************************************************)
(* Properties.                                                             *)
(***************************************************************************)
\* Rows and sessions have the fields their stages rely on.
SessionsTypeOK == TypeOK /\ sessions \in [Sessions -> Session]

\* Sessions that exclude each other implement the atomic runs and webhooks of
\* Recovery, with an order counted once its run has committed or failed: what
\* is shown there for transactions holds for the code that issues them.
Committed == INSTANCE Recovery WITH orders <- Settled
ExclusiveRunsAreAtomic == Committed!Init /\ [][Committed!Next]_(Committed!vars)

\* Whatever sessions overlap, fail or die, no committed case is left in a state
\* no run may start from, which would lock it out of recovery (CaseNotRunnable).
CommittedCaseRunnable ==
    \A c \in Cases : cases[c].state \in RunnableStates \cup TerminalStates \cup {Absent}

\* However runs overlap, an outcome verified as recovered is committed together
\* with a captured payment.
RecoveredIsCaptured ==
    [][\A a \in Actions :
         actions'[a].outcome = "recovered" /\ actions[a].outcome # "recovered" =>
             payments'[cases[actions'[a].case].payment].status = "SUCCEEDED"]_svars

\* "no transition out of a terminal state a property of the data rather than a
\* check someone must remember to write" (state_machine.py:9-11).
NoWayOutOfTerminal ==
    [][\A c \in Cases : cases[c].state \in TerminalStates => cases'[c] = cases[c]]_svars

\* "Recovering an already-successful payment would double-charge a customer, so
\* this runs first" (policy_rules.py:92-93): no order for a captured payment.
NoOrderForCaptured ==
    [][\A p \in Payments : orders'[p] # orders[p] => payments[p].status # "SUCCEEDED"]_svars
==============================================================================
