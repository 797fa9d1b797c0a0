----------------------- MODULE WorkflowSessions_proofs -----------------------
(***************************************************************************)
(* What holds of workflow sessions however many of them overlap, fail and  *)
(* die, with and without exclusion.                                        *)
(***************************************************************************)
EXTENDS WorkflowSessions, Recovery_proofs

RunStages == {"begun", "diagnosed", "gated", "executed", "ending", "failing", "restoring"}

(***************************************************************************)
(* What a session knows of the database stays true because rows are never  *)
(* deleted: a case keeps its payment and an action its case.               *)
(***************************************************************************)
KnowsItsCase(session) ==
    session.at \in RunStages =>
        cases[session.case].state # Absent /\ cases[session.case].payment = session.payment

KnowsItsAction(session) ==
    session.at \in {"gated", "executed"} =>
        IF session.entry = "SCHEDULED"
        THEN Exists(session.act) /\ actions[session.act].case = session.case
        ELSE session.row.case = session.case

\* A scheduled case is not decided again, and has no new action.
StartsAfresh(session) ==
    /\ session.at = "begun"     => session.row.status = Absent
    /\ session.at = "diagnosed" => session.entry # "SCHEDULED"

\* What a session is about to commit.
WritesAnOutcome(session) ==
    session.at = "executed" =>
        /\ session.final \in {"RECOVERED", "FAILED"}
        /\ session.row.status # Absent
        /\ session.row.outcome = "recovered" =>
             session.before.status # "SUCCEEDED" /\ session.after.status = "SUCCEEDED"

WritesADisposition(session) ==
    session.at = "ending" =>
        /\ session.final \in {"STOPPED", "ESCALATED", "SCHEDULED", "FAILED"}
        /\ session.row.status # Absent =>
             session.entry # "SCHEDULED" /\ session.row.outcome = None

WritesACaseState(session) ==
    /\ session.at = "restoring" => session.final \in RunnableStates \cup {None}
    /\ session.at = "notified"  => session.final = None
    /\ session.at = "recorded"  =>
         session.final = None \/ (session.final = "RECOVERED" /\ cases[session.case].state # Absent)

Sound(session) ==
    /\ KnowsItsCase(session) /\ KnowsItsAction(session) /\ StartsAfresh(session)
    /\ WritesAnOutcome(session) /\ WritesADisposition(session) /\ WritesACaseState(session)

SessionsInv ==
    /\ SessionsTypeOK
    /\ CommittedCaseRunnable
    /\ \A s \in Sessions : Sound(sessions[s])

\* What no step does to a row another session relies on.
RowsPersist ==
    /\ \A c \in Cases : cases[c].state # Absent =>
          cases'[c].state # Absent /\ cases'[c].payment = cases[c].payment
    /\ \A a \in Actions : Exists(a) => Exists(a)' /\ actions'[a].case = actions[a].case

(***************************************************************************)
(* Typed building blocks.                                                  *)
(***************************************************************************)
\* A session that does nothing is well typed.
LEMMA NoSessionType == NoSession \in Session
<1>1. NoCase.payment \in Payments /\ NoAction.case \in Cases /\ (CHOOSE a \in Actions : TRUE) \in Actions
  BY ConstantsAssumption, SessionsAssumption DEF NoCase, NoAction, Proposed
<1>2. NoPayment \in PaymentRow
  BY DEF NoPayment, PaymentRow
<1>3. NoAction \in ActionRow
  <2>1. Proposed(CHOOSE c \in Cases : TRUE, "STOP") \in ActionRow
    BY ConstantsAssumption, ProposedType DEF ActionType
  <2> QED
    BY <2>1 DEF NoAction, ActionRow
<1> QED
  BY <1>1, <1>2, <1>3
     DEF NoSession, Session, Stage, RunnableStates, FailureReason

\* An executor places at most one order.
LEMMA EffectsOrdered ==
    ASSUME NEW row, NEW reason, NEW t, NEW e \in Effects(row, reason, t)
    PROVE  e.ordered \in {0, 1}
  BY DEF Effects, SimulatorEffects, RazorpayEffects, RazorpayRetryNow, RazorpayRetryLater,
         RazorpayLink, Effect

\* The columns two updates differ in are merged into a row of the table.
LEMMA MergeType ==
    ASSUME NEW row \in PaymentRow, NEW before \in PaymentRow, NEW after \in PaymentRow
    PROVE  Merge(row, before, after) \in PaymentRow
  BY DEF Merge, PaymentRow

\* The payment a session works with.
LEMMA PaymentOfSessionType ==
    ASSUME SessionsTypeOK, NEW s \in Sessions
    PROVE  /\ PaymentOfSession(s) \in PaymentRow
           /\ ContextOfSession(s).reason \in FailureReason
<1>1. PaymentOfSession(s) \in PaymentRow
  BY DEF SessionsTypeOK, TypeOK, Session, PaymentOfSession
<1> QED
  BY <1>1 DEF ContextOfSession, ContextFrom, PaymentRow, FailureReason
(***************************************************************************)
(* Steps of one session.                                                   *)
(***************************************************************************)
\* A session that does not move stays sound when no row it relies on goes away.
LEMMA StaysSound ==
    ASSUME SessionsInv, RowsPersist, NEW o \in Sessions, sessions'[o] = sessions[o]
    PROVE  Sound(sessions[o])'
<1>1. Sound(sessions[o]) /\ sessions[o] \in Session
  BY DEF SessionsInv, SessionsTypeOK
<1>2. sessions[o].case \in Cases /\ sessions[o].act \in Actions
  BY <1>1 DEF Session
<1> QED
  BY <1>1, <1>2
     DEF RowsPersist, Sound, KnowsItsCase, KnowsItsAction, StartsAfresh, WritesAnOutcome, WritesADisposition,
         WritesACaseState

LEMMA OthersStaySound ==
    ASSUME SessionsInv, NEW s \in Sessions, \A o \in Sessions : o # s => sessions'[o] = sessions[o],
           RowsPersist, SessionsTypeOK', CommittedCaseRunnable', Sound(sessions[s])'
    PROVE  SessionsInv'
  BY StaysSound DEF SessionsInv

\* A step of a session that writes nothing to the database.
LEMMA QuietMove ==
    ASSUME SessionsInv, NEW s \in Sessions, NEW next \in Session, Move(s, next), Sound(next),
           UNCHANGED <<payments, cases, actions, detecting>>, orders' \in [Payments -> Nat]
    PROVE  SessionsInv'
<1>1. /\ sessions' \in [Sessions -> Session] /\ sessions'[s] = next
      /\ \A o \in Sessions : o # s => sessions'[o] = sessions[o]
  BY DEF Move, SessionsInv, SessionsTypeOK
<1>2. SessionsTypeOK'
  BY <1>1 DEF SessionsInv, SessionsTypeOK, TypeOK
<1>3. CommittedCaseRunnable'
  BY DEF SessionsInv, CommittedCaseRunnable
<1>4. RowsPersist
  BY DEF RowsPersist, Exists
<1>5. Sound(sessions[s])'
  BY <1>1 DEF Sound, KnowsItsCase, KnowsItsAction, StartsAfresh, WritesAnOutcome, WritesADisposition,
         WritesACaseState, Exists
<1> QED
  BY <1>1, <1>2, <1>3, <1>4, <1>5, OthersStaySound

\* An idle session relies on nothing.
LEMMA IdleIsSound ==
    ASSUME NEW session, session.at = "idle"
    PROVE  Sound(session)
  BY DEF Sound, KnowsItsCase, KnowsItsAction, StartsAfresh, WritesAnOutcome, WritesADisposition,
         WritesACaseState, RunStages

\* What a run leaves in memory is a session that does nothing.
LEMMA EndedType ==
    ASSUME SessionsTypeOK, NEW s \in Sessions
    PROVE  Ended(s) \in Session /\ Ended(s).at = "idle"
<1>1. sessions[s] \in Session
  BY DEF SessionsTypeOK
<1>2. NoSession.at = "idle"
  BY DEF NoSession
<1> QED
  BY <1>1, <1>2, NoSessionType DEF Ended, Session

LEMMA BeginRunStep ==
    ASSUME SessionsInv, NEW s \in Sessions, NEW c \in Cases, BeginRun(s, c)
    PROVE  SessionsInv'
<1>1. PICK row \in HeldRows(s, c) :
        Move(s, [NoSession EXCEPT !.at = "begun", !.case = c, !.payment = cases[c].payment,
                                  !.entry = cases[c].state, !.held = row])
  BY DEF BeginRun
<1> DEFINE next == [NoSession EXCEPT !.at = "begun", !.case = c, !.payment = cases[c].payment,
                                  !.entry = cases[c].state, !.held = row]
<1>2. row \in PaymentRow
  <2>1. NoPayment \in PaymentRow
    BY DEF NoPayment, PaymentRow
  <2> QED
    BY <1>1, <2>1 DEF HeldRows, SessionsInv, SessionsTypeOK, TypeOK, CaseRow, Session
<1>3. cases[c].payment \in Payments /\ cases[c].state \in RunnableStates
  BY DEF BeginRun, SessionsInv, SessionsTypeOK, TypeOK, CaseRow
<1>4. /\ next \in Session /\ next.at = "begun" /\ next.case = c /\ next.payment = cases[c].payment
      /\ next.row.status = Absent
  <2>1. NoSession.row.status = Absent
    <3>1. Proposed(CHOOSE x \in Cases : TRUE, "STOP") \in ActionRow
      BY ConstantsAssumption, ProposedType DEF ActionType
    <3> QED
      BY <3>1 DEF NoSession, NoAction, ActionRow
  <2> QED
    BY <1>2, <1>3, <2>1, NoSessionType DEF Session, Stage
<1>5. Sound(next)
  BY <1>3, <1>4
     DEF Sound, KnowsItsCase, KnowsItsAction, StartsAfresh, WritesAnOutcome, WritesADisposition,
         WritesACaseState, RunnableStates, Absent
<1> HIDE DEF next
<1> QED
  BY <1>1, <1>4, <1>5, QuietMove DEF BeginRun, vars, next, SessionsInv, SessionsTypeOK, TypeOK

LEMMA DiagnoseStep ==
    ASSUME SessionsInv, NEW s \in Sessions, Diagnose(s)
    PROVE  SessionsInv'
<1> DEFINE next == [sessions[s] EXCEPT !.at = "diagnosed", !.reason = ContextOfSession(s).reason]
<1>1. sessions[s] \in Session /\ Sound(sessions[s]) /\ ContextOfSession(s).reason \in FailureReason
  BY PaymentOfSessionType DEF SessionsInv, SessionsTypeOK
<1>2. /\ next \in Session /\ next.at = "diagnosed"
      /\ next.case = sessions[s].case /\ next.payment = sessions[s].payment
  BY <1>1 DEF Session, Stage
<1>3. Sound(next)
  BY <1>1, <1>2
     DEF Diagnose, Sound, KnowsItsCase, KnowsItsAction, StartsAfresh, WritesAnOutcome, WritesADisposition,
         WritesACaseState, RunStages
<1>4. Move(s, next) /\ UNCHANGED vars
  BY DEF Diagnose
<1> HIDE DEF next
<1> QED
  BY <1>2, <1>3, <1>4, QuietMove DEF vars, SessionsInv, SessionsTypeOK, TypeOK
LEMMA DecideStep ==
    ASSUME SessionsInv, NEW s \in Sessions, NEW t \in ActionType, Decide(s, t)
    PROVE  SessionsInv'
<1> DEFINE session  == sessions[s]
           ctx      == ContextOfSession(s)
           verdict  == PolicyVerdict(ctx, t)
           result   == Disposition(session.case, t, verdict)
           approved == [session EXCEPT !.at = "gated", !.reason = ctx.reason,
                                       !.row = Proposed(session.case, t)]
           disposed == [session EXCEPT !.at = "ending", !.row = result.row, !.final = result.final]
<1>1. /\ session \in Session /\ Sound(session) /\ session.at = "diagnosed"
      /\ session.case \in Cases /\ ctx.reason \in FailureReason
  BY PaymentOfSessionType DEF Decide, SessionsInv, SessionsTypeOK, Session
<1>2. Move(s, approved) \/ Move(s, disposed)
  BY DEF Decide
<1>3. UNCHANGED <<payments, cases, actions, detecting>> /\ orders' \in [Payments -> Nat]
  BY DEF Decide, vars, SessionsInv, SessionsTypeOK, TypeOK
<1>4. session.entry # "SCHEDULED"
  BY <1>1 DEF Sound, StartsAfresh
<1>5. CASE Move(s, approved)
  <2>1. Proposed(session.case, t) \in ActionRow /\ Proposed(session.case, t).case = session.case
    BY <1>1, ProposedType DEF Proposed
  <2>2. /\ approved \in Session /\ approved.at = "gated" /\ approved.entry = session.entry
        /\ approved.case = session.case /\ approved.payment = session.payment
        /\ approved.row.case = session.case
    BY <1>1, <2>1 DEF Session, Stage
  <2>3. Sound(approved)
    BY <1>1, <1>4, <2>2
       DEF Sound, KnowsItsCase, KnowsItsAction, StartsAfresh, WritesAnOutcome, WritesADisposition,
           WritesACaseState, RunStages
  <2> HIDE DEF approved
  <2> QED
    BY <1>3, <1>5, <2>2, <2>3, QuietMove
<1>6. CASE Move(s, disposed)
  <2>1. /\ result.row \in ActionRow /\ result.row.outcome = None
        /\ result.final \in {"STOPPED", "ESCALATED", "SCHEDULED"}
    <3>1. /\ [Proposed(session.case, t) EXCEPT !.status = "BLOCKED"] \in ActionRow
          /\ [Proposed(session.case, t) EXCEPT !.status = "ESCALATED"] \in ActionRow
          /\ [Proposed(session.case, t) EXCEPT !.status = "APPROVED"] \in ActionRow
      BY <1>1, ProposedType DEF ActionRow, ActionStatus
    <3>2. DeferredRetry(session.case) \in ActionRow
      BY <1>1, ConstantsAssumption
         DEF DeferredRetry, Proposed, ActionRow, ActionType, ActionStatus, Outcome
    <3>3. CASE verdict \in {"BLOCKED", "ESCALATED"}
      BY <3>1, <3>3 DEF Disposition, Proposed
    <3>4. CASE verdict \notin {"BLOCKED", "ESCALATED"}
      BY <3>1, <3>2, <3>4 DEF Disposition, Proposed, DeferredRetry
    <3> QED
      BY <3>3, <3>4
  <2> HIDE DEF result
  <2>2. /\ disposed \in Session /\ disposed.at = "ending" /\ disposed.entry = session.entry
        /\ disposed.case = session.case /\ disposed.payment = session.payment
        /\ disposed.row = result.row /\ disposed.final = result.final
    BY <1>1, <2>1 DEF Session, Stage, CaseState
  <2>3. Sound(disposed)
    BY <1>1, <1>4, <2>1, <2>2
       DEF Sound, KnowsItsCase, KnowsItsAction, StartsAfresh, WritesAnOutcome, WritesADisposition,
           WritesACaseState, RunStages
  <2> HIDE DEF disposed
  <2> QED
    BY <1>3, <1>6, <2>2, <2>3, QuietMove
<1> QED
  BY <1>2, <1>5, <1>6

LEMMA ResumeStep ==
    ASSUME SessionsInv, NEW s \in Sessions, Resume(s)
    PROVE  SessionsInv'
<1> DEFINE session == sessions[s]
<1>1. /\ session \in Session /\ Sound(session) /\ session.at = "begun"
      /\ session.entry = "SCHEDULED" /\ ContextOfSession(s).reason \in FailureReason
  BY PaymentOfSessionType DEF Resume, SessionsInv, SessionsTypeOK
<1>2. UNCHANGED <<payments, cases, actions, detecting>> /\ orders' \in [Payments -> Nat]
  BY DEF Resume, vars, SessionsInv, SessionsTypeOK, TypeOK
<1>3. CASE PendingActions(session.case) = {}
  <2> DEFINE next == [session EXCEPT !.at = "ending", !.final = "FAILED"]
  <2>1. Move(s, next)
    BY <1>3 DEF Resume
  <2>2. /\ next \in Session /\ next.at = "ending" /\ next.final = "FAILED"
        /\ next.case = session.case /\ next.payment = session.payment
        /\ next.row = session.row
    BY <1>1 DEF Session, Stage, CaseState
  <2>3. Sound(next)
    BY <1>1, <2>2
       DEF Sound, KnowsItsCase, KnowsItsAction, StartsAfresh, WritesAnOutcome, WritesADisposition,
           WritesACaseState, RunStages
  <2> HIDE DEF next
  <2> QED
    BY <1>2, <2>1, <2>2, <2>3, QuietMove
<1>4. CASE PendingActions(session.case) # {}
  <2>1. PICK a \in PendingActions(session.case) :
          Move(s, IF actions[a].wait > 0 THEN Ended(s)
                  ELSE [session EXCEPT !.at = "gated", !.reason = ContextOfSession(s).reason,
                                       !.act = a, !.row = actions[a]])
    BY <1>4 DEF Resume
  <2>2. a \in Actions /\ Exists(a) /\ actions[a].case = session.case /\ actions[a] \in ActionRow
    BY DEF PendingActions, Pending, SessionsInv, SessionsTypeOK, TypeOK
  <2>3. CASE actions[a].wait > 0
    <3>1. Move(s, Ended(s))
      BY <2>1, <2>3
    <3> QED
      BY <1>2, <3>1, EndedType, IdleIsSound, QuietMove DEF SessionsInv
  <2>4. CASE ~(actions[a].wait > 0)
    <3> DEFINE next == [session EXCEPT !.at = "gated", !.reason = ContextOfSession(s).reason,
                                       !.act = a, !.row = actions[a]]
    <3>1. Move(s, next)
      BY <2>1, <2>4
    <3>2. /\ next \in Session /\ next.at = "gated" /\ next.act = a /\ next.entry = "SCHEDULED"
          /\ next.case = session.case /\ next.payment = session.payment
      BY <1>1, <2>2 DEF Session, Stage
    <3>3. Sound(next)
      BY <1>1, <2>2, <3>2
         DEF Sound, KnowsItsCase, KnowsItsAction, StartsAfresh, WritesAnOutcome, WritesADisposition,
             WritesACaseState, RunStages
    <3> HIDE DEF next
    <3> QED
      BY <1>2, <3>1, <3>2, <3>3, QuietMove
  <2> QED
    BY <2>3, <2>4
<1> QED
  BY <1>3, <1>4

\* The outcome that is to be committed says "recovered" only of a payment that
\* was not captured and is to be committed as captured.
LEMMA ExecuteStepStep ==
    ASSUME SessionsInv, NEW s \in Sessions, ExecuteStep(s)
    PROVE  SessionsInv'
<1> DEFINE session == sessions[s]
<1>1. PICK row, e :
        /\ row \in PaymentRow
        /\ e \in Effects(row, session.reason, session.row.type)
        /\ orders' = [orders EXCEPT ![session.payment] = @ + e.ordered]
        /\ UNCHANGED <<payments, cases, actions, detecting>>
        /\ LET recovered == e.payment.status = "SUCCEEDED" /\ row.status # "SUCCEEDED"
           IN  Move(s, [session EXCEPT
                      !.at = "executed", !.before = row, !.after = e.payment, !.ordered = e.ordered,
                      !.final = IF recovered THEN "RECOVERED" ELSE "FAILED",
                      !.row.status   = IF e.reported THEN "EXECUTED" ELSE "FAILED",
                      !.row.executed = TRUE,
                      !.row.outcome  = IF recovered THEN "recovered" ELSE "unrecovered"])
  BY PaymentOfSessionType DEF ExecuteStep, SessionsInv
<1>2. /\ session \in Session /\ Sound(session) /\ session.at = "gated"
      /\ session.row \in ActionRow /\ session.row.type \in ActionType /\ session.reason \in FailureReason
  BY DEF ExecuteStep, SessionsInv, SessionsTypeOK, Session, ActionRow
<1>3. e.payment \in PaymentRow /\ e.ordered \in {0, 1}
  <2> HIDE DEF session
  <2> QED
    BY <1>1, <1>2, EffectsType, EffectsOrdered
<1> DEFINE recovered == e.payment.status = "SUCCEEDED" /\ row.status # "SUCCEEDED"
           next == [session EXCEPT
                      !.at = "executed", !.before = row, !.after = e.payment, !.ordered = e.ordered,
                      !.final = IF recovered THEN "RECOVERED" ELSE "FAILED",
                      !.row.status   = IF e.reported THEN "EXECUTED" ELSE "FAILED",
                      !.row.executed = TRUE,
                      !.row.outcome  = IF recovered THEN "recovered" ELSE "unrecovered"]
<1>4. Move(s, next)
  BY <1>1
<1>5. /\ next.at = "executed" /\ next.entry = session.entry /\ next.act = session.act
      /\ next.case = session.case /\ next.payment = session.payment
      /\ next.before = row /\ next.after = e.payment
      /\ next.final = IF recovered THEN "RECOVERED" ELSE "FAILED"
      /\ next.row.case = session.row.case /\ next.row.status # Absent
      /\ next.row.outcome = IF recovered THEN "recovered" ELSE "unrecovered"
  BY <1>2 DEF Session, ActionRow, Absent
<1>6. next \in Session
  <2>1. [session.row EXCEPT
            !.status   = IF e.reported THEN "EXECUTED" ELSE "FAILED",
            !.executed = TRUE,
            !.outcome  = IF recovered THEN "recovered" ELSE "unrecovered"] \in ActionRow
    BY <1>2 DEF ActionRow, ActionStatus, Outcome
  <2>2. next = [[session EXCEPT
                  !.at = "executed", !.before = row, !.after = e.payment, !.ordered = e.ordered,
                  !.final = IF recovered THEN "RECOVERED" ELSE "FAILED"] EXCEPT
                !.row = [session.row EXCEPT
                  !.status   = IF e.reported THEN "EXECUTED" ELSE "FAILED",
                  !.executed = TRUE,
                  !.outcome  = IF recovered THEN "recovered" ELSE "unrecovered"]]
    BY <1>2 DEF Session
  <2> QED
    BY <1>1, <1>2, <1>3, <2>1, <2>2 DEF Session, Stage, CaseState
<1>7. Sound(next)
  <2> HIDE DEF next
  <2> QED
    BY <1>2, <1>5
       DEF Sound, KnowsItsCase, KnowsItsAction, StartsAfresh, WritesAnOutcome, WritesADisposition,
           WritesACaseState, RunStages
<1>8. UNCHANGED <<payments, cases, actions, detecting>> /\ orders' \in [Payments -> Nat]
  BY <1>1, <1>2, <1>3 DEF SessionsInv, SessionsTypeOK, TypeOK, Session
<1> HIDE DEF next
<1> QED
  BY <1>4, <1>6, <1>7, <1>8, QuietMove
\* The same after a step that ends its work.
LEMMA IdleStaysSound ==
    ASSUME NEW s, sessions'[s].at = "idle"
    PROVE  Sound(sessions[s])'
  BY DEF Sound, KnowsItsCase, KnowsItsAction, StartsAfresh, WritesAnOutcome, WritesADisposition,
         WritesACaseState, RunStages

\* What a session commits is typed, leaves the case in a state a run may start
\* from or in a terminal one, and takes no row away.
LEMMA CommitRunStep ==
    ASSUME SessionsInv, NEW s \in Sessions, CommitRun(s)
    PROVE  SessionsInv'
<1> DEFINE session == sessions[s]
<1>1. /\ session \in Session /\ Sound(session) /\ session.at \in {"executed", "ending"}
      /\ session.case \in Cases /\ session.payment \in Payments /\ session.act \in Actions
      /\ session.row \in ActionRow
      /\ session.before \in PaymentRow /\ session.after \in PaymentRow
  BY DEF CommitRun, SessionsInv, SessionsTypeOK, Session
<1>2. /\ payments' = [payments EXCEPT ![session.payment] = Merge(@, session.before, session.after)]
      /\ cases' = [cases EXCEPT ![session.case].state = session.final]
      /\ Move(s, Ended(s))
      /\ UNCHANGED <<detecting, orders>>
      /\ \/ UNCHANGED actions
         \/ /\ session.entry = "SCHEDULED" /\ session.row.status # Absent
            /\ actions' = [actions EXCEPT ![session.act].status   = session.row.status,
                                          ![session.act].executed = TRUE,
                                          ![session.act].outcome  = session.row.outcome]
         \/ SomeActionFree /\ session.row.status # Absent
            /\ actions' = [actions EXCEPT ![FreshAction] = session.row]
  BY DEF CommitRun
<1>3. session.final \in {"RECOVERED", "FAILED", "STOPPED", "ESCALATED", "SCHEDULED"}
  BY <1>1 DEF Sound, WritesAnOutcome, WritesADisposition
<1> HIDE DEF session
<1>4. payments' \in [Payments -> PaymentRow]
  BY <1>1, <1>2, MergeType DEF SessionsInv, SessionsTypeOK, TypeOK
<1>5. /\ cases' \in [Cases -> CaseRow]
      /\ cases'[session.case].state = session.final
      /\ cases'[session.case].payment = cases[session.case].payment
      /\ \A c \in Cases : c # session.case => cases'[c] = cases[c]
  BY <1>1, <1>2, <1>3 DEF SessionsInv, SessionsTypeOK, TypeOK, CaseRow, CaseState
<1>6. actions' \in [Actions -> ActionRow]
  BY <1>1, <1>2, FreshActionIsFree DEF SessionsInv, SessionsTypeOK, TypeOK, ActionRow
<1>7. /\ sessions' \in [Sessions -> Session] /\ sessions'[s].at = "idle"
      /\ \A o \in Sessions : o # s => sessions'[o] = sessions[o]
  BY <1>2, EndedType DEF Move, SessionsInv, SessionsTypeOK
<1>8. SessionsTypeOK'
  BY <1>2, <1>4, <1>5, <1>6, <1>7 DEF SessionsInv, SessionsTypeOK, TypeOK
<1>9. CommittedCaseRunnable'
  BY <1>3, <1>5 DEF SessionsInv, CommittedCaseRunnable, RunnableStates, TerminalStates
<1>10. RowsPersist
  <2>1. \A c \in Cases : cases[c].state # Absent =>
           cases'[c].state # Absent /\ cases'[c].payment = cases[c].payment
    BY <1>3, <1>5 DEF Absent
  <2>2. \A a \in Actions : Exists(a) => Exists(a)' /\ actions'[a].case = actions[a].case
    BY <1>1, <1>2, FreshActionIsFree DEF Exists, SessionsInv, SessionsTypeOK, TypeOK, ActionRow
  <2> QED
    BY <2>1, <2>2 DEF RowsPersist
<1> QED
  BY <1>7, <1>8, <1>9, <1>10, IdleStaysSound, OthersStaySound

LEMMA RunFailsStep ==
    ASSUME SessionsInv, NEW s \in Sessions, RunFails(s)
    PROVE  SessionsInv'
<1> DEFINE next == [NoSession EXCEPT !.at = "failing", !.case = sessions[s].case,
                                     !.payment = sessions[s].payment, !.entry = sessions[s].entry]
<1>1. /\ sessions[s] \in Session /\ Sound(sessions[s])
      /\ sessions[s].at \in {"begun", "diagnosed", "gated", "executed", "ending"}
      /\ Move(s, next) /\ UNCHANGED vars
  BY DEF RunFails, SessionsInv, SessionsTypeOK
<1>2. /\ next \in Session /\ next.at = "failing"
      /\ next.case = sessions[s].case /\ next.payment = sessions[s].payment
  BY <1>1, NoSessionType DEF Session, Stage
<1>3. Sound(next)
  BY <1>1, <1>2
     DEF Sound, KnowsItsCase, KnowsItsAction, StartsAfresh, WritesAnOutcome, WritesADisposition,
         WritesACaseState, RunStages
<1> HIDE DEF next
<1> QED
  BY <1>1, <1>2, <1>3, QuietMove DEF vars, SessionsInv, SessionsTypeOK, TypeOK

LEMMA ReadForRestoreStep ==
    ASSUME SessionsInv, NEW s \in Sessions, ReadForRestore(s)
    PROVE  SessionsInv'
<1> DEFINE next == [sessions[s] EXCEPT !.at = "restoring",
                      !.final = IF cases[sessions[s].case].state = sessions[s].entry
                                THEN None ELSE sessions[s].entry]
<1>1. /\ sessions[s] \in Session /\ Sound(sessions[s]) /\ sessions[s].at = "failing"
      /\ Move(s, next) /\ UNCHANGED vars
  BY DEF ReadForRestore, SessionsInv, SessionsTypeOK
<1>2. /\ next \in Session /\ next.at = "restoring" /\ next.final \in RunnableStates \cup {None}
      /\ next.case = sessions[s].case /\ next.payment = sessions[s].payment
  BY <1>1 DEF Session, Stage, RunnableStates, CaseState
<1>3. Sound(next)
  BY <1>1, <1>2
     DEF Sound, KnowsItsCase, KnowsItsAction, StartsAfresh, WritesAnOutcome, WritesADisposition,
         WritesACaseState, RunStages
<1> HIDE DEF next
<1> QED
  BY <1>1, <1>2, <1>3, QuietMove DEF vars, SessionsInv, SessionsTypeOK, TypeOK

\* A session that writes nothing or only the state of its case, and is idle then.
LEMMA CaseStateWritten ==
    ASSUME SessionsInv, NEW s \in Sessions, Move(s, NoSession),
           UNCHANGED cases \/ \E c \in Cases, state \in RunnableStates \cup TerminalStates :
              cases[c].state # Absent /\ cases' = [cases EXCEPT ![c].state = state],
           payments' \in [Payments -> PaymentRow], UNCHANGED <<actions, detecting, orders>>
    PROVE  SessionsInv'
<1>1. NoSession.at = "idle"
  BY DEF NoSession
<1>2. /\ sessions' \in [Sessions -> Session] /\ sessions'[s].at = "idle"
      /\ \A o \in Sessions : o # s => sessions'[o] = sessions[o]
  BY <1>1, NoSessionType DEF Move, SessionsInv, SessionsTypeOK
<1>3. /\ cases' \in [Cases -> CaseRow]
      /\ \A d \in Cases : \/ cases'[d] = cases[d]
                          \/ /\ cases[d].state # Absent
                             /\ cases'[d].state \in RunnableStates \cup TerminalStates
                             /\ cases'[d].payment = cases[d].payment
  BY DEF SessionsInv, SessionsTypeOK, TypeOK, CaseRow, CaseState, RunnableStates, TerminalStates
<1>4. SessionsTypeOK'
  BY <1>2, <1>3 DEF SessionsInv, SessionsTypeOK, TypeOK
<1>5. CommittedCaseRunnable'
  BY <1>3 DEF SessionsInv, CommittedCaseRunnable
<1>6. RowsPersist
  BY <1>3 DEF RowsPersist, Exists, RunnableStates, TerminalStates, Absent
<1> QED
  BY <1>2, <1>4, <1>5, <1>6, IdleStaysSound, OthersStaySound

LEMMA RestoreEntryStep ==
    ASSUME SessionsInv, NEW s \in Sessions, RestoreEntry(s)
    PROVE  SessionsInv'
<1> DEFINE session == sessions[s]
<1>1. /\ session \in Session /\ Sound(session) /\ session.at = "restoring" /\ session.case \in Cases
      /\ Move(s, NoSession) /\ UNCHANGED <<payments, actions, detecting, orders>>
      /\ cases' = IF session.final = None THEN cases
                  ELSE [cases EXCEPT ![session.case].state = session.final]
  BY DEF RestoreEntry, SessionsInv, SessionsTypeOK, Session
<1>2. /\ session.final \in RunnableStates \cup {None}
      /\ cases[session.case].state # Absent
  BY <1>1 DEF Sound, WritesACaseState, KnowsItsCase, RunStages
<1>3. payments' \in [Payments -> PaymentRow]
  BY <1>1 DEF SessionsInv, SessionsTypeOK, TypeOK
<1> HIDE DEF session
<1>4. UNCHANGED cases \/ \E c \in Cases, state \in RunnableStates \cup TerminalStates :
         cases[c].state # Absent /\ cases' = [cases EXCEPT ![c].state = state]
  BY <1>1, <1>2
<1> QED
  BY <1>1, <1>3, <1>4, CaseStateWritten

LEMMA DieStep ==
    ASSUME SessionsInv, NEW s \in Sessions, Die(s)
    PROVE  SessionsInv'
<1>1. Move(s, NoSession) /\ UNCHANGED vars
  BY DEF Die
<1>2. NoSession \in Session /\ Sound(NoSession)
  BY NoSessionType, IdleIsSound DEF NoSession
<1> QED
  BY <1>1, <1>2, QuietMove DEF vars, SessionsInv, SessionsTypeOK, TypeOK
LEMMA NotifyStep ==
    ASSUME SessionsInv, NEW s \in Sessions, NEW p \in Payments, Notify(s, p)
    PROVE  SessionsInv'
<1> DEFINE next == [NoSession EXCEPT !.at = "notified", !.payment = p, !.before = payments[p],
                      !.after = RecordRecoveryAttempt(payments[p], "SUCCEEDED", None)]
<1>1. payments[p] \in PaymentRow /\ Move(s, next) /\ UNCHANGED vars
  BY DEF Notify, SessionsInv, SessionsTypeOK, TypeOK
<1>2. RecordRecoveryAttempt(payments[p], "SUCCEEDED", None) \in PaymentRow
  BY <1>1, RecordType DEF PaymentStatus
<1>3. next \in Session /\ next.at = "notified" /\ next.final = None
  <2>1. NoSession.final = None
    BY DEF NoSession
  <2> QED
    BY <1>1, <1>2, <2>1, NoSessionType DEF Session, Stage
<1> HIDE DEF next
<1>4. Sound(next)
  BY <1>3
     DEF Sound, KnowsItsCase, KnowsItsAction, StartsAfresh, WritesAnOutcome, WritesADisposition,
         WritesACaseState, RunStages
<1> QED
  BY <1>1, <1>3, <1>4, QuietMove DEF vars, SessionsInv, SessionsTypeOK, TypeOK

LEMMA RecordCaptureStep ==
    ASSUME SessionsInv, NEW s \in Sessions, RecordCapture(s)
    PROVE  SessionsInv'
<1> DEFINE session == sessions[s]
<1>1. /\ session \in Session /\ Sound(session) /\ session.at = "notified" /\ UNCHANGED vars
  BY DEF RecordCapture, SessionsInv, SessionsTypeOK
<1>2. PICK next : /\ Move(s, next)
                  /\ \/ next = [session EXCEPT !.at = "recorded"]
                     \/ \E c \in Cases : /\ cases[c].state # Absent
                                         /\ next = [session EXCEPT !.at = "recorded", !.case = c,
                                                                   !.final = "RECOVERED"]
  <2>1. CASE OpenCases(session.payment) = {}
    BY <2>1 DEF RecordCapture
  <2>2. CASE OpenCases(session.payment) # {}
    <3>1. PICK c \in OpenCases(session.payment) :
            Move(s, [session EXCEPT !.at = "recorded", !.case = c, !.final = "RECOVERED"])
      BY <2>2 DEF RecordCapture
    <3>2. c \in Cases /\ cases[c].state # Absent
      BY DEF OpenCases, Open
    <3> QED
      BY <3>1, <3>2
  <2> QED
    BY <2>1, <2>2
<1>3. /\ next \in Session /\ next.at = "recorded"
      /\ next.final = None \/ (next.final = "RECOVERED" /\ cases[next.case].state # Absent)
  <2>1. session.final = None
    BY <1>1 DEF Sound, WritesACaseState
  <2>2. CASE next = [session EXCEPT !.at = "recorded"]
    <3>1. next.at = "recorded" /\ next.final = session.final /\ next \in Session
      BY <1>1, <2>2 DEF Session, Stage
    <3> QED
      BY <3>1, <2>1
  <2>3. CASE \E c \in Cases : /\ cases[c].state # Absent
                              /\ next = [session EXCEPT !.at = "recorded", !.case = c,
                                                        !.final = "RECOVERED"]
    BY <1>1, <2>3 DEF Session, Stage, CaseState
  <2> QED
    BY <1>2, <2>2, <2>3
<1>4. Sound(next)
  BY <1>3
     DEF Sound, KnowsItsCase, KnowsItsAction, StartsAfresh, WritesAnOutcome, WritesADisposition,
         WritesACaseState, RunStages
<1> QED
  BY <1>1, <1>2, <1>3, <1>4, QuietMove DEF vars, SessionsInv, SessionsTypeOK, TypeOK

LEMMA CommitCaptureStep ==
    ASSUME SessionsInv, NEW s \in Sessions, CommitCapture(s)
    PROVE  SessionsInv'
<1> DEFINE session == sessions[s]
<1>1. /\ session \in Session /\ Sound(session) /\ session.at = "recorded" /\ session.case \in Cases
      /\ Move(s, NoSession) /\ UNCHANGED <<actions, detecting, orders>>
      /\ payments' = [payments EXCEPT ![session.payment] = Merge(@, session.before, session.after)]
      /\ \/ session.final = None /\ cases' = cases
         \/ session.final # None /\ cases' = [cases EXCEPT ![session.case].state = session.final]
  BY DEF CommitCapture, SessionsInv, SessionsTypeOK, Session
<1>2. session.final = None \/ (session.final = "RECOVERED" /\ cases[session.case].state # Absent)
  BY <1>1 DEF Sound, WritesACaseState
<1>3. payments' \in [Payments -> PaymentRow]
  BY <1>1, MergeType DEF SessionsInv, SessionsTypeOK, TypeOK, Session
<1> HIDE DEF session
<1>4. UNCHANGED cases \/ \E c \in Cases, state \in RunnableStates \cup TerminalStates :
         cases[c].state # Absent /\ cases' = [cases EXCEPT ![c].state = state]
  BY <1>1, <1>2 DEF TerminalStates
<1> QED
  BY <1>1, <1>3, <1>4, CaseStateWritten

(***************************************************************************)
(* Requests and time.                                                      *)
(***************************************************************************)
\* A request is a step of Recovery, which keeps its tables typed.
LEMMA RequestStep ==
    ASSUME SessionsInv, NEW p \in Payments, Request(p)
    PROVE  SessionsInv'
<1>1. /\ UNCHANGED <<sessions, actions>>
      /\ TypeOK'
      /\ \/ UNCHANGED cases
         \/ /\ SomeCaseFree
            /\ cases' = [cases EXCEPT ![FreshCase] = [state |-> "DETECTED", payment |-> p]]
  <2>1. CASE \E status \in PaymentStatus, reason \in IngestReasons \cup {None}, open \in OpenOnIngest :
               CreatePayment(p, status, reason, open)
    <3>1. Next
      BY <2>1 DEF Next
    <3> QED
      BY <2>1, <3>1, StepType DEF Request, CreatePayment, SessionsInv, SessionsTypeOK
  <2>2. CASE \E reason \in IngestReasons : PaymentFailedWebhook(p, reason)
    <3>1. Next
      BY <2>2 DEF Next
    <3> QED
      BY <2>2, <3>1, StepType
         DEF Request, PaymentFailedWebhook, CreatePayment, FailPayment, SessionsInv, SessionsTypeOK
  <2>3. CASE DetectRisk(p)
    <3>1. Next
      BY <2>3 DEF Next
    <3> QED
      BY <2>3, <3>1, StepType DEF Request, DetectRisk, SessionsInv, SessionsTypeOK
  <2>4. CASE LoseRequest(p)
    <3>1. Next
      BY <2>4 DEF Next
    <3> QED
      BY <2>4, <3>1, StepType DEF Request, LoseRequest, SessionsInv, SessionsTypeOK
  <2> QED
    BY <2>1, <2>2, <2>3, <2>4 DEF Request
<1>2. \A c \in Cases : \/ cases'[c] = cases[c]
                       \/ cases[c].state = Absent /\ cases'[c] = [state |-> "DETECTED", payment |-> p]
  BY <1>1, FreshCaseIsFree DEF SessionsInv, SessionsTypeOK, TypeOK
<1>3. SessionsTypeOK'
  BY <1>1 DEF SessionsInv, SessionsTypeOK
<1>4. CommittedCaseRunnable'
  BY <1>2 DEF SessionsInv, CommittedCaseRunnable, RunnableStates
<1>5. RowsPersist
  BY <1>1, <1>2 DEF RowsPersist, Exists
<1>6. \A s \in Sessions : Sound(sessions[s])'
  BY <1>1, <1>5, StaysSound
<1> QED
  BY <1>3, <1>4, <1>6 DEF SessionsInv

\* Time changes only how long an action still waits.
LEMMA TimePassesStep ==
    ASSUME SessionsInv, TimePasses
    PROVE  SessionsInv'
<1>1. \A row \in ActionRow : Tick(row) \in ActionRow /\ Tick(row).status = row.status
                             /\ Tick(row).case = row.case /\ Tick(row).outcome = row.outcome
  BY DEF Tick, ActionRow
<1>2. /\ actions' = [a \in Actions |-> Tick(actions[a])]
      /\ sessions' = [s \in Sessions |-> [sessions[s] EXCEPT !.row = Tick(@)]]
      /\ UNCHANGED <<payments, cases, detecting, orders>>
  BY DEF TimePasses
<1>3. /\ actions' \in [Actions -> ActionRow]
      /\ \A a \in Actions : actions'[a].status = actions[a].status /\ actions'[a].case = actions[a].case
  BY <1>1, <1>2 DEF SessionsInv, SessionsTypeOK, TypeOK
<1>4. ASSUME NEW s \in Sessions
      PROVE  /\ sessions'[s] \in Session
             /\ sessions'[s] = [sessions[s] EXCEPT !.row = Tick(sessions[s].row)]
             /\ Sound(sessions[s])'
  <2>1. sessions[s] \in Session /\ sessions[s].row \in ActionRow /\ Sound(sessions[s])
    BY DEF SessionsInv, SessionsTypeOK, Session
  <2>2. sessions'[s] = [sessions[s] EXCEPT !.row = Tick(sessions[s].row)]
    BY <1>2
  <2>3. /\ sessions'[s] \in Session
        /\ sessions'[s].at = sessions[s].at /\ sessions'[s].entry = sessions[s].entry
        /\ sessions'[s].payment = sessions[s].payment /\ sessions'[s].case = sessions[s].case
        /\ sessions'[s].act = sessions[s].act /\ sessions'[s].final = sessions[s].final
        /\ sessions'[s].before = sessions[s].before /\ sessions'[s].after = sessions[s].after
        /\ sessions'[s].row = Tick(sessions[s].row)
    BY <1>1, <2>1, <2>2 DEF Session
  <2>4. sessions[s].act \in Actions
    BY <2>1 DEF Session
  <2> QED
    BY <1>1, <1>2, <1>3, <2>1, <2>2, <2>3, <2>4
       DEF Sound, KnowsItsCase, KnowsItsAction, StartsAfresh, WritesAnOutcome, WritesADisposition,
           WritesACaseState, RunStages, Exists
<1>5. sessions' \in [Sessions -> Session]
  BY <1>2, <1>4
<1>6. SessionsTypeOK'
  BY <1>2, <1>3, <1>5 DEF SessionsInv, SessionsTypeOK, TypeOK
<1>7. CommittedCaseRunnable'
  BY <1>2 DEF SessionsInv, CommittedCaseRunnable
<1> QED
  BY <1>4, <1>6, <1>7 DEF SessionsInv

(***************************************************************************)
(* Every step, and the theorems.                                           *)
(***************************************************************************)
LEMMA InitSessions == SInit => SessionsInv
<1> SUFFICES ASSUME SInit PROVE SessionsInv
  OBVIOUS
<1>1. \A s \in Sessions : sessions[s] = NoSession
  BY DEF SInit
<1>2. SessionsTypeOK
  BY <1>1, InitType, NoSessionType DEF SInit, SessionsTypeOK
<1>3. CommittedCaseRunnable
  BY DEF SInit, Init, NoCase, CommittedCaseRunnable
<1>4. \A s \in Sessions : Sound(sessions[s])
  BY <1>1, IdleIsSound DEF NoSession
<1> QED
  BY <1>2, <1>3, <1>4 DEF SessionsInv

LEMMA StepSessions == SessionsInv /\ [SNext]_svars => SessionsInv'
<1> SUFFICES ASSUME SessionsInv, [SNext]_svars PROVE SessionsInv'
  OBVIOUS
<1>1. CASE UNCHANGED svars
  <2>1. UNCHANGED <<payments, cases, actions, detecting, orders, sessions>>
    BY <1>1 DEF svars
  <2> QED
    BY <2>1
       DEF SessionsInv, SessionsTypeOK, TypeOK, CommittedCaseRunnable, Sound, KnowsItsCase,
           KnowsItsAction, StartsAfresh, WritesAnOutcome, WritesADisposition, WritesACaseState, Exists
<1> QED
  BY <1>1, BeginRunStep, DiagnoseStep, DecideStep, ResumeStep, ExecuteStepStep, CommitRunStep,
     RunFailsStep, ReadForRestoreStep, RestoreEntryStep, DieStep, NotifyStep, RecordCaptureStep,
     CommitCaptureStep, RequestStep, TimePassesStep
     DEF SNext

THEOREM SessionsInvariance == SSpec => []SessionsInv
  BY InitSessions, StepSessions, PTL DEF SSpec

\* Every row and every session is well typed, whatever overlaps.
THEOREM SessionsTypeCorrect == SSpec => []SessionsTypeOK
  BY SessionsInvariance, PTL DEF SessionsInv

\* Whatever overlaps, fails or dies, no committed case is locked out of recovery.
THEOREM NoCaseLockedOut == SSpec => []CommittedCaseRunnable
  BY SessionsInvariance, PTL DEF SessionsInv

\* Only the commit of a run writes an outcome, and it writes the captured payment
\* in the same transaction.
LEMMA RecoveredStep ==
    ASSUME SessionsInv, SNext, NEW a \in Actions,
           actions'[a].outcome = "recovered", actions[a].outcome # "recovered"
    PROVE  payments'[cases[actions'[a].case].payment].status = "SUCCEEDED"
<1>1. PICK s \in Sessions : CommitRun(s)
  <2>1. ~TimePasses
    <3>1. \A row \in ActionRow : Tick(row).outcome = row.outcome
      BY DEF Tick, ActionRow
    <3> QED
      BY <3>1 DEF TimePasses, SessionsInv, SessionsTypeOK, TypeOK
  <2>2. actions' # actions
    OBVIOUS
  <2> QED
    BY <2>1, <2>2
       DEF SNext, vars, BeginRun, Diagnose, Decide, Resume, ExecuteStep, RunFails, ReadForRestore,
           RestoreEntry, Die, Notify, RecordCapture, CommitCapture, Request, CreatePayment,
           PaymentFailedWebhook, FailPayment, DetectRisk, LoseRequest
<1> DEFINE session == sessions[s]
<1>2. /\ session \in Session /\ Sound(session) /\ session.at \in {"executed", "ending"}
      /\ session.payment \in Payments /\ session.act \in Actions /\ session.row \in ActionRow
      /\ session.before \in PaymentRow /\ session.after \in PaymentRow
  BY <1>1 DEF CommitRun, SessionsInv, SessionsTypeOK, Session
<1>3. /\ payments' = [payments EXCEPT ![session.payment] = Merge(@, session.before, session.after)]
      /\ \/ UNCHANGED actions
         \/ /\ session.entry = "SCHEDULED" /\ session.row.status # Absent
            /\ actions' = [actions EXCEPT ![session.act].status   = session.row.status,
                                          ![session.act].executed = TRUE,
                                          ![session.act].outcome  = session.row.outcome]
         \/ session.entry # "SCHEDULED" /\ SomeActionFree /\ session.row.status # Absent
            /\ actions' = [actions EXCEPT ![FreshAction] = session.row]
  BY <1>1 DEF CommitRun
<1> HIDE DEF session
<1>4. /\ session.row.outcome = "recovered" /\ session.row.status # Absent
      /\ session.entry = "SCHEDULED" => a = session.act /\ actions'[a].case = actions[a].case
      /\ session.entry # "SCHEDULED" => actions'[a] = session.row
  BY <1>2, <1>3, FreshActionIsFree DEF SessionsInv, SessionsTypeOK, TypeOK, ActionRow
<1>5. session.at = "executed"
  BY <1>2, <1>4 DEF Sound, WritesADisposition, None
<1>6. actions'[a].case = session.case
  BY <1>2, <1>4, <1>5 DEF Sound, KnowsItsAction
<1>7. cases[session.case].payment = session.payment
  BY <1>2, <1>5 DEF Sound, KnowsItsCase, RunStages
<1>8. session.after.status = "SUCCEEDED" /\ session.before.status # "SUCCEEDED"
  BY <1>2, <1>4, <1>5 DEF Sound, WritesAnOutcome
<1>9. Merge(payments[session.payment], session.before, session.after).status = "SUCCEEDED"
  <2>1. payments[session.payment] \in PaymentRow
    BY <1>2 DEF SessionsInv, SessionsTypeOK, TypeOK
  <2> QED
    BY <1>2, <1>8, <2>1 DEF Merge, PaymentRow
<1> QED
  BY <1>2, <1>3, <1>6, <1>7, <1>9 DEF SessionsInv, SessionsTypeOK, TypeOK

\* However runs overlap, an outcome verified as recovered is committed together
\* with a captured payment.
THEOREM RecoveredWithCapture == SSpec => RecoveredIsCaptured
<1>1. SessionsInv /\ [SNext]_svars =>
        [\A a \in Actions :
           actions'[a].outcome = "recovered" /\ actions[a].outcome # "recovered" =>
             payments'[cases[actions'[a].case].payment].status = "SUCCEEDED"]_svars
  BY RecoveredStep
<1> QED
  BY <1>1, SessionsInvariance, PTL DEF SSpec, RecoveredIsCaptured
==============================================================================
