----------------------- MODULE ExclusiveSessions_proofs -----------------------
(***************************************************************************)
(* Sessions that exclude each other implement Recovery: what they commit   *)
(* is what its atomic runs and webhooks do, and so the properties of       *)
(* Recovery hold of the code that issues the transactions one statement at *)
(* a time.  Without exclusion two of them do not (NoWayOutOfTerminal and   *)
(* NoOrderForCaptured, violated by the runs that let sessions overlap).    *)
(*                                                                         *)
(* A run reads the database in several steps.  Nobody else writes what     *)
(* belongs to its payment meanwhile, so whatever a session has read is     *)
(* still true when it commits: the invariant says so stage by stage.       *)
(***************************************************************************)
EXTENDS WorkflowSessions_proofs, FiniteSetTheorems

\* No two sessions work on one payment.
Exclusion ==
    \A s, o \in Sessions : Busy(s) /\ Busy(o) /\ sessions[s].payment = sessions[o].payment => s = o

\* Actions belong to cases, and only a deferred retry waits.
ActionsOfCases ==
    \A a \in Actions : Exists(a) =>
        /\ cases[actions[a].case].state # Absent
        /\ Pending(a) => actions[a].type = "RETRY_LATER"

(***************************************************************************)
(* What a session has read is what a run taking place now would read.      *)
(***************************************************************************)
ReasonOf(p) == ContextOf(p).reason
VerdictOn(p, t) == PolicyVerdict(ContextOf(p), t)

\* The pending actions of a case that may be executed now.
Due(c) == {a \in PendingActions(c) :
             actions[a].wait = 0 /\ \A b \in PendingActions(c) : actions[a].wait <= actions[b].wait}

\* The actions a full cycle may select for execution.
Executable(p) == {t \in ActionType \ (TerminalActions \cup {"RETRY_LATER"}) :
                    t \in CandidateActions(p, ReasonOf(p)) /\ VerdictOn(p, t) = "APPROVED"}

\* The action rows a run may hand to the executor.
Chosen(session) ==
    IF session.entry = "SCHEDULED"
    THEN {actions[a] : a \in Due(session.case) \cap {session.act}}
    ELSE {Proposed(session.case, t) : t \in Executable(session.payment)}

EffectsOn(p, base) == Effects(payments[p], ReasonOf(p), base.type)

Performed(session) ==
    \E base \in Chosen(session) : \E e \in EffectsOn(session.payment, base) :
        /\ session.before = payments[session.payment]
        /\ session.after = e.payment /\ session.ordered = e.ordered
        /\ session.final = IF Recovers(session.payment, e) THEN "RECOVERED" ELSE "FAILED"
        /\ session.row = Verified(base, session.payment, e)

\* A decision that executes nothing.
Disposes(c, p, t, row, final) ==
    /\ t \in CandidateActions(p, ReasonOf(p))
    /\ VerdictOn(p, t) = "APPROVED" => t \in TerminalActions \cup {"RETRY_LATER"}
    /\ row = Disposition(c, t, VerdictOn(p, t)).row /\ final = Disposition(c, t, VerdictOn(p, t)).final

Concluded(session) ==
    IF session.entry = "SCHEDULED"
    THEN PendingActions(session.case) = {} /\ session.final = "FAILED" /\ session.row.status = Absent
    ELSE \E t \in ActionType :
           Disposes(session.case, session.payment, t, session.row, session.final)

Captured(session) ==
    /\ session.before = payments[session.payment]
    /\ session.before.status # Absent /\ session.before.attempts < AttemptCap
    /\ session.after = RecordRecoveryAttempt(session.before, "SUCCEEDED", None)

(***************************************************************************)
(* The invariant.                                                          *)
(***************************************************************************)
ReadsTrue(session) ==
    /\ session.at \in {"begun", "diagnosed", "gated", "executed", "ending", "failing"} =>
         cases[session.case].state = session.entry
    /\ session.at \in {"diagnosed", "gated"} => session.reason = ReasonOf(session.payment)

WritesTrue(session) ==
    /\ session.at \in {"begun", "diagnosed", "gated", "ending"} => session.before = session.after
    /\ session.at = "gated"     => session.row \in Chosen(session)
    /\ session.at = "executed"  => Performed(session)
    /\ session.at = "ending"    => Concluded(session)
    /\ session.at = "restoring" => session.final = None
    /\ session.at = "notified"  => Captured(session)
    /\ session.at = "recorded"  =>
         /\ Captured(session)
         /\ IF session.final = None THEN OpenCases(session.payment) = {}
            ELSE session.case \in OpenCases(session.payment) /\ session.final = "RECOVERED"

Faithful(session) ==
    /\ session.held = NoPayment
    /\ session.at = "idle" => session = NoSession
    /\ ReadsTrue(session) /\ WritesTrue(session)

ExclusiveInv ==
    /\ SessionsInv
    /\ Exclusion
    /\ ActionsOfCases
    /\ \A s \in Sessions : Faithful(sessions[s])

(***************************************************************************)
(* What belongs to a payment: its row, its cases and their actions.  A     *)
(* step that leaves them alone leaves every reading of a run alone.        *)
(***************************************************************************)
HasCase(c, p)   == cases[c].state # Absent /\ cases[c].payment = p
HasAction(a, p) == Exists(a) /\ PaymentOf(a) = p

Untouched(p) ==
    /\ payments'[p] = payments[p]
    /\ \A c \in Cases : HasCase(c, p) \/ HasCase(c, p)' => cases'[c] = cases[c]
    /\ \A a \in Actions : HasAction(a, p) \/ HasAction(a, p)' => actions'[a] = actions[a]

LEMMA SameActions ==
    ASSUME ExclusiveInv, RowsPersist, NEW p \in Payments, Untouched(p), NEW a \in Actions
    PROVE  HasAction(a, p)' <=> HasAction(a, p)
<1>1. actions[a].case \in Cases /\ (Exists(a) => cases[actions[a].case].state # Absent)
  BY DEF ExclusiveInv, SessionsInv, SessionsTypeOK, TypeOK, ActionRow, ActionsOfCases
<1>2. HasAction(a, p) \/ HasAction(a, p)' => actions'[a] = actions[a]
  BY DEF Untouched
<1>3. Exists(a) => cases'[actions[a].case].payment = cases[actions[a].case].payment
  BY <1>1 DEF RowsPersist
<1> QED
  BY <1>1, <1>2, <1>3 DEF HasAction, PaymentOf, Exists

LEMMA SameOpenCases ==
    ASSUME NEW p \in Payments, Untouched(p)
    PROVE  OpenCases(p)' = OpenCases(p)
<1>1. \A c \in Cases : c \in OpenCases(p)' <=> c \in OpenCases(p)
  BY DEF Untouched, HasCase, OpenCases, Open
<1> QED
  BY <1>1 DEF OpenCases

LEMMA SameReads ==
    ASSUME ExclusiveInv, RowsPersist, NEW p \in Payments, Untouched(p)
    PROVE  /\ ContextOf(p)' = ContextOf(p)
           /\ \A reason : CandidateActions(p, reason)' = CandidateActions(p, reason)
<1>1. \A a \in Actions : a \in Failures(p) <=> HasAction(a, p) /\ actions[a].outcome = "unrecovered"
  BY DEF Failures, HasAction
<1>2. \A a \in Actions : a \in Failures(p)' <=> HasAction(a, p)' /\ actions'[a].outcome = "unrecovered"
  BY DEF Failures, HasAction
<1>3. \A a \in Actions : HasAction(a, p)' <=> HasAction(a, p)
  BY SameActions
<1>4. \A a \in Actions : HasAction(a, p) => actions'[a] = actions[a]
  BY DEF Untouched
<1>5. Failures(p)' = Failures(p)
  BY <1>1, <1>2, <1>3, <1>4 DEF Failures
<1>6. \A a \in Failures(p) : actions'[a].type = actions[a].type
  BY <1>1, <1>4 DEF Failures
<1>7. {actions'[a].type : a \in Failures(p)'} = {actions[a].type : a \in Failures(p)}
  BY <1>5, <1>6
<1>8. ContextOf(p)' = ContextOf(p)
  BY <1>5 DEF Untouched, ContextOf, ContextFrom
<1>9. \A reason : CandidateActions(p, reason)' = CandidateActions(p, reason)
  BY <1>7 DEF CandidateActions
<1> QED
  BY <1>8, <1>9

LEMMA SamePending ==
    ASSUME ExclusiveInv, RowsPersist, NEW p \in Payments, Untouched(p),
           NEW c \in Cases, HasCase(c, p)
    PROVE  /\ PendingActions(c)' = PendingActions(c)
           /\ \A a \in PendingActions(c) : actions'[a] = actions[a]
           /\ cases'[c] = cases[c]
<1>1. cases'[c] = cases[c] /\ HasCase(c, p)'
  BY DEF Untouched, HasCase
<1>2. \A a \in Actions : Exists(a) /\ actions[a].case = c => HasAction(a, p)
  BY DEF HasAction, HasCase, PaymentOf
<1>3. \A a \in Actions : Exists(a)' /\ actions'[a].case = c => HasAction(a, p)'
  BY <1>1 DEF HasAction, HasCase, PaymentOf
<1>4. \A a \in Actions : HasAction(a, p) \/ HasAction(a, p)' => actions'[a] = actions[a]
  BY DEF Untouched
<1>5. \A a \in Actions : a \in PendingActions(c) => actions'[a] = actions[a]
  BY <1>2, <1>4 DEF PendingActions, Pending
<1>6. \A a \in Actions : a \in PendingActions(c)' => actions'[a] = actions[a]
  BY <1>3, <1>4 DEF PendingActions, Pending
<1>7. \A a \in Actions : a \in PendingActions(c)' <=> a \in PendingActions(c)
  BY <1>5, <1>6 DEF PendingActions, Pending, Exists
<1> QED
  BY <1>1, <1>5, <1>7 DEF PendingActions

\* What a session relies on is still true after a step on another payment.
LEMMA StaysFaithful ==
    ASSUME ExclusiveInv, RowsPersist, NEW session \in Session, Sound(session), Faithful(session),
           session.at # "idle" => Untouched(session.payment)
    PROVE  Faithful(session)'
<1> DEFINE p == session.payment
           c == session.case
<1>1. CASE session.at = "idle"
  BY <1>1 DEF Faithful, ReadsTrue, WritesTrue
<1>2. CASE session.at # "idle"
  <2>1. p \in Payments /\ c \in Cases
    BY DEF Session
  <2>2. /\ ContextOf(p)' = ContextOf(p)
        /\ \A reason : CandidateActions(p, reason)' = CandidateActions(p, reason)
        /\ OpenCases(p)' = OpenCases(p) /\ payments'[p] = payments[p]
    BY <1>2, <2>1, SameReads, SameOpenCases DEF Untouched
  <2>3. ReasonOf(p)' = ReasonOf(p) /\ \A t : VerdictOn(p, t)' = VerdictOn(p, t)
    BY <2>2 DEF ReasonOf, VerdictOn
  <2>4. \A e : Recovers(p, e)' <=> Recovers(p, e)
    BY <2>2 DEF Recovers
  <2>5. Captured(session)' <=> Captured(session)
    BY <2>2 DEF Captured
  <2>6. CASE session.at \in RunStages
    <3>1. HasCase(c, p)
      BY <2>6 DEF Sound, KnowsItsCase, HasCase
    <3>2. /\ PendingActions(c)' = PendingActions(c)
          /\ \A a \in PendingActions(c) : actions'[a] = actions[a]
          /\ cases'[c] = cases[c]
      BY <1>2, <2>1, <3>1, SamePending
    <3>3. Executable(p)' = Executable(p)
      BY <2>2, <2>3 DEF Executable
    <3>4. Due(c)' = Due(c)
      BY <3>2 DEF Due
    <3>5. Chosen(session)' = Chosen(session)
      <4>1. CASE session.entry = "SCHEDULED"
        <5>1. \A a \in Due(c) : actions'[a] = actions[a]
          BY <3>2 DEF Due
        <5> QED
          BY <3>4, <4>1, <5>1 DEF Chosen
      <4>2. CASE session.entry # "SCHEDULED"
        BY <3>3, <4>2 DEF Chosen
      <4> QED
        BY <4>1, <4>2
    <3>6. \A base : EffectsOn(p, base)' = EffectsOn(p, base)
      BY <2>2, <2>3 DEF EffectsOn
    <3>7. \A base, e : Verified(base, p, e)' = Verified(base, p, e)
      BY <2>4 DEF Verified
    <3>8. Performed(session) => Performed(session)'
      BY <2>2, <2>4, <3>5, <3>6, <3>7 DEF Performed
    <3>9. Concluded(session) => Concluded(session)'
      BY <2>2, <2>3, <3>2 DEF Concluded, Disposes
    <3> QED
      BY <2>3, <2>6, <3>2, <3>5, <3>8, <3>9 DEF Faithful, ReadsTrue, WritesTrue, RunStages
  <2>7. CASE session.at \notin RunStages
    BY <2>2, <2>5, <2>7 DEF Faithful, ReadsTrue, WritesTrue, RunStages
  <2> QED
    BY <2>6, <2>7
<1> QED
  BY <1>1, <1>2

(***************************************************************************)
(* Steps of one session leave the others faithful.                         *)
(***************************************************************************)
\* No other session works on payment p.
Alone(s, p) == \A o \in Sessions \ {s} : Busy(o) => sessions[o].payment # p

LEMMA OthersStayFaithful ==
    ASSUME ExclusiveInv, SessionsInv', RowsPersist, ActionsOfCases',
           NEW s \in Sessions, NEW p \in Payments, Alone(s, p),
           \A o \in Sessions \ {s} : sessions'[o] = sessions[o],
           \A q \in Payments \ {p} : Untouched(q),
           Busy(s)' => sessions'[s].payment = p, Faithful(sessions[s])'
    PROVE  ExclusiveInv'
<1>1. ASSUME NEW o \in Sessions \ {s}
      PROVE  Faithful(sessions[o])'
  <2>1. PICK session \in Session : session = sessions[o]
    BY DEF ExclusiveInv, SessionsInv, SessionsTypeOK
  <2>2. Sound(session) /\ Faithful(session) /\ session.payment \in Payments
    BY <2>1 DEF ExclusiveInv, SessionsInv, Session
  <2>3. session.at # "idle" => Untouched(session.payment)
    BY <2>1, <2>2 DEF Alone, Busy
  <2>4. Faithful(session)'
    BY <2>2, <2>3, StaysFaithful
  <2>5. sessions'[o] = session
    BY <2>1
  <2> QED
    BY <2>4, <2>5 DEF Faithful, ReadsTrue, WritesTrue, Chosen, Performed, Concluded, Captured
<1>2. Exclusion'
  BY DEF Exclusion, ExclusiveInv, Alone, Busy
<1> QED
  BY <1>1, <1>2 DEF ExclusiveInv

LEMMA SameDatabase ==
    ASSUME NEW session, UNCHANGED <<payments, cases, actions>>
    PROVE  Faithful(session)' <=> Faithful(session)
<1>1. /\ \A p, t : CandidateActions(p, t)' = CandidateActions(p, t)
      /\ \A p : ContextOf(p)' = ContextOf(p) /\ OpenCases(p)' = OpenCases(p)
      /\ \A c : PendingActions(c)' = PendingActions(c)
  BY DEF CandidateActions, Failures, Exists, PaymentOf, ContextOf, ContextFrom, OpenCases, Open,
         PendingActions, Pending
<1>2. /\ \A p : ReasonOf(p)' = ReasonOf(p)
      /\ \A p, t : VerdictOn(p, t)' = VerdictOn(p, t)
      /\ \A p, e : Recovers(p, e)' <=> Recovers(p, e)
  BY <1>1 DEF ReasonOf, VerdictOn, Recovers
<1>3. /\ \A c : Due(c)' = Due(c)
      /\ \A p : Executable(p)' = Executable(p)
      /\ \A p, base : EffectsOn(p, base)' = EffectsOn(p, base)
      /\ \A p, base, e : Verified(base, p, e)' = Verified(base, p, e)
  BY <1>1, <1>2 DEF Due, Executable, EffectsOn, Verified
<1>4. Chosen(session)' = Chosen(session)
  BY <1>3 DEF Chosen
<1>5. Performed(session)' <=> Performed(session)
  BY <1>2, <1>3, <1>4 DEF Performed
<1>6. Concluded(session)' <=> Concluded(session)
  BY <1>1, <1>2 DEF Concluded, Disposes
<1>7. Captured(session)' <=> Captured(session)
  BY DEF Captured
<1> QED
  BY <1>1, <1>2, <1>4, <1>5, <1>6, <1>7 DEF Faithful, ReadsTrue, WritesTrue

LEMMA QuietFaithful ==
    ASSUME ExclusiveInv, SessionsInv', NEW s \in Sessions, NEW p \in Payments, Alone(s, p),
           NEW next, Move(s, next), UNCHANGED <<payments, cases, actions>>,
           next.at # "idle" => next.payment = p, Faithful(next)
    PROVE  ExclusiveInv'
<1>1. sessions'[s] = next /\ \A o \in Sessions \ {s} : sessions'[o] = sessions[o]
  BY DEF Move, ExclusiveInv, SessionsInv, SessionsTypeOK
<1>2. RowsPersist
  BY DEF RowsPersist, Exists
<1>3. \A q \in Payments : Untouched(q)
  BY DEF Untouched
<1>4. ActionsOfCases'
  BY DEF ExclusiveInv, ActionsOfCases, Exists, Pending
<1>5. Faithful(sessions[s])'
  <2>1. Faithful(next)'
    BY SameDatabase
  <2> QED
    BY <1>1, <2>1 DEF Faithful, ReadsTrue, WritesTrue, Chosen, Performed, Concluded, Captured
<1> QED
  BY <1>1, <1>2, <1>3, <1>4, <1>5, OthersStayFaithful DEF Busy

\* A session reads the payment anew, and is the only one to work on it.
LEMMA SessionReads ==
    ASSUME ExclusiveInv, NEW s \in Sessions
    PROVE  /\ sessions[s] \in Session /\ Sound(sessions[s]) /\ Faithful(sessions[s])
           /\ sessions[s].payment \in Payments /\ sessions[s].case \in Cases
           /\ PaymentOfSession(s) = payments[sessions[s].payment]
           /\ ContextOfSession(s) = ContextOf(sessions[s].payment)
           /\ Busy(s) => Alone(s, sessions[s].payment)
<1>1. sessions[s] \in Session /\ Sound(sessions[s]) /\ Faithful(sessions[s])
  BY DEF ExclusiveInv, SessionsInv, SessionsTypeOK
<1>2. PaymentOfSession(s) = payments[sessions[s].payment]
  BY <1>1 DEF PaymentOfSession, Faithful, NoPayment
<1>3. Busy(s) => Alone(s, sessions[s].payment)
  BY DEF ExclusiveInv, Exclusion, Alone
<1> QED
  BY <1>1, <1>2, <1>3 DEF ContextOfSession, ContextOf, Session

LEMMA AloneWhenQuiet ==
    ASSUME Exclusive, NEW s \in Sessions, NEW p \in Payments, Quiet(p)
    PROVE  Alone(s, p)
  BY DEF Quiet, Alone

\* What an idle session holds.
LEMMA NoSessionFields ==
    /\ NoSession \in Session /\ NoSession.at = "idle" /\ NoSession.held = NoPayment
    /\ NoSession.before = NoSession.after /\ NoSession.final = None /\ NoSession.row.wait = 0
    /\ Faithful(NoSession)
<1>1. /\ NoSession \in Session /\ NoSession.at = "idle" /\ NoSession.held = NoPayment
      /\ NoSession.before = NoSession.after /\ NoSession.final = None
  BY NoSessionType DEF NoSession
<1>2. NoSession.row.wait = 0
  BY DEF NoSession, NoAction, Proposed
<1> QED
  BY <1>1, <1>2 DEF Faithful, ReadsTrue, WritesTrue

LEMMA BeginRunFaithful ==
    ASSUME Exclusive, ExclusiveInv, SessionsInv', NEW s \in Sessions, NEW c \in Cases, BeginRun(s, c)
    PROVE  ExclusiveInv'
<1> DEFINE p    == cases[c].payment
           next == [NoSession EXCEPT !.at = "begun", !.case = c, !.payment = p,
                                     !.entry = cases[c].state, !.held = NoPayment]
<1>1. Move(s, next)
  BY SessionsAssumption DEF BeginRun, HeldRows
<1>2. p \in Payments
  BY DEF ExclusiveInv, SessionsInv, SessionsTypeOK, TypeOK, CaseRow
<1>3. Alone(s, p) /\ UNCHANGED <<payments, cases, actions>>
  BY <1>2, AloneWhenQuiet DEF BeginRun, vars
<1>4. /\ next.at = "begun" /\ next.case = c /\ next.payment = p /\ next.entry = cases[c].state
      /\ next.held = NoPayment /\ next.before = next.after
  BY NoSessionFields DEF Session
<1>5. Faithful(next)
  BY <1>4 DEF Faithful, ReadsTrue, WritesTrue
<1>6. next.payment = p
  BY <1>4
<1> HIDE DEF next, p
<1> QED
  BY <1>1, <1>2, <1>3, <1>5, <1>6, QuietFaithful

LEMMA DiagnoseFaithful ==
    ASSUME ExclusiveInv, SessionsInv', NEW s \in Sessions, Diagnose(s)
    PROVE  ExclusiveInv'
<1> DEFINE session == sessions[s]
           next    == [session EXCEPT !.at = "diagnosed", !.reason = ContextOfSession(s).reason]
<1>1. /\ session \in Session /\ Faithful(session) /\ session.at = "begun"
      /\ ContextOfSession(s).reason = ReasonOf(session.payment)
      /\ session.payment \in Payments /\ Alone(s, session.payment)
  BY SessionReads DEF Diagnose, Busy, ReasonOf
<1>2. Move(s, next) /\ UNCHANGED <<payments, cases, actions>>
  BY DEF Diagnose, vars
<1>3. /\ next.at = "diagnosed" /\ next.case = session.case /\ next.payment = session.payment
      /\ next.entry = session.entry /\ next.held = session.held
      /\ next.before = session.before /\ next.after = session.after
      /\ next.reason = ReasonOf(session.payment)
  BY <1>1 DEF Session
<1>4. Faithful(next)
  BY <1>1, <1>3 DEF Faithful, ReadsTrue, WritesTrue
<1> HIDE DEF next, session
<1> QED
  BY <1>1, <1>2, <1>3, <1>4, QuietFaithful

LEMMA DecideFaithful ==
    ASSUME ExclusiveInv, SessionsInv', NEW s \in Sessions, NEW t \in ActionType, Decide(s, t)
    PROVE  ExclusiveInv'
<1> DEFINE session  == sessions[s]
           c        == session.case
           p        == session.payment
           verdict  == VerdictOn(p, t)
           result   == Disposition(c, t, verdict)
           approved == [session EXCEPT !.at = "gated", !.reason = ReasonOf(p), !.row = Proposed(c, t)]
           disposed == [session EXCEPT !.at = "ending", !.row = result.row, !.final = result.final]
<1>1. /\ session \in Session /\ Sound(session) /\ Faithful(session) /\ session.at = "diagnosed"
      /\ p \in Payments /\ Alone(s, p) /\ UNCHANGED <<payments, cases, actions>>
  BY SessionReads DEF Decide, Busy, vars
<1>2. session.entry # "SCHEDULED" /\ t \in CandidateActions(p, ReasonOf(p))
  BY <1>1 DEF Decide, Sound, StartsAfresh, Faithful, ReadsTrue
<1>3. IF verdict = "APPROVED" /\ t \notin TerminalActions \cup {"RETRY_LATER"}
      THEN Move(s, approved) ELSE Move(s, disposed)
  <2>1. ContextOfSession(s) = ContextOf(p)
    BY SessionReads
  <2> QED
    BY <2>1 DEF Decide, VerdictOn, ReasonOf
<1>4. CASE verdict = "APPROVED" /\ t \notin TerminalActions \cup {"RETRY_LATER"}
  <2>1. /\ approved.at = "gated" /\ approved.case = c /\ approved.payment = p
        /\ approved.entry = session.entry /\ approved.held = session.held
        /\ approved.before = session.before /\ approved.after = session.after
        /\ approved.reason = ReasonOf(p) /\ approved.row = Proposed(c, t)
    BY <1>1 DEF Session
  <2>2. t \in Executable(p)
    BY <1>2, <1>4 DEF Executable
  <2> HIDE DEF approved, c, p
  <2>3. approved.row \in Chosen(approved)
    BY <1>2, <2>1, <2>2 DEF Chosen
  <2>4. Faithful(approved)
    BY <1>1, <2>1, <2>3 DEF Faithful, ReadsTrue, WritesTrue, c, p
  <2> QED
    BY <1>1, <1>3, <1>4, <2>1, <2>4, QuietFaithful
<1>5. CASE ~(verdict = "APPROVED" /\ t \notin TerminalActions \cup {"RETRY_LATER"})
  <2>1. /\ disposed.at = "ending" /\ disposed.case = c /\ disposed.payment = p
        /\ disposed.entry = session.entry /\ disposed.held = session.held
        /\ disposed.before = session.before /\ disposed.after = session.after
        /\ disposed.row = result.row /\ disposed.final = result.final
    BY <1>1 DEF Session
  <2> HIDE DEF disposed, c, p
  <2>2. Concluded(disposed)
    BY <1>2, <1>5, <2>1 DEF Concluded, Disposes
  <2>3. Faithful(disposed)
    BY <1>1, <2>1, <2>2 DEF Faithful, ReadsTrue, WritesTrue, c, p
  <2> QED
    BY <1>1, <1>3, <1>5, <2>1, <2>3, QuietFaithful
<1> QED
  BY <1>4, <1>5

LEMMA ResumeFaithful ==
    ASSUME Exclusive, ExclusiveInv, SessionsInv', NEW s \in Sessions, Resume(s)
    PROVE  ExclusiveInv'
<1> DEFINE session == sessions[s]
           c       == session.case
           p       == session.payment
           pending == PendingActions(c)
<1>1. /\ session \in Session /\ Sound(session) /\ Faithful(session)
      /\ session.at = "begun" /\ session.entry = "SCHEDULED"
      /\ p \in Payments /\ Alone(s, p) /\ UNCHANGED <<payments, cases, actions>>
  BY SessionReads DEF Resume, Busy, vars
<1>2. CASE pending = {}
  <2> DEFINE next == [session EXCEPT !.at = "ending", !.final = "FAILED"]
  <2>1. Move(s, next)
    BY <1>2 DEF Resume
  <2>2. /\ next.at = "ending" /\ next.case = c /\ next.payment = p
        /\ next.entry = session.entry /\ next.held = session.held
        /\ next.before = session.before /\ next.after = session.after
        /\ next.row = session.row /\ next.final = "FAILED"
    BY <1>1 DEF Session
  <2>3. session.row.status = Absent
    BY <1>1 DEF Sound, StartsAfresh
  <2> HIDE DEF next, c, p
  <2>4. Concluded(next)
    BY <1>1, <1>2, <2>2, <2>3 DEF Concluded
  <2>5. Faithful(next)
    BY <1>1, <2>2, <2>4 DEF Faithful, ReadsTrue, WritesTrue, c, p
  <2> QED
    BY <1>1, <2>1, <2>2, <2>5, QuietFaithful
<1>3. CASE pending # {}
  <2>1. PICK a \in pending :
          /\ \A b \in pending : actions[a].wait <= actions[b].wait
          /\ Move(s, IF actions[a].wait > 0 THEN Ended(s)
                     ELSE [session EXCEPT !.at = "gated", !.reason = ContextOfSession(s).reason,
                                          !.act = a, !.row = actions[a]])
    BY <1>3 DEF Resume
  <2>2. CASE actions[a].wait > 0
    <3>1. Move(s, NoSession)
      BY <2>1, <2>2, SessionsAssumption DEF Ended
    <3> QED
      BY <1>1, <3>1, NoSessionFields, QuietFaithful
  <2>3. CASE ~(actions[a].wait > 0)
    <3> DEFINE next == [session EXCEPT !.at = "gated", !.reason = ReasonOf(p),
                                       !.act = a, !.row = actions[a]]
    <3>1. Move(s, next)
      BY <2>1, <2>3, SessionReads DEF ReasonOf
    <3>2. /\ next.at = "gated" /\ next.case = c /\ next.payment = p
          /\ next.entry = session.entry /\ next.held = session.held
          /\ next.before = session.before /\ next.after = session.after
          /\ next.reason = ReasonOf(p) /\ next.act = a /\ next.row = actions[a]
      BY <1>1 DEF Session
    <3>3. a \in Due(c)
      <4>1. actions[a].wait \in Nat
        BY DEF PendingActions, ExclusiveInv, SessionsInv, SessionsTypeOK, TypeOK, ActionRow
      <4> QED
        BY <2>1, <2>3, <4>1 DEF Due
    <3> HIDE DEF next, c, p
    <3>4. next.row \in Chosen(next)
      BY <1>1, <3>2, <3>3 DEF Chosen
    <3>5. Faithful(next)
      BY <1>1, <3>2, <3>4 DEF Faithful, ReadsTrue, WritesTrue, c, p
    <3> QED
      BY <1>1, <3>1, <3>2, <3>5, QuietFaithful
  <2> QED
    BY <2>2, <2>3
<1> QED
  BY <1>2, <1>3

\* What a session that has executed its action is about to commit.
LEMMA ExecuteMoves ==
    ASSUME ExclusiveInv, NEW s \in Sessions, ExecuteStep(s)
    PROVE  \E next, e :
             /\ Move(s, next) /\ next.at = "executed"
             /\ e \in EffectsOn(sessions[s].payment, sessions[s].row)
             /\ orders' = [orders EXCEPT ![sessions[s].payment] = @ + e.ordered]
             /\ next.payment = sessions[s].payment /\ next.ordered = e.ordered
             /\ Faithful(next)
<1> DEFINE session == sessions[s]
           p       == session.payment
           row     == session.row
<1>1. /\ session \in Session /\ Faithful(session) /\ session.at = "gated"
      /\ session.reason = ReasonOf(p) /\ row \in Chosen(session) /\ row \in ActionRow
      /\ PaymentOfSession(s) = payments[p]
  BY SessionReads DEF ExecuteStep, Faithful, ReadsTrue, WritesTrue, Session
<1>2. PICK e \in EffectsOn(p, row) :
        /\ orders' = [orders EXCEPT ![p] = @ + e.ordered]
        /\ LET recovered == e.payment.status = "SUCCEEDED" /\ payments[p].status # "SUCCEEDED"
           IN  Move(s, [session EXCEPT
                      !.at = "executed", !.before = payments[p], !.after = e.payment,
                      !.ordered = e.ordered,
                      !.final = IF recovered THEN "RECOVERED" ELSE "FAILED",
                      !.row.status   = IF e.reported THEN "EXECUTED" ELSE "FAILED",
                      !.row.executed = TRUE,
                      !.row.outcome  = IF recovered THEN "recovered" ELSE "unrecovered"])
  BY <1>1 DEF ExecuteStep, EffectsOn
<1> DEFINE next == [session EXCEPT
                      !.at = "executed", !.before = payments[p], !.after = e.payment,
                      !.ordered = e.ordered,
                      !.final = IF Recovers(p, e) THEN "RECOVERED" ELSE "FAILED",
                      !.row.status   = IF e.reported THEN "EXECUTED" ELSE "FAILED",
                      !.row.executed = TRUE,
                      !.row.outcome  = IF Recovers(p, e) THEN "recovered" ELSE "unrecovered"]
<1>3. Move(s, next)
  BY <1>2 DEF Recovers
<1>4. /\ next.at = "executed" /\ next.case = session.case /\ next.payment = p
      /\ next.entry = session.entry /\ next.held = session.held /\ next.act = session.act
      /\ next.before = payments[p] /\ next.after = e.payment /\ next.ordered = e.ordered
      /\ next.final = IF Recovers(p, e) THEN "RECOVERED" ELSE "FAILED"
  BY <1>1 DEF Session
<1>5. next.row = Verified(row, p, e)
  BY <1>1 DEF Session, Verified
<1> HIDE DEF next, p
<1>6. Chosen(next) = Chosen(session)
  BY <1>4 DEF Chosen, p
<1>7. Performed(next)
  BY <1>1, <1>2, <1>4, <1>5, <1>6 DEF Performed
<1>8. Faithful(next)
  BY <1>1, <1>4, <1>7 DEF Faithful, ReadsTrue, WritesTrue, p
<1> QED
  BY <1>2, <1>3, <1>4, <1>8 DEF p

LEMMA ExecuteFaithful ==
    ASSUME ExclusiveInv, SessionsInv', NEW s \in Sessions, ExecuteStep(s)
    PROVE  ExclusiveInv'
<1>1. PICK next : /\ Move(s, next) /\ next.payment = sessions[s].payment /\ Faithful(next)
  BY ExecuteMoves
<1>2. /\ sessions[s].payment \in Payments /\ Alone(s, sessions[s].payment)
      /\ UNCHANGED <<payments, cases, actions>>
  BY SessionReads DEF ExecuteStep, Busy
<1> QED
  BY <1>1, <1>2, QuietFaithful

LEMMA RunFailsFaithful ==
    ASSUME ExclusiveInv, SessionsInv', NEW s \in Sessions, RunFails(s)
    PROVE  ExclusiveInv'
<1> DEFINE session == sessions[s]
           next    == [NoSession EXCEPT !.at = "failing", !.case = session.case,
                                        !.payment = session.payment, !.entry = session.entry]
<1>1. /\ session \in Session /\ Faithful(session)
      /\ session.at \in {"begun", "diagnosed", "gated", "executed", "ending"}
      /\ session.payment \in Payments /\ Alone(s, session.payment)
      /\ UNCHANGED <<payments, cases, actions>>
  BY SessionReads DEF RunFails, Busy, vars
<1>2. Move(s, next)
  BY DEF RunFails
<1>3. /\ next.at = "failing" /\ next.case = session.case /\ next.payment = session.payment
      /\ next.entry = session.entry /\ next.held = NoPayment
  BY NoSessionFields DEF Session
<1>4. Faithful(next)
  BY <1>1, <1>3 DEF Faithful, ReadsTrue, WritesTrue
<1> HIDE DEF next, session
<1> QED
  BY <1>1, <1>2, <1>3, <1>4, QuietFaithful

LEMMA ReadForRestoreFaithful ==
    ASSUME ExclusiveInv, SessionsInv', NEW s \in Sessions, ReadForRestore(s)
    PROVE  ExclusiveInv'
<1> DEFINE session == sessions[s]
           next    == [session EXCEPT !.at = "restoring", !.final = None]
<1>1. /\ session \in Session /\ Faithful(session) /\ session.at = "failing"
      /\ session.payment \in Payments /\ Alone(s, session.payment)
      /\ UNCHANGED <<payments, cases, actions>>
  BY SessionReads DEF ReadForRestore, Busy, vars
<1>2. Move(s, next)
  BY <1>1 DEF ReadForRestore, Faithful, ReadsTrue
<1>3. /\ next.at = "restoring" /\ next.payment = session.payment /\ next.held = session.held
      /\ next.final = None
  BY <1>1 DEF Session
<1>4. Faithful(next)
  BY <1>1, <1>3 DEF Faithful, ReadsTrue, WritesTrue
<1> HIDE DEF next, session
<1> QED
  BY <1>1, <1>2, <1>3, <1>4, QuietFaithful

\* The error handler of an exclusive run finds nothing to restore.
LEMMA RestoreChangesNothing ==
    ASSUME ExclusiveInv, NEW s \in Sessions, RestoreEntry(s)
    PROVE  Move(s, NoSession) /\ UNCHANGED vars
  BY SessionReads DEF RestoreEntry, Faithful, WritesTrue, vars

LEMMA ForgetFaithful ==
    ASSUME ExclusiveInv, SessionsInv', NEW s \in Sessions, Busy(s), Move(s, NoSession),
           UNCHANGED <<payments, cases, actions>>
    PROVE  ExclusiveInv'
  BY SessionReads, NoSessionFields, QuietFaithful

LEMMA NotifyFaithful ==
    ASSUME Exclusive, ExclusiveInv, SessionsInv', NEW s \in Sessions, NEW p \in Payments, Notify(s, p)
    PROVE  ExclusiveInv'
<1> DEFINE next == [NoSession EXCEPT !.at = "notified", !.payment = p, !.before = payments[p],
                      !.after = RecordRecoveryAttempt(payments[p], "SUCCEEDED", None)]
<1>1. Move(s, next) /\ UNCHANGED <<payments, cases, actions>> /\ Alone(s, p)
  BY AloneWhenQuiet DEF Notify, vars
<1>2. /\ next.at = "notified" /\ next.payment = p /\ next.held = NoPayment
      /\ next.before = payments[p]
      /\ next.after = RecordRecoveryAttempt(payments[p], "SUCCEEDED", None)
  BY NoSessionFields DEF Session
<1>3. Captured(next)
  BY <1>2 DEF Notify, Captured
<1>4. Faithful(next)
  BY <1>2, <1>3 DEF Faithful, ReadsTrue, WritesTrue
<1> HIDE DEF next
<1> QED
  BY <1>1, <1>2, <1>4, QuietFaithful

LEMMA RecordCaptureFaithful ==
    ASSUME ExclusiveInv, SessionsInv', NEW s \in Sessions, RecordCapture(s)
    PROVE  ExclusiveInv'
<1> DEFINE session == sessions[s]
<1>1. /\ session \in Session /\ Sound(session) /\ Faithful(session) /\ session.at = "notified"
      /\ session.payment \in Payments /\ Alone(s, session.payment)
      /\ UNCHANGED <<payments, cases, actions>>
  BY SessionReads DEF RecordCapture, Busy, vars
<1>2. PICK next : /\ Move(s, next)
                  /\ IF OpenCases(session.payment) = {}
                     THEN next = [session EXCEPT !.at = "recorded"]
                     ELSE \E c \in OpenCases(session.payment) :
                            next = [session EXCEPT !.at = "recorded", !.case = c, !.final = "RECOVERED"]
  BY DEF RecordCapture
<1>3. /\ next.at = "recorded" /\ next.payment = session.payment /\ next.held = session.held
      /\ next.before = session.before /\ next.after = session.after
      /\ IF OpenCases(session.payment) = {} THEN next.final = session.final
         ELSE next.case \in OpenCases(session.payment) /\ next.final = "RECOVERED"
  <2>1. CASE OpenCases(session.payment) = {}
    BY <1>1, <1>2, <2>1 DEF Session
  <2>2. CASE OpenCases(session.payment) # {}
    <3>1. PICK c \in OpenCases(session.payment) :
            next = [session EXCEPT !.at = "recorded", !.case = c, !.final = "RECOVERED"]
      BY <1>2, <2>2
    <3> QED
      BY <1>1, <2>2, <3>1 DEF Session
  <2> QED
    BY <2>1, <2>2
<1>4. session.final = None
  BY <1>1 DEF Sound, WritesACaseState
<1> HIDE DEF session
<1>5. Captured(next)
  BY <1>1, <1>3 DEF Faithful, WritesTrue, Captured
<1>6. Faithful(next)
  BY <1>1, <1>3, <1>4, <1>5 DEF Faithful, ReadsTrue, WritesTrue, None
<1> QED
  BY <1>1, <1>2, <1>3, <1>6, QuietFaithful

(***************************************************************************)
(* What the one commit of a run writes.                                    *)
(***************************************************************************)
\* An update of a row nobody else has written leaves what was computed.
LEMMA MergeOwn ==
    ASSUME NEW row \in PaymentRow, NEW after \in PaymentRow
    PROVE  Merge(row, row, after) = after /\ Merge(row, after, after) = row
  BY DEF Merge, PaymentRow

\* An execution.
CommitsExecution(s, c, p) ==
    \E a \in Actions, base \in ActionRow : \E e \in EffectsOn(p, base) :
        /\ \/ sessions[s].entry = "SCHEDULED" /\ a \in Due(c) /\ base = actions[a]
           \/ /\ sessions[s].entry # "SCHEDULED" /\ SomeActionFree /\ a = FreshAction
              /\ \E t \in Executable(p) : base = Proposed(c, t)
        /\ sessions[s].at = "executed" /\ sessions[s].ordered = e.ordered
        /\ WritesEffect(c, p, a, base, e)

\* The end of a resumption that found nothing to execute.
CommitsNoAction(s, c) ==
    /\ sessions[s].at = "ending" /\ sessions[s].entry = "SCHEDULED" /\ PendingActions(c) = {}
    /\ cases' = [cases EXCEPT ![c].state = "FAILED"]
    /\ UNCHANGED <<payments, actions>>

\* A decision that executes nothing.
CommitsDisposition(s, c, p) ==
    /\ sessions[s].at = "ending" /\ sessions[s].entry # "SCHEDULED" /\ SomeActionFree
    /\ \E t \in ActionType : \E row \in ActionRow, final \in CaseState :
         /\ Disposes(c, p, t, row, final)
         /\ cases' = [cases EXCEPT ![c].state = final]
         /\ actions' = [actions EXCEPT ![FreshAction] = row]
    /\ UNCHANGED payments

\* What a decision leaves behind is a row of its case, and waits only when it
\* is a deferred retry.
LEMMA DispositionType ==
    ASSUME NEW c \in Cases, NEW t \in ActionType, NEW verdict
    PROVE  LET result == Disposition(c, t, verdict)
           IN  /\ result.row \in ActionRow /\ result.final \in CaseState
               /\ result.row.status # Absent /\ result.row.case = c /\ result.row.type = t
               /\ ~result.row.executed /\ result.row.outcome = None
               /\ \/ result.final \in TerminalStates /\ ~result.row.scheduled
                  \/ /\ result.final = "SCHEDULED" /\ t = "RETRY_LATER" /\ result.row = DeferredRetry(c)
                     /\ verdict \notin {"BLOCKED", "ESCALATED"}
<1>1. Proposed(c, t) \in ActionRow
  BY ProposedType
<1>2. CASE verdict \in {"BLOCKED", "ESCALATED"}
  BY <1>1, <1>2 DEF Disposition, Proposed, ActionRow, ActionStatus, CaseState, TerminalStates, Absent
<1>3. CASE verdict \notin {"BLOCKED", "ESCALATED"} /\ t = "RETRY_LATER"
  <2>1. DeferredRetry(c) \in ActionRow
    BY ConstantsAssumption DEF DeferredRetry, Proposed, ActionRow, ActionType, ActionStatus, Outcome
  <2>2. Disposition(c, t, verdict) = [final |-> "SCHEDULED", row |-> DeferredRetry(c)]
    BY <1>3 DEF Disposition
  <2>3. /\ DeferredRetry(c).status # Absent /\ DeferredRetry(c).case = c
        /\ DeferredRetry(c).type = "RETRY_LATER" /\ ~DeferredRetry(c).executed
        /\ DeferredRetry(c).outcome = None
    BY DEF DeferredRetry, Proposed, Absent
  <2> QED
    BY <1>3, <2>1, <2>2, <2>3 DEF CaseState
<1>4. CASE verdict \notin {"BLOCKED", "ESCALATED"} /\ t # "RETRY_LATER"
  BY <1>1, <1>4 DEF Disposition, Proposed, ActionRow, ActionStatus, CaseState, TerminalStates, Absent
<1> QED
  BY <1>2, <1>3, <1>4

LEMMA CommitRunWrites ==
    ASSUME Exclusive, ExclusiveInv, NEW s \in Sessions, CommitRun(s)
    PROVE  \E c \in Cases, p \in Payments :
             /\ c = sessions[s].case /\ p = sessions[s].payment /\ HasCase(c, p) /\ Alone(s, p)
             /\ cases[c].state = sessions[s].entry
             /\ Move(s, NoSession) /\ UNCHANGED <<detecting, orders>>
             /\ CommitsExecution(s, c, p) \/ CommitsNoAction(s, c) \/ CommitsDisposition(s, c, p)
<1> DEFINE session == sessions[s]
           c       == session.case
           p       == session.payment
<1>1. /\ session \in Session /\ Sound(session) /\ Faithful(session)
      /\ session.at \in {"executed", "ending"}
      /\ p \in Payments /\ c \in Cases /\ HasCase(c, p) /\ Alone(s, p)
      /\ cases[c].state = session.entry
  BY SessionReads
     DEF CommitRun, Busy, Sound, KnowsItsCase, RunStages, HasCase, Faithful, ReadsTrue
<1>2. Move(s, NoSession) /\ UNCHANGED <<detecting, orders>>
  BY SessionsAssumption DEF CommitRun, Ended
<1>3. /\ payments \in [Payments -> PaymentRow] /\ actions \in [Actions -> ActionRow]
      /\ session.before \in PaymentRow /\ session.after \in PaymentRow /\ session.row \in ActionRow
      /\ session.act \in Actions
  BY <1>1 DEF ExclusiveInv, SessionsInv, SessionsTypeOK, TypeOK, Session
<1>4. /\ payments' = [payments EXCEPT ![p] = Merge(payments[p], session.before, session.after)]
      /\ cases' = [cases EXCEPT ![c].state = session.final]
  BY DEF CommitRun
<1>5. CASE session.at = "executed"
  <2>1. PICK base \in Chosen(session) : \E e \in EffectsOn(p, base) :
          /\ session.before = payments[p] /\ session.after = e.payment
          /\ session.ordered = e.ordered
          /\ session.final = IF Recovers(p, e) THEN "RECOVERED" ELSE "FAILED"
          /\ session.row = Verified(base, p, e)
    BY <1>1, <1>5 DEF Faithful, WritesTrue, Performed
  <2>2. PICK e \in EffectsOn(p, base) :
          /\ session.before = payments[p] /\ session.after = e.payment
          /\ session.ordered = e.ordered
          /\ session.final = IF Recovers(p, e) THEN "RECOVERED" ELSE "FAILED"
          /\ session.row = Verified(base, p, e)
    BY <2>1
  <2>3. payments' = [payments EXCEPT ![p] = e.payment]
    BY <1>1, <1>3, <1>4, <2>2, MergeOwn
  <2>4. CASE session.entry = "SCHEDULED"
    <3>1. session.act \in Due(c) /\ base = actions[session.act] /\ base \in ActionRow
      BY <1>3, <2>2, <2>4 DEF Chosen
    <3>2. Verified(base, p, e).status # Absent
      BY <1>3, <3>1 DEF Verified, ActionRow, Absent
    <3>3. actions' = [actions EXCEPT ![session.act].status   = session.row.status,
                                     ![session.act].executed = TRUE,
                                     ![session.act].outcome  = session.row.outcome]
      BY <2>2, <2>4, <3>2 DEF CommitRun
    <3>4. actions' = [actions EXCEPT ![session.act] =
                        [actions[session.act] EXCEPT !.status   = session.row.status,
                                                     !.executed = TRUE,
                                                     !.outcome  = session.row.outcome]]
      BY <1>3, <3>3 DEF ActionRow
    <3>5. [base EXCEPT !.status = session.row.status, !.executed = TRUE,
                       !.outcome = session.row.outcome] = Verified(base, p, e)
      BY <2>2, <3>1 DEF Verified, ActionRow
    <3>6. actions' = [actions EXCEPT ![session.act] = Verified(base, p, e)]
      BY <3>1, <3>4, <3>5
    <3>7. CommitsExecution(s, c, p)
      BY <1>3, <1>4, <1>5, <2>2, <2>3, <2>4, <3>1, <3>6 DEF CommitsExecution, WritesEffect
    <3> QED
      BY <1>1, <1>2, <3>7
  <2>5. CASE session.entry # "SCHEDULED"
    <3>1. PICK t \in Executable(p) : base = Proposed(c, t)
      BY <2>2, <2>5 DEF Chosen
    <3>2. base \in ActionRow
      BY <1>1, <3>1, ProposedType DEF Executable
    <3>3. session.row.status # Absent
      BY <2>2, <3>2 DEF Verified, ActionRow, Absent
    <3>4. SomeActionFree /\ actions' = [actions EXCEPT ![FreshAction] = Verified(base, p, e)]
      BY <2>2, <2>5, <3>3 DEF CommitRun
    <3>5. FreshAction \in Actions
      BY <3>4, FreshActionIsFree
    <3>6. CommitsExecution(s, c, p)
      BY <1>4, <1>5, <2>2, <2>3, <2>5, <3>1, <3>2, <3>4, <3>5 DEF CommitsExecution, WritesEffect
    <3> QED
      BY <1>1, <1>2, <3>6
  <2> QED
    BY <2>4, <2>5
<1>6. CASE session.at = "ending"
  <2>1. session.before = session.after /\ Concluded(session)
    BY <1>1, <1>6 DEF Faithful, WritesTrue
  <2>2. Merge(payments[p], session.before, session.after) = payments[p]
    BY <1>1, <1>3, <2>1, MergeOwn
  <2>3. payments' = payments
    BY <1>3, <1>4, <2>2
  <2>4. CASE session.entry = "SCHEDULED"
    <3>1. PendingActions(c) = {} /\ session.final = "FAILED" /\ session.row.status = Absent
      BY <2>1, <2>4 DEF Concluded
    <3>2. actions' = actions
      BY <3>1 DEF CommitRun
    <3> QED
      BY <1>1, <1>2, <1>4, <1>6, <2>3, <2>4, <3>1, <3>2 DEF CommitsNoAction
  <2>5. CASE session.entry # "SCHEDULED"
    <3>1. PICK t \in ActionType : Disposes(c, p, t, session.row, session.final)
      BY <2>1, <2>5 DEF Concluded
    <3>2. session.row.status # Absent /\ session.final \in CaseState
      BY <1>1, <3>1, DispositionType DEF Disposes
    <3>3. SomeActionFree /\ actions' = [actions EXCEPT ![FreshAction] = session.row]
      BY <2>5, <3>2 DEF CommitRun
    <3>4. CommitsDisposition(s, c, p)
      BY <1>3, <1>4, <1>6, <2>3, <2>5, <3>1, <3>2, <3>3 DEF CommitsDisposition
    <3> QED
      BY <1>1, <1>2, <3>4
  <2> QED
    BY <2>4, <2>5
<1> QED
  BY <1>1, <1>5, <1>6

\* What a step writes to one case of payment p, and to one action of that case,
\* does not concern other payments.
LEMMA OnlyTouches ==
    ASSUME ExclusiveInv, NEW p \in Payments, NEW c \in Cases, HasCase(c, p), NEW a \in Actions,
           \A q \in Payments \ {p} : payments'[q] = payments[q],
           \A d \in Cases \ {c} : cases'[d] = cases[d],
           cases'[c].payment = p, cases'[c].state # Absent,
           \A b \in Actions \ {a} : actions'[b] = actions[b],
           \/ actions'[a] = actions[a]
           \/ /\ actions'[a].case = c /\ actions'[a].status # Absent
              /\ Exists(a) => actions[a].case = c
    PROVE  RowsPersist /\ \A q \in Payments \ {p} : Untouched(q)
<1>1. cases[c].payment = p /\ cases[c].state # Absent
  BY DEF HasCase
<1>2. RowsPersist
  BY <1>1 DEF RowsPersist, Exists
<1>3. ASSUME NEW q \in Payments \ {p}
      PROVE  Untouched(q)
  <2>1. ASSUME NEW d \in Cases, HasCase(d, q) \/ HasCase(d, q)'
        PROVE  cases'[d] = cases[d]
    BY <1>1, <2>1 DEF HasCase
  <2>2. ASSUME NEW b \in Actions, HasAction(b, q) \/ HasAction(b, q)'
        PROVE  actions'[b] = actions[b]
    BY <1>1, <2>2 DEF HasAction, PaymentOf, Exists
  <2> QED
    BY <2>1, <2>2 DEF Untouched
<1> QED
  BY <1>2, <1>3

LEMMA CommitRunFaithful ==
    ASSUME Exclusive, ExclusiveInv, SessionsInv', NEW s \in Sessions, CommitRun(s)
    PROVE  ExclusiveInv'
<1>1. PICK c \in Cases, p \in Payments :
        /\ HasCase(c, p) /\ Alone(s, p) /\ Move(s, NoSession)
        /\ CommitsExecution(s, c, p) \/ CommitsNoAction(s, c) \/ CommitsDisposition(s, c, p)
  BY CommitRunWrites
<1>2. /\ sessions'[s] = NoSession /\ \A o \in Sessions \ {s} : sessions'[o] = sessions[o]
      /\ TypeOK
  BY <1>1 DEF Move, ExclusiveInv, SessionsInv, SessionsTypeOK
<1>3. PICK a \in Actions, final \in CaseState :
        /\ cases' = [cases EXCEPT ![c].state = final]
        /\ \A q \in Payments \ {p} : payments'[q] = payments[q]
        /\ \A b \in Actions \ {a} : actions'[b] = actions[b]
        /\ \/ actions'[a] = actions[a]
           \/ /\ actions'[a].case = c /\ actions'[a].status # Absent
              /\ Exists(a) => actions[a].case = c
              /\ actions'[a].executed \/ actions'[a].type = "RETRY_LATER" \/ ~actions'[a].scheduled
  <2>1. CASE CommitsExecution(s, c, p)
    <3>1. PICK a \in Actions, base \in ActionRow : \E e \in EffectsOn(p, base) :
            /\ \/ a \in Due(c) /\ base = actions[a]
               \/ SomeActionFree /\ a = FreshAction /\ \E t \in Executable(p) : base = Proposed(c, t)
            /\ WritesEffect(c, p, a, base, e)
      BY <2>1 DEF CommitsExecution
    <3>2. PICK e \in EffectsOn(p, base) : WritesEffect(c, p, a, base, e)
      BY <3>1
    <3>3. base.case = c /\ (Exists(a) => actions[a].case = c)
      BY <3>1, FreshActionIsFree DEF Due, PendingActions, Proposed
    <3>4. /\ Verified(base, p, e).case = c /\ Verified(base, p, e).status # Absent
          /\ Verified(base, p, e).executed
      BY <3>3 DEF Verified, ActionRow, Absent
    <3>5. actions'[a] = Verified(base, p, e)
      BY <1>2, <3>2 DEF TypeOK, WritesEffect
    <3> QED
      BY <1>2, <3>3, <3>2, <3>4, <3>5 DEF TypeOK, CaseState, WritesEffect
  <2>2. CASE CommitsNoAction(s, c)
    BY <2>2, SessionsAssumption DEF CommitsNoAction, CaseState
  <2>3. CASE CommitsDisposition(s, c, p)
    <3>1. PICK t \in ActionType, row \in ActionRow, final \in CaseState :
            /\ Disposes(c, p, t, row, final)
            /\ cases' = [cases EXCEPT ![c].state = final]
            /\ actions' = [actions EXCEPT ![FreshAction] = row]
            /\ UNCHANGED payments
      BY <2>3 DEF CommitsDisposition
    <3>2. /\ row.case = c /\ row.status # Absent
          /\ row.type = "RETRY_LATER" \/ ~row.scheduled
      BY <3>1, DispositionType DEF Disposes
    <3>3. FreshAction \in Actions /\ ~Exists(FreshAction)
      BY <2>3, FreshActionIsFree DEF CommitsDisposition
    <3>4. actions'[FreshAction] = row
      BY <1>2, <3>1, <3>3 DEF TypeOK
    <3> QED
      BY <1>2, <3>1, <3>2, <3>3, <3>4 DEF TypeOK
  <2> QED
    BY <1>1, <2>1, <2>2, <2>3
<1>4. /\ \A d \in Cases \ {c} : cases'[d] = cases[d]
      /\ cases'[c].payment = p /\ cases'[c].state # Absent
  BY <1>1, <1>2, <1>3 DEF TypeOK, CaseRow, CaseState, HasCase, Absent
<1>5. RowsPersist /\ \A q \in Payments \ {p} : Untouched(q)
  BY <1>1, <1>3, <1>4, OnlyTouches
<1>6. ActionsOfCases'
  <2>1. ASSUME NEW b \in Actions, Exists(b)'
        PROVE  /\ cases'[actions'[b].case].state # Absent
               /\ Pending(b)' => actions'[b].type = "RETRY_LATER"
    <3>1. CASE actions'[b] = actions[b]
      <4>1. Exists(b) /\ actions[b].case \in Cases
        BY <1>2, <2>1, <3>1 DEF Exists, TypeOK, ActionRow
      <4> QED
        BY <1>5, <3>1, <4>1 DEF RowsPersist, ExclusiveInv, ActionsOfCases, Pending, Exists
    <3>2. CASE b = a /\ actions'[a].case = c
      BY <1>2, <1>3, <1>4, <3>1, <3>2 DEF Pending, Exists
    <3> QED
      BY <1>3, <3>1, <3>2
  <2> QED
    BY <2>1 DEF ActionsOfCases
<1>7. Faithful(sessions[s])'
  BY <1>2, NoSessionFields DEF Faithful, ReadsTrue, WritesTrue
<1>8. ~Busy(s)'
  BY <1>2, NoSessionFields DEF Busy
<1> QED
  BY <1>1, <1>2, <1>5, <1>6, <1>7, <1>8, OthersStayFaithful

LEMMA CommitCaptureWrites ==
    ASSUME ExclusiveInv, NEW s \in Sessions, CommitCapture(s)
    PROVE  /\ PaymentCapturedWebhook(sessions[s].payment)
           /\ Move(s, NoSession)
<1> DEFINE session == sessions[s]
           p       == session.payment
<1>1. /\ session \in Session /\ Faithful(session) /\ session.at = "recorded"
      /\ p \in Payments /\ TypeOK
  BY SessionReads DEF CommitCapture, ExclusiveInv, SessionsInv, SessionsTypeOK
<1>2. /\ Captured(session)
      /\ IF session.final = None THEN OpenCases(p) = {}
         ELSE session.case \in OpenCases(p) /\ session.final = "RECOVERED"
  BY <1>1 DEF Faithful, WritesTrue
<1>3. Merge(payments[p], session.before, session.after) = session.after
  BY <1>1, <1>2, MergeOwn DEF Captured, TypeOK, Session
<1>4. /\ payments[p].status # Absent /\ payments[p].attempts < AttemptCap
      /\ payments' = [payments EXCEPT ![p] = RecordRecoveryAttempt(payments[p], "SUCCEEDED", None)]
      /\ UNCHANGED <<actions, detecting, orders>> /\ Move(s, NoSession)
  BY <1>2, <1>3 DEF CommitCapture, Captured
<1>5. IF OpenCases(p) = {} THEN UNCHANGED cases
      ELSE \E c \in OpenCases(p) : cases' = [cases EXCEPT ![c].state = "RECOVERED"]
  BY <1>2 DEF CommitCapture
<1> QED
  BY <1>4, <1>5 DEF PaymentCapturedWebhook

\* A transaction of Recovery that changes no action writes what belongs to one
\* payment only.
LEMMA OneCaseTouches ==
    ASSUME ExclusiveInv, SessionsInv', NEW p \in Payments, UNCHANGED actions,
           \A q \in Payments \ {p} : payments'[q] = payments[q],
           \A c \in Cases : \/ cases'[c] = cases[c]
                            \/ /\ HasCase(c, p) \/ cases[c].state = Absent
                               /\ cases'[c].payment = p /\ cases'[c].state # Absent
    PROVE  /\ RowsPersist /\ ActionsOfCases'
           /\ \A q \in Payments \ {p} : Untouched(q)
<1>1. RowsPersist
  BY DEF RowsPersist, Exists, HasCase
<1>2. \A a \in Actions : Exists(a) => actions[a].case \in Cases /\ cases[actions[a].case].state # Absent
  BY DEF ExclusiveInv, ActionsOfCases, SessionsInv, SessionsTypeOK, TypeOK, ActionRow
<1>3. ActionsOfCases'
  BY <1>1, <1>2 DEF ExclusiveInv, ActionsOfCases, RowsPersist, Exists, Pending
<1>4. ASSUME NEW q \in Payments \ {p}
      PROVE  Untouched(q)
  BY <1>4 DEF Untouched, HasCase, HasAction
<1> QED
  BY <1>1, <1>3, <1>4

LEMMA CaptureTouches ==
    ASSUME ExclusiveInv, NEW p \in Payments, PaymentCapturedWebhook(p)
    PROVE  /\ UNCHANGED actions /\ \A q \in Payments \ {p} : payments'[q] = payments[q]
           /\ \A c \in Cases : \/ cases'[c] = cases[c]
                               \/ /\ HasCase(c, p)
                                  /\ cases'[c].payment = p /\ cases'[c].state # Absent
<1>1. TypeOK
  BY DEF ExclusiveInv, SessionsInv, SessionsTypeOK
<1>2. UNCHANGED actions /\ \A q \in Payments \ {p} : payments'[q] = payments[q]
  BY <1>1 DEF PaymentCapturedWebhook, TypeOK
<1>3. CASE OpenCases(p) = {}
  BY <1>2, <1>3 DEF PaymentCapturedWebhook
<1>4. CASE OpenCases(p) # {}
  <2>1. PICK c \in OpenCases(p) : cases' = [cases EXCEPT ![c].state = "RECOVERED"]
    BY <1>4 DEF PaymentCapturedWebhook
  <2>2. HasCase(c, p) /\ c \in Cases
    BY <2>1 DEF OpenCases, Open, HasCase
  <2>3. cases'[c].payment = p /\ cases'[c].state # Absent
    BY <1>1, <2>1, <2>2 DEF TypeOK, CaseRow, HasCase, Absent
  <2>4. \A d \in Cases \ {c} : cases'[d] = cases[d]
    BY <1>1, <2>1 DEF TypeOK
  <2> QED
    BY <1>2, <2>2, <2>3, <2>4
<1> QED
  BY <1>3, <1>4

LEMMA CommitCaptureFaithful ==
    ASSUME ExclusiveInv, SessionsInv', NEW s \in Sessions, CommitCapture(s)
    PROVE  ExclusiveInv'
<1>1. PICK p \in Payments : p = sessions[s].payment /\ Alone(s, p) /\ PaymentCapturedWebhook(p)
  BY SessionReads, CommitCaptureWrites DEF CommitCapture, Busy
<1>2. sessions'[s] = NoSession /\ \A o \in Sessions \ {s} : sessions'[o] = sessions[o]
  BY CommitCaptureWrites DEF Move, ExclusiveInv, SessionsInv, SessionsTypeOK
<1>3. RowsPersist /\ ActionsOfCases' /\ \A q \in Payments \ {p} : Untouched(q)
  BY <1>1, CaptureTouches, OneCaseTouches
<1>4. Faithful(sessions[s])'
  BY <1>2, NoSessionFields DEF Faithful, ReadsTrue, WritesTrue
<1>5. ~Busy(s)'
  BY <1>2, NoSessionFields DEF Busy
<1> QED
  BY <1>1, <1>2, <1>3, <1>4, <1>5, OthersStayFaithful

LEMMA RequestFaithful ==
    ASSUME Exclusive, ExclusiveInv, SessionsInv', NEW p \in Payments, Request(p)
    PROVE  ExclusiveInv'
<1>1. TypeOK /\ sessions' = sessions /\ \A o \in Sessions : Busy(o) => sessions[o].payment # p
  BY DEF Request, Quiet, ExclusiveInv, SessionsInv, SessionsTypeOK
<1>2. /\ UNCHANGED actions /\ \A q \in Payments \ {p} : payments'[q] = payments[q]
      /\ \A c \in Cases : \/ cases'[c] = cases[c]
                          \/ /\ cases[c].state = Absent
                             /\ cases'[c].payment = p /\ cases'[c].state # Absent
  <2>1. CASE \E status \in PaymentStatus, reason \in IngestReasons \cup {None}, open \in OpenOnIngest :
               CreatePayment(p, status, reason, open)
    BY <1>1, <2>1 DEF CreatePayment, TypeOK
  <2>2. CASE \E reason \in IngestReasons : PaymentFailedWebhook(p, reason)
    BY <1>1, <2>2 DEF PaymentFailedWebhook, CreatePayment, FailPayment, TypeOK
  <2>3. CASE DetectRisk(p)
    <3>1. CASE OpenCases(p) # {}
      BY <2>3, <3>1 DEF DetectRisk
    <3>2. CASE OpenCases(p) = {}
      <4>1. /\ SomeCaseFree
            /\ cases' = [cases EXCEPT ![FreshCase] = [state |-> "DETECTED", payment |-> p]]
            /\ UNCHANGED <<payments, actions>>
        BY <2>3, <3>2 DEF DetectRisk
      <4>2. FreshCase \in Cases /\ cases[FreshCase].state = Absent
        BY <4>1, FreshCaseIsFree
      <4>3. /\ \A c \in Cases : c # FreshCase => cases'[c] = cases[c]
            /\ cases'[FreshCase] = [state |-> "DETECTED", payment |-> p]
        BY <1>1, <4>1, <4>2 DEF TypeOK
      <4> QED
        BY <4>1, <4>2, <4>3 DEF Absent
    <3> QED
      BY <3>1, <3>2
  <2>4. CASE LoseRequest(p)
    BY <2>4 DEF LoseRequest
  <2> QED
    BY <2>1, <2>2, <2>3, <2>4 DEF Request
<1>3. RowsPersist /\ ActionsOfCases' /\ \A q \in Payments \ {p} : Untouched(q)
  BY <1>2, OneCaseTouches
<1>4. ASSUME NEW o \in Sessions
      PROVE  Faithful(sessions[o])'
  <2>1. PICK session \in Session : session = sessions[o]
    BY SessionReads
  <2>2. Sound(session) /\ Faithful(session) /\ session.payment \in Payments
    BY <2>1, SessionReads
  <2>3. Faithful(session)'
    BY <1>1, <1>3, <2>1, <2>2, StaysFaithful DEF Busy
  <2>4. sessions'[o] = session
    BY <1>1, <2>1
  <2> QED
    BY <2>3, <2>4 DEF Faithful, ReadsTrue, WritesTrue, Chosen, Performed, Concluded, Captured
<1>5. Exclusion'
  BY <1>1 DEF Exclusion, ExclusiveInv, Busy
<1> QED
  BY <1>3, <1>4, <1>5 DEF ExclusiveInv

\* While the clock moves no run is under way: only the due times change.
LEMMA TimePassesMeans ==
    ASSUME Exclusive, ExclusiveInv, TimePasses
    PROVE  UNCHANGED sessions /\ AdvanceClock
<1>1. ASSUME NEW s \in Sessions
      PROVE  sessions[s] = NoSession
  BY SessionReads DEF TimePasses, Busy, Faithful
<1>2. sessions'= sessions
  <2>1. ASSUME NEW s \in Sessions
        PROVE  [sessions[s] EXCEPT !.row = Tick(@)] = sessions[s]
    <3>1. Tick(NoSession.row) = NoSession.row
      BY NoSessionFields DEF Tick
    <3>2. [NoSession EXCEPT !.row = NoSession.row] = NoSession
      BY NoSessionFields DEF Session
    <3> QED
      BY <1>1, <3>1, <3>2
  <2>2. sessions' = [s \in Sessions |-> sessions[s]]
    BY <2>1 DEF TimePasses
  <2> QED
    BY <2>2 DEF ExclusiveInv, SessionsInv, SessionsTypeOK
<1>3. \E a \in Actions : actions[a].wait > 0
  BY <1>1, NoSessionFields DEF TimePasses
<1> QED
  BY <1>2, <1>3 DEF TimePasses, AdvanceClock, Tick

LEMMA TimePassesFaithful ==
    ASSUME Exclusive, ExclusiveInv, SessionsInv', TimePasses
    PROVE  ExclusiveInv'
<1>1. ASSUME NEW s \in Sessions
      PROVE  sessions[s] = NoSession /\ sessions'[s] = NoSession
  BY SessionReads, TimePassesMeans DEF TimePasses, Busy, Faithful
<1>2. Exclusion'
  BY <1>1, NoSessionFields DEF Exclusion, Busy
<1>3. ActionsOfCases'
  <2>1. \A a \in Actions : /\ actions'[a].status = actions[a].status
                           /\ actions'[a].case = actions[a].case /\ actions'[a].type = actions[a].type
                           /\ actions'[a].scheduled = actions[a].scheduled
                           /\ actions'[a].executed = actions[a].executed
    BY DEF TimePasses, Tick, ExclusiveInv, SessionsInv, SessionsTypeOK, TypeOK, ActionRow
  <2>2. cases' = cases
    BY DEF TimePasses
  <2> QED
    BY <2>1, <2>2 DEF ExclusiveInv, ActionsOfCases, Exists, Pending
<1>4. ASSUME NEW s \in Sessions
      PROVE  Faithful(sessions[s])'
  BY <1>1, NoSessionFields DEF Faithful, ReadsTrue, WritesTrue
<1> QED
  BY <1>2, <1>3, <1>4 DEF ExclusiveInv

LEMMA InitExclusive == SInit => ExclusiveInv
<1> SUFFICES ASSUME SInit PROVE ExclusiveInv
  OBVIOUS
<1>1. SessionsInv
  BY InitSessions
<1>2. \A s \in Sessions : sessions[s] = NoSession
  BY DEF SInit
<1>3. ActionsOfCases
  BY DEF SInit, Init, NoAction, Proposed, ActionsOfCases, Exists
<1>4. Exclusion /\ \A s \in Sessions : Faithful(sessions[s])
  BY <1>2, NoSessionFields DEF Exclusion, Busy
<1> QED
  BY <1>1, <1>3, <1>4 DEF ExclusiveInv

LEMMA StepExclusive ==
    ASSUME Exclusive, ExclusiveInv, [SNext]_svars
    PROVE  ExclusiveInv'
<1>1. SessionsInv'
  BY StepSessions DEF ExclusiveInv
<1>2. CASE UNCHANGED svars
  <2>1. UNCHANGED <<payments, cases, actions>> /\ sessions' = sessions
    BY <1>2 DEF svars
  <2>2. ASSUME NEW s \in Sessions
        PROVE  Faithful(sessions[s])'
    <3>1. PICK session : session = sessions[s] /\ Faithful(session)
      BY SessionReads
    <3>2. Faithful(session)' /\ sessions'[s] = session
      BY <2>1, <3>1, SameDatabase
    <3> QED
      BY <3>2 DEF Faithful, ReadsTrue, WritesTrue, Chosen, Performed, Concluded, Captured
  <2>3. Exclusion' /\ ActionsOfCases'
    BY <2>1 DEF ExclusiveInv, Exclusion, Busy, ActionsOfCases, Exists, Pending
  <2> QED
    BY <1>1, <2>2, <2>3 DEF ExclusiveInv
<1>3. ASSUME NEW s \in Sessions, NEW c \in Cases, BeginRun(s, c)
      PROVE  ExclusiveInv'
  BY <1>1, <1>3, BeginRunFaithful
<1>4. ASSUME NEW s \in Sessions, Diagnose(s)
      PROVE  ExclusiveInv'
  BY <1>1, <1>4, DiagnoseFaithful
<1>5. ASSUME NEW s \in Sessions, NEW t \in ActionType, Decide(s, t)
      PROVE  ExclusiveInv'
  BY <1>1, <1>5, DecideFaithful
<1>6. ASSUME NEW s \in Sessions, Resume(s) \/ ExecuteStep(s) \/ CommitRun(s)
      PROVE  ExclusiveInv'
  BY <1>1, <1>6, ResumeFaithful, ExecuteFaithful, CommitRunFaithful
<1>7. ASSUME NEW s \in Sessions, RunFails(s) \/ ReadForRestore(s)
      PROVE  ExclusiveInv'
  BY <1>1, <1>7, RunFailsFaithful, ReadForRestoreFaithful
<1>8. ASSUME NEW s \in Sessions, RestoreEntry(s) \/ Die(s)
      PROVE  ExclusiveInv'
  BY <1>1, <1>8, RestoreChangesNothing, ForgetFaithful DEF RestoreEntry, Die, Busy, vars
<1>9. ASSUME NEW s \in Sessions, NEW p \in Payments, Notify(s, p)
      PROVE  ExclusiveInv'
  BY <1>1, <1>9, NotifyFaithful
<1>10. ASSUME NEW s \in Sessions, RecordCapture(s) \/ CommitCapture(s)
       PROVE  ExclusiveInv'
  BY <1>1, <1>10, RecordCaptureFaithful, CommitCaptureFaithful
<1>11. ASSUME NEW p \in Payments, Request(p)
       PROVE  ExclusiveInv'
  BY <1>1, <1>11, RequestFaithful
<1>12. CASE TimePasses
  BY <1>1, <1>12, TimePassesFaithful
<1> QED
  BY <1>2, <1>3, <1>4, <1>5, <1>6, <1>7, <1>8, <1>9, <1>10, <1>11, <1>12 DEF SNext

\* Whatever a session has read of its payment is still true when it commits.
THEOREM ExclusiveSessionsReadTrue ==
    ASSUME Exclusive
    PROVE  SSpec => []ExclusiveInv
  BY InitExclusive, StepExclusive, PTL DEF SSpec

(***************************************************************************)
(* The orders of runs that have committed or failed.                       *)
(***************************************************************************)
InFlightAs(session, p) == session.at = "executed" /\ session.ordered = 1 /\ session.payment = p

LEMMA FlightAlone ==
    ASSUME NEW s \in Sessions, NEW p \in Payments, Alone(s, p)
    PROVE  InFlight(p) = IF InFlightAs(sessions[s], p) THEN {s} ELSE {}
  BY DEF Alone, Busy, InFlight, InFlightAs

LEMMA CardinalityOfFlight ==
    /\ Cardinality({}) = 0
    /\ \A s \in Sessions : Cardinality({s}) = 1
  BY FS_EmptySet, FS_Singleton

\* A session that is not in flight before or after its step settles nothing.
LEMMA SettlesNothing ==
    ASSUME ExclusiveInv, NEW s \in Sessions, NEW next, Move(s, next), UNCHANGED orders,
           \A p \in Payments : ~InFlightAs(sessions[s], p) /\ ~InFlightAs(next, p)
    PROVE  Settled' = Settled
<1>1. sessions'[s] = next /\ \A o \in Sessions \ {s} : sessions'[o] = sessions[o]
  BY DEF Move, ExclusiveInv, SessionsInv, SessionsTypeOK
<1>2. \A p \in Payments : InFlight(p)' = InFlight(p)
  BY <1>1 DEF InFlight, InFlightAs
<1> QED
  BY <1>2 DEF Settled

\* The order of an execution is not settled yet.
LEMMA ExecuteSettlesNothing ==
    ASSUME ExclusiveInv, NEW s \in Sessions, ExecuteStep(s)
    PROVE  Settled' = Settled
<1>1. PICK p \in Payments : p = sessions[s].payment /\ Alone(s, p)
  BY SessionReads DEF ExecuteStep, Busy
<1>2. PICK next, e :
        /\ Move(s, next) /\ next.at = "executed" /\ next.payment = p /\ next.ordered = e.ordered
        /\ orders' = [orders EXCEPT ![p] = @ + e.ordered]
        /\ e.ordered \in {0, 1}
  BY <1>1, ExecuteMoves, EffectsOrdered DEF EffectsOn
<1>3. sessions'[s] = next /\ \A o \in Sessions \ {s} : sessions'[o] = sessions[o]
  BY <1>2 DEF Move, ExclusiveInv, SessionsInv, SessionsTypeOK
<1>4. orders \in [Payments -> Nat] /\ sessions[s].at = "gated"
  BY DEF ExecuteStep, ExclusiveInv, SessionsInv, SessionsTypeOK, TypeOK
<1>5. \A q \in Payments \ {p} : InFlight(q)' = InFlight(q)
  BY <1>2, <1>3, <1>4 DEF InFlight
<1>6. InFlight(p) = {}
  BY <1>1, <1>4, FlightAlone DEF InFlightAs
<1>7. InFlight(p)' = IF e.ordered = 1 THEN {s} ELSE {}
  BY <1>2, <1>3, <1>6 DEF InFlight
<1>8. orders'[p] - Cardinality(InFlight(p)') = orders[p] - Cardinality(InFlight(p))
  BY <1>2, <1>4, <1>6, <1>7, CardinalityOfFlight
<1>9. \A q \in Payments \ {p} : orders'[q] = orders[q]
  BY <1>2, <1>4
<1> QED
  BY <1>5, <1>8, <1>9 DEF Settled

\* An order is settled when its run commits or fails.
LEMMA LandingSettles ==
    ASSUME ExclusiveInv, NEW s \in Sessions, NEW p \in Payments, NEW next, Move(s, next),
           UNCHANGED orders, sessions[s].payment = p, Alone(s, p), \A q \in Payments : ~InFlightAs(next, q)
    PROVE  Settled' = [Settled EXCEPT ![p] = @ + IF InFlightAs(sessions[s], p) THEN 1 ELSE 0]
<1>1. sessions'[s] = next /\ \A o \in Sessions \ {s} : sessions'[o] = sessions[o]
  BY DEF Move, ExclusiveInv, SessionsInv, SessionsTypeOK
<1>2. \A q \in Payments \ {p} : InFlight(q)' = InFlight(q)
  BY <1>1 DEF InFlight, InFlightAs
<1>3. InFlight(p)' = {}
  BY <1>1 DEF InFlight, InFlightAs, Alone, Busy
<1>4. InFlight(p) = IF InFlightAs(sessions[s], p) THEN {s} ELSE {}
  BY FlightAlone
<1>5. orders[p] \in Nat
  BY DEF ExclusiveInv, SessionsInv, SessionsTypeOK, TypeOK
<1>6. orders'[p] - Cardinality(InFlight(p)') =
        (orders[p] - Cardinality(InFlight(p))) + IF InFlightAs(sessions[s], p) THEN 1 ELSE 0
  BY <1>3, <1>4, <1>5, CardinalityOfFlight
<1> QED
  BY <1>2, <1>6 DEF Settled

(***************************************************************************)
(* Reading the committed rows: Recovery under the refinement mapping reads *)
(* the same rows, and only the orders are mapped.                          *)
(***************************************************************************)
LEMMA CommittedVerdict ==
    \A ctx, t : Committed!PolicyVerdict(ctx, t) = PolicyVerdict(ctx, t)
  BY DEF Committed!PolicyVerdict, PolicyVerdict, Committed!Blocking, Blocking, Committed!Escalating,
         Escalating, Committed!InvalidPaymentState, InvalidPaymentState, Committed!UnsupportedAction,
         UnsupportedAction, Committed!RetryLimitReached, RetryLimitReached,
         Committed!RecoveryBudgetExhausted, RecoveryBudgetExhausted, Committed!RepeatedFailures,
         RepeatedFailures, Committed!UnknownFailure, UnknownFailure, Committed!HighValueTransaction,
         HighValueTransaction, Committed!TerminalActions, TerminalActions, Committed!Unsuccessful,
         Unsuccessful, Committed!RetryActions, RetryActions

LEMMA CommittedContext ==
    /\ \A p : Committed!ContextOf(p) = ContextOf(p)
    /\ \A p, reason : Committed!CandidateActions(p, reason) = CandidateActions(p, reason)
<1>1. \A p : Committed!Failures(p) = Failures(p)
  BY DEF Committed!Failures, Failures, Committed!Exists, Exists, Committed!PaymentOf, PaymentOf,
         Committed!Absent, Absent
<1>2. Committed!CandidatesByReason = CandidatesByReason
  BY DEF Committed!CandidatesByReason, CandidatesByReason, Committed!FailureReason, FailureReason
<1>3. \A p : Committed!ContextOf(p) = ContextOf(p)
  BY DEF Committed!ContextOf, ContextOf, Committed!ContextFrom, ContextFrom, Committed!Failures, Failures,
         Committed!Exists, Exists, Committed!PaymentOf, PaymentOf, Committed!Cardinality, Cardinality,
         Committed!Absent, Absent, Committed!None, None
<1>4. \A p, reason : Committed!CandidateActions(p, reason) = CandidateActions(p, reason)
  BY <1>1, <1>2 DEF Committed!CandidateActions, CandidateActions, Committed!TerminalActions, TerminalActions
<1> QED
  BY <1>3, <1>4

LEMMA CommittedFree ==
    /\ Committed!SomeActionFree <=> SomeActionFree
    /\ Committed!FreshAction = FreshAction
  BY DEF Committed!SomeActionFree, SomeActionFree, Committed!FreshAction, FreshAction,
         Committed!Exists, Exists, Committed!Absent, Absent

LEMMA CommittedDecides ==
    \A c, t, verdict : Committed!Decides(c, t, verdict) <=> Decides(c, t, verdict)
  BY CommittedVerdict, CommittedContext, CommittedFree DEF Committed!Decides, Decides

LEMMA CommittedPending ==
    \A c : Committed!PendingActions(c) = PendingActions(c)
  BY DEF Committed!PendingActions, PendingActions, Committed!Pending, Pending, Committed!Exists,
         Exists, Committed!Absent, Absent

LEMMA CommittedOpenCases ==
    \A p : Committed!OpenCases(p) = OpenCases(p)
  BY DEF Committed!OpenCases, OpenCases, Committed!Open, Open, Committed!TerminalStates, TerminalStates,
         Committed!Absent, Absent

LEMMA CommittedRecord ==
    \A row, status, reason :
        Committed!RecordRecoveryAttempt(row, status, reason) = RecordRecoveryAttempt(row, status, reason)
  BY DEF Committed!RecordRecoveryAttempt, RecordRecoveryAttempt, Committed!None, None

LEMMA CommittedEffects ==
    \A row, reason, t : Committed!Effects(row, reason, t) = Effects(row, reason, t)
  BY DEF Committed!Effects, Effects, Committed!SimulatorEffects, SimulatorEffects,
         Committed!RazorpayEffects, RazorpayEffects, Committed!SimulatedOutcomes, SimulatedOutcomes,
         Committed!AlwaysSucceed, AlwaysSucceed, Committed!AlwaysFail, AlwaysFail,
         Committed!RecordRecoveryAttempt, RecordRecoveryAttempt, Committed!Effect, Effect,
         Committed!RazorpayRetryNow, RazorpayRetryNow, Committed!RazorpayRetryLater,
         RazorpayRetryLater, Committed!RazorpayLink, RazorpayLink, Committed!None, None

LEMMA CommittedRows ==
    /\ \A c, t : Committed!Proposed(c, t) = Proposed(c, t)
    /\ \A c : Committed!DeferredRetry(c) = DeferredRetry(c)
  BY DEF Committed!Proposed, Proposed, Committed!DeferredRetry, DeferredRetry, Committed!None, None

(***************************************************************************)
(* Steps of Recovery.                                                      *)
(***************************************************************************)
\* The transactions of other requests place no order.
LEMMA RequestMaps ==
    ASSUME NEW p \in Payments, Request(p), Settled' = Settled
    PROVE  Committed!Next
<1>1. CASE \E status \in PaymentStatus, reason \in IngestReasons \cup {None}, open \in OpenOnIngest :
             CreatePayment(p, status, reason, open)
  <2>1. PICK status \in PaymentStatus, reason \in IngestReasons \cup {None}, open \in OpenOnIngest :
          CreatePayment(p, status, reason, open)
    BY <1>1
  <2>2. Committed!CreatePayment(p, status, reason, open)
    BY <2>1 DEF CreatePayment, Committed!CreatePayment, Committed!Unsuccessful, Unsuccessful,
                Committed!Absent, Absent, Committed!None, None
  <2> QED
    BY <2>2 DEF Committed!Next, Committed!PaymentStatus, PaymentStatus, Committed!None, None
<1>2. CASE \E reason \in IngestReasons : PaymentFailedWebhook(p, reason)
  <2>1. PICK reason \in IngestReasons : PaymentFailedWebhook(p, reason)
    BY <1>2
  <2>2. Committed!PaymentFailedWebhook(p, reason)
    BY <2>1 DEF PaymentFailedWebhook, Committed!PaymentFailedWebhook, CreatePayment,
                Committed!CreatePayment, FailPayment, Committed!FailPayment, Committed!Unsuccessful,
                Unsuccessful, Committed!Absent, Absent, Committed!None, None
  <2> QED
    BY <2>2 DEF Committed!Next
<1>3. CASE DetectRisk(p)
  <2>1. Committed!DetectRisk(p)
    BY <1>3, CommittedOpenCases
       DEF DetectRisk, Committed!DetectRisk, Committed!SomeCaseFree, SomeCaseFree,
           Committed!FreshCase, FreshCase, Committed!Absent, Absent
  <2> QED
    BY <2>1 DEF Committed!Next
<1>4. CASE LoseRequest(p)
  <2>1. Committed!LoseRequest(p)
    BY <1>4 DEF LoseRequest, Committed!LoseRequest
  <2> QED
    BY <2>1 DEF Committed!Next
<1> QED
  BY <1>1, <1>2, <1>3, <1>4 DEF Request

LEMMA CaptureMaps ==
    ASSUME NEW p \in Payments, PaymentCapturedWebhook(p), Settled' = Settled
    PROVE  Committed!Next
<1>1. Committed!PaymentCapturedWebhook(p)
  BY CommittedOpenCases, CommittedRecord
     DEF PaymentCapturedWebhook, Committed!PaymentCapturedWebhook, Committed!Absent, Absent,
         Committed!None, None
<1> QED
  BY <1>1 DEF Committed!Next

LEMMA ClockMaps ==
    ASSUME AdvanceClock, Settled' = Settled
    PROVE  Committed!Next
<1>1. Committed!AdvanceClock
  BY DEF AdvanceClock, Committed!AdvanceClock
<1> QED
  BY <1>1 DEF Committed!Next

\* A decision that executes nothing is one of Stop, Escalate, HandOver, Schedule.
LEMMA DispositionMaps ==
    ASSUME ExclusiveInv, NEW s \in Sessions, NEW c \in Cases, NEW p \in Payments, HasCase(c, p),
           cases[c].state = sessions[s].entry, CommitsDisposition(s, c, p),
           UNCHANGED <<detecting, orders>>, Settled' = Settled
    PROVE  Committed!Run(c)
<1>1. PICK t \in ActionType, row \in ActionRow, final \in CaseState :
        /\ Disposes(c, p, t, row, final)
        /\ cases' = [cases EXCEPT ![c].state = final]
        /\ actions' = [actions EXCEPT ![FreshAction] = row]
        /\ UNCHANGED payments /\ SomeActionFree
  BY DEF CommitsDisposition
<1>2. cases[c].state \in {"DETECTED", "FAILED"} /\ cases[c].payment = p
  <2>1. sessions[s].entry \in RunnableStates \ {"SCHEDULED"}
    BY SessionReads DEF CommitsDisposition, Session
  <2> QED
    BY <2>1 DEF RunnableStates, HasCase
<1>3. \A verdict : VerdictOn(p, t) = verdict => Decides(c, t, verdict)
  BY <1>1, <1>2 DEF Disposes, Decides, VerdictOn, ReasonOf
<1>4. Committed!Dispose(c, final, row)
  BY <1>1, CommittedFree DEF Committed!Dispose
<1>5. t \in Committed!ActionType
  BY DEF ActionType, Committed!ActionType
<1>6. CASE VerdictOn(p, t) = "BLOCKED"
  <2>1. final = "STOPPED" /\ row = [Proposed(c, t) EXCEPT !.status = "BLOCKED"]
    BY <1>1, <1>6 DEF Disposes, Disposition
  <2>2. Committed!Stop(c, t)
    BY <1>3, <1>4, <1>6, <2>1, CommittedDecides, CommittedRows DEF Committed!Stop
  <2> QED
    BY <1>5, <2>2 DEF Committed!Run
<1>7. CASE VerdictOn(p, t) = "ESCALATED"
  <2>1. final = "ESCALATED" /\ row = [Proposed(c, t) EXCEPT !.status = "ESCALATED"]
    BY <1>1, <1>7 DEF Disposes, Disposition
  <2>2. Committed!Escalate(c, t)
    BY <1>3, <1>4, <1>7, <2>1, CommittedDecides, CommittedRows DEF Committed!Escalate
  <2> QED
    BY <1>5, <2>2 DEF Committed!Run
<1>8. CASE VerdictOn(p, t) = "APPROVED" /\ t = "RETRY_LATER"
  <2>1. final = "SCHEDULED" /\ row = DeferredRetry(c)
    BY <1>1, <1>8 DEF Disposes, Disposition
  <2>2. Committed!Schedule(c)
    BY <1>3, <1>4, <1>8, <2>1, CommittedDecides, CommittedRows DEF Committed!Schedule
  <2> QED
    BY <2>2 DEF Committed!Run
<1>9. CASE VerdictOn(p, t) = "APPROVED" /\ t # "RETRY_LATER"
  <2>1. /\ t \in TerminalActions
        /\ final = IF t = "STOP" THEN "STOPPED" ELSE "ESCALATED"
        /\ row = [Proposed(c, t) EXCEPT !.status = "APPROVED"]
    BY <1>1, <1>9 DEF Disposes, Disposition
  <2>2. Committed!HandOver(c, t)
    BY <1>3, <1>4, <1>9, <2>1, CommittedDecides, CommittedRows
       DEF Committed!HandOver, Committed!TerminalActions, TerminalActions
  <2> QED
    BY <1>5, <2>2 DEF Committed!Run
<1> QED
  BY <1>6, <1>7, <1>8, <1>9 DEF VerdictOn, PolicyVerdict

LEMMA NoActionMaps ==
    ASSUME ExclusiveInv, NEW s \in Sessions, NEW c \in Cases, cases[c].state = sessions[s].entry,
           CommitsNoAction(s, c), UNCHANGED detecting, Settled' = Settled
    PROVE  Committed!Run(c)
<1>1. Committed!ResumeScheduled(c)
  BY CommittedPending DEF CommitsNoAction, Committed!ResumeScheduled
<1> QED
  BY <1>1 DEF Committed!Run

\* An execution is that of a fresh action or that of the due one.
LEMMA ExecutionMaps ==
    ASSUME ExclusiveInv, NEW s \in Sessions, NEW c \in Cases, NEW p \in Payments, HasCase(c, p),
           cases[c].state = sessions[s].entry, CommitsExecution(s, c, p), UNCHANGED detecting,
           Settled' = [Settled EXCEPT ![p] = @ + sessions[s].ordered]
    PROVE  Committed!Run(c)
<1>1. PICK a \in Actions, base \in ActionRow : \E e \in EffectsOn(p, base) :
        /\ \/ sessions[s].entry = "SCHEDULED" /\ a \in Due(c) /\ base = actions[a]
           \/ /\ sessions[s].entry # "SCHEDULED" /\ SomeActionFree /\ a = FreshAction
              /\ \E t \in Executable(p) : base = Proposed(c, t)
        /\ sessions[s].ordered = e.ordered
        /\ WritesEffect(c, p, a, base, e)
  BY DEF CommitsExecution
<1>2. PICK e \in EffectsOn(p, base) :
        sessions[s].ordered = e.ordered /\ WritesEffect(c, p, a, base, e)
  BY <1>1
<1>3. cases[c].payment = p
  BY DEF HasCase
<1>4. Committed!ApplyEffect(c, a, base, e)
  BY <1>2, <1>3 DEF WritesEffect, Verified, Recovers, Committed!ApplyEffect, Committed!Recovers
<1>5. e \in Committed!Effects(payments[p], Committed!ContextOf(p).reason, base.type)
  BY <1>2, CommittedEffects, CommittedContext DEF EffectsOn, ReasonOf
<1>6. Committed!ExecuteAndVerify(c, a, base)
  BY <1>3, <1>4, <1>5 DEF Committed!ExecuteAndVerify
<1>7. CASE sessions[s].entry = "SCHEDULED"
  <2>1. a \in Due(c) /\ base = actions[a]
    BY <1>1, <1>7
  <2>2. Committed!ResumeScheduled(c)
    BY <1>6, <1>7, <2>1, CommittedPending DEF Committed!ResumeScheduled, Due
  <2> QED
    BY <2>2 DEF Committed!Run
<1>8. CASE sessions[s].entry # "SCHEDULED"
  <2>1. SomeActionFree /\ a = FreshAction
    BY <1>1, <1>8
  <2>2. PICK t \in Executable(p) : base = Proposed(c, t)
    BY <1>1, <1>8
  <2>3. cases[c].state \in {"DETECTED", "FAILED"}
    <3>1. sessions[s].entry \in RunnableStates \ {"SCHEDULED"}
      BY <1>8, SessionReads DEF Session
    <3> QED
      BY <3>1 DEF RunnableStates
  <2>4. Decides(c, t, "APPROVED") /\ t \notin TerminalActions \cup {"RETRY_LATER"} /\ t \in ActionType
    BY <1>3, <2>1, <2>2, <2>3 DEF Executable, Decides, VerdictOn, ReasonOf
  <2>5. Committed!Execute(c, t)
    BY <1>6, <2>1, <2>2, <2>4, CommittedDecides, CommittedFree, CommittedRows
       DEF Committed!Execute, Committed!TerminalActions, TerminalActions
  <2>6. t \in Committed!ActionType
    BY <2>4 DEF ActionType, Committed!ActionType
  <2> QED
    BY <2>5, <2>6 DEF Committed!Run
<1> QED
  BY <1>7, <1>8

\* An order is left behind by a run that fails after it: a full cycle that was
\* approved to reach Razorpay.  Resumptions and simulated runs place none.
LEMMA AbandonMaps ==
    ASSUME ExclusiveInv, NEW s \in Sessions, NEW p \in Payments, InFlightAs(sessions[s], p),
           MayAbandon(s), UNCHANGED <<payments, cases, actions, detecting>>,
           Settled' = [Settled EXCEPT ![p] = @ + 1]
    PROVE  Committed!Next
<1> DEFINE session == sessions[s]
           c       == session.case
<1>1. /\ session \in Session /\ Sound(session) /\ Faithful(session) /\ c \in Cases
      /\ session.at = "executed" /\ session.ordered = 1 /\ session.payment = p
      /\ cases[c].payment = p /\ cases[c].state = session.entry
  BY SessionReads DEF InFlightAs, Sound, KnowsItsCase, RunStages, Faithful, ReadsTrue
<1>2. SomeActionFree /\ Settled[p] < OrderCap
  BY <1>1 DEF MayAbandon, InFlight
<1>3. PICK base \in Chosen(session) : \E e \in EffectsOn(p, base) : e.ordered = 1
  BY <1>1 DEF Faithful, WritesTrue, Performed
<1>4. Provider = "razorpay" /\ base.type # "RETRY_LATER"
  BY <1>3, ConstantsAssumption
     DEF EffectsOn, Effects, SimulatorEffects, RazorpayEffects, RazorpayRetryLater, Effect
<1>5. session.entry # "SCHEDULED"
  <2>1. \A a \in Due(c) : actions[a].type = "RETRY_LATER"
    BY DEF Due, PendingActions, Pending, ExclusiveInv, ActionsOfCases
  <2> QED
    BY <1>3, <1>4, <2>1 DEF Chosen
<1>6. PICK t \in Executable(p) : base = Proposed(c, t)
  BY <1>1, <1>3, <1>5 DEF Chosen
<1>7. cases[c].state \in {"DETECTED", "FAILED"}
  BY <1>1, <1>5 DEF Session, RunnableStates
<1>8. Decides(c, t, "APPROVED") /\ t \notin TerminalActions \cup {"RETRY_LATER"} /\ t \in ActionType
  BY <1>1, <1>2, <1>6, <1>7 DEF Executable, Decides, VerdictOn, ReasonOf
<1>9. Committed!RunFailsAfterOrder(c, t)
  BY <1>1, <1>2, <1>4, <1>8, CommittedDecides
     DEF Committed!RunFailsAfterOrder, Committed!TerminalActions, TerminalActions
<1>10. t \in Committed!ActionType
  BY <1>8 DEF ActionType, Committed!ActionType
<1> QED
  BY <1>1, <1>9, <1>10 DEF Committed!Next

\* A run that ends without a commit leaves at most an order behind.
LEMMA ForgetMaps ==
    ASSUME ExclusiveInv, NEW s \in Sessions, Busy(s), MayAbandon(s), NEW next, Move(s, next),
           next.at # "executed", UNCHANGED vars
    PROVE  [Committed!Next]_(Committed!vars)
<1>1. PICK p \in Payments : p = sessions[s].payment /\ Alone(s, p)
  BY SessionReads
<1>2. Settled' = [Settled EXCEPT ![p] = @ + IF InFlightAs(sessions[s], p) THEN 1 ELSE 0]
  BY <1>1, LandingSettles DEF InFlightAs, vars
<1>3. CASE InFlightAs(sessions[s], p)
  BY <1>2, <1>3, AbandonMaps DEF vars
<1>4. CASE ~InFlightAs(sessions[s], p)
  <2>1. \A q \in Payments : ~InFlightAs(sessions[s], q) /\ ~InFlightAs(next, q)
    BY <1>1, <1>4 DEF InFlightAs
  <2>2. Settled' = Settled
    BY <2>1, SettlesNothing DEF vars
  <2> QED
    BY <2>2 DEF vars, Committed!vars
<1> QED
  BY <1>3, <1>4

LEMMA CommitRunMaps ==
    ASSUME Exclusive, ExclusiveInv, NEW s \in Sessions, CommitRun(s)
    PROVE  Committed!Next
<1>1. PICK c \in Cases, p \in Payments :
        /\ p = sessions[s].payment /\ HasCase(c, p) /\ Alone(s, p)
        /\ cases[c].state = sessions[s].entry
        /\ Move(s, NoSession) /\ UNCHANGED <<detecting, orders>>
        /\ CommitsExecution(s, c, p) \/ CommitsNoAction(s, c) \/ CommitsDisposition(s, c, p)
  BY CommitRunWrites
<1>2. \A q \in Payments : ~InFlightAs(NoSession, q)
  BY NoSessionFields DEF InFlightAs
<1>3. Settled' = [Settled EXCEPT ![p] = @ + IF InFlightAs(sessions[s], p) THEN 1 ELSE 0]
  BY <1>1, <1>2, LandingSettles
<1>4. CASE CommitsExecution(s, c, p)
  <2>1. sessions[s].at = "executed" /\ sessions[s].ordered \in {0, 1}
    BY <1>4, SessionReads DEF CommitsExecution, Session
  <2>2. (IF InFlightAs(sessions[s], p) THEN 1 ELSE 0) = sessions[s].ordered
    BY <1>1, <2>1 DEF InFlightAs
  <2>3. Settled' = [Settled EXCEPT ![p] = @ + sessions[s].ordered]
    BY <1>3, <2>2
  <2> QED
    BY <1>1, <1>4, <2>3, ExecutionMaps DEF Committed!Next
<1>5. CASE ~CommitsExecution(s, c, p)
  <2>1. sessions[s].at = "ending"
    BY <1>1, <1>5 DEF CommitsNoAction, CommitsDisposition
  <2>2. Settled' = Settled
    BY <1>1, <1>2, <2>1, SettlesNothing DEF InFlightAs
  <2> QED
    BY <1>1, <1>5, <2>2, NoActionMaps, DispositionMaps DEF Committed!Next
<1> QED
  BY <1>4, <1>5

(***************************************************************************)
(* The refinement.                                                         *)
(***************************************************************************)
LEMMA InitMaps == SInit => Committed!Init
<1> SUFFICES ASSUME SInit PROVE Committed!Init
  OBVIOUS
<1>1. ASSUME NEW p \in Payments
      PROVE  orders[p] - Cardinality(InFlight(p)) = 0
  <2>1. InFlight(p) = {}
    BY NoSessionFields DEF SInit, InFlight
  <2> QED
    BY <2>1, CardinalityOfFlight DEF SInit, Init
<1>2. Settled = [p \in Payments |-> 0]
  BY <1>1 DEF Settled
<1>3. /\ Committed!NoPayment = NoPayment /\ Committed!NoCase = NoCase /\ Committed!NoAction = NoAction
  BY DEF Committed!NoPayment, NoPayment, Committed!NoCase, NoCase, Committed!NoAction, NoAction,
         Committed!Proposed, Proposed, Committed!Absent, Absent, Committed!None, None
<1> QED
  BY <1>2, <1>3 DEF SInit, Init, Committed!Init

\* Steps of a session that neither write the database nor settle an order.
LEMMA PreparationStutters ==
    ASSUME NEW s \in Sessions, \A o \in Sessions \ {s} : sessions'[o] = sessions[o], UNCHANGED vars,
           sessions[s].at # "executed", sessions'[s].at # "executed"
    PROVE  UNCHANGED Committed!vars
<1>1. \A p \in Payments : InFlight(p)' = InFlight(p)
  BY DEF InFlight
<1>2. Settled' = Settled
  BY <1>1 DEF Settled, vars
<1> QED
  BY <1>2 DEF vars, Committed!vars

\* A move of session s.
LEMMA MoveMeans ==
    ASSUME ExclusiveInv, NEW s \in Sessions, NEW next, Move(s, next)
    PROVE  sessions'[s] = next /\ \A o \in Sessions \ {s} : sessions'[o] = sessions[o]
  BY DEF Move, ExclusiveInv, SessionsInv, SessionsTypeOK

LEMMA StepMaps ==
    ASSUME Exclusive, ExclusiveInv, [SNext]_svars
    PROVE  [Committed!Next]_(Committed!vars)
<1> DEFINE Goal == [Committed!Next]_(Committed!vars)
<1>1. ASSUME UNCHANGED sessions, Settled' # Settled
      PROVE  ~UNCHANGED orders
  BY <1>1 DEF Settled, InFlight
<1>2. CASE UNCHANGED svars
  BY <1>1, <1>2 DEF svars, Committed!vars
<1>3. ASSUME NEW s \in Sessions, NEW c \in Cases, BeginRun(s, c)
      PROVE  Goal
  <2>1. /\ sessions'[s].at = "begun"
        /\ \A o \in Sessions \ {s} : sessions'[o] = sessions[o]
    BY <1>3, NoSessionFields
       DEF BeginRun, Move, Session, ExclusiveInv, SessionsInv, SessionsTypeOK
  <2> QED
    BY <1>3, <2>1, PreparationStutters DEF BeginRun, Busy
<1>4. ASSUME NEW s \in Sessions, Diagnose(s)
      PROVE  Goal
  <2>1. /\ sessions'[s].at = "diagnosed"
        /\ \A o \in Sessions \ {s} : sessions'[o] = sessions[o]
    BY <1>4, SessionReads
       DEF Diagnose, Move, Session, ExclusiveInv, SessionsInv, SessionsTypeOK
  <2> QED
    BY <1>4, <2>1, PreparationStutters DEF Diagnose
<1>5. ASSUME NEW s \in Sessions, NEW t \in ActionType, Decide(s, t)
      PROVE  Goal
  <2>1. /\ sessions'[s].at \in {"gated", "ending"}
        /\ \A o \in Sessions \ {s} : sessions'[o] = sessions[o]
    BY <1>5, SessionReads
       DEF Decide, Move, Session, ExclusiveInv, SessionsInv, SessionsTypeOK
  <2> QED
    BY <1>5, <2>1, PreparationStutters DEF Decide
<1>6. ASSUME NEW s \in Sessions, Resume(s)
      PROVE  Goal
  <2>1. /\ sessions'[s].at \in {"gated", "ending", "idle"}
        /\ \A o \in Sessions \ {s} : sessions'[o] = sessions[o]
    <3>1. Ended(s).at = "idle"
      BY EndedType DEF ExclusiveInv, SessionsInv
    <3>2. sessions[s] \in Session /\ sessions \in [Sessions -> Session]
      BY SessionReads DEF ExclusiveInv, SessionsInv, SessionsTypeOK
    <3>3. CASE PendingActions(sessions[s].case) = {}
      BY <1>6, <3>2, <3>3 DEF Resume, Move, Session
    <3>4. CASE PendingActions(sessions[s].case) # {}
      <4>1. PICK a : Move(s, IF actions[a].wait > 0 THEN Ended(s)
                             ELSE [sessions[s] EXCEPT !.at = "gated", !.reason = ContextOfSession(s).reason,
                                                      !.act = a, !.row = actions[a]])
        BY <1>6, <3>4 DEF Resume
      <4> QED
        BY <3>1, <3>2, <4>1 DEF Move, Session
    <3> QED
      BY <3>3, <3>4
  <2> QED
    BY <1>6, <2>1, PreparationStutters DEF Resume
<1>7. ASSUME NEW s \in Sessions, ExecuteStep(s)
      PROVE  Goal
  BY <1>7, ExecuteSettlesNothing DEF ExecuteStep, Committed!vars
<1>8. ASSUME NEW s \in Sessions, CommitRun(s)
      PROVE  Goal
  BY <1>8, CommitRunMaps
<1>9. ASSUME NEW s \in Sessions, RunFails(s)
      PROVE  Goal
  <2> DEFINE next == [NoSession EXCEPT !.at = "failing", !.case = sessions[s].case,
                                       !.payment = sessions[s].payment, !.entry = sessions[s].entry]
  <2>1. Move(s, next) /\ next.at = "failing"
    BY <1>9, NoSessionFields DEF RunFails, Session
  <2> HIDE DEF next
  <2> QED
    BY <1>9, <2>1, ForgetMaps DEF RunFails, Busy
<1>10. ASSUME NEW s \in Sessions, ReadForRestore(s)
       PROVE  Goal
  <2>1. /\ sessions'[s].at = "restoring"
        /\ \A o \in Sessions \ {s} : sessions'[o] = sessions[o]
    BY <1>10, SessionReads
       DEF ReadForRestore, Move, Session, ExclusiveInv, SessionsInv, SessionsTypeOK
  <2> QED
    BY <1>10, <2>1, PreparationStutters DEF ReadForRestore
<1>11. ASSUME NEW s \in Sessions, RestoreEntry(s)
       PROVE  Goal
  BY <1>11, RestoreChangesNothing, MoveMeans, NoSessionFields, PreparationStutters DEF RestoreEntry
<1>12. ASSUME NEW s \in Sessions, Die(s)
       PROVE  Goal
  BY <1>12, NoSessionFields, ForgetMaps DEF Die
<1>13. ASSUME NEW s \in Sessions, NEW p \in Payments, Notify(s, p)
       PROVE  Goal
  <2>1. /\ sessions'[s].at = "notified"
        /\ \A o \in Sessions \ {s} : sessions'[o] = sessions[o]
    BY <1>13, NoSessionFields
       DEF Notify, Move, Session, ExclusiveInv, SessionsInv, SessionsTypeOK
  <2> QED
    BY <1>13, <2>1, PreparationStutters DEF Notify, Busy
<1>14. ASSUME NEW s \in Sessions, RecordCapture(s)
       PROVE  Goal
  <2>1. /\ sessions'[s].at = "recorded"
        /\ \A o \in Sessions \ {s} : sessions'[o] = sessions[o]
    BY <1>14, SessionReads
       DEF RecordCapture, Move, Session, ExclusiveInv, SessionsInv, SessionsTypeOK
  <2> QED
    BY <1>14, <2>1, PreparationStutters DEF RecordCapture
<1>15. ASSUME NEW s \in Sessions, CommitCapture(s)
       PROVE  Goal
  <2>1. /\ sessions[s].at = "recorded" /\ sessions[s].payment \in Payments
        /\ Move(s, NoSession) /\ UNCHANGED orders
        /\ PaymentCapturedWebhook(sessions[s].payment)
    BY <1>15, SessionReads, CommitCaptureWrites DEF CommitCapture
  <2>2. Settled' = Settled
    BY <2>1, NoSessionFields, SettlesNothing DEF InFlightAs
  <2> QED
    BY <2>1, <2>2, CaptureMaps
<1>16. ASSUME NEW p \in Payments, Request(p)
       PROVE  Goal
  <2>1. UNCHANGED <<sessions, orders>>
    BY <1>16 DEF Request, CreatePayment, PaymentFailedWebhook, FailPayment, DetectRisk, LoseRequest
  <2> QED
    BY <1>1, <1>16, <2>1, RequestMaps
<1>17. CASE TimePasses
  <2>1. UNCHANGED <<sessions, orders>> /\ AdvanceClock
    BY <1>17, TimePassesMeans DEF TimePasses
  <2> QED
    BY <1>1, <2>1, ClockMaps
<1> QED
  BY <1>2, <1>3, <1>4, <1>5, <1>6, <1>7, <1>8, <1>9, <1>10, <1>11, <1>12, <1>13, <1>14, <1>15, <1>16,
     <1>17 DEF SNext

\* Sessions that exclude each other implement the atomic transactions of
\* Recovery, whatever fails, dies or leaves an order behind.
THEOREM ExclusiveRunsImplementRecovery ==
    ASSUME Exclusive
    PROVE  SSpec => ExclusiveRunsAreAtomic
<1>1. SInit => Committed!Init
  BY InitMaps
<1>2. ExclusiveInv /\ [SNext]_svars => [Committed!Next]_(Committed!vars)
  BY StepMaps
<1>3. SSpec => []ExclusiveInv
  BY ExclusiveSessionsReadTrue
<1> QED
  BY <1>1, <1>2, <1>3, PTL DEF SSpec, ExclusiveRunsAreAtomic

(***************************************************************************)
(* The properties of Recovery's cases, in sessions that exclude each other.*)
(* All but the runs are transactions of Recovery as they stand.            *)
(***************************************************************************)
LEMMA RequestIsAtomic ==
    ASSUME NEW p \in Payments, Request(p)
    PROVE  Next /\ UNCHANGED orders
  BY ConstantsAssumption
     DEF Request, Next, CreatePayment, FailPayment, PaymentFailedWebhook, DetectRisk, LoseRequest

LEMMA CommitRunCaseInv ==
    ASSUME Exclusive, ExclusiveInv, CaseInv, NEW s \in Sessions, CommitRun(s)
    PROVE  CaseInv'
<1>1. PICK c \in Cases, p \in Payments :
        /\ HasCase(c, p) /\ cases[c].state = sessions[s].entry /\ UNCHANGED <<detecting, orders>>
        /\ CommitsExecution(s, c, p) \/ CommitsNoAction(s, c) \/ CommitsDisposition(s, c, p)
  BY CommitRunWrites
<1>2. IInv /\ cases[c].payment = p /\ sessions[s].entry \in RunnableStates
  BY <1>1 DEF IInv, HasCase, ExclusiveInv, SessionsInv, SessionsTypeOK, Session
<1>3. Open(c)
  BY <1>1, <1>2 DEF Open, RunnableStates, TerminalStates, Absent
<1>4. CASE CommitsExecution(s, c, p)
  <2>1. PICK a \in Actions, base \in ActionRow : \E e \in EffectsOn(p, base) :
          /\ \/ sessions[s].entry = "SCHEDULED" /\ a \in Due(c) /\ base = actions[a]
             \/ /\ sessions[s].entry # "SCHEDULED" /\ SomeActionFree /\ a = FreshAction
                /\ \E t \in Executable(p) : base = Proposed(c, t)
          /\ WritesEffect(c, p, a, base, e)
    BY <1>4 DEF CommitsExecution
  <2>2. PICK e \in EffectsOn(p, base) : WritesEffect(c, p, a, base, e)
    BY <2>1
  <2>3. CASE sessions[s].entry = "SCHEDULED" /\ a \in Due(c) /\ base = actions[a]
    <3>1. Pending(a) /\ base.case = c
      BY <2>3 DEF Due, PendingActions
    <3>2. payments[p].status \in Unsuccessful
      BY <1>1, <1>2, <2>3 DEF CaseInv, OpenCaseMatchesPayment
    <3> QED
      BY <1>2, <1>3, <2>2, <2>3, <3>1, <3>2, ExecuteCaseInv DEF EffectsOn, ReasonOf
  <2>4. CASE /\ sessions[s].entry # "SCHEDULED" /\ SomeActionFree /\ a = FreshAction
             /\ \E t \in Executable(p) : base = Proposed(c, t)
    <3>1. PICK t \in Executable(p) : base = Proposed(c, t)
      BY <2>4
    <3>2. payments[p].status \in Unsuccessful
      BY <3>1, ApprovedPaymentUnsuccessful DEF Executable, VerdictOn
    <3>3. base.case = c /\ ~Exists(a)
      BY <2>4, <3>1, FreshActionIsFree DEF Proposed
    <3> QED
      BY <1>1, <1>2, <1>3, <2>2, <2>4, <3>2, <3>3, ExecuteCaseInv DEF EffectsOn, ReasonOf
  <2> QED
    BY <2>1, <2>3, <2>4
<1>5. ~CommitsNoAction(s, c)
  BY <1>1 DEF CommitsNoAction, CaseInv, ScheduledCaseAwaitsOne
<1>6. CASE CommitsDisposition(s, c, p)
  <2>1. PICK t \in ActionType : \E row \in ActionRow, final \in CaseState :
          /\ Disposes(c, p, t, row, final)
          /\ cases' = [cases EXCEPT ![c].state = final]
          /\ actions' = [actions EXCEPT ![FreshAction] = row]
    BY <1>6 DEF CommitsDisposition
  <2>2. PICK row \in ActionRow, final \in CaseState :
          /\ Disposes(c, p, t, row, final)
          /\ cases' = [cases EXCEPT ![c].state = final]
          /\ actions' = [actions EXCEPT ![FreshAction] = row]
    BY <2>1
  <2>3. Dispose(c, final, row) /\ SomeActionFree
    BY <1>1, <1>6, <2>2 DEF CommitsDisposition, Dispose
  <2>4. /\ row.case = c /\ row.outcome = None /\ ~row.executed
        /\ \/ final \in TerminalStates /\ ~row.scheduled
           \/ /\ final = "SCHEDULED" /\ t = "RETRY_LATER" /\ row = DeferredRetry(c)
              /\ VerdictOn(p, t) \notin {"BLOCKED", "ESCALATED"} /\ row.status # Absent
    BY <2>2, DispositionType DEF Disposes
  <2>5. cases[c].state \in {"DETECTED", "FAILED"}
    BY <1>1, <1>2, <1>6 DEF CommitsDisposition, RunnableStates
  <2>6. CASE final \in TerminalStates /\ ~row.scheduled
    BY <1>2, <2>3, <2>4, <2>5, <2>6, DisposeCaseInv
  <2>7. CASE /\ final = "SCHEDULED" /\ t = "RETRY_LATER" /\ row = DeferredRetry(c)
             /\ VerdictOn(p, t) \notin {"BLOCKED", "ESCALATED"} /\ row.status # Absent
    <3>1. PolicyVerdict(ContextOf(p), t) = "APPROVED"
      BY <2>7 DEF VerdictOn, PolicyVerdict
    <3>2. payments[p].status \in Unsuccessful
      BY <2>7, <3>1, ApprovedPaymentUnsuccessful DEF TerminalActions
    <3>3. row.scheduled
      BY <2>7 DEF DeferredRetry, Proposed
    <3> QED
      BY <1>2, <2>3, <2>4, <2>5, <2>7, <3>2, <3>3, DisposeCaseInv
  <2> QED
    BY <2>4, <2>6, <2>7
<1> QED
  BY <1>1, <1>4, <1>5, <1>6
\* A step changes no case, payment or action before it commits.
LEMMA OnlyCommitsWrite ==
    ASSUME Exclusive, ExclusiveInv, [SNext]_svars
    PROVE  \/ UNCHANGED <<payments, cases, actions>>
           \/ Next /\ UNCHANGED orders
           \/ \E s \in Sessions : CommitRun(s)
<1>1. CASE UNCHANGED svars
  BY <1>1 DEF svars
<1>2. ASSUME NEW s \in Sessions,
             \/ \E c \in Cases : BeginRun(s, c)
             \/ Diagnose(s) \/ (\E t \in ActionType : Decide(s, t)) \/ Resume(s) \/ ExecuteStep(s)
             \/ RunFails(s) \/ ReadForRestore(s) \/ Die(s)
             \/ (\E p \in Payments : Notify(s, p)) \/ RecordCapture(s)
      PROVE  UNCHANGED <<payments, cases, actions>>
  BY <1>2
     DEF BeginRun, Diagnose, Decide, Resume, ExecuteStep, RunFails, ReadForRestore, Die, Notify,
         RecordCapture, vars
<1>3. ASSUME NEW s \in Sessions, RestoreEntry(s)
      PROVE  UNCHANGED <<payments, cases, actions>>
  BY <1>3, RestoreChangesNothing DEF vars
<1>4. ASSUME NEW s \in Sessions, CommitCapture(s)
      PROVE  Next /\ UNCHANGED orders
  BY <1>4, SessionReads, CommitCaptureWrites DEF Next, CommitCapture
<1>5. ASSUME NEW p \in Payments, Request(p)
      PROVE  Next /\ UNCHANGED orders
  BY <1>5, RequestIsAtomic
<1>6. CASE TimePasses
  BY <1>6, TimePassesMeans DEF Next, TimePasses
<1> QED
  BY <1>1, <1>2, <1>3, <1>4, <1>5, <1>6 DEF SNext

LEMMA StepExclusiveCaseInv ==
    ASSUME Exclusive, ExclusiveInv, CaseInv, [SNext]_svars
    PROVE  CaseInv'
<1>1. IInv
  BY DEF IInv, ExclusiveInv, SessionsInv, SessionsTypeOK
<1>2. CASE UNCHANGED <<payments, cases, actions>>
  BY <1>2, CasesUntouched DEF CaseInv, OpenCaseMatchesPayment
<1>3. CASE Next
  BY <1>1, <1>3, StepCaseInv
<1>4. ASSUME NEW s \in Sessions, CommitRun(s)
      PROVE  CaseInv'
  BY <1>4, CommitRunCaseInv
<1> QED
  BY <1>2, <1>3, <1>4, OnlyCommitsWrite

\* One open case to a payment, one action to a scheduled case, a case that
\* agrees with its payment and one recovery to a case: what Recovery promises of
\* atomic runs holds of runs and capture webhooks that commit step by step, as
\* long as no two of them work on one payment.
THEOREM ExclusiveCasesKept ==
    ASSUME Exclusive
    PROVE  SSpec => [](OneOpenCase /\ ScheduledCaseAwaitsOne /\ OpenCaseMatchesPayment /\ RecoveredOnce)
<1>1. SInit => CaseInv
  BY InitCaseInv DEF SInit
<1>2. ExclusiveInv /\ CaseInv /\ [SNext]_svars => CaseInv'
  BY StepExclusiveCaseInv
<1> QED
  BY <1>1, <1>2, ExclusiveSessionsReadTrue, PTL DEF SSpec, CaseInv

\* No run, webhook or failure handler writes a closed case: the case is still
\* as open when a run commits as it was when the run began.
THEOREM ExclusiveRunsRespectTerminal ==
    ASSUME Exclusive
    PROVE  SSpec => NoWayOutOfTerminal
<1>1. ASSUME ExclusiveInv, CaseInv, [SNext]_svars, NEW d \in Cases, cases[d].state \in TerminalStates
      PROVE  cases'[d] = cases[d]
  <2>1. CASE UNCHANGED <<payments, cases, actions>>
    BY <2>1
  <2>2. CASE Next
    BY <1>1, <2>2, TerminalStep DEF IInv, ExclusiveInv, SessionsInv, SessionsTypeOK
  <2>3. ASSUME NEW s \in Sessions, CommitRun(s)
        PROVE  cases'[d] = cases[d]
    <3>1. /\ sessions[s].case \in Cases /\ cases[sessions[s].case].state = sessions[s].entry
          /\ sessions[s].entry \in RunnableStates
      BY <1>1, <2>3, CommitRunWrites, SessionReads DEF Session
    <3>2. sessions[s].case # d
      BY <1>1, <3>1 DEF RunnableStates, TerminalStates
    <3> QED
      BY <2>3, <3>1, <3>2 DEF CommitRun, ExclusiveInv, SessionsInv, SessionsTypeOK, TypeOK
  <2> QED
    BY <1>1, <2>1, <2>2, <2>3, OnlyCommitsWrite
<1>2. ExclusiveInv /\ CaseInv /\ [SNext]_svars =>
        [\A c \in Cases : cases[c].state \in TerminalStates => cases'[c] = cases[c]]_svars
  BY <1>1
<1>3. SSpec => []CaseInv
  BY ExclusiveCasesKept, PTL DEF CaseInv
<1> QED
  BY <1>2, <1>3, ExclusiveSessionsReadTrue, PTL DEF SSpec, NoWayOutOfTerminal

\* The payment a run approved, or whose retry it resumes, is still unsuccessful
\* when the executor acts on it.
THEOREM ExclusiveRunsOrderForUnpaid ==
    ASSUME Exclusive
    PROVE  SSpec => NoOrderForCaptured
<1>1. ASSUME ExclusiveInv, CaseInv, NEW s \in Sessions, sessions[s].at = "gated"
      PROVE  payments[sessions[s].payment].status \in Unsuccessful
  <2> DEFINE session == sessions[s]
  <2>1. /\ session.row \in Chosen(session)
        /\ cases[session.case].state = session.entry /\ cases[session.case].payment = session.payment
        /\ session.case \in Cases
    BY <1>1, SessionReads DEF Faithful, ReadsTrue, WritesTrue, Sound, KnowsItsCase, RunStages, HasCase
  <2>2. CASE session.entry = "SCHEDULED"
    BY <1>1, <2>1, <2>2 DEF CaseInv, OpenCaseMatchesPayment
  <2>3. CASE session.entry # "SCHEDULED"
    BY <2>1, <2>3, ApprovedPaymentUnsuccessful DEF Chosen, Executable, VerdictOn
  <2> QED
    BY <2>2, <2>3
<1>2. ASSUME ExclusiveInv, CaseInv, [SNext]_svars, NEW p \in Payments, orders'[p] # orders[p]
      PROVE  payments[p].status # "SUCCEEDED"
  <2>1. PICK s \in Sessions : ExecuteStep(s)
    <3>1. ASSUME NEW s \in Sessions, RestoreEntry(s) \/ CommitRun(s) \/ CommitCapture(s)
          PROVE  UNCHANGED orders
      BY <3>1 DEF RestoreEntry, CommitRun, CommitCapture
    <3>2. ASSUME NEW q \in Payments, Request(q)
          PROVE  UNCHANGED orders
      BY <3>2, RequestIsAtomic
    <3>3. ASSUME TimePasses PROVE UNCHANGED orders
      BY <3>3 DEF TimePasses
    <3> QED
      BY <1>2, <3>1, <3>2, <3>3
         DEF SNext, svars, BeginRun, Diagnose, Decide, Resume, RunFails, ReadForRestore, Die, Notify,
             RecordCapture, vars
  <2>2. sessions[s].at = "gated" /\ sessions[s].payment = p
    BY <1>2, <2>1 DEF ExecuteStep, ExclusiveInv, SessionsInv, SessionsTypeOK, TypeOK
  <2> QED
    BY <1>1, <1>2, <2>2 DEF Unsuccessful
<1>3. ExclusiveInv /\ CaseInv /\ [SNext]_svars =>
        [\A p \in Payments : orders'[p] # orders[p] => payments[p].status # "SUCCEEDED"]_svars
  BY <1>2
<1>4. SSpec => []CaseInv
  BY ExclusiveCasesKept, PTL DEF CaseInv
<1> QED
  BY <1>3, <1>4, ExclusiveSessionsReadTrue, PTL DEF SSpec, NoOrderForCaptured
===============================================================================
