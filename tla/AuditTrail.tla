----------------------------- MODULE AuditTrail ------------------------------
(***************************************************************************)
(* The audit trail of one recovery case (services/audit_service.py) and    *)
(* the walk through the state machine (services/state_machine.py) that it  *)
(* records, while workflow runs overlap, fail and die and the clock file   *)
(* is advanced, reset and lost around them.                                *)
(*                                                                         *)
(* A run writes its events in its own transaction.  An event's sequence is *)
(* the highest one the session sees, plus one, read before the flush that  *)
(* takes the lock on the case's row; its timestamp is the clock's.  The    *)
(* trail is read in the order of timestamps, then sequences.               *)
(*                                                                         *)
(* The events of one stage share a timestamp here.  What a run decides is  *)
(* left open: any verdict, any kind of action, any outcome.                *)
(***************************************************************************)
EXTENDS ClockFile, Enums, SequencesExt

CONSTANTS
    Sessions,   \* processes that run the workflow
    Delay,      \* settings.retry_later_delay_minutes, in clock steps
    RunsCap     \* bound: workflow runs

ASSUME TrailAssumption == Sessions \subseteq Processes /\ Delay \in Nat /\ RunsCap \in Nat

VARIABLES
    case,       \* the committed row: its state, and when its pending action is due
    trail,      \* the committed audit events
    runs,       \* the run of each session
    begun,      \* runs begun
    captured    \* history: a capture webhook closed the case

tvars == <<case, trail, runs, begun, captured>>
allvars == <<cvars, tvars>>

(***************************************************************************)
(* The state machine.                                                      *)
(***************************************************************************)
Transitions ==
    [s \in CaseState |->
        CASE s \in {"DETECTED", "FAILED"} -> {"DIAGNOSING"}
          [] s = "DIAGNOSING"     -> {"DIAGNOSED"}
          [] s = "DIAGNOSED"      -> {"EVALUATING"}
          [] s = "EVALUATING"     -> {"DECISION_READY"}
          [] s = "DECISION_READY" -> {"POLICY_CHECK"}
          [] s = "POLICY_CHECK"   -> {"APPROVED", "BLOCKED", "ESCALATED"}
          [] s = "APPROVED"       -> {"EXECUTING", "SCHEDULED"}
          [] s = "SCHEDULED"      -> {"EXECUTING"}
          [] s = "EXECUTING"      -> {"VERIFYING"}
          [] s = "VERIFYING"      -> {"RECOVERED", "FAILED"}
          [] s = "BLOCKED"        -> {"STOPPED"}
          [] s \in TerminalStates -> {}]

\* A walk takes every step from where the one before it led; one that is
\* refused raises and ends the stage.
Rejected == "REJECTED"
PermittedButFromFailed(s, t) == s # "FAILED" /\ t \in Transitions[s]   \* mutant of Permitted
Permitted(s, t) == t \in Transitions[s]
Walk(s, path) ==
    LET from(i) == IF i = 1 THEN s ELSE path[i - 1]
    IN  IF s # Rejected /\ \A i \in DOMAIN path : Permitted(from(i), path[i])
        THEN path[Len(path)] ELSE Rejected

(***************************************************************************)
(* Events.  "run" is the workflow id and "n" the place within the run.     *)
(***************************************************************************)
EventRow == [run : Nat, n : Nat, kind : AuditEventType, seq : Nat, at : Nat]
Event(run, n, kind, seq, at) == [run |-> run, n |-> n, kind |-> kind, seq |-> seq, at |-> at]
Detected == Event(0, 1, "REVENUE_RISK_DETECTED", 1, Start)

\* The sequence and the time an event has taken before it is flushed.
Stamp == [seq : Nat, at : Nat]
NoStamp == [seq |-> 0, at |-> 0]
NoRun == [id |-> 0, stage |-> "idle", entry |-> "DETECTED", state |-> "DETECTED", due |-> 0,
          stamp |-> NoStamp, own |-> {}]

RunRow == [id : 0..begun, stage : {"idle", "decide", "gate", "execute", "commit", "failing"},
           entry : RunnableStates, state : CaseState \cup {Rejected}, due : Nat,
           stamp : Stamp, own : SUBSET EventRow]

TopSequence(events) == Max({e.seq : e \in events} \cup {0})
SequenceOfCommitted(s) == TopSequence(trail) + 1      \* mutant of NextSequence
NextSequence(s) == TopSequence(trail \cup runs[s].own) + 1

\* A session holds the lock on the case once it has flushed an event.
LockFreeFor(s) == \A r \in Sessions \ {s} : runs[r].own = {}

\* now() inside a run: the value is ReadTime, the side effect may be a write.
Tell(s) ==
    /\ Free(s)
    /\ IF file = <<>> THEN Now(s) ELSE UNCHANGED cvars

TrailInit ==
    /\ ClockInit
    /\ case = [state |-> "DETECTED", due |-> 0]
    /\ trail = {Detected}
    /\ runs = [s \in Sessions |-> NoRun]
    /\ begun = 0
    /\ captured = FALSE

(***************************************************************************)
(* A run, stage by stage.                                                  *)
(***************************************************************************)
Active(s) == runs[s].stage # "idle"

\* The row is read once; a scheduled case is resumed when its action is due.
BeginRun(s) ==
    /\ ~Active(s) /\ (serial => \A r \in Sessions : ~Active(r))
    /\ begun < RunsCap
    /\ case.state \in RunnableStates
    /\ case.state = "SCHEDULED" => ReadTime >= case.due
    /\ Tell(s)
    /\ begun' = begun + 1
    /\ runs' = [runs EXCEPT ![s] =
                  [NoRun EXCEPT !.id = begun + 1, !.entry = case.state, !.state = case.state,
                                !.stage = IF case.state = "SCHEDULED" THEN "execute" ELSE "decide"]]
    /\ UNCHANGED <<case, trail, captured>>

\* AuditService.record up to the flush of the first event.
StampFirst(s) ==
    /\ Active(s) /\ runs[s].stage # "commit"
    /\ runs[s].own = {} /\ runs[s].stamp = NoStamp
    /\ Tell(s)
    /\ runs' = [runs EXCEPT ![s].stamp = [seq |-> NextSequence(s), at |-> ReadTime]]
    /\ UNCHANGED <<case, trail, begun, captured>>

\* The events a stage flushes, the first of a run with the stamp it took.
NewEvents(s, kinds) ==
    LET own   == runs[s].own
        n     == Cardinality(own)
        first == IF own = {} THEN runs[s].stamp ELSE [seq |-> NextSequence(s), at |-> ReadTime]
        rest  == Max({first.seq, TopSequence(trail)})
    IN  {Event(runs[s].id, n + i, kinds[i], IF i = 1 THEN first.seq ELSE rest + i - 1,
               IF i = 1 THEN first.at ELSE ReadTime) : i \in DOMAIN kinds}

\* One stage: the transitions it asks for and the events it records.
Stage(s, path, kinds, next) ==
    /\ LockFreeFor(s)
    /\ runs[s].own = {} => runs[s].stamp # NoStamp
    /\ Tell(s)
    /\ runs' = [runs EXCEPT ![s].state = Walk(@, path), ![s].stage = next,
                            ![s].own = @ \cup NewEvents(s, kinds), ![s].stamp = NoStamp]
    /\ UNCHANGED <<case, trail, begun, captured>>

\* What the stages record.  The executor's event, of either kind, stands as
\* ACTION_EXECUTED: what it reports does not decide what is verified.
DiagnosisEvents == <<"DIAGNOSIS_COMPLETED">>
DecisionEvents == <<"RECOVERY_OPTIONS_EVALUATED", "RECOVERY_DECISION_SELECTED">>
PolicyEvent(verdict) ==
    CASE verdict = "APPROVED"  -> <<"POLICY_APPROVED">>
      [] verdict = "BLOCKED"   -> <<"POLICY_BLOCKED">>
      [] verdict = "ESCALATED" -> <<"POLICY_ESCALATED">>
ExecutionEvent == <<"ACTION_EXECUTED">>
VerificationEvents(recovered) ==
    IF recovered THEN <<"OUTCOME_VERIFIED", "REVENUE_RECOVERED">> ELSE <<"OUTCOME_VERIFIED">>
StopEvent == <<"WORKFLOW_STOPPED">>

\* Diagnosis and decision, which only the row's state and the trail see.
Decide(s) ==
    /\ runs[s].stage = "decide"
    /\ Stage(s, <<"DIAGNOSING", "DIAGNOSED", "EVALUATING", "DECISION_READY", "POLICY_CHECK">>,
             DiagnosisEvents \o DecisionEvents, "gate")

\* The verdicts and what each leads to, with the handing over of actions that
\* move no money; an approved retry that is deferred is Defer.
Gate(s) ==
    /\ runs[s].stage = "gate"
    /\ \/ Stage(s, <<"BLOCKED", "STOPPED">>, PolicyEvent("BLOCKED") \o StopEvent, "commit")
       \/ Stage(s, <<"ESCALATED">>, PolicyEvent("ESCALATED"), "commit")
       \/ Stage(s, <<"ESCALATED">>, PolicyEvent("APPROVED") \o ExecutionEvent, "commit")
       \/ Stage(s, <<"BLOCKED", "STOPPED">>,
                PolicyEvent("APPROVED") \o ExecutionEvent \o StopEvent, "commit")
       \/ Stage(s, <<"APPROVED">>, PolicyEvent("APPROVED"), "execute")

Defer(s) ==
    /\ runs[s].stage = "gate"
    /\ LockFreeFor(s) /\ Tell(s)
    /\ runs' = [runs EXCEPT ![s].state = Walk(@, <<"APPROVED", "SCHEDULED">>),
                            ![s].stage = "commit", ![s].due = ReadTime + Delay,
                            ![s].own = @ \cup NewEvents(s, PolicyEvent("APPROVED")
                                                              \o <<"ACTION_SCHEDULED">>)]
    /\ UNCHANGED <<case, trail, begun, captured>>

Execute(s) ==
    /\ runs[s].stage = "execute"
    /\ \E recovered \in BOOLEAN :
         Stage(s, <<"EXECUTING", "VERIFYING", IF recovered THEN "RECOVERED" ELSE "FAILED">>,
               ExecutionEvent \o VerificationEvents(recovered), "commit")

CommitRun(s) ==
    /\ runs[s].stage = "commit"
    /\ case' = [state |-> runs[s].state, due |-> runs[s].due]
    /\ trail' = trail \cup runs[s].own
    /\ runs' = [runs EXCEPT ![s] = NoRun]
    /\ UNCHANGED <<cvars, begun, captured>>

\* A stage raises: the transaction is rolled back, and the handler restores the
\* state of the entry and records the failure in a transaction of its own.
RunFails(s) ==
    /\ Active(s) /\ runs[s].stage # "failing"
    /\ runs' = [runs EXCEPT ![s].stage = "failing", ![s].own = {}, ![s].stamp = NoStamp]
    /\ UNCHANGED <<cvars, case, trail, begun, captured>>

RestoreTo(s, state) ==
    /\ runs[s].stage = "failing" /\ runs[s].stamp # NoStamp
    /\ LockFreeFor(s)
    /\ case' = [case EXCEPT !.state = state]
    /\ trail' = trail \cup NewEvents(s, <<"ACTION_FAILED">>)
    /\ runs' = [runs EXCEPT ![s] = NoRun]
    /\ UNCHANGED <<cvars, begun, captured>>
RestoreReached(s) == RestoreTo(s, runs[s].state)        \* mutant of RestoreEntry
RestoreEntry(s) == RestoreTo(s, runs[s].entry)

\* The process is gone and with it whatever was not committed; a write of the
\* clock that it was in stays cut short.
Die(s) ==
    /\ Active(s)
    /\ runs' = [runs EXCEPT ![s] = NoRun]
    /\ IF step[s] = "idle" THEN UNCHANGED cvars ELSE ClockCrash(s)
    /\ UNCHANGED <<case, trail, begun, captured>>

\* payment.captured closes the case and records nothing.
CaptureCase ==
    /\ case.state \notin TerminalStates
    /\ \A s \in Sessions : runs[s].own = {} /\ (serial => ~Active(s))
    /\ case' = [state |-> "RECOVERED", due |-> 0]
    /\ captured' = TRUE
    /\ UNCHANGED <<cvars, trail, runs, begun>>

\* Scripts move the clock; sessions look at it, and finish what looking began.
TrailNext ==
    \/ \E p \in Processes \ Sessions : ClockStep(p) /\ UNCHANGED tvars
    \/ \E s \in Sessions : (Truncate(s) \/ Put(s)) /\ UNCHANGED tvars
    \/ \E s \in Sessions :
         \/ BeginRun(s) \/ StampFirst(s) \/ Decide(s) \/ Gate(s) \/ Defer(s)
         \/ Execute(s) \/ CommitRun(s) \/ RunFails(s) \/ RestoreEntry(s) \/ Die(s)
    \/ CaptureCase

TrailSpec == TrailInit /\ [][TrailNext]_allvars

(***************************************************************************)
(* Properties.                                                             *)
(***************************************************************************)
\* Every variable has its shape, and no more runs are begun than the bound.
TrailTypeOK ==
    /\ ClockTypeOK
    /\ case \in [state : CaseState, due : Nat]
    /\ trail \subseteq EventRow /\ \A e \in trail : e.run <= begun
    /\ runs \in [Sessions -> RunRow]
    /\ begun \in 0..RunsCap /\ captured \in BOOLEAN

\* No stage is ever refused by the state machine: whatever state a run read and
\* whatever it decides, it asks only for permitted transitions, so none fails
\* half-way after money moved (StateMachine.assert_transition).
NeverRejected == \A s \in Sessions : runs[s].state # Rejected

\* The events of a run are numbered in the order they happened.  When runs
\* overlap two events may share a number, but one of them is then the first
\* event of its run, which took its number before it waited for the case; when
\* they do not, numbers are unique (audit_service.py:104-109).
SequencesOrderRuns ==
    \A e, f \in trail :
        /\ e.run = f.run /\ e.n < f.n => e.seq < f.seq
        /\ e # f /\ e.seq = f.seq => ~serial /\ e.run # f.run /\ 1 \in {e.n, f.n}

\* The trail is read "oldest first" (audit_service.py:123): as long as calls do
\* not overlap and the clock is not reset or lost, the order by timestamp is the
\* order in which the events were recorded.
TrailOldestFirst ==
    serial /\ breaks = 0 => \A e, f \in trail : e.seq < f.seq => e.at <= f.at

\* "An action cannot reach execution without first passing through decision and
\* policy stages" (state_machine.py:3-5), read from the trail alone and also
\* when runs overlap, fail and die: before every verified outcome, in the order
\* of sequences, its own run was approved or another run scheduled the action.
ExecutionWasApproved ==
    \A e \in trail : e.kind = "OUTCOME_VERIFIED" =>
        \E f \in trail : /\ f.seq < e.seq
                         /\ \/ f.kind = "POLICY_APPROVED" /\ f.run = e.run
                            \/ f.kind = "ACTION_SCHEDULED" /\ f.run # e.run

\* The trail explains the state of the case (safety.complete_audit_trail,
\* command_center.py:216), through failures, deaths and resumptions, unless runs
\* overlapped or a webhook closed the case, which leaves no event: the last event
\* that is not a restoration tells the state.
StateAfter ==
    [kind \in {"REVENUE_RISK_DETECTED", "ACTION_SCHEDULED", "REVENUE_RECOVERED", "OUTCOME_VERIFIED",
               "WORKFLOW_STOPPED", "POLICY_ESCALATED", "ACTION_EXECUTED"} |->
        CASE kind = "REVENUE_RISK_DETECTED" -> "DETECTED"
          [] kind = "ACTION_SCHEDULED"  -> "SCHEDULED"
          [] kind = "REVENUE_RECOVERED" -> "RECOVERED"
          [] kind = "OUTCOME_VERIFIED"  -> "FAILED"
          [] kind = "WORKFLOW_STOPPED"  -> "STOPPED"
          [] kind \in {"POLICY_ESCALATED", "ACTION_EXECUTED"} -> "ESCALATED"]
TrailExplainsState ==
    serial /\ ~captured =>
        LET told == {e \in trail : e.kind # "ACTION_FAILED"}
        IN  \E last \in told : /\ \A e \in told : e.seq <= last.seq
                               /\ last.kind \in DOMAIN StateAfter
                               /\ case.state = StateAfter[last.kind]
=============================================================================
