-------------------------- MODULE AuditTrail_proofs ---------------------------
(***************************************************************************)
(* Workflow runs use the clock only as the clock allows, so what is proved *)
(* of the clock alone holds while runs overlap, fail and die around it.    *)
(*                                                                         *)
(* The invariants of the trail follow from TrailInv, which says of every   *)
(* run what it has flushed and not committed: TrailKeepsInvariant.         *)
(***************************************************************************)
EXTENDS AuditTrail, ClockFile_proofs, FiniteSetTheorems, SequenceTheorems

LEMMA TellIsClockStep ==
    ASSUME NEW s \in Sessions, Tell(s) PROVE [ClockNext]_cvars
<1>1. s \in Processes
  BY TrailAssumption
<1>2. Now(s) \/ UNCHANGED cvars
  BY DEF Tell
<1> QED
  BY <1>1, <1>2 DEF ClockNext

LEMMA StageIsClockStep ==
    ASSUME NEW s \in Sessions, NEW path, NEW kinds, NEW next, Stage(s, path, kinds, next)
    PROVE  [ClockNext]_cvars
  BY TellIsClockStep DEF Stage

LEMMA SessionStepIsClockStep ==
    ASSUME NEW s \in Sessions,
           \/ BeginRun(s) \/ StampFirst(s) \/ Decide(s) \/ Gate(s) \/ Defer(s)
           \/ Execute(s) \/ CommitRun(s) \/ RunFails(s) \/ RestoreEntry(s) \/ Die(s)
    PROVE  [ClockNext]_cvars
<1>1. s \in Processes
  BY TrailAssumption
<1>2. CASE BeginRun(s) \/ StampFirst(s) \/ Defer(s)
  BY <1>2, TellIsClockStep DEF BeginRun, StampFirst, Defer
<1>3. CASE Decide(s)
  BY <1>3, StageIsClockStep DEF Decide
<1>4. CASE Gate(s)
  BY <1>4, StageIsClockStep DEF Gate
<1>5. CASE Execute(s)
  BY <1>5, StageIsClockStep DEF Execute
<1>6. CASE CommitRun(s) \/ RunFails(s) \/ RestoreEntry(s)
  BY <1>6 DEF CommitRun, RunFails, RestoreEntry, RestoreTo
<1>7. CASE Die(s)
  <2>1. ClockCrash(s) \/ UNCHANGED cvars
    BY <1>7 DEF Die
  <2> QED
    BY <1>1, <2>1 DEF ClockNext, ClockStep
<1> QED
  BY <1>2, <1>3, <1>4, <1>5, <1>6, <1>7

LEMMA TrailStepIsClockStep ==
    ASSUME [TrailNext]_allvars PROVE [ClockNext]_cvars
<1>1. CASE \E p \in Processes \ Sessions : ClockStep(p) /\ UNCHANGED tvars
  BY <1>1 DEF ClockNext
<1>2. CASE \E s \in Sessions : (Truncate(s) \/ Put(s)) /\ UNCHANGED tvars
  BY <1>2, TrailAssumption DEF ClockNext, ClockStep
<1>3. ASSUME NEW s \in Sessions,
             \/ BeginRun(s) \/ StampFirst(s) \/ Decide(s) \/ Gate(s) \/ Defer(s)
             \/ Execute(s) \/ CommitRun(s) \/ RunFails(s) \/ RestoreEntry(s) \/ Die(s)
      PROVE  [ClockNext]_cvars
  BY <1>3, SessionStepIsClockStep
<1>4. CASE CaptureCase
  BY <1>4 DEF CaptureCase
<1>5. CASE UNCHANGED allvars
  BY <1>5 DEF allvars
<1> QED
  BY <1>1, <1>2, <1>3, <1>4, <1>5 DEF TrailNext

\* The audit trail's specification implements the clock's: whatever the runs do,
\* every step is one of the clock's or leaves it alone.
THEOREM TrailImplementsClock == TrailSpec => ClockSpec
<1>1. TrailInit => ClockInit
  BY DEF TrailInit
<1> QED
  BY <1>1, TrailStepIsClockStep, PTL DEF TrailSpec, ClockSpec

\* Around overlapping, failing and dying runs the clock a run schedules by is never
\* ahead of the advances asked for (clock.py:42-80 under recovery_workflow.py).
THEOREM TrailClockNeverAhead == TrailSpec => []ClockNeverAhead
  BY TrailImplementsClock, ClockIsNeverAhead, PTL

\* Runs that do not overlap leave the clock exact: looking at the time, which may
\* write it, never loses an advance (clock.py:42-46).
THEOREM TrailClockExact == TrailSpec => []ClockExact
  BY TrailImplementsClock, ClockIsExact, PTL

(***************************************************************************)
(* The invariant of the trail, in parts that each support a property.      *)
(***************************************************************************)
\* What a run may be in the middle of, stage by stage.
WalksAsPermitted ==
    /\ case.state \in RunnableStates \cup TerminalStates
    /\ \A s \in Sessions :
         LET run == runs[s] IN
         /\ run.stage = "idle"    => run = NoRun
         /\ run.stage = "decide"  => /\ run.state \in {"DETECTED", "FAILED"} /\ run.own = {}
                                     /\ run.entry # "SCHEDULED"
         /\ run.stage = "gate"    => run.state = "POLICY_CHECK" /\ run.own # {} /\ run.entry # "SCHEDULED"
         /\ run.stage = "execute" => \/ run.state = "SCHEDULED" /\ run.entry = "SCHEDULED" /\ run.own = {}
                                     \/ run.state = "APPROVED" /\ run.entry # "SCHEDULED" /\ run.own # {}
         /\ run.stage = "commit"  => run.state \in RunnableStates \cup TerminalStates /\ run.own # {}
         /\ run.stage = "failing" => run.own = {} /\ run.state # Rejected
         /\ run.own # {} => run.stamp = NoStamp

\* Who is who: ids are unique, one session at a time has flushed events, and
\* serial runs are alone.
RunsApart ==
    /\ \A s \in Sessions : Active(s) =>
         /\ runs[s].id \in 1..begun
         /\ \A e \in trail : e.run # runs[s].id
         /\ \A r \in Sessions \ {s} :
              /\ Active(r) => ~serial /\ runs[r].id # runs[s].id
              /\ runs[s].own # {} => runs[r].own = {}

\* A finite set of events has a highest sequence.
HasTop(events) ==
    \E top \in Nat : /\ top = 0 \/ \E e \in events : e.seq = top
                     /\ \A e \in events : e.seq <= top

InOrder(events) ==
    \A e, f \in events : e.run = f.run => /\ e.n < f.n => e.seq < f.seq
                                          /\ e.n = f.n => e = f

\* The events a run has flushed are numbered on, above the committed trail but
\* for the first.
OwnEventsNumbered ==
    \A s \in Sessions :
        LET run == runs[s] IN
        /\ IsFiniteSet(run.own) /\ HasTop(run.own) /\ InOrder(run.own)
        /\ \A e \in run.own : e.run = run.id /\ e.n \in 1..Cardinality(run.own)
        /\ \A e \in run.own, f \in trail : (serial \/ e.n # 1) => f.seq < e.seq
        /\ serial /\ run.stamp # NoStamp => \A f \in trail : f.seq < run.stamp.seq

TrailNumbered == HasTop(trail) /\ InOrder(trail) /\ SequencesOrderRuns

\* Serial runs stamp their events with a clock that only goes forward.
AtMostNow(at) == at <= Start + asked
SerialTimes ==
    serial /\ breaks = 0 =>
        /\ \A e \in trail : AtMostNow(e.at)
        /\ \A s \in Sessions :
             /\ AtMostNow(runs[s].stamp.at)
             /\ runs[s].stamp # NoStamp => \A e \in trail : e.at <= runs[s].stamp.at
             /\ \A e \in runs[s].own : AtMostNow(e.at) /\ \A f \in trail : f.at <= e.at
             /\ \A e, f \in runs[s].own : e.seq < f.seq => e.at <= f.at

\* What a run has recorded tells what it may do next.
ApprovedBefore(e, events) ==
    \E f \in events : f.seq < e.seq /\ f.kind = "POLICY_APPROVED" /\ f.run = e.run
ScheduledIn(events) == \E f \in events : f.kind = "ACTION_SCHEDULED"
ApprovalRecorded ==
    /\ case.state = "SCHEDULED" => ScheduledIn(trail)
    /\ \A s \in Sessions :
         LET run == runs[s] IN
         /\ Active(s) /\ run.entry = "SCHEDULED" => ScheduledIn(trail)
         /\ run.stage = "execute" /\ run.entry # "SCHEDULED" =>
              \E f \in run.own : f.kind = "POLICY_APPROVED"
         /\ run.stage = "commit" /\ run.state = "SCHEDULED" => ScheduledIn(run.own)
         /\ \A e \in run.own : e.kind = "OUTCOME_VERIFIED" =>
              \/ ApprovedBefore(e, run.own)
              \/ \E f \in trail : f.seq < e.seq /\ f.kind = "ACTION_SCHEDULED"

\* The last thing told is the state the run is about to commit.
Tells(events, state) ==
    \E last \in {e \in events : e.kind # "ACTION_FAILED"} :
        /\ \A e \in events : e.kind # "ACTION_FAILED" => e.seq <= last.seq
        /\ last.kind \in DOMAIN StateAfter /\ state = StateAfter[last.kind]
StateTold ==
    /\ serial /\ ~captured => Tells(trail, case.state)
    /\ \A s \in Sessions :
         /\ serial /\ Active(s) => runs[s].entry = case.state
         /\ runs[s].stage = "commit" => Tells(runs[s].own, runs[s].state)

TrailInv == /\ TrailTypeOK /\ WalksAsPermitted /\ RunsApart /\ OwnEventsNumbered /\ TrailNumbered
            /\ SerialTimes /\ TrailOldestFirst /\ ApprovalRecorded /\ ExecutionWasApproved /\ StateTold

(***************************************************************************)
(* The sequences a stage gives its events.                                 *)
(***************************************************************************)
LEMMA MaxIs ==
    ASSUME NEW numbers \in SUBSET Nat, NEW top \in numbers, \A x \in numbers : x <= top
    PROVE  Max(numbers) = top
<1>1. \E x \in numbers : \A y \in numbers : x >= y
  OBVIOUS
<1>2. Max(numbers) \in numbers /\ \A y \in numbers : Max(numbers) >= y
  BY <1>1 DEF Max
<1>3. Max(numbers) \in Nat /\ top \in Nat /\ Max(numbers) >= top /\ Max(numbers) <= top
  BY <1>2
<1> QED
  BY <1>3

LEMMA TopOf ==
    ASSUME NEW events \in SUBSET EventRow, HasTop(events)
    PROVE  /\ TopSequence(events) \in Nat
           /\ \A e \in events : e.seq <= TopSequence(events)
<1>1. PICK top \in Nat : /\ top = 0 \/ \E e \in events : e.seq = top
                         /\ \A e \in events : e.seq <= top
  BY DEF HasTop
<1>2. {e.seq : e \in events} \cup {0} \in SUBSET Nat /\ top \in {e.seq : e \in events} \cup {0}
  BY <1>1 DEF EventRow
<1>3. TopSequence(events) = top
  BY <1>1, <1>2, MaxIs DEF TopSequence
<1> QED
  BY <1>1, <1>3

LEMMA TopOfBoth ==
    ASSUME NEW events \in SUBSET EventRow, NEW others \in SUBSET EventRow,
           HasTop(events), HasTop(others)
    PROVE  HasTop(events \cup others)
<1>1. PICK top \in Nat : /\ top = 0 \/ \E e \in events : e.seq = top
                         /\ \A e \in events : e.seq <= top
  BY DEF HasTop
<1>2. PICK other \in Nat : /\ other = 0 \/ \E e \in others : e.seq = other
                           /\ \A e \in others : e.seq <= other
  BY DEF HasTop
<1>3. /\ \A e \in events : e.seq \in Nat
      /\ \A e \in others : e.seq \in Nat
  BY DEF EventRow
<1>4. CASE top <= other
  <2>1. \A e \in events \cup others : e.seq <= other
    BY <1>1, <1>2, <1>3, <1>4
  <2>2. other = 0 \/ \E e \in events \cup others : e.seq = other
    BY <1>2
  <2> QED
    BY <2>1, <2>2 DEF HasTop
<1>5. CASE other <= top
  <2>1. \A e \in events \cup others : e.seq <= top
    BY <1>1, <1>2, <1>3, <1>5
  <2>2. top = 0 \/ \E e \in events \cup others : e.seq = top
    BY <1>1
  <2> QED
    BY <2>1, <2>2 DEF HasTop
<1> QED
  BY <1>4, <1>5

\* The event a stage flushes as its i-th.
FirstSequence(s) == IF runs[s].own = {} THEN runs[s].stamp.seq ELSE NextSequence(s)
SequenceOf(s, i) ==
    IF i = 1 THEN FirstSequence(s) ELSE Max({FirstSequence(s), TopSequence(trail)}) + i - 1
TimeOf(s, i) == IF i = 1 /\ runs[s].own = {} THEN runs[s].stamp.at ELSE ReadTime
NewEvent(s, kinds, i) ==
    Event(runs[s].id, Cardinality(runs[s].own) + i, kinds[i], SequenceOf(s, i), TimeOf(s, i))

LEMMA NewEventsAre ==
    ASSUME NEW s \in Sessions, NEW kinds \in Seq(AuditEventType)
    PROVE  NewEvents(s, kinds) = {NewEvent(s, kinds, i) : i \in 1..Len(kinds)}
<1>1. DOMAIN kinds = 1..Len(kinds)
  BY LenProperties
<1> DEFINE own   == runs[s].own
           first == IF own = {} THEN runs[s].stamp ELSE [seq |-> NextSequence(s), at |-> ReadTime]
           rest  == Max({first.seq, TopSequence(trail)})
           event(i) == Event(runs[s].id, Cardinality(own) + i, kinds[i],
                             IF i = 1 THEN first.seq ELSE rest + i - 1,
                             IF i = 1 THEN first.at ELSE ReadTime)
<1>2. NewEvents(s, kinds) = {event(i) : i \in DOMAIN kinds}
  BY DEF NewEvents
<1>3. first.seq = FirstSequence(s) /\ first.at = TimeOf(s, 1)
  BY DEF FirstSequence, TimeOf
<1>4. \A i \in 1..Len(kinds) : event(i) = NewEvent(s, kinds, i)
  <2> HIDE DEF first
  <2> QED
    BY <1>3 DEF NewEvent, SequenceOf, TimeOf
<1> HIDE DEF event
<1> QED
  BY <1>1, <1>2, <1>4

\* Sequences rise within the stage and over what the run has flushed; all but
\* those stamped before the run waited for the case rise over the trail as well.
LEMMA SequencesRise ==
    ASSUME TrailInv, NEW s \in Sessions
    PROVE  /\ \A i \in Nat \ {0} : SequenceOf(s, i) \in Nat
           /\ \A i, j \in Nat \ {0} : i < j => SequenceOf(s, i) < SequenceOf(s, j)
           /\ \A e \in runs[s].own, i \in Nat \ {0} : e.seq < SequenceOf(s, i)
           /\ \A f \in trail, i \in Nat \ {0} : i # 1 \/ runs[s].own # {} => f.seq < SequenceOf(s, i)
           /\ serial /\ (runs[s].own = {} => runs[s].stamp # NoStamp) =>
                \A f \in trail, i \in Nat \ {0} : f.seq < SequenceOf(s, i)
<1> DEFINE own   == runs[s].own
           first == FirstSequence(s)
           all   == TopSequence(trail)
<1>1. /\ own \in SUBSET EventRow /\ HasTop(own) /\ trail \in SUBSET EventRow /\ HasTop(trail)
      /\ runs[s].stamp.seq \in Nat
  BY DEF TrailInv, TrailTypeOK, RunRow, Stamp, OwnEventsNumbered, TrailNumbered
<1>2. /\ all \in Nat /\ \A f \in trail : f.seq <= all
      /\ TopSequence(trail \cup own) \in Nat
      /\ \A e \in trail \cup own : e.seq <= TopSequence(trail \cup own)
  BY <1>1, TopOf, TopOfBoth
<1>3. \A e \in trail \cup own : e.seq \in Nat
  BY <1>1 DEF EventRow
<1>4. /\ first \in Nat
      /\ own # {} => \A e \in trail \cup own : e.seq < first
      /\ serial /\ (own = {} => runs[s].stamp # NoStamp) => \A f \in trail : f.seq < first
  <2>1. CASE own = {}
    <3>1. first = runs[s].stamp.seq
      BY <2>1 DEF FirstSequence
    <3>2. serial /\ runs[s].stamp # NoStamp => \A f \in trail : f.seq < first
      BY <3>1 DEF TrailInv, OwnEventsNumbered
    <3> QED
      BY <1>1, <2>1, <3>1, <3>2
  <2>2. CASE own # {}
    <3>1. first = TopSequence(trail \cup own) + 1
      BY <2>2 DEF FirstSequence, NextSequence
    <3> DEFINE top == TopSequence(trail \cup own)
    <3> HIDE DEF first, top
    <3>2. first \in Nat /\ \A e \in trail \cup own : e.seq < first
      BY <1>2, <1>3, <3>1 DEF top
    <3> QED
      BY <3>2
  <2> QED
    BY <2>1, <2>2
<1> DEFINE rest == Max({first, all})
<1>5. rest \in Nat /\ first <= rest /\ all <= rest
  <2>1. {first, all} \in SUBSET Nat
    BY <1>2, <1>4
  <2>2. CASE first <= all
    <3>1. rest = all
      BY <1>2, <1>4, <2>1, <2>2, MaxIs
    <3> QED
      BY <1>2, <1>4, <2>2, <3>1
  <2>3. CASE all <= first
    <3>1. rest = first
      BY <1>2, <1>4, <2>1, <2>3, MaxIs
    <3> QED
      BY <1>2, <1>4, <2>3, <3>1
  <2> QED
    BY <1>2, <1>4, <2>2, <2>3
<1>6. \A i \in Nat \ {0} : SequenceOf(s, i) = IF i = 1 THEN first ELSE rest + i - 1
  BY DEF SequenceOf
<1> HIDE DEF own, first, all, rest
<1>7. /\ \A i \in Nat \ {0} : SequenceOf(s, i) \in Nat /\ first <= SequenceOf(s, i)
      /\ \A i \in Nat \ {0} : i # 1 => all < SequenceOf(s, i)
  BY <1>2, <1>4, <1>5, <1>6
<1>8. \A i, j \in Nat \ {0} : i < j => SequenceOf(s, i) < SequenceOf(s, j)
  BY <1>4, <1>5, <1>6
<1>9. \A e \in own, i \in Nat \ {0} : e.seq < SequenceOf(s, i)
  BY <1>3, <1>4, <1>7
<1>10. \A f \in trail, i \in Nat \ {0} : i # 1 \/ own # {} => f.seq < SequenceOf(s, i)
  BY <1>2, <1>3, <1>4, <1>7
<1>11. serial /\ (own = {} => runs[s].stamp # NoStamp) =>
         \A f \in trail, i \in Nat \ {0} : f.seq < SequenceOf(s, i)
  BY <1>3, <1>4, <1>7
<1> QED
  BY <1>7, <1>8, <1>9, <1>10, <1>11 DEF own

(***************************************************************************)
(* A stage: the events it records and where it leads.                      *)
(***************************************************************************)
\* The row of a run in its next stage, which keeps its id and its entry.
Row(run, stage, state, due, stamp, own) ==
    [id |-> run.id, stage |-> stage, entry |-> run.entry, state |-> state, due |-> due,
     stamp |-> stamp, own |-> own]

\* A stage that walks to state and records kinds; Decide, Gate, Defer and Execute
\* are such stages.
Flush(s, kinds, state, next) ==
    /\ LockFreeFor(s) /\ Tell(s)
    /\ runs[s].own = {} => runs[s].stamp # NoStamp
    /\ \E due \in Nat :
         runs' = [runs EXCEPT ![s] =
                    Row(runs[s], next, state, due, NoStamp, runs[s].own \cup NewEvents(s, kinds))]
    /\ UNCHANGED <<case, trail, begun, captured>>

\* An event of this kind tells that the case is now in this state.
Told(kind, state) ==
    kind \in DOMAIN StateAfter /\ kind # "ACTION_FAILED" /\ StateAfter[kind] = state

\* What a stage may record on its way from one to the next: approvals before
\* executions, and at the end what tells the state that is committed.
Records(from, kinds, state, next) ==
    /\ kinds \in Seq(AuditEventType) /\ Len(kinds) \in Nat \ {0}
    /\ \/ next = "gate" /\ from = "decide" /\ state = "POLICY_CHECK"
       \/ /\ next = "execute" /\ from = "gate" /\ state = "APPROVED"
          /\ \E i \in 1..Len(kinds) : kinds[i] = "POLICY_APPROVED"
       \/ /\ next = "commit" /\ from \in {"gate", "execute"}
          /\ state \in RunnableStates \cup TerminalStates
          /\ Told(kinds[Len(kinds)], state)
          /\ state = "SCHEDULED" => \E i \in 1..Len(kinds) : kinds[i] = "ACTION_SCHEDULED"
    /\ \A i \in 1..Len(kinds) : kinds[i] = "OUTCOME_VERIFIED" => from = "execute" /\ i # 1

\* The tuples of events as a stage joins them.
LEMMA Joined ==
    ASSUME NEW kinds \in Seq(AuditEventType), NEW others \in Seq(AuditEventType)
    PROVE  /\ kinds \o others \in Seq(AuditEventType)
           /\ Len(kinds \o others) = Len(kinds) + Len(others)
           /\ \A i \in 1..Len(kinds) + Len(others) :
                (kinds \o others)[i] = IF i <= Len(kinds) THEN kinds[i] ELSE others[i - Len(kinds)]
  BY ConcatProperties

LEMMA PermittedSteps ==
    /\ \A s \in {"DETECTED", "FAILED"} : Permitted(s, "DIAGNOSING")
    /\ Permitted("DIAGNOSING", "DIAGNOSED") /\ Permitted("DIAGNOSED", "EVALUATING")
    /\ Permitted("EVALUATING", "DECISION_READY") /\ Permitted("DECISION_READY", "POLICY_CHECK")
    /\ \A t \in {"APPROVED", "BLOCKED", "ESCALATED"} : Permitted("POLICY_CHECK", t)
    /\ Permitted("BLOCKED", "STOPPED") /\ Permitted("APPROVED", "SCHEDULED")
    /\ \A s \in {"APPROVED", "SCHEDULED"} : Permitted(s, "EXECUTING")
    /\ Permitted("EXECUTING", "VERIFYING")
    /\ \A t \in {"RECOVERED", "FAILED"} : Permitted("VERIFYING", t)
  BY DEF Permitted, Transitions, CaseState, TerminalStates

\* Every walk a stage asks for is permitted.
LEMMA StagesWalk ==
    /\ \A s \in {"DETECTED", "FAILED"} :
         Walk(s, <<"DIAGNOSING", "DIAGNOSED", "EVALUATING", "DECISION_READY", "POLICY_CHECK">>) = "POLICY_CHECK"
    /\ Walk("POLICY_CHECK", <<"BLOCKED", "STOPPED">>) = "STOPPED"
    /\ Walk("POLICY_CHECK", <<"ESCALATED">>) = "ESCALATED"
    /\ Walk("POLICY_CHECK", <<"APPROVED">>) = "APPROVED"
    /\ Walk("POLICY_CHECK", <<"APPROVED", "SCHEDULED">>) = "SCHEDULED"
    /\ \A s \in {"APPROVED", "SCHEDULED"}, t \in {"RECOVERED", "FAILED"} :
         Walk(s, <<"EXECUTING", "VERIFYING", t>>) = t
<1>1. \A s \in {"DETECTED", "FAILED"} :
         Walk(s, <<"DIAGNOSING", "DIAGNOSED", "EVALUATING", "DECISION_READY", "POLICY_CHECK">>) = "POLICY_CHECK"
  BY PermittedSteps DEF Walk, Rejected
<1>2. /\ Walk("POLICY_CHECK", <<"BLOCKED", "STOPPED">>) = "STOPPED"
      /\ Walk("POLICY_CHECK", <<"ESCALATED">>) = "ESCALATED"
  BY PermittedSteps DEF Walk, Rejected
<1>3. /\ Walk("POLICY_CHECK", <<"APPROVED">>) = "APPROVED"
      /\ Walk("POLICY_CHECK", <<"APPROVED", "SCHEDULED">>) = "SCHEDULED"
  BY PermittedSteps DEF Walk, Rejected
<1>4. \A s \in {"APPROVED", "SCHEDULED"}, t \in {"RECOVERED", "FAILED"} :
         Walk(s, <<"EXECUTING", "VERIFYING", t>>) = t
  BY PermittedSteps DEF Walk, Rejected
<1> QED
  BY <1>1, <1>2, <1>3, <1>4

\* The rows of Stage and Defer as their actions write them.
Flushed(run, state, next, own) ==
    [run EXCEPT !.state = state, !.stage = next, !.own = own, !.stamp = NoStamp]
Deferred(run, state, due, own) ==
    [run EXCEPT !.state = state, !.stage = "commit", !.due = due, !.own = own]

LEMMA RowFlushed ==
    ASSUME NEW run \in RunRow, NEW state, NEW next, NEW own, NEW due
    PROVE  /\ Flushed(run, state, next, own) = Row(run, next, state, run.due, NoStamp, own)
           /\ run.stamp = NoStamp =>
                Deferred(run, state, due, own) = Row(run, "commit", state, due, NoStamp, own)
<1> DEFINE moved   == Row(run, run.stage, state, run.due, run.stamp, run.own)
           staged  == Row(run, next, state, run.due, run.stamp, run.own)
           ended   == Row(run, "commit", state, run.due, run.stamp, run.own)
           due1    == Row(run, "commit", state, due, run.stamp, run.own)
           flushed == Row(run, next, state, run.due, run.stamp, own)
<1>1. [run EXCEPT !.state = state] = moved
  BY DEF RunRow, Row
<1>2. [moved EXCEPT !.stage = next] = staged
  BY DEF Row
<1>3. [staged EXCEPT !.own = own] = flushed
  BY DEF Row
<1>4. [flushed EXCEPT !.stamp = NoStamp] = Row(run, next, state, run.due, NoStamp, own)
  BY DEF Row
<1>5. [moved EXCEPT !.stage = "commit"] = ended
  BY DEF Row
<1>6. [ended EXCEPT !.due = due] = due1
  BY DEF Row
<1>7. [due1 EXCEPT !.own = own] = Row(run, "commit", state, due, run.stamp, own)
  BY DEF Row
<1>8. Flushed(run, state, next, own)
      = [[[[run EXCEPT !.state = state] EXCEPT !.stage = next] EXCEPT !.own = own] EXCEPT !.stamp = NoStamp]
  BY DEF Flushed
<1>9. Deferred(run, state, due, own)
      = [[[[run EXCEPT !.state = state] EXCEPT !.stage = "commit"] EXCEPT !.due = due] EXCEPT !.own = own]
  BY DEF Deferred
<1> HIDE DEF moved, staged, ended, due1, flushed
<1> QED
  BY <1>1, <1>2, <1>3, <1>4, <1>5, <1>6, <1>7, <1>8, <1>9

LEMMA StageFlushes ==
    ASSUME TrailTypeOK, NEW s \in Sessions, NEW path, NEW kinds, NEW next, Stage(s, path, kinds, next)
    PROVE  Flush(s, kinds, Walk(runs[s].state, path), next)
<1> DEFINE run   == runs[s]
           state == Walk(run.state, path)
           own   == run.own \cup NewEvents(s, kinds)
<1>1. run \in RunRow /\ run.due \in Nat
  BY DEF TrailTypeOK, RunRow
<1>2. runs' = [runs EXCEPT ![s].state = state, ![s].stage = next,
                           ![s].own = own, ![s].stamp = NoStamp]
  BY DEF Stage, TrailTypeOK
<1>3. runs' = [runs EXCEPT ![s] = Flushed(run, state, next, own)]
  BY <1>2 DEF TrailTypeOK, Flushed
<1>4. Flushed(run, state, next, own) = Row(run, next, state, run.due, NoStamp, own)
  BY <1>1, RowFlushed
<1> QED
  BY <1>1, <1>3, <1>4 DEF Flush, Stage

LEMMA DeferFlushes ==
    ASSUME TrailInv, NEW s \in Sessions, Defer(s)
    PROVE  Flush(s, PolicyEvent("APPROVED") \o <<"ACTION_SCHEDULED">>,
                 Walk(runs[s].state, <<"APPROVED", "SCHEDULED">>), "commit")
<1> DEFINE run   == runs[s]
           kinds == PolicyEvent("APPROVED") \o <<"ACTION_SCHEDULED">>
           state == Walk(run.state, <<"APPROVED", "SCHEDULED">>)
           own   == run.own \cup NewEvents(s, kinds)
           due   == ReadTime + Delay
<1>1. run \in RunRow /\ run.own # {} /\ run.stamp = NoStamp /\ runs \in [Sessions -> RunRow]
  BY DEF TrailInv, TrailTypeOK, WalksAsPermitted, Defer
<1>2. due \in Nat
  BY TrailAssumption, ClockAssumption DEF ReadTime, TrailInv, TrailTypeOK, ClockTypeOK
<1>3. runs' = [runs EXCEPT ![s].state = state, ![s].stage = "commit", ![s].due = due,
                           ![s].own = own]
  BY <1>1 DEF Defer
<1>4. runs' = [runs EXCEPT ![s] = Deferred(run, state, due, own)]
  BY <1>1, <1>3 DEF Deferred
<1>5. Deferred(run, state, due, own) = Row(run, "commit", state, due, NoStamp, own)
  BY <1>1, RowFlushed
<1> HIDE DEF due
<1> QED
  BY <1>1, <1>2, <1>4, <1>5 DEF Flush, Defer
\* The tuples the stages put together.
LEMMA Tuples ==
    ASSUME NEW a \in AuditEventType, NEW b \in AuditEventType, NEW c \in AuditEventType
    PROVE  /\ <<a>> \in Seq(AuditEventType) /\ Len(<<a>>) = 1 /\ <<a>>[1] = a
           /\ <<a>> \o <<b>> \in Seq(AuditEventType) /\ Len(<<a>> \o <<b>>) = 2
           /\ (<<a>> \o <<b>>)[1] = a /\ (<<a>> \o <<b>>)[2] = b
           /\ <<a>> \o <<b, c>> \in Seq(AuditEventType) /\ Len(<<a>> \o <<b, c>>) = 3
           /\ (<<a>> \o <<b, c>>)[1] = a /\ (<<a>> \o <<b, c>>)[2] = b /\ (<<a>> \o <<b, c>>)[3] = c
           /\ <<a>> \o <<b>> \o <<c>> \in Seq(AuditEventType) /\ Len(<<a>> \o <<b>> \o <<c>>) = 3
           /\ (<<a>> \o <<b>> \o <<c>>)[1] = a /\ (<<a>> \o <<b>> \o <<c>>)[2] = b
           /\ (<<a>> \o <<b>> \o <<c>>)[3] = c
<1>1. /\ <<a>> \in Seq(AuditEventType) /\ Len(<<a>>) = 1 /\ <<a>>[1] = a
      /\ <<b>> \in Seq(AuditEventType) /\ Len(<<b>>) = 1 /\ <<b>>[1] = b
      /\ <<c>> \in Seq(AuditEventType) /\ Len(<<c>>) = 1 /\ <<c>>[1] = c
      /\ <<b, c>> \in Seq(AuditEventType) /\ Len(<<b, c>>) = 2 /\ <<b, c>>[1] = b /\ <<b, c>>[2] = c
  OBVIOUS
<1> DEFINE pair == <<a>> \o <<b>>
<1>2. pair \in Seq(AuditEventType) /\ Len(pair) = 2 /\ pair[1] = a /\ pair[2] = b
  <2>1. /\ pair \in Seq(AuditEventType) /\ Len(pair) = 1 + 1
        /\ \A i \in 1..1 + 1 : pair[i] = IF i <= 1 THEN <<a>>[i] ELSE <<b>>[i - 1]
    BY <1>1, Joined
  <2> HIDE DEF pair
  <2>2. pair[1] = <<a>>[1] /\ pair[2] = <<b>>[1]
    BY <2>1
  <2> QED
    BY <1>1, <2>1, <2>2
<1> HIDE DEF pair
<1> DEFINE triple == <<a>> \o <<b, c>>
<1>3. triple \in Seq(AuditEventType) /\ Len(triple) = 3 /\ triple[1] = a /\ triple[2] = b /\ triple[3] = c
  <2>1. /\ triple \in Seq(AuditEventType) /\ Len(triple) = 1 + 2
        /\ \A i \in 1..1 + 2 : triple[i] = IF i <= 1 THEN <<a>>[i] ELSE <<b, c>>[i - 1]
    BY <1>1, Joined
  <2> HIDE DEF triple
  <2>2. triple[1] = <<a>>[1] /\ triple[2] = <<b, c>>[1] /\ triple[3] = <<b, c>>[2]
    BY <2>1
  <2> QED
    BY <1>1, <2>1, <2>2
<1> HIDE DEF triple
<1> DEFINE long == pair \o <<c>>
<1>4. long \in Seq(AuditEventType) /\ Len(long) = 3 /\ long[1] = a /\ long[2] = b /\ long[3] = c
  <2> DEFINE last == <<c>>
  <2>0. last \in Seq(AuditEventType) /\ Len(last) = 1 /\ last[1] = c
    BY <1>1
  <2> HIDE DEF last
  <2>1. /\ pair \o last \in Seq(AuditEventType) /\ Len(pair \o last) = 2 + 1
        /\ \A i \in 1..2 + 1 : (pair \o last)[i] = IF i <= 2 THEN pair[i] ELSE last[i - 2]
    BY <1>2, <2>0, Joined
  <2>2. (pair \o last)[1] = pair[1] /\ (pair \o last)[2] = pair[2] /\ (pair \o last)[3] = last[1]
    BY <2>1
  <2> QED
    BY <1>2, <2>0, <2>1, <2>2 DEF last
<1> QED
  BY <1>1, <1>2, <1>3, <1>4 DEF pair, triple

\* What the events of the gate and of an execution say.
LEMMA GateRecords ==
    /\ Records("gate", PolicyEvent("BLOCKED") \o StopEvent, "STOPPED", "commit")
    /\ Records("gate", PolicyEvent("ESCALATED"), "ESCALATED", "commit")
    /\ Records("gate", PolicyEvent("APPROVED") \o ExecutionEvent, "ESCALATED", "commit")
    /\ Records("gate", PolicyEvent("APPROVED") \o ExecutionEvent \o StopEvent, "STOPPED", "commit")
    /\ Records("gate", PolicyEvent("APPROVED"), "APPROVED", "execute")
    /\ Records("gate", PolicyEvent("APPROVED") \o <<"ACTION_SCHEDULED">>, "SCHEDULED", "commit")
<1>1. /\ Told("WORKFLOW_STOPPED", "STOPPED") /\ Told("POLICY_ESCALATED", "ESCALATED")
      /\ Told("ACTION_EXECUTED", "ESCALATED") /\ Told("ACTION_SCHEDULED", "SCHEDULED")
  BY DEF Told, StateAfter
<1>2. {"POLICY_APPROVED", "POLICY_BLOCKED", "POLICY_ESCALATED", "ACTION_EXECUTED",
       "ACTION_SCHEDULED", "WORKFLOW_STOPPED"} \subseteq AuditEventType
  BY DEF AuditEventType
<1>3. /\ PolicyEvent("APPROVED") = <<"POLICY_APPROVED">> /\ PolicyEvent("BLOCKED") = <<"POLICY_BLOCKED">>
      /\ PolicyEvent("ESCALATED") = <<"POLICY_ESCALATED">>
  BY DEF PolicyEvent
<1>4. {"STOPPED", "ESCALATED", "SCHEDULED"} \subseteq RunnableStates \cup TerminalStates
  BY DEF RunnableStates, TerminalStates
<1>5. ASSUME NEW kinds \in Seq(AuditEventType), Len(kinds) # 0,
             NEW state \in {"STOPPED", "ESCALATED", "SCHEDULED"}, Told(kinds[Len(kinds)], state),
             state = "SCHEDULED" => kinds[Len(kinds)] = "ACTION_SCHEDULED",
             \A i \in 1..Len(kinds) : kinds[i] # "OUTCOME_VERIFIED"
      PROVE  Records("gate", kinds, state, "commit")
  <2>1. Len(kinds) \in Nat \ {0} /\ Len(kinds) \in 1..Len(kinds)
    BY <1>5, LenProperties
  <2> QED
    BY <1>4, <1>5, <2>1 DEF Records
<1>6. ASSUME NEW a \in AuditEventType, NEW b \in AuditEventType, NEW state \in {"STOPPED", "ESCALATED", "SCHEDULED"},
             Told(b, state), state = "SCHEDULED" => b = "ACTION_SCHEDULED",
             "OUTCOME_VERIFIED" \notin {a, b}
      PROVE  Records("gate", <<a>> \o <<b>>, state, "commit")
  <2> DEFINE kinds == <<a>> \o <<b>>
  <2>1. kinds \in Seq(AuditEventType) /\ Len(kinds) = 2 /\ kinds[1] = a /\ kinds[2] = b
    BY Tuples
  <2> HIDE DEF kinds
  <2>2. /\ Len(kinds) # 0 /\ kinds[Len(kinds)] = b
        /\ \A i \in 1..Len(kinds) : kinds[i] # "OUTCOME_VERIFIED"
    BY <1>6, <2>1
  <2>3. Told(kinds[Len(kinds)], state) /\ (state = "SCHEDULED" => kinds[Len(kinds)] = "ACTION_SCHEDULED")
    BY <1>6, <2>2
  <2>4. Records("gate", kinds, state, "commit")
    BY <1>5, <2>1, <2>2, <2>3
  <2> QED
    BY <2>4 DEF kinds
<1>7. /\ Records("gate", PolicyEvent("BLOCKED") \o StopEvent, "STOPPED", "commit")
      /\ Records("gate", PolicyEvent("APPROVED") \o ExecutionEvent, "ESCALATED", "commit")
      /\ Records("gate", PolicyEvent("APPROVED") \o <<"ACTION_SCHEDULED">>, "SCHEDULED", "commit")
  BY <1>1, <1>2, <1>3, <1>6 DEF StopEvent, ExecutionEvent
<1>8. Records("gate", PolicyEvent("ESCALATED"), "ESCALATED", "commit")
  <2> DEFINE kinds == <<"POLICY_ESCALATED">>
  <2>1. kinds \in Seq(AuditEventType) /\ Len(kinds) = 1 /\ kinds[1] = "POLICY_ESCALATED"
    BY <1>2, Tuples
  <2> HIDE DEF kinds
  <2>2. Records("gate", kinds, "ESCALATED", "commit")
    BY <1>1, <1>5, <2>1
  <2> QED
    BY <1>3, <2>2 DEF kinds
<1>9. Records("gate", PolicyEvent("APPROVED") \o ExecutionEvent \o StopEvent, "STOPPED", "commit")
  <2> DEFINE kinds == <<"POLICY_APPROVED">> \o <<"ACTION_EXECUTED">> \o <<"WORKFLOW_STOPPED">>
  <2>1. /\ kinds \in Seq(AuditEventType) /\ Len(kinds) = 3 /\ kinds[1] = "POLICY_APPROVED"
        /\ kinds[2] = "ACTION_EXECUTED" /\ kinds[3] = "WORKFLOW_STOPPED"
    BY <1>2, Tuples
  <2> HIDE DEF kinds
  <2>2. /\ Len(kinds) # 0 /\ kinds[Len(kinds)] = "WORKFLOW_STOPPED"
        /\ \A i \in 1..Len(kinds) : kinds[i] # "OUTCOME_VERIFIED"
    BY <2>1
  <2>3. Records("gate", kinds, "STOPPED", "commit")
    BY <1>1, <1>5, <2>1, <2>2
  <2> QED
    BY <1>3, <2>3 DEF kinds, ExecutionEvent, StopEvent
<1>10. Records("gate", PolicyEvent("APPROVED"), "APPROVED", "execute")
  <2> DEFINE kinds == <<"POLICY_APPROVED">>
  <2>1. kinds \in Seq(AuditEventType) /\ Len(kinds) = 1 /\ kinds[1] = "POLICY_APPROVED"
    BY <1>2, Tuples
  <2> HIDE DEF kinds
  <2>2. Records("gate", kinds, "APPROVED", "execute")
    BY <2>1 DEF Records
  <2> QED
    BY <1>3, <2>2 DEF kinds
<1> QED
  BY <1>7, <1>8, <1>9, <1>10

LEMMA ExecutionRecords ==
    ASSUME NEW recovered \in BOOLEAN
    PROVE  Records("execute", ExecutionEvent \o VerificationEvents(recovered),
                   IF recovered THEN "RECOVERED" ELSE "FAILED", "commit")
<1> DEFINE kinds == ExecutionEvent \o VerificationEvents(recovered)
           state == IF recovered THEN "RECOVERED" ELSE "FAILED"
<1>1. {"ACTION_EXECUTED", "OUTCOME_VERIFIED", "REVENUE_RECOVERED"} \subseteq AuditEventType
  BY DEF AuditEventType
<1>2. Told("REVENUE_RECOVERED", "RECOVERED") /\ Told("OUTCOME_VERIFIED", "FAILED")
  BY DEF Told, StateAfter
<1>3. {"RECOVERED", "FAILED"} \subseteq RunnableStates \cup TerminalStates
  BY DEF RunnableStates, TerminalStates
<1>4. CASE recovered
  <2>1. /\ kinds \in Seq(AuditEventType) /\ Len(kinds) = 3 /\ kinds[1] = "ACTION_EXECUTED"
        /\ kinds[2] = "OUTCOME_VERIFIED" /\ kinds[3] = "REVENUE_RECOVERED" /\ state = "RECOVERED"
    BY <1>1, <1>4, Tuples DEF ExecutionEvent, VerificationEvents
  <2> HIDE DEF kinds, state
  <2>2. Records("execute", kinds, state, "commit")
    BY <1>2, <1>3, <2>1 DEF Records
  <2> QED
    BY <2>2 DEF kinds, state
<1>5. CASE ~recovered
  <2>1. /\ kinds \in Seq(AuditEventType) /\ Len(kinds) = 2 /\ kinds[1] = "ACTION_EXECUTED"
        /\ kinds[2] = "OUTCOME_VERIFIED" /\ state = "FAILED"
    BY <1>1, <1>5, Tuples DEF ExecutionEvent, VerificationEvents
  <2> HIDE DEF kinds, state
  <2>2. Records("execute", kinds, state, "commit")
    BY <1>2, <1>3, <2>1 DEF Records
  <2> QED
    BY <2>2 DEF kinds, state
<1> QED
  BY <1>4, <1>5

\* Every stage flushes events that tell what it did.
LEMMA StagesFlush ==
    ASSUME TrailInv, NEW s \in Sessions, Decide(s) \/ Gate(s) \/ Defer(s) \/ Execute(s)
    PROVE  \E kinds, state, next :
             Flush(s, kinds, state, next) /\ Records(runs[s].stage, kinds, state, next)
<1> DEFINE run == runs[s]
<1>0. TrailTypeOK
  BY DEF TrailInv
<1>1. CASE Decide(s)
  <2> DEFINE kinds == DiagnosisEvents \o DecisionEvents
  <2>1. run.stage = "decide" /\ run.state \in {"DETECTED", "FAILED"}
    BY <1>1 DEF Decide, TrailInv, WalksAsPermitted
  <2>2. Flush(s, kinds, "POLICY_CHECK", "gate")
    BY <1>0, <1>1, <2>1, StageFlushes, StagesWalk DEF Decide
  <2>3. /\ kinds \in Seq(AuditEventType) /\ Len(kinds) = 3
        /\ kinds[1] = "DIAGNOSIS_COMPLETED" /\ kinds[2] = "RECOVERY_OPTIONS_EVALUATED"
        /\ kinds[3] = "RECOVERY_DECISION_SELECTED"
    <3>1. {"DIAGNOSIS_COMPLETED", "RECOVERY_OPTIONS_EVALUATED", "RECOVERY_DECISION_SELECTED"}
            \subseteq AuditEventType
      BY DEF AuditEventType
    <3> QED
      BY <3>1, Tuples DEF DiagnosisEvents, DecisionEvents
  <2> HIDE DEF kinds
  <2>4. Records(run.stage, kinds, "POLICY_CHECK", "gate")
    BY <2>1, <2>3 DEF Records
  <2> QED
    BY <2>2, <2>4
<1>2. CASE Gate(s)
  <2>1. run.stage = "gate" /\ run.state = "POLICY_CHECK"
    BY <1>2 DEF Gate, TrailInv, WalksAsPermitted
  <2>2. ASSUME NEW kinds, NEW path, NEW state, NEW next, Stage(s, path, kinds, next),
               Walk("POLICY_CHECK", path) = state, Records("gate", kinds, state, next)
        PROVE  \E k, to, n : Flush(s, k, to, n) /\ Records(run.stage, k, to, n)
    BY <1>0, <2>1, <2>2, StageFlushes
  <2>3. /\ Records("gate", PolicyEvent("BLOCKED") \o StopEvent, "STOPPED", "commit")
        /\ Records("gate", PolicyEvent("ESCALATED"), "ESCALATED", "commit")
        /\ Records("gate", PolicyEvent("APPROVED") \o ExecutionEvent, "ESCALATED", "commit")
        /\ Records("gate", PolicyEvent("APPROVED") \o ExecutionEvent \o StopEvent, "STOPPED", "commit")
        /\ Records("gate", PolicyEvent("APPROVED"), "APPROVED", "execute")
    BY GateRecords
  <2> QED
    BY <1>2, <2>2, <2>3, StagesWalk DEF Gate
<1>3. CASE Defer(s)
  <2>1. run.stage = "gate" /\ run.state = "POLICY_CHECK"
    BY <1>3 DEF Defer, TrailInv, WalksAsPermitted
  <2>2. Records("gate", PolicyEvent("APPROVED") \o <<"ACTION_SCHEDULED">>, "SCHEDULED", "commit")
    BY GateRecords
  <2> QED
    BY <1>3, <2>1, <2>2, DeferFlushes, StagesWalk
<1>4. CASE Execute(s)
  <2>1. run.stage = "execute" /\ run.state \in {"APPROVED", "SCHEDULED"}
    BY <1>4 DEF Execute, TrailInv, WalksAsPermitted
  <2>2. PICK recovered \in BOOLEAN :
          Stage(s, <<"EXECUTING", "VERIFYING", IF recovered THEN "RECOVERED" ELSE "FAILED">>,
                ExecutionEvent \o VerificationEvents(recovered), "commit")
    BY <1>4 DEF Execute
  <2> DEFINE state == IF recovered THEN "RECOVERED" ELSE "FAILED"
             kinds == ExecutionEvent \o VerificationEvents(recovered)
  <2>3. Flush(s, kinds, state, "commit")
    BY <1>0, <2>1, <2>2, StageFlushes, StagesWalk
  <2>4. Records("execute", kinds, state, "commit")
    BY ExecutionRecords
  <2> QED
    BY <2>1, <2>3, <2>4
<1> QED
  BY <1>1, <1>2, <1>3, <1>4
(***************************************************************************)
(* Steps that leave the trail alone.                                       *)
(***************************************************************************)
LEMMA ClockOnlyGrows ==
    ASSUME ClockTypeOK, [ClockNext]_cvars
    PROVE  serial' = serial /\ asked <= asked' /\ breaks <= breaks'
<1>1. asked \in Nat /\ breaks \in Nat
  BY ClockAssumption DEF ClockTypeOK
<1>2. ASSUME NEW p \in Processes, NEW delta \in Deltas, Advance(p, delta)
      PROVE  serial' = serial /\ asked' = asked + delta /\ breaks' = breaks /\ delta \in Nat
  <2>1. CASE file = <<>>
    BY <1>2, <2>1, ClockAssumption DEF Advance, BeginWrite
  <2>2. CASE file # <<>>
    BY <1>2, <2>2, ClockAssumption DEF Advance, BeginWrite
  <2> QED
    BY <2>1, <2>2
<1>3. ASSUME NEW p \in Processes, Now(p) \/ Reset(p) \/ Truncate(p) \/ Put(p) \/ ClockCrash(p)
      PROVE  serial' = serial /\ asked' = asked /\ breaks' \in {breaks, breaks + 1}
  BY <1>3 DEF Now, Reset, Truncate, Put, ClockCrash, BeginWrite
<1>4. CASE UNCHANGED cvars
  BY <1>1, <1>4 DEF cvars
<1> QED
  BY <1>1, <1>2, <1>3, <1>4 DEF ClockNext, ClockStep

\* What a process that may look at the clock sees.
LEMMA NowIsAsked ==
    ASSUME ClockInv
    PROVE  /\ ReadTime \in Nat /\ asked \in Nat /\ Start \in Nat /\ ReadTime <= Start + asked
           /\ \A s \in Sessions : Free(s) /\ serial /\ breaks = 0 => ReadTime = Start + asked
  BY ClockAssumption DEF ClockInv, ClockTypeOK, ClockNeverAhead, SerialInv, Free, ReadTime

LEMMA TellLeavesAsked ==
    ASSUME NEW s \in Sessions, Tell(s)
    PROVE  Free(s) /\ asked' = asked /\ breaks' = breaks /\ serial' = serial
  BY DEF Tell, Now, BeginWrite, cvars

LEMMA NoRunIsRow == \A s \in Sessions : begun \in Nat => NoRun \in RunRow
  BY DEF NoRun, RunRow, Stamp, NoStamp, RunnableStates, CaseState

LEMMA StillBefore ==
    ASSUME NEW at \in Nat, NEW start \in Nat, NEW then \in Nat, NEW now \in Nat,
           then <= now, at <= start + then
    PROVE  at <= start + now
  OBVIOUS

LEMMA SumNotNegative ==
    ASSUME NEW a \in Nat, NEW b \in Nat PROVE 0 <= a + b
  OBVIOUS

LEMMA ClockKeepsTrail ==
    ASSUME ClockInv, TrailInv, [ClockNext]_cvars, UNCHANGED tvars
    PROVE  TrailInv'
<1>1. /\ serial' = serial /\ asked <= asked' /\ breaks <= breaks'
      /\ asked \in Nat /\ asked' \in Nat /\ breaks \in Nat /\ breaks' \in Nat /\ Start \in Nat /\ ClockTypeOK'
  BY ClockOnlyGrows, ClockInvNext, ClockAssumption DEF ClockInv, ClockTypeOK
<1>2. UNCHANGED <<case, trail, runs, begun, captured>>
  BY DEF tvars
<1>3. TrailTypeOK'
  BY <1>1, <1>2 DEF TrailInv, TrailTypeOK, RunRow
<1>4. WalksAsPermitted'
  BY <1>2 DEF TrailInv, WalksAsPermitted
<1>5. RunsApart'
  BY <1>1, <1>2 DEF TrailInv, RunsApart, Active
<1>6. OwnEventsNumbered' /\ TrailNumbered'
  BY <1>1, <1>2 DEF TrailInv, OwnEventsNumbered, TrailNumbered, HasTop, InOrder, SequencesOrderRuns
<1>7. SerialTimes' /\ TrailOldestFirst'
  <2> SUFFICES ASSUME serial, breaks' = 0
               PROVE  SerialTimes' /\ TrailOldestFirst'
    BY <1>1 DEF SerialTimes, TrailOldestFirst
  <2>1. breaks = 0
    BY <1>1
  <2>2. \A at \in Nat : at <= Start + asked => at <= Start + asked'
    BY <1>1, StillBefore
  <2>3. /\ \A e \in trail : e.at \in Nat
        /\ \A s \in Sessions : runs[s].stamp.at \in Nat /\ \A e \in runs[s].own : e.at \in Nat
    BY DEF TrailInv, TrailTypeOK, RunRow, EventRow, Stamp
  <2> QED
    BY <1>1, <1>2, <2>1, <2>2, <2>3 DEF TrailInv, SerialTimes, AtMostNow, TrailOldestFirst
<1>8. ApprovalRecorded' /\ ExecutionWasApproved' /\ StateTold'
  BY <1>1, <1>2 DEF TrailInv, ApprovalRecorded, ExecutionWasApproved, StateTold, ApprovedBefore,
                    ScheduledIn, Tells, Active
<1> QED
  BY <1>3, <1>4, <1>5, <1>6, <1>7, <1>8 DEF TrailInv
(***************************************************************************)
(* Steps that replace the run of one session.                              *)
(***************************************************************************)
LEMMA RunsReplaced ==
    ASSUME TrailTypeOK, NEW s \in Sessions, NEW row, runs' = [runs EXCEPT ![s] = row]
    PROVE  /\ runs'[s] = row /\ \A r \in Sessions \ {s} : runs'[r] = runs[r]
           /\ \A r \in Sessions : runs[r] \in RunRow
  BY DEF TrailTypeOK

LEMMA RunsKeepShape ==
    ASSUME TrailTypeOK, ClockTypeOK', NEW s \in Sessions, NEW row, row \in RunRow',
           runs' = [runs EXCEPT ![s] = row],
           begun' \in 0..RunsCap, begun <= begun', UNCHANGED <<case, trail, captured>>
    PROVE  TrailTypeOK'
<1>1. RunRow \subseteq RunRow'
  BY TrailAssumption DEF RunRow, TrailTypeOK
<1>2. runs' \in [Sessions -> RunRow']
  BY <1>1 DEF TrailTypeOK
<1>3. \A e \in trail' : e.run <= begun'
  BY TrailAssumption DEF TrailTypeOK, EventRow
<1> QED
  BY <1>2, <1>3 DEF TrailTypeOK

LEMMA NothingFlushed == IsFiniteSet({}) /\ HasTop({}) /\ InOrder({})
  BY FS_EmptySet DEF HasTop, InOrder

\* A run that has flushed nothing and taken no stamp supports everything said of
\* events; what is left is who it is and what it is about to do.
LEMMA EmptyRunKeeps ==
    ASSUME ClockInv, TrailInv, [ClockNext]_cvars, NEW s \in Sessions, NEW row, row \in RunRow',
           row.own = {}, row.stamp = NoStamp, runs' = [runs EXCEPT ![s] = row],
           begun' \in 0..RunsCap, begun <= begun', UNCHANGED <<case, trail, captured>>
    PROVE  /\ TrailTypeOK' /\ OwnEventsNumbered' /\ TrailNumbered'
           /\ SerialTimes' /\ TrailOldestFirst' /\ ExecutionWasApproved'
<1>1. /\ serial' = serial /\ asked <= asked' /\ breaks <= breaks'
      /\ asked \in Nat /\ asked' \in Nat /\ breaks \in Nat /\ breaks' \in Nat /\ Start \in Nat /\ ClockTypeOK'
  BY ClockOnlyGrows, ClockInvNext, ClockAssumption DEF ClockInv, ClockTypeOK
<1>2. 0 <= Start + asked'
  BY <1>1, SumNotNegative
<1>3. TrailTypeOK'
  BY <1>1, RunsKeepShape DEF TrailInv
<1>4. /\ runs'[s] = row /\ \A r \in Sessions \ {s} : runs'[r] = runs[r]
      /\ \A r \in Sessions : runs[r] \in RunRow
  BY RunsReplaced DEF TrailInv
<1>5. TrailNumbered' /\ ExecutionWasApproved'
  BY <1>1 DEF TrailInv, TrailNumbered, HasTop, InOrder, SequencesOrderRuns, ExecutionWasApproved
<1>6. OwnEventsNumbered'
  <2> SUFFICES ASSUME NEW r \in Sessions
               PROVE  LET run == runs'[r] IN
                      /\ IsFiniteSet(run.own) /\ HasTop(run.own) /\ InOrder(run.own)
                      /\ \A e \in run.own : e.run = run.id /\ e.n \in 1..Cardinality(run.own)
                      /\ \A e \in run.own, f \in trail : (serial \/ e.n # 1) => f.seq < e.seq
                      /\ serial /\ run.stamp # NoStamp => \A f \in trail : f.seq < run.stamp.seq
    BY <1>1 DEF OwnEventsNumbered, HasTop, InOrder
  <2>1. CASE r = s
    BY <1>4, <2>1, NothingFlushed
  <2>2. CASE r # s
    BY <1>4, <2>2 DEF TrailInv, OwnEventsNumbered
  <2> QED
    BY <2>1, <2>2
<1>7. SerialTimes' /\ TrailOldestFirst'
  <2> SUFFICES ASSUME serial, breaks' = 0
               PROVE  SerialTimes' /\ TrailOldestFirst'
    BY <1>1 DEF SerialTimes, TrailOldestFirst
  <2>1. breaks = 0
    BY <1>1
  <2>2. \A at \in Nat : at <= Start + asked => at <= Start + asked'
    BY <1>1, StillBefore
  <2>3. /\ \A e \in trail : e.at \in Nat
        /\ \A r \in Sessions : runs[r].stamp.at \in Nat /\ \A e \in runs[r].own : e.at \in Nat
    BY DEF TrailInv, TrailTypeOK, RunRow, EventRow, Stamp
  <2>4. \A e \in trail : e.at <= Start + asked'
    BY <2>1, <2>2, <2>3 DEF TrailInv, SerialTimes, AtMostNow
  <2>5. ASSUME NEW r \in Sessions
        PROVE  /\ runs'[r].stamp.at <= Start + asked'
               /\ runs'[r].stamp # NoStamp => \A e \in trail : e.at <= runs'[r].stamp.at
               /\ \A e \in runs'[r].own : e.at <= Start + asked' /\ \A f \in trail : f.at <= e.at
               /\ \A e, f \in runs'[r].own : e.seq < f.seq => e.at <= f.at
    <3>1. CASE r = s
      <4>1. runs'[r].own = {} /\ runs'[r].stamp = NoStamp /\ NoStamp.at = 0
        BY <1>4, <3>1 DEF NoStamp
      <4> QED
        BY <1>2, <4>1
    <3>2. CASE r # s
      BY <1>4, <2>1, <2>2, <2>3, <3>2 DEF TrailInv, SerialTimes, AtMostNow
    <3> QED
      BY <3>1, <3>2
  <2>6. SerialTimes'
    BY <2>4, <2>5 DEF SerialTimes, AtMostNow
  <2> QED
    BY <2>1, <2>6 DEF TrailInv, TrailOldestFirst
<1> QED
  BY <1>3, <1>5, <1>6, <1>7

(***************************************************************************)
(* Steps that begin a run, or empty it.                                    *)
(***************************************************************************)
Started(id, state, stage) == [NoRun EXCEPT !.id = id, !.entry = state, !.state = state, !.stage = stage]
Failing(run) == [run EXCEPT !.stage = "failing", !.own = {}, !.stamp = NoStamp]

LEMMA RowStarted ==
    ASSUME NEW id, NEW state, NEW stage
    PROVE  Started(id, state, stage) = [id |-> id, stage |-> stage, entry |-> state, state |-> state,
                                        due |-> 0, stamp |-> NoStamp, own |-> {}]
<1> DEFINE row(i, st, entry, to) == [id |-> i, stage |-> st, entry |-> entry, state |-> to,
                                     due |-> 0, stamp |-> NoStamp, own |-> {}]
           row1 == row(id, "idle", "DETECTED", "DETECTED")
           row2 == row(id, "idle", state, "DETECTED")
           row3 == row(id, "idle", state, state)
<1>1. [NoRun EXCEPT !.id = id] = row1
  BY DEF NoRun
<1>2. [row1 EXCEPT !.entry = state] = row2
  OBVIOUS
<1>3. [row2 EXCEPT !.state = state] = row3
  OBVIOUS
<1>4. [row3 EXCEPT !.stage = stage] = row(id, stage, state, state)
  OBVIOUS
<1>5. Started(id, state, stage)
      = [[[[NoRun EXCEPT !.id = id] EXCEPT !.entry = state] EXCEPT !.state = state] EXCEPT !.stage = stage]
  BY DEF Started
<1> HIDE DEF row1, row2, row3
<1> QED
  BY <1>1, <1>2, <1>3, <1>4, <1>5

LEMMA RowFailing ==
    ASSUME NEW run \in RunRow
    PROVE  Failing(run) = Row(run, "failing", run.state, run.due, NoStamp, {})
<1> DEFINE row1 == Row(run, "failing", run.state, run.due, run.stamp, run.own)
           row2 == Row(run, "failing", run.state, run.due, run.stamp, {})
<1>1. [run EXCEPT !.stage = "failing"] = row1
  BY DEF RunRow, Row
<1>2. [row1 EXCEPT !.own = {}] = row2
  BY DEF Row
<1>3. [row2 EXCEPT !.stamp = NoStamp] = Row(run, "failing", run.state, run.due, NoStamp, {})
  BY DEF Row
<1>4. Failing(run) = [[[run EXCEPT !.stage = "failing"] EXCEPT !.own = {}] EXCEPT !.stamp = NoStamp]
  BY DEF Failing
<1> HIDE DEF row1, row2
<1> QED
  BY <1>1, <1>2, <1>3, <1>4

LEMMA BeginRunKeeps ==
    ASSUME ClockInv, TrailInv, NEW s \in Sessions, BeginRun(s)
    PROVE  TrailInv'
<1>0. [ClockNext]_cvars /\ serial' = serial
  BY SessionStepIsClockStep, TellLeavesAsked DEF BeginRun
<1>1. PICK stage \in {"execute", "decide"} :
        /\ stage = "execute" <=> case.state = "SCHEDULED"
        /\ runs' = [runs EXCEPT ![s] = Started(begun + 1, case.state, stage)]
  BY DEF BeginRun, Started
<1>2. PICK row : row = [id |-> begun + 1, stage |-> stage, entry |-> case.state, state |-> case.state,
                        due |-> 0, stamp |-> NoStamp, own |-> {}]
  OBVIOUS
<1>3. /\ runs' = [runs EXCEPT ![s] = row] /\ row.own = {} /\ row.stamp = NoStamp /\ row.id = begun + 1
      /\ row.stage = stage /\ row.entry = case.state /\ row.state = case.state
  BY <1>1, <1>2, RowStarted
<1>4. /\ begun \in Nat /\ begun' = begun + 1 /\ begun' \in 0..RunsCap /\ begun <= begun'
      /\ UNCHANGED <<case, trail, captured>>
      /\ ~Active(s) /\ (serial => \A r \in Sessions : ~Active(r))
      /\ case.state \in RunnableStates /\ case.state \in CaseState
  BY TrailAssumption DEF BeginRun, TrailInv, TrailTypeOK
<1>5. row \in RunRow'
  BY <1>2, <1>4 DEF RunRow, Stamp, NoStamp
<1>6. /\ TrailTypeOK' /\ OwnEventsNumbered' /\ TrailNumbered'
      /\ SerialTimes' /\ TrailOldestFirst' /\ ExecutionWasApproved'
  BY <1>0, <1>3, <1>4, <1>5, EmptyRunKeeps
<1>7. runs'[s] = row /\ \A r \in Sessions \ {s} : runs'[r] = runs[r]
  BY <1>3, RunsReplaced DEF TrailInv
<1>8. WalksAsPermitted'
  <2>1. ASSUME NEW r \in Sessions, r # s PROVE runs'[r] = runs[r]
    BY <1>7, <2>1
  <2>2. case.state \in {"DETECTED", "FAILED", "SCHEDULED"}
    BY <1>4 DEF RunnableStates
  <2> QED
    BY <1>1, <1>3, <1>4, <1>7, <2>1, <2>2 DEF TrailInv, WalksAsPermitted
<1>9. RunsApart'
  <2>1. \A r \in Sessions : Active(r) => runs[r].id \in 1..begun
    BY DEF TrailInv, RunsApart
  <2>2. \A e \in trail : e.run \in Nat /\ e.run <= begun
    BY DEF TrailInv, TrailTypeOK, EventRow
  <2>3. \A r \in Sessions : ~Active(r) => runs[r].own = {}
    BY DEF TrailInv, WalksAsPermitted, Active, NoRun
  <2>4. ASSUME NEW r \in Sessions, Active(r)'
        PROVE  /\ runs'[r].id \in 1..begun'
               /\ \A e \in trail : e.run # runs'[r].id
    <3>1. CASE r = s
      BY <1>3, <1>4, <1>7, <2>2, <3>1
    <3>2. CASE r # s
      BY <1>4, <1>7, <2>1, <2>4, <3>2 DEF Active, TrailInv, RunsApart
    <3> QED
      BY <3>1, <3>2
  <2>5. ASSUME NEW r \in Sessions, Active(r)', NEW q \in Sessions \ {r}
        PROVE  /\ Active(q)' => ~serial /\ runs'[q].id # runs'[r].id
               /\ runs'[r].own # {} => runs'[q].own = {}
    <3>1. CASE r = s
      <4>1. runs'[q] = runs[q]
        BY <1>7, <3>1
      <4> QED
        BY <1>3, <1>4, <1>7, <2>1, <3>1, <4>1 DEF Active
    <3>2. CASE q = s
      <4>1. runs'[r] = runs[r] /\ Active(r)
        BY <1>7, <2>5, <3>2 DEF Active
      <4> QED
        BY <1>3, <1>4, <1>7, <2>1, <3>2, <4>1
    <3>3. CASE r # s /\ q # s
      <4>1. runs'[r] = runs[r] /\ runs'[q] = runs[q] /\ Active(r)
        BY <1>7, <2>5, <3>3 DEF Active
      <4> QED
        BY <4>1 DEF Active, TrailInv, RunsApart
    <3> QED
      BY <3>1, <3>2, <3>3
  <2> QED
    BY <1>0, <1>4, <2>4, <2>5 DEF RunsApart
<1>10. ApprovalRecorded'
  <2>1. ASSUME NEW r \in Sessions, r # s PROVE runs'[r] = runs[r]
    BY <1>7, <2>1
  <2> QED
    BY <1>1, <1>3, <1>4, <1>7, <2>1 DEF TrailInv, ApprovalRecorded, ScheduledIn, ApprovedBefore, Active
<1>11. StateTold'
  <2>1. ASSUME NEW r \in Sessions, r # s PROVE runs'[r] = runs[r]
    BY <1>7, <2>1
  <2> QED
    BY <1>0, <1>1, <1>3, <1>4, <1>7, <2>1 DEF TrailInv, StateTold, Tells, Active
<1> QED
  BY <1>6, <1>8, <1>9, <1>10, <1>11 DEF TrailInv
\* A run that fails or dies forgets what it flushed.
LEMMA ForgettingKeeps ==
    ASSUME ClockInv, TrailInv, [ClockNext]_cvars, NEW s \in Sessions, NEW row \in RunRow,
           row.own = {}, row.stamp = NoStamp, runs' = [runs EXCEPT ![s] = row],
           Active(s), UNCHANGED <<case, trail, begun, captured>>,
           \/ row = NoRun
           \/ /\ row.stage = "failing" /\ row.state # Rejected
              /\ row.id = runs[s].id /\ row.entry = runs[s].entry
    PROVE  TrailInv'
<1>1. serial' = serial
  BY ClockOnlyGrows DEF TrailInv, TrailTypeOK
<1>2. /\ TrailTypeOK' /\ OwnEventsNumbered' /\ TrailNumbered'
      /\ SerialTimes' /\ TrailOldestFirst' /\ ExecutionWasApproved'
  <2>1. row \in RunRow' /\ begun' \in 0..RunsCap /\ begun <= begun'
    BY TrailAssumption DEF TrailInv, TrailTypeOK, RunRow
  <2> QED
    BY <2>1, EmptyRunKeeps
<1>3. runs'[s] = row /\ \A r \in Sessions : r # s => runs'[r] = runs[r]
  BY RunsReplaced DEF TrailInv
<1>4. NoRun.stage = "idle"
  BY DEF NoRun
<1>5. WalksAsPermitted'
  BY <1>3, <1>4 DEF TrailInv, WalksAsPermitted
<1>6. \A r \in Sessions : Active(r)' => /\ Active(r) /\ runs'[r].id = runs[r].id
                                        /\ runs'[r].entry = runs[r].entry
                                        /\ runs'[r].own \in {{}, runs[r].own}
  BY <1>3, <1>4 DEF Active
<1>7. RunsApart'
  <2>1. \A r \in Sessions : runs[r].own = {} => runs'[r].own = {}
    BY <1>3
  <2> QED
    BY <1>1, <1>6, <2>1 DEF TrailInv, RunsApart
<1>8. ApprovalRecorded'
  BY <1>3, <1>4 DEF TrailInv, ApprovalRecorded, ScheduledIn, ApprovedBefore, Active
<1>9. StateTold'
  BY <1>1, <1>3, <1>4 DEF TrailInv, StateTold, Tells, Active
<1> QED
  BY <1>2, <1>5, <1>7, <1>8, <1>9 DEF TrailInv

LEMMA RunFailsKeeps ==
    ASSUME ClockInv, TrailInv, NEW s \in Sessions, RunFails(s)
    PROVE  TrailInv'
<1>1. [ClockNext]_cvars
  BY SessionStepIsClockStep
<1>2. runs[s] \in RunRow /\ runs \in [Sessions -> RunRow]
  BY DEF TrailInv, TrailTypeOK
<1>3. runs' = [runs EXCEPT ![s] = Failing(runs[s])]
  BY <1>2 DEF RunFails, Failing
<1>4. PICK row : row = Row(runs[s], "failing", runs[s].state, runs[s].due, NoStamp, {})
  OBVIOUS
<1>5. runs' = [runs EXCEPT ![s] = row]
  BY <1>2, <1>3, <1>4, RowFailing
<1>6. runs[s].state # Rejected
  BY <1>2 DEF RunFails, Active, TrailInv, WalksAsPermitted, RunRow, Rejected, RunnableStates, TerminalStates
<1>7. /\ row \in RunRow /\ row.own = {} /\ row.stamp = NoStamp /\ row.stage = "failing"
      /\ row.state # Rejected /\ row.id = runs[s].id /\ row.entry = runs[s].entry
  BY <1>2, <1>4, <1>6 DEF Row, RunRow, Stamp, NoStamp
<1> QED
  BY <1>1, <1>5, <1>7, ForgettingKeeps DEF RunFails

LEMMA DieKeeps ==
    ASSUME ClockInv, TrailInv, NEW s \in Sessions, Die(s)
    PROVE  TrailInv'
<1>1. [ClockNext]_cvars
  BY SessionStepIsClockStep
<1>2. NoRun \in RunRow
  BY TrailAssumption, NoRunIsRow DEF TrailInv, TrailTypeOK
<1>3. NoRun.own = {} /\ NoRun.stamp = NoStamp
  BY DEF NoRun
<1> QED
  BY <1>1, <1>2, <1>3, ForgettingKeeps DEF Die
LEMMA StampFirstKeeps ==
    ASSUME ClockInv, TrailInv, NEW s \in Sessions, StampFirst(s)
    PROVE  TrailInv'
<1>0. /\ [ClockNext]_cvars /\ serial' = serial /\ asked' = asked /\ breaks' = breaks /\ Free(s)
      /\ ClockTypeOK'
  BY SessionStepIsClockStep, TellLeavesAsked, ClockInvNext DEF StampFirst, ClockInv
<1>1. PICK stamp : stamp = [seq |-> NextSequence(s), at |-> ReadTime]
  OBVIOUS
<1>2. PICK run \in RunRow : run = runs[s]
  BY DEF TrailInv, TrailTypeOK
<1>3. /\ stamp \in Stamp /\ stamp.at = ReadTime /\ \A f \in trail : f.seq < stamp.seq
  <2>1. /\ trail \cup run.own \in SUBSET EventRow /\ HasTop(trail \cup run.own)
    BY <1>2, TopOfBoth DEF TrailInv, TrailTypeOK, RunRow, TrailNumbered, OwnEventsNumbered
  <2>2. /\ TopSequence(trail \cup run.own) \in Nat
        /\ \A f \in trail \cup run.own : f.seq <= TopSequence(trail \cup run.own)
    BY <2>1, TopOf
  <2>3. PICK top \in Nat : top = TopSequence(trail \cup run.own)
    BY <2>2
  <2>4. stamp.seq = top + 1 /\ stamp.at = ReadTime
    BY <1>1, <1>2, <2>3 DEF NextSequence
  <2>5. \A f \in trail : f.seq \in Nat /\ f.seq <= top
    BY <2>1, <2>2, <2>3 DEF EventRow
  <2>6. ReadTime \in Nat
    BY NowIsAsked
  <2> QED
    BY <1>1, <2>4, <2>5, <2>6 DEF Stamp
<1>4. PICK row : row = [run EXCEPT !.stamp = stamp]
  OBVIOUS
<1>5. /\ row \in RunRow /\ row.id = run.id /\ row.stage = run.stage /\ row.entry = run.entry
      /\ row.state = run.state /\ row.own = {} /\ row.stamp = stamp
  <2>1. run.own = {}
    BY <1>2 DEF StampFirst
  <2> QED
    BY <1>3, <1>4, <2>1 DEF RunRow
<1>6. /\ runs' = [runs EXCEPT ![s] = row]
      /\ runs[s].own = {} /\ Active(s) /\ UNCHANGED <<case, trail, begun, captured>>
  BY <1>1, <1>2, <1>4 DEF StampFirst, TrailInv, TrailTypeOK
<1>7. runs'[s] = row /\ \A r \in Sessions : r # s => runs'[r] = runs[r]
  BY <1>6, RunsReplaced DEF TrailInv
<1>8. TrailTypeOK'
  <2>1. row \in RunRow' /\ begun' \in 0..RunsCap /\ begun <= begun'
    BY <1>5, <1>6, TrailAssumption DEF TrailInv, TrailTypeOK, RunRow
  <2> QED
    BY <1>0, <1>6, <2>1, RunsKeepShape DEF TrailInv
<1>9. WalksAsPermitted'
  <2>1. row.stage # "idle"
    BY <1>2, <1>5, <1>6 DEF Active
  <2> QED
    BY <1>2, <1>5, <1>6, <1>7, <2>1 DEF TrailInv, WalksAsPermitted
<1>10. \A r \in Sessions : /\ runs'[r].id = runs[r].id /\ runs'[r].stage = runs[r].stage
                           /\ runs'[r].entry = runs[r].entry /\ runs'[r].own = runs[r].own
                           /\ runs'[r].state = runs[r].state
  BY <1>2, <1>5, <1>6, <1>7
<1>11. RunsApart'
  BY <1>0, <1>6, <1>10 DEF TrailInv, RunsApart, Active
<1>12. ApprovalRecorded' /\ ExecutionWasApproved' /\ StateTold'
  BY <1>0, <1>6, <1>10 DEF TrailInv, ApprovalRecorded, ExecutionWasApproved, StateTold, ApprovedBefore,
                           ScheduledIn, Tells, Active
<1>13. TrailNumbered' /\ OwnEventsNumbered'
  <2>1. TrailNumbered'
    BY <1>0, <1>6 DEF TrailInv, TrailNumbered, HasTop, InOrder, SequencesOrderRuns
  <2>2. OwnEventsNumbered'
    BY <1>0, <1>3, <1>5, <1>6, <1>7, <1>10 DEF TrailInv, OwnEventsNumbered, HasTop, InOrder
  <2> QED
    BY <2>1, <2>2
<1>14. SerialTimes' /\ TrailOldestFirst'
  <2>1. TrailOldestFirst'
    BY <1>0, <1>6 DEF TrailInv, TrailOldestFirst
  <2>2. ASSUME serial, breaks = 0
        PROVE  stamp.at <= Start + asked /\ \A e \in trail : e.at <= stamp.at
    <3>1. ReadTime = Start + asked
      BY <1>0, <2>2, NowIsAsked
    <3>2. ReadTime <= Start + asked /\ \A e \in trail : e.at <= Start + asked
      BY <2>2, NowIsAsked DEF TrailInv, SerialTimes, AtMostNow
    <3> QED
      BY <1>3, <3>1, <3>2
  <2>3. SerialTimes'
    BY <1>0, <1>5, <1>6, <1>7, <1>10, <2>2 DEF TrailInv, SerialTimes, AtMostNow
  <2> QED
    BY <2>1, <2>3
<1> QED
  BY <1>8, <1>9, <1>11, <1>12, <1>13, <1>14 DEF TrailInv
(***************************************************************************)
(* The events a stage adds to those its run has flushed.                   *)
(***************************************************************************)
LEMMA NewEventIs ==
    ASSUME ClockInv, TrailInv, NEW s \in Sessions, Active(s), NEW kinds \in Seq(AuditEventType)
    PROVE  \A i \in 1..Len(kinds) :
             LET e == NewEvent(s, kinds, i) IN
             /\ e \in EventRow /\ e.run = runs[s].id /\ e.n = Cardinality(runs[s].own) + i
             /\ e.kind = kinds[i] /\ e.seq = SequenceOf(s, i) /\ e.at = TimeOf(s, i)
<1> SUFFICES ASSUME NEW i \in 1..Len(kinds)
             PROVE  LET e == NewEvent(s, kinds, i) IN
                    /\ e \in EventRow /\ e.run = runs[s].id /\ e.n = Cardinality(runs[s].own) + i
                    /\ e.kind = kinds[i] /\ e.seq = SequenceOf(s, i) /\ e.at = TimeOf(s, i)
  OBVIOUS
<1>1. i \in Nat \ {0}
  BY LenProperties
<1>2. runs[s].id \in Nat /\ Cardinality(runs[s].own) \in Nat
  <2>1. IsFiniteSet(runs[s].own) /\ runs[s] \in RunRow
    BY DEF TrailInv, TrailTypeOK, OwnEventsNumbered
  <2> QED
    BY <2>1, FS_CardinalityType DEF RunRow
<1>3. SequenceOf(s, i) \in Nat
  BY <1>1, SequencesRise
<1>4. TimeOf(s, i) \in Nat
  <2>1. runs[s].stamp.at \in Nat
    BY DEF TrailInv, TrailTypeOK, RunRow, Stamp
  <2> QED
    BY <2>1, NowIsAsked DEF TimeOf
<1>5. kinds[i] \in AuditEventType
  BY ElementOfSeq
<1>6. PICK n, seq, at, kind, run : /\ n = Cardinality(runs[s].own) + i /\ seq = SequenceOf(s, i)
                                   /\ at = TimeOf(s, i) /\ kind = kinds[i] /\ run = runs[s].id
  OBVIOUS
<1>7. n \in Nat
  BY <1>1, <1>2, <1>6
<1>8. NewEvent(s, kinds, i) = [run |-> run, n |-> n, kind |-> kind, seq |-> seq, at |-> at]
  BY <1>6 DEF NewEvent, Event
<1> QED
  BY <1>2, <1>3, <1>4, <1>5, <1>6, <1>7, <1>8 DEF EventRow

\* The count of a run's events grows by those of the stage.
LEMMA OwnEventsCounted ==
    ASSUME ClockInv, TrailInv, NEW s \in Sessions, Active(s), NEW kinds \in Seq(AuditEventType)
    PROVE  LET own == runs[s].own
               all == own \cup NewEvents(s, kinds)
           IN  /\ IsFiniteSet(all) /\ Cardinality(own) \in Nat /\ Len(kinds) \in Nat
               /\ Cardinality(all) = Cardinality(own) + Len(kinds)
<1> DEFINE own == runs[s].own
           new == NewEvents(s, kinds)
           k   == Len(kinds)
           n   == Cardinality(own)
<1>1. k \in Nat /\ IsFiniteSet(own) /\ n \in Nat /\ \A e \in own : e.n \in 1..n
  BY LenProperties, FS_CardinalityType DEF TrailInv, OwnEventsNumbered
<1>2. new = {NewEvent(s, kinds, i) : i \in 1..k}
  BY NewEventsAre
<1>3. \A i \in 1..k : NewEvent(s, kinds, i).n = n + i
  BY NewEventIs
<1> HIDE DEF own, new, k, n
<1>4. own \cap new = {}
  BY <1>1, <1>2, <1>3
<1> DEFINE place == [i \in 1..k |-> NewEvent(s, kinds, i)]
<1>5. place \in Surjection(1..k, new)
  BY <1>2 DEF Surjection
<1>6. place \in Injection(1..k, new)
  <2>1. place \in [1..k -> new] /\ DOMAIN place = 1..k
    BY <1>2
  <2>2. \A i, j \in 1..k : place[i] = place[j] => i = j
    BY <1>1, <1>3
  <2> QED
    BY <2>1, <2>2 DEF Injection, IsInjective
<1> HIDE DEF place
<1>7. IsFiniteSet(1..k) /\ Cardinality(1..k) = k
  BY <1>1, FS_Interval
<1>8. IsFiniteSet(new) /\ Cardinality(new) = k
  BY <1>5, <1>6, <1>7, FS_Surjection
<1>9. IsFiniteSet(own \cup new) /\ Cardinality(own \cup new) = n + k - Cardinality(own \cap new)
  BY <1>1, <1>8, FS_Union DEF n
<1>10. Cardinality(own \cap new) = 0
  BY <1>4, FS_EmptySet
<1>11. Cardinality(own \cup new) = n + k
  BY <1>1, <1>9, <1>10
<1> QED
  BY <1>1, <1>9, <1>11 DEF own, new, k, n

\* The events stay in order, above the trail but for a first one that took its
\* sequence before the run waited for the case.
LEMMA OwnEventsGrow ==
    ASSUME ClockInv, TrailInv, NEW s \in Sessions, Active(s), NEW kinds \in Seq(AuditEventType),
           Len(kinds) # 0, runs[s].own = {} => runs[s].stamp # NoStamp
    PROVE  LET own == runs[s].own
               all == own \cup NewEvents(s, kinds)
           IN  /\ all \in SUBSET EventRow /\ NewEvents(s, kinds) # {}
               /\ HasTop(all) /\ InOrder(all)
               /\ \A e \in all : e.run = runs[s].id /\ e.n \in 1..Cardinality(all)
               /\ \A e \in all, f \in trail : (serial \/ e.n # 1) => f.seq < e.seq
               /\ \A e \in all : e.seq <= NewEvent(s, kinds, Len(kinds)).seq
<1> DEFINE own == runs[s].own
           new == NewEvents(s, kinds)
           k   == Len(kinds)
           n   == Cardinality(own)
           ev(i) == NewEvent(s, kinds, i)
<1>1. /\ k \in Nat \ {0} /\ n \in Nat /\ IsFiniteSet(own \cup new) /\ Cardinality(own \cup new) = n + k
      /\ own = {} => n = 0
  BY OwnEventsCounted, FS_EmptySet
<1>2. /\ own \in SUBSET EventRow /\ InOrder(own)
      /\ \A e \in own : e.run = runs[s].id /\ e.n \in 1..n
      /\ \A e \in own, f \in trail : (serial \/ e.n # 1) => f.seq < e.seq
  BY DEF TrailInv, TrailTypeOK, RunRow, OwnEventsNumbered
<1>3. new = {ev(i) : i \in 1..k}
  BY NewEventsAre
<1>4. \A i \in 1..k : /\ ev(i) \in EventRow /\ ev(i).run = runs[s].id /\ ev(i).n = n + i
                      /\ ev(i).seq = SequenceOf(s, i) /\ i \in Nat \ {0}
  BY <1>1, NewEventIs
<1>5. /\ \A i \in Nat \ {0} : SequenceOf(s, i) \in Nat
      /\ \A i, j \in Nat \ {0} : i < j => SequenceOf(s, i) < SequenceOf(s, j)
      /\ \A e \in own, i \in Nat \ {0} : e.seq < SequenceOf(s, i)
      /\ \A f \in trail, i \in Nat \ {0} : i # 1 \/ own # {} => f.seq < SequenceOf(s, i)
      /\ serial => \A f \in trail, i \in Nat \ {0} : f.seq < SequenceOf(s, i)
  BY SequencesRise
<1> HIDE DEF own, new, k, n, ev
<1>6. own \cup new \in SUBSET EventRow /\ new # {}
  BY <1>1, <1>2, <1>3, <1>4
<1>7. \A e \in own \cup new : e.run = runs[s].id /\ e.n \in 1..n + k
  BY <1>1, <1>2, <1>3, <1>4
<1>8. HasTop(own \cup new) /\ \A e \in own \cup new : e.seq <= ev(k).seq
  <2>1. PICK top \in Nat : top = SequenceOf(s, k)
    BY <1>1, <1>5
  <2>2. ev(k) \in new /\ ev(k).seq = top
    BY <1>1, <1>3, <1>4, <2>1
  <2>3. \A e \in own : e.seq <= top
    <3>1. \A e \in own : e.seq \in Nat
      BY <1>2 DEF EventRow
    <3> QED
      BY <1>1, <1>5, <2>1, <3>1
  <2>4. ASSUME NEW i \in 1..k PROVE SequenceOf(s, i) <= top
    <3>1. i \in Nat \ {0} /\ k \in Nat \ {0} /\ (i = k \/ i < k)
      BY <1>1
    <3>2. SequenceOf(s, i) \in Nat /\ (SequenceOf(s, i) = top \/ SequenceOf(s, i) < top)
      BY <1>5, <2>1, <3>1
    <3> QED
      BY <2>1, <3>2
  <2>5. \A e \in new : e.seq <= top
    BY <1>3, <1>4, <2>4
  <2> QED
    BY <2>2, <2>3, <2>5 DEF HasTop
<1>9. InOrder(own \cup new)
  <2> SUFFICES ASSUME NEW e \in own \cup new, NEW f \in own \cup new
               PROVE  /\ e.n < f.n => e.seq < f.seq
                      /\ e.n = f.n => e = f
    BY DEF InOrder
  <2>1. CASE e \in own /\ f \in own
    BY <1>2, <2>1 DEF InOrder
  <2>2. CASE e \in own /\ f \in new
    <3>1. PICK i \in 1..k : f = ev(i)
      BY <1>3, <2>2
    <3>2. f.n = n + i /\ f.seq = SequenceOf(s, i) /\ i \in Nat \ {0}
      BY <1>4, <3>1
    <3>3. e.n \in 1..n /\ e.seq < f.seq
      BY <1>2, <1>5, <2>2, <3>2
    <3> QED
      BY <1>1, <3>2, <3>3
  <2>3. CASE e \in new /\ f \in own
    <3>1. PICK i \in 1..k : e = ev(i)
      BY <1>3, <2>3
    <3>2. e.n = n + i /\ i \in Nat \ {0} /\ f.n \in 1..n
      BY <1>2, <1>4, <2>3, <3>1
    <3> QED
      BY <1>1, <3>2
  <2>4. CASE e \in new /\ f \in new
    <3>1. PICK i \in 1..k, j \in 1..k : e = ev(i) /\ f = ev(j)
      BY <1>3, <2>4
    <3>2. /\ e.n = n + i /\ f.n = n + j /\ i \in Nat \ {0} /\ j \in Nat \ {0}
          /\ e.seq = SequenceOf(s, i) /\ f.seq = SequenceOf(s, j)
      BY <1>4, <3>1
    <3>3. e.n < f.n => i < j
      BY <1>1, <3>2
    <3>4. e.n = f.n => i = j
      BY <1>1, <3>2
    <3> QED
      BY <1>5, <3>1, <3>2, <3>3, <3>4
  <2> QED
    BY <2>1, <2>2, <2>3, <2>4
<1>10. ASSUME NEW e \in own \cup new, NEW f \in trail, serial \/ e.n # 1
       PROVE  f.seq < e.seq
  <2>1. CASE e \in own
    BY <1>2, <1>10, <2>1
  <2>2. CASE e \in new
    <3>1. PICK i \in 1..k : e = ev(i)
      BY <1>3, <2>2
    <3>2. e.n = n + i /\ i \in Nat \ {0} /\ e.seq = SequenceOf(s, i)
      BY <1>4, <3>1
    <3>3. CASE serial
      BY <1>5, <3>2, <3>3
    <3>4. CASE e.n # 1
      <4>1. i # 1 \/ own # {}
        BY <1>1, <3>2, <3>4
      <4> QED
        BY <1>5, <3>2, <4>1
    <3> QED
      BY <1>10, <3>3, <3>4
  <2> QED
    BY <2>1, <2>2
<1> QED
  BY <1>1, <1>6, <1>7, <1>8, <1>9, <1>10 DEF own, new, k, ev
\* In serial runs the new events are at least as late as all before them.
LEMMA NewTimesRise ==
    ASSUME ClockInv, TrailInv, NEW s \in Sessions, Active(s), Free(s), serial, breaks = 0,
           NEW kinds \in Seq(AuditEventType), runs[s].own = {} => runs[s].stamp # NoStamp
    PROVE  LET all == runs[s].own \cup NewEvents(s, kinds)
           IN  /\ \A e \in all : e.at <= Start + asked /\ \A f \in trail : f.at <= e.at
               /\ \A e, f \in all : e.seq < f.seq => e.at <= f.at
<1> DEFINE own == runs[s].own
           new == NewEvents(s, kinds)
           ev(i) == NewEvent(s, kinds, i)
           k   == Len(kinds)
<1>0. k \in Nat
  BY LenProperties
<1>1. new = {ev(i) : i \in 1..k}
  BY NewEventsAre
<1>2. \A i \in 1..k : /\ i \in Nat \ {0} /\ ev(i).seq = SequenceOf(s, i) /\ ev(i).at = TimeOf(s, i)
  BY <1>0, NewEventIs
<1>3. /\ \A i \in Nat \ {0} : SequenceOf(s, i) \in Nat
      /\ \A i, j \in Nat \ {0} : i < j => SequenceOf(s, i) < SequenceOf(s, j)
      /\ \A e \in own, i \in Nat \ {0} : e.seq < SequenceOf(s, i)
  BY SequencesRise
<1>4. PICK now \in Nat : now = Start + asked /\ now = ReadTime
  BY NowIsAsked
<1>5. PICK stamped \in Nat : stamped = runs[s].stamp.at
  BY DEF TrailInv, TrailTypeOK, RunRow, Stamp
<1>6. /\ \A e \in trail : e.at \in Nat /\ e.at <= now
      /\ \A e \in own : e.at \in Nat /\ e.at <= now /\ \A f \in trail : f.at <= e.at
      /\ \A e, f \in own : e.seq < f.seq => e.at <= f.at
      /\ stamped <= now
      /\ own = {} => \A e \in trail : e.at <= stamped
      /\ \A e \in own : e.seq \in Nat
  BY <1>4, <1>5 DEF TrailInv, TrailTypeOK, SerialTimes, AtMostNow, RunRow, EventRow
<1>7. \A i \in 1..k : ev(i).at = IF i = 1 /\ own = {} THEN stamped ELSE now
  BY <1>2, <1>4, <1>5 DEF TimeOf
<1>8. Start + asked = now
  BY <1>4
<1> HIDE DEF own, new, ev, k
<1>9. ASSUME NEW e \in own \cup new
      PROVE  e.at <= now /\ \A f \in trail : f.at <= e.at
  <2>1. CASE e \in own
    BY <1>6, <2>1
  <2>2. CASE e \in new
    <3>1. PICK i \in 1..k : e = ev(i)
      BY <1>1, <2>2
    <3> QED
      BY <1>6, <1>7, <3>1
  <2> QED
    BY <2>1, <2>2
<1>10. ASSUME NEW e \in own \cup new, NEW f \in own \cup new, e.seq < f.seq
       PROVE  e.at <= f.at
  <2>1. CASE e \in own /\ f \in own
    BY <1>6, <1>10, <2>1
  <2>2. CASE e \in own /\ f \in new
    <3>1. PICK i \in 1..k : f = ev(i)
      BY <1>1, <2>2
    <3>2. f.at = now
      BY <1>7, <2>2, <3>1
    <3> QED
      BY <1>6, <2>2, <3>2
  <2>3. CASE e \in new /\ f \in own
    <3>1. PICK i \in 1..k : e = ev(i)
      BY <1>1, <2>3
    <3>2. f.seq < e.seq /\ f.seq \in Nat /\ e.seq \in Nat
      BY <1>2, <1>3, <1>6, <2>3, <3>1
    <3> QED
      BY <1>10, <3>2
  <2>4. CASE e \in new /\ f \in new
    <3>1. PICK i \in 1..k, j \in 1..k : e = ev(i) /\ f = ev(j)
      BY <1>1, <2>4
    <3>2. /\ i \in Nat \ {0} /\ j \in Nat \ {0}
          /\ e.seq = SequenceOf(s, i) /\ f.seq = SequenceOf(s, j)
          /\ e.seq \in Nat /\ f.seq \in Nat
      BY <1>2, <1>3, <3>1
    <3>3. i < j
      <4>1. CASE i = j
        BY <1>10, <3>2, <4>1
      <4>2. CASE j < i
        <5>1. f.seq < e.seq
          BY <1>3, <3>2, <4>2
        <5> QED
          BY <1>10, <3>2, <5>1
      <4> QED
        BY <3>2, <4>1, <4>2
    <3>4. f.at = now
      BY <1>7, <3>1, <3>2, <3>3
    <3>5. e.at <= now
      BY <1>9
    <3> QED
      BY <3>4, <3>5
  <2> QED
    BY <2>1, <2>2, <2>3, <2>4
<1> QED
  BY <1>8, <1>9, <1>10 DEF own, new
LEMMA FlushKeeps ==
    ASSUME ClockInv, TrailInv, [ClockNext]_cvars, NEW s \in Sessions, NEW kinds, NEW state, NEW next,
           Flush(s, kinds, state, next), Records(runs[s].stage, kinds, state, next)
    PROVE  TrailInv'
<1>0. /\ serial' = serial /\ asked' = asked /\ breaks' = breaks /\ Free(s) /\ ClockTypeOK'
      /\ UNCHANGED <<case, trail, begun, captured>>
      /\ runs[s].own = {} => runs[s].stamp # NoStamp
      /\ \A r \in Sessions \ {s} : runs[r].own = {}
  BY TellLeavesAsked, ClockInvNext DEF Flush, ClockInv, LockFreeFor
<1>1. /\ kinds \in Seq(AuditEventType) /\ Len(kinds) \in Nat \ {0} /\ Active(s)
      /\ runs[s].stage \in {"decide", "gate", "execute"} /\ next \in {"gate", "execute", "commit"}
      /\ state \in RunnableStates \cup TerminalStates \cup {"POLICY_CHECK", "APPROVED"}
      /\ Len(kinds) # 0
  BY DEF Records, Active
<1>2. PICK run \in RunRow : run = runs[s]
  BY DEF TrailInv, TrailTypeOK
<1>3. PICK own, all : own = run.own /\ all = run.own \cup NewEvents(s, kinds)
  OBVIOUS
<1>4. PICK due \in Nat : runs' = [runs EXCEPT ![s] = Row(run, next, state, due, NoStamp, all)]
  BY <1>2, <1>3 DEF Flush
<1>5. PICK row : row = Row(run, next, state, due, NoStamp, all)
  OBVIOUS
<1>6. /\ all \in SUBSET EventRow /\ own \subseteq all /\ all # {}
      /\ HasTop(all) /\ InOrder(all) /\ IsFiniteSet(all)
      /\ \A e \in all : e.run = run.id /\ e.n \in 1..Cardinality(all)
      /\ \A e \in all, f \in trail : (serial \/ e.n # 1) => f.seq < e.seq
      /\ \A e \in all : e.seq <= NewEvent(s, kinds, Len(kinds)).seq
  <2> DEFINE grown == runs[s].own \cup NewEvents(s, kinds)
  <2>1. IsFiniteSet(grown)
    BY <1>1, OwnEventsCounted
  <2>2. /\ grown \in SUBSET EventRow /\ NewEvents(s, kinds) # {}
        /\ HasTop(grown) /\ InOrder(grown)
        /\ \A e \in grown : e.run = runs[s].id /\ e.n \in 1..Cardinality(grown)
        /\ \A e \in grown, f \in trail : (serial \/ e.n # 1) => f.seq < e.seq
        /\ \A e \in grown : e.seq <= NewEvent(s, kinds, Len(kinds)).seq
    BY <1>0, <1>1, OwnEventsGrow
  <2>3. all = grown /\ own = runs[s].own /\ run.id = runs[s].id
    BY <1>2, <1>3
  <2>4. grown # {} /\ own \subseteq grown
    BY <2>2, <2>3
  <2> HIDE DEF grown
  <2> QED
    BY <2>1, <2>2, <2>3, <2>4
<1>7. /\ row \in RunRow /\ row.id = run.id /\ row.stage = next /\ row.entry = run.entry
      /\ row.state = state /\ row.own = all /\ row.stamp = NoStamp
  <2>1. state \in CaseState
    BY <1>1 DEF RunnableStates, TerminalStates, CaseState
  <2> QED
    BY <1>1, <1>5, <1>6, <2>1 DEF Row, RunRow, Stamp, NoStamp
<1>8. runs' = [runs EXCEPT ![s] = row]
  BY <1>4, <1>5
<1>9. /\ runs'[s] = row /\ \A r \in Sessions : r # s => runs'[r] = runs[r]
      /\ \A r \in Sessions : r # s => runs[r].own = {}
  BY <1>0, <1>8, RunsReplaced DEF TrailInv
<1>10. TrailTypeOK'
  <2>1. row \in RunRow' /\ begun' \in 0..RunsCap /\ begun <= begun'
    BY <1>0, <1>7, TrailAssumption DEF TrailInv, TrailTypeOK, RunRow
  <2> QED
    BY <1>0, <1>8, <2>1, RunsKeepShape DEF TrailInv
<1>11. WalksAsPermitted'
  <2>1. /\ next = "gate" => state = "POLICY_CHECK" /\ runs[s].stage = "decide"
        /\ next = "execute" => state = "APPROVED" /\ runs[s].stage = "gate"
        /\ next = "commit" => state \in RunnableStates \cup TerminalStates
    BY DEF Records
  <2>2. next \in {"gate", "execute"} => run.entry # "SCHEDULED"
    BY <1>2, <2>1 DEF TrailInv, WalksAsPermitted
  <2>3. case'.state \in RunnableStates \cup TerminalStates
    BY <1>0 DEF TrailInv, WalksAsPermitted
  <2> QED
    BY <1>1, <1>6, <1>7, <1>9, <2>1, <2>2, <2>3 DEF TrailInv, WalksAsPermitted
<1>12. RunsApart'
  <2>1. \A r \in Sessions : (Active(r)' <=> Active(r)) /\ runs'[r].id = runs[r].id
    BY <1>1, <1>2, <1>7, <1>9 DEF Active
  <2>2. \A r, q \in Sessions : r # q /\ runs'[r].own # {} => runs'[q].own = {}
    BY <1>9
  <2> QED
    BY <1>0, <2>1, <2>2 DEF TrailInv, RunsApart
<1>13. TrailNumbered' /\ OwnEventsNumbered'
  <2>1. TrailNumbered'
    BY <1>0 DEF TrailInv, TrailNumbered, HasTop, InOrder, SequencesOrderRuns
  <2>2. OwnEventsNumbered'
    BY <1>0, <1>6, <1>7, <1>9 DEF TrailInv, OwnEventsNumbered, HasTop, InOrder
  <2> QED
    BY <2>1, <2>2
<1>14. SerialTimes' /\ TrailOldestFirst'
  <2>1. TrailOldestFirst'
    BY <1>0 DEF TrailInv, TrailOldestFirst
  <2>2. ASSUME serial, breaks = 0
        PROVE  /\ \A e \in all : e.at <= Start + asked /\ \A f \in trail : f.at <= e.at
               /\ \A e, f \in all : e.seq < f.seq => e.at <= f.at
    BY <1>0, <1>1, <1>2, <1>3, <2>2, NewTimesRise
  <2>3. NoStamp.at <= Start + asked
    BY SumNotNegative, NowIsAsked DEF NoStamp
  <2>4. SerialTimes'
    BY <1>0, <1>7, <1>9, <2>2, <2>3 DEF TrailInv, SerialTimes, AtMostNow
  <2> QED
    BY <2>1, <2>4
<1>15. \A i \in 1..Len(kinds) : /\ NewEvent(s, kinds, i) \in all
                                /\ NewEvent(s, kinds, i).kind = kinds[i]
                                /\ NewEvent(s, kinds, i).run = run.id
                                /\ NewEvent(s, kinds, i).seq = SequenceOf(s, i)
                                /\ i \in Nat \ {0}
  BY <1>1, <1>2, <1>3, NewEventIs, NewEventsAre
<1>16. ApprovalRecorded'
  <2>1. case'.state = "SCHEDULED" => ScheduledIn(trail)
    BY <1>0 DEF TrailInv, ApprovalRecorded
  <2>2. run.entry = "SCHEDULED" => ScheduledIn(trail)
    BY <1>1, <1>2 DEF TrailInv, ApprovalRecorded
  <2>3. next = "execute" => \E f \in all : f.kind = "POLICY_APPROVED"
    BY <1>15 DEF Records
  <2>4. next = "commit" /\ state = "SCHEDULED" => ScheduledIn(all)
    BY <1>15 DEF Records, ScheduledIn
  <2>5. ASSUME NEW e \in all, e.kind = "OUTCOME_VERIFIED"
        PROVE  \/ ApprovedBefore(e, all)
               \/ \E f \in trail : f.seq < e.seq /\ f.kind = "ACTION_SCHEDULED"
    <3>1. CASE e \in own
      <4>1. \/ ApprovedBefore(e, own)
            \/ \E f \in trail : f.seq < e.seq /\ f.kind = "ACTION_SCHEDULED"
        BY <1>2, <1>3, <2>5, <3>1 DEF TrailInv, ApprovalRecorded
      <4>2. ApprovedBefore(e, own) => ApprovedBefore(e, all)
        BY <1>6 DEF ApprovedBefore
      <4> QED
        BY <4>1, <4>2
    <3>2. CASE e \notin own
      <4>1. PICK i \in 1..Len(kinds) : e = NewEvent(s, kinds, i)
        BY <1>1, <1>3, <3>2, NewEventsAre
      <4>2. kinds[i] = "OUTCOME_VERIFIED" /\ e.seq = SequenceOf(s, i) /\ i \in Nat \ {0} /\ e.run = run.id
        BY <1>15, <2>5, <4>1
      <4>3. i # 1 /\ runs[s].stage = "execute"
        BY <4>2 DEF Records
      <4>4. /\ \A f \in own : f.seq < e.seq
            /\ \A f \in trail : f.seq < e.seq
        BY <1>2, <1>3, <4>2, <4>3, SequencesRise
      <4>5. CASE run.entry = "SCHEDULED"
        BY <2>2, <4>4, <4>5 DEF ScheduledIn
      <4>6. CASE run.entry # "SCHEDULED"
        <5>1. PICK f \in own : f.kind = "POLICY_APPROVED"
          BY <1>2, <1>3, <4>3, <4>6 DEF TrailInv, ApprovalRecorded
        <5>2. f \in all /\ f.run = e.run /\ f.seq < e.seq
          BY <1>6, <4>2, <4>4
        <5> QED
          BY <5>1, <5>2 DEF ApprovedBefore
      <4> QED
        BY <4>5, <4>6
    <3> QED
      BY <3>1, <3>2
  <2>6. ASSUME NEW r \in Sessions
        PROVE  LET one == runs'[r] IN
               /\ Active(r)' /\ one.entry = "SCHEDULED" => ScheduledIn(trail)
               /\ one.stage = "execute" /\ one.entry # "SCHEDULED" =>
                    \E f \in one.own : f.kind = "POLICY_APPROVED"
               /\ one.stage = "commit" /\ one.state = "SCHEDULED" => ScheduledIn(one.own)
               /\ \A e \in one.own : e.kind = "OUTCOME_VERIFIED" =>
                    \/ ApprovedBefore(e, one.own)
                    \/ \E f \in trail : f.seq < e.seq /\ f.kind = "ACTION_SCHEDULED"
    <3>1. CASE r = s
      BY <1>7, <1>9, <2>2, <2>3, <2>4, <2>5, <3>1
    <3>2. CASE r # s
      BY <1>9, <3>2 DEF TrailInv, ApprovalRecorded, Active
    <3> QED
      BY <3>1, <3>2
  <2> QED
    BY <1>0, <2>1, <2>6 DEF ApprovalRecorded, ScheduledIn, ApprovedBefore
<1>17. ExecutionWasApproved'
  BY <1>0 DEF TrailInv, ExecutionWasApproved
<1>18. StateTold'
  <2>1. serial /\ ~captured => Tells(trail, case.state)
    BY DEF TrailInv, StateTold
  <2>2. next = "commit" => Tells(all, state)
    <3>1. next = "commit" => Told(kinds[Len(kinds)], state)
      BY DEF Records
    <3>2. PICK last : last = NewEvent(s, kinds, Len(kinds))
      OBVIOUS
    <3>3. /\ last \in all /\ last.kind = kinds[Len(kinds)]
          /\ \A e \in all : e.seq <= last.seq
      BY <1>1, <1>6, <1>15, <3>2
    <3> QED
      BY <3>1, <3>3 DEF Tells, Told
  <2>3. \A r \in Sessions : /\ Active(r)' <=> Active(r)
                            /\ runs'[r].entry = runs[r].entry
    BY <1>1, <1>2, <1>7, <1>9 DEF Active
  <2>4. \A r \in Sessions : runs'[r].stage = "commit" => Tells(runs'[r].own, runs'[r].state)
    BY <1>7, <1>9, <2>2 DEF TrailInv, StateTold
  <2>5. \A r \in Sessions : serial /\ Active(r) => runs[r].entry = case.state
    BY DEF TrailInv, StateTold
  <2> QED
    BY <1>0, <2>1, <2>3, <2>4, <2>5 DEF StateTold, Tells
<1> QED
  BY <1>10, <1>11, <1>12, <1>13, <1>14, <1>16, <1>17, <1>18 DEF TrailInv

(***************************************************************************)
(* Steps that add a run's events to the trail and end the run.             *)
(***************************************************************************)
\* What the events of one run must be for the trail to take them.
Joinable(s, new) ==
    /\ new \in SUBSET EventRow /\ HasTop(new) /\ InOrder(new)
    /\ \A e \in new : e.run = runs[s].id
    /\ \A e \in new, f \in trail : (serial \/ e.n # 1) => f.seq < e.seq
    /\ serial /\ breaks = 0 =>
         /\ \A e \in new : AtMostNow(e.at) /\ \A f \in trail : f.at <= e.at
         /\ \A e, f \in new : e.seq < f.seq => e.at <= f.at
    /\ \A e \in new : e.kind = "OUTCOME_VERIFIED" =>
         \/ ApprovedBefore(e, new)
         \/ \E f \in trail : f.seq < e.seq /\ f.kind = "ACTION_SCHEDULED"

LEMMA TrailTakes ==
    ASSUME TrailInv, NEW s \in Sessions, Active(s), NEW new, Joinable(s, new), trail' = trail \cup new,
           UNCHANGED <<cvars, begun>>
    PROVE  /\ TrailNumbered' /\ TrailOldestFirst' /\ ExecutionWasApproved'
           /\ trail' \in SUBSET EventRow /\ \A e \in trail' : e.run <= begun
<1>0. /\ serial' = serial /\ breaks' = breaks
      /\ trail \in SUBSET EventRow /\ new \in SUBSET EventRow
      /\ \A e \in trail : e.run # runs[s].id /\ e.run <= begun
      /\ \A e \in new : e.run = runs[s].id
      /\ runs[s].id \in 1..begun /\ begun \in Nat
      /\ \A e \in trail \cup new : e.seq \in Nat /\ e.n \in Nat /\ e.run \in Nat /\ e.at \in Nat
  BY TrailAssumption DEF cvars, Joinable, TrailInv, TrailTypeOK, RunsApart, EventRow
<1>1. \A e \in new, f \in trail : (serial \/ e.n # 1) => f.seq < e.seq
  BY DEF Joinable
<1>2. InOrder(trail) /\ InOrder(new) /\ SequencesOrderRuns
  BY DEF Joinable, TrailInv, TrailNumbered
<1>3. ASSUME NEW e \in trail \cup new, NEW f \in trail \cup new, e.run = f.run
      PROVE  (e \in trail /\ f \in trail) \/ (e \in new /\ f \in new)
  <2>1. \A g \in trail, h \in new : g.run # h.run
    BY <1>0
  <2> QED
    BY <1>3, <2>1
<1>4. InOrder(trail \cup new)
  BY <1>2, <1>3 DEF InOrder
<1>5. HasTop(trail \cup new)
  BY <1>0, TopOfBoth DEF Joinable, TrailInv, TrailNumbered
<1>6. ASSUME NEW e \in trail \cup new, NEW f \in trail \cup new, e # f, e.seq = f.seq
      PROVE  ~serial /\ e.run # f.run /\ 1 \in {e.n, f.n}
  <2>1. CASE e \in trail /\ f \in trail
    BY <1>2, <1>6, <2>1 DEF SequencesOrderRuns
  <2>2. CASE e \in trail /\ f \in new
    <3>1. ~(serial \/ f.n # 1)
      BY <1>0, <1>1, <1>6, <2>2
    <3> QED
      BY <1>0, <2>2, <3>1
  <2>3. CASE e \in new /\ f \in trail
    <3>1. ~(serial \/ e.n # 1)
      BY <1>0, <1>1, <1>6, <2>3
    <3> QED
      BY <1>0, <2>3, <3>1
  <2>4. CASE e \in new /\ f \in new
    <3>1. e.run = f.run /\ e.n # f.n /\ (e.n < f.n \/ f.n < e.n)
      BY <1>0, <1>2, <1>6, <2>4 DEF InOrder
    <3>2. e.seq < f.seq \/ f.seq < e.seq
      BY <1>2, <2>4, <3>1 DEF InOrder
    <3> QED
      BY <1>0, <1>6, <3>2
  <2> QED
    BY <2>1, <2>2, <2>3, <2>4
<1>7. TrailNumbered'
  <2>1. SequencesOrderRuns'
    BY <1>0, <1>4, <1>6 DEF SequencesOrderRuns, InOrder
  <2> QED
    BY <1>4, <1>5, <2>1 DEF TrailNumbered, HasTop, InOrder
<1>8. TrailOldestFirst'
  <2> SUFFICES ASSUME serial, breaks = 0, NEW e \in trail \cup new, NEW f \in trail \cup new, e.seq < f.seq
               PROVE  e.at <= f.at
    BY <1>0 DEF TrailOldestFirst
  <2>1. CASE e \in trail /\ f \in trail
    BY <2>1 DEF TrailInv, TrailOldestFirst
  <2>2. CASE e \in trail /\ f \in new
    BY <2>2 DEF Joinable
  <2>3. CASE e \in new /\ f \in trail
    BY <1>0, <1>1, <2>3
  <2>4. CASE e \in new /\ f \in new
    BY <2>4 DEF Joinable
  <2> QED
    BY <2>1, <2>2, <2>3, <2>4
<1>9. ExecutionWasApproved'
  <2> SUFFICES ASSUME NEW e \in trail \cup new, e.kind = "OUTCOME_VERIFIED"
               PROVE  \E f \in trail \cup new :
                        /\ f.seq < e.seq
                        /\ \/ f.kind = "POLICY_APPROVED" /\ f.run = e.run
                           \/ f.kind = "ACTION_SCHEDULED" /\ f.run # e.run
    BY DEF ExecutionWasApproved
  <2>1. CASE e \in trail
    BY <2>1 DEF TrailInv, ExecutionWasApproved
  <2>2. CASE e \in new
    <3>1. \/ ApprovedBefore(e, new)
          \/ \E f \in trail : f.seq < e.seq /\ f.kind = "ACTION_SCHEDULED"
      BY <2>2 DEF Joinable
    <3>2. \A f \in trail : f.run # e.run
      BY <1>0, <2>2
    <3> QED
      BY <3>1, <3>2 DEF ApprovedBefore
  <2> QED
    BY <2>1, <2>2
<1> QED
  BY <1>0, <1>7, <1>8, <1>9

LEMMA EndingKeeps ==
    ASSUME ClockInv, TrailInv, NEW s \in Sessions, Active(s), NEW new, Joinable(s, new),
           \A r \in Sessions \ {s} : runs[r].own = {},
           case' \in [state : RunnableStates \cup TerminalStates, due : Nat],
           case'.state = "SCHEDULED" => ScheduledIn(trail \cup new),
           serial /\ ~captured => Tells(trail \cup new, case'.state),
           trail' = trail \cup new, runs' = [runs EXCEPT ![s] = NoRun], UNCHANGED <<cvars, begun, captured>>
    PROVE  TrailInv'
<1>0. serial' = serial /\ breaks' = breaks /\ asked' = asked /\ ClockTypeOK'
  BY DEF cvars, TrailInv, TrailTypeOK, ClockTypeOK
<1>1. /\ TrailNumbered' /\ TrailOldestFirst' /\ ExecutionWasApproved'
      /\ trail' \in SUBSET EventRow /\ \A e \in trail' : e.run <= begun
  BY TrailTakes
<1>2. /\ runs'[s] = NoRun /\ \A r \in Sessions : r # s => runs'[r] = runs[r] /\ runs[r].own = {}
      /\ \A r \in Sessions : runs[r] \in RunRow
  BY RunsReplaced DEF TrailInv
<1>3. NoRun.stage = "idle" /\ NoRun.own = {} /\ NoRun.stamp = NoStamp /\ NoStamp.at = 0
  BY DEF NoRun, NoStamp
<1>4. /\ \A r \in Sessions : runs'[r].own = {}
      /\ serial => \A r \in Sessions : runs'[r] = NoRun
  <2>1. \A r \in Sessions : r # s /\ serial => ~Active(r)
    BY DEF TrailInv, RunsApart
  <2>2. \A r \in Sessions : ~Active(r) => runs[r] = NoRun
    BY DEF Active, TrailInv, WalksAsPermitted
  <2> QED
    BY <1>2, <1>3, <2>1, <2>2
<1>5. TrailTypeOK'
  <2>1. NoRun \in RunRow' /\ RunRow' = RunRow
    BY TrailAssumption, NoRunIsRow DEF TrailInv, TrailTypeOK, RunRow
  <2>2. runs' \in [Sessions -> RunRow']
    BY <2>1 DEF TrailInv, TrailTypeOK
  <2>3. case' \in [state : CaseState, due : Nat]
    BY DEF RunnableStates, TerminalStates, CaseState
  <2> QED
    BY <1>0, <1>1, <2>2, <2>3 DEF TrailInv, TrailTypeOK
<1>6. WalksAsPermitted'
  BY <1>2, <1>3 DEF TrailInv, WalksAsPermitted
<1>7. RunsApart'
  <2>1. \A r \in Sessions : Active(r)' => r # s /\ Active(r) /\ runs'[r] = runs[r]
    BY <1>2, <1>3 DEF Active
  <2>2. \A r \in Sessions : r # s /\ Active(r) => runs[r].id # runs[s].id
    BY DEF TrailInv, RunsApart
  <2>3. \A e \in new : e.run = runs[s].id
    BY DEF Joinable
  <2>4. ASSUME NEW r \in Sessions, Active(r)'
        PROVE  /\ runs'[r].id \in 1..begun
               /\ \A e \in trail \cup new : e.run # runs'[r].id
               /\ \A q \in Sessions \ {r} :
                    /\ Active(q)' => ~serial /\ runs'[q].id # runs'[r].id
                    /\ runs'[r].own # {} => runs'[q].own = {}
    BY <1>2, <1>4, <2>1, <2>2, <2>3, <2>4 DEF TrailInv, RunsApart
  <2> QED
    BY <1>0, <2>4 DEF RunsApart
<1>8. OwnEventsNumbered'
  <2>1. \A r \in Sessions : /\ runs'[r].own = {}
                            /\ serial => runs'[r].stamp = NoStamp
    BY <1>3, <1>4
  <2> QED
    BY <1>0, <2>1, NothingFlushed DEF OwnEventsNumbered, HasTop, InOrder
<1>9. SerialTimes'
  <2>1. NoStamp.at <= Start + asked
    BY <1>3, SumNotNegative, NowIsAsked
  <2>2. \A r \in Sessions : runs'[r].own = {} /\ (serial => runs'[r].stamp = NoStamp)
    BY <1>3, <1>4
  <2>3. serial /\ breaks = 0 => \A e \in trail \cup new : e.at <= Start + asked
    BY DEF Joinable, TrailInv, SerialTimes, AtMostNow
  <2> QED
    BY <1>0, <2>1, <2>2, <2>3 DEF SerialTimes, AtMostNow
<1>10. ApprovalRecorded'
  <2>1. ScheduledIn(trail) => ScheduledIn(trail \cup new)
    BY DEF ScheduledIn
  <2>2. ASSUME NEW r \in Sessions
        PROVE  LET one == runs'[r] IN
               /\ Active(r)' /\ one.entry = "SCHEDULED" => ScheduledIn(trail \cup new)
               /\ one.stage = "execute" /\ one.entry # "SCHEDULED" =>
                    \E f \in one.own : f.kind = "POLICY_APPROVED"
               /\ one.stage = "commit" /\ one.state = "SCHEDULED" => ScheduledIn(one.own)
               /\ one.own = {}
    <3>1. CASE r = s
      BY <1>2, <1>3, <3>1 DEF Active
    <3>2. CASE r # s
      BY <1>2, <2>1, <3>2 DEF TrailInv, ApprovalRecorded, Active
    <3> QED
      BY <3>1, <3>2
  <2> QED
    BY <2>2 DEF ApprovalRecorded, ScheduledIn, ApprovedBefore
<1>11. StateTold'
  <2>1. \A r \in Sessions : runs'[r].stage # "commit" /\ (serial => ~Active(r)')
    <3>1. ASSUME NEW r \in Sessions PROVE runs'[r].stage # "commit"
      <4>1. runs'[r].own = {}
        BY <1>4
      <4> QED
        BY <1>2, <1>3, <4>1 DEF TrailInv, WalksAsPermitted
    <3> QED
      BY <1>3, <1>4, <3>1 DEF Active
  <2> QED
    BY <1>0, <2>1 DEF StateTold, Tells
<1> QED
  BY <1>1, <1>5, <1>6, <1>7, <1>8, <1>9, <1>10, <1>11 DEF TrailInv
LEMMA CommitRunKeeps ==
    ASSUME ClockInv, TrailInv, NEW s \in Sessions, CommitRun(s)
    PROVE  TrailInv'
<1>1. PICK run \in RunRow : run = runs[s]
  BY DEF TrailInv, TrailTypeOK
<1>2. /\ case' = [state |-> run.state, due |-> run.due] /\ trail' = trail \cup run.own
      /\ runs' = [runs EXCEPT ![s] = NoRun] /\ UNCHANGED <<cvars, begun, captured>>
      /\ Active(s) /\ run.stage = "commit"
  BY <1>1 DEF CommitRun, Active
<1>3. /\ run.state \in RunnableStates \cup TerminalStates /\ run.own # {}
      /\ \A r \in Sessions \ {s} : runs[r].own = {}
  BY <1>1, <1>2 DEF TrailInv, WalksAsPermitted, RunsApart
<1>4. Joinable(s, run.own)
  BY <1>1 DEF Joinable, TrailInv, TrailTypeOK, RunRow, OwnEventsNumbered, SerialTimes, ApprovalRecorded
<1>5. case' \in [state : RunnableStates \cup TerminalStates, due : Nat]
  BY <1>2, <1>3 DEF RunRow
<1>6. case'.state = run.state
  BY <1>2
<1>7. run.state = "SCHEDULED" => ScheduledIn(trail \cup run.own)
  BY <1>1, <1>2 DEF TrailInv, ApprovalRecorded, ScheduledIn
<1>8. serial => Tells(trail \cup run.own, run.state)
  <2> SUFFICES ASSUME serial PROVE Tells(trail \cup run.own, run.state)
    OBVIOUS
  <2>1. Tells(run.own, run.state)
    BY <1>1, <1>2 DEF TrailInv, StateTold
  <2>2. PICK last \in run.own :
          /\ last.kind # "ACTION_FAILED"
          /\ \A e \in run.own : e.kind # "ACTION_FAILED" => e.seq <= last.seq
          /\ last.kind \in DOMAIN StateAfter /\ run.state = StateAfter[last.kind]
    BY <2>1 DEF Tells
  <2>3. \A e \in trail : e.seq < last.seq /\ e.seq \in Nat /\ last.seq \in Nat
    BY <1>1 DEF TrailInv, TrailTypeOK, RunRow, EventRow, OwnEventsNumbered
  <2>4. \A e \in trail : e.seq <= last.seq
    BY <2>3
  <2> QED
    BY <2>2, <2>4 DEF Tells
<1> QED
  BY <1>2, <1>3, <1>4, <1>5, <1>6, <1>7, <1>8, EndingKeeps

LEMMA RestoreEntryKeeps ==
    ASSUME ClockInv, TrailInv, NEW s \in Sessions, RestoreEntry(s)
    PROVE  TrailInv'
<1> DEFINE kinds == <<"ACTION_FAILED">>
<1>1. kinds \in Seq(AuditEventType) /\ Len(kinds) = 1 /\ kinds[1] = "ACTION_FAILED"
  <2>1. "ACTION_FAILED" \in AuditEventType
    BY DEF AuditEventType
  <2> QED
    BY <2>1, Tuples
<1>2. PICK run \in RunRow : run = runs[s]
  BY DEF TrailInv, TrailTypeOK
<1>3. /\ case' = [case EXCEPT !.state = run.entry] /\ trail' = trail \cup NewEvents(s, kinds)
      /\ runs' = [runs EXCEPT ![s] = NoRun] /\ UNCHANGED <<cvars, begun, captured>>
      /\ Active(s) /\ run.stage = "failing" /\ run.stamp # NoStamp
      /\ \A r \in Sessions \ {s} : runs[r].own = {}
  BY <1>2 DEF RestoreEntry, RestoreTo, Active, LockFreeFor
<1>4. run.own = {} /\ runs[s].own = {} /\ runs[s].stamp # NoStamp
  BY <1>2, <1>3 DEF TrailInv, WalksAsPermitted
<1> HIDE DEF kinds
<1>5. Len(kinds) # 0 /\ 1 \in 1..Len(kinds) /\ 1..Len(kinds) = {1}
  BY <1>1
<1>6. PICK new : new = NewEvents(s, kinds)
  OBVIOUS
<1>7. /\ new \in SUBSET EventRow /\ HasTop(new) /\ InOrder(new)
      /\ \A e \in new : e.run = runs[s].id
      /\ \A e \in new, f \in trail : (serial \/ e.n # 1) => f.seq < e.seq
  <2>1. runs[s].own \cup NewEvents(s, kinds) = new
    BY <1>4, <1>6
  <2> DEFINE grown == runs[s].own \cup NewEvents(s, kinds)
  <2>2. /\ grown \in SUBSET EventRow /\ HasTop(grown) /\ InOrder(grown)
        /\ \A e \in grown : e.run = runs[s].id
        /\ \A e \in grown, f \in trail : (serial \/ e.n # 1) => f.seq < e.seq
    BY <1>1, <1>3, <1>4, <1>5, OwnEventsGrow
  <2>3. grown = new
    BY <2>1
  <2> HIDE DEF grown
  <2> QED
    BY <2>2, <2>3
<1>8. PICK event : event = NewEvent(s, kinds, 1)
  OBVIOUS
<1>9. new = {event} /\ event.kind = "ACTION_FAILED" /\ event.at = runs[s].stamp.at
  <2>1. new = {NewEvent(s, kinds, i) : i \in 1..Len(kinds)}
    BY <1>1, <1>6, NewEventsAre
  <2>2. new = {NewEvent(s, kinds, 1)}
    BY <1>5, <2>1
  <2>3. event.kind = kinds[1] /\ event.at = TimeOf(s, 1)
    <3>1. \A i \in 1..Len(kinds) : /\ NewEvent(s, kinds, i).kind = kinds[i]
                                   /\ NewEvent(s, kinds, i).at = TimeOf(s, i)
      BY <1>1, <1>3, NewEventIs
    <3> QED
      BY <1>8, <1>5, <3>1
  <2> QED
    BY <1>1, <1>4, <1>8, <2>2, <2>3 DEF TimeOf
<1>10. Joinable(s, new)
  <2>1. serial /\ breaks = 0 =>
         /\ \A e \in new : AtMostNow(e.at) /\ \A f \in trail : f.at <= e.at
         /\ \A e, f \in new : e.seq < f.seq => e.at <= f.at
    <3>1. event.at \in Nat
      BY <1>7, <1>9 DEF EventRow
    <3>2. serial /\ breaks = 0 => AtMostNow(event.at) /\ \A f \in trail : f.at <= event.at
      BY <1>4, <1>9 DEF TrailInv, SerialTimes
    <3> QED
      BY <1>9, <3>1, <3>2
  <2>2. \A e \in new : e.kind # "OUTCOME_VERIFIED"
    BY <1>9
  <2> QED
    BY <1>7, <2>1, <2>2 DEF Joinable
<1>11. run.entry \in RunnableStates /\ case \in [state : CaseState, due : Nat]
  BY DEF RunRow, TrailInv, TrailTypeOK
<1>12. case' \in [state : RunnableStates \cup TerminalStates, due : Nat] /\ case'.state = run.entry
  BY <1>3, <1>11
<1>13. run.entry = "SCHEDULED" => ScheduledIn(trail \cup new)
  BY <1>2, <1>3 DEF TrailInv, ApprovalRecorded, ScheduledIn
<1>14. serial /\ ~captured => Tells(trail \cup new, run.entry)
  <2> SUFFICES ASSUME serial, ~captured PROVE Tells(trail \cup new, run.entry)
    OBVIOUS
  <2>1. Tells(trail, run.entry)
    BY <1>2, <1>3 DEF TrailInv, StateTold
  <2>2. \A e \in new : e.kind = "ACTION_FAILED"
    BY <1>9
  <2> QED
    BY <2>1, <2>2 DEF Tells
<1> QED
  BY <1>3, <1>6, <1>10, <1>12, <1>13, <1>14, EndingKeeps

LEMMA CaptureCaseKeeps ==
    ASSUME ClockInv, TrailInv, CaptureCase
    PROVE  TrailInv'
<1>1. /\ UNCHANGED <<cvars, trail, runs, begun>> /\ captured' = TRUE
      /\ case' = [state |-> "RECOVERED", due |-> 0]
      /\ \A s \in Sessions : serial => ~Active(s)
  BY DEF CaptureCase
<1>2. UNCHANGED <<serial, asked, breaks>>
  BY <1>1 DEF cvars
<1>3. case' \in [state : CaseState, due : Nat] /\ case'.state = "RECOVERED"
  BY <1>1 DEF CaseState
<1>4. TrailTypeOK'
  BY <1>1, <1>3 DEF TrailInv, TrailTypeOK, ClockTypeOK, RunRow, cvars
<1>5. WalksAsPermitted'
  BY <1>1, <1>3 DEF TrailInv, WalksAsPermitted, TerminalStates
<1>6. RunsApart' /\ OwnEventsNumbered' /\ TrailNumbered'
  BY <1>1, <1>2 DEF TrailInv, RunsApart, OwnEventsNumbered, TrailNumbered, HasTop, InOrder,
                    SequencesOrderRuns, Active
<1>7. SerialTimes' /\ TrailOldestFirst' /\ ExecutionWasApproved'
  BY <1>1, <1>2 DEF TrailInv, SerialTimes, TrailOldestFirst, ExecutionWasApproved, AtMostNow
<1>8. ApprovalRecorded'
  BY <1>1, <1>3 DEF TrailInv, ApprovalRecorded, ScheduledIn, ApprovedBefore, Active
<1>9. StateTold'
  BY <1>1, <1>2 DEF TrailInv, StateTold, Tells, Active
<1> QED
  BY <1>4, <1>5, <1>6, <1>7, <1>8, <1>9 DEF TrailInv
(***************************************************************************)
(* The invariant, and what it shows.                                       *)
(***************************************************************************)
LEMMA TrailInvInit == TrailInit => ClockInv /\ TrailInv
<1> SUFFICES ASSUME TrailInit PROVE ClockInv /\ TrailInv
  OBVIOUS
<1>1. ClockInv
  BY ClockInvInit DEF TrailInit
<1>2. PICK row : row = NoRun
  OBVIOUS
<1>3. /\ case = [state |-> "DETECTED", due |-> 0] /\ trail = {Detected} /\ begun = 0 /\ captured = FALSE
      /\ runs = [s \in Sessions |-> row] /\ asked = 0
  BY <1>2 DEF TrailInit, ClockInit
<1>4. /\ row.stage = "idle" /\ row.own = {} /\ row.stamp = NoStamp /\ row.stamp.at = 0
      /\ row.id = 0 /\ row.state = "DETECTED" /\ row \in RunRow
  <2>1. begun \in Nat
    BY <1>3
  <2> QED
    BY <1>2, <2>1 DEF NoRun, NoStamp, RunRow, Stamp, RunnableStates, CaseState
<1>5. /\ Detected.run = 0 /\ Detected.n = 1 /\ Detected.seq = 1 /\ Detected.at = Start
      /\ Detected.kind = "REVENUE_RISK_DETECTED" /\ Detected \in EventRow
  BY ClockAssumption DEF Detected, Event, EventRow, AuditEventType
<1>6. \A s \in Sessions : runs[s] = row
  BY <1>3
<1>7. TrailTypeOK
  <2>1. runs \in [Sessions -> RunRow] /\ case \in [state : CaseState, due : Nat]
    BY <1>3, <1>4 DEF CaseState
  <2>2. begun \in 0..RunsCap /\ captured \in BOOLEAN
    <3>1. RunsCap \in Nat /\ 0 \in 0..RunsCap
      BY TrailAssumption
    <3> QED
      BY <1>3, <3>1
  <2>3. \A e \in trail : e \in EventRow /\ e.run <= begun
    BY <1>3, <1>5
  <2> QED
    BY <1>1, <2>1, <2>2, <2>3 DEF ClockInv, TrailTypeOK
<1>8. WalksAsPermitted
  BY <1>2, <1>3, <1>4, <1>6 DEF WalksAsPermitted, RunnableStates
<1>9. RunsApart
  BY <1>4, <1>6 DEF RunsApart, Active
<1>10. OwnEventsNumbered
  BY <1>4, <1>6, NothingFlushed DEF OwnEventsNumbered
<1>11. HasTop(trail)
  BY <1>3, <1>5 DEF HasTop
<1>12. TrailNumbered
  BY <1>3, <1>5, <1>11 DEF TrailNumbered, InOrder, SequencesOrderRuns
<1>13. SerialTimes
  <2>1. Start <= Start + asked /\ 0 <= Start + asked
    BY <1>3, ClockAssumption
  <2> QED
    BY <1>3, <1>4, <1>5, <1>6, <2>1 DEF SerialTimes, AtMostNow
<1>14. TrailOldestFirst
  BY <1>3, <1>5 DEF TrailOldestFirst
<1>15. ApprovalRecorded
  BY <1>3, <1>4, <1>6 DEF ApprovalRecorded, Active
<1>16. ExecutionWasApproved
  BY <1>3, <1>5 DEF ExecutionWasApproved
<1>17. StateTold
  <2>1. Told("REVENUE_RISK_DETECTED", "DETECTED")
    BY DEF Told, StateAfter
  <2>2. Tells(trail, case.state)
    BY <1>3, <1>5, <2>1 DEF Tells, Told
  <2> QED
    BY <1>4, <1>6, <2>2 DEF StateTold, Active
<1> QED
  BY <1>1, <1>7, <1>8, <1>9, <1>10, <1>12, <1>13, <1>14, <1>15, <1>16, <1>17 DEF TrailInv

LEMMA TrailInvNext == ClockInv /\ TrailInv /\ [TrailNext]_allvars => ClockInv' /\ TrailInv'
<1> SUFFICES ASSUME ClockInv, TrailInv, [TrailNext]_allvars PROVE ClockInv' /\ TrailInv'
  OBVIOUS
<1>1. [ClockNext]_cvars
  BY TrailStepIsClockStep
<1>2. ClockInv'
  BY <1>1, ClockInvNext
<1>3. CASE UNCHANGED tvars
  BY <1>1, <1>2, <1>3, ClockKeepsTrail
<1>4. ASSUME NEW s \in Sessions, Decide(s) \/ Gate(s) \/ Defer(s) \/ Execute(s)
      PROVE  TrailInv'
  <2>1. PICK kinds, state, next :
          Flush(s, kinds, state, next) /\ Records(runs[s].stage, kinds, state, next)
    BY <1>4, StagesFlush
  <2> QED
    BY <1>1, <2>1, FlushKeeps
<1>5. ASSUME NEW s \in Sessions,
             BeginRun(s) \/ StampFirst(s) \/ CommitRun(s) \/ RunFails(s) \/ RestoreEntry(s) \/ Die(s)
      PROVE  TrailInv'
  BY <1>5, BeginRunKeeps, StampFirstKeeps, CommitRunKeeps, RunFailsKeeps, RestoreEntryKeeps, DieKeeps
<1>6. CASE CaptureCase
  BY <1>2, <1>6, CaptureCaseKeeps
<1> QED
  BY <1>2, <1>3, <1>4, <1>5, <1>6 DEF TrailNext, allvars

LEMMA TrailKeepsInvariant == TrailSpec => [](ClockInv /\ TrailInv)
  BY TrailInvInit, TrailInvNext, PTL DEF TrailSpec

\* Every variable of the trail keeps its shape, for any number of sessions and runs.
THEOREM TrailTypeCorrect == TrailSpec => []TrailTypeOK
<1>1. TrailInv => TrailTypeOK
  BY DEF TrailInv
<1> QED
  BY <1>1, TrailKeepsInvariant, PTL

\* However runs overlap, fail and die, the state machine refuses no stage: none is
\* cut short between the money and its record (state_machine.py:61-67).
THEOREM NoStageRejected == TrailSpec => []NeverRejected
<1>1. TrailInv => NeverRejected
  <2> SUFFICES ASSUME TrailInv, NEW s \in Sessions PROVE runs[s].state # Rejected
    BY DEF NeverRejected
  <2>1. runs[s] \in RunRow
    BY DEF TrailInv, TrailTypeOK
  <2>2. runs[s].stage = "idle" => runs[s].state = "DETECTED"
    BY DEF TrailInv, WalksAsPermitted, NoRun
  <2> QED
    BY <2>1, <2>2 DEF TrailInv, WalksAsPermitted, RunRow, Rejected, RunnableStates, TerminalStates
<1> QED
  BY <1>1, TrailKeepsInvariant, PTL

\* The sequences order the events of every run, and only a run's first event can
\* share its number, with an event of a run it overlapped (audit_service.py:104-109).
THEOREM SequencesInOrder == TrailSpec => []SequencesOrderRuns
<1>1. TrailInv => SequencesOrderRuns
  BY DEF TrailInv, TrailNumbered
<1> QED
  BY <1>1, TrailKeepsInvariant, PTL

\* The timestamps of serial runs order events as their sequences do
\* (audit_service.py:123).
THEOREM OldestFirst == TrailSpec => []TrailOldestFirst
<1>1. TrailInv => TrailOldestFirst
  BY DEF TrailInv
<1> QED
  BY <1>1, TrailKeepsInvariant, PTL

\* Nothing in the trail was executed that was not approved or scheduled before,
\* whatever overlaps, fails or dies (state_machine.py:3-5).
THEOREM ExecutionsApproved == TrailSpec => []ExecutionWasApproved
<1>1. TrailInv => ExecutionWasApproved
  BY DEF TrailInv
<1> QED
  BY <1>1, TrailKeepsInvariant, PTL

\* The last event that is not a restoration tells the state of the case, unless
\* runs overlapped or a webhook closed the case (command_center.py:216).
THEOREM TrailExplains == TrailSpec => []TrailExplainsState
<1>1. TrailInv => TrailExplainsState
  BY DEF TrailInv, StateTold, Tells, TrailExplainsState
<1> QED
  BY <1>1, TrailKeepsInvariant, PTL
==============================================================================
