---------------------------- MODULE Outcomes_proofs ----------------------------

(***************************************************************************)
(* What runs, batches and figures come to in the demonstration: every      *)
(* selection is accounted for, no more money is reported recovered than    *)
(* was at risk, every batch closes its cases, the four scenarios of the    *)
(* board end as they promise, and the benchmark credits the engine with no *)
(* less than retrying at once.                                             *)
(***************************************************************************)
EXTENDS Demonstration_proofs

(***************************************************************************)
(* How an action row is filed.                                             *)
(***************************************************************************)
Refused == {"BLOCKED", "ESCALATED"}
Closed  == {"STOPPED", "ESCALATED"}

\* An executed row moved money and has an outcome; one that was not executed was
\* refused, moves none, or is a retry that was deferred.
Filed(row) ==
    /\ row.executed <=> row.outcome # None
    /\ row.executed => row.status \in {"EXECUTED", "FAILED"} /\ row.type \notin TerminalActions
    /\ row.scheduled => row.type = "RETRY_LATER" /\ row.status \notin Refused
    /\ row.executed \/ row.scheduled \/ row.status \in Refused \/ row.type \in TerminalActions
    /\ row.wait <= RetryDelay

\* The row ends its case without an execution.
Closes(row) == row.status \in Refused \/ row.type \in TerminalActions

\* A case is stopped or escalated by one row, and by no other.
Closing(a) == Exists(a) /\ Closes(actions[a])
ClosedByOne ==
    /\ \A a \in Actions : Closing(a) => cases[actions[a].case].state \in Closed
    /\ \A a, b \in Actions : Closing(a) /\ Closing(b) /\ actions[a].case = actions[b].case => a = b
    /\ \A c \in Cases : cases[c].state \in Closed =>
         \E a \in Actions : Closing(a) /\ actions[a].case = c

RowsFiled == \A a \in Actions : Exists(a) => Filed(actions[a])

\* A run files its row, and closes the case with it or not.
LEMMA RunFiles ==
    ASSUME AutopilotTypeOK, CaseInv, RowsFiled, NEW c \in Cases, NEW h, NEW a \in Actions,
           NEW row \in ActionRow, NEW state, NEW pay, RunShape(c, h, a, row, state, pay)
    PROVE  /\ Filed(row) /\ (Closes(row) <=> state \in Closed)
           /\ row.status = "BLOCKED" => state = "STOPPED"
           /\ row.status = "ESCALATED" => state = "ESCALATED"
           /\ ~Closing(a)
<1>1. RetryDelay \in Nat /\ 0 <= RetryDelay
  BY ConstantsAssumption
<1>2. CASE Chosen(c, h, a, row) /\ Rests(h, row, state, pay)
  BY <1>2 DEF Chosen, Rests, Closing, Filed, Closes, Refused, Closed, TerminalActions
<1>3. ASSUME Acts(c, h, row, state, pay), row.wait = 0, row.type \notin TerminalActions,
             row.scheduled => row.type = "RETRY_LATER"
      PROVE /\ Filed(row) /\ (Closes(row) <=> state \in Closed)
            /\ row.status \notin Refused
  BY <1>1, <1>3 DEF Acts, Answered, Filed, Closes, Refused, Closed, None
<1>4. CASE Resumed(c, a, row) /\ Acts(c, h, row, state, pay)
  <2>1. Filed(actions[a]) /\ actions[a].scheduled /\ ~actions[a].executed
    BY <1>4 DEF Resumed, RowsFiled, Pending
  <2>2. actions[a].type = "RETRY_LATER" /\ actions[a].status \notin Refused
    BY <2>1 DEF Filed
  <2>3. ~Closing(a)
    BY <2>2 DEF Closing, Closes, TerminalActions
  <2>4. row.type = "RETRY_LATER" /\ row.wait = 0 /\ row.type \notin TerminalActions
    BY <1>4, <2>2 DEF Resumed, TerminalActions
  <2> QED
    BY <1>3, <1>4, <2>3, <2>4 DEF Refused
<1>5. CASE Chosen(c, h, a, row) /\ Acts(c, h, row, state, pay)
           /\ row.type \notin TerminalActions /\ ~row.scheduled /\ row.wait = 0
  BY <1>3, <1>5 DEF Chosen, Closing, Refused
<1> QED
  BY <1>2, <1>4, <1>5 DEF RunShape

\* A case that exists is closed by a disturbance, as recovered, or left alone.
LEMMA DisturbedCase ==
    ASSUME TypeOK, NEW p \in Payments, Disturb(p), NEW d \in Cases
    PROVE  \/ cases'[d] = cases[d]
           \/ cases[d].state = Absent /\ cases'[d].state = "DETECTED"
           \/ /\ Open(d) /\ cases'[d].state = "RECOVERED" /\ cases'[d].payment = cases[d].payment
<1> USE DEF TypeOK
<1>1. ASSUME DetectRisk(p), cases'[d] # cases[d]
      PROVE  cases[d].state = Absent /\ cases'[d].state = "DETECTED"
  BY <1>1, FreshCaseIsFree DEF DetectRisk
<1>2. ASSUME PaymentCapturedWebhook(p), cases'[d] # cases[d]
      PROVE  Open(d) /\ cases'[d].state = "RECOVERED" /\ cases'[d].payment = cases[d].payment
  <2>1. PICK c \in OpenCases(p) : cases' = [cases EXCEPT ![c].state = "RECOVERED"]
    BY <1>2 DEF PaymentCapturedWebhook
  <2>2. d = c /\ Open(d)
    BY <1>2, <2>1 DEF OpenCases
  <2> QED
    BY <2>1, <2>2 DEF CaseRow
<1>3. \/ DetectRisk(p) \/ PaymentCapturedWebhook(p) \/ UNCHANGED cases
  BY DEF Disturb, PaymentFailedWebhook, CreatePayment, FailPayment, LoseRequest
<1> QED
  BY <1>1, <1>2, <1>3

\* Nothing but a run, or a reset, makes an action wait longer.
WaitsShrink == \A a \in Actions : actions'[a].wait <= actions[a].wait

\* Some run takes the step.
SomeRun == \E c \in Cases, h, pay \in PaymentRow : Runs(c, h, pay)

\* Every other step leaves the waits as they are, or passes time.
LEMMA WaitStep ==
    ASSUME AutopilotTypeOK, CaseInv, HeldFits, [ANext]_avars
    PROVE  SomeRun \/ ResetDemo \/ WaitsShrink
<1> USE DEF AutopilotTypeOK
<1>1. \A a \in Actions : actions[a] \in ActionRow /\ actions[a].wait \in Nat
  BY DEF TypeOK, ActionRow
<1>2. CASE UNCHANGED actions
  BY <1>1, <1>2 DEF WaitsShrink
<1>3. CASE DriveClock
  <2>1. ASSUME NEW a \in Actions PROVE actions'[a].wait <= actions[a].wait
    <3>1. actions'[a].wait = IF actions[a].wait > RetryDelay THEN actions[a].wait - RetryDelay ELSE 0
      BY <1>1, <1>3 DEF DriveClock, ActionRow
    <3> QED
      BY <1>1, <3>1, ConstantsAssumption
  <2> QED
    BY <2>1 DEF WaitsShrink
<1>4. CASE TimePasses
  <2>1. ASSUME NEW a \in Actions PROVE actions'[a].wait <= actions[a].wait
    <3>1. actions'[a].wait = IF actions[a].wait > 0 THEN actions[a].wait - 1 ELSE actions[a].wait
      BY <1>1, <1>4 DEF TimePasses, AdvanceClock, ActionRow
    <3> QED
      BY <1>1, <3>1
  <2> QED
    BY <2>1 DEF WaitsShrink
<1>5. CASE RunHead \/ \E c \in Cases : ManualRun(c)
  <2>1. BatchMoves => UNCHANGED actions
    BY DEF BatchMoves, vars
  <2> QED
    BY <1>2, <1>5, <2>1, HeadRuns, ManualRuns DEF SomeRun
<1>6. CASE \E p \in Outside : Disturb(p)
  <2>1. UNCHANGED actions
    BY <1>6, DisturbPointwise, AutopilotAssumption
  <2> QED
    BY <1>2, <2>1
<1>7. ASSUME \/ \E limit \in Limits : StartBatch(limit)
             \/ LoadHead \/ FinishHead \/ AbortBatch \/ SeedAgain \/ UNCHANGED avars
      PROVE  UNCHANGED actions
  BY <1>7 DEF StartBatch, LoadHead, FinishHead, AbortBatch, SeedAgain, avars, vars
<1> QED
  BY <1>2, <1>3, <1>4, <1>5, <1>6, <1>7 DEF ANext

\* Rows are filed in every step.
LEMMA StepRowsFiled ==
    ASSUME AutopilotTypeOK, CaseInv, HeldFits, RowsFiled, RowStep, [ANext]_avars
    PROVE  RowsFiled'
<1> USE DEF AutopilotTypeOK
<1> DEFINE Kept(a) == Exists(a) => Filed(actions[a])
<1>1. \A a \in Actions : Kept(a)
  BY DEF RowsFiled
<1>2. ASSUME NEW c \in Cases, NEW h \in PaymentRow, NEW pay \in PaymentRow, Runs(c, h, pay),
             NEW b \in Actions
      PROVE  Kept(b)'
  <2>1. PICK a \in Actions, row \in ActionRow, state \in CaseState :
          RunShape(c, h, a, row, state, pay) /\ Filed(row)
    BY <1>2, RunIsShaped, RunFiles
  <2>2. actions'[a] = row /\ (b # a => actions'[b] = actions[b] /\ (Exists(b)' <=> Exists(b)))
    BY <2>1, RunPointwise
  <2>3. CASE b = a
    BY <2>1, <2>2, <2>3 DEF Filed
  <2>4. CASE b # a
    BY <1>1, <2>2, <2>4 DEF Filed
  <2> QED
    BY <2>3, <2>4
<1>3. ASSUME Ticks, WaitsShrink, NEW b \in Actions PROVE Kept(b)'
  <2>1. /\ actions'[b].status = actions[b].status /\ actions'[b].type = actions[b].type
        /\ actions'[b].scheduled = actions[b].scheduled
        /\ actions'[b].executed = actions[b].executed
        /\ actions'[b].outcome = actions[b].outcome
        /\ (Exists(b)' <=> Exists(b))
    BY <1>3, TickRows
  <2>2. Filed(actions[b]) => actions'[b].wait <= RetryDelay
    <3>1. actions[b].wait \in Nat /\ actions'[b].wait \in Nat /\ actions'[b].wait <= actions[b].wait
      BY <1>3 DEF TypeOK, ActionRow, WaitsShrink, Ticks
    <3> DEFINE before == actions[b].wait
               after  == actions'[b].wait
    <3>2. before \in Nat /\ after \in Nat /\ after <= before /\ (Filed(actions[b]) => before <= RetryDelay)
      BY <3>1 DEF Filed
    <3> HIDE DEF before, after
    <3>3. Filed(actions[b]) => after <= RetryDelay
      BY <3>2, ConstantsAssumption
    <3> QED
      BY <3>3 DEF after
  <2> QED
    BY <1>1, <2>1, <2>2 DEF Filed
<1>4. ASSUME ResetDemo, NEW b \in Actions PROVE Kept(b)'
  BY <1>4, SeededTypes DEF ResetDemo, Exists
<1>5. ASSUME UNCHANGED actions, NEW b \in Actions PROVE Kept(b)'
  BY <1>1, <1>5 DEF Exists, Filed
<1>6. ASSUME (\E p \in Payments : Disturb(p)) \/ SeedAgain \/ BatchMoves
      PROVE  UNCHANGED actions
  BY <1>6, DisturbPointwise DEF SeedAgain, BatchMoves, vars
<1>7. \A b \in Actions : Kept(b)'
  BY <1>2, <1>3, <1>4, <1>5, <1>6, WaitStep DEF RowStep, SomeRun
<1> QED
  BY <1>7 DEF RowsFiled

\* So is what closes a case.
LEMMA StepClosedByOne ==
    ASSUME AutopilotTypeOK, CaseInv, RowsKept, RowsFiled, ClosedByOne, RowStep
    PROVE  ClosedByOne'
<1> USE DEF AutopilotTypeOK
<1>1. ASSUME NEW c \in Cases, NEW h \in PaymentRow, NEW pay \in PaymentRow, Runs(c, h, pay)
      PROVE  ClosedByOne'
  <2>1. PICK a \in Actions, row \in ActionRow, state \in CaseState :
          /\ RunShape(c, h, a, row, state, pay)
          /\ (Closes(row) <=> state \in Closed) /\ ~Closing(a)
    BY <1>1, RunIsShaped, RunFiles
  <2>2. /\ cases'[c].state = state /\ \A d \in Cases : d # c => cases'[d] = cases[d]
        /\ actions'[a] = row /\ Exists(a)' /\ row.case = c
        /\ \A b \in Actions : b # a => actions'[b] = actions[b] /\ (Exists(b)' <=> Exists(b))
        /\ cases[c].state \in {"DETECTED", "FAILED", "SCHEDULED"}
    BY <2>1, RunPointwise DEF RunShape
  <2>3. cases[c].state \notin Closed
    BY <2>2 DEF Closed
  <2>4. \A b \in Actions : b # a => (Closing(b)' <=> Closing(b))
    BY <2>2 DEF Closing, Closes
  <2>5. Closing(a)' <=> state \in Closed
    BY <2>1, <2>2 DEF Closing, Closes
  <2>6. \A b \in Actions : Closing(b) => b # a /\ actions[b].case # c /\ actions[b].case \in Cases
    BY <2>1, <2>3 DEF ClosedByOne, TypeOK, ActionRow
  <2>7. ASSUME NEW b \in Actions, Closing(b)' PROVE cases'[actions'[b].case].state \in Closed
    BY <2>2, <2>4, <2>5, <2>6, <2>7 DEF ClosedByOne
  <2>8. ASSUME NEW b \in Actions, NEW d \in Actions, Closing(b)', Closing(d)',
               actions'[b].case = actions'[d].case
        PROVE  b = d
    BY <2>2, <2>4, <2>6, <2>8 DEF ClosedByOne
  <2>9. ASSUME NEW d \in Cases, cases'[d].state \in Closed
        PROVE  \E b \in Actions : Closing(b)' /\ actions'[b].case = d
    <3>1. CASE d = c
      BY <2>2, <2>5, <2>9, <3>1
    <3>2. CASE d # c
      <4>1. PICK b \in Actions : Closing(b) /\ actions[b].case = d
        BY <2>2, <2>9, <3>2 DEF ClosedByOne
      <4> QED
        BY <2>2, <2>4, <2>6, <4>1
    <3> QED
      BY <3>1, <3>2
  <2> QED
    BY <2>7, <2>8, <2>9 DEF ClosedByOne
<1>2. ASSUME \A b \in Actions : /\ (Closing(b)' <=> Closing(b))
                                /\ actions'[b].case = actions[b].case,
             \A d \in Cases : cases[d].state \in Closed => cases'[d] = cases[d],
             \A d \in Cases : cases'[d].state \in Closed => cases[d].state \in Closed
      PROVE  ClosedByOne'
  <2>1. \A b \in Actions : actions[b].case \in Cases
    BY DEF TypeOK, ActionRow
  <2> QED
    BY <1>2, <2>1 DEF ClosedByOne
<1>3. ASSUME Ticks PROVE ClosedByOne'
  <2>1. \A b \in Actions : /\ actions'[b].status = actions[b].status
                           /\ actions'[b].type = actions[b].type
                           /\ actions'[b].case = actions[b].case
                           /\ (Exists(b)' <=> Exists(b))
    BY <1>3, TickRows
  <2>2. \A b \in Actions : (Closing(b)' <=> Closing(b)) /\ actions'[b].case = actions[b].case
    BY <2>1 DEF Closing, Closes
  <2>3. UNCHANGED cases
    BY <1>3 DEF Ticks
  <2> QED
    BY <1>2, <2>2, <2>3
<1>4. ASSUME NEW p \in Payments, Disturb(p) PROVE ClosedByOne'
  <2>1. UNCHANGED actions
    BY <1>4, DisturbPointwise
  <2>2. ASSUME NEW d \in Cases
        PROVE  /\ cases[d].state \in Closed => cases'[d] = cases[d]
               /\ cases'[d].state \in Closed => cases[d].state \in Closed
    BY <1>4, DisturbedCase DEF Open, TerminalStates, Closed, Absent
  <2>3. \A b \in Actions : Closing(b)' <=> Closing(b)
    BY <2>1 DEF Closing, Closes, Exists
  <2> QED
    BY <1>2, <2>1, <2>2, <2>3
<1>5. ASSUME ResetDemo PROVE ClosedByOne'
  <2>1. \A a \in Actions : ~Closing(a)'
    BY <1>5, SeededTypes DEF ResetDemo, Closing, Exists
  <2>2. \A c \in Cases : cases'[c].state \notin Closed
    BY <1>5 DEF ResetDemo, SeededCases, NoCase, Closed, Absent
  <2> QED
    BY <2>1, <2>2 DEF ClosedByOne
<1>6. ASSUME SeedAgain \/ BatchMoves PROVE ClosedByOne'
  <2>1. UNCHANGED <<cases, actions>>
    BY <1>6 DEF SeedAgain, BatchMoves, vars
  <2>2. \A b \in Actions : Closing(b)' <=> Closing(b)
    BY <2>1 DEF Closing, Closes, Exists
  <2> QED
    BY <1>2, <2>1, <2>2
<1> QED
  BY <1>1, <1>3, <1>4, <1>5, <1>6 DEF RowStep

\* Every row is filed, and every stopped or escalated case was closed by exactly
\* one row, at any time.
FiledInv == DemoInv /\ RowsFiled /\ ClosedByOne

\* The database the demonstration starts from.
LEMMA InitFiled == AInit => FiledInv
<1> SUFFICES ASSUME AInit PROVE FiledInv
  OBVIOUS
<1>1. DemoInv /\ FreshlySeeded
  BY InitDemoTypes, InitDemoInv
<1>2. \A a \in Actions : ~Exists(a)
  BY <1>1, SeededTypes DEF FreshlySeeded, Exists
<1>3. \A c \in Cases : cases[c].state \notin Closed
  BY <1>1 DEF FreshlySeeded, SeededCases, NoCase, Closed, Absent
<1> QED
  BY <1>1, <1>2, <1>3 DEF FiledInv, RowsFiled, ClosedByOne, Closing

\* Whatever is done to it next.
LEMMA StepFiled == FiledInv /\ [ANext]_avars => FiledInv'
  BY StepDemoInv, EveryStep, StepRowsFiled, StepClosedByOne DEF FiledInv, DemoInv

\* At any time.
LEMMA FiledInvariance == ASpec => []FiledInv
  BY InitFiled, StepFiled, PTL DEF ASpec

(***************************************************************************)
(* Sums.  The figures fold a set into a sum, one element after the other;  *)
(* for a finite set the fold has a value, and larger terms a larger sum.   *)
(***************************************************************************)
Pick(s)          == CHOOSE x \in s : TRUE
SumStep(g, h, s) == IF s = {} THEN 0 ELSE g[Pick(s)] + h[s \ {Pick(s)}]
Sums(g, S, h)    == h = [s \in SUBSET S |-> SumStep(g, h, s)]
SumOf(g, S)      == CHOOSE h : Sums(g, S, h)
SumOver(g, S)    == SumOf(g, S)[S]

\* A set of numbers that starts with 0 and goes on has them all.
LEMMA AllNumbers ==
    ASSUME NEW B \in SUBSET Nat, 0 \in B, \A n \in B : n + 1 \in B
    PROVE  B = Nat
<1> SUFFICES ASSUME Nat \ B # {} PROVE FALSE
  OBVIOUS
<1> DEFINE less == {ss \in Nat \X Nat : ss[1] < ss[2]}
<1>1. IsWellFoundedOn(less, Nat)
  BY NatLessThanWellFounded, Zenon DEF OpToRel
<1>2. PICK x \in Nat \ B : \A y \in Nat \ B : ~ (<<y, x>> \in less)
  <2>1. Nat \ B \subseteq Nat
    OBVIOUS
  <2> HIDE DEF less
  <2> QED
    BY <1>1, <2>1, WFMin
<1>3. x - 1 \in Nat /\ x - 1 < x /\ (x - 1) + 1 = x
  BY <1>2
<1>4. <<x - 1, x>> \in less
  BY <1>2, <1>3
<1>5. x - 1 \in B
  BY <1>2, <1>3, <1>4
<1> QED
  BY <1>2, <1>3, <1>5

\* The subsets of up to n elements.
UpTo(S, n) == {s \in SUBSET S : Cardinality(s) <= n}

\* Without its next element a set is smaller.
LEMMA PickSmaller ==
    ASSUME NEW S, IsFiniteSet(S), NEW s \in SUBSET S, s # {}
    PROVE  /\ Pick(s) \in s /\ s \ {Pick(s)} \in SUBSET S
           /\ Cardinality(s) \in Nat /\ Cardinality(s \ {Pick(s)}) \in Nat
           /\ Cardinality(s \ {Pick(s)}) = Cardinality(s) - 1
<1>1. Pick(s) \in s
  BY DEF Pick
<1>2. IsFiniteSet(s)
  BY FS_Subset
<1>3. /\ IsFiniteSet(s \ {Pick(s)})
      /\ Cardinality(s \ {Pick(s)}) = Cardinality(s) - 1
  BY <1>1, <1>2, FS_RemoveElement
<1> QED
  BY <1>1, <1>2, <1>3, FS_CardinalityType

\* The equation of the fold has a solution.
PartialSums(g, S, n) == \E h : h = [s \in UpTo(S, n) |-> SumStep(g, h, s)]

\* The fold of a finite set has a value.
LEMMA SumExists ==
    ASSUME NEW g, NEW S, IsFiniteSet(S)
    PROVE  Sums(g, S, SumOf(g, S))
<1> DEFINE B == {n \in Nat : PartialSums(g, S, n)}
<1>1. \A s \in SUBSET S : Cardinality(s) \in Nat /\ (Cardinality(s) = 0 <=> s = {})
  BY FS_Subset, FS_CardinalityType, FS_EmptySet
<1>2. 0 \in B
  <2> DEFINE h == [s \in UpTo(S, 0) |-> 0]
  <2>1. \A s \in UpTo(S, 0) : s = {}
    BY <1>1 DEF UpTo
  <2>2. h = [s \in UpTo(S, 0) |-> SumStep(g, h, s)]
    BY <2>1 DEF SumStep
  <2> HIDE DEF h
  <2> QED
    BY <2>2 DEF PartialSums
<1>3. ASSUME NEW n \in B PROVE n + 1 \in B
  <2>1. PICK h : h = [s \in UpTo(S, n) |-> SumStep(g, h, s)]
    BY DEF PartialSums
  <2> DEFINE k == [s \in UpTo(S, n + 1) |-> SumStep(g, h, s)]
  <2>2. ASSUME NEW s \in UpTo(S, n + 1) PROVE SumStep(g, k, s) = SumStep(g, h, s)
    <3>1. CASE s = {}
      BY <3>1 DEF SumStep
    <3>2. CASE s # {}
      <4> DEFINE r == s \ {Pick(s)}
      <4>1. s \in SUBSET S /\ Cardinality(s) <= n + 1
        BY DEF UpTo
      <4>2. r \in UpTo(S, n) /\ r \in UpTo(S, n + 1)
        BY <3>2, <4>1, PickSmaller DEF UpTo
      <4>3. h[r] = SumStep(g, h, r)
        <5> HIDE DEF r
        <5> QED
          BY <2>1, <4>2
      <4>4. k[r] = SumStep(g, h, r)
        <5> HIDE DEF r
        <5> QED
          BY <4>2
      <4> HIDE DEF k
      <4> QED
        BY <3>2, <4>3, <4>4 DEF SumStep
    <3> QED
      BY <3>1, <3>2
  <2>3. k = [s \in UpTo(S, n + 1) |-> SumStep(g, k, s)]
    <3>1. \A s \in UpTo(S, n + 1) : SumStep(g, k, s) = SumStep(g, h, s)
      BY <2>2
    <3>2. k = [s \in UpTo(S, n + 1) |-> SumStep(g, h, s)]
      OBVIOUS
    <3> HIDE DEF k
    <3> QED
      BY <3>1, <3>2
  <2> HIDE DEF k
  <2>4. PartialSums(g, S, n + 1)
    BY <2>3 DEF PartialSums
  <2> QED
    BY <2>4
<1>4. B = Nat
  <2> HIDE DEF B
  <2>1. B \in SUBSET Nat
    BY DEF B
  <2> QED
    BY <1>2, <1>3, <2>1, AllNumbers
<1>5. PICK h : h = [s \in UpTo(S, Cardinality(S)) |-> SumStep(g, h, s)]
  <2>1. Cardinality(S) \in B
    BY <1>4, FS_CardinalityType
  <2> QED
    BY <2>1 DEF PartialSums
<1>6. UpTo(S, Cardinality(S)) = SUBSET S
  BY FS_Subset DEF UpTo
<1>7. Sums(g, S, h)
  BY <1>5, <1>6 DEF Sums
<1> QED
  BY <1>7 DEF SumOf

\* One step of the fold.
LEMMA SumUnfolds ==
    ASSUME NEW g, NEW S, IsFiniteSet(S), NEW s \in SUBSET S
    PROVE  SumOf(g, S)[s] = SumStep(g, SumOf(g, S), s)
<1> DEFINE h == SumOf(g, S)
<1>1. h = [t \in SUBSET S |-> SumStep(g, h, t)]
  BY SumExists DEF Sums
<1> HIDE DEF h
<1>2. h[s] = SumStep(g, h, s)
  BY <1>1
<1> QED
  BY <1>2 DEF h

\* Terms that are no larger add up to no more.
LEMMA SumGrows ==
    ASSUME NEW S, IsFiniteSet(S), NEW f \in [S -> Int], NEW g \in [S -> Int],
           \A x \in S : f[x] <= g[x]
    PROVE  /\ SumOver(f, S) \in Int /\ SumOver(g, S) \in Int
           /\ SumOver(f, S) <= SumOver(g, S)
<1> DEFINE u == SumOf(f, S)
           v == SumOf(g, S)
           Grows(s) == u[s] \in Int /\ v[s] \in Int /\ u[s] <= v[s]
           B == {n \in Nat : \A s \in SUBSET S : Cardinality(s) = n => Grows(s)}
<1>1. \A s \in SUBSET S : u[s] = SumStep(f, u, s) /\ v[s] = SumStep(g, v, s)
  BY SumUnfolds
<1> HIDE DEF u, v
<1>2. 0 \in B
  <2>1. ASSUME NEW s \in SUBSET S, Cardinality(s) = 0 PROVE Grows(s)
    <3>1. s = {}
      BY <2>1, FS_Subset, FS_EmptySet
    <3>2. u[s] = 0 /\ v[s] = 0
      BY <1>1, <3>1 DEF SumStep
    <3> QED
      BY <3>2
  <2> QED
    BY <2>1
<1>3. ASSUME NEW n \in B PROVE n + 1 \in B
  <2>1. ASSUME NEW s \in SUBSET S, Cardinality(s) = n + 1 PROVE Grows(s)
    <3>1. s # {}
      <4>1. n \in Nat /\ n + 1 # 0
        OBVIOUS
      <4> HIDE DEF B
      <4> QED
        BY <2>1, <4>1, FS_EmptySet
    <3>2. /\ Pick(s) \in S /\ s \ {Pick(s)} \in SUBSET S
          /\ Cardinality(s \ {Pick(s)}) = n
      <4>1. /\ Pick(s) \in s /\ s \ {Pick(s)} \in SUBSET S
            /\ Cardinality(s \ {Pick(s)}) = Cardinality(s) - 1
        BY <3>1, PickSmaller
      <4>2. n \in Nat /\ (n + 1) - 1 = n
        OBVIOUS
      <4> HIDE DEF B
      <4> QED
        BY <2>1, <4>1, <4>2
    <3>3. Grows(s \ {Pick(s)})
      <4>1. \A r \in SUBSET S : Cardinality(r) = n => Grows(r)
        BY <1>3
      <4> QED
        BY <3>2, <4>1, Zenon
    <3>4. /\ u[s] = f[Pick(s)] + u[s \ {Pick(s)}]
          /\ v[s] = g[Pick(s)] + v[s \ {Pick(s)}]
      BY <1>1, <3>1 DEF SumStep
    <3>5. f[Pick(s)] \in Int /\ g[Pick(s)] \in Int /\ f[Pick(s)] <= g[Pick(s)]
      BY <3>2
    <3> DEFINE i == f[Pick(s)]
               j == g[Pick(s)]
               k == u[s \ {Pick(s)}]
               l == v[s \ {Pick(s)}]
    <3>6. /\ i \in Int /\ j \in Int /\ i <= j /\ k \in Int /\ l \in Int /\ k <= l
          /\ u[s] = i + k /\ v[s] = j + l
      BY <3>3, <3>4, <3>5
    <3> HIDE DEF i, j, k, l
    <3>7. i + k \in Int /\ j + l \in Int /\ i + k <= j + l
      BY <3>6
    <3> QED
      BY <3>6, <3>7
  <2> QED
    BY <2>1
<1>4. Cardinality(S) \in B
  <2> HIDE DEF B
  <2>1. B \in SUBSET Nat
    BY DEF B
  <2>2. B = Nat
    BY <1>2, <1>3, <2>1, AllNumbers
  <2> QED
    BY <2>2, FS_CardinalityType
<1>5. Grows(S)
  BY <1>4
<1> QED
  BY <1>5 DEF SumOver, u, v

\* The sum of two terms.
LEMMA SumOfTwo ==
    ASSUME NEW a, NEW b, a # b, NEW g \in [{a, b} -> Int]
    PROVE  SumOver(g, {a, b}) = g[a] + g[b]
<1> DEFINE S == {a, b}
           h == SumOf(g, S)
<1>1. IsFiniteSet(S)
  <2>1. IsFiniteSet({a}) /\ S = {a} \cup {b}
    BY FS_Singleton
  <2> QED
    BY <2>1, FS_AddElement
<1>2. \A s \in SUBSET S : h[s] = SumStep(g, h, s)
  BY <1>1, SumUnfolds
<1> HIDE DEF h
<1>3. h[{}] = 0
  BY <1>2 DEF SumStep
<1>4. ASSUME NEW x \in S PROVE h[{x}] = g[x]
  <2>1. Pick({x}) = x /\ {x} \ {x} = {} /\ {x} \in SUBSET S
    BY DEF Pick
  <2>2. h[{x}] = g[x] + h[{}]
    BY <1>2, <2>1 DEF SumStep
  <2> QED
    BY <1>3, <2>2
<1>5. Pick(S) \in S
  BY DEF Pick
<1>6. h[S] = g[Pick(S)] + h[S \ {Pick(S)}]
  BY <1>2 DEF SumStep
<1>7. CASE Pick(S) = a
  <2>1. S \ {Pick(S)} = {b}
    BY <1>7
  <2> QED
    BY <1>4, <1>6, <1>7, <2>1 DEF SumOver, h
<1>8. CASE Pick(S) = b
  <2>1. S \ {Pick(S)} = {a}
    BY <1>8
  <2>2. h[S] = g[b] + g[a]
    BY <1>4, <1>6, <1>8, <2>1
  <2>3. g[a] \in Int /\ g[b] \in Int
    OBVIOUS
  <2>4. h[S] = g[a] + g[b]
    BY <2>2, <2>3
  <2> QED
    BY <2>4 DEF SumOver, h
<1> QED
  BY <1>5, <1>7, <1>8

(***************************************************************************)
(* Recovered money.                                                        *)
(***************************************************************************)
RecoveredRows(c) == {a \in Actions : Exists(a) /\ actions[a].case = c
                                     /\ actions[a].outcome = "recovered"}

\* A case that only runs have closed as recovered has the action that did it.
MoneyKept ==
    \A c \in Cases : cases[c].state = "RECOVERED" /\ cases[c].payment \notin disturbed =>
        RecoveredRows(c) # {}

\* A run that recovers a case leaves the outcome that says so.
LEMMA StepMoneyKept ==
    ASSUME AutopilotTypeOK, CaseInv, MoneyKept, RowStep
    PROVE  MoneyKept'
<1> USE DEF AutopilotTypeOK
<1>1. ASSUME NEW c \in Cases, NEW h \in PaymentRow, NEW pay \in PaymentRow, Runs(c, h, pay),
             NEW d \in Cases, cases'[d].state = "RECOVERED", cases'[d].payment \notin disturbed'
      PROVE  RecoveredRows(d)' # {}
  <2>1. PICK a \in Actions, row \in ActionRow, state \in CaseState :
          RunShape(c, h, a, row, state, pay)
    BY <1>1, RunIsShaped
  <2>2. /\ cases'[c].state = state /\ (d # c => cases'[d] = cases[d])
        /\ actions'[a] = row /\ Exists(a)' /\ row.case = c
        /\ \A b \in Actions : b # a => actions'[b] = actions[b] /\ (Exists(b)' <=> Exists(b))
    BY <2>1, RunPointwise DEF RunShape
  <2>3. UNCHANGED disturbed
    BY <1>1, RunIsShaped
  <2>4. CASE d = c
    <3>1. row.outcome = "recovered"
      BY <1>1, <2>1, <2>2, <2>4 DEF RunShape, Rests, Acts, Answered
    <3> QED
      BY <2>2, <2>4, <3>1 DEF RecoveredRows
  <2>5. CASE d # c
    <3>1. PICK b \in Actions : Exists(b) /\ actions[b].case = d /\ actions[b].outcome = "recovered"
      BY <1>1, <2>2, <2>3, <2>5 DEF MoneyKept, RecoveredRows
    <3>2. b # a
      BY <2>1, <2>5, <3>1 DEF RunShape, Chosen, Resumed
    <3> QED
      BY <2>2, <3>1, <3>2 DEF RecoveredRows
  <2> QED
    BY <2>4, <2>5
<1>2. ASSUME \A c \in Cases : RecoveredRows(c)' = RecoveredRows(c),
             \A c \in Cases : cases'[c].state = "RECOVERED" /\ cases'[c].payment \notin disturbed' =>
                cases[c].state = "RECOVERED" /\ cases[c].payment \notin disturbed
      PROVE  MoneyKept'
  BY <1>2 DEF MoneyKept
<1>3. ASSUME Ticks PROVE MoneyKept'
  <2>1. \A c \in Cases : RecoveredRows(c)' = RecoveredRows(c)
    BY <1>3, TickRows DEF RecoveredRows
  <2>2. UNCHANGED <<cases, disturbed>>
    BY <1>3 DEF Ticks
  <2> QED
    BY <1>2, <2>1, <2>2
<1>4. ASSUME NEW p \in Payments, Disturb(p) PROVE MoneyKept'
  <2>1. /\ UNCHANGED actions /\ disturbed' = disturbed \cup {p}
        /\ \A d \in Cases : cases'[d] = cases[d] \/ cases'[d].payment = p
    BY <1>4, DisturbPointwise
  <2>2. \A c \in Cases : RecoveredRows(c)' = RecoveredRows(c)
    BY <2>1 DEF RecoveredRows, Exists
  <2> QED
    BY <1>2, <2>1, <2>2
<1>5. ASSUME ResetDemo PROVE MoneyKept'
  BY <1>5 DEF ResetDemo, SeededCases, NoCase, MoneyKept, Absent
<1>6. ASSUME SeedAgain \/ BatchMoves PROVE MoneyKept'
  <2>1. UNCHANGED <<cases, actions>> /\ (disturbed = {} \/ disturbed' = disturbed)
    BY <1>6 DEF SeedAgain, BatchMoves, vars
  <2>2. \A c \in Cases : RecoveredRows(c)' = RecoveredRows(c)
    BY <2>1 DEF RecoveredRows, Exists
  <2> QED
    BY <1>2, <2>1, <2>2
<1> QED
  BY <1>1, <1>3, <1>4, <1>5, <1>6 DEF RowStep, MoneyKept

\* The amounts of a case: nothing, or what was at risk, and that once.
LEMMA AmountOnce ==
    ASSUME AutopilotTypeOK, CaseInv, NEW c \in Cases
    PROVE  /\ Amount(c) \in Nat
           /\ RecoveredAmount(c) = IF RecoveredRows(c) = {} THEN 0 ELSE Amount(c)
           /\ RecoveredRows(c) # {} => cases[c].state = "RECOVERED"
<1>1. Amount(c) \in Nat
  <2>1. cases[c].payment \in Payments
    BY DEF AutopilotTypeOK, TypeOK, CaseRow
  <2> QED
    BY <2>1 DEF Amount, AutopilotTypeOK, AtRiskPayment
<1>2. RecoveredAmount(c) = Cardinality(RecoveredRows(c)) * Amount(c)
  BY DEF RecoveredAmount, RecoveredRows, Amount
<1>3. CASE RecoveredRows(c) = {}
  <2>1. Cardinality(RecoveredRows(c)) = 0
    BY <1>3, FS_EmptySet
  <2> QED
    BY <1>1, <1>2, <1>3, <2>1
<1>4. CASE RecoveredRows(c) # {}
  <2>1. PICK a \in RecoveredRows(c) : TRUE
    BY <1>4
  <2>2. RecoveredRows(c) = {a} /\ cases[c].state = "RECOVERED"
    BY <2>1 DEF RecoveredRows, CaseInv, RecoveredOnce
  <2>3. Cardinality(RecoveredRows(c)) = 1
    BY <2>2, FS_Singleton
  <2> QED
    BY <1>1, <1>2, <1>4, <2>2, <2>3
<1> QED
  BY <1>1, <1>3, <1>4

\* The folds of the figures are such sums.
LEMMA AtRiskIsASum ==
    ASSUME NEW S
    PROVE  MapThenSumSet(Amount, S) = SumOver([c \in S |-> Amount(c)], S)
<1> DEFINE g == [c \in S |-> Amount(c)]
           Step(h, s) == IF s = {} THEN 0
                         ELSE Amount(CHOOSE x \in s : TRUE) + h[s \ {CHOOSE x \in s : TRUE}]
<1>1. MapThenSumSet(Amount, S) = (CHOOSE h : h = [s \in SUBSET S |-> Step(h, s)])[S]
  BY Zenon DEF MapThenSumSet, MapThenFoldSet
<1>2. ASSUME NEW h PROVE [s \in SUBSET S |-> Step(h, s)] = [s \in SUBSET S |-> SumStep(g, h, s)]
  <2>1. ASSUME NEW s \in SUBSET S, s # {} PROVE g[Pick(s)] = Amount(Pick(s))
    BY <2>1 DEF Pick
  <2> QED
    BY <2>1 DEF SumStep, Pick
<1>3. ASSUME NEW h PROVE h = [s \in SUBSET S |-> Step(h, s)] <=> Sums(g, S, h)
  BY <1>2, Zenon DEF Sums
<1>4. (CHOOSE h : h = [s \in SUBSET S |-> Step(h, s)]) = CHOOSE h : Sums(g, S, h)
  BY <1>3
<1> QED
  BY <1>1, <1>4 DEF SumOver, SumOf

\* The same for what was recovered.
LEMMA RecoveredIsASum ==
    ASSUME NEW S
    PROVE  MapThenSumSet(RecoveredAmount, S) = SumOver([c \in S |-> RecoveredAmount(c)], S)
<1> DEFINE g == [c \in S |-> RecoveredAmount(c)]
           Step(h, s) == IF s = {} THEN 0
                         ELSE RecoveredAmount(CHOOSE x \in s : TRUE) + h[s \ {CHOOSE x \in s : TRUE}]
<1>1. MapThenSumSet(RecoveredAmount, S) = (CHOOSE h : h = [s \in SUBSET S |-> Step(h, s)])[S]
  BY Zenon DEF MapThenSumSet, MapThenFoldSet
<1>2. ASSUME NEW h PROVE [s \in SUBSET S |-> Step(h, s)] = [s \in SUBSET S |-> SumStep(g, h, s)]
  <2>1. ASSUME NEW s \in SUBSET S, s # {} PROVE g[Pick(s)] = RecoveredAmount(Pick(s))
    BY <2>1 DEF Pick
  <2> QED
    BY <2>1 DEF SumStep, Pick
<1>3. ASSUME NEW h PROVE h = [s \in SUBSET S |-> Step(h, s)] <=> Sums(g, S, h)
  BY <1>2, Zenon DEF Sums
<1>4. (CHOOSE h : h = [s \in SUBSET S |-> Step(h, s)]) = CHOOSE h : Sums(g, S, h)
  BY <1>3
<1> QED
  BY <1>1, <1>4 DEF SumOver, SumOf

\* Whatever cases are put together, no more is recovered than was at risk.
LEMMA RecoveredWithinRisk ==
    ASSUME AutopilotTypeOK, CaseInv, IsFiniteSet(Cases), NEW S \in SUBSET Cases
    PROVE  /\ MapThenSumSet(RecoveredAmount, S) <= MapThenSumSet(Amount, S)
           /\ \A T \in SUBSET S : Cardinality(T) <= Cardinality(S)
<1> DEFINE f == [c \in S |-> RecoveredAmount(c)]
           g == [c \in S |-> Amount(c)]
<1>1. IsFiniteSet(S)
  BY FS_Subset
<1>2. ASSUME NEW c \in S
      PROVE  RecoveredAmount(c) \in Int /\ Amount(c) \in Int /\ RecoveredAmount(c) <= Amount(c)
  <2> DEFINE risk == Amount(c)
             back == RecoveredAmount(c)
  <2>1. risk \in Nat /\ (back = 0 \/ back = risk)
    BY AmountOnce
  <2> HIDE DEF risk, back
  <2>2. back \in Int /\ risk \in Int /\ back <= risk
    BY <2>1
  <2> QED
    BY <2>2 DEF risk, back
<1>3. f \in [S -> Int] /\ g \in [S -> Int] /\ \A c \in S : f[c] <= g[c]
  BY <1>2
<1>4. SumOver(f, S) <= SumOver(g, S)
  <2> HIDE DEF f, g
  <2> QED
    BY <1>1, <1>3, SumGrows
<1> QED
  BY <1>1, <1>4, AtRiskIsASum, RecoveredIsASum, FS_Subset

\* The figures agree with the rows whenever these invariants hold.
LEMMA RatesFollow ==
    ASSUME AutopilotTypeOK, CaseInv, MoneyKept, IsFiniteSet(Cases)
    PROVE  HonestRates
<1> DEFINE Under(r) == {c \in ExistingCases : ResolveFailureReason(c) = r}
<1>1. ASSUME NEW r \in FailureReason
      PROVE  /\ Overview.byReason[r].recovered = MapThenSumSet(RecoveredAmount, Under(r))
             /\ Overview.byReason[r].atRisk = MapThenSumSet(Amount, Under(r))
             /\ Overview.byReason[r].recoveredCases
                  = Cardinality({c \in Under(r) : RecoveredAmount(c) > 0})
             /\ Overview.byReason[r].cases = Cardinality(Under(r))
  BY DEF Overview, ByFailureReason
<1>2. ASSUME NEW r \in FailureReason
      PROVE  /\ Overview.byReason[r].recovered <= Overview.byReason[r].atRisk
             /\ Overview.byReason[r].recoveredCases <= Overview.byReason[r].cases
  <2> DEFINE S == Under(r)
             T == {c \in S : RecoveredAmount(c) > 0}
  <2>1. S \in SUBSET Cases /\ T \in SUBSET S
    BY DEF ExistingCases
  <2>2. /\ Overview.byReason[r].recovered = MapThenSumSet(RecoveredAmount, S)
        /\ Overview.byReason[r].atRisk = MapThenSumSet(Amount, S)
        /\ Overview.byReason[r].recoveredCases = Cardinality(T)
        /\ Overview.byReason[r].cases = Cardinality(S)
    BY <1>1
  <2> HIDE DEF S, T
  <2>3. /\ MapThenSumSet(RecoveredAmount, S) <= MapThenSumSet(Amount, S)
        /\ Cardinality(T) <= Cardinality(S)
    BY <2>1, RecoveredWithinRisk
  <2> QED
    BY <2>2, <2>3
<1>3. Overview.revenue.recovered <= Overview.revenue.atRisk
  <2>1. /\ Overview.revenue.recovered = MapThenSumSet(RecoveredAmount, ExistingCases)
        /\ Overview.revenue.atRisk = MapThenSumSet(Amount, ExistingCases)
    BY DEF Overview, Revenue
  <2>2. ExistingCases \in SUBSET Cases
    BY DEF ExistingCases
  <2> QED
    BY <2>1, <2>2, RecoveredWithinRisk
<1>4. ASSUME NEW c \in ExistingCases, cases[c].payment \notin disturbed
      PROVE  RecoveredAmount(c) = IF cases[c].state = "RECOVERED" THEN Amount(c) ELSE 0
  <2>1. c \in Cases
    BY DEF ExistingCases
  <2>2. cases[c].state = "RECOVERED" <=> RecoveredRows(c) # {}
    BY <1>4, <2>1, AmountOnce DEF MoneyKept
  <2> QED
    BY <2>1, <2>2, AmountOnce
<1> QED
  BY <1>2, <1>3, <1>4 DEF HonestRates

\* No rate exceeds one, for any finite number of cases: every recovered amount is
\* an amount that was at risk, of the same case and under the same cause, and a
\* case only runs have closed as recovered has its money.
THEOREM RatesAreHonest == ASSUME IsFiniteSet(Cases) PROVE ASpec => []HonestRates
<1> DEFINE Money == DemoInv /\ MoneyKept
<1>1. AInit => Money
  <2>1. AInit => DemoInv
    BY InitDemoInv
  <2>2. AInit => MoneyKept
    BY DEF AInit, SeededCases, NoCase, MoneyKept, Absent
  <2> QED
    BY <2>1, <2>2
<1>2. Money /\ [ANext]_avars => Money'
  BY StepDemoInv, EveryStep, StepMoneyKept DEF DemoInv
<1>3. Money => HonestRates
  BY RatesFollow DEF DemoInv
<1> QED
  BY <1>1, <1>2, <1>3, PTL DEF ASpec

(***************************************************************************)
(* Selections.                                                             *)
(***************************************************************************)
\* Disjoint sets of actions are counted one after the other.
LEMMA CountBoth ==
    ASSUME NEW S \in SUBSET Actions, NEW T \in SUBSET Actions, S \cap T = {}
    PROVE  /\ Cardinality(S \cup T) = Cardinality(S) + Cardinality(T)
           /\ Cardinality(S) \in Nat /\ Cardinality(T) \in Nat
<1>1. IsFiniteSet(S) /\ IsFiniteSet(T)
  BY ConstantsAssumption, FS_Subset
<1>2. Cardinality(S \cup T) = Cardinality(S) + Cardinality(T) - Cardinality(S \cap T)
  BY <1>1, FS_Union
<1>3. Cardinality(S) \in Nat /\ Cardinality(T) \in Nat
  BY <1>1, FS_CardinalityType
<1>4. Cardinality(S \cap T) = 0
  BY FS_EmptySet
<1> QED
  BY <1>2, <1>3, <1>4

\* As many cases as actions, if each of the actions has one of the cases to itself.
LEMMA CountMatched ==
    ASSUME NEW S \in SUBSET Actions, NEW T,
           \A a \in S : actions[a].case \in T,
           \A a, b \in S : actions[a].case = actions[b].case => a = b,
           \A c \in T : \E a \in S : actions[a].case = c
    PROVE  IsFiniteSet(T) /\ Cardinality(T) = Cardinality(S)
<1> DEFINE f == [a \in S |-> actions[a].case]
<1>1. f \in Bijection(S, T)
  BY DEF Bijection, Injection, Surjection, IsInjective
<1>2. ExistsBijection(S, T)
  BY <1>1 DEF ExistsBijection
<1>3. IsFiniteSet(S)
  BY ConstantsAssumption, FS_Subset
<1> QED
  BY <1>2, <1>3, FS_Bijection

\* The rows of a type, and what became of them.
OfType(t)     == {a \in Actions : Exists(a) /\ actions[a].type = t}
Executions(t) == {a \in OfType(t) : actions[a].executed}
Judged(t, o)  == {a \in OfType(t) : PolicyOutcomeOf(a) = o}
Ended(t, o)   == {a \in OfType(t) : actions[a].outcome = o}
Waiting(t)    == {a \in OfType(t) : Pending(a)}

\* The overview counts exactly these rows.
LEMMA ByActionCounts ==
    ASSUME NEW t \in ActionType
    PROVE  LET b == Overview.byAction[t]
           IN  /\ b.selected = Cardinality(OfType(t))
               /\ b.executed = Cardinality(Executions(t))
               /\ b.blocked = Cardinality(Judged(t, "BLOCKED"))
               /\ b.escalated = Cardinality(Judged(t, "ESCALATED"))
               /\ b.successes = Cardinality(Ended(t, "recovered"))
               /\ b.failures = Cardinality(Ended(t, "unrecovered"))
  BY DEF Overview, ByAction, OfType, Executions, Judged, Ended

\* A row is executed, refused by the gate, handed over, or waits.
LEMMA TypeIsAccounted ==
    ASSUME AutopilotTypeOK, RowsFiled, NEW t \in ActionType
    PROVE  /\ t \notin TerminalActions =>
                Cardinality(OfType(t)) - Cardinality(Executions(t))
                  = Cardinality(Judged(t, "BLOCKED")) + Cardinality(Judged(t, "ESCALATED"))
                      + Cardinality(Waiting(t))
           /\ t # "RETRY_LATER" => Cardinality(Waiting(t)) = 0
           /\ t \in TerminalActions =>
                /\ Cardinality(Executions(t)) = 0
                /\ Cardinality(OfType(t)) - Cardinality(Judged(t, "BLOCKED"))
                     - Cardinality(Judged(t, "ESCALATED")) = Cardinality(Judged(t, "APPROVED"))
           /\ Cardinality(Ended(t, "recovered")) + Cardinality(Ended(t, "unrecovered"))
                = Cardinality(Executions(t))
<1> DEFINE X == Executions(t)
           B == Judged(t, "BLOCKED")
           E == Judged(t, "ESCALATED")
           A == Judged(t, "APPROVED")
           W == Waiting(t)
           R == Ended(t, "recovered")
           U == Ended(t, "unrecovered")
<1>1. \A a \in OfType(t) : Filed(actions[a]) /\ Exists(a) /\ actions[a] \in ActionRow /\ actions[a].type = t
  BY DEF OfType, RowsFiled, AutopilotTypeOK, TypeOK
<1>2. /\ X \in SUBSET Actions /\ B \in SUBSET Actions /\ E \in SUBSET Actions
      /\ A \in SUBSET Actions /\ W \in SUBSET Actions
      /\ R \in SUBSET Actions /\ U \in SUBSET Actions
      /\ OfType(t) = A \cup (B \cup E)
  BY DEF Executions, Judged, Waiting, Ended, OfType, PolicyOutcomeOf
<1>3. /\ A \cap (B \cup E) = {} /\ B \cap E = {} /\ R \cap U = {}
  BY DEF Judged, Ended
<1>4. X \cap (B \cup E) = {} /\ X \cap W = {} /\ W \cap (B \cup E) = {}
  BY <1>1 DEF Executions, Judged, Waiting, Filed, PolicyOutcomeOf, Pending, Refused
<1>5. t \notin TerminalActions => OfType(t) = X \cup (W \cup (B \cup E))
  BY <1>1 DEF Executions, Judged, Waiting, Filed, PolicyOutcomeOf, Pending, Refused
<1>6. R \cup U = X
  BY <1>1 DEF Executions, Ended, Filed, ActionRow, Outcome, None
<1>7. (t # "RETRY_LATER" => W = {}) /\ (t \in TerminalActions => X = {})
  BY <1>1 DEF Executions, Waiting, Filed, Pending
<1> HIDE DEF X, B, E, A, W, R, U
<1>8. /\ Cardinality(B \cup E) = Cardinality(B) + Cardinality(E)
      /\ Cardinality(R \cup U) = Cardinality(R) + Cardinality(U)
      /\ Cardinality(B) \in Nat /\ Cardinality(E) \in Nat
  BY <1>2, <1>3, CountBoth
<1>9. /\ B \cup E \in SUBSET Actions /\ W \cup (B \cup E) \in SUBSET Actions
      /\ X \cap (W \cup (B \cup E)) = {}
  BY <1>2, <1>4
<1>10. /\ Cardinality(A \cup (B \cup E)) = Cardinality(A) + Cardinality(B \cup E)
       /\ Cardinality(A) \in Nat
  BY <1>2, <1>3, <1>9, CountBoth
<1>11. /\ Cardinality(W \cup (B \cup E)) = Cardinality(W) + Cardinality(B \cup E)
       /\ Cardinality(W) \in Nat
  BY <1>2, <1>4, <1>9, CountBoth
<1>12. /\ Cardinality(X \cup (W \cup (B \cup E))) = Cardinality(X) + Cardinality(W \cup (B \cup E))
       /\ Cardinality(X) \in Nat
  BY <1>2, <1>9, CountBoth
<1>13. t \notin TerminalActions =>
          Cardinality(OfType(t)) - Cardinality(X) = Cardinality(B) + Cardinality(E) + Cardinality(W)
  <2>1. t \notin TerminalActions =>
          Cardinality(OfType(t)) = Cardinality(X \cup (W \cup (B \cup E)))
    BY <1>5
  <2> DEFINE b == Cardinality(B)
             e == Cardinality(E)
             w == Cardinality(W)
             x == Cardinality(X)
             n == Cardinality(X \cup (W \cup (B \cup E)))
  <2>2. b \in Nat /\ e \in Nat /\ w \in Nat /\ x \in Nat /\ n = x + (w + (b + e))
    BY <1>8, <1>11, <1>12
  <2> HIDE DEF b, e, w, x, n
  <2>3. n - x = b + e + w
    BY <2>2
  <2> QED
    BY <2>1, <2>3 DEF b, e, w, x, n
<1>14. Cardinality(OfType(t)) - Cardinality(B) - Cardinality(E) = Cardinality(A)
  BY <1>2, <1>8, <1>10
<1>15. (t # "RETRY_LATER" => Cardinality(W) = 0) /\ (t \in TerminalActions => Cardinality(X) = 0)
  BY <1>7, FS_EmptySet
<1>16. Cardinality(R) + Cardinality(U) = Cardinality(X)
  BY <1>6, <1>8
<1> QED
  BY <1>13, <1>14, <1>15, <1>16 DEF X, B, E, A, W, R, U

Overtaken == {a \in Actions : Pending(a) /\ cases[actions[a].case].state = "RECOVERED"}
Scheduled == {c \in Cases : cases[c].state = "SCHEDULED"}

\* A retry waits for its scheduled case, or was overtaken by a capture.
LEMMA WaitingIsAccounted ==
    ASSUME AutopilotTypeOK, CaseInv, RowsFiled
    PROVE  Cardinality(Waiting("RETRY_LATER")) = Cardinality(Scheduled) + Cardinality(Overtaken)
<1> DEFINE S == {a \in Actions : Pending(a) /\ cases[actions[a].case].state = "SCHEDULED"}
<1>1. ASSUME NEW a \in Actions, Pending(a)
      PROVE  /\ actions[a].type = "RETRY_LATER" /\ Exists(a) /\ actions[a].case \in Cases
             /\ cases[actions[a].case].state \in {"SCHEDULED", "RECOVERED"}
  BY <1>1 DEF Pending, RowsFiled, Filed, AutopilotTypeOK, TypeOK, ActionRow, CaseInv,
              ScheduledCaseAwaitsOne
<1>2. Waiting("RETRY_LATER") = S \cup Overtaken
  BY <1>1 DEF Waiting, OfType, Overtaken
<1>3. S \in SUBSET Actions /\ Overtaken \in SUBSET Actions /\ S \cap Overtaken = {}
  BY DEF Overtaken
<1>4. /\ \A a \in S : actions[a].case \in Scheduled
      /\ \A a, b \in S : actions[a].case = actions[b].case => a = b
      /\ \A c \in Scheduled : \E a \in S : actions[a].case = c
  <2>1. \A a \in S : actions[a].case \in Scheduled
    BY <1>1 DEF Scheduled
  <2>2. \A a, b \in S : actions[a].case = actions[b].case => a = b
    BY DEF CaseInv, ScheduledCaseAwaitsOne
  <2>3. ASSUME NEW c \in Scheduled PROVE \E a \in S : actions[a].case = c
    BY DEF Scheduled, CaseInv, ScheduledCaseAwaitsOne, PendingActions
  <2> QED
    BY <2>1, <2>2, <2>3
<1> HIDE DEF S
<1>5. Cardinality(Scheduled) = Cardinality(S)
  BY <1>3, <1>4, CountMatched
<1>6. Cardinality(S \cup Overtaken) = Cardinality(S) + Cardinality(Overtaken)
  BY <1>3, CountBoth
<1> QED
  BY <1>2, <1>5, <1>6

Verdicts(o) == {a \in Actions : Exists(a) /\ PolicyOutcomeOf(a) = o}
InState(s)  == {c \in Cases : cases[c].state = s}

\* Every refusal and every handing over closed one case.
LEMMA ClosingsAreAccounted ==
    ASSUME AutopilotTypeOK, ClosedByOne
    PROVE  Cardinality(InState("STOPPED")) + Cardinality(InState("ESCALATED"))
             = Cardinality(Verdicts("BLOCKED")) + Cardinality(Verdicts("ESCALATED"))
                 + (Cardinality(Judged("ESCALATE_HUMAN", "APPROVED"))
                      + Cardinality(Judged("STOP", "APPROVED")))
<1> DEFINE B == Verdicts("BLOCKED")
           E == Verdicts("ESCALATED")
           H == Judged("ESCALATE_HUMAN", "APPROVED")
           N == Judged("STOP", "APPROVED")
           C == {a \in Actions : Closing(a)}
           S == InState("STOPPED")
           T == InState("ESCALATED")
<1>1. /\ B \in SUBSET Actions /\ E \in SUBSET Actions /\ H \in SUBSET Actions
      /\ N \in SUBSET Actions /\ C \in SUBSET Actions
  BY DEF Verdicts, Judged, OfType
<1>2. B \cap E = {} /\ H \cap N = {} /\ (B \cup E) \cap (H \cup N) = {}
  BY DEF Verdicts, Judged, OfType
<1>3. C = (B \cup E) \cup (H \cup N)
  BY DEF Verdicts, Judged, OfType, Closing, Closes, PolicyOutcomeOf, Refused, TerminalActions
<1>4. S \cap T = {} /\ S \subseteq S \cup T /\ T \subseteq S \cup T
  BY DEF InState
<1>5. /\ \A a \in C : actions[a].case \in S \cup T
      /\ \A a, b \in C : actions[a].case = actions[b].case => a = b
      /\ \A c \in S \cup T : \E a \in C : actions[a].case = c
  <2>1. \A a \in C : actions[a].case \in S \cup T
    BY DEF ClosedByOne, InState, Closed, AutopilotTypeOK, TypeOK, ActionRow
  <2>2. \A a, b \in C : actions[a].case = actions[b].case => a = b
    BY DEF ClosedByOne
  <2>3. ASSUME NEW c \in S \cup T PROVE \E a \in C : actions[a].case = c
    BY DEF ClosedByOne, InState, Closed
  <2> QED
    BY <2>1, <2>2, <2>3
<1> HIDE DEF B, E, H, N, C, S, T
<1>6. IsFiniteSet(S \cup T) /\ Cardinality(S \cup T) = Cardinality(C)
  BY <1>1, <1>5, CountMatched
<1>7. Cardinality(S \cup T) = Cardinality(S) + Cardinality(T)
  <2>1. IsFiniteSet(S) /\ IsFiniteSet(T)
    BY <1>4, <1>6, FS_Subset
  <2>2. Cardinality(S \cup T) = Cardinality(S) + Cardinality(T) - Cardinality(S \cap T)
    BY <2>1, FS_Union
  <2>3. Cardinality(S \cap T) = 0 /\ Cardinality(S) \in Nat /\ Cardinality(T) \in Nat
    BY <1>4, <2>1, FS_EmptySet, FS_CardinalityType
  <2> QED
    BY <2>2, <2>3
<1>8. /\ Cardinality(B \cup E) = Cardinality(B) + Cardinality(E)
      /\ Cardinality(H \cup N) = Cardinality(H) + Cardinality(N)
  BY <1>1, <1>2, CountBoth
<1>9. Cardinality((B \cup E) \cup (H \cup N)) = Cardinality(B \cup E) + Cardinality(H \cup N)
  <2>1. B \cup E \in SUBSET Actions /\ H \cup N \in SUBSET Actions
    BY <1>1
  <2> QED
    BY <1>2, <2>1, CountBoth
<1>10. Cardinality(S) + Cardinality(T)
         = Cardinality(B) + Cardinality(E) + (Cardinality(H) + Cardinality(N))
  BY <1>3, <1>6, <1>7, <1>8, <1>9
<1> QED
  BY <1>10 DEF B, E, H, N, S, T

\* What the command center calls handed over: selected and not refused.
HandedOver(t) ==
    Overview.byAction[t].selected - Overview.byAction[t].blocked - Overview.byAction[t].escalated

\* Its sum over the two actions that move no money is one of two terms.
LEMMA HandedOverIsASum ==
    ASSUME HandedOver("ESCALATE_HUMAN") \in Int, HandedOver("STOP") \in Int
    PROVE  MapThenSumSet(HandedOver, TerminalActions) = HandedOver("ESCALATE_HUMAN") + HandedOver("STOP")
<1> DEFINE S == TerminalActions
           g == [t \in S |-> HandedOver(t)]
           Step(h, s) == IF s = {} THEN 0
                         ELSE HandedOver(CHOOSE x \in s : TRUE) + h[s \ {CHOOSE x \in s : TRUE}]
<1>1. MapThenSumSet(HandedOver, S) = (CHOOSE h : h = [s \in SUBSET S |-> Step(h, s)])[S]
  BY Zenon DEF MapThenSumSet, MapThenFoldSet
<1>2. ASSUME NEW h PROVE [s \in SUBSET S |-> Step(h, s)] = [s \in SUBSET S |-> SumStep(g, h, s)]
  <2>1. ASSUME NEW s \in SUBSET S, s # {} PROVE g[Pick(s)] = HandedOver(Pick(s))
    BY <2>1 DEF Pick
  <2> QED
    BY <2>1 DEF SumStep, Pick
<1>3. ASSUME NEW h PROVE h = [s \in SUBSET S |-> Step(h, s)] <=> Sums(g, S, h)
  BY <1>2, Zenon DEF Sums
<1>4. (CHOOSE h : h = [s \in SUBSET S |-> Step(h, s)]) = CHOOSE h : Sums(g, S, h)
  BY <1>3
<1>5. MapThenSumSet(HandedOver, S) = SumOver(g, S)
  BY <1>1, <1>4 DEF SumOver, SumOf
<1>6. /\ S = {"ESCALATE_HUMAN", "STOP"} /\ "ESCALATE_HUMAN" # "STOP"
      /\ g \in [{"ESCALATE_HUMAN", "STOP"} -> Int]
      /\ g["ESCALATE_HUMAN"] = HandedOver("ESCALATE_HUMAN") /\ g["STOP"] = HandedOver("STOP")
  BY DEF TerminalActions
<1> HIDE DEF g, S
<1>7. SumOver(g, {"ESCALATE_HUMAN", "STOP"}) = g["ESCALATE_HUMAN"] + g["STOP"]
  BY <1>6, SumOfTwo
<1> QED
  BY <1>5, <1>6, <1>7 DEF S

\* The figures add up whenever the rows are filed.
LEMMA SelectionsFollow ==
    ASSUME AutopilotTypeOK, CaseInv, RowsFiled, ClosedByOne
    PROVE  SelectionsAccounted
<1>1. /\ Overview.recovery.stopped = Cardinality(InState("STOPPED"))
      /\ Overview.recovery.escalated = Cardinality(InState("ESCALATED"))
      /\ Overview.scheduled = Cardinality(Scheduled)
  BY DEF Overview, Recoveries, CasesByState, InState, Scheduled, CaseState
<1>2. /\ Overview.policy["BLOCKED"] = Cardinality(Verdicts("BLOCKED"))
      /\ Overview.policy["ESCALATED"] = Cardinality(Verdicts("ESCALATED"))
  BY DEF Overview, Verdicts, PolicyOutcome
<1>3. ASSUME NEW t \in TerminalActions
      PROVE  HandedOver(t) = Cardinality(Judged(t, "APPROVED")) /\ HandedOver(t) \in Int
  <2>1. t \in ActionType
    BY DEF TerminalActions, ActionType
  <2>2. HandedOver(t) = Cardinality(OfType(t)) - Cardinality(Judged(t, "BLOCKED"))
                          - Cardinality(Judged(t, "ESCALATED"))
    BY <2>1, ByActionCounts DEF HandedOver
  <2>3. HandedOver(t) = Cardinality(Judged(t, "APPROVED"))
    BY <2>1, <2>2, TypeIsAccounted
  <2>4. Judged(t, "APPROVED") \in SUBSET Actions
    BY DEF Judged, OfType
  <2> QED
    BY <2>3, <2>4, CountActions
<1>4. MapThenSumSet(HandedOver, TerminalActions)
        = Cardinality(Judged("ESCALATE_HUMAN", "APPROVED")) + Cardinality(Judged("STOP", "APPROVED"))
  BY <1>3, HandedOverIsASum DEF TerminalActions
<1>5. Overview.recovery.stopped + Overview.recovery.escalated
        = Overview.policy["BLOCKED"] + Overview.policy["ESCALATED"]
            + MapThenSumSet(HandedOver, TerminalActions)
  BY <1>1, <1>2, <1>4, ClosingsAreAccounted
<1>6. ASSUME NEW t \in ActionType
      PROVE  LET b == Overview.byAction[t]
                 waiting == IF t = "RETRY_LATER" THEN Overview.scheduled + Cardinality(Overtaken) ELSE 0
             IN  /\ t \notin TerminalActions =>
                      b.selected - b.executed = b.blocked + b.escalated + waiting
                 /\ t \in TerminalActions => b.executed = 0
                 /\ b.successes + b.failures = b.executed
  <2>1. Cardinality(Waiting(t))
          = IF t = "RETRY_LATER" THEN Overview.scheduled + Cardinality(Overtaken) ELSE 0
    BY <1>1, TypeIsAccounted, WaitingIsAccounted
  <2> QED
    BY <2>1, ByActionCounts, TypeIsAccounted
<1> QED
  BY <1>5, <1>6, Zenon DEF SelectionsAccounted, HandedOver, Overtaken

\* Nothing that was selected goes missing, and each refusal and each handing over
\* closed one case, for any number of payments and actions.
THEOREM SelectionsAddUp == ASpec => []SelectionsAccounted
<1>1. FiledInv => SelectionsAccounted
  BY SelectionsFollow DEF FiledInv, DemoInv
<1> QED
  BY <1>1, FiledInvariance, PTL

(***************************************************************************)
(* Failures of a case under way.  The gate refuses a payment at its limit, *)
(* and what it scheduled keeps the room it was approved with: the bound of *)
(* the recovery core holds under seeding and a driven clock as well.       *)
(***************************************************************************)
FailureCount(c) == Cardinality(Failures(cases[c].payment))

\* It is a number, and only the case's payment matters for it.
LEMMA CountOfCase ==
    ASSUME NEW c, NEW p, p = cases[c].payment
    PROVE  FailureCount(c) = Cardinality(Failures(p)) /\ FailureCount(c) \in Nat
<1>1. Failures(p) \in SUBSET Actions
  BY DEF Failures
<1> QED
  BY <1>1, CountActions DEF FailureCount

\* The same after a step.
LEMMA CountOfCaseNext ==
    ASSUME NEW c, NEW p, p = cases'[c].payment
    PROVE  FailureCount(c)' = Cardinality(Failures(p)') /\ FailureCount(c)' \in Nat
<1>1. Failures(p)' \in SUBSET Actions
  BY DEF Failures
<1>2. FailureCount(c)' = Cardinality(Failures(p)')
  BY DEF FailureCount, Failures
<1> QED
  BY <1>1, <1>2, CountActions

\* A run adds its action to the failures of the payment, if it failed.
LEMMA RunFailures ==
    ASSUME AutopilotTypeOK, CaseInv, RowsFiled, NEW c \in Cases, NEW h \in PaymentRow,
           NEW a \in Actions, NEW row \in ActionRow, NEW state \in CaseState, NEW pay \in PaymentRow,
           RunShape(c, h, a, row, state, pay), NEW p, p = cases[c].payment
    PROVE  /\ \A q : q # p => Failures(q)' = Failures(q)
           /\ Cardinality(Failures(p)) \in Nat
           /\ Cardinality(Failures(p)') =
                IF state = "FAILED" THEN Cardinality(Failures(p)) + 1 ELSE Cardinality(Failures(p))
<1> USE DEF AutopilotTypeOK
<1>1. ~Exists(a) \/ actions[a].outcome = None
  <2>1. CASE Chosen(c, h, a, row)
    BY <2>1 DEF Chosen
  <2>2. CASE Resumed(c, a, row)
    BY <2>2 DEF Resumed, Pending, RowsFiled, Filed
  <2> QED
    BY <2>1, <2>2 DEF RunShape
<1>2. row.outcome = "unrecovered" <=> state = "FAILED"
  BY DEF RunShape, Rests, Acts, Answered, None
<1>3. /\ \A d \in Cases : cases'[d].payment = cases[d].payment
      /\ actions'[a] = row /\ Exists(a)' /\ row.case = c
      /\ \A b \in Actions : b # a => actions'[b] = actions[b] /\ (Exists(b)' <=> Exists(b))
  BY RunPointwise DEF RunShape
<1>4. \A b \in Actions : b # a => PaymentOf(b)' = PaymentOf(b)
  BY <1>3 DEF PaymentOf, TypeOK, ActionRow
<1>5. PaymentOf(a)' = p
  BY <1>3 DEF PaymentOf
<1>6. \A q : a \notin Failures(q)
  BY <1>1 DEF Failures, None
<1>7. \A q : q # p \/ state # "FAILED" => Failures(q)' = Failures(q)
  BY <1>1, <1>2, <1>3, <1>4, <1>5 DEF Failures, None
<1>8. state = "FAILED" => Failures(p)' = Failures(p) \cup {a}
  BY <1>2, <1>3, <1>4, <1>5 DEF Failures
<1>9. IsFiniteSet(Failures(p)) /\ Cardinality(Failures(p)) \in Nat
  BY ConstantsAssumption, FS_Subset, FS_CardinalityType DEF Failures
<1>10. Cardinality(Failures(p) \cup {a}) = Cardinality(Failures(p)) + 1
  BY <1>6, <1>9, FS_AddElement
<1> QED
  BY <1>7, <1>8, <1>9, <1>10

\* What was not refused has room for one more failure: the gate counts the rows,
\* whatever payment the run has in hand.
LEMMA ChosenHasRoom ==
    ASSUME NEW c \in Cases, NEW h, NEW a, NEW row, Chosen(c, h, a, row), ~Closes(row),
           NEW p, p = cases[c].payment
    PROVE  ~(Cardinality(Failures(p)) >= RepeatedFailureLimit)
<1>1. RowVerdict(row) = "APPROVED" /\ row.type \notin TerminalActions
  BY DEF Closes, RowVerdict, Refused
<1>2. PolicyVerdict(ContextFrom(h, p), row.type) = "APPROVED"
  BY <1>1 DEF Chosen
<1> QED
  BY <1>1, <1>2, ApprovedIsSafe DEF ContextFrom

\* Whoever else takes a step adds no failure, but a reset, which forgets them.
LEMMA OtherFailures ==
    ASSUME AutopilotTypeOK, CaseInv, RowsKept, RowStep, ~SomeRun, ~ResetDemo
    PROVE  \A q : Failures(q)' = Failures(q)
<1> USE DEF AutopilotTypeOK
<1>1. \A b \in Actions : (Exists(b)' <=> Exists(b)) /\ actions'[b].outcome = actions[b].outcome
                         /\ actions'[b].case = actions[b].case
  <2>1. CASE Ticks
    BY <2>1, TickRows
  <2>2. CASE UNCHANGED actions
    BY <2>2 DEF Exists
  <2>3. ASSUME (\E p \in Payments : Disturb(p)) \/ SeedAgain \/ BatchMoves PROVE UNCHANGED actions
    BY <2>3, DisturbPointwise DEF SeedAgain, BatchMoves, vars
  <2> QED
    BY <2>1, <2>2, <2>3 DEF RowStep, SomeRun
<1>2. ASSUME NEW b \in Actions, Exists(b) PROVE PaymentOf(b)' = PaymentOf(b)
  <2>1. actions[b].case \in Cases /\ cases[actions[b].case].state # Absent
    BY <1>2 DEF RowsKept, TypeOK, ActionRow
  <2>2. cases'[actions[b].case].payment = cases[actions[b].case].payment
    BY <2>1, CasesStay
  <2> QED
    BY <1>1, <2>2 DEF PaymentOf
<1> QED
  BY <1>1, <1>2 DEF Failures

\* A run keeps to the limit, and leaves room for what it schedules.
LEMMA RunKeepsRoom ==
    ASSUME AutopilotTypeOK, CaseInv, RowsFiled, FailuresWithinLimit, RoomToFail,
           NEW c \in Cases, NEW h \in PaymentRow, NEW pay \in PaymentRow, Runs(c, h, pay)
    PROVE  FailuresWithinLimit' /\ RoomToFail'
<1> USE DEF AutopilotTypeOK
<1>1. PICK a \in Actions, row \in ActionRow, state \in CaseState :
        RunShape(c, h, a, row, state, pay) /\ (Closes(row) <=> state \in Closed)
  BY RunIsShaped, RunFiles
<1>2. PICK p \in Payments : p = cases[c].payment
  BY DEF TypeOK, CaseRow
<1>3. /\ \A q : q # p => Failures(q)' = Failures(q)
      /\ Cardinality(Failures(p)) \in Nat
      /\ Cardinality(Failures(p)') =
           IF state = "FAILED" THEN Cardinality(Failures(p)) + 1 ELSE Cardinality(Failures(p))
  BY <1>1, <1>2, RunFailures
<1>4. state \in {"FAILED", "SCHEDULED"} => Cardinality(Failures(p)) < RepeatedFailureLimit
  <2>1. ASSUME Chosen(c, h, a, row), state \in {"FAILED", "SCHEDULED"}
        PROVE  Cardinality(Failures(p)) < RepeatedFailureLimit
    <3>1. ~(Cardinality(Failures(p)) >= RepeatedFailureLimit)
      BY <1>1, <1>2, <2>1, ChosenHasRoom DEF Closed
    <3> QED
      BY <1>3, <3>1, SettingsAssumption
  <2>2. ASSUME Resumed(c, a, row) PROVE Cardinality(Failures(p)) < RepeatedFailureLimit
    BY <1>2, <2>2 DEF Resumed, RoomToFail
  <2> QED
    BY <1>1, <2>1, <2>2 DEF RunShape
<1>5. FailuresWithinLimit'
  <2>1. Failures(p)' # {} => Cardinality(Failures(p)') <= RepeatedFailureLimit
    <3>1. CASE state = "FAILED"
      BY <1>3, <1>4, <3>1, SettingsAssumption
    <3>2. CASE state # "FAILED"
      <4>1. Failures(p)' # {} => Cardinality(Failures(p)') # 0
        BY ConstantsAssumption, FS_Subset, FS_EmptySet DEF Failures
      <4>2. Failures(p) = {} => Cardinality(Failures(p)) = 0
        BY FS_EmptySet
      <4> QED
        BY <1>3, <3>2, <4>1, <4>2 DEF FailuresWithinLimit
    <3> QED
      BY <3>1, <3>2
  <2> QED
    BY <1>3, <2>1 DEF FailuresWithinLimit
<1>6. RoomToFail'
  <2>1. /\ cases'[c].state = state /\ cases'[c].payment = p /\ Open(c)
        /\ \A d \in Cases : d # c => cases'[d] = cases[d]
    BY <1>1, <1>2, RunPointwise DEF Open, TerminalStates, Absent
  <2>2. ASSUME NEW d \in Cases, cases'[d].state = "SCHEDULED"
        PROVE  Cardinality(Failures(cases[d].payment)') < RepeatedFailureLimit
               /\ cases'[d].payment = cases[d].payment
    <3>1. CASE d = c
      BY <1>2, <1>3, <1>4, <2>1, <2>2, <3>1
    <3>2. CASE d # c
      <4>1. PICK q : q = cases[d].payment
        OBVIOUS
      <4>2. q # p
        BY <1>2, <2>1, <2>2, <3>2, <4>1
           DEF CaseInv, OneOpenCase, Open, TerminalStates, Absent
      <4>3. Failures(q)' = Failures(q)
        BY <1>3, <4>2
      <4> QED
        BY <2>1, <2>2, <3>2, <4>1, <4>3 DEF RoomToFail
    <3> QED
      BY <3>1, <3>2
  <2> QED
    BY <2>2 DEF RoomToFail, Failures
<1> QED
  BY <1>5, <1>6

\* So do all steps.
LEMMA StepFailures ==
    ASSUME AutopilotTypeOK, CaseInv, RowsKept, RowsFiled, FailuresWithinLimit, RoomToFail, RowStep
    PROVE  FailuresWithinLimit' /\ RoomToFail'
<1> USE DEF AutopilotTypeOK
<1>1. CASE SomeRun
  BY <1>1, RunKeepsRoom DEF SomeRun
<1>2. CASE ResetDemo
  <2>1. \A q : Failures(q)' = {}
    BY <1>2, SeededTypes DEF ResetDemo, Failures, Exists
  <2>2. \A c \in Cases : cases'[c].state # "SCHEDULED"
    BY <1>2 DEF ResetDemo, SeededCases, NoCase, Absent
  <2> QED
    BY <2>1, <2>2 DEF FailuresWithinLimit, RoomToFail
<1>3. CASE ~SomeRun /\ ~ResetDemo
  <2>1. \A q : Failures(q)' = Failures(q)
    BY <1>3, OtherFailures
  <2>2. ASSUME NEW d \in Cases, cases'[d].state = "SCHEDULED" PROVE cases'[d] = cases[d]
    <3>1. ASSUME NEW p \in Payments, Disturb(p) PROVE cases'[d] = cases[d]
      BY <2>2, <3>1, DisturbedCase
    <3>2. CASE Ticks \/ SeedAgain \/ BatchMoves
      BY <3>2 DEF Ticks, SeedAgain, BatchMoves, vars
    <3> QED
      BY <1>3, <3>1, <3>2 DEF RowStep, SomeRun
  <2>3. FailuresWithinLimit'
    BY <2>1 DEF FailuresWithinLimit
  <2>4. ASSUME NEW d \in Cases, cases'[d].state = "SCHEDULED"
        PROVE  Cardinality(Failures(cases[d].payment)') < RepeatedFailureLimit
    BY <2>1, <2>2, <2>4 DEF RoomToFail
  <2>5. RoomToFail'
    BY <2>2, <2>4 DEF RoomToFail, Failures
  <2> QED
    BY <2>3, <2>5
<1> QED
  BY <1>1, <1>2, <1>3

(***************************************************************************)
(* Batches.  With a virtual clock two runs of a case, one that schedules   *)
(* and one that executes what it scheduled, cost its payment a failure; a  *)
(* run of a case that waits is only repeated after the clock has moved by  *)
(* the whole delay.                                                        *)
(***************************************************************************)
\* What waits for case c may be executed now.
Due(c) == \A a \in PendingActions(c) : actions[a].wait = 0

\* The scheduling run is paid for by the failure still to come.
Ahead(c) == IF cases[c].state = "SCHEDULED" /\ (pilot.waiting \/ Due(c)) THEN 1 ELSE 0

PaidFor(c)  == Open(c) => pilot.runs <= 2 * FailureCount(c) + Ahead(c)
RunsPaidFor == \A c \in todo : c = Current /\ clock = "virtual" => PaidFor(c)

\* The batch does not count another run.
SameRuns == pilot'.runs = pilot.runs /\ pilot'.waiting = pilot.waiting

\* A run closes the case, schedules it, or fails and is counted.
LEMMA RunProgress ==
    ASSUME AutopilotTypeOK, CaseInv, RowsFiled, NEW c \in Cases, NEW h \in PaymentRow,
           NEW pay \in PaymentRow, Runs(c, h, pay)
    PROVE  /\ Open(c)
           /\ \/ ~Open(c)'
              \/ /\ cases[c].state # "SCHEDULED" /\ cases'[c].state = "SCHEDULED"
                 /\ FailureCount(c)' = FailureCount(c)
              \/ cases'[c].state = "FAILED" /\ FailureCount(c)' = FailureCount(c) + 1
<1> USE DEF AutopilotTypeOK
<1>1. PICK a \in Actions, row \in ActionRow, state \in CaseState :
        RunShape(c, h, a, row, state, pay)
  BY RunIsShaped
<1>2. PICK p \in Payments : p = cases[c].payment
  BY DEF TypeOK, CaseRow
<1>3. cases'[c].state = state /\ cases'[c].payment = p /\ Open(c)
  <2>1. /\ cases'[c].state = state /\ cases'[c].payment = p
        /\ cases[c].state \in {"DETECTED", "FAILED", "SCHEDULED"}
    BY <1>1, <1>2, RunPointwise
  <2> QED
    BY <2>1 DEF Open, TerminalStates, Absent
<1>4. /\ FailureCount(c) = Cardinality(Failures(p))
      /\ FailureCount(c)' = Cardinality(Failures(p)')
  BY <1>2, <1>3, CountOfCase, CountOfCaseNext
<1>5. Cardinality(Failures(p)') =
        IF state = "FAILED" THEN Cardinality(Failures(p)) + 1 ELSE Cardinality(Failures(p))
  BY <1>1, <1>2, RunFailures
<1>6. \/ state \in TerminalStates \cup {"FAILED"}
      \/ state = "SCHEDULED" /\ cases[c].state # "SCHEDULED"
  <2>1. CASE Acts(c, h, row, state, pay)
    <3>1. state \in {"RECOVERED", "FAILED"}
      BY <2>1 DEF Acts, Answered
    <3> QED
      BY <3>1 DEF TerminalStates
  <2>2. CASE Chosen(c, h, a, row) /\ Rests(h, row, state, pay)
    <3>1. cases[c].state # "SCHEDULED" /\ state \in {"STOPPED", "ESCALATED", "SCHEDULED"}
      BY <2>2 DEF Chosen, Rests
    <3> QED
      BY <3>1 DEF TerminalStates
  <2> QED
    BY <1>1, <2>1, <2>2 DEF RunShape
<1>7. state \in TerminalStates => ~Open(c)'
  BY <1>3 DEF Open
<1> QED
  BY <1>3, <1>4, <1>5, <1>6, <1>7

\* Another step leaves an open case c as it is, or closes it.
KeptOpen(c) ==
    \/ ~Open(c)'
    \/ /\ cases'[c] = cases[c] /\ FailureCount(c)' >= FailureCount(c)
       /\ Due(c) => Due(c)'

\* A run of another case is such a step.
LEMMA OtherRunKeepsOpen ==
    ASSUME AutopilotTypeOK, CaseInv, RowsFiled, NEW d \in Cases, NEW h \in PaymentRow,
           NEW pay \in PaymentRow, Runs(d, h, pay), NEW c \in Cases, c # d
    PROVE  KeptOpen(c)
<1> USE DEF AutopilotTypeOK
<1>1. PICK a \in Actions, row \in ActionRow, state \in CaseState :
        RunShape(d, h, a, row, state, pay)
  BY RunIsShaped
<1>2. PICK q : q = cases[c].payment
  OBVIOUS
<1>3. PICK p : p = cases[d].payment
  OBVIOUS
<1>4. /\ cases'[c] = cases[c] /\ actions'[a] = row /\ row.case = d
      /\ \A b \in Actions : b # a => actions'[b] = actions[b] /\ (Pending(b)' <=> Pending(b))
  BY <1>1, RunPointwise DEF RunShape
<1>5. FailureCount(c)' >= FailureCount(c)
  <2>1. /\ Cardinality(Failures(p)) \in Nat
        /\ Cardinality(Failures(p)') =
             IF state = "FAILED" THEN Cardinality(Failures(p)) + 1 ELSE Cardinality(Failures(p))
        /\ q # p => Failures(q)' = Failures(q)
    BY <1>1, <1>3, RunFailures
  <2>2. /\ FailureCount(c) = Cardinality(Failures(q)) /\ FailureCount(c) \in Nat
        /\ FailureCount(c)' = Cardinality(Failures(q)')
    BY <1>2, <1>4, CountOfCase, CountOfCaseNext
  <2>3. CASE q = p
    BY <2>1, <2>2, <2>3
  <2>4. CASE q # p
    BY <2>1, <2>2, <2>4
  <2> QED
    BY <2>3, <2>4
<1>6. \A b \in PendingActions(c)' : b \in PendingActions(c) /\ actions'[b] = actions[b]
  BY <1>1, <1>4 DEF PendingActions
<1>7. Due(c) => Due(c)'
  BY <1>6 DEF Due
<1> QED
  BY <1>4, <1>5, <1>7 DEF KeptOpen

\* So is everything that is neither a run nor a reset.
LEMMA OtherStepKeepsOpen ==
    ASSUME AutopilotTypeOK, CaseInv, HeldFits, RowsKept, RowStep, [ANext]_avars,
           ~SomeRun, ~ResetDemo, TypeOK',
           NEW c \in Cases, cases[c].state # Absent
    PROVE  KeptOpen(c)
<1> USE DEF AutopilotTypeOK
<1>1. PICK p : p = cases[c].payment
  OBVIOUS
<1>2. cases'[c].payment = p
  BY <1>1, CasesStay
<1>3. FailureCount(c)' >= FailureCount(c)
  <2>1. Failures(p)' = Failures(p)
    BY OtherFailures
  <2>2. /\ FailureCount(c) = Cardinality(Failures(p)) /\ FailureCount(c) \in Nat
        /\ FailureCount(c)' = Cardinality(Failures(p)')
    BY <1>1, <1>2, CountOfCase, CountOfCaseNext
  <2> QED
    BY <2>1, <2>2
<1>4. cases'[c] = cases[c] \/ ~Open(c)'
  <2>1. ASSUME NEW q \in Payments, Disturb(q) PROVE cases'[c] = cases[c] \/ ~Open(c)'
    BY <2>1, DisturbedCase DEF Open, TerminalStates
  <2>2. CASE Ticks \/ SeedAgain \/ BatchMoves
    BY <2>2 DEF Ticks, SeedAgain, BatchMoves, vars
  <2> QED
    BY <2>1, <2>2 DEF RowStep, SomeRun
<1>5. \A b \in Actions : (Pending(b)' <=> Pending(b)) /\ actions'[b].case = actions[b].case
  <2>1. CASE Ticks
    BY <2>1, TickRows
  <2>2. CASE UNCHANGED actions
    BY <2>2 DEF Pending, Exists
  <2>3. ASSUME (\E q \in Payments : Disturb(q)) \/ SeedAgain \/ BatchMoves PROVE UNCHANGED actions
    BY <2>3, DisturbPointwise DEF SeedAgain, BatchMoves, vars
  <2> QED
    BY <2>1, <2>2, <2>3 DEF RowStep, SomeRun
<1>6. \A b \in Actions : actions[b].wait = 0 => actions'[b].wait = 0
  <2>1. \A b \in Actions : actions'[b].wait \in Nat
    BY DEF TypeOK, ActionRow
  <2>2. WaitsShrink
    BY WaitStep
  <2> QED
    BY <2>1, <2>2 DEF WaitsShrink
<1>7. Due(c) => Due(c)'
  BY <1>5, <1>6 DEF Due, PendingActions
<1> QED
  BY <1>3, <1>4, <1>7 DEF KeptOpen

\* The numbers in what is paid for.
LEMMA PaidNumbers ==
    ASSUME AutopilotTypeOK, NEW c
    PROVE  /\ pilot.runs \in Nat
           /\ FailureCount(c) \in Nat /\ FailureCount(c)' \in Nat
           /\ Ahead(c) \in {0, 1} /\ Ahead(c)' \in {0, 1}
           /\ Ahead(c) = 1 => cases[c].state = "SCHEDULED"
<1>1. PICK p, q : p = cases[c].payment /\ q = cases'[c].payment
  OBVIOUS
<1>2. FailureCount(c) \in Nat /\ FailureCount(c)' \in Nat
  BY <1>1, CountOfCase, CountOfCaseNext
<1>3. pilot.runs \in Nat
  BY DEF AutopilotTypeOK, MaxRunsPerCase
<1>4. Ahead(c) \in {0, 1} /\ Ahead(c)' \in {0, 1} /\ (Ahead(c) = 1 => cases[c].state = "SCHEDULED")
  BY DEF Ahead
<1> QED
  BY <1>2, <1>3, <1>4

\* What is paid for stays paid for while others take steps,
LEMMA KeptStaysPaid ==
    ASSUME AutopilotTypeOK, NEW c, PaidFor(c), KeptOpen(c), SameRuns
    PROVE  PaidFor(c)'
<1>1. ASSUME Open(c)'
      PROVE  /\ Open(c) /\ pilot'.runs = pilot.runs
             /\ FailureCount(c)' >= FailureCount(c) /\ Ahead(c)' >= Ahead(c)
  BY <1>1 DEF KeptOpen, Open, Ahead, SameRuns
<1>2. Open(c)' => pilot'.runs <= 2 * FailureCount(c)' + Ahead(c)'
  BY <1>1, PaidNumbers DEF PaidFor
<1> QED
  BY <1>2 DEF PaidFor

\* and when the case is run, by the batch or by somebody else,
LEMMA RunStaysPaid ==
    ASSUME AutopilotTypeOK, CaseInv, RowsFiled, NEW c \in Cases, NEW h \in PaymentRow,
           NEW pay \in PaymentRow, Runs(c, h, pay), PaidFor(c),
           \/ SameRuns
           \/ /\ pilot'.runs = pilot.runs + 1
              /\ pilot'.waiting = (cases'[c].state = "SCHEDULED")
    PROVE  PaidFor(c)'
<1>1. pilot.runs <= 2 * FailureCount(c) + Ahead(c)
  BY RunProgress DEF PaidFor
<1>2. CASE ~Open(c)'
  BY <1>2 DEF PaidFor
<1>3. CASE /\ cases[c].state # "SCHEDULED" /\ cases'[c].state = "SCHEDULED"
           /\ FailureCount(c)' = FailureCount(c)
  <2>1. Ahead(c) = 0
    BY <1>3 DEF Ahead
  <2>2. \/ pilot'.runs = pilot.runs
        \/ pilot'.runs = pilot.runs + 1 /\ Ahead(c)' = 1
    BY <1>3 DEF Ahead, SameRuns
  <2>3. pilot'.runs <= 2 * FailureCount(c)' + Ahead(c)'
    BY <1>1, <1>3, <2>1, <2>2, PaidNumbers
  <2> QED
    BY <2>3 DEF PaidFor
<1>4. CASE FailureCount(c)' = FailureCount(c) + 1
  <2>1. pilot'.runs = pilot.runs \/ pilot'.runs = pilot.runs + 1
    BY DEF SameRuns
  <2>2. pilot'.runs <= 2 * FailureCount(c)' + Ahead(c)'
    BY <1>1, <1>4, <2>1, PaidNumbers
  <2> QED
    BY <2>2 DEF PaidFor
<1> QED
  BY <1>2, <1>3, <1>4, RunProgress

\* or when the batch finds that it has to wait,
LEMMA WaitStaysPaid ==
    ASSUME AutopilotTypeOK, NEW c, NotDue(c), UNCHANGED vars, PaidFor(c),
           ~pilot.waiting, pilot'.runs = pilot.runs + 1,
           pilot'.waiting = (cases'[c].state = "SCHEDULED")
    PROVE  PaidFor(c)'
<1>1. Open(c) /\ cases[c].state = "SCHEDULED" /\ ~Due(c)
  BY DEF NotDue, Open, Due, TerminalStates, Absent
<1>2. Ahead(c) = 0 /\ Ahead(c)' = 1
  BY <1>1 DEF Ahead, vars
<1>3. FailureCount(c)' = FailureCount(c)
  BY DEF FailureCount, Failures, Exists, PaymentOf, vars
<1>4. pilot'.runs <= 2 * FailureCount(c)' + Ahead(c)'
  BY <1>1, <1>2, <1>3, PaidNumbers DEF PaidFor
<1> QED
  BY <1>4 DEF PaidFor

\* and waits: the clock moves as far as any action waits.
LEMMA DriveStaysPaid ==
    ASSUME AutopilotTypeOK, RowsFiled, DriveClock, NEW c, PaidFor(c)
    PROVE  PaidFor(c)'
<1>1. ASSUME NEW b \in Actions
      PROVE  /\ (Exists(b)' <=> Exists(b)) /\ (Pending(b)' <=> Pending(b))
             /\ actions'[b].case = actions[b].case /\ actions'[b].outcome = actions[b].outcome
             /\ actions[b].wait <= RetryDelay => actions'[b].wait = 0
  <2>1. /\ actions[b] \in ActionRow /\ actions[b].wait \in Nat
        /\ actions'[b] = [actions[b] EXCEPT !.wait = IF @ > RetryDelay THEN @ - RetryDelay ELSE 0]
    BY DEF DriveClock, AutopilotTypeOK, TypeOK, ActionRow
  <2>2. actions'[b].wait = IF actions[b].wait > RetryDelay THEN actions[b].wait - RetryDelay ELSE 0
    BY <2>1 DEF ActionRow
  <2>3. actions[b].wait <= RetryDelay => actions'[b].wait = 0
    BY <2>1, <2>2, ConstantsAssumption
  <2> QED
    BY <2>1, <2>3 DEF ActionRow, Exists, Pending
<1>2. UNCHANGED cases /\ ~pilot'.waiting /\ pilot'.runs = pilot.runs
  BY DEF DriveClock, AutopilotTypeOK
<1>3. FailureCount(c)' = FailureCount(c)
  BY <1>1, <1>2 DEF FailureCount, Failures, PaymentOf
<1>4. Due(c)'
  BY <1>1 DEF Due, PendingActions, Pending, RowsFiled, Filed
<1>5. Ahead(c)' >= Ahead(c) /\ (Open(c)' <=> Open(c))
  BY <1>2, <1>4 DEF Ahead, Open
<1>6. Open(c) => pilot'.runs <= 2 * FailureCount(c)' + Ahead(c)'
  BY <1>2, <1>3, <1>5, PaidNumbers DEF PaidFor
<1> QED
  BY <1>5, <1>6 DEF PaidFor

\* The runs of the case a batch is at are paid for in every step.
LEMMA StepRunsPaidFor ==
    ASSUME AutopilotTypeOK, CaseInv, HeldFits, RowsKept, RowsFiled, RunsPaidFor, [ANext]_avars, TypeOK'
    PROVE  RunsPaidFor'
<1> USE DEF AutopilotTypeOK
<1>1. RowStep /\ UNCHANGED clock
  BY EveryStep, StepHistoryTypes DEF world
<1>2. ASSUME pilot' = Idle, NEW c PROVE PaidFor(c)'
  <2>1. pilot'.runs = 0
    BY <1>2 DEF Idle
  <2>2. pilot'.runs <= 2 * FailureCount(c)' + Ahead(c)'
    BY <2>1, PaidNumbers
  <2> QED
    BY <2>2 DEF PaidFor
<1>3. \/ pilot' = Idle
      \/ RunHead /\ todo' = todo
      \/ DriveClock /\ todo' = todo
      \/ SameRuns /\ todo' = todo
  BY DEF SameRuns, AutopilotTypeOK, ANext, StartBatch, LoadHead, RunHead, DriveClock, FinishHead,
         AbortBatch, ManualRun, TimePasses, Disturb, ResetDemo, SeedAgain, batch, avars
<1>4. ASSUME NEW c \in todo, c = Current, clock = "virtual", todo' = todo,
             RunHead \/ DriveClock \/ SameRuns
      PROVE  PaidFor(c)'
  <2>1. c \in Cases /\ PaidFor(c) /\ cases[c].state # Absent
    BY <1>4 DEF RunsPaidFor, HeldFits
  <2>2. CASE RunHead
    <3>1. /\ ~pilot.waiting /\ pilot'.runs = pilot.runs + 1
          /\ pilot'.waiting \in BOOLEAN
          /\ pilot'.waiting <=> cases'[c].state = "SCHEDULED"
      BY <1>4, <2>2, HeadRuns, BatchType DEF RunHead, PilotType
    <3>2. pilot'.waiting = (cases'[c].state = "SCHEDULED")
      BY <3>1
    <3>3. ASSUME NEW h \in PaymentRow, NEW pay \in PaymentRow, Runs(c, h, pay) PROVE PaidFor(c)'
      BY <2>1, <3>1, <3>2, <3>3, RunStaysPaid
    <3>4. CASE NotDue(c) /\ UNCHANGED vars
      BY <2>1, <3>1, <3>2, <3>4, WaitStaysPaid
    <3> QED
      BY <1>4, <2>2, <3>3, <3>4, HeadRuns DEF BatchMoves
  <2>3. CASE DriveClock
    BY <2>1, <2>3, DriveStaysPaid
  <2>4. CASE SameRuns
    <3>1. ASSUME NEW h \in PaymentRow, NEW pay \in PaymentRow, Runs(c, h, pay) PROVE PaidFor(c)'
      BY <2>1, <2>4, <3>1, RunStaysPaid
    <3>2. ASSUME NEW d \in Cases, d # c, NEW h \in PaymentRow, NEW pay \in PaymentRow, Runs(d, h, pay)
          PROVE  PaidFor(c)'
      BY <2>1, <2>4, <3>2, OtherRunKeepsOpen, KeptStaysPaid
    <3>3. CASE ~SomeRun /\ ~ResetDemo
      BY <1>1, <2>1, <2>4, <3>3, OtherStepKeepsOpen, KeptStaysPaid
    <3>4. ~ResetDemo
      BY <1>4 DEF ResetDemo
    <3> QED
      BY <3>1, <3>2, <3>3, <3>4 DEF SomeRun
  <2> QED
    BY <1>4, <2>2, <2>3, <2>4
<1>5. ASSUME NEW c \in todo', c = Current', clock' = "virtual" PROVE PaidFor(c)'
  <2>1. CASE pilot' = Idle
    BY <1>2, <2>1
  <2>2. CASE todo' = todo /\ (RunHead \/ DriveClock \/ SameRuns)
    <3>1. c \in todo /\ c = Current /\ clock = "virtual"
      BY <1>1, <1>5, <2>2 DEF Current
    <3> QED
      BY <1>4, <2>2, <3>1
  <2> QED
    BY <1>3, <2>1, <2>2
<1> QED
  BY <1>5 DEF RunsPaidFor

\* What a batch relies on, in every reachable state.
BatchInv == FiledInv /\ FailuresWithinLimit /\ RoomToFail /\ RunsPaidFor

\* At any time.
LEMMA BatchInvariance == ASpec => []BatchInv
<1>1. AInit => BatchInv
  <2> SUFFICES ASSUME AInit PROVE BatchInv
    OBVIOUS
  <2>1. FiledInv /\ FreshlySeeded
    BY InitFiled, InitDemoTypes
  <2>2. \A q : Failures(q) = {}
    BY <2>1, SeededTypes DEF FreshlySeeded, Failures, Exists
  <2>3. \A c \in Cases : cases[c].state # "SCHEDULED"
    BY <2>1 DEF FreshlySeeded, SeededCases, NoCase, Absent
  <2>4. todo = {}
    BY DEF AInit
  <2> QED
    BY <2>1, <2>2, <2>3, <2>4 DEF BatchInv, FailuresWithinLimit, RoomToFail, RunsPaidFor
<1>2. BatchInv /\ [ANext]_avars => BatchInv'
  <2> SUFFICES ASSUME BatchInv, [ANext]_avars PROVE BatchInv'
    OBVIOUS
  <2> USE DEF BatchInv
  <2>1. FiledInv' /\ DemoInv /\ AutopilotTypeOK /\ CaseInv /\ RowsKept /\ RowsFiled /\ HeldFits
    BY StepFiled DEF FiledInv, DemoInv
  <2>2. RowStep
    BY <2>1, EveryStep
  <2>3. TypeOK'
    BY <2>1 DEF FiledInv, DemoInv, AutopilotTypeOK
  <2>4. FailuresWithinLimit' /\ RoomToFail'
    BY <2>1, <2>2, StepFailures
  <2>5. RunsPaidFor'
    BY <2>1, <2>3, StepRunsPaidFor
  <2> QED
    BY <2>1, <2>4, <2>5
<1> QED
  BY <1>1, <1>2, PTL DEF ASpec

\* With the demonstration's seeding, resets and driven clock too, a payment
\* collects no more unsuccessful outcomes than the limit allows.
THEOREM DemonstrationFailuresBounded == ASpec => []FailuresWithinLimit
  BY BatchInvariance, PTL DEF BatchInv

\* A case that is still open has not used up its runs.
LEMMA RunsLeft ==
    ASSUME BatchInv, RepeatedFailureLimit <= 3,
           NEW c \in todo, c = Current, clock = "virtual", Open(c)
    PROVE  pilot.runs < MaxRunsPerCase
<1>1. c \in Cases /\ AutopilotTypeOK
  BY DEF BatchInv, FiledInv, DemoInv, AutopilotTypeOK
<1>2. PICK p \in Payments : p = cases[c].payment
  BY <1>1 DEF AutopilotTypeOK, TypeOK, CaseRow
<1>3. FailureCount(c) = Cardinality(Failures(p)) /\ FailureCount(c) \in Nat
  BY <1>2, CountOfCase
<1>4. FailureCount(c) <= 3
  <2>1. CASE Failures(p) = {}
    BY <1>3, <2>1, FS_EmptySet
  <2>2. CASE Failures(p) # {}
    BY <1>3, <2>2, SettingsAssumption DEF BatchInv, FailuresWithinLimit
  <2> QED
    BY <2>1, <2>2
<1>5. Ahead(c) = 1 => FailureCount(c) <= 2
  <2>1. cases[c].state = "SCHEDULED" => FailureCount(c) < RepeatedFailureLimit
    BY <1>1, <1>2, <1>3 DEF BatchInv, RoomToFail
  <2> QED
    BY <1>1, <1>3, <2>1, PaidNumbers, SettingsAssumption
<1>6. pilot.runs <= 2 * FailureCount(c) + Ahead(c)
  BY DEF BatchInv, RunsPaidFor, PaidFor
<1> QED
  BY <1>1, <1>3, <1>4, <1>5, <1>6, PaidNumbers DEF MaxRunsPerCase

\* When the batch leaves a case while the clock is virtual, the case is closed:
\* the eight runs of run_case are enough for any limit up to the shipped one.
THEOREM EveryBatchCloses == ASSUME RepeatedFailureLimit <= 3 PROVE ASpec => BatchClosesAll
<1> DEFINE EndsClosed == FinishHead /\ clock = "virtual" => cases[Current].state \in TerminalStates
<1>1. BatchInv /\ [ANext]_avars => [EndsClosed]_avars
  <2> SUFFICES ASSUME BatchInv, FinishHead, clock = "virtual"
               PROVE  cases[Current].state \in TerminalStates
    OBVIOUS
  <2>1. Current \in todo
    BY CurrentIsACase DEF FinishHead, Loaded, BatchInv, FiledInv, DemoInv, AutopilotTypeOK
  <2>2. cases[Current].state # Absent
    BY <2>1 DEF BatchInv, FiledInv, DemoInv, HeldFits
  <2>3. ~Open(Current) \/ pilot.runs >= MaxRunsPerCase
    BY DEF FinishHead
  <2>4. ~(pilot.runs < MaxRunsPerCase) \/ ~Open(Current)
    <3>1. pilot.runs \in Nat
      BY DEF BatchInv, FiledInv, DemoInv, AutopilotTypeOK, MaxRunsPerCase
    <3> QED
      BY <2>3, <3>1 DEF MaxRunsPerCase
  <2>5. ~Open(Current)
    <3>1. PICK c \in todo : c = Current
      BY <2>1
    <3>2. Open(c) => pilot.runs < MaxRunsPerCase
      BY <3>1, RunsLeft
    <3> QED
      BY <2>4, <3>1, <3>2
  <2> QED
    BY <2>2, <2>5 DEF Open
<1> QED
  BY <1>1, BatchInvariance, PTL DEF ASpec, BatchClosesAll

(***************************************************************************)
(* The promised outcomes.  What the engine selects for each of the four    *)
(* scenarios, and what the gate and the simulator answer, is computed from *)
(* the scenario's numbers.                                                 *)
(***************************************************************************)
\* The ranking takes the candidate of the highest value.
LEMMA HighestValueWins ==
    ASSUME NEW ctx, NEW a, NEW b, NEW d, NEW human, NEW economy,
           Valuation(ctx, a, economy).value \in Int,
           Valuation(ctx, b, economy).value \in Int, Valuation(ctx, d, economy).value \in Int,
           Valuation(ctx, a, economy).value > Valuation(ctx, b, economy).value,
           Valuation(ctx, a, economy).value > Valuation(ctx, d, economy).value
    PROVE  SelectedAction(ctx, {a, b, d}, economy, human) = a
<1> DEFINE va == Valuation(ctx, a, economy)
           vb == Valuation(ctx, b, economy)
           vd == Valuation(ctx, d, economy)
           First(v) == \A w \in {va, vb, vd} \ {v} : Before(v, w)
<1>1. va.action = a
  BY DEF Valuation
<1>2. {Valuation(ctx, t, economy) : t \in {a, b, d}} = {va, vb, vd}
  OBVIOUS
<1>3. va.value \in Int /\ vb.value \in Int /\ vd.value \in Int
      /\ va.value > vb.value /\ va.value > vd.value
  OBVIOUS
<1> HIDE DEF va, vb, vd
<1>4. First(va)
  BY <1>3 DEF Before
<1>5. ASSUME NEW v \in {va, vb, vd}, First(v) PROVE v = va
  BY <1>3, <1>5 DEF Before
<1>6. (CHOOSE v \in {va, vb, vd} : First(v)) = va
  BY <1>4, <1>5
<1>7. SelectedAction(ctx, {a, b, d}, economy, human)
        = (CHOOSE v \in {va, vb, vd} : First(v)).action
  BY <1>2 DEF SelectedAction, Best
<1> QED
  BY <1>1, <1>6, <1>7

\* The probability of a first action, from the base rate, the three quarters each
\* attempt leaves and the customer's factor.
SeedFactor(s) == (350 + 3 * s.rate) * (IF s.subscriber THEN 21 ELSE 20)
FirstProbability(rate, left, of, factor) ==
    Clamp(RoundHalfEven(rate * left * factor * 20, 20000 * of), 20, 970)

\* What the engine makes of the numbers a payment is seeded with.
LEMMA FirstIsScored ==
    ASSUME NEW s \in AtRiskPayment, NEW t
    PROVE  /\ Probability(SeedContext(s), t) =
                FirstProbability(BaseRate[s.reason][t], 3 ^ s.attempts, 4 ^ s.attempts, SeedFactor(s))
           /\ Valuation(SeedContext(s), t, DefaultEconomy).value =
                RoundHalfEven(Probability(SeedContext(s), t) * s.amount, 10)
                  - DefaultEconomy.cost[t] - DefaultEconomy.friction[t]
<1> DEFINE ctx == SeedContext(s)
<1>1. /\ ctx.reason = s.reason /\ ctx.attempts = s.attempts /\ ctx.rate = s.rate
      /\ ctx.amount = s.amount /\ ctx.subscriber = s.subscriber
      /\ ctx.failed = {} /\ ctx.succeeded = {}
  BY DEF SeedContext
<1> HIDE DEF ctx
<1>2. HistoryFactor(ctx, t) = 20
  BY <1>1 DEF HistoryFactor
<1>3. CustomerFactor(ctx) = SeedFactor(s)
  BY <1>1 DEF CustomerFactor, SeedFactor
<1>4. Probability(ctx, t) =
        FirstProbability(BaseRate[s.reason][t], 3 ^ s.attempts, 4 ^ s.attempts, CustomerFactor(ctx))
  BY <1>1, <1>2 DEF Probability, FirstProbability
<1>5. Valuation(ctx, t, DefaultEconomy).value =
        RoundHalfEven(Probability(ctx, t) * s.amount, 10)
          - DefaultEconomy.cost[t] - DefaultEconomy.friction[t]
  BY <1>1 DEF Valuation, ExpectedValue
<1> QED
  BY <1>3, <1>4, <1>5 DEF ctx

\* The numbers worked out.
Scaled(s, left, of, factor) ==
    left = 3 ^ s.attempts /\ of = 4 ^ s.attempts /\ factor = SeedFactor(s)
Rated(s, t, rate) == rate = BaseRate[s.reason][t]

\* The same, of numbers given.
LEMMA FirstIsWorth ==
    ASSUME NEW s \in AtRiskPayment, NEW t, NEW rate, Rated(s, t, rate),
           NEW left, NEW of, NEW factor, Scaled(s, left, of, factor)
    PROVE  Probability(SeedContext(s), t) = FirstProbability(rate, left, of, factor)
<1>1. Probability(SeedContext(s), t) =
        FirstProbability(BaseRate[s.reason][t], 3 ^ s.attempts, 4 ^ s.attempts, SeedFactor(s))
  BY FirstIsScored
<1> QED
  BY <1>1 DEF Scaled, Rated

\* The rates, costs and powers of the four scenarios.
LEMMA ScenarioNumbers ==
    /\ BaseRate["BANK_TIMEOUT"]["RETRY_LATER"] = 78 /\ BaseRate["BANK_TIMEOUT"]["RETRY_NOW"] = 35
    /\ BaseRate["BANK_TIMEOUT"]["SEND_PAYMENT_LINK"] = 55
    /\ BaseRate["EXPIRED_CARD"]["CHANGE_PAYMENT_METHOD"] = 72
    /\ BaseRate["EXPIRED_CARD"]["SEND_PAYMENT_LINK"] = 58
    /\ BaseRate["EXPIRED_CARD"]["ESCALATE_HUMAN"] = 30
    /\ BaseRate["INSUFFICIENT_FUNDS"]["RETRY_LATER"] = 45
    /\ BaseRate["INSUFFICIENT_FUNDS"]["SEND_PAYMENT_LINK"] = 40
    /\ BaseRate["INSUFFICIENT_FUNDS"]["SEND_REMINDER"] = 35
  BY DEF BaseRate, Rates, FailureReason, ActionType

\* What the actions cost.
LEMMA ScenarioCosts ==
    LET Spent(t) == DefaultEconomy.cost[t] + DefaultEconomy.friction[t]
    IN  /\ \A t \in ActionType : /\ DefaultEconomy.cost[t] \in Nat
                                 /\ DefaultEconomy.friction[t] \in Nat
        /\ Spent("RETRY_NOW") = 2500 /\ Spent("RETRY_LATER") = 12000
        /\ Spent("SEND_PAYMENT_LINK") = 18000 /\ Spent("CHANGE_PAYMENT_METHOD") = 23000
        /\ Spent("SEND_REMINDER") = 9000 /\ Spent("ESCALATE_HUMAN") = 50000
  BY DEF DefaultEconomy, ActionType

\* The powers the decay of an attempt takes.
LEMMA ScenarioPowers == 3^1 = 3 /\ 4^1 = 4 /\ 3^2 = 9 /\ 4^2 = 16 /\ 3^3 = 27 /\ 4^3 = 64
  OBVIOUS

\* Rounding is off by half at most.
LEMMA RoundsToTenth ==
    ASSUME NEW n \in Nat
    PROVE  RoundHalfEven(n, 10) \in Int /\ 10 * RoundHalfEven(n, 10) - n \in -5..5
  BY DEF RoundHalfEven

\* An action that is worth more by more than rounding can change is chosen.
LEMMA FirstChoice ==
    ASSUME NEW s \in AtRiskPayment, NEW a \in ActionType, NEW b \in ActionType, NEW d \in ActionType,
           CandidatesByReason[s.reason] = {a, b, d},
           NEW pa \in Nat, Probability(SeedContext(s), a) = pa,
           NEW pb \in Nat, Probability(SeedContext(s), b) = pb,
           NEW pd \in Nat, Probability(SeedContext(s), d) = pd,
           NEW ca, ca = DefaultEconomy.cost[a] + DefaultEconomy.friction[a],
           NEW cb, cb = DefaultEconomy.cost[b] + DefaultEconomy.friction[b],
           NEW cd, cd = DefaultEconomy.cost[d] + DefaultEconomy.friction[d],
           pa * s.amount - 10 * ca > pb * s.amount - 10 * cb + 10,
           pa * s.amount - 10 * ca > pd * s.amount - 10 * cd + 10
    PROVE  Choose("Paychecker", SeedContext(s)) = a
<1> DEFINE ctx == SeedContext(s)
           na == pa * s.amount
           nb == pb * s.amount
           nd == pd * s.amount
<1>1. na \in Nat /\ nb \in Nat /\ nd \in Nat
  BY DEF AtRiskPayment
<1>2. ca \in Nat /\ cb \in Nat /\ cd \in Nat
  BY ScenarioCosts
<1>3. /\ Valuation(ctx, a, DefaultEconomy).value = RoundHalfEven(na, 10) - ca
      /\ Valuation(ctx, b, DefaultEconomy).value = RoundHalfEven(nb, 10) - cb
      /\ Valuation(ctx, d, DefaultEconomy).value = RoundHalfEven(nd, 10) - cd
  <2>1. /\ \A t \in ActionType : DefaultEconomy.cost[t] \in Nat /\ DefaultEconomy.friction[t] \in Nat
        /\ RoundHalfEven(na, 10) \in Int /\ RoundHalfEven(nb, 10) \in Int
        /\ RoundHalfEven(nd, 10) \in Int
    BY <1>1, ScenarioCosts, RoundsToTenth
  <2>2. /\ Valuation(ctx, a, DefaultEconomy).value =
             RoundHalfEven(na, 10) - DefaultEconomy.cost[a] - DefaultEconomy.friction[a]
        /\ Valuation(ctx, b, DefaultEconomy).value =
             RoundHalfEven(nb, 10) - DefaultEconomy.cost[b] - DefaultEconomy.friction[b]
        /\ Valuation(ctx, d, DefaultEconomy).value =
             RoundHalfEven(nd, 10) - DefaultEconomy.cost[d] - DefaultEconomy.friction[d]
    BY FirstIsScored
  <2> HIDE DEF ctx, na, nb, nd
  <2> QED
    BY <2>1, <2>2
<1>4. /\ RoundHalfEven(na, 10) \in Int /\ 10 * RoundHalfEven(na, 10) - na \in -5..5
      /\ RoundHalfEven(nb, 10) \in Int /\ 10 * RoundHalfEven(nb, 10) - nb \in -5..5
      /\ RoundHalfEven(nd, 10) \in Int /\ 10 * RoundHalfEven(nd, 10) - nd \in -5..5
  <2> HIDE DEF na, nb, nd
  <2> QED
    BY <1>1, RoundsToTenth
<1>5. na - 10 * ca > nb - 10 * cb + 10 /\ na - 10 * ca > nd - 10 * cd + 10
  OBVIOUS
<1>6. ctx.reason = s.reason
  BY DEF SeedContext
<1> HIDE DEF ctx, na, nb, nd
<1>7. /\ Valuation(ctx, a, DefaultEconomy).value \in Int
      /\ Valuation(ctx, b, DefaultEconomy).value \in Int
      /\ Valuation(ctx, d, DefaultEconomy).value \in Int
      /\ Valuation(ctx, a, DefaultEconomy).value > Valuation(ctx, b, DefaultEconomy).value
      /\ Valuation(ctx, a, DefaultEconomy).value > Valuation(ctx, d, DefaultEconomy).value
  BY <1>1, <1>2, <1>3, <1>4, <1>5
<1>8. SelectedAction(ctx, {a, b, d}, DefaultEconomy, AllowHumanEscalation) = a
  BY <1>7, HighestValueWins
<1> QED
  BY <1>6, <1>8 DEF Choose, ctx

\* Settings under which the board can keep its promises: the shipped ones do
\* (config.py: two automatic retries, three failures, a threshold of 50 000).
\* With eight retries allowed scenario B would be sent a reminder instead.
PromisingSettings ==
    /\ MaxAutomaticRetries \in {2, 3} /\ RepeatedFailureLimit >= 1
    /\ HighValueThreshold >= 10000 /\ AllowHumanEscalation
    /\ {"RETRY_LATER", "CHANGE_PAYMENT_METHOD"} \subseteq SupportedActions

\* The seeds that promise an outcome.
DemoSeeds == {ScenarioA, ScenarioB, ScenarioC, ScenarioD}

\* They are payments at risk like the others.
LEMMA DemoSeedsTyped ==
    ASSUME PromisingSettings
    PROVE  DemoSeeds \subseteq AtRiskPayment
<1>1. MaxAutomaticRetries \in Nat \ {0} /\ HighValueThreshold + 40000 \in Nat
  BY ThresholdAssumption DEF PromisingSettings
<1>2. ScenarioA \in AtRiskPayment /\ ScenarioD \in AtRiskPayment
  BY DEF AtRiskPayment, AtRisk, ScenarioA, ScenarioD, Unsuccessful, FailureReason
<1>3. ScenarioB \in AtRiskPayment /\ ScenarioC \in AtRiskPayment
  BY <1>1 DEF AtRiskPayment, AtRisk, ScenarioB, ScenarioC, Unsuccessful, FailureReason
<1> QED
  BY <1>2, <1>3 DEF DemoSeeds

\* A: the retry is deferred.
LEMMA ChoiceA ==
    ASSUME PromisingSettings
    PROVE  Choose("Paychecker", SeedContext(ScenarioA)) = "RETRY_LATER"
<1>1. /\ ScenarioA \in AtRiskPayment /\ ScenarioA.reason = "BANK_TIMEOUT" /\ ScenarioA.attempts = 1
      /\ ScenarioA.rate = 94 /\ ScenarioA.subscriber /\ ScenarioA.amount = 10000
  BY DemoSeedsTyped DEF DemoSeeds, ScenarioA, AtRisk
<1>2. CandidatesByReason["BANK_TIMEOUT"] = {"RETRY_LATER", "RETRY_NOW", "SEND_PAYMENT_LINK"}
  BY DEF CandidatesByReason, FailureReason
<1>3. /\ Scaled(ScenarioA, 3, 4, 13272) /\ Rated(ScenarioA, "RETRY_LATER", 78)
      /\ Rated(ScenarioA, "RETRY_NOW", 35) /\ Rated(ScenarioA, "SEND_PAYMENT_LINK", 55)
  BY <1>1, ScenarioNumbers, ScenarioPowers DEF Scaled, Rated, SeedFactor
<1>4. /\ FirstProbability(78, 3, 4, 13272) = 776
      /\ FirstProbability(35, 3, 4, 13272) = 348
      /\ FirstProbability(55, 3, 4, 13272) = 547
  BY DEF FirstProbability, Clamp, RoundHalfEven
<1>5. /\ Probability(SeedContext(ScenarioA), "RETRY_LATER") = FirstProbability(78, 3, 4, 13272)
      /\ Probability(SeedContext(ScenarioA), "RETRY_NOW") = FirstProbability(35, 3, 4, 13272)
      /\ Probability(SeedContext(ScenarioA), "SEND_PAYMENT_LINK") = FirstProbability(55, 3, 4, 13272)
  BY <1>1, <1>3, FirstIsWorth
<1>6. {"RETRY_LATER", "RETRY_NOW", "SEND_PAYMENT_LINK"} \subseteq ActionType
  BY DEF ActionType
<1> QED
  BY <1>1, <1>2, <1>4, <1>5, <1>6, FirstChoice, ScenarioCosts

\* B: so it would be here, had the budget not been spent, of two retries
LEMMA ChoiceB2 ==
    ASSUME PromisingSettings, MaxAutomaticRetries = 2
    PROVE  Choose("Paychecker", SeedContext(ScenarioB)) = "RETRY_LATER"
<1>1. /\ ScenarioB \in AtRiskPayment /\ ScenarioB.reason = "INSUFFICIENT_FUNDS" /\ ScenarioB.attempts = 2
      /\ ScenarioB.rate = 50 /\ ~ScenarioB.subscriber /\ ScenarioB.amount = 2500
  BY DemoSeedsTyped DEF DemoSeeds, ScenarioB, AtRisk
<1>2. CandidatesByReason["INSUFFICIENT_FUNDS"] = {"RETRY_LATER", "SEND_PAYMENT_LINK", "SEND_REMINDER"}
  BY DEF CandidatesByReason, FailureReason
<1>3. /\ Scaled(ScenarioB, 9, 16, 10000) /\ Rated(ScenarioB, "RETRY_LATER", 45)
      /\ Rated(ScenarioB, "SEND_PAYMENT_LINK", 40) /\ Rated(ScenarioB, "SEND_REMINDER", 35)
  BY <1>1, ScenarioNumbers, ScenarioPowers DEF Scaled, Rated, SeedFactor
<1>4. /\ FirstProbability(45, 9, 16, 10000) = 253
      /\ FirstProbability(40, 9, 16, 10000) = 225
      /\ FirstProbability(35, 9, 16, 10000) = 197
  BY DEF FirstProbability, Clamp, RoundHalfEven
<1>5. /\ Probability(SeedContext(ScenarioB), "RETRY_LATER") = FirstProbability(45, 9, 16, 10000)
      /\ Probability(SeedContext(ScenarioB), "SEND_PAYMENT_LINK") = FirstProbability(40, 9, 16, 10000)
      /\ Probability(SeedContext(ScenarioB), "SEND_REMINDER") = FirstProbability(35, 9, 16, 10000)
  BY <1>1, <1>3, FirstIsWorth
<1>6. {"RETRY_LATER", "SEND_PAYMENT_LINK", "SEND_REMINDER"} \subseteq ActionType
  BY DEF ActionType
<1> QED
  BY <1>1, <1>2, <1>4, <1>5, <1>6, FirstChoice, ScenarioCosts

\* or of three.
LEMMA ChoiceB3 ==
    ASSUME PromisingSettings, MaxAutomaticRetries = 3
    PROVE  Choose("Paychecker", SeedContext(ScenarioB)) = "RETRY_LATER"
<1>1. /\ ScenarioB \in AtRiskPayment /\ ScenarioB.reason = "INSUFFICIENT_FUNDS" /\ ScenarioB.attempts = 3
      /\ ScenarioB.rate = 50 /\ ~ScenarioB.subscriber /\ ScenarioB.amount = 2500
  BY DemoSeedsTyped DEF DemoSeeds, ScenarioB, AtRisk
<1>2. CandidatesByReason["INSUFFICIENT_FUNDS"] = {"RETRY_LATER", "SEND_PAYMENT_LINK", "SEND_REMINDER"}
  BY DEF CandidatesByReason, FailureReason
<1>3. /\ Scaled(ScenarioB, 27, 64, 10000) /\ Rated(ScenarioB, "RETRY_LATER", 45)
      /\ Rated(ScenarioB, "SEND_PAYMENT_LINK", 40) /\ Rated(ScenarioB, "SEND_REMINDER", 35)
  BY <1>1, ScenarioNumbers, ScenarioPowers DEF Scaled, Rated, SeedFactor
<1>4. /\ FirstProbability(45, 27, 64, 10000) = 190
      /\ FirstProbability(40, 27, 64, 10000) = 169
      /\ FirstProbability(35, 27, 64, 10000) = 148
  BY DEF FirstProbability, Clamp, RoundHalfEven
<1>5. /\ Probability(SeedContext(ScenarioB), "RETRY_LATER") = FirstProbability(45, 27, 64, 10000)
      /\ Probability(SeedContext(ScenarioB), "SEND_PAYMENT_LINK") = FirstProbability(40, 27, 64, 10000)
      /\ Probability(SeedContext(ScenarioB), "SEND_REMINDER") = FirstProbability(35, 27, 64, 10000)
  BY <1>1, <1>3, FirstIsWorth
<1>6. {"RETRY_LATER", "SEND_PAYMENT_LINK", "SEND_REMINDER"} \subseteq ActionType
  BY DEF ActionType
<1> QED
  BY <1>1, <1>2, <1>4, <1>5, <1>6, FirstChoice, ScenarioCosts

\* C: a deferred retry again, of an amount above any threshold.
LEMMA ChoiceC ==
    ASSUME PromisingSettings
    PROVE  Choose("Paychecker", SeedContext(ScenarioC)) = "RETRY_LATER"
<1>1. /\ ScenarioC \in AtRiskPayment /\ ScenarioC.reason = "BANK_TIMEOUT" /\ ScenarioC.attempts = 1
      /\ ScenarioC.rate = 92 /\ ScenarioC.subscriber /\ ScenarioC.amount = HighValueThreshold + 40000
  BY DemoSeedsTyped DEF DemoSeeds, ScenarioC, AtRisk
<1>2. CandidatesByReason["BANK_TIMEOUT"] = {"RETRY_LATER", "RETRY_NOW", "SEND_PAYMENT_LINK"}
  BY DEF CandidatesByReason, FailureReason
<1>3. /\ Scaled(ScenarioC, 3, 4, 13146) /\ Rated(ScenarioC, "RETRY_LATER", 78)
      /\ Rated(ScenarioC, "RETRY_NOW", 35) /\ Rated(ScenarioC, "SEND_PAYMENT_LINK", 55)
  BY <1>1, ScenarioNumbers, ScenarioPowers DEF Scaled, Rated, SeedFactor
<1>4. /\ FirstProbability(78, 3, 4, 13146) = 769
      /\ FirstProbability(35, 3, 4, 13146) = 345
      /\ FirstProbability(55, 3, 4, 13146) = 542
  BY DEF FirstProbability, Clamp, RoundHalfEven
<1>5. /\ Probability(SeedContext(ScenarioC), "RETRY_LATER") = FirstProbability(78, 3, 4, 13146)
      /\ Probability(SeedContext(ScenarioC), "RETRY_NOW") = FirstProbability(35, 3, 4, 13146)
      /\ Probability(SeedContext(ScenarioC), "SEND_PAYMENT_LINK") = FirstProbability(55, 3, 4, 13146)
  BY <1>1, <1>3, FirstIsWorth
<1>6. {"RETRY_LATER", "RETRY_NOW", "SEND_PAYMENT_LINK"} \subseteq ActionType
  BY DEF ActionType
<1> QED
  BY <1>1, <1>2, <1>4, <1>5, <1>6, FirstChoice, ScenarioCosts, ThresholdAssumption

\* D: the customer is asked for another method.
LEMMA ChoiceD ==
    ASSUME PromisingSettings
    PROVE  Choose("Paychecker", SeedContext(ScenarioD)) = "CHANGE_PAYMENT_METHOD"
<1>1. /\ ScenarioD \in AtRiskPayment /\ ScenarioD.reason = "EXPIRED_CARD" /\ ScenarioD.attempts = 1
      /\ ScenarioD.rate = 94 /\ ScenarioD.subscriber /\ ScenarioD.amount = 6000
  BY DemoSeedsTyped DEF DemoSeeds, ScenarioD, AtRisk
<1>2. CandidatesByReason["EXPIRED_CARD"] = {"CHANGE_PAYMENT_METHOD", "SEND_PAYMENT_LINK", "ESCALATE_HUMAN"}
  BY DEF CandidatesByReason, FailureReason
<1>3. /\ Scaled(ScenarioD, 3, 4, 13272) /\ Rated(ScenarioD, "CHANGE_PAYMENT_METHOD", 72)
      /\ Rated(ScenarioD, "SEND_PAYMENT_LINK", 58) /\ Rated(ScenarioD, "ESCALATE_HUMAN", 30)
  BY <1>1, ScenarioNumbers, ScenarioPowers DEF Scaled, Rated, SeedFactor
<1>4. /\ FirstProbability(72, 3, 4, 13272) = 717
      /\ FirstProbability(58, 3, 4, 13272) = 577
      /\ FirstProbability(30, 3, 4, 13272) = 299
  BY DEF FirstProbability, Clamp, RoundHalfEven
<1>5. /\ Probability(SeedContext(ScenarioD), "CHANGE_PAYMENT_METHOD") = FirstProbability(72, 3, 4, 13272)
      /\ Probability(SeedContext(ScenarioD), "SEND_PAYMENT_LINK") = FirstProbability(58, 3, 4, 13272)
      /\ Probability(SeedContext(ScenarioD), "ESCALATE_HUMAN") = FirstProbability(30, 3, 4, 13272)
  BY <1>1, <1>3, FirstIsWorth
<1>6. {"CHANGE_PAYMENT_METHOD", "SEND_PAYMENT_LINK", "ESCALATE_HUMAN"} \subseteq ActionType
  BY DEF ActionType
<1> QED
  BY <1>1, <1>2, <1>4, <1>5, <1>6, FirstChoice, ScenarioCosts

\* What the four scenarios promise.
LEMMA ScenarioPromises ==
    /\ ScenarioA.key = "A" /\ ScenarioB.key = "B" /\ ScenarioC.key = "C" /\ ScenarioD.key = "D"
    /\ DemoScenarioSpecs["A"].action = "RETRY_LATER"
    /\ DemoScenarioSpecs["A"].final = "RECOVERED"
    /\ DemoScenarioSpecs["B"].action = "RETRY_LATER"
    /\ DemoScenarioSpecs["B"].final = "STOPPED"
    /\ DemoScenarioSpecs["C"].action = "RETRY_LATER"
    /\ DemoScenarioSpecs["C"].final = "ESCALATED"
    /\ DemoScenarioSpecs["D"].action = "CHANGE_PAYMENT_METHOD"
    /\ DemoScenarioSpecs["D"].final = "RECOVERED"
<1>1. /\ ScenarioA.key = "A" /\ ScenarioB.key = "B" /\ ScenarioC.key = "C" /\ ScenarioD.key = "D"
  BY DEF ScenarioA, ScenarioB, ScenarioC, ScenarioD, AtRisk
<1>2. DemoScenarioSpecs["A"].action = "RETRY_LATER" /\ DemoScenarioSpecs["A"].final = "RECOVERED"
  BY DEF DemoScenarioSpecs
<1>3. DemoScenarioSpecs["B"].action = "RETRY_LATER" /\ DemoScenarioSpecs["B"].final = "STOPPED"
  BY DEF DemoScenarioSpecs
<1>4. DemoScenarioSpecs["C"].action = "RETRY_LATER" /\ DemoScenarioSpecs["C"].final = "ESCALATED"
  BY DEF DemoScenarioSpecs
<1>5. /\ DemoScenarioSpecs["D"].action = "CHANGE_PAYMENT_METHOD"
      /\ DemoScenarioSpecs["D"].final = "RECOVERED"
  BY DEF DemoScenarioSpecs
<1> QED
  BY <1>1, <1>2, <1>3, <1>4, <1>5

\* The policy lets a fresh failure with a known, supported cause be retried, and
\* hands it to a human where it is of high value.
LEMMA FreshVerdict ==
    ASSUME PromisingSettings, NEW ctx, NEW t \in {"RETRY_LATER", "CHANGE_PAYMENT_METHOD"},
           ctx.status = "FAILED", ctx.reason \in {"BANK_TIMEOUT", "EXPIRED_CARD"},
           ctx.attempts = 1, ctx.failures = 0
    PROVE  /\ ctx.highValue => PolicyVerdict(ctx, t) = "ESCALATED"
           /\ ~ctx.highValue => PolicyVerdict(ctx, t) = "APPROVED"
  BY SettingsAssumption
     DEF PolicyVerdict, Blocking, InvalidPaymentState, UnsupportedAction, RetryLimitReached,
           RecoveryBudgetExhausted, RepeatedFailures, Escalating, UnknownFailure,
           HighValueTransaction, PromisingSettings, Unsuccessful

\* Selected as promised, and answered so that the promised state is the only one
\* left: approved and sure to succeed, or refused.
AsPromised(s, action, final) ==
    /\ Choose("Paychecker", SeedContext(s)) = action
    /\ action \notin TerminalActions
    /\ \/ /\ PolicyVerdict(SeedContext(s), action) = "APPROVED" /\ final = "RECOVERED"
          /\ SimulatedOutcomes(s.reason, action) = {TRUE}
       \/ PolicyVerdict(SeedContext(s), action) = "BLOCKED" /\ final = "STOPPED"
       \/ PolicyVerdict(SeedContext(s), action) = "ESCALATED" /\ final = "ESCALATED"

\* What the simulator knows to succeed does.
LEMMA AlwaysSucceeds ==
    /\ SimulatedOutcomes("BANK_TIMEOUT", "RETRY_LATER") = {TRUE}
    /\ SimulatedOutcomes("EXPIRED_CARD", "CHANGE_PAYMENT_METHOD") = {TRUE}
<1>1. ASSUME NEW reason, NEW t, <<reason, t>> \in AlwaysSucceed, <<reason, t>> \notin AlwaysFail
      PROVE  SimulatedOutcomes(reason, t) = {TRUE}
  BY <1>1, Zenon DEF SimulatedOutcomes
<1>2. /\ <<"BANK_TIMEOUT", "RETRY_LATER">> \in AlwaysSucceed \ AlwaysFail
      /\ <<"EXPIRED_CARD", "CHANGE_PAYMENT_METHOD">> \in AlwaysSucceed \ AlwaysFail
  BY DEF AlwaysSucceed, AlwaysFail
<1> QED
  BY <1>1, <1>2

\* Every demonstration seed is selected and answered as its scenario promises.
LEMMA SeedsAsPromised ==
    ASSUME PromisingSettings, NEW s \in DemoSeeds
    PROVE  AsPromised(s, DemoScenarioSpecs[s.key].action, DemoScenarioSpecs[s.key].final)
<1>1. AsPromised(ScenarioA, "RETRY_LATER", "RECOVERED")
  <2> DEFINE ctx == SeedContext(ScenarioA)
  <2>1. /\ ctx.status = "FAILED" /\ ctx.reason = "BANK_TIMEOUT" /\ ctx.attempts = 1
        /\ ctx.failures = 0 /\ ~ctx.highValue
    <3>1. ScenarioA.amount <= HighValueThreshold
      BY ThresholdAssumption DEF ScenarioA, AtRisk, PromisingSettings
    <3>2. /\ ctx.status = "FAILED" /\ ctx.failures = 0
          /\ ctx.reason = ScenarioA.reason /\ ctx.attempts = ScenarioA.attempts
          /\ ctx.highValue <=> ScenarioA.amount > HighValueThreshold
      BY DEF SeedContext
    <3>3. ScenarioA.reason = "BANK_TIMEOUT" /\ ScenarioA.attempts = 1
      BY DEF ScenarioA, AtRisk
    <3>4. ScenarioA.amount \in Int /\ HighValueThreshold \in Int
      BY ThresholdAssumption DEF ScenarioA, AtRisk
    <3> HIDE DEF ctx
    <3> QED
      BY <3>1, <3>2, <3>3, <3>4
  <2>2. Choose("Paychecker", ctx) = "RETRY_LATER"
    BY ChoiceA
  <2>3. SimulatedOutcomes(ScenarioA.reason, "RETRY_LATER") = {TRUE}
    BY AlwaysSucceeds DEF ScenarioA, AtRisk
  <2> HIDE DEF ctx
  <2>4. PolicyVerdict(ctx, "RETRY_LATER") = "APPROVED"
    BY <2>1, FreshVerdict
  <2> QED
    BY <2>2, <2>3, <2>4 DEF ctx, AsPromised, TerminalActions
<1>2. AsPromised(ScenarioB, "RETRY_LATER", "STOPPED")
  <2> DEFINE ctx == SeedContext(ScenarioB)
  <2>1. ctx.attempts = MaxAutomaticRetries
    BY DEF SeedContext, ScenarioB, AtRisk
  <2>2. Choose("Paychecker", ctx) = "RETRY_LATER"
    BY ChoiceB2, ChoiceB3 DEF PromisingSettings
  <2> HIDE DEF ctx
  <2>4. PolicyVerdict(ctx, "RETRY_LATER") = "BLOCKED"
    BY <2>1, SettingsAssumption DEF PolicyVerdict, Blocking, RetryLimitReached, RetryActions
  <2> QED
    BY <2>2, <2>4 DEF ctx, AsPromised, TerminalActions
<1>3. AsPromised(ScenarioC, "RETRY_LATER", "ESCALATED")
  <2> DEFINE ctx == SeedContext(ScenarioC)
  <2>1. /\ ctx.status = "FAILED" /\ ctx.reason = "BANK_TIMEOUT" /\ ctx.attempts = 1
        /\ ctx.failures = 0 /\ ctx.highValue
    <3>1. ScenarioC.amount > HighValueThreshold
      BY ThresholdAssumption DEF ScenarioC, AtRisk, PromisingSettings
    <3>2. /\ ctx.status = "FAILED" /\ ctx.failures = 0
          /\ ctx.reason = ScenarioC.reason /\ ctx.attempts = ScenarioC.attempts
          /\ ctx.highValue <=> ScenarioC.amount > HighValueThreshold
      BY DEF SeedContext
    <3>3. ScenarioC.reason = "BANK_TIMEOUT" /\ ScenarioC.attempts = 1
      BY DEF ScenarioC, AtRisk
    <3>4. ScenarioC.amount \in Int /\ HighValueThreshold \in Int
      BY ThresholdAssumption DEF ScenarioC, AtRisk
    <3> HIDE DEF ctx
    <3> QED
      BY <3>1, <3>2, <3>3, <3>4
  <2>2. Choose("Paychecker", ctx) = "RETRY_LATER"
    BY ChoiceC
  <2> HIDE DEF ctx
  <2>4. PolicyVerdict(ctx, "RETRY_LATER") = "ESCALATED"
    BY <2>1, FreshVerdict
  <2> QED
    BY <2>2, <2>4 DEF ctx, AsPromised, TerminalActions
<1>4. AsPromised(ScenarioD, "CHANGE_PAYMENT_METHOD", "RECOVERED")
  <2> DEFINE ctx == SeedContext(ScenarioD)
  <2>1. /\ ctx.status = "FAILED" /\ ctx.reason = "EXPIRED_CARD" /\ ctx.attempts = 1
        /\ ctx.failures = 0 /\ ~ctx.highValue
    <3>1. ScenarioD.amount <= HighValueThreshold
      BY ThresholdAssumption DEF ScenarioD, AtRisk, PromisingSettings
    <3>2. /\ ctx.status = "FAILED" /\ ctx.failures = 0
          /\ ctx.reason = ScenarioD.reason /\ ctx.attempts = ScenarioD.attempts
          /\ ctx.highValue <=> ScenarioD.amount > HighValueThreshold
      BY DEF SeedContext
    <3>3. ScenarioD.reason = "EXPIRED_CARD" /\ ScenarioD.attempts = 1
      BY DEF ScenarioD, AtRisk
    <3>4. ScenarioD.amount \in Int /\ HighValueThreshold \in Int
      BY ThresholdAssumption DEF ScenarioD, AtRisk
    <3> HIDE DEF ctx
    <3> QED
      BY <3>1, <3>2, <3>3, <3>4
  <2>2. Choose("Paychecker", ctx) = "CHANGE_PAYMENT_METHOD"
    BY ChoiceD
  <2>3. SimulatedOutcomes(ScenarioD.reason, "CHANGE_PAYMENT_METHOD") = {TRUE}
    BY AlwaysSucceeds DEF ScenarioD, AtRisk
  <2> HIDE DEF ctx
  <2>4. PolicyVerdict(ctx, "CHANGE_PAYMENT_METHOD") = "APPROVED"
    BY <2>1, FreshVerdict
  <2> QED
    BY <2>2, <2>3, <2>4 DEF ctx, AsPromised, TerminalActions
<1> QED
  BY <1>1, <1>2, <1>3, <1>4, ScenarioPromises DEF DemoSeeds

\* The board's four seeds are the only ones that promise anything.
PromisedSeeds == \A p \in Payments : \A s \in Seeds[p] : s.key # None => s \in DemoSeeds

\* A demonstration payment waits for its first run, for its retry, or is where
\* its scenario ends; only what was promised has been selected for it.
Promised(q) ==
    LET spec == DemoScenarioSpecs[seed[q].key]
    IN  /\ cases[q].state \in {"DETECTED", "SCHEDULED", spec.final}
        /\ cases[q].state = "SCHEDULED" => spec.final = "RECOVERED"
        /\ \A a \in Actions : Exists(a) /\ actions[a].case = q =>
             actions[a].type = spec.action /\ cases[q].state # "DETECTED"

DemoKept == \A q \in Payments \ disturbed : seed[q].key # None => Promised(q)

\* The first run decides as promised, and a resumed retry succeeds.
LEMMA RunKeepsPromise ==
    ASSUME PromisingSettings, AutopilotTypeOK, CaseInv, RowsKept, RowsFiled,
           NEW q \in Payments, q \in Cases, SeededRow(q), HeldSeeded(q), seed[q] \in DemoSeeds,
           Promised(q), NEW h \in PaymentRow, NEW pay \in PaymentRow, Runs(q, h, pay)
    PROVE  Promised(q)'
<1> USE DEF AutopilotTypeOK
<1> DEFINE act   == DemoScenarioSpecs[seed[q].key].action
           final == DemoScenarioSpecs[seed[q].key].final
<1>1. cases[q].payment = q
  BY DEF SeededRow
<1>2. PICK a \in Actions, row \in ActionRow, state \in CaseState :
        RunShape(q, h, a, row, state, pay)
  BY RunIsShaped
<1>3. /\ cases'[q].state = state /\ actions'[a] = row /\ row.case = q
      /\ \A b \in Actions : b # a => actions'[b] = actions[b] /\ (Exists(b)' <=> Exists(b))
      /\ cases[q].state \in {"DETECTED", "FAILED", "SCHEDULED"}
  BY <1>2, RunPointwise DEF RunShape
<1>4. AsPromised(seed[q], act, final)
  BY SeedsAsPromised
<1>5. /\ cases[q].state \in {"DETECTED", "SCHEDULED", final}
      /\ cases[q].state = "SCHEDULED" => final = "RECOVERED"
      /\ \A b \in Actions : Exists(b) /\ actions[b].case = q =>
           actions[b].type = act /\ cases[q].state # "DETECTED"
  BY DEF Promised
<1>6. /\ SeededCopy(h, q) /\ h.status \in Unsuccessful
      /\ ContextFrom(h, q).reason = seed[q].reason
  <2>1. Open(q)
    BY <1>3 DEF Open, TerminalStates, Absent
  <2>2. SeededCopy(h, q)
    BY RunHasCopy
  <2> QED
    BY <2>1, <2>2, SeededCause DEF SeededCopy
<1>7. UNCHANGED seed
  BY RunIsShaped
<1> HIDE DEF act, final
<1>8. final \in {"RECOVERED", "STOPPED", "ESCALATED"} /\ act \notin TerminalActions
  BY <1>4 DEF AsPromised
<1>9. ASSUME Chosen(q, h, a, row)
      PROVE  /\ row.type = act
             /\ RowVerdict(row) = PolicyVerdict(SeedContext(seed[q]), act)
  <2>1. cases[q].state = "DETECTED"
    BY <1>5, <1>8, <1>9 DEF Chosen
  <2>2. \A b \in Actions : Exists(b) => actions[b].case # q
    BY <1>5, <2>1
  <2>3. row.type = Choose("Paychecker", SeedContext(seed[q]))
    BY <1>1, <1>6, <1>9, <2>2, BeforeFirst DEF Chosen
  <2>4. row.type = act
    BY <1>4, <2>3 DEF AsPromised
  <2> QED
    BY <1>1, <1>6, <1>9, <2>2, <2>4, BeforeFirst DEF Chosen
<1>10. ASSUME row.type = act, Acts(q, h, row, state, pay),
              SimulatedOutcomes(seed[q].reason, act) = {TRUE}
       PROVE  state = "RECOVERED"
  <2>1. PICK ok \in BOOLEAN : Answered(q, h, ok, row, state, pay)
    BY <1>10 DEF Acts
  <2>2. ok /\ h.status # "SUCCEEDED"
    BY <1>1, <1>6, <1>10, <2>1 DEF Answered, Unsuccessful
  <2> QED
    BY <2>1, <2>2 DEF Answered
<1>11. ASSUME Chosen(q, h, a, row), Rests(h, row, state, pay)
       PROVE  state = final \/ (state = "SCHEDULED" /\ final = "RECOVERED")
  <2>1. /\ Closes(row) <=> state \in Closed
        /\ row.status = "BLOCKED" => state = "STOPPED"
        /\ row.status = "ESCALATED" => state = "ESCALATED"
    BY <1>2, RunFiles
  <2>2. RowVerdict(row) = PolicyVerdict(SeedContext(seed[q]), act) /\ row.type = act
    BY <1>9, <1>11
  <2>3. CASE RowVerdict(row) = "APPROVED"
    <3>1. ~Closes(row)
      BY <1>8, <2>2, <2>3 DEF Closes, Refused, RowVerdict
    <3>2. state = "SCHEDULED"
      BY <1>11, <2>1, <3>1 DEF Rests, Closed
    <3> QED
      BY <1>4, <2>2, <2>3, <3>2 DEF AsPromised
  <2>4. CASE RowVerdict(row) # "APPROVED"
    BY <1>4, <2>1, <2>2, <2>4 DEF AsPromised, RowVerdict
  <2> QED
    BY <2>3, <2>4
<1>12. ASSUME Chosen(q, h, a, row), Acts(q, h, row, state, pay)
       PROVE  state = final
  <2>1. RowVerdict(row) = "APPROVED"
    BY <1>12 DEF Acts, RowVerdict
  <2>2. final = "RECOVERED" /\ SimulatedOutcomes(seed[q].reason, act) = {TRUE}
    BY <1>4, <1>9, <1>12, <2>1 DEF AsPromised
  <2> QED
    BY <1>9, <1>10, <1>12, <2>2
<1>13. ASSUME Resumed(q, a, row), Acts(q, h, row, state, pay)
       PROVE  state = final /\ row.type = act
  <2>1. final = "RECOVERED" /\ row.type = act
    BY <1>5, <1>13 DEF Resumed, Pending
  <2>2. SimulatedOutcomes(seed[q].reason, act) = {TRUE}
    BY <1>4, <2>1 DEF AsPromised
  <2> QED
    BY <1>10, <1>13, <2>1, <2>2
<1>14. /\ row.type = act
       /\ state = final \/ (state = "SCHEDULED" /\ final = "RECOVERED")
  BY <1>2, <1>9, <1>11, <1>12, <1>13 DEF RunShape
<1>15. \A b \in Actions : Exists(b)' /\ actions'[b].case = q => actions'[b].type = act
  BY <1>3, <1>5, <1>14
<1>16. /\ cases'[q].state \in {"DETECTED", "SCHEDULED", final}
       /\ cases'[q].state = "SCHEDULED" => final = "RECOVERED"
       /\ cases'[q].state # "DETECTED"
  BY <1>3, <1>8, <1>14
<1> QED
  BY <1>7, <1>15, <1>16 DEF Promised, act, final

\* What leaves the case and its rows alone leaves the promise alone.
LEMMA PromiseFrame ==
    ASSUME NEW q \in Payments, Promised(q), UNCHANGED seed, cases'[q].state = cases[q].state,
           \A a \in Actions : Exists(a)' /\ actions'[a].case = q =>
             Exists(a) /\ actions[a].case = q /\ actions'[a].type = actions[a].type
    PROVE  Promised(q)'
<1> DEFINE spec == DemoScenarioSpecs[seed[q].key]
<1>1. spec' = spec
  OBVIOUS
<1>2. /\ cases[q].state \in {"DETECTED", "SCHEDULED", spec.final}
      /\ cases[q].state = "SCHEDULED" => spec.final = "RECOVERED"
      /\ \A a \in Actions : Exists(a) /\ actions[a].case = q =>
           actions[a].type = spec.action /\ cases[q].state # "DETECTED"
  BY DEF Promised
<1>3. /\ cases'[q].state \in {"DETECTED", "SCHEDULED", spec'.final}
      /\ cases'[q].state = "SCHEDULED" => spec'.final = "RECOVERED"
      /\ \A a \in Actions : Exists(a)' /\ actions'[a].case = q =>
           actions'[a].type = spec'.action /\ cases'[q].state # "DETECTED"
  <2> HIDE DEF spec
  <2> QED
    BY <1>1, <1>2
<1> QED
  BY <1>3 DEF Promised

\* A new seeding starts over, and so does the database the demonstration starts from.
AllPromised == \A q \in Payments : Promised(q)

\* Nothing has been selected then.
LEMMA SeedingPromises == FreshlySeeded => AllPromised
<1> SUFFICES ASSUME FreshlySeeded, NEW q \in Payments
             PROVE  Promised(q)
  BY DEF AllPromised
<1>1. \A a \in Actions : ~Exists(a)
  BY SeededTypes DEF FreshlySeeded, Exists
<1>2. cases[q].state = "DETECTED"
  BY AutopilotAssumption DEF FreshlySeeded, SeededCases
<1> QED
  BY <1>1, <1>2 DEF Promised

\* The same after a reset.
LEMMA ReseedingPromises == FreshlySeeded' => AllPromised'
  BY SeedingPromises, PTL

\* Whatever happens around a demonstration payment nobody else touches, it goes
\* the way its scenario promises.
LEMMA StepDemoKept ==
    ASSUME PromisingSettings, PromisedSeeds, FiledInv, DemoKept, RowStep
    PROVE  DemoKept'
<1> USE DEF FiledInv, DemoInv, AutopilotTypeOK
<1>1. UNCHANGED seed
  BY StepHistoryTypes DEF world
<1>2. ASSUME NEW q \in Payments, q \notin disturbed', seed[q].key # None
      PROVE  Promised(q)'
  <2>1. q \in Cases /\ seed[q] \in DemoSeeds
    BY <1>2, AutopilotAssumption DEF RowsKept, PromisedSeeds
  <2>2. ASSUME q \notin disturbed PROVE SeededRow(q) /\ HeldSeeded(q) /\ Promised(q)
    BY <1>2, <2>2 DEF Seeded, DemoKept
  <2>3. CASE ResetDemo
    <3>1. FreshlySeeded'
      BY <2>3 DEF ResetDemo, FreshlySeeded, world
    <3> QED
      BY <3>1, ReseedingPromises DEF AllPromised
  <2>4. ASSUME NEW c \in Cases, NEW h \in PaymentRow, NEW pay \in PaymentRow, Runs(c, h, pay)
        PROVE  Promised(q)'
    <3>1. q \notin disturbed
      BY <1>2, <2>4, RunIsShaped
    <3>2. SeededRow(q) /\ HeldSeeded(q) /\ Promised(q)
      BY <2>2, <3>1
    <3>3. CASE c = q
      BY <2>1, <2>4, <3>2, <3>3, RunKeepsPromise
    <3>4. CASE c # q
      <4>1. PICK a \in Actions, row \in ActionRow, state \in CaseState :
              RunShape(c, h, a, row, state, pay)
        BY <2>4, RunIsShaped
      <4>2. /\ \A d \in Cases : d # c => cases'[d] = cases[d]
            /\ actions'[a] = row /\ row.case = c
            /\ \A b \in Actions : b # a => actions'[b] = actions[b] /\ (Exists(b)' <=> Exists(b))
        BY <4>1, RunPointwise DEF RunShape
      <4>3. cases'[q].state = cases[q].state
        BY <2>1, <3>4, <4>2
      <4>4. \A b \in Actions : Exists(b)' /\ actions'[b].case = q =>
              Exists(b) /\ actions[b].case = q /\ actions'[b].type = actions[b].type
        BY <3>4, <4>2
      <4> QED
        BY <1>1, <3>2, <4>3, <4>4, PromiseFrame
    <3> QED
      BY <3>3, <3>4
  <2>5. ASSUME Ticks PROVE Promised(q)'
    <3>1. UNCHANGED <<cases, disturbed>>
      BY <2>5 DEF Ticks
    <3>2. \A a \in Actions : /\ (Exists(a)' <=> Exists(a)) /\ actions'[a].case = actions[a].case
                             /\ actions'[a].type = actions[a].type
      BY <2>5, TickRows
    <3> QED
      BY <1>1, <1>2, <2>2, <3>1, <3>2, PromiseFrame
  <2>6. ASSUME NEW p \in Payments, Disturb(p) PROVE Promised(q)'
    <3>1. /\ UNCHANGED actions /\ disturbed' = disturbed \cup {p}
          /\ \A d \in Cases : \/ cases'[d] = cases[d]
                              \/ cases[d].state = Absent \/ cases[d].payment = p
      BY <2>6, DisturbPointwise
    <3>2. q # p /\ SeededRow(q) /\ Promised(q)
      BY <1>2, <2>2, <3>1
    <3>3. cases'[q] = cases[q]
      BY <2>1, <3>1, <3>2 DEF SeededRow
    <3>4. \A a \in Actions : Exists(a)' <=> Exists(a)
      BY <3>1 DEF Exists
    <3> QED
      BY <1>1, <3>1, <3>2, <3>3, <3>4, PromiseFrame
  <2>7. ASSUME SeedAgain \/ BatchMoves PROVE Promised(q)'
    <3>1. UNCHANGED <<cases, actions>> /\ q \notin disturbed
      BY <1>2, <2>7 DEF SeedAgain, BatchMoves, vars
    <3>2. \A a \in Actions : Exists(a)' <=> Exists(a)
      BY <3>1 DEF Exists
    <3> QED
      BY <1>1, <2>2, <3>1, <3>2, PromiseFrame
  <2> QED
    BY <2>3, <2>4, <2>5, <2>6, <2>7 DEF RowStep
<1> QED
  BY <1>1, <1>2 DEF DemoKept

\* The board keeps its promises (Autopilot.DemoGuaranteed), whatever batches,
\* manual runs and the clock do, and whatever happens to other payments: nothing
\* but the promised action is selected for a demonstration payment nobody else
\* touched, and where its case is closed it is in the promised state.
THEOREM PromisesKept ==
    ASSUME PromisingSettings, PromisedSeeds
    PROVE  ASpec => []DemoGuaranteed
<1> DEFINE Kept == FiledInv /\ DemoKept
<1>1. AInit => Kept
  <2> SUFFICES ASSUME AInit PROVE Kept
    OBVIOUS
  <2>1. FiledInv /\ FreshlySeeded
    BY InitFiled, InitDemoTypes
  <2> QED
    BY <2>1, SeedingPromises DEF AllPromised, DemoKept
<1>2. Kept /\ [ANext]_avars => Kept'
  BY StepFiled, StepDemoKept, EveryStep DEF FiledInv, DemoInv
<1>3. Kept => DemoGuaranteed
  BY DEF DemoKept, Promised, DemoGuaranteed, TerminalStates
<1> QED
  BY <1>1, <1>2, <1>3, PTL DEF ASpec

(***************************************************************************)
(* The benchmark: both arms over the same population.                      *)
(***************************************************************************)
\* What an action is worth for a payment seeded so, with default economics.
Worth(s, t) == Valuation(SeedContext(s), t, DefaultEconomy).value

\* What is worth the most is selected.
LEMMA BestOfThree ==
    ASSUME NEW s \in AtRiskPayment, NEW a \in ActionType, NEW b \in ActionType, NEW d \in ActionType,
           CandidatesByReason[s.reason] = {a, b, d}
    PROVE  /\ Choose("Paychecker", SeedContext(s)) \in {a, b, d}
           /\ \A t \in {a, b, d} : Worth(s, t) <= Worth(s, Choose("Paychecker", SeedContext(s)))
<1> DEFINE ctx == SeedContext(s)
<1>1. ctx.amount \in Nat /\ ctx.reason = s.reason
  BY DEF SeedContext, AtRiskPayment
<1> HIDE DEF ctx
<1>2. Choose("Paychecker", ctx) = SelectedAction(ctx, {a, b, d}, DefaultEconomy, AllowHumanEscalation)
  BY <1>1 DEF Choose
<1> QED
  BY <1>1, <1>2, BestIsSelected DEF Worth, ctx

\* Division with a remainder.
LEMMA Divided ==
    ASSUME NEW n \in Nat, NEW d \in Nat \ {0}
    PROVE  /\ n \div d \in Int /\ n % d \in Int
           /\ 0 <= n % d /\ n % d < d
           /\ (n % d) + d * (n \div d) = n
<1>1. n \div d \in Int /\ n % d \in 0..(d - 1)
  OBVIOUS
<1>2. (n % d) + d * (n \div d) = n
  OBVIOUS
<1> QED
  BY <1>1, <1>2

\* Quotients of one divisor are ordered like the numbers.
LEMMA QuotientsOrdered ==
    ASSUME NEW d \in Int, d > 0, NEW q \in Int, NEW r \in Int, 0 <= r, r < d,
           NEW k \in Int, NEW s \in Int, 0 <= s, s < d, r + d * q <= s + d * k
    PROVE  q < k \/ (q = k /\ r <= s)
<1>1. CASE k < q
  <2>1. k + 1 <= q
    BY <1>1
  <2>2. d * (k + 1) <= d * q
    BY <2>1
  <2>3. d * (k + 1) = d * k + d
    OBVIOUS
  <2> DEFINE x == d * q
             y == d * k
  <2>4. x \in Int /\ y \in Int /\ y + d <= x /\ r + x <= s + y
    BY <2>2, <2>3
  <2> HIDE DEF x, y
  <2> QED
    BY <2>4
<1>2. CASE q = k
  BY <1>2
<1> QED
  BY <1>1, <1>2

\* Rounding keeps the order.
LEMMA RoundingOrdered ==
    ASSUME NEW n \in Nat, NEW m \in Nat, n <= m, NEW d \in Nat \ {0}
    PROVE  /\ RoundHalfEven(n, d) \in Int /\ RoundHalfEven(m, d) \in Int
           /\ RoundHalfEven(n, d) <= RoundHalfEven(m, d)
<1> DEFINE q == n \div d
           r == n % d
           k == m \div d
           s == m % d
<1>1. /\ q \in Int /\ r \in Int /\ 0 <= r /\ r < d /\ r + d * q = n
      /\ k \in Int /\ s \in Int /\ 0 <= s /\ s < d /\ s + d * k = m
  BY Divided
<1>2. /\ RoundHalfEven(n, d) = IF 2 * r > d \/ (2 * r = d /\ q % 2 = 1) THEN q + 1 ELSE q
      /\ RoundHalfEven(m, d) = IF 2 * s > d \/ (2 * s = d /\ k % 2 = 1) THEN k + 1 ELSE k
  BY DEF RoundHalfEven
<1> HIDE DEF q, r, k, s
<1>3. q < k \/ (q = k /\ r <= s)
  BY <1>1, QuotientsOrdered
<1> DEFINE u == q % 2
           v == k % 2
<1>4. q = k => u = v
  OBVIOUS
<1> HIDE DEF u, v
<1>5. /\ RoundHalfEven(n, d) = IF 2 * r > d \/ (2 * r = d /\ u = 1) THEN q + 1 ELSE q
      /\ RoundHalfEven(m, d) = IF 2 * s > d \/ (2 * s = d /\ v = 1) THEN k + 1 ELSE k
  BY <1>2 DEF u, v
<1> QED
  BY <1>1, <1>3, <1>4, <1>5

\* Powers are positive; the provers know this of numbers given only.
PowersArePositive == \A n \in Nat : 3 ^ n \in Nat \ {0} /\ 4 ^ n \in Nat \ {0}

\* The customer counts for something between 0.7 and 1.365.
Factors == 7000..13650

\* Its factor is in that range.
LEMMA FactorInRange ==
    ASSUME NEW s \in AtRiskPayment
    PROVE  SeedFactor(s) \in Factors /\ SeedFactor(s) \in Nat
<1> DEFINE rate == s.rate
           each == IF s.subscriber THEN 21 ELSE 20
<1>1. rate \in 0..100 /\ each \in {20, 21}
  BY DEF AtRiskPayment
<1>2. SeedFactor(s) = (350 + 3 * rate) * each
  BY DEF SeedFactor
<1> HIDE DEF rate, each
<1>3. /\ (350 + 3 * rate) * 20 \in 7000..13650 /\ (350 + 3 * rate) * 21 \in 7000..13650
      /\ (350 + 3 * rate) * 20 \in Nat /\ (350 + 3 * rate) * 21 \in Nat
  BY <1>1
<1> QED
  BY <1>1, <1>2, <1>3 DEF Factors

\* What an action brings in, less what it costs.
LEMMA WorthIsNet ==
    ASSUME NEW s \in AtRiskPayment, NEW t \in ActionType
    PROVE  /\ Probability(SeedContext(s), t) \in 20..970
           /\ RoundHalfEven(Probability(SeedContext(s), t) * s.amount, 10) \in Int
           /\ Worth(s, t) = RoundHalfEven(Probability(SeedContext(s), t) * s.amount, 10)
                              - (DefaultEconomy.cost[t] + DefaultEconomy.friction[t])
<1> DEFINE p     == Probability(SeedContext(s), t)
           gross == RoundHalfEven(p * s.amount, 10)
           spent == DefaultEconomy.cost[t]
           lost  == DefaultEconomy.friction[t]
<1>1. p \in 20..970
  <2>1. \A x : Clamp(x, 20, 970) \in 20..970
    <3>1. ASSUME NEW x PROVE Clamp(x, 20, 970) \in 20..970
      <4>1. ASSUME NEW low, NEW high, low \in low..high, high \in low..high
            PROVE  Clamp(x, low, high) \in low..high
        BY <4>1, Zenon DEF Clamp
      <4>2. 20 \in 20..970 /\ 970 \in 20..970
        OBVIOUS
      <4> QED
        BY <4>1, <4>2
    <3> QED
      BY <3>1
  <2> QED
    BY <2>1 DEF Probability
<1>2. gross \in Int
  <2>1. p * s.amount \in Nat
    <3>1. s.amount \in Nat
      BY DEF AtRiskPayment
    <3> HIDE DEF p
    <3> QED
      BY <1>1, <3>1
  <2> HIDE DEF p
  <2> QED
    BY <2>1, RoundsToTenth
<1>3. Worth(s, t) = gross - spent - lost
  BY FirstIsScored DEF Worth
<1>4. spent \in Nat /\ lost \in Nat
  BY ScenarioCosts
<1>5. gross - spent - lost = gross - (spent + lost)
  <2> HIDE DEF gross, spent, lost
  <2> QED
    BY <1>2, <1>4
<1> QED
  BY <1>1, <1>2, <1>3, <1>5

\* It is a number.
LEMMA WorthIsNumber ==
    ASSUME NEW s \in AtRiskPayment, NEW t \in ActionType
    PROVE  Worth(s, t) \in Int
<1> DEFINE gross == RoundHalfEven(Probability(SeedContext(s), t) * s.amount, 10)
           spent == DefaultEconomy.cost[t]
           lost  == DefaultEconomy.friction[t]
<1>1. gross \in Int /\ spent \in Nat /\ lost \in Nat /\ Worth(s, t) = gross - (spent + lost)
  BY WorthIsNet, ScenarioCosts
<1> HIDE DEF gross, spent, lost
<1>2. gross - (spent + lost) \in Int
  BY <1>1
<1> QED
  BY <1>1, <1>2

\* The bounds of a probability keep the order.
LEMMA ClampOrdered ==
    ASSUME NEW x \in Int, NEW y \in Int, x <= y
    PROVE  /\ Clamp(x, 20, 970) \in Nat /\ Clamp(y, 20, 970) \in Nat
           /\ Clamp(x, 20, 970) <= Clamp(y, 20, 970)
<1>1. \A z \in Int : \/ z \in 20..970 /\ Clamp(z, 20, 970) = z
                     \/ z < 20 /\ Clamp(z, 20, 970) = 20
                     \/ z > 970 /\ Clamp(z, 20, 970) = 970
  BY DEF Clamp
<1> QED
  BY <1>1

\* The rates an immediate retry is compared with.
LEMMA RetryRates ==
    /\ BaseRate["INSUFFICIENT_FUNDS"]["RETRY_NOW"] = 12 /\ BaseRate["INSUFFICIENT_FUNDS"]["RETRY_LATER"] = 45
    /\ BaseRate["EXPIRED_CARD"]["RETRY_NOW"] = 5 /\ BaseRate["EXPIRED_CARD"]["CHANGE_PAYMENT_METHOD"] = 72
    /\ BaseRate["EXPIRED_CARD"]["ESCALATE_HUMAN"] = 30
    /\ BaseRate["CHECKOUT_ABANDONMENT"]["RETRY_NOW"] = 8
    /\ BaseRate["CHECKOUT_ABANDONMENT"]["SEND_REMINDER"] = 30
    /\ BaseRate["SUBSCRIPTION_FAILURE"]["RETRY_NOW"] = 25
    /\ BaseRate["SUBSCRIPTION_FAILURE"]["RETRY_LATER"] = 60
  BY DEF BaseRate, Rates, FailureReason, ActionType

\* Asking for another card is always worth more than asking a human: it costs
\* less and succeeds no less often.
LEMMA CardBeforeHuman ==
    ASSUME PowersArePositive, NEW s \in AtRiskPayment, s.reason = "EXPIRED_CARD"
    PROVE  Worth(s, "ESCALATE_HUMAN") < Worth(s, "CHANGE_PAYMENT_METHOD")
<1> DEFINE left   == 3 ^ s.attempts
           of     == 4 ^ s.attempts
           factor == SeedFactor(s)
           p(t)   == Probability(SeedContext(s), t)
           x      == RoundHalfEven(30 * left * factor * 20, 20000 * of)
           y      == RoundHalfEven(72 * left * factor * 20, 20000 * of)
<1>1. left \in Nat \ {0} /\ of \in Nat \ {0} /\ factor \in Nat
  <2>1. s.attempts \in Nat
    BY DEF AtRiskPayment
  <2>2. factor \in Nat
    BY FactorInRange
  <2>3. ASSUME NEW n \in Nat PROVE 3 ^ n \in Nat \ {0} /\ 4 ^ n \in Nat \ {0}
    BY Zenon DEF PowersArePositive
  <2>4. 3 ^ s.attempts \in Nat \ {0} /\ 4 ^ s.attempts \in Nat \ {0}
    BY <2>1, <2>3, Zenon
  <2> QED
    BY <2>2, <2>4, Zenon
<1>2. p("ESCALATE_HUMAN") = Clamp(x, 20, 970) /\ p("CHANGE_PAYMENT_METHOD") = Clamp(y, 20, 970)
  BY FirstIsScored, RetryRates DEF FirstProbability
<1>3. x \in Int /\ y \in Int /\ x <= y
  <2> HIDE DEF left, of, factor
  <2> DEFINE k == left * factor * 20
             n == 30 * left * factor * 20
             m == 72 * left * factor * 20
             d == 20000 * of
  <2>1. k \in Nat
    BY <1>1
  <2>2. n = 30 * k /\ m = 72 * k
    BY <1>1
  <2>3. d \in Nat \ {0}
    BY <1>1
  <2>4. n \in Nat /\ m \in Nat /\ n <= m
    <3> HIDE DEF k, n, m
    <3> QED
      BY <2>1, <2>2
  <2> HIDE DEF n, m, d
  <2>5. /\ RoundHalfEven(n, d) \in Int /\ RoundHalfEven(m, d) \in Int
        /\ RoundHalfEven(n, d) <= RoundHalfEven(m, d)
    BY <2>3, <2>4, RoundingOrdered
  <2> QED
    BY <2>5 DEF n, m, d
<1> HIDE DEF x, y, left, of, factor
<1>4. Clamp(x, 20, 970) \in Nat /\ Clamp(y, 20, 970) \in Nat /\ Clamp(x, 20, 970) <= Clamp(y, 20, 970)
  BY <1>3, ClampOrdered
<1> DEFINE i == Clamp(x, 20, 970)
           j == Clamp(y, 20, 970)
           amount == s.amount
<1>5. amount \in Nat
  BY DEF AtRiskPayment
<1>6. /\ RoundHalfEven(i * amount, 10) \in Int /\ RoundHalfEven(j * amount, 10) \in Int
      /\ RoundHalfEven(i * amount, 10) <= RoundHalfEven(j * amount, 10)
  <2>1. i \in Nat /\ j \in Nat /\ i <= j
    BY <1>4
  <2> HIDE DEF i, j, amount
  <2>2. i * amount \in Nat /\ j * amount \in Nat /\ i * amount <= j * amount
    BY <1>5, <2>1
  <2> DEFINE n == i * amount
             m == j * amount
  <2>3. n \in Nat /\ m \in Nat /\ n <= m
    BY <2>2
  <2> HIDE DEF n, m
  <2>4. /\ RoundHalfEven(n, 10) \in Int /\ RoundHalfEven(m, 10) \in Int
        /\ RoundHalfEven(n, 10) <= RoundHalfEven(m, 10)
    BY <2>3, RoundingOrdered
  <2> QED
    BY <2>4 DEF n, m
<1> DEFINE little == RoundHalfEven(i * amount, 10)
           much   == RoundHalfEven(j * amount, 10)
<1>7. Worth(s, "ESCALATE_HUMAN") = little - 50000 /\ Worth(s, "CHANGE_PAYMENT_METHOD") = much - 23000
  <2>1. "ESCALATE_HUMAN" \in ActionType /\ "CHANGE_PAYMENT_METHOD" \in ActionType
    BY DEF ActionType
  <2> QED
    BY <1>2, <2>1, WorthIsNet, ScenarioCosts
<1>8. little \in Int /\ much \in Int /\ little <= much
  BY <1>6
<1> HIDE DEF little, much
<1>9. little - 50000 < much - 23000
  BY <1>8
<1> QED
  BY <1>7, <1>9

\* No candidate that ends a case is ever selected for a cause that is known.
LEMMA KnownCauseIsActedOn ==
    ASSUME PowersArePositive, NEW s \in AtRiskPayment, s.reason # "UNKNOWN"
    PROVE  /\ Choose("Paychecker", SeedContext(s)) \in ActionType \ TerminalActions
           /\ \A t \in CandidatesByReason[s.reason] :
                Worth(s, t) <= Worth(s, Choose("Paychecker", SeedContext(s)))
<1> DEFINE choice == Choose("Paychecker", SeedContext(s))
           C == CandidatesByReason[s.reason]
<1>1. s.reason \in FailureReason
  BY DEF AtRiskPayment
<1>2. ASSUME NEW a \in ActionType, NEW b \in ActionType, NEW d \in ActionType, C = {a, b, d}
      PROVE  choice \in C /\ \A t \in C : Worth(s, t) <= Worth(s, choice)
  <2> HIDE DEF choice
  <2> QED
    BY <1>2, BestOfThree DEF choice
<1>3. \/ C = {"RETRY_NOW", "RETRY_LATER", "SEND_PAYMENT_LINK"}
      \/ C = {"RETRY_LATER", "SEND_PAYMENT_LINK", "SEND_REMINDER"}
      \/ C = {"SEND_REMINDER", "SEND_PAYMENT_LINK", "SEND_PAYMENT_LINK"}
      \/ C = {"RETRY_NOW", "RETRY_LATER", "RETRY_LATER"}
      \/ /\ C = {"CHANGE_PAYMENT_METHOD", "SEND_PAYMENT_LINK", "ESCALATE_HUMAN"}
         /\ s.reason = "EXPIRED_CARD"
  BY <1>1 DEF CandidatesByReason, FailureReason
<1>4. C \subseteq ActionType /\ choice \in C /\ \A t \in C : Worth(s, t) <= Worth(s, choice)
  <2> HIDE DEF choice, C
  <2>1. {"RETRY_NOW", "RETRY_LATER", "SEND_PAYMENT_LINK", "SEND_REMINDER", "CHANGE_PAYMENT_METHOD",
         "ESCALATE_HUMAN"} \subseteq ActionType
    BY DEF ActionType
  <2>2. \E a, b, d \in ActionType : C = {a, b, d}
    BY <1>3, <2>1
  <2> QED
    BY <1>2, <2>2
<1>5. choice \notin TerminalActions
  <2>1. CASE s.reason # "EXPIRED_CARD"
    <3> HIDE DEF choice, C
    <3> QED
      BY <1>3, <1>4, <2>1 DEF TerminalActions
  <2>2. CASE s.reason = "EXPIRED_CARD"
    <3>1. C = {"CHANGE_PAYMENT_METHOD", "SEND_PAYMENT_LINK", "ESCALATE_HUMAN"}
      BY <2>2 DEF CandidatesByReason, FailureReason
    <3>2. choice # "ESCALATE_HUMAN"
      <4> SUFFICES ASSUME choice = "ESCALATE_HUMAN" PROVE FALSE
        OBVIOUS
      <4> DEFINE i == Worth(s, "ESCALATE_HUMAN")
                 j == Worth(s, "CHANGE_PAYMENT_METHOD")
      <4>1. i \in Int /\ j \in Int
        <5>1. "ESCALATE_HUMAN" \in ActionType /\ "CHANGE_PAYMENT_METHOD" \in ActionType
          BY DEF ActionType
        <5> QED
          BY <5>1, WorthIsNumber
      <4>2. i < j /\ j <= i
        BY <1>4, <2>2, <3>1, CardBeforeHuman
      <4> HIDE DEF i, j
      <4> QED
        BY <4>1, <4>2
    <3> HIDE DEF choice, C
    <3> QED
      BY <1>4, <3>1, <3>2 DEF TerminalActions
  <2> QED
    BY <2>1, <2>2
<1> QED
  BY <1>4, <1>5

\* Rounding is off by half of the divisor at most.
LEMMA RoundsToHalf ==
    ASSUME NEW n \in Nat, NEW d \in Nat \ {0}
    PROVE  /\ RoundHalfEven(n, d) \in Int
           /\ 2 * (d * RoundHalfEven(n, d)) <= 2 * n + d
           /\ 2 * n <= 2 * (d * RoundHalfEven(n, d)) + d
<1> DEFINE q == n \div d
           r == n % d
           x == RoundHalfEven(n, d)
<1>1. q \in Int /\ r \in Int /\ 0 <= r /\ r < d /\ r + d * q = n
  BY Divided
<1>2. x = IF 2 * r > d \/ (2 * r = d /\ q % 2 = 1) THEN q + 1 ELSE q
  BY DEF RoundHalfEven
<1> DEFINE odd == q % 2 = 1
<1> HIDE DEF q, r, x, odd
<1>3. \/ x = q + 1 /\ 2 * r >= d
      \/ x = q /\ 2 * r <= d
  BY <1>1, <1>2
<1>4. d * (q + 1) = d * q + d
  BY <1>1
<1> DEFINE k == d * q
           l == d * x
<1>5. /\ k \in Int /\ r + k = n
      /\ (l = k + d /\ 2 * r >= d) \/ (l = k /\ 2 * r <= d)
  BY <1>1, <1>3, <1>4
<1>6. x \in Int
  BY <1>1, <1>3
<1> HIDE DEF k, l
<1>7. 2 * l <= 2 * n + d /\ 2 * n <= 2 * l + d
  BY <1>1, <1>5
<1> QED
  BY <1>6, <1>7 DEF l, x

\* Rate and customer, rounded, after one attempt or two, and not yet bounded.
Scored(rate, factor, attempts) ==
    RoundHalfEven(rate * 3 ^ attempts * factor * 20, 20000 * 4 ^ attempts)

\* It is near the exact product.
NearProduct(rate, factor) ==
    /\ Scored(rate, factor, 1) \in Int /\ Scored(rate, factor, 2) \in Int
    /\ 160000 * Scored(rate, factor, 1) <= 120 * (rate * factor) + 80000
    /\ 120 * (rate * factor) <= 160000 * Scored(rate, factor, 1) + 80000
    /\ 640000 * Scored(rate, factor, 2) <= 360 * (rate * factor) + 320000
    /\ 360 * (rate * factor) <= 640000 * Scored(rate, factor, 2) + 320000

\* It is, whatever the rate and the customer.
LEMMA ScoredNearProduct ==
    ASSUME NEW factor \in Nat, NEW rate \in Nat
    PROVE  NearProduct(rate, factor)
<1> DEFINE k == rate * factor
           x == Scored(rate, factor, 1)
           y == Scored(rate, factor, 2)
<1>1. k \in Nat
  OBVIOUS
<1>2. /\ rate * 3 * factor * 20 = 60 * k /\ 20000 * 4 = 80000
      /\ rate * 9 * factor * 20 = 180 * k /\ 20000 * 16 = 320000
  OBVIOUS
<1>3. x = RoundHalfEven(60 * k, 80000) /\ y = RoundHalfEven(180 * k, 320000)
  BY <1>2, ScenarioPowers DEF Scored
<1> HIDE DEF k, x, y
<1> DEFINE n == 60 * k
           m == 180 * k
<1>4. n \in Nat /\ m \in Nat
  BY <1>1
<1>5. x = RoundHalfEven(n, 80000) /\ y = RoundHalfEven(m, 320000)
  BY <1>3
<1>6. n = 60 * k /\ m = 180 * k
  OBVIOUS
<1> HIDE DEF n, m
<1>7. /\ x \in Int /\ 2 * (80000 * x) <= 2 * n + 80000 /\ 2 * n <= 2 * (80000 * x) + 80000
      /\ y \in Int /\ 2 * (320000 * y) <= 2 * m + 320000 /\ 2 * m <= 2 * (320000 * y) + 320000
  <2>1. 80000 \in Nat \ {0} /\ 320000 \in Nat \ {0}
    OBVIOUS
  <2> QED
    BY <1>4, <1>5, <2>1, RoundsToHalf
<1>8. /\ x \in Int /\ y \in Int
      /\ 160000 * x <= 120 * k + 80000 /\ 120 * k <= 160000 * x + 80000
      /\ 640000 * y <= 360 * k + 320000 /\ 360 * k <= 640000 * y + 320000
  BY <1>1, <1>6, <1>7
<1> QED
  BY <1>8 DEF k, x, y, NearProduct

\* Bounded, a low score is no more than itself or 20, and a high one no less.
LEMMA BoundsKeepMargin ==
    ASSUME NEW x \in Int, NEW y \in Int, NEW margin \in Nat,
           x + margin <= y, 20 + margin <= y, y <= 970
    PROVE  Clamp(x, 20, 970) + margin <= Clamp(y, 20, 970)
<1>1. Clamp(y, 20, 970) = y
  BY DEF Clamp
<1>2. (x < 20 /\ Clamp(x, 20, 970) = 20) \/ Clamp(x, 20, 970) = x
  BY DEF Clamp
<1> QED
  BY <1>1, <1>2

\* What the candidates' probabilities exceed that of an immediate retry by, at
\* least, on the first attempt or the second.
Margin(low, high, margin) ==
    \/ low = 12 /\ high = 45 /\ margin = 128
    \/ low = 5  /\ high = 72 /\ margin = 262
    \/ low = 8  /\ high = 30 /\ margin = 85
    \/ low = 25 /\ high = 60 /\ margin = 136
LEMMA ProbabilitiesDiffer ==
    ASSUME NEW factor \in Factors, NEW attempts \in {1, 2},
           NEW low, NEW high, NEW margin, Margin(low, high, margin)
    PROVE  FirstProbability(low, 3 ^ attempts, 4 ^ attempts, factor) + margin
             <= FirstProbability(high, 3 ^ attempts, 4 ^ attempts, factor)
<1>1. /\ low \in Nat /\ high \in Nat /\ margin \in Nat
      /\ \/ low = 12 /\ high = 45 /\ margin = 128
         \/ low = 5 /\ high = 72 /\ margin = 262
         \/ low = 8 /\ high = 30 /\ margin = 85
         \/ low = 25 /\ high = 60 /\ margin = 136
  BY DEF Margin
<1>2. factor \in Nat /\ 7000 <= factor /\ factor <= 13650
  BY DEF Factors
<1> DEFINE x(n) == Scored(low, factor, n)
           y(n) == Scored(high, factor, n)
<1>3. /\ x(1) \in Int /\ x(2) \in Int
      /\ 160000 * x(1) <= 120 * (low * factor) + 80000
      /\ 640000 * x(2) <= 360 * (low * factor) + 320000
      /\ y(1) \in Int /\ y(2) \in Int
      /\ 160000 * y(1) <= 120 * (high * factor) + 80000
      /\ 120 * (high * factor) <= 160000 * y(1) + 80000
      /\ 640000 * y(2) <= 360 * (high * factor) + 320000
      /\ 360 * (high * factor) <= 640000 * y(2) + 320000
  <2>1. factor \in Nat /\ low \in Nat /\ high \in Nat
    BY <1>1, <1>2
  <2>2. NearProduct(low, factor) /\ NearProduct(high, factor)
    BY <2>1, ScoredNearProduct
  <2> QED
    BY <2>2 DEF NearProduct
<1> HIDE DEF x, y
<1>4. /\ x(1) + margin <= y(1) /\ 20 + margin <= y(1) /\ y(1) <= 970
      /\ x(2) + margin <= y(2) /\ 20 + margin <= y(2) /\ y(2) <= 970
  <2> DEFINE i == x(1)
             j == y(1)
             k == x(2)
             l == y(2)
             u == low * factor
             v == high * factor
  <2>1. /\ i \in Int /\ j \in Int /\ k \in Int /\ l \in Int
        /\ 160000 * i <= 120 * u + 80000
        /\ 640000 * k <= 360 * u + 320000
        /\ 160000 * j <= 120 * v + 80000
        /\ 120 * v <= 160000 * j + 80000
        /\ 640000 * l <= 360 * v + 320000
        /\ 360 * v <= 640000 * l + 320000
    BY <1>3
  <2>2. \/ u = 12 * factor /\ v = 45 * factor /\ margin = 128
        \/ u = 5 * factor /\ v = 72 * factor /\ margin = 262
        \/ u = 8 * factor /\ v = 30 * factor /\ margin = 85
        \/ u = 25 * factor /\ v = 60 * factor /\ margin = 136
    BY <1>1
  <2> HIDE DEF i, j, k, l, u, v
  <2>3. ASSUME u = 12 * factor /\ v = 45 * factor /\ margin = 128
        PROVE  /\ i + margin <= j /\ 20 + margin <= j /\ j <= 970
               /\ k + margin <= l /\ 20 + margin <= l /\ l <= 970
    BY <1>2, <2>1, <2>3
  <2>4. ASSUME u = 5 * factor /\ v = 72 * factor /\ margin = 262
        PROVE  /\ i + margin <= j /\ 20 + margin <= j /\ j <= 970
               /\ k + margin <= l /\ 20 + margin <= l /\ l <= 970
    BY <1>2, <2>1, <2>4
  <2>5. ASSUME u = 8 * factor /\ v = 30 * factor /\ margin = 85
        PROVE  /\ i + margin <= j /\ 20 + margin <= j /\ j <= 970
               /\ k + margin <= l /\ 20 + margin <= l /\ l <= 970
    BY <1>2, <2>1, <2>5
  <2>6. ASSUME u = 25 * factor /\ v = 60 * factor /\ margin = 136
        PROVE  /\ i + margin <= j /\ 20 + margin <= j /\ j <= 970
               /\ k + margin <= l /\ 20 + margin <= l /\ l <= 970
    BY <1>2, <2>1, <2>6
  <2>7. /\ i + margin <= j /\ 20 + margin <= j /\ j <= 970
        /\ k + margin <= l /\ 20 + margin <= l /\ l <= 970
    BY <2>2, <2>3, <2>4, <2>5, <2>6
  <2> QED
    BY <2>7 DEF i, j, k, l
<1>5. ASSUME NEW n \in {1, 2} PROVE Clamp(x(n), 20, 970) + margin <= Clamp(y(n), 20, 970)
  <2>1. /\ x(n) \in Int /\ y(n) \in Int
        /\ x(n) + margin <= y(n) /\ 20 + margin <= y(n) /\ y(n) <= 970
    BY <1>3, <1>4
  <2> QED
    BY <1>1, <2>1, BoundsKeepMargin
<1>6. \A rate : FirstProbability(rate, 3 ^ attempts, 4 ^ attempts, factor)
                  = Clamp(Scored(rate, factor, attempts), 20, 970)
  BY DEF FirstProbability, Scored
<1> QED
  BY <1>5, <1>6 DEF x, y

\* An amount, in rupees, from which the margins pay: no demonstration payment
\* is worth less.
LeastAmount == 1000

\* A probability that is enough higher pays for the cost of the action.
LEMMA MarginPays ==
    ASSUME NEW s \in AtRiskPayment, s.amount >= LeastAmount, NEW t \in ActionType, NEW u \in ActionType,
           NEW margin \in Nat,
           Probability(SeedContext(s), t) + margin <= Probability(SeedContext(s), u),
           NEW ct \in Nat, ct = DefaultEconomy.cost[t] + DefaultEconomy.friction[t],
           NEW cu \in Nat, cu = DefaultEconomy.cost[u] + DefaultEconomy.friction[u],
           10 * cu - 10 * ct + 10 <= LeastAmount * margin
    PROVE  Worth(s, t) <= Worth(s, u)
<1> DEFINE p == Probability(SeedContext(s), t)
           q == Probability(SeedContext(s), u)
           amount == s.amount
           n == p * amount
           m == q * amount
           x == RoundHalfEven(n, 10)
           y == RoundHalfEven(m, 10)
<1>1. /\ p \in Nat /\ q \in Nat /\ p + margin <= q
      /\ amount \in Nat /\ amount >= 1000 /\ 10 * cu - 10 * ct + 10 <= 1000 * margin
  <2>1. p \in 20..970 /\ q \in 20..970
    BY WorthIsNet
  <2>2. \A r \in 20..970 : r \in Nat
    OBVIOUS
  <2>3. p \in Nat /\ q \in Nat
    BY <2>1, <2>2
  <2>4. amount \in Nat
    BY DEF AtRiskPayment
  <2>5. amount >= 1000 /\ 10 * cu - 10 * ct + 10 <= 1000 * margin
    BY DEF LeastAmount
  <2>6. p + margin <= q
    OBVIOUS
  <2> QED
    BY <2>3, <2>4, <2>5, <2>6
<1>2. Worth(s, t) = x - ct /\ Worth(s, u) = y - cu
  BY WorthIsNet
<1> HIDE DEF p, q, amount
<1>3. n \in Nat /\ m \in Nat /\ n + 1000 * margin <= m
  <2>1. n \in Nat /\ m \in Nat /\ margin * amount \in Nat /\ n + margin * amount = (p + margin) * amount
    BY <1>1
  <2>2. (p + margin) * amount <= q * amount
    BY <1>1
  <2>3. margin * 1000 <= margin * amount
    BY <1>1
  <2> DEFINE k == margin * amount
             l == (p + margin) * amount
  <2>4. n \in Nat /\ m \in Nat /\ k \in Nat /\ n + k = l /\ l <= m /\ 1000 * margin <= k
    BY <2>1, <2>2, <2>3
  <2> HIDE DEF k, l, n, m
  <2> QED
    BY <2>4
<1> HIDE DEF n, m
<1>4. /\ x \in Int /\ 10 * x - n \in -5..5
      /\ y \in Int /\ 10 * y - m \in -5..5
  BY <1>3, RoundsToTenth
<1> HIDE DEF x, y
<1>5. x - ct <= y - cu
  BY <1>1, <1>3, <1>4
<1> QED
  BY <1>2, <1>5

\* A candidate so much more probable than an immediate retry that it pays.
Outdoes(s, t, low, high, margin, cost) ==
    /\ t \in CandidatesByReason[s.reason] /\ t \in ActionType
    /\ low = BaseRate[s.reason]["RETRY_NOW"] /\ high = BaseRate[s.reason][t]
    /\ margin \in Nat /\ Margin(low, high, margin)
    /\ cost \in Nat /\ cost = DefaultEconomy.cost[t] + DefaultEconomy.friction[t]
    /\ 10 * cost - 10 * 2500 + 10 <= LeastAmount * margin

\* For a first or second attempt on 1000 rupees or more the engine's selection is
\* worth no less than an immediate retry: that is a candidate itself, or one of
\* the candidates is enough more probable.
LEMMA SelectionIsWorthMore ==
    ASSUME PowersArePositive, NEW s \in AtRiskPayment, s.reason # "UNKNOWN",
           s.attempts \in {1, 2}, s.amount >= LeastAmount
    PROVE  Worth(s, "RETRY_NOW") <= Worth(s, Choose("Paychecker", SeedContext(s)))
<1> DEFINE choice == Choose("Paychecker", SeedContext(s))
<1>1. s.reason \in FailureReason /\ "RETRY_NOW" \in ActionType
  BY DEF AtRiskPayment, ActionType
<1>2. choice \in ActionType /\ \A t \in CandidatesByReason[s.reason] : Worth(s, t) <= Worth(s, choice)
  BY KnownCauseIsActedOn
<1> HIDE DEF choice
<1> SUFFICES Worth(s, "RETRY_NOW") <= Worth(s, choice)
  BY DEF choice
<1>3. ASSUME NEW t \in CandidatesByReason[s.reason], t \in ActionType,
             Worth(s, "RETRY_NOW") <= Worth(s, t)
      PROVE  Worth(s, "RETRY_NOW") <= Worth(s, choice)
  <2> DEFINE i == Worth(s, "RETRY_NOW")
             j == Worth(s, t)
             k == Worth(s, choice)
  <2>1. i \in Int /\ j \in Int /\ k \in Int
    BY <1>1, <1>2, <1>3, WorthIsNumber
  <2>2. i <= j /\ j <= k
    BY <1>2, <1>3
  <2> HIDE DEF i, j, k
  <2>3. i <= k
    BY <2>1, <2>2
  <2> QED
    BY <2>3 DEF i, k
<1>4. ASSUME NEW t, NEW low, NEW high, NEW margin, NEW cost, Outdoes(s, t, low, high, margin, cost)
      PROVE  Worth(s, "RETRY_NOW") <= Worth(s, choice)
  <2>1. SeedFactor(s) \in Factors
    BY FactorInRange
  <2>2. /\ Probability(SeedContext(s), "RETRY_NOW")
             = FirstProbability(low, 3 ^ s.attempts, 4 ^ s.attempts, SeedFactor(s))
        /\ Probability(SeedContext(s), t)
             = FirstProbability(high, 3 ^ s.attempts, 4 ^ s.attempts, SeedFactor(s))
    BY <1>4, FirstIsScored DEF Outdoes
  <2>3. Probability(SeedContext(s), "RETRY_NOW") + margin <= Probability(SeedContext(s), t)
    <3>1. Margin(low, high, margin)
      BY <1>4 DEF Outdoes
    <3>2. FirstProbability(low, 3 ^ s.attempts, 4 ^ s.attempts, SeedFactor(s)) + margin
            <= FirstProbability(high, 3 ^ s.attempts, 4 ^ s.attempts, SeedFactor(s))
      BY <2>1, <3>1, ProbabilitiesDiffer, Zenon
    <3> QED
      BY <2>2, <3>2
  <2>4. 2500 \in Nat /\ 2500 = DefaultEconomy.cost["RETRY_NOW"] + DefaultEconomy.friction["RETRY_NOW"]
    BY ScenarioCosts
  <2>5. Worth(s, "RETRY_NOW") <= Worth(s, t)
    BY <1>1, <1>4, <2>3, <2>4, MarginPays DEF Outdoes
  <2> QED
    BY <1>3, <1>4, <2>5 DEF Outdoes
<1>5. CASE s.reason \in {"BANK_TIMEOUT", "NETWORK_ERROR"}
  <2>1. "RETRY_NOW" \in CandidatesByReason[s.reason]
    BY <1>5 DEF CandidatesByReason, FailureReason
  <2> QED
    BY <1>2, <2>1, Zenon
<1>6. CASE s.reason = "INSUFFICIENT_FUNDS"
  <2>1. "RETRY_LATER" \in CandidatesByReason[s.reason] /\ "RETRY_LATER" \in ActionType
    BY <1>6 DEF CandidatesByReason, FailureReason, ActionType
  <2>2. Outdoes(s, "RETRY_LATER", 12, 45, 128, 12000)
    BY <1>6, <2>1, RetryRates, ScenarioCosts DEF Outdoes, Margin, LeastAmount
  <2> QED
    BY <1>4, <2>2
<1>7. CASE s.reason = "EXPIRED_CARD"
  <2>1. "CHANGE_PAYMENT_METHOD" \in CandidatesByReason[s.reason] /\ "CHANGE_PAYMENT_METHOD" \in ActionType
    BY <1>7 DEF CandidatesByReason, FailureReason, ActionType
  <2>2. Outdoes(s, "CHANGE_PAYMENT_METHOD", 5, 72, 262, 23000)
    BY <1>7, <2>1, RetryRates, ScenarioCosts DEF Outdoes, Margin, LeastAmount
  <2> QED
    BY <1>4, <2>2
<1>8. CASE s.reason = "CHECKOUT_ABANDONMENT"
  <2>1. "SEND_REMINDER" \in CandidatesByReason[s.reason] /\ "SEND_REMINDER" \in ActionType
    BY <1>8 DEF CandidatesByReason, FailureReason, ActionType
  <2>2. Outdoes(s, "SEND_REMINDER", 8, 30, 85, 9000)
    BY <1>8, <2>1, RetryRates, ScenarioCosts DEF Outdoes, Margin, LeastAmount
  <2> QED
    BY <1>4, <2>2
<1>9. CASE s.reason = "SUBSCRIPTION_FAILURE"
  <2>1. "RETRY_LATER" \in CandidatesByReason[s.reason] /\ "RETRY_LATER" \in ActionType
    BY <1>9 DEF CandidatesByReason, FailureReason, ActionType
  <2>2. Outdoes(s, "RETRY_LATER", 25, 60, 136, 12000)
    BY <1>9, <2>1, RetryRates, ScenarioCosts DEF Outdoes, Margin, LeastAmount
  <2> QED
    BY <1>4, <2>2
<1> QED
  BY <1>1, <1>5, <1>6, <1>7, <1>8, <1>9 DEF FailureReason

\* Whatever the cause, something is selected.
LEMMA ChoiceIsAnAction ==
    ASSUME NEW s \in AtRiskPayment
    PROVE  Choose("Paychecker", SeedContext(s)) \in ActionType
<1> DEFINE C == CandidatesByReason[s.reason]
<1>1. s.reason \in FailureReason
  BY DEF AtRiskPayment
<1>2. \E a, b, d \in ActionType : C = {a, b, d}
  <2>1. \/ C = {"RETRY_NOW", "RETRY_LATER", "SEND_PAYMENT_LINK"}
        \/ C = {"RETRY_LATER", "SEND_PAYMENT_LINK", "SEND_REMINDER"}
        \/ C = {"SEND_REMINDER", "SEND_PAYMENT_LINK", "SEND_PAYMENT_LINK"}
        \/ C = {"RETRY_NOW", "RETRY_LATER", "RETRY_LATER"}
        \/ C = {"CHANGE_PAYMENT_METHOD", "SEND_PAYMENT_LINK", "ESCALATE_HUMAN"}
        \/ C = {"ESCALATE_HUMAN", "STOP", "STOP"}
    BY <1>1 DEF CandidatesByReason, FailureReason
  <2>2. {"RETRY_NOW", "RETRY_LATER", "SEND_PAYMENT_LINK", "SEND_REMINDER", "CHANGE_PAYMENT_METHOD",
         "ESCALATE_HUMAN", "STOP"} \subseteq ActionType
    BY DEF ActionType
  <2> HIDE DEF C
  <2> QED
    BY <2>1, <2>2
<1> QED
  BY <1>2, BestOfThree

\* The context the benchmark rebuilds, whatever happened to the case, is that of
\* a payment seeded so.
LEMMA DetectedAsSeeded ==
    ASSUME AutopilotTypeOK, NEW c \in Cases, cases[c].state # Absent
    PROVE  \E s \in AtRiskPayment : AsDetected(c) = SeedContext(s) /\ s.amount = Amount(c)
<1> DEFINE p        == cases[c].payment
           made     == payments[p].attempts - Cardinality(ExecutedFor(c))
           attempts == Max({made, 1})
           reason   == ResolveFailureReason(c)
           s        == [key |-> None, status |-> "FAILED", reason |-> reason, attempts |-> attempts,
                        amount |-> seed[p].amount, rate |-> seed[p].rate,
                        subscriber |-> seed[p].subscriber]
<1>1. p \in Payments
  BY DEF AutopilotTypeOK, TypeOK, CaseRow
<1>2. payments[p].attempts \in Nat /\ payments[p].reason \in FailureReason \cup {None}
  BY <1>1 DEF AutopilotTypeOK, TypeOK, PaymentRow
<1>3. reason \in FailureReason
  <2>1. diagnosed[c] \in FailureReason \cup {None} /\ "UNKNOWN" \in FailureReason
    BY DEF AutopilotTypeOK, FailureReason
  <2>2. ContextOf(p).reason = IF payments[p].reason = None THEN "UNKNOWN" ELSE payments[p].reason
    BY DEF ContextOf, ContextFrom
  <2> QED
    BY <1>2, <2>1, <2>2 DEF ResolveFailureReason
<1>4. made \in Int
  <2>1. IsFiniteSet(ExecutedFor(c))
    BY ConstantsAssumption, FS_Subset DEF ExecutedFor
  <2>2. Cardinality(ExecutedFor(c)) \in Nat
    BY <2>1, FS_CardinalityType
  <2> QED
    BY <1>2, <2>2
<1>5. attempts \in Nat \ {0}
  <2> HIDE DEF made
  <2>1. \E x \in {made, 1} : \A y \in {made, 1} : x >= y
    BY <1>4
  <2>2. attempts \in {made, 1} /\ attempts >= 1
    BY <2>1 DEF Max
  <2> HIDE DEF attempts
  <2> QED
    BY <1>4, <2>2
<1>6. seed[p] \in AtRiskPayment
  BY <1>1 DEF AutopilotTypeOK
<1> HIDE DEF attempts, reason
<1>7. s \in AtRiskPayment
  BY <1>3, <1>5, <1>6 DEF AtRiskPayment, Unsuccessful
<1>8. AsDetected(c) = ContextWith(p, seed[p].amount > HighValueThreshold, "FAILED", reason,
                                  attempts, 0, {}, {})
  BY DEF AsDetected, Detected, attempts, reason
<1>9. AsDetected(c) = SeedContext(s)
  BY <1>8 DEF ContextWith, SeedContext
<1>10. s.amount = Amount(c)
  BY DEF Amount
<1> QED
  BY <1>7, <1>9, <1>10

\* The gate refuses an immediate retry in a fresh context whenever it refuses
\* another action that does not end the case, and the other way round.
LEMMA SameVerdict ==
    ASSUME ActionType \ TerminalActions \subseteq SupportedActions,
           NEW ctx, NEW t \in ActionType \ TerminalActions
    PROVE  PolicyVerdict(ctx, t) = "APPROVED" <=> PolicyVerdict(ctx, "RETRY_NOW") = "APPROVED"
<1>1. "RETRY_NOW" \in ActionType \ TerminalActions
  BY DEF ActionType, TerminalActions
<1>2. ASSUME NEW u \in ActionType \ TerminalActions
      PROVE  Blocking(ctx, u) <=> \/ ctx.status \notin Unsuccessful
                                  \/ ctx.attempts >= MaxAutomaticRetries
                                  \/ ctx.failures >= RepeatedFailureLimit
  BY <1>2 DEF Blocking, InvalidPaymentState, UnsupportedAction, RetryLimitReached,
              RecoveryBudgetExhausted, RepeatedFailures
<1>3. Blocking(ctx, t) <=> Blocking(ctx, "RETRY_NOW")
  BY <1>1, <1>2
<1>4. Escalating(ctx, t) <=> Escalating(ctx, "RETRY_NOW")
  BY DEF Escalating, UnknownFailure, HighValueTransaction
<1> QED
  BY <1>3, <1>4, Zenon DEF PolicyVerdict

\* An action is only approved for a cause that is known, and within the budget if
\* it does not end the case.
LEMMA ApprovedIsFresh ==
    ASSUME NEW ctx, NEW t, PolicyVerdict(ctx, t) = "APPROVED"
    PROVE  ctx.reason # "UNKNOWN" /\ (t \notin TerminalActions => ~(ctx.attempts >= MaxAutomaticRetries))
<1>1. ~Blocking(ctx, t) /\ ~Escalating(ctx, t)
  BY Zenon DEF PolicyVerdict
<1> QED
  BY <1>1 DEF Blocking, RecoveryBudgetExhausted, Escalating, UnknownFailure

\* What the engine's arm is worth for one case, where either arm acts: no less.
LEMMA ArmsCompared ==
    ASSUME PowersArePositive, MaxAutomaticRetries <= 3,
           ActionType \ TerminalActions \subseteq SupportedActions,
           AutopilotTypeOK, NEW c \in ExistingCases, Amount(c) >= LeastAmount
    PROVE  /\ ProjectCase(c, "baseline").verdict = "APPROVED"
                <=> ProjectCase(c, "Paychecker").verdict = "APPROVED"
           /\ ProjectCase(c, "baseline").value \in Int /\ ProjectCase(c, "Paychecker").value \in Int
           /\ ProjectCase(c, "baseline").verdict = "APPROVED" =>
                ProjectCase(c, "baseline").value <= ProjectCase(c, "Paychecker").value
<1>1. c \in Cases /\ cases[c].state # Absent
  BY DEF ExistingCases
<1>2. PICK s \in AtRiskPayment : AsDetected(c) = SeedContext(s) /\ s.amount = Amount(c)
  BY <1>1, DetectedAsSeeded
<1> DEFINE ctx    == SeedContext(s)
           choice == Choose("Paychecker", ctx)
<1>3. /\ ProjectCase(c, "baseline").verdict = PolicyVerdict(ctx, "RETRY_NOW")
      /\ ProjectCase(c, "Paychecker").verdict = PolicyVerdict(ctx, choice)
      /\ ProjectCase(c, "baseline").value = Worth(s, "RETRY_NOW")
      /\ ProjectCase(c, "Paychecker").value = Worth(s, choice)
  <2>1. Choose("baseline", ctx) = "RETRY_NOW"
    BY DEF Choose
  <2> HIDE DEF choice
  <2>2. choice = Choose("Paychecker", ctx)
    BY DEF choice
  <2> QED
    BY <1>2, <2>1, <2>2 DEF ProjectCase, Worth
<1>4. ctx.reason = s.reason /\ ctx.attempts = s.attempts
  BY DEF SeedContext
<1>5. "RETRY_NOW" \in ActionType /\ s.reason \in FailureReason /\ s.attempts \in Nat \ {0}
  BY DEF ActionType, AtRiskPayment
<1>6. choice \in ActionType
  BY <1>5, ChoiceIsAnAction
<1>7. ASSUME PolicyVerdict(ctx, "RETRY_NOW") = "APPROVED" \/ PolicyVerdict(ctx, choice) = "APPROVED"
      PROVE  /\ PolicyVerdict(ctx, "RETRY_NOW") = "APPROVED" /\ PolicyVerdict(ctx, choice) = "APPROVED"
             /\ Worth(s, "RETRY_NOW") <= Worth(s, choice)
  <2>1. s.reason # "UNKNOWN"
    BY <1>4, <1>7, ApprovedIsFresh
  <2>2. choice \in ActionType \ TerminalActions
    BY <2>1, KnownCauseIsActedOn
  <2> HIDE DEF ctx, choice
  <2>3. PolicyVerdict(ctx, "RETRY_NOW") = "APPROVED" /\ PolicyVerdict(ctx, choice) = "APPROVED"
    BY <1>7, <2>2, SameVerdict
  <2>4. s.attempts \in {1, 2}
    <3>1. ~(ctx.attempts >= MaxAutomaticRetries)
      BY <2>2, <2>3, ApprovedIsFresh
    <3> DEFINE n == s.attempts
    <3>2. n \in Nat \ {0} /\ ~(n >= MaxAutomaticRetries)
      BY <1>4, <1>5, <3>1
    <3> HIDE DEF n
    <3>3. n \in {1, 2}
      BY <3>2, SettingsAssumption
    <3> QED
      BY <3>3 DEF n
  <2>5. Worth(s, "RETRY_NOW") <= Worth(s, choice)
    BY <1>2, <2>1, <2>4, SelectionIsWorthMore DEF ctx, choice
  <2> QED
    BY <2>3, <2>5
<1>8. Worth(s, "RETRY_NOW") \in Int /\ Worth(s, choice) \in Int
  <2> HIDE DEF choice
  <2> QED
    BY <1>5, <1>6, WorthIsNumber
<1> HIDE DEF ctx, choice
<1> QED
  BY <1>3, <1>7, <1>8

\* The cases an arm acts on.
ActedOn(arm) == {c \in ExistingCases : ProjectCase(c, arm).verdict = "APPROVED"}

\* What an arm is worth is such a sum too.
LEMMA WorthIsASum ==
    ASSUME NEW arm
    PROVE  Project(arm).value = SumOver([c \in ActedOn(arm) |-> ProjectCase(c, arm).value], ActedOn(arm))
<1> DEFINE S == ActedOn(arm)
           g == [c \in S |-> ProjectCase(c, arm).value]
           projected == [c \in ExistingCases |-> ProjectCase(c, arm)]
           Value(c) == projected[c].value
           Step(h, s) == IF s = {} THEN 0
                         ELSE Value(CHOOSE x \in s : TRUE) + h[s \ {CHOOSE x \in s : TRUE}]
<1>1. S = {c \in ExistingCases : projected[c].verdict = "APPROVED"}
  BY DEF ActedOn
<1>2. Project(arm).value = MapThenSumSet(Value, {c \in ExistingCases : projected[c].verdict = "APPROVED"})
  BY DEF Project
<1>3. MapThenSumSet(Value, S) = (CHOOSE h : h = [s \in SUBSET S |-> Step(h, s)])[S]
  BY Zenon DEF MapThenSumSet, MapThenFoldSet
<1>4. ASSUME NEW h PROVE [s \in SUBSET S |-> Step(h, s)] = [s \in SUBSET S |-> SumStep(g, h, s)]
  <2>1. ASSUME NEW s \in SUBSET S, s # {} PROVE g[Pick(s)] = Value(Pick(s))
    BY <2>1 DEF Pick, ActedOn
  <2>2. ASSUME NEW s \in SUBSET S PROVE Step(h, s) = SumStep(g, h, s)
    <3> SUFFICES Step(h, s) = IF s = {} THEN 0 ELSE g[Pick(s)] + h[s \ {Pick(s)}]
      BY DEF SumStep
    <3>1. CASE s = {}
      BY <3>1
    <3>2. CASE s # {}
      <4>1. Step(h, s) = Value(Pick(s)) + h[s \ {Pick(s)}]
        BY <3>2, Zenon DEF Pick
      <4>2. g[Pick(s)] = Value(Pick(s))
        BY <2>1, <3>2
      <4> HIDE DEF Step, Value, g
      <4> QED
        BY <3>2, <4>1, <4>2
    <3> QED
      BY <3>1, <3>2
  <2> HIDE DEF Step, g, S
  <2> QED
    BY <2>2, Zenon
<1>5. ASSUME NEW h PROVE h = [s \in SUBSET S |-> Step(h, s)] <=> Sums(g, S, h)
  BY <1>4, Zenon DEF Sums
<1>6. (CHOOSE h : h = [s \in SUBSET S |-> Step(h, s)]) = CHOOSE h : Sums(g, S, h)
  BY <1>5
<1> QED
  BY <1>1, <1>2, <1>3, <1>6 DEF SumOver, SumOf

\* No payment of the demonstration is worth less than that.
WorthwhileSeeds == \A p \in Payments : \A s \in Seeds[p] : s.amount >= LeastAmount

\* The arms compared, whenever the rows are well typed.
LEMMA UpliftFollows ==
    ASSUME PowersArePositive, IsFiniteSet(Cases), MaxAutomaticRetries <= 3,
           ActionType \ TerminalActions \subseteq SupportedActions, WorthwhileSeeds,
           AutopilotTypeOK, RowsKept
    PROVE  UpliftNotNegative
<1> DEFINE S == ActedOn("baseline")
           f == [c \in S |-> ProjectCase(c, "baseline").value]
           g == [c \in S |-> ProjectCase(c, "Paychecker").value]
<1>1. ASSUME NEW c \in ExistingCases PROVE Amount(c) >= LeastAmount
  <2>1. cases[c].payment \in Payments
    BY DEF ExistingCases, AutopilotTypeOK, TypeOK, CaseRow
  <2>2. seed[cases[c].payment] \in Seeds[cases[c].payment]
    BY <2>1 DEF RowsKept
  <2> QED
    BY <2>1, <2>2 DEF WorthwhileSeeds, Amount
<1>2. ActedOn("Paychecker") = S
  BY <1>1, ArmsCompared DEF ActedOn
<1>3. IsFiniteSet(S)
  BY FS_Subset DEF ActedOn, ExistingCases
<1>4. f \in [S -> Int] /\ g \in [S -> Int] /\ \A c \in S : f[c] <= g[c]
  <2>1. ASSUME NEW c \in S
        PROVE  /\ ProjectCase(c, "baseline").value \in Int /\ ProjectCase(c, "Paychecker").value \in Int
               /\ ProjectCase(c, "baseline").value <= ProjectCase(c, "Paychecker").value
    <3>1. c \in ExistingCases /\ ProjectCase(c, "baseline").verdict = "APPROVED"
      BY DEF ActedOn
    <3> QED
      BY <1>1, <3>1, ArmsCompared
  <2> HIDE DEF S
  <2> QED
    BY <2>1
<1>5. Project("baseline").value = SumOver(f, S)
  BY WorthIsASum
<1>6. Project("Paychecker").value = SumOver(g, S)
  BY <1>2, WorthIsASum
<1> DEFINE low  == SumOver(f, S)
           high == SumOver(g, S)
<1>7. low \in Int /\ high \in Int /\ low <= high
  <2> HIDE DEF f, g, S
  <2> QED
    BY <1>3, <1>4, SumGrows
<1>8. Project("baseline").value = low /\ Project("Paychecker").value = high
  BY <1>5, <1>6
<1> HIDE DEF low, high
<1>9. high >= low
  BY <1>7
<1> QED
  BY <1>8, <1>9 DEF UpliftNotNegative

\* In the benchmark the engine's arm is never worth less than retrying at once,
\* before and after runs, failures, captures and seeding again, for any population
\* of payments of 1000 rupees or more and any budget of up to three attempts.
THEOREM UpliftIsNotNegative ==
    ASSUME PowersArePositive, IsFiniteSet(Cases), MaxAutomaticRetries <= 3,
           ActionType \ TerminalActions \subseteq SupportedActions, WorthwhileSeeds
    PROVE  ASpec => []UpliftNotNegative
<1>1. DemoInv => UpliftNotNegative
  BY UpliftFollows DEF DemoInv
<1> QED
  BY <1>1, DemonstrationInvariant, PTL
==============================================================================
