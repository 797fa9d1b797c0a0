------------------------------ MODULE Analytics ------------------------------
(***************************************************************************)
(* The figures of the command center (services/analytics_service.py and    *)
(* the board of api/routes/command_center.py): operators over the rows,    *)
(* evaluated in every reachable database of the demonstration system.      *)
(* Amounts are whole rupees; rates are left as the two amounts divided.    *)
(***************************************************************************)
EXTENDS Autopilot

ExistingCases == {c \in Cases : cases[c].state # Absent}
Amount(c) == seed[cases[c].payment].amount

\* policy_outcome, which the gate writes together with the status.
PolicyOutcomeOf(a) ==
    IF actions[a].status \in {"BLOCKED", "ESCALATED"} THEN actions[a].status ELSE "APPROVED"

(***************************************************************************)
(* Revenue and breakdowns.                                                 *)
(***************************************************************************)
Revenue ==
    [atRisk         |-> MapThenSumSet(Amount, ExistingCases),
     recovered      |-> MapThenSumSet(RecoveredAmount, ExistingCases),
     casesRecovered |-> Cardinality({c \in Cases : cases[c].state = "RECOVERED"}),
     paymentsAtRisk |-> Cardinality({p \in Payments : payments[p].status \in Unsuccessful})]

ReasonOnPayment(c) == ContextOf(cases[c].payment).reason   \* mutant of ResolveFailureReason
\* The cause as diagnosed, falling back to the payment, then UNKNOWN.
ResolveFailureReason(c) ==
    IF diagnosed[c] # None THEN diagnosed[c] ELSE ContextOf(cases[c].payment).reason

ByFailureReason ==
    [r \in FailureReason |->
        LET filed == {c \in ExistingCases : ResolveFailureReason(c) = r}
        IN  [cases          |-> Cardinality(filed),
             atRisk         |-> MapThenSumSet(Amount, filed),
             recovered      |-> MapThenSumSet(RecoveredAmount, filed),
             recoveredCases |-> Cardinality({c \in filed : RecoveredAmount(c) > 0})]]

ByAction ==
    [t \in ActionType |->
        LET ofType    == {a \in Actions : Exists(a) /\ actions[a].type = t}
            number(S) == Cardinality(S)
        IN  [selected  |-> number(ofType),
             executed  |-> number({a \in ofType : actions[a].executed}),
             blocked   |-> number({a \in ofType : PolicyOutcomeOf(a) = "BLOCKED"}),
             escalated |-> number({a \in ofType : PolicyOutcomeOf(a) = "ESCALATED"}),
             successes |-> number({a \in ofType : actions[a].outcome = "recovered"}),
             failures  |-> number({a \in ofType : actions[a].outcome = "unrecovered"})]]

CasesByState == [s \in CaseState |-> Cardinality({c \in Cases : cases[c].state = s})]

Recoveries ==
    [selected   |-> Cardinality({a \in Actions : Exists(a)}),
     successful |-> Cardinality({a \in Actions : Exists(a) /\ actions[a].outcome = "recovered"}),
     failed     |-> Cardinality({a \in Actions : Exists(a) /\ actions[a].outcome = "unrecovered"}),
     stopped    |-> CasesByState["STOPPED"],
     escalated  |-> CasesByState["ESCALATED"]]

Overview ==
    [revenue   |-> Revenue,
     recovery  |-> Recoveries,
     active    |-> Cardinality({c \in Cases : Open(c)}),
     scheduled |-> CasesByState["SCHEDULED"],
     policy    |-> [o \in PolicyOutcome |->
                      Cardinality({a \in Actions : Exists(a) /\ PolicyOutcomeOf(a) = o})],
     byReason  |-> ByFailureReason,
     byAction  |-> ByAction]

\* The four scenarios with their live states.
ScenarioReads ==
    {[key     |-> seed[c].key,
      reason  |-> ResolveFailureReason(c),
      final   |-> DemoScenarioSpecs[seed[c].key].final,
      current |-> cases[c].state] : c \in {p \in Payments : seed[p].key # None}}

(***************************************************************************)
(* Properties.                                                             *)
(***************************************************************************)
\* Recovered money is filed under the cause its action was chosen for, so none
\* is credited to UNKNOWN although a capture clears the payment's cause and a
\* later failure gives it another one ("reading only the payment would silently
\* drop every success", analytics_service.py:206-209).
MoneyKeepsItsCause ==
    \A a \in Actions : Exists(a) /\ actions[a].outcome = "recovered" =>
        actions[a].type \in CandidatesByReason[ResolveFailureReason(actions[a].case)]

\* No rate exceeds one: a cause never recovers more than it had at risk, or more
\* cases than the state says, however often a case is run, failed or captured;
\* and unless a webhook closed it, a case counted as recovered has its money.
HonestRates ==
    LET o == Overview
    IN  /\ \A r \in FailureReason : /\ o.byReason[r].recovered <= o.byReason[r].atRisk
                                    /\ o.byReason[r].recoveredCases <= o.byReason[r].cases
        /\ o.revenue.recovered <= o.revenue.atRisk
        /\ \A c \in ExistingCases : cases[c].payment \notin disturbed =>
             RecoveredAmount(c) = IF cases[c].state = "RECOVERED" THEN Amount(c) ELSE 0

\* What was selected and not executed was refused by the gate, waits, was closed
\* by a capture while it waited, or was handed over; nothing else goes missing
\* and nothing refused is executed or has an outcome ("the gap between them is
\* exactly what the policy engine refused to run", analytics_service.py:251-252,
\* forgets the last three).  Each refusal and each handing over closed one case.
SelectionsAccounted ==
    LET o == Overview
        overtaken == {a \in Actions : Pending(a) /\ cases[actions[a].case].state = "RECOVERED"}
        Handed(t) == o.byAction[t].selected - o.byAction[t].blocked - o.byAction[t].escalated
    IN  /\ o.recovery.stopped + o.recovery.escalated
             = o.policy["BLOCKED"] + o.policy["ESCALATED"] + MapThenSumSet(Handed, TerminalActions)
        /\ \A t \in ActionType :
             LET b == o.byAction[t]
                 waiting == IF t = "RETRY_LATER" THEN o.scheduled + Cardinality(overtaken) ELSE 0
             IN  /\ t \notin TerminalActions =>
                      b.selected - b.executed = b.blocked + b.escalated + waiting
                 /\ t \in TerminalActions => b.executed = 0
                 /\ b.successes + b.failures = b.executed

\* The overview is read by a dozen statements that see whatever is committed in
\* between.  No verdict is taken back, and recovered money stays recovered and
\* under its cause, so a later statement never shows less than an earlier one;
\* only a reset deletes.
FiguresOnlyGrow ==
    [][\A a \in Actions : Exists(a) /\ Exists(a)' =>
         /\ PolicyOutcomeOf(a)' = PolicyOutcomeOf(a)
         /\ actions[a].executed => actions'[a].executed /\ actions'[a].outcome = actions[a].outcome
         /\ actions[a].outcome = "recovered" =>
              ResolveFailureReason(actions[a].case)' = ResolveFailureReason(actions[a].case)]_avars
==============================================================================
