----------------------------- MODULE StrategyLab -----------------------------
(***************************************************************************)
(* The strategy lab (services/strategy_lab.py): read-only projections of   *)
(* the engine.  One compares what every strategy would be worth for a case *)
(* as it stands, under other settings if asked; the other replays every    *)
(* case as it was detected, once with the engine's choice and once with an *)
(* immediate retry, as a benchmark.                                        *)
(*                                                                         *)
(* An unscripted outcome is a draw; a projection names the draw by what it *)
(* is derived from, the action and the attempt number.                     *)
(***************************************************************************)
EXTENDS Analytics

ComparableActions == ActionType \ {"STOP"}

(***************************************************************************)
(* What-if.                                                                *)
(***************************************************************************)
Gate(retries, limit) ==
    INSTANCE PolicyRules WITH MaxAutomaticRetries <- retries, RepeatedFailureLimit <- limit,
                              SupportedActions <- ActionType

\* ScenarioOverrides.apply: the settings a request may replace, all but the
\* retry delay, which nothing here reads.
Settings(retries, limit, threshold, economy) ==
    [retries |-> retries, limit |-> limit, threshold |-> threshold, economy |-> economy]
Unchanged == Settings(MaxAutomaticRetries, RepeatedFailureLimit, HighValueThreshold, DefaultEconomy)

VerdictUnder(settings, ctx, action) ==
    Gate(settings.retries, settings.limit)!PolicyVerdict(ctx, action)

\* The context of a payment, for the gate and for the score: what happened to
\* it, and what it is worth and to whom.
ContextWith(p, high, status, reason, attempts, failures, failed, succeeded) ==
    [status |-> status, reason |-> reason, attempts |-> attempts, failures |-> failures,
     failed |-> failed, succeeded |-> succeeded, highValue |-> high,
     amount |-> seed[p].amount, rate |-> seed[p].rate, subscriber |-> seed[p].subscriber]
LiveContext(c, settings) ==
    LET p == cases[c].payment
    IN  ContextWith(p, seed[p].amount > settings.threshold, payments[p].status,
                    ContextOf(p).reason, payments[p].attempts, Cardinality(Failures(p)),
                    TypesWith(p, "unrecovered"), TypesWith(p, "recovered"))

LikeliestOption(ctx, settings, action) ==        \* mutant of Option: compared by probability
    LET v == Valuation(ctx, action, settings.economy)
    IN  [action |-> action, value |-> v.probability, verdict |-> VerdictUnder(settings, ctx, action)]
\* Every comparable action is decided alone and judged by the gate.
Option(ctx, settings, action) ==
    LET v == Valuation(ctx, action, settings.economy)
    IN  [action |-> action, value |-> v.value, verdict |-> VerdictUnder(settings, ctx, action)]
Options(c, settings) ==
    LET ctx == LiveContext(c, settings)
    IN  {Option(ctx, settings, action) : action \in ComparableActions}

Eligible(options) == {o \in options : o.verdict = "APPROVED"}
\* Those of the highest value; a tie goes to the first in the order of the list.
Recommended(options) ==
    {o \in Eligible(options) : \A other \in Eligible(options) : o.value >= other.value}

(***************************************************************************)
(* Benchmark.                                                              *)
(***************************************************************************)
ExecutedFor(c) == {a \in Actions : Exists(a) /\ actions[a].case = c /\ actions[a].executed}

\* The context of a case as it was detected, with as many attempts.
Detected(c, attempts) ==
    LET p == cases[c].payment
    IN  ContextWith(p, seed[p].amount > HighValueThreshold, "FAILED", ResolveFailureReason(c),
                    Max({attempts, 1}), 0, {}, {})
AsItStands(c) ==                                 \* mutant of AsDetected: the attempts made
    Detected(c, payments[cases[c].payment].attempts)   \* since are not subtracted
AsDetected(c) ==
    Detected(c, payments[cases[c].payment].attempts - Cardinality(ExecutedFor(c)))

Arms == {"baseline", "Paychecker"}
Choose(arm, ctx) ==
    IF arm = "baseline" THEN "RETRY_NOW"
    ELSE SelectedAction(ctx, CandidatesByReason[ctx.reason], DefaultEconomy, AllowHumanEscalation)

SameAttempt(ctx) == ctx.attempts                 \* mutant of NextAttempt
NextAttempt(ctx) == ctx.attempts + 1

\* What the benchmark counts for one case: the action, the verdict, and for an
\* approved action what it can return and the draw it depends on.
ProjectCase(c, arm) ==
    LET ctx    == AsDetected(c)
        action == Choose(arm, ctx)
    IN  [action   |-> action,
         verdict  |-> PolicyVerdict(ctx, action),
         value    |-> Valuation(ctx, action, DefaultEconomy).value,
         attempt  |-> NextAttempt(ctx),
         succeeds |-> SimulatedOutcomes(ctx.reason, action)]

\* The arm over every case.  Draws count as far as they are scripted.
Project(arm) ==
    LET projected == [c \in ExistingCases |-> ProjectCase(c, arm)]
        run       == {c \in ExistingCases : projected[c].verdict = "APPROVED"}
        Value(c)  == projected[c].value
    IN  [atRisk    |-> MapThenSumSet(Amount, ExistingCases),
         value     |-> MapThenSumSet(Value, run),
         recovered |-> MapThenSumSet(Amount, {c \in run : projected[c].succeeds = {TRUE}}),
         blocked   |-> Cardinality({c \in ExistingCases : projected[c].verdict = "BLOCKED"}),
         escalated |-> Cardinality({c \in ExistingCases : projected[c].verdict = "ESCALATED"})]

(***************************************************************************)
(* Properties.                                                             *)
(***************************************************************************)
Undisturbed(c) == cases[c].state # Absent /\ cases[c].payment \notin disturbed

\* A run of the batch on a payment that was reported on, or that another run has
\* charged, since the batch loaded it.
RunsOutdated(c) == pilot' # pilot /\ pilot.held # payments[cases[c].payment]

\* The lab answers for the next run: what a full cycle schedules or executes, the
\* lab, asked just before, permitted; and where what it recommends is a candidate
\* for the cause, the cycle takes one of its recommendations ("Highest expected
\* recovery value among policy-eligible options", strategy_lab.py:386).  Only the
\* batch, on a payment it has held for too long, does what the lab calls BLOCKED.
LabPermitsWhatRunsDo ==
    [][\A c \in Cases, a \in Actions :
         /\ cases[c].state \in {"DETECTED", "FAILED"}
         /\ ~Exists(a) /\ Exists(a)' /\ actions'[a].case = c
         /\ PolicyOutcomeOf(a)' = "APPROVED" /\ ~RunsOutdated(c)
         => LET p          == cases[c].payment
                candidates == CandidateActions(p, ContextOf(p).reason)
                options    == Options(c, Unchanged)
                best       == {o.action : o \in Recommended(options)}
            IN  /\ actions'[a].type \in {o.action : o \in Eligible(options)}
                /\ best \cap candidates # {} => actions'[a].type \in best]_avars

\* Looser settings never take an option away or lower the best value, whatever
\* has happened to the case: the sliders of the lab work in one direction.
Frictionless == [DefaultEconomy EXCEPT !.friction = [a \in ActionType |-> 0]]
Stricter == [Unchanged EXCEPT !.retries = @ - 1, !.limit = @ - 1]
Looser ==
    {[Unchanged EXCEPT !.retries = @ + 1], [Unchanged EXCEPT !.limit = @ + 1],
     [Unchanged EXCEPT !.threshold = 2 * @],
     Settings(MaxAutomaticRetries + 1, RepeatedFailureLimit + 1, 2 * HighValueThreshold,
              Frictionless)}
Covers(wider, options) ==
    \A o \in options : \E w \in wider : w.action = o.action /\ w.value >= o.value
LooserNeverForbids ==
    \A c \in ExistingCases : \E now \in {Eligible(Options(c, Unchanged))} :
        /\ Covers(now, Eligible(Options(c, Stricter)))
        /\ \A settings \in Looser : Covers(Eligible(Options(c, settings)), now)

\* The benchmark is reproducible: the context it rebuilds for a case is the one
\* the case was detected with, before, between and after the runs that resolve
\* it ("as it stood when first detected, not as it stands now",
\* strategy_lab.py:522-523).  A batch on an outdated payment loses attempts; what
\* is rebuilt then has fewer than there were, and never less than one.
BenchmarkStable ==
    \A c \in Cases : Undisturbed(c) =>
        \E s \in {seed[cases[c].payment]}, attempts \in {AsDetected(c).attempts} :
            /\ IF cases[c].payment \in crossed THEN attempts \in 1..s.attempts
                                               ELSE attempts = s.attempts
            /\ AsDetected(c) = [status |-> "FAILED", reason |-> s.reason, attempts |-> attempts,
                                amount |-> s.amount, rate |-> s.rate, subscriber |-> s.subscriber,
                                failures |-> 0, failed |-> {}, succeeded |-> {},
                                highValue |-> s.amount > HighValueThreshold]

\* The Paychecker arm of the benchmark is what the system does: the first action
\* of a case is the projected one, with the projected verdict, on the projected
\* attempt and with a projected outcome.
FirstActionAsProjected ==
    \A a \in Actions : Exists(a) /\ Undisturbed(actions[a].case)
                       /\ (\A b \in Actions \ {a} : Exists(b) => actions[b].case # actions[a].case) =>
        \E projected \in {ProjectCase(actions[a].case, "Paychecker")} :
            /\ actions[a].type = projected.action
            /\ PolicyOutcomeOf(a) = projected.verdict
            /\ actions[a].executed =>
                 /\ payments[PaymentOf(a)].attempts = projected.attempt
                 /\ (actions[a].outcome = "recovered") \in projected.succeeds

\* On the seeded population the engine's arm is never worth less than always
\* retrying at once, before and after runs and webhooks ("the measurable-impact
\* benchmark", strategy_lab.py:200); cheaper payments could make it so, because
\* an immediate retry is not a candidate for every cause.
UpliftNotNegative == Project("Paychecker").value >= Project("baseline").value
==============================================================================
