# PayChecker: TLA+ models, checks and proofs

PayChecker is a FastAPI service that watches payments, opens a *recovery case*
for every payment that fails or is abandoned, and drives each case to an end:
it picks one recovery action, passes it through a policy gate, and executes,
schedules, escalates or stops it. Around that core are a ranking that selects
the actions, an autopilot that drives batches of cases, an audit trail, a
simulated clock, and read-only analytics and a strategy lab. This directory
holds the specification of all of these, the TLC configurations that check it
and the TLAPS proofs about it.

All line numbers refer to the files under `src/`.

## 1. The system

| Component | State | Operations | Interacts with |
|---|---|---|---|
| Payments (`services/payment_service.py`, `api/routes/payments.py`) | payment rows: status, failure reason, attempt counter | ingest, simulate, fail, record a recovery attempt | commits, then calls risk detection |
| Risk detection (`services/risk_detector.py`) | case rows | assess a payment, reuse the open case or open one | called by ingest, fail and the webhook in a second transaction |
| Webhooks (`api/routes/webhooks.py`) | none of its own | `payment.failed`, `payment.captured`, `payment_link.paid`, `order.paid` | writes payments and case states directly |
| Recovery workflow (`workflows/recovery_workflow.py`) | case state | one run: full cycle, or resumption of a scheduled action | context, candidates, decision, gate, executor, verifier; one commit at the end |
| Context and candidates (`services/context_builder.py`, `candidate_generator.py`) | none | read what the run decides on | reads payments and outcomes |
| Decision engine and scoring (`services/decision_engine.py`, `expected_value.py`, `ml/`) | none | rank the candidates by expected value | pure |
| Policy engine (`services/policy_rules.py`, `policy_engine.py`) | none | seven ordered rules, a default approval | pure on the context |
| Executors (`integrations/payment_simulator.py`, `razorpay_executor.py`) | orders and links at Razorpay | one handler per action type | may record an attempt on the payment |
| Outcome verifier (`services/outcome_verifier.py`) | outcome rows | recovered or not, from the payment row | called after every execution |
| Autopilot (`services/autopilot.py`) | none kept | run all open cases, advance the clock | the workflow, the clock |
| Clock (`core/clock.py`, `core/wall_clock.py`, `scripts/advance_clock.py`) | a state file | read (which may write), advance, reset | due times of scheduled actions, timestamps of events |
| Case state machine (`services/state_machine.py`) | transition table | check a transition | workflow |
| Audit trail (`services/audit_service.py`) | audit events | append with the next sequence number, read in order | every stage of a run, in the run's transaction |
| Analytics (`services/analytics_service.py`) | none | sums and counts over the rows | shown by command center and dashboard |
| Strategy lab (`services/strategy_lab.py`) | none | what-if under other settings, benchmark against immediate retries | ranking, gate and simulator, on the rows |
| Scenario generator (`services/scenario_generator.py`, `scripts/seed.py`, `api/routes/demo.py`) | none | seed, seed again, reset | writes payments, opens cases |
| Command center, dashboard | none | serialise and show | everything above |

`PROJECT.json` lists every component with its files and what is left out of it.

### What is hard here

* **Two commits per report.** Ingest, fail and the failure webhook commit the
  payment first and detect the risk in a second transaction, on the payment as
  the request remembers it. Captures, runs, other reports and a death of the
  process fall in between.
* **Approvals that age.** A deferred retry is approved once and executed later
  without asking the gate again. Failures and captures arrive while it waits.
* **Three writers of the case state.** Runs, webhooks and the error handler
  write it; nothing but convention keeps a closed case closed.
* **Counters that end the loop.** The autopilot runs a case again and again.
  Only the attempt budget and the count of unsuccessful outcomes end this, they
  count different things, and with Razorpay most actions never touch the budget.
* **A provider that is outside the transaction.** An order exists at Razorpay
  even if the run that placed it is rolled back, or the call raised.
* **Sessions.** READ COMMITTED, row locks taken at the first flush, no version
  column, objects that do not expire on commit. A run works on rows it read at
  its start, so two overlapping runs, or a run and a capture, can overwrite one
  another, and they lock payment and case in opposite order.

* **A clock in a file.** Several processes read, truncate and fill it without a
  lock. A file that is empty holds no time, and whoever looks at it then writes
  the start into it, so a mere look can undo an advance.
* **Numbers computed later from rows that moved on.** Analytics resolves a cause
  after captures have cleared it; the benchmark rebuilds the context a case was
  detected with; the overview is a dozen statements at READ COMMITTED; the trail
  is read by a timestamp that can go back.
* **A loop with a limit.** The autopilot gives a case eight runs, whatever
  webhooks, single runs, the clock and a second seeding do to it meanwhile.

`PROJECT.json` lists the hazards with the line where each bites and the
properties that would catch it.

## 2. Modules

| Module | Contents |
|---|---|
| `Enums` | status, reason, action and case-state sets (`core/enums.py`), candidates per reason (`candidate_generator.py:25-64`) |
| `PolicyRules` | what each of the seven rules objects to and the verdict of the gate |
| `Recovery` | state machine over the committed database; properties |
| `MCRecovery` | the sets the configurations instantiate `Recovery` with |
| `Recovery_proofs` | theorems about `Recovery` and their proofs |
| `WorkflowSessions` | the same rows, with workflow runs and capture webhooks stage by stage in database sessions; implements `Recovery` when sessions exclude each other |
| `WorkflowSessions_proofs` | what holds of sessions that overlap freely |
| `ExclusiveSessions_proofs` | sessions that exclude each other implement `Recovery`; what follows |
| `MCSessions` | the sets and sessions the configurations instantiate `WorkflowSessions` with |
| `Scoring` | diagnosis table, probability, expected value, ranking, fallback: operators in exact integer arithmetic |
| `Scoring_proofs` | the ranking is a strict total order |
| `Scenarios` | the four demonstration scenarios, the background population, and what the board promises of them |
| `Autopilot` | `Recovery` over seeded payments, with the ranking that selects, the batch loop, single runs, webhooks, clock, reset and seeding again |
| `Analytics` | the figures of the command center as operators over the rows |
| `StrategyLab` | what-if and benchmark as operators over the rows |
| `Demonstration_proofs` | what `Autopilot`, `Analytics` and `StrategyLab` claim, for any population |
| `Outcomes_proofs` | what runs, batches and figures come to in the end: accounts, rates, closed batches, kept promises, the benchmark |
| `MCAutopilot` | the seeds and sets the configuration instantiates these with |
| `ClockFile`, `ClockFile_proofs` | the clock's file, its readers, writers and deaths; theorems |
| `AuditTrail`, `AuditTrail_proofs` | the trail and the walk through the state machine of one case, by overlapping runs around that clock; theorems |
| `MCTrail` | the sessions and the script the configuration instantiates `AuditTrail` with |

`Recovery` EXTENDS `PolicyRules`, which EXTENDS `Enums`. `Autopilot` EXTENDS
`Recovery` and `Scenarios`, `Analytics` EXTENDS `Autopilot`, and `StrategyLab`
EXTENDS `Analytics`: rows, runs, figures and projections are evaluated in one
state. `AuditTrail` EXTENDS `ClockFile`, and is shown to implement it. The two definitions
`Blocking` and `Escalating` collapse the ordered list of rules: the five
blocking rules come before the two escalating ones, so the order decides only
which reason is reported.

### State of `Recovery`

| Variable | Code |
|---|---|
| `payments[p]` | a `Payment` row: `status`, `failure_reason`, `attempt_count`; `Absent` before it is inserted |
| `cases[c]` | a `RecoveryCase` row: `state`, its payment |
| `actions[a]` | a `RecoveryAction` row and its `RecoveryOutcome`: status, case, type, whether `scheduled_at` is set and how long until then (`wait`), whether `executed_at` is set, the verified outcome |
| `detecting[p]` | requests between their two commits (`api/routes/payments.py:125` and `:141`, `webhooks.py:210-263`) |
| `orders[p]` | orders and links that exist at Razorpay for this payment |

The tables themselves (`app.models`) are not part of the repository; their
columns are taken from what the services read and write (marked `external`).

### Actions of `Recovery`

A step is a database transaction. That is the grain the code gives other
sessions: a workflow run commits once, at its end (`recovery_workflow.py:212`),
so the states it passes through (`DIAGNOSING`, `POLICY_CHECK`, ...) are never
seen by anyone else and are not states of the model.

| Action | Code |
|---|---|
| `CreatePayment` | ingest and simulate; only ingest detects, and only on request |
| `FailPayment`, `PaymentFailedWebhook` | a failure reported for a payment, known or not, *whatever its status*: a late report turns a captured payment back to failed |
| `DetectRisk` | the second transaction: reuse the open case or open one |
| `LoseRequest` | the request dies, or its second transaction fails |
| `PaymentCapturedWebhook` | the three captured events: record the attempt, close one open case |
| `Run(c)` | one workflow run: `Stop`, `Escalate`, `HandOver` (an approved action that moves no money), `Schedule`, `Execute`, `ResumeScheduled` |
| `RunFailsAfterOrder` | the order reached Razorpay, everything the run wrote is rolled back |
| `AdvanceClock` | time passes for every scheduled action |

`Effects` gives what an executor may do: the payment row it leaves, what it
reports, and how many orders it leaves at Razorpay. The simulator's scripted
pairs are fixed, its seeded draw is an open choice. A Razorpay call succeeds,
fails, or fails *after* the order was created. `Recovers` is the verifier:
captured now and not captured before, read from the payment row, never from the
report.

`DetectRisk` is one step here and in `WorkflowSessions`; between its read and
its commit nothing of another request is interleaved (section 8).

Which candidate the ranking selects is left open: a run takes any candidate.
Every property below therefore holds for each ranking, including later changes
of the scoring tables. The price is that the model also has runs that the
present tables would not choose; for safety this only makes the claims stronger.

### `WorkflowSessions`

One variable more, `sessions[s]`: the stage a session is in and what its Python
variables hold. The committed rows are the variables of `Recovery`, and a
session's writes are not in them before its commit.

| Stage | Reached by | Code |
|---|---|---|
| `begun` | `BeginRun`: read the case, keep the object for the whole run | `recovery_workflow.py:178-199` |
| `diagnosed` | `Diagnose`: build the first context | `:279-300` |
| `gated` | `Decide`: build the context anew, gate the chosen candidate; or `Resume`: take the pending action if due | `:300-347`, `:218-265` |
| `executed` | `ExecuteStep`: read the payment, call the provider, verify | `:427-463` |
| `ending` | `Decide` or `Resume`, when nothing is executed | |
| (committed) | `CommitRun`: the columns that changed, and nothing else | `:212` |
| `failing`, `restoring` | `RunFails`: a stage raised, everything is rolled back; `ReadForRestore`, `RestoreEntry`: the handler reads the case and writes its entry state back | `:700-725` |
| `notified`, `recorded` | `Notify`, `RecordCapture`, `CommitCapture`: a capture webhook reads the payment, locks it, finds the open case, commits both | `webhooks.py:266-312` |

`Die` ends any session at any stage. What the model takes from SQLAlchemy and
from PostgreSQL, the production database (`core/config.py:84-88`); SQLite, used
for development, locks the whole database where PostgreSQL locks a row and so
allows fewer interleavings:

* a row is locked by the first flush that writes it and until commit or
  rollback. In a full cycle that is the audit event after the first state
  change, in a resumption only the end (`HoldsCase`); a capture locks the
  payment before it looks for the case (`HoldsPayment`);
* an `UPDATE` sets the columns that differ from what was read (`Merge`), so a
  stale row overwrites some columns and not others;
* `session.get` returns an object somebody still refers to. A run drops its
  payment between its stages, hence reads it again for the diagnosis, the gate
  and the execution; the autopilot (`Batch`) keeps one through all runs of a
  case, hence does not (`PaymentOfSession`, `HeldRows`).

All other requests stay single steps and wait for payment locks (`Request`).
`Exclusive` is an assumption on the deployment, not something the code
enforces: no two sessions or requests work on one payment at a time, and the
clock does not move while a run is under way.

### `Scoring`, `Scenarios`, `Autopilot`

`Recovery` leaves the selection open, `Autopilot` determines it: `EnginePick`
computes the action from the payment, the customer and the history of outcomes.

A run works on the payment its session has in hand. `RunResults(c, before)` is what
a run of case `c` with the payment `before` can come to: `Cycle`, which ranks, gates,
and either performs (`Perform`) or puts the action aside (`PutAside`), or `Resume`,
which performs what waits. `WorkflowRun` commits one of the results; of the payment
it writes only the columns the run changed (`Flushed`), as SQLAlchemy does. A
single run reads the payment it commits to. The batch does not: `_run_case` loads
the payment once (`autopilot.py:158`), refreshes only the case before each run
(`:176`), and the session keeps its objects over a commit (`db/session.py:51-54`).
`LoadHead` reads it, `RunHead` runs on `pilot.held` and keeps what it made of it.
So, when a webhook or a single run has changed the payment meanwhile, the batch
gates, ranks and charges an outdated row, and an attempt can be lost. What is counted
by a query, failed and verified outcomes, is never outdated. Such a step is none of
`Recovery`, whose runs read what is committed; the transition shapes of the rows
are the same (`RunShape` in section 6). `crossed` remembers the payments it happened
to.

Probabilities are whole per mille, amounts whole rupees, values paise. The
source rounds binary floats to three digits; here the products are exact, which
can differ by one per mille at an exact tie of the last digit and nowhere else.
The simulator's unscripted answers stay open.

| Variable | Code |
|---|---|
| `seed[p]` | the seeded payment and customer: status, cause, attempts, amount, success rate, subscription |
| `clock` | virtual or wall clock, as the process was built |
| `diagnosed[c]` | the cause in `case.diagnosis`, written by every full cycle |
| `disturbed` | history: payments that something other than runs has written |
| `todo`, `pilot` | the batch: cases left; for the first of them the runs made, whether it waits, and the payment held |
| `crossed` | history: payments a batch has run on an outdated copy of |

| Action | Code |
|---|---|
| `StartBatch`, `LoadHead`, `RunHead`, `DriveClock`, `FinishHead` | `autopilot.py:144-235`: the pending cases, the payment loaded (`:158`), one run on it (`:175-181`), the clock advanced by the retry delay, the case left when it is closed, out of runs, or has to wait for real time |
| `AbortBatch` | an error that is no `PaycheckerError`, `autopilot.py:182` |
| `ManualRun`, `TimePasses`, `Disturb` | other requests beside the batch |
| `ResetDemo`, `SeedAgain` | `demo.py:36-65`; `scripts/seed.py` without `--reset` |

The batch is a set taken least number first (`Current`), which is the stable
order of `pending_cases`.

The loop also leaves a case on a `PaycheckerError` of its run
(`autopilot.py:182-187`). There is no action for it: with the simulator a run
raises one only if the case was closed or removed between the refresh and the
run, which are one step here, or if the state machine refuses a transition,
which `NeverRejected` excludes.

### `ClockFile`, `AuditTrail`

`ClockFile` has the grain of file-system calls: a read is one step, a write two,
`Truncate` and `Put`, and a process can die before, between and after them.
`serial` is chosen at the start: calls never overlap, or overlap freely.

`AuditTrail` follows one case through runs stage by stage. A run takes the
sequence and the time of its first event (`StampFirst`), then flushes and so
locks the case; further events are numbered under the lock. `Decide`, `Gate`,
`Defer` and `Execute` walk the transition table and record; what they decide is
open. `RunFails` and `RestoreEntry` are the error handler, `Die` a death, also
in the middle of a clock write. `CaptureCase` closes the case and records
nothing, as the webhook does. The events of one stage share a timestamp.

## 3. Properties

Safety of `Recovery`, checked and (except where noted) proved:

* `OneOpenCase`: a payment never has two open cases, however many reports
  overlap. Across transactions; two *simultaneous* detections are in section 8.
* `ScheduledCaseAwaitsOne`: a scheduled case waits for exactly one action, and an
  action is pending only for such a case or for one a capture closed meanwhile.
* `OpenCaseMatchesPayment`: while a retry waits, its payment is unsuccessful,
  although resumption checks nothing; a case whose action failed never belongs
  to a captured payment.
* `RecoveredOnce`: a case has at most one outcome verified as recovered, and is
  then closed as `RECOVERED`. Analytics sums over outcomes, so money would
  otherwise be counted twice.
* `TerminalAbsorbing`: a closed case is never changed.
* `ChargeOnlyOpenFailed`: no step executes or orders anything for a payment that
  is captured, pending, or without an open case.
* `FailuresWithinLimit`: a payment collects no more unsuccessful
  outcomes than `repeated_failure_limit`, over all its cases, although a resumed
  action skips the gate.
* `ExecutionsWithinBudget` (a statement about the simulator): the
  failure that started it counts, so fewer than `max_automatic_retries` actions
  are ever executed for one payment. It is about runs that read the committed
  payment, as every run through the endpoint does; a batch that holds an outdated
  payment can execute one more (section 7). `FailuresWithinLimit`, whose count is a
  query, bounds those too.

Liveness: `EveryCaseResolves`, every open case reaches a terminal state.

`WorkflowSessions`, checked and proved:

* `ExclusiveRunsAreAtomic`: with `Exclusive`, the stages, rollbacks and deaths of
  runs and captures are steps or stutters of `Recovery`, under
  `INSTANCE Recovery WITH orders <- Settled`, where `Settled` leaves out the
  orders of runs that have not committed yet. So everything section 6 proves
  about transactions holds for the code that issues them, under that assumption.
* `NoWayOutOfTerminal` and `NoOrderForCaptured` with `Exclusive`: no run, capture or
  error handler changes a closed case, and no order is placed for a captured
  payment. Without `Exclusive` both are false (section 7), so the exclusion of
  sessions is exactly what these two sentences of the code need.
* `CommittedCaseRunnable`: without `Exclusive`, whatever overlaps, fails or dies,
  a committed case is closed or in a state a run may start from. A case left
  in a stage state would be refused by every later run.
* `RecoveredIsCaptured`: without `Exclusive`, an outcome verified as recovered is
  committed with a captured payment, though the payment row it was verified on
  may be stale and is merged column by column.

`Autopilot`, checked; all but `BatchEnds` also proved, the promises and the closing of
batches for the settings section 6 names:

* `BatchClosesAll`: eight runs are enough for every case of a batch, whatever
  happens meanwhile to the payment it holds, unless the clock is real. `BatchEnds`: every batch ends.
* `DemoGuaranteed`: the four scenarios end as the board promises, by the promised
  actions, by a batch, by hand or both at once. This is where the scoring tables,
  the clamp of `STOP`, ties and thresholds meet the gate.

`Analytics`, checked and proved:

* `MoneyKeepsItsCause`: recovered money is filed under the cause its action was
  chosen for, although captures clear and failures change the payment's cause.
* `HonestRates`: no cause recovers more than it had at risk, and a case counts as
  recovered with its money, unless a webhook closed it.
* `SelectionsAccounted`: selected, executed, refused, waiting, overtaken and
  handed-over actions add up, and refusals and hand-overs to the closed cases.
* `FiguresOnlyGrow`: between two statements of one overview no verdict, outcome
  or filed cause is taken back.

`StrategyLab`, checked and proved:

* `LabPermitsWhatRunsDo`: whatever a full cycle schedules or executes, the lab, asked
  just before, permitted, and where what it recommends is a candidate for the cause
  the cycle takes one of its recommendations. A batch on an outdated payment
  (`RunsOutdated`) is excepted: it may do what the lab reports `BLOCKED` (section 7).
* `LooserNeverForbids`: looser settings take no option away, in any reachable case.
* `BenchmarkStable`: the context the benchmark rebuilds for a case is the one it was
  detected with, before, between and after its runs. Where a batch ran on an outdated
  payment an attempt is missing, and the rebuilt context has fewer attempts than there
  were, but at least one. Payments that webhooks have reported on are left out: a
  reported failure is an attempt that is no execution, and the benchmark, which
  subtracts executions only (`strategy_lab.py:597`), counts it as made before
  detection.
* `FirstActionAsProjected`: what the benchmark projects for the engine is what the
  first run of the case does.
* `UpliftNotNegative`: on the seeded population the engine's arm is never worth less.

`AuditTrail` and `ClockFile`, checked and proved:

* `NeverRejected`: no run asks for a transition the table refuses, so none fails
  on it after money moved.
* `SequencesOrderRuns`: numbers follow the order within a run; when runs overlap
  two events may share one, but only if one is the first of its run.
* `TrailOldestFirst`: when calls do not overlap and the clock is not put back, the
  order by time is the order of recording.
* `ExecutionWasApproved`: every verified outcome follows an approval of its own run
  or a scheduling by another, also when runs overlap.
* `TrailExplainsState`: the last event that is not a restoration tells the state of
  the case, through failures, deaths and resumptions, unless runs overlapped or a
  webhook closed it.
* `ClockNeverAhead`: the time is never before its start and never later than all
  advances asked for, however calls, resets and deaths interleave: a retry may
  become due late but never early.
* `ClockExact`: calls that do not overlap lose no advance.

The other invariants of `Recovery` do not hold without `Exclusive`: section 7 has
the two violations that contradict what the code says of itself. The number of
failed outcomes also overshoots `RepeatedFailureLimit`, because a closed case can
come back beside a newly opened one; no bound is claimed.

## 4. Runs

| Run | Instance | Shows |
|---|---|---|
| `recovery_simulator` | simulator, 2 payments (one of high value), 3 cases, 4 actions; about 66,000 states | the safety properties, the budget, `EveryCaseResolves` |
| `recovery_razorpay` | Razorpay, 1 payment, 3 cases, 5 actions; about 48,000 states | the same hazards with overlapping reports, lost calls and failing runs; `FailuresWithinLimit`; `EveryCaseResolves` |
| `sessions_exclusive` | Razorpay, 2 payments (one of high value), 2 cases, 2 actions, 2 sessions that exclude each other; about 60,000 states | the refinement `ExclusiveRunsAreAtomic`; closed cases stay closed, captured payments are not ordered for |
| `sessions_overlapping` | simulator, 1 payment, 1 case, 2 actions, an autopilot session and another one, overlapping freely; about 260,000 states | `CommittedCaseRunnable`, `RecoveredIsCaptured` |
| `claim_budget` | as `recovery_simulator` | violated: see section 7 |
| `claim_retry_made`, `claim_capture_recovers`, `claim_has_case` | as `recovery_razorpay` | violated: see section 7 |
| `claim_terminal` | as `sessions_overlapping` | violated: see section 7 |
| `claim_double_charge` | as `sessions_overlapping`, with Razorpay | violated: see section 7 |

| `autopilot` | simulator, 2 payments, one with any of 5 seeds, one high-value, 3 cases, 6 actions; about 99,000 states | `Autopilot`, `Analytics` and `StrategyLab` in every reachable database |
| `trail` | 2 sessions and a script, 2 runs, 1 advance, 1 reset or death in a write; about 1,800,000 states up to symmetry | `AuditTrail` and `ClockFile` |

### Bounds, and why they are enough

* `AttemptCap` stops *outside* events (failures, captures) on a payment that has
  had that many attempts. Executions are not capped by it. It is at least
  `MaxAutomaticRetries`, so a payment can be brought up to, and past, its budget
  by reports alone.
* `DetectCap` bounds requests between their two commits, per payment: 2 in the
  Razorpay run, which lets two detections meet each other, a capture and a run.
* `OrderCap` bounds only the orders left by runs that failed; a run that
  commits may always order.
* `RetryDelay = 1`: a retry is not due when it is scheduled and is due one clock
  step later, which is all the code compares (`is_due`, `clock.py:51`).
* Rows: 3 cases let a payment be recovered, fail again and be opened a second
  and third case; 4 or 5 actions are more than the gate lets one payment
  collect in the instance. When the rows are used up the action that needs one
  is not enabled; this ends the behaviours early, but cannot hide a case that
  stays open, because `EveryCaseResolves` would then report it.
* `IngestReasons`: two causes per run. `BANK_TIMEOUT` allows deferred and
  immediate retries and a link, `EXPIRED_CARD` the change of method and an
  escalation, `INSUFFICIENT_FUNDS` a reminder; a failure without a cause
  becomes `UNKNOWN`.
* `MaxAutomaticRetries` and `RepeatedFailureLimit` are chosen so that in the
  simulator run the budget is what ends the loop and in the Razorpay run the
  repeated failures are.

* Sessions: two suffice for every pairwise overlap: run with run, run with
  capture, autopilot with either. Two captures on one payment differ from one
  only in the attempt counter. The exclusive run has two payments, so that two
  sessions do work side by side; its sessions are interchangeable and the run
  uses that symmetry (it checks no liveness). In the overlapping run `Batch`
  tells them apart and there is no symmetry.

* Autopilot: one payment ranges over the scenarios A, B and D and two payments of the
  background population, one that lacked funds and one abandoned at checkout; the other
  is scenario C, so that a batch has two cases and amounts on both sides of the
  threshold. The causes left out, network errors and failed subscriptions, take the
  same paths with other numbers; the proofs cover them. Budget 3 and failure limit 2
  are what make scenario B and a second failure happen. Three runs per case are not
  enough here and four are. Each failure costs a case at most two runs, so seven of
  the eight are enough with the limits the code ships (2 and 3). `BatchClosesAll`
  depends on this: a failure limit of 4 with a budget of 5 would allow nine. Webhooks report on the first
  payment (`Outside`), which gives it a second case; nobody resets under a running
  batch, or seeds again after webhooks have reported.
* Trail: two sessions suffice for every overlap of two runs, and a third process
  writes the clock. Two runs are a scheduling and its resumption, or a failed or
  lost run and the next. Start 1, one advance of 1 and a delay of 1 make an action
  not due, due, and not due again after a reset. The file is missing or holds the
  start at first. The proofs need none of these bounds for the clock.

Deadlock is not checked in the runs of `Recovery`, `WorkflowSessions` and `AuditTrail`: when every case is closed and the bounds
on outside events are reached the system really has nothing left to do.

## 5. Fairness

`Fairness` is weak fairness of `Run(c)` for every case and of `AdvanceClock`.
It is what `AutopilotService.run_batch` does (`autopilot.py:144-230`): it takes
every open case, runs it until it is closed, and advances the clock when a case
waits for an action. Outside the autopilot the same is done by hand or by a
scheduler calling the run endpoint. Nothing is assumed of customers, merchants
or Razorpay: reports, captures and detections may never happen. A run that
fails after its order is a separate action with no fairness, bounded by `OrderCap`:
liveness is claimed for a provider and a database that do not fail forever.
`WorkflowSessions`, `ClockFile` and `AuditTrail` state no fairness; they are used
for safety only.
`Recovery` does not limit the runs of a case; the limit of eight is in
`Autopilot`, where the only fairness is that of `BatchStep`: the request that
runs a batch is one thread that keeps going. `BatchEnds` needs nothing else.

## 6. Proofs

`Recovery_proofs` proves, for all values of the constants that satisfy
`SettingsAssumption` and `ConstantsAssumption` (any number of payments, cases
and actions, any limits, either provider):

| Theorem | Statement |
|---|---|
| `TypeCorrect` | `Spec => []TypeOK` |
| `Invariance` | `Spec => []IInv` |
| `AtMostOneOpenCase` | `Spec => []OneOpenCase` |
| `ScheduleIsExact` | `Spec => []ScheduledCaseAwaitsOne` |
| `OpenCasesMatchPayments` | `Spec => []OpenCaseMatchesPayment` |
| `RecoveredAtMostOnce` | `Spec => []RecoveredOnce` |
| `ClosedForGood` | `Spec => TerminalAbsorbing` |
| `NoDoubleCharge` | `Spec => ChargeOnlyOpenFailed` |

The inductive invariant is

    IInv == TypeOK /\ OneOpenCase /\ ScheduledCaseAwaitsOne
                   /\ OpenCaseMatchesPayment /\ RecoveredOnce

None of the four is inductive alone:

* `OpenCaseMatchesPayment` needs `OneOpenCase`. A capture closes *one* open case
  of the payment; were there another, a scheduled one would be left with a
  captured payment. The same holds when an execution captures the payment.
* `ScheduledCaseAwaitsOne` says which action a resumption executes and that it
  is not executed again; without it an execution could leave a second pending
  action behind a failed case.
* `RecoveredOnce` needs `OpenCaseMatchesPayment`, since only an execution on an
  uncaptured payment produces a recovered outcome, and the exclusivity of the
  open case: a case with such an outcome is closed, closed cases are not run.
* `ChargeOnlyOpenFailed` follows for new decisions from the gate alone (lemma
  `ApprovedIsSafe`) and for resumptions from `OpenCaseMatchesPayment`.

The proof has one lemma per kind of step (`PaymentStepCaseInv`, `DetectCaseInv`,
`CaptureCaseInv`, `DisposeCaseInv`, `ExecuteCaseInv`, `ClockCaseInv`), each
stated by what the step writes rather than by the action, so that, for
example, the four dispositions that write only a case and its new action share one.

On `IInv` rest the two bounds that count actions:

| Theorem | Statement |
|---|---|
| `FailuresBounded` | `Spec => []FailuresWithinLimit`, for both executors |
| `ExecutionsBounded` | `Spec => [](Provider = "simulator" => ExecutionsWithinBudget)` |

The gate is asked when an action is decided and not when a scheduled one is
executed, so neither bound is inductive. `RoomToFail` and `RoomToExecute` say that
the payment of a scheduled case still has room for one action. There was room
when the action was approved, and since no other case of the payment is open
(`OneOpenCase`) nothing uses it up before the resumption does. `AttemptsCover`
ties the executions of the simulator to the attempts the gate reads: every
execution is recorded as one, and so was the failure before the first. With
Razorpay that is false, because links and deferred retries record no attempt;
hence the condition on the provider.

About the other modules:

| Theorem | Statement |
|---|---|
| `ClockTypeCorrect`, `ClockIsNeverAhead`, `ClockIsExact` | `ClockSpec =>` `[]ClockTypeOK`, `[]ClockNeverAhead`, `[]ClockExact`, for any number of processes, advances, resets and deaths |
| `TrailImplementsClock` | `TrailSpec => ClockSpec`: the runs of `AuditTrail` use the clock only as it allows |
| `TrailClockNeverAhead`, `TrailClockExact` | hence both hold around overlapping, failing and dying runs |
| `BeforeAsymmetric`, `BeforeTransitive`, `BeforeTotal`, `AtMostOneIsBest` | the ranking is a strict total order on valuations of different actions, so a list of candidates has at most one best, in whatever order it is given |

The clock's invariant is `ClockInv == ClockTypeOK /\ ClockNeverAhead /\ SerialInv`.
`ClockNeverAhead` already speaks of what every process is about to write, which
makes it inductive. `ClockExact` speaks only of moments between calls;
`SerialInv` says what it becomes in the middle of one: the moment the only
writer writes, plus what it still adds, is the time asked for.

### Sessions that overlap

`WorkflowSessions_proofs`, for any number of sessions, payments, cases and actions,
and either provider, with nothing assumed beyond `SettingsAssumption`,
`ConstantsAssumption` and `SessionsAssumption`:

| Theorem | Statement |
|---|---|
| `SessionsTypeCorrect` | `SSpec => []SessionsTypeOK` |
| `NoCaseLockedOut` | `SSpec => []CommittedCaseRunnable` |
| `RecoveredWithCapture` | `SSpec => RecoveredIsCaptured` |

Neither is inductive: a commit writes what the session has held since stages ago.
`SessionsInv` adds `Sound(session)`, which says for every stage what a session may
hold, so that whatever it commits is a state a run may start from, an action of
its own case, and an outcome `recovered` only together with a payment it has
itself seen captured. `RecoveredWithCapture` then needs that `Merge` writes the
status whenever it differs from what was read, and that the verifier compares
with exactly that.

### Sessions that exclude each other

`ExclusiveSessions_proofs`, each under `ASSUME Exclusive`, a constant of the module
that says no two sessions work on one payment at a time (with it false these
are the violated claims of section 7):

| Theorem | Statement |
|---|---|
| `ExclusiveSessionsReadTrue` | `SSpec => []ExclusiveInv` |
| `ExclusiveRunsImplementRecovery` | `SSpec => ExclusiveRunsAreAtomic` |
| `ExclusiveCasesKept` | `SSpec => [](OneOpenCase /\ ScheduledCaseAwaitsOne /\ OpenCaseMatchesPayment /\ RecoveredOnce)` |
| `ExclusiveRunsRespectTerminal` | `SSpec => NoWayOutOfTerminal` |
| `ExclusiveRunsOrderForUnpaid` | `SSpec => NoOrderForCaptured` |

`ExclusiveInv` is `SessionsInv`, `Exclusion` (what busy sessions have to do with
one another) and `Faithful` for every session: what it read still is what is
committed (`ReadsTrue`), and what it is about to write is what the one transaction of
`Recovery` would write on the rows as they are (`WritesTrue`), which for every
stage names the disposition, the effect or the capture in question. A commit then
is `Stop`, `Escalate`, `HandOver`, `Schedule`, `Execute`, `ResumeScheduled` or
`PaymentCapturedWebhook`, a failing run `RunFailsAfterOrder`, and every other step
a stutter. The refinement maps `orders` to `Settled`, which counts an order when its
run ends. The prover cannot apply a theorem of an instanced module, so
`ExclusiveCasesKept` is proved from the lemmas of `Recovery_proofs`, which
are stated by what a step writes, and not by instantiating its theorems.

### The audit trail

`AuditTrail_proofs`, for any number of sessions, runs, advances, resets and deaths:

| Theorem | Statement |
|---|---|
| `TrailTypeCorrect` | `TrailSpec => []TrailTypeOK` |
| `NoStageRejected` | `TrailSpec => []NeverRejected` |
| `SequencesInOrder` | `TrailSpec => []SequencesOrderRuns` |
| `OldestFirst` | `TrailSpec => []TrailOldestFirst` |
| `ExecutionsApproved` | `TrailSpec => []ExecutionWasApproved` |
| `TrailExplains` | `TrailSpec => []TrailExplainsState` |

They are conjuncts of, or follow from, the inductive `ClockInv /\ TrailInv`. The
properties speak of the committed trail; `TrailInv` says the same of what runs
have flushed, and what ties the two:

* `WalksAsPermitted`: the state and the flushed events of a run at every stage.
* `RunsApart`: ids are unique, one run at a time holds flushed events (the row
  lock), and serial runs are alone.
* `OwnEventsNumbered`, `TrailNumbered`: a run's events are numbered 1 to their
  count, their sequences rise, and all but the first lie above the whole trail.
  The first does so only without overlap, since its number was taken before the
  lock: this is the exception in `SequencesOrderRuns`. `HasTop` carries that the
  sets of events are bounded, which is what `max + 1` needs.
* `SerialTimes`: without overlap and resets every recorded time is at most now, and
  events not yet committed are no older than the trail.
* `ApprovalRecorded`: who is about to execute has an approval among its own events,
  or entered on a case whose scheduling is in the trail.
* `StateTold`: what is about to be committed is what the last flushed event tells.

The walk through the transition table is written as a condition on the steps of a
path, so that it can be reasoned about; it raises in the same cases as the loop
in `advance`.

### The demonstration

`Demonstration_proofs` proves about `ASpec`, for any population of seeds, any
number of payments, cases and actions, any batch sizes and either clock:

| Theorem | Statement |
|---|---|
| `DemonstrationInvariant` | `ASpec => []DemoInv` |
| `DemonstrationTypeCorrect` | `ASpec => []AutopilotTypeOK` |
| `DemonstrationKeepsCases` | `ASpec => []CaseInv`, the four case invariants of `Recovery` under seeding, seeding again and a driven clock |
| `MoneyUnderItsCause` | `ASpec => []MoneyKeepsItsCause` |
| `FiguresNeverShrink` | `ASpec => FiguresOnlyGrow` |
| `BenchmarkReproducible` | `ASpec => []BenchmarkStable` |
| `FirstActionIsProjected` | `ASpec => []FirstActionAsProjected` |
| `LooserForbidsNothing` | `ASpec => []LooserNeverForbids` |
| `LabPermitsRuns` | `ASpec => LabPermitsWhatRunsDo` |

`DemoInv == AutopilotTypeOK /\ CaseInv /\ RowsKept /\ CausesKept /\ HeldFits /\ Seeded`:

* `RowsKept`: every payment has one of its seeds, every action row a case. A payment
  is high-value exactly when its seed says so, which is what lets the gate of a
  run and the lab's gate be compared.
* `CausesKept`: a case with an action has a diagnosis, and what waits or recovered
  was a candidate for it. A full cycle overwrites the diagnosis, so this needs
  that no case waits or is recovered when one starts (`CaseInv`). `MoneyKeepsItsCause`
  is the part of it about recovered money.
* `HeldFits`: a batch that takes the payment it holds for unsuccessful is right as
  long as the case is open, because a capture would have closed it. Everything else
  about the held payment may be outdated.
* `Seeded`: a payment only runs have touched has its own case and no other, its seeded
  cause until it is recovered and in its diagnosis, and one action only if that is the
  projected one. Its attempts are never more than the seeded ones plus its
  executions, more than the seeded ones once an action is executed, and exactly the
  sum unless a batch ran on an outdated copy (`crossed`). The same upper bound holds of
  the copy a batch holds (`SeededCopy`), which is as seeded until something is
  executed. This says for every moment what `BenchmarkStable` and
  `FirstActionAsProjected` compute with.

Who takes a step does not matter to the rows: `EveryStep` reduces all of them to a
few kinds, and a run is described by the payment it has in hand (`RunShape`), which
the case analysis of every invariant then treats alike for single runs and batches.

`LooserForbidsNothing` rests on `LooserApproves` and `LooserCovers`, which hold
for any two settings of which one asks no less than the other, not only for those
the property names. `LabPermitsRuns` is about runs that read what is committed and
batches whose payment is still that; it also needs that among the six options one is
worth most (`SomethingRecommended`), for which every value must be a number.

The proofs assume `AutopilotAssumption`: seeds are at-risk payments of at least one
attempt. Scenario B is seeded with as many attempts as the budget
(`scenario_generator.py:193`), so this excludes a budget of 0, with which
the benchmark would rebuild one attempt where there was none.

### What the demonstration comes to

`Outcomes_proofs` proves about `ASpec`, with the same generality except where a
hypothesis is named:

| Theorem | Statement | Hypotheses |
|---|---|---|
| `RatesAreHonest` | `ASpec => []HonestRates` | finitely many cases |
| `SelectionsAddUp` | `ASpec => []SelectionsAccounted` | |
| `DemonstrationFailuresBounded` | `ASpec => []FailuresWithinLimit` | |
| `EveryBatchCloses` | `ASpec => BatchClosesAll` | `RepeatedFailureLimit <= 3` |
| `PromisesKept` | `ASpec => []DemoGuaranteed` | `PromisingSettings`, `PromisedSeeds` |
| `UpliftIsNotNegative` | `ASpec => []UpliftNotNegative` | finitely many cases, `WorthwhileSeeds`, a budget of at most 3, every action but the terminal ones supported, `PowersArePositive` |

**Accounts.** `FiledInv == DemoInv /\ RowsFiled /\ ClosedByOne`. `RowsFiled` says how an
action row may look: executed exactly if it has an outcome, and if not executed,
refused, deferred, or one of the two actions that end a case. `ClosedByOne` matches
stopped and escalated cases with the one row that closed each. The figures are
cardinalities of sets of rows; with the two facts each equation of
`SelectionsAccounted` is a disjoint union or a bijection. Webhooks are why it is not
obvious: a capture closes a case with no row (`Overtaken`), and it may do so while
a retry waits.

**Rates.** `HonestRates` compares sums folded over sets. The folds of the community
modules take an operator, which the prover cannot instantiate for induction, so
the proof does it without: a sum over a finite set is characterised by a function on
its subsets that grows by one element at a time, whose existence follows from the
well-founded order of the naturals, and monotony is proved of that function
(`SumGrows`). What is summed is then compared case by case: `MoneyKept` adds that a case
only runs have closed as recovered has the row that recovered it, `RecoveredOnce`
that it has no second one, and `CausesKept` that both are filed alike.

**Batches.** `BatchInv == FiledInv /\ FailuresWithinLimit /\ RoomToFail /\
RunsPaidFor`. Eight runs (`autopilot.py:175`) are enough because every run must be
paid for: a run that leaves its case open either fails, and the case has one
failure more, or defers a retry, whose failure is still to come. `RunsPaidFor` says
that the runs used up are at most two per failure of the case, and one more while a
retry waits and the clock has been driven to its time. With at most 3 failures
(`FailuresWithinLimit`, which needs `RoomToFail` as in `Recovery`) that is fewer than
eight. The shipped limit is 3 (`core/config.py:119`); section 4 names a limit with
which eight are not enough, so the hypothesis cannot be dropped. Webhooks and
single runs between two runs of the batch pay too: they add failures or close the
case, and never take a failure away. The payment the batch holds may be outdated, but
failures are counted by a query, so the argument does not depend on it.

**Promises.** `PromisingSettings` are those under which the board may promise: a budget
of 2 or 3 attempts, a limit of at least 1, a threshold that scenario A (10000 rupees)
does not exceed, hand-overs allowed, and the two promised actions supported. The
shipped ones qualify (`core/config.py:118-120`: 2, 3 and 50000 rupees). `PromisedSeeds`
says that only the four seeds of `scenario_generator.py` carry a promise. The budget
matters because scenario B is seeded with as many attempts: each lowers the value of
the retry, and from about eight on another action would be worth more. `DemoKept` says
where a demonstration payment stands at any time: detected with nothing selected, or
waiting, or at its promised end, with nothing but the promised action. That the
promised action is worth most is the arithmetic of the scoring tables, per scenario
and candidate; that the simulator then succeeds is its script; that B is
stopped and C handed over is the gate. `Seeded`, from `DemoInv`, supplies what the
first run reads.

**The benchmark.** `UpliftNotNegative` compares two sums over the cases each arm would act
on. The proof is per case. The context the benchmark rebuilds is that of a payment
seeded so (`DetectedAsSeeded`), whatever happened to the case. The gate treats the two
arms alike (`SameVerdict`), provided the engine never selects an action that ends the
case for a known cause (`KnownCauseIsActedOn`): every supported action passes or fails
the same rules. So the two sums are over the same cases, and where the
gate approves, the case has one or two attempts. There, either retrying at once is
itself a candidate, or one of the candidates is more probable by a margin (128, 262, 85
and 136 in a thousand, by cause) that pays for what it costs more
(`SelectionIsWorthMore`); a case with a higher value never lowers the sum (`SumGrows`).
Each hypothesis has its reason:

* `WorthwhileSeeds`, every payment worth 1000 rupees or more: below some amount the
  margins no longer pay, and the property is false. The cheapest payment the
  generator makes is 1049 rupees (`BackgroundMix`).
* A budget of at most 3 (shipped: 2, `core/config.py:118`): the margins shrink by a
  quarter with every attempt.
* The supported actions: the simulator, the only provider of `ASpec`, supports all
  (`payment_simulator.py:128-130`). An executor without some candidate would block
  what the baseline may do.
* `PowersArePositive` says that 3^n and 4^n are positive naturals for every n. That is
  arithmetic, and true; the provers evaluate powers of given exponents only. It is
  needed in one place, that handing an expired card over to a human is never worth more
  than asking for another card, after any number of attempts (`CardBeforeHuman`).

### Only model-checked

* `EveryCaseResolves` and `BatchEnds`: liveness under fairness is out of the
  prover's reach.
* The counting bounds of `Recovery` around exclusive sessions, which
  `ExclusiveCasesKept` does not list.

## 7. Where the code and its own words disagree

Each is a run that TLC finds violated; `PROJECT.json` quotes the lines.

* `BudgetUnbypassable`: `policy_rules.py:327-329` calls the budget unbypassable.
  A scheduled retry is resumed without the gate; failures reported while it
  waits can use up the budget, and it is executed all the same.
* `ScheduledRetryIsMade`: with Razorpay, resuming a deferred retry calls the
  same handler again, which only reports `SCHEDULED` (`razorpay_executor.py:229`).
  Nobody is contacted and the action is recorded as failed.
* `CaptureAfterAttemptRecovers`: an order leaves the payment `PENDING` and the
  case `FAILED`. If the case is run again before the customer pays, the gate
  blocks on the payment's state and the case is stopped; the capture that
  follows finds no open case and recovers none.
* `NoWayOutOfTerminal`: `state_machine.py:9-11` makes the absence of transitions
  out of a terminal state a property of the table. The table is consulted on the
  object in hand: a run that read the case before a capture closed it commits its
  own state over `RECOVERED`, and the error handler assigns the entry state
  without asking the table at all.
* `NoOrderForCaptured`: `policy_rules.py:92-93` puts the already-paid rule first
  so that no customer is charged twice. The payment can be captured between the
  gate and the execution, and the autopilot gates on the payment object it loaded
  at the start of the case (`Batch` here, `LoadHead` in `Autopilot`).
* `AtRiskHasCase`: a request that dies between its commits leaves a failed
  payment without a case, and repeating it breaks the primary key.

Smaller disagreements, which no run is spent on:

* `analytics_service.py:251-252`: the gap between selected and executed "is exactly
  what the policy engine refused to run". It also holds scheduled, overtaken and
  handed-over actions, as `SelectionsAccounted` states it.
* `webhooks.py:9` promises an audit event for each capture, and none is recorded;
  `command_center.py:216` reports `complete_audit_trail=True` without a look.
  `TrailExplainsState` excepts captured cases for this reason.
* `autopilot.py:168-171` carries the verdict forward so that a resumption does not
  report "no policy decision". With a real clock the batch that resumes is a later
  one and has no verdict to carry.
* `strategy_lab.py:572-573` describes the engine's arm as "policy-eligible"; `_choose`
  does not ask the gate, and a refused choice is counted as blocked.
* `autopilot.py:5-6`: a batch "produces exactly the outcomes that running each case
  by hand would produce". Not if the case is also run by hand meanwhile. With the
  shipped settings: the batch schedules a retry, holding one attempt; a single run
  resumes it and it fails, which makes two; the batch finds the case `FAILED`, gates
  on the one attempt it holds and approves a second charge, which the budget of two
  refuses any run by hand and the lab reports as `BLOCKED`. When that fails too, one
  plus one is written over the two, and an attempt is lost. `LabPermitsWhatRunsDo` and
  `BenchmarkStable` name this case, and it is a second way around the budget.
* `candidate_generator.py:23-24` says that the order of its lists is the final
  tie-break between candidates of equal value. It decides nothing: the engine sorts
  by the declaration order of `ActionType` (`decision_engine.py:200`), as `Before`
  does in `Scoring`.
* The lab takes the simulator's supported actions whichever executor is in use, has
  a setting for the retry delay that affects nothing, and may recommend a human
  for an exhausted budget where the engine's own choice stops the case.

## 8. Not modelled

* Two simultaneous detections of one payment (`risk_detector.py:121`): detection
  is one step in all modules. Splitting it takes a third kind of session, whose
  interleavings with runs and captures exceed what the overlapping instance can
  explore; nothing in the table prevents two open cases in that window.
* The silent fall-back to the simulator when Razorpay's client cannot be built
  (`container.py:112`): the provider is a constant, on which liveness and proofs rest.
* Case amounts other than the seeded ones in `Autopilot`, unscripted draws, averages
  of probabilities, confidence, risk levels.
* Diagnosis texts, explanations and audit metadata, request validation, webhook
  signatures, serialisation in the command center and the API, key checks, logging:
  they keep no state and decide nothing the properties are about.
* The dashboard: styling and layout that show the endpoints' answers. Its one
  control is a timeout of 15 seconds, after which the server's request goes on.
* Database set-up and migrations. The tables themselves (`app.models`) are not in
  the repository and are taken from how the services use them; constraints that
  only they would show are not assumed.
