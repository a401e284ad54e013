# Resilient Decision System: TLA+ specifications

These modules specify `src/resilient-decision-system/rds-export`: a FastAPI service that takes
one request, runs the YAML workflow it names over it, and stores a decision with an audit trail.
Paths below are relative to that directory; `orchestrator.py:528` is a line of
`app/core/orchestrator.py`, `main.py` is `app/main.py`, and so on.

## The system

| Component | State | Operations | Interacts with |
|---|---|---|---|
| Gateway, `main.py` | one database session per call | `create_execution`; read-only lookups | calls all the others in one thread, owns commit and roll-back |
| Idempotency service, `services/idempotency.py` | keys in Redis, or a dictionary per worker; the choice between them, made once | `check`, `register` | shared by all calls of a worker, through Redis by all workers |
| Tables, `models/db.py` | `executions` (UNIQUE `request_id`), `audit_logs` | INSERT, UPDATE, COMMIT | shared by all workers, isolates their transactions |
| Orchestrator, `core/orchestrator.py` | the row, its audit log, the context, the route | `run_workflow` | rules engine, dependency layer, configuration |
| Rules engine, `core/rules_engine.py` | none | `evaluate_rule`, `evaluate_stage_rules` | reads the context |
| Dependency layer, `dependencies/mock_api.py` | the attempts of one call | `with_retry`, delays, mock answers | writes `attempt_log` of the orchestrator |
| Configuration, `services/config_loader.py` | an `lru_cache` per process | `load_workflow_config` | called by gateway and orchestrator |
| Threads and connections, `main.py`, `models/db.py` | FastAPI's thread limiter, the engine's pool | borrowed and returned by every endpoint | shared by all calls of a worker |
| Shipped workflows, `workflows/*.yaml` | none | | data of rules engine, dependency layer and orchestrator |
| Schemas, settings | none | | shape of JSON, environment |

What is hard here:

* **Concurrency.** Calls run in the threads of several workers. Between the check of the key,
  the INSERT, the key's registration and the COMMIT any other call may run, and the key is set
  *before* the row it names is committed. The UNIQUE constraint makes a duplicate wait.
* **Failure.** A worker may die anywhere, a commit may be lost in transit, Redis may go down and
  come back empty, keys expire, a client retries after any of it.
* **Decision logic.** Several rules fail at once with different severities and actions; external
  calls fail under three policies; four ways lead out of `run_workflow`. The audit log, the
  trace and the stored status are three accounts of one decision, computed by different code.
* **Retry arithmetic.** The loop counts from 0, the log from 1, and the callback logs a failure
  only when it is followed by another try. Delays grow, are capped, and are then stretched by the
  jitter, all inside an open transaction.
* **Values.** Rules compare what JSON, YAML and Python give them: texts that spell numbers,
  booleans that are numbers, absent fields, whole numbers no float can hold, divisors that may be
  zero, two thresholds for one rule.
* **Caches and pools.** Each worker caches the YAML on its own, for ever, and reads without a lock; two
  loads of one call may differ. Two pools are taken in different orders by different calls.

What makes the components correct: a request id is decided once and every successful answer
tells that decision (gateway, store, table); the decision follows from the recorded facts and
all its accounts agree (orchestrator, rules); each try is accounted for and the loop ends
(dependency layer); no call stays open for ever (gateway, pools); the shipped workflows decide as
their descriptions say; an accepted workflow stays, and a restart deploys a change (configuration).

## Modules

| Module | Models | Lines |
|---|---|---|
| `RequestLedger` | abstract: what `POST /executions` promises its clients | |
| `Gateway` | `create_execution`, `idempotency.py`, the executions table | main.py:40-160 |
| `GatewayProofs` | theorems about `Gateway` | |
| `DecisionLifecycle` | abstract: an execution is decided once, then stored | |
| `RulesEngine` | outcomes, labels and verdicts of rules | rules_engine.py |
| `Orchestrator` | `run_workflow`, the retry loop, the trace | orchestrator.py, mock_api.py:153-280 |
| `OrchestratorProofs` | theorems about `Orchestrator`: types, completeness, lifecycle | |
| `AuditLogProofs` | theorems about the log and the trace it stores | |
| `RuleValues` | `evaluate_rule` on concrete values | rules_engine.py:139-372 |
| `Backoff` | `compute_delay` | mock_api.py:122-146 |
| `ConcreteWorkflows` | `Orchestrator` with values and waiting times, refining it | orchestrator.py:149-169, 291-296, mock_api.py:200-280 |
| `ConcreteWorkflowsProofs` | the refinement, for any workflows | |
| `ShippedWorkflows` | the two YAML files, and what they say of decisions | workflows/*.yaml |
| `ShippedWorkflowsProofs` | the loan's decisions and both workflows' waiting, for any payloads | |
| `ConfigCache` | `load_workflow_config` and its cache in each worker | config_loader.py:33-63 |
| `ConfigCacheProofs` | theorems about `ConfigCache` | |
| `ServerPools` | threads and connections under all endpoints | main.py:52-206, db.py:207-222 |
| `ServerPoolsProofs` | theorems about `ServerPools` | |
| `MCGateway`, `MCOrchestrator`, `MCShippedWorkflows`, `MCConfigCache`, `MCServerPools` | instances for TLC | |

`Gateway` and `Orchestrator` meet in the steps between `run` and `commit`; `ConcreteWorkflows` extends
`Orchestrator`, `RuleValues` and `Backoff`. `ConfigCache` and `ServerPools` look at the same calls
from the side: what they load, and what they occupy.

Definitions named in comments as *faulty variants* stand before the definition they vary. They
are not part of any specification: each is the definition with a plausible bug in it, and
putting it in the definition's place must break the property `PROJECT.json` pairs it with.

### Gateway

`pc[c]` is the next step of call `c`; each step is one statement of the handler that touches
shared state, so that any other call may come between two of them:

    check -> lookup -> validate -> insert -> register -> run -> commit -> respond

| State | Code |
|---|---|
| `key` | the local `existing_execution_id` |
| `committed`, `open` | rows of `executions`, committed or visible to one transaction only |
| `mode` | `_redis` set or `None`, per worker, fixed by the constructor's ping (idempotency.py:44-55) |
| `redis`, `memory`, `stale` | the two stores; `stale` marks dictionary entries past `expires_at` that `check` has not yet deleted |
| `faults` | counts crashes, outages, expiries against the bounds |

A call makes at most one row with a fresh uuid, so the call itself serves as its execution id.
`Insert` raises at once on a committed duplicate, waits (`Held`) for an open one, and proceeds
if that one rolls back. On SQLite it waits for any writer and may give up (`InsertLocked`). A
failing `register` is outside the handler's `try`: the session is closed by `get_db` and rolls
back all the same. `CommitInDoubt` is a COMMIT that took effect while the client of the database
saw an error. A crash loses the worker's calls and dictionary, and the restarted worker pings
Redis again. The whole of `run_workflow` is one step `Run` here, because it touches nothing but
its own transaction; `Orchestrator` opens it up.

An expired Redis key is a key that is gone; an expired entry of the dictionary stays until it is
looked up. The TTL runs from `register`, and nothing relates it to the speed of calls, so either
may expire at any time, also during a call.

### Orchestrator

One execution, from the inserted row to its commit or roll-back. Workflows, their stages and
rules are constants; what the outside decides (which optional fields the payload has, how each
comparison comes out, whether each attempt fails, which mapped fields a response has, whether
something raises) is chosen freely. Data is abstracted to what control flow reads: a context is
the set of its paths, and a rule's evaluation is one of five outcomes (`RulesEngine!Outcomes`).

| State | Code |
|---|---|
| `row` | status, completion, trace and context as the session's flushes leave them |
| `log` | audit rows in order of `sequence_number` |
| `context`, `attr` | the dictionary, and the shallow copy `execution.context` refers to: the flush compares the two and writes only if they differ at the top level |
| `at`, `attempt`, `routing` | loop variables, `final_routing` |
| `stored` | what the caller's commit made durable |

Both loads of the workflow's YAML are in the model: the caller's first one precedes `Init`, the
second may fail because the cached entry was evicted and the file removed (`ConfigMissing`).

### RuleValues, Backoff, ConcreteWorkflows, ShippedWorkflows

`Orchestrator` lets every comparison come out in every way. `RuleValues!OutcomeOf` computes the
outcome as `evaluate_rule` does, in its order: resolve the field or the expression, look the
operator up, coerce a text if the threshold is a number, compare, and only then look at the
graduated threshold, with the value as it was before the coercion.

Numbers are what `json.loads` gives: fractions, which whole numbers of any size and floats both are,
positive and negative infinity, and NaN, which compares with nothing. Comparisons are exact, as
Python's are between whole numbers and floats. `float()` and arithmetic round (`Rounded`, a
parameter), and `Conversion` says which of three ways `float()` takes: a value; a TypeError or
ValueError, which `evaluate_rule` turns into an ERROR or ignores; an OverflowError for a whole number
beyond `MaxFloat`, which neither of its handlers names (rules_engine.py:290, 349) and which leaves
it like the ZeroDivisionError of a divisor 0. So `Outcomes` allows "raise" for every rule with an
expression and for every graduated one. All fifteen operators are there; what the three that look
inside texts, and the orders on texts and lists, say of two values is the parameter `TextTest`.

`ConcreteWorkflows` keeps every action of `Orchestrator` and adds two variables: `values`, what is
at each path of the payload and later of the context, and `waited`, the most milliseconds the
transaction has slept. An action here is one of `Orchestrator` with its free choice taken away:
`AcceptInput` and `RejectInput` by the schema, `EvaluateStage` by `OutcomeOf`, `CallAnswered` by the
answers the mock can give, `RetryCall` and `CallExhausted` by the retryable codes, the mock's only
error being a 500. `ImplementsOrchestrator` says that this is a refinement, which is what makes the
five outcomes of `RulesEngine` an abstraction and not an assumption.

`ShippedWorkflows` holds the YAML as data; the other workflows beside it, the payloads, and the
`Scores` the credit bureau may answer (whole numbers from 300 to 850, mock_api.py:294) are constants.
`LoanDecision` is the reference it is compared with: the descriptions of the rules in plain
arithmetic on the applicant's figures (`Reaches`, `Within`, `ShareWithin`), without stages,
severities, routes or failure policies. `LoanAsDescribed` compares the two wherever the sources agree on
the decision. They do not, or say nothing, about an applicant who passes the first stage and

* for whom the bureau never answers: docs/architecture.md:358 calls `on_failure: reject` a hard reject,
  the code ends in FAILED (orchestrator.py:326-332);
* whose payload has no `existing_debt`: the schema declares a default of 0 (loan_approval_v1.yaml:29),
  the code applies no defaults, and the rule's ERROR rejects;
* whose figures are beyond the floats: a rule raises, and the code ends in FAILED;
* whose debt is exactly 40% of the income: "below 40%" says the description, `lte 0.40` the rule
  (loan_approval_v1.yaml:94-97), and the code goes by the rule (`Disputed`).

For the first three (`~Assessed`) `UnassessedNotApproved` says what must be true all the same: such a
loan is neither approved nor left to a reviewer as one that was assessed.

### ConfigCache

| State | Code |
|---|---|
| `files` | the YAML files: a parsed config, a broken or a missing one, and the edit that made it so |
| `cache` | the `lru_cache` of each worker, least recently used first |
| `pc`, `held`, `loaded` | a load is a hit, or a miss, a read and a store; a call loads twice |
| `seen`, `used`, `since` | history: what the file was and which entries were used while a call ran, what files were since a worker started |

The function runs outside the cache's lock, so a miss, the read and the store are three steps, and
two calls can be between them at once. The store then keeps the entry that came first, while each
call goes on with what it has read itself: the first load of a call may be *newer* than its second.
`broken` stands for YAMLError and for a file that is not a mapping (`config.get` fails).

### ServerPools

The endpoints are plain functions, so FastAPI runs them in the threads of a limiter (40), and a call
takes one three times: for `get_db`, for the endpoint, and for validating the answer against the
`response_model`. The session takes a connection of the pool (5 + 10) at its first statement and
returns it at commit, roll-back or close; `get_db` closes it only when the answer is ready. `Run`
stands for everything from the INSERT to the commit, with the sleeps of the retries in it. After
the commit `db.refresh` takes a connection again (`want_refresh`). A pool that stays empty raises
after its timeout (`PoolTimeout`).

## Runs

| Run | Instance | Checks |
|---|---|---|
| `gateway_faults` | 3 calls (2 of one request), 2 workers, Redis; one crash, outage, expiry | types, one execution per request, answers agree, errors are true, keys name decisions, implements `RequestLedger`, every call ends |
| `gateway_sqlite` | 4 calls (3 of one request), 2 workers, dictionaries, one writer; one crash, expiry | answers agree, errors are true |
| `gateway_duplicate` | 3 calls, no faults | *violated*: duplicates are answered |
| `gateway_outage` | 3 calls, one outage | *violated*: Redis is not critical |
| `workflow_decides` | 4 workflows | decision replayable from the log, stages in order, retries accounted for, stored rows complete, trace supports status, implements `DecisionLifecycle`, ends |
| `context_stored` | the same | *violated*: the context is stored |
| `shipped_workflows` | both YAML files, and one workflow per operator | types, the loan is decided as described, an unassessed one is not approved, only figures beyond the floats raise, retries end before the busy timeout, implements `Orchestrator` |
| `rules_never_raise` | both YAML files | *violated*: `evaluate_rule` never raises |
| `clearance_reviewed` | both YAML files | *violated*: clearance 4 and 5 are reviewed |
| `config_cache` | 4 calls, 3 workflows, a cache of 2, one worker; one edit, one restart | the cache is well formed, failures are current, accepted workflows stay, a restart deploys |
| `hot_reload` | the same | *violated*: the next request uses the change |
| `server_pools` | 2 POSTs, a GET, a health check; 2 threads, 1 connection | both pools accounted for, one way only to be stuck, every call ends |

**Why these bounds are enough to be interesting.** Two calls of one request id on two workers are
the least that race; the third one is the retry after a failure or an expiry, and the call of the
other request shows that SQLite's lock, unlike a row lock, holds unrelated calls. One crash, one
outage and one expiry each may fall between any two steps; the theorems below show that, for
the safety properties, more of them change nothing. The workflows contain a call with three tries, two with two, one with none; all
three failure policies; mandatory, soft, forced and graduated rules, an unknown operator, a
division, an absent field; a stage of an unknown type; and no stage at all.

The payloads of `shipped_workflows` are on both sides of every bound of the schemas and every
threshold of the rules, incomes of half a unit less and more than 30000 among them, and the scores on
both sides of 580 and 650. Each figure may also be one more than `MaxFloat`, or infinite, or be
absent or NaN where the schema lets it. The floats of the run are coarse, whole numbers up to a million
and hundredths between them, so that rounding and overflow are as frequent as
they are rare in reality; the theorems leave them open. Beside the loan and the onboarding stand, for
each operator, a workflow with two graduated rules, one with a number and one with a text for its
threshold, and one for each arithmetic operator, over values of every kind, because the shipped
rules use few of them. The cache of two is full with two workflows, so
that the third evicts, and two calls for one of them race. Two threads and one connection are the
least with which a call can wait for each pool while another one moves; the four calls are one
more than gridlock takes. The real numbers are 64 entries, 40 threads and 15 connections; the
theorems hold for any.

`CHECK_DEADLOCK FALSE` is set throughout: the system stops when every call has ended and the
environment has used up its faults, or when the one execution is done.

**Fairness.** `Gateway`: weak fairness of each call's own steps, `Proceed(c)`, because the thread
that serves a call is scheduled. Errors (`Fail`, `CommitInDoubt`), crashes, and the arrival of
calls are never relied on. `InsertLocked` is included, as SQLite's busy timeout does fire if the
lock stays. `Orchestrator`: weak fairness of the function's steps without `RollBack`; every
attempt ends because the mock's latency and the delays are finite sleeps. `ServerPools`: weak
fairness of `GrantThread` and of each call's steps: threads and the event loop are scheduled, and a
wait for a connection ends in one or in the pool's timeout. No call is assumed to arrive, and no
waiting thread is assumed to win a connection against the others.

## What the runs found

1. **A duplicate gets a 500** (`gateway_duplicate`). The IntegrityError of `db.flush`
   (main.py:144) is not caught; docs/architecture.md:332-335 has the handler catch it and return
   the first call's result. The later retry, after the key was found, is answered properly.
2. **Redis is critical once it was up** (`gateway_outage`). Only the constructor falls back
   (idempotency.py:44-55); docs/architecture.md:640 promises a working fallback.
3. **Rules do raise** (`rules_never_raise`). `evaluate_rule` promises to return every exception as an
   ERROR (rules_engine.py:266-267), but the OverflowError of `float(10**400)` passes its handlers
   (rules_engine.py:241, 290; at the graduated threshold 341, 349), as does a zero divisor (244). A loan with
   such a `requested_amount` satisfies the schema; it ends in FAILED by the orchestrator's guard.
4. **Fetched values are not stored** (`context_stored`). The context is mutated in place and
   re-assigned as a shallow copy, which compares equal (orchestrator.py:556), so no UPDATE is
   written.
5. **The clearance rule is inverted** (`clearance_reviewed`). `gte 4` passes for levels 4 and 5, and
   a soft rule asks for a review when it fails: employees with levels 1 to 3 are reviewed
   (employee_onboarding_v1.yaml:73-79).
6. **No hot reload** (`hot_reload`). The cache is never cleared and no file is watched
   (config_loader.py:33); docs/architecture.md:420 promises the change for the next request.
   `FreshAfterRestart` shows that the restart it also names does deploy it.

Noticed while modelling, with no run of their own: `forced_reviews` lists rules that passed
(orchestrator.py:387-392, schemas.py:130-131); a mandatory rule that ends in ERROR rejects, but
`mandatory_failures` counts FAIL only, so the summary names no rule, although `rule_trace` lists the ERROR
(orchestrator.py:372-378, 410-413, 419-446); the default of `existing_debt` is never applied
(loan_approval_v1.yaml:29); a debt of exactly 40% passes a rule described as "below 40%"
(loan_approval_v1.yaml:94-97); `on_fail_route` without `on_fail_threshold` has no effect, so a flagged
background check is REJECTED (employee_onboarding_v1.yaml:71); a worker in which 40 threads wait
for connections and 15 connections for threads serves nobody, `/health` included, until the
pool's timeout of 30 seconds, and the calls whose `db.refresh` times out then are told of an error
although they are committed (main.py:153); the longest sleep of a transaction is 4275 ms for the
onboarding and 1650 ms for the loan, within the 5 seconds of SQLite's busy timeout, but two
transactions in a row are not; RETRYING is entered and left without a
STATUS_TRANSITION row (orchestrator.py:543, 548; docs/architecture.md:135), and the transitions
PENDING to FAILED and RETRYING to FAILED or MANUAL_REVIEW, which the code makes, are not among
those db.py:50-57 lists; a call exhausted under `on_failure: reject` ends in FAILED, not in
REJECTED (orchestrator.py:332, docs/architecture.md:358: "hard reject the execution"); the path of a
missing configuration stores no trace (orchestrator.py:475, 487-492); the retries of a call that ends in a foreign exception are
not logged; a mandatory rule with a forcing action is listed in both `mandatory_failures` and
`forced_reviews`; jitter exceeds `max_delay_ms` (mock_api.py:139-144); the raise marked
unreachable is reached with `max_attempts: 0` (mock_api.py:225); no IDEMPOTENCY_HIT row is ever
written.

## What is proved

`GatewayProofs` holds, for every number of calls, requests, workers and faults, under
`ConstantsAssumption` only:

* `TypeCorrect`, `DecidedOnce`, `AnswersConsistent`, `ErrorsHonest`: the safety invariants of
  `gateway_faults`;
* `GatewayImplementsLedger`: the refinement of `RequestLedger`;
* `KeyTracksDecision`: the key of a decided request names its decision, as long as Redis is
  configured and has neither failed nor lost a key (`Undisturbed`).

None of these invariants is inductive. `AnswersAgree`, for instance, needs to know that a second
row of a request cannot become committed, hence that none can even be open, hence which calls
have an open row; and that a replayed key belongs to the caller's request, hence that every key
in every store does. `Inv` says these things: a row is open exactly while its call is between
INSERT and COMMIT (`OpenRows`), a committed row's call is past its commit (`CommittedRows`), rows
open or committed never share a request id (`ExclusiveRows`), keys are for executions of their
request (`KeysOfRequest`), what was replayed is committed (`KeysRead`), and a conflict is with a
committed row (`ConflictsReal`). One lemma per part shows that every step keeps it
(`TypeStep`, `RowsStep`, `ExclusiveStep`, `KeysStep`, `OutcomesStep`), by cases on the actions.
`ExclusiveStep` is where the UNIQUE constraint and its lock come in, `RowsStep` where every path
out of the handler must close its transaction.

For the refinement, `ExclusiveRows` makes the CHOOSE in `Decided` irrelevant (`DecidedRow`);
`Commit` and `CommitInDoubt` are `Decide` (`CommitDecides`), ending in a 200 or 201 is `Answer`
(`AnswerTells`), everything else stutters (`LedgerStutters`). For the key, `KeyInv` adds that a
call between `register` and `commit` owns the key of its request: nobody can overwrite it,
because nobody else gets past the INSERT while the row is open, or after it is committed. That the
past was undisturbed too follows from the counters never decreasing (`UndisturbedBefore`).

`OrchestratorProofs` and `AuditLogProofs` hold for every set of workflows that satisfies two assumptions.
`WorkflowsAssumption`: stages and rules have the fields the code reads, `max_attempts` is a natural
number, payload paths begin with `input`, and `None` is none of the strings the code compares with.
`IdsAssumption`: ids are distinct among the stages of a workflow and among the rules of a stage, no
stage is called `__input_validation__`, and a severity is `mandatory` or `soft`. The loader checks
none of this; but the log and the trace know stages and rules by their ids only, so two stages of
one id could not be told apart in them. `OrchestratorProofs`:

* `TypeCorrect`: the types, and that the loop never leaves the stages of the workflow;
* `StoredIsComplete`: what is stored is terminal and has its completion time, and every path that has a
  workflow to run (the invalid input, the end of the loop, the exception guard) also leaves its trace
  and its final audit row. The exit for a missing configuration (orchestrator.py:487-492) leaves
  neither, and the theorem claims neither for it;
* `OrchestratorImplementsLifecycle`: the refinement of `DecisionLifecycle`.

The properties speak of `stored`; what makes them true happens earlier, so `Inv` adds what the
steps hand on: until the last transition no status is terminal (`Progress`, which is where a
second decision is excluded), at the commit the row and log are `Complete`, and `stored` is empty
as long as the function runs. `StageEnds` is shared by all steps that end a stage with a route,
`UnexpectedKeeps` by all that end it with an exception, `ConcludeCompletes` by the three places
that call `_finalise`.

`AuditLogProofs` proves the four properties of the stored log that `workflow_decides` checks:

* `DecisionsReplay`: the stored status is the one the logged evaluations and calls ask for, by
  `Replay`'s few lines, which know no routes;
* `StagesStartInOrder`: stages start one by one in YAML order, all of them before an approval, none
  after what decided otherwise;
* `RetriesAreAccounted`: the row that ends a call stands right behind those of its retries, numbered
  from 1, and their number fits `max_attempts`;
* `TracesSupportStatus`: the trace, computed from the log by filters of its own, agrees with the status.

They speak of a log that is finished; the steps write it row by row, and the audit rows of an attempt
are written only when the call has ended. `LogInv` therefore says what a log is in the middle of a
run. As long as stages are executed, `Approving` holds: exactly the stages before `at` have started
and ended, each once and in order (`Once`), the tries of their calls are accounted for (`Accounted`),
and every row is one that does not stand against an approval (`CleanRow`): this is where the engine's
precedence of verdicts enters. A step that leaves the loop has to establish `Outcome`: the status is
the one a replay of the log finds, and no stage started behind a row that stands against an approval.
From there to the commit only rows are added that no reader of the log looks at, and the trace is that
of the whole log (`Settled`). Each kind of
new row has a lemma on what it leaves alone (`OnceKept`, `OnceMore` and the like), and four lemmas
(`SettledReplays`, `SettledInOrder`, `SettledAccounts`, `SettledSupports`) read the properties off `Settled`.

`ConcreteWorkflowsProofs` holds under `ConfigsAssumption`, which says that `Workflows` is the abstraction
of `Configs` that the run uses too, that mock answers have mapped fields only, and that the numbers of
payloads are `NumbersOfJSON`. `FloatsAssumption` (whole numbers up to 1000 are floats) and
`RoundingAssumption` (a payload's number of 1 or more is not rounded below 1) are all that is assumed of
`MaxFloat` and `Rounded`, and nothing is of `TextTest`:

* `ConcreteImplementsOrchestrator`: every step of `ConcreteWorkflows` is one of `Orchestrator`. The one
  step with content is `EvaluateStage`: `OutcomeOf` yields, for each rule, a member of the `Outcomes`
  of its abstraction, for all operators and kinds of values. A rule raises only if it computes and one
  of its operands is there, or if it is graduated; it is an error or raises if a path is absent, an error
  if the operator is unknown; and it fails above a threshold only if it has one;
* `ConcreteStoresComplete`, `ConcreteLogsHold`: what is proved of `Orchestrator`'s stored rows and logs,
  carried over.

`ShippedWorkflowsProofs` holds beside any other workflows, for any payloads, and for any scores within
`ShippedAssumption`:

* `LoanDecidedAsDescribed`: the loan's decision is `LoanDecision`, wherever the sources agree on it;
* `UnassessedLoansEndBadly`: an eligible loan that could not be assessed is rejected or fails;
* `OnlyOverflowsRaise`: only a figure beyond the floats makes a rule of the loan raise;
* `TransactionsAreShort`: in both workflows a transaction sleeps less than the busy timeout;
* `ShippedTypeCorrect`: `ConcreteTypeOK`, in both workflows.

The first three need one invariant. `LoanInv` says what is known of the values when a stage is reached:
the payload satisfies the schema, the applicant is `Eligible` after the first stage, and the score is
there exactly in the third. `AtLeastOutcome`, `AtMostOutcome` and `ShareOutcome` compute what
`evaluate_rule` makes of a rule on a figure or on a quotient of two, `EligibilityVerdict` and
`RiskVerdict` what the rules of a stage add up to. `ShareOutcome` needs a positive divisor in order
not to raise: the income is at least 30000, and rounding keeps it at 1 or more. A stage broken by an
exception always ends in FAILED (`OnlyFailedBroken`), so a loan decided otherwise had none, and the
one route of the loan to FAILED, a bureau that does not answer, is a call that ended properly. `WaitInv` counts the waiting: 550 ms and
1350 ms before the loan's second and third try and 1650 ms at most after them, 1425, 3475 and 4275 ms
for the onboarding; a call is made in the second stage only.

`ConfigCacheProofs` holds for any calls, workflows, workers, edits, restarts and any `maxsize`:
`CacheWellFormed`, `FailuresNeverStale`, `RestartDeploys` and `AcceptedStays`. The last needs an
invariant about the order of the cache (`EntryKept`): behind the entry of a call that is under way stand
only entries used since it began, and if the entry is gone, `maxsize` others have been used. A hit
moves an entry to the end, which is a use; a store evicts the head, and if that is the call's entry,
all others are behind it and the cache is full. `MostRecentKeeps` and `InsertKeeps` say what the two
operations on the sequence do to the order of any two entries.

`ServerPoolsProofs` holds for any finite set of calls and any sizes of the pools: `PoolsAccounted`
(threads and connections belong to exactly the calls whose step needs them, and a waiting call
is in the queue once) and `GridlockNeedsBothPools`. For the latter, if nothing but a timeout can happen,
nobody is in a thread except to wait for a connection, so all connections are taken, hence by calls
outside the threads, which wait in the queue, so all threads are taken, too; counting both sets
gives the number of calls.

Only model-checked: `ConcreteTypeOK` for workflows other than the shipped ones, because a delay is
`base * 2^n` and the provers know no powers of 2 beyond literals; and the liveness properties
`EveryCallEnds` (of both modules) and `EventuallyEnds`, since liveness under fairness is out of the
prover's reach.

## Not modelled, and the plan

Not planned: what the read-only endpoints return, API schemas, settings, logging, `clear` (tests
only), the probabilities of the mock's answers (any answer is allowed instead), wording of messages,
time stamps, path checks of the loader, `list_available_workflows`; of the decision trace, `rule_trace`
and the summary, which repeat the rows and the lists that are modelled (orchestrator.py:402-446).
What `contains`, `startswith`, `regex` and the order of texts find in their operands is any function
of the two (`TextTest`); lists are equal if their elements are and have the same
kinds, and objects as values of a
payload's field are left out.

Planned, in this order:

1. A described decision for the onboarding, like the loan's, with its proof.
2. That `Run` of `Gateway` is implemented by `Orchestrator`, and the calls of `Gateway` by those of
   `ServerPools`.
3. The abstract specifications by themselves: what `RequestLedger` and `DecisionLifecycle` imply.
