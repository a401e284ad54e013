---------------------------- MODULE Orchestrator ----------------------------
(***************************************************************************)
(* run_workflow (app/core/orchestrator.py) driving one execution from      *)
(* PENDING to a decision, with the retry loop of the external dependency   *)
(* layer (app/dependencies/mock_api.py) and the commit or roll-back of its *)
(* caller (app/main.py:150-157).                                           *)
(*                                                                         *)
(* Workflows maps each workflow_id to its stages; a stage is a record      *)
(*   [id, type, rules, on_failure, max_attempts, maps]                     *)
(* where maps is the set of context paths of its result_mapping.  A path   *)
(* is a pair <<top, leaf>>: its first segment and the rest.                *)
(***************************************************************************)
EXTENDS RulesEngine, Integers, FiniteSets

CONSTANTS Workflows,    \* the stages of each workflow_id
          InputPaths,   \* the paths of the client's payload, <<"input", _>>
          None          \* no value

Paths == STRING \X STRING
RuleConfigs ==
  [id : STRING, severity : STRING, action : STRING \cup {None}, reads : SUBSET Paths,
   computes : BOOLEAN, operator : {"known", "unknown"}, graduated : BOOLEAN, route : STRING]
StageConfigs ==
  [id : STRING, type : STRING, rules : Seq(RuleConfigs), on_failure : STRING,
   max_attempts : Nat, maps : SUBSET Paths]
Terminal == {"APPROVED", "REJECTED", "MANUAL_REVIEW", "FAILED"}

\* decision_trace: the fields decisions are explained with.
Traces ==
  [final_status : Terminal, stages_passed : Nat, stages_failed : Nat,
   mandatory_failures : SUBSET (STRING \cup {None}),
   soft_failures : SUBSET (STRING \cup {None}), forced_reviews : SUBSET (STRING \cup {None})]

ASSUME WorkflowsAssumption ==
  /\ \A w \in DOMAIN Workflows : Workflows[w] \in Seq(StageConfigs)
  /\ InputPaths \subseteq Paths /\ \A p \in InputPaths : p[1] = "input"
  /\ None \notin Traces \cup {"PASS", "FAIL", "ERROR", "SOFT_FAIL", "force_manual_review"}

\* What the loader takes on trust: in the log a stage, or a rule of a stage, is
\* known by its id, and a severity is one of two (rules_engine.py:48).
ASSUME IdsAssumption ==
  \A w \in DOMAIN Workflows :
    LET stages == Workflows[w]
    IN  /\ \A i, j \in DOMAIN stages : stages[i].id = stages[j].id => i = j
        /\ \A k \in DOMAIN stages :
             LET rules == stages[k].rules
             IN  /\ stages[k].id # "__input_validation__"
                 /\ \A i \in DOMAIN rules : rules[i].severity \in {"mandatory", "soft"}
                 /\ \A i, j \in DOMAIN rules : rules[i].id = rules[j].id => i = j

VARIABLES pc,        \* the next step of run_workflow or of its caller
          workflow,  \* workflow_id
          row,       \* the columns of the execution, as the session has them
          log,       \* its audit rows, in the order of sequence_number
          context,   \* paths present in the dictionary `context`
          attr,      \* top-level keys of the copy execution.context refers to,
                     \* None while it refers to `context` itself
          at,        \* index of the current stage
          attempt,   \* with_retry's loop variable, from 0
          routing,   \* final_routing
          stored     \* row and log once the caller has committed

vars == <<pc, workflow, row, log, context, attr, at, attempt, routing, stored>>

-----------------------------------------------------------------------------
Status == Terminal \cup {"PENDING", "RUNNING", "RETRYING"}
Routes == {"continue", "reject", "manual_review", "failed"}

Active == {"load", "validate", "stage", "calling", "final", "commit"}

Stages == Workflows[workflow]
Stage == Stages[at]

\* An audit row: [event, stage, rule, result, severity, action, n], with the
\* severity and action of extra_metadata, and its attempt count n.
Row(event, stage, result) ==
  [event |-> event, stage |-> stage, rule |-> None, result |-> result,
   severity |-> None, action |-> None, n |-> 0]

RuleRow(stage, rr) ==
  [Row("RULE_EVALUATED", stage, ResultLabel(rr)) EXCEPT
     !.rule = rr.rule, !.severity = rr.severity, !.action = rr.action]

RuleRows(stage, results) == [i \in DOMAIN results |-> RuleRow(stage, results[i])]

AttemptRow(event, stage, result, n) == [Row(event, stage, result) EXCEPT !.n = n]

\* attempt_log: the callback runs before each retry, for the failure before it.
AttemptRows(stage, retries) ==
  [i \in 1 .. retries |-> AttemptRow("EXT_DEP_ATTEMPT", stage, "FAIL", i)]

Transition(status) == Row("STATUS_TRANSITION", None, status)

-----------------------------------------------------------------------------
\* _build_decision_trace reads the rows written so far.
RulesOf(rows, Test(_)) == {rows[i].rule : i \in {j \in DOMAIN rows :
                             rows[j].event = "RULE_EVALUATED" /\ Test(rows[j])}}

MandatoryFailures(rows) ==
  LET Test(x) == x.result = "FAIL" /\ x.severity = "mandatory"
  IN  RulesOf(rows, Test)

\* Faulty variant: the severity is not looked at.
AnyFailures(rows) ==
  LET Test(x) == x.result = "FAIL" /\ x.action # "force_manual_review"
  IN  RulesOf(rows, Test)

SoftFailures(rows) ==
  LET Test(x) == x.result = "FAIL" /\ x.severity = "soft" /\ x.action # "force_manual_review"
  IN  RulesOf(rows, Test)

ForcedReviews(rows) ==
  LET Test(x) == x.action = "force_manual_review"
  IN  RulesOf(rows, Test)

CountOf(rows, event, results) ==
  Cardinality({i \in DOMAIN rows : rows[i].event = event /\ rows[i].result \in results})

\* Left out: rule_trace, which repeats the rows of the rules, those with an ERROR
\* too, and the summary, which puts the same lists into words.
Trace(rows, status) ==
  [final_status       |-> status,
   stages_passed      |-> CountOf(rows, "STAGE_COMPLETED", {"PASS"}),
   stages_failed      |-> CountOf(rows, "STAGE_FAILED", {"FAIL", "ERROR"}),
   mandatory_failures |-> MandatoryFailures(rows),
   soft_failures      |-> SoftFailures(rows),
   forced_reviews     |-> ForcedReviews(rows)]

\* _transition to a terminal status followed by _finalise, in a session whose
\* log is `rows` when they start.
Conclude(rows, status) ==
  LET told == Append(rows, Transition(status))
  IN  /\ row' = [row EXCEPT !.status = status, !.completed = TRUE,
                            !.trace = Trace(told, status)]
      /\ log' = Append(told, Row("EXECUTION_FINAL", None, status))

-----------------------------------------------------------------------------
\* The caller has inserted the row and loaded the YAML once (main.py:126-144).
Init ==
  /\ pc = "load"
  /\ workflow \in DOMAIN Workflows
  /\ row = [status |-> "PENDING", completed |-> FALSE, trace |-> None, context |-> {}]
  /\ log = <<>>
  /\ context = {}
  /\ attr = None
  /\ at = 1 /\ attempt = 0
  /\ routing = "continue"
  /\ stored = None

\* load_workflow_config succeeds, and the execution starts RUNNING.
Start ==
  /\ pc = "load"
  /\ row' = [row EXCEPT !.status = "RUNNING"]
  /\ log' = <<Transition("RUNNING"), Row("EXECUTION_CREATED", None, None)>>
  /\ pc' = "validate"
  /\ UNCHANGED <<workflow, context, attr, at, attempt, routing, stored>>

\* The cached entry was evicted and the file is gone: FAILED, no trace.
ConfigMissing ==
  /\ pc = "load"
  /\ row' = [row EXCEPT !.status = "FAILED", !.completed = TRUE]
  /\ log' = <<Transition("FAILED")>>
  /\ pc' = "commit"
  /\ UNCHANGED <<workflow, context, attr, at, attempt, routing, stored>>

\* Faulty variant: the early return leaves _finalise out.
InputInvalidBare ==
  /\ pc = "validate"
  /\ row' = [row EXCEPT !.status = "REJECTED", !.completed = TRUE]
  /\ log' = Append(log, Transition("REJECTED"))
  /\ pc' = "commit"
  /\ UNCHANGED <<workflow, context, attr, at, attempt, routing, stored>>

\* Faulty variant: the early return is missing.
InputInvalidGoesOn ==
  /\ pc = "validate"
  /\ Conclude(Append(log, Row("STAGE_FAILED", "__input_validation__", "FAIL")), "REJECTED")
  /\ pc' = "final"
  /\ UNCHANGED <<workflow, context, attr, at, attempt, routing, stored>>

InputInvalid ==
  /\ pc = "validate"
  /\ Conclude(Append(log, Row("STAGE_FAILED", "__input_validation__", "FAIL")), "REJECTED")
  /\ pc' = "commit"
  /\ UNCHANGED <<workflow, context, attr, at, attempt, routing, stored>>

\* execution.context becomes the dictionary itself, saved by the next flush;
\* optional fields of the payload may be absent.
InputValid ==
  /\ pc = "validate"
  /\ \E given \in SUBSET InputPaths :
       /\ context' = given
       /\ row' = [row EXCEPT !.context = given]
  /\ attr' = None
  /\ pc' = IF Stages = <<>> THEN "final" ELSE "stage"
  /\ UNCHANGED <<workflow, log, at, attempt, routing, stored>>

-----------------------------------------------------------------------------
Tops(paths) == {p[1] : p \in paths} \cup {"input", "context"}

\* `execution.context = dict(context)` and the flush after it.  The copy is
\* shallow: the dictionary the attribute referred to sees every value written
\* below a key it has, so the flush finds a change, and writes the column,
\* only if a key at the top was added since that dictionary was copied.
SaveContext(paths, status) ==
  /\ attr' = Tops(paths)
  /\ row' = [row EXCEPT !.status = status,
                        !.context = IF attr \in {None, Tops(paths)}
                                    THEN @ ELSE paths]

\* Faulty variant: a rejection does not end the loop.
RejectGoesOn(route) ==
  IF route \in {"continue", "reject"} /\ at < Len(Stages)
  THEN at' = at + 1 /\ pc' = "stage" /\ UNCHANGED routing
  ELSE routing' = route /\ pc' = "final" /\ UNCHANGED at

\* Faulty variant: one stage too many.
RoutePastEnd(route) ==
  IF route = "continue" /\ at <= Len(Stages)
  THEN at' = at + 1 /\ pc' = "stage" /\ UNCHANGED routing
  ELSE routing' = route /\ pc' = "final" /\ UNCHANGED at

\* Faulty variant: no break after a stage that asks for a manual review.
RouteGoesOn(route) ==
  IF route \in {"continue", "manual_review"} /\ at < Len(Stages)
  THEN at' = at + 1 /\ pc' = "stage" /\ UNCHANGED routing
  ELSE routing' = route /\ pc' = "final" /\ UNCHANGED at

\* The routing decision at the end of the loop body.
Route(route) ==
  IF route = "continue" /\ at < Len(Stages)
  THEN at' = at + 1 /\ pc' = "stage" /\ UNCHANGED routing
  ELSE routing' = route /\ pc' = "final" /\ UNCHANGED at

\* The except branch around the loop: the row keeps its status for now.
Unexpected(rows) ==
  /\ log' = Append(rows, Row("STAGE_FAILED", Stage.id, "ERROR"))
  /\ routing' = "failed" /\ pc' = "final"
  /\ UNCHANGED <<row, context, attr, at>>

\* Faulty variant: the soft failures are looked at first.
SoftVerdictFirst(results) ==
  IF HasSoftFailure(results) THEN "manual_review"
  ELSE IF HasHardFailure(results) THEN "reject"
  ELSE "continue"

StageVerdict(results) ==
  IF HasHardFailure(results) THEN "reject"
  ELSE IF HasSoftFailure(results) THEN "manual_review"
  ELSE "continue"

VerdictRow(stage, verdict) ==
  CASE verdict = "reject"        -> Row("STAGE_FAILED", stage, "FAIL")
    [] verdict = "manual_review" -> Row("STAGE_COMPLETED", stage, "SOFT_FAIL")
    [] verdict = "continue"      -> Row("STAGE_COMPLETED", stage, "PASS")

Started == Append(log, Row("STAGE_STARTED", Stage.id, None))

\* _execute_rule_stage, for one outcome of each rule.
RuleStageWith(e) ==
  /\ pc = "stage" /\ Stage.type = "rule_evaluation"
  /\ IF \E i \in DOMAIN e : e[i] = "raise"
     THEN Unexpected(Started)
     ELSE LET results == EvaluateStageRules(Stage.rules, e)
              verdict == StageVerdict(results)
          IN  /\ log' = Append(Started \o RuleRows(Stage.id, results),
                               VerdictRow(Stage.id, verdict))
              /\ SaveContext(context, row.status)
              /\ Route(verdict)
              /\ UNCHANGED context
  /\ UNCHANGED <<workflow, attempt, stored>>

RuleStage == pc = "stage" /\ \E e \in Evaluations(Stage.rules, context) : RuleStageWith(e)

\* Faulty variant: the loop is continued without the next stage.
SkipStageStuck ==
  /\ pc = "stage" /\ Stage.type \notin {"rule_evaluation", "external_dependency"}
  /\ UNCHANGED vars

\* A stage of an unknown type is skipped.
SkipStage ==
  /\ pc = "stage" /\ Stage.type \notin {"rule_evaluation", "external_dependency"}
  /\ SaveContext(context, row.status)
  /\ Route("continue")
  /\ UNCHANGED <<workflow, log, context, attempt, stored>>

-----------------------------------------------------------------------------
\* RETRYING is assigned directly; then the retry loop is entered.
BeginCall ==
  /\ pc = "stage" /\ Stage.type = "external_dependency"
  /\ row' = [row EXCEPT !.status = "RETRYING"]
  /\ log' = Started
  /\ attempt' = 0
  /\ pc' = "calling"
  /\ UNCHANGED <<workflow, context, attr, at, routing, stored>>

InLoop == attempt < Stage.max_attempts
\* Faulty variant: the loop variable starts from 0.
IsLastFromOne == attempt = Stage.max_attempts

IsLast == attempt = Stage.max_attempts - 1

\* A TransientAPIError with a retryable code, with attempts left: after the
\* delay the next attempt is made.
Retry ==
  /\ pc = "calling" /\ InLoop /\ ~IsLast
  /\ attempt' = attempt + 1
  /\ UNCHANGED <<pc, workflow, row, log, context, attr, at, routing, stored>>

\* The fields of result_mapping the response has are written to the context.
CallSucceeds ==
  /\ pc = "calling" /\ InLoop
  /\ \E present \in SUBSET Stage.maps :
       /\ context' = context \cup present
       /\ SaveContext(context \cup present, "RUNNING")
  /\ log' = log \o AttemptRows(Stage.id, attempt)
                \o <<AttemptRow("EXT_DEP_SUCCESS", Stage.id, "PASS", attempt + 1),
                     Row("STAGE_COMPLETED", Stage.id, "PASS")>>
  /\ Route("continue")
  /\ UNCHANGED <<workflow, attempt, stored>>

FailureRoute ==
  IF Stage.on_failure \in {"manual_review", "continue"} THEN Stage.on_failure ELSE "failed"

\* ExternalAPIError after `tries` attempts, caught by the stage.
Exhausted(tries) ==
  /\ log' = log \o AttemptRows(Stage.id, attempt)
                \o <<AttemptRow("EXT_DEP_FAILURE", Stage.id, "FAIL", tries),
                     Row("STAGE_FAILED", Stage.id, "FAIL")>>
  /\ SaveContext(context, IF FailureRoute = "continue" THEN "RUNNING" ELSE row.status)
  /\ Route(FailureRoute)
  /\ UNCHANGED <<workflow, context, attempt, stored>>

\* The last attempt failed, or one failed with a code that is not retried.
CallFails == pc = "calling" /\ InLoop /\ Exhausted(attempt + 1)

\* The loop body never ran: max_attempts is 0, and the raise after it is hit.
NoAttempts == pc = "calling" /\ ~InLoop /\ Exhausted(Stage.max_attempts)

\* Anything but a TransientAPIError goes through with_retry and the stage.
CallRaises ==
  /\ pc = "calling" /\ InLoop
  /\ Unexpected(log)
  /\ UNCHANGED <<workflow, attempt, stored>>

-----------------------------------------------------------------------------
FinalStatus(route) ==
  CASE route = "continue"      -> "APPROVED"
    [] route = "reject"        -> "REJECTED"
    [] route = "manual_review" -> "MANUAL_REVIEW"
    [] route = "failed"        -> "FAILED"

Finish ==
  /\ pc = "final"
  /\ Conclude(log, FinalStatus(routing))
  /\ pc' = "commit"
  /\ UNCHANGED <<workflow, context, attr, at, attempt, routing, stored>>

\* The caller's db.commit.
Commit ==
  /\ pc = "commit"
  /\ stored' = [row |-> row, log |-> log]
  /\ pc' = "done"
  /\ UNCHANGED <<workflow, row, log, context, attr, at, attempt, routing>>

\* A statement fails, or something outside the try of the stages raises: the
\* caller rolls back and nothing of the execution remains.
RollBack ==
  /\ pc \in Active
  /\ pc' = "rolled_back"
  /\ UNCHANGED <<workflow, row, log, context, attr, at, attempt, routing, stored>>

Proceed ==
  \/ Start \/ ConfigMissing \/ InputInvalid \/ InputValid
  \/ RuleStage \/ SkipStage
  \/ BeginCall \/ Retry \/ CallSucceeds \/ CallFails \/ NoAttempts \/ CallRaises
  \/ Finish \/ Commit

Next == Proceed \/ RollBack

\* One thread runs the function to its end, and every wait in it is bounded;
\* that it ends must not depend on an error.
Spec == Init /\ [][Next]_vars /\ WF_vars(Proceed)

-----------------------------------------------------------------------------
Events == {"EXECUTION_CREATED", "STAGE_STARTED", "STAGE_COMPLETED", "STAGE_FAILED",
           "RULE_EVALUATED", "EXT_DEP_ATTEMPT", "EXT_DEP_SUCCESS", "EXT_DEP_FAILURE",
           "STATUS_TRANSITION", "EXECUTION_FINAL"}

\* The row holds a status and no more of the context than there is, the log
\* holds known events, and the current stage is one of the workflow's.
TypeOK ==
  /\ pc \in Active \cup {"done", "rolled_back"}
  /\ workflow \in DOMAIN Workflows
  /\ row.status \in Status /\ row.completed \in BOOLEAN /\ row.context \subseteq context
  /\ \A i \in DOMAIN log : log[i].event \in Events
  /\ at \in DOMAIN Stages \cup {1}
  /\ attempt \in Nat
  /\ routing \in Routes

-----------------------------------------------------------------------------
IsStored == stored # None
Kept == stored.row
KeptLog == stored.log

Rows(event) == {i \in DOMAIN KeptLog : KeptLog[i].event = event}

StageWith(id) == CHOOSE i \in DOMAIN Stages : Stages[i].id = id
StageOf(i) == StageWith(KeptLog[i].stage)

\* The decision that the evaluations and calls in the audit log call for,
\* without looking at the verdicts and transitions the engine wrote.
HardRule(x) == x.result # "PASS" /\ x.severity = "mandatory" /\ x.action # "force_manual_review"
Failures(policy) == {i \in Rows("EXT_DEP_FAILURE") : Stages[StageOf(i)].on_failure \in policy}
Broken == {i \in Rows("STAGE_FAILED") : KeptLog[i].result = "ERROR"}
Invalid == {i \in Rows("STAGE_FAILED") : KeptLog[i].stage = "__input_validation__"}

Replay ==
  IF Rows("EXECUTION_CREATED") = {} \/ Broken # {} THEN "FAILED"
  ELSE IF Invalid # {} \/ \E i \in Rows("RULE_EVALUATED") : HardRule(KeptLog[i]) THEN "REJECTED"
  ELSE IF \/ \E i \in Rows("RULE_EVALUATED") : KeptLog[i].result # "PASS"
          \/ Failures({"manual_review"}) # {}
       THEN "MANUAL_REVIEW"
  ELSE IF Failures({"manual_review", "continue"}) # Rows("EXT_DEP_FAILURE") THEN "FAILED"
  ELSE "APPROVED"

\* A stored decision can be recomputed from the audit log and the workflow
\* alone: nothing else decides, no failed rule or call is forgotten, and none
\* that passed is held against it (orchestrator.py:176-332, 528-584).
DecisionReplayable == IsStored => Kept.status = Replay

\* The stages of a type the engine knows; the others are skipped unheard.
Known == {k \in DOMAIN Stages : Stages[k].type \in {"rule_evaluation", "external_dependency"}}

\* Stages start one by one in the order of the YAML; all of them ran if the
\* execution is approved, and none started after a stage that decided it
\* otherwise (the break statements of orchestrator.py:560-568).
StagesInOrder ==
  IsStored =>
    LET starts == Rows("STAGE_STARTED")
        started == {StageOf(i) : i \in starts}
    IN  /\ \A i \in starts : StageOf(i) \in Known /\ KeptLog[i].stage = Stages[StageOf(i)].id
        /\ \A i, j \in starts : i < j => StageOf(i) < StageOf(j)
        /\ \A k \in Known, m \in started : k < m => k \in started
        /\ Kept.status = "APPROVED" => started = Known
        /\ \A i \in starts, j \in DOMAIN KeptLog :
             j < i => \/ KeptLog[j].result \notin {"FAIL", "ERROR", "SOFT_FAIL"}
                      \/ KeptLog[j].event = "EXT_DEP_ATTEMPT"
                      \/ /\ KeptLog[j].event \in {"EXT_DEP_FAILURE", "STAGE_FAILED"}
                         /\ Stages[StageOf(j)].on_failure = "continue"

\* The audit log accounts for every try of a call that ended: one row for
\* each retry, numbered from 1 and before the row that ends the call, never
\* more tries than max_attempts (mock_api.py:183-231, orchestrator.py:272-321).
RetriesOf(id) == {i \in Rows("EXT_DEP_ATTEMPT") : KeptLog[i].stage = id}

RetryAccounting ==
  IsStored =>
    \A i \in Rows("EXT_DEP_SUCCESS") \cup Rows("EXT_DEP_FAILURE") :
      LET id == KeptLog[i].stage
          tries == KeptLog[i].n
      IN  /\ tries <= Stages[StageWith(id)].max_attempts
          /\ tries = 0 \/ Cardinality(RetriesOf(id)) = tries - 1
          /\ \A j \in RetriesOf(id) :
               j < i /\ KeptLog[j].n = Cardinality({k \in RetriesOf(id) : k <= j})

\* Whatever is stored is terminal and complete: a completion time, and, unless
\* there was no workflow to run, a trace of the very status stored and a last
\* audit row that repeats it (orchestrator.py:471-475, 583-584, 623-638).
StoredComplete ==
  IsStored =>
    /\ Kept.status \in Terminal /\ Kept.completed
    /\ Rows("EXECUTION_CREATED") # {} =>
         /\ Kept.trace # None /\ Kept.trace.final_status = Kept.status
         /\ KeptLog[Len(KeptLog)] = Row("EXECUTION_FINAL", None, Kept.status)

\* The stored trace supports the stored status: an approval lists no failure
\* and counts only calls that may fail, a review lists as mandatory at most
\* rules whose action forces a review, and a rule is never listed both as
\* mandatory and as soft (orchestrator.py:355-446).
TraceSupportsStatus ==
  IsStored /\ Kept.trace # None =>
    LET t == Kept.trace
    IN  /\ t.mandatory_failures \cap t.soft_failures = {}
        /\ Kept.status = "MANUAL_REVIEW" => t.mandatory_failures \subseteq t.forced_reviews
        /\ Kept.status = "APPROVED" =>
             /\ t.mandatory_failures \cup t.soft_failures = {}
             /\ t.stages_failed = Cardinality(Failures({"continue"}))
             /\ t.stages_passed + t.stages_failed = Cardinality(Known)

\* The lifecycle, read off the session's row and the stored one.
Undecided == "undecided"
Decision == IF row.status \in Terminal THEN row.status ELSE Undecided
StoredDecision == IF IsStored THEN Kept.status ELSE Undecided
Lifecycle == INSTANCE DecisionLifecycle
               WITH Decisions <- Terminal, decision <- Decision, stored <- StoredDecision
\* The execution is decided once, its decision is never revised, and only that
\* decision is stored (orchestrator.py:503-513, 583-584, main.py:151-155).
ImplementsLifecycle == Lifecycle!Spec

\* run_workflow returns and its caller commits or rolls back, whatever the
\* calls do: the retry loop is bounded (orchestrator.py:471-473).
EventuallyEnds == <>(pc \in {"done", "rolled_back"})

-----------------------------------------------------------------------------
\* What the repository says of the program and the code does not do.

\* "Never raises - exceptions are caught and returned as ERROR results"
\* (rules_engine.py:266): no stage of rules ends in an exception.
RulesNeverRaise ==
  IsStored => \A i \in Broken : Stages[StageOf(i)].type # "rule_evaluation"

\* The context column holds what was fetched for later stages
\* (app/models/db.py:95-97).
ContextStored == IsStored => Kept.context = context

=============================================================================
