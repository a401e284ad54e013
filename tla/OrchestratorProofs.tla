------------------------- MODULE OrchestratorProofs -------------------------
(***************************************************************************)
(* Theorems about Orchestrator, for any workflows: the type invariant, the *)
(* completeness of what is stored, and the refinement of DecisionLifecycle.*)
(*                                                                         *)
(* They rest on Inv, which says what the steps of run_workflow leave to    *)
(* each other: no step before the last transition sets a terminal status,  *)
(* and whatever reaches the caller's commit is complete.                   *)
(***************************************************************************)
EXTENDS Orchestrator, SequenceTheorems, FiniteSetTheorems, TLAPS

Optional == STRING \cup {None}

\* The provers do not know that a literal is a STRING, so those the code
\* writes into rows are listed.
Texts ==
  Optional \cup Status \cup {"PASS", "FAIL", "ERROR", "SOFT_FAIL", "soft",
                            "force_manual_review", "__input_validation__"}

AuditRows ==
  [event : Events, stage : Texts, rule : Optional, result : Texts,
   severity : Texts, action : Texts, n : Nat]

ExecutionRows ==
  [status : Status, completed : BOOLEAN, trace : Traces \cup {None}, context : SUBSET Paths]

Types ==
  /\ pc \in Active \cup {"done", "rolled_back"}
  /\ workflow \in DOMAIN Workflows
  /\ row \in ExecutionRows /\ row.context \subseteq context
  /\ log \in Seq(AuditRows)
  /\ context \subseteq Paths
  /\ attempt \in Nat
  /\ routing \in Routes

\* The loop variable names a stage while there is one to execute.
Position ==
  /\ at \in DOMAIN Stages \cup {1}
  /\ pc \in {"stage", "calling"} => at \in DOMAIN Stages

Complete(r, l) ==
  /\ r.status \in Terminal /\ r.completed
  /\ (\E i \in DOMAIN l : l[i].event = "EXECUTION_CREATED") =>
       /\ r.trace # None /\ r.trace.final_status = r.status
       /\ l[Len(l)] = Row("EXECUTION_FINAL", None, r.status)

Progress ==
  /\ pc \in Active \ {"commit"} => row.status \notin Terminal
  /\ pc = "commit" => Complete(row, log)
  /\ pc \in Active => stored = None
  /\ stored # None => Complete(stored.row, stored.log)

Inv == Types /\ Position /\ Progress

-----------------------------------------------------------------------------
\* _audit writes a row of the table.
LEMMA RowType ==
  ASSUME NEW event \in Events, NEW stage \in Texts, NEW result \in Texts
  PROVE  Row(event, stage, result) \in AuditRows
BY DEF Row, AuditRows, Texts, Optional

\* The same for the rows that count attempts.
LEMMA AttemptRowType ==
  ASSUME NEW event \in Events, NEW stage \in Texts, NEW result \in Texts, NEW n \in Nat
  PROVE  AttemptRow(event, stage, result, n) \in AuditRows
BY DEF AttemptRow, Row, AuditRows, Texts, Optional

\* The rows of the retries are rows of the table.
LEMMA AttemptRowsType ==
  ASSUME NEW stage \in Texts, NEW retries \in Nat
  PROVE  AttemptRows(stage, retries) \in Seq(AuditRows)
<1>1. "EXT_DEP_ATTEMPT" \in Events /\ "FAIL" \in Texts
  BY DEF Events, Texts
<1>2. ASSUME NEW i \in 1 .. retries
      PROVE  AttemptRow("EXT_DEP_ATTEMPT", stage, "FAIL", i) \in AuditRows
  BY <1>1, AttemptRowType
<1> QED BY <1>2 DEF AttemptRows

\* The rows of a stage's rules are rows of the table.
LEMMA RuleRowsType ==
  ASSUME NEW stage \in Texts, NEW rules \in Seq(RuleConfigs), NEW e
  PROVE  RuleRows(stage, EvaluateStageRules(rules, e)) \in Seq(AuditRows)
<1> DEFINE results == EvaluateStageRules(rules, e)
<1>1. ASSUME NEW i \in DOMAIN rules PROVE RuleRow(stage, results[i]) \in AuditRows
  <2>1. rules[i] \in RuleConfigs
    OBVIOUS
  <2>2. results[i] = EvaluateRule(rules[i], e[i])
    BY DEF EvaluateStageRules
  <2>3. /\ rules[i].id \in Optional /\ rules[i].severity \in Texts
        /\ rules[i].action \in Texts
    BY <2>1 DEF RuleConfigs, Texts, Optional
  <2> HIDE DEF results
  <2>6. /\ results[i].rule \in Optional /\ results[i].severity \in Texts
        /\ results[i].action \in Texts
    BY <2>2, <2>3 DEF EvaluateRule, Texts
  <2>4. ResultLabel(results[i]) \in Texts
    BY DEF ResultLabel, Texts
  <2>5. Row("RULE_EVALUATED", stage, ResultLabel(results[i])) \in AuditRows
    BY <2>4, RowType DEF Events, Texts
  <2>7. \A x \in AuditRows, rule \in Optional, severity, action \in Texts :
          [x EXCEPT !.rule = rule, !.severity = severity, !.action = action] \in AuditRows
    BY DEF AuditRows
  <2> QED BY <2>5, <2>6, <2>7 DEF RuleRow
<1>2. DOMAIN results = 1 .. Len(rules)
  BY DEF EvaluateStageRules
<1> HIDE DEF results
<1>3. RuleRows(stage, results) = [i \in 1 .. Len(rules) |-> RuleRow(stage, results[i])]
  BY <1>2 DEF RuleRows
<1>4. \A i \in 1 .. Len(rules) : RuleRow(stage, results[i]) \in AuditRows
  BY <1>1
<1>5. RuleRows(stage, results) \in Seq(AuditRows)
  BY <1>3, <1>4
<1> QED BY <1>5 DEF results
-----------------------------------------------------------------------------
\* _build_decision_trace counts what it selects.
LEMMA CountType ==
  ASSUME NEW rows \in Seq(AuditRows), NEW event, NEW results
  PROVE  CountOf(rows, event, results) \in Nat
<1> DEFINE S == {i \in DOMAIN rows : rows[i].event = event /\ rows[i].result \in results}
<1>1. IsFiniteSet(1 .. Len(rows))
  BY FS_Interval
<1>2. S \subseteq 1 .. Len(rows)
  OBVIOUS
<1>3. IsFiniteSet(S)
  BY <1>1, <1>2, FS_Subset
<1> QED BY <1>3, FS_CardinalityType DEF CountOf

\* The trace of any log is a trace.
LEMMA TraceType ==
  ASSUME NEW rows \in Seq(AuditRows), NEW status \in Terminal
  PROVE  Trace(rows, status) \in Traces /\ Trace(rows, status).final_status = status
<1>1. ASSUME NEW i \in DOMAIN rows PROVE rows[i].rule \in Optional
  <2>1. rows[i] \in AuditRows
    OBVIOUS
  <2> QED BY <2>1 DEF AuditRows
<1>2. /\ MandatoryFailures(rows) \subseteq Optional
      /\ SoftFailures(rows) \subseteq Optional
      /\ ForcedReviews(rows) \subseteq Optional
  BY <1>1 DEF MandatoryFailures, SoftFailures, ForcedReviews, RulesOf
<1> QED BY <1>2, CountType DEF Trace, Traces, Optional

\* A decision leaves a complete row behind.
LEMMA ConcludeCompletes ==
  ASSUME NEW rows \in Seq(AuditRows), NEW status \in Terminal,
         row \in ExecutionRows, Conclude(rows, status)
  PROVE  /\ row' \in ExecutionRows /\ row'.context = row.context /\ row'.status = status
         /\ log' \in Seq(AuditRows)
         /\ Complete(row', log')
<1> DEFINE told == Append(rows, Transition(status))
           last == Row("EXECUTION_FINAL", None, status)
<1>1. status \in Status /\ status \in Texts /\ None \in Texts
  BY DEF Terminal, Status, Texts, Optional
<1>2. Transition(status) \in AuditRows /\ last \in AuditRows
  BY <1>1, RowType DEF Transition, Events
<1>3. told \in Seq(AuditRows) /\ log' = Append(told, last)
  BY <1>2 DEF Conclude
<1> HIDE DEF told, last
<1>4. log' \in Seq(AuditRows) /\ log'[Len(log')] = last
  BY <1>2, <1>3
<1>5. Trace(told, status) \in Traces /\ Trace(told, status).final_status = status
  BY <1>3, TraceType
<1>6. row' = [row EXCEPT !.status = status, !.completed = TRUE, !.trace = Trace(told, status)]
  BY DEF Conclude, told
<1>7. /\ row' \in ExecutionRows /\ row'.context = row.context /\ row'.status = status
      /\ row'.completed /\ row'.trace = Trace(told, status)
  BY <1>1, <1>5, <1>6 DEF ExecutionRows
<1>8. row'.trace # None
  BY <1>5, <1>7, WorkflowsAssumption
<1> QED BY <1>4, <1>5, <1>7, <1>8 DEF Complete, last
-----------------------------------------------------------------------------
\* The session's row starts out undecided, with nothing stored.
LEMMA InitInv == Init => Inv
<1> SUFFICES ASSUME Init PROVE Inv
  OBVIOUS
<1>1. row \in ExecutionRows /\ row.context = {} /\ row.status = "PENDING"
  BY DEF Init, ExecutionRows, Status
<1>2. Types
  BY <1>1 DEF Init, Types, Active, Routes
<1>3. Position /\ Progress
  BY <1>1 DEF Init, Position, Progress, Terminal
<1> QED BY <1>2, <1>3 DEF Inv

\* The routing decision goes to a stage there is, or ends the loop.
LEMMA RouteKeeps ==
  ASSUME Inv, NEW route \in Routes, pc \in {"stage", "calling"}, Route(route),
         UNCHANGED workflow
  PROVE  /\ Position'
         /\ pc' \in {"stage", "final"} /\ routing' \in Routes
<1>1. Stages \in Seq(StageConfigs) /\ Stages' = Stages
  BY WorkflowsAssumption DEF Inv, Types, Stages
<1>2. at \in 1 .. Len(Stages)
  BY <1>1 DEF Inv, Position
<1>3. CASE route = "continue" /\ at < Len(Stages)
  BY <1>1, <1>2, <1>3 DEF Route, Position, Inv, Types
<1>4. CASE ~(route = "continue" /\ at < Len(Stages))
  BY <1>1, <1>2, <1>4 DEF Route, Position
<1> QED BY <1>3, <1>4

\* The flush writes no more than the context that there is.
LEMMA SaveKeeps ==
  ASSUME row \in ExecutionRows, NEW paths \in SUBSET Paths, row.context \subseteq paths,
         NEW status \in Status, SaveContext(paths, status)
  PROVE  row' \in ExecutionRows /\ row'.status = status /\ row'.context \subseteq paths
<1>1. PICK c \in {row.context, paths} :
        row' = [row EXCEPT !.status = status, !.context = c]
  BY DEF SaveContext
<1>2. c \in SUBSET Paths /\ c \subseteq paths
  BY <1>1
<1> QED BY <1>1, <1>2 DEF ExecutionRows

\* A stage that ends with a route leaves an undecided execution to the loop.
LEMMA StageEnds ==
  ASSUME Inv, pc \in {"stage", "calling"}, NEW route \in Routes, Route(route),
         NEW paths \in SUBSET Paths, context \subseteq paths, context' = paths,
         NEW status \in Status \ Terminal, SaveContext(paths, status),
         log' \in Seq(AuditRows), UNCHANGED <<workflow, attempt, stored>>
  PROVE  Inv'
<1>1. row \in ExecutionRows /\ row.context \subseteq paths
  BY DEF Inv, Types
<1>2. row' \in ExecutionRows /\ row'.status = status /\ row'.context \subseteq paths
  BY <1>1, SaveKeeps
<1>3. Position' /\ pc' \in {"stage", "final"} /\ routing' \in Routes
  BY RouteKeeps
<1>4. Types'
  BY <1>2, <1>3 DEF Inv, Types, Active
<1>5. Progress'
  BY <1>2, <1>3 DEF Inv, Progress, Active
<1> QED BY <1>3, <1>4, <1>5 DEF Inv

\* An exception in a stage leaves an undecided execution to the end.
LEMMA UnexpectedKeeps ==
  ASSUME Inv, pc \in {"stage", "calling"}, NEW rows \in Seq(AuditRows), Unexpected(rows),
         UNCHANGED <<workflow, attempt, stored>>
  PROVE  Inv'
<1>1. Stage \in StageConfigs
  BY WorkflowsAssumption DEF Inv, Types, Position, Stage, Stages
<1>2. Stage.id \in Texts /\ "STAGE_FAILED" \in Events /\ "ERROR" \in Texts
  BY <1>1 DEF StageConfigs, Texts, Optional, Events
<1>3. log' \in Seq(AuditRows)
  BY <1>2, RowType DEF Unexpected
<1>4. Types'
  BY <1>3 DEF Inv, Types, Unexpected, Active, Routes
<1>5. Position' /\ Progress'
  BY DEF Inv, Position, Progress, Unexpected, Active, Stages
<1> QED BY <1>4, <1>5 DEF Inv

\* The steps before the stages: loading and validating.
LEMMA OpeningStep == Inv /\ (Start \/ ConfigMissing \/ InputInvalid \/ InputValid) => Inv'
<1> SUFFICES ASSUME Inv, Start \/ ConfigMissing \/ InputInvalid \/ InputValid PROVE Inv'
  OBVIOUS
<1>0. /\ {"EXECUTION_CREATED", "STATUS_TRANSITION", "STAGE_FAILED"} \subseteq Events
      /\ {None, "RUNNING", "FAILED", "FAIL", "__input_validation__"} \subseteq Texts
  BY DEF Events, Texts, Optional, Status, Terminal
<1>1. row \in ExecutionRows /\ row.context \subseteq context
  BY DEF Inv, Types
<1>2. CASE Start
  <2>1. log' \in Seq(AuditRows)
    BY <1>0, <1>2, RowType DEF Start, Transition
  <2>2. row' \in ExecutionRows /\ row'.status = "RUNNING" /\ row'.context = row.context
    BY <1>1, <1>2 DEF Start, ExecutionRows, Status
  <2> QED BY <1>1, <1>2, <2>1, <2>2
        DEF Start, Inv, Types, Position, Progress, Active, Stages, Terminal
<1>3. CASE ConfigMissing
  <2>1. log' \in Seq(AuditRows) /\ \A i \in DOMAIN log' : log'[i].event # "EXECUTION_CREATED"
    BY <1>0, <1>3, RowType DEF ConfigMissing, Transition, Row
  <2>2. /\ row' \in ExecutionRows /\ row'.status = "FAILED" /\ row'.completed
        /\ row'.context = row.context
    BY <1>1, <1>3 DEF ConfigMissing, ExecutionRows, Status, Terminal
  <2> QED BY <1>1, <1>3, <2>1, <2>2
        DEF ConfigMissing, Inv, Types, Position, Progress, Complete, Active, Stages, Terminal
<1>4. CASE InputInvalid
  <2>1. Row("STAGE_FAILED", "__input_validation__", "FAIL") \in AuditRows
    BY <1>0, RowType
  <2>2. Append(log, Row("STAGE_FAILED", "__input_validation__", "FAIL")) \in Seq(AuditRows)
    BY <2>1 DEF Inv, Types
  <2>3. /\ row' \in ExecutionRows /\ row'.context = row.context
        /\ log' \in Seq(AuditRows) /\ Complete(row', log')
    BY <1>1, <1>4, <2>2, ConcludeCompletes DEF InputInvalid, Terminal
  <2> QED BY <1>1, <1>4, <2>3
        DEF InputInvalid, Inv, Types, Position, Progress, Active, Stages
<1>5. CASE InputValid
  <2>1. PICK given \in SUBSET InputPaths :
          context' = given /\ row' = [row EXCEPT !.context = given]
    BY <1>5 DEF InputValid
  <2>2. given \subseteq Paths
    BY WorkflowsAssumption
  <2>3. row' \in ExecutionRows /\ row'.status = row.status /\ row'.context = given
    BY <1>1, <2>1, <2>2 DEF ExecutionRows
  <2>4. Types'
    BY <1>5, <2>1, <2>2, <2>3 DEF InputValid, Inv, Types, Active
  <2>5. Progress'
    BY <1>5, <2>3 DEF InputValid, Inv, Progress, Active
  <2>6. Stages \in Seq(StageConfigs) /\ Stages' = Stages
    BY <1>5, WorkflowsAssumption DEF InputValid, Inv, Types, Stages
  <2>7. Stages # <<>> => 1 \in DOMAIN Stages
    BY <2>6
  <2>8. Position'
    BY <1>5, <2>6, <2>7 DEF InputValid, Inv, Position
  <2> QED BY <2>4, <2>5, <2>8 DEF Inv
<1> QED BY <1>2, <1>3, <1>4, <1>5

\* The stages without a call.
LEMMA StageStep == Inv /\ (RuleStage \/ SkipStage) => Inv'
<1> SUFFICES ASSUME Inv, RuleStage \/ SkipStage PROVE Inv'
  OBVIOUS
<1>1. /\ pc = "stage" /\ UNCHANGED <<workflow, attempt, stored>>
      /\ row.status \in Status \ Terminal /\ context \in SUBSET Paths
      /\ log \in Seq(AuditRows)
  BY DEF RuleStage, RuleStageWith, SkipStage, Inv, Types, Progress, Active, ExecutionRows
<1>2. Stage \in StageConfigs
  BY <1>1, WorkflowsAssumption DEF Inv, Types, Position, Stage, Stages
<1>3. /\ Stage.id \in Texts /\ Stage.rules \in Seq(RuleConfigs)
      /\ {"STAGE_STARTED", "STAGE_COMPLETED", "STAGE_FAILED"} \subseteq Events
      /\ {None, "FAIL", "SOFT_FAIL", "PASS"} \subseteq Texts
  BY <1>2 DEF StageConfigs, Texts, Optional, Events
<1>4. Row("STAGE_STARTED", Stage.id, None) \in AuditRows
  BY <1>3, RowType
<1>5. Started \in Seq(AuditRows)
  BY <1>1, <1>4 DEF Started
<1>6. CASE SkipStage
  BY <1>1, <1>6, StageEnds DEF SkipStage, Routes
<1>7. ASSUME NEW e \in Evaluations(Stage.rules, context), Unexpected(Started) PROVE Inv'
  BY <1>1, <1>5, <1>7, UnexpectedKeeps
<1>8. ASSUME NEW e \in Evaluations(Stage.rules, context),
             NEW results, results = EvaluateStageRules(Stage.rules, e),
             NEW verdict, verdict = StageVerdict(results),
             log' = Append(Started \o RuleRows(Stage.id, results),
                           VerdictRow(Stage.id, verdict)),
             SaveContext(context, row.status), Route(verdict), UNCHANGED context
      PROVE  Inv'
  <2>1. verdict \in {"reject", "manual_review", "continue"}
    BY <1>8 DEF StageVerdict
  <2>2. VerdictRow(Stage.id, verdict) \in AuditRows
    BY <1>3, <2>1, RowType DEF VerdictRow
  <2>3. RuleRows(Stage.id, results) \in Seq(AuditRows)
    BY <1>3, <1>8, RuleRowsType
  <2>4. log' \in Seq(AuditRows)
    BY <1>5, <1>8, <2>2, <2>3
  <2>5. verdict \in Routes
    BY <2>1 DEF Routes
  <2> QED BY <1>1, <1>8, <2>4, <2>5, StageEnds
<1>9. CASE RuleStage
  BY <1>7, <1>8, <1>9 DEF RuleStage, RuleStageWith
<1> QED BY <1>6, <1>9

\* What the steps of a call find.
LEMMA Calling ==
  ASSUME Inv, pc \in {"stage", "calling"}
  PROVE  /\ row.status \in Status \ Terminal /\ context \in SUBSET Paths
         /\ Stage \in StageConfigs /\ Stage.id \in Texts /\ Stage.maps \in SUBSET Paths
         /\ log \in Seq(AuditRows)
         /\ log \o AttemptRows(Stage.id, attempt) \in Seq(AuditRows)
<1>1. Stage \in StageConfigs
  BY WorkflowsAssumption DEF Inv, Types, Position, Stage, Stages
<1>2. Stage.id \in Texts /\ Stage.maps \in SUBSET Paths
  BY <1>1 DEF StageConfigs, Texts, Optional
<1>3. AttemptRows(Stage.id, attempt) \in Seq(AuditRows)
  BY <1>2, AttemptRowsType DEF Inv, Types
<1> QED BY <1>1, <1>2, <1>3 DEF Inv, Types, Progress, Active, ExecutionRows

\* A call that failed for good ends its stage.
LEMMA ExhaustedKeeps ==
  ASSUME Inv, pc \in {"stage", "calling"}, NEW tries \in Nat, Exhausted(tries)
  PROVE  Inv'
<1> DEFINE failure == AttemptRow("EXT_DEP_FAILURE", Stage.id, "FAIL", tries)
           failed == Row("STAGE_FAILED", Stage.id, "FAIL")
           status == IF FailureRoute = "continue" THEN "RUNNING" ELSE row.status
<1>1. /\ {"EXT_DEP_FAILURE", "STAGE_FAILED"} \subseteq Events /\ "FAIL" \in Texts
      /\ "RUNNING" \in Status \ Terminal
  BY DEF Events, Texts, Status, Terminal
<1>2. failure \in AuditRows /\ failed \in AuditRows
  BY <1>1, Calling, RowType, AttemptRowType
<1>3. log' = log \o AttemptRows(Stage.id, attempt) \o <<failure, failed>>
  BY DEF Exhausted
<1> HIDE DEF failure, failed
<1>4. log' \in Seq(AuditRows)
  BY <1>2, <1>3, Calling
<1>5. FailureRoute \in Routes
  BY DEF FailureRoute, Routes
<1>6. status \in Status \ Terminal
  BY <1>1, Calling
<1> QED BY <1>4, <1>5, <1>6, Calling, StageEnds DEF Exhausted

\* The steps of a call.
LEMMA CallStep ==
  Inv /\ (BeginCall \/ Retry \/ CallSucceeds \/ CallFails \/ NoAttempts \/ CallRaises) => Inv'
<1> SUFFICES ASSUME Inv, BeginCall \/ Retry \/ CallSucceeds \/ CallFails \/ NoAttempts \/ CallRaises
             PROVE  Inv'
  OBVIOUS
<1>1. pc \in {"stage", "calling"} /\ attempt \in Nat
  BY DEF BeginCall, Retry, CallSucceeds, CallFails, NoAttempts, CallRaises, Inv, Types
<1>2. CASE BeginCall
  <2>1. "STAGE_STARTED" \in Events /\ None \in Texts
    BY DEF Events, Texts, Optional
  <2>2. Row("STAGE_STARTED", Stage.id, None) \in AuditRows
    BY <1>1, <2>1, Calling, RowType
  <2>3. log' \in Seq(AuditRows)
    BY <1>1, <1>2, <2>2, Calling DEF BeginCall, Started
  <2>4. /\ row' \in ExecutionRows /\ row'.status = "RETRYING"
        /\ row'.context = row.context
    BY <1>2 DEF BeginCall, Inv, Types, ExecutionRows, Status
  <2>5. Types'
    BY <1>2, <2>3, <2>4 DEF BeginCall, Inv, Types, Active
  <2>6. Position' /\ Progress'
    BY <1>2, <2>4 DEF BeginCall, Inv, Position, Progress, Active, Stages, Terminal
  <2> QED BY <2>5, <2>6 DEF Inv
<1>3. CASE Retry
  BY <1>3 DEF Retry, Inv, Types, Position, Progress, Stages
<1>4. CASE CallSucceeds
  <2> DEFINE success == AttemptRow("EXT_DEP_SUCCESS", Stage.id, "PASS", attempt + 1)
             completed == Row("STAGE_COMPLETED", Stage.id, "PASS")
  <2>1. /\ {"EXT_DEP_SUCCESS", "STAGE_COMPLETED"} \subseteq Events /\ "PASS" \in Texts
        /\ "RUNNING" \in Status \ Terminal /\ "continue" \in Routes
    BY DEF Events, Texts, Status, Terminal, Routes
  <2>2. success \in AuditRows /\ completed \in AuditRows
    BY <1>1, <2>1, Calling, RowType, AttemptRowType
  <2>3. log' = log \o AttemptRows(Stage.id, attempt) \o <<success, completed>>
    BY <1>4 DEF CallSucceeds
  <2> HIDE DEF success, completed
  <2>4. log' \in Seq(AuditRows)
    BY <1>1, <2>2, <2>3, Calling
  <2>5. PICK present \in SUBSET Stage.maps :
          context' = context \cup present /\ SaveContext(context \cup present, "RUNNING")
    BY <1>4 DEF CallSucceeds
  <2>6. context \cup present \in SUBSET Paths
    BY <1>1, Calling
  <2> QED BY <1>1, <1>4, <2>1, <2>4, <2>5, <2>6, StageEnds DEF CallSucceeds
<1>5. CASE CallFails
  BY <1>1, <1>5, ExhaustedKeeps DEF CallFails
<1>6. CASE NoAttempts
  <2>1. Stage.max_attempts \in Nat
    BY <1>1, Calling DEF StageConfigs
  <2> QED BY <1>1, <1>6, <2>1, ExhaustedKeeps DEF NoAttempts
<1>7. CASE CallRaises
  BY <1>1, <1>7, Calling, UnexpectedKeeps DEF CallRaises
<1> QED BY <1>2, <1>3, <1>4, <1>5, <1>6, <1>7

\* The last transition, and what the caller does with the session.
LEMMA ClosingStep == Inv /\ (Finish \/ Commit \/ RollBack) => Inv'
<1> SUFFICES ASSUME Inv, Finish \/ Commit \/ RollBack PROVE Inv'
  OBVIOUS
<1>1. CASE Finish
  <2>1. FinalStatus(routing) \in Terminal
    BY DEF FinalStatus, Terminal, Inv, Types, Routes
  <2>2. /\ row' \in ExecutionRows /\ row'.context = row.context
        /\ log' \in Seq(AuditRows) /\ Complete(row', log')
    BY <1>1, <2>1, ConcludeCompletes DEF Finish, Inv, Types
  <2> QED BY <1>1, <2>2 DEF Finish, Inv, Types, Position, Progress, Active, Stages
<1>2. CASE Commit
  BY <1>2 DEF Commit, Inv, Types, Position, Progress, Complete, Active, Stages
<1>3. CASE RollBack
  BY <1>3 DEF RollBack, Inv, Types, Position, Progress, Active, Stages
<1> QED BY <1>1, <1>2, <1>3

\* Every step keeps the invariant.
LEMMA InvStep == Inv /\ [Next]_vars => Inv'
<1> SUFFICES ASSUME Inv, [Next]_vars PROVE Inv'
  OBVIOUS
<1>1. CASE Next
  BY <1>1, OpeningStep, StageStep, CallStep, ClosingStep DEF Next, Proceed
<1>2. CASE UNCHANGED vars
  BY <1>2 DEF vars, Inv, Types, Position, Progress, Complete, Stages
<1> QED BY <1>1, <1>2

-----------------------------------------------------------------------------
\* The invariant holds in every reachable state.
THEOREM Invariance == Spec => []Inv
BY InitInv, InvStep, PTL DEF Spec

\* The row keeps a status and never more of the context than there is, and the
\* loop never leaves the stages of the workflow (orchestrator.py:453-590).
THEOREM TypeCorrect == Spec => []TypeOK
<1>1. ASSUME Inv PROVE TypeOK
  <2>1. \A i \in DOMAIN log : log[i] \in AuditRows
    BY <1>1 DEF Inv, Types
  <2> QED BY <1>1, <2>1 DEF Inv, Types, Position, TypeOK, ExecutionRows, AuditRows
<1> QED BY <1>1, Invariance, PTL

\* Whatever is stored is terminal and has its completion time; and on every path
\* that has a workflow to run - an invalid input, the end of the loop, the
\* exception guard - also its trace and its final audit row.  The exit for a
\* missing configuration (orchestrator.py:484-492) stores neither
\* (orchestrator.py:503-513, 571-584, 623-638).
THEOREM StoredIsComplete == Spec => []StoredComplete
<1>1. Inv => StoredComplete
  BY DEF Inv, Progress, Complete, StoredComplete, IsStored, Kept, KeptLog, Rows
<1> QED BY <1>1, Invariance, PTL

-----------------------------------------------------------------------------
\* Nothing is decided and nothing stored before the first step.
LEMMA LifecycleInit == Init => Lifecycle!Init
BY DEF Init, Lifecycle!Init, Decision, StoredDecision, IsStored, Undecided, Terminal

\* A step from a state that is not decided decides at most; the commit stores
\* the decision; a roll-back stores nothing.
LEMMA LifecycleStep == Inv /\ [Next]_vars => [Lifecycle!Next]_(Lifecycle!vars)
<1> SUFFICES ASSUME Inv, [Next]_vars PROVE [Lifecycle!Next]_(Lifecycle!vars)
  OBVIOUS
<1> USE DEF Lifecycle!Next, Lifecycle!vars, Lifecycle!Decide, Lifecycle!Store,
            Decision, StoredDecision, IsStored, Kept
<1>1. CASE Commit
  <2>1. /\ row.status \in Terminal /\ row' = row
        /\ stored = None /\ stored' = [row |-> row, log |-> log]
    BY <1>1 DEF Commit, Inv, Progress, Complete, Active
  <2>2. row.status # Undecided
    BY <2>1 DEF Terminal, Undecided
  <2> QED BY <2>1, <2>2
<1>2. CASE UNCHANGED <<row, stored>>
  BY <1>2
<1>3. CASE pc \in Active \ {"commit"} /\ UNCHANGED stored
  BY <1>3 DEF Inv, Progress
<1>4. Commit \/ UNCHANGED <<row, stored>> \/ (pc \in Active \ {"commit"} /\ UNCHANGED stored)
  BY DEF Next, Proceed, Start, ConfigMissing, InputInvalid, InputValid, RuleStage, RuleStageWith, SkipStage,
         BeginCall, Retry, CallSucceeds, CallFails, NoAttempts, Exhausted, CallRaises, Finish,
         RollBack, vars, Active
<1> QED BY <1>1, <1>2, <1>3, <1>4

\* An execution is decided once, never decided again, and nothing but its
\* decision is stored (orchestrator.py:503-513, 583-584, main.py:150-157).
THEOREM OrchestratorImplementsLifecycle == Spec => ImplementsLifecycle
BY LifecycleInit, LifecycleStep, Invariance, PTL
   DEF Spec, ImplementsLifecycle, Lifecycle!Spec
=============================================================================
