---------------------- MODULE ConcreteWorkflowsProofs ----------------------
(***************************************************************************)
(* The engine on values is a case of Orchestrator, for any workflows,      *)
(* payloads and answers, so the theorems of OrchestratorProofs and         *)
(* AuditLogProofs hold of it.                                              *)
(***************************************************************************)
EXTENDS ConcreteWorkflows, AuditLogProofs

\* The paths of the context are those that have a value.
ContextHasValues == pc \in {"stage", "calling", "final"} => context = DOMAIN values

ConcreteInv == Inv /\ ContextHasValues

\* Whatever a rule finds and compares, the outcome is one that RulesEngine
\* allows for it (rules_engine.py:251-372).
LEMMA OutcomeAllowed ==
  ASSUME NEW rule, NEW vs
  PROVE  OutcomeOf(rule, vs) \in Outcomes(AbstractRule(rule), DOMAIN vs)
<1> DEFINE r == AbstractRule(rule)
           actual == ActualValue(rule, vs)
<1>1. /\ r.reads = Reads(rule) /\ (r.computes <=> IsExpression(rule))
      /\ r.operator = IF rule.operator \in Operators THEN "known" ELSE "unknown"
      /\ r.graduated <=> rule.fail_above # <<>>
  BY DEF AbstractRule
<1> HIDE DEF r, actual
<1>2. \A p : Operand(p, vs) \in {"error", "raise", "value"}
             /\ (Operand(p, vs) # "error" => p \in DOMAIN vs)
  BY DEF Operand, Conversion
<1>3. CASE Resolving(rule, vs) = "error"
  <2>1. OutcomeOf(rule, vs) = "error" /\ "error" \in Outcomes(r, DOMAIN vs)
    BY <1>3 DEF OutcomeOf, Outcomes
  <2> QED BY <2>1 DEF r
<1>4. CASE Resolving(rule, vs) = "raise"
  <2>1. IsExpression(rule)
    BY <1>4 DEF Resolving
  <2>2. Operand(Left(rule), vs) # "error"
    BY <1>4, <2>1 DEF Resolving, Then
  <2>3. Left(rule) \in Reads(rule) \cap DOMAIN vs
    BY <1>2, <2>1, <2>2 DEF Reads
  <2>4. OutcomeOf(rule, vs) = "raise" /\ "raise" \in Outcomes(r, DOMAIN vs)
    BY <1>1, <1>4, <2>1, <2>3 DEF OutcomeOf, Outcomes
  <2> QED BY <2>4 DEF r
<1>5. CASE Resolving(rule, vs) = "value"
  <2>1. Reads(rule) \subseteq DOMAIN vs
    <3>1. CASE IsExpression(rule)
      <4>1. Operand(Left(rule), vs) = "value" /\ Operand(Right(rule), vs) = "value"
        BY <1>5, <3>1 DEF Resolving, Then
      <4> QED BY <1>2, <3>1, <4>1 DEF Reads
    <3>2. CASE ~IsExpression(rule)
      BY <1>5, <3>2 DEF Resolving, Reads
    <3> QED BY <3>1, <3>2
  <2>2. OutcomeOf(rule, vs) = Compare(rule, actual)
    BY <1>5 DEF OutcomeOf, actual
  <2>3. /\ Compare(rule, actual) \in {"pass", "fail", "fail_above", "error", "raise"}
        /\ rule.operator \notin Operators => Compare(rule, actual) = "error"
        /\ Compare(rule, actual) \in {"fail_above", "raise"} => rule.fail_above # <<>>
    BY DEF Compare, Failed
  <2>4. Compare(rule, actual) \in Outcomes(r, DOMAIN vs)
    BY <1>1, <2>1, <2>3 DEF Outcomes
  <2> QED BY <2>2, <2>4 DEF r
<1>6. Resolving(rule, vs) \in {"error", "raise", "value"}
  BY <1>2 DEF Resolving, Then
<1> QED BY <1>3, <1>4, <1>5, <1>6

\* The stage the engine is at, with and without its values.
LEMMA SameStage ==
  ASSUME Inv, pc \in {"stage", "calling"}
  PROVE  Stage = AbstractStage(ConcreteStage)
<1>1. workflow \in DOMAIN Configs /\ at \in DOMAIN Stages
  BY ConfigsAssumption DEF Inv, Types, Position
<1>2. Stages = [i \in DOMAIN Configs[workflow].stages |-> AbstractStage(Configs[workflow].stages[i])]
  BY <1>1, ConfigsAssumption DEF Stages
<1> QED BY <1>1, <1>2 DEF Stage, ConcreteStage

\* The outcomes that the values give are one evaluation of the stage's rules.
LEMMA EvaluateIsRuleStage == ConcreteInv /\ EvaluateStage => RuleStage
<1> SUFFICES ASSUME ConcreteInv, EvaluateStage PROVE RuleStage
  OBVIOUS
<1> DEFINE rules == ConcreteStage.rules
           e == [i \in DOMAIN rules |-> OutcomeOf(rules[i], values)]
<1>1. pc = "stage" /\ RuleStageWith(e)
  BY DEF EvaluateStage
<1>2. context = DOMAIN values
  BY <1>1 DEF ConcreteInv, ContextHasValues
<1>3. Stage.rules = [i \in DOMAIN rules |-> AbstractRule(rules[i])]
  BY <1>1, SameStage DEF ConcreteInv, AbstractStage
<1>4. \A i \in DOMAIN rules : e[i] \in Outcomes(AbstractRule(rules[i]), context)
  BY <1>2, OutcomeAllowed
<1>5. \A r, paths : Outcomes(r, paths) \subseteq {"pass", "fail", "fail_above", "error", "raise"}
  BY DEF Outcomes
<1>6. e \in [DOMAIN rules -> {"pass", "fail", "fail_above", "error", "raise"}]
  BY <1>4, <1>5
<1> HIDE DEF rules, e
<1>7. e \in Evaluations(Stage.rules, context)
  BY <1>3, <1>4, <1>6 DEF Evaluations
<1> QED BY <1>1, <1>7 DEF RuleStage

\* Every step on values is a step of Orchestrator.
LEMMA ConcreteStep == ConcreteInv /\ [ConcreteNext]_concrete => [Next]_vars
<1> SUFFICES ASSUME ConcreteInv, [ConcreteNext]_concrete PROVE [Next]_vars
  OBVIOUS
<1>1. CASE UNCHANGED concrete
  BY <1>1 DEF concrete, vars
<1>2. CASE EvaluateStage
  BY <1>2, EvaluateIsRuleStage DEF Next, Proceed
<1>3. CASE RejectInput \/ AcceptInput \/ RetryCall \/ CallAnswered \/ CallExhausted
  BY <1>3 DEF RejectInput, AcceptInput, RetryCall, CallAnswered, CallExhausted, Next, Proceed
<1>4. CASE Otherwise
  BY <1>4 DEF Otherwise, Next, Proceed
<1> QED BY <1>1, <1>2, <1>3, <1>4 DEF ConcreteNext

\* Values are added with the paths they are at.
LEMMA ConcreteInvStep == ConcreteInv /\ [ConcreteNext]_concrete => ConcreteInv'
<1> SUFFICES ASSUME ConcreteInv, [ConcreteNext]_concrete PROVE ContextHasValues'
  BY ConcreteStep, InvStep DEF ConcreteInv
<1> USE DEF ConcreteInv, ContextHasValues
<1>1. CASE UNCHANGED concrete
  BY <1>1 DEF concrete
<1>2. CASE RejectInput
  BY <1>2 DEF RejectInput, InputInvalid
<1>3. CASE AcceptInput
  BY <1>3 DEF AcceptInput, data
<1>4. CASE EvaluateStage
  BY <1>4 DEF EvaluateStage, RuleStageWith, Unexpected, Route, data
<1>5. CASE RetryCall
  BY <1>5 DEF RetryCall, Retry
<1>6. CASE CallAnswered
  <2>1. PICK answer \in ConcreteStage.answers :
          /\ context' = context \cup DOMAIN answer
          /\ values' = [p \in DOMAIN values \cup DOMAIN answer |->
                          IF p \in DOMAIN answer THEN answer[p] ELSE values[p]]
    BY <1>6 DEF CallAnswered
  <2>2. pc = "calling"
    BY <1>6 DEF CallAnswered, CallSucceeds
  <2> QED BY <2>1, <2>2
<1>7. CASE CallExhausted
  BY <1>7 DEF CallExhausted, CallFails, Exhausted, Route
<1>8. CASE Otherwise /\ UNCHANGED data
  BY <1>8 DEF Otherwise, Start, ConfigMissing, SkipStage, BeginCall, NoAttempts, Exhausted,
     Route, Finish, Commit, RollBack, data, Active
<1> QED BY <1>1, <1>2, <1>3, <1>4, <1>5, <1>6, <1>7, <1>8 DEF ConcreteNext

\* The context's paths and values stay in step.
LEMMA ConcreteInvariance == ConcreteSpec => []ConcreteInv
<1>1. ConcreteInit => ConcreteInv
  BY InitInv DEF ConcreteInit, ConcreteInv, ContextHasValues, Init
<1> QED BY <1>1, ConcreteInvStep, PTL DEF ConcreteSpec

-----------------------------------------------------------------------------
\* What the engine does with values, Orchestrator allows: the outcomes it
\* abstracts to are sound for any YAML, payload and answer, with all fifteen
\* operators, rounding, infinities, and the exceptions of float() and of the
\* divisions that leave evaluate_rule (rules_engine.py:208-372,
\* orchestrator.py:453-590).
THEOREM ConcreteImplementsOrchestrator == ConcreteSpec => ImplementsOrchestrator
<1>1. ConcreteInit => Init
  BY DEF ConcreteInit
<1> QED BY <1>1, ConcreteStep, ConcreteInvariance, PTL DEF ConcreteSpec, ImplementsOrchestrator

\* So what an engine on values stores is complete
\* (orchestrator.py:471-475, 582-584, 623-638).
THEOREM ConcreteStoresComplete == ConcreteSpec => []StoredComplete
<1>1. Inv => StoredComplete
  BY DEF Inv, Progress, Complete, StoredComplete, IsStored, Kept, KeptLog, Rows
<1>2. ConcreteInv => StoredComplete
  BY <1>1 DEF ConcreteInv
<1> QED BY <1>2, ConcreteInvariance, PTL

\* And its audit logs are what those of Orchestrator are: the decision can be
\* replayed from them, whatever the YAML, the payload and the answers.
THEOREM ConcreteLogsHold ==
  ConcreteSpec => [](DecisionReplayable /\ StagesInOrder /\ RetryAccounting /\ TraceSupportsStatus)
<1>1. ConcreteInit => LogInv
  BY InitLogInv DEF ConcreteInit
<1>2. ConcreteInv /\ LogInv /\ [ConcreteNext]_concrete => LogInv'
  BY ConcreteStep, LogInvStep DEF ConcreteInv
<1>3. ConcreteInv /\ LogInv =>
        DecisionReplayable /\ StagesInOrder /\ RetryAccounting /\ TraceSupportsStatus
  BY SettledReplays, SettledInOrder, SettledAccounts, SettledSupports DEF ConcreteInv
<1> QED BY <1>1, <1>2, <1>3, ConcreteInvariance, PTL DEF ConcreteSpec
=============================================================================
