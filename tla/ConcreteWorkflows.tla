------------------------- MODULE ConcreteWorkflows -------------------------
(***************************************************************************)
(* run_workflow with the values its rules compare and the time its calls   *)
(* wait: Orchestrator says which outcomes a rule or a call may have, here  *)
(* the payload, the answers of the mock services (app/dependencies/        *)
(* mock_api.py) and the YAML determine them.                               *)
(*                                                                         *)
(* Configs maps each workflow_id to [schema, stages].  A schema maps paths *)
(* to [required, type, minimum, maximum, enum], where the bounds are <<>>  *)
(* or <<number>> and an empty enum is none.  A stage is a record           *)
(*   [id, type, rules, on_failure, retry_policy, latency_ms, maps, answers]*)
(* with rules as in RuleValues, the retry policy as in Backoff, the upper  *)
(* end of the mock's latency, the paths of its result_mapping, and a set   *)
(* of answers, each a function from paths to values.                       *)
(***************************************************************************)
EXTENDS Orchestrator, RuleValues, Backoff

CONSTANTS Configs,
          Payloads     \* payloads clients send, functions from paths to values

AbstractStage(s) ==
  [id |-> s.id, type |-> s.type,
   rules |-> [i \in DOMAIN s.rules |-> AbstractRule(s.rules[i])],
   on_failure |-> s.on_failure, max_attempts |-> s.retry_policy.max_attempts, maps |-> s.maps]

ASSUME ConfigsAssumption ==
  /\ DOMAIN Workflows = DOMAIN Configs
  /\ \A w \in DOMAIN Configs :
       LET stages == Configs[w].stages
       IN  /\ Workflows[w] = [i \in DOMAIN stages |-> AbstractStage(stages[i])]
           /\ \A i \in DOMAIN stages :
                \A answer \in stages[i].answers : DOMAIN answer \subseteq stages[i].maps
           /\ \A payload \in Payloads[w] :
                /\ DOMAIN payload \subseteq InputPaths
                /\ \A p \in DOMAIN payload :
                     Kind(payload[p]) = "num" => payload[p][2] \in NumbersOfJSON

\* The numbers clients send.
Figures ==
  UNION {{payload[p][2] : p \in {q \in DOMAIN payload : Kind(payload[q]) = "num"}} :
           payload \in UNION {Payloads[w] : w \in DOMAIN Configs}}

\* Rounding such a number gives one that is not on the other side of 1.
ASSUME RoundingAssumption ==
  \A x \in Figures :
    /\ Rounded(x) \in NumbersOfJSON
    /\ LessEq(<<1, 1>>, x) => LessEq(<<1, 1>>, Rounded(x))

VARIABLES values,   \* what the payload, and later the context, has at each path
          waited    \* most milliseconds the open transaction has slept

data == <<values, waited>>
concrete == <<pc, workflow, row, log, context, attr, at, attempt, routing, stored, values, waited>>

-----------------------------------------------------------------------------
\* One property of the input_schema, as jsonschema checks it: what is not a
\* number is neither too small nor too large.
OfType(type, v) ==
  CASE type = "number"  -> Kind(v) = "num"
    [] type = "integer" -> Kind(v) = "num" /\ Finite(v[2]) /\ v[2][1] % v[2][2] = 0
    [] type = "string"  -> Kind(v) = "str"
    [] type = "boolean" -> Kind(v) = "bool"

FieldValid(field, v) ==
  /\ OfType(field.type, v)
  /\ field.minimum # <<>> => ~Less(Exact(v), <<field.minimum[1], 1>>)
  /\ field.maximum # <<>> => ~Less(<<field.maximum[1], 1>>, Exact(v))
  /\ field.enum # {} => v \in field.enum

\* A default of the schema is no value: jsonschema leaves the payload alone.
ValidInput(schema, payload) ==
  \A p \in DOMAIN schema :
    IF p \in DOMAIN payload THEN FieldValid(schema[p], payload[p]) ELSE ~schema[p].required

Schema == Configs[workflow].schema
ConcreteStage == Configs[workflow].stages[at]

-----------------------------------------------------------------------------
ConcreteInit ==
  /\ Init
  /\ values \in Payloads[workflow]
  /\ waited = 0

RejectInput == InputInvalid /\ ~ValidInput(Schema, values) /\ UNCHANGED data

AcceptInput ==
  /\ InputValid /\ ValidInput(Schema, values)
  /\ context' = DOMAIN values
  /\ UNCHANGED data

EvaluateStage ==
  /\ pc = "stage"
  /\ RuleStageWith([i \in DOMAIN ConcreteStage.rules |->
                      OutcomeOf(ConcreteStage.rules[i], values)])
  /\ UNCHANGED data

\* Every attempt sleeps for the latency; the mock's only error is a 500.
Sleeps(ms) == waited' = waited + ms
Retryable == 500 \in ConcreteStage.retry_policy.retryable

RetryCall ==
  /\ Retry /\ Retryable
  /\ Sleeps(ConcreteStage.latency_ms + LongestDelay(ConcreteStage.retry_policy, attempt))
  /\ UNCHANGED values

\* Faulty variant: the answer takes the place of the context.
AnswerReplaces ==
  /\ CallSucceeds
  /\ \E answer \in ConcreteStage.answers :
       /\ context' = context \cup DOMAIN answer
       /\ values' = answer
  /\ Sleeps(ConcreteStage.latency_ms)

\* The mapped fields of the answer are added to the context.
CallAnswered ==
  /\ CallSucceeds
  /\ \E answer \in ConcreteStage.answers :
       /\ context' = context \cup DOMAIN answer
       /\ values' = [p \in DOMAIN values \cup DOMAIN answer |->
                       IF p \in DOMAIN answer THEN answer[p] ELSE values[p]]
  /\ Sleeps(ConcreteStage.latency_ms)

CallExhausted ==
  /\ CallFails /\ (IsLast \/ ~Retryable)
  /\ Sleeps(ConcreteStage.latency_ms)
  /\ UNCHANGED values

\* The steps that neither look at a value nor wait.
Otherwise ==
  Start \/ ConfigMissing \/ SkipStage \/ BeginCall \/ NoAttempts \/ Finish \/ Commit \/ RollBack

ConcreteNext ==
  \/ RejectInput \/ AcceptInput
  \/ EvaluateStage
  \/ RetryCall \/ CallAnswered \/ CallExhausted
  \/ Otherwise /\ UNCHANGED data

ConcreteSpec == ConcreteInit /\ [][ConcreteNext]_concrete

-----------------------------------------------------------------------------
\* Whatever the engine computes from values is one of the outcomes that
\* Orchestrator allows, so what holds of every run of Orchestrator holds of
\* the engine (rules_engine.py:251-372, mock_api.py:241-280).
ImplementsOrchestrator == Init /\ [][Next]_vars

\* The rules of a stage find in the context what the payload and the answers
\* put there, and the waiting is a number of milliseconds.
ConcreteTypeOK ==
  /\ pc \in {"stage", "calling", "final"} => context = DOMAIN values
  /\ waited \in Nat
=============================================================================
