-------------------------- MODULE ShippedWorkflows --------------------------
(***************************************************************************)
(* The two workflows of app/workflows, as data, and what their YAML says   *)
(* of the decisions they make.  Fields of the payload that no rule reads   *)
(* are left out; one that is invalid ends the execution like any other.    *)
(***************************************************************************)
EXTENDS ConcreteWorkflows

CONSTANT Scores    \* what the credit bureau may answer

Input(name) == <<"input", name>>
Fetched(name) == <<"context", name>>

Field(type) == [required |-> TRUE, type |-> type, minimum |-> <<>>, maximum |-> <<>>, enum |-> {}]
AtLeast(type, n) == [Field(type) EXCEPT !.minimum = <<n>>]

\* A percentage as the YAML writes it, with two decimals.
Percent(n) == Rounded(<<n, 100>>)

RuleOn(id, value, operator, threshold, severity) ==
  [id |-> id, severity |-> severity, action |-> None, value |-> value, operator |-> operator,
   threshold |-> threshold, fail_above |-> <<>>, route |-> "manual_review"]

NoCall == [max_attempts |-> 3, base_delay_ms |-> 200, max_delay_ms |-> 5000,
           strategy |-> "exponential", retryable |-> {500, 502, 503, 504}]

RulesStage(id, on_failure, rules) ==
  [id |-> id, type |-> "rule_evaluation", rules |-> rules, on_failure |-> on_failure,
   retry_policy |-> NoCall, latency_ms |-> 0, maps |-> {}, answers |-> {}]

-----------------------------------------------------------------------------
\* loan_approval_v1.yaml
Age == Input("age")
Income == Input("annual_income")
Amount == Input("requested_amount")
Employment == Input("employment_status")
Debt == Input("existing_debt")
Score == Fetched("credit_score")

Employments ==
  {Text("employed"), Text("self_employed"), Text("unemployed"), Text("retired")}

LoanSchema ==
  [p \in {Age, Income, Amount, Employment, Debt} |->
     CASE p = Age        -> AtLeast("integer", 18)
       [] p = Income     -> AtLeast("number", 0)
       [] p = Amount     -> AtLeast("number", 100)
       [] p = Employment -> [Field("string") EXCEPT !.enum = Employments]
       [] p = Debt       -> [Field("number") EXCEPT !.required = FALSE]]

Eligibility ==
  <<RuleOn("age_eligibility", <<"field", Age>>, "gte", Number(18), "mandatory"),
    RuleOn("minimum_income", <<"field", Income>>, "gte", Number(30000), "mandatory"),
    RuleOn("employment_check", <<"field", Employment>>, "not_in", List(<<Text("unemployed")>>),
           "soft")>>

Risk ==
  <<[RuleOn("credit_score_minimum", <<"field", Score>>, "gte", Number(650), "mandatory")
       EXCEPT !.fail_above = <<Number(580)>>],
    RuleOn("debt_to_income_ratio", <<"expression", Debt, "/", Income>>, "lte",
           <<"num", Percent(40)>>, "mandatory"),
    RuleOn("loan_amount_cap", <<"expression", Amount, "/", Income>>, "lte",
           <<"num", Percent(30)>>, "soft"),
    [RuleOn("high_value_flag", <<"field", Amount>>, "lte", Number(25000), "soft")
       EXCEPT !.action = "force_manual_review"]>>

CreditBureau ==
  [id |-> "credit_score_lookup", type |-> "external_dependency", rules |-> <<>>,
   on_failure |-> "reject",
   retry_policy |-> [max_attempts |-> 3, base_delay_ms |-> 200, max_delay_ms |-> 5000,
                     strategy |-> "exponential", retryable |-> {500, 502, 503, 504}],
   latency_ms |-> 300, maps |-> {Score}, answers |-> [{Score} -> {Number(n) : n \in Scores}]]

LoanApproval ==
  [schema |-> LoanSchema,
   stages |-> <<RulesStage("validate_input", "reject", Eligibility),
                CreditBureau,
                RulesStage("rule_evaluation", "reject", Risk)>>]

-----------------------------------------------------------------------------
\* employee_onboarding_v1.yaml
Clearance == Input("clearance_level")
Consent == Input("background_check_consent")
Background == Fetched("background_status")

OnboardingSchema ==
  [p \in {Clearance, Consent} |->
     CASE p = Clearance -> [AtLeast("integer", 1) EXCEPT !.maximum = <<5>>]
       [] p = Consent   -> Field("boolean")]

ConsentGate ==
  <<RuleOn("consent_given", <<"field", Consent>>, "is_true", Boolean(TRUE), "mandatory")>>

ClearanceRules ==
  <<RuleOn("background_clear", <<"field", Background>>, "equals", Text("clear"), "mandatory"),
    [RuleOn("high_clearance_review", <<"field", Clearance>>, "gte", Number(4), "soft")
       EXCEPT !.action = "force_manual_review"]>>

Screening ==
  [id |-> "background_check_api", type |-> "external_dependency", rules |-> <<>>,
   on_failure |-> "manual_review",
   retry_policy |-> [max_attempts |-> 3, base_delay_ms |-> 500, max_delay_ms |-> 10000,
                     strategy |-> "exponential", retryable |-> {500, 502, 503, 504}],
   latency_ms |-> 800, maps |-> {Background},
   answers |-> [{Background} -> {Text("clear"), Text("flagged"), Text("pending")}]]

Onboarding ==
  [schema |-> OnboardingSchema,
   stages |-> <<RulesStage("consent_check", "reject", ConsentGate),
                Screening,
                RulesStage("clearance_rules", "manual_review", ClearanceRules)>>]

Shipped == {"loan_approval_v1", "employee_onboarding_v1"}

\* A score is what the mock of the bureau draws (mock_api.py:294).
ASSUME ShippedAssumption ==
  /\ Shipped \subseteq DOMAIN Configs
  /\ Configs["loan_approval_v1"] = LoanApproval
  /\ Configs["employee_onboarding_v1"] = Onboarding
  /\ Scores \subseteq 300 .. 850

-----------------------------------------------------------------------------
\* Stored decisions of a workflow that was found.
Decided(w) == IsStored /\ workflow = w /\ Rows("EXECUTION_CREATED") # {}

\* The payload, among the values.
Given == [p \in DOMAIN values \ {Score} |-> values[p]]

\* Comparisons of a figure with a whole number, and of its share of another,
\* a quotient of floats, with a percentage.
Reaches(path, n) == LessEq(<<n, 1>>, values[path][2])
Within(path, n) == LessEq(values[path][2], <<n, 1>>)
Share(path, other) == Rounded(Over(Float(values[path]), Float(values[other])))
ShareWithin(path, percent, other) == LessEq(Share(path, other), Percent(percent))

\* What the YAML of the loan says, in the words of its rule descriptions and
\* as plain arithmetic on the applicant's figures.
LoanDecision ==
  IF ~ValidInput(LoanSchema, Given) \/ ~Reaches(Income, 30000) THEN "REJECTED"
  ELSE IF values[Employment] = Text("unemployed") THEN "MANUAL_REVIEW"
  ELSE IF ~Reaches(Score, 580) \/ ~ShareWithin(Debt, 40, Income) THEN "REJECTED"
  ELSE IF Reaches(Score, 650) /\ ShareWithin(Amount, 30, Income) /\ Within(Amount, 25000)
  THEN "APPROVED"
  ELSE "MANUAL_REVIEW"

\* Applicants the first stage lets pass, and among them those whose risk can be
\* assessed: the bureau answered, the payload states the debt, and float()
\* takes the figures.  Of the others the sources say nothing, or what the code
\* does not do: the schema has a default for the debt
\* (loan_approval_v1.yaml:29), and docs/architecture.md:358 has a bureau that
\* does not answer reject.
Eligible ==
  /\ ValidInput(LoanSchema, Given)
  /\ Reaches(Income, 30000) /\ values[Employment] # Text("unemployed")

RiskFigures == {Debt, Amount, Income}

Assessed ==
  /\ {Score, Debt} \subseteq DOMAIN values
  /\ \A p \in RiskFigures : ~Overflows(values[p])

\* A debt of exactly 40% is allowed by the threshold, lte 0.40, and not by the
\* description, "below 40%" (loan_approval_v1.yaml:94-97).
Disputed == SameNumber(Share(Debt, Income), Percent(40))

\* Stages, rules, operators, thresholds and failure policies combine to the
\* decision the loan's rules describe, at and on either side of every
\* threshold, wherever the sources agree on it (loan_approval_v1.yaml:11-118).
LoanAsDescribed ==
  Decided("loan_approval_v1") /\ (Eligible => Assessed /\ ~Disputed) => Kept.status = LoanDecision

\* A loan whose risk could not be assessed is neither approved nor left to a
\* reviewer as if it had been: an ERROR counts as a mandatory failure, an
\* exhausted call and an exception end the execution (rules_engine.py:85-90,
\* orchestrator.py:318-333, 571-580).
UnassessedNotApproved ==
  Decided("loan_approval_v1") /\ Eligible /\ ~Assessed => Kept.status \in {"REJECTED", "FAILED"}

\* Only figures beyond the floats make a rule of the loan raise.  A division by
\* zero does not: the stage before demands an income
\* (loan_approval_v1.yaml:43-48, 93-105, rules_engine.py:241-244).
OnlyHugeFiguresRaise ==
  Decided("loan_approval_v1") /\ Broken # {} =>
    \E p \in RiskFigures \cap DOMAIN values : Overflows(values[p])

\* A transaction that waits for retries is over before another writer of the
\* SQLite file gives up waiting for it (mock_api.py:223, db.py:216); it also
\* stays within the five seconds beyond which docs/architecture.md:493 calls
\* a synchronous run too long.
BusyTimeout == 5000
LockHeldBriefly == workflow \in Shipped /\ pc \in Active => waited < BusyTimeout

\* "Clearance level 4 or above requires HR manual review"
\* (employee_onboarding_v1.yaml:74).
HighClearanceReviewed ==
  Decided("employee_onboarding_v1") /\ Kept.status = "APPROVED" => ~Reaches(Clearance, 4)
=============================================================================
