----------------------- MODULE ShippedWorkflowsProofs -----------------------
(***************************************************************************)
(* Theorems about the two shipped workflows, for any payloads, any scores  *)
(* of the credit bureau, and beside any other workflows: the loan is       *)
(* decided as described, it is not approved unassessed, only figures       *)
(* beyond the floats make a rule of it raise, and the calls of both do not *)
(* hold their transaction for long.                                        *)
(*                                                                         *)
(* LoanInv says how much of the decision is settled at each stage: what    *)
(* the values are known to satisfy there, and, once the loop is left, that *)
(* the route is the one described.  WaitInv counts the milliseconds.       *)
(***************************************************************************)
EXTENDS ShippedWorkflows, ConcreteWorkflowsProofs

IsLoan == workflow = "loan_approval_v1"
IsOnboarding == workflow = "employee_onboarding_v1"

\* The figures of the payload.
Numbers ==
  \A p \in DOMAIN values \ {Score} :
    Kind(values[p]) = "num" => values[p][2] \in Figures \cap NumbersOfJSON

Scored == Score \in DOMAIN values /\ values[Score] \in {Number(n) : n \in Scores}

HasHuge == \E p \in RiskFigures \cap DOMAIN values : Overflows(values[p])

Sound(status) ==
  /\ (Eligible => Assessed) => status = LoanDecision
  /\ Eligible /\ ~Assessed => status \in {"REJECTED", "FAILED"}

Decides(status, l) == Sound(status) /\ (HasBroken(l) => HasHuge)

LoanInv ==
  IsLoan =>
    /\ Numbers
    /\ pc \in {"load", "validate"} => Score \notin DOMAIN values
    /\ pc \in {"stage", "calling"} =>
         /\ ValidInput(LoanSchema, Given)
         /\ at > 1 => Eligible
         /\ IF at = 3 THEN Scored ELSE Score \notin DOMAIN values
    /\ pc = "final" => Decides(FinalStatus(routing), log)
    /\ pc = "commit" /\ Created(log) => Decides(row.status, log)
    /\ stored # None /\ Created(stored.log) => Decides(stored.row.status, stored.log)

-----------------------------------------------------------------------------
\* The milliseconds waited before each attempt of the second stage's call,
\* and at most after it.
Before ==
  IF IsLoan THEN <<0, 550, 1350>> ELSE <<0, 1425, 3475>>
After == IF IsLoan THEN 1650 ELSE 4275

WaitInv ==
  workflow \in Shipped =>
    /\ pc \in {"load", "validate"} \/ (pc = "stage" /\ at <= 2) => waited = 0
    /\ pc = "calling" => at = 2 /\ attempt \in 0 .. 2 /\ waited = Before[attempt + 1]
    /\ waited \in 0 .. After
-----------------------------------------------------------------------------
\* A number compared with a whole number, by a rule on a field.
LEMMA AtLeastOutcome ==
  ASSUME NEW rule, NEW p \in DOMAIN values, NEW n \in Int,
         rule.value = <<"field", p>>, rule.operator = "gte", rule.threshold = Number(n),
         Kind(values[p]) = "num"
  PROVE  OutcomeOf(rule, values) = IF Reaches(p, n) THEN "pass" ELSE Failed(rule, values[p])
<1>1. Resolving(rule, values) = "value" /\ ActualValue(rule, values) = values[p]
  BY DEF Resolving, IsExpression, ActualValue
<1>2. Kind(rule.threshold) = "num" /\ Exact(rule.threshold) = <<n, 1>>
  BY DEF Number, Kind, Exact
<1>3. Coerced(values[p], rule.threshold) = values[p] /\ Exact(values[p]) = values[p][2]
  BY DEF Coerced, Exact
<1>4. ~LooksInside("gte", values[p], rule.threshold)
  BY <1>2 DEF LooksInside, OnTexts, Memberships
<1>5. ~Raises("gte", values[p], rule.threshold) /\ "gte" \in Operators
  BY <1>2, <1>4 DEF Raises, Numeric, Orders, Memberships, Operators
<1>6. Holds("gte", values[p], rule.threshold) <=> Reaches(p, n)
  BY <1>2, <1>3, <1>4 DEF Holds, Reaches
<1> QED BY <1>1, <1>3, <1>5, <1>6 DEF OutcomeOf, Compare

\* The other way round.
LEMMA AtMostOutcome ==
  ASSUME NEW rule, NEW p \in DOMAIN values, NEW n \in Int,
         rule.value = <<"field", p>>, rule.operator = "lte", rule.threshold = Number(n),
         rule.fail_above = <<>>, Kind(values[p]) = "num"
  PROVE  OutcomeOf(rule, values) = IF Within(p, n) THEN "pass" ELSE "fail"
<1>1. Resolving(rule, values) = "value" /\ ActualValue(rule, values) = values[p]
  BY DEF Resolving, IsExpression, ActualValue
<1>2. Kind(rule.threshold) = "num" /\ Exact(rule.threshold) = <<n, 1>>
  BY DEF Number, Kind, Exact
<1>3. Coerced(values[p], rule.threshold) = values[p] /\ Exact(values[p]) = values[p][2]
  BY DEF Coerced, Exact
<1>4. ~LooksInside("lte", values[p], rule.threshold)
  BY <1>2 DEF LooksInside, OnTexts, Memberships
<1>5. ~Raises("lte", values[p], rule.threshold) /\ "lte" \in Operators
  BY <1>2, <1>4 DEF Raises, Numeric, Orders, Memberships, Operators
<1>6. Holds("lte", values[p], rule.threshold) <=> Within(p, n)
  BY <1>2, <1>3, <1>4 DEF Holds, Within
<1>7. Failed(rule, values[p]) = "fail"
  BY DEF Failed
<1> QED BY <1>1, <1>3, <1>5, <1>6, <1>7 DEF OutcomeOf, Compare

\* The same for a rule on a share of another figure, of two that float() takes.
LEMMA ShareOutcome ==
  ASSUME NEW rule, NEW p, NEW q, NEW percent \in Nat,
         rule.value = <<"expression", p, "/", q>>, rule.operator = "lte",
         rule.threshold = <<"num", Percent(percent)>>, rule.fail_above = <<>>,
         {p, q} \subseteq DOMAIN values,
         \A x \in {p, q} : Kind(values[x]) = "num" /\ ~Overflows(values[x]),
         Float(values[q])[1] # 0
  PROVE  OutcomeOf(rule, values) = IF ShareWithin(p, percent, q) THEN "pass" ELSE "fail"
<1>1. IsExpression(rule) /\ Left(rule) = p /\ Right(rule) = q /\ rule.value[3] = "/"
  BY DEF IsExpression, Left, Right
<1>2. Operand(p, values) = "value" /\ Operand(q, values) = "value"
  BY DEF Operand, Conversion, IsFloat
<1>3. Resolving(rule, values) = "value"
  BY <1>1, <1>2 DEF Resolving, Then, DividesByZero
<1>4. PICK share : share = Share(p, q)
  OBVIOUS
<1>5. ActualValue(rule, values) = <<"num", share>>
  BY <1>1, <1>4 DEF ActualValue, Arithmetic, Share
<1>6. PICK v : v = <<"num", share>>
  OBVIOUS
<1>7. Kind(v) = "num" /\ Exact(v) = share
  BY <1>6 DEF Kind, Exact
<1>8. Kind(rule.threshold) = "num" /\ Exact(rule.threshold) = Percent(percent)
  BY DEF Kind, Exact
<1>9. Coerced(v, rule.threshold) = v
  BY <1>7 DEF Coerced
<1>10. ~LooksInside("lte", v, rule.threshold)
  BY <1>7 DEF LooksInside, OnTexts, Memberships
<1>11. ~Raises("lte", v, rule.threshold) /\ "lte" \in Operators
  BY <1>7, <1>8, <1>10 DEF Raises, Numeric, Orders, Memberships, Operators
<1>12. Holds("lte", v, rule.threshold) <=> ShareWithin(p, percent, q)
  BY <1>4, <1>7, <1>8, <1>10 DEF Holds, ShareWithin
<1>13. Failed(rule, v) = "fail"
  BY DEF Failed
<1> QED BY <1>3, <1>5, <1>6, <1>9, <1>11, <1>12, <1>13 DEF OutcomeOf, Compare

\* Of two of which float() does not take one, the rule raises.
LEMMA ShareRaises ==
  ASSUME NEW rule, NEW p, NEW op, NEW q, rule.value = <<"expression", p, op, q>>,
         {p, q} \subseteq DOMAIN values, \A x \in {p, q} : Kind(values[x]) = "num",
         Overflows(values[p]) \/ Overflows(values[q])
  PROVE  OutcomeOf(rule, values) = "raise"
<1>1. IsExpression(rule) /\ Left(rule) = p /\ Right(rule) = q
  BY DEF IsExpression, Left, Right
<1>2. /\ Operand(p, values) = IF Overflows(values[p]) THEN "raise" ELSE "value"
      /\ Operand(q, values) = IF Overflows(values[q]) THEN "raise" ELSE "value"
  BY DEF Operand, Conversion, IsFloat
<1>3. Resolving(rule, values) = "raise"
  BY <1>1, <1>2 DEF Resolving, Then
<1> QED BY <1>3 DEF OutcomeOf
-----------------------------------------------------------------------------
LoanPaths == {Age, Income, Amount, Employment, Debt}

\* The paths of the loan are different ones, and the score is not in the payload.
LEMMA PathsDiffer ==
  /\ Age # Income /\ Age # Amount /\ Age # Employment /\ Age # Debt
  /\ Income # Amount /\ Income # Employment /\ Income # Debt
  /\ Amount # Employment /\ Amount # Debt /\ Employment # Debt
  /\ Score \notin LoanPaths
BY DEF Age, Income, Amount, Employment, Debt, Score, Input, Fetched, LoanPaths

\* What the schema says of each field.
LEMMA LoanFields ==
  /\ DOMAIN LoanSchema = LoanPaths
  /\ LoanSchema[Age] = AtLeast("integer", 18)
  /\ LoanSchema[Income] = AtLeast("number", 0)
  /\ LoanSchema[Amount] = AtLeast("number", 100)
  /\ LoanSchema[Employment] = [Field("string") EXCEPT !.enum = Employments]
  /\ LoanSchema[Debt] = [Field("number") EXCEPT !.required = FALSE]
<1> USE PathsDiffer DEF LoanPaths
<1>1. DOMAIN LoanSchema = LoanPaths
  BY DEF LoanSchema
<1>2. LoanSchema[Age] = AtLeast("integer", 18)
  BY DEF LoanSchema
<1>3. LoanSchema[Income] = AtLeast("number", 0)
  BY DEF LoanSchema
<1>4. LoanSchema[Amount] = AtLeast("number", 100)
  BY DEF LoanSchema
<1>5. LoanSchema[Employment] = [Field("string") EXCEPT !.enum = Employments]
  BY DEF LoanSchema
<1>6. LoanSchema[Debt] = [Field("number") EXCEPT !.required = FALSE]
  BY DEF LoanSchema
<1> QED BY <1>1, <1>2, <1>3, <1>4, <1>5, <1>6

\* A required number is there.
LEMMA RequiredMet ==
  ASSUME Numbers, NEW p \in LoanPaths, NEW type \in {"integer", "number"}, NEW n \in Int,
         LoanSchema[p] = AtLeast(type, n), ValidInput(LoanSchema, Given)
  PROVE  /\ p \in DOMAIN values /\ Kind(values[p]) = "num"
         /\ values[p][2] \in Figures \cap NumbersOfJSON
         /\ FieldValid(AtLeast(type, n), values[p])
<1>1. LoanSchema[p].required /\ LoanSchema[p].type = type
  BY DEF AtLeast, Field
<1>2. p \in DOMAIN Given /\ FieldValid(LoanSchema[p], Given[p])
  BY <1>1, LoanFields DEF ValidInput
<1>3. p \in DOMAIN values \ {Score} /\ Given[p] = values[p]
  BY <1>2 DEF Given
<1>4. Kind(values[p]) = "num"
  <2>1. OfType(type, values[p])
    BY <1>1, <1>2, <1>3 DEF FieldValid
  <2> QED BY <2>1 DEF OfType
<1> QED BY <1>2, <1>3, <1>4 DEF Numbers

\* What a valid payload has.
LEMMA ValidLoan ==
  ASSUME Numbers, ValidInput(LoanSchema, Given)
  PROVE  /\ {Age, Income, Amount, Employment} \subseteq DOMAIN values
         /\ \A p \in {Age, Income, Amount} :
              Kind(values[p]) = "num" /\ values[p][2] \in Figures \cap NumbersOfJSON
         /\ Reaches(Age, 18) /\ values[Employment] \in Employments
         /\ Debt \in DOMAIN values => Kind(values[Debt]) = "num"
<1>1. Age \in DOMAIN values /\ Kind(values[Age]) = "num" /\ Reaches(Age, 18)
      /\ values[Age][2] \in Figures \cap NumbersOfJSON
  <2>1. /\ Age \in DOMAIN values /\ Kind(values[Age]) = "num"
        /\ values[Age][2] \in Figures \cap NumbersOfJSON
        /\ FieldValid(AtLeast("integer", 18), values[Age])
    BY LoanFields, RequiredMet DEF LoanPaths
  <2>2. /\ AtLeast("integer", 18).type = "integer" /\ AtLeast("integer", 18).minimum = <<18>>
        /\ <<18>> # <<>> /\ <<18>>[1] = 18
    BY DEF AtLeast, Field
  <2>3. Finite(values[Age][2]) /\ ~Less(values[Age][2], <<18, 1>>)
    BY <2>1, <2>2 DEF FieldValid, OfType, Exact
  <2>4. PICK a \in Int, d \in Nat : values[Age][2] = <<a, d>> /\ d # 0
    BY <2>1, <2>3 DEF NumbersOfJSON, Infinity, NaN, Finite
  <2>5. <<a, d>> # NaN /\ <<18, 1>> # NaN /\ Finite(<<a, d>>) /\ Finite(<<18, 1>>)
    BY <2>4 DEF NaN, Finite
  <2>6. (LessEq(<<a, d>>, <<18, 1>>) <=> a <= 18 * d) /\ (LessEq(<<18, 1>>, <<a, d>>) <=> 18 * d <= a)
    BY <2>5 DEF LessEq
  <2>7. LessEq(<<18, 1>>, <<a, d>>)
    BY <2>3, <2>4, <2>6 DEF Less
  <2> QED BY <2>1, <2>4, <2>7 DEF Reaches
<1>2. Income \in DOMAIN values /\ Kind(values[Income]) = "num"
      /\ values[Income][2] \in Figures \cap NumbersOfJSON
  BY LoanFields, RequiredMet DEF LoanPaths
<1>3. Amount \in DOMAIN values /\ Kind(values[Amount]) = "num"
      /\ values[Amount][2] \in Figures \cap NumbersOfJSON
  BY LoanFields, RequiredMet DEF LoanPaths
<1>4. Employment \in DOMAIN values /\ values[Employment] \in Employments
  <2>1. LoanSchema[Employment].required /\ LoanSchema[Employment].enum = Employments
    BY LoanFields DEF Field
  <2>2. Employment \in DOMAIN Given /\ FieldValid(LoanSchema[Employment], Given[Employment])
    BY <2>1, LoanFields DEF ValidInput, LoanPaths
  <2>3. Employments # {}
    BY DEF Employments
  <2> QED BY <2>1, <2>2, <2>3 DEF FieldValid, Given
<1>5. ASSUME Debt \in DOMAIN values PROVE Kind(values[Debt]) = "num"
  <2>1. Debt \in DOMAIN Given /\ Given[Debt] = values[Debt]
    BY <1>5, PathsDiffer DEF Given, LoanPaths
  <2>2. FieldValid(LoanSchema[Debt], values[Debt])
    BY <2>1, LoanFields DEF ValidInput, LoanPaths
  <2>3. LoanSchema[Debt].type = "number"
    BY LoanFields DEF Field
  <2> QED BY <2>2, <2>3 DEF FieldValid, OfType
<1> QED BY <1>1, <1>2, <1>3, <1>4, <1>5

\* An income of 30000 or more is a divisor.
LEMMA IncomeDivides ==
  ASSUME Numbers, Eligible
  PROVE  Float(values[Income])[1] # 0
<1>1. Kind(values[Income]) = "num" /\ values[Income][2] \in Figures \cap NumbersOfJSON
  BY ValidLoan DEF Eligible
<1>2. PICK a \in Int, d \in Nat : values[Income][2] = <<a, d>>
  BY <1>1 DEF NumbersOfJSON, Infinity, NaN
<1>3. LessEq(<<30000, 1>>, <<a, d>>)
  BY <1>2 DEF Eligible, Reaches
<1>4. Finite(<<30000, 1>>) /\ Finite(<<1, 1>>) /\ <<1, 1>> # NaN
  BY DEF Finite, NaN
<1>5. <<a, d>> # NaN /\ 30000 * d <= a * 1
  BY <1>3, <1>4 DEF LessEq
<1>6. LessEq(<<1, 1>>, <<a, d>>)
  <2>1. 1 * d <= a * 1
    BY <1>5
  <2> QED BY <1>4, <1>5, <2>1 DEF LessEq
<1>7. PICK r : r = Rounded(<<a, d>>)
  OBVIOUS
<1>8. r \in NumbersOfJSON /\ LessEq(<<1, 1>>, r)
  BY <1>1, <1>2, <1>6, <1>7, RoundingAssumption
<1>9. PICK b \in Int, c \in Nat : r = <<b, c>>
  BY <1>8 DEF NumbersOfJSON, Infinity, NaN
<1>10. r # NaN /\ 1 * c <= b * 1
  BY <1>4, <1>8, <1>9 DEF LessEq
<1>11. b # 0
  BY <1>9, <1>10 DEF NaN
<1> QED BY <1>1, <1>2, <1>7, <1>9, <1>11 DEF Float, Exact
-----------------------------------------------------------------------------
\* What a failed rule of each severity does to its stage, without an action of
\* its own and with the one that forces a review.
LEMMA MandatoryRule ==
  ASSUME NEW rule, rule.severity = "mandatory", rule.action = None, rule.route = "manual_review",
         NEW o
  PROVE  /\ TriggersHardReject(EvaluateRule(AbstractRule(rule), o)) <=> o \notin {"pass", "fail_above"}
         /\ TriggersManualReview(EvaluateRule(AbstractRule(rule), o)) <=> o = "fail_above"
BY WorkflowsAssumption DEF AbstractRule, EvaluateRule, TriggersHardReject, TriggersManualReview

\* A soft rule asks for a review.
LEMMA SoftRule ==
  ASSUME NEW rule, rule.severity = "soft", NEW o
  PROVE  /\ ~TriggersHardReject(EvaluateRule(AbstractRule(rule), o))
         /\ TriggersManualReview(EvaluateRule(AbstractRule(rule), o)) <=> o # "pass"
BY DEF AbstractRule, EvaluateRule, TriggersHardReject, TriggersManualReview

\* How the applicant's figures come out in the first stage.
LEMMA EligibilityOutcomes ==
  ASSUME Numbers, ValidInput(LoanSchema, Given)
  PROVE  /\ OutcomeOf(Eligibility[1], values) = "pass"
         /\ OutcomeOf(Eligibility[2], values) = IF Reaches(Income, 30000) THEN "pass" ELSE "fail"
         /\ OutcomeOf(Eligibility[3], values) =
              IF values[Employment] = Text("unemployed") THEN "fail" ELSE "pass"
<1>1. /\ Eligibility[1].value = <<"field", Age>> /\ Eligibility[1].operator = "gte"
      /\ Eligibility[1].threshold = Number(18) /\ Eligibility[1].fail_above = <<>>
  BY DEF Eligibility, RuleOn
<1>2. /\ Eligibility[2].value = <<"field", Income>> /\ Eligibility[2].operator = "gte"
      /\ Eligibility[2].threshold = Number(30000) /\ Eligibility[2].fail_above = <<>>
  BY DEF Eligibility, RuleOn
<1>3. /\ Eligibility[3].value = <<"field", Employment>> /\ Eligibility[3].operator = "not_in"
      /\ Eligibility[3].threshold = List(<<Text("unemployed")>>) /\ Eligibility[3].fail_above = <<>>
  BY DEF Eligibility, RuleOn
<1>4. OutcomeOf(Eligibility[1], values) = "pass"
  <2>1. Age \in DOMAIN values /\ Kind(values[Age]) = "num" /\ Reaches(Age, 18)
    BY ValidLoan
  <2>2. PICK rule : rule = Eligibility[1]
    OBVIOUS
  <2>3. rule.value = <<"field", Age>> /\ rule.operator = "gte" /\ rule.threshold = Number(18)
    BY <1>1, <2>2
  <2>4. OutcomeOf(rule, values) = "pass"
    BY <2>1, <2>3, AtLeastOutcome
  <2> QED BY <2>2, <2>4
<1>5. OutcomeOf(Eligibility[2], values) = IF Reaches(Income, 30000) THEN "pass" ELSE "fail"
  <2>1. Income \in DOMAIN values /\ Kind(values[Income]) = "num"
    BY ValidLoan
  <2>2. PICK rule : rule = Eligibility[2]
    OBVIOUS
  <2>3. /\ rule.value = <<"field", Income>> /\ rule.operator = "gte"
        /\ rule.threshold = Number(30000) /\ rule.fail_above = <<>>
    BY <1>2, <2>2
  <2>4. OutcomeOf(rule, values) =
          IF Reaches(Income, 30000) THEN "pass" ELSE Failed(rule, values[Income])
    BY <2>1, <2>3, AtLeastOutcome
  <2>5. Failed(rule, values[Income]) = "fail"
    BY <2>3 DEF Failed
  <2> QED BY <2>2, <2>4, <2>5
<1>6. OutcomeOf(Eligibility[3], values) =
        IF values[Employment] = Text("unemployed") THEN "fail" ELSE "pass"
  <2> DEFINE rule == Eligibility[3]
             v == values[Employment]
  <2>1. Employment \in DOMAIN values /\ v \in Employments
    BY ValidLoan
  <2>2. Resolving(rule, values) = "value" /\ ActualValue(rule, values) = v
    BY <1>3, <2>1 DEF Resolving, IsExpression, ActualValue
  <2>3. Kind(rule.threshold) = "list" /\ rule.threshold[2] = <<Text("unemployed")>>
    BY <1>3 DEF List, Kind
  <2>4. Kind(v) = "str" /\ v[2] \in {<<t, <<>>>> : t \in {"employed", "self_employed", "unemployed", "retired"}}
    BY <2>1 DEF Employments, Text, Kind
  <2>5. Coerced(v, rule.threshold) = v
    BY <2>3 DEF Coerced, Numeric
  <2>6. ~LooksInside("not_in", v, rule.threshold)
    BY <2>3 DEF LooksInside, OnTexts, Orders
  <2>7. ~Raises("not_in", v, rule.threshold) /\ "not_in" \in Operators
    BY <2>3, <2>6 DEF Raises, Orders, Memberships, Operators
  <2>8. Same(v, Text("unemployed")) <=> v = Text("unemployed")
    BY <2>1, <2>4 DEF Same, Numeric, Text, Kind, Employments
  <2>9. Holds("not_in", v, rule.threshold) <=> v # Text("unemployed")
    BY <2>3, <2>6, <2>8 DEF Holds
  <2> HIDE DEF v, rule
  <2>10. Failed(rule, v) = "fail" /\ rule.operator = "not_in"
    BY <1>3 DEF Failed, rule
  <2>11. Compare(rule, v) = IF v = Text("unemployed") THEN "fail" ELSE "pass"
    BY <2>5, <2>7, <2>9, <2>10 DEF Compare
  <2> QED BY <2>2, <2>11 DEF OutcomeOf, v, rule
<1> QED BY <1>4, <1>5, <1>6

\* float() takes small whole numbers as they are.
LEMMA WholeFloat ==
  ASSUME NEW m \in 0 .. 1000
  PROVE  Conversion(Number(m)) = "value" /\ Float(Number(m)) = <<m, 1>>
<1>1. Kind(Number(m)) = "num" /\ Number(m)[2] = <<m, 1>>
  BY DEF Kind, Number
<1>2. MaxFloat \in Nat /\ 1000 < MaxFloat /\ Rounded(<<m, 1>>) = <<m, 1>>
  BY FloatsAssumption
<1>3. ~(m > MaxFloat * 1) /\ ~(m < -MaxFloat * 1)
  BY <1>2
<1>4. IsFloat(Number(m)) /\ ~Overflows(Number(m))
  BY <1>1, <1>3 DEF IsFloat, Overflows
<1>5. Exact(Number(m)) = <<m, 1>>
  BY <1>1 DEF Exact
<1> QED BY <1>1, <1>2, <1>4, <1>5 DEF Conversion, Float

\* How the bureau's score comes out, of which float() takes any.
LEMMA ScoreOutcome ==
  ASSUME Scored
  PROVE  OutcomeOf(Risk[1], values) =
           IF Reaches(Score, 650) THEN "pass" ELSE IF Reaches(Score, 580) THEN "fail_above" ELSE "fail"
<1>1. PICK rule : rule = Risk[1]
  OBVIOUS
<1>2. /\ rule.value = <<"field", Score>> /\ rule.operator = "gte" /\ rule.threshold = Number(650)
      /\ rule.fail_above = <<Number(580)>>
  BY <1>1 DEF Risk, RuleOn
<1>3. PICK n \in 300 .. 850 : values[Score] = Number(n)
  BY ShippedAssumption DEF Scored
<1>4. /\ Conversion(values[Score]) = "value" /\ Float(values[Score]) = <<n, 1>>
      /\ values[Score][2] = <<n, 1>> /\ Kind(values[Score]) = "num"
  <2>1. Conversion(Number(n)) = "value" /\ Float(Number(n)) = <<n, 1>>
    <3>1. n \in 0 .. 1000
      OBVIOUS
    <3> QED BY <3>1, WholeFloat
  <2>2. Number(n)[2] = <<n, 1>> /\ Kind(Number(n)) = "num"
    BY DEF Number, Kind
  <2> QED BY <1>3, <2>1, <2>2
<1>5. /\ Conversion(rule.fail_above[1]) = "value" /\ Float(rule.fail_above[1]) = <<580, 1>>
      /\ rule.fail_above # <<>>
  <2>1. rule.fail_above[1] = Number(580) /\ 580 \in 0 .. 1000 /\ rule.fail_above # <<>>
    BY <1>2
  <2> QED BY <2>1, WholeFloat
<1>6. Failed(rule, values[Score]) = IF Reaches(Score, 580) THEN "fail_above" ELSE "fail"
  BY <1>4, <1>5 DEF Failed, Then, AboveFailThreshold, Reaches
<1>7. OutcomeOf(rule, values) =
        IF Reaches(Score, 650) THEN "pass" ELSE Failed(rule, values[Score])
  BY <1>2, <1>4, AtLeastOutcome DEF Scored
<1> QED BY <1>1, <1>6, <1>7

\* How the figures come out in the last stage, once the income is known not to
\* be too small.
LEMMA RiskOutcomes ==
  ASSUME Numbers, Eligible
  PROVE  /\ OutcomeOf(Risk[2], values) =
              IF Debt \notin DOMAIN values THEN "error"
              ELSE IF Overflows(values[Debt]) \/ Overflows(values[Income]) THEN "raise"
              ELSE IF ShareWithin(Debt, 40, Income) THEN "pass" ELSE "fail"
         /\ OutcomeOf(Risk[3], values) =
              IF Overflows(values[Amount]) \/ Overflows(values[Income]) THEN "raise"
              ELSE IF ShareWithin(Amount, 30, Income) THEN "pass" ELSE "fail"
         /\ OutcomeOf(Risk[4], values) = IF Within(Amount, 25000) THEN "pass" ELSE "fail"
<1>1. /\ {Income, Amount} \subseteq DOMAIN values
      /\ \A p \in {Income, Amount} : Kind(values[p]) = "num"
      /\ Debt \in DOMAIN values => Kind(values[Debt]) = "num"
  BY ValidLoan DEF Eligible
<1>2. Float(values[Income])[1] # 0
  BY IncomeDivides
<1>3. OutcomeOf(Risk[2], values) =
        IF Debt \notin DOMAIN values THEN "error"
        ELSE IF Overflows(values[Debt]) \/ Overflows(values[Income]) THEN "raise"
        ELSE IF ShareWithin(Debt, 40, Income) THEN "pass" ELSE "fail"
  <2>1. PICK rule : rule = Risk[2]
    OBVIOUS
  <2>2. /\ rule.value = <<"expression", Debt, "/", Income>> /\ rule.operator = "lte"
        /\ rule.threshold = <<"num", Percent(40)>> /\ rule.fail_above = <<>>
    BY <2>1 DEF Risk, RuleOn
  <2>3. CASE Debt \notin DOMAIN values
    <3>1. Operand(Left(rule), values) = "error" /\ IsExpression(rule)
      BY <2>2, <2>3 DEF Operand, Left, IsExpression
    <3>2. Resolving(rule, values) = "error"
      BY <3>1 DEF Resolving, Then
    <3> QED BY <2>1, <2>3, <3>2 DEF OutcomeOf
  <2>4. CASE Debt \in DOMAIN values /\ (Overflows(values[Debt]) \/ Overflows(values[Income]))
    <3>1. OutcomeOf(rule, values) = "raise"
      BY <1>1, <2>2, <2>4, ShareRaises
    <3> QED BY <2>1, <2>4, <3>1
  <2>5. CASE Debt \in DOMAIN values /\ ~Overflows(values[Debt]) /\ ~Overflows(values[Income])
    <3>1. OutcomeOf(rule, values) = IF ShareWithin(Debt, 40, Income) THEN "pass" ELSE "fail"
      BY <1>1, <1>2, <2>2, <2>5, ShareOutcome
    <3> QED BY <2>1, <2>5, <3>1
  <2> QED BY <2>3, <2>4, <2>5
<1>4. OutcomeOf(Risk[3], values) =
        IF Overflows(values[Amount]) \/ Overflows(values[Income]) THEN "raise"
        ELSE IF ShareWithin(Amount, 30, Income) THEN "pass" ELSE "fail"
  <2>1. PICK rule : rule = Risk[3]
    OBVIOUS
  <2>2. /\ rule.value = <<"expression", Amount, "/", Income>> /\ rule.operator = "lte"
        /\ rule.threshold = <<"num", Percent(30)>> /\ rule.fail_above = <<>>
    BY <2>1 DEF Risk, RuleOn
  <2>3. CASE Overflows(values[Amount]) \/ Overflows(values[Income])
    <3>1. OutcomeOf(rule, values) = "raise"
      BY <1>1, <2>2, <2>3, ShareRaises
    <3> QED BY <2>1, <2>3, <3>1
  <2>4. CASE ~Overflows(values[Amount]) /\ ~Overflows(values[Income])
    <3>1. OutcomeOf(rule, values) = IF ShareWithin(Amount, 30, Income) THEN "pass" ELSE "fail"
      BY <1>1, <1>2, <2>2, <2>4, ShareOutcome
    <3> QED BY <2>1, <2>4, <3>1
  <2> QED BY <2>3, <2>4
<1>5. OutcomeOf(Risk[4], values) = IF Within(Amount, 25000) THEN "pass" ELSE "fail"
  <2>1. PICK rule : rule = Risk[4]
    OBVIOUS
  <2>2. /\ rule.value = <<"field", Amount>> /\ rule.operator = "lte"
        /\ rule.threshold = Number(25000) /\ rule.fail_above = <<>>
    BY <2>1 DEF Risk, RuleOn
  <2>3. OutcomeOf(rule, values) = IF Within(Amount, 25000) THEN "pass" ELSE "fail"
    BY <1>1, <2>2, AtMostOutcome
  <2> QED BY <2>1, <2>3
<1> QED BY <1>3, <1>4, <1>5

\* What a stage makes of the outcomes of its rules.
LEMMA VerdictOf ==
  ASSUME NEW rules, NEW e, NEW abstract,
         DOMAIN e = DOMAIN rules,
         abstract = [i \in DOMAIN rules |-> AbstractRule(rules[i])]
  PROVE  StageVerdict(EvaluateStageRules(abstract, e)) =
           IF \E i \in DOMAIN rules : TriggersHardReject(EvaluateRule(AbstractRule(rules[i]), e[i]))
           THEN "reject"
           ELSE IF \E i \in DOMAIN rules :
                     TriggersManualReview(EvaluateRule(AbstractRule(rules[i]), e[i]))
           THEN "manual_review"
           ELSE "continue"
<1> DEFINE results == EvaluateStageRules(abstract, e)
<1>1. /\ DOMAIN results = DOMAIN rules
      /\ \A i \in DOMAIN rules : results[i] = EvaluateRule(AbstractRule(rules[i]), e[i])
  BY DEF EvaluateStageRules
<1> HIDE DEF results
<1>2. StageVerdict(results) =
        IF \E i \in DOMAIN rules : TriggersHardReject(results[i]) THEN "reject"
        ELSE IF \E i \in DOMAIN rules : TriggersManualReview(results[i]) THEN "manual_review"
        ELSE "continue"
  BY <1>1 DEF StageVerdict, HasHardFailure, HasSoftFailure
<1>3. /\ (\E i \in DOMAIN rules : TriggersHardReject(results[i])) <=>
           \E i \in DOMAIN rules : TriggersHardReject(EvaluateRule(AbstractRule(rules[i]), e[i]))
      /\ (\E i \in DOMAIN rules : TriggersManualReview(results[i])) <=>
           \E i \in DOMAIN rules : TriggersManualReview(EvaluateRule(AbstractRule(rules[i]), e[i]))
  BY <1>1
<1>4. StageVerdict(results) =
        IF \E i \in DOMAIN rules : TriggersHardReject(EvaluateRule(AbstractRule(rules[i]), e[i]))
        THEN "reject"
        ELSE IF \E i \in DOMAIN rules :
                  TriggersManualReview(EvaluateRule(AbstractRule(rules[i]), e[i]))
        THEN "manual_review"
        ELSE "continue"
  BY <1>2, <1>3
<1> QED BY <1>4 DEF results

\* The verdict of the first stage (loan_approval_v1.yaml:32-58).
LEMMA EligibilityVerdict ==
  ASSUME Numbers, ValidInput(LoanSchema, Given), NEW e, NEW abstract,
         e = [i \in DOMAIN Eligibility |-> OutcomeOf(Eligibility[i], values)],
         abstract = [i \in DOMAIN Eligibility |-> AbstractRule(Eligibility[i])]
  PROVE  /\ \A i \in DOMAIN e : e[i] # "raise"
         /\ StageVerdict(EvaluateStageRules(abstract, e)) =
              IF ~Reaches(Income, 30000) THEN "reject"
              ELSE IF values[Employment] = Text("unemployed") THEN "manual_review" ELSE "continue"
<1>1. DOMAIN Eligibility = {1, 2, 3} /\ DOMAIN e = DOMAIN Eligibility
  BY DEF Eligibility
<1>2. /\ e[1] = "pass" /\ e[2] = (IF Reaches(Income, 30000) THEN "pass" ELSE "fail")
      /\ e[3] = (IF values[Employment] = Text("unemployed") THEN "fail" ELSE "pass")
  BY <1>1, EligibilityOutcomes
<1>3. \A i \in {1, 2} : /\ Eligibility[i].severity = "mandatory" /\ Eligibility[i].action = None
                        /\ Eligibility[i].route = "manual_review"
  BY DEF Eligibility, RuleOn
<1>4. Eligibility[3].severity = "soft"
  BY DEF Eligibility, RuleOn
<1> DEFINE rejects(i) == TriggersHardReject(EvaluateRule(AbstractRule(Eligibility[i]), e[i]))
           reviews(i) == TriggersManualReview(EvaluateRule(AbstractRule(Eligibility[i]), e[i]))
<1>5. /\ ~rejects(1) /\ ~reviews(1) /\ ~reviews(2)
      /\ rejects(2) <=> ~Reaches(Income, 30000)
  BY <1>2, <1>3, MandatoryRule
<1>6. ~rejects(3) /\ (reviews(3) <=> values[Employment] = Text("unemployed"))
  BY <1>2, <1>4, SoftRule
<1>7. StageVerdict(EvaluateStageRules(abstract, e)) =
        IF \E i \in DOMAIN Eligibility : rejects(i) THEN "reject"
        ELSE IF \E i \in DOMAIN Eligibility : reviews(i) THEN "manual_review" ELSE "continue"
  BY <1>1, VerdictOf
<1>8. \A i \in DOMAIN e : e[i] # "raise"
  BY <1>1, <1>2
<1> HIDE DEF rejects, reviews
<1>9. /\ (\E i \in DOMAIN Eligibility : rejects(i)) <=> ~Reaches(Income, 30000)
      /\ (\E i \in DOMAIN Eligibility : reviews(i)) <=> values[Employment] = Text("unemployed")
  BY <1>1, <1>5, <1>6
<1> QED BY <1>7, <1>8, <1>9

\* A score below 580 is below 650.
LEMMA ScoreReaches == Scored /\ Reaches(Score, 650) => Reaches(Score, 580)
<1> SUFFICES ASSUME Scored, Reaches(Score, 650) PROVE Reaches(Score, 580)
  OBVIOUS
<1>1. PICK n \in 300 .. 850 : values[Score] = Number(n)
  BY ShippedAssumption DEF Scored
<1>2. values[Score][2] = <<n, 1>>
  BY <1>1 DEF Number
<1>3. \A m \in Int : LessEq(<<m, 1>>, <<n, 1>>) <=> m <= n
  BY DEF LessEq, NaN, Finite
<1>4. LessEq(<<650, 1>>, <<n, 1>>)
  BY <1>2 DEF Reaches
<1>5. LessEq(<<580, 1>>, <<n, 1>>)
  BY <1>3, <1>4
<1> QED BY <1>2, <1>5 DEF Reaches

\* The verdict of the last stage: that of the descriptions, if the risk can be
\* assessed, and otherwise a rejection, unless a rule raises
\* (loan_approval_v1.yaml:79-113).
LEMMA RiskVerdict ==
  ASSUME Numbers, Eligible, Scored, NEW e, NEW abstract,
         e = [i \in DOMAIN Risk |-> OutcomeOf(Risk[i], values)],
         abstract = [i \in DOMAIN Risk |-> AbstractRule(Risk[i])]
  PROVE  LET verdict == StageVerdict(EvaluateStageRules(abstract, e))
         IN  /\ (\E i \in DOMAIN e : e[i] = "raise") => ~Assessed /\ HasHuge
             /\ Assessed =>
                  verdict = IF ~Reaches(Score, 580) \/ ~ShareWithin(Debt, 40, Income) THEN "reject"
                            ELSE IF /\ Reaches(Score, 650) /\ ShareWithin(Amount, 30, Income)
                                    /\ Within(Amount, 25000)
                            THEN "continue" ELSE "manual_review"
             /\ ~Assessed /\ (\A i \in DOMAIN e : e[i] # "raise") => verdict = "reject"
<1>1. DOMAIN Risk = {1, 2, 3, 4} /\ DOMAIN e = DOMAIN Risk
  BY DEF Risk
<1>2. /\ e[1] = (IF Reaches(Score, 650) THEN "pass"
                 ELSE IF Reaches(Score, 580) THEN "fail_above" ELSE "fail")
      /\ e[2] = (IF Debt \notin DOMAIN values THEN "error"
                 ELSE IF Overflows(values[Debt]) \/ Overflows(values[Income]) THEN "raise"
                 ELSE IF ShareWithin(Debt, 40, Income) THEN "pass" ELSE "fail")
      /\ e[3] = (IF Overflows(values[Amount]) \/ Overflows(values[Income]) THEN "raise"
                 ELSE IF ShareWithin(Amount, 30, Income) THEN "pass" ELSE "fail")
      /\ e[4] = (IF Within(Amount, 25000) THEN "pass" ELSE "fail")
  BY <1>1, ScoreOutcome, RiskOutcomes
<1>3. \A i \in {1, 2} : /\ Risk[i].severity = "mandatory" /\ Risk[i].action = None
                        /\ Risk[i].route = "manual_review"
  BY DEF Risk, RuleOn
<1>4. Risk[3].severity = "soft" /\ Risk[4].severity = "soft"
  BY DEF Risk, RuleOn
<1> DEFINE rejects(i) == TriggersHardReject(EvaluateRule(AbstractRule(Risk[i]), e[i]))
           reviews(i) == TriggersManualReview(EvaluateRule(AbstractRule(Risk[i]), e[i]))
<1>5. \A i \in {1, 2} : /\ rejects(i) <=> e[i] \notin {"pass", "fail_above"}
                        /\ reviews(i) <=> e[i] = "fail_above"
  BY <1>3, MandatoryRule
<1>6. \A i \in {3, 4} : ~rejects(i) /\ (reviews(i) <=> e[i] # "pass")
  BY <1>4, SoftRule
<1>7. StageVerdict(EvaluateStageRules(abstract, e)) =
        IF \E i \in DOMAIN Risk : rejects(i) THEN "reject"
        ELSE IF \E i \in DOMAIN Risk : reviews(i) THEN "manual_review" ELSE "continue"
  BY <1>1, VerdictOf
<1> HIDE DEF rejects, reviews
<1>8. {Income, Amount, Score} \subseteq DOMAIN values /\ RiskFigures = {Debt, Amount, Income}
  BY ValidLoan DEF Eligible, Scored, RiskFigures
<1>9. ASSUME \E i \in DOMAIN e : e[i] = "raise" PROVE ~Assessed /\ HasHuge
  <2>1. PICK p \in RiskFigures : p \in DOMAIN values /\ Overflows(values[p])
    BY <1>1, <1>2, <1>8, <1>9
  <2> QED BY <2>1 DEF Assessed, HasHuge
<1>10. ASSUME Assessed
       PROVE  StageVerdict(EvaluateStageRules(abstract, e)) =
                IF ~Reaches(Score, 580) \/ ~ShareWithin(Debt, 40, Income) THEN "reject"
                ELSE IF /\ Reaches(Score, 650) /\ ShareWithin(Amount, 30, Income)
                        /\ Within(Amount, 25000)
                THEN "continue" ELSE "manual_review"
  <2>1. /\ e[2] = (IF ShareWithin(Debt, 40, Income) THEN "pass" ELSE "fail")
        /\ e[3] = (IF ShareWithin(Amount, 30, Income) THEN "pass" ELSE "fail")
    BY <1>2, <1>8, <1>10 DEF Assessed
  <2>2. (\E i \in DOMAIN Risk : rejects(i)) <=> ~Reaches(Score, 580) \/ ~ShareWithin(Debt, 40, Income)
    BY <1>1, <1>2, <1>5, <1>6, <2>1, ScoreReaches
  <2>3. ASSUME Reaches(Score, 580), ShareWithin(Debt, 40, Income)
        PROVE  (\E i \in DOMAIN Risk : reviews(i)) <=>
                 ~(Reaches(Score, 650) /\ ShareWithin(Amount, 30, Income) /\ Within(Amount, 25000))
    BY <1>1, <1>2, <1>5, <1>6, <2>1, <2>3
  <2> QED BY <1>7, <2>2, <2>3
<1>11. ASSUME ~Assessed, \A i \in DOMAIN e : e[i] # "raise"
       PROVE  StageVerdict(EvaluateStageRules(abstract, e)) = "reject"
  <2>1. e[2] # "raise" /\ e[3] # "raise"
    BY <1>1, <1>11
  <2>2. ~Overflows(values[Amount]) /\ ~Overflows(values[Income])
    BY <1>2, <2>1
  <2>3. Debt \in DOMAIN values => ~Overflows(values[Debt])
    BY <1>2, <2>1
  <2>4. Debt \notin DOMAIN values
    BY <1>8, <1>11, <2>2, <2>3 DEF Assessed
  <2>5. rejects(2)
    BY <1>2, <1>5, <2>4
  <2> QED BY <1>1, <1>7, <2>5
<1> QED BY <1>9, <1>10, <1>11
-----------------------------------------------------------------------------
\* The stages of the loan, as the engine finds them.
LEMMA LoanStages ==
  ASSUME Inv, IsLoan
  PROVE  /\ Configs[workflow] = LoanApproval /\ Schema = LoanSchema
         /\ Len(Stages) = 3 /\ DOMAIN Stages = 1 .. 3
         /\ Stages[1].type = "rule_evaluation" /\ LoanApproval.stages[1].rules = Eligibility
         /\ Stages[1].rules = [i \in DOMAIN Eligibility |-> AbstractRule(Eligibility[i])]
         /\ Stages[2].type = "external_dependency" /\ LoanApproval.stages[2] = CreditBureau
         /\ Stages[2].on_failure = "reject" /\ Stages[2].max_attempts = 3
         /\ Stages[3].type = "rule_evaluation" /\ LoanApproval.stages[3].rules = Risk
         /\ Stages[3].rules = [i \in DOMAIN Risk |-> AbstractRule(Risk[i])]
<1>1. Configs[workflow] = LoanApproval /\ workflow \in DOMAIN Configs
  BY ShippedAssumption DEF IsLoan, Shipped
<1> DEFINE stages == LoanApproval.stages
<1>2. stages = <<RulesStage("validate_input", "reject", Eligibility), CreditBureau,
                 RulesStage("rule_evaluation", "reject", Risk)>>
  BY DEF LoanApproval
<1>3. Stages = [i \in DOMAIN stages |-> AbstractStage(stages[i])]
  BY <1>1, ConfigsAssumption DEF Stages
<1> HIDE DEF stages
<1>4. DOMAIN Stages = 1 .. 3 /\ stages[2] = CreditBureau
      /\ stages[1] = RulesStage("validate_input", "reject", Eligibility)
      /\ stages[3] = RulesStage("rule_evaluation", "reject", Risk)
  BY <1>2, <1>3
<1>5. Len(Stages) = 3
  <2>1. Stages \in Seq(StageConfigs)
    BY WorkflowsAssumption DEF Inv, Types, Stages
  <2> QED BY <1>4, <2>1
<1>6. /\ Stages[1] = AbstractStage(stages[1]) /\ Stages[2] = AbstractStage(stages[2])
      /\ Stages[3] = AbstractStage(stages[3])
  BY <1>3, <1>4
<1>7. /\ stages[1].rules = Eligibility /\ stages[1].type = "rule_evaluation"
      /\ stages[3].rules = Risk /\ stages[3].type = "rule_evaluation"
  BY <1>4 DEF RulesStage
<1>8. /\ Stages[1].type = "rule_evaluation"
      /\ Stages[1].rules = [i \in DOMAIN Eligibility |-> AbstractRule(Eligibility[i])]
      /\ Stages[3].type = "rule_evaluation"
      /\ Stages[3].rules = [i \in DOMAIN Risk |-> AbstractRule(Risk[i])]
  BY <1>6, <1>7 DEF AbstractStage
<1>9. /\ Stages[2].type = "external_dependency" /\ Stages[2].on_failure = "reject"
      /\ Stages[2].max_attempts = 3
  BY <1>4, <1>6 DEF AbstractStage, CreditBureau
<1>10. Schema = LoanSchema
  BY <1>1 DEF Schema, LoanApproval
<1> QED BY <1>1, <1>4, <1>5, <1>7, <1>8, <1>9, <1>10 DEF stages

\* Only an unexpected exception breaks a stage.
LEMMA OnlyFailedBroken ==
  ASSUME NEW S, NEW l, NEW status, Outcome(S, l, status), status # "FAILED"
  PROVE  ~HasBroken(l)
BY DEF Outcome, ReplayOf

\* Nor do rows break one that do not say so.
LEMMA StaysUnbroken ==
  ASSUME NEW l \in Seq(AuditRows), NEW s \in Seq(AuditRows), ~HasBroken(l),
         \A i \in DOMAIN s : s[i].event # "STAGE_FAILED" \/ s[i].result # "ERROR"
  PROVE  ~HasBroken(l \o s)
<1>1. PICK m : m = l \o s
  OBVIOUS
<1>2. /\ Extends(l, m) /\ Len(m) = Len(l) + Len(s) /\ m \in Seq(AuditRows)
      /\ \A i \in 1 .. Len(s) : m[Len(l) + i] = s[i]
  BY <1>1, Appended
<1>3. SUFFICES ASSUME NEW i \in DOMAIN m, m[i].event = "STAGE_FAILED", m[i].result = "ERROR"
               PROVE  FALSE
  BY <1>1 DEF HasBroken
<1>4. CASE i \in DOMAIN l
  BY <1>2, <1>3, <1>4 DEF HasBroken, Extends
<1>5. CASE i \notin DOMAIN l
  <2>1. i - Len(l) \in 1 .. Len(s) /\ Len(l) + (i - Len(l)) = i
    BY <1>2, <1>5
  <2>2. m[i] = s[i - Len(l)] /\ i - Len(l) \in DOMAIN s
    BY <1>2, <2>1
  <2> QED BY <1>3, <2>2
<1> QED BY <1>4, <1>5
\* _finalise writes the status it is given and breaks nothing.
LEMMA ConcludeDecides ==
  ASSUME NEW l \in Seq(AuditRows), NEW status \in Terminal, row \in ExecutionRows,
         Conclude(l, status)
  PROVE  row'.status = status /\ (HasBroken(log') => HasBroken(l))
<1> DEFINE told == Append(l, Transition(status))
           last == Row("EXECUTION_FINAL", None, status)
<1>1. status \in Texts /\ None \in Texts /\ {"STATUS_TRANSITION", "EXECUTION_FINAL"} \subseteq Events
  BY DEF Terminal, Status, Texts, Optional, Events
<1>2. Transition(status) \in AuditRows /\ last \in AuditRows
  BY <1>1, RowType DEF Transition
<1>3. Transition(status).event # "STAGE_FAILED" /\ last.event # "STAGE_FAILED"
  BY DEF Transition, Row
<1>4. row'.status = status /\ log' = Append(told, last)
  BY DEF Conclude, ExecutionRows
<1> HIDE DEF last
<1>5. /\ told \in Seq(AuditRows) /\ Len(told) = Len(l) + 1
      /\ \A i \in 1 .. Len(l) : told[i] = l[i]
      /\ told[Len(l) + 1] = Transition(status)
  BY <1>2, AppendProperties
<1> HIDE DEF told
<1>6. /\ Len(log') = Len(l) + 2 /\ log' \in Seq(AuditRows)
      /\ \A i \in 1 .. Len(l) + 1 : log'[i] = told[i]
      /\ log'[Len(l) + 2] = last
  BY <1>2, <1>4, <1>5, AppendProperties
<1>7. \A i \in DOMAIN log' : \/ i \in DOMAIN l /\ log'[i] = l[i]
                             \/ log'[i].event # "STAGE_FAILED"
  <2>1. \A i \in DOMAIN log' : i \in 1 .. Len(l) \/ i = Len(l) + 1 \/ i = Len(l) + 2
    BY <1>6
  <2>2. \A i \in 1 .. Len(l) : log'[i] = l[i]
    BY <1>5, <1>6
  <2>3. log'[Len(l) + 1].event # "STAGE_FAILED" /\ log'[Len(l) + 2].event # "STAGE_FAILED"
    BY <1>3, <1>5, <1>6
  <2> QED BY <2>1, <2>2, <2>3
<1>8. HasBroken(log') => HasBroken(l)
  BY <1>7 DEF HasBroken
<1> QED BY <1>4, <1>8

\* What depends on the values only does not change without them.
LEMMA SameValues ==
  ASSUME UNCHANGED values
  PROVE  /\ LoanDecision' = LoanDecision /\ Numbers' = Numbers /\ Scored' = Scored
         /\ Eligible' = Eligible /\ Assessed' = Assessed /\ HasHuge' = HasHuge /\ Given' = Given
         /\ ValidInput(LoanSchema, Given)' = ValidInput(LoanSchema, Given)
BY DEF LoanDecision, Numbers, Scored, Eligible, Assessed, HasHuge, Given, Reaches, Within, Share,
   ShareWithin, ValidInput

\* Without a score the values are the payload.
LEMMA GivenValid ==
  ASSUME Score \notin DOMAIN values
  PROVE  ValidInput(LoanSchema, values) <=> ValidInput(LoanSchema, Given)
<1>1. DOMAIN Given = DOMAIN values /\ \A p \in DOMAIN values : Given[p] = values[p]
  BY DEF Given
<1> QED BY <1>1 DEF ValidInput

\* Before the stages.
LEMMA LoanOpening ==
  ASSUME ConcreteInv, LogInv, LoanInv, IsLoan, LogInv',
         \/ (Start \/ ConfigMissing) /\ UNCHANGED data
         \/ RejectInput \/ AcceptInput
  PROVE  LoanInv'
<1>1. Inv /\ row \in ExecutionRows /\ log \in Seq(AuditRows)
  BY DEF ConcreteInv, Inv, Types
<1>2. UNCHANGED <<values, workflow, stored>> /\ stored = None
  BY <1>1 DEF Start, ConfigMissing, RejectInput, AcceptInput, InputInvalid, InputValid, data, Inv,
     Progress, Active
<1>3. IsLoan' /\ Score \notin DOMAIN values' /\ Numbers' /\ stored' = None
  BY <1>2, SameValues DEF IsLoan, LoanInv, Start, ConfigMissing, RejectInput, AcceptInput,
     InputInvalid, InputValid
<1>4. CASE Start
  BY <1>3, <1>4 DEF LoanInv, Start
<1>5. CASE ConfigMissing
  <2>1. pc' = "commit" /\ log' = <<Transition("FAILED")>>
    BY <1>5 DEF ConfigMissing
  <2>2. ~Created(log')
    BY <2>1 DEF Created, Transition, Row
  <2>3. ~Created(log)'
    BY <2>2 DEF Created
  <2> QED BY <1>3, <2>1, <2>3 DEF LoanInv
<1>6. CASE RejectInput
  <2>1. /\ Conclude(Append(log, Row("STAGE_FAILED", "__input_validation__", "FAIL")), "REJECTED")
        /\ pc' = "commit" /\ ~ValidInput(Schema, values)
    BY <1>6 DEF RejectInput, InputInvalid
  <2>2. Sound("REJECTED")
    BY <1>1, <1>3, <1>2, <2>1, LoanStages, GivenValid DEF Sound, Eligible, LoanDecision
  <2>3. row'.status = "REJECTED"
    BY <1>1, <2>1 DEF Conclude, ExecutionRows
  <2>4. Settled(Stages', row', log')
    BY <2>1 DEF LogInv
  <2>5. ~HasBroken(log')
    BY <2>3, <2>4, OnlyFailedBroken DEF Settled
  <2>6. Decides(row.status, log)'
    BY <1>2, <2>2, <2>3, <2>5, SameValues DEF Decides, Sound, HasBroken
  <2> QED BY <1>3, <2>1, <2>6 DEF LoanInv
<1>7. CASE AcceptInput
  <2>1. pc = "validate" /\ ValidInput(Schema, values) /\ UNCHANGED <<at, values>>
    BY <1>7 DEF AcceptInput, InputValid, data
  <2>2. pc' = "stage" /\ at' = 1
    <3>1. Stages # <<>>
      <4>1. 1 \in DOMAIN Stages
        BY <1>1, LoanStages
      <4> QED BY <4>1
    <3>2. pc' = "stage"
      BY <1>7, <3>1 DEF AcceptInput, InputValid
    <3>3. at = 1
      BY <2>1 DEF LogInv
    <3> QED BY <2>1, <3>2, <3>3
  <2>3. ValidInput(LoanSchema, Given)'
    BY <1>1, <1>2, <1>3, <2>1, LoanStages, GivenValid, SameValues
  <2> QED BY <1>3, <2>2, <2>3 DEF LoanInv
<1> QED BY <1>4, <1>5, <1>6, <1>7
\* A stage whose rules do not raise goes where its verdict says.
LEMMA RulesRoute ==
  ASSUME NEW e, RuleStageWith(e), \A i \in DOMAIN e : e[i] # "raise", NEW verdict,
         StageVerdict(EvaluateStageRules(Stage.rules, e)) = verdict
  PROVE  Route(verdict) /\ UNCHANGED <<workflow, stored>>
BY DEF RuleStageWith

\* A route that leaves the loop settles the decision; one that asks for the
\* next stage leaves it open.
LEMMA LoanRouted ==
  ASSUME ConcreteInv, LogInv, LoanInv, IsLoan, LogInv', pc = "stage", at \in {1, 3},
         UNCHANGED <<values, workflow, stored>>,
         NEW verdict \in {"reject", "manual_review", "continue"}, Route(verdict),
         verdict # "continue" \/ at = 3 => Sound(FinalStatus(verdict)),
         verdict = "continue" => Eligible
  PROVE  LoanInv'
<1>1. Inv /\ stored' = None
  BY DEF ConcreteInv, Inv, Progress, Active
<1>0. Len(Stages) = 3
  BY <1>1, LoanStages
<1>2. /\ IsLoan' /\ Numbers' /\ ValidInput(LoanSchema, Given)' /\ (Eligible' <=> Eligible)
  BY SameValues DEF IsLoan, LoanInv
<1>3. CASE verdict = "continue" /\ at = 1
  <2>1. pc' = "stage" /\ at' = 2
    BY <1>0, <1>3 DEF Route
  <2>2. Score \notin DOMAIN values'
    BY <1>3 DEF LoanInv
  <2> QED BY <1>1, <1>2, <1>3, <2>1, <2>2 DEF LoanInv
<1>4. CASE verdict # "continue" \/ at = 3
  <2>1. pc' = "final" /\ routing' = verdict
    BY <1>0, <1>4 DEF Route
  <2>2. Outcome(Stages', log', FinalStatus(verdict))
    BY <2>1 DEF LogInv, FinalStatus
  <2>3. FinalStatus(verdict) # "FAILED"
    BY DEF FinalStatus
  <2>4. ~HasBroken(log')
    BY <2>2, <2>3, OnlyFailedBroken
  <2>5. FinalStatus(routing)' = FinalStatus(verdict) /\ Sound(FinalStatus(verdict))
    BY <1>4, <2>1 DEF FinalStatus
  <2>6. Sound(FinalStatus(routing))'
    BY <2>5, SameValues DEF Sound
  <2> QED BY <1>1, <1>2, <2>1, <2>4, <2>6 DEF LoanInv, Decides, HasBroken
<1> QED BY <1>3, <1>4

\* The two rule stages of the loan.
LEMMA LoanRules ==
  ASSUME ConcreteInv, LogInv, LoanInv, IsLoan, LogInv', EvaluateStage
  PROVE  LoanInv'
<1> DEFINE e == [i \in DOMAIN ConcreteStage.rules |-> OutcomeOf(ConcreteStage.rules[i], values)]
<1>1. pc = "stage" /\ RuleStageWith(e) /\ UNCHANGED data
  BY DEF EvaluateStage
<1>2. Inv /\ UNCHANGED values
  BY <1>1 DEF ConcreteInv, data
<1>3. at \in 1 .. 3 /\ Stage = Stages[at] /\ Stage.type = "rule_evaluation"
      /\ ConcreteStage = LoanApproval.stages[at]
  BY <1>1, <1>2, LoanStages, AtStage DEF RuleStageWith, ConcreteStage
<1>4. at \in {1, 3}
  BY <1>2, <1>3, LoanStages
<1>5. /\ Numbers /\ ValidInput(LoanSchema, Given) /\ (at = 3 => Eligible /\ Scored)
      /\ at = 1 => Score \notin DOMAIN values
  BY <1>1, <1>4 DEF LoanInv
<1>6. CASE at = 1
  <2>1. PICK o : o = [i \in DOMAIN Eligibility |-> OutcomeOf(Eligibility[i], values)]
    OBVIOUS
  <2>2. e = o /\ Stage.rules = [i \in DOMAIN Eligibility |-> AbstractRule(Eligibility[i])]
    BY <1>2, <1>3, <1>6, <2>1, LoanStages
  <2>3. PICK verdict : verdict = IF ~Reaches(Income, 30000) THEN "reject"
                                 ELSE IF values[Employment] = Text("unemployed") THEN "manual_review"
                                 ELSE "continue"
    OBVIOUS
  <2>4. /\ \A i \in DOMAIN o : o[i] # "raise"
        /\ StageVerdict(EvaluateStageRules(Stage.rules, o)) = verdict
    BY <1>5, <2>1, <2>2, <2>3, EligibilityVerdict
  <2>5. RuleStageWith(o)
    BY <1>1, <2>2
  <2>6. Route(verdict) /\ UNCHANGED <<workflow, stored>>
    BY <2>4, <2>5, RulesRoute
  <2>7. verdict # "continue" => Sound(FinalStatus(verdict))
    BY <1>5, <2>3 DEF FinalStatus, Sound, LoanDecision, Eligible
  <2>8. verdict = "continue" => Eligible
    BY <1>5, <2>3 DEF Eligible
  <2>9. verdict \in {"reject", "manual_review", "continue"}
    BY <2>3
  <2> QED BY <1>1, <1>2, <1>6, <2>6, <2>7, <2>8, <2>9, LoanRouted
<1>7. CASE at = 3
  <2>1. PICK o : o = [i \in DOMAIN Risk |-> OutcomeOf(Risk[i], values)]
    OBVIOUS
  <2>2. e = o /\ Stage.rules = [i \in DOMAIN Risk |-> AbstractRule(Risk[i])]
    BY <1>2, <1>3, <1>7, <2>1, LoanStages
  <2>3. PICK verdict : verdict = StageVerdict(EvaluateStageRules(Stage.rules, o))
    OBVIOUS
  <2>4. /\ (\E i \in DOMAIN o : o[i] = "raise") => ~Assessed /\ HasHuge
        /\ Assessed =>
             verdict = IF ~Reaches(Score, 580) \/ ~ShareWithin(Debt, 40, Income) THEN "reject"
                       ELSE IF /\ Reaches(Score, 650) /\ ShareWithin(Amount, 30, Income)
                               /\ Within(Amount, 25000)
                       THEN "continue" ELSE "manual_review"
        /\ ~Assessed /\ (\A i \in DOMAIN o : o[i] # "raise") => verdict = "reject"
    BY <1>5, <1>7, <2>1, <2>2, <2>3, RiskVerdict
  <2>5. RuleStageWith(o)
    BY <1>1, <2>2
  <2>6. CASE \A i \in DOMAIN o : o[i] # "raise"
    <3>1. Route(verdict) /\ UNCHANGED <<workflow, stored>>
      BY <2>3, <2>5, <2>6, RulesRoute
    <3>2. verdict \in {"reject", "manual_review", "continue"}
      BY <2>4, <2>6
    <3>3. Sound(FinalStatus(verdict))
      BY <1>5, <1>7, <2>4, <2>6 DEF Sound, FinalStatus, LoanDecision, Eligible
    <3> QED BY <1>1, <1>2, <1>5, <1>7, <3>1, <3>2, <3>3, LoanRouted
  <2>7. CASE \E i \in DOMAIN o : o[i] = "raise"
    <3>1. /\ pc' = "final" /\ routing' = "failed" /\ UNCHANGED <<workflow, stored>>
      BY <2>5, <2>7 DEF RuleStageWith, Unexpected
    <3>2. stored' = None
      BY <1>1, <1>2, <3>1 DEF Inv, Progress, Active
    <3>3. Sound("FAILED") /\ HasHuge
      BY <1>5, <1>7, <2>4, <2>7 DEF Sound
    <3>4. Decides(FinalStatus(routing), log)'
      BY <1>2, <3>1, <3>3, SameValues DEF Decides, Sound, FinalStatus
    <3>5. IsLoan' /\ Numbers'
      BY <1>2, <1>5, <3>1, SameValues DEF IsLoan
    <3> QED BY <3>1, <3>2, <3>4, <3>5 DEF LoanInv
  <2> QED BY <2>6, <2>7
<1> QED BY <1>4, <1>6, <1>7
\* A call is that of the credit bureau.
LEMMA AtBureau ==
  ASSUME Inv, LogInv, IsLoan, pc = "calling"
  PROVE  /\ at = 2 /\ Stage = Stages[2] /\ ConcreteStage = CreditBureau /\ Len(Stages) = 3
         /\ FailureRoute = "failed" /\ InLoop /\ stored = None
<1>1. at \in 1 .. 3 /\ Stage = Stages[at] /\ Stage.type = "external_dependency" /\ stored = None
  BY LoanStages, AtStage DEF LogInv
<1>2. at = 2
  <2>1. Stages[1].type # "external_dependency" /\ Stages[3].type # "external_dependency"
    BY LoanStages
  <2> QED BY <1>1, <2>1
<1>3. ConcreteStage = CreditBureau
  BY <1>2, LoanStages DEF ConcreteStage
<1>4. FailureRoute = "failed"
  BY <1>1, <1>2, LoanStages DEF FailureRoute
<1>5. InLoop
  <2>1. Stage.max_attempts = 3
    BY <1>1, <1>2, LoanStages
  <2> QED BY <2>1 DEF LogInv, InLoop
<1>6. Len(Stages) = 3
  BY LoanStages
<1> QED BY <1>1, <1>2, <1>3, <1>4, <1>5, <1>6

\* The rows of a failed call break nothing.
LEMMA ExhaustedUnbroken ==
  ASSUME Inv, NEW tries \in Nat, pc = "calling", Exhausted(tries), ~HasBroken(log)
  PROVE  ~HasBroken(log')
<1>1. /\ Stage.id \in Texts /\ log \in Seq(AuditRows) /\ attempt \in Nat
      /\ {"EXT_DEP_FAILURE", "STAGE_FAILED"} \subseteq Events /\ "FAIL" \in Texts
  BY AtStage DEF Inv, Types, StageConfigs, Texts, Optional, Events
<1>2. PICK retries \in Seq(AuditRows) : retries = AttemptRows(Stage.id, attempt)
  BY <1>1, AttemptRowsType
<1> DEFINE end == AttemptRow("EXT_DEP_FAILURE", Stage.id, "FAIL", tries)
           failed == Row("STAGE_FAILED", Stage.id, "FAIL")
<1>3. end \in AuditRows /\ failed \in AuditRows
  BY <1>1, AttemptRowType, RowType
<1>4. PICK ends : ends = <<end, failed>>
  OBVIOUS
<1>5. ends \in Seq(AuditRows)
  BY <1>3, <1>4
<1>6. \A i \in DOMAIN retries : retries[i].event # "STAGE_FAILED"
  <2>1. \A i \in DOMAIN retries : retries[i] = AttemptRow("EXT_DEP_ATTEMPT", Stage.id, "FAIL", i)
    BY <1>2 DEF AttemptRows
  <2> QED BY <2>1 DEF AttemptRow, Row
<1>7. \A i \in DOMAIN ends : ends[i].result # "ERROR"
  <2>1. end.result = "FAIL" /\ failed.result = "FAIL"
    BY DEF AttemptRow, Row
  <2> HIDE DEF end, failed
  <2> QED BY <1>4, <2>1
<1>8. log' = log \o retries \o ends
  BY <1>2, <1>4 DEF Exhausted
<1>9. PICK m \in Seq(AuditRows) : m = log \o retries
  <2>1. log \o retries \in Seq(AuditRows)
    BY <1>1, Appended
  <2> QED BY <2>1
<1>10. ~HasBroken(m)
  BY <1>1, <1>6, <1>9, StaysUnbroken
<1>11. ~HasBroken(m \o ends)
  BY <1>5, <1>7, <1>10, StaysUnbroken
<1> QED BY <1>8, <1>9, <1>11

\* The call of the credit bureau.
LEMMA LoanCall ==
  ASSUME ConcreteInv, LogInv, LoanInv, IsLoan,
         \/ (BeginCall \/ NoAttempts) /\ UNCHANGED data
         \/ RetryCall \/ CallAnswered \/ CallExhausted
  PROVE  LoanInv'
<1>1. Inv
  BY DEF ConcreteInv
<1>2. UNCHANGED <<workflow, stored>>
  BY DEF BeginCall, NoAttempts, RetryCall, CallAnswered, CallExhausted, Retry, CallSucceeds, CallFails,
     Exhausted
<1>3. stored' = None /\ IsLoan'
  BY <1>1, <1>2 DEF Inv, Progress, Active, BeginCall, NoAttempts, RetryCall, CallAnswered,
     CallExhausted, Retry, CallSucceeds, CallFails, IsLoan
<1>4. CASE (BeginCall /\ UNCHANGED data) \/ RetryCall
  <2>1. pc \in {"stage", "calling"} /\ pc' = "calling" /\ UNCHANGED <<at, values>>
    BY <1>4 DEF BeginCall, RetryCall, Retry, data
  <2> QED BY <1>3, <2>1, SameValues DEF LoanInv
<1>5. CASE NoAttempts
  BY <1>1, <1>5, AtBureau DEF NoAttempts
<1>6. CASE CallAnswered
  <2>1. pc = "calling" /\ Route("continue")
    BY <1>6 DEF CallAnswered, CallSucceeds
  <2>2. at = 2 /\ ConcreteStage = CreditBureau /\ Len(Stages) = 3
    BY <1>1, <2>1, AtBureau
  <2>3. PICK answer \in CreditBureau.answers :
          values' = [p \in DOMAIN values \cup DOMAIN answer |->
                       IF p \in DOMAIN answer THEN answer[p] ELSE values[p]]
    BY <1>6, <2>2 DEF CallAnswered
  <2>4. DOMAIN answer = {Score} /\ answer[Score] \in {Number(n) : n \in Scores}
    BY <2>3 DEF CreditBureau
  <2>5. /\ DOMAIN values' = DOMAIN values \cup {Score} /\ values'[Score] = answer[Score]
        /\ \A p \in DOMAIN values \ {Score} : values'[p] = values[p]
    BY <2>3, <2>4
  <2>6. Scored'
    BY <2>4, <2>5 DEF Scored
  <2>7. Numbers /\ ValidInput(LoanSchema, Given) /\ Eligible /\ Score \notin DOMAIN values
    BY <2>1, <2>2 DEF LoanInv
  <2>8. Numbers'
    <3>1. DOMAIN values' \ {Score} = DOMAIN values \ {Score}
      BY <2>5
    <3> QED BY <2>5, <2>7, <3>1 DEF Numbers
  <2>9. Given' = Given
    <3>1. DOMAIN values' \ {Score} = DOMAIN values \ {Score}
      BY <2>5
    <3> QED BY <2>5, <3>1 DEF Given
  <2>10. ValidInput(LoanSchema, Given)'
    BY <2>7, <2>9 DEF ValidInput
  <2>11. Eligible'
    <3>1. {Income, Employment} \subseteq DOMAIN values \ {Score}
      BY <2>7, ValidLoan
    <3> QED BY <2>5, <2>7, <2>10, <3>1 DEF Eligible, Reaches
  <2>12. pc' = "stage" /\ at' = 3
    BY <2>1, <2>2 DEF Route
  <2> QED BY <1>3, <2>6, <2>8, <2>10, <2>11, <2>12 DEF LoanInv
<1>7. CASE CallExhausted
  <2>1. pc = "calling" /\ Exhausted(attempt + 1) /\ UNCHANGED values
    BY <1>7 DEF CallExhausted, CallFails
  <2>2. at = 2 /\ FailureRoute = "failed"
    BY <1>1, <2>1, AtBureau
  <2>3. pc' = "final" /\ routing' = "failed"
    BY <2>1, <2>2 DEF Exhausted, Route
  <2>4. Numbers /\ ValidInput(LoanSchema, Given) /\ Eligible /\ Score \notin DOMAIN values
    BY <2>1, <2>2 DEF LoanInv
  <2>5. Sound("FAILED")
    BY <2>4 DEF Sound, Assessed
  <2>6. ~HasBroken(log)
    <3>1. Clean(Stages, log) /\ Proper(Stages)
      BY <1>1, <2>1, AtStage DEF LogInv, Approving
    <3> QED BY <3>1, CleanFinds
  <2>7. ~HasBroken(log')
    BY <1>1, <2>1, <2>6, ExhaustedUnbroken DEF Inv, Types
  <2>8. Sound("FAILED")' /\ Numbers'
    BY <2>1, <2>4, <2>5, SameValues DEF Sound
  <2>9. Decides(FinalStatus(routing), log)'
    BY <2>3, <2>7, <2>8 DEF Decides, Sound, FinalStatus, HasBroken
  <2> QED BY <1>3, <2>3, <2>8, <2>9 DEF LoanInv
<1> QED BY <1>4, <1>5, <1>6, <1>7

\* The decision is written as the route has it, and stored as it is written.
LEMMA LoanClosing ==
  ASSUME ConcreteInv, LogInv, LoanInv, IsLoan, SkipStage \/ Finish \/ Commit \/ RollBack,
         UNCHANGED data
  PROVE  LoanInv'
<1>1. Inv /\ UNCHANGED values /\ Numbers
  BY DEF ConcreteInv, data, LoanInv
<1>2. IsLoan' /\ Numbers'
  BY <1>1, SameValues DEF IsLoan, SkipStage, Finish, Commit, RollBack
<1>3. CASE SkipStage
  <2>1. pc = "stage" /\ Stage.type \notin {"rule_evaluation", "external_dependency"}
    BY <1>3 DEF SkipStage
  <2>2. at \in 1 .. 3 /\ Stage = Stages[at]
    BY <1>1, <2>1, AtStage, LoanStages
  <2>3. /\ Stages[1].type = "rule_evaluation" /\ Stages[2].type = "external_dependency"
        /\ Stages[3].type = "rule_evaluation"
    BY <1>1, LoanStages
  <2> QED BY <2>1, <2>2, <2>3
<1>4. CASE Finish
  <2>1. /\ pc = "final" /\ pc' = "commit" /\ Conclude(log, FinalStatus(routing)) /\ stored' = stored
    BY <1>4 DEF Finish
  <2>2. FinalStatus(routing) \in Terminal /\ log \in Seq(AuditRows) /\ row \in ExecutionRows
        /\ stored = None
    BY <1>1, <2>1 DEF FinalStatus, Terminal, Inv, Types, Routes, Progress, Active
  <2>3. Sound(FinalStatus(routing)) /\ (HasBroken(log) => HasHuge)
    BY <2>1 DEF LoanInv, Decides
  <2>4. row'.status = FinalStatus(routing) /\ (HasBroken(log') => HasBroken(log))
    BY <2>1, <2>2, ConcludeDecides
  <2>5. Decides(row.status, log)'
    BY <1>1, <2>3, <2>4, SameValues DEF Decides, Sound, HasBroken
  <2> QED BY <1>2, <2>1, <2>2, <2>5 DEF LoanInv
<1>5. CASE Commit
  <2>1. /\ pc = "commit" /\ pc' = "done" /\ stored' = [row |-> row, log |-> log]
    BY <1>5 DEF Commit
  <2>2. stored'.row = row /\ stored'.log = log
    BY <2>1
  <2>3. Created(log) => Decides(row.status, log)
    BY <2>1 DEF LoanInv
  <2>4. Created(stored'.log) => Decides(stored.row.status, stored.log)'
    BY <1>1, <2>2, <2>3, SameValues DEF Decides, Sound, HasBroken
  <2> QED BY <1>2, <2>1, <2>4 DEF LoanInv, Created
<1>6. CASE RollBack
  <2>1. pc' = "rolled_back" /\ stored' = None
    BY <1>1, <1>6 DEF RollBack, Inv, Progress
  <2> QED BY <1>2, <2>1 DEF LoanInv
<1> QED BY <1>3, <1>4, <1>5, <1>6
\* No step changes the workflow.
LEMMA NextKeepsWorkflow == [Next]_vars => UNCHANGED workflow
BY DEF Next, Proceed, vars, Start, ConfigMissing, InputInvalid, InputValid, RuleStage,
   RuleStageWith, SkipStage, BeginCall, Retry, CallSucceeds, CallFails, NoAttempts, CallRaises,
   Exhausted, Finish, Commit, RollBack

\* The step lemmas cover the actions.
LEMMA LoanStep == ConcreteInv /\ LogInv /\ LoanInv /\ [ConcreteNext]_concrete => LoanInv'
<1> SUFFICES ASSUME ConcreteInv, LogInv, LoanInv, [ConcreteNext]_concrete PROVE LoanInv'
  OBVIOUS
<1>1. LogInv'
  BY ConcreteStep, LogInvStep DEF ConcreteInv
<1>2. CASE UNCHANGED concrete
  <2>1. UNCHANGED <<pc, workflow, row, log, at, routing, stored, values>>
    BY <1>2 DEF concrete
  <2>2. /\ LoanDecision' = LoanDecision /\ Numbers' = Numbers /\ Scored' = Scored
        /\ Eligible' = Eligible /\ Assessed' = Assessed /\ HasHuge' = HasHuge
        /\ ValidInput(LoanSchema, Given)' = ValidInput(LoanSchema, Given)
    BY <2>1, SameValues
  <2> QED BY <2>1, <2>2 DEF LoanInv, IsLoan, Decides, Sound, HasBroken, Created,
         FinalStatus
<1>3. CASE ConcreteNext /\ IsLoan
  BY <1>1, <1>3, LoanOpening, LoanRules, LoanCall, LoanClosing DEF ConcreteNext, Otherwise
<1>4. CASE ConcreteNext /\ ~IsLoan
  <2>1. [Next]_vars
    BY ConcreteStep
  <2>2. UNCHANGED workflow
    BY <2>1, NextKeepsWorkflow
  <2> QED BY <1>4, <2>2 DEF LoanInv, IsLoan
<1> QED BY <1>2, <1>3, <1>4

\* A payload has numbers, and no score.
LEMMA LoanInit == ConcreteInit => LoanInv
<1> SUFFICES ASSUME ConcreteInit, IsLoan PROVE LoanInv
  BY DEF LoanInv
<1>1. /\ pc = "load" /\ stored = None /\ workflow \in DOMAIN Workflows /\ values \in Payloads[workflow]
  BY DEF ConcreteInit, Init
<1>2. DOMAIN values \subseteq InputPaths /\ Numbers
  <2>1. workflow \in DOMAIN Configs
    BY <1>1, ConfigsAssumption
  <2>2. \A p \in DOMAIN values : Kind(values[p]) = "num" => values[p][2] \in Figures
    BY <1>1, <2>1 DEF Figures
  <2> QED BY <1>1, <2>1, <2>2, ConfigsAssumption DEF Numbers
<1>3. Score \notin InputPaths
  <2>1. Score[1] = "context"
    BY DEF Score, Fetched
  <2> QED BY <2>1, WorkflowsAssumption
<1> QED BY <1>1, <1>2, <1>3 DEF LoanInv

\* LoanInv, with the invariants it rests on, holds in every reachable state.
LEMMA LoanInvariance == ConcreteSpec => [](ConcreteInv /\ LogInv /\ LoanInv)
<1>1. ConcreteInit => LogInv
  BY InitLogInv DEF ConcreteInit
<1>2. ConcreteInv /\ LogInv /\ [ConcreteNext]_concrete => LogInv'
  BY ConcreteStep, LogInvStep DEF ConcreteInv
<1> QED BY <1>1, <1>2, LoanInit, LoanStep, ConcreteInvariance, PTL DEF ConcreteSpec

-----------------------------------------------------------------------------
\* Where the sources agree on it, the decision of a loan is the one its rules
\* describe, whatever figures the applicant sends and whatever score is fetched:
\* the stages, severities, thresholds and policies of the YAML add up to
\* LoanDecision (loan_approval_v1.yaml:11-118).
THEOREM LoanDecidedAsDescribed == ConcreteSpec => []LoanAsDescribed
<1>1. ConcreteInv /\ LogInv /\ LoanInv => LoanAsDescribed
  BY DEF LoanInv, LoanAsDescribed, Decided, Decides, Sound, IsLoan, IsStored, Kept, KeptLog, Rows,
     Created
<1> QED BY <1>1, LoanInvariance, PTL

\* A loan whose risk could not be assessed - no answer of the bureau, no debt in
\* the payload, a figure beyond the floats - is rejected or fails
\* (rules_engine.py:85-90, orchestrator.py:318-333, 571-580).
THEOREM UnassessedLoansEndBadly == ConcreteSpec => []UnassessedNotApproved
<1>1. ConcreteInv /\ LogInv /\ LoanInv => UnassessedNotApproved
  BY DEF LoanInv, UnassessedNotApproved, Decided, Decides, Sound, IsLoan, IsStored, Kept, KeptLog,
     Rows, Created
<1> QED BY <1>1, LoanInvariance, PTL

\* Nothing but a figure beyond the floats makes a rule of the loan raise: the
\* stage before the divisions demands an income
\* (loan_approval_v1.yaml:43-48, 93-105, rules_engine.py:241-244).
THEOREM OnlyOverflowsRaise == ConcreteSpec => []OnlyHugeFiguresRaise
<1>1. ConcreteInv /\ LogInv /\ LoanInv => OnlyHugeFiguresRaise
  BY DEF LoanInv, OnlyHugeFiguresRaise, HasHuge, Decided, Decides, IsLoan, IsStored, Kept, KeptLog,
     Rows, Created, Broken, HasBroken
<1> QED BY <1>1, LoanInvariance, PTL
-----------------------------------------------------------------------------
\* The stages of the onboarding, as far as waiting goes.
LEMMA OnboardingStages ==
  ASSUME Inv, IsOnboarding
  PROVE  /\ Len(Stages) = 3 /\ Stages[1].type = "rule_evaluation"
         /\ Stages[2].type = "external_dependency" /\ Stages[2].max_attempts = 3
         /\ Stages[3].type = "rule_evaluation" /\ Configs[workflow].stages[2] = Screening
<1>1. Configs[workflow] = Onboarding /\ workflow \in DOMAIN Configs
  BY ShippedAssumption DEF IsOnboarding, Shipped
<1> DEFINE stages == Onboarding.stages
<1>2. stages = <<RulesStage("consent_check", "reject", ConsentGate), Screening,
                 RulesStage("clearance_rules", "manual_review", ClearanceRules)>>
  BY DEF Onboarding
<1>3. Stages = [i \in DOMAIN stages |-> AbstractStage(stages[i])]
  BY <1>1, ConfigsAssumption DEF Stages
<1> HIDE DEF stages
<1>4. DOMAIN Stages = 1 .. 3 /\ stages[2] = Screening
      /\ stages[1] = RulesStage("consent_check", "reject", ConsentGate)
      /\ stages[3] = RulesStage("clearance_rules", "manual_review", ClearanceRules)
  BY <1>2, <1>3
<1>5. Len(Stages) = 3
  <2>1. Stages \in Seq(StageConfigs)
    BY WorkflowsAssumption DEF Inv, Types, Stages
  <2> QED BY <1>4, <2>1
<1>6. /\ Stages[1] = AbstractStage(stages[1]) /\ Stages[2] = AbstractStage(stages[2])
      /\ Stages[3] = AbstractStage(stages[3])
  BY <1>3, <1>4
<1>7. stages[1].type = "rule_evaluation" /\ stages[3].type = "rule_evaluation"
  BY <1>4 DEF RulesStage
<1>8. Stages[1].type = "rule_evaluation" /\ Stages[3].type = "rule_evaluation"
  BY <1>6, <1>7 DEF AbstractStage
<1>9. Stages[2].type = "external_dependency" /\ Stages[2].max_attempts = 3
  BY <1>4, <1>6 DEF AbstractStage, Screening
<1> QED BY <1>1, <1>4, <1>5, <1>8, <1>9 DEF stages

\* Both workflows make one call, as their second stage, with three attempts.
LEMMA ShippedCall ==
  ASSUME Inv, workflow \in Shipped
  PROVE  /\ Len(Stages) = 3 /\ Stages[1].type = "rule_evaluation"
         /\ Stages[2].type = "external_dependency" /\ Stages[2].max_attempts = 3
         /\ Stages[3].type = "rule_evaluation"
         /\ Configs[workflow].stages[2] = IF IsLoan THEN CreditBureau ELSE Screening
<1>1. CASE IsLoan
  BY <1>1, LoanStages
<1>2. CASE ~IsLoan
  <2>1. IsOnboarding
    BY <1>2 DEF IsLoan, IsOnboarding, Shipped
  <2> QED BY <1>2, <2>1, OnboardingStages
<1> QED BY <1>1, <1>2

\* The pauses of the two retry policies, with the most jitter: they double,
\* and neither reaches its cap (mock_api.py:122-146).
LEMMA BureauPauses ==
  /\ LongestDelay(CreditBureau.retry_policy, 0) = 250
  /\ LongestDelay(CreditBureau.retry_policy, 1) = 500
<1> DEFINE policy == CreditBureau.retry_policy
<1>1. policy.strategy = "exponential" /\ policy.base_delay_ms = 200 /\ policy.max_delay_ms = 5000
  BY DEF CreditBureau
<1> HIDE DEF policy
<1>2. Grown(policy, 0) = 200 /\ Grown(policy, 1) = 400
  BY <1>1 DEF Grown
<1>3. Capped(policy, 0) = 200 /\ Capped(policy, 1) = 400
  BY <1>1, <1>2 DEF Capped
<1>4. LongestDelay(policy, 0) = 250 /\ LongestDelay(policy, 1) = 500
  BY <1>3 DEF LongestDelay
<1> QED BY <1>4 DEF policy

\* The same for the onboarding.
LEMMA ScreeningPauses ==
  /\ LongestDelay(Screening.retry_policy, 0) = 625
  /\ LongestDelay(Screening.retry_policy, 1) = 1250
<1> DEFINE policy == Screening.retry_policy
<1>1. policy.strategy = "exponential" /\ policy.base_delay_ms = 500 /\ policy.max_delay_ms = 10000
  BY DEF Screening
<1> HIDE DEF policy
<1>2. Grown(policy, 0) = 500 /\ Grown(policy, 1) = 1000
  BY <1>1 DEF Grown
<1>3. Capped(policy, 0) = 500 /\ Capped(policy, 1) = 1000
  BY <1>1, <1>2 DEF Capped
<1>4. LongestDelay(policy, 0) = 625 /\ LongestDelay(policy, 1) = 1250
  BY <1>3 DEF LongestDelay
<1> QED BY <1>4 DEF policy

\* How long the attempts and the pauses take, added up.
LEMMA Sleeping ==
  ASSUME Inv, workflow \in Shipped, at = 2
  PROVE  \E latency, first, second \in Nat :
           /\ ConcreteStage.latency_ms = latency
           /\ LongestDelay(ConcreteStage.retry_policy, 0) = first
           /\ LongestDelay(ConcreteStage.retry_policy, 1) = second
           /\ Before[1] = 0 /\ Before[2] = latency + first
           /\ Before[3] = Before[2] + latency + second /\ After = Before[3] + latency
<1>1. CASE IsLoan
  <2>1. ConcreteStage = CreditBureau /\ CreditBureau.latency_ms = 300
    BY <1>1, ShippedCall DEF ConcreteStage, CreditBureau
  <2>2. Before[1] = 0 /\ Before[2] = 550 /\ Before[3] = 1350 /\ After = 1650
    BY <1>1 DEF Before, After
  <2>3. /\ ConcreteStage.latency_ms = 300
        /\ LongestDelay(ConcreteStage.retry_policy, 0) = 250
        /\ LongestDelay(ConcreteStage.retry_policy, 1) = 500
    BY <2>1, BureauPauses
  <2>4. /\ Before[2] = 300 + 250 /\ Before[3] = 550 + 300 + 500 /\ After = 1350 + 300
    BY <2>2
  <2> WITNESS 300 \in Nat, 250 \in Nat, 500 \in Nat
  <2> QED BY <2>2, <2>3, <2>4
<1>2. CASE ~IsLoan
  <2>1. ConcreteStage = Screening /\ Screening.latency_ms = 800
    BY <1>2, ShippedCall DEF ConcreteStage, Screening
  <2>2. Before[1] = 0 /\ Before[2] = 1425 /\ Before[3] = 3475 /\ After = 4275
    BY <1>2 DEF Before, After
  <2>3. /\ ConcreteStage.latency_ms = 800
        /\ LongestDelay(ConcreteStage.retry_policy, 0) = 625
        /\ LongestDelay(ConcreteStage.retry_policy, 1) = 1250
    BY <2>1, ScreeningPauses
  <2>4. /\ Before[2] = 800 + 625 /\ Before[3] = 1425 + 800 + 1250 /\ After = 3475 + 800
    BY <2>2
  <2> WITNESS 800 \in Nat, 625 \in Nat, 1250 \in Nat
  <2> QED BY <2>2, <2>3, <2>4
<1> QED BY <1>1, <1>2

\* The call sleeps in every attempt and after each but the last.
LEMMA WaitCall ==
  ASSUME ConcreteInv, LogInv, WaitInv, workflow \in Shipped, pc = "calling",
         RetryCall \/ CallAnswered \/ CallExhausted
  PROVE  WaitInv'
<1>1. Inv /\ at = 2 /\ attempt \in 0 .. 2 /\ waited = Before[attempt + 1]
  BY DEF ConcreteInv, WaitInv
<1>2. /\ workflow' = workflow /\ Before' = Before /\ After' = After
      /\ workflow' \in Shipped
  BY DEF RetryCall, CallAnswered, CallExhausted, Retry, CallSucceeds, CallFails, Exhausted, Before,
     After, IsLoan
<1>3. PICK latency \in Nat, first \in Nat, second \in Nat :
        /\ ConcreteStage.latency_ms = latency
        /\ LongestDelay(ConcreteStage.retry_policy, 0) = first
        /\ LongestDelay(ConcreteStage.retry_policy, 1) = second
        /\ Before[1] = 0 /\ Before[2] = latency + first
        /\ Before[3] = Before[2] + latency + second /\ After = Before[3] + latency
  BY <1>1, Sleeping
<1>4. CASE RetryCall
  <2>1. /\ ~IsLast /\ InLoop /\ attempt' = attempt + 1 /\ UNCHANGED <<pc, at>>
        /\ waited' = waited + (latency + LongestDelay(ConcreteStage.retry_policy, attempt))
    BY <1>3, <1>4 DEF RetryCall, Retry, Sleeps
  <2>2. Stage.max_attempts = 3
    BY <1>1, ShippedCall DEF Stage
  <2>3. attempt = 0 \/ attempt = 1
    BY <1>1, <2>1, <2>2 DEF IsLast, InLoop
  <2>4. CASE attempt = 0
    <3>1. LongestDelay(ConcreteStage.retry_policy, attempt) = first /\ waited = 0
      BY <1>1, <1>3, <2>4
    <3>2. attempt' = 1 /\ waited' = latency + first
      BY <2>1, <2>4, <3>1
    <3>3. waited' = Before[attempt' + 1] /\ waited' \in 0 .. After
      BY <1>3, <3>2
    <3> QED BY <1>1, <1>2, <2>1, <3>2, <3>3 DEF WaitInv
  <2>5. CASE attempt = 1
    <3>1. LongestDelay(ConcreteStage.retry_policy, attempt) = second /\ waited = latency + first
      BY <1>1, <1>3, <2>5
    <3>2. attempt' = 2 /\ waited' = latency + first + latency + second
      BY <2>1, <2>5, <3>1
    <3>3. waited' = Before[attempt' + 1] /\ waited' \in 0 .. After
      BY <1>3, <3>2
    <3> QED BY <1>1, <1>2, <2>1, <3>2, <3>3 DEF WaitInv
  <2> QED BY <2>3, <2>4, <2>5
<1>5. CASE CallAnswered \/ CallExhausted
  <2>1. waited' = waited + latency
    BY <1>3, <1>5 DEF CallAnswered, CallExhausted, Sleeps
  <2>2. waited' \in 0 .. After
    <3>1. attempt = 0 \/ attempt = 1 \/ attempt = 2
      BY <1>1
    <3> QED BY <1>1, <1>3, <2>1, <3>1
  <2>3. PICK route : Route(route)
    BY <1>5 DEF CallAnswered, CallSucceeds, CallExhausted, CallFails, Exhausted
  <2>4. pc' = "final" \/ (pc' = "stage" /\ at' = 3)
    BY <1>1, <2>3 DEF Route
  <2> QED BY <1>2, <2>2, <2>4 DEF WaitInv
<1> QED BY <1>4, <1>5
\* Nothing else waits, and the call comes second.
LEMMA WaitElsewhere ==
  ASSUME ConcreteInv, LogInv, WaitInv, workflow \in Shipped, UNCHANGED data,
         RejectInput \/ AcceptInput \/ EvaluateStage \/ Otherwise
  PROVE  WaitInv'
<1>1. Inv /\ waited' = waited /\ waited \in 0 .. After
  BY DEF ConcreteInv, data, WaitInv
<1>2. workflow' = workflow
  BY DEF RejectInput, AcceptInput, EvaluateStage, Otherwise, Start, ConfigMissing, InputInvalid,
     InputValid, RuleStageWith, SkipStage, BeginCall, NoAttempts, Exhausted, Finish, Commit, RollBack
<1>3. Before' = Before /\ After' = After /\ workflow' \in Shipped
  BY <1>2 DEF Before, After, IsLoan
<1>4. CASE Start \/ ConfigMissing \/ RejectInput \/ Finish \/ Commit \/ RollBack
  <2>1. pc' \notin {"stage", "calling"} /\ (pc' \in {"load", "validate"} => pc = "load")
    BY <1>4 DEF Start, ConfigMissing, RejectInput, InputInvalid, Finish, Commit, RollBack
  <2> QED BY <1>1, <1>3, <2>1 DEF WaitInv
<1>5. CASE AcceptInput
  <2>1. pc = "validate" /\ pc' # "calling"
    BY <1>5 DEF AcceptInput, InputValid
  <2> QED BY <1>1, <1>3, <2>1 DEF WaitInv
<1>6. CASE EvaluateStage \/ SkipStage
  <2>1. pc = "stage" /\ (pc' = "final" \/ \E route : Route(route))
    BY <1>6 DEF EvaluateStage, RuleStageWith, Unexpected, SkipStage
  <2>2. at \in 1 .. 3
    BY <1>1, <2>1, AtStage, ShippedCall
  <2>3. pc' = "final" \/ (pc' = "stage" /\ at' = at + 1)
    BY <2>1 DEF Route
  <2>4. pc' = "stage" /\ at' <= 2 => at <= 2
    BY <2>2, <2>3
  <2> QED BY <1>1, <1>3, <2>1, <2>3, <2>4 DEF WaitInv
<1>7. CASE BeginCall
  <2>1. pc = "stage" /\ Stage.type = "external_dependency" /\ pc' = "calling" /\ attempt' = 0 /\ at' = at
    BY <1>7 DEF BeginCall
  <2>2. at \in 1 .. 3 /\ Stage = Stages[at]
    BY <1>1, <2>1, AtStage, ShippedCall
  <2>3. Stages[1].type = "rule_evaluation" /\ Stages[3].type = "rule_evaluation"
    BY <1>1, ShippedCall
  <2>4. at = 2
    BY <2>1, <2>2, <2>3
  <2>5. waited = 0 /\ Before[1] = 0
    BY <2>1, <2>4 DEF WaitInv, Before
  <2> QED BY <1>1, <1>3, <2>1, <2>4, <2>5 DEF WaitInv
<1>8. CASE NoAttempts
  <2>1. pc = "calling" /\ at = 2 /\ attempt \in 0 .. 2 /\ ~(attempt < Stage.max_attempts)
    BY <1>8 DEF NoAttempts, InLoop, WaitInv
  <2>2. Stage.max_attempts = 3
    BY <1>1, <2>1, ShippedCall DEF Stage
  <2> QED BY <2>1, <2>2
<1> QED BY <1>4, <1>5, <1>6, <1>7, <1>8 DEF Otherwise

\* WaitInv holds in every reachable state.
LEMMA WaitInvariance == ConcreteSpec => [](ConcreteInv /\ WaitInv)
<1>1. ConcreteInit => LogInv
  BY InitLogInv DEF ConcreteInit
<1>2. ConcreteInv /\ LogInv /\ [ConcreteNext]_concrete => LogInv'
  BY ConcreteStep, LogInvStep DEF ConcreteInv
<1>3. ConcreteInit => WaitInv
  <2>1. 0 \in 0 .. After
    BY DEF After
  <2> QED BY <2>1 DEF ConcreteInit, Init, WaitInv
<1>4. ASSUME ConcreteInv, LogInv, WaitInv, [ConcreteNext]_concrete PROVE WaitInv'
  <2>1. CASE UNCHANGED concrete
    <3>1. UNCHANGED <<pc, workflow, at, attempt, waited>>
      BY <2>1 DEF concrete, vars
    <3>2. Before' = Before /\ After' = After
      BY <3>1 DEF Before, After, IsLoan
    <3> QED BY <1>4, <3>1, <3>2 DEF WaitInv
  <2>2. CASE ConcreteNext /\ workflow \in Shipped
    <3>1. CASE RetryCall \/ CallAnswered \/ CallExhausted
      <4>1. pc = "calling"
        BY <3>1 DEF RetryCall, CallAnswered, CallExhausted, Retry, CallSucceeds, CallFails
      <4> QED BY <1>4, <2>2, <3>1, <4>1, WaitCall
    <3>2. CASE RejectInput \/ AcceptInput \/ EvaluateStage \/ (Otherwise /\ UNCHANGED data)
      <4>1. UNCHANGED data
        BY <3>2 DEF RejectInput, AcceptInput, EvaluateStage
      <4> QED BY <1>4, <2>2, <3>2, <4>1, WaitElsewhere
    <3> QED BY <2>2, <3>1, <3>2 DEF ConcreteNext
  <2>3. CASE ConcreteNext /\ workflow \notin Shipped
    <3>1. [Next]_vars
      BY <1>4, ConcreteStep
    <3>2. UNCHANGED workflow
      BY <3>1, NextKeepsWorkflow
    <3> QED BY <2>3, <3>2 DEF WaitInv
  <2> QED BY <1>4, <2>1, <2>2, <2>3
<1> QED BY <1>1, <1>2, <1>3, <1>4, ConcreteInvariance, PTL DEF ConcreteSpec

\* The retries of the shipped workflows end well before another writer of the
\* SQLite file gives up, whatever fails and however large the jitter
\* (mock_api.py:122-146, 200-223).
THEOREM TransactionsAreShort == ConcreteSpec => []LockHeldBriefly
<1>1. WaitInv => LockHeldBriefly
  BY DEF WaitInv, After, LockHeldBriefly, BusyTimeout
<1> QED BY <1>1, WaitInvariance, PTL

\* In the shipped workflows the context has the paths of the values, and the
\* waiting is a number of milliseconds.
THEOREM ShippedTypeCorrect == ConcreteSpec => [](workflow \in Shipped => ConcreteTypeOK)
<1>1. ConcreteInv /\ WaitInv /\ workflow \in Shipped => ConcreteTypeOK
  BY DEF ConcreteInv, ContextHasValues, WaitInv, After, ConcreteTypeOK
<1> QED BY <1>1, WaitInvariance, PTL
=============================================================================
