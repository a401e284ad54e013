------------------------- MODULE MCShippedWorkflows -------------------------
(***************************************************************************)
(* The shipped workflows for payloads and answers at and on either side of *)
(* every bound of their schemas and every threshold of their rules, and    *)
(* beyond the floats; and beside them one workflow for each operator, with *)
(* rules that compare values of every kind.                                *)
(*                                                                         *)
(* The floats are the whole numbers up to MCMaxFloat and, between these,   *)
(* hundredths: coarse enough for rounding and overflow to happen.          *)
(***************************************************************************)
EXTENDS ShippedWorkflows, TLC

MCScores == {579, 580, 649, 650}

MCMaxFloat == 1000000
Huge == Number(MCMaxFloat + 1)
Unbounded == <<"num", Infinity>>

MCRounded(x) ==
  LET whole == x[1] \div x[2]
      rest == x[1] % x[2]
  IN  IF ~Finite(x) THEN x
      ELSE IF whole > MCMaxFloat THEN Infinity
      ELSE IF rest = 0 THEN <<whole, 1>>
      ELSE <<100 * whole + (100 * rest + x[2] \div 2) \div x[2], 100>>

\* What Python says of the texts below: none comes after "true", and none is a
\* part of another.
MCTextTest(op, v, t) ==
  IF op = "contains" /\ Kind(t) # "str" THEN "raises"
  ELSE IF \/ op = "lte"
          \/ op \in {"gte", "in"} \cup OnTexts /\ v = t
          \/ op \in {"lt", "not_in"} /\ v # t
  THEN "true" ELSE "false"

X == Input("x")
Y == Input("y")

ProbeRule(id, value, operator, threshold) ==
  [RuleOn(id, value, operator, threshold, "mandatory") EXCEPT !.fail_above = <<Number(3)>>]

Probe(rules) ==
  [schema |-> << >>, stages |-> <<RulesStage("probe", "reject", rules)>>]

Comparisons ==
  [op \in Operators \cup {"regexp"} |->
     Probe(<<ProbeRule("numbers", <<"field", X>>, op,
               IF op \in Memberships THEN List(<<Number(1), Text("true")>>)
               ELSE IF op \in {"is_true", "is_null"} THEN Boolean(TRUE) ELSE Number(6)),
             ProbeRule("texts", <<"field", X>>, op, Text("true"))>>)]

Sums ==
  [op \in {"+", "-", "*", "/", "%"} |->
     Probe(<<ProbeRule("sum", <<"expression", X, op, Y>>, "equals", Number(1))>>)]

MCShipped ==
  [loan_approval_v1 |-> LoanApproval, employee_onboarding_v1 |-> Onboarding]

MCConfigs == MCShipped @@ Comparisons @@ Sums

MCWorkflows ==
  [w \in DOMAIN Configs |->
     [i \in DOMAIN Configs[w].stages |-> AbstractStage(Configs[w].stages[i])]]

MCInputPaths == {Age, Income, Amount, Employment, Debt, Clearance, Consent, X, Y}

Applicant(age, income, amount, employment) ==
  (Age :> Number(age)) @@ (Income :> income) @@ (Amount :> amount) @@
  (Employment :> Text(employment))

Incomes ==
  {Number(n) : n \in {0, 29999, 30000, 100000}} \cup
  {<<"num", <<59999, 2>>>>, <<"num", <<60001, 2>>>>, Huge, Unbounded}
Amounts == {Number(n) : n \in {99, 9000, 9001, 9300, 25000, 25001}} \cup {Huge, Unbounded}
Debts ==
  {Number(n) : n \in {-1, 11700, 12000, 12300, 39000, 41000}} \cup
  {Huge, Unbounded, <<"num", NaN>>}

Applicants ==
  {Applicant(18, income, amount, employment) :
     income \in Incomes, amount \in Amounts, employment \in {"employed", "unemployed"}} \cup
  {Applicant(age, Number(30000), Number(9000), "student") : age \in {17, 18}} \cup
  {Applicant(17, Number(30000), Number(9000), "employed")}

LoanPayloads == Applicants \cup {(Debt :> debt) @@ p : debt \in Debts, p \in Applicants}

OnboardingPayloads ==
  {(Clearance :> Number(level)) @@ (Consent :> Boolean(consent)) :
     level \in 0 .. 6, consent \in BOOLEAN}

OneOfEach ==
  {Number(0), Number(1), Number(5), Number(7), <<"num", <<-7, 2>>>>, Huge, Unbounded,
   <<"num", NaN>>, Boolean(TRUE), Boolean(FALSE),
   Text("true"), Text("false"), <<"str", <<"6", <<<<6, 1>>>>>>>>, Null, List(<<>>)}

MCPayloads ==
  [loan_approval_v1 |-> LoanPayloads, employee_onboarding_v1 |-> OnboardingPayloads]
    @@ [op \in DOMAIN Comparisons |-> {<<>>} \cup {X :> v : v \in OneOfEach}]
    @@ [op \in DOMAIN Sums |->
          {Y :> v : v \in OneOfEach} \cup {(X :> v) @@ (Y :> u) : v, u \in OneOfEach}]
=============================================================================
