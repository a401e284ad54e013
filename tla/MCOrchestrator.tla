--------------------------- MODULE MCOrchestrator ---------------------------
(***************************************************************************)
(* Workflows small enough for TLC that have every kind of stage, rule and  *)
(* failure policy.  Loan has the shape of loan_approval_v1.yaml: rules on  *)
(* the payload, a call, rules on what the call returned.                   *)
(***************************************************************************)
EXTENDS Orchestrator

Income == <<"input", "income">>
Debt == <<"input", "debt">>
Score == <<"context", "score">>
Extra == <<"extra", "rating">>

MCInputPaths == {Income, Debt}

Plain(id, severity, reads) ==
  [id |-> id, severity |-> severity, action |-> None, reads |-> reads, computes |-> FALSE,
   operator |-> "known", graduated |-> FALSE, route |-> "manual_review"]

MinimumIncome == Plain("minimum_income", "mandatory", {Income})
Employment == Plain("employment_check", "soft", {Income})
CreditScore == [Plain("credit_score_minimum", "mandatory", {Score}) EXCEPT !.graduated = TRUE]
DebtRatio == [Plain("debt_to_income_ratio", "mandatory", {Debt, Income}) EXCEPT !.computes = TRUE]
HighValue == [Plain("high_value_flag", "soft", {Debt}) EXCEPT !.action = "force_manual_review"]
ForcedMandatory == [Plain("forced", "mandatory", {Income}) EXCEPT !.action = "force_manual_review"]
Misspelt == [Plain("misspelt", "soft", {Income}) EXCEPT !.operator = "unknown"]
Rerouted == [Plain("rerouted", "mandatory", {Extra}) EXCEPT !.graduated = TRUE, !.route = "reject"]

Rules(id, rules) ==
  [id |-> id, type |-> "rule_evaluation", rules |-> rules, on_failure |-> "reject",
   max_attempts |-> 0, maps |-> {}]

Call(id, on_failure, max_attempts, maps) ==
  [id |-> id, type |-> "external_dependency", rules |-> <<>>, on_failure |-> on_failure,
   max_attempts |-> max_attempts, maps |-> maps]

Unknown(id) == [Rules(id, <<>>) EXCEPT !.type = "notification"]

Loan == <<Rules("eligibility", <<MinimumIncome, Employment>>),
          Call("credit_bureau", "reject", 3, {Score}),
          Rules("risk", <<CreditScore, DebtRatio, HighValue>>)>>
Enrich == <<Call("enrich", "continue", 2, {Extra}),
            Unknown("notify"),
            Call("screening", "manual_review", 2, {Score, Extra}),
            Rules("rating", <<Rerouted, ForcedMandatory>>)>>
Odd == <<Call("never", "continue", 0, {Score}), Rules("odd", <<Misspelt>>)>>
Nothing == <<>>

MCWorkflows == [loan |-> Loan, enrich |-> Enrich, odd |-> Odd, nothing |-> Nothing]
=============================================================================
