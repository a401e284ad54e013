---------------------------- MODULE RulesEngine ----------------------------
(***************************************************************************)
(* The rules engine (app/core/rules_engine.py) as a function: what a rule, *)
(* once its value has been compared, contributes to the decision of its    *)
(* stage.  Values and operators are abstracted to the outcomes that the    *)
(* control flow of evaluate_rule tells apart.                              *)
(*                                                                         *)
(* A rule is a record                                                      *)
(*   [id, severity, action, reads, computes, operator, graduated, route]   *)
(* where reads is the set of context paths it resolves, computes says that *)
(* it has a field_expression, operator is "known" or "unknown", graduated  *)
(* says that it has an on_fail_threshold, and route is its on_fail_route.  *)
(***************************************************************************)
EXTENDS Sequences, Naturals

(* "pass", "fail"   the comparison was made                                *)
(* "fail_above"     it failed with a value above the on_fail_threshold     *)
(* "error"          the value, the operator or the comparison is faulty    *)
(* "raise"          an exception leaves evaluate_rule: an OverflowError of  *)
(*                  float(), in an expression (of which one operand may be *)
(*                  absent) or for the on_fail_threshold, or the           *)
(*                  ZeroDivisionError of an expression                     *)
Outcomes(rule, paths) ==
  (IF rule.computes /\ rule.reads \cap paths # {} THEN {"raise"} ELSE {}) \cup
  (IF ~(rule.reads \subseteq paths) \/ rule.operator = "unknown" THEN {"error"}
   ELSE {"pass", "fail", "error"} \cup
        (IF rule.graduated THEN {"fail_above", "raise"} ELSE {}))

\* A graduated failure is turned into a soft one, forced unless its route is
\* something else; errors and plain failures keep what the YAML says.
EvaluateRule(rule, outcome) ==
  LET soft == outcome = "fail_above"
  IN  [rule     |-> rule.id,
       passed   |-> outcome = "pass",
       error    |-> outcome = "error",
       severity |-> IF soft THEN "soft" ELSE rule.severity,
       action   |-> IF soft /\ rule.route = "manual_review"
                    THEN "force_manual_review" ELSE rule.action]

ResultLabel(rr) == IF rr.error THEN "ERROR" ELSE IF rr.passed THEN "PASS" ELSE "FAIL"

TriggersManualReview(rr) ==
  ~rr.passed /\ (rr.action = "force_manual_review" \/ rr.severity = "soft")

\* Faulty variant: a rule that could not be evaluated rejects nobody.
ErrorsForgiven(rr) ==
  ~rr.passed /\ ~rr.error /\ rr.severity = "mandatory" /\ rr.action # "force_manual_review"

TriggersHardReject(rr) ==
  ~rr.passed /\ rr.severity = "mandatory" /\ rr.action # "force_manual_review"

HasHardFailure(results) == \E i \in DOMAIN results : TriggersHardReject(results[i])
HasSoftFailure(results) == \E i \in DOMAIN results : TriggersManualReview(results[i])

\* One outcome for each rule of a stage; every rule is evaluated, also after
\* one that failed, unless one of them raises.
Evaluations(rules, paths) ==
  {e \in [DOMAIN rules -> {"pass", "fail", "fail_above", "error", "raise"}] :
     \A i \in DOMAIN rules : e[i] \in Outcomes(rules[i], paths)}

EvaluateStageRules(rules, e) == [i \in DOMAIN rules |-> EvaluateRule(rules[i], e[i])]
=============================================================================
