----------------------------- MODULE RuleValues -----------------------------
(***************************************************************************)
(* evaluate_rule (app/core/rules_engine.py) on concrete values: resolving  *)
(* the field, the operators, the coercion of numeric strings, and the      *)
(* graduated threshold.  RulesEngine takes it from the outcome on.         *)
(*                                                                         *)
(* A value is what JSON and YAML give, a pair <<kind, content>>:           *)
(*   <<"num", <<n, d>>>>      the number n / d; with d = 0 it is infinite, *)
(*                            or not a number if n = 0 too                 *)
(*   <<"bool", TRUE>>                                                      *)
(*   <<"str", <<text, x>>>>   a text; x is <<>>, or <<number>> if float()  *)
(*                            accepts it                                   *)
(*   <<"null", <<>>>>, <<"list", sequence of values>>                      *)
(*                                                                         *)
(* A rule as the YAML writes it is a record                                *)
(*   [id, severity, action, value, operator, threshold, fail_above, route] *)
(* where value is <<"field", path>>, or <<"expression", left, op, right>>, *)
(* and fail_above is <<>>, or <<on_fail_threshold>>.  A rule with neither, *)
(* or with an expression that does not parse, reads a path that is never   *)
(* there: the result is the same.                                          *)
(***************************************************************************)
EXTENDS RulesEngine, Integers, FiniteSets

CONSTANTS MaxFloat,         \* the largest whole number float() accepts
          Rounded(_),       \* the float nearest to a number
          TextTest(_, _, _) \* what an operator that looks inside texts and lists
                            \* says of two values: "true", "false" or "raises"

ASSUME FloatsAssumption ==
  /\ MaxFloat \in Nat /\ 1000 < MaxFloat
  /\ \A n \in 0 .. 1000 : Rounded(<<n, 1>>) = <<n, 1>>

Kind(v) == v[1]
Number(n) == <<"num", <<n, 1>>>>
Boolean(b) == <<"bool", b>>
Text(t) == <<"str", <<t, <<>>>>>>
Null == <<"null", <<>>>>
List(vs) == <<"list", vs>>

-----------------------------------------------------------------------------
\* The numbers of JSON, as Python reads them: 1e400 and Infinity are infinite.
Infinity == <<1, 0>>
NaN == <<0, 0>>
NumbersOfJSON == (Int \X (Nat \ {0})) \cup {Infinity, <<-1, 0>>, NaN}

Finite(x) == x[2] > 0
Sign(n) == IF n > 0 THEN 1 ELSE IF n < 0 THEN -1 ELSE 0
Fraction(n, d) == IF d = 0 THEN <<Sign(n), 0>> ELSE <<n, d>>

LessEq(x, y) ==
  /\ x # NaN /\ y # NaN
  /\ IF Finite(x) \/ Finite(y) THEN x[1] * y[2] <= y[1] * x[2] ELSE x[1] <= y[1]
Less(x, y) == LessEq(x, y) /\ ~LessEq(y, x)
SameNumber(x, y) == LessEq(x, y) /\ LessEq(y, x)

Plus(x, y) ==
  IF x = y /\ ~Finite(x) THEN x ELSE Fraction(x[1] * y[2] + y[1] * x[2], x[2] * y[2])
Times(x, y) == Fraction(x[1] * y[1], x[2] * y[2])
Minus(x, y) == Plus(x, <<-y[1], y[2]>>)
Over(x, y) == Fraction(x[1] * y[2] * Sign(y[1]), x[2] * y[1] * Sign(y[1]))
\* Python's % takes the sign of the divisor.
Modulo(x, y) ==
  LET q == Over(x, y)
  IN  IF Finite(x) /\ ~Finite(y) /\ y # NaN THEN IF x[1] * y[1] >= 0 THEN x ELSE y
      ELSE IF Finite(q) THEN Minus(x, Times(y, <<q[1] \div q[2], 1>>)) ELSE NaN

\* _SAFE_ARITHMETIC_OPS
Arithmetic(op, x, y) ==
  Rounded(CASE op = "+" -> Plus(x, y)
            [] op = "-" -> Minus(x, y)
            [] op = "*" -> Times(x, y)
            [] op = "/" -> Over(x, y)
            [] op = "%" -> Modulo(x, y))

-----------------------------------------------------------------------------
\* float(v) is possible: Python's booleans are numbers, and texts may be.
IsFloat(v) == Kind(v) \in {"num", "bool"} \/ (Kind(v) = "str" /\ v[2][2] # <<>>)

\* A whole number beyond the floats (a float itself is never larger).
Overflows(v) ==
  Kind(v) = "num" /\ Finite(v[2]) /\ (v[2][1] > MaxFloat * v[2][2] \/ v[2][1] < -MaxFloat * v[2][2])

\* What float(v) does: it gives a value, or raises a TypeError or ValueError
\* ("error"), which evaluate_rule expects, or an OverflowError ("raise"), which
\* it does not.
Conversion(v) == IF ~IsFloat(v) THEN "error" ELSE IF Overflows(v) THEN "raise" ELSE "value"

\* The first of two steps that does not give a value.
Then(step, next) == IF step = "value" THEN next ELSE step

\* The number that v is when compared, which is exact also between whole
\* numbers and floats, and the one it is after float(v).
Exact(v) ==
  CASE Kind(v) = "num"  -> v[2]
    [] Kind(v) = "bool" -> IF v[2] THEN <<1, 1>> ELSE <<0, 1>>
    [] Kind(v) = "str"  -> v[2][2][1]
Float(v) == IF Kind(v) = "num" THEN Rounded(Exact(v)) ELSE Exact(v)

-----------------------------------------------------------------------------
IsExpression(rule) == rule.value[1] = "expression"
Left(rule) == rule.value[2]
Right(rule) == rule.value[4]

\* The context paths a rule resolves.
Reads(rule) == IF IsExpression(rule) THEN {Left(rule), Right(rule)} ELSE {rule.value[2]}

Divides(rule) == IsExpression(rule) /\ rule.value[3] \in {"/", "%"}

\* ZeroDivisionError is not among the exceptions evaluate_rule expects there.
DividesByZero(rule, values) ==
  LET divisor == Float(values[Right(rule)])
  IN  Divides(rule) /\ divisor[1] = 0 /\ divisor # NaN

\* values maps the paths the context has to what is there.  Resolving a rule's
\* value gives one, or ends in an error, or raises.
Operand(path, values) == IF path \in DOMAIN values THEN Conversion(values[path]) ELSE "error"

Resolving(rule, values) ==
  IF IsExpression(rule)
  THEN Then(Then(Operand(Left(rule), values), Operand(Right(rule), values)),
            IF Operand(Right(rule), values) = "value" /\ DividesByZero(rule, values)
            THEN "raise" ELSE "value")
  ELSE IF rule.value[2] \in DOMAIN values THEN "value" ELSE "error"

ActualValue(rule, values) ==
  IF IsExpression(rule)
  THEN <<"num", Arithmetic(rule.value[3], Float(values[Left(rule)]), Float(values[Right(rule)]))>>
  ELSE values[rule.value[2]]

-----------------------------------------------------------------------------
Numeric(v) == Kind(v) \in {"num", "bool"}

\* A text is compared with a number as the number it spells, if any.
Coerced(v, threshold) ==
  IF Numeric(threshold) /\ Kind(v) = "str" /\ IsFloat(v) THEN <<"num", Exact(v)>> ELSE v

\* Python's ==, by which True is 1.
Same(v, w) ==
  IF Numeric(v) /\ Numeric(w) THEN SameNumber(Exact(v), Exact(w))
  ELSE Kind(v) = Kind(w) /\ v[2] = w[2]

IsText(v, t) == Kind(v) = "str" /\ v[2][1] = t

\* OPERATOR_REGISTRY
Orders == {"gt", "gte", "lt", "lte"}
Memberships == {"in", "not_in"}
OnTexts == {"contains", "startswith", "regex"}
Operators == Orders \cup Memberships \cup OnTexts \cup
             {"equals", "not_equals", "is_true", "is_false", "is_null", "is_not_null"}

\* Texts and lists are ordered by what is in them; a text may be part of another.
LooksInside(op, v, t) ==
  \/ op \in OnTexts
  \/ op \in Orders /\ Kind(v) = Kind(t) /\ Kind(v) \in {"str", "list"}
  \/ op \in Memberships /\ Kind(v) = "str" /\ Kind(t) = "str"

\* The exceptions of the operators, all of which evaluate_rule expects: values
\* without an order, a threshold without members, a pattern that is none.
Raises(op, v, t) ==
  IF LooksInside(op, v, t) THEN TextTest(op, v, t) = "raises"
  ELSE \/ op \in Orders /\ ~(Numeric(v) /\ Numeric(t))
       \/ op \in Memberships /\ Kind(t) # "list"

Holds(op, v, t) ==
  IF LooksInside(op, v, t) THEN TextTest(op, v, t) = "true"
  ELSE CASE op = "gt"          -> Less(Exact(t), Exact(v))
         [] op = "gte"         -> LessEq(Exact(t), Exact(v))
         [] op = "lt"          -> Less(Exact(v), Exact(t))
         [] op = "lte"         -> LessEq(Exact(v), Exact(t))
         [] op = "equals"      -> Same(v, t)
         [] op = "not_equals"  -> ~Same(v, t)
         [] op = "in"          -> \E i \in DOMAIN t[2] : Same(v, t[2][i])
         [] op = "not_in"      -> \A i \in DOMAIN t[2] : ~Same(v, t[2][i])
         [] op = "is_true"     -> Same(v, Number(1)) \/ IsText(v, "true")
         [] op = "is_false"    -> Same(v, Number(0)) \/ IsText(v, "false")
         [] op = "is_null"     -> Kind(v) = "null"
         [] op = "is_not_null" -> Kind(v) # "null"

\* Faulty variant: a value at the threshold is not above it.
StrictlyAbove(rule, actual) == Less(Float(rule.fail_above[1]), Float(actual))

\* The graduated threshold looks at the value before its coercion.
AboveFailThreshold(rule, actual) == LessEq(Float(rule.fail_above[1]), Float(actual))

\* What becomes of a comparison that failed.  A value or a threshold that is no
\* number leaves it as it is; one beyond the floats raises.
Failed(rule, actual) ==
  LET conversions == Then(Conversion(actual), Conversion(rule.fail_above[1]))
  IN  IF rule.fail_above = <<>> \/ conversions = "error" THEN "fail"
      ELSE IF conversions = "raise" THEN "raise"
      ELSE IF AboveFailThreshold(rule, actual) THEN "fail_above" ELSE "fail"

Compare(rule, actual) ==
  LET v == Coerced(actual, rule.threshold)
  IN  IF rule.operator \notin Operators \/ Raises(rule.operator, v, rule.threshold) THEN "error"
      ELSE IF Holds(rule.operator, v, rule.threshold) THEN "pass" ELSE Failed(rule, actual)

\* Faulty variant: an absent value is taken for None, which differs from all.
OutcomeOfNone(rule, values) ==
  CASE Resolving(rule, values) = "error" -> "fail"
    [] Resolving(rule, values) = "raise" -> "raise"
    [] Resolving(rule, values) = "value" -> Compare(rule, ActualValue(rule, values))

OutcomeOf(rule, values) ==
  IF Resolving(rule, values) = "value" THEN Compare(rule, ActualValue(rule, values))
  ELSE Resolving(rule, values)

\* What RulesEngine keeps of a rule.
AbstractRule(rule) ==
  [id        |-> rule.id,
   severity  |-> rule.severity,
   action    |-> rule.action,
   reads     |-> Reads(rule),
   computes  |-> IsExpression(rule),
   operator  |-> IF rule.operator \in Operators THEN "known" ELSE "unknown",
   graduated |-> rule.fail_above # <<>>,
   route     |-> rule.route]
=============================================================================
