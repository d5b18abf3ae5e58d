----------------------------- MODULE PolicyEngine ---------------------------
(***************************************************************************)
(* The policy engine (apps/policies/engine.py): rules with conditions over *)
(* what is known of a tool, evaluated in the order of precedence.          *)
(*                                                                         *)
(* Texts nobody compares are left out, and so are the effects that are     *)
(* only texts.  Of the twelve operators those are modelled that a rule of  *)
(* the product uses: the accounting pack, the rule form and the detector   *)
(* mappings.  All three compare a field with a value of its type.          *)
(***************************************************************************)
EXTENDS Naturals, Sequences, FiniteSets

\* RuleLayer, as far as the product has rules of a layer
Industry == 2
Organization == 3

Condition(field, operator, value) ==
  [field |-> field, operator |-> operator, value |-> value]

Points(dimension, value) ==
  [type |-> "risk_points", dimension |-> dimension, value |-> value]

Floor(severity) == [type |-> "severity_floor", value |-> severity]

\* id is the place of the rule in the order of the ids; a remediation is a number
Rule(layer, id, conditions, effects, result, severity, remediation) ==
  [layer |-> layer, id |-> id, conditions |-> conditions, effects |-> effects,
   result |-> result, severity |-> severity, remediation |-> remediation]

\* evaluate_condition
Holds(condition, context) ==
  LET actual == context[condition.field] IN
  CASE condition.operator = "equals" -> actual = condition.value
    [] condition.operator = "not_equals" -> actual # condition.value
    [] condition.operator = "contains" -> condition.value \in actual
    [] condition.operator = "greater_than_or_equal" -> actual >= condition.value
    [] condition.operator = "is_false" -> ~actual

Matches(rule, context) ==
  \A i \in DOMAIN rule.conditions : Holds(rule.conditions[i], context)

EvaluateRule(rule, context) ==
  IF Matches(rule, context)
  THEN [id |-> rule.id, result |-> rule.result, severity |-> rule.severity,
        remediation |-> rule.remediation, effects |-> rule.effects]
  ELSE [id |-> rule.id, result |-> "NOT_APPLICABLE", severity |-> "NONE",
        remediation |-> rule.remediation, effects |-> <<>>]

Before(a, b) == a.layer < b.layer \/ (a.layer = b.layer /\ a.id < b.id)

\* sorted(rules, key=...): every rule at its place; no two have one id.  The
\* empty sequence before a sequence makes TLC compute its elements once.
Ordered(rules) ==
  LET Earlier(i) == {j \in DOMAIN rules : Before(rules[j], rules[i])}
      places == {<<Cardinality(Earlier(i)) + 1, i>> : i \in DOMAIN rules}
  IN  <<>> \o [n \in 1..Len(rules) |-> rules[(CHOOSE p \in places : p[1] = n)[2]]]

EvaluatePolicies(rules, context) ==
  LET ordered == Ordered(rules)
  IN  <<>> \o [i \in 1..Len(ordered) |-> EvaluateRule(ordered[i], context)]

\* inventory_policy_context: what nobody records is unknown
InventoryPolicyContext(tool) ==
  [data_categories |-> tool.categories, capabilities |-> tool.capabilities,
   connected_systems |-> tool.systems, permissions |-> tool.permissions,
   autonomy_level |-> tool.autonomy, human_approval |-> tool.approval,
   catalog_product_id |-> tool.product,
   vendor_review_status |->
     IF tool.product # "none" /\ tool.verified THEN "complete" ELSE "incomplete",
   retention_status |-> "unknown", training_behavior |-> "unknown"]

\* what compile_organization_rule makes of OrganizationRuleForm's definition
FormRule(id, category, capability, effects, result, severity, remediation) ==
  Rule(Organization, id,
       <<Condition("data_categories", "contains", category),
         Condition("capabilities", "contains", capability)>>,
       effects, result, severity, remediation)

\* and of the definition instantiate_detector_rules writes
DetectorRule(id, product) ==
  Rule(Organization, id,
       <<Condition("catalog_product_id", "equals", product)>>,
       <<>>, "WARNING", "MODERATE", 0)

=============================================================================
