---------------------------- MODULE AccountingPack --------------------------
(***************************************************************************)
(* The one rule pack the product ships (apps/policies/packs/accounting.py).*)
(***************************************************************************)
EXTENDS PolicyEngine

Data(category) == Condition("data_categories", "contains", category)
Can(capability) == Condition("capabilities", "contains", capability)
Banking == Condition("connected_systems", "contains", "banking")
NoApproval == Condition("human_approval", "is_false", "none")
Pack(id, conditions, effects, result, severity) ==
  Rule(Industry, id, conditions, effects, result, severity, id)

PayrollRules ==
  <<Pack(6, <<Data("payroll"), Can("external_transfer")>>,
         <<Points("data_sensitivity", 25), Floor("HIGH")>>, "FAIL", "HIGH"),
    Pack(7, <<Data("payroll"), Can("external_transfer"), NoApproval>>,
         <<Floor("CRITICAL")>>, "FAIL", "CRITICAL")>>

BankRules ==
  <<Pack(3, <<Banking, Condition("permissions", "contains", "write")>>,
         <<Points("system_privilege", 30), Floor("HIGH")>>, "WARNING", "HIGH"),
    Pack(2, <<Banking, Can("financial_transaction"), NoApproval>>,
         <<Points("financial_impact", 40), Points("human_oversight", 30),
           Floor("CRITICAL")>>, "FAIL", "CRITICAL")>>

ClientDataRules ==
  <<Pack(9, <<Data("tax_records"), Can("external_transfer")>>,
         <<Points("data_sensitivity", 25), Floor("HIGH")>>, "FAIL", "HIGH"),
    Pack(5, <<Data("financial_records"), Can("data_export")>>,
         <<Points("data_sensitivity", 20)>>, "WARNING", "HIGH"),
    Pack(4, <<Data("financial_records"), Can("communication")>>,
         <<Points("external_connectivity", 20)>>, "WARNING", "HIGH")>>

AutonomyRules ==
  <<Pack(1, <<Can("record_modification"),
              Condition("autonomy_level", "greater_than_or_equal", 3)>>,
         <<Points("autonomy", 30), Floor("HIGH")>>, "FAIL", "HIGH")>>

ReviewRules ==
  <<Pack(11, <<Condition("vendor_review_status", "not_equals", "complete")>>,
         <<Points("vendor_risk", 15)>>, "WARNING", "MODERATE"),
    Pack(8, <<Condition("retention_status", "equals", "unknown")>>,
         <<Points("regulatory_relevance", 10)>>, "WARNING", "MODERATE"),
    Pack(10, <<Condition("training_behavior", "equals", "unknown")>>,
         <<Points("vendor_risk", 10)>>, "WARNING", "MODERATE")>>

AccountingRiskPack ==
  PayrollRules \o BankRules \o ClientDataRules \o AutonomyRules \o ReviewRules

=============================================================================
