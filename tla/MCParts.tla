------------------------------- MODULE MCParts ------------------------------
(* The listener with two workers and two jobs; the ring with two callers, two *)
(* records and two versions, one of which can be removed and added again; the *)
(* engines with every fact the pack asks for, with the pack alone and with    *)
(* rules that reach each floor and fill a dimension.                          *)
EXTENDS Parts

CONSTANTS w1, w2, j1, j2, c1, c2, i1, i2

MCFacts ==
  {<<"category", "payroll">>, <<"category", "tax_records">>,
   <<"category", "financial_records">>,
   <<"capability", "external_transfer">>, <<"capability", "financial_transaction">>,
   <<"capability", "record_modification">>, <<"capability", "communication">>,
   <<"system", "banking">>, <<"permission", "write">>,
   <<"autonomy", 3>>, <<"unapproved">>, <<"unverified">>}

\* rules of the form; the first two give the same advice
Payroll(id, effects) ==
  FormRule(id, "payroll", "communication", effects, "WARNING", "LOW", 12)
Taxes(id, effects) ==
  FormRule(id, "tax_records", "external_transfer", effects, "FAIL", "CRITICAL", 12)

MCRuleSets ==
  {<<>>,
   <<Taxes(2, <<Points("data_sensitivity", 60), Floor("LOW")>>),
     Payroll(1, <<Points("autonomy", 90), Floor("MODERATE")>>),
     DetectorRule(3, "p")>>,
   <<Payroll(1, <<Points("system_privilege", 100)>>),
     Payroll(2, <<Points("system_privilege", 100)>>),
     Payroll(4, <<Points("system_privilege", 100)>>),
     Taxes(5, <<Points("data_sensitivity", 100)>>),
     Taxes(6, <<Points("data_sensitivity", 100), Floor("CRITICAL")>>)>>}

MCRoiInputs ==
  [subscription : {0, 1, 1999}, implementation : {0, 1, 10000}, months : {1, 3, 120},
   hours : {0, 25, 33}, rate : {0, 3, 4550}, revenue : {0, 2}, avoided : {0, 1}]

Raw(cased, dotted) == [name |-> "x", cased |-> cased, dotted |-> dotted]
NoName == [name |-> Blank, cased |-> FALSE, dotted |-> FALSE]

MCIdentifiers ==
  {Identifier("google_client_id", Raw(FALSE, FALSE), "none", "p", TRUE),
   Identifier("google_client_id", Raw(TRUE, FALSE), "none", "q", TRUE),
   Identifier("domain", Raw(FALSE, TRUE), "none", "q", TRUE),
   Identifier("domain", Raw(FALSE, FALSE), "tenant", "p", TRUE),
   Identifier("product_name", Raw(TRUE, FALSE), "none", "p", TRUE),
   Identifier("product_name", Raw(FALSE, FALSE), "none", "q", FALSE),
   Identifier("microsoft_app_id", Raw(FALSE, FALSE), "none", "r", TRUE)}

Claim(type, raw, scope) == [type |-> type, raw |-> raw, scope |-> scope]

MCCandidates ==
  {Claim("google_client_id", Raw(FALSE, FALSE), "none"),
   Claim("google_client_id", Raw(TRUE, FALSE), "none"),
   Claim("domain", Raw(TRUE, TRUE), "none"),
   Claim("domain", Raw(FALSE, FALSE), "tenant"),
   Claim("product_name", Raw(FALSE, FALSE), "none"),
   Claim("product_name", NoName, "none"),
   Claim("microsoft_app_id", Raw(TRUE, FALSE), "none"),
   Claim("microsoft_app_id", Raw(TRUE, TRUE), "none"),
   Claim("installer_code", Raw(FALSE, FALSE), "none")}

Tool(categories, product) ==
  [BareTool EXCEPT !.categories = categories, !.product = product,
                   !.capabilities = {"communication", "external_transfer"}]

MCReportTools ==
  {[facts |-> Tool({"payroll", "tax_records"}, "p"), cost |-> 5, known |-> TRUE],
   [facts |-> Tool({"payroll"}, "none"), cost |-> 7, known |-> FALSE],
   [facts |-> Tool({}, "none"), cost |-> 3, known |-> TRUE]}

=============================================================================
