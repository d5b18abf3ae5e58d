----------------------------- MODULE Calculations ---------------------------
(***************************************************************************)
(* What the deterministic engines answer: a user asks, or changes one fact *)
(* of a tool and asks again.  The engines keep no state between questions; *)
(* asked and answer are the last question and its answer.                  *)
(*                                                                         *)
(* The questions are those of inventory_detail_view and of                 *)
(* create_assessment_snapshot (risk), of inventory_roi_view (ROI), of      *)
(* _reconcile_record (a match), of seal_tenant_audit_events and            *)
(* verify_tenant_audit_history (a root), and of a report (its figures).    *)
(***************************************************************************)
EXTENDS AccountingPack, RiskEngine, RoiEngine, CatalogMatching, MerkleTree,
        ReportContext

CONSTANTS
  Facts,          \* what may be granted to a tool
  RuleSets,       \* sequences of enabled organization rules
  RoiInputs,      \* amounts entered in ROIForm
  Identifiers,    \* what a catalog may hold
  Candidates,     \* what a detection may claim
  MaxCandidates,
  Events,         \* audit events
  MaxEvents,      \* bound on the events of a block
  ReportTools,    \* tools a snapshot may hold, with cost and known
  MaxTools

\* the choices of InventoryItemForm
Offered ==
  [category |-> {"public_information", "internal_business_information",
     "client_information", "financial_records", "banking_information", "payroll",
     "tax_records", "health_information", "legal_information",
     "authentication_credentials", "personally_identifiable_information"},
   capability |-> {"content_generation", "data_analysis", "external_transfer",
     "financial_transaction", "record_modification", "communication"},
   system |-> {"accounting", "banking", "payroll", "tax", "document_storage", "email",
     "customer_records", "other"},
   permission |-> {"read", "write", "delete", "transmit", "administer"}]

\* what may become known of a tool by its form, the discovery and the catalog
OfferedFacts ==
  (UNION {{kind} \X Offered[kind] : kind \in DOMAIN Offered}) \cup
  {"autonomy"} \X (0..4) \cup {<<"unapproved">>, <<"unverified">>}

\* what OrganizationRuleForm and the detector mappings can ask and do
OrganizationConditions ==
  [field : {"data_categories", "capabilities"}, operator : {"contains"}, value : STRING]
  \cup [field : {"catalog_product_id"}, operator : {"equals"}, value : STRING]

OrganizationEffects ==
  [type : {"risk_points"}, dimension : Dimensions, value : 0..100]
  \cup [type : {"severity_floor"}, value : DOMAIN BandOf]

OrganizationRules ==
  [layer : {Organization}, id : Nat, conditions : Seq(OrganizationConditions),
   effects : Seq(OrganizationEffects), result : STRING, severity : STRING,
   remediation : Nat]

\* no two rules of an organization have one id
ASSUME CalculationsAssumption ==
  /\ Facts \subseteq OfferedFacts
  /\ RoiInputs \subseteq ROIForm
  /\ IsFiniteSet(Identifiers)
  /\ \A rules \in RuleSets :
       /\ rules \in Seq(OrganizationRules)
       /\ \A i, j \in DOMAIN rules : rules[i].id = rules[j].id => i = j
  /\ \A tool \in ReportTools : tool.cost \in Nat /\ tool.known \in BOOLEAN

VARIABLES asked, answer

calcvars == <<asked, answer>>

NoQuestion == [of |-> "nothing"]

CalcInit == asked = NoQuestion /\ answer = NoQuestion

-----------------------------------------------------------------------------
\* the least risky an inventory item can be: a product of a verified vendor
BareTool ==
  [categories |-> {}, capabilities |-> {}, systems |-> {}, permissions |-> {},
   autonomy |-> 0, approval |-> TRUE, product |-> "other", verified |-> TRUE]

\* a tool with one fact more: each gives it access, or takes a safeguard away
With(tool, fact) ==
  CASE fact[1] = "category" -> [tool EXCEPT !.categories = @ \cup {fact[2]}]
    [] fact[1] = "capability" -> [tool EXCEPT !.capabilities = @ \cup {fact[2]}]
    [] fact[1] = "system" -> [tool EXCEPT !.systems = @ \cup {fact[2]}]
    [] fact[1] = "permission" -> [tool EXCEPT !.permissions = @ \cup {fact[2]}]
    [] fact[1] = "autonomy" -> [tool EXCEPT !.autonomy = Max({@, fact[2]})]
    [] fact[1] = "unapproved" -> [tool EXCEPT !.approval = FALSE]
    [] fact[1] = "unverified" -> [tool EXCEPT !.verified = FALSE]

Evaluate(tool, rules) ==
  EvaluatePolicies(AccountingRiskPack \o rules, InventoryPolicyContext(tool))

Assess(tool, rules) == PolicyRisk(Evaluate(tool, rules))

Ask(question, reply) == asked' = question /\ answer' = reply

AskRisk ==
  \E rules \in RuleSets :
    /\ asked = NoQuestion
    /\ Ask([of |-> "risk", tool |-> BareTool, rules |-> rules], Assess(BareTool, rules))

\* edit_inventory_item_view, and the question again
GrantFact ==
  \E fact \in Facts :
    /\ asked.of = "risk" /\ With(asked.tool, fact) # asked.tool
    /\ Ask([asked EXCEPT !.tool = With(asked.tool, fact)],
           Assess(With(asked.tool, fact), asked.rules))

AskRoi ==
  \E inputs \in RoiInputs :
    /\ asked = NoQuestion
    /\ Ask([of |-> "roi", inputs |-> inputs], CalculateRoi(inputs))

\* _reconcile_record with what is claimed so far; one claim more
AskMatch ==
  \E catalog \in SUBSET Identifiers :
    /\ asked = NoQuestion /\ Unique(catalog)
    /\ Ask([of |-> "match", catalog |-> catalog, candidates |-> {}],
           MatchProduct(catalog, {}))

ClaimMore ==
  \E candidate \in Candidates :
    /\ asked.of = "match" /\ Cardinality(asked.candidates) < MaxCandidates
    /\ LET more == asked.candidates \cup {candidate}
       IN  Ask([asked EXCEPT !.candidates = more], MatchProduct(asked.catalog, more))

\* the root of a block, and of the events the verification finds for it
Roots(blocks) == [i \in DOMAIN blocks |-> MerkleRoot(blocks[i])]

AskRoot ==
  \E e, f \in Events :
    /\ asked = NoQuestion
    /\ LET blocks == <<<<e>>, <<f>>>>
       IN  Ask([of |-> "root", blocks |-> blocks], [roots |-> Roots(blocks)])

AppendEvent ==
  \E i \in {1, 2}, e \in Events :
    /\ asked.of = "root" /\ Len(asked.blocks[i]) < MaxEvents
    /\ LET blocks == [asked.blocks EXCEPT ![i] = Append(@, e)]
       IN  Ask([asked EXCEPT !.blocks = blocks], [roots |-> Roots(blocks)])

\* the rows of a snapshot: every tool with its results and its risk
Rows(tools, rules) ==
  [i \in DOMAIN tools |->
     LET results == Evaluate(tools[i].facts, rules)
     IN  [cost |-> tools[i].cost, known |-> tools[i].known,
          results |-> results, risk |-> PolicyRisk(results)]]

AskReport ==
  \E tool \in ReportTools, rules \in RuleSets :
    /\ asked = NoQuestion
    /\ Ask([of |-> "report", tools |-> <<tool>>, rules |-> rules],
           BuildReportContext(Rows(<<tool>>, rules)))

ReportMore ==
  \E tool \in ReportTools :
    /\ asked.of = "report" /\ Len(asked.tools) < MaxTools
    /\ LET tools == Append(asked.tools, tool)
       IN  Ask([asked EXCEPT !.tools = tools], BuildReportContext(Rows(tools, asked.rules)))

CalcNext ==
  \/ AskRisk \/ GrantFact \/ AskRoi \/ AskMatch \/ ClaimMore
  \/ AskRoot \/ AppendEvent \/ AskReport \/ ReportMore

CalcSpec == CalcInit /\ [][CalcNext]_calcvars

-----------------------------------------------------------------------------
\* The two cases in which the pack sees money or payroll leave unapproved.
Unchecked(tool) ==
  /\ ~tool.approval
  /\ \/ "payroll" \in tool.categories /\ "external_transfer" \in tool.capabilities
     \/ "banking" \in tool.systems /\ "financial_transaction" \in tool.capabilities

\* Payroll or payments that can leave without an approval are Critical, whatever
\* else is known, and with the pack alone nothing else is; a score reaches
\* every floor of a matching rule, exceeds all floors only by its rounded
\* points, stays within 0 and 100, and is never lower than the score the detail
\* page shows, which knows no rule of the organization (calculate_risk).
RiskIsSound ==
  asked.of = "risk" =>
    LET floors == Floors(Evaluate(asked.tool, asked.rules))
    IN  /\ answer.score \in 0..100
        /\ Unchecked(asked.tool) => answer.band = "Critical"
        /\ asked.rules = <<>> /\ answer.band = "Critical" => Unchecked(asked.tool)
        /\ \A b \in floors : answer.score >= BandMinimum[b]
        /\ \/ \E b \in floors : answer.score = BandMinimum[b]
           \/ 2 * (100 * answer.score - answer.weighted) \in -99..100
        /\ Assess(asked.tool, <<>>).score <= answer.score

RiskRises ==
  asked.of = "risk" => answer'.score >= answer.score

\* No fact that gives a tool more access, or takes a safeguard away, lowers its
\* score, whatever the rules: clamping, weighting, rounding and floors keep the
\* order (evaluate_policies, calculate_risk).
MoreAccessIsNoLessRisk == [][RiskRises]_calcvars

\* q is net / cost in hundredths of a percent, to the nearest, on its side of zero
IsRounded(q, cost, net) ==
  /\ 2 * (q * cost - 10000 * net) \in -cost..cost
  /\ net >= 0 => q >= 0
  /\ net <= 0 => q <= 0

\* The net value is value less cost, no rounding of ROIForm's amounts makes a
\* loss a gain, a percentage is within half a unit of the quotient on either
\* side of zero, and what is charged for the months differs from the cost of
\* the implementation by half a cent a month at most (calculate_roi).
RoiAddsUp ==
  asked.of = "roi" =>
    LET i == asked.inputs
    IN  /\ answer.value - answer.cost = answer.net
        /\ 2 * (answer.amortized * i.months - i.implementation) \in -(i.months - 1)..i.months
        /\ 2 * (100 * answer.labor - i.hours * i.rate) \in -99..100
        /\ answer.percent = {} <=> answer.cost = 0
        /\ \A q \in answer.percent : IsRounded(q, answer.cost, answer.net)

\* candidates of a priority up to p that a verified identifier of a product names
Naming(product, p) ==
  {c \in asked.candidates :
     /\ Usable(c) /\ Priority[c.type] <= p
     /\ \E i \in asked.catalog :
          i.product = product /\ i.verified /\ <<i.type, i.scope>> = <<c.type, c.scope>>
          /\ i.canonical = Canonicalize(c.type, c.raw)}

\* A known product is named by a verified identifier, and no candidate of the
\* same or a stronger priority names another; a review has two products named
\* with nothing stronger to decide; unknown is what nothing names
\* (match_product).
MatchIsExact ==
  asked.of = "match" =>
    LET products == {i.product : i \in asked.catalog}
        named == {p \in products : Naming(p, 4) # {}}
    IN  /\ answer.status = "unknown" <=> named = {}
        /\ answer.status = "known" =>
             \E k \in 1..4 : {p \in products : Naming(p, k) # {}} = {answer.product}
        /\ answer.status = "review" =>
             \A k \in 1..4 : Cardinality({p \in products : Naming(p, k) # {}}) # 1

\* Two blocks have one root only if they have the same events in the same order,
\* lengths that are no power of two included, and the split at the largest
\* power of two is the tree that is built level by level (merkle_root).
RootsBind ==
  asked.of = "root" =>
    /\ answer.roots[1] = answer.roots[2] <=> asked.blocks[1] = asked.blocks[2]
    /\ \A i \in {1, 2} : answer.roots[i] =
         RootByLevels([k \in DOMAIN asked.blocks[i] |-> HashLeaf(asked.blocks[i][k])])

\* the results of the tools that are findings: the places of tool and result
Failures(tools) ==
  {p \in UNION {{i} \X DOMAIN tools[i].results : i \in DOMAIN tools} :
     Failing(tools[p[1]].results[p[2]])}

\* what is recommended for a tool with a remediation
Advice(i, remediation) ==
  {n \in DOMAIN answer.recommendations :
     /\ answer.recommendations[n].of = i
     /\ answer.recommendations[n].finding.remediation = remediation}

\* The figures of a report belong together: the bands count every tool once, in
\* its own; the highest risk is that of the first tool no other exceeds; the
\* total and the unknown costs make all costs, and the report says how many
\* are unknown; every result that fails is listed once, and its remediation is
\* recommended once for its tool, for the first result that asks for it, and
\* nothing else is (build_report_context).
ReportAddsUp ==
  asked.of = "report" =>
    LET tools == Rows(asked.tools, asked.rules)
        listed == answer.policy_findings
        recommended == answer.recommendations
        Finding(i, k) == [of |-> i, finding |-> tools[i].results[k]]
    IN  /\ \A b \in Bands :
             answer.counts_by_band[b] = Cardinality({i \in DOMAIN tools : tools[i].risk.band = b})
        /\ answer.counts_by_band["Low"] + answer.counts_by_band["Moderate"]
             + answer.counts_by_band["High"] + answer.counts_by_band["Critical"] = Len(tools)
        /\ answer.highest \in DOMAIN tools
        /\ \A i \in DOMAIN tools :
             /\ tools[i].risk.score <= tools[answer.highest].risk.score
             /\ i < answer.highest => tools[i].risk.score < tools[answer.highest].risk.score
        /\ answer.monthly_total
             + Total([i \in 1..Len(tools) |-> IF tools[i].known THEN 0 ELSE tools[i].cost])
             = Total([i \in 1..Len(tools) |-> tools[i].cost])
        /\ answer.unknown_monthly_cost_count = Cardinality({i \in DOMAIN tools : ~tools[i].known})
        /\ Len(listed) = Cardinality(Failures(tools))
        /\ \A p \in Failures(tools) :
             /\ \E n \in DOMAIN listed : listed[n] = Finding(p[1], p[2])
             /\ \E n \in DOMAIN recommended : Advice(p[1], tools[p[1]].results[p[2]].remediation) = {n}
        /\ \A n \in DOMAIN recommended : \E p \in Failures(tools) :
             /\ recommended[n] = Finding(p[1], p[2])
             /\ \A q \in Failures(tools) :
                  SameAdvice(Finding(q[1], q[2]), recommended[n]) => p[2] <= q[2]

=============================================================================
