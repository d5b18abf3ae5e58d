---------------------------- MODULE ReportContext ---------------------------
(***************************************************************************)
(* The figures of a report (apps/reports/context.py), summed up in one     *)
(* pass over the tools of a snapshot: their stored risk, results and       *)
(* monthly cost.                                                           *)
(*                                                                         *)
(* A tool here is a row of the stored inventory with its stored result:    *)
(* [cost, known, risk, results], where known says that the cost has a      *)
(* provenance other than Unknown.  Its place in the inventory is its id.   *)
(***************************************************************************)
EXTENDS Naturals, Sequences

\* before the first tool; the highest risk is that of a tool, 0 is none
NoFigures ==
  [counts_by_band |-> [b \in {"Low", "Moderate", "High", "Critical"} |-> 0],
   monthly_total |-> 0, unknown_monthly_cost_count |-> 0, highest |-> 0,
   policy_findings |-> <<>>, recommendations |-> <<>>]

\* mutant of KnownCost: an unknown cost counts as what is stored
KnownCostStored(tool) == tool.cost

KnownCost(tool) == IF tool.known THEN tool.cost ELSE 0

\* the first tool no other exceeds
Higher(tools, best, i) ==
  IF best = 0 \/ tools[i].risk.score > tools[best].risk.score THEN i ELSE best

Failing(result) == result.result \in {"FAIL", "WARNING"}

SameAdvice(f, g) == f.of = g.of /\ f.finding.remediation = g.finding.remediation

\* one recommendation for each remediation of a tool; no rule is without one
Advise(recommendations, f) ==
  IF \E n \in DOMAIN recommendations : SameAdvice(recommendations[n], f)
  THEN recommendations
  ELSE Append(recommendations, f)

AddFinding(figures, i, result) ==
  LET f == [of |-> i, finding |-> result]
  IN  IF Failing(result)
      THEN [figures EXCEPT !.policy_findings = Append(@, f),
                           !.recommendations = Advise(@, f)]
      ELSE figures

\* the results of a tool, one after the other
AddFindings(figures, i, results) ==
  LET after[k \in 0..Len(results)] ==
        IF k = 0 THEN figures ELSE AddFinding(after[k - 1], i, results[k])
  IN  after[Len(results)]

\* the figures with those of a tool, but for its findings
CountTool(figures, i, tools) ==
  [figures EXCEPT !.counts_by_band[tools[i].risk.band] = @ + 1,
                  !.monthly_total = @ + KnownCost(tools[i]),
                  !.unknown_monthly_cost_count = IF tools[i].known THEN @ ELSE @ + 1,
                  !.highest = Higher(tools, @, i)]

BuildReportContext(tools) ==
  LET after[i \in 0..Len(tools)] ==
        IF i = 0 THEN NoFigures
        ELSE AddFindings(CountTool(after[i - 1], i, tools), i, tools[i].results)
  IN  after[Len(tools)]

=============================================================================
