------------------------------ MODULE RiskEngine ----------------------------
(***************************************************************************)
(* The risk engine (apps/policies/risk.py).  Weights are percent, so sums  *)
(* of weighted points are kept in hundredths and only the result rounds.   *)
(***************************************************************************)
EXTENDS Naturals, Sequences, SequencesExt

\* the weights of DEFAULT_RISK_CONFIGURATION
Weights ==
  <<<<"data_sensitivity", 20>>, <<"system_privilege", 20>>, <<"autonomy", 15>>,
    <<"external_connectivity", 15>>, <<"human_oversight", 10>>,
    <<"financial_impact", 10>>, <<"regulatory_relevance", 5>>, <<"vendor_risk", 5>>>>

Dimensions == {Weights[n][1] : n \in DOMAIN Weights}
Bands == {"Low", "Moderate", "High", "Critical"}

BandMinimum ==
  [Low |-> 0, Moderate |-> 25, High |-> 50, Critical |-> 75]

\* the band of a severity of the same name
BandOf ==
  [LOW |-> "Low", MODERATE |-> "Moderate", HIGH |-> "High", CRITICAL |-> "Critical"]

ClassifyRisk(score) ==
  CASE score <= 24 -> "Low"
    [] score \in 25..49 -> "Moderate"
    [] score \in 50..74 -> "High"
    [] score >= 75 -> "Critical"

\* sum
Total(numbers) ==
  LET n == Len(numbers)
      sum[i \in 0..n] == IF i = 0 THEN 0 ELSE sum[i - 1] + numbers[i]
  IN  sum[n]

\* what one effect adds to a dimension, and what all effects of a result do
Gain(effect, dimension) ==
  IF effect.type = "risk_points" /\ effect.dimension = dimension THEN effect.value ELSE 0

\* the effects of all results
Effects(results) ==
  LET n == Len(results)
      all[i \in 0..n] == IF i = 0 THEN <<>> ELSE all[i - 1] \o results[i].effects
  IN  all[n]

RawPoints(effects, dimension) ==
  Total([k \in 1..Len(effects) |-> Gain(effects[k], dimension)])

\* mutant of DimensionScore: a dimension may exceed its maximum
DimensionScoreOpen(effects, dimension) == RawPoints(effects, dimension)

\* no rule takes points away
DimensionScore(effects, dimension) ==
  LET raw == RawPoints(effects, dimension) IN IF raw > 100 THEN 100 ELSE raw

\* raw_weighted_score, in hundredths
RawWeighted(effects) ==
  Total([n \in 1..Len(Weights) |-> DimensionScore(effects, Weights[n][1]) * Weights[n][2]])

\* quantize, ROUND_HALF_UP
Rounded(hundredths) == (hundredths + 50) \div 100

FloorsOf(result) ==
  {BandOf[e.value] : e \in {e \in Range(result.effects) : e.type = "severity_floor"}}

Floors(results) == UNION {FloorsOf(results[i]) : i \in DOMAIN results}

\* mutant of FloorMinimum: the floor of the last rule counts
FloorMinimumLast(results) ==
  LET floored == {i \in DOMAIN results : FloorsOf(results[i]) # {}}
  IN  IF floored = {} THEN 0
      ELSE Max({BandMinimum[b] : b \in FloorsOf(results[Max(floored)])})

FloorMinimum(results) == Max({BandMinimum[b] : b \in Floors(results)} \cup {0})

\* calculate_policy_risk
PolicyRisk(results) ==
  LET weighted == RawWeighted(Effects(results))
      score == Max({Rounded(weighted), FloorMinimum(results)})
  IN  [score |-> score, band |-> ClassifyRisk(score), weighted |-> weighted]

=============================================================================
