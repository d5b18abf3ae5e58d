--------------------------- MODULE MCAssessments ---------------------------
(* Two requests at a time and five in all.  Bundles h1 and h2 find the same   *)
(* two products in opposite order, so their uploads may wait for each other;  *)
(* p1 has a rule, and h1 has a name the catalog does not know.                *)
EXTENDS Assessments, TLC

CONSTANTS r1, r2, p1, p2, m, f, h1, h2, a1

MCRecordsOf ==
  [h \in Bundles |-> IF h = h1 THEN <<p1, Unmatched, p2>> ELSE <<p2, p1>>]

Symmetry == Permutations(Requests)

=============================================================================
