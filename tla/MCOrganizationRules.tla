------------------------ MODULE MCOrganizationRules ------------------------
(* Two requests, two identifiers for people's rules and one for a detector   *)
(* rule, two names, two definitions.                                         *)
EXTENDS OrganizationRules, TLC

CONSTANTS m1, m2, d, n1, n2, p, q, r1, r2

Symmetry == Permutations(ManualIds) \cup Permutations(Requests)
              \cup Permutations(Names) \cup Permutations(Definitions)

=============================================================================
