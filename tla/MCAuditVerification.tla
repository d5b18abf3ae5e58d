------------------------- MODULE MCAuditVerification ------------------------
(* Events committed in any order, three seal transactions, any number of     *)
(* times each, and blocks of at most two events: a block can be full, partly  *)
(* filled or empty, and three events make a chain of two or three blocks.     *)
(* One verification starts at any moment.                                     *)
EXTENDS AuditVerification, TLC

CONSTANTS s1, s2, s3

Symmetry == Permutations(Sealers)
=============================================================================
