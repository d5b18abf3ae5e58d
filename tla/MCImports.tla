----------------------------- MODULE MCImports -----------------------------
(* Two tabs and up to three rows: a and a2 are the same software and vendor  *)
(* with different costs, b is another one, x has an error.                   *)
EXTENDS Imports

CONSTANTS a, a2, b, x, t1, t2

MCKeyOf == [c \in Contents |-> IF c = a2 THEN a ELSE c]

=============================================================================
