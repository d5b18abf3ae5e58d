------------------------------- MODULE RoiEngine ----------------------------
(***************************************************************************)
(* The ROI engine (apps/roi/engine.py), on amounts as ROIForm accepts them:*)
(* whole cents, and hundredths of an hour.  A Decimal quotient has 28      *)
(* digits, more than any such amount needs to be rounded once.             *)
(***************************************************************************)
EXTENDS Integers

\* what ROIForm accepts: nothing negative, and one month to ten years
ROIForm ==
  [subscription : Nat, implementation : Nat, months : 1..120, hours : Nat,
   rate : Nat, revenue : Nat, avoided : Nat]

\* mutant of HalfUp: ROUND_DOWN
Down(n, d) == IF n < 0 THEN -((-n) \div d) ELSE n \div d

\* n / d to the nearest integer, halves away from zero: ROUND_HALF_UP
HalfUp(n, d) ==
  IF n < 0 THEN -((2 * (-n) + d) \div (2 * d)) ELSE (2 * n + d) \div (2 * d)

\* roi_percent in hundredths of a percent, in a set that is empty for None
Percent(net, cost) == {HalfUp(net * 10000, c) : c \in {cost} \ {0}}

CalculateRoi(i) ==
  LET labor == HalfUp(i.hours * i.rate, 100)
      amortized == HalfUp(i.implementation, i.months)
      value == labor + i.revenue + i.avoided
      cost == i.subscription + amortized
  IN  [labor |-> labor, amortized |-> amortized, value |-> value, cost |-> cost,
       net |-> value - cost, percent |-> Percent(value - cost, cost)]

=============================================================================
