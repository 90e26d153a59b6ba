----------------------------- MODULE Quantities -----------------------------
(***************************************************************************)
(* The numbers of the calculators.  The engine works with doubles; here a  *)
(* factor (a bonus, a share of a ration, an efficiency) is a whole number  *)
(* of fractions 1/One, a product keeps the units of its factors, and a     *)
(* quotient is a pair: nothing is rounded, so sums can be compared.        *)
(***************************************************************************)
EXTENDS Integers, FiniteSetsExt, Functions

CONSTANTS
  One,    \* the factor 1
  None    \* null, undefined, and a key that is not there

ASSUME OneAssumption == One \in Nat \ {0} /\ One % 2 = 0
ASSUME NoneAssumption == None \notin Int \cup [n : Int, d : Int]

OrElse(x, default) == IF x = None THEN default ELSE x      \* x ?? default
Clamp(x, low, high) == IF x < low THEN low ELSE IF x > high THEN high ELSE x

SumOver(S, f(_)) == SumFunction([x \in S |-> f(x)])

Ratio(n, d) == [n |-> n, d |-> d]
Zero == Ratio(0, 1)
Plus(a, b) ==
  IF a.d = b.d THEN Ratio(a.n + b.n, a.d)
               ELSE Ratio(a.n * b.d + b.n * a.d, a.d * b.d)
Minus(a, b) == Plus(a, Ratio(-b.n, b.d))
Same(a, b) == a.n * b.d = b.n * a.d
AtMost(a, b) == a.n * b.d <= b.n * a.d
SumRatios(S, f(_)) == FoldFunction(Plus, Zero, [x \in S |-> f(x)])
=============================================================================
