----------------------------- MODULE Fractions -----------------------------
(***************************************************************************)
(* Exact fractions, in lowest terms with a positive denominator, so that   *)
(* equal numbers are equal values.                                         *)
(***************************************************************************)
EXTENDS Integers, Folds

CommonDivisor[p \in Nat \X Nat] ==
  IF p[2] = 0 THEN p[1] ELSE CommonDivisor[<<p[2], p[1] % p[2]>>]

Reduced(n, d, g)  == [num |-> n \div g, den |-> d \div g]
Fraction(n, d)    == Reduced(n, d, CommonDivisor[<<IF n < 0 THEN -n ELSE n, d>>])     \* d > 0
Whole(n)          == [num |-> n, den |-> 1]
Nothing           == Whole(0)

Product(p, q)     == [num |-> p.num * q.num, den |-> p.den * q.den]
x ** y            == Product(Fraction(x.num, y.den), Fraction(y.num, x.den))
x // y            == x ** [num |-> y.den, den |-> y.num]                              \* y > 0
Joint(x, y, g)      == Fraction(x.num * (y.den \div g) + y.num * (x.den \div g), x.den * (y.den \div g))
x ++ y            == Joint(x, y, CommonDivisor[<<x.den, y.den>>])
x -- y            == x ++ [num |-> -y.num, den |-> y.den]
Smaller(x, y)     == (x -- y).num < 0

SumOver(term(_), S) ==
  MapThenFoldSet(LAMBDA x, y : x ++ y, Nothing, term, LAMBDA s : CHOOSE e \in s : TRUE, S)
=============================================================================
