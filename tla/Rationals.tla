----------------------------- MODULE Rationals ----------------------------
(***************************************************************************)
(* Fractions in lowest terms <<numerator, denominator>>, for the           *)
(* arithmetic that the code does with floats: rounding is left out.        *)
(* (Functions, not operators, so that TLC evaluates an argument once.)     *)
(***************************************************************************)
LOCAL INSTANCE Integers

Fraction == Int \X Int
Rat(n) == <<n, 1>>

Abs(n) == IF n < 0 THEN - n ELSE n

gcd[a \in Int, b \in Int] == IF b = 0 THEN a ELSE gcd[b, a % b]

lowest[n \in Int, d \in Int] ==
  LET g == gcd[Abs(n), Abs(d)]
  IN  IF d > 0 THEN <<n \div g, d \div g>> ELSE <<(- n) \div g, (- d) \div g>>

sum[p \in Fraction, q \in Fraction] == lowest[p[1] * q[2] + q[1] * p[2], p[2] * q[2]]
product[p \in Fraction, q \in Fraction] == lowest[p[1] * q[1], p[2] * q[2]]
opposite[p \in Fraction] == <<- p[1], p[2]>>
inverse[p \in Fraction] == lowest[p[2], p[1]]
below[p \in Fraction, q \in Fraction] == p[1] * q[2] < q[1] * p[2]

Ratio(n, d) == lowest[n, d]
Plus(p, q) == sum[p, q]
Minus(p, q) == sum[p, opposite[q]]
Times(p, q) == product[p, q]
Over(p, q) == product[p, inverse[q]]
Below(p, q) == below[p, q]
NotAbove(p, q) == ~below[q, p]

Least(S) == CHOOSE p \in S : \A q \in S : NotAbove(p, q)
Greatest(S) == CHOOSE p \in S : \A q \in S : NotAbove(q, p)

(* The square root of a square.                                            *)
Root(p) ==
  LET Of(n) == CHOOSE k \in 0 .. n : k * k = n
  IN  <<Of(p[1]), Of(p[2])>>
===========================================================================
