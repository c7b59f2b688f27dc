---------------------------- MODULE Polynomials ---------------------------
(***************************************************************************)
(* Polynomials as the sequence of their coefficients, the constant first.  *)
(* Exact fractions stand for floats.                                       *)
(***************************************************************************)
EXTENDS Rationals, Integers, Sequences

MaxCoeffs == 8
Factorial == <<1, 1, 2, 6, 24, 120, 720, 5040>>    \* facs[], from 0! on
Zero == <<0, 1>>

MakeConstant(x) == <<x>>
MakeZero == MakeConstant(Zero)

(* A line that takes no time stays half way.                               *)
MakeLinear(duration, x0, x1) ==
  IF duration # Zero THEN <<x0, Over(Minus(x1, x0), duration)>>
                     ELSE <<Over(Plus(x0, x1), Rat(2)), Zero>>

Stretch(poly, factor) ==
  LET power[i \in 1 .. Len(poly)] == IF i = 1 THEN Rat(1) ELSE Over(power[i - 1], factor)
  IN  [i \in 1 .. Len(poly) |-> Times(poly[i], power[i])]

(* Mutant: the signs of the terms do not depend on the coefficient.        *)
BezierSumOneSign(xs, j) ==
  LET Term(i) == Over(Times(xs[i + 1], Rat(IF i % 2 = 0 THEN 1 ELSE -1)),
                      Rat(Factorial[i + 1] * Factorial[j - i + 1]))
      upto[i \in 0 .. j] == IF i = 0 THEN Term(0) ELSE Plus(upto[i - 1], Term(i))
  IN  upto[j]

(* The sum of the terms xs[i] (-1)^(i+j) / (i! (j-i)!), for i up to j.     *)
BezierSum(xs, j) ==
  LET Term(i) == Over(Times(xs[i + 1], Rat(IF (i + j) % 2 = 0 THEN 1 ELSE -1)),
                      Rat(Factorial[i + 1] * Factorial[j - i + 1]))
      upto[i \in 0 .. j] == IF i = 0 THEN Term(0) ELSE Plus(upto[i - 1], Term(i))
  IN  upto[j]

(* Points beyond the largest number are not looked at.                     *)
MakeBezier(duration, xs) ==
  CASE Len(xs) = 0 -> MakeZero
    [] Len(xs) = 1 -> MakeConstant(xs[1])
    [] Len(xs) = 2 -> MakeLinear(duration, xs[1], xs[2])
    [] Len(xs) > 2 ->
         LET n == (IF Len(xs) < MaxCoeffs THEN Len(xs) ELSE MaxCoeffs) - 1
         IN  Stretch([j \in 1 .. n + 1 |->
                        Times(BezierSum(xs, j - 1),
                              Ratio(Factorial[n + 1], Factorial[n - j + 2]))], duration)

(* Horner's rule, from the last coefficient down.                          *)
Eval(poly, t) ==
  LET n == Len(poly)
      value[i \in 0 .. n] ==
        IF i = 0 THEN Zero ELSE Plus(Times(value[i - 1], t), poly[n - i + 1])
  IN  value[n]

Deriv(poly) ==
  IF Len(poly) <= 1 THEN MakeZero
  ELSE [i \in 1 .. Len(poly) - 1 |-> Times(Rat(i), poly[i + 1])]

Scaled(poly, factor) == [i \in 1 .. Len(poly) |-> Times(factor, poly[i])]

(* The coefficients but for leading zeros, of which `least' remain.        *)
Significant(poly, least) ==
  LET kept == {i \in 1 .. Len(poly) : i <= least \/ \E k \in i .. Len(poly) : poly[k] # Zero}
  IN  SubSeq(poly, 1, CHOOSE n \in kept \cup {0} : \A i \in kept : i <= n)

Unimplemented == [result |-> "EUNIMPLEMENTED", roots |-> {}]
Roots(S) == [result |-> "SUCCESS", roots |-> S]

(* A negative discriminant gives roots that are not numbers, which compare *)
(* as false with everything: they are left out here.                       *)
SolveQuadratic(p) ==
  LET d == Minus(Times(p[2], p[2]), Times(Rat(4), Times(p[1], p[3])))
      At(root) == Over(Minus(root, p[2]), Times(Rat(2), p[3]))
  IN  IF d = Zero THEN Roots({At(Zero)})
      ELSE IF Below(d, Zero) THEN Roots({})
      ELSE Roots({At(Root(d)), At(Minus(Zero, Root(d)))})

Solve(poly) ==
  LET p == Significant(poly, 1)
  IN  CASE Len(p) = 0 -> Roots({})
        [] Len(p) = 1 -> Roots(IF p[1] = Zero THEN {Zero} ELSE {})
        [] Len(p) = 2 -> Roots({Over(Minus(Zero, p[1]), p[2])})
        [] Len(p) = 3 -> SolveQuadratic(p)
        [] Len(p) > 3 -> Unimplemented

Span(S) == [min |-> Least(S), max |-> Greatest(S)]

(* Mutant: only the ends of the interval are looked at.                    *)
ExtremaAtEnds(poly, result) == Span({Eval(poly, Zero), Eval(poly, Rat(1))})

(* The extrema on [0, 1] of a polynomial of degree three or less; for a    *)
(* higher degree the result is left as it was.                             *)
Extrema(poly, result) ==
  LET p == Significant(poly, 2)
      inner == {r \in Solve(Deriv(poly)).roots : NotAbove(Zero, r) /\ NotAbove(r, Rat(1))}
  IN  CASE Len(p) = 0 -> Span({Zero})
        [] Len(p) = 1 -> Span({p[1]})
        [] Len(p) = 2 -> Span({p[1], Plus(p[1], p[2])})
        [] Len(p) \in {3, 4} -> Span({Eval(poly, t) : t \in {Zero, Rat(1)} \cup inner})
        [] Len(p) > 4 -> result
===========================================================================
