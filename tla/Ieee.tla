-------------------------------- MODULE Ieee --------------------------------
(***************************************************************************)
(* Doubles as exact rationals with the special values.  A number is a pair *)
(* <<numerator, denominator>> in lowest terms; a denominator of 0 makes it *)
(* NaN or an infinity, by the sign of the numerator.  Rounding is left     *)
(* out, and zero has no sign.                                              *)
(***************************************************************************)
EXTENDS Integers

gcd[p \in Nat \X Nat] == IF p[2] = 0 THEN p[1] ELSE gcd[<<p[2], p[1] % p[2]>>]
Abs(n) == IF n < 0 THEN -n ELSE n
Sign(n) == IF n < 0 THEN -1 ELSE IF n > 0 THEN 1 ELSE 0

\* The number n / d, for d >= 0.
Rat(n, d) == IF d = 0 THEN <<Sign(n), 0>>
             ELSE LET g == gcd[<<Abs(n), d>>] IN <<n \div g, d \div g>>
Whole(n) == <<n, 1>>

Nan == <<0, 0>>
Inf == <<1, 0>>
NegInf == <<-1, 0>>
Finite(a) == a[2] # 0

\* The pairs that stand for a double, and when two stand for the same number
\* (in lowest terms there is one pair for each).
IsDouble(a) == a \in Int \X Nat /\ (Finite(a) \/ a \in {Nan, Inf, NegInf})
SameNumber(a, b) == Finite(a) /\ Finite(b) /\ a[1] * b[2] = b[1] * a[2]

FNeg(a) == <<-a[1], a[2]>>
FAbs(a) == <<Abs(a[1]), a[2]>>

FAdd(a, b) == IF ~Finite(a) /\ ~Finite(b) THEN IF a = b THEN a ELSE Nan
              ELSE Rat(a[1] * b[2] + b[1] * a[2], a[2] * b[2])
FSub(a, b) == FAdd(a, FNeg(b))
FMul(a, b) == Rat(a[1] * b[1], a[2] * b[2])
FDiv(a, b) == IF b[1] < 0 THEN Rat(-(a[1] * b[2]), -(a[2] * b[1]))
              ELSE Rat(a[1] * b[2], a[2] * b[1])

\* Comparisons: NaN fails them all.
FLt(a, b) == /\ Nan \notin {a, b}
             /\ IF ~Finite(a) /\ ~Finite(b) THEN a[1] < b[1]
                ELSE a[1] * b[2] < b[1] * a[2]
FEq(a, b) == a # Nan /\ a = b
FLe(a, b) == FLt(a, b) \/ FEq(a, b)

\* f[lo] + ... + f[hi], or their product.
Unit(op) == IF op = "+" THEN Whole(0) ELSE Whole(1)
Join(op, a, b) == IF op = "+" THEN FAdd(a, b) ELSE FMul(a, b)
Fold(op, f, lo, hi) ==
  LET t[i \in Nat] == IF i < lo THEN Unit(op) ELSE Join(op, t[i - 1], f[i]) IN t[hi]
=============================================================================
