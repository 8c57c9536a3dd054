---------------------------- MODULE WindowProofs ----------------------------
(***************************************************************************)
(* Proofs about the window operators.  PairWindow: vwap, rolling_corr,     *)
(* rolling_beta and lag are those of the window in the runtime and         *)
(* lowered.  RingStats: so are sma, rolling_std and zscore in all their    *)
(* implementations, and the runtime recovers from a NaN.  Both for         *)
(* every period and every stream of integers and NaN, with the same lemmas *)
(* about sums and rings.                                                   *)
(***************************************************************************)
EXTENDS Windows, WellFoundedInduction, TLAPS

-----------------------------------------------------------------------------
(* Sums *)

\* Every set of numbers that is not empty has a least element.
LEMMA LeastNumber ==
  ASSUME NEW T, T \subseteq Nat, T # {}
  PROVE  \E m \in T : \A k \in T : m <= k
<1> DEFINE R == OpToRel(<, Nat)
<1>1. IsWellFoundedOn(R, Nat)
  BY NatLessThanWellFounded
<1>2. \A x, y \in Nat : <<y, x>> \in R <=> y < x
  BY DEF OpToRel
<1> HIDE DEF R
<1>3. PICK m \in T : \A k \in T : ~ (<<k, m>> \in R)
  BY <1>1, WFMin
<1>4. ASSUME NEW k \in T PROVE m <= k
  <2>1. k \in Nat /\ m \in Nat
    OBVIOUS
  <2>2. ~(k < m)
    BY <1>2, <1>3, <2>1
  <2> QED BY <2>1, <2>2
<1> QED BY <1>4

\* Induction: a set of numbers with 0 and with the successor of each of its
\* elements has them all.
LEMMA Induction ==
  ASSUME NEW T, 0 \in T, \A n \in Nat : n \in T => n + 1 \in T
  PROVE  \A n \in Nat : n \in T
<1> DEFINE U == Nat \ T
<1> SUFFICES ASSUME U # {} PROVE FALSE
  OBVIOUS
<1>1. PICK m \in U : \A k \in U : m <= k
  BY LeastNumber
<1>2. m \in Nat /\ m # 0
  BY <1>1
<1>3. m - 1 \in Nat /\ m - 1 \notin U /\ (m - 1) + 1 = m
  BY <1>1, <1>2
<1> QED BY <1>1, <1>3

\* The partial sums of s up to the n-th.
IsTotal(t, s, n) ==
  /\ DOMAIN t = 0 .. n /\ t[0] = 0
  /\ \A k \in 1 .. n : t[k] = Add(t[k - 1], s[k])

LEMMA TotalExists ==
  ASSUME NEW s, NEW n \in Nat
  PROVE  \E t : IsTotal(t, s, n)
<1> DEFINE T == {k \in Nat : \E t : IsTotal(t, s, k)}
<1>1. 0 \in T
  <2> DEFINE t == [k \in 0 .. 0 |-> 0]
  <2>1. IsTotal(t, s, 0)
    BY DEF IsTotal
  <2> QED BY <2>1
<1>2. ASSUME NEW m \in Nat, m \in T PROVE m + 1 \in T
  <2>1. PICK t : IsTotal(t, s, m)
    BY <1>2
  <2> DEFINE u == [k \in 0 .. m + 1 |-> IF k = m + 1 THEN Add(t[m], s[m + 1]) ELSE t[k]]
  <2>2. DOMAIN u = 0 .. m + 1 /\ u[0] = 0
    BY <2>1 DEF IsTotal
  <2>3. ASSUME NEW k \in 1 .. m + 1 PROVE u[k] = Add(u[k - 1], s[k])
    <3>1. CASE k = m + 1
      <4>1. k - 1 = m /\ m \in 0 .. m + 1 /\ m # m + 1
        BY <3>1
      <4>2. u[k] = Add(t[m], s[m + 1]) /\ u[m] = t[m]
        BY <3>1, <4>1
      <4> QED BY <3>1, <4>1, <4>2
    <3>2. CASE k # m + 1
      <4>1. k \in 1 .. m /\ k - 1 \in 0 .. m + 1 /\ k - 1 # m + 1 /\ k \in 0 .. m + 1
        BY <3>2
      <4>2. u[k] = t[k] /\ u[k - 1] = t[k - 1]
        BY <3>2, <4>1
      <4> QED BY <2>1, <4>1, <4>2 DEF IsTotal
    <3> QED BY <3>1, <3>2
  <2>4. IsTotal(u, s, m + 1)
    BY <2>2, <2>3 DEF IsTotal
  <2> QED BY <2>4
<1> HIDE DEF T
<1>3. n \in T
  BY <1>1, <1>2, Induction
<1> QED BY <1>3 DEF T

LEMMA TotalUnique ==
  ASSUME NEW s, NEW m \in Nat, NEW n \in Nat, NEW t, NEW u,
         IsTotal(t, s, m), IsTotal(u, s, n), NEW k \in Nat, k <= m, k <= n
  PROVE  t[k] = u[k]
<1> DEFINE T == {i \in Nat : i <= m /\ i <= n => t[i] = u[i]}
<1>1. 0 \in T
  BY DEF IsTotal
<1>2. ASSUME NEW i \in Nat, i \in T PROVE i + 1 \in T
  <2> SUFFICES ASSUME i + 1 <= m, i + 1 <= n PROVE t[i + 1] = u[i + 1]
    OBVIOUS
  <2>1. i + 1 \in 1 .. m /\ i + 1 \in 1 .. n /\ (i + 1) - 1 = i /\ i <= m /\ i <= n
    OBVIOUS
  <2>2. t[i] = u[i]
    BY <1>2, <2>1
  <2>3. t[i + 1] = Add(t[i], s[i + 1]) /\ u[i + 1] = Add(u[i], s[i + 1])
    BY <2>1 DEF IsTotal
  <2> QED BY <2>2, <2>3
<1> HIDE DEF T
<1>3. k \in T
  BY <1>1, <1>2, Induction
<1> QED BY <1>3 DEF T

\* What SumOf computes: nothing is 0, and the last term is added last.
LEMMA SumSteps ==
  ASSUME NEW s
  PROVE  /\ SumOf(s, 0) = 0
         /\ \A n \in Nat : SumOf(s, n + 1) = Add(SumOf(s, n), s[n + 1])
<1> DEFINE P(n) == CHOOSE t : IsTotal(t, s, n)
           w == [k \in Nat |-> P(k)[k]]
           f == [k \in Nat |-> IF k = 0 THEN 0 ELSE Add(w[k - 1], s[k])]
<1>1. \A n \in Nat : IsTotal(P(n), s, n)
  BY TotalExists
<1> HIDE DEF P
<1>2. ASSUME NEW k \in Nat PROVE w[k] = f[k]
  <2>1. CASE k = 0
    BY <1>1, <2>1 DEF IsTotal
  <2>2. CASE k # 0
    <3>1. k - 1 \in Nat /\ k \in 1 .. k /\ k - 1 <= k
      BY <2>2
    <3>2. P(k)[k] = Add(P(k)[k - 1], s[k])
      BY <1>1, <3>1 DEF IsTotal
    <3>3. P(k)[k - 1] = P(k - 1)[k - 1]
      BY <1>1, <3>1, TotalUnique
    <3>4. w[k] = P(k)[k] /\ w[k - 1] = P(k - 1)[k - 1]
      BY <3>1
    <3> QED BY <2>2, <3>2, <3>3, <3>4
  <2> QED BY <2>1, <2>2
<1>3. w = f
  BY <1>2
<1> DEFINE g == CHOOSE t : t = [k \in Nat |-> IF k = 0 THEN 0 ELSE Add(t[k - 1], s[k])]
<1>4. g = [k \in Nat |-> IF k = 0 THEN 0 ELSE Add(g[k - 1], s[k])]
  BY <1>3
<1> HIDE DEF g
<1>5. g[0] = 0 /\ \A n \in Nat : g[n + 1] = Add(g[n], s[n + 1])
  <2>1. \A k \in Nat : g[k] = IF k = 0 THEN 0 ELSE Add(g[k - 1], s[k])
    BY <1>4
  <2>2. ASSUME NEW n \in Nat PROVE g[n + 1] = Add(g[n], s[n + 1])
    <3>1. n + 1 \in Nat /\ n + 1 # 0 /\ (n + 1) - 1 = n
      OBVIOUS
    <3> QED BY <2>1, <3>1
  <2> QED BY <2>1, <2>2
<1>6. \A n \in Nat : SumOf(s, n) = g[n]
  BY DEF SumOf, g
<1>7. 0 \in Nat /\ \A n \in Nat : n + 1 \in Nat
  OBVIOUS
<1> QED BY <1>5, <1>6, <1>7

Ints(s, n) == \A k \in 1 .. n : s[k] \in Int

\* A sum depends on its terms only.
LEMMA SumSame ==
  ASSUME NEW s, NEW r, NEW n \in Nat, \A k \in 1 .. n : s[k] = r[k]
  PROVE  SumOf(s, n) = SumOf(r, n)
<1> DEFINE T == {i \in Nat : i <= n => SumOf(s, i) = SumOf(r, i)}
<1>1. 0 \in T
  BY SumSteps
<1>2. ASSUME NEW i \in Nat, i \in T PROVE i + 1 \in T
  <2> SUFFICES ASSUME i + 1 <= n PROVE SumOf(s, i + 1) = SumOf(r, i + 1)
    OBVIOUS
  <2>1. i <= n /\ s[i + 1] = r[i + 1]
    OBVIOUS
  <2>2. SumOf(s, i) = SumOf(r, i)
    BY <1>2, <2>1
  <2> QED BY <2>1, <2>2, SumSteps
<1> HIDE DEF T
<1>3. n \in T
  BY <1>1, <1>2, Induction
<1> QED BY <1>3 DEF T

\* A sum of integers is one, and + is what adds them up.
LEMMA SumInts ==
  ASSUME NEW s, NEW n \in Nat, Ints(s, n)
  PROVE  /\ SumOf(s, n) \in Int
         /\ \A k \in 0 .. n - 1 : SumOf(s, k) \in Int /\ SumOf(s, k + 1) = SumOf(s, k) + s[k + 1]
<1> DEFINE T == {i \in Nat : i <= n => SumOf(s, i) \in Int}
<1>0. ASSUME NEW i \in Nat, i + 1 <= n, SumOf(s, i) \in Int
      PROVE  SumOf(s, i + 1) = SumOf(s, i) + s[i + 1] /\ SumOf(s, i + 1) \in Int
  <2>1. s[i + 1] \in Int
    BY <1>0 DEF Ints
  <2>2. SumOf(s, i + 1) = Add(SumOf(s, i), s[i + 1])
    BY SumSteps
  <2>3. Add(SumOf(s, i), s[i + 1]) = SumOf(s, i) + s[i + 1]
    BY <1>0, <2>1, NaNAssumption DEF Add
  <2> QED BY <1>0, <2>1, <2>2, <2>3
<1>1. 0 \in T
  BY SumSteps
<1>2. ASSUME NEW i \in Nat, i \in T PROVE i + 1 \in T
  <2> SUFFICES ASSUME i + 1 <= n PROVE SumOf(s, i + 1) \in Int
    OBVIOUS
  <2>1. i <= n
    OBVIOUS
  <2> QED BY <1>0, <1>2, <2>1
<1> HIDE DEF T
<1>3. \A i \in Nat : i \in T
  BY <1>1, <1>2, Induction
<1>4. \A i \in Nat : i <= n => SumOf(s, i) \in Int
  BY <1>3 DEF T
<1>5. ASSUME NEW k \in 0 .. n - 1
      PROVE  SumOf(s, k) \in Int /\ SumOf(s, k + 1) = SumOf(s, k) + s[k + 1]
  <2>1. k \in Nat /\ k <= n /\ k + 1 <= n
    OBVIOUS
  <2>2. SumOf(s, k) \in Int
    BY <1>4, <2>1
  <2> QED BY <1>0, <2>1, <2>2
<1> QED BY <1>4, <1>5

\* One more term.
LEMMA SumGrows ==
  ASSUME NEW s, NEW n \in Nat, Ints(s, n), NEW x \in Int, NEW r,
         \A k \in 1 .. n : r[k] = s[k], r[n + 1] = x
  PROVE  SumOf(r, n + 1) = SumOf(s, n) + x /\ SumOf(s, n) \in Int
<1>1. Ints(r, n + 1)
  <2> SUFFICES ASSUME NEW k \in 1 .. n + 1 PROVE r[k] \in Int
    BY DEF Ints
  <2>1. CASE k = n + 1
    BY <2>1
  <2>2. CASE k # n + 1
    <3>1. k \in 1 .. n
      BY <2>2
    <3> QED BY <3>1 DEF Ints
  <2> QED BY <2>1, <2>2
<1>2. n \in 0 .. (n + 1) - 1 /\ n + 1 \in Nat
  OBVIOUS
<1>3. SumOf(r, n + 1) = SumOf(r, n) + r[n + 1]
  BY <1>1, <1>2, SumInts
<1>4. SumOf(r, n) = SumOf(s, n)
  BY SumSame
<1>5. SumOf(s, n) \in Int
  BY SumInts
<1> QED BY <1>3, <1>4, <1>5

\* A term less at the front.
LEMMA SumShifts ==
  ASSUME NEW s, NEW n \in Nat, Ints(s, n + 1), NEW r, \A k \in 1 .. n : r[k] = s[k + 1]
  PROVE  SumOf(r, n) = SumOf(s, n + 1) - s[1]
<1> DEFINE T == {i \in Nat : i <= n => SumOf(r, i) = SumOf(s, i + 1) - s[1]}
<1>0. /\ n + 1 \in Nat /\ s[1] \in Int
      /\ \A k \in 0 .. n : /\ SumOf(s, k) \in Int /\ SumOf(s, k + 1) = SumOf(s, k) + s[k + 1]
                            /\ s[k + 1] \in Int
  <2>1. n + 1 \in Nat /\ 0 .. (n + 1) - 1 = 0 .. n /\ 1 \in 1 .. n + 1
        /\ \A k \in 0 .. n : k + 1 \in 1 .. n + 1
    OBVIOUS
  <2> QED BY <2>1, SumInts DEF Ints
<1>0a. Ints(r, n)
  <2> SUFFICES ASSUME NEW k \in 1 .. n PROVE r[k] \in Int
    BY DEF Ints
  <2>1. k \in 0 .. n
    OBVIOUS
  <2> QED BY <1>0, <2>1
<1>1. 0 \in T
  <2>1. 0 \in 0 .. n /\ 0 + 1 = 1
    OBVIOUS
  <2>2. SumOf(s, 1) = SumOf(s, 0) + s[1] /\ SumOf(s, 0) = 0 /\ SumOf(r, 0) = 0
    BY <1>0, <2>1, SumSteps
  <2> QED BY <1>0, <2>1, <2>2
<1>2. ASSUME NEW i \in Nat, i \in T PROVE i + 1 \in T
  <2> SUFFICES ASSUME i + 1 <= n PROVE SumOf(r, i + 1) = SumOf(s, (i + 1) + 1) - s[1]
    OBVIOUS
  <2>1. i <= n /\ i + 1 \in 0 .. n /\ i \in 0 .. n /\ i \in 0 .. n - 1 /\ i + 1 \in 1 .. n
    OBVIOUS
  <2>2. SumOf(r, i) = SumOf(s, i + 1) - s[1]
    BY <1>2, <2>1
  <2>3. SumOf(r, i + 1) = SumOf(r, i) + r[i + 1]
    BY <1>0a, <2>1, SumInts
  <2>4. r[i + 1] = s[(i + 1) + 1]
    BY <2>1
  <2>5. /\ SumOf(s, (i + 1) + 1) = SumOf(s, i + 1) + s[(i + 1) + 1]
        /\ SumOf(s, i + 1) \in Int /\ s[(i + 1) + 1] \in Int
    BY <1>0, <2>1
  <2> QED BY <1>0, <2>2, <2>3, <2>4, <2>5
<1> HIDE DEF T
<1>3. n \in T
  BY <1>1, <1>2, Induction
<1> QED BY <1>3 DEF T

\* The window slides: the oldest term leaves, x joins.
LEMMA SumSlides ==
  ASSUME NEW s, NEW p \in Nat \ {0}, Ints(s, p), NEW x \in Int, NEW r,
         \A k \in 1 .. p - 1 : r[k] = s[k + 1], r[p] = x
  PROVE  SumOf(r, p) = (SumOf(s, p) - s[1]) + x /\ SumOf(s, p) \in Int /\ s[1] \in Int
<1>1. p - 1 \in Nat /\ (p - 1) + 1 = p /\ 1 \in 1 .. p
  OBVIOUS
<1>2. SumOf(r, p - 1) = SumOf(s, (p - 1) + 1) - s[1]
  BY <1>1, SumShifts
<1>3. SumOf(s, p) \in Int /\ s[1] \in Int
  BY <1>1, SumInts DEF Ints
<1>4. Ints(r, p - 1)
  <2> SUFFICES ASSUME NEW k \in 1 .. p - 1 PROVE r[k] \in Int
    BY DEF Ints
  <2>1. k + 1 \in 1 .. p
    OBVIOUS
  <2> QED BY <2>1 DEF Ints
<1>5. SumOf(r, (p - 1) + 1) = SumOf(r, p - 1) + x
  BY <1>1, <1>4, SumGrows
<1> QED BY <1>1, <1>2, <1>3, <1>5

\* A sum of terms that are at least 0, or at least 1.
LEMMA SumBounds ==
  ASSUME NEW s, NEW n \in Nat, NEW b \in {0, 1}, Ints(s, n), \A k \in 1 .. n : s[k] >= b
  PROVE  SumOf(s, n) \in Int /\ SumOf(s, n) >= 0 /\ (b = 1 /\ n > 0 => SumOf(s, n) > 0)
<1> DEFINE T == {i \in Nat : i <= n => SumOf(s, i) >= 0 /\ (b = 1 /\ i > 0 => SumOf(s, i) > 0)}
<1>1. 0 \in T
  BY SumSteps
<1>2. ASSUME NEW i \in Nat, i \in T PROVE i + 1 \in T
  <2> SUFFICES ASSUME i + 1 <= n
               PROVE  SumOf(s, i + 1) >= 0 /\ (b = 1 /\ i + 1 > 0 => SumOf(s, i + 1) > 0)
    OBVIOUS
  <2>1. i <= n /\ i \in 0 .. n - 1 /\ i + 1 \in 1 .. n
    OBVIOUS
  <2>2. SumOf(s, i) \in Int /\ SumOf(s, i + 1) = SumOf(s, i) + s[i + 1]
    BY <2>1, SumInts
  <2>3. s[i + 1] \in Int /\ s[i + 1] >= b
    BY <2>1 DEF Ints
  <2>4. SumOf(s, i) >= 0
    BY <1>2, <2>1
  <2> QED BY <2>2, <2>3, <2>4
<1> HIDE DEF T
<1>3. n \in T
  BY <1>1, <1>2, Induction
<1> QED BY <1>3, SumInts DEF T

\* A sum with a NaN among its terms is NaN.
LEMMA SumNaN ==
  ASSUME NEW s, NEW n \in Nat, NEW j \in 1 .. n, s[j] = NaN
  PROVE  SumOf(s, n) = NaN
<1> DEFINE T == {i \in Nat : i >= j => SumOf(s, i) = NaN}
<1>1. 0 \in T
  OBVIOUS
<1>2. ASSUME NEW i \in Nat, i \in T PROVE i + 1 \in T
  <2> SUFFICES ASSUME i + 1 >= j PROVE SumOf(s, i + 1) = NaN
    OBVIOUS
  <2>1. SumOf(s, i + 1) = Add(SumOf(s, i), s[i + 1])
    BY SumSteps
  <2>2. CASE i + 1 = j
    BY <2>1, <2>2 DEF Add
  <2>3. CASE i >= j
    BY <1>2, <2>1, <2>3 DEF Add
  <2> QED BY <2>2, <2>3
<1> HIDE DEF T
<1>3. n \in T
  BY <1>1, <1>2, Induction
<1> QED BY <1>3 DEF T

\* s from its (h + 1)-th element on, and then from its first.
Rotated(s, p, h) == [k \in 1 .. p |-> IF h + k <= p THEN s[h + k] ELSE s[h + k - p]]

\* A sum does not change when its terms are rotated.
LEMMA SumRotates ==
  ASSUME NEW p \in Nat \ {0}, NEW s, Ints(s, p), NEW h \in 0 .. p
  PROVE  SumOf(Rotated(s, p, h), p) = SumOf(s, p)
<1> DEFINE R(i) == Rotated(s, p, i)
           T == {i \in Nat : i <= p => Ints(R(i), p) /\ SumOf(R(i), p) = SumOf(s, p)}
<1>1. 0 \in T
  <2>1. \A k \in 1 .. p : R(0)[k] = s[k]
    BY DEF Rotated
  <2> HIDE DEF R
  <2> QED BY <2>1, SumSame DEF Ints
<1>2. ASSUME NEW i \in Nat, i \in T PROVE i + 1 \in T
  <2> SUFFICES ASSUME i + 1 <= p
               PROVE  Ints(R(i + 1), p) /\ SumOf(R(i + 1), p) = SumOf(s, p)
    OBVIOUS
  <2>1. Ints(R(i), p) /\ SumOf(R(i), p) = SumOf(s, p)
    BY <1>2
  <2> DEFINE u == R(i)
             v == R(i + 1)
             x == u[1]
  <2>2. \A k \in 1 .. p - 1 : v[k] = u[k + 1]
    BY DEF Rotated
  <2>3. v[p] = x
    BY DEF Rotated
  <2>4. x \in Int
    BY <2>1 DEF Ints
  <2> HIDE DEF u, v, x
  <2>5. Ints(u, p)
    BY <2>1 DEF u
  <2>6. SumOf(v, p) = (SumOf(u, p) - u[1]) + x /\ SumOf(u, p) \in Int /\ u[1] \in Int
    BY <2>2, <2>3, <2>4, <2>5, SumSlides
  <2>7. SumOf(v, p) = SumOf(u, p)
    BY <2>6 DEF x
  <2>8. ASSUME NEW k \in 1 .. p PROVE v[k] \in Int
    <3>1. CASE k = p
      BY <2>3, <2>4, <3>1
    <3>2. CASE k # p
      <4>1. k \in 1 .. p - 1 /\ k + 1 \in 1 .. p
        BY <3>2
      <4> QED BY <2>2, <2>5, <4>1 DEF Ints
    <3> QED BY <3>1, <3>2
  <2>9. Ints(v, p)
    BY <2>8 DEF Ints
  <2> QED BY <2>1, <2>7, <2>9 DEF u, v
<1> HIDE DEF T
<1>3. h \in T
  BY <1>1, <1>2, Induction
<1> QED BY <1>3 DEF T

\* The products of two series, and of their deviations.
Products(ab, a, b, n) == \A k \in 1 .. n : ab[k] = a[k] * b[k]
Deviations(d, a, b, p, S, U, n) == \A k \in 1 .. n : d[k] = (p * a[k] - S) * (p * b[k] - U)

\* A product of deviations, multiplied out.
LEMMA DevProduct ==
  ASSUME NEW p \in Int, NEW x \in Int, NEW y \in Int, NEW S \in Int, NEW U \in Int
  PROVE  (p * x - S) * (p * y - U) =
           (((p * p) * (x * y) - (p * U) * x) - (p * S) * y) + S * U
BY SMT

LEMMA Spread ==
  ASSUME NEW K \in Int, NEW X \in Int, NEW x \in Int
  PROVE  K * (X + x) = K * X + K * x
BY SMT

\* A sum of products of deviations, from the sums of the two series and of
\* their products.
LEMMA SumOfDeviations ==
  ASSUME NEW n \in Nat, NEW a, NEW b, Ints(a, n), Ints(b, n),
         NEW p \in Int, NEW S \in Int, NEW U \in Int, NEW c, NEW d,
         Products(c, a, b, n), Deviations(d, a, b, p, S, U, n)
  PROVE  /\ SumOf(a, n) \in Int /\ SumOf(b, n) \in Int /\ SumOf(c, n) \in Int
         /\ SumOf(d, n) \in Int
         /\ SumOf(d, n) = (((p * p) * SumOf(c, n) - (p * U) * SumOf(a, n))
                                                  - (p * S) * SumOf(b, n)) + n * (S * U)
<1> DEFINE F(i) == (((p * p) * SumOf(c, i) - (p * U) * SumOf(a, i))
                                              - (p * S) * SumOf(b, i)) + i * (S * U)
           T == {i \in Nat : i <= n => SumOf(d, i) = F(i)}
<1>1. Ints(c, n) /\ Ints(d, n)
  BY DEF Ints, Products, Deviations
<1>2. 0 \in T
  <2>1. /\ SumOf(a, 0) = 0 /\ SumOf(b, 0) = 0 /\ SumOf(c, 0) = 0 /\ SumOf(d, 0) = 0
    BY SumSteps
  <2>2. F(0) = 0
    BY <2>1
  <2> QED BY <2>1, <2>2
<1>3. ASSUME NEW i \in Nat, i \in T PROVE i + 1 \in T
  <2> SUFFICES ASSUME i + 1 <= n PROVE SumOf(d, i + 1) = F(i + 1)
    OBVIOUS
  <2>1. i <= n /\ i \in 0 .. n - 1 /\ i + 1 \in 1 .. n
    OBVIOUS
  <2>2. SumOf(d, i) = F(i)
    BY <1>3, <2>1
  <2>3. /\ SumOf(a, i) \in Int /\ SumOf(a, i + 1) = SumOf(a, i) + a[i + 1]
        /\ SumOf(b, i) \in Int /\ SumOf(b, i + 1) = SumOf(b, i) + b[i + 1]
    BY <2>1, SumInts
  <2>4. /\ SumOf(c, i) \in Int /\ SumOf(c, i + 1) = SumOf(c, i) + c[i + 1]
        /\ SumOf(d, i) \in Int /\ SumOf(d, i + 1) = SumOf(d, i) + d[i + 1]
    BY <1>1, <2>1, SumInts
  <2>5. a[i + 1] \in Int /\ b[i + 1] \in Int /\ c[i + 1] = a[i + 1] * b[i + 1]
        /\ d[i + 1] = (p * a[i + 1] - S) * (p * b[i + 1] - U)
    BY <2>1 DEF Ints, Products, Deviations
  <2> DEFINE x == a[i + 1]
             y == b[i + 1]
             A == SumOf(a, i)
             B == SumOf(b, i)
             C == SumOf(c, i)
  <2>6. /\ x \in Int /\ y \in Int /\ A \in Int /\ B \in Int /\ C \in Int
        /\ SumOf(a, i + 1) = A + x /\ SumOf(b, i + 1) = B + y
        /\ SumOf(c, i + 1) = C + x * y
        /\ SumOf(d, i + 1) = F(i) + (p * x - S) * (p * y - U)
    BY <2>2, <2>3, <2>4, <2>5
  <2>7. F(i) = (((p * p) * C - (p * U) * A) - (p * S) * B) + i * (S * U)
    OBVIOUS
  <2>8. F(i + 1) = (((p * p) * (C + x * y) - (p * U) * (A + x)) - (p * S) * (B + y))
                     + (i + 1) * (S * U)
    BY <2>6
  <2> HIDE DEF F, x, y, A, B, C
  <2> DEFINE z == x * y
             K == p * p
             L == p * U
             M == p * S
             N == S * U
  <2>9. z \in Int /\ K \in Int /\ L \in Int /\ M \in Int /\ N \in Int
    BY <2>6
  <2>10. (p * x - S) * (p * y - U) = ((K * z - L * x) - M * y) + N
    BY <2>6, DevProduct
  <2>11. F(i) = ((K * C - L * A) - M * B) + i * N
    BY <2>7
  <2>12. F(i + 1) = ((K * (C + z) - L * (A + x)) - M * (B + y)) + (i + 1) * N
    BY <2>8
  <2>13. SumOf(d, i + 1) = F(i) + (((K * z - L * x) - M * y) + N)
    BY <2>6, <2>10
  <2> HIDE DEF z, K, L, M, N
  <2>14. /\ K * (C + z) = K * C + K * z /\ L * (A + x) = L * A + L * x
         /\ M * (B + y) = M * B + M * y
    BY <2>6, <2>9, Spread
  <2>15. (i + 1) * N = i * N + N /\ i * N \in Int
    BY <2>9
  <2>16. /\ K * C \in Int /\ K * z \in Int /\ L * A \in Int /\ L * x \in Int
         /\ M * B \in Int /\ M * y \in Int
    BY <2>6, <2>9
  <2> QED BY <2>9, <2>11, <2>12, <2>13, <2>14, <2>15, <2>16
<1> HIDE DEF T
<1>4. n \in T
  BY <1>2, <1>3, Induction
<1>5. SumOf(d, n) = F(n)
  BY <1>4 DEF T
<1> QED BY <1>1, <1>5, SumInts

\* Exact division.
LEMMA ExactDivision ==
  ASSUME NEW p \in Nat \ {0}, NEW c \in Int
  PROVE  (p * c) \div p = c
<1> DEFINE q == (p * c) \div p
           r == (p * c) % p
<1>1. q \in Int /\ r \in 0 .. p - 1 /\ p * c = p * q + r
  BY SMT
<1> HIDE DEF q, r
<1>2. p * (c - q) = r
  BY <1>1
<1>3. c - q \in Int
  BY <1>1
<1>4. c - q <= 0
  <2> SUFFICES ASSUME c - q >= 1 PROVE FALSE
    BY <1>3
  <2>1. p * (c - q) >= p
    BY <1>3
  <2> QED BY <1>1, <1>2, <2>1
<1>5. c - q >= 0
  <2> SUFFICES ASSUME c - q <= -1 PROVE FALSE
    BY <1>3
  <2>1. p * (c - q) <= -p
    BY <1>3
  <2> QED BY <1>1, <1>2, <2>1
<1>6. c = q
  BY <1>1, <1>3, <1>4, <1>5
<1> QED BY <1>6 DEF q

-----------------------------------------------------------------------------
(* Rings and windows *)

\* v is w after one more entry e: on a full window the oldest one leaves.
Turned(w, v, c, p, e) ==
  IF c = p THEN (\A k \in 1 .. p - 1 : v[k] = w[k + 1]) /\ v[p] = e
  ELSE (\A k \in 1 .. c : v[k] = w[k]) /\ v[c + 1] = e
Grown(c, p) == IF c = p THEN p ELSE c + 1

\* What F makes of the entries of a window.
Map(F, w, c) == [k \in 1 .. c |-> F[w[k]]]

\* Where the ring keeps the k-th oldest of c entries.
At(head, c, p, k) ==
  IF c < p THEN k - 1 ELSE IF head + k - 1 < p THEN head + k - 1 ELSE head + k - 1 - p

IsRing(st, p) ==
  /\ DOMAIN st = {"cap", "head", "count", "sums", "buf"}
  /\ st.cap = p /\ st.head \in 0 .. p - 1 /\ st.count \in 0 .. p
  /\ DOMAIN st.buf = 0 .. p - 1

\* The buffer holds the entries g[1], ..., g[c], oldest first.
Kept(buf, head, p, c, g) ==
  /\ head \in 0 .. p - 1 /\ DOMAIN buf = 0 .. p - 1 /\ (c < p => head = c)
  /\ \A k \in 1 .. c : buf[At(head, c, p, k)] = g[k]

\* The ring holds the entries g[1], ..., g[c], oldest first.
Holds(st, p, c, g) == IsRing(st, p) /\ st.count = c /\ Kept(st.buf, st.head, p, c, g)

\* The next place.
LEMMA NextPlace ==
  ASSUME NEW p \in Nat \ {0}, NEW h \in 0 .. p - 1
  PROVE  (h + 1) % p = IF h + 1 = p THEN 0 ELSE h + 1
<1> DEFINE q == (h + 1) \div p
           r == (h + 1) % p
<1>1. q \in Int /\ r \in 0 .. p - 1 /\ h + 1 = p * q + r
  BY SMT
<1> HIDE DEF q, r
<1>2. q >= 0
  <2> SUFFICES ASSUME q <= -1 PROVE FALSE
    BY <1>1
  <2>1. p * q <= -p
    BY <1>1
  <2> QED BY <1>1, <2>1
<1>3. q <= 1
  <2> SUFFICES ASSUME q >= 2 PROVE FALSE
    BY <1>1
  <2>1. p * q >= 2 * p
    BY <1>1
  <2> QED BY <1>1, <2>1
<1>4. CASE q = 0
  <2>1. p * q = 0
    BY <1>4
  <2> QED BY <1>1, <2>1 DEF r
<1>5. CASE q = 1
  <2>1. p * q = p
    BY <1>5
  <2>2. h + 1 = p /\ r = 0
    BY <1>1, <2>1
  <2> QED BY <2>2 DEF r
<1> QED BY <1>1, <1>2, <1>3, <1>4, <1>5

\* A push overwrites the oldest entry of a full ring and no other one.
LEMMA KeptTurns ==
  ASSUME NEW p \in Nat \ {0}, NEW c \in 0 .. p, NEW buf, NEW head, NEW g,
         Kept(buf, head, p, c, g), NEW e, NEW h, Turned(g, h, c, p, e)
  PROVE  /\ Kept([buf EXCEPT ![head] = e], (head + 1) % p, p, Grown(c, p), h)
         /\ c = p => buf[head] = g[1]
<1> DEFINE nx == (head + 1) % p
           d == Grown(c, p)
           new == [buf EXCEPT ![head] = e]
<1>1. head \in 0 .. p - 1 /\ DOMAIN buf = 0 .. p - 1 /\ (c < p => head = c)
  BY DEF Kept
<1>2. \A k \in 1 .. c : buf[At(head, c, p, k)] = g[k]
  BY DEF Kept
<1>3. nx = IF head + 1 = p THEN 0 ELSE head + 1
  BY <1>1, NextPlace
<1>4. /\ DOMAIN new = 0 .. p - 1 /\ new[head] = e
      /\ \A i \in 0 .. p - 1 : i # head => new[i] = buf[i]
  BY <1>1
<1>4a. nx \in 0 .. p - 1
  BY <1>1, <1>3
<1> HIDE DEF new, nx
<1>5. CASE c = p
  <2>1. d = p
    BY <1>5 DEF Grown
  <2>2. ASSUME NEW k \in 1 .. p PROVE new[At(nx, p, p, k)] = h[k]
    <3>1. CASE k = p
      <4>1. At(nx, p, p, k) = head
        BY <1>1, <1>3, <3>1 DEF At
      <4> QED BY <1>4, <1>5, <3>1, <4>1 DEF Turned
    <3>2. CASE k # p
      <4>1. k + 1 \in 1 .. p /\ k \in 1 .. p - 1
        BY <3>2
      <4>2. At(nx, p, p, k) = At(head, p, p, k + 1) /\ At(head, p, p, k + 1) # head
            /\ At(head, p, p, k + 1) \in 0 .. p - 1
        BY <1>1, <1>3, <4>1 DEF At
      <4>3. h[k] = g[k + 1]
        BY <1>5, <4>1 DEF Turned
      <4> QED BY <1>2, <1>4, <1>5, <4>1, <4>2, <4>3
    <3> QED BY <3>1, <3>2
  <2>3. buf[head] = g[1]
    <3>1. 1 \in 1 .. c /\ At(head, c, p, 1) = head
      BY <1>1, <1>5 DEF At
    <3> QED BY <1>2, <3>1
  <2> QED BY <1>4, <1>4a, <1>5, <2>1, <2>2, <2>3 DEF Kept, new, nx
<1>6. CASE c # p
  <2>1. d = c + 1 /\ head = c /\ c + 1 \in 1 .. p
    BY <1>1, <1>6 DEF Grown
  <2>2. \A k \in 1 .. c + 1 : At(nx, c + 1, p, k) = k - 1
    BY <1>3, <2>1 DEF At
  <2>3. ASSUME NEW k \in 1 .. c + 1 PROVE new[k - 1] = h[k]
    <3>1. CASE k = c + 1
      BY <1>4, <1>6, <2>1, <3>1 DEF Turned
    <3>2. CASE k # c + 1
      <4>1. k \in 1 .. c /\ k - 1 \in 0 .. p - 1 /\ k - 1 # head /\ At(head, c, p, k) = k - 1
        BY <2>1, <3>2 DEF At
      <4>2. buf[k - 1] = g[k] /\ new[k - 1] = buf[k - 1]
        BY <1>2, <1>4, <4>1
      <4> QED BY <1>6, <4>1, <4>2 DEF Turned
    <3> QED BY <3>1, <3>2
  <2>4. c + 1 < p => nx = c + 1
    BY <1>3, <2>1
  <2> QED BY <1>4, <1>4a, <1>6, <2>1, <2>2, <2>3, <2>4 DEF Kept, new, nx
<1> QED BY <1>5, <1>6

\* The same for the ring of PairWindow.
LEMMA PushHolds ==
  ASSUME NEW p \in Nat \ {0}, NEW c \in 0 .. p, NEW st, NEW g, Holds(st, p, c, g),
         NEW e, NEW r, IsRing(r, p), NEW h, Turned(g, h, c, p, e),
         r.buf = [st.buf EXCEPT ![st.head] = e], r.head = (st.head + 1) % p,
         r.count = Grown(c, p)
  PROVE  /\ Holds(r, p, Grown(c, p), h)
         /\ c = p => st.buf[st.head] = g[1]
<1>1. Kept(st.buf, st.head, p, c, g)
  BY DEF Holds
<1>2. /\ Kept([st.buf EXCEPT ![st.head] = e], (st.head + 1) % p, p, Grown(c, p), h)
      /\ c = p => st.buf[st.head] = g[1]
  BY <1>1, KeptTurns
<1> QED BY <1>2 DEF Holds

\* A full buffer in the order of its places is the window, rotated.
LEMMA KeptRotated ==
  ASSUME NEW p \in Nat \ {0}, NEW buf, NEW head, NEW g, Kept(buf, head, p, p, g), NEW s,
         \A k \in 1 .. p : s[k] = buf[k - 1]
  PROVE  /\ head \in 0 .. p
         /\ \A k \in 1 .. p : g[k] = Rotated(s, p, head)[k]
         /\ \A k \in 1 .. p : \E j \in 1 .. p : g[j] = s[k]
<1>1. head \in 0 .. p - 1 /\ \A k \in 1 .. p : buf[At(head, p, p, k)] = g[k]
  BY DEF Kept
<1>2. ASSUME NEW k \in 1 .. p PROVE g[k] = Rotated(s, p, head)[k]
  <2>1. g[k] = buf[At(head, p, p, k)]
    BY <1>1
  <2>2. Rotated(s, p, head)[k] = IF head + k <= p THEN s[head + k] ELSE s[head + k - p]
    BY DEF Rotated
  <2>3. CASE head + k <= p
    <3>1. head + k \in 1 .. p /\ At(head, p, p, k) = (head + k) - 1
      BY <1>1, <2>3 DEF At
    <3>2. s[head + k] = buf[(head + k) - 1]
      BY <3>1
    <3> QED BY <2>1, <2>2, <2>3, <3>1, <3>2
  <2>4. CASE ~(head + k <= p)
    <3>1. head + k - p \in 1 .. p /\ At(head, p, p, k) = (head + k - p) - 1
      BY <1>1, <2>4 DEF At
    <3>2. s[head + k - p] = buf[(head + k - p) - 1]
      BY <3>1
    <3> QED BY <2>1, <2>2, <2>4, <3>1, <3>2
  <2> QED BY <2>3, <2>4
<1>3. ASSUME NEW k \in 1 .. p PROVE \E j \in 1 .. p : g[j] = s[k]
  <2> DEFINE j == IF k > head THEN k - head ELSE k - head + p
  <2>1. j \in 1 .. p /\ At(head, p, p, j) = k - 1
    BY <1>1 DEF At
  <2>2. g[j] = s[k]
    BY <1>1, <2>1
  <2> QED BY <2>1, <2>2
<1> QED BY <1>1, <1>2, <1>3

\* What is computed from the entries turns with them.
LEMMA MapTurns ==
  ASSUME NEW p \in Nat \ {0}, NEW c \in 0 .. p, NEW w, NEW v, NEW e,
         Turned(w, v, c, p, e), NEW F
  PROVE  Turned(Map(F, w, c), Map(F, v, Grown(c, p)), c, p, F[e])
<1>1. CASE c = p
  <2>1. Grown(c, p) = p /\ p \in 1 .. p /\ \A k \in 1 .. p - 1 : k \in 1 .. p /\ k + 1 \in 1 .. c
    BY <1>1 DEF Grown
  <2> QED BY <1>1, <2>1 DEF Turned, Map
<1>2. CASE c # p
  <2>1. Grown(c, p) = c + 1 /\ c + 1 \in 1 .. c + 1 /\ \A k \in 1 .. c : k \in 1 .. c + 1
    BY <1>2 DEF Grown
  <2> QED BY <1>2, <2>1 DEF Turned, Map
<1> QED BY <1>1, <1>2

\* A running sum that gives up the term that leaves and takes on the new one
\* stays the sum of the terms.
LEMMA SumTurns ==
  ASSUME NEW p \in Nat \ {0}, NEW c \in 0 .. p, NEW w, NEW v, NEW e,
         Turned(w, v, c, p, e), NEW F, Ints(Map(F, w, c), c), F[e] \in Int
  PROVE  LET old == SumOf(Map(F, w, c), c)
         IN  SumOf(Map(F, v, Grown(c, p)), Grown(c, p)) =
               Add(IF c = p THEN Sub(old, F[w[1]]) ELSE old, F[e])
<1> DEFINE s == Map(F, w, c)
           r == Map(F, v, Grown(c, p))
           x == F[e]
<1>1. Turned(s, r, c, p, x)
  BY MapTurns
<1>2. 1 <= c => s[1] = F[w[1]]
  BY DEF Map
<1> HIDE DEF s, r, x
<1>3. CASE c = p
  <2>1. SumOf(r, p) = (SumOf(s, p) - s[1]) + x /\ SumOf(s, p) \in Int /\ s[1] \in Int
    BY <1>1, <1>3, SumSlides DEF Turned, s, x
  <2>2. Sub(SumOf(s, p), s[1]) = SumOf(s, p) - s[1] /\ SumOf(s, p) - s[1] \in Int
    BY <2>1, NaNAssumption DEF Sub
  <2>3. Add(SumOf(s, p) - s[1], x) = (SumOf(s, p) - s[1]) + x
    BY <2>2, NaNAssumption DEF Add, x
  <2> QED BY <1>2, <1>3, <2>1, <2>2, <2>3 DEF Grown, s, r, x
<1>4. CASE c # p
  <2>1. SumOf(r, c + 1) = SumOf(s, c) + x /\ SumOf(s, c) \in Int
    BY <1>1, <1>4, SumGrows DEF Turned, s, x
  <2>2. Add(SumOf(s, c), x) = SumOf(s, c) + x
    BY <2>1, NaNAssumption DEF Add, x
  <2> QED BY <1>4, <2>1, <2>2 DEF Grown, s, r, x
<1> QED BY <1>3, <1>4

-----------------------------------------------------------------------------
(* The invariant *)

Entries == Xs \X Ys

\* The entry as vwap sees it, and as lag does.
Priced(e) == <<IF e[1] = NaN THEN 0 ELSE e[1], Volume(e[2])>>
PricedEntry == [e \in Entries |-> Priced(e)]
LaggedEntry == [e \in Entries |-> <<e[1], 0>>]

\* The contribution of an entry to each running sum.
PVFields == {"pv", "vol"}
SumFields == {"x", "y", "xy", "xx", "yy"}
PVTerm(f) == [e \in Entries |-> PVOf(Priced(e))[f]]
SumTerm(f) == [e \in Entries |-> SumsOf(e)[f]]

\* What the three kinds of rings are of the window w of c entries.
VwapOf(st, p, w, c) ==
  /\ Holds(st, p, c, Map(PricedEntry, w, c)) /\ DOMAIN st.sums = PVFields
  /\ \A f \in PVFields : st.sums[f] = SumOf(Map(PVTerm(f), w, c), c)

\* Sums that saw a NaN keep it.
PairOf(st, p, w, c, nan) ==
  /\ Holds(st, p, c, w) /\ DOMAIN st.sums = SumFields
  /\ \A f \in SumFields :
       st.sums[f] = IF nan /\ f \in {"x", "xy", "xx"} THEN NaN
                    ELSE SumOf(Map(SumTerm(f), w, c), c)

LagRingOf(st, p, w, c) == Holds(st, p, c, Map(LaggedEntry, w, c))

\* The interpreter's states do not exist before the first tick.
PairInv ==
  LET c == Len(window)
  IN  /\ period \in Periods /\ window \in Seq(Entries) /\ c <= period
      /\ seenNaN \in BOOLEAN /\ (c = 0 => ~seenNaN)
      /\ (~seenNaN => \A k \in 1 .. c : window[k][1] # NaN)
      /\ warm \in BOOLEAN /\ (warm => c = period)
      /\ VwapOf(lowVwap, period, window, c) /\ PairOf(lowPair, period, window, c, seenNaN)
      /\ LagRingOf(lowLag, period, window, c)
      /\ IF c = 0 THEN vwap = Ring(0, NoPV) /\ pair = Ring(0, NoSums) /\ lag = LagRing(0)
         ELSE /\ VwapOf(vwap, period, window, c) /\ PairOf(pair, period, window, c, seenNaN)
              /\ LagRingOf(lag, period, window, c)
      /\ LagIsPast

\* A ring without entries is one of the empty window.
LEMMA EmptyRing ==
  ASSUME NEW p \in Nat \ {0}, NEW g, NEW sums
  PROVE  Holds(Ring(p, sums), p, 0, g) /\ Ring(p, sums).sums = sums
BY DEF Holds, Kept, IsRing, Ring

LEMMA EmptyStates ==
  ASSUME NEW p \in Nat \ {0}, NEW w, NEW nan, nan = FALSE
  PROVE  /\ VwapOf(Ring(p, NoPV), p, w, 0) /\ PairOf(Ring(p, NoSums), p, w, 0, nan)
         /\ LagRingOf(LagRing(p), p, w, 0)
<1>1. VwapOf(Ring(p, NoPV), p, w, 0)
  <2>1. DOMAIN NoPV = PVFields /\ \A f \in PVFields : NoPV[f] = 0
    BY DEF NoPV, PVFields
  <2> QED BY <2>1, EmptyRing, SumSteps DEF VwapOf
<1>2. PairOf(Ring(p, NoSums), p, w, 0, nan)
  <2>1. DOMAIN NoSums = SumFields /\ \A f \in SumFields : NoSums[f] = 0
    BY DEF NoSums, SumFields
  <2> QED BY <2>1, EmptyRing, SumSteps DEF PairOf
<1>3. LagRingOf(LagRing(p), p, w, 0)
  BY EmptyRing DEF LagRingOf, LagRing
<1> QED BY <1>1, <1>2, <1>3

\* The entries are pairs, their terms numbers but for what a NaN enters.
LEMMA EntryTerms ==
  ASSUME NEW e \in Entries
  PROVE  /\ e = <<e[1], e[2]>> /\ e[1] \in Int \cup {NaN} /\ e[2] \in Int
         /\ PricedEntry[e] = Priced(e) /\ LaggedEntry[e] = <<e[1], 0>>
         /\ DOMAIN PVOf(Priced(e)) = PVFields /\ DOMAIN SumsOf(e) = SumFields
         /\ \A f \in PVFields : PVTerm(f)[e] = PVOf(Priced(e))[f] /\ PVTerm(f)[e] \in Int
         /\ \A f \in SumFields :
              /\ SumTerm(f)[e] = SumsOf(e)[f]
              /\ SumTerm(f)[e] = IF e[1] = NaN /\ f \in {"x", "xy", "xx"} THEN NaN
                                 ELSE SumTerm(f)[e]
              /\ e[1] # NaN \/ f \in {"y", "yy"} => SumTerm(f)[e] \in Int
<1>1. e = <<e[1], e[2]>> /\ e[1] \in Int \cup {NaN} /\ e[2] \in Int
  <2>1. e = <<e[1], e[2]>> /\ e[1] \in Xs /\ e[2] \in Ys
    BY DEF Entries
  <2> QED BY <2>1, SampleAssumption
<1>2. Priced(e)[1] \in Int /\ Priced(e)[2] \in Int /\ NaN \notin Int
  BY <1>1, NaNAssumption DEF Priced, Volume
<1>3. /\ DOMAIN PVOf(Priced(e)) = PVFields /\ DOMAIN SumsOf(e) = SumFields
  BY DEF PVOf, SumsOf, PVFields, SumFields
<1>4. ASSUME NEW f \in PVFields PROVE PVOf(Priced(e))[f] \in Int
  BY <1>2 DEF PVOf, PVFields, Mul
<1>5. ASSUME NEW f \in SumFields
      PROVE  /\ e[1] = NaN /\ f \in {"x", "xy", "xx"} => SumsOf(e)[f] = NaN
             /\ e[1] # NaN \/ f \in {"y", "yy"} => SumsOf(e)[f] \in Int
  <2>1. CASE f = "x"
    BY <1>1, <2>1 DEF SumsOf
  <2>2. CASE f = "y"
    BY <1>1, <2>2 DEF SumsOf
  <2>3. CASE f = "xy"
    BY <1>1, <1>2, <2>3 DEF SumsOf, Mul
  <2>4. CASE f = "xx"
    BY <1>1, <1>2, <2>4 DEF SumsOf, Sq, Mul
  <2>5. CASE f = "yy"
    BY <1>1, <1>2, <2>5 DEF SumsOf, Sq, Mul
  <2> QED BY <2>1, <2>2, <2>3, <2>4, <2>5 DEF SumFields
<1>6. PricedEntry[e] = Priced(e) /\ LaggedEntry[e] = <<e[1], 0>>
  BY DEF PricedEntry, LaggedEntry
<1>7. \A f : PVTerm(f)[e] = PVOf(Priced(e))[f] /\ SumTerm(f)[e] = SumsOf(e)[f]
  BY DEF PVTerm, SumTerm
<1> QED BY <1>1, <1>3, <1>4, <1>5, <1>6, <1>7

\* A push leaves a ring with one entry more, if there was room.
LEMMA PushParts ==
  ASSUME NEW p \in Nat \ {0}, NEW st, IsRing(st, p), NEW e, NEW r,
         DOMAIN r = DOMAIN st, r.cap = st.cap, r.buf = [st.buf EXCEPT ![st.head] = e],
         r.head = (st.head + 1) % st.cap,
         r.count = IF st.count = st.cap THEN st.count ELSE st.count + 1
  PROVE  IsRing(r, p) /\ r.head = (st.head + 1) % p /\ r.count = Grown(st.count, p)
<1>1. st.head \in 0 .. p - 1 /\ st.count \in 0 .. p /\ st.cap = p
  BY DEF IsRing
<1>2. (st.head + 1) % p = IF st.head + 1 = p THEN 0 ELSE st.head + 1
  BY <1>1, NextPlace
<1>3. r.head \in 0 .. p - 1 /\ r.head = (st.head + 1) % p
  BY <1>1, <1>2
<1>4. r.count \in 0 .. p /\ r.count = Grown(st.count, p)
  BY <1>1 DEF Grown
<1>5. DOMAIN r.buf = 0 .. p - 1
  BY DEF IsRing
<1> QED BY <1>1, <1>3, <1>4, <1>5 DEF IsRing

-----------------------------------------------------------------------------
(* The steps *)

\* An appended entry comes last.
LEMMA Appended ==
  ASSUME NEW S, NEW t \in Seq(S), NEW e \in S, NEW v, v = Append(t, e)
  PROVE  /\ v \in Seq(S) /\ Len(v) = Len(t) + 1 /\ v[Len(t) + 1] = e
         /\ \A k \in 1 .. Len(t) : v[k] = t[k]
OBVIOUS

\* The window after a tick with e.
NextWindow(w, v, p, e) == v = Append(IF Len(w) = p THEN Tail(w) ELSE w, e)

\* The window turns with every tick.
LEMMA WindowTurns ==
  ASSUME NEW S, NEW p \in Nat \ {0}, NEW w \in Seq(S), Len(w) <= p, NEW e \in S,
         NEW v, NextWindow(w, v, p, e)
  PROVE  /\ Turned(w, v, Len(w), p, e) /\ v \in Seq(S) /\ Len(v) = Grown(Len(w), p)
         /\ Len(w) \in 0 .. p /\ \A k \in 1 .. Len(w) : w[k] \in S
<1> DEFINE c == Len(w)
<1>1. c \in 0 .. p /\ \A k \in 1 .. c : w[k] \in S
  OBVIOUS
<1>2. CASE c = p
  <2> DEFINE t == Tail(w)
  <2>1. t \in Seq(S) /\ Len(t) = p - 1 /\ \A k \in 1 .. p - 1 : t[k] = w[k + 1]
    BY <1>2
  <2> HIDE DEF t
  <2>2. v = Append(t, e)
    BY <1>2 DEF t, NextWindow
  <2>3. v \in Seq(S) /\ Len(v) = p
    BY <2>1, <2>2, Appended
  <2>4. v[Len(t) + 1] = e /\ \A k \in 1 .. Len(t) : v[k] = t[k]
    BY <2>1, <2>2, Appended
  <2>5. Len(t) + 1 = p /\ Len(t) = p - 1
    BY <2>1
  <2> QED BY <1>1, <1>2, <2>1, <2>3, <2>4, <2>5 DEF Turned, Grown
<1>3. CASE c # p
  <2>1. v = Append(w, e)
    BY <1>3 DEF NextWindow
  <2>2. v \in Seq(S) /\ Len(v) = c + 1
    BY <2>1
  <2>3. v[c + 1] = e /\ \A k \in 1 .. c : v[k] = w[k]
    BY <2>1
  <2> QED BY <1>1, <1>3, <2>2, <2>3 DEF Turned, Grown
<1> QED BY <1>2, <1>3

LEMMA VwapTurns ==
  ASSUME NEW p \in Nat \ {0}, NEW c \in 0 .. p, NEW w, \A k \in 1 .. c : w[k] \in Entries,
         NEW e \in Entries, NEW v, Turned(w, v, c, p, e), NEW st, VwapOf(st, p, w, c)
  PROVE  VwapOf(Push(st, Priced(e), PVOf), p, v, Grown(c, p))
<1> DEFINE r == Push(st, Priced(e), PVOf)
           d == Grown(c, p)
           g == Map(PricedEntry, w, c)
           h == Map(PricedEntry, v, d)
<1>1. Holds(st, p, c, g) /\ IsRing(st, p) /\ st.count = c
  BY DEF VwapOf, Holds
<1>2. Turned(g, h, c, p, Priced(e))
  BY MapTurns, EntryTerms
<1>3. /\ DOMAIN r = DOMAIN st /\ r.cap = st.cap
      /\ r.buf = [st.buf EXCEPT ![st.head] = Priced(e)] /\ r.head = (st.head + 1) % st.cap
      /\ r.count = IF st.count = st.cap THEN st.count ELSE st.count + 1
      /\ r.sums = Plus(IF st.count = st.cap THEN Minus(st.sums, PVOf(st.buf[st.head]))
                       ELSE st.sums, PVOf(Priced(e)))
  BY <1>1 DEF Push, IsRing
<1>4. c = p => g[1] = Priced(w[1]) /\ w[1] \in Entries
  <2>1. c = p => 1 \in 1 .. c
    OBVIOUS
  <2> QED BY <2>1, EntryTerms DEF Map
<1> HIDE DEF r, g, h
<1>3a. IsRing(r, p) /\ r.head = (st.head + 1) % p /\ r.count = d
  BY <1>1, <1>3, PushParts
<1>5. Holds(r, p, d, h) /\ (c = p => st.buf[st.head] = g[1])
  BY <1>1, <1>2, <1>3, <1>3a, PushHolds
<1>6. DOMAIN st.sums = PVFields
      /\ \A f \in PVFields : st.sums[f] = SumOf(Map(PVTerm(f), w, c), c)
  BY DEF VwapOf
<1>7. /\ DOMAIN r.sums = PVFields
      /\ \A f \in PVFields : r.sums[f] =
           Add(IF c = p THEN Sub(st.sums[f], PVOf(st.buf[st.head])[f]) ELSE st.sums[f],
               PVOf(Priced(e))[f])
  <2>1. st.count = st.cap <=> c = p
    BY <1>1 DEF IsRing
  <2>2. CASE c = p
    BY <1>3, <1>6, <2>1, <2>2 DEF Plus, Minus
  <2>3. CASE c # p
    BY <1>3, <1>6, <2>1, <2>3 DEF Plus
  <2> QED BY <2>2, <2>3
<1>8. ASSUME NEW f \in PVFields PROVE r.sums[f] = SumOf(Map(PVTerm(f), v, d), d)
  <2>1. Ints(Map(PVTerm(f), w, c), c) /\ PVTerm(f)[e] \in Int
    BY EntryTerms DEF Ints, Map
  <2>2. c = p => PVOf(st.buf[st.head])[f] = PVTerm(f)[w[1]]
    BY <1>4, <1>5, EntryTerms
  <2>3. PVOf(Priced(e))[f] = PVTerm(f)[e]
    BY EntryTerms
  <2>4. SumOf(Map(PVTerm(f), v, d), d) =
          Add(IF c = p THEN Sub(SumOf(Map(PVTerm(f), w, c), c), PVTerm(f)[w[1]])
              ELSE SumOf(Map(PVTerm(f), w, c), c), PVTerm(f)[e])
    BY <2>1, SumTurns
  <2>5. /\ r.sums[f] = Add(IF c = p THEN Sub(st.sums[f], PVOf(st.buf[st.head])[f])
                           ELSE st.sums[f], PVOf(Priced(e))[f])
        /\ st.sums[f] = SumOf(Map(PVTerm(f), w, c), c)
    BY <1>6, <1>7
  <2> QED BY <2>2, <2>3, <2>4, <2>5, Zenon
<1> QED BY <1>5, <1>7, <1>8 DEF VwapOf, r, h

LEMMA PairTurns ==
  ASSUME NEW p \in Nat \ {0}, NEW c \in 0 .. p, NEW w, \A k \in 1 .. c : w[k] \in Entries,
         NEW e \in Entries, NEW v, Turned(w, v, c, p, e), NEW nan \in BOOLEAN,
         ~nan => \A k \in 1 .. c : w[k][1] # NaN, NEW st, PairOf(st, p, w, c, nan)
  PROVE  PairOf(Push(st, e, SumsOf), p, v, Grown(c, p), nan \/ e[1] = NaN)
<1> DEFINE r == Push(st, e, SumsOf)
           d == Grown(c, p)
           X == {"x", "xy", "xx"}
<1>1. Holds(st, p, c, w) /\ IsRing(st, p) /\ st.count = c
  BY DEF PairOf, Holds
<1>3. /\ DOMAIN r = DOMAIN st /\ r.cap = st.cap
      /\ r.buf = [st.buf EXCEPT ![st.head] = e] /\ r.head = (st.head + 1) % st.cap
      /\ r.count = IF st.count = st.cap THEN st.count ELSE st.count + 1
      /\ r.sums = Plus(IF st.count = st.cap THEN Minus(st.sums, SumsOf(st.buf[st.head]))
                       ELSE st.sums, SumsOf(e))
  BY <1>1 DEF Push, IsRing
<1>4. c = p => w[1] \in Entries
  OBVIOUS
<1> HIDE DEF r
<1>3a. IsRing(r, p) /\ r.head = (st.head + 1) % p /\ r.count = d
  BY <1>1, <1>3, PushParts
<1>5. Holds(r, p, d, v) /\ (c = p => st.buf[st.head] = w[1])
  BY <1>1, <1>3, <1>3a, PushHolds
<1>6. DOMAIN st.sums = SumFields
      /\ \A f \in SumFields : st.sums[f] = IF nan /\ f \in X THEN NaN
                                           ELSE SumOf(Map(SumTerm(f), w, c), c)
  BY DEF PairOf
<1>7. /\ DOMAIN r.sums = SumFields
      /\ \A f \in SumFields : r.sums[f] =
           Add(IF c = p THEN Sub(st.sums[f], SumsOf(st.buf[st.head])[f]) ELSE st.sums[f],
               SumsOf(e)[f])
  <2>1. st.count = st.cap <=> c = p
    BY <1>1 DEF IsRing
  <2>2. CASE c = p
    BY <1>3, <1>6, <2>1, <2>2 DEF Plus, Minus
  <2>3. CASE c # p
    BY <1>3, <1>6, <2>1, <2>3 DEF Plus
  <2> QED BY <2>2, <2>3
<1>8. ASSUME NEW f \in SumFields
      PROVE  r.sums[f] = IF (nan \/ e[1] = NaN) /\ f \in X THEN NaN
                         ELSE SumOf(Map(SumTerm(f), v, d), d)
  <2>1. r.sums[f] = Add(IF c = p THEN Sub(st.sums[f], SumsOf(st.buf[st.head])[f])
                        ELSE st.sums[f], SumsOf(e)[f])
    BY <1>7
  <2>2. CASE f \in X /\ e[1] = NaN
    <3>1. SumsOf(e)[f] = NaN
      BY <2>2, EntryTerms
    <3> QED BY <2>1, <2>2, <3>1 DEF Add
  <2>3. CASE f \in X /\ nan
    <3>1. st.sums[f] = NaN
      BY <1>6, <2>3
    <3> QED BY <2>1, <2>3, <3>1 DEF Add, Sub
  <2>4. CASE f \notin X \/ (~nan /\ e[1] # NaN)
    <3>1. f \notin X => f \in {"y", "yy"}
      BY DEF SumFields
    <3>2. Ints(Map(SumTerm(f), w, c), c) /\ SumTerm(f)[e] \in Int
      BY <2>4, <3>1, EntryTerms DEF Ints, Map
    <3>3. c = p => SumsOf(st.buf[st.head])[f] = SumTerm(f)[w[1]]
      BY <1>4, <1>5, EntryTerms
    <3>4. SumsOf(e)[f] = SumTerm(f)[e]
      BY EntryTerms
    <3>5. SumOf(Map(SumTerm(f), v, d), d) =
            Add(IF c = p THEN Sub(SumOf(Map(SumTerm(f), w, c), c), SumTerm(f)[w[1]])
                ELSE SumOf(Map(SumTerm(f), w, c), c), SumTerm(f)[e])
      BY <3>2, SumTurns
    <3>6. st.sums[f] = SumOf(Map(SumTerm(f), w, c), c)
      BY <1>6, <2>4, Zenon
    <3>7. r.sums[f] = SumOf(Map(SumTerm(f), v, d), d)
      BY <2>1, <3>3, <3>4, <3>5, <3>6, Zenon
    <3> QED BY <2>4, <3>7, Zenon
  <2> QED BY <2>2, <2>3, <2>4, Zenon
<1> QED BY <1>5, <1>7, <1>8, Zenon DEF PairOf, r

\* The head of a full lag ring is its oldest entry.
LEMMA LagOldest ==
  ASSUME NEW p \in Nat \ {0}, NEW c \in 0 .. p, NEW w, \A k \in 1 .. c : w[k] \in Entries,
         NEW st, LagRingOf(st, p, w, c)
  PROVE  /\ IsRing(st, p) /\ st.count = c
         /\ c = p => st.buf[st.head][1] = w[1][1]
<1>1. IsRing(st, p) /\ st.count = c /\ st.head \in 0 .. p - 1
  BY DEF LagRingOf, Holds, IsRing
<1>2. ASSUME c = p PROVE st.buf[st.head] = <<w[1][1], 0>>
  <2>1. 1 \in 1 .. c /\ At(st.head, c, p, 1) = st.head
    BY <1>1, <1>2 DEF At
  <2>2. Map(LaggedEntry, w, c)[1] = <<w[1][1], 0>>
    BY <2>1, EntryTerms DEF Map
  <2> QED BY <2>1, <2>2 DEF LagRingOf, Holds, Kept
<1> QED BY <1>1, <1>2

\* The lag ring, with the count of the general code and without it.
LEMMA LagTurns ==
  ASSUME NEW p \in Nat \ {0}, NEW c \in 0 .. p, NEW w, \A k \in 1 .. c : w[k] \in Entries,
         NEW e \in Entries, NEW v, Turned(w, v, c, p, e), NEW st, LagRingOf(st, p, w, c)
  PROVE  /\ LagRingOf(Push(st, <<e[1], 0>>, LagOf), p, v, Grown(c, p))
         /\ c = p => LagRingOf(EmitLoweredLagWarm(st, p, e[1]).state, p, v, Grown(c, p))
<1> DEFINE x == <<e[1], 0>>
           r == Push(st, x, LagOf)
           u == EmitLoweredLagWarm(st, p, e[1]).state
           d == Grown(c, p)
           g == Map(LaggedEntry, w, c)
           h == Map(LaggedEntry, v, d)
<1>1. Holds(st, p, c, g) /\ IsRing(st, p) /\ st.count = c
  BY DEF LagRingOf, Holds
<1>2. Turned(g, h, c, p, x)
  <2>1. LaggedEntry[e] = x
    BY EntryTerms
  <2> HIDE DEF x
  <2> QED BY <2>1, MapTurns
<1>3. /\ DOMAIN r = DOMAIN st /\ r.cap = st.cap
      /\ r.buf = [st.buf EXCEPT ![st.head] = x] /\ r.head = (st.head + 1) % st.cap
      /\ r.count = IF st.count = st.cap THEN st.count ELSE st.count + 1
  BY <1>1 DEF Push, IsRing
<1> HIDE DEF r
<1>3a. IsRing(r, p) /\ r.head = (st.head + 1) % p /\ r.count = d
  BY <1>1, <1>3, PushParts
<1>4. c = p => /\ IsRing(u, p) /\ u.buf = [st.buf EXCEPT ![st.head] = x]
               /\ u.head = (st.head + 1) % p /\ u.count = d
  <2>1. u = [st EXCEPT !.buf[st.head] = x, !.head = (@ + 1) % p]
    BY DEF EmitLoweredLagWarm
  <2>2. /\ DOMAIN u = DOMAIN st /\ u.buf = [st.buf EXCEPT ![st.head] = x]
        /\ u.head = (st.head + 1) % p /\ u.count = st.count /\ u.cap = st.cap
    BY <1>1, <2>1 DEF IsRing
  <2>3. r.head \in 0 .. p - 1 /\ DOMAIN r.buf = 0 .. p - 1
    BY <1>3, <1>3a DEF IsRing
  <2> QED BY <1>1, <1>3, <1>3a, <2>2, <2>3 DEF IsRing, Grown
<1> HIDE DEF u, g, h, x
<1>6. Holds(r, p, d, h)
  BY <1>1, <1>2, <1>3, <1>3a, PushHolds
<1>7. c = p => Holds(u, p, d, h)
  BY <1>1, <1>2, <1>4, PushHolds
<1> QED BY <1>6, <1>7 DEF LagRingOf, r, u, h, x

\* An interpreter state that exists fits; before that, Fitted creates it.
LEMMA FittedStates ==
  ASSUME PairInv
  PROVE  LET c == Len(window)
         IN  /\ VwapOf(Fitted(vwap, period, NoPV), period, window, c)
             /\ PairOf(Fitted(pair, period, NoSums), period, window, c, seenNaN)
             /\ LagRingOf(Fitted(lag, period, NoLagSums), period, window, c)
<1> DEFINE c == Len(window)
<1>1. period \in Nat \ {0}
  BY PeriodAssumption DEF PairInv
<1>2. CASE c = 0
  <2>1. vwap = Ring(0, NoPV) /\ pair = Ring(0, NoSums) /\ lag = Ring(0, NoLagSums)
        /\ seenNaN = FALSE
    BY <1>2 DEF PairInv, LagRing
  <2>2. \A sums : Ring(0, sums).cap = 0
    BY DEF Ring
  <2>3. /\ Fitted(vwap, period, NoPV) = Ring(period, NoPV)
        /\ Fitted(pair, period, NoSums) = Ring(period, NoSums)
        /\ Fitted(lag, period, NoLagSums) = LagRing(period)
    BY <1>1, <2>1, <2>2 DEF Fitted, LagRing
  <2>4. /\ VwapOf(Ring(period, NoPV), period, window, 0)
        /\ PairOf(Ring(period, NoSums), period, window, 0, seenNaN)
        /\ LagRingOf(LagRing(period), period, window, 0)
    BY <1>1, <2>1, EmptyStates
  <2> QED BY <1>2, <2>3, <2>4
<1>3. CASE c # 0
  <2>1. /\ VwapOf(vwap, period, window, c) /\ PairOf(pair, period, window, c, seenNaN)
        /\ LagRingOf(lag, period, window, c)
    BY <1>3 DEF PairInv
  <2>2. vwap.cap = period /\ pair.cap = period /\ lag.cap = period
    BY <2>1 DEF VwapOf, PairOf, LagRingOf, Holds, IsRing
  <2> QED BY <2>1, <2>2 DEF Fitted
<1> QED BY <1>2, <1>3

\* A tick keeps the invariant.
LEMMA TickKeeps ==
  ASSUME PairInv, NEW x \in Xs, NEW y \in Ys, Tick(x, y)
  PROVE  PairInv'
<1> DEFINE p == period
           w == window
           v == window'
           c == Len(window)
           d == Grown(c, p)
           e == <<x, y>>
<1>1. /\ p \in Nat \ {0} /\ w \in Seq(Entries) /\ c <= p
      /\ seenNaN \in BOOLEAN /\ (~seenNaN => \A k \in 1 .. c : w[k][1] # NaN)
      /\ warm \in BOOLEAN /\ (warm => c = p)
      /\ VwapOf(lowVwap, p, w, c) /\ PairOf(lowPair, p, w, c, seenNaN)
      /\ LagRingOf(lowLag, p, w, c)
  BY PeriodAssumption DEF PairInv
<1>2. e \in Entries /\ e[1] = x /\ e[2] = y
  BY DEF Entries
<1>3. Priced(e) = <<IF x = NaN THEN 0 ELSE x, Volume(y)>>
  BY <1>2 DEF Priced
<1>4. v = Append(IF c = p THEN Tail(w) ELSE w, e) /\ period' = p /\ warm' = warm
      /\ seenNaN' = (seenNaN \/ x = NaN)
  BY DEF Tick
<1>5. /\ Turned(w, v, c, p, e) /\ v \in Seq(Entries) /\ Len(v) = d
      /\ c \in 0 .. p /\ \A k \in 1 .. c : w[k] \in Entries
  <2>1. NextWindow(w, v, p, e) /\ Len(w) <= p /\ c = Len(w)
    BY <1>1, <1>4 DEF NextWindow
  <2> HIDE DEF p, w, v, c, e
  <2>2. /\ Turned(w, v, Len(w), p, e) /\ v \in Seq(Entries) /\ Len(v) = Grown(Len(w), p)
        /\ Len(w) \in 0 .. p /\ \A k \in 1 .. Len(w) : w[k] \in Entries
    BY <1>1, <1>2, <2>1, WindowTurns
  <2> QED BY <2>1, <2>2
<1>5a. p \in Nat \ {0} /\ c \in 0 .. p /\ \A k \in 1 .. c : w[k] \in Entries
  BY <1>1, <1>5
<1>6. d \in 1 .. p /\ (c = p => d = p)
  BY <1>1, <1>5 DEF Grown
<1>7. VwapOf(vwap', p, v, d) /\ VwapOf(lowVwap', p, v, d)
  <2>1. VwapOf(Fitted(vwap, p, NoPV), p, w, c)
    BY FittedStates
  <2>2. /\ vwap' = Push(Fitted(vwap, p, NoPV), Priced(e), PVOf)
        /\ lowVwap' = Push(lowVwap, Priced(e), PVOf)
    BY <1>3 DEF Tick, VwapPush, EmitLoweredVwap
  <2> QED BY <1>1, <1>2, <1>5, <2>1, <2>2, VwapTurns
<1>8. PairOf(pair', p, v, d, seenNaN') /\ PairOf(lowPair', p, v, d, seenNaN')
  <2>1. PairOf(Fitted(pair, p, NoSums), p, w, c, seenNaN)
    BY FittedStates
  <2>2. /\ pair' = Push(Fitted(pair, p, NoSums), e, SumsOf)
        /\ lowPair' = Push(lowPair, e, SumsOf)
    BY DEF Tick, RollingPairPush, EmitLoweredRollingPair
  <2>3. seenNaN' = (seenNaN \/ e[1] = NaN)
    BY <1>2, <1>4
  <2> QED BY <1>1, <1>2, <1>5, <2>1, <2>2, <2>3, PairTurns
<1>9. LagRingOf(lag', p, v, d) /\ lagOut' = past'
  <2> DEFINE st == Fitted(lag, p, NoLagSums)
  <2>1. LagRingOf(st, p, w, c)
    BY FittedStates
  <2>2. lag' = Push(st, <<e[1], 0>>, LagOf)
    BY <1>2 DEF Tick, LagPush
  <2> HIDE DEF st
  <2>3. LagRingOf(Push(st, <<e[1], 0>>, LagOf), p, v, d)
    BY <1>1, <1>2, <1>5, <2>1, LagTurns
  <2>3a. IsRing(st, p) /\ st.count = c /\ (c = p => st.buf[st.head][1] = w[1][1])
    <3> HIDE DEF p, w, c
    <3> QED BY <1>5a, <2>1, LagOldest
  <2>4. lagOut' = LagValue(lag) /\ past' = IF c = p THEN w[1][1] ELSE NaN
    BY DEF Tick
  <2>5. CASE c = 0
    <3>1. lag.cap = 0
      BY <2>5 DEF PairInv, LagRing, Ring
    <3> QED BY <1>1, <2>2, <2>3, <2>3a, <2>4, <2>5, <3>1 DEF LagValue
  <2>6. CASE c # 0
    <3>1. lag.cap = p
      BY <2>6 DEF PairInv, LagRingOf, Holds, IsRing
    <3>2. st = lag
      BY <3>1 DEF Fitted, st
    <3> QED BY <1>1, <1>5, <2>2, <2>3, <2>3a, <2>4, <3>1, <3>2 DEF LagValue
  <2> QED BY <2>5, <2>6
<1>10. LagRingOf(lowLag', p, v, d) /\ lowLagOut' = past'
  <2>1. /\ LagRingOf(Push(lowLag, <<e[1], 0>>, LagOf), p, v, d)
        /\ c = p => LagRingOf(EmitLoweredLagWarm(lowLag, p, e[1]).state, p, v, d)
        /\ c = p => lowLag.buf[lowLag.head][1] = w[1][1]
        /\ lowLag.count = c
    <3> HIDE DEF e
    <3>1. LagRingOf(Push(lowLag, <<e[1], 0>>, LagOf), p, v, d)
      BY <1>1, <1>2, <1>5, LagTurns
    <3>2. c = p => LagRingOf(EmitLoweredLagWarm(lowLag, p, e[1]).state, p, v, d)
      BY <1>1, <1>2, <1>5, LagTurns
    <3>3. lowLag.count = c /\ (c = p => lowLag.buf[lowLag.head][1] = w[1][1])
      <4>1. LagRingOf(lowLag, p, w, c)
        BY <1>1
      <4> HIDE DEF p, w, c
      <4> QED BY <4>1, <1>5a, LagOldest
    <3> QED BY <3>1, <3>2, <3>3
  <2>2. past' = IF c = p THEN w[1][1] ELSE NaN
    BY DEF Tick
  <2>3. CASE warm
    <3>1. /\ lowLag' = EmitLoweredLagWarm(lowLag, p, e[1]).state
          /\ lowLagOut' = EmitLoweredLagWarm(lowLag, p, e[1]).out
      BY <1>2, <2>3 DEF Tick
    <3>2. lowLagOut' = lowLag.buf[lowLag.head][1]
      BY <3>1 DEF EmitLoweredLagWarm
    <3> QED BY <1>1, <2>1, <2>2, <2>3, <3>1, <3>2
  <2>4. CASE ~warm
    <3>1. /\ lowLag' = EmitLoweredLag(lowLag, p, e[1]).state
          /\ lowLagOut' = EmitLoweredLag(lowLag, p, e[1]).out
      BY <1>2, <2>4 DEF Tick
    <3>2. /\ lowLag' = Push(lowLag, <<e[1], 0>>, LagOf)
          /\ lowLagOut' = IF lowLag.count = p THEN lowLag.buf[lowLag.head][1] ELSE NaN
      BY <3>1 DEF EmitLoweredLag
    <3> QED BY <2>1, <2>2, <3>2
  <2> QED BY <2>3, <2>4
<1>11. ASSUME ~seenNaN', NEW k \in 1 .. d PROVE v[k][1] # NaN
  <2>1. x # NaN /\ \A j \in 1 .. c : w[j][1] # NaN
    BY <1>1, <1>4, <1>11
  <2>2. CASE c = p
    <3>1. CASE k = p
      BY <1>2, <1>5, <2>1, <2>2, <3>1 DEF Turned
    <3>2. CASE k # p
      <4>1. k \in 1 .. p - 1 /\ k + 1 \in 1 .. c
        BY <1>1, <1>6, <2>2, <3>2
      <4> QED BY <1>5, <2>1, <2>2, <4>1 DEF Turned
    <3> QED BY <3>1, <3>2
  <2>3. CASE c # p
    <3>1. d = c + 1
      BY <2>3 DEF Grown
    <3>2. CASE k = c + 1
      BY <1>2, <1>5, <2>1, <2>3, <3>2 DEF Turned
    <3>3. CASE k # c + 1
      <4>1. k \in 1 .. c
        BY <1>5, <3>1, <3>3
      <4> QED BY <1>5, <2>1, <2>3, <4>1 DEF Turned
    <3> QED BY <3>2, <3>3
  <2> QED BY <2>2, <2>3
<1>12. period' \in Periods /\ seenNaN' \in BOOLEAN /\ d <= p /\ d # 0
       /\ (warm' => d = p) /\ warm' \in BOOLEAN
  BY <1>1, <1>4, <1>6 DEF PairInv
<1> HIDE DEF d, e
<1> QED BY <1>4, <1>5, <1>7, <1>8, <1>9, <1>10, <1>11, <1>12 DEF PairInv, LagIsPast

\* The rings are those of the window in every state: the entries oldest
\* first, and sums of exactly these.
THEOREM PairInvariance == Spec => []PairInv
<1>1. Init => PairInv
  <2> SUFFICES ASSUME Init PROVE PairInv
    OBVIOUS
  <2>1. period \in Periods /\ period \in Nat \ {0} /\ seenNaN = FALSE
    BY PeriodAssumption DEF Init
  <2>2. window = << >> /\ window \in Seq(Entries) /\ Len(window) = 0
    BY DEF Init
  <2>3. /\ VwapOf(lowVwap, period, window, 0) /\ PairOf(lowPair, period, window, 0, seenNaN)
        /\ LagRingOf(lowLag, period, window, 0)
    BY <2>1, EmptyStates DEF Init
  <2>4. vwap = Ring(0, NoPV) /\ pair = Ring(0, NoSums) /\ lag = LagRing(0) /\ LagIsPast
        /\ warm = FALSE
    BY DEF Init, LagIsPast
  <2>5. 0 <= period /\ \A k \in 1 .. 0 : window[k][1] # NaN
    BY <2>1
  <2> QED BY <2>1, <2>2, <2>3, <2>4, <2>5, Zenon DEF PairInv
<1>2. PairInv /\ [Next]_vars => PairInv'
  <2> SUFFICES ASSUME PairInv, [Next]_vars PROVE PairInv'
    OBVIOUS
  <2>1. CASE Promote
    BY <2>1, PeriodAssumption DEF PairInv, Promote, LagIsPast, WarmupThreshold
  <2>2. CASE \E x \in Xs, y \in Ys : Tick(x, y)
    BY <2>2, TickKeeps
  <2>3. CASE UNCHANGED vars
    BY <2>3 DEF PairInv, vars, LagIsPast
  <2> QED BY <2>1, <2>2, <2>3 DEF Next
<1> QED BY <1>1, <1>2, PTL DEF Spec

\* lag returns the sample of `period' ticks ago, and NaN before there is one,
\* in the runtime, lowered and specialised: for every period and stream.
THEOREM LagAlwaysPast == Spec => []LagIsPast
<1>1. PairInv => LagIsPast
  BY DEF PairInv
<1> QED BY PairInvariance, <1>1, PTL

-----------------------------------------------------------------------------
(* vwap *)

\* The terms of the volume-weighted mean.
VwapTerms(pv, vol, w, p) ==
  \A k \in 1 .. p : /\ vol[k] = Volume(w[k][2])
                    /\ pv[k] = (IF w[k][1] = NaN THEN 0 ELSE w[k][1]) * Volume(w[k][2])

\* What both states return for the window.
LEMMA VwapReturns ==
  ASSUME NEW p \in Nat \ {0}, NEW c \in 1 .. p, NEW w, \A k \in 1 .. c : w[k] \in Entries,
         NEW st, VwapOf(st, p, w, c), NEW pv, NEW vol,
         VwapTerms(pv, vol, w, p)
  PROVE  LET ref == IF c = p THEN <<SumOf(pv, p), SumOf(vol, p)>> ELSE <<NaN>>
         IN  VwapValue(st) = ref /\ LoweredVwapValue(st, p) = ref
<1>1. st.count = c /\ st.cap = p
  BY DEF VwapOf, Holds, IsRing
<1>2. CASE c # p
  BY <1>1, <1>2 DEF VwapValue, LoweredVwapValue, IsFull
<1>3. CASE c = p
  <2>1. ASSUME NEW k \in 1 .. p
        PROVE  Map(PVTerm("pv"), w, c)[k] = pv[k] /\ Map(PVTerm("vol"), w, c)[k] = vol[k]
               /\ vol[k] \in Int /\ vol[k] >= 1
    <3>1. w[k] \in Entries /\ w[k][1] \in Int \cup {NaN} /\ w[k][2] \in Int
      BY <1>3, EntryTerms
    <3>2. PVTerm("pv")[w[k]] = PVOf(Priced(w[k])).pv /\ PVTerm("vol")[w[k]] = PVOf(Priced(w[k])).vol
      BY <3>1, EntryTerms DEF PVFields
    <3>3. Volume(w[k][2]) \in Int /\ Volume(w[k][2]) >= 1
      BY <3>1 DEF Volume
    <3>4. /\ PVOf(Priced(w[k])).vol = Volume(w[k][2])
          /\ PVOf(Priced(w[k])).pv = (IF w[k][1] = NaN THEN 0 ELSE w[k][1]) * Volume(w[k][2])
      BY <3>1, <3>3, NaNAssumption DEF PVOf, Priced, Mul
    <3>5. \A F : Map(F, w, c)[k] = F[w[k]]
      BY <1>3 DEF Map
    <3> QED BY <3>2, <3>3, <3>4, <3>5 DEF VwapTerms
  <2>2. st.sums.pv = SumOf(pv, p) /\ st.sums.vol = SumOf(vol, p)
    <3>1. /\ st.sums.pv = SumOf(Map(PVTerm("pv"), w, c), c)
          /\ st.sums.vol = SumOf(Map(PVTerm("vol"), w, c), c)
      BY DEF VwapOf, PVFields
    <3>2. /\ SumOf(Map(PVTerm("pv"), w, c), p) = SumOf(pv, p)
          /\ SumOf(Map(PVTerm("vol"), w, c), p) = SumOf(vol, p)
      BY <2>1, SumSame
    <3> QED BY <1>3, <3>1, <3>2
  <2>3. SumOf(vol, p) \in Int /\ SumOf(vol, p) > 0
    <3>1. Ints(vol, p) /\ 1 \in {0, 1} /\ p \in Nat /\ p > 0
      BY <2>1 DEF Ints
    <3> QED BY <2>1, <3>1, SumBounds
  <2> QED BY <1>1, <1>3, <2>2, <2>3 DEF VwapValue, LoweredVwapValue, IsFull
<1> QED BY <1>2, <1>3

\* vwap is the volume-weighted mean of the window, in the runtime and lowered,
\* for every period and every stream of prices and volumes.
THEOREM VwapAlwaysOfWindow == Spec => []VwapIsWindowAverage
<1>1. PairInv => VwapIsWindowAverage
  <2> DEFINE c == Len(window)
             vol == [k \in 1 .. period |-> Volume(window[k][2])]
             pv == [k \in 1 .. period |->
                      (IF window[k][1] = NaN THEN 0 ELSE window[k][1]) * Volume(window[k][2])]
             ref == IF c = period THEN <<SumOf(pv, period), SumOf(vol, period)>> ELSE <<NaN>>
  <2> SUFFICES ASSUME PairInv, window # << >>
               PROVE  VwapValue(vwap) = ref /\ LoweredVwapValue(lowVwap, period) = ref
    BY Zenon DEF VwapIsWindowAverage, Full
  <2>1. period \in Nat \ {0} /\ window \in Seq(Entries) /\ c <= period
    BY PeriodAssumption DEF PairInv
  <2>2. c \in 1 .. period /\ \A k \in 1 .. c : window[k] \in Entries
    BY <2>1
  <2>3. VwapOf(vwap, period, window, c) /\ VwapOf(lowVwap, period, window, c)
    BY <2>2 DEF PairInv
  <2>4. VwapTerms(pv, vol, window, period)
    BY DEF VwapTerms
  <2> HIDE DEF c, vol, pv
  <2>5. VwapValue(vwap) = ref /\ LoweredVwapValue(vwap, period) = ref
    BY <2>1, <2>2, <2>3, <2>4, VwapReturns
  <2>6. VwapValue(lowVwap) = ref /\ LoweredVwapValue(lowVwap, period) = ref
    BY <2>1, <2>2, <2>3, <2>4, VwapReturns
  <2> QED BY <2>5, <2>6
<1> QED BY PairInvariance, <1>1, PTL

-----------------------------------------------------------------------------
(* rolling_corr and rolling_beta *)

\* The one-pass and the two-pass covariance are the same, and a variance is
\* never negative.
LEMMA OnePass ==
  ASSUME NEW p \in Nat \ {0}, NEW a, NEW b, Ints(a, p), Ints(b, p), NEW ab, NEW d,
         Products(ab, a, b, p), Deviations(d, a, b, p, SumOf(a, p), SumOf(b, p), p)
  PROVE  LET cov == p * SumOf(ab, p) - SumOf(a, p) * SumOf(b, p)
         IN  /\ SumOf(a, p) \in Int /\ SumOf(b, p) \in Int /\ SumOf(ab, p) \in Int
             /\ cov \in Int /\ SumOf(d, p) \div p = cov
             /\ a = b => cov >= 0
<1> DEFINE A == SumOf(a, p)
           B == SumOf(b, p)
           C == SumOf(ab, p)
           cov == p * C - A * B
<1>1. A \in Int /\ B \in Int
  BY SumInts
<1>2. /\ C \in Int /\ SumOf(d, p) \in Int
      /\ SumOf(d, p) = (((p * p) * C - (p * B) * A) - (p * A) * B) + p * (A * B)
  <2>1. Deviations(d, a, b, p, A, B, p)
    OBVIOUS
  <2> HIDE DEF A, B
  <2>2. p \in Nat /\ p \in Int
    OBVIOUS
  <2>3. /\ C \in Int /\ SumOf(d, p) \in Int
        /\ SumOf(d, p) = (((p * p) * C - (p * B) * SumOf(a, p)) - (p * A) * SumOf(b, p))
                            + p * (A * B)
    BY <1>1, <2>1, <2>2, SumOfDeviations
  <2> QED BY <2>3 DEF A, B
<1>3. ASSUME a = b PROVE SumOf(d, p) >= 0
  <2>1. ASSUME NEW k \in 1 .. p PROVE d[k] \in Int /\ d[k] >= 0
    <3> DEFINE z == p * a[k] - A
    <3>1. a[k] \in Int /\ z \in Int
      BY <1>1 DEF Ints
    <3>2. d[k] = z * z
      BY <1>3 DEF Deviations
    <3> HIDE DEF z
    <3> QED BY <3>1, <3>2
  <2>2. Ints(d, p) /\ 0 \in {0, 1}
    BY <2>1 DEF Ints
  <2> QED BY <2>1, <2>2, SumBounds
<1> HIDE DEF A, B, C
<1>4. cov \in Int
  BY <1>1, <1>2
<1>5. SumOf(d, p) = p * cov
  <2> DEFINE N == A * B
  <2>1. N \in Int /\ p * N \in Int
    BY <1>1
  <2>2. (p * B) * A = p * N /\ (p * A) * B = p * N
    BY <1>1
  <2>3. (p * p) * C = p * (p * C) /\ p * C \in Int /\ p * (p * C) \in Int
    BY <1>2
  <2>4. SumOf(d, p) = ((p * (p * C) - p * N) - p * N) + p * N
    BY <1>2, <2>2, <2>3
  <2>5. cov = p * C - N
    OBVIOUS
  <2> HIDE DEF N, cov
  <2> DEFINE M == p * C
  <2>6. p * (M - N) = p * M - p * N
    BY <2>1, <2>3
  <2> QED BY <2>1, <2>3, <2>4, <2>5, <2>6
<1> HIDE DEF cov
<1>6. SumOf(d, p) \div p = cov
  BY <1>4, <1>5, ExactDivision
<1>7. p * cov >= 0 => cov >= 0
  <2> SUFFICES ASSUME cov <= -1 PROVE p * cov <= -1
    BY <1>4
  <2> QED BY <1>4
<1> QED BY <1>1, <1>2, <1>3, <1>4, <1>5, <1>6, <1>7 DEF A, B, C, cov

\* The samples of either series in the window, and their products.
Series(i) == [k \in 1 .. period |-> window[k][i]]
ProductsOf(i, j) == [k \in 1 .. period |-> window[k][i] * window[k][j]]

\* The reference covariances, from sums over the window.
LEMMA WindowCov ==
  ASSUME period \in Nat \ {0}, NEW i \in {1, 2}, NEW j \in {1, 2},
         \A k \in 1 .. period : window[k][i] \in Int /\ window[k][j] \in Int
  PROVE  LET cov == period * SumOf(ProductsOf(i, j), period)
                      - SumOf(Series(i), period) * SumOf(Series(j), period)
         IN  /\ SumOf(Series(i), period) \in Int /\ SumOf(Series(j), period) \in Int
             /\ SumOf(ProductsOf(i, j), period) \in Int
             /\ cov \in Int /\ CovRef(i, j) = cov /\ (i = j => cov >= 0)
<1> DEFINE a == Series(i)
           b == Series(j)
           ab == ProductsOf(i, j)
           d == [k \in 1 .. period |-> (period * window[k][i] - SumOf(a, period))
                                         * (period * window[k][j] - SumOf(b, period))]
<1>1. Ints(a, period) /\ Ints(b, period) /\ Products(ab, a, b, period)
  BY DEF Ints, Products, Series, ProductsOf
<1>2. Deviations(d, a, b, period, SumOf(a, period), SumOf(b, period), period)
  BY DEF Deviations, Series
<1>3. CovRef(i, j) = SumOf(d, period) \div period
  BY DEF CovRef, Series
<1>4. i = j => a = b
  OBVIOUS
<1> HIDE DEF a, b, ab, d
<1>5. LET cov == period * SumOf(ab, period) - SumOf(a, period) * SumOf(b, period)
      IN  /\ SumOf(a, period) \in Int /\ SumOf(b, period) \in Int /\ SumOf(ab, period) \in Int
          /\ cov \in Int /\ SumOf(d, period) \div period = cov
          /\ a = b => cov >= 0
  BY <1>1, <1>2, OnePass
<1> QED BY <1>3, <1>4, <1>5 DEF a, b, ab

\* What both backends compute from a full window without NaN.
LEMMA PairSums ==
  ASSUME period \in Nat \ {0}, \A k \in 1 .. period : window[k] \in Entries /\ window[k][1] # NaN,
         NEW st, PairOf(st, period, window, period, FALSE)
  PROVE  /\ Cov(st) = CovRef(1, 2) /\ VarX(st) = CovRef(1, 1) /\ VarY(st) = CovRef(2, 2)
         /\ CovRef(1, 2) \in Int /\ CovRef(1, 1) \in Nat /\ CovRef(2, 2) \in Nat
<1> DEFINE S(f) == SumOf(Map(SumTerm(f), window, period), period)
<1>1. \A f \in SumFields : st.sums[f] = S(f)
  BY DEF PairOf
<1>2. ASSUME NEW k \in 1 .. period
      PROVE  /\ window[k][1] \in Int /\ window[k][2] \in Int
             /\ Map(SumTerm("x"), window, period)[k] = Series(1)[k]
             /\ Map(SumTerm("y"), window, period)[k] = Series(2)[k]
             /\ Map(SumTerm("xy"), window, period)[k] = ProductsOf(1, 2)[k]
             /\ Map(SumTerm("xx"), window, period)[k] = ProductsOf(1, 1)[k]
             /\ Map(SumTerm("yy"), window, period)[k] = ProductsOf(2, 2)[k]
  <2>1. window[k] \in Entries /\ window[k][1] \in Int /\ window[k][2] \in Int
    BY EntryTerms
  <2>2. \A f \in SumFields : Map(SumTerm(f), window, period)[k] = SumsOf(window[k])[f]
    BY <2>1, EntryTerms DEF Map
  <2>3. /\ SumsOf(window[k])["x"] = window[k][1] /\ SumsOf(window[k])["y"] = window[k][2]
        /\ SumsOf(window[k])["xy"] = window[k][1] * window[k][2]
        /\ SumsOf(window[k])["xx"] = window[k][1] * window[k][1]
        /\ SumsOf(window[k])["yy"] = window[k][2] * window[k][2]
    BY <2>1, NaNAssumption DEF SumsOf, Mul, Sq
  <2>4. "x" \in SumFields /\ "y" \in SumFields /\ "xy" \in SumFields /\ "xx" \in SumFields
        /\ "yy" \in SumFields
    BY DEF SumFields
  <2>5. /\ Series(1)[k] = window[k][1] /\ Series(2)[k] = window[k][2]
        /\ ProductsOf(1, 2)[k] = window[k][1] * window[k][2]
        /\ ProductsOf(1, 1)[k] = window[k][1] * window[k][1]
        /\ ProductsOf(2, 2)[k] = window[k][2] * window[k][2]
    BY DEF Series, ProductsOf
  <2> QED BY <2>1, <2>2, <2>3, <2>4, <2>5
<1>3. /\ S("x") = SumOf(Series(1), period) /\ S("y") = SumOf(Series(2), period)
      /\ S("xy") = SumOf(ProductsOf(1, 2), period) /\ S("xx") = SumOf(ProductsOf(1, 1), period)
      /\ S("yy") = SumOf(ProductsOf(2, 2), period)
  BY <1>2, SumSame
<1>4. /\ st.sums.x = SumOf(Series(1), period) /\ st.sums.y = SumOf(Series(2), period)
      /\ st.sums.xy = SumOf(ProductsOf(1, 2), period)
      /\ st.sums.xx = SumOf(ProductsOf(1, 1), period)
      /\ st.sums.yy = SumOf(ProductsOf(2, 2), period) /\ st.cap = period
  <2>1. /\ st.sums["x"] = S("x") /\ st.sums["y"] = S("y") /\ st.sums["xy"] = S("xy")
        /\ st.sums["xx"] = S("xx") /\ st.sums["yy"] = S("yy")
    BY <1>1 DEF SumFields
  <2>2. st.cap = period
    BY DEF PairOf, Holds, IsRing
  <2> QED BY <1>3, <2>1, <2>2
<1> HIDE DEF S
<1>5. ASSUME NEW i \in {1, 2}, NEW j \in {1, 2}
      PROVE  LET cov == period * SumOf(ProductsOf(i, j), period)
                          - SumOf(Series(i), period) * SumOf(Series(j), period)
             IN  /\ SumOf(Series(i), period) \in Int /\ SumOf(Series(j), period) \in Int
                 /\ SumOf(ProductsOf(i, j), period) \in Int
                 /\ cov \in Int /\ CovRef(i, j) = cov /\ (i = j => cov >= 0)
  <2>1. \A k \in 1 .. period : window[k][i] \in Int /\ window[k][j] \in Int
    BY <1>2
  <2> QED BY <2>1, WindowCov
<1>6. ASSUME NEW P \in Int, NEW A \in Int, NEW B \in Int
      PROVE  Sub(Mul(period, P), Mul(A, B)) = period * P - A * B
  BY NaNAssumption, <1>6 DEF Sub, Mul
<1>7. Cov(st) = CovRef(1, 2) /\ CovRef(1, 2) \in Int
  <2>1. Cov(st) = Sub(Mul(period, SumOf(ProductsOf(1, 2), period)),
                      Mul(SumOf(Series(1), period), SumOf(Series(2), period)))
    BY <1>4 DEF Cov
  <2>2. /\ SumOf(Series(1), period) \in Int /\ SumOf(Series(2), period) \in Int
        /\ SumOf(ProductsOf(1, 2), period) \in Int
        /\ CovRef(1, 2) = period * SumOf(ProductsOf(1, 2), period)
                            - SumOf(Series(1), period) * SumOf(Series(2), period)
        /\ CovRef(1, 2) \in Int
    BY <1>5
  <2>3. Sub(Mul(period, SumOf(ProductsOf(1, 2), period)),
            Mul(SumOf(Series(1), period), SumOf(Series(2), period)))
          = period * SumOf(ProductsOf(1, 2), period)
              - SumOf(Series(1), period) * SumOf(Series(2), period)
    BY <1>6, <2>2
  <2> QED BY <2>1, <2>2, <2>3
<1>8. VarX(st) = CovRef(1, 1) /\ CovRef(1, 1) \in Nat
  <2>1. VarX(st) = Sub(Mul(period, SumOf(ProductsOf(1, 1), period)),
                       Mul(SumOf(Series(1), period), SumOf(Series(1), period)))
    BY <1>4 DEF VarX, Sq
  <2>2. /\ SumOf(Series(1), period) \in Int /\ SumOf(Series(1), period) \in Int
        /\ SumOf(ProductsOf(1, 1), period) \in Int
        /\ CovRef(1, 1) = period * SumOf(ProductsOf(1, 1), period)
                            - SumOf(Series(1), period) * SumOf(Series(1), period)
        /\ CovRef(1, 1) \in Int /\ CovRef(1, 1) >= 0
    BY <1>5
  <2>3. Sub(Mul(period, SumOf(ProductsOf(1, 1), period)),
            Mul(SumOf(Series(1), period), SumOf(Series(1), period)))
          = period * SumOf(ProductsOf(1, 1), period)
              - SumOf(Series(1), period) * SumOf(Series(1), period)
    BY <1>6, <2>2
  <2> QED BY <2>1, <2>2, <2>3
<1>9. VarY(st) = CovRef(2, 2) /\ CovRef(2, 2) \in Nat
  <2>1. VarY(st) = Sub(Mul(period, SumOf(ProductsOf(2, 2), period)),
                       Mul(SumOf(Series(2), period), SumOf(Series(2), period)))
    BY <1>4 DEF VarY, Sq
  <2>2. /\ SumOf(Series(2), period) \in Int /\ SumOf(Series(2), period) \in Int
        /\ SumOf(ProductsOf(2, 2), period) \in Int
        /\ CovRef(2, 2) = period * SumOf(ProductsOf(2, 2), period)
                            - SumOf(Series(2), period) * SumOf(Series(2), period)
        /\ CovRef(2, 2) \in Int /\ CovRef(2, 2) >= 0
    BY <1>5
  <2>3. Sub(Mul(period, SumOf(ProductsOf(2, 2), period)),
            Mul(SumOf(Series(2), period), SumOf(Series(2), period)))
          = period * SumOf(ProductsOf(2, 2), period)
              - SumOf(Series(2), period) * SumOf(Series(2), period)
    BY <1>6, <2>2
  <2> QED BY <2>1, <2>2, <2>3
<1> QED BY <1>7, <1>8, <1>9

\* A full window after a NaN: the sums that have it give NaN.
LEMMA NaNSums ==
  ASSUME NEW p, NEW w, NEW c, NEW st, PairOf(st, p, w, c, TRUE)
  PROVE  Cov(st) = NaN /\ VarX(st) = NaN
<1>1. st.sums["x"] = NaN /\ st.sums["xy"] = NaN /\ st.sums["xx"] = NaN
  BY DEF PairOf, SumFields
<1> QED BY <1>1 DEF Cov, VarX, Sub, Mul, Sq

\* What both states return.
LEMMA PairReturns ==
  ASSUME PairInv, window # << >>, NEW st,
         PairOf(st, period, window, Len(window), seenNaN)
  PROVE  /\ RollingPairCorrelation(st) = CorrRef /\ LoweredCorr(st, period) = CorrRef
         /\ RollingPairBeta(st) = BetaRef /\ LoweredBeta(st, period) = BetaRef
<1>1. period \in Nat \ {0} /\ window \in Seq(Entries) /\ seenNaN \in BOOLEAN
  BY PeriodAssumption DEF PairInv
<1>2. st.count = Len(window) /\ st.cap = period
  BY DEF PairOf, Holds, IsRing
<1>3. CASE ~Full
  BY <1>2, <1>3 DEF Full, CorrRef, BetaRef, RollingPairCorrelation, RollingPairBeta,
                    LoweredCorr, LoweredBeta, IsFull
<1>4. CASE Full /\ seenNaN
  <2>1. Cov(st) = NaN /\ VarX(st) = NaN
    BY <1>4, NaNSums
  <2>2. ~GT(VarX(st), 0)
    BY <2>1 DEF GT
  <2>3. /\ Quotient(<<Cov(st), VarX(st), VarY(st)>>) = <<NaN>>
        /\ Quotient(<<Cov(st), VarX(st)>>) = <<NaN>>
    BY <2>1 DEF Quotient
  <2>4. CorrRef = <<NaN>> /\ BetaRef = <<NaN>>
    BY <1>4 DEF CorrRef, BetaRef
  <2> QED BY <2>2, <2>3, <2>4 DEF RollingPairCorrelation, RollingPairBeta, LoweredCorr,
                                  LoweredBeta
<1>5. CASE Full /\ ~seenNaN
  <2>1. \A k \in 1 .. period : window[k] \in Entries /\ window[k][1] # NaN
    BY <1>1, <1>5 DEF PairInv, Full
  <2>2. /\ Cov(st) = CovRef(1, 2) /\ VarX(st) = CovRef(1, 1) /\ VarY(st) = CovRef(2, 2)
        /\ CovRef(1, 2) \in Int /\ CovRef(1, 1) \in Nat /\ CovRef(2, 2) \in Nat
    <3>1. PairOf(st, period, window, period, FALSE)
      BY <1>1, <1>5 DEF Full
    <3> QED BY <1>1, <2>1, <3>1, PairSums
  <2> DEFINE C == CovRef(1, 2)
             X == CovRef(1, 1)
             Y == CovRef(2, 2)
  <2>3. C # NaN /\ X # NaN /\ Y # NaN /\ 0 # NaN
    BY <2>2, NaNAssumption
  <2>4. /\ LE(VarX(st), 0) <=> X = 0
        /\ LE(VarY(st), 0) <=> Y = 0
        /\ GT(VarX(st), 0) <=> X # 0
        /\ GT(VarY(st), 0) <=> Y # 0
    BY <2>2, <2>3 DEF LE, GT
  <2>5. Quotient(<<C, X, Y>>) = <<C, X, Y>> /\ Quotient(<<C, X>>) = <<C, X>>
    BY <2>3 DEF Quotient
  <2>6. IsFull(st) /\ st.count = period
    BY <1>1, <1>2, <1>5 DEF IsFull, Full
  <2>7. /\ CorrRef = IF X = 0 \/ Y = 0 THEN <<NaN>> ELSE <<C, X, Y>>
        /\ BetaRef = IF X = 0 THEN <<NaN>> ELSE <<C, X>>
    BY <1>5 DEF CorrRef, BetaRef
  <2> HIDE DEF C, X, Y
  <2>8. Cov(st) = C /\ VarX(st) = X /\ VarY(st) = Y
    BY <2>2 DEF C, X, Y
  <2>9. RollingPairCorrelation(st) = CorrRef /\ LoweredCorr(st, period) = CorrRef
    BY <2>4, <2>5, <2>6, <2>7, <2>8 DEF RollingPairCorrelation, LoweredCorr
  <2>10. RollingPairBeta(st) = BetaRef /\ LoweredBeta(st, period) = BetaRef
    BY <2>4, <2>5, <2>6, <2>7, <2>8 DEF RollingPairBeta, LoweredBeta
  <2> QED BY <2>9, <2>10
<1> QED BY <1>1, <1>3, <1>4, <1>5

\* rolling_corr and rolling_beta are those of the window by the two-pass
\* definition, in the runtime and lowered, undefined on flat series and NaN for
\* good after a NaN: for every period and every stream.
THEOREM PairStatsAlwaysOfWindow == Spec => []PairStatsOfWindow
<1>1. PairInv => PairStatsOfWindow
  <2> SUFFICES ASSUME PairInv, window # << >>
               PROVE  /\ RollingPairCorrelation(pair) = CorrRef
                      /\ LoweredCorr(lowPair, period) = CorrRef
                      /\ RollingPairBeta(pair) = BetaRef
                      /\ LoweredBeta(lowPair, period) = BetaRef
    BY DEF PairStatsOfWindow
  <2>1. window \in Seq(Entries)
    BY DEF PairInv
  <2>2. Len(window) # 0
    BY <2>1
  <2>3. /\ PairOf(pair, period, window, Len(window), seenNaN)
        /\ PairOf(lowPair, period, window, Len(window), seenNaN)
    BY <2>2 DEF PairInv
  <2> QED BY <2>3, PairReturns
<1> QED BY PairInvariance, <1>1, PTL

-----------------------------------------------------------------------------
(* The window statistics *)

\* The arithmetic is exact on numbers.
LEMMA IntDoubles ==
  ASSUME NEW a \in Int, NEW b \in Int
  PROVE  /\ Add(a, b) = a + b /\ Sub(a, b) = a - b /\ Mul(a, b) = a * b
         /\ Div(a, b) = a \div b /\ Sq(a) = a * a
BY NaNAssumption DEF Add, Sub, Mul, Div, Sq

Squares(w, c) == [k \in 1 .. c |-> w[k] * w[k]]
SquareSum(w, c) == SumOf(Squares(w, c), c)

\* c * m2 of the first c samples of w.
M2Of(w, c) == c * SquareSum(w, c) - SumOf(w, c) * SumOf(w, c)

\* The sums of a window of numbers are numbers.
LEMMA SquareInts ==
  ASSUME NEW c \in Nat, NEW w, Ints(w, c)
  PROVE  /\ SumOf(w, c) \in Int /\ SquareSum(w, c) \in Int /\ M2Of(w, c) \in Int
         /\ Ints(Squares(w, c), c)
<1>1. Ints(Squares(w, c), c)
  BY DEF Ints, Squares
<1>2. SumOf(w, c) \in Int /\ SquareSum(w, c) \in Int
  BY <1>1, SumInts DEF SquareSum
<1> QED BY <1>1, <1>2 DEF M2Of

\* The two passes over a window yield its M2Of, which is not negative.
LEMMA TwoPassIsM2 ==
  ASSUME NEW p \in Nat \ {0}, NEW w, Ints(w, p)
  PROVE  TwoPass(w, p) = M2Of(w, p) /\ M2Of(w, p) \in Int /\ M2Of(w, p) >= 0
<1> DEFINE S == SumOf(w, p)
           d == [i \in 1 .. p |-> Sq(Sub(Mul(p, w[i]), S))]
           e == [i \in 1 .. p |-> (p * w[i] - S) * (p * w[i] - S)]
           q == Squares(w, p)
<1>1. S \in Int /\ M2Of(w, p) \in Int
  BY SquareInts
<1>2. TwoPass(w, p) = Div(SumOf(d, p), p)
  BY Zenon DEF TwoPass
<1>3. d = e
  <2>1. ASSUME NEW i \in 1 .. p
        PROVE  Sq(Sub(Mul(p, w[i]), S)) = (p * w[i] - S) * (p * w[i] - S)
    <3>1. w[i] \in Int /\ p * w[i] \in Int
      BY DEF Ints
    <3> HIDE DEF S
    <3>2. Mul(p, w[i]) = p * w[i]
      BY <3>1, NaNAssumption DEF Mul
    <3>3. Sub(p * w[i], S) = p * w[i] - S /\ p * w[i] - S \in Int
      BY <1>1, <3>1, NaNAssumption DEF Sub
    <3>4. Sq(p * w[i] - S) = (p * w[i] - S) * (p * w[i] - S)
      BY <3>3, IntDoubles
    <3> QED BY <3>2, <3>3, <3>4
  <2> HIDE DEF S
  <2> QED BY <2>1
<1>4. Products(q, w, w, p) /\ Deviations(e, w, w, p, SumOf(w, p), SumOf(w, p), p)
  BY DEF Products, Deviations, Squares
<1> HIDE DEF d, e, q
<1>5. LET cov == p * SumOf(q, p) - SumOf(w, p) * SumOf(w, p)
      IN  /\ cov \in Int /\ SumOf(e, p) \div p = cov /\ cov >= 0
  BY <1>4, OnePass
<1>6. SumOf(e, p) \in Int
  <2>1. Ints(e, p)
    BY <1>1 DEF Ints, e
  <2> QED BY <2>1, SumInts
<1>7. Div(SumOf(e, p), p) = SumOf(e, p) \div p
  BY <1>6, IntDoubles
<1> QED BY <1>2, <1>3, <1>5, <1>7 DEF M2Of, SquareSum, q

\* Welford's update and its inverse, multiplied out.
LEMMA WelfordAdd ==
  ASSUME NEW n \in Int, NEW Q \in Int, NEW S \in Int, NEW x \in Int
  PROVE  (n + 1) * (n * Q - S * S) + (n * x - S) * (n * x - S)
           = n * ((n + 1) * (Q + x * x) - (S + x) * (S + x))
BY SMT

\* ... when a sample leaves.
LEMMA WelfordRemove ==
  ASSUME NEW n \in Int, NEW Q \in Int, NEW S \in Int, NEW x \in Int
  PROVE  (n - 1) * (n * Q - S * S) - (n * x - S) * (n * x - S)
           = n * ((n - 1) * (Q - x * x) - (S - x) * (S - x))
BY SMT

\* What OnAdd and OnRemove make of m2.
M2Add(n, mean, m2, x) ==
  IF n = 0 THEN IF x = NaN THEN NaN ELSE 0
  ELSE Div(Add(Mul(n + 1, m2), Sq(Sub(Mul(n, x), mean))), n)
M2Remove(n, mean, m2, x) == Div(Sub(Mul(n - 1, m2), Sq(Sub(Mul(n, x), mean))), n)

\* m is n * m2 for n samples of sum S whose squares have the sum Q.
M2Is(m, n, S, Q) == m = n * Q - S * S

\* From the m2 of n samples with the sums S and Q they make the one of n + 1
\* samples ...
LEMMA M2Adds ==
  ASSUME NEW n \in Nat, NEW S \in Int, NEW Q \in Int, NEW x \in Int,
         n = 0 => S = 0 /\ Q = 0, NEW m, M2Is(m, n, S, Q)
  PROVE  M2Is(M2Add(n, S, m, x), n + 1, S + x, Q + x * x)
<1> DEFINE M == n * Q - S * S
           a == n * x - S
           u == (n + 1) * M
           A == (n + 1) * (Q + x * x) - (S + x) * (S + x)
<1>1. M \in Int /\ n * x \in Int /\ a \in Int /\ A \in Int
  OBVIOUS
<1>2. u + a * a = n * A
  BY WelfordAdd
<1> HIDE DEF M, A
<1>3. u \in Int
  BY <1>1
<1>4. Mul(n, x) = n * x /\ Mul(n + 1, M) = u /\ Sub(n * x, S) = a
  BY <1>1, NaNAssumption DEF Mul, Sub
<1> HIDE DEF a, u
<1>5. Sq(a) = a * a /\ a * a \in Int
  BY <1>1, IntDoubles
<1>6. Add(u, a * a) = n * A /\ n * A \in Int
  BY <1>1, <1>2, <1>3, <1>5, NaNAssumption DEF Add
<1>7. CASE n # 0
  <2>1. Div(n * A, n) = A
    BY <1>1, <1>6, <1>7, ExactDivision, NaNAssumption DEF Div
  <2>2. M2Add(n, S, M, x) = A
    BY <1>4, <1>5, <1>6, <1>7, <2>1 DEF M2Add
  <2> QED BY <2>2 DEF M, A, M2Is
<1>8. CASE n = 0
  <2>1. A = 0
    BY <1>8 DEF A
  <2>2. x # NaN
    BY NaNAssumption
  <2>3. M2Add(n, S, M, x) = A
    BY <1>8, <2>1, <2>2 DEF M2Add
  <2> QED BY <2>3 DEF M, A, M2Is
<1> QED BY <1>7, <1>8

\* ... and of n - 1.
LEMMA M2Removes ==
  ASSUME NEW n \in Nat \ {0}, NEW S \in Int, NEW Q \in Int, NEW x \in Int,
         NEW m, M2Is(m, n, S, Q)
  PROVE  M2Is(M2Remove(n, S, m, x), n - 1, S - x, Q - x * x)
<1> DEFINE M == n * Q - S * S
           a == n * x - S
           v == (n - 1) * M
           B == (n - 1) * (Q - x * x) - (S - x) * (S - x)
<1>1. M \in Int /\ n * x \in Int /\ a \in Int /\ B \in Int
  OBVIOUS
<1>2. v - a * a = n * B
  BY WelfordRemove
<1> HIDE DEF M, B
<1>3. v \in Int
  BY <1>1
<1>4. Mul(n, x) = n * x /\ Mul(n - 1, M) = v /\ Sub(n * x, S) = a
  BY <1>1, NaNAssumption DEF Mul, Sub
<1> HIDE DEF a, v
<1>5. Sq(a) = a * a /\ a * a \in Int
  BY <1>1, IntDoubles
<1>6. Sub(v, a * a) = n * B /\ n * B \in Int
  BY <1>1, <1>2, <1>3, <1>5, NaNAssumption DEF Sub
<1>7. Div(n * B, n) = B
  BY <1>1, <1>6, ExactDivision, NaNAssumption DEF Div
<1>8. M2Remove(n, S, M, x) = B
  BY <1>4, <1>5, <1>6, <1>7 DEF M2Remove
<1> QED BY <1>8 DEF M, B, M2Is

\* The sums of a window without NaN, before and after a sample joins.
LEMMA SumsTurn ==
  ASSUME NEW p \in Nat \ {0}, NEW c \in 0 .. p, NEW w, Ints(w, c), NEW x \in Int, NEW v,
         Turned(w, v, c, p, x)
  PROVE  /\ SumOf(w, c) \in Int /\ SquareSum(w, c) \in Int
         /\ c = 0 => SumOf(w, c) = 0 /\ SquareSum(w, c) = 0
         /\ c # p => /\ SumOf(v, c + 1) = SumOf(w, c) + x
                     /\ SquareSum(v, c + 1) = SquareSum(w, c) + x * x
         /\ c = p => /\ w[1] \in Int /\ SumOf(v, p) = (SumOf(w, p) - w[1]) + x
                     /\ SquareSum(v, p) = (SquareSum(w, p) - w[1] * w[1]) + x * x
<1>1. /\ SumOf(w, c) \in Int /\ SquareSum(w, c) \in Int /\ Ints(Squares(w, c), c)
  BY SquareInts
<1>2. c = 0 => SumOf(w, c) = 0 /\ SquareSum(w, c) = 0
  BY SumSteps DEF SquareSum
<1>3. x * x \in Int
  OBVIOUS
<1>4. ASSUME c # p
      PROVE  /\ SumOf(v, c + 1) = SumOf(w, c) + x
             /\ SquareSum(v, c + 1) = SquareSum(w, c) + x * x
  <2>1. (\A k \in 1 .. c : v[k] = w[k]) /\ v[c + 1] = x
    BY <1>4 DEF Turned
  <2>2. SumOf(v, c + 1) = SumOf(w, c) + x
    BY <2>1, SumGrows
  <2> DEFINE q == Squares(w, c)
             r == Squares(v, c + 1)
             y == x * x
  <2>3. (\A k \in 1 .. c : r[k] = q[k]) /\ r[c + 1] = y
    BY <2>1 DEF Squares
  <2> HIDE DEF q, r, y
  <2>4. Ints(q, c) /\ y \in Int
    BY <1>1, <1>3 DEF q, y
  <2>5. SumOf(r, c + 1) = SumOf(q, c) + y
    BY <2>3, <2>4, SumGrows
  <2> QED BY <2>2, <2>5 DEF SquareSum, q, r, y
<1>5. ASSUME c = p
      PROVE  /\ w[1] \in Int /\ SumOf(v, p) = (SumOf(w, p) - w[1]) + x
             /\ SquareSum(v, p) = (SquareSum(w, p) - w[1] * w[1]) + x * x
  <2>1. (\A k \in 1 .. p - 1 : v[k] = w[k + 1]) /\ v[p] = x
    BY <1>5 DEF Turned
  <2>2. SumOf(v, p) = (SumOf(w, p) - w[1]) + x /\ w[1] \in Int
    BY <1>5, <2>1, SumSlides
  <2> DEFINE q == Squares(w, p)
             r == Squares(v, p)
             y == x * x
  <2>3. (\A k \in 1 .. p - 1 : r[k] = q[k + 1]) /\ r[p] = y /\ q[1] = w[1] * w[1]
    BY <2>1 DEF Squares
  <2> HIDE DEF q, r, y
  <2>4. Ints(q, p) /\ y \in Int
    BY <1>1, <1>3, <1>5 DEF q, y
  <2>5. SumOf(r, p) = (SumOf(q, p) - q[1]) + y
    BY <2>3, <2>4, SumSlides
  <2> QED BY <2>2, <2>3, <2>5 DEF SquareSum, q, r, y
<1> QED BY <1>1, <1>2, <1>4, <1>5

-----------------------------------------------------------------------------
(* The stream and the states *)

\* What is known of the samples: the last cl of them are numbers, and all of
\* them unless a NaN was seen.
StreamOf(p, w, c, nan, cl) ==
  /\ nan \in BOOLEAN /\ cl \in 0 .. 2 * p /\ (cl <= c \/ c = p)
  /\ \A k \in 1 .. c : w[k] \in Int \cup {NaN}
  /\ \A k \in 1 .. c : ~nan \/ k + cl > c => w[k] # NaN

CleanAfter(p, cl, x) == IF x = NaN THEN 0 ELSE IF cl = 2 * p THEN cl ELSE cl + 1

\* There is no NaN in a window that is clean, or before the first one.
LEMMA CleanWindow ==
  ASSUME NEW p \in Nat \ {0}, NEW c \in 0 .. p, NEW w, NEW nan, NEW cl,
         StreamOf(p, w, c, nan, cl), ~nan \/ cl >= p
  PROVE  Ints(w, c)
<1> SUFFICES ASSUME NEW k \in 1 .. c PROVE w[k] \in Int
  BY DEF Ints
<1>1. cl \in Nat /\ w[k] \in Int \cup {NaN} /\ (~nan \/ k + cl > c => w[k] # NaN)
  BY DEF StreamOf
<1>2. ~nan \/ k + cl > c
  BY <1>1
<1> QED BY <1>1, <1>2

\* What is known of the samples stays known.
LEMMA StreamTurns ==
  ASSUME NEW p \in Nat \ {0}, NEW c \in 0 .. p, NEW w, NEW nan, NEW cl,
         StreamOf(p, w, c, nan, cl), NEW x \in Int \cup {NaN}, NEW v, Turned(w, v, c, p, x)
  PROVE  StreamOf(p, v, Grown(c, p), nan \/ x = NaN, CleanAfter(p, cl, x))
<1> DEFINE d == Grown(c, p)
           m == CleanAfter(p, cl, x)
           z == nan \/ x = NaN
<1>1. /\ nan \in BOOLEAN /\ cl \in 0 .. 2 * p /\ (cl <= c \/ c = p)
      /\ \A k \in 1 .. c : w[k] \in Int \cup {NaN} /\ (~nan \/ k + cl > c => w[k] # NaN)
  BY DEF StreamOf
<1>2. m \in 0 .. 2 * p /\ (x = NaN => m = 0) /\ m <= cl + 1
  BY <1>1 DEF CleanAfter
<1>3. z \in BOOLEAN /\ (~z => ~nan /\ x # NaN)
  BY <1>1
<1>4. ASSUME NEW k \in 1 .. d
      PROVE  v[k] \in Int \cup {NaN} /\ (~z \/ k + m > d => v[k] # NaN)
  <2>1. CASE k = d
    <3>1. v[k] = x
      BY <2>1 DEF Turned, Grown
    <3>2. k + m > d => x # NaN
      BY <1>2, <2>1
    <3> QED BY <1>3, <3>1, <3>2
  <2>2. CASE k # d /\ c = p
    <3>1. k + 1 \in 1 .. c /\ k \in 1 .. p - 1 /\ d = p
      BY <2>2 DEF Grown
    <3>2. v[k] = w[k + 1]
      BY <2>2, <3>1 DEF Turned
    <3>3. ~z \/ k + m > d => ~nan \/ (k + 1) + cl > c
      BY <1>1, <1>2, <1>3, <2>2, <3>1
    <3> QED BY <1>1, <3>1, <3>2, <3>3
  <2>3. CASE k # d /\ c # p
    <3>1. k \in 1 .. c /\ d = c + 1
      BY <2>3 DEF Grown
    <3>2. v[k] = w[k]
      BY <2>3, <3>1 DEF Turned
    <3>3. ~z \/ k + m > d => ~nan \/ k + cl > c
      BY <1>1, <1>2, <1>3, <3>1
    <3> QED BY <1>1, <3>1, <3>2, <3>3
  <2> QED BY <2>1, <2>2, <2>3
<1>5. m <= d \/ d = p
  BY <1>1, <1>2 DEF Grown
<1> HIDE DEF d, m, z
<1>6. StreamOf(p, v, d, z, m)
  BY <1>2, <1>3, <1>4, <1>5 DEF StreamOf
<1> QED BY <1>6 DEF d, m, z

\* A running sum: NaN once a sample was.
SumTo(w, c, nan) == IF nan THEN NaN ELSE SumOf(w, c)

\* mean and m2 are those of the window.
Right(st, w, c) == st.mean = SumOf(w, c) /\ st.m2 = M2Of(w, c)

\* A RingStatsState of the window w of c samples.  After a NaN, mean and m2 are
\* wrong until a refresh finds it gone, at most p slides after it left.
StatsOf(st, p, w, c, nan, cl) ==
  /\ DOMAIN st = {"cap", "buf", "head", "count", "sum", "mean", "m2", "slides"}
  /\ st.cap = p /\ st.count = c /\ Kept(st.buf, st.head, p, c, w)
  /\ st.sum = SumTo(w, c, nan)
  /\ st.slides \in 0 .. p /\ (p > 1 => st.slides < p)
  /\ ~nan => Right(st, w, c)
  /\ p > 1 /\ cl >= p => Right(st, w, c) \/ cl - p <= st.slides

\* A lowered state of it.
LoweredOf(st, p, w, c, nan) ==
  /\ DOMAIN st = {"buf", "head", "count", "sum", "sumsq"}
  /\ st.count = c /\ Kept(st.buf, st.head, p, c, w)
  /\ st.sum = SumTo(w, c, nan)

\* A running sum gives up the sample that leaves and takes on the new one, in
\* either order.
LEMMA SumToTurns ==
  ASSUME NEW p \in Nat \ {0}, NEW c \in 0 .. p, NEW w, NEW nan, NEW cl,
         StreamOf(p, w, c, nan, cl), NEW x \in Int \cup {NaN}, NEW v, Turned(w, v, c, p, x)
  PROVE  LET z == nan \/ x = NaN
             old == SumTo(w, c, nan)
         IN  /\ c # p => /\ SumTo(v, c + 1, z) = Add(old, x)
                         /\ SumTo(v, c + 1, z) = Sub(Add(old, x), 0)
             /\ c = p => /\ SumTo(v, p, z) = Add(Sub(old, w[1]), x)
                         /\ SumTo(v, p, z) = Sub(Add(old, x), w[1])
<1>1. nan \in BOOLEAN
  BY DEF StreamOf
<1>2. CASE nan \/ x = NaN
  BY <1>2 DEF SumTo, Add, Sub
<1>3. CASE ~nan /\ x # NaN
  <2>1. Ints(w, c) /\ x \in Int
    BY <1>3, CleanWindow
  <2>2. /\ SumOf(w, c) \in Int
        /\ c # p => SumOf(v, c + 1) = SumOf(w, c) + x
        /\ c = p => w[1] \in Int /\ SumOf(v, p) = (SumOf(w, p) - w[1]) + x
    BY <2>1, SumsTurn
  <2> DEFINE S == SumOf(w, c)
             y == IF c = p THEN w[1] ELSE 0
  <2>3. S \in Int /\ y \in Int
    BY <2>2
  <2>4. SumTo(w, c, nan) = S
    BY <1>3 DEF SumTo
  <2> HIDE DEF S, y
  <2>5. /\ Add(S, x) = S + x /\ Sub(S, y) = S - y /\ Add(S - y, x) = (S - y) + x
        /\ Sub(S + x, y) = (S + x) - y /\ (S + x) - y = (S - y) + x /\ (S + x) - 0 = S + x
        /\ Sub(S + x, 0) = S + x
    BY <2>1, <2>3, NaNAssumption DEF Add, Sub
  <2>6. CASE c # p
    <3>1. SumTo(v, c + 1, nan \/ x = NaN) = S + x
      BY <1>3, <2>2, <2>6 DEF SumTo, S
    <3> QED BY <2>4, <2>5, <2>6, <3>1
  <2>7. CASE c = p
    <3>1. SumTo(v, p, nan \/ x = NaN) = (S - y) + x /\ y = w[1]
      BY <1>3, <2>2, <2>7 DEF SumTo, S, y
    <3> QED BY <2>4, <2>5, <2>7, <3>1
  <2> QED BY <2>6, <2>7
<1> QED BY <1>1, <1>2, <1>3

SquareTo(w, c, nan) == IF nan THEN NaN ELSE SquareSum(w, c)

\* The sum of the squares gives up one and takes on one, like the sum.
LEMMA SquareToTurns ==
  ASSUME NEW p \in Nat \ {0}, NEW c \in 0 .. p, NEW w, NEW nan, NEW cl,
         StreamOf(p, w, c, nan, cl), NEW x \in Int \cup {NaN}, NEW v, Turned(w, v, c, p, x)
  PROVE  LET z == nan \/ x = NaN
             old == SquareTo(w, c, nan)
         IN  /\ c # p => SquareTo(v, c + 1, z) = Sub(Add(old, Sq(x)), Sq(0))
             /\ c = p => SquareTo(v, p, z) = Sub(Add(old, Sq(x)), Sq(w[1]))
<1>1. nan \in BOOLEAN
  BY DEF StreamOf
<1>2. CASE nan \/ x = NaN
  BY <1>2 DEF SquareTo, Add, Sub, Sq, Mul
<1>3. CASE ~nan /\ x # NaN
  <2>1. Ints(w, c) /\ x \in Int
    BY <1>3, CleanWindow
  <2>2. /\ SquareSum(w, c) \in Int
        /\ c # p => SquareSum(v, c + 1) = SquareSum(w, c) + x * x
        /\ c = p => w[1] \in Int /\ SquareSum(v, p) = (SquareSum(w, p) - w[1] * w[1]) + x * x
    BY <2>1, SumsTurn
  <2> DEFINE Q == SquareSum(w, c)
             y == IF c = p THEN w[1] ELSE 0
             xx == x * x
             yy == y * y
  <2>3. Q \in Int /\ y \in Int
    BY <2>2
  <2>4. SquareTo(w, c, nan) = Q
    BY <1>3 DEF SquareTo
  <2> HIDE DEF Q, y
  <2>5. xx \in Int /\ yy \in Int /\ Sq(x) = xx /\ Sq(y) = yy
    BY <2>1, <2>3, NaNAssumption DEF Sq, Mul
  <2> HIDE DEF xx, yy
  <2>6. /\ Add(Q, xx) = Q + xx /\ Sub(Q + xx, yy) = (Q + xx) - yy
        /\ (Q + xx) - yy = (Q - yy) + xx
    BY <2>3, <2>5, NaNAssumption DEF Add, Sub
  <2>7. CASE c # p
    <3>1. SquareTo(v, c + 1, nan \/ x = NaN) = Q + xx /\ y = 0
      BY <1>3, <2>2, <2>7 DEF SquareTo, Q, xx, y
    <3>2. yy = 0 /\ (Q + xx) - 0 = Q + xx
      BY <2>3, <2>5, <3>1 DEF yy
    <3> QED BY <2>4, <2>5, <2>6, <2>7, <3>1, <3>2
  <2>8. CASE c = p
    <3>1. SquareTo(v, p, nan \/ x = NaN) = (Q - yy) + xx /\ y = w[1]
      BY <1>3, <2>2, <2>8 DEF SquareTo, Q, y, xx, yy
    <3> QED BY <2>4, <2>5, <2>6, <2>8, <3>1
  <2> QED BY <2>7, <2>8
<1> QED BY <1>1, <1>2, <1>3

\* The lowered states turn with the window; the specialised code, which does
\* not count, on a full one.
LEMMA LoweredTurns ==
  ASSUME NEW p \in Nat \ {0}, NEW c \in 0 .. p, NEW w, NEW nan, NEW cl,
         StreamOf(p, w, c, nan, cl), NEW x \in Int \cup {NaN}, NEW v, Turned(w, v, c, p, x),
         NEW st, LoweredOf(st, p, w, c, nan)
  PROVE  LET z == nan \/ x = NaN
             std == LoweredRollingStd(st, p, x)
         IN  /\ LoweredOf(LoweredSma(st, p, x), p, v, Grown(c, p), z)
             /\ c = p => LoweredOf(LoweredSmaWarm(st, p, x), p, v, Grown(c, p), z)
             /\ LoweredOf(std, p, v, Grown(c, p), z)
             /\ st.sumsq = SquareTo(w, c, nan) => std.sumsq = SquareTo(v, Grown(c, p), z)
<1> DEFINE z == nan \/ x = NaN
           d == Grown(c, p)
           old == IF c = p THEN st.buf[st.head] ELSE 0
           buf == [st.buf EXCEPT ![st.head] = x]
           head == (st.head + 1) % p
           Next1(r) == /\ DOMAIN r = DOMAIN st /\ r.buf = buf /\ r.head = head
                       /\ r.count = d /\ r.sum = Sub(Add(st.sum, x), old)
<1>1. /\ DOMAIN st = {"buf", "head", "count", "sum", "sumsq"}
      /\ st.count = c /\ Kept(st.buf, st.head, p, c, w) /\ st.sum = SumTo(w, c, nan)
  BY DEF LoweredOf
<1>2. Kept(buf, head, p, d, v) /\ (c = p => st.buf[st.head] = w[1])
  BY <1>1, KeptTurns
<1>3. Sub(Add(st.sum, x), old) = SumTo(v, d, z)
  BY <1>1, <1>2, SumToTurns DEF Grown
<1>4. Next1(LoweredSma(st, p, x)) /\ Next1(LoweredRollingStd(st, p, x))
  BY <1>1 DEF LoweredSma, LoweredRollingStd, Grown
<1>5. c = p => Next1(LoweredSmaWarm(st, p, x))
  BY <1>1 DEF LoweredSmaWarm, Grown
<1>6. LoweredRollingStd(st, p, x).sumsq = Sub(Add(st.sumsq, Sq(x)), Sq(old))
  BY <1>1 DEF LoweredRollingStd
<1>7. ASSUME NEW r, Next1(r) PROVE LoweredOf(r, p, v, d, z)
  BY <1>1, <1>2, <1>3, <1>7 DEF LoweredOf
<1>8. st.sumsq = SquareTo(w, c, nan)
        => LoweredRollingStd(st, p, x).sumsq = SquareTo(v, d, z)
  BY <1>2, <1>6, SquareToTurns DEF Grown
<1> HIDE DEF Next1
<1> QED BY <1>4, <1>5, <1>7, <1>8

-----------------------------------------------------------------------------
(* RingStatsPush *)

\* A push that finds room, and one that slides, before the refresh.
GrownTo(st, x) ==
  [OnAdd(st.count, st, x) EXCEPT !.count = @ + 1, !.buf[st.head] = x,
     !.sum = Add(@, x), !.head = (@ + 1) % st.cap]
SlidTo(st, x) ==
  LET old == st.buf[st.head]
      upd == OnSlide([st EXCEPT !.sum = Sub(@, old)], old, x)
  IN  CountSlide([upd EXCEPT !.buf[st.head] = x, !.sum = Add(@, x),
                                   !.head = (@ + 1) % st.cap])

StatsFields == {"cap", "buf", "head", "count", "sum", "mean", "m2", "slides"}

\* RingStatsPushPrepared is one or the other.
LEMMA PushIs ==
  ASSUME NEW st, DOMAIN st = StatsFields, NEW x
  PROVE  RingStatsPushPrepared(st, x) =
           IF st.count = st.cap THEN RefreshIfDue(SlidTo(st, x)) ELSE GrownTo(st, x)
<1>1. CASE st.count = st.cap
  BY <1>1, Zenon DEF RingStatsPushPrepared, SlidTo
<1>2. CASE st.count # st.cap
  <2>1. DOMAIN OnAdd(st.count, st, x) = StatsFields
    BY DEF OnAdd
  <2>2. RingStatsPushPrepared(st, x) =
          [[OnAdd(st.count, st, x) EXCEPT !.count = @ + 1] EXCEPT
             !.buf[st.head] = x, !.sum = Add(@, x), !.head = (@ + 1) % st.cap]
    BY <1>2, Zenon DEF RingStatsPushPrepared
  <2> QED BY <1>2, <2>1, <2>2 DEF GrownTo
<1> QED BY <1>1, <1>2

\* What a push that finds room leaves in each field.
LEMMA GrownFields ==
  ASSUME NEW st, DOMAIN st = StatsFields, NEW x, NEW r, r = GrownTo(st, x)
  PROVE  /\ DOMAIN r = StatsFields /\ r.cap = st.cap /\ r.count = st.count + 1
         /\ r.buf = [st.buf EXCEPT ![st.head] = x] /\ r.head = (st.head + 1) % st.cap
         /\ r.sum = Add(st.sum, x) /\ r.slides = st.slides
         /\ r.mean = Add(st.mean, x) /\ r.m2 = M2Add(st.count, st.mean, st.m2, x)
<1> DEFINE a == OnAdd(st.count, st, x)
<1>1. /\ DOMAIN a = StatsFields /\ a.cap = st.cap /\ a.count = st.count /\ a.buf = st.buf
      /\ a.head = st.head /\ a.sum = st.sum /\ a.slides = st.slides
      /\ a.mean = Add(st.mean, x) /\ a.m2 = M2Add(st.count, st.mean, st.m2, x)
  BY DEF OnAdd, M2Add, StatsFields
<1>2. r = [a EXCEPT !.count = @ + 1, !.buf[st.head] = x,
                    !.sum = Add(@, x), !.head = (@ + 1) % st.cap]
  BY DEF GrownTo
<1> HIDE DEF a
<1> QED BY <1>1, <1>2 DEF StatsFields

\* What a push that slides leaves in each field before the refresh.
LEMMA SlidFields ==
  ASSUME NEW st, DOMAIN st = StatsFields, NEW x, NEW r, r = SlidTo(st, x)
  PROVE  LET old == st.buf[st.head]
         IN  /\ DOMAIN r = StatsFields /\ r.cap = st.cap /\ r.count = st.count
             /\ r.buf = [st.buf EXCEPT ![st.head] = x] /\ r.head = (st.head + 1) % st.cap
             /\ r.sum = Add(Sub(st.sum, old), x)
             /\ r.slides = IF st.slides < st.cap THEN st.slides + 1 ELSE st.slides
             /\ st.cap <= 1 => r.mean = x /\ r.m2 = 0
             /\ ~(st.cap <= 1) =>
                  /\ r.mean = Add(Sub(st.mean, old), x)
                  /\ r.m2 = ClampNegative(M2Add(st.count - 1, Sub(st.mean, old),
                                                 M2Remove(st.count, st.mean, st.m2, old), x))
<1> DEFINE old == st.buf[st.head]
           s1 == [st EXCEPT !.sum = Sub(@, old)]
           o == OnRemove(s1.count, s1, old)
           a == OnAdd(s1.count - 1, o, x)
           u == OnSlide(s1, old, x)
<1>1. /\ DOMAIN s1 = StatsFields /\ s1.cap = st.cap /\ s1.count = st.count /\ s1.buf = st.buf
      /\ s1.head = st.head /\ s1.sum = Sub(st.sum, old) /\ s1.slides = st.slides
      /\ s1.mean = st.mean /\ s1.m2 = st.m2
  BY DEF StatsFields
<1> HIDE DEF old, s1
<1>2. /\ DOMAIN o = StatsFields /\ o.cap = st.cap /\ o.count = st.count /\ o.buf = st.buf
      /\ o.head = st.head /\ o.sum = Sub(st.sum, old) /\ o.slides = st.slides
      /\ o.mean = Sub(st.mean, old) /\ o.m2 = M2Remove(st.count, st.mean, st.m2, old)
  BY <1>1 DEF OnRemove, M2Remove, StatsFields
<1> HIDE DEF o
<1>3. /\ DOMAIN a = StatsFields /\ a.cap = st.cap /\ a.count = st.count /\ a.buf = st.buf
      /\ a.head = st.head /\ a.sum = Sub(st.sum, old) /\ a.slides = st.slides
      /\ a.mean = Add(o.mean, x) /\ a.m2 = M2Add(st.count - 1, o.mean, o.m2, x)
  BY <1>1, <1>2 DEF OnAdd, M2Add, StatsFields
<1>4. u = IF s1.cap <= 1 THEN [s1 EXCEPT !.mean = x, !.m2 = 0]
          ELSE [a EXCEPT !.m2 = ClampNegative(a.m2)]
  BY DEF OnSlide, o
<1> HIDE DEF a
<1>5. /\ DOMAIN u = StatsFields /\ u.cap = st.cap /\ u.count = st.count /\ u.buf = st.buf
      /\ u.head = st.head /\ u.sum = Sub(st.sum, old) /\ u.slides = st.slides
      /\ st.cap <= 1 => u.mean = x /\ u.m2 = 0
      /\ ~(st.cap <= 1) => u.mean = a.mean /\ u.m2 = ClampNegative(a.m2)
  <2>1. CASE st.cap <= 1
    BY <1>1, <1>4, <2>1 DEF StatsFields
  <2>2. CASE ~(st.cap <= 1)
    BY <1>1, <1>3, <1>4, <2>2 DEF StatsFields
  <2> QED BY <2>1, <2>2
<1> DEFINE n == [u EXCEPT !.buf[st.head] = x, !.sum = Add(@, x),
                          !.head = (@ + 1) % st.cap]
<1>6. r = CountSlide(n)
  BY DEF SlidTo, u, s1, old
<1> HIDE DEF u
<1>7. /\ DOMAIN n = StatsFields /\ n.cap = st.cap /\ n.count = st.count
      /\ n.buf = [st.buf EXCEPT ![st.head] = x]
      /\ n.head = (st.head + 1) % st.cap /\ n.sum = Add(Sub(st.sum, old), x)
      /\ n.slides = st.slides /\ n.mean = u.mean /\ n.m2 = u.m2
  BY <1>5 DEF StatsFields
<1> HIDE DEF n
<1>8. /\ DOMAIN r = StatsFields /\ r.cap = n.cap /\ r.count = n.count /\ r.buf = n.buf
      /\ r.head = n.head /\ r.sum = n.sum /\ r.mean = n.mean /\ r.m2 = n.m2
      /\ r.slides = IF n.slides < n.cap THEN n.slides + 1 ELSE n.slides
  BY <1>6, <1>7 DEF CountSlide, RefreshInterval, StatsFields
<1>9. ~(st.cap <= 1) =>
        /\ r.mean = Add(Sub(st.mean, old), x)
        /\ r.m2 = ClampNegative(M2Add(st.count - 1, Sub(st.mean, old),
                                       M2Remove(st.count, st.mean, st.m2, old), x))
  BY <1>2, <1>3, <1>5, <1>7, <1>8, Zenon
<1>10. st.cap <= 1 => r.mean = x /\ r.m2 = 0
  BY <1>5, <1>7, <1>8, Zenon
<1>11. r.slides = IF st.slides < st.cap THEN st.slides + 1 ELSE st.slides
  BY <1>7, <1>8, Zenon
<1> QED BY <1>7, <1>8, <1>9, <1>10, <1>11, Zenon DEF old

\* What a refresh leaves in each field.
LEMMA RefreshedFields ==
  ASSUME NEW st, DOMAIN st = StatsFields, NEW r, r = RefreshFromBuffer(st)
  PROVE  /\ DOMAIN r = StatsFields /\ r.cap = st.cap /\ r.count = st.count /\ r.buf = st.buf
         /\ r.head = st.head /\ r.sum = st.sum /\ r.slides = 0
         /\ r.mean = SumOf(Contents(st), st.count)
         /\ r.m2 = TwoPass(Contents(st), st.count)
BY DEF RefreshFromBuffer, StatsFields

\* The sums over a full buffer, in the order of its places, are those of the
\* window, also when there is a NaN in it.
LEMMA BufferSums ==
  ASSUME NEW p \in Nat \ {0}, NEW st, st.cap = p, NEW w, Kept(st.buf, st.head, p, p, w),
         \A k \in 1 .. p : w[k] \in Int \cup {NaN}
  PROVE  /\ SumOf(Contents(st), p) = SumOf(w, p)
         /\ Ints(w, p) => TwoPass(Contents(st), p) = M2Of(w, p)
<1> DEFINE s == Contents(st)
           h == st.head
           q == Squares(s, p)
<1>1. \A k \in 1 .. p : s[k] = st.buf[k - 1]
  BY DEF Contents
<1> HIDE DEF s, h
<1>2. /\ h \in 0 .. p /\ \A k \in 1 .. p : w[k] = Rotated(s, p, h)[k]
      /\ \A k \in 1 .. p : \E j \in 1 .. p : w[j] = s[k]
  BY <1>1, KeptRotated DEF h
<1>3. ASSUME NEW k \in 1 .. p PROVE \E j \in 1 .. p : s[j] = w[k]
  <2>1. w[k] = IF h + k <= p THEN s[h + k] ELSE s[h + k - p]
    BY <1>2 DEF Rotated
  <2>2. CASE h + k <= p
    <3>1. h + k \in 1 .. p
      BY <1>2, <2>2
    <3> QED BY <2>1, <2>2, <3>1
  <2>3. CASE ~(h + k <= p)
    <3>1. h + k - p \in 1 .. p
      BY <1>2, <2>3
    <3> QED BY <2>1, <2>3, <3>1
  <2> QED BY <2>2, <2>3
<1>4. CASE Ints(w, p)
  <2>1. Ints(s, p)
    BY <1>2, <1>4 DEF Ints
  <2>2. SumOf(Rotated(s, p, h), p) = SumOf(w, p)
    BY <1>2, SumSame
  <2>3. SumOf(s, p) = SumOf(w, p)
    BY <1>2, <2>1, <2>2, SumRotates
  <2>4. Ints(q, p)
    BY <2>1, SquareInts
  <2>5. ASSUME NEW k \in 1 .. p PROVE Rotated(q, p, h)[k] = Squares(w, p)[k]
    <3>1. w[k] = IF h + k <= p THEN s[h + k] ELSE s[h + k - p]
      BY <1>2 DEF Rotated
    <3>2. Rotated(q, p, h)[k] = IF h + k <= p THEN q[h + k] ELSE q[h + k - p]
      BY DEF Rotated
    <3>3. Squares(w, p)[k] = w[k] * w[k]
      BY DEF Squares
    <3>4. \A j \in 1 .. p : q[j] = s[j] * s[j]
      BY DEF Squares
    <3> HIDE DEF q
    <3>5. CASE h + k <= p
      <4>1. h + k \in 1 .. p
        BY <1>2, <3>5
      <4> QED BY <3>1, <3>2, <3>3, <3>4, <3>5, <4>1
    <3>6. CASE ~(h + k <= p)
      <4>1. h + k - p \in 1 .. p
        BY <1>2, <3>6
      <4> QED BY <3>1, <3>2, <3>3, <3>4, <3>6, <4>1
    <3> QED BY <3>5, <3>6
  <2> HIDE DEF q
  <2>6. SumOf(Rotated(q, p, h), p) = SumOf(Squares(w, p), p)
    BY <2>5, SumSame
  <2>7. SumOf(q, p) = SquareSum(w, p)
    BY <1>2, <2>4, <2>6, SumRotates DEF SquareSum
  <2>8. TwoPass(s, p) = M2Of(s, p)
    BY <2>1, TwoPassIsM2
  <2>9. M2Of(s, p) = M2Of(w, p)
    BY <2>3, <2>7 DEF M2Of, SquareSum, q
  <2> QED BY <2>3, <2>8, <2>9 DEF s
<1>5. CASE ~Ints(w, p)
  <2>1. PICK k \in 1 .. p : w[k] = NaN
    BY <1>5 DEF Ints
  <2>2. PICK j \in 1 .. p : s[j] = NaN
    BY <1>3, <2>1
  <2>3. SumOf(s, p) = NaN /\ SumOf(w, p) = NaN
    BY <2>1, <2>2, SumNaN
  <2> QED BY <1>5, <2>3 DEF s
<1> QED BY <1>4, <1>5

\* A sample that joins keeps mean and m2 right.
LEMMA GrowKeepsRight ==
  ASSUME NEW p \in Nat \ {0}, NEW c \in 0 .. p, c # p, NEW w, Ints(w, c), NEW x \in Int,
         NEW v, Turned(w, v, c, p, x), NEW st, st.count = c, Right(st, w, c), NEW r,
         r.mean = Add(st.mean, x), r.m2 = M2Add(st.count, st.mean, st.m2, x)
  PROVE  Right(r, v, c + 1)
<1> DEFINE S == SumOf(w, c)
           Q == SquareSum(w, c)
<1>1. /\ S \in Int /\ Q \in Int /\ (c = 0 => S = 0 /\ Q = 0)
      /\ SumOf(v, c + 1) = S + x /\ SquareSum(v, c + 1) = Q + x * x
  BY SumsTurn
<1>2. st.mean = S /\ M2Is(st.m2, c, S, Q) /\ c \in Nat
  BY DEF Right, M2Of, M2Is
<1>3. M2Of(v, c + 1) = (c + 1) * SquareSum(v, c + 1) - SumOf(v, c + 1) * SumOf(v, c + 1)
  BY DEF M2Of
<1> HIDE DEF S, Q
<1>4. M2Is(r.m2, c + 1, S + x, Q + x * x)
  BY <1>1, <1>2, M2Adds
<1>5. r.m2 = M2Of(v, c + 1)
  BY <1>1, <1>3, <1>4, Zenon DEF M2Is
<1>6. r.mean = S + x
  BY <1>1, <1>2, NaNAssumption DEF Add
<1> QED BY <1>1, <1>5, <1>6 DEF Right

\* ... and so does a slide: what the oldest sample contributed leaves first.
LEMMA SlideKeepsRight ==
  ASSUME NEW p \in Nat \ {0}, NEW w, Ints(w, p), NEW x \in Int,
         NEW v, Turned(w, v, p, p, x), NEW st, st.count = p, Right(st, w, p), NEW r,
         p <= 1 => r.mean = x /\ r.m2 = 0,
         ~(p <= 1) =>
            /\ r.mean = Add(Sub(st.mean, w[1]), x)
            /\ r.m2 = ClampNegative(M2Add(st.count - 1, Sub(st.mean, w[1]),
                                           M2Remove(st.count, st.mean, st.m2, w[1]), x))
  PROVE  Right(r, v, p)
<1> DEFINE S == SumOf(w, p)
           Q == SquareSum(w, p)
           y == w[1]
<1>1. /\ S \in Int /\ Q \in Int /\ y \in Int
      /\ SumOf(v, p) = (S - y) + x /\ SquareSum(v, p) = (Q - y * y) + x * x
  <2>1. p \in 0 .. p
    OBVIOUS
  <2> QED BY <2>1, SumsTurn
<1>2. st.mean = S /\ M2Is(st.m2, p, S, Q)
  BY DEF Right, M2Of, M2Is
<1>3. M2Of(v, p) = p * SquareSum(v, p) - SumOf(v, p) * SumOf(v, p)
  BY DEF M2Of
<1>4. M2Of(v, p) >= 0 /\ M2Of(v, p) \in Int
  <2>1. Ints(v, p)
    <3> SUFFICES ASSUME NEW k \in 1 .. p PROVE v[k] \in Int
      BY DEF Ints
    <3>1. CASE k = p
      BY <3>1 DEF Turned
    <3>2. CASE k # p
      <4>1. k \in 1 .. p - 1 /\ k + 1 \in 1 .. p
        BY <3>2
      <4> QED BY <4>1 DEF Turned, Ints
    <3> QED BY <3>1, <3>2
  <2> QED BY <2>1, TwoPassIsM2
<1>5. CASE p <= 1
  <2>1. p = 1
    BY <1>5
  <2>2. S = y /\ Q = y * y
    <3>0. 0 \in 0 .. 1 - 1 /\ 0 + 1 = 1 /\ 1 \in Nat
      OBVIOUS
    <3>1. S = SumOf(w, 0) + w[1] /\ SumOf(w, 0) = 0
      <4>1. SumOf(w, 0 + 1) = SumOf(w, 0) + w[0 + 1]
        BY <2>1, <3>0, SumInts
      <4> QED BY <2>1, <3>0, <4>1, SumSteps
    <3>2. Ints(Squares(w, 1), 1) /\ Squares(w, 1)[1] = y * y
      <4>1. Ints(w, 1) /\ 1 \in 1 .. 1
        BY <2>1
      <4> QED BY <3>0, <4>1, SquareInts DEF Squares
    <3> DEFINE q == Squares(w, 1)
    <3> HIDE DEF q
    <3>3. Q = SumOf(q, 0) + q[1] /\ SumOf(q, 0) = 0
      <4>1. SumOf(q, 0 + 1) = SumOf(q, 0) + q[0 + 1]
        BY <3>0, <3>2, SumInts DEF q
      <4> QED BY <2>1, <3>0, <4>1, SumSteps DEF SquareSum, q
    <3>4. q[1] = y * y
      BY <3>2 DEF q
    <3> QED BY <1>1, <3>1, <3>3, <3>4
  <2>3. SumOf(v, p) = x /\ SquareSum(v, p) = x * x
    BY <1>1, <2>2
  <2>4. M2Of(v, p) = 0
    BY <1>3, <2>1, <2>3
  <2> QED BY <1>5, <2>3, <2>4 DEF Right
<1>6. CASE ~(p <= 1)
  <2> DEFINE n == p - 1
             T == S - y
             R == Q - y * y
  <2>1. n \in Nat /\ n # 0 /\ T \in Int /\ R \in Int /\ p > 0 /\ p \in Nat /\ n + 1 = p
    BY <1>1, <1>6
  <2>2. Sub(st.mean, y) = T
    BY <1>1, <1>2, NaNAssumption DEF Sub
  <2> HIDE DEF S, Q, y
  <2> DEFINE k == M2Remove(p, S, st.m2, y)
  <2>3. M2Is(k, n, T, R)
    BY <1>1, <1>2, M2Removes
  <2> HIDE DEF n, T, R, k
  <2>4. M2Is(M2Add(n, T, k, x), n + 1, T + x, R + x * x)
    BY <2>1, <2>3, M2Adds
  <2>5. M2Of(v, p) = p * (R + x * x) - (T + x) * (T + x)
    BY <1>1, <1>3, Zenon DEF T, R
  <2>6. M2Add(n, T, k, x) = M2Of(v, p)
    BY <2>1, <2>4, <2>5, Zenon DEF M2Is
  <2>7. r.m2 = ClampNegative(M2Of(v, p))
    BY <1>2, <1>6, <2>2, <2>6, Zenon DEF n, k, y
  <2>8. r.m2 = M2Of(v, p)
    BY <1>4, <2>7 DEF ClampNegative
  <2>9. r.mean = T + x
    BY <1>6, <2>1, <2>2, NaNAssumption DEF Add, y
  <2> QED BY <1>1, <2>8, <2>9 DEF Right, T
<1> QED BY <1>5, <1>6

\* RingStatsPush: the state of the window turns with it.
LEMMA StatsTurns ==
  ASSUME NEW p \in Nat \ {0}, NEW c \in 0 .. p, NEW w, NEW nan, NEW cl,
         StreamOf(p, w, c, nan, cl), NEW x \in Int \cup {NaN}, NEW v, Turned(w, v, c, p, x),
         NEW st, StatsOf(st, p, w, c, nan, cl)
  PROVE  StatsOf(RingStatsPushPrepared(st, x), p, v, Grown(c, p),
                 nan \/ x = NaN, CleanAfter(p, cl, x))
<1> DEFINE z == nan \/ x = NaN
           m == CleanAfter(p, cl, x)
           d == Grown(c, p)
           r == RingStatsPushPrepared(st, x)
           g == GrownTo(st, x)
           s == SlidTo(st, x)
           f == RefreshFromBuffer(s)
<1>1. /\ DOMAIN st = StatsFields
      /\ st.cap = p /\ st.count = c /\ Kept(st.buf, st.head, p, c, w)
      /\ st.sum = SumTo(w, c, nan)
      /\ st.slides \in 0 .. p /\ (p > 1 => st.slides < p)
      /\ ~nan => Right(st, w, c)
      /\ p > 1 /\ cl >= p => Right(st, w, c) \/ cl - p <= st.slides
  BY DEF StatsOf, StatsFields
<1>2. /\ nan \in BOOLEAN /\ cl \in 0 .. 2 * p /\ (cl <= c \/ c = p)
  BY DEF StreamOf
<1>3. StreamOf(p, v, d, z, m)
  BY StreamTurns
<1>4. /\ z \in BOOLEAN /\ m \in 0 .. 2 * p
      /\ \A k \in 1 .. d : v[k] \in Int \cup {NaN}
  BY <1>3 DEF StreamOf
<1>5. /\ Kept([st.buf EXCEPT ![st.head] = x], (st.head + 1) % p, p, d, v)
      /\ c = p => st.buf[st.head] = w[1]
  BY <1>1, KeptTurns
<1>6. ~z => ~nan /\ x \in Int /\ Ints(w, c)
  <2>1. ~z => ~nan /\ x \in Int
    OBVIOUS
  <2> QED BY <2>1, CleanWindow
<1>7. ASSUME m >= p, c = p, m # p PROVE x \in Int /\ cl >= p /\ m <= cl + 1 /\ Ints(w, c)
  <2>1. x \in Int /\ cl >= p /\ m <= cl + 1
    BY <1>2, <1>7 DEF CleanAfter
  <2> QED BY <2>1, CleanWindow
<1>8. r = IF c = p THEN RefreshIfDue(s) ELSE g
  BY <1>1, PushIs
<1> HIDE DEF z, m, r, g, s, f
<1>9. CASE c # p
  <2>1. /\ DOMAIN g = StatsFields /\ g.cap = p /\ g.count = c + 1
        /\ g.buf = [st.buf EXCEPT ![st.head] = x] /\ g.head = (st.head + 1) % p
        /\ g.sum = Add(st.sum, x) /\ g.slides = st.slides
        /\ g.mean = Add(st.mean, x) /\ g.m2 = M2Add(st.count, st.mean, st.m2, x)
    BY <1>1, GrownFields DEF g
  <2>2. d = c + 1
    BY <1>9 DEF Grown
  <2>3. g.sum = SumTo(v, d, z)
    BY <1>1, <1>9, <2>1, <2>2, SumToTurns DEF z
  <2>4. ~z => Right(g, v, d)
    BY <1>1, <1>6, <1>9, <2>1, <2>2, GrowKeepsRight
  <2>5. m >= p => m - p <= g.slides
    BY <1>1, <1>2, <1>9, <2>1 DEF m, CleanAfter
  <2>6. r = g
    BY <1>8, <1>9
  <2>7. StatsOf(g, p, v, d, z, m)
    BY <1>1, <1>5, <2>1, <2>2, <2>3, <2>4, <2>5 DEF StatsOf, StatsFields
  <2> QED BY <2>6, <2>7 DEF r, z, m
<1>10. CASE c = p
  <2>1. d = p
    BY <1>10 DEF Grown
  <2> DEFINE y == st.buf[st.head]
  <2>2. /\ DOMAIN s = StatsFields /\ s.cap = p /\ s.count = p
        /\ s.buf = [st.buf EXCEPT ![st.head] = x] /\ s.head = (st.head + 1) % p
        /\ s.sum = Add(Sub(st.sum, y), x)
        /\ s.slides = IF st.slides < p THEN st.slides + 1 ELSE st.slides
        /\ p <= 1 => s.mean = x /\ s.m2 = 0
        /\ ~(p <= 1) =>
             /\ s.mean = Add(Sub(st.mean, y), x)
             /\ s.m2 = ClampNegative(M2Add(st.count - 1, Sub(st.mean, y),
                                            M2Remove(st.count, st.mean, st.m2, y), x))
    BY <1>1, <1>10, SlidFields DEF s
  <2>3. y = w[1]
    BY <1>5, <1>10
  <2> HIDE DEF y
  <2>4. s.sum = SumTo(v, p, z)
    BY <1>1, <1>10, <2>2, <2>3, SumToTurns DEF z
  <2>5. ASSUME Right(st, w, p), Ints(w, p), x \in Int PROVE Right(s, v, p)
    <3>1. Turned(w, v, p, p, x) /\ st.count = p
      BY <1>1, <1>10
    <3> QED BY <2>2, <2>3, <2>5, <3>1, SlideKeepsRight
  <2>6. ~z => Right(s, v, p)
    BY <1>1, <1>6, <1>10, <2>5
  <2>7. Kept(s.buf, s.head, p, p, v)
    BY <1>5, <2>1, <2>2
  <2>8. CASE p > 1 /\ s.slides >= p
    <3>1. r = f
      BY <1>8, <1>10, <2>2, <2>8 DEF RefreshIfDue, RefreshInterval, f
    <3>2. /\ DOMAIN f = StatsFields /\ f.cap = p /\ f.count = p /\ f.buf = s.buf
          /\ f.head = s.head /\ f.sum = s.sum /\ f.slides = 0
          /\ f.mean = SumOf(Contents(s), p)
          /\ f.m2 = TwoPass(Contents(s), p)
      BY <2>2, RefreshedFields DEF f
    <3>3. /\ SumOf(Contents(s), p) = SumOf(v, p)
          /\ Ints(v, p) => TwoPass(Contents(s), p) = M2Of(v, p)
      BY <1>4, <2>1, <2>2, <2>7, BufferSums
    <3>4. Ints(v, p) => Right(f, v, p)
      BY <3>2, <3>3 DEF Right
    <3>5. ~z \/ m >= p => Ints(v, p)
      BY <1>3, <2>1, CleanWindow
    <3>6. StatsOf(f, p, v, p, z, m)
      BY <2>4, <2>7, <2>8, <3>2, <3>4, <3>5 DEF StatsOf, StatsFields
    <3> QED BY <2>1, <3>1, <3>6 DEF r, z, m
  <2>9. CASE ~(p > 1 /\ s.slides >= p)
    <3>1. r = s
      BY <1>8, <1>10, <2>2, <2>9 DEF RefreshIfDue, RefreshInterval
    <3>2. s.slides \in 0 .. p /\ (p > 1 => s.slides < p /\ s.slides = st.slides + 1)
      BY <1>1, <2>2, <2>9
    <3>3. ASSUME p > 1, m >= p PROVE Right(s, v, p) \/ m - p <= s.slides
      <4>1. CASE m = p
        BY <3>2, <4>1
      <4>2. CASE m # p
        <5>1. x \in Int /\ cl >= p /\ m <= cl + 1 /\ Ints(w, p)
          BY <1>7, <1>10, <3>3, <4>2
        <5>2. CASE Right(st, w, p)
          BY <2>5, <5>1, <5>2
        <5>3. CASE cl - p <= st.slides
          BY <1>1, <1>2, <1>4, <3>2, <3>3, <5>1, <5>3
        <5> QED BY <1>1, <1>10, <3>3, <5>1, <5>2, <5>3
      <4> QED BY <4>1, <4>2
    <3>4. StatsOf(s, p, v, p, z, m)
      BY <2>2, <2>4, <2>6, <2>7, <3>2, <3>3 DEF StatsOf, StatsFields
    <3> QED BY <2>1, <3>1, <3>4 DEF r, z, m
  <2> QED BY <2>8, <2>9
<1> QED BY <1>9, <1>10

\* The interpreter's state does not exist before the first tick.
StatsInv ==
  LET c == Len(samples)
  IN  /\ period \in Periods /\ samples \in Seq(Samples) /\ c <= period
      /\ StreamOf(period, samples, c, tainted, clean) /\ (c = 0 => ~tainted)
      /\ warm \in BOOLEAN /\ (warm => c = period)
      /\ StatsOf(opaque, period, samples, c, tainted, clean)
      /\ IF c = 0 THEN interp = FreshStats(0)
         ELSE StatsOf(interp, period, samples, c, tainted, clean)
      /\ LoweredOf(lowSma, period, samples, c, tainted)
      /\ LoweredOf(lowStd, period, samples, c, tainted)
      /\ lowStd.sumsq = SquareTo(samples, c, tainted)

\* A fresh state is one of the empty window.
LEMMA FreshStates ==
  ASSUME NEW p \in Nat \ {0}, NEW w, NEW nan, nan = FALSE
  PROVE  /\ StreamOf(p, w, 0, nan, 0)
         /\ StatsOf(FreshStats(p), p, w, 0, nan, 0)
         /\ LoweredOf(FreshLowered(p), p, w, 0, nan)
         /\ FreshLowered(p).sumsq = SquareTo(w, 0, nan)
<1>1. StreamOf(p, w, 0, nan, 0)
  <2>1. 0 \in 0 .. 2 * p /\ 0 <= 0 /\ 1 .. 0 = {}
    OBVIOUS
  <2>2. nan \in BOOLEAN
    BY Zenon
  <2> QED BY <2>1, <2>2, Zenon DEF StreamOf
<1>2. SumOf(w, 0) = 0 /\ SquareSum(w, 0) = 0
  BY SumSteps DEF SquareSum
<1>3. M2Of(w, 0) = 0
  BY <1>2 DEF M2Of
<1> DEFINE f == FreshStats(p)
           l == FreshLowered(p)
<1>4. /\ DOMAIN f = StatsFields /\ f.cap = p /\ f.head = 0 /\ f.count = 0 /\ f.sum = 0
      /\ f.mean = 0 /\ f.m2 = 0 /\ f.slides = 0 /\ DOMAIN f.buf = 0 .. p - 1
  BY DEF FreshStats, StatsFields
<1>5. /\ DOMAIN l = {"buf", "head", "count", "sum", "sumsq"} /\ l.head = 0 /\ l.count = 0
      /\ l.sum = 0 /\ l.sumsq = 0 /\ DOMAIN l.buf = 0 .. p - 1
  BY DEF FreshLowered
<1> HIDE DEF f, l
<1>6. Kept(f.buf, f.head, p, 0, w) /\ Kept(l.buf, l.head, p, 0, w)
  BY <1>4, <1>5 DEF Kept
<1>7. StatsOf(f, p, w, 0, nan, 0)
  BY <1>2, <1>3, <1>4, <1>6 DEF StatsOf, StatsFields, Right, SumTo
<1>8. LoweredOf(l, p, w, 0, nan) /\ l.sumsq = SquareTo(w, 0, nan)
  BY <1>2, <1>5, <1>6 DEF LoweredOf, SumTo, SquareTo
<1> QED BY <1>1, <1>7, <1>8 DEF f, l

\* A tick keeps the invariant.
LEMMA StatsTickKeeps ==
  ASSUME StatsInv, NEW x \in Samples, StatsTick(x)
  PROVE  StatsInv'
<1> DEFINE p == period
           w == samples
           v == samples'
           c == Len(samples)
           d == Grown(c, p)
           nan == tainted
           cl == clean
<1>1. /\ p \in Nat \ {0} /\ w \in Seq(Samples) /\ c <= p /\ StreamOf(p, w, c, nan, cl)
      /\ warm \in BOOLEAN /\ (warm => c = p) /\ StatsOf(opaque, p, w, c, nan, cl)
      /\ LoweredOf(lowSma, p, w, c, nan) /\ LoweredOf(lowStd, p, w, c, nan)
      /\ lowStd.sumsq = SquareTo(w, c, nan) /\ period \in Periods
  BY PeriodAssumption DEF StatsInv
<1>2. x \in Int \cup {NaN}
  BY StreamAssumption
<1>3. /\ v = Append(IF c = p THEN Tail(w) ELSE w, x) /\ period' = p /\ warm' = warm
  BY DEF StatsTick
<1>3a. clean' = CleanAfter(p, cl, x) /\ tainted' = (nan \/ x = NaN)
  BY Zenon DEF StatsTick, CleanAfter
<1>4. Turned(w, v, c, p, x) /\ v \in Seq(Samples) /\ Len(v) = d /\ c \in 0 .. p
  <2>1. NextWindow(w, v, p, x) /\ Len(w) <= p /\ c = Len(w)
    BY <1>1, <1>3 DEF NextWindow
  <2> HIDE DEF p, w, v, c
  <2>2. /\ Turned(w, v, Len(w), p, x) /\ v \in Seq(Samples) /\ Len(v) = Grown(Len(w), p)
        /\ Len(w) \in 0 .. p
    BY <1>1, <2>1, WindowTurns
  <2> QED BY <2>1, <2>2
<1>5. d \in 1 .. p /\ (c = p => d = p) /\ d # 0
  BY <1>1, <1>4 DEF Grown
<1>6. StatsOf(IF interp.cap # p THEN FreshStats(p) ELSE interp, p, w, c, nan, cl)
  <2>1. CASE c = 0
    <3>1. interp.cap = 0 /\ nan = FALSE
      BY <2>1 DEF StatsInv, FreshStats, StreamOf
    <3>2. cl = 0
      BY <1>1, <2>1 DEF StreamOf
    <3>3. StatsOf(FreshStats(p), p, w, 0, nan, 0)
      BY <1>1, <3>1, FreshStates
    <3> QED BY <1>1, <2>1, <3>1, <3>2, <3>3
  <2>2. CASE c # 0
    <3>1. StatsOf(interp, p, w, c, nan, cl)
      BY <2>2 DEF StatsInv
    <3>2. interp.cap = p
      BY <3>1 DEF StatsOf
    <3> QED BY <3>1, <3>2
  <2> QED BY <2>1, <2>2
<1>7. /\ interp' = RingStatsPushPrepared(
                     IF interp.cap # p THEN FreshStats(p) ELSE interp, x)
      /\ opaque' = RingStatsPushPrepared(opaque, x)
  BY DEF StatsTick, RingStatsPush
<1>8. /\ lowSma' = IF warm THEN LoweredSmaWarm(lowSma, p, x)
                   ELSE LoweredSma(lowSma, p, x)
      /\ lowStd' = LoweredRollingStd(lowStd, p, x)
  BY DEF StatsTick
<1> HIDE DEF p, w, v, c, d, nan, cl
<1>9. StreamOf(p, v, d, tainted', clean')
  BY <1>1, <1>2, <1>3, <1>3a, <1>4, StreamTurns DEF d
<1>10. StatsOf(opaque', p, v, d, tainted', clean') /\ StatsOf(interp', p, v, d, tainted', clean')
  BY <1>1, <1>2, <1>3, <1>3a, <1>4, <1>6, <1>7, StatsTurns DEF d
<1>11. LoweredOf(lowSma', p, v, d, tainted')
  <2>1. /\ LoweredOf(LoweredSma(lowSma, p, x), p, v, d, tainted')
        /\ c = p => LoweredOf(LoweredSmaWarm(lowSma, p, x), p, v, d, tainted')
    BY <1>1, <1>2, <1>3, <1>3a, <1>4, LoweredTurns DEF d
  <2> QED BY <1>1, <1>8, <2>1
<1>12. LoweredOf(lowStd', p, v, d, tainted') /\ lowStd'.sumsq = SquareTo(v, d, tainted')
  BY <1>1, <1>2, <1>3, <1>3a, <1>4, <1>8, LoweredTurns DEF d
<1>13. d <= p /\ d # 0 /\ (warm' => d = p) /\ warm' \in BOOLEAN
  BY <1>1, <1>3, <1>5
<1>14. v = samples' /\ period' = p /\ period' \in Periods
  BY <1>1, <1>3 DEF v, p
<1> QED BY <1>4, <1>9, <1>10, <1>11, <1>12, <1>13, <1>14 DEF StatsInv

\* Every state of the window statistics is one of the last period samples, in
\* every computation: rings, running sums, and mean and m2 but for the time a
\* refresh may take after a NaN.
THEOREM StatsInvariance == StatsSpec => []StatsInv
<1>1. StatsInit => StatsInv
  <2> SUFFICES ASSUME StatsInit PROVE StatsInv
    OBVIOUS
  <2>1. /\ period \in Periods /\ period \in Nat \ {0} /\ tainted = FALSE /\ clean = 0
        /\ warm = FALSE
    BY PeriodAssumption DEF StatsInit
  <2>2. samples = << >> /\ samples \in Seq(Samples) /\ Len(samples) = 0
    BY DEF StatsInit
  <2>3. /\ interp = FreshStats(0) /\ opaque = FreshStats(period)
        /\ lowSma = FreshLowered(period) /\ lowStd = FreshLowered(period)
    BY DEF StatsInit
  <2>4. /\ StreamOf(period, samples, 0, tainted, clean)
        /\ StatsOf(opaque, period, samples, 0, tainted, clean)
        /\ LoweredOf(lowSma, period, samples, 0, tainted)
        /\ LoweredOf(lowStd, period, samples, 0, tainted)
        /\ lowStd.sumsq = SquareTo(samples, 0, tainted)
    BY <2>1, <2>3, FreshStates
  <2>5. 0 <= period
    BY <2>1
  <2> QED BY <2>1, <2>2, <2>3, <2>4, <2>5, Zenon DEF StatsInv
<1>2. StatsInv /\ [StatsNext]_statsVars => StatsInv'
  <2> SUFFICES ASSUME StatsInv, [StatsNext]_statsVars PROVE StatsInv'
    OBVIOUS
  <2>1. CASE StatsPromote
    <3>1. warm' = TRUE /\ Len(samples) = period
      BY <2>1, PeriodAssumption DEF StatsInv, StatsPromote, WarmupThreshold
    <3>2. UNCHANGED <<period, samples, clean, tainted, interp, opaque, lowSma, lowStd>>
      BY <2>1 DEF StatsPromote
    <3> QED BY <3>1, <3>2 DEF StatsInv
  <2>2. CASE \E x \in Samples : StatsTick(x)
    BY <2>2, StatsTickKeeps
  <2>3. CASE UNCHANGED statsVars
    BY <2>3 DEF StatsInv, statsVars
  <2> QED BY <2>1, <2>2, <2>3 DEF StatsNext
<1> QED BY <1>1, <1>2, PTL DEF StatsSpec

\* sma is the mean of the last period samples in all four computations, and
\* NaN in the three with running sums once a sample was NaN.
THEOREM SmaAlwaysWindowMean == StatsSpec => []SmaIsWindowMean
<1>1. StatsInv => SmaIsWindowMean
  <2> SUFFICES ASSUME StatsInv, samples # << >>
               PROVE  LET ref == IF StatsFull THEN SumOf(samples, period) ELSE NaN
                          running == IF tainted THEN NaN ELSE ref
                      IN  /\ SmaOut(interp) = running /\ SmaOut(opaque) = running
                          /\ LoweredSmaOut(lowSma, period) = running
                          /\ ~tainted => SimdSmaOut(opaque) = ref
    BY DEF SmaIsWindowMean
  <2> DEFINE c == Len(samples)
             S == SumOf(samples, c)
  <2>1. /\ period \in Nat \ {0} /\ samples \in Seq(Samples) /\ c <= period /\ c # 0 /\ c \in Nat
        /\ tainted \in BOOLEAN /\ \A k \in 1 .. c : samples[k] \in Int \cup {NaN}
    BY PeriodAssumption DEF StatsInv, StreamOf
  <2>2. /\ \A st \in {interp, opaque} :
             /\ st.cap = period /\ st.count = c /\ Kept(st.buf, st.head, period, c, samples)
             /\ st.sum = SumTo(samples, c, tainted)
        /\ lowSma.count = c /\ lowSma.sum = SumTo(samples, c, tainted)
        /\ warm \in BOOLEAN /\ (warm => c = period)
    BY <2>1 DEF StatsInv, StatsOf, LoweredOf
  <2>3. StatsFull <=> c = period
    BY DEF StatsFull
  <2>5. c = period => SumOf(Contents(opaque), opaque.count) = SumOf(samples, period)
    <3> SUFFICES ASSUME c = period
                 PROVE  SumOf(Contents(opaque), period) = SumOf(samples, period)
      BY <2>2
    <3>1. opaque.cap = period /\ Kept(opaque.buf, opaque.head, period, period, samples)
      BY <2>2
    <3> QED BY <2>1, <3>1, BufferSums
  <2> HIDE DEF c
  <2>6. \A st \in {interp, opaque} : RingStatsFull(st) <=> c = period
    BY <2>1, <2>2 DEF RingStatsFull
  <2>7. CASE c = period
    BY <2>1, <2>2, <2>3, <2>5, <2>6, <2>7
       DEF SimdSmaOut, SmaOut, LoweredSmaOut, SumTo
  <2>8. CASE c # period
    BY <2>1, <2>2, <2>3, <2>6, <2>8
       DEF SimdSmaOut, SmaOut, LoweredSmaOut, SumTo
  <2> QED BY <2>7, <2>8
<1> QED BY StatsInvariance, <1>1, PTL

\* What rolling_std and zscore rest on, in both kinds of states.
LEMMA StatsParts ==
  ASSUME StatsInv, samples # << >>
  PROVE  LET c == Len(samples)
         IN  /\ period \in Nat \ {0} /\ c \in 1 .. period /\ tainted \in BOOLEAN
             /\ \A st \in {interp, opaque} :
                  /\ st.cap = period /\ st.count = c /\ st.sum = SumTo(samples, c, tainted)
                  /\ (~tainted => Right(st, samples, c))
                  /\ (period >= 2 /\ clean = 2 * period => Right(st, samples, c))
                  /\ RingStatsFull(st) <=> c = period
             /\ lowStd.count = c /\ lowStd.sum = SumTo(samples, c, tainted)
             /\ lowStd.sumsq = SquareTo(samples, c, tainted)
             /\ (~tainted \/ clean = 2 * period => Ints(samples, c))
<1> DEFINE c == Len(samples)
<1>1. /\ period \in Nat \ {0} /\ c \in 1 .. period /\ tainted \in BOOLEAN
      /\ StreamOf(period, samples, c, tainted, clean)
      /\ c # 0
  BY PeriodAssumption DEF StatsInv, StreamOf
<1>2. /\ StatsOf(interp, period, samples, c, tainted, clean)
      /\ StatsOf(opaque, period, samples, c, tainted, clean)
  BY <1>1 DEF StatsInv
<1>3. /\ lowStd.count = c /\ lowStd.sum = SumTo(samples, c, tainted)
      /\ lowStd.sumsq = SquareTo(samples, c, tainted)
  BY DEF StatsInv, LoweredOf
<1>4. ~tainted \/ clean = 2 * period => Ints(samples, c)
  <2>1. c \in 0 .. period /\ (clean = 2 * period => clean >= period)
    BY <1>1
  <2> QED BY <1>1, <2>1, CleanWindow
<1>5. ASSUME NEW st \in {interp, opaque}
      PROVE  /\ st.cap = period /\ st.count = c /\ st.sum = SumTo(samples, c, tainted)
             /\ (~tainted => Right(st, samples, c))
             /\ (period >= 2 /\ clean = 2 * period => Right(st, samples, c))
             /\ RingStatsFull(st) <=> c = period
  <2>1. /\ st.cap = period /\ st.count = c /\ st.sum = SumTo(samples, c, tainted)
        /\ (~tainted => Right(st, samples, c)) /\ st.slides \in 0 .. period
        /\ (period > 1 => st.slides < period)
        /\ (period > 1 /\ clean >= period =>
              Right(st, samples, c) \/ clean - period <= st.slides)
    BY <1>2 DEF StatsOf
  <2>2. ASSUME period >= 2, clean = 2 * period PROVE Right(st, samples, c)
    <3>1. period > 1 /\ clean >= period /\ clean - period = period
      BY <1>1, <2>2
    <3>2. ~(clean - period <= st.slides)
      BY <1>1, <2>1, <3>1
    <3> QED BY <2>1, <3>1, <3>2
  <2>3. RingStatsFull(st) <=> c = period
    BY <1>1, <2>1 DEF RingStatsFull
  <2> QED BY <2>1, <2>2, <2>3
<1> QED BY <1>1, <1>3, <1>4, <1>5

\* The lowered deviation, from the two running sums.
LEMMA LoweredDeviation ==
  ASSUME StatsInv, samples # << >>, Len(samples) = period,
         ~tainted
  PROVE  LoweredStdOut(lowStd, period) = M2Of(samples, period)
<1> DEFINE S == lowStd.sum
           Q == lowStd.sumsq
           p == period
           k == Sub(Mul(p, Q), Sq(S))
<1>1. /\ p \in Nat \ {0} /\ tainted \in BOOLEAN /\ lowStd.count = p
      /\ S = SumTo(samples, p, tainted) /\ Q = SquareTo(samples, p, tainted)
      /\ (~tainted => Ints(samples, p))
  BY StatsParts
<1>2. LoweredStdOut(lowStd, p) = ClampNegative(k)
  BY <1>1 DEF LoweredStdOut
<1> HIDE DEF S, Q, p
<1>3. S = SumOf(samples, p) /\ Q = SquareSum(samples, p) /\ Ints(samples, p)
  BY <1>1 DEF SumTo, SquareTo
<1>4. S \in Int /\ Q \in Int
  BY <1>1, <1>3, SquareInts
<1>5. M2Of(samples, p) \in Int /\ M2Of(samples, p) >= 0
  BY <1>1, <1>3, TwoPassIsM2
<1>6. M2Of(samples, p) = p * Q - S * S
  BY <1>3 DEF M2Of
<1>7. /\ Mul(p, Q) = p * Q /\ Sq(S) = S * S /\ p * Q \in Int /\ S * S \in Int
  BY <1>1, <1>4, NaNAssumption DEF Mul, Sq
<1>8. k = p * Q - S * S
  BY <1>7, NaNAssumption DEF Sub
<1>9. ClampNegative(M2Of(samples, p)) = M2Of(samples, p)
  BY <1>5 DEF ClampNegative
<1> QED BY <1>2, <1>6, <1>8, <1>9 DEF p

\* rolling_std in a state of the invariant.
LEMMA StdOfWindow ==
  StatsInv => StdIsWindowDeviation
<1> SUFFICES ASSUME StatsInv, samples # << >>, period >= 2
             PROVE  /\ (~tainted \/ clean = 2 * period) =>
                         /\ StdOut(interp) = StdRef
                         /\ StdOut(opaque) = StdRef
                    /\ ~tainted => LoweredStdOut(lowStd, period) = StdRef
  BY DEF StdIsWindowDeviation
<1> DEFINE c == Len(samples)
<1>1. /\ period \in Nat \ {0} /\ c \in 1 .. period /\ tainted \in BOOLEAN
      /\ \A st \in {interp, opaque} :
           /\ st.count = c /\ (~tainted => Right(st, samples, c))
           /\ (clean = 2 * period => Right(st, samples, c))
           /\ RingStatsFull(st) <=> c = period
      /\ lowStd.count = c /\ (~tainted \/ clean = 2 * period => Ints(samples, c))
  BY StatsParts
<1>2. StatsFull <=> c = period
  BY DEF StatsFull
<1> HIDE DEF c
<1>3. CASE c # period
  BY <1>1, <1>2, <1>3 DEF StdRef, StdOut, LoweredStdOut
<1>4. CASE c = period
  <2>1. StdRef = TwoPass(samples, period)
    BY <1>2, <1>4 DEF StdRef
  <2>2. ASSUME ~tainted \/ clean = 2 * period PROVE StdRef = M2Of(samples, period)
    <3>1. Ints(samples, period)
      BY <1>1, <1>4, <2>2
    <3> QED BY <1>1, <2>1, <3>1, TwoPassIsM2
  <2>3. ASSUME ~tainted \/ clean = 2 * period, NEW st \in {interp, opaque}
        PROVE  StdOut(st) = M2Of(samples, period)
    <3>1. /\ st.count = period /\ Right(st, samples, period) /\ RingStatsFull(st)
      BY <1>1, <1>4, <2>3
    <3>2. st.m2 = M2Of(samples, period)
      BY <3>1 DEF Right
    <3>3. ~(st.count < 2)
      BY <1>1, <3>1
    <3> QED BY <3>1, <3>2, <3>3 DEF StdOut, StddevSample
  <2>4. ~tainted => LoweredStdOut(lowStd, period) = M2Of(samples, period)
    BY <1>4, LoweredDeviation DEF c
  <2> QED BY <1>1, <2>2, <2>3, <2>4
<1> QED BY <1>3, <1>4

\* rolling_std is the deviation of the window by two passes: at once as long as
\* no sample was NaN, and in the runtime again two windows after the last one.
THEOREM StdAlwaysWindowDeviation == StatsSpec => []StdIsWindowDeviation
BY StatsInvariance, StdOfWindow, PTL

\* zscore is the same quotient everywhere: undefined on a flat window and once
\* a sample was NaN.
THEOREM ZscoresAlwaysAgree == StatsSpec => []ZscoresAgree
<1>1. StatsInv => ZscoresAgree
  <2> DEFINE c == Len(samples)
             x == Latest
             p == period
             M == StdRef
             ref == IF tainted \/ M \in {NaN, 0} THEN <<NaN>>
                    ELSE <<p * x - SumOf(samples, p), M>>
  <2> SUFFICES ASSUME StatsInv, samples # << >>, period >= 2
               PROVE  /\ ZscoreOut(interp, x) = ref /\ ZscoreOut(opaque, x) = ref
                      /\ LoweredZscoreOut(lowStd, p, x) = ref
    BY DEF ZscoresAgree
  <2>1. /\ p \in Nat \ {0} /\ c \in 1 .. p /\ tainted \in BOOLEAN
        /\ \A st \in {interp, opaque} :
             /\ st.count = c /\ st.sum = SumTo(samples, c, tainted)
             /\ RingStatsFull(st) <=> c = p
        /\ lowStd.count = c /\ lowStd.sum = SumTo(samples, c, tainted)
        /\ (~tainted => Ints(samples, c))
    BY StatsParts
  <2>2. ~tainted => /\ StdOut(interp) = M /\ StdOut(opaque) = M
                    /\ LoweredStdOut(lowStd, p) = M
    BY StdOfWindow DEF StdIsWindowDeviation
  <2>3. StatsFull <=> c = p
    BY DEF StatsFull
  <2>4. c = p => x = samples[p]
    BY DEF Latest
  <2>5. c # p => M = NaN
    BY <2>3 DEF StdRef
  <2> HIDE DEF c, x, p, M
  <2>7. CASE tainted
    <3>1. ref = <<NaN>>
      BY <2>7
    <3>2. \A st \in {interp, opaque, lowStd} : st.sum = NaN
      BY <2>1, <2>7 DEF SumTo
    <3>3. \A a : Sub(a, NaN) = NaN
      BY DEF Sub
    <3> HIDE DEF ref
    <3> QED BY <3>1, <3>2, <3>3 DEF ZscoreOut, LoweredZscoreOut
  <2>8. CASE ~tainted /\ c # p
    <3>1. ref = <<NaN>> /\ M = NaN
      BY <2>5, <2>8
    <3> HIDE DEF ref
    <3> QED BY <2>2, <2>8, <3>1 DEF ZscoreOut, LoweredZscoreOut
  <2>9. CASE ~tainted /\ c = p
    <3> DEFINE S == SumOf(samples, p)
               num == p * x - S
    <3>1. Ints(samples, p) /\ p \in 1 .. p /\ p \in Nat
      BY <2>1, <2>9
    <3>2. S \in Int
      BY <3>1, SumInts
    <3>3. x \in Int
      BY <2>4, <2>9, <3>1 DEF Ints
    <3> HIDE DEF S
    <3>4. /\ Mul(p, x) = p * x /\ p * x \in Int
      BY <2>1, <3>3, NaNAssumption DEF Mul
    <3>5. Sub(p * x, S) = num /\ num \in Int /\ num # NaN
      BY <3>2, <3>4, NaNAssumption DEF Sub
    <3>6. ref = IF M \in {NaN, 0} THEN <<NaN>> ELSE <<num, M>>
      BY <2>9 DEF S
    <3> HIDE DEF num, ref
    <3>7. /\ interp.sum = S /\ opaque.sum = S /\ lowStd.sum = S
          /\ interp.count = p /\ opaque.count = p
      BY <2>1, <2>9 DEF SumTo, S
    <3>8. ZscoreOut(interp, x) = ref /\ ZscoreOut(opaque, x) = ref
      BY <2>2, <2>9, <3>4, <3>5, <3>6, <3>7 DEF ZscoreOut
    <3>9. LoweredZscoreOut(lowStd, p, x) = ref
      BY <2>2, <2>9, <3>4, <3>5, <3>6, <3>7 DEF LoweredZscoreOut
    <3> QED BY <3>8, <3>9
  <2> QED BY <2>1, <2>7, <2>8, <2>9
<1> QED BY StatsInvariance, <1>1, PTL

-----------------------------------------------------------------------------
(* The operators together *)

\* Every behaviour of the program with all the window operators is one of
\* either group by itself, so that what is proved of RingStats and of
\* PairWindow holds of the operators side by side.
THEOREM WindowsImplementsParts == WindowsSpec => StatsSpec /\ Spec
<1>1. WindowsInit => StatsInit /\ Init
  BY DEF WindowsInit
<1>2. [WindowsNext]_windowsVars => [StatsNext]_statsVars /\ [Next]_vars
  <2> SUFFICES ASSUME [WindowsNext]_windowsVars PROVE [StatsNext]_statsVars /\ [Next]_vars
    OBVIOUS
  <2>1. CASE WindowsPromote
    BY <2>1 DEF WindowsPromote, StatsNext, Next
  <2>2. CASE \E x \in Xs, y \in Ys : WindowsTick(x, y)
    BY <2>2, SameStream DEF WindowsTick, StatsNext, Next
  <2>3. CASE UNCHANGED windowsVars
    BY <2>3 DEF windowsVars
  <2> QED BY <2>1, <2>2, <2>3 DEF WindowsNext
<1> QED BY <1>1, <1>2, PTL DEF WindowsSpec, StatsSpec, Spec

\* The whole of what the run checks, of the operators side by side.
THEOREM WindowsAlwaysRight ==
  WindowsSpec => [](/\ SmaIsWindowMean /\ StdIsWindowDeviation /\ ZscoresAgree
                    /\ VwapIsWindowAverage /\ PairStatsOfWindow /\ LagIsPast)
BY WindowsImplementsParts, SmaAlwaysWindowMean, StdAlwaysWindowDeviation, ZscoresAlwaysAgree,
   VwapAlwaysOfWindow, PairStatsAlwaysOfWindow, LagAlwaysPast, PTL
=============================================================================
