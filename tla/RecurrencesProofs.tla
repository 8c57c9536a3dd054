------------------------- MODULE RecurrencesProofs -------------------------
(***************************************************************************)
(* Proofs about Recurrences: for every period, alpha, noise and stream of  *)
(* samples, and every order of backends that share an array, ema and       *)
(* ema_alpha are weighted means of their histories, the cross operators    *)
(* fire once for each excursion and kalman1d follows the information form  *)
(* of the filter.                                                          *)
(***************************************************************************)
EXTENDS Recurrences, IeeeProofs, FiniteSetTheorems

-----------------------------------------------------------------------------
(* Weighted means *)

\* b is a with one more element.
Longer(a, b) == /\ Len(b) = Len(a) + 1 /\ DOMAIN a = 1 .. Len(a) /\ DOMAIN b = 1 .. Len(b)
                /\ Len(a) \in Nat /\ \A k \in 1 .. Len(a) : b[k] = a[k]

\* With one more sample each weight is discounted once more.
LEMMA WeightDiscounted ==
  ASSUME NEW a, NEW b, Longer(a, b), Numbers(b, 1, Len(b)), NEW i \in 1 .. Len(a)
  PROVE  /\ IsNumber(Weight(a, i))
         /\ Weight(b, i) = FMul(Weight(a, i), FSub(Whole(1), b[Len(b)]))
<1> DEFINE m == Len(a)
           c == IF i = 1 THEN Whole(1) ELSE a[i]
           P == Fold("*", Decay(a), i + 1, m)
           D == FSub(Whole(1), b[m + 1])
<1>1. m \in Nat /\ Len(b) = m + 1 /\ i + 1 \in Nat \ {0} /\ i + 1 <= m + 1
      /\ i \in 1 .. m + 1 /\ m + 1 \in 1 .. m + 1 /\ 1 .. m = DOMAIN a
  BY DEF Longer
<1>2. IsNumber(Whole(1))
  BY WholeNumber
<1>3. IsNumber(c) /\ c = IF i = 1 THEN Whole(1) ELSE b[i]
  <2>1. IsNumber(a[i]) /\ a[i] = b[i]
    BY <1>1 DEF Numbers, Longer
  <2> QED BY <1>2, <2>1
<1>4. IsNumber(D)
  BY <1>1, <1>2, NumberClosed DEF Numbers
<1>5. ASSUME NEW k \in 1 .. m
      PROVE  IsNumber(Decay(a)[k]) /\ Decay(b)[k] = Decay(a)[k]
  <2>1. b[k] = a[k] /\ k \in DOMAIN a /\ k \in DOMAIN b /\ IsNumber(a[k])
    BY <1>1 DEF Longer, Numbers
  <2>2. Decay(a)[k] = FSub(Whole(1), a[k]) /\ Decay(b)[k] = FSub(Whole(1), b[k])
    BY <2>1 DEF Decay
  <2> QED BY <1>2, <2>1, <2>2, NumberClosed
<1>6. Decay(b)[m + 1] = D
  <2>1. m + 1 \in DOMAIN b
    BY <1>1 DEF Longer
  <2> QED BY <2>1 DEF Decay
<1>7. IsNumber(P)
  <2>1. Numbers(Decay(a), i + 1, m)
    BY <1>1, <1>5 DEF Numbers
  <2> QED BY <1>1, <2>1, FoldNumber
<1>8. Fold("*", Decay(b), i + 1, m) = P
  <2>1. \A k \in i + 1 .. m : Decay(b)[k] = Decay(a)[k]
    BY <1>1, <1>5
  <2> QED BY <1>1, <2>1, FoldSame
<1>9. Fold("*", Decay(b), i + 1, m + 1) = FMul(P, D)
  <2>1. Fold("*", Decay(b), i + 1, m + 1)
          = Join("*", Fold("*", Decay(b), i + 1, m), Decay(b)[m + 1])
    BY <1>1, FoldNext
  <2> QED BY <1>6, <1>8, <2>1 DEF Join
<1>10. Weight(a, i) = FMul(c, P) /\ Weight(b, i) = FMul(c, FMul(P, D))
  BY <1>1, <1>3, <1>9 DEF Weight
<1> HIDE DEF c, P, D
<1>11. FMul(c, FMul(P, D)) = FMul(FMul(c, P), D) /\ IsNumber(FMul(c, P))
  BY <1>3, <1>4, <1>7, Associates, NumberClosed
<1> QED BY <1>1, <1>10, <1>11 DEF D

\* The last sample has its own weight.
LEMMA WeightLast ==
  ASSUME NEW a, Len(a) \in Nat \ {0}, IsNumber(a[Len(a)])
  PROVE  Weight(a, Len(a)) = IF Len(a) = 1 THEN Whole(1) ELSE a[Len(a)]
<1> DEFINE m == Len(a)
<1>1. m + 1 \in Nat \ {0} /\ m \in Nat /\ m < m + 1
  OBVIOUS
<1>2. Fold("*", Decay(a), m + 1, m) = Whole(1)
  BY <1>1, FoldSteps DEF Unit
<1>3. IsNumber(Whole(1))
  BY WholeNumber
<1> QED BY <1>2, <1>3, Units DEF Weight

\* The samples are numbers.
IntSamples(s) == \A k \in 1 .. Len(s) : s[k].x \in Int

\* The terms of a weighted mean.
Terms(s, a) == [i \in 1 .. Len(s) |-> FMul(Whole(s[i].x), Weight(a, i))]

\* The mean of one sample.
LEMMA MeanFirst ==
  ASSUME NEW s, NEW a, Len(s) = 1, Len(a) = 1, s[1].x \in Int, IsNumber(a[1])
  PROVE  WeightedMean(s, a) = Whole(s[1].x)
<1> DEFINE f == Terms(s, a)
           w == Whole(s[1].x)
<1>1. Weight(a, 1) = Whole(1)
  <2>1. Len(a) \in Nat \ {0} /\ IsNumber(a[Len(a)])
    OBVIOUS
  <2>2. Weight(a, Len(a)) = Whole(1)
    BY <2>1, WeightLast
  <2> QED BY <2>2
<1>2. IsNumber(w) /\ IsNumber(Whole(1))
  BY WholeNumber
<1>3. f[1] = w
  <2>1. f[1] = FMul(w, Weight(a, 1))
    BY DEF Terms
  <2> HIDE DEF f, w
  <2> QED BY <1>1, <1>2, <2>1, Units
<1>4. 0 \in Nat /\ 1 \in Nat \ {0} /\ 1 <= 0 + 1 /\ 0 < 1 /\ 0 + 1 = 1
  OBVIOUS
<1>5. Fold("+", f, 1, 0) = Whole(0)
  BY <1>4, FoldSteps DEF Unit
<1>6. Fold("+", f, 1, 0 + 1) = Join("+", Fold("+", f, 1, 0), f[0 + 1])
  BY <1>4, FoldNext
<1>7. WeightedMean(s, a) = Fold("+", f, 1, 1)
  BY DEF WeightedMean, Terms
<1> HIDE DEF f, w
<1>8. FAdd(Whole(0), w) = w
  BY <1>2, Units
<1> QED BY <1>3, <1>4, <1>5, <1>6, <1>7, <1>8 DEF Join, w

\* One more sample, blended in with its weight.
LEMMA MeanBlends ==
  ASSUME NEW s, NEW t, NEW a, NEW b, Longer(s, t), Longer(a, b), Len(s) = Len(a),
         Len(a) # 0, IntSamples(t), Numbers(b, 1, Len(b))
  PROVE  WeightedMean(t, b) = Blend(b[Len(b)], t[Len(t)].x, WeightedMean(s, a))
<1> DEFINE m == Len(a)
           f == Terms(s, a)
           g == Terms(t, b)
           c == b[m + 1]
           D == FSub(Whole(1), c)
           x == t[m + 1].x
           S == Fold("+", f, 1, m)
<1>1. /\ m \in Nat \ {0} /\ Len(b) = m + 1 /\ Len(s) = m /\ Len(t) = m + 1
      /\ m + 1 \in 1 .. m + 1 /\ 1 \in Nat \ {0} /\ m \in Nat /\ 1 <= m + 1
  BY DEF Longer
<1>2. x \in Int /\ IsNumber(Whole(x)) /\ IsNumber(Whole(1)) /\ IsNumber(c)
  <2>1. x \in Int
    BY <1>1 DEF IntSamples
  <2> HIDE DEF x
  <2> QED BY <1>1, <2>1, WholeNumber DEF Numbers
<1>3. IsNumber(D)
  <2> HIDE DEF c
  <2> QED BY <1>2, NumberClosed
<1>4. ASSUME NEW k \in 1 .. m PROVE IsNumber(f[k]) /\ g[k] = FMul(f[k], D)
  <2> DEFINE y == Whole(s[k].x)
             w == Weight(a, k)
  <2>1. t[k] = s[k] /\ k \in 1 .. m + 1 /\ s[k].x \in Int
    BY <1>1 DEF Longer, IntSamples
  <2>2. f[k] = FMul(y, w)
    BY <1>1 DEF Terms
  <2>3. g[k] = FMul(y, Weight(b, k))
    BY <1>1, <2>1 DEF Terms
  <2>4. IsNumber(w) /\ Weight(b, k) = FMul(w, D)
    BY <1>1, WeightDiscounted
  <2>5. IsNumber(y)
    BY <2>1, WholeNumber
  <2> HIDE DEF f, g, y, w, D
  <2>6. FMul(y, FMul(w, D)) = FMul(FMul(y, w), D) /\ IsNumber(FMul(y, w))
    BY <1>3, <2>4, <2>5, Associates, NumberClosed
  <2> QED BY <2>2, <2>3, <2>4, <2>6
<1>5. g[m + 1] = FMul(Whole(x), c)
  <2>1. g[m + 1] = FMul(Whole(x), Weight(b, m + 1))
    BY <1>1 DEF Terms
  <2>2. Len(b) \in Nat \ {0} /\ Len(b) # 1 /\ IsNumber(b[Len(b)])
    BY <1>1, <1>2
  <2>3. Weight(b, Len(b)) = b[Len(b)]
    BY <2>2, WeightLast
  <2> QED BY <1>1, <2>1, <2>3
<1>6. WeightedMean(s, a) = S /\ WeightedMean(t, b) = Fold("+", g, 1, m + 1)
  BY <1>1 DEF WeightedMean, Terms
<1> HIDE DEF f, g, c, D, x
<1>7. Numbers(f, 1, m)
  BY <1>4 DEF Numbers
<1>8. Fold("+", g, 1, m) = FMul(S, D)
  BY <1>1, <1>3, <1>4, <1>7, SumScales
<1>9. Fold("+", g, 1, m + 1) = FAdd(FMul(S, D), FMul(Whole(x), c))
  <2>1. Fold("+", g, 1, m + 1) = Join("+", Fold("+", g, 1, m), g[m + 1])
    BY <1>1, FoldNext
  <2> QED BY <1>5, <1>8, <2>1 DEF Join
<1>10. IsNumber(S)
  BY <1>1, <1>7, FoldNumber
<1> HIDE DEF S
<1>11. FMul(S, D) = FMul(D, S) /\ IsNumber(FMul(S, D))
  BY <1>3, <1>10, Commutes, NumberClosed
<1>12. FMul(Whole(x), c) = FMul(c, Whole(x)) /\ IsNumber(FMul(Whole(x), c))
  BY <1>2, Commutes, NumberClosed
<1>13. FAdd(FMul(S, D), FMul(Whole(x), c)) = FAdd(FMul(Whole(x), c), FMul(S, D))
  BY <1>11, <1>12, Commutes
<1>14. Blend(c, x, S) = FAdd(FMul(c, Whole(x)), FMul(D, S))
  BY DEF Blend, D
<1>15. WeightedMean(t, b) = Blend(c, x, WeightedMean(s, a))
  BY <1>6, <1>9, <1>11, <1>12, <1>13, <1>14
<1> QED BY <1>1, <1>15 DEF c, x

-----------------------------------------------------------------------------
(* The variance of the filter *)

\* One step of the information form.
VarNext(q, r, v) ==
  FDiv(Whole(1), FAdd(FDiv(Whole(1), FAdd(v, Whole(q))), Rat(1, r)))

\* The first n variances.
AreVars(t, q, r, n) ==
  /\ DOMAIN t = 0 .. n
  /\ \A k \in 0 .. n : t[k] = IF k <= 1 THEN Whole(r) ELSE VarNext(q, r, t[k - 1])

\* They exist ...
LEMMA VarsExist ==
  ASSUME NEW q, NEW r, NEW n \in Nat
  PROVE  \E t : AreVars(t, q, r, n)
<1> DEFINE T == {k \in Nat : \E t : AreVars(t, q, r, k)}
<1>1. 0 \in T
  <2> DEFINE t == [k \in 0 .. 0 |-> Whole(r)]
  <2>1. \A k \in 0 .. 0 : k <= 1 /\ t[k] = Whole(r)
    OBVIOUS
  <2>2. AreVars(t, q, r, 0)
    BY <2>1 DEF AreVars
  <2> QED BY <2>2
<1>2. ASSUME NEW m \in Nat, m \in T PROVE m + 1 \in T
  <2>1. PICK t : AreVars(t, q, r, m)
    BY <1>2
  <2> DEFINE e == IF m + 1 <= 1 THEN Whole(r) ELSE VarNext(q, r, t[m])
             u == [k \in 0 .. m + 1 |-> IF k = m + 1 THEN e ELSE t[k]]
  <2>2. ASSUME NEW k \in 0 .. m PROVE u[k] = t[k]
    <3>1. k \in 0 .. m + 1 /\ k # m + 1
      OBVIOUS
    <3> QED BY <3>1
  <2>3. u[m + 1] = e
    OBVIOUS
  <2>4. DOMAIN u = 0 .. m + 1
    OBVIOUS
  <2> HIDE DEF u
  <2>5. ASSUME NEW k \in 0 .. m + 1
        PROVE  u[k] = IF k <= 1 THEN Whole(r) ELSE VarNext(q, r, u[k - 1])
    <3>1. CASE k = m + 1
      <4>1. k - 1 = m /\ m \in 0 .. m
        BY <3>1
      <4> QED BY <2>2, <2>3, <3>1, <4>1
    <3>2. CASE k # m + 1
      <4>1. k \in 0 .. m
        BY <3>2
      <4>2. t[k] = IF k <= 1 THEN Whole(r) ELSE VarNext(q, r, t[k - 1])
        BY <2>1, <4>1 DEF AreVars
      <4>3. ~(k <= 1) => k - 1 \in 0 .. m
        BY <4>1
      <4> QED BY <2>2, <4>1, <4>2, <4>3
    <3> QED BY <3>1, <3>2
  <2>6. AreVars(u, q, r, m + 1)
    BY <2>4, <2>5 DEF AreVars
  <2> QED BY <2>6
<1> HIDE DEF T
<1>3. n \in T
  BY <1>1, <1>2, Induction
<1> QED BY <1>3 DEF T

\* ... and are unique.
LEMMA VarsUnique ==
  ASSUME NEW q, NEW r, NEW m \in Nat, NEW n \in Nat, NEW t, NEW u,
         AreVars(t, q, r, m), AreVars(u, q, r, n), NEW k \in Nat, k <= m, k <= n
  PROVE  t[k] = u[k]
<1> DEFINE T == {i \in Nat : i <= m /\ i <= n => t[i] = u[i]}
<1>1. 0 \in T
  <2>1. 0 \in 0 .. m /\ 0 \in 0 .. n /\ 0 <= 1
    OBVIOUS
  <2> QED BY <2>1 DEF AreVars
<1>2. ASSUME NEW i \in Nat, i \in T PROVE i + 1 \in T
  <2> SUFFICES ASSUME i + 1 <= m, i + 1 <= n PROVE t[i + 1] = u[i + 1]
    OBVIOUS
  <2>1. i + 1 \in 0 .. m /\ i + 1 \in 0 .. n /\ (i + 1) - 1 = i /\ i <= m /\ i <= n
    OBVIOUS
  <2>2. t[i] = u[i]
    BY <1>2, <2>1
  <2> QED BY <2>1, <2>2 DEF AreVars
<1> HIDE DEF T
<1>3. k \in T
  BY <1>1, <1>2, Induction
<1> QED BY <1>3 DEF T

\* The first variance is r, and each other one follows from the one before.
LEMMA VarianceSteps ==
  ASSUME NEW q, NEW r
  PROVE  /\ Variance(q, r, 1) = Whole(r)
         /\ \A k \in Nat \ {0} : Variance(q, r, k + 1) = VarNext(q, r, Variance(q, r, k))
<1> DEFINE P(k) == CHOOSE t : AreVars(t, q, r, k)
           w == [k \in Nat |-> P(k)[k]]
           v == [k \in Nat |-> IF k <= 1 THEN Whole(r) ELSE VarNext(q, r, w[k - 1])]
<1>1. \A k \in Nat : AreVars(P(k), q, r, k)
  BY VarsExist
<1> HIDE DEF P
<1>2. ASSUME NEW k \in Nat PROVE w[k] = v[k]
  <2>1. k \in 0 .. k
    OBVIOUS
  <2>2. P(k)[k] = IF k <= 1 THEN Whole(r) ELSE VarNext(q, r, P(k)[k - 1])
    BY <1>1, <2>1 DEF AreVars
  <2>3. CASE k <= 1
    BY <2>2, <2>3
  <2>4. CASE ~(k <= 1)
    <3>1. k - 1 \in Nat /\ k - 1 <= k
      BY <2>4
    <3>2. P(k)[k - 1] = P(k - 1)[k - 1]
      BY <1>1, <3>1, VarsUnique
    <3> QED BY <2>2, <2>4, <3>1, <3>2
  <2> QED BY <2>3, <2>4
<1>3. w = v
  BY <1>2
<1> DEFINE g == CHOOSE t : t = [i \in Nat |-> IF i <= 1 THEN Whole(r)
                                              ELSE VarNext(q, r, t[i - 1])]
<1>4. g = [i \in Nat |-> IF i <= 1 THEN Whole(r) ELSE VarNext(q, r, g[i - 1])]
  BY <1>3
<1>5. \A k \in Nat : Variance(q, r, k) = g[k]
  BY DEF Variance, VarNext
<1> HIDE DEF g
<1>6. \A k \in Nat : g[k] = IF k <= 1 THEN Whole(r) ELSE VarNext(q, r, g[k - 1])
  BY <1>4
<1>7. Variance(q, r, 1) = Whole(r)
  BY <1>5, <1>6
<1>8. ASSUME NEW k \in Nat \ {0}
      PROVE  Variance(q, r, k + 1) = VarNext(q, r, Variance(q, r, k))
  <2>1. k + 1 \in Nat /\ ~(k + 1 <= 1) /\ (k + 1) - 1 = k /\ k \in Nat
    OBVIOUS
  <2>2. g[k + 1] = VarNext(q, r, g[k])
    BY <1>6, <2>1
  <2> QED BY <1>5, <2>1, <2>2
<1> QED BY <1>7, <1>8

\* What a tick of the filter computes.
Pred(p, q) == FAdd(p, Whole(q))
Gain(p, q, r) == FDiv(Pred(p, q), FAdd(Pred(p, q), Whole(r)))
NewVar(p, q, r) == FMul(FSub(Whole(1), Gain(p, q, r)), Pred(p, q))
NewMean(xhat, k, x) == FAdd(xhat, FMul(k, FSub(Whole(x), xhat)))

\* With p = n/d and u = n + q d: the gain is u/(u + r d), the variance
\* r u/(u + r d).
LEMMA GainIs ==
  ASSUME NEW p, NEW n \in Nat \ {0}, NEW d, Is(p, n, d), NEW q \in Nat, NEW r \in Nat \ {0}
  PROVE  LET u == n + q * d
             v == u + r * d
         IN  /\ u \in Nat \ {0} /\ v \in Nat \ {0} /\ d \in Nat \ {0} /\ Is(Pred(p, q), u, d)
             /\ Is(Gain(p, q, r), u, v) /\ Is(NewVar(p, q, r), r * u, v)
<1> DEFINE u == n + q * d
           v == u + r * d
<1>1. d \in Nat \ {0}
  BY DEF Is
<1>2. q * d \in Nat /\ r * d \in Nat
  BY <1>1
<1>3. u \in Nat \ {0} /\ v \in Nat \ {0}
  BY <1>2
<1>4. Is(Whole(q), q, 1) /\ Is(Whole(r), r, 1) /\ Is(Whole(1), 1, 1)
  BY WholeIs
<1>5. Is(Pred(p, q), u, d)
  <2>1. Is(Pred(p, q), n * 1 + q * d, d * 1)
    BY <1>4, Sum DEF Pred
  <2>2. n * 1 + q * d = u /\ d * 1 = d
    BY <1>1
  <2> QED BY <2>1, <2>2
<1> HIDE DEF u
<1>6. Is(FAdd(Pred(p, q), Whole(r)), v, d)
  <2>1. Is(FAdd(Pred(p, q), Whole(r)), u * 1 + r * d, d * 1)
    BY <1>4, <1>5, Sum
  <2>2. u * 1 + r * d = v /\ d * 1 = d
    BY <1>1, <1>3
  <2> QED BY <2>1, <2>2
<1> DEFINE rd == r * d
<1>7. rd \in Nat /\ v = u + rd
  BY <1>2
<1> HIDE DEF v
<1>8. Is(Gain(p, q, r), u, v)
  <2>1. Is(Gain(p, q, r), u * d, d * v)
    BY <1>3, <1>5, <1>6, Ratio DEF Gain
  <2>2. (u * d) * v = u * (d * v) /\ u \in Int
    BY <1>1, <1>3
  <2> QED BY <1>3, <2>1, <2>2, Rescale
<1>9. Is(FSub(Whole(1), Gain(p, q, r)), rd, v)
  <2>1. Is(FSub(Whole(1), Gain(p, q, r)), 1 * v - u * 1, 1 * v)
    BY <1>4, <1>8, Difference
  <2>2. 1 * v - u * 1 = rd /\ 1 * v = v
    BY <1>3, <1>7
  <2> QED BY <2>1, <2>2
<1>10. Is(NewVar(p, q, r), r * u, v)
  <2>1. Is(NewVar(p, q, r), rd * u, v * d)
    BY <1>5, <1>9, Product DEF NewVar
  <2>2. (rd * u) * v = (r * u) * (v * d) /\ r * u \in Int
    BY <1>1, <1>3
  <2> QED BY <1>3, <2>1, <2>2, Rescale
<1> QED BY <1>1, <1>3, <1>5, <1>8, <1>10 DEF u, v

\* The update is the one of the information form.
LEMMA VarianceUpdates ==
  ASSUME NEW p, IsPositive(p), NEW q \in Nat, NEW r \in Nat \ {0}
  PROVE  NewVar(p, q, r) = VarNext(q, r, p) /\ IsPositive(NewVar(p, q, r))
<1>1. PICK n, d : n \in Nat \ {0} /\ Is(p, n, d)
  BY DEF IsPositive
<1> DEFINE u == n + q * d
           v == u + r * d
<1>2. /\ u \in Nat \ {0} /\ v \in Nat \ {0} /\ d \in Nat \ {0} /\ Is(Pred(p, q), u, d)
      /\ Is(NewVar(p, q, r), r * u, v)
  BY <1>1, GainIs
<1>3. r * d \in Nat /\ v = u + r * d
  BY <1>2
<1> HIDE DEF u, v
<1>4. r * u \in Nat \ {0} /\ u * r \in Nat \ {0}
  BY <1>2, Positive
<1>5. Is(Whole(1), 1, 1) /\ Is(Rat(1, r), 1, r)
  BY WholeIs DEF Is
<1>6. Is(FDiv(Whole(1), Pred(p, q)), 1 * d, 1 * u)
  BY <1>2, <1>5, Ratio
<1>7. 1 * d = d /\ 1 * u = u
  BY <1>2
<1>8. Is(FAdd(FDiv(Whole(1), Pred(p, q)), Rat(1, r)), d * r + 1 * u, u * r)
  BY <1>5, <1>6, <1>7, Sum
<1>9. d * r + 1 * u = v
  BY <1>2, <1>3
<1>10. Is(VarNext(q, r, p), 1 * (u * r), 1 * v)
  BY <1>2, <1>5, <1>8, <1>9, Ratio DEF VarNext, Pred
<1>11. (1 * (u * r)) * v = (r * u) * (1 * v)
  BY <1>2
<1>12. VarNext(q, r, p) = NewVar(p, q, r)
  BY <1>2, <1>10, <1>11, Same
<1> QED BY <1>2, <1>4, <1>12 DEF IsPositive

\* Without process noise the variance after m ticks is r/m and the estimate
\* the mean of the measurements.
LEMMA MeanUpdates ==
  ASSUME NEW m \in Nat \ {0}, NEW r \in Nat \ {0}, NEW p, Is(p, r, m), NEW x \in Int,
         NEW S, IsNumber(S)
  PROVE  /\ Is(NewVar(p, 0, r), r, m + 1)
         /\ NewMean(FDiv(S, Whole(m)), Gain(p, 0, r), x)
              = FDiv(FAdd(S, Whole(x)), Whole(m + 1))
<1> DEFINE u == r + 0 * m
           v == u + r * m
           M == m + 1
<1>1. /\ v \in Nat \ {0} /\ Is(Gain(p, 0, r), u, v) /\ Is(NewVar(p, 0, r), r * u, v)
  BY GainIs
<1>2. u = r /\ v = r * M /\ M \in Nat \ {0}
  OBVIOUS
<1> HIDE DEF u, v, M
<1>3. Is(NewVar(p, 0, r), r, M)
  <2>1. (r * u) * M = r * v
    BY <1>2
  <2> QED BY <1>1, <1>2, <2>1, Rescale
<1> DEFINE k == Gain(p, 0, r)
<1>4. Is(k, 1, M)
  <2>1. u * M = 1 * v
    BY <1>2
  <2> QED BY <1>1, <1>2, <2>1, Rescale
<1>5. PICK z, e : Is(S, z, e)
  BY DEF IsNumber
<1>6. z \in Int /\ e \in Nat \ {0}
  BY <1>5 DEF Is
<1>7. Is(Whole(m), m, 1) /\ Is(Whole(M), M, 1) /\ Is(Whole(x), x, 1)
  BY <1>2, WholeIs
<1> DEFINE E == e * m
           h == FDiv(S, Whole(m))
<1>8. Is(h, z, E) /\ E \in Nat \ {0}
  <2>1. Is(h, z * 1, e * m)
    BY <1>5, <1>7, Ratio
  <2>2. z * 1 = z
    BY <1>6
  <2> QED BY <1>6, <2>1, <2>2, Positive
<1> HIDE DEF h, k
<1> DEFINE a == x * E - z
<1>9. Is(FSub(Whole(x), h), a, E)
  <2>1. Is(FSub(Whole(x), h), x * E - z * 1, 1 * E)
    BY <1>7, <1>8, Difference
  <2>2. x * E - z * 1 = a /\ 1 * E = E
    BY <1>6, <1>8
  <2> QED BY <2>1, <2>2
<1>10. a \in Int
  BY <1>6, <1>8
<1>11. Is(FMul(k, FSub(Whole(x), h)), a, M * E)
  <2>1. Is(FMul(k, FSub(Whole(x), h)), 1 * a, M * E)
    BY <1>4, <1>9, Product
  <2>2. 1 * a = a
    BY <1>10
  <2> QED BY <2>1, <2>2
<1>12. Is(NewMean(h, k, x), z * (M * E) + a * E, E * (M * E))
  BY <1>8, <1>11, Sum DEF NewMean
<1> DEFINE b == z + x * e
<1>13. Is(FAdd(S, Whole(x)), b, e)
  <2>1. Is(FAdd(S, Whole(x)), z * 1 + x * e, e * 1)
    BY <1>5, <1>7, Sum
  <2>2. z * 1 + x * e = b /\ e * 1 = e
    BY <1>6
  <2> QED BY <2>1, <2>2
<1>14. Is(FDiv(FAdd(S, Whole(x)), Whole(M)), b * 1, e * M)
  BY <1>2, <1>7, <1>13, Ratio
<1>15. (z * (M * E) + a * E) * (e * M) = (b * 1) * (E * (M * E))
  <2>1. M = m + 1
    BY DEF M
  <2>2. z * (M * E) + a * E = E * (m * b)
    <3>1. z * (M * E) + a * E = E * (z * M + a)
      BY <1>2, <1>6, <1>8, <1>10
    <3>2. z * M + a = m * b
      BY <1>6, <2>1
    <3> QED BY <3>1, <3>2
  <2>3. (E * (m * b)) * (e * M) = (b * 1) * (E * (M * E))
    BY <1>2, <1>6, <1>8
  <2> QED BY <2>2, <2>3
<1> HIDE DEF a, b, E
<1>16. NewMean(h, k, x) = FDiv(FAdd(S, Whole(x)), Whole(M))
  BY <1>12, <1>14, <1>15, Same
<1> QED BY <1>3, <1>16 DEF h, k, M

-----------------------------------------------------------------------------
(* One more tick *)

\* What one tick leaves in the history.
Sample == [x : Int, y : Int \cup {NaN}, alpha : Alphas, by : Backends]

\* What Append does.
LEMMA AppendIs ==
  ASSUME NEW A, NEW f \in Seq(A), NEW e \in A
  PROVE  /\ Append(f, e) \in Seq(A) /\ Longer(f, Append(f, e)) /\ Append(f, e) # << >>
         /\ Len(Append(f, e)) = Len(f) + 1 /\ Append(f, e)[Len(f) + 1] = e
         /\ Len(f) \in Nat /\ (Len(f) = 0 <=> f = << >>)
         /\ \A k \in 1 .. Len(f) : Append(f, e)[k] = f[k]
BY DEF Longer

\* One more index.
LEMMA CountOne ==
  ASSUME NEW I, IsFiniteSet(I), NEW J, NEW e, e \notin I, NEW hit \in BOOLEAN,
         J = IF hit THEN I \cup {e} ELSE I
  PROVE  Cardinality(J) = Cardinality(I) + (IF hit THEN 1 ELSE 0)
         /\ Cardinality(J) \in Nat /\ Cardinality(I) \in Nat
<1>1. Cardinality(I) \in Nat
  BY FS_CardinalityType
<1>2. CASE hit
  <2>1. Cardinality(I \cup {e}) = Cardinality(I) + 1
    BY FS_AddElement
  <2> QED BY <1>1, <1>2, <2>1
<1>3. CASE ~hit
  BY <1>1, <1>3
<1> QED BY <1>2, <1>3

\* Two sets that differ in at most one element.
LEMMA OneMore ==
  ASSUME NEW A, NEW B, NEW I, NEW e, e \notin I, A \subseteq I \cup {e}, B \subseteq I,
         \A i \in I : i \in A <=> i \in B, NEW hit \in BOOLEAN, e \in A <=> hit
  PROVE  A = IF hit THEN B \cup {e} ELSE B
<1>1. CASE hit
  <2>1. A \subseteq B \cup {e}
    OBVIOUS
  <2>2. B \cup {e} \subseteq A
    BY <1>1
  <2> QED BY <1>1, <2>1, <2>2
<1>2. CASE ~hit
  <2>1. A \subseteq B
    BY <1>2
  <2>2. B \subseteq A
    OBVIOUS
  <2> QED BY <1>2, <2>1, <2>2
<1> QED BY <1>1, <1>2

\* What the state of a cross operator remembers of what it was fed.
CrossRight(st, f) ==
  st = IF f = << >> THEN CrossFresh ELSE CrossNext(f[Len(f)].x, f[Len(f)].y)

\* The ticks at which an excursion starts.
UpSet(s) == {i \in 2 .. Len(s) : LE(s[i - 1].x, s[i - 1].y) /\ LT(s[i].y, s[i].x)}
DownSet(s) == {i \in 2 .. Len(s) : LE(s[i - 1].y, s[i - 1].x) /\ LT(s[i].x, s[i].y)}

\* A tick of a cross operator: it fires exactly when an excursion starts.
LEMMA CrossStep ==
  ASSUME NEW st, NEW f \in Seq(Sample), CrossRight(st, f), NEW e \in Sample
  PROVE  LET g == Append(f, e)
         IN  /\ CrossRight(CrossNext(e.x, e.y), g)
             /\ UpIn(g) = UpIn(f) + (IF CrossedAbove(st, e.x, e.y) THEN 1 ELSE 0)
             /\ DownIn(g) = DownIn(f) + (IF CrossedBelow(st, e.x, e.y) THEN 1 ELSE 0)
             /\ UpIn(f) \in Nat /\ DownIn(f) \in Nat /\ UpIn(g) \in Nat /\ DownIn(g) \in Nat
<1> DEFINE g == Append(f, e)
           m == Len(f)
           up == CrossedAbove(st, e.x, e.y)
           down == CrossedBelow(st, e.x, e.y)
<1>1. /\ m \in Nat /\ Len(g) = m + 1 /\ g[m + 1] = e /\ g # << >>
      /\ (m = 0 <=> f = << >>) /\ \A k \in 1 .. m : g[k] = f[k]
  BY AppendIs
<1>2. up \in BOOLEAN /\ down \in BOOLEAN
  <2>1. st.init \in BOOLEAN
    BY DEF CrossRight, CrossFresh, CrossNext
  <2> QED BY <2>1 DEF CrossedAbove, CrossedBelow, LE, LT
<1>3. CrossRight(CrossNext(e.x, e.y), g)
  BY <1>1 DEF CrossRight
<1> HIDE DEF g
<1>4. /\ (up <=> m # 0 /\ LE(f[m].x, f[m].y) /\ LT(e.y, e.x))
      /\ (down <=> m # 0 /\ LE(f[m].y, f[m].x) /\ LT(e.x, e.y))
  <2>1. CASE m = 0
    <3>1. ~st.init
      BY <1>1, <2>1 DEF CrossRight, CrossFresh
    <3> QED BY <2>1, <3>1 DEF CrossedAbove, CrossedBelow
  <2>2. CASE m # 0
    <3>1. st.init /\ st.a = f[m].x /\ st.b = f[m].y
      BY <1>1, <2>2 DEF CrossRight, CrossNext
    <3> QED BY <2>2, <3>1 DEF CrossedAbove, CrossedBelow
  <2> QED BY <2>1, <2>2
<1> HIDE DEF up, down
<1>5. ASSUME NEW i \in 2 .. m + 1 PROVE g[i - 1] = f[i - 1] /\ (i # m + 1 => g[i] = f[i])
  <2>1. i - 1 \in 1 .. m /\ (i # m + 1 => i \in 1 .. m)
    BY <1>1
  <2> QED BY <1>1, <2>1
<1>6. UpSet(g) = IF up THEN UpSet(f) \cup {m + 1} ELSE UpSet(f)
  <2>1. ASSUME NEW i \in 2 .. m
        PROVE  i \in UpSet(g) <=> i \in UpSet(f)
    <3>1. i \in 2 .. m + 1 /\ i # m + 1
      BY <1>1
    <3>2. g[i - 1] = f[i - 1] /\ g[i] = f[i]
      BY <1>5, <3>1
    <3> QED BY <1>1, <3>1, <3>2 DEF UpSet
  <2>2. m + 1 \in UpSet(g) <=> up
    <3>1. CASE m = 0
      <4>1. m + 1 \notin 2 .. m + 1
        BY <3>1
      <4> QED BY <1>1, <1>4, <3>1, <4>1 DEF UpSet
    <3>2. CASE m # 0
      <4>1. m + 1 \in 2 .. m + 1 /\ (m + 1) - 1 = m
        BY <1>1, <3>2
      <4>2. g[m] = f[m]
        BY <1>5, <4>1
      <4>3. g[(m + 1) - 1] = f[m] /\ g[m + 1] = e
        BY <1>1, <4>1, <4>2
      <4>4. m + 1 \in UpSet(g)
              <=> (LE(g[(m + 1) - 1].x, g[(m + 1) - 1].y) /\ LT(g[m + 1].y, g[m + 1].x))
        BY <1>1, <4>1 DEF UpSet
      <4>5. m + 1 \in UpSet(g) <=> (LE(f[m].x, f[m].y) /\ LT(e.y, e.x))
        BY Zenon, <4>3, <4>4
      <4> QED BY Zenon, <1>4, <3>2, <4>5
    <3> QED BY <3>1, <3>2
  <2>3. UpSet(g) \subseteq (2 .. m) \cup {m + 1} /\ UpSet(f) \subseteq 2 .. m
    BY <1>1 DEF UpSet
  <2>4. m + 1 \notin 2 .. m
    BY <1>1
  <2> QED BY <1>2, <2>1, <2>2, <2>3, <2>4, OneMore
<1>7. DownSet(g) = IF down THEN DownSet(f) \cup {m + 1} ELSE DownSet(f)
  <2>1. ASSUME NEW i \in 2 .. m
        PROVE  i \in DownSet(g) <=> i \in DownSet(f)
    <3>1. i \in 2 .. m + 1 /\ i # m + 1
      BY <1>1
    <3>2. g[i - 1] = f[i - 1] /\ g[i] = f[i]
      BY <1>5, <3>1
    <3> QED BY <1>1, <3>1, <3>2 DEF DownSet
  <2>2. m + 1 \in DownSet(g) <=> down
    <3>1. CASE m = 0
      <4>1. m + 1 \notin 2 .. m + 1
        BY <3>1
      <4> QED BY <1>1, <1>4, <3>1, <4>1 DEF DownSet
    <3>2. CASE m # 0
      <4>1. m + 1 \in 2 .. m + 1 /\ (m + 1) - 1 = m
        BY <1>1, <3>2
      <4>2. g[m] = f[m]
        BY <1>5, <4>1
      <4>3. g[(m + 1) - 1] = f[m] /\ g[m + 1] = e
        BY <1>1, <4>1, <4>2
      <4>4. m + 1 \in DownSet(g)
              <=> (LE(g[(m + 1) - 1].y, g[(m + 1) - 1].x) /\ LT(g[m + 1].x, g[m + 1].y))
        BY <1>1, <4>1 DEF DownSet
      <4>5. m + 1 \in DownSet(g) <=> (LE(f[m].y, f[m].x) /\ LT(e.x, e.y))
        BY Zenon, <4>3, <4>4
      <4> QED BY Zenon, <1>4, <3>2, <4>5
    <3> QED BY <3>1, <3>2
  <2>3. DownSet(g) \subseteq (2 .. m) \cup {m + 1} /\ DownSet(f) \subseteq 2 .. m
    BY <1>1 DEF DownSet
  <2>4. m + 1 \notin 2 .. m
    BY <1>1
  <2> QED BY <1>2, <2>1, <2>2, <2>3, <2>4, OneMore
<1>8. /\ IsFiniteSet(UpSet(f)) /\ IsFiniteSet(DownSet(f))
      /\ m + 1 \notin UpSet(f) /\ m + 1 \notin DownSet(f)
  <2>1. IsFiniteSet(2 .. m)
    BY <1>1, FS_Interval
  <2>2. UpSet(f) \subseteq 2 .. m /\ DownSet(f) \subseteq 2 .. m
    BY DEF UpSet, DownSet
  <2>3. m + 1 \notin 2 .. m
    BY <1>1
  <2>4. IsFiniteSet(UpSet(f)) /\ IsFiniteSet(DownSet(f))
    BY <2>1, <2>2, FS_Subset
  <2> QED BY <2>2, <2>3, <2>4
<1>9. /\ UpIn(f) = Cardinality(UpSet(f)) /\ UpIn(g) = Cardinality(UpSet(g))
      /\ DownIn(f) = Cardinality(DownSet(f)) /\ DownIn(g) = Cardinality(DownSet(g))
  BY DEF UpIn, DownIn, UpSet, DownSet
<1>10. /\ UpIn(g) = UpIn(f) + (IF up THEN 1 ELSE 0) /\ UpIn(f) \in Nat /\ UpIn(g) \in Nat
  BY <1>2, <1>6, <1>8, <1>9, CountOne
<1>11. /\ DownIn(g) = DownIn(f) + (IF down THEN 1 ELSE 0)
       /\ DownIn(f) \in Nat /\ DownIn(g) \in Nat
  BY <1>2, <1>7, <1>8, <1>9, CountOne
<1> QED BY <1>3, <1>10, <1>11 DEF g, up, down

-----------------------------------------------------------------------------
(* ema *)

\* The mean of one sample more.
LEMMA MeanStep ==
  ASSUME NEW A, \A s \in A : s.x \in Int, NEW f \in Seq(A), NEW e \in A, NEW a, NEW b,
         Longer(a, b), Len(a) = Len(f), Numbers(b, 1, Len(b))
  PROVE  /\ f = << >> => WeightedMean(Append(f, e), b) = Whole(e.x)
         /\ f # << >> => WeightedMean(Append(f, e), b)
                           = Blend(b[Len(f) + 1], e.x, WeightedMean(f, a))
<1> DEFINE g == Append(f, e)
           m == Len(f)
<1>1. /\ g \in Seq(A) /\ Longer(f, g) /\ Len(g) = m + 1 /\ g[m + 1] = e
      /\ m \in Nat /\ (m = 0 <=> f = << >>)
  BY AppendIs
<1>2. Len(b) = m + 1
  BY DEF Longer
<1>3. IntSamples(g)
  BY <1>1 DEF IntSamples
<1> HIDE DEF g
<1>4. CASE f = << >>
  <2>1. Len(g) = 1 /\ Len(b) = 1 /\ g[1] = e /\ 1 \in 1 .. 1
    BY <1>1, <1>2, <1>4
  <2>2. IsNumber(b[1])
    BY <2>1 DEF Numbers
  <2>3. g[1].x \in Int
    BY <2>1
  <2>4. WeightedMean(g, b) = Whole(g[1].x)
    BY <2>1, <2>2, <2>3, MeanFirst
  <2> QED BY <1>4, <2>1, <2>4 DEF g
<1>5. CASE f # << >>
  <2>1. Len(a) # 0 /\ Len(f) = Len(a)
    BY <1>1, <1>5
  <2>2. WeightedMean(g, b) = Blend(b[Len(b)], g[Len(g)].x, WeightedMean(f, a))
    BY <1>1, <1>3, <2>1, MeanBlends
  <2> QED BY <1>1, <1>2, <1>5, <2>2 DEF g
<1> QED BY <1>4, <1>5

\* The same alpha for every sample.
AlphasOf(f, p) == [i \in 1 .. Len(f) |-> AlphaOf(p)]

\* The alpha of a period is a number.
LEMMA AlphaNumber ==
  ASSUME NEW p \in Nat \ {0}
  PROVE  IsNumber(AlphaOf(p))
<1>1. 2 \in Int /\ p + 1 \in Nat \ {0}
  OBVIOUS
<1> QED BY <1>1 DEF AlphaOf, IsNumber, Is

\* What the state of an ema remembers of what it was fed.
EmaRight(st, f, p) ==
  /\ DOMAIN st = {"init", "value", "alpha"} /\ st = [k \in DOMAIN st |-> st[k]]
  /\ st.init = (f # << >>)
  /\ f # << >> => st.value = WeightedMean(f, AlphasOf(f, p))

\* The mean of one sample more, all with the alpha of the period.
LEMMA EmaMean ==
  ASSUME NEW f \in Seq(Sample), NEW e \in Sample, NEW p \in Nat \ {0}
  PROVE  LET g == Append(f, e)
         IN  /\ f = << >> => WeightedMean(g, AlphasOf(g, p)) = Whole(e.x)
             /\ f # << >> => WeightedMean(g, AlphasOf(g, p))
                               = Blend(AlphaOf(p), e.x, WeightedMean(f, AlphasOf(f, p)))
<1> DEFINE g == Append(f, e)
           m == Len(f)
           a == AlphasOf(f, p)
           b == AlphasOf(g, p)
<1>1. m \in Nat /\ Len(g) = m + 1
  BY AppendIs
<1>2. \A s \in Sample : s.x \in Int
  BY DEF Sample
<1>3. /\ Len(a) = m /\ Len(b) = m + 1 /\ b[m + 1] = AlphaOf(p)
      /\ \A k \in 1 .. m : b[k] = a[k]
      /\ \A k \in 1 .. m + 1 : b[k] = AlphaOf(p)
  BY <1>1 DEF AlphasOf
<1> HIDE DEF a, b
<1>4. Longer(a, b)
  BY <1>1, <1>3 DEF Longer
<1>5. Numbers(b, 1, Len(b))
  BY <1>3, AlphaNumber DEF Numbers
<1> HIDE DEF g
<1>6. /\ f = << >> => WeightedMean(Append(f, e), b) = Whole(e.x)
      /\ f # << >> => WeightedMean(Append(f, e), b) = Blend(b[m + 1], e.x, WeightedMean(f, a))
  BY <1>2, <1>3, <1>4, <1>5, MeanStep
<1> QED BY <1>3, <1>6 DEF g, a, b

\* Every form of the tick keeps it so; the one of the runtime reads the alpha
\* it stored, and the specialised one must not be the first.
LEMMA EmaStep ==
  ASSUME NEW f \in Seq(Sample), NEW e \in Sample, NEW p \in Nat \ {0},
         NEW st, EmaRight(st, f, p)
  PROVE  LET g == Append(f, e)
         IN  /\ EmaRight(EvalEma(st, p, e.x), g, p)
             /\ EvalEma(st, p, e.x).alpha = st.alpha
             /\ st.alpha = AlphaOf(p) => /\ EmaRight(jit_rt_ema(st, p, e.x), g, p)
                                         /\ jit_rt_ema(st, p, e.x).alpha = AlphaOf(p)
             /\ EmaRight(EmitLoweredEma(st, p, e.x), g, p)
             /\ f # << >> => EmaRight(EmitLoweredEmaWarm(st, p, e.x), g, p)
<1> DEFINE g == Append(f, e)
           v == WeightedMean(g, AlphasOf(g, p))
           u == WeightedMean(f, AlphasOf(f, p))
           B == Blend(AlphaOf(p), e.x, u)
<1>1. /\ f = << >> => v = Whole(e.x)
      /\ f # << >> => v = B
  BY EmaMean
<1>2. g # << >>
  BY AppendIs
<1> HIDE DEF g, v, u
<1>3. CASE f = << >>
  <2>1. st.init = FALSE /\ v = Whole(e.x)
    BY <1>1, <1>3 DEF EmaRight
  <2> QED BY <1>2, <1>3, <2>1 DEF EmaRight, EvalEma, jit_rt_ema, EmitLoweredEma, g, v
<1>4. CASE f # << >>
  <2>1. st.init = TRUE /\ v = Blend(AlphaOf(p), e.x, st.value)
    BY <1>1, <1>4 DEF EmaRight, u
  <2> QED BY <1>2, <1>4, <2>1
      DEF EmaRight, EvalEma, jit_rt_ema, EmitLoweredEma, EmitLoweredEmaWarm, g, v
<1> QED BY <1>3, <1>4

-----------------------------------------------------------------------------
(* ema_alpha *)

\* The alpha supplied on each tick.
AlphasIn(h) == [i \in 1 .. Len(h) |-> h[i].alpha]

\* No runtime call met an alpha that was set since the tick before.
Settled(h) == \A i \in 2 .. Len(h) : h[i].by = "interp" \/ h[i].alpha = h[i - 1].alpha

\* What the state of ema_alpha remembers of the ticks.
AlphaRight(st, h) ==
  /\ DOMAIN st = {"init", "value", "alpha"} /\ st = [k \in DOMAIN st |-> st[k]]
  /\ st.init = (h # << >>)
  /\ h # << >> /\ Settled(h) => /\ st.value = WeightedMean(h, AlphasIn(h))
                                /\ st.alpha = h[Len(h)].alpha

\* The interpreter and the runtime call, each with its alpha.
LEMMA AlphaStep ==
  ASSUME NEW h \in Seq(Sample), NEW e \in Sample, NEW st, AlphaRight(st, h)
  PROVE  LET g == Append(h, e)
         IN  /\ e.by = "interp" => AlphaRight(EvalEmaAlpha(st, e.alpha, e.x), g)
             /\ e.by # "interp" => AlphaRight(jit_rt_ema_alpha(st, e.alpha, e.x), g)
<1> DEFINE g == Append(h, e)
           m == Len(h)
           a == AlphasIn(h)
           b == AlphasIn(g)
           v == WeightedMean(g, b)
<1>1. /\ g \in Seq(Sample) /\ Len(g) = m + 1 /\ g[m + 1] = e /\ g # << >>
      /\ m \in Nat /\ (m = 0 <=> h = << >>) /\ \A k \in 1 .. m : g[k] = h[k]
  BY AppendIs
<1>2. \A s \in Sample : s.x \in Int
  BY DEF Sample
<1> HIDE DEF g
<1>3. /\ Len(a) = m /\ Len(b) = m + 1 /\ DOMAIN a = 1 .. m /\ DOMAIN b = 1 .. m + 1
      /\ \A k \in 1 .. m : a[k] = h[k].alpha
      /\ \A k \in 1 .. m + 1 : b[k] = g[k].alpha
  BY <1>1 DEF AlphasIn
<1> HIDE DEF a, b
<1>4. Longer(a, b)
  BY <1>1, <1>3 DEF Longer
<1>5. Numbers(b, 1, Len(b))
  <2>1. ASSUME NEW k \in 1 .. m + 1 PROVE IsNumber(b[k])
    <3>1. g[k] \in Sample
      BY <1>1
    <3>2. b[k] \in Alphas
      BY <1>3, <3>1 DEF Sample
    <3>3. b[k][1] \in Int /\ b[k][2] \in Nat \ {0} /\ b[k] = Rat(b[k][1], b[k][2])
      BY <3>2, RecurrenceAssumption
    <3> QED BY <3>3 DEF IsNumber, Is
  <2> QED BY <1>3, <2>1 DEF Numbers
<1>6. /\ h = << >> => v = Whole(e.x)
      /\ h # << >> => v = Blend(e.alpha, e.x, WeightedMean(h, a))
  <2>1. b[m + 1] = e.alpha
    BY <1>1, <1>3
  <2> QED BY <1>2, <1>3, <1>4, <1>5, <2>1, MeanStep DEF g
<1>7. m # 0 /\ Settled(g) => Settled(h) /\ (e.by = "interp" \/ e.alpha = h[m].alpha)
  <2> SUFFICES ASSUME m # 0, Settled(g)
               PROVE  Settled(h) /\ (e.by = "interp" \/ e.alpha = h[m].alpha)
    OBVIOUS
  <2>1. \A i \in 2 .. m + 1 : g[i].by = "interp" \/ g[i].alpha = g[i - 1].alpha
    BY <1>1 DEF Settled
  <2>2. m + 1 \in 2 .. m + 1 /\ (m + 1) - 1 = m /\ g[m] = h[m]
    BY <1>1
  <2>3. e.by = "interp" \/ e.alpha = h[m].alpha
    BY <1>1, <2>1, <2>2
  <2>4. ASSUME NEW i \in 2 .. m PROVE h[i].by = "interp" \/ h[i].alpha = h[i - 1].alpha
    <3>1. i \in 2 .. m + 1 /\ i \in 1 .. m /\ i - 1 \in 1 .. m
      BY <1>1
    <3>2. g[i] = h[i] /\ g[i - 1] = h[i - 1]
      BY <1>1, <3>1
    <3> QED BY <2>1, <3>1, <3>2
  <2> QED BY <2>3, <2>4 DEF Settled
<1>8. /\ st.init = (h # << >>) /\ DOMAIN st = {"init", "value", "alpha"}
      /\ st = [k \in DOMAIN st |-> st[k]]
      /\ h # << >> /\ Settled(h) => st.value = WeightedMean(h, a) /\ st.alpha = h[m].alpha
  BY DEF AlphaRight, a
<1>9. ASSUME NEW t, DOMAIN t = {"init", "value", "alpha"}, t = [k \in DOMAIN t |-> t[k]],
             t.init = TRUE, Settled(g) => t.value = v /\ t.alpha = e.alpha
      PROVE  AlphaRight(t, g)
  BY <1>1, <1>9 DEF AlphaRight, b
<1> HIDE DEF v
<1> DEFINE stepped == EvalEmaAlpha(st, e.alpha, e.x)
           called == jit_rt_ema_alpha(st, e.alpha, e.x)
<1>10. CASE h = << >>
  <2>1. st.init = FALSE /\ v = Whole(e.x)
    BY <1>6, <1>8, <1>10
  <2>2. stepped = [init |-> TRUE, value |-> v, alpha |-> e.alpha]
    BY <2>1 DEF EvalEmaAlpha
  <2>3. called = [init |-> TRUE, value |-> v, alpha |-> e.alpha]
    BY <2>1 DEF jit_rt_ema_alpha
  <2>4. AlphaRight([init |-> TRUE, value |-> v, alpha |-> e.alpha], g)
    BY <1>9
  <2> QED BY <2>2, <2>3, <2>4 DEF g
<1>11. CASE h # << >>
  <2>1. st.init = TRUE /\ m # 0
    BY <1>1, <1>8, <1>11
  <2>2. Settled(g) => v = Blend(e.alpha, e.x, st.value)
    BY <1>6, <1>7, <1>8, <1>11, <2>1
  <2>3. AlphaRight(stepped, g)
    <3> DEFINE t == [init |-> TRUE, alpha |-> e.alpha, value |-> Blend(e.alpha, e.x, st.value)]
    <3>1. stepped = t
      BY <2>1 DEF EvalEmaAlpha
    <3>2. /\ DOMAIN t = {"init", "value", "alpha"} /\ t = [k \in DOMAIN t |-> t[k]]
          /\ t.init = TRUE /\ t.alpha = e.alpha /\ t.value = Blend(e.alpha, e.x, st.value)
      OBVIOUS
    <3> HIDE DEF t, stepped
    <3>3. AlphaRight(t, g)
      BY <1>9, <2>2, <3>2
    <3> QED BY <3>1, <3>3
  <2>4. ASSUME e.by # "interp" PROVE AlphaRight(called, g)
    <3>1. called = [st EXCEPT !.value = Blend(st.alpha, e.x, @)]
      BY <2>1 DEF jit_rt_ema_alpha
    <3>2. /\ DOMAIN called = {"init", "value", "alpha"}
          /\ called = [k \in DOMAIN called |-> called[k]]
          /\ called.init = TRUE /\ called.alpha = st.alpha
          /\ called.value = Blend(st.alpha, e.x, st.value)
      BY <1>8, <2>1, <3>1
    <3>3. Settled(g) => st.alpha = e.alpha
      BY <1>7, <1>8, <1>11, <2>1, <2>4
    <3> HIDE DEF called
    <3> QED BY <1>9, <2>2, <3>2, <3>3
  <2> QED BY <2>3, <2>4 DEF g
<1> QED BY <1>10, <1>11

-----------------------------------------------------------------------------
(* kalman1d *)

\* The measurements, and their mean.
Measured(f) == [i \in 1 .. Len(f) |-> Whole(f[i].x)]
SampleMean(f) == FDiv(Fold("+", Measured(f), 1, Len(f)), Whole(Len(f)))

\* What the state of a filter remembers of what it was fed.
KalmanRight(st, f, q, r) ==
  /\ DOMAIN st = {"init", "xhat", "p"} /\ st = [k \in DOMAIN st |-> st[k]]
  /\ st.init = (f # << >>)
  /\ f # << >> => /\ st.p = Variance(q, r, Len(f)) /\ IsPositive(st.p)
                  /\ q = 0 => Is(st.p, r, Len(f)) /\ st.xhat = SampleMean(f)

\* One measurement more in the sum.
LEMMA MeasuredStep ==
  ASSUME NEW f \in Seq(Sample), NEW e \in Sample
  PROVE  LET g == Append(f, e)
             S == Fold("+", Measured(f), 1, Len(f))
         IN  /\ IsNumber(S)
             /\ Fold("+", Measured(g), 1, Len(f) + 1) = FAdd(S, Whole(e.x))
             /\ f = << >> => FAdd(S, Whole(e.x)) = Whole(e.x)
<1> DEFINE g == Append(f, e)
           m == Len(f)
           s == Measured(f)
           t == Measured(g)
           S == Fold("+", s, 1, m)
<1>1. /\ g \in Seq(Sample) /\ Len(g) = m + 1 /\ g[m + 1] = e
      /\ m \in Nat /\ (m = 0 <=> f = << >>) /\ \A k \in 1 .. m : g[k] = f[k]
  BY AppendIs
<1>2. e.x \in Int /\ \A k \in 1 .. m : f[k].x \in Int
  <2>1. \A k \in 1 .. m : f[k] \in Sample
    BY <1>1
  <2> QED BY <2>1 DEF Sample
<1>3. /\ \A k \in 1 .. m : s[k] = Whole(f[k].x) /\ t[k] = Whole(f[k].x)
      /\ t[m + 1] = Whole(e.x)
  BY <1>1 DEF Measured
<1> HIDE DEF g, s, t
<1>4. Numbers(s, 1, m)
  BY <1>2, <1>3, WholeNumber DEF Numbers
<1>5. 1 \in Nat \ {0} /\ 1 <= m + 1 /\ m \in Nat
  BY <1>1
<1>6. IsNumber(S)
  BY <1>4, <1>5, FoldNumber
<1>7. Fold("+", t, 1, m) = S
  BY <1>3, <1>5, FoldSame
<1>8. Fold("+", t, 1, m + 1) = Join("+", Fold("+", t, 1, m), t[m + 1])
  BY <1>5, FoldNext
<1>9. Fold("+", t, 1, m + 1) = FAdd(S, Whole(e.x))
  BY <1>3, <1>7, <1>8 DEF Join
<1>10. f = << >> => FAdd(S, Whole(e.x)) = Whole(e.x)
  <2> SUFFICES ASSUME f = << >> PROVE FAdd(S, Whole(e.x)) = Whole(e.x)
    OBVIOUS
  <2>1. m = 0
    BY <1>1
  <2>2. Fold("+", s, 1, 0) = Whole(0)
    <3>1. 0 \in Nat /\ 1 \in Nat \ {0} /\ 0 < 1
      OBVIOUS
    <3>2. Fold("+", s, 1, 0) = Unit("+")
      BY <3>1, FoldSteps
    <3> QED BY <3>2 DEF Unit
  <2>3. IsNumber(Whole(e.x))
    BY <1>2, WholeNumber
  <2>4. FAdd(Whole(0), Whole(e.x)) = Whole(e.x)
    BY <2>3, Units
  <2> QED BY <2>1, <2>2, <2>4
<1> QED BY <1>6, <1>9, <1>10 DEF g, s, t

\* What both forms of the tick leave.
KalmanNext(st, x, q, r) ==
  IF st.init THEN [init |-> TRUE, xhat |-> NewMean(st.xhat, Gain(st.p, q, r), x),
                   p |-> NewVar(st.p, q, r)]
  ELSE [init |-> TRUE, xhat |-> Whole(x), p |-> Whole(r)]

\* The runtime and the lowered code compute the same.
LEMMA KalmanForms ==
  ASSUME NEW st, NEW f, NEW q, NEW r, KalmanRight(st, f, q, r), NEW x
  PROVE  /\ Kalman1dStep(st, x, Whole(q), Whole(r)) = KalmanNext(st, x, q, r)
         /\ EmitLoweredKalman1d(st, x, Whole(q), Whole(r)) = KalmanNext(st, x, q, r)
<1>1. /\ DOMAIN st = {"init", "xhat", "p"} /\ st = [k \in DOMAIN st |-> st[k]]
      /\ st.init \in BOOLEAN
  BY DEF KalmanRight
<1>2. CASE st.init = TRUE
  <2>1. [st EXCEPT !.xhat = FAdd(@, FMul(Gain(st.p, q, r), FSub(Whole(x), @))),
                   !.p = FMul(FSub(Whole(1), Gain(st.p, q, r)), Pred(st.p, q))]
        = [init |-> TRUE, xhat |-> NewMean(st.xhat, Gain(st.p, q, r), x),
           p |-> NewVar(st.p, q, r)]
    <3> DEFINE u == [st EXCEPT !.xhat = FAdd(@, FMul(Gain(st.p, q, r), FSub(Whole(x), @))),
                     !.p = FMul(FSub(Whole(1), Gain(st.p, q, r)), Pred(st.p, q))]
    <3>1. DOMAIN u = {"init", "xhat", "p"} /\ u = [k \in DOMAIN u |-> u[k]]
      BY <1>1
    <3>2. /\ u.init = TRUE /\ u.xhat = NewMean(st.xhat, Gain(st.p, q, r), x)
          /\ u.p = NewVar(st.p, q, r)
      BY <1>1, <1>2 DEF NewMean, NewVar
    <3> HIDE DEF u
    <3>3. u = [init |-> TRUE, xhat |-> NewMean(st.xhat, Gain(st.p, q, r), x),
               p |-> NewVar(st.p, q, r)]
      BY <3>1, <3>2
    <3> QED BY <3>3 DEF u
  <2> QED BY <1>2, <2>1 DEF Kalman1dStep, EmitLoweredKalman1d, KalmanNext, Gain, Pred,
                            NewMean, NewVar
<1>3. CASE st.init = FALSE
  BY <1>3 DEF Kalman1dStep, EmitLoweredKalman1d, KalmanNext
<1> QED BY <1>1, <1>2, <1>3

\* A tick keeps what the state remembers.
LEMMA KalmanStep ==
  ASSUME NEW f \in Seq(Sample), NEW e \in Sample, NEW q \in Nat, NEW r \in Nat \ {0},
         NEW st, KalmanRight(st, f, q, r)
  PROVE  KalmanRight(KalmanNext(st, e.x, q, r), Append(f, e), q, r)
<1> DEFINE g == Append(f, e)
           m == Len(f)
           S == Fold("+", Measured(f), 1, m)
           n == KalmanNext(st, e.x, q, r)
<1>1. g # << >> /\ Len(g) = m + 1 /\ m \in Nat /\ (m = 0 <=> f = << >>) /\ e.x \in Int
  BY AppendIs DEF Sample
<1>2. /\ IsNumber(S) /\ Fold("+", Measured(g), 1, m + 1) = FAdd(S, Whole(e.x))
      /\ f = << >> => FAdd(S, Whole(e.x)) = Whole(e.x)
  BY MeasuredStep
<1>3. SampleMean(g) = FDiv(FAdd(S, Whole(e.x)), Whole(m + 1))
  BY <1>1, <1>2 DEF SampleMean
<1>4. SampleMean(f) = FDiv(S, Whole(m))
  BY DEF SampleMean
<1>5. n.init = TRUE /\ DOMAIN n = {"init", "xhat", "p"} /\ n = [k \in DOMAIN n |-> n[k]]
  BY DEF KalmanNext
<1> HIDE DEF g, S
<1>6. CASE f = << >>
  <2>1. st.init = FALSE /\ m = 0
    BY <1>1, <1>6 DEF KalmanRight
  <2>2. n.p = Whole(r) /\ n.xhat = Whole(e.x)
    BY <2>1 DEF KalmanNext
  <2>3. Is(Whole(r), r, 1) /\ Is(Whole(e.x), e.x, 1) /\ Is(Whole(1), 1, 1)
    BY <1>1, WholeIs
  <2>4. Variance(q, r, m + 1) = Whole(r)
    BY <2>1, VarianceSteps
  <2>5. SampleMean(g) = Whole(e.x)
    <3>1. SampleMean(g) = FDiv(Whole(e.x), Whole(1))
      BY <1>2, <1>3, <1>6, <2>1
    <3>2. 1 \in Nat \ {0}
      OBVIOUS
    <3>3. Is(FDiv(Whole(e.x), Whole(1)), e.x * 1, 1 * 1)
      BY <2>3, <3>2, Ratio, Zenon
    <3>4. e.x * 1 = e.x /\ 1 * 1 = 1
      BY <1>1
    <3>5. Is(FDiv(Whole(e.x), Whole(1)), e.x, 1)
      BY <3>3, <3>4, Zenon
    <3>6. FDiv(Whole(e.x), Whole(1)) = Whole(e.x)
      BY <2>3, <3>5 DEF Is
    <3> QED BY <3>1, <3>6
  <2>6. IsPositive(Whole(r))
    BY <2>3 DEF IsPositive
  <2> HIDE DEF n
  <2>7. Len(g) = 1 /\ Variance(q, r, Len(g)) = Whole(r)
    BY <1>1, <2>1, <2>4
  <2>8. KalmanRight(n, g, q, r)
    BY <1>1, <1>5, <2>2, <2>3, <2>5, <2>6, <2>7 DEF KalmanRight
  <2> QED BY <2>8 DEF n, g
<1>7. CASE f # << >>
  <2>1. /\ st.init = TRUE /\ m \in Nat \ {0} /\ st.p = Variance(q, r, m) /\ IsPositive(st.p)
        /\ q = 0 => Is(st.p, r, m) /\ st.xhat = SampleMean(f)
    BY <1>1, <1>7 DEF KalmanRight
  <2>2. n.p = NewVar(st.p, q, r) /\ n.xhat = NewMean(st.xhat, Gain(st.p, q, r), e.x)
    BY <2>1 DEF KalmanNext
  <2>3. n.p = VarNext(q, r, st.p) /\ IsPositive(n.p)
    BY <2>1, <2>2, VarianceUpdates
  <2>4. Variance(q, r, m + 1) = VarNext(q, r, st.p)
    <3>1. \A k \in Nat \ {0} : Variance(q, r, k + 1) = VarNext(q, r, Variance(q, r, k))
      BY VarianceSteps
    <3>2. m \in Nat \ {0}
      BY <2>1
    <3> HIDE DEF m
    <3>3. Variance(q, r, m + 1) = VarNext(q, r, Variance(q, r, m))
      BY <3>1, <3>2
    <3> QED BY <2>1, <3>3
  <2>5. q = 0 => Is(n.p, r, m + 1) /\ n.xhat = SampleMean(g)
    <3> SUFFICES ASSUME q = 0 PROVE Is(n.p, r, m + 1) /\ n.xhat = SampleMean(g)
      OBVIOUS
    <3>1. Is(st.p, r, m) /\ st.xhat = FDiv(S, Whole(m))
      BY <1>4, <2>1
    <3>2. /\ Is(NewVar(st.p, 0, r), r, m + 1)
          /\ NewMean(FDiv(S, Whole(m)), Gain(st.p, 0, r), e.x)
               = FDiv(FAdd(S, Whole(e.x)), Whole(m + 1))
      BY <1>1, <1>2, <2>1, <3>1, MeanUpdates
    <3> QED BY <1>3, <2>2, <3>1, <3>2
  <2> HIDE DEF n
  <2>6. KalmanRight(n, g, q, r)
    BY <1>1, <1>5, <2>3, <2>4, <2>5 DEF KalmanRight
  <2> QED BY <2>6 DEF n, g
<1> QED BY <1>6, <1>7

-----------------------------------------------------------------------------
(* The inductive invariant *)

\* No tick of h was lowered code's; all were.
NoneLowered(h) == \A k \in 1 .. Len(h) : h[k].by # "lowered"
AllLowered(h) == \A k \in 1 .. Len(h) : h[k].by = "lowered"

\* One more tick.
LEMMA LoweredStep ==
  ASSUME NEW h \in Seq(Sample), NEW e \in Sample
  PROVE  LET g == Append(h, e)
         IN  /\ NoneLowered(g) <=> NoneLowered(h) /\ e.by # "lowered"
             /\ AllLowered(g) <=> AllLowered(h) /\ e.by = "lowered"
<1> DEFINE g == Append(h, e)
           m == Len(h)
<1>1. /\ Len(g) = m + 1 /\ g[m + 1] = e /\ m \in Nat /\ \A k \in 1 .. m : g[k] = h[k]
  BY AppendIs
<1> HIDE DEF g
<1>2. m + 1 \in 1 .. m + 1 /\ \A k \in 1 .. m : k \in 1 .. m + 1
  BY <1>1
<1>3. \A k \in 1 .. m + 1 : k \in 1 .. m \/ k = m + 1
  BY <1>1
<1> QED BY <1>1, <1>2, <1>3 DEF NoneLowered, AllLowered, g

\* Types.
RecTypes ==
  /\ period \in Periods /\ noise \in Noises /\ alpha \in Alphas
  /\ backend \in Backends /\ warm \in BOOLEAN /\ hist \in Seq(Sample)

\* Specialised code runs on states that lowered code alone has ticked.
WarmInv == warm => backend = "lowered" /\ hist # << >> /\ AllLowered(hist)

\* Arrays that were fed the whole history remember it.
ClassicInv ==
  /\ ema.alpha = AlphaOf(period)
  /\ NoneLowered(hist) =>
       /\ EmaRight(ema, hist, period)
       /\ CrossRight(above, hist) /\ CrossRight(below, hist)
       /\ KalmanRight(kalman, hist, noise[1], noise[2])
LoweredInv ==
  AllLowered(hist) =>
    /\ EmaRight(lowEma, hist, period)
    /\ CrossRight(lowAbove, hist) /\ CrossRight(lowBelow, hist)
    /\ KalmanRight(lowKalman, hist, noise[1], noise[2])

\* The firings so far, as long as one array saw them all.
FiresInv ==
  NoneLowered(hist) \/ AllLowered(hist) =>
    fires.above = UpIn(hist) /\ fires.below = DownIn(hist)

\* The last tick answered with the state it left.
OutInv ==
  hist # << >> =>
    /\ out.emaAlpha = emaAlpha.value
    /\ AllLowered(hist) => out.ema = lowEma.value /\ out.kalman = lowKalman.xhat
    /\ NoneLowered(hist) => out.ema = ema.value /\ out.kalman = kalman.xhat

\* All of it.
RecInv == /\ RecTypes /\ WarmInv /\ ClassicInv /\ LoweredInv
          /\ AlphaRight(emaAlpha, hist) /\ OutInv /\ FiresInv

\* It holds of a prewarmed context.
LEMMA RecInit ==
  ASSUME Init
  PROVE  RecInv
<1>1. RecTypes
  <2>1. /\ period \in Periods /\ noise \in Noises /\ alpha \in Alphas
        /\ backend \in Backends /\ warm \in BOOLEAN
    BY Zenon DEF Init
  <2>2. hist \in Seq(Sample)
    BY DEF Init
  <2> QED BY <2>1, <2>2 DEF RecTypes
<1>2. WarmInv /\ OutInv
  BY DEF Init, WarmInv, OutInv
<1>3. ClassicInv
  BY DEF Init, ClassicInv, EmaRight, EmaPrewarmed, EmaFresh, CrossRight, KalmanRight,
         KalmanFresh
<1>4. LoweredInv
  BY DEF Init, LoweredInv, EmaRight, EmaFresh, CrossRight, KalmanRight, KalmanFresh
<1>5. AlphaRight(emaAlpha, hist)
  BY DEF Init, AlphaRight, EmaFresh
<1>6. FiresInv
  <2>1. 2 .. Len(<< >>) = {}
    OBVIOUS
  <2>2. Cardinality({}) = 0
    BY FS_EmptySet
  <2>3. UpIn(<< >>) = 0 /\ DownIn(<< >>) = 0
    <3>1. UpSet(<< >>) = {} /\ DownSet(<< >>) = {}
      BY <2>1 DEF UpSet, DownSet
    <3>2. UpIn(<< >>) = Cardinality(UpSet(<< >>)) /\ DownIn(<< >>) = Cardinality(DownSet(<< >>))
      BY DEF UpIn, DownIn, UpSet, DownSet
    <3> QED BY <2>2, <3>1, <3>2
  <2>4. hist = << >> /\ fires.above = 0 /\ fires.below = 0
    BY DEF Init
  <2> QED BY <2>3, <2>4 DEF FiresInv
<1> QED BY <1>1, <1>2, <1>3, <1>4, <1>5, <1>6 DEF RecInv

\* What a tick of the inputs leaves in the history.
LEMMA InputTypes ==
  ASSUME NEW i \in Inputs, RecTypes
  PROVE  /\ [x |-> i[1], y |-> i[2], alpha |-> alpha, by |-> backend] \in Sample
         /\ period \in Nat \ {0} /\ noise[1] \in Nat /\ noise[2] \in Nat \ {0}
BY RecurrenceAssumption DEF RecTypes, Sample

\* A tick of the interpreter or of opaque calls keeps it.
LEMMA ClassicKeeps ==
  ASSUME RecInv, NEW i \in Inputs, TickClassic(i[1], i[2])
  PROVE  RecInv'
<1> DEFINE x == i[1]
           y == i[2]
           e == [x |-> x, y |-> y, alpha |-> alpha, by |-> backend]
           q == noise[1]
           r == noise[2]
           h == hist
           g == Append(h, e)
           interpreted == backend = "interp"
<1>1. /\ RecTypes /\ WarmInv /\ ClassicInv /\ AlphaRight(emaAlpha, hist) /\ FiresInv
  BY DEF RecInv
<1>2. /\ e \in Sample /\ period \in Nat \ {0} /\ q \in Nat /\ r \in Nat \ {0}
      /\ h \in Seq(Sample)
  BY <1>1, InputTypes DEF RecTypes
<1>3. e.x = x /\ e.y = y /\ e.alpha = alpha /\ e.by = backend
  OBVIOUS
<1>4. /\ ema' = IF interpreted THEN EvalEma(ema, period, x) ELSE jit_rt_ema(ema, period, x)
      /\ kalman' = Kalman1dStep(kalman, x, Whole(q), Whole(r))
      /\ above' = CrossNext(x, y) /\ below' = CrossNext(x, y)
      /\ emaAlpha' = IF interpreted THEN EvalEmaAlpha(emaAlpha, alpha, x)
                                    ELSE jit_rt_ema_alpha(emaAlpha, alpha, x)
      /\ hist' = g /\ backend \in {"interp", "opaque"}
      /\ UNCHANGED <<period, noise, alpha, backend, warm, lowered>>
  BY DEF TickClassic, TickWith
<1>5. /\ out'.ema = ema'.value /\ out'.kalman = kalman'.xhat /\ out'.emaAlpha = emaAlpha'.value
      /\ fires'.above = fires.above + (IF CrossedAbove(above, x, y) THEN 1 ELSE 0)
      /\ fires'.below = fires.below + (IF CrossedBelow(below, x, y) THEN 1 ELSE 0)
  BY DEF TickClassic, TickWith
<1> HIDE DEF x, y, e, q, r
<1>6. g \in Seq(Sample) /\ g # << >>
  BY <1>2, AppendIs
<1>7. (NoneLowered(g) => NoneLowered(h)) /\ ~AllLowered(g)
  <2>1. e.by # "lowered"
    BY <1>3, <1>4
  <2> QED BY <1>2, <2>1, LoweredStep
<1>8. RecTypes'
  BY <1>1, <1>4, <1>6 DEF RecTypes, lowered
<1>9. WarmInv'
  BY <1>1, <1>4 DEF WarmInv
<1>10. ema'.alpha = AlphaOf(period)
  <2>1. ema.alpha = AlphaOf(period)
    BY <1>1 DEF ClassicInv
  <2> QED BY <1>4, <2>1 DEF EvalEma, jit_rt_ema
<1>11. ASSUME NoneLowered(h) PROVE EmaRight(ema', g, period)
  <2>1. EmaRight(ema, h, period) /\ ema.alpha = AlphaOf(period)
    BY <1>1, <1>11 DEF ClassicInv
  <2>2. /\ EmaRight(EvalEma(ema, period, e.x), g, period)
        /\ EmaRight(jit_rt_ema(ema, period, e.x), g, period)
    BY <1>2, <2>1, EmaStep
  <2> QED BY <1>3, <1>4, <2>2
<1>12. ASSUME NoneLowered(h) PROVE KalmanRight(kalman', g, q, r)
  <2>1. KalmanRight(kalman, h, q, r)
    BY <1>1, <1>12 DEF ClassicInv, q, r
  <2>2. KalmanRight(KalmanNext(kalman, e.x, q, r), g, q, r)
    BY <1>2, <2>1, KalmanStep
  <2>3. kalman' = KalmanNext(kalman, x, q, r)
    BY <1>4, <2>1, KalmanForms
  <2> QED BY <1>3, <2>2, <2>3
<1>13. ASSUME NoneLowered(h)
       PROVE  /\ CrossRight(above', g) /\ CrossRight(below', g)
              /\ fires'.above = UpIn(g) /\ fires'.below = DownIn(g)
  <2>1. CrossRight(above, h) /\ CrossRight(below, h)
    BY <1>1, <1>13 DEF ClassicInv
  <2>2. fires.above = UpIn(h) /\ fires.below = DownIn(h)
    BY <1>1, <1>13 DEF FiresInv
  <2>3. /\ CrossRight(CrossNext(e.x, e.y), g)
        /\ UpIn(g) = UpIn(h) + (IF CrossedAbove(above, e.x, e.y) THEN 1 ELSE 0)
        /\ DownIn(g) = DownIn(h) + (IF CrossedBelow(below, e.x, e.y) THEN 1 ELSE 0)
    BY <1>2, <2>1, CrossStep
  <2> QED BY <1>3, <1>4, <1>5, <2>2, <2>3
<1> HIDE DEF g
<1>14. ClassicInv'
  <2>1. NoneLowered(hist') =>
          /\ EmaRight(ema', hist', period')
          /\ CrossRight(above', hist') /\ CrossRight(below', hist')
          /\ KalmanRight(kalman', hist', noise'[1], noise'[2])
    BY <1>4, <1>7, <1>11, <1>12, <1>13 DEF q, r
  <2> QED BY <1>4, <1>10, <2>1 DEF ClassicInv, NoneLowered
<1>15. LoweredInv' /\ OutInv' /\ FiresInv'
  <2>1. ~AllLowered(hist')
    BY <1>4, <1>7
  <2>2. FiresInv'
    BY <1>4, <1>7, <1>13, <2>1 DEF FiresInv, NoneLowered, AllLowered
  <2> QED BY <1>5, <2>1, <2>2 DEF LoweredInv, OutInv, AllLowered
<1>16. AlphaRight(emaAlpha', hist')
  <2>1. /\ e.by = "interp" => AlphaRight(EvalEmaAlpha(emaAlpha, e.alpha, e.x), g)
        /\ e.by # "interp" => AlphaRight(jit_rt_ema_alpha(emaAlpha, e.alpha, e.x), g)
    BY <1>1, <1>2, AlphaStep DEF g
  <2> QED BY <1>3, <1>4, <2>1
<1> QED BY <1>8, <1>9, <1>14, <1>15, <1>16 DEF RecInv

\* A tick of lowered code keeps it, specialised or not.
LEMMA LoweredKeeps ==
  ASSUME RecInv, NEW i \in Inputs, TickLowered(i[1], i[2])
  PROVE  RecInv'
<1> DEFINE x == i[1]
           y == i[2]
           e == [x |-> x, y |-> y, alpha |-> alpha, by |-> backend]
           q == noise[1]
           r == noise[2]
           h == hist
           g == Append(h, e)
<1>1. /\ RecTypes /\ WarmInv /\ ClassicInv /\ LoweredInv /\ AlphaRight(emaAlpha, hist)
      /\ FiresInv
  BY DEF RecInv
<1>2. /\ e \in Sample /\ period \in Nat \ {0} /\ q \in Nat /\ r \in Nat \ {0}
      /\ h \in Seq(Sample)
  BY <1>1, InputTypes DEF RecTypes
<1>3. e.x = x /\ e.y = y /\ e.alpha = alpha /\ e.by = backend
  OBVIOUS
<1>4. /\ lowEma' = IF warm THEN EmitLoweredEmaWarm(lowEma, period, x)
                             ELSE EmitLoweredEma(lowEma, period, x)
      /\ lowKalman' = EmitLoweredKalman1d(lowKalman, x, Whole(q), Whole(r))
      /\ lowAbove' = CrossNext(x, y) /\ lowBelow' = CrossNext(x, y)
      /\ emaAlpha' = jit_rt_ema_alpha(emaAlpha, alpha, x)
      /\ hist' = g /\ backend = "lowered"
      /\ UNCHANGED <<period, noise, alpha, backend, warm, ema, above, below, kalman>>
  BY DEF TickLowered, TickWith
<1>5. /\ out'.ema = lowEma'.value /\ out'.kalman = lowKalman'.xhat
      /\ out'.emaAlpha = emaAlpha'.value
      /\ fires'.above = fires.above + (IF CrossedAbove(lowAbove, x, y) THEN 1 ELSE 0)
      /\ fires'.below = fires.below + (IF CrossedBelow(lowBelow, x, y) THEN 1 ELSE 0)
  BY DEF TickLowered, TickWith
<1> HIDE DEF x, y, e, q, r
<1>6. g \in Seq(Sample) /\ g # << >>
  BY <1>2, AppendIs
<1>7. (AllLowered(g) <=> AllLowered(h)) /\ ~NoneLowered(g)
  <2>1. e.by = "lowered"
    BY <1>3, <1>4
  <2> QED BY <1>2, <2>1, LoweredStep
<1>8. RecTypes'
  BY <1>1, <1>4, <1>6 DEF RecTypes
<1>9. ASSUME AllLowered(h) PROVE EmaRight(lowEma', g, period)
  <2>1. EmaRight(lowEma, h, period)
    BY <1>1, <1>9 DEF LoweredInv
  <2>2. /\ EmaRight(EmitLoweredEma(lowEma, period, e.x), g, period)
        /\ h # << >> => EmaRight(EmitLoweredEmaWarm(lowEma, period, e.x), g, period)
    BY <1>2, <2>1, EmaStep
  <2>3. warm => h # << >>
    BY <1>1 DEF WarmInv
  <2> QED BY <1>3, <1>4, <2>2, <2>3
<1>10. ASSUME AllLowered(h) PROVE KalmanRight(lowKalman', g, q, r)
  <2>1. KalmanRight(lowKalman, h, q, r)
    BY <1>1, <1>10 DEF LoweredInv, q, r
  <2>2. KalmanRight(KalmanNext(lowKalman, e.x, q, r), g, q, r)
    BY <1>2, <2>1, KalmanStep
  <2>3. lowKalman' = KalmanNext(lowKalman, x, q, r)
    BY <1>4, <2>1, KalmanForms
  <2> QED BY <1>3, <2>2, <2>3
<1>11. ASSUME AllLowered(h)
       PROVE  /\ CrossRight(lowAbove', g) /\ CrossRight(lowBelow', g)
              /\ fires'.above = UpIn(g) /\ fires'.below = DownIn(g)
  <2>1. CrossRight(lowAbove, h) /\ CrossRight(lowBelow, h)
    BY <1>1, <1>11 DEF LoweredInv
  <2>2. fires.above = UpIn(h) /\ fires.below = DownIn(h)
    BY <1>1, <1>11 DEF FiresInv
  <2>3. /\ CrossRight(CrossNext(e.x, e.y), g)
        /\ UpIn(g) = UpIn(h) + (IF CrossedAbove(lowAbove, e.x, e.y) THEN 1 ELSE 0)
        /\ DownIn(g) = DownIn(h) + (IF CrossedBelow(lowBelow, e.x, e.y) THEN 1 ELSE 0)
    BY <1>2, <2>1, CrossStep
  <2> QED BY <1>3, <1>4, <1>5, <2>2, <2>3
<1> HIDE DEF g
<1>12. WarmInv'
  BY <1>1, <1>4, <1>6, <1>7 DEF WarmInv, AllLowered
<1>13. LoweredInv'
  <2>1. AllLowered(hist') =>
          /\ EmaRight(lowEma', hist', period')
          /\ CrossRight(lowAbove', hist') /\ CrossRight(lowBelow', hist')
          /\ KalmanRight(lowKalman', hist', noise'[1], noise'[2])
    BY <1>4, <1>7, <1>9, <1>10, <1>11 DEF q, r
  <2> QED BY <2>1 DEF LoweredInv, AllLowered
<1>14. ClassicInv' /\ OutInv' /\ FiresInv'
  <2>1. ~NoneLowered(hist')
    BY <1>4, <1>7
  <2>2. FiresInv'
    BY <1>4, <1>7, <1>11, <2>1 DEF FiresInv, NoneLowered, AllLowered
  <2>3. ema'.alpha = AlphaOf(period')
    BY <1>1, <1>4 DEF ClassicInv
  <2> QED BY <1>5, <2>1, <2>2, <2>3 DEF ClassicInv, OutInv, NoneLowered
<1>15. AlphaRight(emaAlpha', hist')
  <2>1. e.by # "interp" => AlphaRight(jit_rt_ema_alpha(emaAlpha, e.alpha, e.x), g)
    BY <1>1, <1>2, AlphaStep DEF g
  <2> QED BY <1>3, <1>4, <2>1
<1> QED BY <1>8, <1>12, <1>13, <1>14, <1>15 DEF RecInv

\* So does every step: a parameter set, a change of backend, a promotion.
LEMMA RecNext ==
  ASSUME RecInv, [Next]_vars
  PROVE  RecInv'
<1>1. ASSUME NEW i \in Inputs, TickClassic(i[1], i[2]) PROVE RecInv'
  BY <1>1, ClassicKeeps
<1>2. ASSUME NEW i \in Inputs, TickLowered(i[1], i[2]) PROVE RecInv'
  BY <1>2, LoweredKeeps
<1> DEFINE quiet == <<period, noise, ema, above, below, kalman, emaAlpha,
                      lowEma, lowAbove, lowBelow, lowKalman, hist, out, fires>>
<1>3. ASSUME UNCHANGED quiet, RecTypes', WarmInv' PROVE RecInv'
  BY <1>3 DEF RecInv, ClassicInv, LoweredInv, OutInv, FiresInv, NoneLowered, AllLowered
<1>4. RecTypes /\ WarmInv
  BY DEF RecInv
<1>5. ASSUME NEW a \in Alphas, SetParameter(a) PROVE RecInv'
  <2>1. UNCHANGED quiet /\ UNCHANGED <<backend, warm>> /\ alpha' = a
    BY <1>5 DEF SetParameter, classic, lowered
  <2>2. RecTypes' /\ WarmInv'
    BY <1>4, <2>1 DEF RecTypes, WarmInv, AllLowered
  <2> QED BY <1>3, <2>1, <2>2
<1>6. ASSUME NEW b \in Backends, Swap(b) PROVE RecInv'
  <2>1. UNCHANGED quiet /\ UNCHANGED <<alpha, warm>> /\ backend' = b /\ ~warm
    BY <1>6 DEF Swap, classic, lowered
  <2>2. RecTypes' /\ WarmInv'
    BY <1>4, <2>1 DEF RecTypes, WarmInv
  <2> QED BY <1>3, <2>1, <2>2
<1>7. ASSUME Promote PROVE RecInv'
  <2>1. UNCHANGED quiet /\ UNCHANGED <<alpha, backend>> /\ warm' = TRUE /\ backend = "lowered"
    BY <1>7 DEF Promote, classic, lowered
  <2>2. hist # << >> /\ AllLowered(hist)
    BY <1>4, <1>7 DEF Promote, RecTypes, AllLowered
  <2>3. RecTypes'
    <3>1. warm' \in BOOLEAN
      BY <2>1
    <3> QED BY <1>4, <2>1, <3>1 DEF RecTypes
  <2>4. WarmInv'
    BY <2>1, <2>2 DEF WarmInv, AllLowered
  <2> QED BY <1>3, <2>1, <2>3, <2>4
<1>8. ASSUME UNCHANGED vars PROVE RecInv'
  <2>1. UNCHANGED quiet /\ UNCHANGED <<alpha, backend, warm>>
    BY <1>8 DEF vars, classic, lowered
  <2>2. RecTypes' /\ WarmInv'
    BY <1>4, <2>1 DEF RecTypes, WarmInv, AllLowered
  <2> QED BY <1>3, <2>1, <2>2
<1> QED BY <1>1, <1>2, <1>5, <1>6, <1>7, <1>8 DEF Next

\* State arrays that were fed the whole history remember it, whoever ticks.
THEOREM RecurrenceInvariance == Spec => []RecInv
<1>1. Init => RecInv
  BY RecInit
<1>2. RecInv /\ [Next]_vars => RecInv'
  BY RecNext
<1> QED BY <1>1, <1>2, PTL DEF Spec

\* Lowered code had none of the ticks, or all.
LEMMA UnmixedIs ==
  ASSUME RecTypes, Unmixed
  PROVE  NoneLowered(hist) \/ AllLowered(hist)
<1>1. \A j, k \in 1 .. Len(hist) : hist[j].by = "lowered" <=> hist[k].by = "lowered"
  BY DEF Unmixed, ticks
<1> QED BY <1>1 DEF NoneLowered, AllLowered

\* ema and ema_alpha are the weighted means of their histories, in all forms.
THEOREM EmaAlwaysOfHistory == Spec => []EmaOfHistory
<1>1. ASSUME RecInv PROVE EmaOfHistory
  <2> SUFFICES ASSUME ticks > 0
               PROVE  /\ Unmixed => out.ema = WeightedMean(hist, AlphasOf(hist, period))
                      /\ AlphaSettled => out.emaAlpha = WeightedMean(hist, AlphasIn(hist))
    BY DEF EmaOfHistory, AlphasOf, AlphasIn, ticks
  <2>1. /\ hist # << >> /\ RecTypes /\ OutInv /\ AlphaRight(emaAlpha, hist)
        /\ ClassicInv /\ LoweredInv
    BY <1>1 DEF RecInv, RecTypes, ticks
  <2>2. AlphaSettled => out.emaAlpha = WeightedMean(hist, AlphasIn(hist))
    <3>1. AlphaSettled => Settled(hist)
      BY DEF AlphaSettled, Settled, ticks
    <3> QED BY <2>1, <3>1 DEF OutInv, AlphaRight
  <2>3. CASE AllLowered(hist)
    BY <2>1, <2>2, <2>3 DEF OutInv, LoweredInv, EmaRight
  <2>4. CASE NoneLowered(hist)
    BY <2>1, <2>2, <2>4 DEF OutInv, ClassicInv, EmaRight
  <2> QED BY <2>1, <2>2, <2>3, <2>4, UnmixedIs
<1> QED BY <1>1, RecurrenceInvariance, PTL

\* cross_above and cross_below fire once for each excursion.
THEOREM CrossesOncePerExcursion == Spec => []CrossOncePerExcursion
<1>1. RecInv => CrossOncePerExcursion
  BY UnmixedIs DEF RecInv, FiresInv, CrossOncePerExcursion
<1> QED BY <1>1, RecurrenceInvariance, PTL

\* kalman1d follows the information form and, without process noise, is the mean.
THEOREM KalmanAlwaysOfHistory == Spec => []KalmanOfHistory
<1>1. ASSUME RecInv PROVE KalmanOfHistory
  <2> SUFFICES ASSUME ticks > 0, Unmixed
               PROVE  /\ Filter.p = Variance(noise[1], noise[2], ticks)
                      /\ noise[1] = 0 => out.kalman = SampleMean(hist)
    BY DEF KalmanOfHistory, SampleMean, Measured, ticks
  <2>1. RecTypes /\ OutInv /\ ClassicInv /\ LoweredInv /\ hist # << >>
        /\ ticks = Len(hist) /\ ticks \in 1 .. Len(hist)
    BY <1>1 DEF RecInv, RecTypes, ticks
  <2>2. CASE AllLowered(hist)
    <3>1. Filter = lowKalman
      BY <2>1, <2>2 DEF Filter, AllLowered
    <3>2. KalmanRight(lowKalman, hist, noise[1], noise[2]) /\ out.kalman = lowKalman.xhat
      BY <2>1, <2>2 DEF OutInv, LoweredInv
    <3> QED BY <2>1, <3>1, <3>2 DEF KalmanRight
  <2>3. CASE NoneLowered(hist)
    <3>1. Filter = kalman
      BY <2>1, <2>3 DEF Filter, NoneLowered
    <3>2. KalmanRight(kalman, hist, noise[1], noise[2]) /\ out.kalman = kalman.xhat
      BY <2>1, <2>3 DEF OutInv, ClassicInv
    <3> QED BY <2>1, <3>1, <3>2 DEF KalmanRight
  <2> QED BY <2>1, <2>2, <2>3, UnmixedIs
<1> QED BY <1>1, RecurrenceInvariance, PTL
=============================================================================
