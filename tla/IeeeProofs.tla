---------------------------- MODULE IeeeProofs ----------------------------
(***************************************************************************)
(* Exact arithmetic (Ieee), for every fraction: Euclid's algorithm, lowest *)
(* terms, the laws of arithmetic, sums and products of any length, means   *)
(* and moments and how they change with one number more or less.           *)
(***************************************************************************)
EXTENDS Ieee, WellFoundedInduction, TLAPS

-----------------------------------------------------------------------------
(* Induction and division *)

\* Every set of numbers that is not empty has a least element.
LEMMA LeastNumber ==
  ASSUME NEW T, T \subseteq Nat, T # {}
  PROVE  \E m \in T : \A k \in T : m <= k
<1> DEFINE R == OpToRel(<, Nat)
<1>1. IsWellFoundedOn(R, Nat)
  BY NatLessThanWellFounded
<1>2. \A x, y \in Nat : <<y, x>> \in R <=> y < x
  BY DEF OpToRel
<1> HIDE DEF R
<1>3. PICK m \in T : \A k \in T : ~ (<<k, m>> \in R)
  BY <1>1, WFMin
<1>4. ASSUME NEW k \in T PROVE m <= k
  <2>1. k \in Nat /\ m \in Nat
    OBVIOUS
  <2>2. ~(k < m)
    BY <1>2, <1>3, <2>1
  <2> QED BY <2>1, <2>2
<1> QED BY <1>4

\* Induction: a set of numbers with 0 and with the successor of each of its
\* elements has them all.
LEMMA Induction ==
  ASSUME NEW T, 0 \in T, \A n \in Nat : n \in T => n + 1 \in T
  PROVE  \A n \in Nat : n \in T
<1> DEFINE U == Nat \ T
<1> SUFFICES ASSUME U # {} PROVE FALSE
  OBVIOUS
<1>1. PICK m \in U : \A k \in U : m <= k
  BY LeastNumber
<1>2. m \in Nat /\ m # 0
  BY <1>1
<1>3. m - 1 \in Nat /\ m - 1 \notin U /\ (m - 1) + 1 = m
  BY <1>1, <1>2
<1> QED BY <1>1, <1>3

\* Exact division.
LEMMA ExactDivision ==
  ASSUME NEW p \in Nat \ {0}, NEW c \in Int
  PROVE  (p * c) \div p = c
<1> DEFINE q == (p * c) \div p
           r == (p * c) % p
<1>1. q \in Int /\ r \in 0 .. p - 1 /\ p * c = p * q + r
  BY SMT
<1> HIDE DEF q, r
<1>2. p * (c - q) = r
  BY <1>1
<1>3. c - q \in Int
  BY <1>1
<1>4. c - q <= 0
  <2> SUFFICES ASSUME c - q >= 1 PROVE FALSE
    BY <1>3
  <2>1. p * (c - q) >= p
    BY <1>3
  <2> QED BY <1>1, <1>2, <2>1
<1>5. c - q >= 0
  <2> SUFFICES ASSUME c - q <= -1 PROVE FALSE
    BY <1>3
  <2>1. p * (c - q) <= -p
    BY <1>3
  <2> QED BY <1>1, <1>2, <2>1
<1>6. c = q
  BY <1>1, <1>3, <1>4, <1>5
<1> QED BY <1>6 DEF q

\* There is one way to divide with remainder.
LEMMA DivisionUnique ==
  ASSUME NEW b \in Nat \ {0}, NEW q \in Int, NEW r \in 0 .. b - 1,
         NEW u \in Int, NEW s \in 0 .. b - 1, b * q + r = b * u + s
  PROVE  q = u /\ r = s
<1>1. b * (q - u) = s - r /\ q - u \in Int
  OBVIOUS
<1>2. q - u <= 0
  <2> SUFFICES ASSUME q - u >= 1 PROVE FALSE
    BY <1>1
  <2>1. b * (q - u) >= b
    BY <1>1
  <2> QED BY <1>1, <2>1
<1>3. q - u >= 0
  <2> SUFFICES ASSUME q - u <= -1 PROVE FALSE
    BY <1>1
  <2>1. b * (q - u) <= -b
    BY <1>1
  <2> QED BY <1>1, <2>1
<1>4. q = u
  BY <1>1, <1>2, <1>3
<1> QED BY <1>4

\* What % does.
LEMMA Remainder ==
  ASSUME NEW a \in Nat, NEW b \in Nat \ {0}
  PROVE  /\ a \div b \in Nat /\ a % b \in 0 .. b - 1 /\ a = b * (a \div b) + (a % b)
         /\ a % b \in Nat /\ a % b < b
BY SMT

\* It can be scaled.
LEMMA RemainderScales ==
  ASSUME NEW a \in Nat, NEW b \in Nat \ {0}, NEW k \in Nat \ {0}
  PROVE  (k * a) % (k * b) = k * (a % b)
<1> DEFINE q == a \div b
           r == a % b
           Q == (k * a) \div (k * b)
           R == (k * a) % (k * b)
<1>1. q \in Nat /\ r \in 0 .. b - 1 /\ a = b * q + r
  BY Remainder
<1>2. k * a \in Nat /\ k * b \in Nat \ {0}
  OBVIOUS
<1>3. Q \in Nat /\ R \in 0 .. k * b - 1 /\ k * a = (k * b) * Q + R
  BY <1>2, Remainder
<1> HIDE DEF q, r, Q, R
<1>4. k * r \in 0 .. k * b - 1
  <2>1. r <= b - 1 /\ r >= 0 /\ r \in Int
    BY <1>1
  <2>2. k * r >= 0 /\ k * r <= k * (b - 1)
    BY <2>1
  <2>3. k * (b - 1) = k * b - k
    OBVIOUS
  <2> QED BY <2>1, <2>2, <2>3
<1>5. k * a = (k * b) * q + k * r
  BY <1>1
<1> DEFINE B == k * b
           t == k * r
<1>6. B \in Nat \ {0} /\ Q \in Int /\ q \in Int /\ R \in 0 .. B - 1 /\ t \in 0 .. B - 1
      /\ B * Q + R = B * q + t
  BY <1>1, <1>2, <1>3, <1>4, <1>5
<1> HIDE DEF B, t
<1>7. R = t
  BY <1>6, DivisionUnique
<1> QED BY <1>7 DEF R, r, t

-----------------------------------------------------------------------------
(* The greatest common divisor *)

\* t computes it for second arguments up to n.
IsGcd(t, n) ==
  /\ DOMAIN t = Nat \X (0 .. n)
  /\ \A a \in Nat : t[<<a, 0>>] = a
  /\ \A a \in Nat, b \in 1 .. n : t[<<a, b>>] = t[<<b, a % b>>]

\* It can be extended to any bound ...
LEMMA GcdExists ==
  ASSUME NEW n \in Nat
  PROVE  \E t : IsGcd(t, n)
<1> DEFINE T == {k \in Nat : \E t : IsGcd(t, k)}
<1>1. 0 \in T
  <2> DEFINE t == [p \in Nat \X (0 .. 0) |-> p[1]]
  <2>1. IsGcd(t, 0)
    BY DEF IsGcd
  <2> QED BY <2>1
<1>2. ASSUME NEW m \in Nat, m \in T PROVE m + 1 \in T
  <2>1. PICK t : IsGcd(t, m)
    BY <1>2
  <2> DEFINE u == [p \in Nat \X (0 .. m + 1) |->
                     IF p[2] = m + 1 THEN t[<<p[2], p[1] % p[2]>>] ELSE t[p]]
  <2>2. ASSUME NEW a \in Nat, NEW b \in 0 .. m PROVE u[<<a, b>>] = t[<<a, b>>]
    <3>1. <<a, b>> \in Nat \X (0 .. m + 1) /\ b # m + 1
      OBVIOUS
    <3> QED BY <3>1
  <2>3. ASSUME NEW a \in Nat PROVE u[<<a, m + 1>>] = t[<<m + 1, a % (m + 1)>>]
    <3>1. <<a, m + 1>> \in Nat \X (0 .. m + 1)
      OBVIOUS
    <3> QED BY <3>1
  <2>4. DOMAIN u = Nat \X (0 .. m + 1)
    OBVIOUS
  <2> HIDE DEF u
  <2>5. \A a \in Nat : u[<<a, 0>>] = a
    <3>1. 0 \in 0 .. m
      OBVIOUS
    <3>2. \A a \in Nat : u[<<a, 0>>] = t[<<a, 0>>]
      BY <2>2, <3>1
    <3> QED BY <2>1, <3>2 DEF IsGcd
  <2>6. ASSUME NEW a \in Nat, NEW b \in 1 .. m + 1 PROVE u[<<a, b>>] = u[<<b, a % b>>]
    <3>1. b \in Nat \ {0} /\ a % b \in Nat /\ a % b < b
      BY Remainder
    <3>2. a % b \in 0 .. m
      BY <3>1
    <3>3. u[<<b, a % b>>] = t[<<b, a % b>>]
      BY <2>2, <3>1, <3>2
    <3>4. CASE b = m + 1
      BY <2>3, <3>3, <3>4
    <3>5. CASE b # m + 1
      <4>1. b \in 1 .. m /\ b \in 0 .. m
        BY <3>5
      <4>2. t[<<a, b>>] = t[<<b, a % b>>]
        BY <2>1, <4>1 DEF IsGcd
      <4> QED BY <2>2, <3>3, <4>1, <4>2
    <3> QED BY <3>4, <3>5
  <2>7. IsGcd(u, m + 1)
    BY <2>4, <2>5, <2>6 DEF IsGcd
  <2> QED BY <2>7
<1> HIDE DEF T
<1>3. n \in T
  BY <1>1, <1>2, Induction
<1> QED BY <1>3 DEF T

\* ... and two of them agree.
LEMMA GcdUnique ==
  ASSUME NEW m \in Nat, NEW n \in Nat, NEW t, NEW u, IsGcd(t, m), IsGcd(u, n),
         NEW a \in Nat, NEW b \in Nat, b <= m, b <= n
  PROVE  t[<<a, b>>] = u[<<a, b>>]
<1> DEFINE T == {i \in Nat : \A c \in Nat, k \in 0 .. i :
                               k <= m /\ k <= n => t[<<c, k>>] = u[<<c, k>>]}
<1>1. 0 \in T
  <2>1. ASSUME NEW c \in Nat PROVE t[<<c, 0>>] = u[<<c, 0>>]
    BY DEF IsGcd
  <2> QED BY <2>1
<1>2. ASSUME NEW i \in Nat, i \in T PROVE i + 1 \in T
  <2> SUFFICES ASSUME NEW c \in Nat, NEW k \in 0 .. i + 1, k <= m, k <= n
               PROVE  t[<<c, k>>] = u[<<c, k>>]
    OBVIOUS
  <2>1. CASE k = 0
    BY <2>1 DEF IsGcd
  <2>2. CASE k # 0
    <3>1. k \in Nat \ {0} /\ k \in 1 .. m /\ k \in 1 .. n
      BY <2>2
    <3>2. c % k \in Nat /\ c % k < k
      BY <3>1, Remainder
    <3>3. c % k \in 0 .. i /\ c % k <= m /\ c % k <= n
      BY <3>1, <3>2
    <3>4. t[<<k, c % k>>] = u[<<k, c % k>>]
      BY <1>2, <3>1, <3>3
    <3>5. t[<<c, k>>] = t[<<k, c % k>>] /\ u[<<c, k>>] = u[<<k, c % k>>]
      BY <3>1 DEF IsGcd
    <3> QED BY <3>4, <3>5
  <2> QED BY <2>1, <2>2
<1> HIDE DEF T
<1>3. b \in T
  BY <1>1, <1>2, Induction
<1> QED BY <1>3 DEF T

\* Euclid's algorithm, as Ieee has it.
LEMMA GcdSteps ==
  /\ \A a \in Nat : gcd[<<a, 0>>] = a
  /\ \A a \in Nat, b \in Nat \ {0} : gcd[<<a, b>>] = gcd[<<b, a % b>>]
<1> DEFINE P(n) == CHOOSE t : IsGcd(t, n)
           w == [p \in Nat \X Nat |-> P(p[2])[p]]
           f == [p \in Nat \X Nat |-> IF p[2] = 0 THEN p[1] ELSE w[<<p[2], p[1] % p[2]>>]]
<1>1. \A n \in Nat : IsGcd(P(n), n)
  BY GcdExists
<1> HIDE DEF P
<1>2. ASSUME NEW a \in Nat, NEW b \in Nat PROVE w[<<a, b>>] = f[<<a, b>>]
  <2>1. w[<<a, b>>] = P(b)[<<a, b>>]
    OBVIOUS
  <2>2. CASE b = 0
    BY <1>1, <2>1, <2>2 DEF IsGcd
  <2>3. CASE b # 0
    <3>1. b \in Nat \ {0} /\ b \in 1 .. b /\ a % b \in Nat /\ a % b < b
      BY <2>3, Remainder
    <3>2. P(b)[<<a, b>>] = P(b)[<<b, a % b>>]
      BY <1>1, <3>1 DEF IsGcd
    <3>3. P(b)[<<b, a % b>>] = P(a % b)[<<b, a % b>>]
      BY <1>1, <3>1, GcdUnique
    <3>4. w[<<b, a % b>>] = P(a % b)[<<b, a % b>>]
      BY <3>1
    <3>5. f[<<a, b>>] = w[<<b, a % b>>]
      BY <3>1
    <3> QED BY <2>1, <3>2, <3>3, <3>4, <3>5
  <2> QED BY <2>2, <2>3
<1>3. w = f
  <2>1. \A p \in Nat \X Nat : w[p] = f[p]
    <3> SUFFICES ASSUME NEW p \in Nat \X Nat PROVE w[p] = f[p]
      OBVIOUS
    <3>1. PICK a \in Nat, b \in Nat : p = <<a, b>>
      OBVIOUS
    <3> HIDE DEF w, f
    <3> QED BY <1>2, <3>1
  <2> QED BY <2>1
<1>4. w = [p \in Nat \X Nat |-> IF p[2] = 0 THEN p[1] ELSE w[<<p[2], p[1] % p[2]>>]]
  BY <1>3
<1> HIDE DEF w, f
<1>5. \E g : g = [p \in Nat \X Nat |-> IF p[2] = 0 THEN p[1] ELSE g[<<p[2], p[1] % p[2]>>]]
  BY <1>4, Zenon
<1>6. gcd = [p \in Nat \X Nat |-> IF p[2] = 0 THEN p[1] ELSE gcd[<<p[2], p[1] % p[2]>>]]
  BY <1>5, Zenon DEF gcd
<1>7. ASSUME NEW a \in Nat, NEW b \in Nat
      PROVE  gcd[<<a, b>>] = IF b = 0 THEN a ELSE gcd[<<b, a % b>>]
  <2>1. <<a, b>> \in Nat \X Nat /\ <<a, b>>[1] = a /\ <<a, b>>[2] = b
    OBVIOUS
  <2> QED BY <1>6, <2>1
<1> QED BY <1>7

\* g divides a.
Divides(g, a) == \E i \in Nat : a = g * i

\* gcd is a common divisor ...
LEMMA GcdDivides ==
  ASSUME NEW a \in Nat, NEW b \in Nat
  PROVE  LET g == gcd[<<a, b>>] IN g \in Nat /\ Divides(g, a) /\ Divides(g, b)
<1> DEFINE Ok(c, k) == LET g == gcd[<<c, k>>] IN g \in Nat /\ Divides(g, c) /\ Divides(g, k)
           T == {i \in Nat : \A c \in Nat, k \in 0 .. i : Ok(c, k)}
<1>0. ASSUME NEW c \in Nat PROVE Ok(c, 0)
  <2>1. gcd[<<c, 0>>] = c
    BY GcdSteps
  <2>2. c = c * 1 /\ 0 = c * 0 /\ 1 \in Nat /\ 0 \in Nat
    OBVIOUS
  <2> QED BY <2>1, <2>2 DEF Divides
<1>1. 0 \in T
  <2>1. \A k \in 0 .. 0 : k = 0
    OBVIOUS
  <2> HIDE DEF Ok
  <2> QED BY <1>0, <2>1
<1>2. ASSUME NEW i \in Nat, i \in T PROVE i + 1 \in T
  <2> SUFFICES ASSUME NEW c \in Nat, NEW k \in 0 .. i + 1 PROVE Ok(c, k)
    OBVIOUS
  <2>1. CASE k = 0
    BY <1>0, <2>1
  <2>2. CASE k # 0
    <3>1. k \in Nat \ {0} /\ c % k \in Nat /\ c % k < k /\ c \div k \in Nat
          /\ c = k * (c \div k) + (c % k)
      BY <2>2, Remainder
    <3>2. c % k \in 0 .. i
      BY <3>1
    <3>3. Ok(k, c % k)
      <4> HIDE DEF Ok
      <4> QED BY <1>2, <3>1, <3>2
    <3> DEFINE g == gcd[<<k, c % k>>]
    <3>4. g \in Nat /\ Divides(g, k) /\ Divides(g, c % k)
      BY <3>3
    <3>5. gcd[<<c, k>>] = g
      BY <3>1, GcdSteps
    <3> HIDE DEF g
    <3>6. PICK u \in Nat : k = g * u
      BY <3>4 DEF Divides
    <3>7. PICK v \in Nat : c % k = g * v
      BY <3>4 DEF Divides
    <3> DEFINE q == c \div k
    <3>8. q \in Nat /\ c = k * q + g * v
      BY <3>1, <3>7
    <3> HIDE DEF q
    <3>9. c = g * (u * q + v) /\ u * q + v \in Nat
      BY <3>4, <3>6, <3>8
    <3>10. Divides(g, c)
      BY <3>9 DEF Divides
    <3> QED BY <3>4, <3>5, <3>10
  <2> QED BY <2>1, <2>2
<1> HIDE DEF T
<1>3. b \in T
  BY <1>1, <1>2, Induction
<1> QED BY <1>3 DEF T

\* ... that scales with its arguments.
LEMMA GcdScales ==
  ASSUME NEW a \in Nat, NEW b \in Nat, NEW s \in Nat \ {0}
  PROVE  gcd[<<s * a, s * b>>] = s * gcd[<<a, b>>]
<1> DEFINE Ok(c, k) == gcd[<<s * c, s * k>>] = s * gcd[<<c, k>>]
           T == {i \in Nat : \A c \in Nat, k \in 0 .. i : Ok(c, k)}
<1>0. ASSUME NEW c \in Nat PROVE Ok(c, 0)
  <2>1. s * c \in Nat /\ s * 0 = 0
    OBVIOUS
  <2>2. gcd[<<c, 0>>] = c /\ gcd[<<s * c, 0>>] = s * c
    BY <2>1, GcdSteps
  <2> QED BY <2>1, <2>2
<1>1. 0 \in T
  <2>1. \A k \in 0 .. 0 : k = 0
    OBVIOUS
  <2> HIDE DEF Ok
  <2> QED BY <1>0, <2>1
<1>2. ASSUME NEW i \in Nat, i \in T PROVE i + 1 \in T
  <2> SUFFICES ASSUME NEW c \in Nat, NEW k \in 0 .. i + 1 PROVE Ok(c, k)
    OBVIOUS
  <2>1. CASE k = 0
    BY <1>0, <2>1
  <2>2. CASE k # 0
    <3>1. k \in Nat \ {0} /\ c % k \in Nat /\ c % k < k
      BY <2>2, Remainder
    <3>2. c % k \in 0 .. i
      BY <3>1
    <3>3. Ok(k, c % k)
      <4> HIDE DEF Ok
      <4> QED BY <1>2, <3>1, <3>2
    <3>4. s * c \in Nat /\ s * k \in Nat \ {0}
      BY <3>1
    <3>5. gcd[<<s * c, s * k>>] = gcd[<<s * k, (s * c) % (s * k)>>]
      BY <3>4, GcdSteps, Zenon
    <3>6. (s * c) % (s * k) = s * (c % k)
      BY <3>1, RemainderScales
    <3>7. gcd[<<c, k>>] = gcd[<<k, c % k>>]
      BY <3>1, GcdSteps
    <3> QED BY <3>3, <3>5, <3>6, <3>7, Zenon
  <2> QED BY <2>1, <2>2
<1> HIDE DEF T
<1>3. b \in T
  BY <1>1, <1>2, Induction
<1> QED BY <1>3 DEF T

-----------------------------------------------------------------------------
(* Fractions in lowest terms *)

\* A common factor can be cancelled.
LEMMA Cancel ==
  ASSUME NEW c \in Nat \ {0}, NEW a \in Int, NEW b \in Int, c * a = c * b
  PROVE  a = b
<1>1. (c * a) \div c = a /\ (c * b) \div c = b
  BY ExactDivision
<1> QED BY <1>1

\* g is what <<n, d>> is divided by to make <<i, j>>.
Cleared(g, n, d, i, j) ==
  /\ g \in Nat \ {0} /\ i \in Int /\ j \in Nat \ {0} /\ n = g * i /\ d = g * j

\* Rat divides by the gcd, and without remainder.
LEMMA RatParts ==
  ASSUME NEW n \in Int, NEW d \in Nat \ {0}
  PROVE  LET g == gcd[<<Abs(n), d>>]
         IN  \E i \in Int, j \in Nat : Cleared(g, n, d, i, j) /\ Rat(n, d) = <<i, j>>
<1> DEFINE g == gcd[<<Abs(n), d>>]
<1>1. Abs(n) \in Nat /\ (n = Abs(n) \/ n = -Abs(n))
  BY DEF Abs
<1>2. g \in Nat /\ Divides(g, Abs(n)) /\ Divides(g, d)
  BY <1>1, GcdDivides
<1>3. Rat(n, d) = <<n \div g, d \div g>>
  BY DEF Rat
<1> HIDE DEF g
<1>4. PICK u \in Nat : Abs(n) = g * u
  BY <1>2 DEF Divides
<1>5. PICK j \in Nat : d = g * j
  BY <1>2 DEF Divides
<1>6. g # 0 /\ j # 0
  BY <1>2, <1>5
<1>7. PICK i \in Int : n = g * i
  <2>1. n = g * u \/ n = g * (-u)
    BY <1>1, <1>2, <1>4
  <2> QED BY <2>1
<1>8. n \div g = i /\ d \div g = j
  BY <1>2, <1>5, <1>6, <1>7, ExactDivision
<1>9. Cleared(g, n, d, i, j)
  BY <1>2, <1>5, <1>6, <1>7 DEF Cleared
<1> QED BY <1>3, <1>8, <1>9 DEF g

\* Equal numbers have one fraction in lowest terms.
LEMMA RatEqual ==
  ASSUME NEW n \in Int, NEW d \in Nat \ {0}, NEW m \in Int, NEW e \in Nat \ {0},
         n * e = m * d
  PROVE  Rat(n, d) = Rat(m, e)
<1> DEFINE g == gcd[<<Abs(n), d>>]
           h == gcd[<<Abs(m), e>>]
<1>1. PICK i \in Int, j \in Nat : Cleared(g, n, d, i, j) /\ Rat(n, d) = <<i, j>>
  BY RatParts
<1>2. PICK k \in Int, l \in Nat : Cleared(h, m, e, k, l) /\ Rat(m, e) = <<k, l>>
  BY RatParts
<1>3. Abs(n) \in Nat /\ Abs(m) \in Nat
  BY DEF Abs
<1>4. e * Abs(n) = d * Abs(m)
  <2>1. CASE n >= 0
    <3>1. m * d >= 0
      BY <2>1
    <3>2. m >= 0
      <4> SUFFICES ASSUME m <= -1 PROVE FALSE
        OBVIOUS
      <4>1. m * d <= -d
        OBVIOUS
      <4> QED BY <3>1, <4>1
    <3> QED BY <2>1, <3>2 DEF Abs
  <2>2. CASE n < 0
    <3>1. n * e <= -e
      BY <2>2
    <3>2. m < 0
      <4> SUFFICES ASSUME m >= 0 PROVE FALSE
        OBVIOUS
      <4>1. m * d >= 0
        OBVIOUS
      <4> QED BY <3>1, <4>1
    <3> QED BY <2>2, <3>2 DEF Abs
  <2> QED BY <2>1, <2>2
<1>5. e * g = d * h
  <2>1. gcd[<<e * Abs(n), e * d>>] = e * g
    BY <1>3, GcdScales
  <2>2. gcd[<<d * Abs(m), d * e>>] = d * h
    BY <1>3, GcdScales
  <2>3. e * d = d * e
    OBVIOUS
  <2> QED BY <1>4, <2>1, <2>2, <2>3
<1> HIDE DEF g, h
<1>6. /\ g \in Nat \ {0} /\ j \in Nat \ {0} /\ n = g * i /\ d = g * j
      /\ h \in Nat \ {0} /\ l \in Nat \ {0} /\ m = h * k /\ e = h * l
  BY <1>1, <1>2 DEF Cleared
<1>7. l = j
  <2>1. g * h \in Nat \ {0}
    BY <1>6
  <2>2. (g * h) * l = (g * h) * j
    <3>1. e * g = (g * h) * l
      BY <1>6
    <3>2. d * h = (g * h) * j
      BY <1>6
    <3> QED BY <1>5, <3>1, <3>2
  <2> DEFINE c == g * h
  <2>3. c \in Nat \ {0} /\ c * l = c * j
    BY <2>1, <2>2
  <2> HIDE DEF c
  <2> QED BY <2>3, Cancel
<1>8. i = k
  <2> DEFINE c == (g * h) * j
  <2>1. c \in Nat \ {0}
    <3>1. g * h \in Nat \ {0}
      BY <1>6
    <3> QED BY <1>6, <3>1
  <2>2. c * i = c * k
    <3>1. n * e = ((g * h) * j) * i
      BY <1>6, <1>7
    <3>2. m * d = ((g * h) * j) * k
      BY <1>6
    <3> QED BY <3>1, <3>2
  <2> HIDE DEF c
  <2> QED BY <2>1, <2>2, Cancel
<1> QED BY <1>1, <1>2, <1>7, <1>8

\* A whole number is in lowest terms.
LEMMA WholeIsRat ==
  ASSUME NEW n \in Int
  PROVE  Whole(n) = Rat(n, 1)
<1>1. PICK i \in Int, j \in Nat :
         Cleared(gcd[<<Abs(n), 1>>], n, 1, i, j) /\ Rat(n, 1) = <<i, j>>
  BY RatParts
<1> DEFINE g == gcd[<<Abs(n), 1>>]
<1>2. g \in Nat \ {0} /\ j \in Nat \ {0} /\ 1 = g * j /\ n = g * i
  BY <1>1 DEF Cleared
<1> HIDE DEF g
<1>3. g = 1
  <2> SUFFICES ASSUME g >= 2 PROVE FALSE
    BY <1>2
  <2>1. g * j >= 2 * j
    BY <1>2
  <2> QED BY <1>2, <2>1
<1>4. j = 1 /\ i = n
  BY <1>2, <1>3
<1> QED BY <1>1, <1>4 DEF Whole

\* a is the number n / d, in lowest terms.
Is(a, n, d) == n \in Int /\ d \in Nat \ {0} /\ a = Rat(n, d)

\* Rat, with what it divides by left open.
LEMMA RatCleared ==
  ASSUME NEW n \in Int, NEW d \in Nat \ {0}
  PROVE  \E g, i, j : Cleared(g, n, d, i, j) /\ Rat(n, d) = <<i, j>>
<1>1. PICK i \in Int, j \in Nat :
         Cleared(gcd[<<Abs(n), d>>], n, d, i, j) /\ Rat(n, d) = <<i, j>>
  BY RatParts
<1> QED BY <1>1

\* Products of positive numbers are positive.
LEMMA Positive ==
  ASSUME NEW a \in Nat \ {0}, NEW b \in Nat \ {0}
  PROVE  a * b \in Nat \ {0}
OBVIOUS

\* The operations on fractions that need not be in lowest terms.
LEMMA AddRat ==
  ASSUME NEW n \in Int, NEW d \in Nat \ {0}, NEW m \in Int, NEW e \in Nat \ {0}
  PROVE  FAdd(Rat(n, d), Rat(m, e)) = Rat(n * e + m * d, d * e)
<1>1. PICK g, i, j : Cleared(g, n, d, i, j) /\ Rat(n, d) = <<i, j>>
  BY RatCleared
<1>2. PICK h, k, l : Cleared(h, m, e, k, l) /\ Rat(m, e) = <<k, l>>
  BY RatCleared
<1>3. /\ g \in Nat \ {0} /\ j \in Nat \ {0} /\ n = g * i /\ d = g * j /\ i \in Int
      /\ h \in Nat \ {0} /\ l \in Nat \ {0} /\ m = h * k /\ e = h * l /\ k \in Int
  BY <1>1, <1>2 DEF Cleared
<1>4. FAdd(<<i, j>>, <<k, l>>) = Rat(i * l + k * j, j * l)
  BY <1>3 DEF FAdd, Finite
<1>5. j * l \in Nat \ {0} /\ d * e \in Nat \ {0}
  BY <1>3, Positive
<1>6. i * l + k * j \in Int /\ n * e + m * d \in Int
  BY <1>3
<1>7. (i * l + k * j) * (d * e) = (n * e + m * d) * (j * l)
  BY <1>3
<1>8. Rat(i * l + k * j, j * l) = Rat(n * e + m * d, d * e)
  BY <1>5, <1>6, <1>7, RatEqual
<1> QED BY <1>1, <1>2, <1>4, <1>8

\* Products.
LEMMA MulRat ==
  ASSUME NEW n \in Int, NEW d \in Nat \ {0}, NEW m \in Int, NEW e \in Nat \ {0}
  PROVE  FMul(Rat(n, d), Rat(m, e)) = Rat(n * m, d * e)
<1>1. PICK g, i, j : Cleared(g, n, d, i, j) /\ Rat(n, d) = <<i, j>>
  BY RatCleared
<1>2. PICK h, k, l : Cleared(h, m, e, k, l) /\ Rat(m, e) = <<k, l>>
  BY RatCleared
<1>3. /\ g \in Nat \ {0} /\ j \in Nat \ {0} /\ n = g * i /\ d = g * j /\ i \in Int
      /\ h \in Nat \ {0} /\ l \in Nat \ {0} /\ m = h * k /\ e = h * l /\ k \in Int
  BY <1>1, <1>2 DEF Cleared
<1>4. FMul(<<i, j>>, <<k, l>>) = Rat(i * k, j * l)
  BY DEF FMul
<1>5. j * l \in Nat \ {0} /\ d * e \in Nat \ {0}
  BY <1>3, Positive
<1>6. i * k \in Int /\ n * m \in Int
  BY <1>3
<1>7. (i * k) * (d * e) = (n * m) * (j * l)
  BY <1>3
<1>8. Rat(i * k, j * l) = Rat(n * m, d * e)
  BY <1>5, <1>6, <1>7, RatEqual
<1> QED BY <1>1, <1>2, <1>4, <1>8

\* Negation.
LEMMA NegRat ==
  ASSUME NEW n \in Int, NEW d \in Nat \ {0}
  PROVE  FNeg(Rat(n, d)) = Rat(-n, d)
<1>1. PICK g, i, j : Cleared(g, n, d, i, j) /\ Rat(n, d) = <<i, j>>
  BY RatCleared
<1>2. PICK h, k, l : Cleared(h, -n, d, k, l) /\ Rat(-n, d) = <<k, l>>
                     /\ h = gcd[<<Abs(-n), d>>]
  BY RatParts
<1>3. PICK u, v : Cleared(gcd[<<Abs(n), d>>], n, d, u, v) /\ Rat(n, d) = <<u, v>>
  BY RatParts
<1>4. Abs(-n) = Abs(n)
  BY DEF Abs
<1>5. /\ h \in Nat \ {0} /\ v \in Nat \ {0} /\ n = h * u /\ d = h * v /\ u \in Int
      /\ l \in Nat \ {0} /\ -n = h * k /\ d = h * l /\ k \in Int
  BY <1>2, <1>3, <1>4 DEF Cleared
<1>6. h * k = h * (-u) /\ -u \in Int
  BY <1>5
<1>7. k = -u /\ l = v
  BY <1>5, <1>6, Cancel
<1> QED BY <1>2, <1>3, <1>7 DEF FNeg

\* Differences.
LEMMA SubRat ==
  ASSUME NEW n \in Int, NEW d \in Nat \ {0}, NEW m \in Int, NEW e \in Nat \ {0}
  PROVE  FSub(Rat(n, d), Rat(m, e)) = Rat(n * e - m * d, d * e)
<1>1. FNeg(Rat(m, e)) = Rat(-m, e) /\ -m \in Int
  BY NegRat
<1>2. FAdd(Rat(n, d), Rat(-m, e)) = Rat(n * e + (-m) * d, d * e)
  BY <1>1, AddRat
<1>3. n * e + (-m) * d = n * e - m * d
  OBVIOUS
<1> QED BY <1>1, <1>2, <1>3 DEF FSub

\* Quotients by a positive number.
LEMMA DivRat ==
  ASSUME NEW n \in Int, NEW d \in Nat \ {0}, NEW m \in Nat \ {0}, NEW e \in Nat \ {0}
  PROVE  FDiv(Rat(n, d), Rat(m, e)) = Rat(n * e, d * m)
<1>1. PICK g, i, j : Cleared(g, n, d, i, j) /\ Rat(n, d) = <<i, j>>
  BY RatCleared
<1>2. PICK h, k, l : Cleared(h, m, e, k, l) /\ Rat(m, e) = <<k, l>>
  BY RatCleared
<1>3. /\ g \in Nat \ {0} /\ j \in Nat \ {0} /\ n = g * i /\ d = g * j /\ i \in Int
      /\ h \in Nat \ {0} /\ l \in Nat \ {0} /\ m = h * k /\ e = h * l /\ k \in Int
  BY <1>1, <1>2 DEF Cleared
<1>4. k \in Nat \ {0}
  <2> SUFFICES ASSUME k <= 0 PROVE FALSE
    BY <1>3
  <2>1. h * k <= 0
    BY <1>3
  <2> QED BY <1>3, <2>1
<1>5. FDiv(<<i, j>>, <<k, l>>) = Rat(i * l, j * k)
  BY <1>4 DEF FDiv
<1>6. j * k \in Nat \ {0} /\ d * m \in Nat \ {0}
  BY <1>3, <1>4, Positive
<1>7. i * l \in Int /\ n * e \in Int
  BY <1>3
<1>8. (i * l) * (d * m) = (n * e) * (j * k)
  BY <1>3
<1>9. Rat(i * l, j * k) = Rat(n * e, d * m)
  BY <1>6, <1>7, <1>8, RatEqual
<1> QED BY <1>1, <1>2, <1>5, <1>9

\* The operations on numbers given by any of their fractions.
LEMMA Sum ==
  ASSUME NEW a, NEW b, NEW n, NEW d, NEW m, NEW e, Is(a, n, d), Is(b, m, e)
  PROVE  Is(FAdd(a, b), n * e + m * d, d * e)
<1>1. n \in Int /\ d \in Nat \ {0} /\ m \in Int /\ e \in Nat \ {0}
  BY DEF Is
<1>2. FAdd(Rat(n, d), Rat(m, e)) = Rat(n * e + m * d, d * e)
  BY <1>1, AddRat
<1>3. n * e + m * d \in Int /\ d * e \in Nat \ {0}
  BY <1>1, Positive
<1> QED BY <1>2, <1>3 DEF Is

\* A difference as a fraction.
LEMMA Difference ==
  ASSUME NEW a, NEW b, NEW n, NEW d, NEW m, NEW e, Is(a, n, d), Is(b, m, e)
  PROVE  Is(FSub(a, b), n * e - m * d, d * e)
<1>1. n \in Int /\ d \in Nat \ {0} /\ m \in Int /\ e \in Nat \ {0}
  BY DEF Is
<1>2. FSub(Rat(n, d), Rat(m, e)) = Rat(n * e - m * d, d * e)
  BY <1>1, SubRat
<1>3. n * e - m * d \in Int /\ d * e \in Nat \ {0}
  BY <1>1, Positive
<1> QED BY <1>2, <1>3 DEF Is

\* A product as a fraction.
LEMMA Product ==
  ASSUME NEW a, NEW b, NEW n, NEW d, NEW m, NEW e, Is(a, n, d), Is(b, m, e)
  PROVE  Is(FMul(a, b), n * m, d * e)
<1>1. n \in Int /\ d \in Nat \ {0} /\ m \in Int /\ e \in Nat \ {0}
  BY DEF Is
<1>2. FMul(Rat(n, d), Rat(m, e)) = Rat(n * m, d * e)
  BY <1>1, MulRat
<1>3. n * m \in Int /\ d * e \in Nat \ {0}
  BY <1>1, Positive
<1> QED BY <1>2, <1>3 DEF Is

\* A quotient by a positive number as a fraction.
LEMMA Ratio ==
  ASSUME NEW a, NEW b, NEW n, NEW d, NEW m, NEW e, Is(a, n, d), Is(b, m, e), m \in Nat \ {0}
  PROVE  Is(FDiv(a, b), n * e, d * m)
<1>1. n \in Int /\ d \in Nat \ {0} /\ m \in Int /\ e \in Nat \ {0}
  BY DEF Is
<1>2. FDiv(Rat(n, d), Rat(m, e)) = Rat(n * e, d * m)
  BY <1>1, DivRat
<1>3. n * e \in Int /\ d * m \in Nat \ {0}
  BY <1>1, Positive
<1> QED BY <1>2, <1>3 DEF Is

\* Equal fractions stand for the same double.
LEMMA Same ==
  ASSUME NEW a, NEW b, NEW n, NEW d, NEW m, NEW e, Is(a, n, d), Is(b, m, e), n * e = m * d
  PROVE  a = b
BY RatEqual DEF Is

\* A whole number as a fraction.
LEMMA WholeIs ==
  ASSUME NEW n \in Int
  PROVE  Is(Whole(n), n, 1)
BY WholeIsRat DEF Is

\* a is a number: a fraction in lowest terms.
IsNumber(a) == \E n, d : Is(a, n, d)

\* Numbers are closed under the operations.
LEMMA NumberClosed ==
  ASSUME NEW a, NEW b, IsNumber(a), IsNumber(b)
  PROVE  IsNumber(FAdd(a, b)) /\ IsNumber(FSub(a, b)) /\ IsNumber(FMul(a, b))
<1>1. PICK n, d : Is(a, n, d)
  BY DEF IsNumber
<1>2. PICK m, e : Is(b, m, e)
  BY DEF IsNumber
<1>3. IsNumber(FAdd(a, b))
  BY <1>1, <1>2, Sum DEF IsNumber
<1>4. IsNumber(FSub(a, b))
  BY <1>1, <1>2, Difference DEF IsNumber
<1>5. IsNumber(FMul(a, b))
  BY <1>1, <1>2, Product DEF IsNumber
<1> QED BY <1>3, <1>4, <1>5

\* Whole numbers are numbers.
LEMMA WholeNumber ==
  ASSUME NEW n \in Int
  PROVE  IsNumber(Whole(n))
BY WholeIs DEF IsNumber

\* The laws of arithmetic.
LEMMA Commutes ==
  ASSUME NEW a, NEW b, IsNumber(a), IsNumber(b)
  PROVE  FAdd(a, b) = FAdd(b, a) /\ FMul(a, b) = FMul(b, a)
<1>1. PICK n, d : Is(a, n, d)
  BY DEF IsNumber
<1>2. PICK m, e : Is(b, m, e)
  BY DEF IsNumber
<1>3. n \in Int /\ d \in Int /\ m \in Int /\ e \in Int
  BY <1>1, <1>2 DEF Is
<1>4. Is(FAdd(a, b), n * e + m * d, d * e) /\ Is(FAdd(b, a), m * d + n * e, e * d)
  BY <1>1, <1>2, Sum
<1>5. Is(FMul(a, b), n * m, d * e) /\ Is(FMul(b, a), m * n, e * d)
  BY <1>1, <1>2, Product
<1>6. /\ (n * e + m * d) * (e * d) = (m * d + n * e) * (d * e)
      /\ (n * m) * (e * d) = (m * n) * (d * e)
  BY <1>3
<1> QED BY <1>4, <1>5, <1>6, Same

\* Zero and one.
LEMMA Units ==
  ASSUME NEW a, IsNumber(a)
  PROVE  /\ FAdd(a, Whole(0)) = a /\ FAdd(Whole(0), a) = a
         /\ FMul(a, Whole(1)) = a /\ FMul(Whole(1), a) = a
<1>1. PICK n, d : Is(a, n, d)
  BY DEF IsNumber
<1>2. Is(Whole(0), 0, 1) /\ Is(Whole(1), 1, 1)
  BY WholeIs
<1>3. n \in Int /\ d \in Int
  BY <1>1 DEF Is
<1>4. Is(FAdd(a, Whole(0)), n * 1 + 0 * d, d * 1)
  BY <1>1, <1>2, Sum
<1>5. Is(FMul(a, Whole(1)), n * 1, d * 1)
  BY <1>1, <1>2, Product
<1>6. (n * 1 + 0 * d) * d = n * (d * 1) /\ (n * 1) * d = n * (d * 1)
  BY <1>3
<1>7. FAdd(a, Whole(0)) = a /\ FMul(a, Whole(1)) = a
  BY <1>1, <1>4, <1>5, <1>6, Same
<1>8. IsNumber(Whole(0)) /\ IsNumber(Whole(1))
  BY WholeNumber
<1> QED BY <1>7, <1>8, Commutes

\* Sums and products can be regrouped.
LEMMA Associates ==
  ASSUME NEW a, NEW b, NEW c, IsNumber(a), IsNumber(b), IsNumber(c)
  PROVE  /\ FAdd(a, FAdd(b, c)) = FAdd(FAdd(a, b), c)
         /\ FMul(a, FMul(b, c)) = FMul(FMul(a, b), c)
<1>1. PICK n, d : Is(a, n, d)
  BY DEF IsNumber
<1>2. PICK m, e : Is(b, m, e)
  BY DEF IsNumber
<1>3. PICK k, f : Is(c, k, f)
  BY DEF IsNumber
<1>4. n \in Int /\ d \in Int /\ m \in Int /\ e \in Int /\ k \in Int /\ f \in Int
  BY <1>1, <1>2, <1>3 DEF Is
<1> DEFINE u == m * f + k * e
           v == n * e + m * d
<1>5. Is(FAdd(b, c), u, e * f) /\ Is(FAdd(a, b), v, d * e)
  BY <1>1, <1>2, <1>3, Sum
<1>6. Is(FMul(b, c), m * k, e * f) /\ Is(FMul(a, b), n * m, d * e)
  BY <1>1, <1>2, <1>3, Product
<1> DEFINE L == n * (e * f) + u * d
           R == v * f + k * (d * e)
           M == d * (e * f)
           S == (d * e) * f
<1>7. L * S = R * M /\ (n * (m * k)) * S = ((n * m) * k) * M
  BY <1>4
<1> HIDE DEF u, v
<1>8. Is(FAdd(a, FAdd(b, c)), L, M) /\ Is(FAdd(FAdd(a, b), c), R, S)
  BY <1>1, <1>3, <1>5, Sum
<1>9. Is(FMul(a, FMul(b, c)), n * (m * k), M) /\ Is(FMul(FMul(a, b), c), (n * m) * k, S)
  BY <1>1, <1>3, <1>6, Product
<1> HIDE DEF L, R, M, S
<1> QED BY <1>7, <1>8, <1>9, Same

\* A product with a sum.
LEMMA Distributes ==
  ASSUME NEW a, NEW b, NEW c, IsNumber(a), IsNumber(b), IsNumber(c)
  PROVE  FMul(FAdd(a, b), c) = FAdd(FMul(a, c), FMul(b, c))
<1>1. PICK n, d : Is(a, n, d)
  BY DEF IsNumber
<1>2. PICK m, e : Is(b, m, e)
  BY DEF IsNumber
<1>3. PICK k, f : Is(c, k, f)
  BY DEF IsNumber
<1>4. n \in Int /\ d \in Int /\ m \in Int /\ e \in Int /\ k \in Int /\ f \in Int
  BY <1>1, <1>2, <1>3 DEF Is
<1> DEFINE v == n * e + m * d
<1>5. Is(FAdd(a, b), v, d * e)
  BY <1>1, <1>2, Sum
<1>6. Is(FMul(a, c), n * k, d * f) /\ Is(FMul(b, c), m * k, e * f)
  BY <1>1, <1>2, <1>3, Product
<1> DEFINE L == v * k
           M == (d * e) * f
           R == (n * k) * (e * f) + (m * k) * (d * f)
           S == (d * f) * (e * f)
<1>7. L * S = R * M
  BY <1>4
<1> HIDE DEF v
<1>8. Is(FMul(FAdd(a, b), c), L, M)
  BY <1>3, <1>5, Product
<1>9. Is(FAdd(FMul(a, c), FMul(b, c)), R, S)
  BY <1>6, Sum
<1> HIDE DEF L, M, R, S
<1> QED BY <1>7, <1>8, <1>9, Same

-----------------------------------------------------------------------------
(* Sums and products *)

\* The partial results of a fold up to n.
IsFold(t, op, f, lo, n) ==
  /\ DOMAIN t = 0 .. n
  /\ \A k \in 0 .. n : t[k] = IF k < lo THEN Unit(op) ELSE Join(op, t[k - 1], f[k])

\* The partial results exist ...
LEMMA FoldExists ==
  ASSUME NEW op, NEW f, NEW lo \in Nat \ {0}, NEW n \in Nat
  PROVE  \E t : IsFold(t, op, f, lo, n)
<1> DEFINE T == {k \in Nat : \E t : IsFold(t, op, f, lo, k)}
<1>1. 0 \in T
  <2> DEFINE t == [k \in 0 .. 0 |-> Unit(op)]
  <2>1. \A k \in 0 .. 0 : k < lo /\ t[k] = Unit(op)
    OBVIOUS
  <2>2. IsFold(t, op, f, lo, 0)
    BY <2>1 DEF IsFold
  <2> QED BY <2>2
<1>2. ASSUME NEW m \in Nat, m \in T PROVE m + 1 \in T
  <2>1. PICK t : IsFold(t, op, f, lo, m)
    BY <1>2
  <2> DEFINE e == IF m + 1 < lo THEN Unit(op) ELSE Join(op, t[m], f[m + 1])
             u == [k \in 0 .. m + 1 |-> IF k = m + 1 THEN e ELSE t[k]]
  <2>2. ASSUME NEW k \in 0 .. m PROVE u[k] = t[k]
    <3>1. k \in 0 .. m + 1 /\ k # m + 1
      OBVIOUS
    <3> QED BY <3>1
  <2>3. u[m + 1] = e
    OBVIOUS
  <2>4. DOMAIN u = 0 .. m + 1
    OBVIOUS
  <2> HIDE DEF u
  <2>5. ASSUME NEW k \in 0 .. m + 1
        PROVE  u[k] = IF k < lo THEN Unit(op) ELSE Join(op, u[k - 1], f[k])
    <3>1. CASE k = m + 1
      <4>1. k - 1 = m /\ m \in 0 .. m
        BY <3>1
      <4> QED BY <2>2, <2>3, <3>1, <4>1
    <3>2. CASE k # m + 1
      <4>1. k \in 0 .. m
        BY <3>2
      <4>2. t[k] = IF k < lo THEN Unit(op) ELSE Join(op, t[k - 1], f[k])
        BY <2>1, <4>1 DEF IsFold
      <4>3. ~(k < lo) => k - 1 \in 0 .. m
        BY <4>1
      <4> QED BY <2>2, <4>1, <4>2, <4>3
    <3> QED BY <3>1, <3>2
  <2>6. IsFold(u, op, f, lo, m + 1)
    BY <2>4, <2>5 DEF IsFold
  <2> QED BY <2>6
<1> HIDE DEF T
<1>3. n \in T
  BY <1>1, <1>2, Induction
<1> QED BY <1>3 DEF T

\* ... and are unique.
LEMMA FoldUnique ==
  ASSUME NEW op, NEW f, NEW lo \in Nat \ {0}, NEW m \in Nat, NEW n \in Nat, NEW t, NEW u,
         IsFold(t, op, f, lo, m), IsFold(u, op, f, lo, n), NEW k \in Nat, k <= m, k <= n
  PROVE  t[k] = u[k]
<1> DEFINE T == {i \in Nat : i <= m /\ i <= n => t[i] = u[i]}
<1>1. 0 \in T
  <2>1. 0 \in 0 .. m /\ 0 \in 0 .. n /\ 0 < lo
    OBVIOUS
  <2> QED BY <2>1 DEF IsFold
<1>2. ASSUME NEW i \in Nat, i \in T PROVE i + 1 \in T
  <2> SUFFICES ASSUME i + 1 <= m, i + 1 <= n PROVE t[i + 1] = u[i + 1]
    OBVIOUS
  <2>1. i + 1 \in 0 .. m /\ i + 1 \in 0 .. n /\ (i + 1) - 1 = i /\ i <= m /\ i <= n
    OBVIOUS
  <2>2. t[i] = u[i]
    BY <1>2, <2>1
  <2> QED BY <2>1, <2>2 DEF IsFold
<1> HIDE DEF T
<1>3. k \in T
  BY <1>1, <1>2, Induction
<1> QED BY <1>3 DEF T

\* What Fold computes: nothing is the unit, and the last element joins last.
LEMMA FoldSteps ==
  ASSUME NEW op, NEW f, NEW lo \in Nat \ {0}, NEW n \in Nat
  PROVE  Fold(op, f, lo, n) = IF n < lo THEN Unit(op)
                              ELSE Join(op, Fold(op, f, lo, n - 1), f[n])
<1> DEFINE P(k) == CHOOSE t : IsFold(t, op, f, lo, k)
           w == [k \in Nat |-> P(k)[k]]
           v == [k \in Nat |-> IF k < lo THEN Unit(op) ELSE Join(op, w[k - 1], f[k])]
<1>1. \A k \in Nat : IsFold(P(k), op, f, lo, k)
  BY FoldExists
<1> HIDE DEF P
<1>2. ASSUME NEW k \in Nat PROVE w[k] = v[k]
  <2>1. k \in 0 .. k
    OBVIOUS
  <2>2. P(k)[k] = IF k < lo THEN Unit(op) ELSE Join(op, P(k)[k - 1], f[k])
    BY <1>1, <2>1 DEF IsFold
  <2>3. CASE k < lo
    BY <2>2, <2>3
  <2>4. CASE ~(k < lo)
    <3>1. k - 1 \in Nat /\ k - 1 <= k
      BY <2>4
    <3>2. P(k)[k - 1] = P(k - 1)[k - 1]
      BY <1>1, <3>1, FoldUnique
    <3> QED BY <2>2, <2>4, <3>1, <3>2
  <2> QED BY <2>3, <2>4
<1>3. w = v
  BY <1>2
<1> DEFINE g == CHOOSE t : t = [i \in Nat |-> IF i < lo THEN Unit(op)
                                              ELSE Join(op, t[i - 1], f[i])]
<1>4. g = [i \in Nat |-> IF i < lo THEN Unit(op) ELSE Join(op, g[i - 1], f[i])]
  BY <1>3
<1> HIDE DEF g
<1>5. \A k \in Nat : g[k] = IF k < lo THEN Unit(op) ELSE Join(op, g[k - 1], f[k])
  BY <1>4
<1>6. \A k \in Nat : Fold(op, f, lo, k) = g[k]
  BY DEF Fold, g
<1>7. ~(n < lo) => n - 1 \in Nat
  OBVIOUS
<1> QED BY <1>5, <1>6, <1>7

\* One more element.
LEMMA FoldNext ==
  ASSUME NEW op, NEW f, NEW lo \in Nat \ {0}, NEW n \in Nat
  PROVE  /\ n + 1 < lo => Fold(op, f, lo, n + 1) = Unit(op)
         /\ lo <= n + 1 => Fold(op, f, lo, n + 1) = Join(op, Fold(op, f, lo, n), f[n + 1])
<1> DEFINE k == n + 1
<1>1. k \in Nat /\ k - 1 = n
  OBVIOUS
<1>2. Fold(op, f, lo, k) = IF k < lo THEN Unit(op) ELSE Join(op, Fold(op, f, lo, k - 1), f[k])
  BY <1>1, FoldSteps
<1> QED BY <1>1, <1>2

\* A fold depends on what it folds only.
LEMMA FoldSame ==
  ASSUME NEW op, NEW f, NEW g, NEW lo \in Nat \ {0}, NEW n \in Nat,
         \A k \in lo .. n : f[k] = g[k]
  PROVE  Fold(op, f, lo, n) = Fold(op, g, lo, n)
<1> DEFINE T == {i \in Nat : i <= n => Fold(op, f, lo, i) = Fold(op, g, lo, i)}
<1>1. 0 \in T
  <2>1. 0 < lo /\ 0 \in Nat
    OBVIOUS
  <2>2. Fold(op, f, lo, 0) = Unit(op) /\ Fold(op, g, lo, 0) = Unit(op)
    BY <2>1, FoldSteps
  <2> QED BY <2>2
<1>2. ASSUME NEW i \in Nat, i \in T PROVE i + 1 \in T
  <2> SUFFICES ASSUME i + 1 <= n PROVE Fold(op, f, lo, i + 1) = Fold(op, g, lo, i + 1)
    OBVIOUS
  <2>1. i <= n /\ (i + 1) - 1 = i /\ i + 1 \in Nat /\ (~(i + 1 < lo) => i + 1 \in lo .. n)
    OBVIOUS
  <2>2. Fold(op, f, lo, i) = Fold(op, g, lo, i)
    BY <1>2, <2>1
  <2>3. ~(i + 1 < lo) => f[i + 1] = g[i + 1]
    BY <2>1
  <2>4. CASE i + 1 < lo
    <3>1. Fold(op, f, lo, i + 1) = Unit(op)
      BY <2>4, FoldNext
    <3>2. Fold(op, g, lo, i + 1) = Unit(op)
      BY <2>4, FoldNext
    <3> QED BY <3>1, <3>2
  <2>5. CASE lo <= i + 1
    <3>1. Fold(op, f, lo, i + 1) = Join(op, Fold(op, f, lo, i), f[i + 1])
      BY <2>5, FoldNext
    <3>2. Fold(op, g, lo, i + 1) = Join(op, Fold(op, g, lo, i), g[i + 1])
      BY <2>5, FoldNext
    <3> QED BY <2>1, <2>2, <2>3, <2>5, <3>1, <3>2
  <2> QED BY <2>4, <2>5
<1> HIDE DEF T
<1>3. n \in T
  BY <1>1, <1>2, Induction
<1> QED BY <1>3 DEF T

\* Elements lo to n of f are numbers.
Numbers(f, lo, n) == \A k \in lo .. n : IsNumber(f[k])

\* Folds of numbers are numbers.
LEMMA FoldNumber ==
  ASSUME NEW op, NEW f, NEW lo \in Nat \ {0}, NEW n \in Nat, Numbers(f, lo, n)
  PROVE  IsNumber(Fold(op, f, lo, n))
<1> DEFINE T == {i \in Nat : i <= n => IsNumber(Fold(op, f, lo, i))}
<1>0. IsNumber(Unit(op))
  <2>1. IsNumber(Whole(0)) /\ IsNumber(Whole(1))
    BY WholeNumber
  <2> QED BY <2>1 DEF Unit
<1>1. 0 \in T
  <2>1. 0 < lo /\ 0 \in Nat
    OBVIOUS
  <2>2. Fold(op, f, lo, 0) = Unit(op)
    BY <2>1, FoldSteps
  <2> QED BY <1>0, <2>2
<1>2. ASSUME NEW i \in Nat, i \in T PROVE i + 1 \in T
  <2> SUFFICES ASSUME i + 1 <= n PROVE IsNumber(Fold(op, f, lo, i + 1))
    OBVIOUS
  <2>1. CASE i + 1 < lo
    BY <1>0, <2>1, FoldNext
  <2>2. CASE lo <= i + 1
    <3>1. i <= n /\ i + 1 \in lo .. n
      BY <2>2
    <3>2. IsNumber(f[i + 1]) /\ IsNumber(Fold(op, f, lo, i))
      BY <1>2, <3>1 DEF Numbers
    <3>3. IsNumber(Join(op, Fold(op, f, lo, i), f[i + 1]))
      BY <3>2, NumberClosed DEF Join
    <3> QED BY <2>2, <3>3, FoldNext
  <2> QED BY <2>1, <2>2
<1> HIDE DEF T
<1>3. n \in T
  BY <1>1, <1>2, Induction
<1> QED BY <1>3 DEF T

\* A common factor.
LEMMA SumScales ==
  ASSUME NEW f, NEW g, NEW c, NEW n \in Nat, IsNumber(c), Numbers(f, 1, n),
         \A k \in 1 .. n : g[k] = FMul(f[k], c)
  PROVE  Fold("+", g, 1, n) = FMul(Fold("+", f, 1, n), c)
<1> DEFINE T == {i \in Nat : i <= n => Fold("+", g, 1, i) = FMul(Fold("+", f, 1, i), c)}
<1>1. 0 \in T
  <2>1. 0 < 1 /\ 0 \in Nat /\ 1 \in Nat \ {0}
    OBVIOUS
  <2>2. Fold("+", f, 1, 0) = Whole(0) /\ Fold("+", g, 1, 0) = Whole(0)
    BY <2>1, FoldSteps DEF Unit
  <2>3. FMul(Whole(0), c) = Whole(0)
    <3>1. PICK m, e : Is(c, m, e)
      BY DEF IsNumber
    <3>2. Is(Whole(0), 0, 1)
      BY WholeIs
    <3>3. Is(FMul(Whole(0), c), 0 * m, 1 * e)
      BY <3>1, <3>2, Product
    <3>4. m \in Int /\ e \in Int
      BY <3>1 DEF Is
    <3>5. (0 * m) * 1 = 0 * (1 * e)
      BY <3>4
    <3> QED BY <3>2, <3>3, <3>5, Same
  <2> QED BY <2>2, <2>3
<1>2. ASSUME NEW i \in Nat, i \in T PROVE i + 1 \in T
  <2> SUFFICES ASSUME i + 1 <= n PROVE Fold("+", g, 1, i + 1) = FMul(Fold("+", f, 1, i + 1), c)
    OBVIOUS
  <2> DEFINE F == Fold("+", f, 1, i)
             G == Fold("+", g, 1, i)
  <2>1. i <= n /\ i + 1 \in 1 .. n /\ 1 \in Nat \ {0} /\ 1 <= i + 1
    OBVIOUS
  <2>2. G = FMul(F, c)
    BY <1>2, <2>1
  <2>3. IsNumber(F) /\ IsNumber(f[i + 1])
    <3>1. Numbers(f, 1, i)
      BY <2>1 DEF Numbers
    <3>2. IsNumber(F)
      BY <2>1, <3>1, FoldNumber
    <3> QED BY <2>1, <3>2 DEF Numbers
  <2>4. /\ Fold("+", f, 1, i + 1) = FAdd(F, f[i + 1])
        /\ Fold("+", g, 1, i + 1) = FAdd(G, g[i + 1])
    BY <2>1, FoldNext DEF Join
  <2> HIDE DEF F, G
  <2>5. FMul(FAdd(F, f[i + 1]), c) = FAdd(FMul(F, c), FMul(f[i + 1], c))
    BY <2>3, Distributes
  <2> QED BY <2>1, <2>2, <2>4, <2>5
<1> HIDE DEF T
<1>3. n \in T
  BY <1>1, <1>2, Induction
<1> QED BY <1>3 DEF T

\* Another fraction of the same number.
LEMMA Rescale ==
  ASSUME NEW a, NEW n, NEW d, Is(a, n, d), NEW m \in Int, NEW e \in Nat \ {0}, n * e = m * d
  PROVE  Is(a, m, e)
BY RatEqual DEF Is

\* a is a positive number.
IsPositive(a) == \E n, d : n \in Nat \ {0} /\ Is(a, n, d)

\* Two sums of two, added up in the other order.
LEMMA SumsSwap ==
  ASSUME NEW a, NEW b, NEW c, NEW d,
         IsNumber(a), IsNumber(b), IsNumber(c), IsNumber(d)
  PROVE  FAdd(FAdd(a, b), FAdd(c, d)) = FAdd(FAdd(a, c), FAdd(b, d))
<1>1. IsNumber(FAdd(c, d)) /\ IsNumber(FAdd(b, d))
  BY NumberClosed
<1>2. FAdd(FAdd(a, b), FAdd(c, d)) = FAdd(a, FAdd(b, FAdd(c, d)))
  BY <1>1, Associates
<1>3. FAdd(b, FAdd(c, d)) = FAdd(FAdd(b, c), d) /\ FAdd(c, FAdd(b, d)) = FAdd(FAdd(c, b), d)
  BY Associates
<1>4. FAdd(b, c) = FAdd(c, b)
  BY Commutes
<1>5. FAdd(FAdd(a, c), FAdd(b, d)) = FAdd(a, FAdd(c, FAdd(b, d)))
  BY <1>1, Associates
<1> QED BY <1>2, <1>3, <1>4, <1>5

\* The sum of two sums.
LEMMA SumAdds ==
  ASSUME NEW f, NEW g, NEW h, NEW m \in Nat, Numbers(f, 1, m), Numbers(g, 1, m),
         \A k \in 1 .. m : h[k] = FAdd(f[k], g[k])
  PROVE  Fold("+", h, 1, m) = FAdd(Fold("+", f, 1, m), Fold("+", g, 1, m))
<1> DEFINE F(i) == Fold("+", f, 1, i)
           G(i) == Fold("+", g, 1, i)
           H(i) == Fold("+", h, 1, i)
           T == {i \in Nat : i <= m => H(i) = FAdd(F(i), G(i))}
<1>1. 0 \in T
  <2>1. 0 < 1 /\ 0 \in Nat /\ 1 \in Nat \ {0}
    OBVIOUS
  <2>2. F(0) = Whole(0) /\ G(0) = Whole(0) /\ H(0) = Whole(0)
    BY <2>1, FoldSteps DEF Unit
  <2>3. IsNumber(Whole(0))
    BY WholeNumber
  <2>4. FAdd(Whole(0), Whole(0)) = Whole(0)
    BY <2>3, Units
  <2> QED BY <2>2, <2>4
<1>2. ASSUME NEW i \in Nat, i \in T PROVE i + 1 \in T
  <2> SUFFICES ASSUME i + 1 <= m PROVE H(i + 1) = FAdd(F(i + 1), G(i + 1))
    OBVIOUS
  <2>1. i <= m /\ i + 1 \in 1 .. m /\ 1 \in Nat \ {0} /\ 1 <= i + 1
    OBVIOUS
  <2>2. H(i) = FAdd(F(i), G(i)) /\ h[i + 1] = FAdd(f[i + 1], g[i + 1])
    BY <1>2, <2>1
  <2>3. IsNumber(F(i)) /\ IsNumber(G(i)) /\ IsNumber(f[i + 1]) /\ IsNumber(g[i + 1])
    <3>1. Numbers(f, 1, i) /\ Numbers(g, 1, i)
      BY <2>1 DEF Numbers
    <3>2. IsNumber(F(i)) /\ IsNumber(G(i))
      BY <2>1, <3>1, FoldNumber
    <3> QED BY <2>1, <3>2 DEF Numbers
  <2>4. /\ F(i + 1) = FAdd(F(i), f[i + 1]) /\ G(i + 1) = FAdd(G(i), g[i + 1])
        /\ H(i + 1) = FAdd(H(i), h[i + 1])
    BY <2>1, FoldNext DEF Join
  <2> DEFINE a == F(i)
             b == G(i)
             c == f[i + 1]
             d == g[i + 1]
  <2>5. FAdd(FAdd(a, b), FAdd(c, d)) = FAdd(FAdd(a, c), FAdd(b, d))
    <3>1. IsNumber(a) /\ IsNumber(b) /\ IsNumber(c) /\ IsNumber(d)
      BY <2>3
    <3> HIDE DEF a, b, c, d
    <3> QED BY <3>1, SumsSwap
  <2> QED BY <2>2, <2>4, <2>5
<1> HIDE DEF T
<1>3. m \in T
  BY <1>1, <1>2, Induction
<1> QED BY <1>3 DEF T

\* A sum of numbers without one of its two terms is the other.
LEMMA TakeAway ==
  ASSUME NEW a, NEW b, IsNumber(a), IsNumber(b)
  PROVE  FSub(FAdd(a, b), a) = b
<1>1. PICK n, d : Is(a, n, d)
  BY DEF IsNumber
<1>2. PICK m, e : Is(b, m, e)
  BY DEF IsNumber
<1>3. n \in Int /\ d \in Int /\ m \in Int /\ e \in Int
  BY <1>1, <1>2 DEF Is
<1> DEFINE u == n * e + m * d
           w == d * e
<1>4. Is(FAdd(a, b), u, w)
  BY <1>1, <1>2, Sum
<1> DEFINE y == u * d - n * w
           z == w * d
<1>5. y * e = m * z
  BY <1>3
<1> HIDE DEF u, w
<1>6. Is(FSub(FAdd(a, b), a), y, z)
  BY <1>1, <1>4, Difference
<1> HIDE DEF y, z
<1> QED BY <1>2, <1>5, <1>6, Same

\* A sum begins with its first element.
LEMMA SumFirst ==
  ASSUME NEW f, NEW lo \in Nat \ {0}, NEW m \in Nat, Numbers(f, lo, lo + m)
  PROVE  Fold("+", f, lo, lo + m) = FAdd(f[lo], Fold("+", f, lo + 1, lo + m))
<1> DEFINE F(i) == Fold("+", f, lo, lo + i)
           G(i) == Fold("+", f, lo + 1, lo + i)
           T == {i \in Nat : i <= m => F(i) = FAdd(f[lo], G(i))}
<1>0. IsNumber(f[lo])
  <2>1. lo \in lo .. lo + m
    OBVIOUS
  <2> QED BY <2>1 DEF Numbers
<1>1. 0 \in T
  <2>1. lo \in Nat /\ ~(lo < lo) /\ lo < lo + 1 /\ lo - 1 \in Nat /\ lo - 1 < lo
        /\ lo + 1 \in Nat \ {0} /\ lo + 0 = lo
    OBVIOUS
  <2>2. Fold("+", f, lo, lo) = Join("+", Fold("+", f, lo, lo - 1), f[lo])
    <3>1. PICK j \in Nat : lo = j + 1
      BY <2>1
    <3>2. lo <= j + 1 /\ lo - 1 = j
      BY <3>1
    <3>3. Fold("+", f, lo, j + 1) = Join("+", Fold("+", f, lo, j), f[j + 1])
      BY <3>2, FoldNext
    <3> QED BY <3>1, <3>2, <3>3
  <2>3. Fold("+", f, lo, lo - 1) = Unit("+")
    BY <2>1, FoldSteps
  <2>4. Fold("+", f, lo + 1, lo) = Unit("+")
    BY <2>1, FoldSteps
  <2>5. FAdd(Whole(0), f[lo]) = f[lo] /\ FAdd(f[lo], Whole(0)) = f[lo]
    BY <1>0, Units
  <2> QED BY <2>1, <2>2, <2>3, <2>4, <2>5 DEF Unit, Join
<1>2. ASSUME NEW i \in Nat, i \in T PROVE i + 1 \in T
  <2> SUFFICES ASSUME i + 1 <= m PROVE F(i + 1) = FAdd(f[lo], G(i + 1))
    OBVIOUS
  <2> DEFINE k == lo + i
  <2>1. /\ k \in Nat /\ lo + (i + 1) = k + 1 /\ lo <= k + 1 /\ lo + 1 <= k + 1 /\ i <= m
        /\ lo + 1 \in Nat \ {0} /\ k + 1 \in lo .. lo + m
    OBVIOUS
  <2> DEFINE x == f[k + 1]
  <2>2. Fold("+", f, lo, k + 1) = FAdd(F(i), x)
    BY <2>1, FoldNext DEF Join
  <2>3. Fold("+", f, lo + 1, k + 1) = FAdd(G(i), x)
    BY <2>1, FoldNext DEF Join
  <2>4. IsNumber(x) /\ IsNumber(G(i))
    <3>1. Numbers(f, lo + 1, k)
      BY <2>1 DEF Numbers
    <3>2. IsNumber(G(i))
      BY <2>1, <3>1, FoldNumber
    <3> QED BY <2>1, <3>2 DEF Numbers
  <2>5. F(i) = FAdd(f[lo], G(i))
    BY <1>2, <2>1
  <2>6. FAdd(f[lo], FAdd(G(i), x)) = FAdd(FAdd(f[lo], G(i)), x)
    <3> HIDE DEF G, x
    <3> QED BY <1>0, <2>4, Associates
  <2> QED BY <2>1, <2>2, <2>3, <2>5, <2>6
<1> HIDE DEF T
<1>3. m \in T
  BY <1>1, <1>2, Induction
<1> QED BY <1>3 DEF T

\* The sum of a window that moves on by one place.
LEMMA SumSlides ==
  ASSUME NEW f, NEW lo \in Nat \ {0}, NEW m \in Nat, Numbers(f, lo, lo + m + 1)
  PROVE  Fold("+", f, lo + 1, lo + m + 1) =
           FAdd(FSub(Fold("+", f, lo, lo + m), f[lo]), f[lo + m + 1])
<1> DEFINE k == lo + m
           G == Fold("+", f, lo + 1, k)
<1>1. /\ k \in Nat /\ lo + 1 <= k + 1 /\ lo + 1 \in Nat \ {0} /\ lo \in lo .. lo + m + 1
      /\ lo + m + 1 = k + 1
  OBVIOUS
<1>2. Numbers(f, lo, lo + m) /\ Numbers(f, lo + 1, k) /\ IsNumber(f[lo])
  BY <1>1 DEF Numbers
<1>3. Fold("+", f, lo, k) = FAdd(f[lo], G)
  BY <1>2, SumFirst
<1>4. IsNumber(G)
  BY <1>1, <1>2, FoldNumber
<1>5. Fold("+", f, lo + 1, k + 1) = FAdd(G, f[k + 1])
  BY <1>1, FoldNext DEF Join
<1> HIDE DEF G
<1>6. FSub(FAdd(f[lo], G), f[lo]) = G
  BY <1>2, <1>4, TakeAway
<1> QED BY <1>1, <1>3, <1>5, <1>6

\* A sum of elements that stand d places further on.
LEMMA SumShifts ==
  ASSUME NEW f, NEW g, NEW d \in Nat, NEW m \in Nat, \A k \in 1 .. m : g[k] = f[d + k]
  PROVE  Fold("+", g, 1, m) = Fold("+", f, d + 1, d + m)
<1> DEFINE F(i) == Fold("+", f, d + 1, d + i)
           G(i) == Fold("+", g, 1, i)
           T == {i \in Nat : i <= m => G(i) = F(i)}
<1>1. 0 \in T
  <2>1. d \in Nat /\ d < d + 1 /\ 0 < 1 /\ d + 1 \in Nat \ {0} /\ 1 \in Nat \ {0} /\ d + 0 = d
    OBVIOUS
  <2>2. Fold("+", f, d + 1, d) = Unit("+")
    BY <2>1, FoldSteps
  <2>3. Fold("+", g, 1, 0) = Unit("+")
    BY <2>1, FoldSteps
  <2> QED BY <2>1, <2>2, <2>3
<1>2. ASSUME NEW i \in Nat, i \in T PROVE i + 1 \in T
  <2> SUFFICES ASSUME i + 1 <= m PROVE G(i + 1) = F(i + 1)
    OBVIOUS
  <2> DEFINE k == d + i
  <2>1. /\ k \in Nat /\ d + (i + 1) = k + 1 /\ d + 1 <= k + 1 /\ 1 <= i + 1 /\ i <= m
        /\ d + 1 \in Nat \ {0} /\ 1 \in Nat \ {0} /\ i + 1 \in 1 .. m
    OBVIOUS
  <2>2. Fold("+", f, d + 1, k + 1) = Join("+", F(i), f[k + 1])
    BY <2>1, FoldNext
  <2>3. Fold("+", g, 1, i + 1) = Join("+", G(i), g[i + 1])
    BY <2>1, FoldNext
  <2>4. G(i) = F(i) /\ g[i + 1] = f[k + 1]
    BY <1>2, <2>1
  <2> QED BY <2>1, <2>2, <2>3, <2>4
<1> HIDE DEF T
<1>3. m \in T
  BY <1>1, <1>2, Induction
<1> QED BY <1>3 DEF T

\* A sum in two parts.
LEMMA SumSplits ==
  ASSUME NEW f, NEW a \in Nat, NEW b \in Nat, Numbers(f, 1, a + b)
  PROVE  Fold("+", f, 1, a + b) = FAdd(Fold("+", f, 1, a), Fold("+", f, a + 1, a + b))
<1> DEFINE A == Fold("+", f, 1, a)
           F(i) == Fold("+", f, 1, a + i)
           G(i) == Fold("+", f, a + 1, a + i)
           T == {i \in Nat : i <= b => F(i) = FAdd(A, G(i))}
<1>0. IsNumber(A)
  <2>1. Numbers(f, 1, a) /\ 1 \in Nat \ {0}
    BY DEF Numbers
  <2> QED BY <2>1, FoldNumber
<1>1. 0 \in T
  <2>1. a < a + 1 /\ a + 1 \in Nat \ {0} /\ a + 0 = a
    OBVIOUS
  <2>2. Fold("+", f, a + 1, a) = Whole(0)
    BY <2>1, FoldSteps DEF Unit
  <2>3. FAdd(A, Whole(0)) = A
    BY <1>0, Units
  <2> QED BY <2>1, <2>2, <2>3
<1>2. ASSUME NEW i \in Nat, i \in T PROVE i + 1 \in T
  <2> SUFFICES ASSUME i + 1 <= b PROVE F(i + 1) = FAdd(A, G(i + 1))
    OBVIOUS
  <2> DEFINE k == a + i
             x == f[k + 1]
  <2>1. /\ k \in Nat /\ a + (i + 1) = k + 1 /\ a + 1 <= k + 1 /\ 1 <= k + 1 /\ i <= b
        /\ a + 1 \in Nat \ {0} /\ 1 \in Nat \ {0} /\ k + 1 \in 1 .. a + b
    OBVIOUS
  <2>2. Fold("+", f, 1, k + 1) = FAdd(F(i), x)
    BY <2>1, FoldNext DEF Join
  <2>3. Fold("+", f, a + 1, k + 1) = FAdd(G(i), x)
    BY <2>1, FoldNext DEF Join
  <2>4. IsNumber(x) /\ IsNumber(G(i))
    <3>1. Numbers(f, a + 1, k)
      BY <2>1 DEF Numbers
    <3>2. IsNumber(G(i))
      BY <2>1, <3>1, FoldNumber
    <3> QED BY <2>1, <3>2 DEF Numbers
  <2>5. F(i) = FAdd(A, G(i))
    BY <1>2, <2>1
  <2>6. FAdd(A, FAdd(G(i), x)) = FAdd(FAdd(A, G(i)), x)
    <3> HIDE DEF A, G, x
    <3> QED BY <1>0, <2>4, Associates
  <2> QED BY <2>1, <2>2, <2>3, <2>5, <2>6
<1> HIDE DEF T
<1>3. b \in T
  BY <1>1, <1>2, Induction
<1> QED BY <1>3 DEF T

\* A sum does not depend on where a ring is cut open.
LEMMA SumRotates ==
  ASSUME NEW s, NEW w, NEW a \in Nat, NEW b \in Nat, Numbers(s, 1, a + b),
         \A k \in 1 .. b : w[k] = s[a + k], \A k \in 1 .. a : w[b + k] = s[k]
  PROVE  Fold("+", w, 1, a + b) = Fold("+", s, 1, a + b)
<1> DEFINE A == Fold("+", s, 1, a)
           B == Fold("+", s, a + 1, a + b)
<1>1. Fold("+", s, 1, a + b) = FAdd(A, B)
  BY SumSplits
<1>2. Numbers(w, 1, b + a)
  <2> SUFFICES ASSUME NEW k \in 1 .. b + a PROVE IsNumber(w[k])
    BY DEF Numbers
  <2>1. CASE k <= b
    <3>1. k \in 1 .. b /\ a + k \in 1 .. a + b
      BY <2>1
    <3> QED BY <3>1 DEF Numbers
  <2>2. CASE k > b
    <3> DEFINE j == k - b
    <3>1. j \in 1 .. a /\ j \in 1 .. a + b /\ k = b + j
      BY <2>2
    <3> QED BY <3>1 DEF Numbers
  <2> QED BY <2>1, <2>2
<1>3. Fold("+", w, 1, b + a) = FAdd(Fold("+", w, 1, b), Fold("+", w, b + 1, b + a))
  BY <1>2, SumSplits
<1>4. Fold("+", w, 1, b) = B
  BY SumShifts
<1>5. Fold("+", w, b + 1, b + a) = A
  <2>1. \A k \in 1 .. a : s[k] = w[b + k]
    OBVIOUS
  <2> QED BY <2>1, SumShifts
<1>6. IsNumber(A) /\ IsNumber(B)
  <2>1. Numbers(s, 1, a) /\ Numbers(s, a + 1, a + b) /\ 1 \in Nat \ {0} /\ a + 1 \in Nat \ {0}
        /\ a + b \in Nat
    BY DEF Numbers
  <2> QED BY <2>1, FoldNumber
<1> HIDE DEF A, B
<1>7. FAdd(A, B) = FAdd(B, A)
  BY <1>6, Commutes
<1>8. a + b = b + a
  OBVIOUS
<1> QED BY <1>1, <1>3, <1>4, <1>5, <1>7, <1>8

\* A sum of one and the same number.
LEMMA SumConstant ==
  ASSUME NEW f, NEW c, IsNumber(c), NEW m \in Nat, \A k \in 1 .. m : f[k] = c
  PROVE  Fold("+", f, 1, m) = FMul(Whole(m), c)
<1> DEFINE F(i) == Fold("+", f, 1, i)
           T == {i \in Nat : i <= m => F(i) = FMul(Whole(i), c)}
<1>0. PICK u, w : Is(c, u, w)
  BY DEF IsNumber
<1>9. u \in Int /\ w \in Int
  BY <1>0 DEF Is
<1>1. 0 \in T
  <2>1. 0 < 1 /\ 0 \in Nat /\ 1 \in Nat \ {0}
    OBVIOUS
  <2>2. F(0) = Whole(0)
    BY <2>1, FoldSteps DEF Unit
  <2>3. Is(Whole(0), 0, 1)
    BY WholeIs
  <2>4. Is(FMul(Whole(0), c), 0 * u, 1 * w)
    BY <1>0, <2>3, Product
  <2>5. (0 * u) * 1 = 0 * (1 * w)
    BY <1>9
  <2>6. FMul(Whole(0), c) = Whole(0)
    BY <2>3, <2>4, <2>5, Same
  <2> QED BY <2>2, <2>6
<1>2. ASSUME NEW i \in Nat, i \in T PROVE i + 1 \in T
  <2> SUFFICES ASSUME i + 1 <= m PROVE F(i + 1) = FMul(Whole(i + 1), c)
    OBVIOUS
  <2>1. i <= m /\ i + 1 \in 1 .. m /\ 1 \in Nat \ {0} /\ 1 <= i + 1 /\ i \in Int /\ i + 1 \in Int
    OBVIOUS
  <2>2. F(i + 1) = FAdd(F(i), f[i + 1])
    BY <2>1, FoldNext DEF Join
  <2>3. F(i) = FMul(Whole(i), c) /\ f[i + 1] = c
    BY <1>2, <2>1
  <2>4. Is(FMul(Whole(i), c), i * u, 1 * w) /\ Is(FMul(Whole(i + 1), c), (i + 1) * u, 1 * w)
    BY <1>0, <2>1, WholeIs, Product
  <2> DEFINE q == i * u
             r == 1 * w
             y == q * w + u * r
             z == r * w
  <2>5. y * r = ((i + 1) * u) * z
    BY <1>9, <2>1
  <2>6. Is(FMul(Whole(i), c), q, r) /\ Is(FMul(Whole(i + 1), c), (i + 1) * u, r)
    BY <2>4
  <2> HIDE DEF q, r
  <2>7. Is(FAdd(FMul(Whole(i), c), c), y, z)
    BY <1>0, <2>6, Sum
  <2> HIDE DEF y, z
  <2>8. FAdd(FMul(Whole(i), c), c) = FMul(Whole(i + 1), c)
    BY <2>5, <2>6, <2>7, Same
  <2> QED BY <2>2, <2>3, <2>8
<1> HIDE DEF T
<1>3. m \in T
  BY <1>1, <1>2, Induction
<1> QED BY <1>3 DEF T

-----------------------------------------------------------------------------
(* Means and moments *)

\* a is a fraction with denominator L.
Over(a, L) == \E u \in Int : Is(a, u, L)

\* The mean of c numbers with sum S, and the sum of the products of their
\* deviations from it and of those of c others with sum T, where P is the sum
\* of the products of the numbers themselves.
MeanOf(c, S) == IF c = 0 THEN Whole(0) ELSE FDiv(S, Whole(c))
MomentOf(c, P, S, T) ==
  IF c = 0 THEN Whole(0) ELSE FSub(P, FDiv(FMul(S, T), Whole(c)))

\* A multiple of a denominator is one.
LEMMA OverMore ==
  ASSUME NEW a, NEW L \in Nat \ {0}, NEW k \in Nat \ {0}, Over(a, L)
  PROVE  Over(a, L * k) /\ Over(a, k * L)
<1>1. PICK u \in Int : Is(a, u, L)
  BY DEF Over
<1>2. u * k \in Int /\ L * k \in Nat \ {0} /\ u * (L * k) = (u * k) * L /\ L * k = k * L
  BY Positive
<1>3. Is(a, u * k, L * k)
  BY <1>1, <1>2, Rescale
<1> QED BY <1>2, <1>3 DEF Over

\* Some numbers have a common denominator.
LEMMA CommonOfTwo ==
  ASSUME NEW a, NEW L \in Nat \ {0}, Over(a, L), NEW b, IsNumber(b)
  PROVE  \E k \in Nat \ {0} : Over(a, L * k) /\ Over(b, L * k)
<1>1. PICK m, e : Is(b, m, e)
  BY DEF IsNumber
<1>2. m \in Int /\ e \in Nat \ {0}
  BY <1>1 DEF Is
<1>3. Over(b, e)
  BY <1>1, <1>2 DEF Over
<1>4. Over(a, L * e) /\ Over(b, L * e)
  BY <1>2, <1>3, OverMore
<1> QED BY <1>2, <1>4

\* Five numbers have a common denominator.
LEMMA CommonDenominator ==
  ASSUME NEW a, NEW b, NEW c, NEW d, NEW e, IsNumber(a), IsNumber(b), IsNumber(c),
         IsNumber(d), IsNumber(e)
  PROVE  \E L \in Nat \ {0} : Over(a, L) /\ Over(b, L) /\ Over(c, L) /\ Over(d, L) /\ Over(e, L)
<1>1. PICK L1 \in Nat \ {0} : Over(a, L1)
  <2>1. PICK m, w : Is(a, m, w)
    BY DEF IsNumber
  <2>2. m \in Int /\ w \in Nat \ {0}
    BY <2>1 DEF Is
  <2> QED BY <2>1, <2>2 DEF Over
<1>2. PICK k2 \in Nat \ {0} : Over(a, L1 * k2) /\ Over(b, L1 * k2)
  BY <1>1, CommonOfTwo
<1>3. PICK L2 \in Nat \ {0} : Over(a, L2) /\ Over(b, L2)
  BY <1>2, Positive
<1>4. PICK k3 \in Nat \ {0} : Over(a, L2 * k3) /\ Over(c, L2 * k3)
  BY <1>3, CommonOfTwo
<1>5. PICK L3 \in Nat \ {0} : Over(a, L3) /\ Over(b, L3) /\ Over(c, L3)
  <2>1. Over(b, L2 * k3)
    BY <1>3, <1>4, OverMore
  <2> QED BY <1>4, <2>1, Positive
<1>6. PICK k4 \in Nat \ {0} : Over(a, L3 * k4) /\ Over(d, L3 * k4)
  BY <1>5, CommonOfTwo
<1>7. PICK L4 \in Nat \ {0} : Over(a, L4) /\ Over(b, L4) /\ Over(c, L4) /\ Over(d, L4)
  <2>1. Over(b, L3 * k4) /\ Over(c, L3 * k4)
    BY <1>5, <1>6, OverMore
  <2> QED BY <1>6, <2>1, Positive
<1>8. PICK k5 \in Nat \ {0} : Over(a, L4 * k5) /\ Over(e, L4 * k5)
  BY <1>7, CommonOfTwo
<1>9. Over(b, L4 * k5) /\ Over(c, L4 * k5) /\ Over(d, L4 * k5)
  BY <1>7, <1>8, OverMore
<1> QED BY <1>8, <1>9, Positive

\* A mean and a moment as fractions.
LEMMA MeanIs ==
  ASSUME NEW c \in Nat \ {0}, NEW L \in Nat \ {0}, NEW S, NEW s \in Int, Is(S, s, L)
  PROVE  Is(MeanOf(c, S), s, c * L)
<1>1. Is(Whole(c), c, 1)
  BY WholeIs
<1>2. Is(FDiv(S, Whole(c)), s * 1, L * c)
  BY <1>1, Ratio
<1>3. s * 1 = s /\ L * c = c * L /\ c # 0
  OBVIOUS
<1> QED BY <1>2, <1>3 DEF MeanOf

\* A moment, as a fraction.
LEMMA MomentIs ==
  ASSUME NEW c \in Nat \ {0}, NEW L \in Nat \ {0}, NEW P, NEW q \in Int, Is(P, q, L * L),
         NEW S, NEW s \in Int, Is(S, s, L), NEW T, NEW t \in Int, Is(T, t, L)
  PROVE  Is(MomentOf(c, P, S, T), c * q - s * t, c * (L * L))
<1> DEFINE M == L * L
           u == s * t
<1>1. M \in Nat \ {0} /\ u \in Int /\ c * M \in Nat \ {0} /\ c * q - u \in Int
  BY Positive
<1>2. Is(FMul(S, T), u, M)
  BY Product
<1>3. Is(Whole(c), c, 1) /\ c # 0
  BY WholeIs
<1> HIDE DEF M, u
<1>4. Is(FDiv(FMul(S, T), Whole(c)), u * 1, M * c)
  BY <1>2, <1>3, Ratio
<1>5. u * 1 = u
  BY <1>1
<1>6. Is(P, q, M)
  BY DEF M
<1> DEFINE w == M * c
<1>7. Is(FDiv(FMul(S, T), Whole(c)), u, w)
  BY <1>4, <1>5
<1> DEFINE x == q * w - u * M
           y == M * w
<1>8. x * (c * M) = (c * q - u) * y
  BY <1>1
<1> HIDE DEF w
<1>9. Is(FSub(P, FDiv(FMul(S, T), Whole(c))), x, y)
  BY <1>6, <1>7, Difference
<1> HIDE DEF x, y
<1>10. Is(FSub(P, FDiv(FMul(S, T), Whole(c))), c * q - u, c * M)
  BY <1>1, <1>8, <1>9, Rescale
<1> QED BY <1>3, <1>10 DEF MomentOf, M, u

\* The deviation from the mean: before and after the number joins.
LEMMA DeviationBefore ==
  ASSUME NEW c \in Nat \ {0}, NEW L \in Nat \ {0}, NEW S, NEW s \in Int, Is(S, s, L),
         NEW x, NEW a \in Int, Is(x, a, L)
  PROVE  Is(FSub(x, MeanOf(c, S)), c * a - s, c * L)
<1> DEFINE M == c * L
           u == a * M - s * L
           w == L * M
<1>1. M \in Nat \ {0} /\ c * a - s \in Int
  BY Positive
<1>2. Is(MeanOf(c, S), s, M)
  BY MeanIs
<1>3. u * M = (c * a - s) * w
  OBVIOUS
<1> HIDE DEF M
<1>4. Is(FSub(x, MeanOf(c, S)), u, w)
  BY <1>2, Difference
<1> HIDE DEF u, w
<1>5. Is(FSub(x, MeanOf(c, S)), c * a - s, M)
  BY <1>1, <1>3, <1>4, Rescale
<1> QED BY <1>5 DEF M

\* Sums and differences keep a common denominator.
LEMMA SumOver ==
  ASSUME NEW L \in Nat \ {0}, NEW S, NEW s \in Int, Is(S, s, L),
         NEW x, NEW a \in Int, Is(x, a, L)
  PROVE  Is(FAdd(S, x), s + a, L) /\ Is(FSub(S, x), s - a, L)
<1> DEFINE u == s * L + a * L
           v == s * L - a * L
           w == L * L
<1>1. u * L = (s + a) * w /\ v * L = (s - a) * w /\ s + a \in Int /\ s - a \in Int
  OBVIOUS
<1>2. Is(FAdd(S, x), u, w) /\ Is(FSub(S, x), v, w)
  BY Sum, Difference
<1> HIDE DEF u, v, w
<1> QED BY <1>1, <1>2, Rescale

\* The deviation of a number from the mean that includes it.
LEMMA DeviationAfter ==
  ASSUME NEW c \in Nat, NEW L \in Nat \ {0}, NEW S, NEW s \in Int, Is(S, s, L),
         NEW x, NEW a \in Int, Is(x, a, L)
  PROVE  Is(FSub(x, MeanOf(c + 1, FAdd(S, x))), c * a - s, (c + 1) * L)
<1>1. c + 1 \in Nat \ {0} /\ s + a \in Int /\ (c + 1) * a - (s + a) = c * a - s
  OBVIOUS
<1>2. Is(FAdd(S, x), s + a, L)
  BY SumOver
<1>3. Is(FSub(x, MeanOf(c + 1, FAdd(S, x))), (c + 1) * a - (s + a), (c + 1) * L)
  BY <1>1, <1>2, DeviationBefore
<1> QED BY <1>1, <1>3

\* The mean follows a number that joins ...
LEMMA MeanGrows ==
  ASSUME NEW c \in Nat, NEW S, NEW x, IsNumber(S), IsNumber(x), c = 0 => S = Whole(0)
  PROVE  LET m == MeanOf(c, S)
         IN  FAdd(m, FDiv(FSub(x, m), Whole(c + 1))) = MeanOf(c + 1, FAdd(S, x))
<1>1. PICK L \in Nat \ {0} : Over(S, L) /\ Over(x, L)
  BY CommonDenominator
<1>2. PICK s \in Int : Is(S, s, L)
  BY <1>1 DEF Over
<1>3. PICK a \in Int : Is(x, a, L)
  BY <1>1 DEF Over
<1> DEFINE m == MeanOf(c, S)
           e == c + 1
           M == e * L
<1>4. e \in Nat \ {0} /\ s + a \in Int /\ M \in Nat \ {0} /\ Is(Whole(e), e, 1)
  BY Positive, WholeIs
<1>5. Is(MeanOf(e, FAdd(S, x)), s + a, M)
  <2>1. Is(FAdd(S, x), s + a, L)
    BY <1>2, <1>3, SumOver
  <2> QED BY <1>4, <2>1, MeanIs
<1>6. CASE c # 0
  <2> DEFINE K == c * L
             d == c * a - s
             D == K * e
  <2>1. K \in Nat \ {0} /\ c \in Nat \ {0} /\ d \in Int /\ D \in Nat \ {0}
    BY <1>4, <1>6, Positive
  <2>2. Is(m, s, K) /\ Is(FSub(x, m), d, K)
    BY <1>2, <1>3, <2>1, MeanIs, DeviationBefore
  <2> DEFINE y == s * D + d * K
             z == K * D
  <2>3. y * M = (s + a) * z
    OBVIOUS
  <2> HIDE DEF K, d, m, e
  <2>4. Is(FDiv(FSub(x, m), Whole(e)), d * 1, D)
    BY <1>4, <2>2, Ratio
  <2>5. d * 1 = d
    BY <2>1
  <2> HIDE DEF D
  <2>6. Is(FAdd(m, FDiv(FSub(x, m), Whole(e))), y, z)
    BY <2>2, <2>4, <2>5, Sum
  <2> HIDE DEF y, z, M
  <2>7. FAdd(m, FDiv(FSub(x, m), Whole(e))) = MeanOf(e, FAdd(S, x))
    BY <1>5, <2>3, <2>6, Same
  <2> QED BY <2>7 DEF m, e
<1>7. CASE c = 0
  <2>1. m = Whole(0) /\ S = Whole(0) /\ e = 1
    BY <1>7 DEF MeanOf
  <2>2. Is(Whole(0), 0, 1) /\ IsNumber(Whole(0))
    BY WholeIs, WholeNumber
  <2>3. Is(FSub(x, Whole(0)), a * 1 - 0 * L, L * 1)
    BY <1>3, <2>2, Difference
  <2>4. a * 1 - 0 * L = a /\ L * 1 = L /\ a * L = a * L
    OBVIOUS
  <2>5. FSub(x, Whole(0)) = x
    BY <1>3, <2>3, <2>4, Same
  <2>6. FAdd(Whole(0), x) = x
    BY Units
  <2>7. FAdd(Whole(0), FDiv(x, Whole(1))) = FDiv(x, Whole(1))
    <3>1. Is(Whole(1), 1, 1)
      BY WholeIs
    <3>2. Is(FDiv(x, Whole(1)), a * 1, L * 1)
      BY <1>3, <3>1, Ratio
    <3>3. IsNumber(FDiv(x, Whole(1)))
      BY <3>2 DEF IsNumber
    <3> QED BY <3>3, Units
  <2>8. MeanOf(1, x) = FDiv(x, Whole(1))
    BY DEF MeanOf
  <2> QED BY <1>7, <2>1, <2>5, <2>6, <2>7, <2>8
<1> QED BY <1>6, <1>7

\* ... and one that leaves.
LEMMA MeanShrinks ==
  ASSUME NEW c \in Nat \ {0}, NEW S, NEW x, IsNumber(S), IsNumber(x)
  PROVE  LET m == MeanOf(c + 1, S)
         IN  FSub(m, FDiv(FSub(x, m), Whole(c))) = MeanOf(c, FSub(S, x))
<1>1. PICK L \in Nat \ {0} : Over(S, L) /\ Over(x, L)
  BY CommonDenominator
<1>2. PICK s \in Int : Is(S, s, L)
  BY <1>1 DEF Over
<1>3. PICK a \in Int : Is(x, a, L)
  BY <1>1 DEF Over
<1> DEFINE e == c + 1
           m == MeanOf(e, S)
           M == c * L
           K == e * L
           d == e * a - s
           D == K * c
<1>4. /\ e \in Nat \ {0} /\ s - a \in Int /\ M \in Nat \ {0} /\ Is(Whole(c), c, 1)
      /\ K \in Nat \ {0} /\ d \in Int /\ D \in Nat \ {0}
  BY Positive, WholeIs
<1>5. Is(MeanOf(c, FSub(S, x)), s - a, M)
  <2>1. Is(FSub(S, x), s - a, L)
    BY <1>2, <1>3, SumOver
  <2> QED BY <1>4, <2>1, MeanIs
<1>6. Is(m, s, K) /\ Is(FSub(x, m), d, K)
  BY <1>2, <1>3, <1>4, MeanIs, DeviationBefore
<1> DEFINE y == s * D - d * K
           z == K * D
<1>7. y * M = (s - a) * z
  OBVIOUS
<1> HIDE DEF K, d, m, e
<1>8. Is(FDiv(FSub(x, m), Whole(c)), d * 1, D)
  BY <1>4, <1>6, Ratio
<1>9. d * 1 = d
  BY <1>4
<1> HIDE DEF D
<1>10. Is(FSub(m, FDiv(FSub(x, m), Whole(c))), y, z)
  BY <1>6, <1>8, <1>9, Difference
<1> HIDE DEF y, z, M
<1>11. FSub(m, FDiv(FSub(x, m), Whole(c))) = MeanOf(c, FSub(S, x))
  BY <1>5, <1>7, <1>10, Same
<1> QED BY <1>11 DEF m, e

\* Welford's update of a moment.
LEMMA WelfordAdd ==
  ASSUME NEW c \in Int, NEW q \in Int, NEW s \in Int, NEW t \in Int, NEW a \in Int, NEW b \in Int
  PROVE  (c + 1) * (c * q - s * t) + (c * a - s) * (c * b - t)
           = c * ((c + 1) * (q + a * b) - (s + a) * (t + b))
OBVIOUS

\* The moment after one more number: Welford's update.
LEMMA MomentGrows ==
  ASSUME NEW c \in Nat, NEW P, NEW S, NEW T, NEW x, NEW y, IsNumber(P), IsNumber(S),
         IsNumber(T), IsNumber(x), IsNumber(y),
         c = 0 => P = Whole(0) /\ S = Whole(0) /\ T = Whole(0)
  PROVE  FAdd(MomentOf(c, P, S, T),
              FMul(FSub(x, MeanOf(c, S)), FSub(y, MeanOf(c + 1, FAdd(T, y))))) =
           MomentOf(c + 1, FAdd(P, FMul(x, y)), FAdd(S, x), FAdd(T, y))
<1>1. PICK L \in Nat \ {0} : Over(P, L) /\ Over(S, L) /\ Over(T, L) /\ Over(x, L) /\ Over(y, L)
  BY CommonDenominator
<1> DEFINE M == L * L
           e == c + 1
<1>2. M \in Nat \ {0} /\ e \in Nat \ {0} /\ e * M \in Nat \ {0} /\ e * L \in Nat \ {0}
  BY Positive
<1>3. PICK q \in Int : Is(P, q, M)
  BY <1>1, OverMore DEF Over
<1>4. PICK s \in Int : Is(S, s, L)
  BY <1>1 DEF Over
<1>5. PICK t \in Int : Is(T, t, L)
  BY <1>1 DEF Over
<1>6. PICK a \in Int : Is(x, a, L)
  BY <1>1 DEF Over
<1>7. PICK b \in Int : Is(y, b, L)
  BY <1>1 DEF Over
<1> DEFINE ab == a * b
           f == c * a - s
           g == c * b - t
           dx == FSub(x, MeanOf(c, S))
           dy == FSub(y, MeanOf(e, FAdd(T, y)))
           new == e * (q + ab) - (s + a) * (t + b)
<1>8. ab \in Int /\ f \in Int /\ g \in Int /\ new \in Int /\ q + ab \in Int
      /\ s + a \in Int /\ t + b \in Int
  OBVIOUS
<1>9. Is(dy, g, e * L)
  BY <1>5, <1>7, DeviationAfter
<1>10. Is(MomentOf(e, FAdd(P, FMul(x, y)), FAdd(S, x), FAdd(T, y)), new, e * M)
  <2>1. Is(FMul(x, y), ab, M)
    BY <1>6, <1>7, Product
  <2>2. Is(FAdd(P, FMul(x, y)), q + ab, M)
    <3> HIDE DEF M, ab
    <3> QED BY <1>2, <1>3, <1>8, <2>1, SumOver
  <2>3. Is(FAdd(S, x), s + a, L) /\ Is(FAdd(T, y), t + b, L)
    BY <1>4, <1>5, <1>6, <1>7, SumOver
  <2> QED BY <1>2, <1>8, <2>2, <2>3, MomentIs
<1>11. CASE c # 0
  <2> DEFINE old == c * q - s * t
             K == c * L
             F == K * (e * L)
             C == c * M
  <2>1. c \in Nat \ {0} /\ K \in Nat \ {0} /\ old \in Int /\ C \in Nat \ {0}
        /\ f * g \in Int
    BY <1>2, <1>8, <1>11, Positive
  <2>2. Is(MomentOf(c, P, S, T), old, C)
    BY <1>3, <1>4, <1>5, <2>1, MomentIs
  <2>3. Is(dx, f, K)
    BY <1>4, <1>6, <2>1, DeviationBefore
  <2> DEFINE v == old * F + (f * g) * C
             w == C * F
  <2>4. v * (e * M) = new * w
    <3>1. e * old + f * g = c * new
      BY <1>2, WelfordAdd
    <3> HIDE DEF old, f, g, new
    <3>2. F = e * C
      BY <1>2
    <3>3. v = C * (e * old + f * g)
      BY <1>8, <2>1, <3>2, <1>2
    <3>4. v = C * (c * new)
      BY <3>1, <3>3
    <3> HIDE DEF v
    <3>5. w = C * (e * (c * M))
      BY <3>2
    <3> QED BY <1>2, <1>8, <2>1, <3>4, <3>5
  <2> HIDE DEF dx, dy, f, g, old, K, new, M
  <2>5. Is(FMul(dx, dy), f * g, F)
    BY <1>9, <2>3, Product
  <2> HIDE DEF C, F, e
  <2>6. Is(FAdd(MomentOf(c, P, S, T), FMul(dx, dy)), v, w)
    BY <2>2, <2>5, Sum
  <2> HIDE DEF v, w
  <2>7. FAdd(MomentOf(c, P, S, T), FMul(dx, dy)) =
          MomentOf(e, FAdd(P, FMul(x, y)), FAdd(S, x), FAdd(T, y))
    BY <1>10, <2>4, <2>6, Same
  <2> QED BY <2>7 DEF dx, dy, e
<1>12. CASE c = 0
  <2>1. MomentOf(c, P, S, T) = Whole(0) /\ Is(Whole(0), 0, 1) /\ IsNumber(Whole(0))
    BY <1>12, WholeIs, WholeNumber DEF MomentOf
  <2>2. t = 0 /\ s = 0 /\ q = 0
    <3>1. Is(Whole(0), t, L) /\ Is(Whole(0), s, L) /\ Is(Whole(0), q, M)
      BY <1>3, <1>4, <1>5, <1>12
    <3>2. ASSUME NEW k \in Int, NEW l \in Nat \ {0}, Is(Whole(0), k, l) PROVE k = 0
      <4>1. PICK g2, i, j : Cleared(g2, k, l, i, j) /\ Rat(k, l) = <<i, j>>
        BY RatCleared
      <4>2. <<i, j>> = <<0, 1>>
        BY <3>2, <4>1 DEF Is, Whole
      <4> QED BY <4>1, <4>2 DEF Cleared
    <3> HIDE DEF M
    <3> QED BY <1>2, <3>1, <3>2
  <2>3. g = 0 /\ new = 0
    BY <1>12, <2>2
  <2>4. dy = Whole(0)
    <3>1. Is(dy, 0, e * L) /\ 0 * 1 = 0 * (e * L)
      BY <1>2, <1>9, <2>3
    <3> HIDE DEF dy, e
    <3> QED BY <2>1, <3>1, Same
  <2>5. MomentOf(e, FAdd(P, FMul(x, y)), FAdd(S, x), FAdd(T, y)) = Whole(0)
    <3>1. Is(MomentOf(e, FAdd(P, FMul(x, y)), FAdd(S, x), FAdd(T, y)), 0, e * M)
      BY <1>10, <2>3
    <3>2. 0 * 1 = 0 * (e * M)
      BY <1>2
    <3> HIDE DEF e, M
    <3> QED BY <2>1, <3>1, <3>2, Same
  <2>6. FMul(dx, Whole(0)) = Whole(0)
    <3>1. dx = FSub(x, Whole(0))
      BY <1>12 DEF MeanOf
    <3>2. IsNumber(dx)
      BY <2>1, <3>1, NumberClosed
    <3>3. PICK i, j : Is(dx, i, j)
      BY <3>2 DEF IsNumber
    <3>4. i \in Int /\ j \in Int
      BY <3>3 DEF Is
    <3>5. Is(FMul(dx, Whole(0)), i * 0, j * 1)
      BY <2>1, <3>3, Product
    <3>6. (i * 0) * 1 = 0 * (j * 1)
      BY <3>4
    <3> QED BY <2>1, <3>5, <3>6, Same
  <2>7. FAdd(Whole(0), Whole(0)) = Whole(0)
    BY <2>1, Units
  <2> QED BY <2>1, <2>4, <2>5, <2>6, <2>7
<1> QED BY <1>11, <1>12

\* Means and moments of numbers are numbers, and moments are symmetric.
LEMMA MeanNumber ==
  ASSUME NEW c \in Nat, NEW S, IsNumber(S)
  PROVE  IsNumber(MeanOf(c, S))
<1>1. CASE c = 0
  BY <1>1, WholeNumber DEF MeanOf
<1>2. CASE c # 0
  <2>1. PICK s, L : Is(S, s, L)
    BY DEF IsNumber
  <2>2. s \in Int /\ L \in Nat \ {0} /\ c \in Nat \ {0}
    BY <1>2, <2>1 DEF Is
  <2>3. Is(MeanOf(c, S), s, c * L)
    BY <2>1, <2>2, MeanIs
  <2> QED BY <2>3 DEF IsNumber
<1> QED BY <1>1, <1>2

\* A moment is a number, the same in either order.
LEMMA MomentNumber ==
  ASSUME NEW c \in Nat, NEW P, NEW S, NEW T, IsNumber(P), IsNumber(S), IsNumber(T)
  PROVE  IsNumber(MomentOf(c, P, S, T)) /\ MomentOf(c, P, S, T) = MomentOf(c, P, T, S)
<1>1. FMul(S, T) = FMul(T, S) /\ IsNumber(FMul(S, T))
  BY Commutes, NumberClosed
<1>2. CASE c = 0
  BY <1>2, WholeNumber DEF MomentOf
<1>3. CASE c # 0
  <2>1. IsNumber(MeanOf(c, FMul(S, T)))
    BY <1>1, MeanNumber
  <2>2. MomentOf(c, P, S, T) = FSub(P, MeanOf(c, FMul(S, T)))
    BY <1>3 DEF MomentOf, MeanOf
  <2>3. MomentOf(c, P, T, S) = FSub(P, MeanOf(c, FMul(S, T)))
    BY <1>1, <1>3 DEF MomentOf, MeanOf
  <2> QED BY <2>1, <2>2, <2>3, NumberClosed
<1> QED BY <1>2, <1>3

\* Taking away and adding again.
LEMMA AddBack ==
  ASSUME NEW a, NEW b, IsNumber(a), IsNumber(b)
  PROVE  FAdd(FSub(a, b), b) = a /\ FSub(FAdd(a, b), b) = a /\ IsNumber(FSub(a, b))
<1>1. PICK n, d : Is(a, n, d)
  BY DEF IsNumber
<1>2. PICK m, e : Is(b, m, e)
  BY DEF IsNumber
<1>3. n \in Int /\ d \in Int /\ m \in Int /\ e \in Int
  BY <1>1, <1>2 DEF Is
<1> DEFINE u == n * e - m * d
           v == n * e + m * d
           w == d * e
<1>4. Is(FSub(a, b), u, w) /\ Is(FAdd(a, b), v, w)
  BY <1>1, <1>2, Sum, Difference
<1> DEFINE y == u * e + m * w
           x == v * e - m * w
           z == w * e
<1>5. y * d = n * z /\ x * d = n * z
  BY <1>3
<1> HIDE DEF u, v, w
<1>6. Is(FAdd(FSub(a, b), b), y, z) /\ Is(FSub(FAdd(a, b), b), x, z)
  BY <1>2, <1>4, Sum, Difference
<1> HIDE DEF x, y, z
<1> QED BY <1>1, <1>5, <1>6, Same, NumberClosed

\* A moment without the pair that leaves.
Leaves(c, P, S, T, x, y) ==
  FSub(MomentOf(c + 1, P, S, T), FMul(FSub(x, MeanOf(c + 1, S)), FSub(y, MeanOf(c, FSub(T, y))))) =
    MomentOf(c, FSub(P, FMul(x, y)), FSub(S, x), FSub(T, y))

\* Taking a pair of numbers out of a moment.
LEMMA MomentShrinks ==
  ASSUME NEW c \in Nat \ {0}, NEW P, NEW S, NEW T, NEW x, NEW y, IsNumber(P), IsNumber(S),
         IsNumber(T), IsNumber(x), IsNumber(y)
  PROVE  Leaves(c, P, S, T, x, y)
<1> DEFINE xy == FMul(x, y)
           Q == FSub(P, xy)
           U == FSub(S, x)
           V == FSub(T, y)
           A == MomentOf(c, Q, V, U)
           dx == FSub(x, MeanOf(c + 1, S))
           dy == FSub(y, MeanOf(c, V))
<1>1. IsNumber(xy) /\ IsNumber(Q) /\ IsNumber(U) /\ IsNumber(V) /\ xy = FMul(y, x)
  BY NumberClosed, Commutes
<1>2. FAdd(Q, xy) = P /\ FAdd(U, x) = S /\ FAdd(V, y) = T
  BY <1>1, AddBack
<1>3. IsNumber(dx) /\ IsNumber(dy)
  <2>1. IsNumber(MeanOf(c + 1, S)) /\ IsNumber(MeanOf(c, V))
    BY <1>1, MeanNumber
  <2> QED BY <2>1, NumberClosed
<1>4. IsNumber(FMul(dy, dx)) /\ FMul(dx, dy) = FMul(dy, dx)
  <2> HIDE DEF dx, dy
  <2> QED BY <1>3, NumberClosed, Commutes
<1>5. IsNumber(A) /\ A = MomentOf(c, Q, U, V)
  <2> HIDE DEF Q, U, V
  <2> QED BY <1>1, MomentNumber
<1>6. MomentOf(c + 1, P, T, S) = MomentOf(c + 1, P, S, T)
  BY MomentNumber
<1>7. FAdd(A, FMul(FSub(y, MeanOf(c, V)), FSub(x, MeanOf(c + 1, FAdd(U, x))))) =
        MomentOf(c + 1, FAdd(Q, FMul(y, x)), FAdd(V, y), FAdd(U, x))
  <2>1. c \in Nat /\ c # 0
    OBVIOUS
  <2> HIDE DEF Q, U, V
  <2> QED BY <1>1, <2>1, MomentGrows
<1>8. FAdd(A, FMul(dy, dx)) = MomentOf(c + 1, P, S, T)
  BY <1>1, <1>2, <1>6, <1>7
<1> HIDE DEF A, dx, dy
<1>9. FSub(FAdd(A, FMul(dy, dx)), FMul(dy, dx)) = A
  BY <1>4, <1>5, AddBack
<1> QED BY <1>4, <1>5, <1>8, <1>9 DEF dx, dy, Leaves

\* The product of two differences.
LEMMA ProductOfDifferences ==
  ASSUME NEW a, NEW b, NEW g, NEW h, IsNumber(a), IsNumber(b), IsNumber(g), IsNumber(h)
  PROVE  FMul(FSub(a, g), FSub(b, h)) =
           FAdd(FAdd(FMul(a, b), FMul(a, FSub(Whole(0), h))),
                FAdd(FMul(b, FSub(Whole(0), g)), FMul(g, h)))
<1>1. PICK L \in Nat \ {0} : Over(a, L) /\ Over(b, L) /\ Over(g, L) /\ Over(h, L)
  BY CommonDenominator
<1>2. PICK i \in Int : Is(a, i, L)
  BY <1>1 DEF Over
<1>3. PICK j \in Int : Is(b, j, L)
  BY <1>1 DEF Over
<1>4. PICK k \in Int : Is(g, k, L)
  BY <1>1 DEF Over
<1>5. PICK l \in Int : Is(h, l, L)
  BY <1>1 DEF Over
<1> DEFINE M == L * L
<1>6. M \in Nat \ {0} /\ 0 * L = 0 * 1
  BY Positive
<1>7. Is(Whole(0), 0, L)
  <2>1. Is(Whole(0), 0, 1) /\ 0 * L = 0 * 1
    BY WholeIs
  <2> QED BY <2>1, Rescale
<1>8. /\ Is(FSub(a, g), i - k, L) /\ Is(FSub(b, h), j - l, L)
      /\ Is(FSub(Whole(0), h), 0 - l, L) /\ Is(FSub(Whole(0), g), 0 - k, L)
  BY <1>2, <1>3, <1>4, <1>5, <1>7, SumOver
<1> DEFINE p == i * j
           q == i * (0 - l)
           r == j * (0 - k)
           s == k * l
<1>9. /\ Is(FMul(FSub(a, g), FSub(b, h)), (i - k) * (j - l), M)
      /\ Is(FMul(a, b), p, M) /\ Is(FMul(a, FSub(Whole(0), h)), q, M)
      /\ Is(FMul(b, FSub(Whole(0), g)), r, M) /\ Is(FMul(g, h), s, M)
  BY <1>2, <1>3, <1>4, <1>5, <1>8, Product
<1>10. p \in Int /\ q \in Int /\ r \in Int /\ s \in Int
  OBVIOUS
<1>11. (i - k) * (j - l) = (p + q) + (r + s)
  OBVIOUS
<1> HIDE DEF p, q, r, s, M
<1>12. Is(FAdd(FMul(a, b), FMul(a, FSub(Whole(0), h))), p + q, M)
  BY <1>6, <1>9, <1>10, SumOver
<1>13. Is(FAdd(FMul(b, FSub(Whole(0), g)), FMul(g, h)), r + s, M)
  BY <1>6, <1>9, <1>10, SumOver
<1>14. p + q \in Int /\ r + s \in Int
  BY <1>10
<1>15. Is(FAdd(FAdd(FMul(a, b), FMul(a, FSub(Whole(0), h))),
               FAdd(FMul(b, FSub(Whole(0), g)), FMul(g, h))), (p + q) + (r + s), M)
  BY <1>6, <1>12, <1>13, <1>14, SumOver
<1>16. ((p + q) + (r + s)) * M = ((p + q) + (r + s)) * M
  OBVIOUS
<1> QED BY <1>9, <1>11, <1>15, <1>16, Same

\* The end of the sum of products of deviations.
LEMMA TwoPassEnds ==
  ASSUME NEW c \in Nat \ {0}, NEW P, NEW A, NEW B, IsNumber(P), IsNumber(A), IsNumber(B)
  PROVE  LET g == MeanOf(c, A)
             h == MeanOf(c, B)
         IN  FAdd(FAdd(P, FMul(A, FSub(Whole(0), h))),
                  FAdd(FMul(B, FSub(Whole(0), g)), FMul(Whole(c), FMul(g, h)))) =
               MomentOf(c, P, A, B)
<1>1. PICK L \in Nat \ {0} : Over(P, L) /\ Over(A, L) /\ Over(B, L)
  BY CommonDenominator
<1> DEFINE M == L * L
           g == MeanOf(c, A)
           h == MeanOf(c, B)
<1>2. PICK q \in Int : Is(P, q, M)
  BY <1>1, OverMore DEF Over
<1>3. PICK i \in Int : Is(A, i, L)
  BY <1>1 DEF Over
<1>4. PICK j \in Int : Is(B, j, L)
  BY <1>1 DEF Over
<1> DEFINE N == c * M
           K == c * L
           ij == i * j
<1>5. M \in Nat \ {0} /\ N \in Nat \ {0} /\ K \in Nat \ {0} /\ ij \in Int /\ c * q - ij \in Int
  BY Positive
<1>6. Is(MomentOf(c, P, A, B), c * q - ij, N)
  BY <1>2, <1>3, <1>4, MomentIs
<1>7. Is(g, i, K) /\ Is(h, j, K)
  BY <1>3, <1>4, MeanIs
<1>8. Is(FSub(Whole(0), h), 0 - j, K) /\ Is(FSub(Whole(0), g), 0 - i, K)
  <2>1. Is(Whole(0), 0, 1) /\ 0 * K = 0 * 1
    BY <1>5, WholeIs
  <2> HIDE DEF K, g, h
  <2>2. Is(Whole(0), 0, K)
    BY <1>5, <2>1, Rescale
  <2> QED BY <1>5, <1>7, <2>2, SumOver
<1>9. Is(FMul(A, FSub(Whole(0), h)), 0 - ij, N)
  <2>1. Is(FMul(A, FSub(Whole(0), h)), i * (0 - j), L * K)
    BY <1>3, <1>8, Product
  <2>2. i * (0 - j) = 0 - ij /\ L * K = N
    OBVIOUS
  <2> QED BY <2>1, <2>2
<1>10. Is(FMul(B, FSub(Whole(0), g)), 0 - ij, N)
  <2>1. Is(FMul(B, FSub(Whole(0), g)), j * (0 - i), L * K)
    BY <1>4, <1>8, Product
  <2>2. j * (0 - i) = 0 - ij /\ L * K = N
    OBVIOUS
  <2> QED BY <2>1, <2>2
<1>11. Is(FMul(Whole(c), FMul(g, h)), ij, N)
  <2>1. Is(FMul(g, h), ij, K * K)
    BY <1>7, Product
  <2>2. Is(Whole(c), c, 1)
    BY WholeIs
  <2>3. Is(FMul(Whole(c), FMul(g, h)), c * ij, 1 * (K * K))
    <3> HIDE DEF ij, K, g, h
    <3> QED BY <2>1, <2>2, Product
  <2>4. (c * ij) * N = ij * (1 * (K * K))
    BY <1>5
  <2> HIDE DEF ij, K, g, h, N
  <2> QED BY <1>5, <2>3, <2>4, Rescale
<1>12. Is(P, c * q, N)
  <2>1. q * N = (c * q) * M /\ c * q \in Int
    BY <1>5
  <2> HIDE DEF N, M
  <2> QED BY <1>2, <1>5, <2>1, Rescale
<1> DEFINE u == c * q
           z == 0 - ij
<1>13. u \in Int /\ z \in Int /\ u + z \in Int /\ z + ij \in Int
  BY <1>5
<1>14. (u + z) + (z + ij) = c * q - ij
  BY <1>5
<1>15. /\ Is(P, u, N) /\ Is(FMul(A, FSub(Whole(0), h)), z, N)
       /\ Is(FMul(B, FSub(Whole(0), g)), z, N)
  BY <1>9, <1>10, <1>12
<1> HIDE DEF u, z, N, ij, g, h
<1>16. Is(FAdd(P, FMul(A, FSub(Whole(0), h))), u + z, N)
  BY <1>5, <1>13, <1>15, SumOver
<1>17. Is(FAdd(FMul(B, FSub(Whole(0), g)), FMul(Whole(c), FMul(g, h))), z + ij, N)
  BY <1>5, <1>11, <1>13, <1>15, SumOver
<1>18. Is(FAdd(FAdd(P, FMul(A, FSub(Whole(0), h))),
               FAdd(FMul(B, FSub(Whole(0), g)), FMul(Whole(c), FMul(g, h)))),
          (u + z) + (z + ij), N)
  BY <1>5, <1>13, <1>16, <1>17, SumOver
<1>19. (c * q - ij) * N = (c * q - ij) * N
  OBVIOUS
<1>20. FAdd(FAdd(P, FMul(A, FSub(Whole(0), h))),
            FAdd(FMul(B, FSub(Whole(0), g)), FMul(Whole(c), FMul(g, h)))) =
         MomentOf(c, P, A, B)
  BY <1>6, <1>14, <1>18, <1>19, Same
<1> QED BY <1>20 DEF g, h

\* The sum of the products of deviations is the moment.
LEMMA TwoPass ==
  ASSUME NEW a, NEW b, NEW ab, NEW f, NEW c \in Nat \ {0}, Numbers(a, 1, c), Numbers(b, 1, c),
         NEW A, A = Fold("+", a, 1, c), NEW B, B = Fold("+", b, 1, c),
         \A k \in 1 .. c : ab[k] = FMul(a[k], b[k]),
         \A k \in 1 .. c : f[k] = FMul(FSub(a[k], MeanOf(c, A)), FSub(b[k], MeanOf(c, B)))
  PROVE  Fold("+", f, 1, c) = MomentOf(c, Fold("+", ab, 1, c), A, B)
<1> DEFINE g == MeanOf(c, A)
           h == MeanOf(c, B)
           ng == FSub(Whole(0), g)
           nh == FSub(Whole(0), h)
           gh == FMul(g, h)
           P == Fold("+", ab, 1, c)
           F2 == [k \in 1 .. c |-> FMul(a[k], nh)]
           F3 == [k \in 1 .. c |-> FMul(b[k], ng)]
           F4 == [k \in 1 .. c |-> gh]
           G1 == [k \in 1 .. c |-> FAdd(ab[k], F2[k])]
           G2 == [k \in 1 .. c |-> FAdd(F3[k], F4[k])]
<1>1. IsNumber(A) /\ IsNumber(B) /\ 1 \in Nat \ {0} /\ c \in Nat
  BY FoldNumber
<1>2. IsNumber(g) /\ IsNumber(h)
  BY <1>1, MeanNumber
<1> HIDE DEF g, h
<1>3. IsNumber(ng) /\ IsNumber(nh) /\ IsNumber(gh)
  BY <1>2, WholeNumber, NumberClosed
<1> HIDE DEF ng, nh, gh
<1>4. ASSUME NEW k \in 1 .. c
      PROVE  /\ IsNumber(ab[k]) /\ IsNumber(F2[k]) /\ IsNumber(F3[k]) /\ IsNumber(F4[k])
             /\ IsNumber(G1[k]) /\ IsNumber(G2[k]) /\ f[k] = FAdd(G1[k], G2[k])
  <2>1. IsNumber(a[k]) /\ IsNumber(b[k]) /\ ab[k] = FMul(a[k], b[k])
    BY DEF Numbers
  <2>2. F2[k] = FMul(a[k], nh) /\ F3[k] = FMul(b[k], ng) /\ F4[k] = gh
    OBVIOUS
  <2>3. G1[k] = FAdd(ab[k], F2[k]) /\ G2[k] = FAdd(F3[k], F4[k])
    OBVIOUS
  <2> HIDE DEF F2, F3, F4, G1, G2
  <2>4. IsNumber(ab[k]) /\ IsNumber(F2[k]) /\ IsNumber(F3[k]) /\ IsNumber(F4[k])
    BY <1>3, <2>1, <2>2, NumberClosed
  <2>5. IsNumber(G1[k]) /\ IsNumber(G2[k])
    BY <2>3, <2>4, NumberClosed
  <2>6. f[k] = FMul(FSub(a[k], g), FSub(b[k], h))
    BY DEF g, h
  <2>7. FMul(FSub(a[k], g), FSub(b[k], h)) =
          FAdd(FAdd(FMul(a[k], b[k]), FMul(a[k], nh)), FAdd(FMul(b[k], ng), gh))
    BY <1>2, <2>1, ProductOfDifferences DEF ng, nh, gh
  <2> QED BY <2>1, <2>2, <2>3, <2>4, <2>5, <2>6, <2>7
<1>5. /\ Numbers(ab, 1, c) /\ Numbers(F2, 1, c) /\ Numbers(F3, 1, c) /\ Numbers(F4, 1, c)
      /\ Numbers(G1, 1, c) /\ Numbers(G2, 1, c)
  BY <1>4 DEF Numbers
<1>6. /\ \A k \in 1 .. c : F2[k] = FMul(a[k], nh) /\ F3[k] = FMul(b[k], ng) /\ F4[k] = gh
      /\ \A k \in 1 .. c : G1[k] = FAdd(ab[k], F2[k]) /\ G2[k] = FAdd(F3[k], F4[k])
      /\ \A k \in 1 .. c : f[k] = FAdd(G1[k], G2[k])
  BY <1>4
<1> HIDE DEF F2, F3, F4, G1, G2
<1>7. Fold("+", f, 1, c) = FAdd(Fold("+", G1, 1, c), Fold("+", G2, 1, c))
  BY <1>1, <1>5, <1>6, SumAdds
<1>8. Fold("+", G1, 1, c) = FAdd(P, Fold("+", F2, 1, c))
  BY <1>1, <1>5, <1>6, SumAdds
<1>9. Fold("+", G2, 1, c) = FAdd(Fold("+", F3, 1, c), Fold("+", F4, 1, c))
  BY <1>1, <1>5, <1>6, SumAdds
<1>10. Fold("+", F2, 1, c) = FMul(A, nh)
  BY <1>1, <1>3, <1>6, SumScales
<1>11. Fold("+", F3, 1, c) = FMul(B, ng)
  BY <1>1, <1>3, <1>6, SumScales
<1>12. Fold("+", F4, 1, c) = FMul(Whole(c), gh)
  BY <1>1, <1>3, <1>6, SumConstant
<1>13. IsNumber(P)
  BY <1>1, <1>5, FoldNumber
<1> HIDE DEF P
<1>14. FAdd(FAdd(P, FMul(A, nh)), FAdd(FMul(B, ng), FMul(Whole(c), gh))) = MomentOf(c, P, A, B)
  BY <1>1, <1>13, TwoPassEnds DEF g, h, ng, nh, gh
<1> QED BY <1>7, <1>8, <1>9, <1>10, <1>11, <1>12, <1>14 DEF P

-----------------------------------------------------------------------------
(* Sums of squares *)

\* A square is positive, but for that of zero.
LEMMA SquareSign ==
  ASSUME NEW x, IsNumber(x)
  PROVE  IsPositive(FMul(x, x)) \/ (x = Whole(0) /\ FMul(x, x) = Whole(0))
<1>1. PICK i, d : Is(x, i, d)
  BY DEF IsNumber
<1>2. i \in Int /\ d \in Nat \ {0}
  BY <1>1 DEF Is
<1>3. Is(FMul(x, x), i * i, d * d)
  BY <1>1, Product
<1>4. CASE i = 0
  <2>1. Is(Whole(0), 0, 1) /\ 0 * 1 = 0 * d /\ (0 * 0) * 1 = 0 * (d * d)
    BY <1>2, WholeIs
  <2>2. x = Whole(0)
    BY <1>1, <1>4, <2>1, Same
  <2>3. FMul(x, x) = Whole(0)
    BY <1>3, <1>4, <2>1, Same
  <2> QED BY <2>2, <2>3
<1>5. CASE i # 0
  <2>1. i * i \in Nat \ {0}
    <3>1. i > 0 \/ 0 - i > 0
      BY <1>2, <1>5
    <3>2. i > 0 => i * i \in Nat \ {0}
      BY <1>2, Positive
    <3>3. 0 - i > 0 => (0 - i) * (0 - i) \in Nat \ {0}
      <4> DEFINE j == 0 - i
      <4>1. j \in Int
        BY <1>2
      <4> HIDE DEF j
      <4>2. j > 0 => j * j \in Nat \ {0}
        BY <4>1, Positive
      <4> QED BY <4>2 DEF j
    <3>4. (0 - i) * (0 - i) = i * i
      BY <1>2
    <3> QED BY <3>1, <3>2, <3>3, <3>4
  <2> QED BY <1>3, <2>1 DEF IsPositive
<1> QED BY <1>4, <1>5

\* A positive number and one that is not negative.
LEMMA PositiveAdds ==
  ASSUME NEW a, NEW b, IsPositive(a), IsPositive(b)
  PROVE  IsPositive(FAdd(a, b)) /\ IsPositive(FMul(a, b)) /\ IsNumber(a)
<1>1. PICK i, d : i \in Nat \ {0} /\ Is(a, i, d)
  BY DEF IsPositive
<1>2. PICK j, e : j \in Nat \ {0} /\ Is(b, j, e)
  BY DEF IsPositive
<1>3. d \in Nat \ {0} /\ e \in Nat \ {0}
  BY <1>1, <1>2 DEF Is
<1>4. Is(FAdd(a, b), i * e + j * d, d * e) /\ Is(FMul(a, b), i * j, d * e)
  BY <1>1, <1>2, Sum, Product
<1>5. i * e \in Nat \ {0} /\ j * d \in Nat \ {0} /\ i * j \in Nat \ {0}
  BY <1>1, <1>2, <1>3, Positive
<1>6. i * e + j * d \in Nat \ {0}
  BY <1>5
<1>7. IsNumber(a)
  BY <1>1 DEF IsNumber
<1> QED BY <1>4, <1>5, <1>6, <1>7 DEF IsPositive

\* A sum of squares is positive unless all are zero.
LEMMA SquareSum ==
  ASSUME NEW g, NEW f, NEW m \in Nat, Numbers(g, 1, m), \A k \in 1 .. m : f[k] = FMul(g[k], g[k])
  PROVE  LET F == Fold("+", f, 1, m)
         IN  IsPositive(F) \/ (F = Whole(0) /\ \A k \in 1 .. m : g[k] = Whole(0))
<1> DEFINE F(i) == Fold("+", f, 1, i)
           AllZero(i) == \A k \in 1 .. i : g[k] = Whole(0)
           T == {i \in Nat : i <= m => IsPositive(F(i)) \/ (F(i) = Whole(0) /\ AllZero(i))}
<1>1. 0 \in T
  <2>1. 0 < 1 /\ 0 \in Nat /\ 1 \in Nat \ {0}
    OBVIOUS
  <2>2. F(0) = Whole(0)
    BY <2>1, FoldSteps DEF Unit
  <2>3. AllZero(0)
    OBVIOUS
  <2>4. 0 \in Nat
    OBVIOUS
  <2> HIDE DEF F, AllZero
  <2> QED BY <2>2, <2>3, <2>4
<1>2. ASSUME NEW i \in Nat, i \in T PROVE i + 1 \in T
  <2> SUFFICES ASSUME i + 1 <= m
               PROVE  IsPositive(F(i + 1)) \/ (F(i + 1) = Whole(0) /\ AllZero(i + 1))
    OBVIOUS
  <2>1. i <= m /\ i + 1 \in 1 .. m /\ 1 \in Nat \ {0} /\ 1 <= i + 1
    OBVIOUS
  <2> DEFINE x == g[i + 1]
  <2>2. F(i + 1) = FAdd(F(i), FMul(x, x))
    <3>1. F(i + 1) = FAdd(F(i), f[i + 1])
      BY <2>1, FoldNext DEF Join
    <3>2. f[i + 1] = FMul(x, x)
      BY <2>1
    <3> QED BY <3>1, <3>2
  <2>3. IsNumber(x)
    BY <2>1 DEF Numbers
  <2>4. IsPositive(FMul(x, x)) \/ (x = Whole(0) /\ FMul(x, x) = Whole(0))
    BY <2>3, SquareSign
  <2>5. IsPositive(F(i)) \/ (F(i) = Whole(0) /\ AllZero(i))
    BY <1>2, <2>1
  <2>6. \A a : IsPositive(a) => FAdd(a, Whole(0)) = a /\ FAdd(Whole(0), a) = a
    <3>1. ASSUME NEW a, IsPositive(a) PROVE IsNumber(a)
      BY <3>1 DEF IsPositive, IsNumber
    <3> QED BY <3>1, Units
  <2>7. FAdd(Whole(0), Whole(0)) = Whole(0)
    BY WholeNumber, Units
  <2>8. AllZero(i) /\ x = Whole(0) => AllZero(i + 1)
    <3> SUFFICES ASSUME AllZero(i), x = Whole(0), NEW k \in 1 .. i + 1
                 PROVE  g[k] = Whole(0)
      OBVIOUS
    <3>1. k = i + 1 \/ k \in 1 .. i
      OBVIOUS
    <3> QED BY <3>1
  <2> HIDE DEF F, AllZero, x
  <2>9. CASE IsPositive(FMul(x, x)) /\ IsPositive(F(i))
    BY <2>2, <2>9, PositiveAdds
  <2>10. CASE IsPositive(FMul(x, x)) /\ F(i) = Whole(0)
    BY <2>2, <2>6, <2>10
  <2>11. CASE x = Whole(0) /\ FMul(x, x) = Whole(0) /\ IsPositive(F(i))
    BY <2>2, <2>6, <2>11
  <2>12. CASE x = Whole(0) /\ FMul(x, x) = Whole(0) /\ F(i) = Whole(0) /\ AllZero(i)
    BY <2>2, <2>7, <2>8, <2>12
  <2> QED BY <2>4, <2>5, <2>9, <2>10, <2>11, <2>12
<1> HIDE DEF T
<1>3. m \in T
  BY <1>1, <1>2, Induction
<1> QED BY <1>3 DEF T

\* A sum of products with zeros.
LEMMA SumOfZeros ==
  ASSUME NEW f, NEW m \in Nat, \A k \in 1 .. m : f[k] = Whole(0)
  PROVE  Fold("+", f, 1, m) = Whole(0)
<1>1. IsNumber(Whole(0)) /\ Is(Whole(0), 0, 1) /\ Is(Whole(m), m, 1)
  BY WholeNumber, WholeIs
<1>2. Fold("+", f, 1, m) = FMul(Whole(m), Whole(0))
  BY <1>1, SumConstant
<1>3. Is(FMul(Whole(m), Whole(0)), m * 0, 1 * 1) /\ (m * 0) * 1 = 0 * (1 * 1)
  BY <1>1, Product
<1>4. FMul(Whole(m), Whole(0)) = Whole(0)
  BY <1>1, <1>3, Same
<1> QED BY <1>2, <1>4

-----------------------------------------------------------------------------
(* Doubles that need not be numbers *)

\* a is a double: a number, NaN or an infinity.
IsPair(a) == a \in Int \X Nat

\* What a division returns is a double.
LEMMA RatPair ==
  ASSUME NEW i \in Int, NEW d \in Nat
  PROVE  IsPair(Rat(i, d))
<1>1. CASE d = 0
  <2>1. Rat(i, d) = <<Sign(i), 0>> /\ Sign(i) \in Int
    BY <1>1 DEF Rat, Sign
  <2> QED BY <2>1 DEF IsPair
<1>2. CASE d # 0
  <2>1. PICK g, k \in Int, j \in Nat : Rat(i, d) = <<k, j>>
    BY <1>2, RatParts
  <2> QED BY <2>1 DEF IsPair
<1> QED BY <1>1, <1>2

\* The operations yield doubles, whatever the operands.
LEMMA PairClosed ==
  ASSUME NEW a, NEW b, IsPair(a), IsPair(b)
  PROVE  IsPair(FAdd(a, b)) /\ IsPair(FSub(a, b)) /\ IsPair(FMul(a, b)) /\ IsPair(FDiv(a, b))
<1>1. ASSUME NEW c, NEW d, IsPair(c), IsPair(d)
      PROVE  IsPair(FAdd(c, d)) /\ IsPair(FNeg(d)) /\ IsPair(FMul(c, d)) /\ IsPair(FDiv(c, d))
  <2>1. c[1] \in Int /\ c[2] \in Nat /\ d[1] \in Int /\ d[2] \in Nat
    BY <1>1 DEF IsPair
  <2>2. IsPair(Nan)
    BY DEF Nan, IsPair
  <2>3. c[1] * d[2] + d[1] * c[2] \in Int /\ c[2] * d[2] \in Nat /\ c[1] * d[1] \in Int
    BY <2>1
  <2>4. IsPair(FAdd(c, d))
    <3>1. IsPair(Rat(c[1] * d[2] + d[1] * c[2], c[2] * d[2]))
      BY <2>3, RatPair
    <3> QED BY <1>1, <2>2, <3>1 DEF FAdd
  <2>5. IsPair(FMul(c, d))
    BY <2>3, RatPair DEF FMul
  <2>6. IsPair(FNeg(d))
    BY <2>1 DEF FNeg, IsPair
  <2>7. IsPair(FDiv(c, d))
    <3>1. CASE d[1] < 0
      <4> DEFINE j == 0 - d[1]
      <4>1. j \in Nat
        BY <2>1, <3>1
      <4>2. c[2] * j \in Nat
        BY <2>1, <4>1
      <4>3. -(c[2] * d[1]) = c[2] * j /\ -(c[1] * d[2]) \in Int
        BY <2>1
      <4> HIDE DEF j
      <4>4. IsPair(Rat(-(c[1] * d[2]), -(c[2] * d[1])))
        BY <4>2, <4>3, RatPair
      <4> QED BY <3>1, <4>4 DEF FDiv
    <3>2. CASE ~(d[1] < 0)
      <4>1. d[1] \in Nat
        BY <2>1, <3>2
      <4>2. c[1] * d[2] \in Int /\ c[2] * d[1] \in Nat
        BY <2>1, <4>1
      <4> QED BY <3>2, <4>2, RatPair DEF FDiv
    <3> QED BY <3>1, <3>2
  <2> QED BY <2>4, <2>5, <2>6, <2>7
<1>2. IsPair(FNeg(b))
  BY <1>1
<1>3. IsPair(FSub(a, b))
  BY <1>1, <1>2 DEF FSub
<1> QED BY <1>1, <1>3

\* Numbers are doubles, and none of them is NaN.
LEMMA NumberPair ==
  ASSUME NEW a, IsNumber(a)
  PROVE  IsPair(a) /\ a # Nan
<1>1. PICK i, d : Is(a, i, d)
  BY DEF IsNumber
<1>2. i \in Int /\ d \in Nat \ {0} /\ a = Rat(i, d)
  BY <1>1 DEF Is
<1>3. PICK g, k, j : Cleared(g, i, d, k, j) /\ Rat(i, d) = <<k, j>>
  BY <1>2, RatCleared
<1>4. j # 0
  BY <1>2, <1>3 DEF Cleared
<1>5. a # Nan
  BY <1>2, <1>3, <1>4 DEF Nan
<1> QED BY <1>2, <1>5, RatPair

\* NaN absorbs every operation.
LEMMA NanAbsorbs ==
  ASSUME NEW a, IsPair(a)
  PROVE  /\ FAdd(Nan, a) = Nan /\ FAdd(a, Nan) = Nan /\ FSub(Nan, a) = Nan /\ FSub(a, Nan) = Nan
         /\ FMul(Nan, a) = Nan /\ FMul(a, Nan) = Nan /\ FDiv(Nan, a) = Nan /\ FDiv(a, Nan) = Nan
         /\ IsPair(Nan)
<1>1. Nan[1] = 0 /\ Nan[2] = 0 /\ ~Finite(Nan) /\ FNeg(Nan) = Nan /\ IsPair(Nan)
  <2>1. Nan[1] = 0 /\ Nan[2] = 0 /\ IsPair(Nan)
    BY DEF Nan, IsPair
  <2>2. \A k \in Int : -k = 0 - k
    OBVIOUS
  <2>3. -Nan[1] = 0
    <3>1. PICK k \in Int : k = Nan[1]
      BY <2>1
    <3>2. -k = 0 - k
      BY <2>2, Zenon
    <3>3. 0 - k = 0
      BY <2>1, <3>1
    <3> QED BY <3>1, <3>2, <3>3, Zenon
  <2>4. FNeg(Nan) = <<0, 0>>
    BY <2>1, <2>3 DEF FNeg
  <2> QED BY <2>1, <2>4 DEF Nan, Finite
<1>2. Rat(0, 0) = Nan
  BY DEF Rat, Sign, Nan
<1>3. ASSUME NEW b, IsPair(b) PROVE FAdd(Nan, b) = Nan /\ FAdd(b, Nan) = Nan
  <2>1. b[1] \in Int /\ b[2] \in Nat
    BY <1>3 DEF IsPair
  <2>2. 0 * b[2] + b[1] * 0 = 0 /\ 0 * b[2] = 0 /\ b[1] * 0 + 0 * b[2] = 0 /\ b[2] * 0 = 0
    BY <2>1
  <2>3. CASE ~Finite(b)
    BY <1>1, <2>3 DEF FAdd
  <2>4. CASE Finite(b)
    BY <1>1, <1>2, <2>2, <2>4 DEF FAdd
  <2> QED BY <2>3, <2>4
<1>4. IsPair(FNeg(a))
  BY DEF FNeg, IsPair
<1>5. FSub(Nan, a) = Nan /\ FSub(a, Nan) = Nan
  BY <1>1, <1>3, <1>4 DEF FSub
<1>6. a[1] \in Int /\ a[2] \in Nat
  BY DEF IsPair
<1>7. /\ 0 * a[1] = 0 /\ 0 * a[2] = 0 /\ a[1] * 0 = 0 /\ a[2] * 0 = 0
      /\ -(0 * a[2]) = 0 /\ -(0 * a[1]) = 0 /\ ~(0 < 0)
  BY <1>6
<1>8. FMul(Nan, a) = Nan /\ FMul(a, Nan) = Nan
  BY <1>1, <1>2, <1>7 DEF FMul
<1>9. FDiv(a, Nan) = Nan
  BY <1>1, <1>2, <1>7 DEF FDiv
<1>10. FDiv(Nan, a) = Nan
  BY <1>1, <1>2, <1>7 DEF FDiv
<1> QED BY <1>1, <1>3, <1>5, <1>8, <1>9, <1>10

\* Zero over zero.
LEMMA ZeroOverZero == FDiv(Whole(0), Whole(0)) = Nan
BY DEF FDiv, Whole, Rat, Sign, Nan
=============================================================================
