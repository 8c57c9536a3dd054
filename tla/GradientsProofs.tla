-------------------------- MODULE GradientsProofs --------------------------
(***************************************************************************)
(* Proofs about Gradients, for every parameter and every stream of         *)
(* operands.                                                               *)
(*                                                                         *)
(* rolling_min and rolling_max return the extremum of the window and the   *)
(* derivative of the latest sample that has it, in all three modes.  The   *)
(* invariant relates the deque to the operands of all ticks.  NaN is what  *)
(* makes it delicate: a NaN pops nothing and is popped by nothing, so      *)
(* entries around one need not be sorted, and a claim about two entries,   *)
(* or about an entry and a sample, is made only if no NaN lies between.    *)
(*                                                                         *)
(* ema and kalman1d return the derivative of a closed form of the whole    *)
(* history, by the arithmetic of dual numbers; the cross operators return  *)
(* a signal that has none.                                                 *)
(*                                                                         *)
(* lag, sma, rolling_std, zscore, rolling_corr and rolling_beta return the *)
(* derivative of their definition over the window.  The invariant relates  *)
(* rings, running sums and Welford's moments to the series of values and   *)
(* derivatives of all ticks; moments are claimed only as long as no NaN    *)
(* has reached them since a refresh.                                       *)
(***************************************************************************)
EXTENDS Gradients, IeeeProofs

\* a is at least as extreme as b; Beats(op, x, a) is when x pops a.
Beats(op, a, b) == IF op = "rolling_min" THEN FLe(a, b) ELSE FLe(b, a)

\* The value of tick j, and whether ticks j .. k are all numbers.
Sample(h, j) == h[j + 1].x.v
Clean(h, j, k) == \A i \in j .. k : Sample(h, i) # Nan

Deques(p, V) == [cap : {p + 1}, head : 0 .. p, count : 0 .. p + 1,
                 buf : [0 .. p -> [tick : Nat, val : V \cup {Zero}]]]

\* The entries are samples, of ticks from lo on, in order; a tick passed over
\* leaves room for no more entries than there are ticks.
EntriesAreSamples(dq, h, lo) ==
  \A k \in 0 .. dq.count - 1 :
    /\ Entry(dq, k).tick >= lo
    /\ Entry(dq, k).tick + dq.count <= Len(h) + k
    /\ Entry(dq, k).val = Sample(h, Entry(dq, k).tick)

InOrder(dq) ==
  \A k, l \in 0 .. dq.count - 1 : k < l => Entry(dq, k).tick < Entry(dq, l).tick

\* No entry is popped by the next one, nor by any later one away from NaN.
NextPopsNot(op, dq) ==
  \A k \in 1 .. dq.count - 1 : ~Beats(op, Entry(dq, k).val, Entry(dq, k - 1).val)
LaterPopsNot(op, dq, h) ==
  \A k, l \in 0 .. dq.count - 1 :
    k < l /\ Clean(h, Entry(dq, k).tick, Entry(dq, l).tick) =>
      ~Beats(op, Entry(dq, l).val, Entry(dq, k).val)

\* Every sample from lo on is beaten by an entry of its time or later.
Covered(op, dq, h, lo) ==
  \A j \in 0 .. Len(h) - 1 :
    j >= lo /\ Clean(h, j, Len(h) - 1) =>
      \E k \in 0 .. dq.count - 1 : /\ Entry(dq, k).tick >= j
                                   /\ Beats(op, Entry(dq, k).val, Sample(h, j))

DequeOf(op, dq, h, lo) ==
  /\ EntriesAreSamples(dq, h, lo) /\ InOrder(dq)
  /\ NextPopsNot(op, dq) /\ LaterPopsNot(op, dq, h) /\ Covered(op, dq, h, lo)

\* The ring of derivatives holds those of the window at their ticks' places.
RingOf(g, h, p) ==
  /\ g \in [cap : {p}, head : {0}, count : {0}, sum : {Zero},
            buf : [0 .. p - 1 -> {h[k].x.d : k \in 1 .. Len(h)} \cup {Zero}]]
  /\ \A j \in 0 .. Len(h) - 1 : j + p >= Len(h) => g.buf[j % p] = h[j + 1].x.d

Ticked ==
  LET p == node.period
  IN  /\ primal \in Deques(p, Samples(node.op))
      /\ primal.count \in 1 .. p
      /\ DequeOf(node.op, primal, hist, n - p)
      /\ mode # "lowered" => RingOf(grad, hist, p)
      /\ out = Dual(Answer(primal, n - 1, p),
                    IF mode = "lowered" THEN Nan ELSE ActiveGradient(primal, grad, n - 1, p))

ExtremaInv ==
  node.op \in Extrema =>
    /\ node \in Nodes /\ mode \in Modes(node.op) /\ hist \in Seq(Inputs[node.op])
    /\ IF n = 0 THEN primal = PrimalInit(node, mode) /\ grad = SensitivityInit(node)
                ELSE Ticked

-----------------------------------------------------------------------------
(* Numbers *)

\* Division with remainder.
LEMMA DivMod ==
  ASSUME NEW a \in Nat, NEW c \in Nat \ {0}
  PROVE  a \div c \in Int /\ a % c \in 0 .. c - 1 /\ a = (a \div c) * c + (a % c)
OBVIOUS

\* There is one way to write a number as a multiple and a remainder.
LEMMA OneRemainder ==
  ASSUME NEW c \in Nat \ {0}, NEW q \in Int, NEW u \in Int,
         NEW r \in 0 .. c - 1, NEW s \in 0 .. c - 1, q * c + r = u * c + s
  PROVE  r = s
<1>1. (q - u) * c = s - r
  BY SMT
<1>2. q - u <= 0
  <2> SUFFICES ASSUME q - u >= 1 PROVE FALSE
    OBVIOUS
  <2>1. (q - u) * c >= c
    BY SMT
  <2> QED BY <1>1, <2>1
<1>3. q - u >= 0
  <2> SUFFICES ASSUME u - q >= 1 PROVE FALSE
    OBVIOUS
  <2>1. (u - q) * c >= c
    BY SMT
  <2>2. (u - q) * c = r - s
    BY <1>1
  <2> QED BY <2>1, <2>2
<1>4. q - u = 0
  BY <1>2, <1>3
<1> QED BY <1>1, <1>4

\* Places less than a turn apart are different.
LEMMA PlacesDiffer ==
  ASSUME NEW c \in Nat \ {0}, NEW a \in Nat, NEW b \in Nat, a < b, b < a + c
  PROVE  a % c # b % c
<1> DEFINE q == a \div c
           u == b \div c
<1>1. q \in Int /\ u \in Int /\ a = q * c + (a % c) /\ b = u * c + (b % c)
  BY DivMod
<1> HIDE DEF q, u
<1> SUFFICES ASSUME a % c = b % c PROVE FALSE
  OBVIOUS
<1>2. b - a = (u - q) * c
  <2>1. (u - q) * c = u * c - q * c
    BY <1>1
  <2>2. u * c \in Int /\ q * c \in Int /\ a % c \in Int
    BY <1>1, DivMod
  <2> QED BY <1>1, <2>1, <2>2
<1>3. CASE u - q <= 0
  <2>1. (u - q) * c <= 0
    BY <1>1, <1>3
  <2> QED BY <1>2, <2>1
<1>4. CASE u - q >= 1
  <2>1. (u - q) * c >= c
    BY <1>1, <1>4
  <2> QED BY <1>2, <2>1
<1> QED BY <1>1, <1>3, <1>4

\* Turning in two steps or in one.
LEMMA PlacesAdd ==
  ASSUME NEW c \in Nat \ {0}, NEW a \in Nat, NEW k \in Nat
  PROVE  ((a % c) + k) % c = (a + k) % c
<1> DEFINE r == a % c
           q == a \div c
           x == (r + k) % c
           y == (a + k) % c
           s == (r + k) \div c
           u == (a + k) \div c
<1>1. q \in Int /\ r \in 0 .. c - 1 /\ a = q * c + r
  BY DivMod
<1>2. r + k \in Nat /\ a + k \in Nat
  BY <1>1
<1>3. s \in Int /\ x \in 0 .. c - 1 /\ r + k = s * c + x
  BY <1>2, DivMod
<1>4. u \in Int /\ y \in 0 .. c - 1 /\ a + k = u * c + y
  BY <1>2, DivMod
<1> HIDE DEF r, q, x, y, s, u
<1>5. (q + s) * c = q * c + s * c
  BY <1>1, <1>3
<1>6. (q + s) * c + x = u * c + y
  <2>1. q * c \in Int /\ s * c \in Int /\ u * c \in Int
    BY <1>1, <1>3, <1>4
  <2> QED BY <1>1, <1>3, <1>4, <1>5, <2>1
<1>7. q + s \in Int
  BY <1>1, <1>3
<1>8. x = y
  BY <1>3, <1>4, <1>6, <1>7, OneRemainder
<1> QED BY <1>8 DEF x, y, r

-----------------------------------------------------------------------------
(* Doubles *)

\* a/b < c/d < e/f, multiplied out.
LEMMA CrossMultiply ==
  ASSUME NEW a \in Int, NEW c \in Int, NEW e \in Int,
         NEW b \in Nat \ {0}, NEW d \in Nat \ {0}, NEW f \in Nat \ {0},
         a * d < c * b, c * f < e * d
  PROVE  a * f < e * b
<1>1. (a * d) * f < (c * b) * f
  BY SMT
<1>2. (c * f) * b < (e * d) * b
  BY SMT
<1>3. (a * d) * f = (a * f) * d /\ (c * b) * f = (c * f) * b /\ (e * d) * b = (e * b) * d
  BY SMT
<1>4. (a * f) * d < (e * b) * d
  BY <1>1, <1>2, <1>3
<1> DEFINE l == a * f
           r == e * b
<1>5. l \in Int /\ r \in Int
  BY SMT
<1> HIDE DEF l, r
<1>6. l * d < r * d
  BY <1>4 DEF l, r
<1>7. ~(r <= l)
  <2> SUFFICES ASSUME r <= l PROVE FALSE
    OBVIOUS
  <2>1. r * d <= l * d
    BY <1>5
  <2> QED BY <1>5, <1>6, <2>1
<1>8. l < r
  BY <1>5, <1>7
<1> QED BY <1>8 DEF l, r

\* Sets of doubles, one pair for each number.
IsDoubles(V) == \A a, b \in V : IsDouble(a) /\ (SameNumber(a, b) => a = b)

\* A double is finite, or one of the three special values.
LEMMA DoubleParts ==
  ASSUME NEW a, IsDouble(a)
  PROVE  /\ a[1] \in Int /\ a[2] \in Nat /\ a = <<a[1], a[2]>>
         /\ ~Finite(a) => a \in {Nan, Inf, NegInf}
BY DEF IsDouble

\* Of two numbers the one is less, or the other, or they are the same.
LEMMA DoublesTotal ==
  ASSUME NEW V, IsDoubles(V), NEW a \in V, NEW b \in V, a # Nan, b # Nan
  PROVE  FLe(a, b) \/ FLe(b, a)
<1>1. IsDouble(a) /\ IsDouble(b) /\ (SameNumber(a, b) => a = b)
  BY DEF IsDoubles
<1>2. /\ a[1] \in Int /\ a[2] \in Nat /\ b[1] \in Int /\ b[2] \in Nat
      /\ ~Finite(a) => a \in {Inf, NegInf}
      /\ ~Finite(b) => b \in {Inf, NegInf}
  BY <1>1, DoubleParts
<1>3. CASE ~Finite(a) /\ ~Finite(b)
  <2>1. a[1] \in {1, -1} /\ b[1] \in {1, -1} /\ (a[1] = b[1] => a = b)
    BY <1>2, <1>3 DEF Inf, NegInf
  <2>2. a[1] < b[1] \/ b[1] < a[1] \/ a = b
    BY <2>1
  <2> QED BY <1>3, <2>2 DEF FLe, FLt, FEq
<1>4. CASE Finite(a) \/ Finite(b)
  <2> DEFINE l == a[1] * b[2]
             r == b[1] * a[2]
  <2>1. l \in Int /\ r \in Int
    BY <1>2
  <2>2. l < r => FLt(a, b)
    BY <1>4 DEF FLt
  <2>3. r < l => FLt(b, a)
    BY <1>4 DEF FLt
  <2>4. l = r => a = b
    <3> SUFFICES ASSUME l = r PROVE a = b
      OBVIOUS
    <3>1. CASE Finite(a) /\ Finite(b)
      BY <1>1, <3>1 DEF SameNumber
    <3>2. CASE ~Finite(a)
      <4>1. a[1] \in {1, -1} /\ a[2] = 0 /\ b[2] # 0
        BY <1>2, <1>4, <3>2 DEF Inf, NegInf, Finite
      <4>2. r = 0
        BY <1>2, <4>1
      <4>3. l # 0
        BY <1>2, <4>1
      <4> QED BY <4>2, <4>3
    <3>3. CASE ~Finite(b)
      <4>1. b[1] \in {1, -1} /\ b[2] = 0 /\ a[2] # 0
        BY <1>2, <1>4, <3>3 DEF Inf, NegInf, Finite
      <4>2. l = 0
        BY <1>2, <4>1
      <4>3. r # 0
        BY <1>2, <4>1
      <4> QED BY <4>2, <4>3
    <3> QED BY <3>1, <3>2, <3>3
  <2> HIDE DEF l, r
  <2>5. l < r \/ r < l \/ l = r
    BY <2>1
  <2> QED BY <2>2, <2>3, <2>4, <2>5 DEF FLe, FEq
<1> QED BY <1>3, <1>4

\* The order of doubles is transitive; NaN is not in it.
LEMMA DoublesTransitive ==
  ASSUME NEW a, NEW b, NEW c, IsDouble(a), IsDouble(b), IsDouble(c), FLt(a, b), FLt(b, c)
  PROVE  FLt(a, c)
<1>1. /\ a[1] \in Int /\ a[2] \in Nat /\ b[1] \in Int /\ b[2] \in Nat
      /\ c[1] \in Int /\ c[2] \in Nat
      /\ a # Nan /\ b # Nan /\ c # Nan
      /\ ~Finite(a) => a \in {Inf, NegInf}
      /\ ~Finite(b) => b \in {Inf, NegInf}
      /\ ~Finite(c) => c \in {Inf, NegInf}
  BY DoubleParts DEF FLt
<1>2. /\ IF ~Finite(a) /\ ~Finite(b) THEN a[1] < b[1] ELSE a[1] * b[2] < b[1] * a[2]
      /\ IF ~Finite(b) /\ ~Finite(c) THEN b[1] < c[1] ELSE b[1] * c[2] < c[1] * b[2]
  BY DEF FLt
<1>3. CASE Finite(a) /\ Finite(b) /\ Finite(c)
  <2>1. a[2] \in Nat \ {0} /\ b[2] \in Nat \ {0} /\ c[2] \in Nat \ {0}
    BY <1>1, <1>3 DEF Finite
  <2>2. a[1] * b[2] < b[1] * a[2] /\ b[1] * c[2] < c[1] * b[2]
    BY <1>2, <1>3, Zenon
  <2>3. a[1] \in Int /\ b[1] \in Int /\ c[1] \in Int
    BY <1>1
  <2>4. a[1] * c[2] < c[1] * a[2]
    <3> DEFINE a1 == a[1]
               a2 == a[2]
               b1 == b[1]
               b2 == b[2]
               c1 == c[1]
               c2 == c[2]
    <3>1. /\ a1 \in Int /\ b1 \in Int /\ c1 \in Int
          /\ a2 \in Nat \ {0} /\ b2 \in Nat \ {0} /\ c2 \in Nat \ {0}
          /\ a1 * b2 < b1 * a2 /\ b1 * c2 < c1 * b2
      BY <2>1, <2>2, <2>3, Zenon
    <3> HIDE DEF a1, a2, b1, b2, c1, c2
    <3>2. a1 * c2 < c1 * a2
      BY <3>1, CrossMultiply
    <3> QED BY <3>2 DEF a1, a2, c1, c2
  <2> QED BY <1>1, <1>3, <2>4 DEF FLt
<1>4. CASE ~Finite(b)
  <2>1. b[2] = 0 /\ b[1] \in {1, -1}
    BY <1>1, <1>4 DEF Finite, Inf, NegInf
  <2>2. b[1] = 1
    <3> SUFFICES ASSUME b[1] = -1 PROVE FALSE
      BY <2>1
    <3>1. CASE Finite(a)
      BY <1>1, <1>2, <2>1, <3>1
    <3>2. CASE ~Finite(a)
      <4>1. a[1] \in {1, -1}
        BY <1>1, <3>2 DEF Inf, NegInf
      <4> QED BY <1>2, <1>4, <3>2, <4>1
    <3> QED BY <3>1, <3>2
  <2>3. CASE Finite(c)
    BY <1>1, <1>2, <2>1, <2>2, <2>3
  <2>4. CASE ~Finite(c)
    <3>1. c[1] \in {1, -1}
      BY <1>1, <2>4 DEF Inf, NegInf
    <3> QED BY <1>2, <1>4, <2>2, <2>4, <3>1
  <2> QED BY <2>3, <2>4
<1>5. CASE ~Finite(a) /\ Finite(b)
  <2>1. a[2] = 0 /\ a[1] \in {1, -1} /\ b[2] # 0
    BY <1>1, <1>5 DEF Finite, Inf, NegInf
  <2>2. a[1] * b[2] < 0
    BY <1>1, <1>2, <1>5, <2>1
  <2>3. a[1] = -1
    BY <1>1, <2>1, <2>2
  <2>4. CASE Finite(c)
    <3>1. c[2] # 0
      BY <2>4 DEF Finite
    <3>2. a[1] * c[2] < c[1] * a[2]
      BY <1>1, <2>1, <2>3, <3>1
    <3> QED BY <1>1, <2>4, <3>2 DEF FLt
  <2>5. CASE ~Finite(c)
    <3>1. c[2] = 0 /\ c[1] \in {1, -1}
      BY <1>1, <2>5 DEF Finite, Inf, NegInf
    <3>2. b[1] * c[2] < c[1] * b[2]
      BY <1>2, <1>5
    <3>3. c[1] = 1
      BY <1>1, <3>1, <3>2
    <3> QED BY <1>1, <1>5, <2>3, <2>5, <3>3 DEF FLt
  <2> QED BY <2>4, <2>5
<1>6. CASE Finite(a) /\ Finite(b) /\ ~Finite(c)
  <2>1. c[2] = 0 /\ c[1] \in {1, -1} /\ a[2] # 0 /\ b[2] # 0
    BY <1>1, <1>6 DEF Finite, Inf, NegInf
  <2>2. b[1] * c[2] < c[1] * b[2]
    BY <1>2, <1>6
  <2>3. c[1] = 1
    BY <1>1, <2>1, <2>2
  <2>4. a[1] * c[2] < c[1] * a[2]
    BY <1>1, <2>1, <2>3
  <2> QED BY <1>1, <1>6, <2>4 DEF FLt
<1> QED BY <1>3, <1>4, <1>5, <1>6

\* So Beats orders the numbers among a set of doubles, in either direction.
LEMMA BeatsOrders ==
  ASSUME NEW V, IsDoubles(V), NEW op, NEW a \in V, NEW b \in V
  PROVE  /\ a # Nan => Beats(op, a, a)
         /\ a # Nan /\ b # Nan => Beats(op, a, b) \/ Beats(op, b, a)
         /\ Beats(op, a, b) => a # Nan /\ b # Nan
         /\ \A c \in V : Beats(op, a, b) /\ Beats(op, b, c) => Beats(op, a, c)
<1>1. \A x \in V : IsDouble(x)
  BY DEF IsDoubles
<1>2. \A x, y \in V : x # Nan /\ y # Nan => FLe(x, y) \/ FLe(y, x)
  BY DoublesTotal
<1>3. \A x, y \in V : FLe(x, y) => x # Nan /\ y # Nan
  BY DEF FLe, FLt, FEq
<1>4. \A x, y, z \in V : FLe(x, y) /\ FLe(y, z) => FLe(x, z)
  <2> SUFFICES ASSUME NEW x \in V, NEW y \in V, NEW z \in V, FLe(x, y), FLe(y, z)
               PROVE  FLe(x, z)
    OBVIOUS
  <2>1. FLt(x, y) /\ FLt(y, z) => FLt(x, z)
    BY <1>1, DoublesTransitive
  <2> QED BY <2>1 DEF FLe, FEq
<1>5. \A x \in V : x # Nan => FLe(x, x)
  BY DEF FLe, FEq
<1> QED BY <1>2, <1>3, <1>4, <1>5 DEF Beats

LEMMA BeatsTotal ==
  ASSUME NEW V, IsDoubles(V), NEW op, NEW a \in V, NEW b \in V, a # Nan, b # Nan,
         ~Beats(op, b, a)
  PROVE  Beats(op, a, b)
BY BeatsOrders, Zenon

LEMMA BeatsTransitive ==
  ASSUME NEW V, IsDoubles(V), NEW op, NEW a \in V, NEW b \in V, NEW c \in V,
         Beats(op, a, b), Beats(op, b, c)
  PROVE  Beats(op, a, c)
BY BeatsOrders, Zenon

-----------------------------------------------------------------------------
(* The three loops of a tick *)

Evicted(dq, m) == [dq EXCEPT !.head = (@ + m) % dq.cap, !.count = @ - m]
Popped(op, dq, x) == IF op = "rolling_min" THEN PopBack(dq, x, GE) ELSE PopBack(dq, x, LE)

\* A loop that takes elements of A off the back of 0 .. c - 1 stops at the
\* last one outside.
LEMMA BackLoopStops ==
  ASSUME NEW c \in Nat, NEW A
  PROVE  \E k \in 0 .. c : (\A j \in k .. c - 1 : j \in A) /\ (k > 0 => k - 1 \notin A)
<1> DEFINE T == {k \in 0 .. c : \A j \in k .. c - 1 : j \in A}
<1>1. c \in T /\ T \subseteq Nat
  OBVIOUS
<1>2. PICK k \in T : \A j \in T : k <= j
  <2> HIDE DEF T
  <2> QED BY <1>1, LeastNumber
<1>3. k \in 0 .. c /\ \A j \in k .. c - 1 : j \in A
  BY <1>2
<1>4. ASSUME k > 0, k - 1 \in A PROVE FALSE
  <2>1. k - 1 \in 0 .. c /\ \A j \in k - 1 .. c - 1 : j = k - 1 \/ j \in k .. c - 1
    BY <1>3, <1>4
  <2>2. k - 1 \in T
    BY <1>3, <1>4, <2>1
  <2> QED BY <1>2, <1>3, <2>2
<1> QED BY <1>3, <1>4

\* One that takes them off the front stops at the first one outside.
LEMMA FrontLoopStops ==
  ASSUME NEW c \in Nat, NEW A
  PROVE  \E k \in 0 .. c : (\A j \in 0 .. k - 1 : j \in A) /\ (k < c => k \notin A)
<1> DEFINE T == {k \in 0 .. c : k < c => k \notin A}
<1>1. c \in T /\ T \subseteq Nat
  OBVIOUS
<1>2. PICK k \in T : \A j \in T : k <= j
  <2> HIDE DEF T
  <2> QED BY <1>1, LeastNumber
<1>3. k \in 0 .. c /\ (k < c => k \notin A)
  BY <1>2
<1>4. ASSUME NEW j \in 0 .. k - 1 PROVE j \in A
  <2>1. j \in 0 .. c /\ j < c /\ ~(k <= j)
    BY <1>3
  <2> QED BY <1>2, <2>1
<1> QED BY <1>3, <1>4

\* The entries the sample beats leave, up to the first that it does not.
LEMMA PopBackStops ==
  ASSUME NEW dq, dq.count \in Nat, NEW x, NEW op
  PROVE  \E k \in 0 .. dq.count :
           /\ Popped(op, dq, x) = [dq EXCEPT !.count = k]
           /\ \A j \in k .. dq.count - 1 : Beats(op, x, Entry(dq, j).val)
           /\ k > 0 => ~Beats(op, x, Entry(dq, k - 1).val)
<1> DEFINE A == {j \in 0 .. dq.count - 1 : Beats(op, x, Entry(dq, j).val)}
           Stop(k) == /\ \A j \in k .. dq.count - 1 : Beats(op, x, Entry(dq, j).val)
                      /\ k > 0 => ~Beats(op, x, Entry(dq, k - 1).val)
<1>1. \E k \in 0 .. dq.count : Stop(k)
  <2>1. PICK k \in 0 .. dq.count : /\ \A j \in k .. dq.count - 1 : j \in A
                                   /\ k > 0 => k - 1 \notin A
    <3> HIDE DEF A
    <3> QED BY BackLoopStops
  <2>2. k > 0 => k - 1 \in 0 .. dq.count - 1
    OBVIOUS
  <2> QED BY <2>1, <2>2
<1>2. CASE op = "rolling_min"
  <2> DEFINE K == CHOOSE k \in 0 .. dq.count :
                    /\ \A j \in k .. dq.count - 1 : GE(Entry(dq, j).val, x)
                    /\ k > 0 => ~GE(Entry(dq, k - 1).val, x)
  <2>1. Popped(op, dq, x) = [dq EXCEPT !.count = K]
    BY <1>2 DEF Popped, PopBack
  <2>2. \A v : Beats(op, x, v) = GE(v, x)
    BY <1>2 DEF Beats, GE
  <2>3. K \in 0 .. dq.count /\ Stop(K)
    BY <1>1, <2>2
  <2> QED BY <2>1, <2>3
<1>3. CASE op # "rolling_min"
  <2> DEFINE K == CHOOSE k \in 0 .. dq.count :
                    /\ \A j \in k .. dq.count - 1 : LE(Entry(dq, j).val, x)
                    /\ k > 0 => ~LE(Entry(dq, k - 1).val, x)
  <2>1. Popped(op, dq, x) = [dq EXCEPT !.count = K]
    BY <1>3 DEF Popped, PopBack
  <2>2. \A v : Beats(op, x, v) = LE(v, x)
    BY <1>3 DEF Beats, LE
  <2>3. K \in 0 .. dq.count /\ Stop(K)
    BY <1>1, <2>2
  <2> QED BY <2>1, <2>3
<1> QED BY <1>2, <1>3

\* The entries older than the window leave, up to the first that is not.
LEMMA EvictFrontStops ==
  ASSUME NEW dq, dq.count \in Nat, NEW t, NEW p
  PROVE  \E k \in 0 .. dq.count :
           /\ EvictFront(dq, t, p) = Evicted(dq, k)
           /\ \A j \in 0 .. k - 1 : t + 1 - Entry(dq, j).tick > p
           /\ k < dq.count => ~(t + 1 - Entry(dq, k).tick > p)
<1> DEFINE aged(k) == t + 1 - Entry(dq, k).tick > p
           A == {j \in 0 .. dq.count - 1 : aged(j)}
           Stop(k) == (\A j \in 0 .. k - 1 : aged(j)) /\ (k < dq.count => ~aged(k))
           K == CHOOSE k \in 0 .. dq.count : Stop(k)
<1>1. \E k \in 0 .. dq.count : Stop(k)
  <2>1. PICK k \in 0 .. dq.count : /\ \A j \in 0 .. k - 1 : j \in A
                                   /\ k < dq.count => k \notin A
    <3> HIDE DEF A
    <3> QED BY FrontLoopStops
  <2>2. k < dq.count => k \in 0 .. dq.count - 1
    OBVIOUS
  <2> QED BY <2>1, <2>2
<1>2. K \in 0 .. dq.count /\ Stop(K)
  BY <1>1
<1>3. EvictFront(dq, t, p) = Evicted(dq, K)
  BY DEF EvictFront, Evicted
<1> QED BY <1>2, <1>3

\* The parts of a deque.
LEMMA DequeParts ==
  ASSUME NEW p \in Nat \ {0}, NEW V, NEW dq \in Deques(p, V)
  PROVE  /\ dq.cap = p + 1 /\ dq.head \in 0 .. p /\ dq.count \in 0 .. p + 1
         /\ dq.buf \in [0 .. p -> [tick : Nat, val : V \cup {Zero}]]
BY DEF Deques

\* A place in the ring, and what is there.
LEMMA DequePlaces ==
  ASSUME NEW p \in Nat \ {0}, NEW V, NEW dq \in Deques(p, V), NEW k \in Nat
  PROVE  /\ (dq.head + k) % dq.cap \in 0 .. p
         /\ Entry(dq, k) \in [tick : Nat, val : V \cup {Zero}]
         /\ Entry(dq, k).tick \in Nat
<1>1. (dq.head + k) % dq.cap \in 0 .. p
  <2>1. dq.head + k \in Nat /\ dq.cap \in Nat \ {0} /\ dq.cap - 1 = p
    BY DequeParts
  <2> QED BY <2>1, DivMod
<1>2. Entry(dq, k) \in [tick : Nat, val : V \cup {Zero}]
  BY <1>1, DequeParts DEF Entry
<1> QED BY <1>1, <1>2

\* Popping at the back moves no entry.
LEMMA AfterPop ==
  ASSUME NEW p \in Nat \ {0}, NEW V, NEW dq \in Deques(p, V), NEW k \in 0 .. dq.count
  PROVE  LET d == [dq EXCEPT !.count = k]
         IN  d \in Deques(p, V) /\ d.count = k /\ \A l : Entry(d, l) = Entry(dq, l)
<1> DEFINE d == [dq EXCEPT !.count = k]
<1>1. k \in 0 .. p + 1
  BY DequeParts
<1>2. d = [cap |-> dq.cap, head |-> dq.head, count |-> k, buf |-> dq.buf]
  BY DEF Deques
<1>3. d \in Deques(p, V)
  BY <1>1, <1>2 DEF Deques
<1> HIDE DEF d
<1>4. d.count = k /\ d.cap = dq.cap /\ d.head = dq.head /\ d.buf = dq.buf
  BY <1>2
<1> QED BY <1>3, <1>4 DEF Entry, d

\* There is room for a push, and it overwrites no entry.
LEMMA AfterPush ==
  ASSUME NEW p \in Nat \ {0}, NEW V, NEW dq \in Deques(p, V), dq.count <= p,
         NEW t \in Nat, NEW x \in V
  PROVE  LET d == MonoPushBack(dq, t, x)
         IN  /\ d \in Deques(p, V) /\ d.count = dq.count + 1
             /\ Entry(d, dq.count) = [tick |-> t, val |-> x]
             /\ \A l \in 0 .. dq.count - 1 : Entry(d, l) = Entry(dq, l)
<1> DEFINE d == MonoPushBack(dq, t, x)
           at == (dq.head + dq.count) % dq.cap
           new == [tick |-> t, val |-> x]
           buf == [dq.buf EXCEPT ![at] = new]
<1>1. /\ dq.cap = p + 1 /\ dq.head \in 0 .. p /\ dq.count \in 0 .. p
      /\ dq.buf \in [0 .. p -> [tick : Nat, val : V \cup {Zero}]]
  BY DequeParts
<1>2. at \in 0 .. p
  <2>1. dq.count \in Nat
    BY <1>1
  <2> QED BY <2>1, DequePlaces
<1>3. d = [dq EXCEPT !.buf = buf, !.count = dq.count + 1]
  BY DEF MonoPushBack, Deques
<1>4. new \in [tick : Nat, val : V \cup {Zero}]
  OBVIOUS
<1>5. buf \in [0 .. p -> [tick : Nat, val : V \cup {Zero}]]
  BY <1>1, <1>4
<1> HIDE DEF d, buf, new
<1>6. d = [cap |-> dq.cap, head |-> dq.head, count |-> dq.count + 1, buf |-> buf]
  BY <1>3 DEF Deques
<1>7. d \in Deques(p, V)
  <2>1. dq.count + 1 \in 0 .. p + 1
    BY <1>1
  <2> QED BY <1>1, <1>5, <1>6, <2>1 DEF Deques
<1>8. d.count = dq.count + 1 /\ d.cap = dq.cap /\ d.head = dq.head /\ d.buf = buf
  BY <1>6
<1>9. Entry(d, dq.count) = new
  BY <1>1, <1>2, <1>8 DEF Entry, buf
<1>10. ASSUME NEW l \in 0 .. dq.count - 1 PROVE Entry(d, l) = Entry(dq, l)
  <2>1. /\ dq.head + l \in Nat /\ dq.head + dq.count \in Nat
        /\ dq.head + l < dq.head + dq.count /\ dq.head + dq.count < dq.head + l + dq.cap
        /\ dq.cap \in Nat \ {0}
    <3> DEFINE hd == dq.head
               ct == dq.count
    <3>1. hd \in 0 .. p /\ ct \in 0 .. p /\ l \in 0 .. ct - 1
      BY <1>1
    <3> HIDE DEF hd, ct
    <3>2. /\ hd + l \in Nat /\ hd + ct \in Nat /\ hd + l < hd + ct
          /\ hd + ct < hd + l + (p + 1) /\ p + 1 \in Nat \ {0}
      BY <3>1
    <3> QED BY <1>1, <3>2 DEF hd, ct
  <2>2. (dq.head + l) % dq.cap # at
    BY <2>1, PlacesDiffer
  <2>3. (dq.head + l) % dq.cap \in 0 .. p
    <3>1. l \in Nat
      BY <1>1
    <3> QED BY <3>1, DequePlaces
  <2>4. buf[(dq.head + l) % dq.cap] = dq.buf[(dq.head + l) % dq.cap]
    BY <1>1, <2>2, <2>3 DEF buf
  <2> QED BY <1>8, <2>4 DEF Entry
<1> QED BY <1>7, <1>8, <1>9, <1>10 DEF d, new

\* Evicting at the front turns the ring.
LEMMA AfterEvict ==
  ASSUME NEW p \in Nat \ {0}, NEW V, NEW dq \in Deques(p, V), NEW m \in 0 .. dq.count
  PROVE  LET d == Evicted(dq, m)
         IN  /\ d \in Deques(p, V) /\ d.count = dq.count - m
             /\ \A l \in Nat : Entry(d, l) = Entry(dq, l + m)
<1> DEFINE d == Evicted(dq, m)
           head == (dq.head + m) % dq.cap
<1>1. /\ dq.cap = p + 1 /\ dq.head \in 0 .. p /\ dq.count \in 0 .. p + 1
      /\ dq.buf \in [0 .. p -> [tick : Nat, val : V \cup {Zero}]]
  BY DequeParts
<1>2. m \in Nat /\ dq.count - m \in 0 .. p + 1
  BY <1>1
<1>3. head \in 0 .. p
  BY <1>2, DequePlaces
<1>4. d = [dq EXCEPT !.head = head, !.count = dq.count - m]
  BY DEF Deques, Evicted
<1> HIDE DEF d, head
<1>5. d = [cap |-> dq.cap, head |-> head, count |-> dq.count - m, buf |-> dq.buf]
  BY <1>4 DEF Deques
<1>6. d \in Deques(p, V)
  BY <1>1, <1>2, <1>3, <1>5 DEF Deques
<1>7. d.count = dq.count - m /\ d.cap = dq.cap /\ d.head = head /\ d.buf = dq.buf
  BY <1>5
<1>8. ASSUME NEW l \in Nat PROVE Entry(d, l) = Entry(dq, l + m)
  <2>1. dq.head + m \in Nat /\ dq.cap \in Nat \ {0}
    BY <1>1, <1>2
  <2>2. (head + l) % dq.cap = (dq.head + m + l) % dq.cap
    BY <2>1, PlacesAdd DEF head
  <2>3. dq.head + m + l = dq.head + (l + m)
    BY <1>1, <1>2
  <2> QED BY <1>7, <2>2, <2>3 DEF Entry
<1> QED BY <1>6, <1>7, <1>8 DEF d

-----------------------------------------------------------------------------
(* A tick of the deque *)

\* h is a history of t ticks, g the same with one more, whose sample is x.
Extends(g, h, t, x) ==
  /\ Len(h) = t /\ Len(g) = t + 1 /\ Sample(g, t) = x
  /\ \A j \in 0 .. t - 1 : Sample(g, j) = Sample(h, j)

\* Popping what the sample beats and pushing it makes the deque one of the
\* longer history; no window has been taken into account yet.
LEMMA PushKeepsDeque ==
  ASSUME NEW p \in Nat \ {0}, NEW V, IsDoubles(V), NEW op,
         NEW dq \in Deques(p, V), dq.count <= p,
         NEW h, NEW g, NEW t \in Nat, NEW x \in V, Extends(g, h, t, x),
         \A j \in 0 .. t - 1 : Sample(h, j) \in V,
         NEW lo \in Int, lo <= t, DequeOf(op, dq, h, lo)
  PROVE  LET d == MonoPushBack(Popped(op, dq, x), t, x)
         IN  /\ d \in Deques(p, V) /\ d.count >= 1
             /\ Entry(d, d.count - 1).tick = t
             /\ DequeOf(op, d, g, lo)
<1> DEFINE d == MonoPushBack(Popped(op, dq, x), t, x)
           E(k) == Entry(dq, k)
           F(k) == Entry(d, k)
           c == dq.count
<1>1. c \in 0 .. p
  BY DequeParts
<1>2. PICK k \in 0 .. c : /\ Popped(op, dq, x) = [dq EXCEPT !.count = k]
                          /\ \A j \in k .. c - 1 : Beats(op, x, E(j).val)
                          /\ k > 0 => ~Beats(op, x, E(k - 1).val)
  BY <1>1, PopBackStops
<1>3. /\ d \in Deques(p, V) /\ d.count = k + 1
      /\ F(k) = [tick |-> t, val |-> x]
      /\ \A l \in 0 .. k - 1 : F(l) = E(l)
  <2> DEFINE e == [dq EXCEPT !.count = k]
  <2>1. e \in Deques(p, V) /\ e.count = k /\ \A l : Entry(e, l) = E(l)
    BY AfterPop
  <2> HIDE DEF e
  <2>2. e.count <= p /\ d = MonoPushBack(e, t, x)
    BY <1>1, <1>2, <2>1 DEF e
  <2> HIDE DEF d
  <2>3. /\ MonoPushBack(e, t, x) \in Deques(p, V)
        /\ MonoPushBack(e, t, x).count = e.count + 1
        /\ Entry(MonoPushBack(e, t, x), e.count) = [tick |-> t, val |-> x]
        /\ \A l \in 0 .. e.count - 1 : Entry(MonoPushBack(e, t, x), l) = Entry(e, l)
    <3> HIDE DEF E, F, c
    <3>1. e.count <= p /\ e \in Deques(p, V)
      BY <2>1, <2>2
    <3> QED BY <3>1, AfterPush
  <2> QED BY <2>1, <2>2, <2>3
<1> HIDE DEF d
<1>4. \A j \in 0 .. c - 1 : /\ E(j).tick \in Nat /\ E(j).tick >= lo
                            /\ E(j).tick + c <= t + j /\ E(j).tick < t
                            /\ E(j).val = Sample(h, E(j).tick)
                            /\ E(j).val \in V
  <2> SUFFICES ASSUME NEW j \in 0 .. c - 1
               PROVE  /\ E(j).tick \in Nat /\ E(j).tick >= lo
                      /\ E(j).tick + c <= t + j /\ E(j).tick < t
                      /\ E(j).val = Sample(h, E(j).tick)
                      /\ E(j).val \in V
    OBVIOUS
  <2>1. E(j).tick \in Nat
    <3>1. j \in Nat
      BY <1>1
    <3> QED BY <3>1, DequePlaces
  <2>2. E(j).tick >= lo /\ E(j).tick + c <= t + j /\ E(j).val = Sample(h, E(j).tick)
    BY DEF DequeOf, EntriesAreSamples, Extends
  <2> HIDE DEF E, c
  <2>3. E(j).tick \in 0 .. t - 1
    BY <1>1, <2>1, <2>2
  <2> QED BY <2>1, <2>2, <2>3
<1> HIDE DEF E, F, c
<1>5. \A j \in 0 .. c - 1 : \A l \in 0 .. c - 1 : j < l => E(j).tick < E(l).tick
  BY DEF DequeOf, InOrder, E, c
<1>6. \A j \in 0 .. k - 1 : j \in 0 .. c - 1
  BY <1>1
<1>7. \A j, l \in Nat : l < t /\ Clean(g, j, l) => Clean(h, j, l)
  BY DEF Clean, Extends
<1>8. F(k).tick = t /\ F(k).val = x /\ k \in Nat
  BY <1>1, <1>3
<1>9. EntriesAreSamples(d, g, lo)
  <2> SUFFICES ASSUME NEW l \in 0 .. k
               PROVE  /\ F(l).tick >= lo /\ F(l).tick + (k + 1) <= t + 1 + l
                      /\ F(l).val = Sample(g, F(l).tick)
    BY <1>3, <1>8 DEF EntriesAreSamples, Extends, F
  <2>1. CASE l = k
    BY <1>8, <2>1 DEF Extends
  <2>2. CASE l # k
    <3>1. l \in 0 .. k - 1
      BY <1>8, <2>2
    <3>2. F(l) = E(l) /\ l \in 0 .. c - 1
      BY <1>3, <1>6, <3>1
    <3>3. E(l).tick >= lo /\ E(l).tick + (k + 1) <= t + 1 + l
      BY <1>1, <1>4, <1>8, <3>2
    <3>4. E(l).val = Sample(g, E(l).tick)
      BY <1>4, <3>2 DEF Extends
    <3> QED BY <3>2, <3>3, <3>4
  <2> QED BY <2>1, <2>2
<1>10. InOrder(d)
  <2> SUFFICES ASSUME NEW j \in 0 .. k, NEW l \in 0 .. k, j < l PROVE F(j).tick < F(l).tick
    BY <1>3, <1>8 DEF InOrder, F
  <2>1. j \in 0 .. k - 1 /\ F(j) = E(j) /\ j \in 0 .. c - 1
    BY <1>3, <1>6, <1>8
  <2>2. CASE l = k
    BY <1>4, <1>8, <2>1, <2>2
  <2>3. CASE l # k
    <3>1. l \in 0 .. k - 1
      BY <1>8, <2>3
    <3>2. F(l) = E(l) /\ l \in 0 .. c - 1
      BY <1>3, <1>6, <3>1
    <3> QED BY <1>5, <2>1, <3>2
  <2> QED BY <2>2, <2>3
<1>11. NextPopsNot(op, d)
  <2> SUFFICES ASSUME NEW l \in 1 .. k PROVE ~Beats(op, F(l).val, F(l - 1).val)
    BY <1>3, <1>8 DEF NextPopsNot, F
  <2>1. l - 1 \in 0 .. k - 1 /\ F(l - 1) = E(l - 1)
    BY <1>3, <1>8
  <2>2. CASE l = k
    BY <1>2, <1>8, <2>1, <2>2
  <2>3. CASE l # k
    <3>1. l \in 0 .. k - 1 /\ l \in 1 .. c - 1
      BY <1>1, <1>8, <2>3
    <3>2. F(l) = E(l) /\ ~Beats(op, E(l).val, E(l - 1).val)
      BY <1>3, <3>1 DEF DequeOf, NextPopsNot, E, c
    <3> QED BY <2>1, <3>2
  <2> QED BY <2>2, <2>3
<1>12. LaterPopsNot(op, d, g)
  <2> SUFFICES ASSUME NEW j \in 0 .. k, NEW l \in 0 .. k, j < l,
                      Clean(g, F(j).tick, F(l).tick), Beats(op, F(l).val, F(j).val)
               PROVE  FALSE
    BY <1>3, <1>8 DEF LaterPopsNot, F
  <2>1. j \in 0 .. k - 1 /\ F(j) = E(j) /\ j \in 0 .. c - 1
    BY <1>3, <1>6, <1>8
  <2>2. CASE l # k
    <3>1. l \in 0 .. k - 1
      BY <1>8, <2>2
    <3>2. F(l) = E(l) /\ l \in 0 .. c - 1
      BY <1>3, <1>6, <3>1
    <3>3. Clean(h, E(j).tick, E(l).tick)
      BY <1>4, <1>7, <2>1, <3>2
    <3> QED BY <2>1, <3>2, <3>3 DEF DequeOf, LaterPopsNot, E, c
  <2>3. CASE l = k /\ j = k - 1
    BY <1>2, <1>8, <2>1, <2>3
  <2>4. CASE l = k /\ j # k - 1
    <3> DEFINE b == k - 1
    <3>1. b \in 0 .. c - 1 /\ j < b /\ k > 0
      BY <1>1, <1>8, <2>1, <2>4
    <3>2. /\ E(j).tick \in Nat /\ E(b).tick \in Nat /\ E(b).tick < t
          /\ E(j).tick < E(b).tick /\ E(j).val \in V /\ E(b).val \in V
          /\ E(b).val = Sample(h, E(b).tick) /\ E(j).val = Sample(h, E(j).tick)
      BY <1>4, <1>5, <2>1, <3>1
    <3>3. Clean(g, E(j).tick, t)
      BY <1>8, <2>1, <2>4
    <3>4. Clean(h, E(j).tick, E(b).tick)
      <4>1. Clean(g, E(j).tick, E(b).tick)
        BY <3>2, <3>3 DEF Clean
      <4> QED BY <1>7, <3>2, <4>1
    <3>5. E(j).val # Nan /\ E(b).val # Nan
      BY <3>2, <3>4 DEF Clean
    <3>6. ~Beats(op, E(b).val, E(j).val)
      BY <2>1, <3>1, <3>4 DEF DequeOf, LaterPopsNot, E, c
    <3>7. Beats(op, E(j).val, E(b).val)
      BY <3>2, <3>5, <3>6, BeatsTotal
    <3>8. Beats(op, x, E(j).val)
      BY <1>8, <2>1, <2>4
    <3>9. Beats(op, x, E(b).val)
      BY <3>2, <3>7, <3>8, BeatsTransitive
    <3> QED BY <1>2, <3>1, <3>9
  <2> QED BY <2>2, <2>3, <2>4
<1>13. Covered(op, d, g, lo)
  <2> SUFFICES ASSUME NEW j \in 0 .. t, j >= lo, Clean(g, j, t)
               PROVE  \E l \in 0 .. k : F(l).tick >= j /\ Beats(op, F(l).val, Sample(g, j))
    BY <1>3, <1>8 DEF Covered, Extends, F
  <2>1. x # Nan /\ Beats(op, x, x)
    BY BeatsOrders DEF Clean, Extends
  <2>2. CASE j = t
    BY <1>8, <2>1, <2>2 DEF Extends
  <2>3. CASE j # t
    <3>1. j \in 0 .. t - 1 /\ Sample(g, j) = Sample(h, j) /\ Sample(h, j) \in V
      BY <2>3 DEF Extends
    <3>2. Clean(h, j, t - 1)
      <4>1. Clean(g, j, t - 1)
        BY DEF Clean
      <4>2. t - 1 \in Nat /\ t - 1 < t /\ j \in Nat
        BY <3>1
      <4> QED BY <1>7, <4>1, <4>2
    <3>3. PICK l \in 0 .. c - 1 : E(l).tick >= j /\ Beats(op, E(l).val, Sample(h, j))
      BY <3>1, <3>2 DEF DequeOf, Covered, Extends, E, c
    <3>4. CASE l \in 0 .. k - 1
      <4>1. F(l) = E(l) /\ l \in 0 .. k
        BY <1>3, <1>8, <3>4
      <4> QED BY <3>1, <3>3, <4>1
    <3>5. CASE l \notin 0 .. k - 1
      <4>1. l \in k .. c - 1
        BY <1>1, <1>8, <3>5
      <4>2. Beats(op, x, E(l).val)
        BY <1>2, <4>1
      <4>3. Beats(op, x, Sample(h, j))
        BY <1>4, <3>1, <3>3, <4>2, BeatsOrders
      <4> QED BY <1>8, <3>1, <4>3
    <3> QED BY <3>4, <3>5
  <2> QED BY <2>2, <2>3
<1>14. d.count >= 1 /\ F(d.count - 1).tick = t
  BY <1>3, <1>8
<1> QED BY <1>3, <1>9, <1>10, <1>11, <1>12, <1>13, <1>14 DEF DequeOf, d, F

\* Evicting what is older than the window keeps it one, for the window; at
\* least the sample just pushed remains, and no more than `period' entries.
LEMMA EvictKeepsDeque ==
  ASSUME NEW p \in Nat \ {0}, NEW V, NEW op, NEW dq \in Deques(p, V),
         NEW g, NEW t \in Nat, Len(g) = t + 1,
         dq.count >= 1, Entry(dq, dq.count - 1).tick = t, DequeOf(op, dq, g, t - p)
  PROVE  LET d == EvictFront(dq, t, p)
         IN  /\ d \in Deques(p, V) /\ d.count \in 1 .. p
             /\ DequeOf(op, d, g, t + 1 - p)
<1> DEFINE d == EvictFront(dq, t, p)
           E(k) == Entry(dq, k)
           F(k) == Entry(d, k)
           c == dq.count
<1>1. c \in 1 .. p + 1
  BY DequeParts
<1>2. PICK m \in 0 .. c :
        /\ d = Evicted(dq, m)
        /\ \A j \in 0 .. m - 1 : t + 1 - E(j).tick > p
        /\ m < c => ~(t + 1 - E(m).tick > p)
  <2>1. dq.count \in Nat
    BY <1>1
  <2> QED BY <2>1, EvictFrontStops
<1>3. d \in Deques(p, V) /\ d.count = c - m /\ \A l \in Nat : F(l) = E(l + m)
  <2>1. /\ Evicted(dq, m) \in Deques(p, V) /\ Evicted(dq, m).count = dq.count - m
        /\ \A l \in Nat : Entry(Evicted(dq, m), l) = Entry(dq, l + m)
    BY AfterEvict
  <2> HIDE DEF d
  <2> QED BY <1>2, <2>1
<1>4. \A j \in 0 .. c - 1 : E(j).tick \in Nat
  <2> SUFFICES ASSUME NEW j \in 0 .. c - 1 PROVE E(j).tick \in Nat
    OBVIOUS
  <2>1. j \in Nat
    BY <1>1
  <2> QED BY <2>1, DequePlaces
<1>5. /\ \A j \in 0 .. c - 1 : /\ E(j).tick + c <= t + 1 + j
                               /\ E(j).val = Sample(g, E(j).tick)
      /\ \A j, l \in 0 .. c - 1 : j < l => E(j).tick < E(l).tick
  BY DEF DequeOf, EntriesAreSamples, InOrder
<1>6. E(c - 1).tick = t
  OBVIOUS
<1> HIDE DEF d, E, F, c
<1>7. m \in Nat /\ m < c
  <2> SUFFICES ASSUME m = c PROVE FALSE
    BY <1>1
  <2>1. c - 1 \in 0 .. m - 1
    BY <1>1
  <2>2. t + 1 - t > p
    BY <1>2, <1>6, <2>1
  <2> QED BY <2>2
<1>8. \A l \in 0 .. c - m - 1 : l + m \in 0 .. c - 1 /\ l \in Nat /\ F(l) = E(l + m)
  BY <1>1, <1>3, <1>7
<1>9. \A j \in m .. c - 1 : j \in 0 .. c - 1 /\ E(j).tick >= t + 1 - p
  <2> SUFFICES ASSUME NEW j \in m .. c - 1
               PROVE  j \in 0 .. c - 1 /\ E(j).tick >= t + 1 - p
    OBVIOUS
  <2>1. j \in 0 .. c - 1 /\ m \in 0 .. c - 1
    BY <1>1, <1>7
  <2>2. E(m).tick >= t + 1 - p
    BY <1>2, <1>4, <1>7, <2>1
  <2>3. j = m \/ E(m).tick < E(j).tick
    BY <1>5, <1>7, <2>1
  <2> QED BY <1>4, <2>1, <2>2, <2>3
<1>10. EntriesAreSamples(d, g, t + 1 - p)
  <2> SUFFICES ASSUME NEW l \in 0 .. c - m - 1
               PROVE  /\ F(l).tick >= t + 1 - p
                      /\ F(l).tick + (c - m) <= t + 1 + l
                      /\ F(l).val = Sample(g, F(l).tick)
    BY <1>3 DEF EntriesAreSamples, F
  <2>1. l + m \in 0 .. c - 1 /\ l \in Nat /\ F(l) = E(l + m) /\ l + m \in m .. c - 1
    BY <1>1, <1>7, <1>8
  <2>2. E(l + m).tick >= t + 1 - p
    BY <1>9, <2>1
  <2>3. E(l + m).tick + c <= t + 1 + (l + m) /\ E(l + m).tick \in Nat
    BY <1>4, <1>5, <2>1
  <2>4. E(l + m).tick + (c - m) <= t + 1 + l
    BY <1>1, <1>7, <2>1, <2>3
  <2> QED BY <1>5, <2>1, <2>2, <2>4
<1>11. InOrder(d)
  <2> SUFFICES ASSUME NEW j \in 0 .. c - m - 1, NEW l \in 0 .. c - m - 1, j < l
               PROVE  F(j).tick < F(l).tick
    BY <1>3 DEF InOrder, F
  <2>1. j + m < l + m
    BY <1>1, <1>7
  <2> QED BY <1>5, <1>8, <2>1
<1>12. NextPopsNot(op, d)
  <2> SUFFICES ASSUME NEW l \in 1 .. c - m - 1 PROVE ~Beats(op, F(l).val, F(l - 1).val)
    BY <1>3 DEF NextPopsNot, F
  <2>1. /\ l \in 0 .. c - m - 1 /\ l - 1 \in 0 .. c - m - 1
        /\ l + m \in 1 .. c - 1 /\ (l - 1) + m = (l + m) - 1
    BY <1>1, <1>7
  <2>2. ~Beats(op, E(l + m).val, E((l + m) - 1).val)
    BY <2>1 DEF DequeOf, NextPopsNot, E, c
  <2> QED BY <1>8, <2>1, <2>2
<1>13. LaterPopsNot(op, d, g)
  <2> SUFFICES ASSUME NEW j \in 0 .. c - m - 1, NEW l \in 0 .. c - m - 1, j < l,
                      Clean(g, F(j).tick, F(l).tick)
               PROVE  ~Beats(op, F(l).val, F(j).val)
    BY <1>3 DEF LaterPopsNot, F
  <2>1. j + m < l + m /\ j + m \in 0 .. c - 1 /\ l + m \in 0 .. c - 1
    BY <1>1, <1>7, <1>8
  <2>2. F(j) = E(j + m) /\ F(l) = E(l + m)
    BY <1>8
  <2> QED BY <2>1, <2>2 DEF DequeOf, LaterPopsNot, E, c
<1>14. Covered(op, d, g, t + 1 - p)
  <2> SUFFICES ASSUME NEW j \in 0 .. t, j >= t + 1 - p, Clean(g, j, t)
               PROVE  \E l \in 0 .. c - m - 1 :
                        F(l).tick >= j /\ Beats(op, F(l).val, Sample(g, j))
    BY <1>3 DEF Covered, F
  <2>1. j >= t - p
    OBVIOUS
  <2>2. PICK l \in 0 .. c - 1 : E(l).tick >= j /\ Beats(op, E(l).val, Sample(g, j))
    BY <2>1 DEF DequeOf, Covered, E, c
  <2>3. ~(l \in 0 .. m - 1)
    BY <1>2, <1>4, <2>2
  <2>4. l - m \in 0 .. c - m - 1 /\ (l - m) + m = l
    BY <1>1, <1>7, <2>3
  <2>5. F(l - m) = E(l)
    BY <1>8, <2>4
  <2> QED BY <2>2, <2>4, <2>5
<1>15. d.count \in 1 .. p
  <2>1. F(0).tick >= t + 1 - p /\ F(0).tick + (c - m) <= t + 1 /\ F(0).tick \in Nat
    <3>1. 0 \in 0 .. c - m - 1 /\ 0 + m = m /\ m \in m .. c - 1
      BY <1>1, <1>7
    <3>2. F(0) = E(m) /\ m \in 0 .. c - 1
      BY <1>8, <3>1
    <3>3. E(m).tick >= t + 1 - p /\ E(m).tick + c <= t + 1 + m /\ E(m).tick \in Nat
      BY <1>4, <1>5, <1>9, <3>1, <3>2
    <3> QED BY <1>1, <1>7, <3>2, <3>3
  <2>2. c - m \in 1 .. p
    BY <1>1, <1>7, <2>1
  <2> QED BY <1>3, <2>2
<1> QED BY <1>3, <1>10, <1>11, <1>12, <1>13, <1>14, <1>15 DEF DequeOf, d

\* The front of the ring is the first entry.
LEMMA FrontIsFirst ==
  ASSUME NEW p \in Nat \ {0}, NEW V, NEW dq \in Deques(p, V)
  PROVE  MonoFront(dq) = Entry(dq, 0)
<1> DEFINE c == dq.cap
           hd == dq.head
<1>1. c \in Nat \ {0} /\ hd \in 0 .. c - 1
  BY DequeParts
<1> HIDE DEF c, hd
<1>2. hd + 0 \in Nat /\ hd + 0 = hd
  BY <1>1
<1>3. hd \div c \in Int /\ hd % c \in 0 .. c - 1 /\ hd = (hd \div c) * c + (hd % c)
  BY <1>1, <1>2, DivMod
<1>4. 0 * c + hd = (hd \div c) * c + (hd % c)
  BY <1>1, <1>3
<1>5. hd = hd % c
  BY <1>1, <1>3, <1>4, OneRemainder
<1>6. (hd + 0) % c = hd
  BY <1>2, <1>5
<1> QED BY <1>6 DEF MonoFront, Entry, c, hd

\* On a window of numbers the front of the deque is the extremum, and no
\* later sample of the window is as extreme.
LEMMA FrontIsExtremum ==
  ASSUME NEW p \in Nat \ {0}, NEW V, IsDoubles(V), NEW op, NEW dq \in Deques(p, V),
         dq.count >= 1, NEW h, NEW len \in Nat, Len(h) = len, p <= len,
         \A j \in 0 .. len - 1 : Sample(h, j) \in V,
         Clean(h, len - p, len - 1), DequeOf(op, dq, h, len - p)
  PROVE  LET f == Entry(dq, 0).tick
         IN  /\ f \in len - p .. len - 1 /\ Entry(dq, 0).val = Sample(h, f)
             /\ \A j \in len - p .. len - 1 : Beats(op, Sample(h, f), Sample(h, j))
             /\ \A j \in f + 1 .. len - 1 : ~Beats(op, Sample(h, j), Sample(h, f))
<1> DEFINE E(k) == Entry(dq, k)
           c == dq.count
           f == E(0).tick
<1>1. c \in 1 .. p + 1
  BY DequeParts
<1>2. \A k \in 0 .. c - 1 : E(k).tick \in Nat
  <2> SUFFICES ASSUME NEW k \in 0 .. c - 1 PROVE E(k).tick \in Nat
    OBVIOUS
  <2>1. k \in Nat
    BY <1>1
  <2> QED BY <2>1, DequePlaces
<1>3. \A k \in 0 .. c - 1 : /\ E(k).tick >= len - p /\ E(k).tick + c <= len + k
                            /\ E(k).val = Sample(h, E(k).tick)
  BY DEF DequeOf, EntriesAreSamples
<1>4. /\ \A k \in 0 .. c - 1 : 0 < k => f < E(k).tick
      /\ \A k \in 0 .. c - 1 : 0 < k /\ Clean(h, f, E(k).tick) => ~Beats(op, E(k).val, E(0).val)
  BY <1>1 DEF DequeOf, InOrder, LaterPopsNot
<1>5. \A j \in 0 .. len - 1 : j >= len - p /\ Clean(h, j, len - 1) =>
        \E k \in 0 .. c - 1 : E(k).tick >= j /\ Beats(op, E(k).val, Sample(h, j))
  BY DEF DequeOf, Covered
<1> HIDE DEF E, c
<1>6. \A k \in 0 .. c - 1 : E(k).tick \in len - p .. len - 1 /\ E(k).tick \in 0 .. len - 1
  BY <1>1, <1>2, <1>3
<1>7. \A k \in 0 .. c - 1 : E(k).val \in V /\ E(k).val # Nan
  BY <1>3, <1>6 DEF Clean
<1>8. 0 \in 0 .. c - 1
  BY <1>1
<1>9. \A j \in len - p .. len - 1 : j \in 0 .. len - 1 /\ Clean(h, j, len - 1)
  BY DEF Clean
<1>10. \A k \in 0 .. c - 1 : 0 < k => ~Beats(op, E(k).val, E(0).val)
  <2> SUFFICES ASSUME NEW k \in 0 .. c - 1, 0 < k PROVE ~Beats(op, E(k).val, E(0).val)
    OBVIOUS
  <2>1. Clean(h, f, E(k).tick)
    BY <1>6, <1>8 DEF Clean
  <2> QED BY <1>4, <2>1
<1>11. ASSUME NEW j \in len - p .. len - 1 PROVE Beats(op, E(0).val, Sample(h, j))
  <2>1. PICK k \in 0 .. c - 1 : E(k).tick >= j /\ Beats(op, E(k).val, Sample(h, j))
    BY <1>5, <1>9
  <2>2. CASE k = 0
    BY <2>1, <2>2
  <2>3. CASE k # 0
    <3>1. ~Beats(op, E(k).val, E(0).val)
      BY <1>10, <2>3
    <3>2. Beats(op, E(0).val, E(k).val)
      BY <1>7, <1>8, <3>1, BeatsTotal
    <3>3. Sample(h, j) \in V
      BY <1>9
    <3> QED BY <1>7, <1>8, <2>1, <3>2, <3>3, BeatsTransitive
  <2> QED BY <2>2, <2>3
<1>12. ASSUME NEW j \in f + 1 .. len - 1, Beats(op, Sample(h, j), E(0).val) PROVE FALSE
  <2>1. j \in len - p .. len - 1 /\ j > f
    BY <1>6, <1>8
  <2>2. PICK k \in 0 .. c - 1 : E(k).tick >= j /\ Beats(op, E(k).val, Sample(h, j))
    BY <1>5, <1>9, <2>1
  <2>3. k # 0
    BY <1>2, <1>8, <2>1, <2>2
  <2>4. Sample(h, j) \in V
    BY <1>9, <2>1
  <2>5. Beats(op, E(k).val, E(0).val)
    BY <1>7, <1>8, <1>12, <2>2, <2>4, BeatsTransitive
  <2> QED BY <1>10, <2>3, <2>5
<1>13. E(0).val = Sample(h, f) /\ f \in len - p .. len - 1
  BY <1>3, <1>6, <1>8
<1> QED BY <1>11, <1>12, <1>13 DEF E

-----------------------------------------------------------------------------
(* The invariant *)

\* The deque a tick works on is one of the history so far.
LEMMA DequeBefore ==
  ASSUME ExtremaInv, node.op \in Extrema, NEW x
  PROVE  \E dq \in Deques(node.period, Samples(node.op)) :
           /\ dq.count <= node.period /\ DequeOf(node.op, dq, hist, n - node.period)
           /\ UpdateDeque(node.op, primal, n, node.period, x) =
                EvictFront(MonoPushBack(Popped(node.op, dq, x), n, x), n, node.period)
<1> DEFINE p == node.period
           op == node.op
           V == Samples(op)
<1>1. /\ node \in Nodes /\ mode \in Modes(op) /\ hist \in Seq(Inputs[op])
      /\ op \in {"rolling_min", "rolling_max"}
  BY DEF ExtremaInv, Extrema
<1>2. p \in Nat \ {0}
  BY <1>1, NodeAssumption DEF Extrema, Windows
<1>3. mode \in {"interp", "compiled", "lowered"}
  BY <1>1 DEF Modes
<1>4. n \in Nat
  BY <1>1 DEF n
<1>5. ASSUME NEW dq \in Deques(p, V), IF mode = "interp" THEN MonoInit(primal, p) = dq
                                                         ELSE primal = dq
      PROVE  UpdateDeque(op, primal, n, p, x) =
               EvictFront(MonoPushBack(Popped(op, dq, x), n, x), n, p)
  <2>1. dq.cap - 1 = p
    BY <1>2, DequeParts
  <2>2. CASE mode = "interp"
    BY <1>1, <1>5, <2>2 DEF UpdateDeque, UpdateRollingMin, UpdateRollingMax, Popped
  <2>3. CASE mode = "compiled"
    BY <1>1, <1>5, <2>1, <2>3
       DEF UpdateDeque, UpdateRollingMinPrepared, UpdateRollingMaxPrepared, Popped
  <2>4. CASE mode = "lowered"
    BY <1>1, <1>5, <2>4 DEF UpdateDeque, EmitLoweredRollingMin, EmitLoweredRollingMax,
                            EmitLoweredMonoDequeRolling, Popped
  <2> QED BY <1>3, <2>2, <2>3, <2>4
<1>6. CASE n = 0
  <2> DEFINE dq == EmptyDeque(p + 1)
  <2>1. dq \in Deques(p, V) /\ dq.count = 0 /\ dq.cap = p + 1
    <3> DEFINE blank == [tick |-> 0, val |-> Zero]
               buf == [k \in 0 .. p |-> blank]
    <3>1. blank \in [tick : Nat, val : V \cup {Zero}]
      OBVIOUS
    <3> HIDE DEF blank
    <3>2. buf \in [0 .. p -> [tick : Nat, val : V \cup {Zero}]]
      BY <3>1
    <3>3. dq = [cap |-> p + 1, head |-> 0, count |-> 0, buf |-> buf]
      <4>1. (p + 1) - 1 = p
        BY <1>2
      <4> QED BY <4>1 DEF EmptyDeque, blank, Zero
    <3> HIDE DEF buf, dq
    <3>4. 0 \in 0 .. p /\ 0 \in 0 .. p + 1
      BY <1>2
    <3> QED BY <3>2, <3>3, <3>4 DEF Deques
  <2>2. primal = IF mode = "interp" THEN EmptyDeque(0) ELSE dq
    <3>1. primal = PrimalInit(node, mode)
      BY <1>6 DEF ExtremaInv
    <3>2. PrimalInit(node, mode) = IF mode = "interp" THEN EmptyDeque(0)
                                   ELSE EmptyDeque((IF mode = "interp" THEN 0 ELSE p) + 1)
      <4>1. CASE op = "rolling_min"
        BY <4>1, Zenon DEF PrimalInit, Extrema, Deviations, Pairs, Crosses
      <4>2. CASE op = "rolling_max"
        BY <4>2, Zenon DEF PrimalInit, Extrema, Deviations, Pairs, Crosses
      <4> QED BY <1>1, <4>1, <4>2
    <3>3. CASE mode = "interp"
      BY <3>1, <3>2, <3>3
    <3>4. CASE mode # "interp"
      BY <3>1, <3>2, <3>4
    <3> QED BY <3>3, <3>4
  <2>3. MonoInit(EmptyDeque(0), p) = dq
    BY <1>2 DEF MonoInit, EmptyDeque
  <2> HIDE DEF dq
  <2>4. DequeOf(op, dq, hist, n - p)
    <3>1. 0 .. dq.count - 1 = {} /\ 1 .. dq.count - 1 = {} /\ 0 .. Len(hist) - 1 = {}
      BY <1>6, <2>1 DEF n
    <3> QED BY <3>1 DEF DequeOf, EntriesAreSamples, InOrder, NextPopsNot, LaterPopsNot, Covered
  <2>5. dq.count <= p
    BY <1>2, <2>1
  <2> QED BY <1>5, <2>1, <2>2, <2>3, <2>4, <2>5
<1>7. CASE n # 0
  <2>1. primal \in Deques(p, V) /\ primal.count \in 1 .. p /\ DequeOf(op, primal, hist, n - p)
    BY <1>7 DEF ExtremaInv, Ticked
  <2>2. primal.cap = p + 1 /\ primal.count <= p
    BY <1>2, <2>1, DequeParts
  <2>3. MonoInit(primal, p) = primal
    BY <2>2 DEF MonoInit
  <2> QED BY <1>5, <2>1, <2>2, <2>3
<1> QED BY <1>6, <1>7

\* The samples of a history of operands are doubles, and another tick extends it.
LEMMA HistoryOfDoubles ==
  ASSUME NEW nd \in Nodes, NEW h \in Seq(Inputs[nd.op])
  PROVE  /\ IsDoubles(Samples(nd.op)) /\ Len(h) \in Nat
         /\ \A j \in 0 .. Len(h) - 1 : Sample(h, j) \in Samples(nd.op)
         /\ \A i \in Inputs[nd.op] :
              /\ i.x.v \in Samples(nd.op) /\ Append(h, i) \in Seq(Inputs[nd.op])
              /\ Extends(Append(h, i), h, Len(h), i.x.v)
<1>1. IsDoubles(Samples(nd.op))
  BY SampleAssumption DEF IsDoubles
<1>2. Len(h) \in Nat /\ \A k \in 1 .. Len(h) : h[k] \in Inputs[nd.op]
  OBVIOUS
<1>3. \A j \in 0 .. Len(h) - 1 : j + 1 \in 1 .. Len(h)
  BY <1>2
<1>4. \A j \in 0 .. Len(h) - 1 : Sample(h, j) \in Samples(nd.op)
  BY <1>2, <1>3 DEF Sample, Samples
<1>5. ASSUME NEW i \in Inputs[nd.op]
      PROVE  /\ i.x.v \in Samples(nd.op) /\ Append(h, i) \in Seq(Inputs[nd.op])
             /\ Extends(Append(h, i), h, Len(h), i.x.v)
  <2>1. i.x.v \in Samples(nd.op)
    BY DEF Samples
  <2>2. /\ Append(h, i) \in Seq(Inputs[nd.op]) /\ Len(Append(h, i)) = Len(h) + 1
        /\ Append(h, i)[Len(h) + 1] = i
        /\ \A k \in 1 .. Len(h) : Append(h, i)[k] = h[k]
    OBVIOUS
  <2>3. Extends(Append(h, i), h, Len(h), i.x.v)
    BY <1>3, <2>2 DEF Extends, Sample
  <2> QED BY <2>1, <2>2, <2>3
<1> QED BY <1>1, <1>2, <1>4, <1>5

\* The ring of derivatives follows: a tick writes at its own place, and the
\* ticks of the window are at different ones.
LEMMA RingStep ==
  ASSUME NEW p \in Nat \ {0}, NEW h, NEW g, NEW t \in Nat, NEW r, NEW d,
         Len(h) = t, Len(g) = t + 1, g[t + 1].x.d = d,
         \A k \in 1 .. t : g[k].x.d = h[k].x.d,
         IF t = 0 THEN r = FreshRing(0) ELSE RingOf(r, h, p)
  PROVE  RingOf(ExtremumSensitivity(r, t, p, d), g, p)
<1> DEFINE ring == Fitted(r, p)
           at == t % p
           G == {g[k].x.d : k \in 1 .. t + 1} \cup {Zero}
           buf == [ring.buf EXCEPT ![at] = d]
           s == ExtremumSensitivity(r, t, p, d)
<1>1. at \in 0 .. p - 1
  BY DivMod
<1>2. d \in G
  OBVIOUS
<1>3. /\ ring \in [cap : {p}, head : {0}, count : {0}, sum : {Zero}, buf : [0 .. p - 1 -> G]]
      /\ \A j \in 0 .. t - 1 : j + p >= t => ring.buf[j % p] = h[j + 1].x.d
  <2>1. CASE t = 0
    <3>1. ring = FreshRing(p)
      BY <2>1 DEF Fitted, FreshRing
    <3>2. [k \in 0 .. p - 1 |-> Zero] \in [0 .. p - 1 -> G]
      OBVIOUS
    <3>3. 0 .. t - 1 = {}
      BY <2>1
    <3> HIDE DEF ring, G
    <3> QED BY <3>1, <3>2, <3>3 DEF FreshRing
  <2>2. CASE t # 0
    <3>1. RingOf(r, h, p)
      BY <2>2
    <3>2. ring = r
      BY <3>1 DEF Fitted, RingOf
    <3>3. {h[k].x.d : k \in 1 .. t} \cup {Zero} \subseteq G
      <4>1. \A k \in 1 .. t : k \in 1 .. t + 1 /\ g[k].x.d = h[k].x.d
        OBVIOUS
      <4> QED BY <4>1
    <3> HIDE DEF ring, G
    <3>4. r.buf \in [0 .. p - 1 -> G]
      BY <3>1, <3>3 DEF RingOf
    <3>5. r \in [cap : {p}, head : {0}, count : {0}, sum : {Zero}, buf : [0 .. p - 1 -> G]]
      BY <3>1, <3>4 DEF RingOf
    <3> QED BY <3>1, <3>2, <3>5 DEF RingOf
  <2> QED BY <2>1, <2>2
<1> HIDE DEF G, ring
<1>4. ring.cap = p /\ ring.buf \in [0 .. p - 1 -> G]
  BY <1>3
<1>5. s = [ring EXCEPT !.buf = buf]
  BY <1>3, <1>4 DEF ExtremumSensitivity, ring
<1>6. buf \in [0 .. p - 1 -> G]
  BY <1>2, <1>4
<1> HIDE DEF s, buf
<1>7. s = [cap |-> ring.cap, head |-> ring.head, count |-> ring.count, sum |-> ring.sum,
           buf |-> buf]
  BY <1>3, <1>5
<1>8. s \in [cap : {p}, head : {0}, count : {0}, sum : {Zero}, buf : [0 .. p - 1 -> G]]
  BY <1>3, <1>6, <1>7
<1>9. s.buf = buf
  BY <1>7
<1>10. ASSUME NEW j \in 0 .. t, j + p >= t + 1 PROVE s.buf[j % p] = g[j + 1].x.d
  <2>1. CASE j = t
    BY <1>1, <1>4, <1>9, <2>1 DEF buf
  <2>2. CASE j # t
    <3>1. j \in Nat /\ j < t /\ t < j + p /\ j + p >= t /\ j \in 0 .. t - 1
      BY <1>10, <2>2
    <3>2. j % p # at
      BY <3>1, PlacesDiffer
    <3>3. j % p \in 0 .. p - 1
      BY <3>1, DivMod
    <3>4. ring.buf[j % p] = h[j + 1].x.d
      BY <1>3, <3>1
    <3>5. buf[j % p] = ring.buf[j % p]
      BY <1>4, <3>2, <3>3 DEF buf
    <3>6. j + 1 \in 1 .. t
      BY <3>1
    <3> QED BY <1>9, <3>4, <3>5, <3>6
  <2> QED BY <2>1, <2>2
<1>11. 0 .. (t + 1) - 1 = 0 .. t
  OBVIOUS
<1> QED BY <1>8, <1>10, <1>11 DEF RingOf, G, s

\* A tick of rolling_min or rolling_max preserves the invariant.
LEMMA ExtremumStep ==
  ASSUME ExtremaInv, NEW i \in Inputs[node.op], TickExtremum(i)
  PROVE  ExtremaInv'
<1> DEFINE p == node.period
           op == node.op
           V == Samples(op)
           x == i.x.v
<1>1. /\ op \in Extrema /\ node \in Nodes /\ mode \in Modes(op) /\ hist \in Seq(Inputs[op])
  BY DEF ExtremaInv, TickExtremum
<1>2. p \in Nat \ {0}
  BY <1>1, NodeAssumption DEF Extrema, Windows
<1>3. /\ hist' = Append(hist, i) /\ node' = node /\ mode' = mode
      /\ primal' = UpdateDeque(op, primal, n, p, x)
      /\ grad' = IF mode = "lowered" THEN grad ELSE ExtremumSensitivity(grad, n, p, i.x.d)
      /\ out' = Dual(Answer(primal', n, p),
                     IF mode = "lowered" THEN Nan ELSE ActiveGradient(primal', grad', n, p))
  BY DEF TickExtremum, Fed, n
<1>4. /\ IsDoubles(V) /\ n \in Nat /\ x \in V
      /\ \A j \in 0 .. n - 1 : Sample(hist, j) \in V
      /\ hist' \in Seq(Inputs[op]) /\ Extends(hist', hist, n, x)
  BY <1>1, <1>3, HistoryOfDoubles DEF n
<1>5. n' = n + 1 /\ n' - 1 = n /\ n' # 0 /\ Len(hist') = n + 1 /\ Len(hist) = n
  BY <1>4 DEF n, Extends
<1>6. PICK dq \in Deques(p, V) :
        /\ dq.count <= p /\ DequeOf(op, dq, hist, n - p)
        /\ primal' = EvictFront(MonoPushBack(Popped(op, dq, x), n, x), n, p)
  BY <1>1, <1>3, DequeBefore
<1> HIDE DEF p, V
<1>7. /\ primal' \in Deques(p, V) /\ primal'.count \in 1 .. p
      /\ DequeOf(op, primal', hist', n + 1 - p)
  <2> DEFINE e == MonoPushBack(Popped(op, dq, x), n, x)
  <2>1. n - p \in Int /\ n - p <= n
    BY <1>2, <1>4
  <2>2. /\ e \in Deques(p, V) /\ e.count >= 1 /\ Entry(e, e.count - 1).tick = n
        /\ DequeOf(op, e, hist', n - p)
    BY <1>2, <1>4, <1>6, <2>1, PushKeepsDeque
  <2> HIDE DEF e
  <2>3. /\ EvictFront(e, n, p) \in Deques(p, V) /\ EvictFront(e, n, p).count \in 1 .. p
        /\ DequeOf(op, EvictFront(e, n, p), hist', n + 1 - p)
    BY <1>2, <1>4, <1>5, <2>2, EvictKeepsDeque
  <2> QED BY <1>6, <2>3 DEF e
<1>8. ASSUME mode # "lowered" PROVE RingOf(grad', hist', p)
  <2>1. IF n = 0 THEN grad = FreshRing(0) ELSE RingOf(grad, hist, p)
    <3>1. CASE n = 0
      <4>1. grad = SensitivityInit(node)
        BY <1>1, <3>1 DEF ExtremaInv
      <4>2. SensitivityInit(node) = FreshRing(0)
        <5>1. CASE op = "rolling_min"
          BY <5>1, Zenon DEF SensitivityInit, Extrema, Deviations, Pairs, Crosses
        <5>2. CASE op = "rolling_max"
          BY <5>2, Zenon DEF SensitivityInit, Extrema, Deviations, Pairs, Crosses
        <5> QED BY <1>1, <5>1, <5>2 DEF Extrema
      <4> QED BY <3>1, <4>1, <4>2
    <3>2. CASE n # 0
      BY <1>1, <1>8, <3>2 DEF ExtremaInv, Ticked, p
    <3> QED BY <3>1, <3>2
  <2>2. /\ hist'[n + 1] = i /\ \A k \in 1 .. n : hist'[k] = hist[k]
    BY <1>1, <1>3 DEF n
  <2>3. grad' = ExtremumSensitivity(grad, n, p, i.x.d)
    BY <1>3, <1>8 DEF p
  <2> DEFINE h == hist
             g == hist'
             d == i.x.d
             t == n
             r == grad
  <2>4. /\ t \in Nat /\ Len(h) = t /\ Len(g) = t + 1 /\ g[t + 1].x.d = d
        /\ \A k \in 1 .. t : g[k].x.d = h[k].x.d
        /\ IF t = 0 THEN r = FreshRing(0) ELSE RingOf(r, h, p)
    BY <1>4, <1>5, <2>1, <2>2
  <2> HIDE DEF h, g, d, t, r
  <2>5. RingOf(ExtremumSensitivity(r, t, p, d), g, p)
    <3> HIDE DEF op, x
    <3> QED BY <1>2, <2>4, RingStep, Zenon
  <2> QED BY <2>3, <2>5 DEF h, g, d, t, r
<1>9. Ticked'
  <2>1. n' - p = n + 1 - p /\ node'.period = p /\ node'.op = op /\ Samples(node'.op) = V
    <3>1. node' = node
      BY <1>3
    <3>2. node'.period = p /\ node'.op = op
      BY <3>1 DEF p
    <3>3. Samples(node'.op) = V
      BY <3>2 DEF V
    <3>4. n' - p = n + 1 - p
      BY <1>2, <1>4, <1>5
    <3> QED BY <3>2, <3>3, <3>4
  <2>2. out' = Dual(Answer(primal', n' - 1, p),
                    IF mode' = "lowered" THEN Nan ELSE ActiveGradient(primal', grad', n' - 1, p))
    BY <1>3, <1>5 DEF p
  <2>3. DequeOf(op, primal', hist', n' - p)
    BY <1>7, <2>1
  <2>4. mode' # "lowered" => RingOf(grad', hist', p)
    BY <1>3, <1>8
  <2> QED BY <1>7, <2>1, <2>2, <2>3, <2>4 DEF Ticked
<1> QED BY <1>1, <1>3, <1>4, <1>5, <1>9 DEF ExtremaInv

\* A call is always one of the program's, with one number of ticks behind it,
\* and starts from an untouched or a prewarmed deque.
LEMMA ExtremaInit == Init => ExtremaInv
<1> SUFFICES ASSUME Init, node.op \in Extrema PROVE ExtremaInv
  BY DEF ExtremaInv
<1>1. hist \in Seq(Inputs[node.op]) /\ n = 0
  BY DEF Init, n
<1> QED BY <1>1 DEF Init, ExtremaInv

\* The deque of every rolling_min and rolling_max is, at all times, one of
\* its history.
THEOREM ExtremaInvariance == Spec => []ExtremaInv
<1>1. ExtremaInv /\ [Next]_vars => ExtremaInv'
  <2> SUFFICES ASSUME ExtremaInv, [Next]_vars PROVE ExtremaInv'
    OBVIOUS
  <2>1. CASE UNCHANGED vars
    BY <2>1 DEF vars, ExtremaInv, Ticked, n
  <2>2. CASE node.op \in Extrema /\ Next
    <3>1. PICK i \in Inputs[node.op] :
            \/ TickLag(i) \/ TickSma(i) \/ TickDeviation(i) \/ TickPair(i)
            \/ TickEma(i) \/ TickKalman(i) \/ TickExtremum(i) \/ TickCross(i)
      BY <2>2 DEF Next
    <3>2. TickExtremum(i)
      BY <2>2, <3>1 DEF TickLag, TickSma, TickDeviation, TickPair, TickEma, TickKalman,
                        TickCross, Extrema, Deviations, Pairs, Crosses
    <3> QED BY <3>2, ExtremumStep
  <2>3. CASE node.op \notin Extrema /\ Next
    <3>1. node' = node
      BY <2>3 DEF Next, TickLag, TickSma, TickDeviation, TickPair, TickEma, TickKalman,
                  TickExtremum, TickCross, Fed
    <3> QED BY <2>3, <3>1 DEF ExtremaInv
  <2> QED BY <2>1, <2>2, <2>3
<1> QED BY ExtremaInit, <1>1, PTL DEF Spec

\* There is always room for the push that precedes the eviction, so that it
\* never overwrites the front, and the entries stay in order of age and of
\* value: for every period, not only the small ones.
THEOREM DequeHasRoom == Spec => []DequeInv
<1>1. ExtremaInv => DequeInv
  <2> SUFFICES ASSUME ExtremaInv, node.op \in Extrema
               PROVE  /\ RoomForPush(primal)
                      /\ IF node.op = "rolling_min" THEN SortedBy(primal, GE)
                                                    ELSE SortedBy(primal, LE)
    BY DEF DequeInv
  <2> DEFINE p == node.period
             op == node.op
  <2>1. /\ node \in Nodes /\ hist \in Seq(Inputs[op])
        /\ mode \in {"interp", "compiled", "lowered"}
        /\ op \in {"rolling_min", "rolling_max"}
    BY DEF ExtremaInv, Modes, Extrema
  <2>2. p \in Nat \ {0}
    BY <2>1, NodeAssumption DEF Extrema, Windows
  <2>3. CASE n = 0
    <3>1. primal = PrimalInit(node, mode) /\ hist = << >>
      BY <2>1, <2>3 DEF ExtremaInv, n
    <3>2. primal \in {EmptyDeque(0), EmptyDeque(p + 1)}
      <4>1. CASE op = "rolling_min" /\ mode = "interp"
        BY <3>1, <4>1, Zenon DEF PrimalInit, Extrema, Deviations, Pairs, Crosses
      <4>2. CASE op = "rolling_max" /\ mode = "interp"
        BY <3>1, <4>2, Zenon DEF PrimalInit, Extrema, Deviations, Pairs, Crosses
      <4>3. CASE op = "rolling_min" /\ mode # "interp"
        BY <3>1, <4>3, Zenon DEF PrimalInit, Extrema, Deviations, Pairs, Crosses
      <4>4. CASE op = "rolling_max" /\ mode # "interp"
        BY <3>1, <4>4, Zenon DEF PrimalInit, Extrema, Deviations, Pairs, Crosses
      <4> QED BY <2>1, <4>1, <4>2, <4>3, <4>4
    <3>3. primal.count = 0 /\ primal.head = 0 /\ primal.cap \in {0, p + 1}
      BY <3>2 DEF EmptyDeque
    <3>4. 1 .. primal.count - 1 = {}
      BY <3>3
    <3> QED BY <2>2, <3>1, <3>3, <3>4 DEF RoomForPush, SortedBy
  <2>4. CASE n # 0
    <3>1. /\ primal \in Deques(p, Samples(op)) /\ primal.count \in 1 .. p
          /\ InOrder(primal) /\ NextPopsNot(op, primal)
      BY <2>4 DEF ExtremaInv, Ticked, DequeOf
    <3>2. RoomForPush(primal)
      BY <2>2, <3>1, DequeParts DEF RoomForPush
    <3> DEFINE c == primal.count
    <3>3. ASSUME NEW k \in 1 .. c - 1
          PROVE  /\ Entry(primal, k - 1).tick < Entry(primal, k).tick
                 /\ ~Beats(op, Entry(primal, k).val, Entry(primal, k - 1).val)
      <4>1. k - 1 \in 0 .. c - 1 /\ k \in 0 .. c - 1 /\ k - 1 < k
        BY <2>2, <3>1
      <4> QED BY <3>1, <4>1 DEF InOrder, NextPopsNot
    <3>4. CASE op = "rolling_min"
      BY <3>2, <3>3, <3>4 DEF SortedBy, Beats, GE
    <3>5. CASE op # "rolling_min"
      BY <3>2, <3>3, <3>5 DEF SortedBy, Beats, LE
    <3> QED BY <3>4, <3>5
  <2> QED BY <2>3, <2>4
<1> QED BY ExtremaInvariance, <1>1, PTL

\* The last m terms of a sequence.
LEMMA LastTerms ==
  ASSUME NEW S, NEW s \in Seq(S), NEW m \in Nat \ {0}, m <= Len(s)
  PROVE  LET w == SubSeq(s, Len(s) - m + 1, Len(s))
         IN  DOMAIN w = 1 .. m /\ \A k \in 1 .. m : w[k] = s[(Len(s) - m + 1) + k - 1]
<1> DEFINE l == Len(s)
           w == SubSeq(s, l - m + 1, l)
<1>1. l \in Nat /\ m <= l
  OBVIOUS
<1>2. Len(w) = m
  BY <1>1
<1>3. DOMAIN w = 1 .. m
  BY <1>1, <1>2
<1>4. \A k \in 1 .. m : w[k] = s[(l - m + 1) + k - 1]
  BY <1>1
<1> QED BY <1>3, <1>4

\* The window is the last `period' operands, and it shows no NaN if its ticks
\* are numbers.
LEMMA WindowTicks ==
  ASSUME NEW p \in Nat \ {0}, p = node.period, p <= n, hist \in Seq(Inputs[node.op])
  PROVE  /\ \A k \in 1 .. p : Window[k] = hist[n - p + k]
         /\ ~Seen(Window, Nan) => Clean(hist, n - p, n - 1)
<1> DEFINE w == SubSeq(hist, n - p + 1, n)
<1>0. n \in Nat /\ Window = w
  BY DEF n, Window
<1>1. DOMAIN w = 1 .. p /\ \A k \in 1 .. p : w[k] = hist[(n - p + 1) + k - 1]
  <2>1. hist \in Seq(Inputs[node.op]) /\ n = Len(hist) /\ p <= Len(hist)
    BY DEF n
  <2> DEFINE v == SubSeq(hist, Len(hist) - p + 1, Len(hist))
  <2>2. DOMAIN v = 1 .. p /\ \A k \in 1 .. p : v[k] = hist[(Len(hist) - p + 1) + k - 1]
    BY <2>1, LastTerms, SMTT(30)
  <2>3. w = v
    BY <2>1
  <2> HIDE DEF w, v
  <2> QED BY <2>1, <2>2, <2>3
<1> HIDE DEF w
<1>2. \A k \in 1 .. p : (n - p + 1) + k - 1 = n - p + k
  BY <1>0
<1>3. \A k \in 1 .. p : w[k] = hist[n - p + k]
  BY <1>1, <1>2
<1>4. ASSUME ~Seen(w, Nan), NEW i \in n - p .. n - 1 PROVE Sample(hist, i) # Nan
  <2>1. i - (n - p) + 1 \in 1 .. p /\ n - p + (i - (n - p) + 1) = i + 1
    BY <1>0
  <2>2. w[i - (n - p) + 1].x.v # Nan
    BY <1>1, <1>4, <2>1 DEF Seen
  <2> QED BY <1>3, <2>1, <2>2 DEF Sample
<1> QED BY <1>0, <1>3, <1>4 DEF Clean

\* In every window without NaN, rolling_min and rolling_max return the
\* extremum of the window, in the runtime and lowered, and the derivative of
\* the latest sample that has it: for every period and every stream, whatever
\* came before the window.
THEOREM ExtremaAlwaysOfWindow == Spec => []ExtremaOfWindow
<1>1. ExtremaInv => ExtremaOfWindow
  <2> DEFINE p == node.period
             op == node.op
             V == Samples(op)
             f == Entry(primal, 0).tick
             beats(a, b) == IF op = "rolling_min" THEN LE(a, b) ELSE GE(a, b)
             best == {k \in 1 .. p : \A j \in 1 .. p : beats(Window[k].x.v, Window[j].x.v)}
             last == CHOOSE k \in best : \A j \in best : j <= k
  <2> SUFFICES ASSUME ExtremaInv, op \in Extrema, n > 0, Full, ~Seen(Window, Nan)
               PROVE  /\ out.v = Window[last].x.v
                      /\ mode # "lowered" => out.d = Window[last].x.d
    BY Zenon DEF ExtremaOfWindow
  <2>1. node \in Nodes /\ hist \in Seq(Inputs[op])
    BY DEF ExtremaInv
  <2>2. p \in Nat \ {0}
    BY <2>1, NodeAssumption DEF Extrema, Windows
  <2>3. n \in Nat /\ Len(hist) = n /\ p <= n
    BY <2>1, <2>2 DEF n, Full
  <2>4. IsDoubles(V) /\ \A j \in 0 .. n - 1 : Sample(hist, j) \in V
    BY <2>1, <2>3, HistoryOfDoubles
  <2>5. Ticked
    BY <2>3 DEF ExtremaInv
  <2>6. /\ primal \in Deques(p, V) /\ primal.count >= 1 /\ DequeOf(op, primal, hist, n - p)
        /\ mode # "lowered" => RingOf(grad, hist, p)
        /\ out = Dual(Answer(primal, n - 1, p),
                      IF mode = "lowered" THEN Nan ELSE ActiveGradient(primal, grad, n - 1, p))
    BY <2>2, <2>5 DEF Ticked
  <2>7. /\ \A k \in 1 .. p : Window[k] = hist[n - p + k]
        /\ Clean(hist, n - p, n - 1)
    BY <2>1, <2>2, <2>3, WindowTicks
  <2>8. /\ f \in n - p .. n - 1 /\ Entry(primal, 0).val = Sample(hist, f)
        /\ \A j \in n - p .. n - 1 : Beats(op, Sample(hist, f), Sample(hist, j))
        /\ \A j \in f + 1 .. n - 1 : ~Beats(op, Sample(hist, j), Sample(hist, f))
    BY <2>2, <2>3, <2>4, <2>6, <2>7, FrontIsExtremum
  <2>9. MonoFront(primal) = Entry(primal, 0)
    BY <2>2, <2>6, FrontIsFirst
  <2>10. \A a, b : beats(a, b) <=> Beats(op, a, b)
    BY DEF Beats, LE, GE
  <2> HIDE DEF p, op, V, f, beats
  <2> DEFINE at == f - (n - p) + 1
  <2>11. at \in 1 .. p /\ n - p + at = f + 1
    BY <2>2, <2>3, <2>8
  <2>12. Window[at] = hist[f + 1] /\ Window[at].x.v = Sample(hist, f)
    BY <2>7, <2>11 DEF Sample
  <2> DEFINE tick(k) == n - p + k - 1
             val(k) == Sample(hist, tick(k))
  <2>13. \A k \in 1 .. p : /\ tick(k) \in n - p .. n - 1
                           /\ Window[k].x.v = val(k)
                           /\ k > at => tick(k) \in f + 1 .. n - 1
    <3> SUFFICES ASSUME NEW k \in 1 .. p
                 PROVE  /\ tick(k) \in n - p .. n - 1
                        /\ Window[k].x.v = val(k)
                        /\ k > at => tick(k) \in f + 1 .. n - 1
      OBVIOUS
    <3>1. tick(k) \in n - p .. n - 1 /\ tick(k) + 1 = n - p + k
      BY <2>2, <2>3
    <3>2. k > at => tick(k) \in f + 1 .. n - 1
      BY <2>2, <2>3, <2>8
    <3>3. Window[k].x.v = val(k)
      BY <2>7, <3>1 DEF Sample
    <3> QED BY <3>1, <3>2, <3>3
  <2> HIDE DEF at, tick
  <2>14. \A k \in 1 .. p : /\ Beats(op, Window[at].x.v, val(k))
                           /\ k > at => ~Beats(op, val(k), Window[at].x.v)
    <3> SUFFICES ASSUME NEW k \in 1 .. p
                 PROVE  /\ Beats(op, Window[at].x.v, val(k))
                        /\ k > at => ~Beats(op, val(k), Window[at].x.v)
      OBVIOUS
    <3>1. tick(k) \in n - p .. n - 1 /\ (k > at => tick(k) \in f + 1 .. n - 1)
      BY <2>13, Zenon
    <3>2. Beats(op, Sample(hist, f), Sample(hist, tick(k)))
      BY <2>8, <3>1, Zenon
    <3>3. k > at => ~Beats(op, Sample(hist, tick(k)), Sample(hist, f))
      BY <2>8, <3>1, Zenon
    <3> QED BY <2>12, <3>2, <3>3, Zenon
  <2> HIDE DEF val
  <2>15. at \in best /\ \A j \in best : j <= at
    <3>1. \A j \in 1 .. p : beats(Window[at].x.v, Window[j].x.v)
      BY <2>10, <2>13, <2>14
    <3>2. \A j \in 1 .. p : beats(Window[j].x.v, Window[at].x.v) => ~(j > at)
      BY <2>10, <2>13, <2>14
    <3>3. at \in best
      BY <2>11, <3>1
    <3>4. ASSUME NEW j \in best PROVE j <= at
      <4>1. j \in 1 .. p /\ ~(j > at)
        BY <2>11, <3>2
      <4> QED BY <2>2, <2>11, <4>1
    <3> QED BY <3>3, <3>4
  <2>16. best \subseteq Int
    BY <2>2
  <2> HIDE DEF best
  <2>17. last = at
    <3>1. last \in best /\ \A j \in best : j <= last
      BY <2>15
    <3> HIDE DEF last
    <3> QED BY <2>15, <2>16, <3>1
  <2>18. ~(n - 1 + 1 < p)
    BY <2>2, <2>3
  <2>19. out.v = Window[last].x.v
    <3>1. out.v = Answer(primal, n - 1, p)
      BY <2>6 DEF Dual
    <3> QED BY <2>8, <2>9, <2>12, <2>17, <2>18, <3>1 DEF Answer
  <2>20. ASSUME mode # "lowered" PROVE out.d = Window[last].x.d
    <3>1. out.d = ActiveGradient(primal, grad, n - 1, p)
      BY <2>6, <2>20 DEF Dual
    <3>2. out.d = grad.buf[f % p]
      BY <2>9, <2>18, <3>1 DEF ActiveGradient, f
    <3>3. f \in 0 .. n - 1 /\ f + p >= n
      BY <2>2, <2>3, <2>8
    <3>4. grad.buf[f % p] = hist[f + 1].x.d
      BY <2>3, <2>6, <2>20, <3>3 DEF RingOf
    <3> QED BY <2>12, <2>17, <3>2, <3>4
  <2> QED BY <2>19, <2>20
<1> QED BY ExtremaInvariance, <1>1, PTL

-----------------------------------------------------------------------------
(* Dual numbers *)

\* A value and a derivative that are numbers.
IsDual(x) == x = Dual(x.v, x.d) /\ IsNumber(x.v) /\ IsNumber(x.d)

\* The numbers of the assumptions are those of the lemmas on arithmetic.
LEMMA RealNumber ==
  ASSUME NEW a, IsReal(a)
  PROVE  IsNumber(a)
<1>1. Is(a, a[1], a[2])
  BY DEF IsReal, Is
<1> QED BY <1>1 DEF IsNumber

\* The same of duals.
LEMMA RealIsDual ==
  ASSUME NEW x, RealDual(x)
  PROVE  IsDual(x)
BY RealNumber DEF RealDual, IsDual

\* A pair of numbers makes a dual.
LEMMA DualOf ==
  ASSUME NEW a, NEW b, IsNumber(a), IsNumber(b)
  PROVE  IsDual(Dual(a, b)) /\ Dual(a, b).v = a /\ Dual(a, b).d = b
BY DEF IsDual, Dual

\* Duals are equal when both parts are.
LEMMA DualEqual ==
  ASSUME NEW x, NEW y, IsDual(x), IsDual(y), x.v = y.v, x.d = y.d
  PROVE  x = y
BY DEF IsDual

\* What the operations on duals are made of.
LEMMA DualParts ==
  ASSUME NEW x, NEW y
  PROVE  /\ DAdd(x, y).v = FAdd(x.v, y.v) /\ DAdd(x, y).d = FAdd(x.d, y.d)
         /\ DSub(x, y).v = FSub(x.v, y.v) /\ DSub(x, y).d = FSub(x.d, y.d)
         /\ DMul(x, y).v = FMul(x.v, y.v)
         /\ DMul(x, y).d = FAdd(FMul(x.d, y.v), FMul(x.v, y.d))
BY DEF DAdd, DSub, DMul, Dual

\* Duals are closed under the operations.
LEMMA DualClosed ==
  ASSUME NEW x, NEW y, IsDual(x), IsDual(y)
  PROVE  IsDual(DAdd(x, y)) /\ IsDual(DSub(x, y)) /\ IsDual(DMul(x, y))
<1>1. IsNumber(x.v) /\ IsNumber(x.d) /\ IsNumber(y.v) /\ IsNumber(y.d)
  BY DEF IsDual
<1>2. IsNumber(FAdd(x.v, y.v)) /\ IsNumber(FAdd(x.d, y.d))
  BY <1>1, NumberClosed
<1>3. IsNumber(FSub(x.v, y.v)) /\ IsNumber(FSub(x.d, y.d))
  BY <1>1, NumberClosed
<1>4. IsNumber(FMul(x.v, y.v)) /\ IsNumber(FMul(x.d, y.v)) /\ IsNumber(FMul(x.v, y.d))
  BY <1>1, NumberClosed
<1>5. IsNumber(FAdd(FMul(x.d, y.v), FMul(x.v, y.d)))
  BY <1>4, NumberClosed
<1> QED BY <1>2, <1>3, <1>4, <1>5, DualOf DEF DAdd, DSub, DMul

\* The constants 0 and 1.
LEMMA Constants ==
  IsNumber(Zero) /\ IsNumber(One) /\ IsDual(DOne) /\ DOne.v = One /\ DOne.d = Zero
<1>1. IsNumber(Zero) /\ IsNumber(One)
  BY WholeNumber DEF Zero, One
<1> QED BY <1>1, DualOf DEF DOne

\* Nothing is left of a product with 0.
LEMMA Annihilates ==
  ASSUME NEW c, IsNumber(c)
  PROVE  FMul(Zero, c) = Zero /\ FMul(c, Zero) = Zero
<1>1. PICK m, e : Is(c, m, e)
  BY DEF IsNumber
<1>2. Is(Zero, 0, 1)
  BY WholeIs DEF Zero
<1>3. Is(FMul(Zero, c), 0 * m, 1 * e)
  BY <1>1, <1>2, Product
<1>4. m \in Int /\ e \in Int
  BY <1>1 DEF Is
<1>5. (0 * m) * 1 = 0 * (1 * e)
  BY <1>4
<1>6. FMul(Zero, c) = Zero
  BY <1>2, <1>3, <1>5, Same
<1>7. IsNumber(Zero)
  BY Constants
<1> QED BY <1>6, <1>7, Commutes

\* The product of duals with 1.
LEMMA DualUnit ==
  ASSUME NEW x, IsDual(x)
  PROVE  DMul(x, DOne) = x /\ DMul(DOne, x) = x
<1>1. IsNumber(x.v) /\ IsNumber(x.d) /\ x = Dual(x.v, x.d)
  BY DEF IsDual
<1>2. /\ FMul(x.v, One) = x.v /\ FMul(One, x.v) = x.v
      /\ FMul(x.d, One) = x.d /\ FMul(One, x.d) = x.d
  BY <1>1, Units DEF One
<1>3. FMul(x.v, Zero) = Zero /\ FMul(Zero, x.v) = Zero
  BY <1>1, Annihilates
<1>4. FAdd(x.d, Zero) = x.d /\ FAdd(Zero, x.d) = x.d
  BY <1>1, Units DEF Zero
<1> QED BY <1>1, <1>2, <1>3, <1>4, Constants DEF DMul

\* Products of duals in any order.
LEMMA DualCommutes ==
  ASSUME NEW x, NEW y, IsDual(x), IsDual(y)
  PROVE  DMul(x, y) = DMul(y, x)
<1>1. IsNumber(x.v) /\ IsNumber(x.d) /\ IsNumber(y.v) /\ IsNumber(y.d)
  BY DEF IsDual
<1>2. /\ FMul(x.v, y.v) = FMul(y.v, x.v) /\ FMul(x.d, y.v) = FMul(y.v, x.d)
      /\ FMul(x.v, y.d) = FMul(y.d, x.v)
  BY <1>1, Commutes
<1>3. IsNumber(FMul(x.d, y.v)) /\ IsNumber(FMul(x.v, y.d))
  BY <1>1, NumberClosed
<1>4. FAdd(FMul(x.d, y.v), FMul(x.v, y.d)) = FAdd(FMul(x.v, y.d), FMul(x.d, y.v))
  BY <1>3, Commutes
<1> QED BY <1>2, <1>4 DEF DMul

\* A product of three duals.
LEMMA DualAssociates ==
  ASSUME NEW x, NEW y, NEW z, IsDual(x), IsDual(y), IsDual(z)
  PROVE  DMul(x, DMul(y, z)) = DMul(DMul(x, y), z)
<1> DEFINE a == x.v
           b == y.v
           c == z.v
           p == x.d
           q == y.d
           r == z.d
<1>1. IsNumber(a) /\ IsNumber(b) /\ IsNumber(c) /\ IsNumber(p) /\ IsNumber(q) /\ IsNumber(r)
  BY DEF IsDual
<1>2. DMul(x, DMul(y, z)) =
        Dual(FMul(a, FMul(b, c)), FAdd(FMul(p, FMul(b, c)),
                                       FMul(a, FAdd(FMul(q, c), FMul(b, r)))))
  BY DEF DMul, Dual
<1>3. DMul(DMul(x, y), z) =
        Dual(FMul(FMul(a, b), c), FAdd(FMul(FAdd(FMul(p, b), FMul(a, q)), c),
                                       FMul(FMul(a, b), r)))
  BY DEF DMul, Dual
<1> HIDE DEF a, b, c, p, q, r
<1>4. FMul(a, FMul(b, c)) = FMul(FMul(a, b), c)
  BY <1>1, Associates
<1>5. /\ IsNumber(FMul(q, c)) /\ IsNumber(FMul(b, r)) /\ IsNumber(FMul(p, b))
      /\ IsNumber(FMul(a, q))
  BY <1>1, NumberClosed
<1>6. FMul(a, FAdd(FMul(q, c), FMul(b, r))) = FAdd(FMul(FMul(a, q), c), FMul(FMul(a, b), r))
  <2> DEFINE u == FMul(q, c)
             w == FMul(b, r)
  <2>1. IsNumber(u) /\ IsNumber(w) /\ IsNumber(FAdd(u, w))
    BY <1>5, NumberClosed
  <2>2. FMul(a, u) = FMul(FMul(a, q), c) /\ FMul(a, w) = FMul(FMul(a, b), r)
    BY <1>1, Associates
  <2> HIDE DEF u, w
  <2>3. /\ FMul(a, FAdd(u, w)) = FMul(FAdd(u, w), a)
        /\ FMul(a, u) = FMul(u, a) /\ FMul(a, w) = FMul(w, a)
    BY <1>1, <2>1, Commutes
  <2>4. FMul(FAdd(u, w), a) = FAdd(FMul(u, a), FMul(w, a))
    BY <1>1, <2>1, Distributes
  <2>5. FMul(a, FAdd(u, w)) = FAdd(FMul(FMul(a, q), c), FMul(FMul(a, b), r))
    BY <2>2, <2>3, <2>4
  <2> QED BY <2>5 DEF u, w
<1>7. FMul(FAdd(FMul(p, b), FMul(a, q)), c) = FAdd(FMul(FMul(p, b), c), FMul(FMul(a, q), c))
  BY <1>1, <1>5, Distributes
<1>8. FMul(p, FMul(b, c)) = FMul(FMul(p, b), c)
  BY <1>1, Associates
<1> DEFINE u == FMul(FMul(p, b), c)
           v == FMul(FMul(a, q), c)
           w == FMul(FMul(a, b), r)
<1>9. IsNumber(u) /\ IsNumber(v) /\ IsNumber(w)
  <2>1. IsNumber(FMul(a, b))
    BY <1>1, NumberClosed
  <2> QED BY <1>1, <1>5, <2>1, NumberClosed
<1>10. FAdd(u, FAdd(v, w)) = FAdd(FAdd(u, v), w)
  <2> HIDE DEF u, v, w
  <2> QED BY <1>9, Associates
<1> QED BY <1>2, <1>3, <1>4, <1>6, <1>7, <1>8, <1>10

-----------------------------------------------------------------------------
(* Sums and powers of duals *)

\* The parts of m duals, and their sum.
Values(f, m) == [k \in 1 .. m |-> f[k].v]
Slopes(f, m) == [k \in 1 .. m |-> f[k].d]
SumOf(f, m) == Dual(Fold("+", Values(f, m), 1, m), Fold("+", Slopes(f, m), 1, m))
Duals(f, m) == \A k \in 1 .. m : IsDual(f[k])

\* The parts of duals are numbers.
LEMMA PartNumbers ==
  ASSUME NEW f, NEW m, Duals(f, m)
  PROVE  Numbers(Values(f, m), 1, m) /\ Numbers(Slopes(f, m), 1, m)
BY DEF Duals, IsDual, Numbers, Values, Slopes

\* A sum of duals is a dual.
LEMMA SumIsDual ==
  ASSUME NEW f, NEW m \in Nat, Duals(f, m)
  PROVE  IsDual(SumOf(f, m))
<1>1. Numbers(Values(f, m), 1, m) /\ Numbers(Slopes(f, m), 1, m)
  BY PartNumbers
<1>2. 1 \in Nat \ {0}
  OBVIOUS
<1>3. IsNumber(Fold("+", Values(f, m), 1, m)) /\ IsNumber(Fold("+", Slopes(f, m), 1, m))
  BY <1>1, <1>2, FoldNumber
<1> QED BY <1>3, DualOf DEF SumOf

\* A common factor of duals.
LEMMA DualSumScales ==
  ASSUME NEW f, NEW g, NEW c, NEW m \in Nat, IsDual(c), Duals(f, m),
         \A k \in 1 .. m : g[k] = DMul(f[k], c)
  PROVE  SumOf(g, m) = DMul(SumOf(f, m), c)
<1> DEFINE fv == Values(f, m)
           fd == Slopes(f, m)
           gv == Values(g, m)
           gd == Slopes(g, m)
           p == [k \in 1 .. m |-> FMul(fd[k], c.v)]
           q == [k \in 1 .. m |-> FMul(fv[k], c.d)]
           S(h) == Fold("+", h, 1, m)
<1>1. Numbers(fv, 1, m) /\ Numbers(fd, 1, m) /\ IsNumber(c.v) /\ IsNumber(c.d)
  BY PartNumbers DEF IsDual
<1>2. \A k \in 1 .. m : /\ gv[k] = FMul(fv[k], c.v)
                        /\ gd[k] = FAdd(FMul(fd[k], c.v), FMul(fv[k], c.d))
  BY DualParts DEF Values, Slopes
<1>3. \A k \in 1 .. m : p[k] = FMul(fd[k], c.v) /\ q[k] = FMul(fv[k], c.d)
  OBVIOUS
<1>4. Numbers(p, 1, m) /\ Numbers(q, 1, m)
  <2> HIDE DEF p, q, fv, fd
  <2> SUFFICES ASSUME NEW k \in 1 .. m PROVE IsNumber(p[k]) /\ IsNumber(q[k])
    BY DEF Numbers
  <2>1. IsNumber(fd[k]) /\ IsNumber(fv[k])
    BY <1>1 DEF Numbers
  <2> QED BY <1>1, <1>3, <2>1, NumberClosed
<1> HIDE DEF p, q, fv, fd, gv, gd
<1>5. S(gv) = FMul(S(fv), c.v)
  BY <1>1, <1>2, SumScales
<1>6. S(p) = FMul(S(fd), c.v)
  BY <1>1, <1>3, SumScales
<1>7. S(q) = FMul(S(fv), c.d)
  BY <1>1, <1>3, SumScales
<1>8. \A k \in 1 .. m : gd[k] = FAdd(p[k], q[k])
  BY <1>2, <1>3
<1>9. S(gd) = FAdd(S(p), S(q))
  BY <1>4, <1>8, SumAdds
<1>10. SumOf(g, m) = Dual(S(gv), S(gd)) /\ SumOf(f, m) = Dual(S(fv), S(fd))
  BY DEF SumOf, gv, gd, fv, fd
<1> HIDE DEF S
<1>11. DMul(Dual(S(fv), S(fd)), c) =
         Dual(FMul(S(fv), c.v), FAdd(FMul(S(fd), c.v), FMul(S(fv), c.d)))
  BY DEF DMul, Dual
<1> QED BY <1>5, <1>6, <1>7, <1>9, <1>10, <1>11

\* One more dual.
LEMMA DualSumNext ==
  ASSUME NEW f, NEW m \in Nat
  PROVE  SumOf(f, m + 1) = DAdd(SumOf(f, m), f[m + 1])
<1> DEFINE M == m + 1
           V == Values(f, M)
           D == Slopes(f, M)
<1>1. 1 \in Nat \ {0} /\ 1 <= m + 1 /\ M \in 1 .. M
  OBVIOUS
<1>2. /\ Fold("+", V, 1, m + 1) = FAdd(Fold("+", V, 1, m), V[m + 1])
      /\ Fold("+", D, 1, m + 1) = FAdd(Fold("+", D, 1, m), D[m + 1])
  BY <1>1, FoldNext DEF Join
<1>3. V[M] = f[M].v /\ D[M] = f[M].d
  BY <1>1 DEF Values, Slopes
<1>4. \A k \in 1 .. m : V[k] = Values(f, m)[k] /\ D[k] = Slopes(f, m)[k]
  BY DEF Values, Slopes
<1> HIDE DEF V, D
<1>5. /\ Fold("+", V, 1, m) = Fold("+", Values(f, m), 1, m)
      /\ Fold("+", D, 1, m) = Fold("+", Slopes(f, m), 1, m)
  BY <1>1, <1>4, FoldSame
<1>6. SumOf(f, M) = Dual(Fold("+", V, 1, M), Fold("+", D, 1, M))
  BY DEF SumOf, V, D
<1> DEFINE A == Fold("+", Values(f, m), 1, m)
           B == Fold("+", Slopes(f, m), 1, m)
<1>7. SumOf(f, M) = Dual(FAdd(A, f[M].v), FAdd(B, f[M].d))
  BY <1>2, <1>3, <1>5, <1>6
<1>8. SumOf(f, m) = Dual(A, B)
  BY DEF SumOf
<1> HIDE DEF A, B, M
<1>9. DAdd(Dual(A, B), f[M]) = Dual(FAdd(A, f[M].v), FAdd(B, f[M].d))
  BY DEF DAdd, Dual
<1>10. SumOf(f, M) = DAdd(SumOf(f, m), f[M])
  BY <1>7, <1>8, <1>9
<1> QED BY <1>10 DEF M

\* One element.
LEMMA DualSumOne ==
  ASSUME NEW f, IsDual(f[1])
  PROVE  SumOf(f, 1) = f[1]
<1>1. 0 < 1 /\ 0 \in Nat /\ 1 \in Nat \ {0} /\ 0 + 1 = 1
  OBVIOUS
<1>2. SumOf(f, 0) = Dual(Zero, Zero)
  BY <1>1, FoldSteps DEF SumOf, Unit, Zero
<1>3. SumOf(f, 0 + 1) = DAdd(SumOf(f, 0), f[0 + 1])
  BY <1>1, DualSumNext
<1>4. SumOf(f, 1) = DAdd(Dual(Zero, Zero), f[1])
  BY <1>1, <1>2, <1>3
<1>5. FAdd(Zero, f[1].v) = f[1].v /\ FAdd(Zero, f[1].d) = f[1].d
  BY Units DEF IsDual, Zero
<1>6. DAdd(Dual(Zero, Zero), f[1]) = Dual(FAdd(Zero, f[1].v), FAdd(Zero, f[1].d))
  BY DEF DAdd, Dual
<1>7. f[1] = Dual(f[1].v, f[1].d)
  BY DEF IsDual
<1> QED BY <1>4, <1>5, <1>6, <1>7

\* The 0-th power, and one more factor.
LEMMA PowerSteps ==
  ASSUME NEW a, NEW m \in Nat
  PROVE  Power(a, 0) = One /\ Power(a, m + 1) = FMul(Power(a, m), a)
<1> DEFINE f(k) == [i \in 1 .. k |-> a]
<1>1. 0 < 1 /\ 0 \in Nat /\ 1 \in Nat \ {0} /\ 1 <= m + 1 /\ m + 1 \in 1 .. m + 1
  OBVIOUS
<1>2. Fold("*", f(0), 1, 0) = One
  BY <1>1, FoldSteps DEF Unit, One
<1>3. \A k \in 1 .. m : f(m + 1)[k] = f(m)[k]
  OBVIOUS
<1>4. f(m + 1)[m + 1] = a
  BY <1>1
<1> HIDE DEF f
<1>5. Fold("*", f(m + 1), 1, m + 1) = FMul(Fold("*", f(m + 1), 1, m), f(m + 1)[m + 1])
  BY <1>1, FoldNext DEF Join
<1>6. Fold("*", f(m + 1), 1, m) = Fold("*", f(m), 1, m)
  BY <1>1, <1>3, FoldSame
<1> QED BY <1>2, <1>4, <1>5, <1>6 DEF Power, f

\* Powers of numbers are numbers.
LEMMA PowerNumber ==
  ASSUME NEW a, IsNumber(a), NEW m \in Nat
  PROVE  IsNumber(Power(a, m))
<1> DEFINE f == [i \in 1 .. m |-> a]
<1>1. Numbers(f, 1, m)
  BY DEF Numbers
<1>2. 1 \in Nat \ {0}
  OBVIOUS
<1>3. IsNumber(Fold("*", f, 1, m))
  <2> HIDE DEF f
  <2> QED BY <1>1, <1>2, FoldNumber
<1> QED BY <1>3 DEF Power

\* The derivative of a power is a number.
LEMMA PowerIsDual ==
  ASSUME NEW a, IsDual(a), NEW m \in Nat
  PROVE  IsDual(DPower(a, m)) /\ DPower(a, m).v = Power(a.v, m)
<1>1. IsNumber(a.v) /\ IsNumber(a.d) /\ IsNumber(Power(a.v, m)) /\ IsNumber(Zero)
  BY PowerNumber, Constants DEF IsDual
<1> DEFINE d == IF m = 0 THEN Zero ELSE FMul(Whole(m), FMul(Power(a.v, m - 1), a.d))
<1>2. IsNumber(d)
  <2>1. CASE m = 0
    BY <1>1, <2>1
  <2>2. CASE m # 0
    <3>1. m - 1 \in Nat
      BY <2>2
    <3>2. IsNumber(Power(a.v, m - 1)) /\ IsNumber(Whole(m))
      BY <1>1, <3>1, PowerNumber, WholeNumber
    <3>3. IsNumber(FMul(Power(a.v, m - 1), a.d))
      BY <1>1, <3>2, NumberClosed
    <3>4. IsNumber(FMul(Whole(m), FMul(Power(a.v, m - 1), a.d)))
      BY <3>2, <3>3, NumberClosed
    <3> QED BY <2>2, <3>4
  <2> QED BY <2>1, <2>2
<1>3. DPower(a, m) = Dual(Power(a.v, m), d)
  BY DEF DPower
<1> HIDE DEF d
<1> QED BY <1>1, <1>2, <1>3, DualOf

\* m x + x.
LEMMA OneMoreTimes ==
  ASSUME NEW x, IsNumber(x), NEW m \in Nat
  PROVE  FAdd(FMul(Whole(m), x), x) = FMul(Whole(m + 1), x)
<1>1. IsNumber(Whole(m)) /\ IsNumber(Whole(1))
  BY WholeNumber
<1>2. FAdd(Whole(m), Whole(1)) = Whole(m + 1)
  <2>1. Is(Whole(m), m, 1) /\ Is(Whole(1), 1, 1) /\ Is(Whole(m + 1), m + 1, 1)
    BY WholeIs
  <2>2. Is(FAdd(Whole(m), Whole(1)), m * 1 + 1 * 1, 1 * 1)
    BY <2>1, Sum
  <2>3. (m * 1 + 1 * 1) * 1 = (m + 1) * (1 * 1)
    OBVIOUS
  <2> QED BY <2>1, <2>2, <2>3, Same
<1>3. FMul(FAdd(Whole(m), Whole(1)), x) = FAdd(FMul(Whole(m), x), FMul(Whole(1), x))
  BY <1>1, Distributes
<1>4. FMul(Whole(1), x) = x
  BY Units
<1> QED BY <1>2, <1>3, <1>4

\* The derivative of a power is the one that the product rule gives.
LEMMA DualPowerSteps ==
  ASSUME NEW a, IsDual(a), NEW m \in Nat
  PROVE  DPower(a, 0) = DOne /\ DPower(a, m + 1) = DMul(DPower(a, m), a)
<1> DEFINE v == a.v
           d == a.d
           X == FMul(Power(v, m), d)
<1>1. IsNumber(v) /\ IsNumber(d) /\ IsNumber(Power(v, m))
  BY PowerNumber DEF IsDual
<1>2. DPower(a, 0) = DOne
  BY PowerSteps DEF DPower, DOne
<1>3. m + 1 # 0 /\ (m + 1) - 1 = m
  OBVIOUS
<1>4. DPower(a, m + 1) = Dual(FMul(Power(v, m), v), FMul(Whole(m + 1), X))
  BY <1>3, PowerSteps DEF DPower
<1> DEFINE e == IF m = 0 THEN Zero ELSE FMul(Whole(m), FMul(Power(v, m - 1), d))
<1>5. DMul(DPower(a, m), a) = Dual(FMul(Power(v, m), v), FAdd(FMul(e, v), X))
  BY DEF DPower, DMul, Dual
<1>6. FMul(e, v) = FMul(Whole(m), X)
  <2>1. CASE m = 0
    <3>1. FMul(Zero, v) = Zero
      BY <1>1, Annihilates
    <3>2. IsNumber(X)
      BY <1>1, NumberClosed
    <3>3. FMul(Zero, X) = Zero
      BY <3>2, Annihilates
    <3> QED BY <2>1, <3>1, <3>3 DEF Zero
  <2>2. CASE m # 0
    <3> DEFINE Q == Power(v, m - 1)
               w == Whole(m)
    <3>1. m - 1 \in Nat /\ (m - 1) + 1 = m
      BY <2>2
    <3>2. IsNumber(Q) /\ IsNumber(w)
      BY <1>1, <3>1, PowerNumber, WholeNumber
    <3>3. Power(v, m) = FMul(Q, v)
      BY <3>1, PowerSteps
    <3>4. e = FMul(w, FMul(Q, d))
      BY <2>2
    <3> HIDE DEF Q, w, v, d, e
    <3>5. IsNumber(FMul(Q, d)) /\ IsNumber(FMul(Q, v)) /\ IsNumber(FMul(d, v))
      BY <1>1, <3>2, NumberClosed
    <3>6. FMul(w, FMul(FMul(Q, d), v)) = FMul(FMul(w, FMul(Q, d)), v)
      BY <1>1, <3>2, <3>5, Associates
    <3>7. FMul(FMul(Q, d), v) = FMul(FMul(Q, v), d)
      <4>1. /\ FMul(Q, FMul(d, v)) = FMul(FMul(Q, d), v)
            /\ FMul(Q, FMul(v, d)) = FMul(FMul(Q, v), d)
        BY <1>1, <3>2, Associates
      <4>2. FMul(d, v) = FMul(v, d)
        BY <1>1, Commutes
      <4> QED BY <4>1, <4>2
    <3>8. FMul(e, v) = FMul(w, FMul(FMul(Q, v), d))
      BY <3>4, <3>6, <3>7
    <3> QED BY <3>3, <3>8 DEF w
  <2> QED BY <2>1, <2>2
<1>7. FAdd(FMul(Whole(m), X), X) = FMul(Whole(m + 1), X)
  <2>1. IsNumber(X)
    BY <1>1, NumberClosed
  <2> HIDE DEF X
  <2> QED BY <2>1, OneMoreTimes
<1> QED BY <1>2, <1>4, <1>5, <1>6, <1>7

-----------------------------------------------------------------------------
(* The exponentially weighted mean *)

\* A sample's weight is a dual.
LEMMA WeightIsDual ==
  ASSUME NEW a, IsDual(a), NEW m \in Nat, NEW k \in 1 .. m
  PROVE  IsDual(EmaWeight(a, k, m))
<1>1. IsDual(DSub(DOne, a)) /\ IsDual(DOne)
  BY Constants, DualClosed
<1>2. m - k \in Nat
  OBVIOUS
<1>3. IsDual(DPower(DSub(DOne, a), m - k))
  BY <1>1, <1>2, PowerIsDual
<1>4. IsDual(IF k = 1 THEN DOne ELSE a)
  BY <1>1
<1> QED BY <1>3, <1>4, DualClosed DEF EmaWeight

\* A sample's weight after one more.
LEMMA WeightFades ==
  ASSUME NEW a, IsDual(a), NEW m \in Nat, NEW k \in 1 .. m
  PROVE  EmaWeight(a, k, m + 1) = DMul(EmaWeight(a, k, m), DSub(DOne, a))
<1> DEFINE b == DSub(DOne, a)
           c == IF k = 1 THEN DOne ELSE a
           j == m - k
<1>1. IsDual(b) /\ IsDual(DOne)
  BY Constants, DualClosed
<1>2. j \in Nat /\ (m + 1) - k = j + 1
  OBVIOUS
<1>3. IsDual(c)
  BY <1>1
<1>4. EmaWeight(a, k, m) = DMul(c, DPower(b, j))
  BY DEF EmaWeight
<1>5. EmaWeight(a, k, m + 1) = DMul(c, DPower(b, j + 1))
  BY <1>2 DEF EmaWeight
<1> HIDE DEF b, c, j
<1>6. DPower(b, j + 1) = DMul(DPower(b, j), b) /\ IsDual(DPower(b, j))
  BY <1>1, <1>2, DualPowerSteps, PowerIsDual
<1>7. DMul(c, DMul(DPower(b, j), b)) = DMul(DMul(c, DPower(b, j)), b)
  BY <1>1, <1>3, <1>6, DualAssociates
<1>8. EmaWeight(a, k, m + 1) = DMul(EmaWeight(a, k, m), b)
  BY <1>4, <1>5, <1>6, <1>7
<1> QED BY <1>8 DEF b

\* The latest sample's weight.
LEMMA WeightNewest ==
  ASSUME NEW a, IsDual(a), NEW m \in Nat \ {0}
  PROVE  EmaWeight(a, m, m) = IF m = 1 THEN DOne ELSE a
<1>1. IsDual(DSub(DOne, a)) /\ IsDual(DOne)
  BY Constants, DualClosed
<1>2. m - m = 0
  OBVIOUS
<1>3. DPower(DSub(DOne, a), 0) = DOne
  <2>1. 0 \in Nat
    OBVIOUS
  <2> QED BY <1>1, <2>1, DualPowerSteps
<1>4. DMul(DOne, DOne) = DOne /\ DMul(a, DOne) = a
  BY <1>1, DualUnit
<1> QED BY <1>2, <1>3, <1>4 DEF EmaWeight

\* The weighted samples.
Weighted(s, a, m) == [k \in 1 .. m |-> DMul(s[k].x, EmaWeight(a, k, m))]

\* The mean as a sum of duals.
LEMMA EmaIsSum ==
  ASSUME NEW I, NEW s \in Seq(I), NEW a
  PROVE  EmaOf(s, a) = SumOf(Weighted(s, a, Len(s)), Len(s))
<1> DEFINE m == Len(s)
           w == [k \in 1 .. m |-> DMul(s[k].x, EmaWeight(a, k, m))]
<1>1. m \in Nat
  OBVIOUS
<1>2. EmaOf(s, a) = DTotal(w) /\ w = Weighted(s, a, m)
  BY DEF EmaOf, Weighted
<1>3. DOMAIN w = 1 .. m
  OBVIOUS
<1> HIDE DEF m
<1>4. Len(w) = m
  <2> DEFINE S == {w[k] : k \in 1 .. m}
  <2>1. w \in [1 .. m -> S]
    OBVIOUS
  <2> HIDE DEF w, S
  <2>2. w \in Seq(S)
    BY <1>1, <2>1
  <2> QED BY <1>1, <1>3, <2>2
<1> HIDE DEF w
<1>5. [k \in DOMAIN w |-> w[k].v] = Values(w, m) /\ [k \in DOMAIN w |-> w[k].d] = Slopes(w, m)
  BY <1>3 DEF Values, Slopes
<1>6. DTotal(w) = SumOf(w, m)
  BY <1>4, <1>5 DEF DTotal, SumOf
<1> QED BY <1>2, <1>6 DEF m

\* The operands of all ticks are duals.
DualSamples(s) == \A k \in 1 .. Len(s) : IsDual(s[k].x)

\* One more tick.
LEMMA Appended ==
  ASSUME NEW I, NEW h \in Seq(I), NEW i \in I
  PROVE  /\ Append(h, i) \in Seq(I) /\ Len(Append(h, i)) = Len(h) + 1 /\ Len(h) \in Nat
         /\ Append(h, i)[Len(h) + 1] = i /\ \A k \in 1 .. Len(h) : Append(h, i)[k] = h[k]
OBVIOUS

\* The mean is a dual.
LEMMA EmaIsDual ==
  ASSUME NEW I, NEW h \in Seq(I), DualSamples(h), NEW a, IsDual(a)
  PROVE  IsDual(EmaOf(h, a))
<1> DEFINE m == Len(h)
           w == Weighted(h, a, m)
<1>1. m \in Nat
  OBVIOUS
<1>2. \A k \in 1 .. m : IsDual(h[k].x)
  BY DEF DualSamples
<1>3. EmaOf(h, a) = SumOf(w, m)
  BY EmaIsSum
<1> HIDE DEF m
<1>4. ASSUME NEW k \in 1 .. m PROVE IsDual(w[k])
  <2>1. w[k] = DMul(h[k].x, EmaWeight(a, k, m))
    BY DEF Weighted
  <2>2. IsDual(h[k].x) /\ IsDual(EmaWeight(a, k, m))
    BY <1>1, <1>2, WeightIsDual
  <2> QED BY <2>1, <2>2, DualClosed
<1> HIDE DEF w
<1>5. Duals(w, m)
  BY <1>4 DEF Duals
<1> QED BY <1>1, <1>3, <1>5, SumIsDual

\* The mean of one sample.
LEMMA EmaFirst ==
  ASSUME NEW I, NEW h \in Seq(I), Len(h) = 1, DualSamples(h), NEW a, IsDual(a)
  PROVE  EmaOf(h, a) = h[1].x
<1> DEFINE w == Weighted(h, a, 1)
<1>1. 1 \in 1 .. 1 /\ 1 \in Nat \ {0}
  OBVIOUS
<1>2. IsDual(h[1].x)
  BY <1>1 DEF DualSamples
<1>3. EmaOf(h, a) = SumOf(w, 1)
  BY EmaIsSum
<1>4. w[1] = DMul(h[1].x, EmaWeight(a, 1, 1))
  BY <1>1 DEF Weighted
<1>5. EmaWeight(a, 1, 1) = DOne
  BY <1>1, WeightNewest
<1>6. w[1] = h[1].x
  BY <1>2, <1>4, <1>5, DualUnit
<1> HIDE DEF w
<1> QED BY <1>2, <1>3, <1>6, DualSumOne

\* The mean of one more sample.
LEMMA EmaNext ==
  ASSUME NEW I, NEW h \in Seq(I), NEW i \in I, Len(h) > 0, DualSamples(h), IsDual(i.x),
         NEW a, IsDual(a)
  PROVE  EmaOf(Append(h, i), a) = DAdd(DMul(EmaOf(h, a), DSub(DOne, a)), DMul(i.x, a))
<1> DEFINE m == Len(h)
           g == Append(h, i)
           b == DSub(DOne, a)
           w == Weighted(h, a, m)
           u == Weighted(g, a, m + 1)
<1>1. /\ g \in Seq(I) /\ Len(g) = m + 1 /\ m \in Nat /\ m > 0
      /\ g[m + 1] = i /\ \A k \in 1 .. m : g[k] = h[k]
  BY Appended
<1>2. EmaOf(h, a) = SumOf(w, m)
  BY EmaIsSum
<1>3. EmaOf(g, a) = SumOf(u, m + 1)
  <2>1. EmaOf(g, a) = SumOf(Weighted(g, a, Len(g)), Len(g))
    BY <1>1, EmaIsSum
  <2> QED BY <1>1, <2>1
<1>4. \A k \in 1 .. m : IsDual(h[k].x)
  BY DEF DualSamples
<1>5. IsDual(b)
  BY Constants, DualClosed
<1> HIDE DEF m, g
<1>6. ASSUME NEW k \in 1 .. m PROVE IsDual(w[k]) /\ u[k] = DMul(w[k], b)
  <2> DEFINE y == h[k].x
             e == EmaWeight(a, k, m)
  <2>1. k \in 1 .. m + 1
    BY <1>1
  <2>2. w[k] = DMul(y, e)
    BY DEF Weighted
  <2>3. u[k] = DMul(y, EmaWeight(a, k, m + 1))
    BY <1>1, <2>1 DEF Weighted
  <2>4. EmaWeight(a, k, m + 1) = DMul(e, b) /\ IsDual(e)
    BY <1>1, WeightFades, WeightIsDual
  <2>5. IsDual(y)
    BY <1>4
  <2> HIDE DEF y, e, b, w, u
  <2>6. DMul(y, DMul(e, b)) = DMul(DMul(y, e), b) /\ IsDual(DMul(y, e))
    BY <1>5, <2>4, <2>5, DualAssociates, DualClosed
  <2> QED BY <2>2, <2>3, <2>4, <2>6
<1>7. u[m + 1] = DMul(i.x, a)
  <2>1. m + 1 \in 1 .. m + 1 /\ m + 1 \in Nat \ {0} /\ m + 1 # 1
    BY <1>1
  <2>2. u[m + 1] = DMul(i.x, EmaWeight(a, m + 1, m + 1))
    BY <1>1, <2>1 DEF Weighted
  <2>3. EmaWeight(a, m + 1, m + 1) = a
    <3> DEFINE M == m + 1
    <3>1. M \in Nat \ {0} /\ M # 1
      BY <2>1
    <3>2. EmaWeight(a, M, M) = IF M = 1 THEN DOne ELSE a
      BY <3>1, WeightNewest
    <3> QED BY <3>1, <3>2
  <2> QED BY <2>2, <2>3
<1> HIDE DEF u, w, b
<1>8. Duals(w, m)
  BY <1>6 DEF Duals
<1>9. SumOf(u, m) = DMul(SumOf(w, m), b)
  BY <1>1, <1>5, <1>6, <1>8, DualSumScales
<1>10. SumOf(u, m + 1) = DAdd(SumOf(u, m), u[m + 1])
  BY <1>1, DualSumNext
<1>11. EmaOf(g, a) = DAdd(DMul(EmaOf(h, a), b), DMul(i.x, a))
  BY <1>2, <1>3, <1>7, <1>9, <1>10
<1> QED BY <1>11 DEF g, b

\* p (x - e) in two terms.
LEMMA Spread ==
  ASSUME NEW p, NEW x, NEW e, IsNumber(p), IsNumber(x), IsNumber(e)
  PROVE  FMul(p, FSub(x, e)) = FAdd(FMul(e, FSub(Zero, p)), FMul(x, p))
<1>1. PICK a, b : Is(p, a, b)
  BY DEF IsNumber
<1>2. PICK c, d : Is(x, c, d)
  BY DEF IsNumber
<1>3. PICK f, g : Is(e, f, g)
  BY DEF IsNumber
<1>4. Is(Zero, 0, 1)
  BY WholeIs DEF Zero
<1>5. a \in Int /\ b \in Int /\ c \in Int /\ d \in Int /\ f \in Int /\ g \in Int
  BY <1>1, <1>2, <1>3 DEF Is
<1> DEFINE u == c * g - f * d
           v == 0 * b - a * 1
           w == 1 * b
           U == a * u
           V == b * (d * g)
           r == f * v
           s == g * w
           R == r * (d * b) + (c * a) * s
           S == s * (d * b)
<1>6. U * S = R * V
  BY <1>5
<1>7. Is(FSub(x, e), u, d * g)
  BY <1>2, <1>3, Difference
<1>8. Is(FSub(Zero, p), v, w)
  BY <1>1, <1>4, Difference
<1>9. Is(FMul(x, p), c * a, d * b)
  BY <1>1, <1>2, Product
<1> HIDE DEF u, v, w
<1>10. Is(FMul(p, FSub(x, e)), U, V)
  BY <1>1, <1>7, Product
<1>11. Is(FMul(e, FSub(Zero, p)), r, s)
  BY <1>3, <1>8, Product
<1> HIDE DEF r, s
<1>12. Is(FAdd(FMul(e, FSub(Zero, p)), FMul(x, p)), R, S)
  BY <1>9, <1>11, Sum
<1> HIDE DEF U, V, R, S
<1> QED BY <1>6, <1>10, <1>12, Same

\* The step of the code is the blend of duals.
LEMMA EmaBlends ==
  ASSUME NEW E, NEW x, NEW a, IsDual(E), IsDual(x), IsDual(a)
  PROVE  EmaGradStep([init |-> TRUE, value |-> E.v], E.d, x, a) =
           LET f == DAdd(DMul(E, DSub(DOne, a)), DMul(x, a))
           IN  [primal |-> [init |-> TRUE, value |-> f.v], grad |-> f.d]
<1> DEFINE keep == FSub(One, a.v)
           minus == FSub(Zero, a.d)
           f == DAdd(DMul(E, DSub(DOne, a)), DMul(x, a))
           A == FMul(E.d, keep)
           B == FMul(E.v, minus)
           C == FMul(x.d, a.v)
           G == FMul(x.v, a.d)
           P == FMul(E.v, keep)
           Q == FMul(x.v, a.v)
<1>1. /\ IsNumber(E.v) /\ IsNumber(E.d) /\ IsNumber(x.v) /\ IsNumber(x.d)
      /\ IsNumber(a.v) /\ IsNumber(a.d) /\ IsNumber(One) /\ IsNumber(Zero)
  BY Constants DEF IsDual
<1>2. IsNumber(keep) /\ IsNumber(minus)
  BY <1>1, NumberClosed
<1>3. f.v = FAdd(P, Q) /\ f.d = FAdd(FAdd(A, B), FAdd(C, G))
  BY Constants, DualParts
<1>4. EmaGradStep([init |-> TRUE, value |-> E.v], E.d, x, a) =
        [primal |-> [init |-> TRUE,
                     value |-> FAdd(FMul(a.v, x.v), FMul(keep, E.v))],
         grad |-> FAdd(FAdd(FMul(a.v, x.d), FMul(keep, E.d)), FMul(a.d, FSub(x.v, E.v)))]
  BY DEF EmaGradStep
<1>5. FMul(a.d, FSub(x.v, E.v)) = FAdd(B, G)
  BY <1>1, Spread
<1>6. FMul(a.v, x.v) = Q /\ FMul(a.v, x.d) = C
  BY <1>1, Commutes
<1>7. FMul(keep, E.v) = P /\ FMul(keep, E.d) = A
  BY <1>1, <1>2, Commutes
<1>8. IsNumber(A) /\ IsNumber(B) /\ IsNumber(P)
  BY <1>1, <1>2, NumberClosed
<1>9. IsNumber(C) /\ IsNumber(G) /\ IsNumber(Q)
  BY <1>1, NumberClosed
<1> HIDE DEF A, B, C, G, P, Q, keep, minus, f
<1>10. FAdd(P, Q) = FAdd(Q, P) /\ FAdd(A, C) = FAdd(C, A)
  BY <1>8, <1>9, Commutes
<1>11. FAdd(FAdd(A, B), FAdd(C, G)) = FAdd(FAdd(A, C), FAdd(B, G))
  BY <1>8, <1>9, SumsSwap
<1>12. /\ FAdd(FMul(a.v, x.v), FMul(keep, E.v)) = f.v
       /\ FAdd(FAdd(FMul(a.v, x.d), FMul(keep, E.d)), FMul(a.d, FSub(x.v, E.v))) = f.d
  BY <1>3, <1>5, <1>6, <1>7, <1>10, <1>11
<1> QED BY <1>4, <1>12 DEF f

-----------------------------------------------------------------------------
(* The filter *)

FilterFirst(s, r) == [p |-> r, xhat |-> s[1].x]

\* The first m states of the filter.
AreStates(t, s, q, r, m) ==
  /\ DOMAIN t = 0 .. m
  /\ \A k \in 0 .. m : t[k] = IF k <= 1 THEN FilterFirst(s, r)
                              ELSE FilterNext(t[k - 1], s[k].x, q, r)

\* They exist ...
LEMMA StatesExist ==
  ASSUME NEW s, NEW q, NEW r, NEW l \in Nat
  PROVE  \E t : AreStates(t, s, q, r, l)
<1> DEFINE T == {k \in Nat : \E t : AreStates(t, s, q, r, k)}
           one == FilterFirst(s, r)
           nxt(f, k) == FilterNext(f, s[k].x, q, r)
<1>1. 0 \in T
  <2> DEFINE t == [k \in 0 .. 0 |-> one]
  <2>1. \A k \in 0 .. 0 : k <= 1 /\ t[k] = one
    OBVIOUS
  <2>2. AreStates(t, s, q, r, 0)
    BY <2>1 DEF AreStates
  <2> QED BY <2>2
<1>2. ASSUME NEW m \in Nat, m \in T PROVE m + 1 \in T
  <2>1. PICK t : AreStates(t, s, q, r, m)
    BY <1>2
  <2> DEFINE e == IF m + 1 <= 1 THEN one ELSE nxt(t[m], m + 1)
             u == [k \in 0 .. m + 1 |-> IF k = m + 1 THEN e ELSE t[k]]
  <2>2. ASSUME NEW k \in 0 .. m PROVE u[k] = t[k]
    <3>1. k \in 0 .. m + 1 /\ k # m + 1
      OBVIOUS
    <3> QED BY <3>1
  <2>3. u[m + 1] = e
    OBVIOUS
  <2>4. DOMAIN u = 0 .. m + 1
    OBVIOUS
  <2>5. \A k \in 0 .. m : t[k] = IF k <= 1 THEN one ELSE nxt(t[k - 1], k)
    BY <2>1 DEF AreStates
  <2> HIDE DEF u, one, nxt
  <2>6. ASSUME NEW k \in 0 .. m + 1
        PROVE  u[k] = IF k <= 1 THEN one ELSE nxt(u[k - 1], k)
    <3>1. CASE k = m + 1
      <4>1. k - 1 = m /\ m \in 0 .. m
        BY <3>1
      <4> QED BY <2>2, <2>3, <3>1, <4>1
    <3>2. CASE k # m + 1
      <4>1. k \in 0 .. m
        BY <3>2
      <4>2. t[k] = IF k <= 1 THEN one ELSE nxt(t[k - 1], k)
        BY <2>5, <4>1
      <4>3. ~(k <= 1) => k - 1 \in 0 .. m
        BY <4>1
      <4> QED BY <2>2, <4>1, <4>2, <4>3
    <3> QED BY <3>1, <3>2
  <2>7. AreStates(u, s, q, r, m + 1)
    BY <2>4, <2>6 DEF AreStates, one, nxt
  <2> QED BY <2>7
<1> HIDE DEF T
<1>3. l \in T
  BY <1>1, <1>2, Induction
<1> QED BY <1>3 DEF T

\* ... and depend on the samples they have seen only.
LEMMA StatesUnique ==
  ASSUME NEW s, NEW z, NEW q, NEW r, NEW m \in Nat, NEW l \in Nat, NEW t, NEW u,
         AreStates(t, s, q, r, m), AreStates(u, z, q, r, l), NEW k \in Nat, k <= m, k <= l,
         s[1] = z[1], \A i \in 1 .. k : s[i] = z[i]
  PROVE  t[k] = u[k]
<1> DEFINE T == {i \in Nat : i <= k => t[i] = u[i]}
<1>1. 0 \in T
  <2>1. 0 \in 0 .. m /\ 0 \in 0 .. l /\ 0 <= 1
    OBVIOUS
  <2> QED BY <2>1 DEF AreStates, FilterFirst
<1>2. ASSUME NEW i \in Nat, i \in T PROVE i + 1 \in T
  <2> SUFFICES ASSUME i + 1 <= k PROVE t[i + 1] = u[i + 1]
    OBVIOUS
  <2>1. i + 1 \in 0 .. m /\ i + 1 \in 0 .. l /\ (i + 1) - 1 = i /\ i <= k /\ i + 1 \in 1 .. k
    OBVIOUS
  <2>2. t[i] = u[i] /\ s[i + 1] = z[i + 1]
    BY <1>2, <2>1
  <2> QED BY <2>1, <2>2 DEF AreStates, FilterFirst
<1> HIDE DEF T
<1>3. k \in T
  BY <1>1, <1>2, Induction
<1> QED BY <1>3 DEF T

\* FilterOf computes the last of the states.
LEMMA FilterIsState ==
  ASSUME NEW I, NEW s \in Seq(I), NEW q, NEW r
  PROVE  \E t : AreStates(t, s, q, r, Len(s)) /\ FilterOf(s, q, r) = t[Len(s)]
<1> DEFINE P(k) == CHOOSE t : AreStates(t, s, q, r, k)
           w == [k \in Nat |-> P(k)[k]]
           one == FilterFirst(s, r)
           nxt(f, k) == FilterNext(f, s[k].x, q, r)
           v == [k \in Nat |-> IF k <= 1 THEN one ELSE nxt(w[k - 1], k)]
<1>1. \A k \in Nat : AreStates(P(k), s, q, r, k)
  BY StatesExist
<1> HIDE DEF P
<1>2. ASSUME NEW k \in Nat PROVE w[k] = v[k]
  <2>1. k \in 0 .. k
    OBVIOUS
  <2>2. P(k)[k] = IF k <= 1 THEN one ELSE nxt(P(k)[k - 1], k)
    BY <1>1, <2>1 DEF AreStates
  <2> HIDE DEF one, nxt
  <2>3. CASE k <= 1
    BY <2>2, <2>3
  <2>4. CASE ~(k <= 1)
    <3>1. k - 1 \in Nat /\ k - 1 <= k /\ k - 1 <= k - 1
      BY <2>4
    <3>2. s[1] = s[1] /\ \A i \in 1 .. k - 1 : s[i] = s[i]
      OBVIOUS
    <3>3. P(k)[k - 1] = P(k - 1)[k - 1]
      BY <1>1, <3>1, <3>2, StatesUnique
    <3> QED BY <2>2, <2>4, <3>1, <3>3
  <2> QED BY <2>3, <2>4
<1>3. w = v
  BY <1>2
<1> DEFINE g == CHOOSE t : t = [i \in Nat |-> IF i <= 1 THEN [p |-> r, xhat |-> s[1].x]
                                              ELSE FilterNext(t[i - 1], s[i].x, q, r)]
<1>4. w = [i \in Nat |-> IF i <= 1 THEN [p |-> r, xhat |-> s[1].x]
                         ELSE FilterNext(w[i - 1], s[i].x, q, r)]
  BY <1>3 DEF FilterFirst
<1> HIDE DEF w
<1>5. g = [i \in Nat |-> IF i <= 1 THEN [p |-> r, xhat |-> s[1].x]
                         ELSE FilterNext(g[i - 1], s[i].x, q, r)]
  BY <1>4
<1>6. FilterOf(s, q, r) = g[Len(s)]
  BY Zenon DEF FilterOf
<1> HIDE DEF g
<1>7. \A k \in Nat : g[k] = IF k <= 1 THEN one ELSE nxt(g[k - 1], k)
  BY <1>5 DEF FilterFirst
<1> DEFINE m == Len(s)
           t == [k \in 0 .. m |-> g[k]]
<1>8. m \in Nat
  OBVIOUS
<1> HIDE DEF m, one, nxt
<1>9. ASSUME NEW k \in 0 .. m PROVE t[k] = IF k <= 1 THEN one ELSE nxt(t[k - 1], k)
  <2>1. k \in Nat /\ (~(k <= 1) => k - 1 \in 0 .. m)
    BY <1>8
  <2>2. g[k] = IF k <= 1 THEN one ELSE nxt(g[k - 1], k)
    BY <1>7, <2>1
  <2> QED BY <2>1, <2>2
<1>10. DOMAIN t = 0 .. m /\ t[m] = g[m]
  BY <1>8
<1> HIDE DEF t
<1>11. AreStates(t, s, q, r, m)
  BY <1>9, <1>10 DEF AreStates, one, nxt
<1> QED BY <1>6, <1>10, <1>11 DEF m

\* The filter's first state is the one of the code.
LEMMA FilterOne ==
  ASSUME NEW I, NEW s \in Seq(I), NEW q, NEW r, Len(s) = 1
  PROVE  FilterOf(s, q, r) = [p |-> r, xhat |-> s[1].x]
<1>1. PICK t : AreStates(t, s, q, r, Len(s)) /\ FilterOf(s, q, r) = t[Len(s)]
  BY FilterIsState
<1>2. 1 \in 0 .. 1 /\ 1 <= 1
  OBVIOUS
<1> QED BY <1>1, <1>2 DEF AreStates, FilterFirst

\* Each other one follows from the one before.
LEMMA FilterMore ==
  ASSUME NEW I, NEW h \in Seq(I), NEW i \in I, NEW q, NEW r, Len(h) > 0
  PROVE  FilterOf(Append(h, i), q, r) = FilterNext(FilterOf(h, q, r), i.x, q, r)
<1> DEFINE m == Len(h)
           g == Append(h, i)
<1>1. /\ g \in Seq(I) /\ Len(g) = m + 1 /\ m \in Nat /\ m > 0
      /\ g[m + 1] = i /\ \A k \in 1 .. m : g[k] = h[k]
  BY Appended
<1>2. PICK t : AreStates(t, h, q, r, m) /\ FilterOf(h, q, r) = t[m]
  BY FilterIsState
<1> HIDE DEF m, g
<1>3. PICK u : AreStates(u, g, q, r, m + 1) /\ FilterOf(g, q, r) = u[m + 1]
  <2>1. \E u : AreStates(u, g, q, r, Len(g)) /\ FilterOf(g, q, r) = u[Len(g)]
    BY <1>1, FilterIsState
  <2> QED BY <1>1, <2>1
<1>4. /\ m + 1 \in 0 .. m + 1 /\ ~(m + 1 <= 1) /\ (m + 1) - 1 = m /\ m + 1 \in Nat
      /\ m <= m + 1 /\ m <= m /\ 1 \in 1 .. m
  BY <1>1
<1>5. u[m + 1] = FilterNext(u[m], i.x, q, r)
  BY <1>1, <1>3, <1>4 DEF AreStates
<1>6. g[1] = h[1]
  BY <1>1, <1>4
<1>7. u[m] = t[m]
  BY <1>1, <1>2, <1>3, <1>4, <1>6, StatesUnique
<1>8. FilterOf(g, q, r) = FilterNext(FilterOf(h, q, r), i.x, q, r)
  BY <1>2, <1>3, <1>5, <1>7
<1> QED BY <1>8 DEF g

\* x = u/w with the derivative z/w^2.
DualIs(x, u, w, z) == Is(x.v, u, w) /\ Is(x.d, z, w * w)

\* The types of the parts.
LEMMA DualInts ==
  ASSUME NEW x, NEW u, NEW w, NEW z, DualIs(x, u, w, z)
  PROVE  u \in Int /\ w \in Nat \ {0} /\ z \in Int
BY DEF DualIs, Is

\* Every dual has this form.
LEMMA DualFraction ==
  ASSUME NEW x, IsDual(x)
  PROVE  /\ \E u, w, z : DualIs(x, u, w, z)
         /\ IsPositive(x.v) => \E u, w, z : u \in Nat \ {0} /\ DualIs(x, u, w, z)
<1>1. PICK m, e : Is(x.d, m, e)
  BY DEF IsDual, IsNumber
<1>2. m \in Int /\ e \in Nat \ {0}
  BY <1>1 DEF Is
<1>3. ASSUME NEW k, NEW d, Is(x.v, k, d) PROVE DualIs(x, k * e, d * e, m * (d * (d * e)))
  <2>1. k \in Int /\ d \in Nat \ {0}
    BY <1>3 DEF Is
  <2>2. d * e \in Nat \ {0}
    BY <1>2, <2>1, Positive
  <2>3. (d * e) * (d * e) \in Nat \ {0}
    BY <2>2, Positive
  <2>4. Is(x.v, k * e, d * e)
    <3>1. k * e \in Int /\ k * (d * e) = (k * e) * d
      BY <1>2, <2>1
    <3> QED BY <1>3, <2>2, <3>1, Rescale
  <2>5. Is(x.d, m * (d * (d * e)), (d * e) * (d * e))
    <3>1. m * (d * (d * e)) \in Int /\ m * ((d * e) * (d * e)) = (m * (d * (d * e))) * e
      BY <1>2, <2>1
    <3> QED BY <1>1, <2>3, <3>1, Rescale
  <2> QED BY <2>4, <2>5 DEF DualIs
<1>4. \E k, d : Is(x.v, k, d)
  BY DEF IsDual, IsNumber
<1>5. ASSUME IsPositive(x.v)
      PROVE  \E u, w, z : u \in Nat \ {0} /\ DualIs(x, u, w, z)
  <2>1. PICK k, d : k \in Nat \ {0} /\ Is(x.v, k, d)
    BY <1>5 DEF IsPositive
  <2>2. k * e \in Nat \ {0}
    BY <1>2, <2>1, Positive
  <2> QED BY <1>3, <2>1, <2>2
<1> QED BY <1>3, <1>4, <1>5

\* The sum.
LEMMA DualSum ==
  ASSUME NEW x, NEW u, NEW w, NEW z, DualIs(x, u, w, z),
         NEW y, NEW s, NEW t, NEW r, DualIs(y, s, t, r)
  PROVE  DualIs(DAdd(x, y), u * t + s * w, w * t, z * (t * t) + r * (w * w))
<1>1. Is(x.v, u, w) /\ Is(x.d, z, w * w) /\ Is(y.v, s, t) /\ Is(y.d, r, t * t)
  BY DEF DualIs
<1>2. w \in Int /\ t \in Int
  BY <1>1 DEF Is
<1>3. Is(FAdd(x.v, y.v), u * t + s * w, w * t)
  BY <1>1, Sum
<1>4. Is(FAdd(x.d, y.d), z * (t * t) + r * (w * w), (w * w) * (t * t))
  BY <1>1, Sum
<1>5. (w * w) * (t * t) = (w * t) * (w * t)
  BY <1>2
<1> QED BY <1>3, <1>4, <1>5, DualParts DEF DualIs

\* The quotient by a positive number.
LEMMA DualRatio ==
  ASSUME NEW x, NEW u, NEW w, NEW z, DualIs(x, u, w, z),
         NEW y, NEW s \in Nat \ {0}, NEW t, NEW r, DualIs(y, s, t, r)
  PROVE  DualIs(DDiv(x, y), u * t, w * s, z * (s * t) - r * (u * w))
<1>1. Is(x.v, u, w) /\ Is(x.d, z, w * w) /\ Is(y.v, s, t) /\ Is(y.d, r, t * t)
  BY DEF DualIs
<1>2. u \in Int /\ z \in Int /\ r \in Int /\ w \in Nat \ {0} /\ t \in Nat \ {0}
  BY DualInts
<1>3. Is(FDiv(x.v, y.v), u * t, w * s)
  BY <1>1, Ratio
<1> DEFINE W == w * w
           T == t * t
           S == s * s
           N == (z * s) * (w * T) - (u * r) * (W * t)
           M == (W * t) * (w * T)
           B == w * s
           K == z * (s * t) - r * (u * w)
<1>4. Is(FMul(x.d, y.v), z * s, W * t) /\ Is(FMul(x.v, y.d), u * r, w * T)
  BY <1>1, Product
<1>5. Is(FMul(y.v, y.v), S, T)
  BY <1>1, Product
<1>6. S \in Nat \ {0} /\ B \in Nat \ {0}
  BY <1>2, Positive
<1>7. B * B \in Nat \ {0} /\ K \in Int
  <2>1. K \in Int
    BY <1>2
  <2> HIDE DEF K
  <2> QED BY <1>6, <2>1, Positive
<1>8. (N * T) * (B * B) = K * (M * S)
  <2>1. N = (w * t) * K
    BY <1>2
  <2>2. ((w * t) * T) * (B * B) = M * S
    BY <1>2
  <2>3. T \in Int /\ B \in Int /\ M \in Int /\ S \in Int /\ w * t \in Int /\ K \in Int
    BY <1>2
  <2> DEFINE q == w * t
  <2> HIDE DEF N, T, B, K, M, S, q
  <2>4. q \in Int /\ N = q * K /\ (q * T) * (B * B) = M * S
    BY <2>1, <2>2, <2>3 DEF q
  <2>5. ((q * K) * T) * (B * B) = K * ((q * T) * (B * B))
    BY <2>3, <2>4
  <2> QED BY <2>4, <2>5
<1> HIDE DEF W, T, S
<1>9. Is(FSub(FMul(x.d, y.v), FMul(x.v, y.d)), N, M)
  BY <1>4, Difference
<1> HIDE DEF N, M
<1>10. Is(DDiv(x, y).d, N * T, M * S)
  <2>1. Is(FDiv(FSub(FMul(x.d, y.v), FMul(x.v, y.d)), FMul(y.v, y.v)), N * T, M * S)
    BY <1>5, <1>6, <1>9, Ratio
  <2> QED BY <2>1 DEF DDiv, Dual
<1> HIDE DEF B, K
<1>11. Is(DDiv(x, y).d, K, B * B)
  BY <1>7, <1>8, <1>10, Rescale
<1>12. DDiv(x, y).v = FDiv(x.v, y.v)
  BY DEF DDiv, Dual
<1> QED BY <1>3, <1>11, <1>12 DEF DualIs, B, K

\* 1 as such a fraction, and the inverse of a positive number.
LEMMA DualInverse ==
  ASSUME NEW y, NEW s \in Nat \ {0}, NEW t, NEW r, DualIs(y, s, t, r)
  PROVE  DualIs(DDiv(DOne, y), t, s, -r)
<1>1. Is(One, 1, 1) /\ Is(Zero, 0, 1)
  BY WholeIs DEF One, Zero
<1>2. DualIs(DOne, 1, 1, 0)
  <2>1. 1 * 1 = 1
    OBVIOUS
  <2> QED BY <1>1, <2>1, Constants DEF DualIs
<1>3. DualIs(DDiv(DOne, y), 1 * t, 1 * s, 0 * (s * t) - r * (1 * 1))
  BY <1>2, DualRatio
<1>4. t \in Int /\ r \in Int
  BY DualInts
<1>5. 1 * t = t /\ 1 * s = s /\ 0 * (s * t) - r * (1 * 1) = -r
  BY <1>4
<1> QED BY <1>3, <1>5

\* A positive number is not below or at 0.
LEMMA PositiveAbove ==
  ASSUME NEW a, IsPositive(a)
  PROVE  ~FLe(a, Zero) /\ ~FLt(a, Zero)
<1>1. PICK k, d : k \in Nat \ {0} /\ Is(a, k, d)
  BY DEF IsPositive
<1>2. PICK g, i, j : Cleared(g, k, d, i, j) /\ a = <<i, j>>
  BY <1>1, RatCleared DEF Is
<1>3. g \in Nat \ {0} /\ i \in Int /\ j \in Nat \ {0} /\ k = g * i
  BY <1>2 DEF Cleared
<1>4. i > 0
  <2> SUFFICES ASSUME i <= 0 PROVE FALSE
    BY <1>3
  <2>1. g * i <= 0
    BY <1>3
  <2> QED BY <1>1, <1>3, <2>1
<1>5. ~FLt(a, Zero)
  BY <1>2, <1>3, <1>4 DEF FLt, Zero, Whole, Finite
<1>6. ~FEq(a, Zero)
  BY <1>2, <1>3, <1>4 DEF FEq, Zero, Whole
<1> QED BY <1>5, <1>6 DEF FLe

\* What the interpreter checks of the noises.
LEMMA NoisePositive ==
  ASSUME NEW a, IsReal(a)
  PROVE  /\ FLt(Zero, a) => IsPositive(a)
         /\ FLe(Zero, a) => IsPositive(a) \/ a = Zero
<1>1. a \in Int \X (Nat \ {0}) /\ Is(a, a[1], a[2])
  BY DEF IsReal, Is
<1>2. ASSUME FLt(Zero, a) PROVE IsPositive(a)
  <2>1. a[1] > 0
    BY <1>1, <1>2 DEF FLt, Zero, Whole, Finite
  <2>2. a[1] \in Nat \ {0}
    BY <1>1, <2>1
  <2> QED BY <1>1, <2>2 DEF IsPositive
<1> QED BY <1>2 DEF FLe, FEq

\* A positive number plus one that is not negative.
LEMMA PositiveSum ==
  ASSUME NEW a, NEW b, IsPositive(a), IsPositive(b) \/ b = Zero
  PROVE  IsPositive(FAdd(a, b))
<1>1. PICK k, d : k \in Nat \ {0} /\ Is(a, k, d)
  BY DEF IsPositive
<1>2. PICK m, e : m \in Nat /\ Is(b, m, e)
  <2>1. CASE b = Zero
    <3>1. Is(Zero, 0, 1) /\ 0 \in Nat
      BY WholeIs DEF Zero
    <3> QED BY <2>1, <3>1
  <2>2. CASE IsPositive(b)
    BY <2>2 DEF IsPositive
  <2> QED BY <2>1, <2>2
<1>3. d \in Nat \ {0} /\ e \in Nat \ {0}
  BY <1>1, <1>2 DEF Is
<1>4. k * e \in Nat \ {0} /\ m * d \in Nat
  <2>1. m * d \in Nat
    BY <1>2, <1>3
  <2> QED BY <1>1, <1>3, <2>1, Positive
<1>5. k * e + m * d \in Nat \ {0}
  <2> DEFINE u == k * e
             v == m * d
  <2>1. u \in Nat \ {0} /\ v \in Nat
    BY <1>4
  <2> HIDE DEF u, v
  <2>2. u + v \in Nat \ {0}
    BY <2>1
  <2> QED BY <2>2 DEF u, v
<1>6. Is(FAdd(a, b), k * e + m * d, d * e)
  BY <1>1, <1>2, Sum
<1> QED BY <1>5, <1>6 DEF IsPositive

\* The variance and the gain of the information form, and of the code, for a
\* prediction a/d with the derivative p/d^2 and a noise b/c with r/c^2.
Total2(a, d, b, c) == a * c + b * d
VarP(a, p, b, r) == p * (b * b) + r * (a * a)
GainTop(a, d, p, b, c, r) == p * (b * c) - r * (a * d)

\* Their types.
LEMMA FilterInts ==
  ASSUME NEW a \in Nat \ {0}, NEW d \in Nat \ {0}, NEW p \in Int,
         NEW b \in Nat \ {0}, NEW c \in Nat \ {0}, NEW r \in Int
  PROVE  /\ Total2(a, d, b, c) \in Nat \ {0} /\ VarP(a, p, b, r) \in Int
         /\ GainTop(a, d, p, b, c, r) \in Int
<1>1. a * c \in Nat \ {0} /\ b * d \in Nat \ {0}
  BY Positive
<1>2. a * c + b * d \in Nat \ {0}
  <2> DEFINE u == a * c
             v == b * d
  <2> HIDE DEF u, v
  <2>1. u \in Nat \ {0} /\ v \in Nat \ {0} => u + v \in Nat \ {0}
    OBVIOUS
  <2> QED BY <1>1, <2>1 DEF u, v
<1>3. p * (b * b) + r * (a * a) \in Int
  OBVIOUS
<1>4. p * (b * c) - r * (a * d) \in Int
  OBVIOUS
<1> QED BY <1>2, <1>3, <1>4 DEF Total2, VarP, GainTop

\* The variance of the information form.
LEMMA InformationVariance ==
  ASSUME NEW P, NEW a \in Nat \ {0}, NEW d, NEW p, DualIs(P, a, d, p),
         NEW R, NEW b \in Nat \ {0}, NEW c, NEW r, DualIs(R, b, c, r)
  PROVE  DualIs(DDiv(DOne, DAdd(DDiv(DOne, P), DDiv(DOne, R))),
                a * b, Total2(a, d, b, c), VarP(a, p, b, r))
<1>1. d \in Nat \ {0} /\ p \in Int /\ c \in Nat \ {0} /\ r \in Int
  BY DualInts
<1>2. DualIs(DDiv(DOne, P), d, a, -p) /\ DualIs(DDiv(DOne, R), c, b, -r)
  BY DualInverse
<1> DEFINE S == DAdd(DDiv(DOne, P), DDiv(DOne, R))
           D == Total2(a, d, b, c)
           Z == (-p) * (b * b) + (-r) * (a * a)
<1>3. DualIs(S, d * b + c * a, a * b, Z)
  BY <1>2, DualSum
<1>4. d * b + c * a = D /\ D \in Nat \ {0}
  <2>1. d * b + c * a = a * c + b * d
    BY <1>1
  <2>2. D \in Nat \ {0}
    BY <1>1, FilterInts
  <2> QED BY <2>1, <2>2 DEF Total2
<1>5. -Z = VarP(a, p, b, r)
  <2>1. -((-p) * (b * b) + (-r) * (a * a)) = p * (b * b) + r * (a * a)
    BY <1>1
  <2> QED BY <2>1 DEF VarP
<1> HIDE DEF S, D, Z
<1>6. DualIs(S, D, a * b, Z)
  BY <1>3, <1>4
<1>7. DualIs(DDiv(DOne, S), a * b, D, -Z)
  BY <1>4, <1>6, DualInverse
<1> QED BY <1>5, <1>7 DEF S, D

\* Its gain.
LEMMA InformationGain ==
  ASSUME NEW a \in Nat \ {0}, NEW d \in Nat \ {0}, NEW p \in Int,
         NEW R, NEW b \in Nat \ {0}, NEW c, NEW r, DualIs(R, b, c, r), NEW new,
         DualIs(new, a * b, Total2(a, d, b, c), VarP(a, p, b, r))
  PROVE  DualIs(DDiv(new, R), a * c, Total2(a, d, b, c), GainTop(a, d, p, b, c, r))
<1> DEFINE D == Total2(a, d, b, c)
           Z == VarP(a, p, b, r)
           G == GainTop(a, d, p, b, c, r)
           N == Z * (b * c) - r * ((a * b) * D)
<1>1. c \in Nat \ {0} /\ r \in Int
  BY DualInts
<1>2. D \in Nat \ {0} /\ Z \in Int /\ G \in Int
  BY <1>1, FilterInts
<1>3. N = (b * b) * G
  <2>1. (p * (b * b) + r * (a * a)) * (b * c) - r * ((a * b) * (a * c + b * d))
        = (b * b) * (p * (b * c) - r * (a * d))
    BY <1>1
  <2> QED BY <2>1 DEF Total2, VarP, GainTop
<1> HIDE DEF D, Z, G
<1>4. DualIs(new, a * b, D, Z)
  BY DEF D, Z
<1>5. DualIs(DDiv(new, R), (a * b) * c, D * b, N)
  BY <1>4, DualRatio
<1> HIDE DEF N
<1>6. Is(DDiv(new, R).v, (a * b) * c, D * b) /\ Is(DDiv(new, R).d, N, (D * b) * (D * b))
  BY <1>5 DEF DualIs
<1>7. Is(DDiv(new, R).v, a * c, D)
  <2>1. ((a * b) * c) * D = (a * c) * (D * b) /\ a * c \in Int
    BY <1>1, <1>2
  <2> QED BY <1>2, <1>6, <2>1, Rescale
<1>8. Is(DDiv(new, R).d, G, D * D)
  <2>1. D * D \in Nat \ {0}
    BY <1>2, Positive
  <2>2. N * (D * D) = G * ((D * b) * (D * b))
    <3>1. ((b * b) * G) * (D * D) = G * ((D * b) * (D * b))
      BY <1>2
    <3> QED BY <1>3, <3>1
  <2> QED BY <1>2, <1>6, <2>1, <2>2, Rescale
<1> QED BY <1>7, <1>8 DEF DualIs, D, G

\* The gain of the code.
LEMMA CodeGain ==
  ASSUME NEW P, NEW a \in Nat \ {0}, NEW d, NEW p, DualIs(P, a, d, p),
         NEW R, NEW b \in Nat \ {0}, NEW c, NEW r, DualIs(R, b, c, r)
  PROVE  /\ DualIs(DDiv(P, DAdd(P, R)), a * c, Total2(a, d, b, c),
                   GainTop(a, d, p, b, c, r))
         /\ IsPositive(DAdd(P, R).v)
<1> DEFINE D == Total2(a, d, b, c)
           G == GainTop(a, d, p, b, c, r)
           E == p * (c * c) + r * (d * d)
           N == p * (D * (d * c)) - E * (a * d)
           k == DDiv(P, DAdd(P, R))
<1>1. d \in Nat \ {0} /\ p \in Int /\ c \in Nat \ {0} /\ r \in Int
  BY DualInts
<1>2. D \in Nat \ {0} /\ G \in Int
  BY <1>1, FilterInts
<1>3. DualIs(DAdd(P, R), D, d * c, E)
  BY DualSum DEF Total2
<1>4. N = (d * d) * G
  <2>1. p * ((a * c + b * d) * (d * c)) - (p * (c * c) + r * (d * d)) * (a * d)
        = (d * d) * (p * (b * c) - r * (a * d))
    BY <1>1
  <2> QED BY <2>1 DEF Total2, GainTop
<1> HIDE DEF D, G, E
<1>5. DualIs(k, a * (d * c), d * D, N)
  BY <1>2, <1>3, DualRatio
<1> HIDE DEF N, k
<1>6. Is(k.v, a * (d * c), d * D) /\ Is(k.d, N, (d * D) * (d * D))
  BY <1>5 DEF DualIs
<1>7. Is(k.v, a * c, D)
  <2>1. (a * (d * c)) * D = (a * c) * (d * D) /\ a * c \in Int
    BY <1>1, <1>2
  <2> QED BY <1>2, <1>6, <2>1, Rescale
<1>8. Is(k.d, G, D * D)
  <2>1. D * D \in Nat \ {0}
    BY <1>2, Positive
  <2>2. N * (D * D) = G * ((d * D) * (d * D))
    <3>1. ((d * d) * G) * (D * D) = G * ((d * D) * (d * D))
      BY <1>1, <1>2
    <3> QED BY <1>4, <3>1
  <2> QED BY <1>2, <1>6, <2>1, <2>2, Rescale
<1>9. IsPositive(DAdd(P, R).v)
  BY <1>2, <1>3 DEF DualIs, IsPositive
<1> QED BY <1>7, <1>8, <1>9 DEF DualIs, D, G, k

\* The variance of the code, from its gain.
LEMMA CodeVariance ==
  ASSUME NEW P, NEW a \in Nat \ {0}, NEW d, NEW p, DualIs(P, a, d, p),
         NEW b \in Nat \ {0}, NEW c \in Nat \ {0}, NEW r \in Int, NEW k,
         DualIs(k, a * c, Total2(a, d, b, c), GainTop(a, d, p, b, c, r))
  PROVE  /\ Is(FMul(FSub(One, k.v), P.v), a * b, Total2(a, d, b, c))
         /\ Is(FSub(FMul(FSub(One, k.v), P.d), FMul(k.d, P.v)), VarP(a, p, b, r),
               Total2(a, d, b, c) * Total2(a, d, b, c))
<1> DEFINE D == Total2(a, d, b, c)
           G == GainTop(a, d, p, b, c, r)
           Z == VarP(a, p, b, r)
           s == FSub(One, k.v)
<1>1. d \in Nat \ {0} /\ p \in Int
  BY DualInts
<1>2. D \in Nat \ {0} /\ G \in Int /\ Z \in Int /\ D * D \in Nat \ {0}
  <2>1. D \in Nat \ {0} /\ G \in Int /\ Z \in Int
    BY <1>1, FilterInts
  <2> HIDE DEF D, G, Z
  <2> QED BY <2>1, Positive
<1>3. D - a * c = b * d
  BY <1>1 DEF Total2
<1>4. (b * p) * D - G * a = d * Z
  <2>1. (b * p) * (a * c + b * d) - (p * (b * c) - r * (a * d)) * a
        = d * (p * (b * b) + r * (a * a))
    BY <1>1
  <2> QED BY <2>1 DEF Total2, GainTop, VarP
<1>5. Is(k.v, a * c, D) /\ Is(k.d, G, D * D) /\ Is(P.v, a, d) /\ Is(P.d, p, d * d)
  BY DEF DualIs
<1> HIDE DEF D, G, Z
<1>6. Is(s, b * d, D)
  <2>1. Is(One, 1, 1)
    BY WholeIs DEF One
  <2>2. Is(s, 1 * D - (a * c) * 1, 1 * D)
    BY <1>5, <2>1, Difference
  <2>3. 1 * D - (a * c) * 1 = D - a * c /\ 1 * D = D
    BY <1>2
  <2> QED BY <1>3, <2>2, <2>3
<1> HIDE DEF s
<1>7. Is(FMul(s, P.v), a * b, D)
  <2>1. Is(FMul(s, P.v), (b * d) * a, D * d)
    BY <1>5, <1>6, Product
  <2>2. ((b * d) * a) * D = (a * b) * (D * d) /\ a * b \in Int
    BY <1>1, <1>2
  <2> QED BY <1>2, <2>1, <2>2, Rescale
<1> DEFINE L == D * D
           Q == d * d
           N == ((b * d) * p) * (L * d) - (G * a) * (D * Q)
           M == (D * Q) * (L * d)
<1>8. Is(FMul(s, P.d), (b * d) * p, D * Q) /\ Is(FMul(k.d, P.v), G * a, L * d)
  BY <1>5, <1>6, Product
<1>9. N = (D * Q) * (d * Z)
  <2>1. N = (D * Q) * ((b * p) * D - G * a)
    BY <1>1, <1>2
  <2> HIDE DEF N, Q
  <2> QED BY <1>4, <2>1
<1>10. ((D * Q) * (d * Z)) * L = Z * M
  BY <1>1, <1>2
<1>11. N * L = Z * M
  <2> HIDE DEF N, L, Q, M
  <2> QED BY <1>9, <1>10
<1>12. L \in Nat \ {0}
  BY <1>2
<1> HIDE DEF L, Q
<1>13. Is(FSub(FMul(s, P.d), FMul(k.d, P.v)), N, M)
  BY <1>8, Difference
<1> HIDE DEF N, M
<1>14. Is(FSub(FMul(s, P.d), FMul(k.d, P.v)), Z, L)
  BY <1>2, <1>11, <1>12, <1>13, Rescale
<1> QED BY <1>7, <1>14 DEF s, D, Z, L

\* The states of the code that stand for a state of the filter.
KalmanPrimal(f) == [init |-> TRUE, xhat |-> f.xhat.v, p |-> f.p.v]
KalmanGrad(f) == [xhat |-> f.xhat.d, p |-> f.p.d]

\* A state of the filter: an estimate and a positive variance, with derivatives.
IsFilter(f) == IsDual(f.p) /\ IsDual(f.xhat) /\ IsPositive(f.p.v)

\* What the interpreter's check of the noises ensures.
NoisesFit(q, r) ==
  IsDual(q) /\ IsDual(r) /\ IsPositive(r.v) /\ (IsPositive(q.v) \/ q.v = Zero)

\* The step of the code, with its prediction and its gain as duals.
LEMMA KalmanCode ==
  ASSUME NEW f, NEW x, NEW q, NEW r, IsPositive(DAdd(DAdd(f.p, q), r).v),
         NEW P, P = DAdd(f.p, q), NEW K, K = DDiv(P, DAdd(P, r)),
         NEW V, V = FMul(FSub(One, K.v), P.v), IsPositive(V),
         NEW W, W = FSub(FMul(FSub(One, K.v), P.d), FMul(K.d, P.v)),
         NEW y, y = DSub(x, f.xhat)
  PROVE  KalmanGradStep(KalmanPrimal(f), KalmanGrad(f), x, q, r) =
           [primal |-> [init |-> TRUE, xhat |-> FAdd(f.xhat.v, FMul(K.v, y.v)), p |-> V],
            grad |-> [xhat |-> FAdd(f.xhat.d, FAdd(FMul(K.d, y.v), FMul(K.v, y.d))), p |-> W]]
<1> DEFINE A == KalmanPrimal(f)
           G == KalmanGrad(f)
           pPred == FAdd(A.p, q.v)
           pPredP == FAdd(G.p, q.d)
           denom == FAdd(pPred, r.v)
           k == FDiv(pPred, denom)
           kP == GainP(pPred, pPredP, denom, FAdd(pPredP, r.d))
           innov == FSub(x.v, A.xhat)
           new == FMul(FSub(One, k), pPred)
           newP == FSub(FMul(FSub(One, k), pPredP), FMul(kP, pPred))
           cut == FLt(new, Zero)
           res == [primal |-> [A EXCEPT !.xhat = FAdd(@, FMul(k, innov)),
                                        !.p = IF cut THEN Zero ELSE new],
                   grad |-> [xhat |-> FAdd(G.xhat, FAdd(FMul(kP, innov),
                                                        FMul(k, FSub(x.d, G.xhat)))),
                             p |-> IF cut THEN Zero ELSE newP]]
<1>1. A.init = TRUE /\ A.xhat = f.xhat.v /\ A.p = f.p.v /\ G.xhat = f.xhat.d /\ G.p = f.p.d
  BY DEF KalmanPrimal, KalmanGrad
<1>2. pPred = P.v /\ pPredP = P.d
  BY <1>1, DualParts
<1>3. denom = DAdd(P, r).v /\ FAdd(pPredP, r.d) = DAdd(P, r).d
  BY <1>2, DualParts
<1>4. k = K.v /\ kP = K.d
  BY <1>2, <1>3 DEF DDiv, Dual, GainP
<1>5. innov = y.v /\ FSub(x.d, G.xhat) = y.d
  BY <1>1, DualParts
<1>6. new = V /\ newP = W
  BY <1>2, <1>4
<1>7. ~cut /\ ~FLe(denom, Zero)
  <2>1. IsPositive(denom)
    BY <1>3
  <2> HIDE DEF denom
  <2> QED BY <1>6, <2>1, PositiveAbove
<1>8. KalmanGradStep(A, G, x, q, r) =
        IF ~A.init THEN [primal |-> [init |-> TRUE, xhat |-> x.v, p |-> r.v],
                         grad |-> [xhat |-> x.d, p |-> r.d]]
        ELSE IF FLe(denom, Zero) THEN [primal |-> A, grad |-> G] ELSE res
  BY DEF KalmanGradStep
<1>9. KalmanGradStep(A, G, x, q, r) = res
  BY <1>1, <1>7, <1>8
<1> HIDE DEF cut, new, newP, k, kP, innov, denom, pPred, pPredP
<1>10. [A EXCEPT !.xhat = FAdd(@, FMul(k, innov)), !.p = new]
       = [init |-> TRUE, xhat |-> FAdd(f.xhat.v, FMul(k, innov)), p |-> new]
  <2> DEFINE u == [A EXCEPT !.xhat = FAdd(@, FMul(k, innov)), !.p = new]
  <2>1. DOMAIN A = {"init", "xhat", "p"}
    BY DEF KalmanPrimal
  <2>2. DOMAIN u = {"init", "xhat", "p"} /\ u = [j \in DOMAIN u |-> u[j]]
    BY <2>1
  <2>3. u.init = TRUE /\ u.xhat = FAdd(f.xhat.v, FMul(k, innov)) /\ u.p = new
    BY <1>1, <2>1
  <2> HIDE DEF u
  <2>4. u = [init |-> TRUE, xhat |-> FAdd(f.xhat.v, FMul(k, innov)), p |-> new]
    BY <2>2, <2>3
  <2> QED BY <2>4 DEF u
<1>11. res.primal = [init |-> TRUE, xhat |-> FAdd(f.xhat.v, FMul(k, innov)), p |-> new]
  BY <1>7, <1>10
<1>12. res = [primal |-> [init |-> TRUE, xhat |-> FAdd(f.xhat.v, FMul(k, innov)), p |-> new],
              grad |-> [xhat |-> FAdd(f.xhat.d, FAdd(FMul(kP, innov), FMul(k, FSub(x.d, G.xhat)))),
                        p |-> newP]]
  BY <1>1, <1>7, <1>11
<1> QED BY <1>4, <1>5, <1>6, <1>9, <1>12

\* The step of the code is the one of the information form, differentiated.
LEMMA KalmanFollows ==
  ASSUME NEW f, IsFilter(f), NEW x, IsDual(x), NEW q, NEW r, NoisesFit(q, r)
  PROVE  LET g == FilterNext(f, x, q, r)
         IN  /\ KalmanGradStep(KalmanPrimal(f), KalmanGrad(f), x, q, r) =
                  [primal |-> KalmanPrimal(g), grad |-> KalmanGrad(g)]
             /\ IsFilter(g)
<1> DEFINE g == FilterNext(f, x, q, r)
           P == DAdd(f.p, q)
           new == DDiv(DOne, DAdd(DDiv(DOne, P), DDiv(DOne, r)))
           gain == DDiv(new, r)
           K == DDiv(P, DAdd(P, r))
           V == FMul(FSub(One, K.v), P.v)
           W == FSub(FMul(FSub(One, K.v), P.d), FMul(K.d, P.v))
           y == DSub(x, f.xhat)
<1>1. IsDual(f.p) /\ IsDual(f.xhat) /\ IsPositive(f.p.v) /\ IsDual(q) /\ IsDual(r)
      /\ IsPositive(r.v) /\ (IsPositive(q.v) \/ q.v = Zero)
  BY DEF IsFilter, NoisesFit
<1>2. IsDual(P) /\ IsPositive(P.v)
  <2>1. IsPositive(FAdd(f.p.v, q.v))
    BY <1>1, PositiveSum
  <2> QED BY <1>1, <2>1, DualClosed, DualParts
<1>3. IsDual(y)
  BY <1>1, DualClosed
<1>4. g.p = new /\ g.xhat = DAdd(f.xhat, DMul(gain, y))
  BY DEF FilterNext
<1> HIDE DEF P, y
<1>5. PICK a, d, p : a \in Nat \ {0} /\ DualIs(P, a, d, p)
  BY <1>2, DualFraction
<1>6. PICK b, c, s : b \in Nat \ {0} /\ DualIs(r, b, c, s)
  BY <1>1, DualFraction
<1>7. d \in Nat \ {0} /\ p \in Int /\ c \in Nat \ {0} /\ s \in Int
  BY <1>5, <1>6, DualInts
<1> DEFINE D == Total2(a, d, b, c)
           Z == VarP(a, p, b, s)
           G == GainTop(a, d, p, b, c, s)
<1>8. DualIs(new, a * b, D, Z)
  BY <1>5, <1>6, InformationVariance
<1> HIDE DEF new
<1>9. DualIs(gain, a * c, D, G)
  BY <1>5, <1>6, <1>7, <1>8, InformationGain
<1>10. DualIs(K, a * c, D, G) /\ IsPositive(DAdd(P, r).v)
  BY <1>5, <1>6, CodeGain
<1> HIDE DEF K, gain
<1>11. Is(V, a * b, D) /\ Is(W, Z, D * D)
  BY <1>5, <1>6, <1>7, <1>10, CodeVariance
<1> HIDE DEF V, W, D, Z, G
<1>12. K.v = gain.v /\ K.d = gain.d
  BY <1>9, <1>10 DEF DualIs, Is
<1>13. V = new.v /\ W = new.d
  BY <1>8, <1>11 DEF DualIs, Is
<1>14. a * b \in Nat \ {0}
  BY <1>5, <1>6, Positive
<1>15. IsPositive(V)
  BY <1>11, <1>14 DEF IsPositive
<1>16. IsDual(new) /\ IsDual(gain)
  <2>1. /\ IsNumber(new.v) /\ IsNumber(new.d) /\ IsNumber(gain.v) /\ IsNumber(gain.d)
    BY <1>8, <1>9 DEF DualIs, IsNumber
  <2>2. new = Dual(new.v, new.d) /\ gain = Dual(gain.v, gain.d)
    BY DEF new, gain, DDiv, Dual
  <2> QED BY <2>1, <2>2 DEF IsDual
<1>17. IsDual(g.xhat)
  <2>1. IsDual(DMul(gain, y))
    BY <1>3, <1>16, DualClosed
  <2> QED BY <1>1, <1>4, <2>1, DualClosed
<1>18. /\ g.xhat.v = FAdd(f.xhat.v, FMul(gain.v, y.v))
       /\ g.xhat.d = FAdd(f.xhat.d, FAdd(FMul(gain.d, y.v), FMul(gain.v, y.d)))
  BY <1>4, DualParts
<1>19. KalmanGradStep(KalmanPrimal(f), KalmanGrad(f), x, q, r) =
         [primal |-> [init |-> TRUE, xhat |-> FAdd(f.xhat.v, FMul(K.v, y.v)), p |-> V],
          grad |-> [xhat |-> FAdd(f.xhat.d, FAdd(FMul(K.d, y.v), FMul(K.v, y.d))), p |-> W]]
  BY <1>10, <1>15, KalmanCode DEF P, K, V, W, y
<1>20. IsFilter(g)
  BY <1>4, <1>13, <1>15, <1>16, <1>17 DEF IsFilter
<1>21. KalmanGradStep(KalmanPrimal(f), KalmanGrad(f), x, q, r) =
         [primal |-> KalmanPrimal(g), grad |-> KalmanGrad(g)]
  BY <1>4, <1>12, <1>13, <1>18, <1>19 DEF KalmanPrimal, KalmanGrad
<1> QED BY <1>20, <1>21

-----------------------------------------------------------------------------
(* The calls that keep no window *)

Unwindowed == {"ema", "kalman1d"} \cup Crosses

\* What a cross operator returns, from the operands of the last two ticks.
Up(op, i) == IF op = "cross_above" THEN FLt(i.y.v, i.x.v) ELSE FLt(i.x.v, i.y.v)
Known(i) == Nan \notin {i.x.v, i.y.v}
CrossOf(op, h) ==
  Dual(IF /\ Len(h) > 1 /\ Up(op, h[Len(h)]) /\ ~Up(op, h[Len(h) - 1])
          /\ Known(h[Len(h) - 1])
       THEN One ELSE Zero, Zero)

EmaSens ==
  LET e == EmaOf(hist, node.alpha)
  IN  primal = [init |-> TRUE, value |-> e.v] /\ grad = e.d /\ out = e

KalmanSens ==
  LET f == FilterOf(hist, node.q, node.r)
  IN  ValidNoise => /\ IsFilter(f) /\ primal = KalmanPrimal(f) /\ grad = KalmanGrad(f)
                    /\ out = f.xhat

CrossSens ==
  /\ primal = [init |-> TRUE, a |-> hist[n].x.v, b |-> hist[n].y.v]
  /\ out = CrossOf(node.op, hist)

SensInv ==
  node.op \in Unwindowed =>
    /\ node \in Nodes /\ hist \in Seq(Inputs[node.op])
    /\ n = 0 => primal = PrimalInit(node, mode) /\ grad = SensitivityInit(node)
    /\ n > 0 => /\ node.op = "ema" => EmaSens
                /\ node.op = "kalman1d" => KalmanSens
                /\ node.op \in Crosses => CrossSens

\* At most is not above, of numbers.
LEMMA NotAbove ==
  ASSUME NEW a, NEW b, IsReal(a) \/ a = Nan, IsReal(b) \/ b = Nan
  PROVE  FLe(a, b) <=> ~FLt(b, a) /\ Nan \notin {a, b}
<1>1. CASE Nan \in {a, b}
  BY <1>1 DEF FLe, FLt, FEq
<1>2. CASE Nan \notin {a, b}
  <2>1. IsReal(a) /\ IsReal(b)
    BY <1>2
  <2>2. a \in Int \X (Nat \ {0}) /\ b \in Int \X (Nat \ {0})
    BY <2>1 DEF IsReal
  <2>3. Is(a, a[1], a[2]) /\ Is(b, b[1], b[2])
    BY <2>1 DEF IsReal, Is
  <2> DEFINE L == a[1] * b[2]
             R == b[1] * a[2]
  <2>4. L \in Int /\ R \in Int
    BY <2>2
  <2>5. Finite(a) /\ Finite(b)
    BY <2>2 DEF Finite
  <2>6. (FLt(a, b) <=> L < R) /\ (FLt(b, a) <=> R < L)
    BY <1>2, <2>5 DEF FLt
  <2>7. L = R => a = b
    BY <2>3, Same
  <2>8. a = b => L = R
    OBVIOUS
  <2>9. FEq(a, b) <=> L = R
    BY <1>2, <2>7, <2>8 DEF FEq
  <2> HIDE DEF L, R
  <2>10. FLe(a, b) <=> ~(R < L)
    BY <2>4, <2>6, <2>9 DEF FLe
  <2> QED BY <1>2, <2>6, <2>10
<1> QED BY <1>1, <1>2

\* The operands and parameters of ema and kalman1d are duals.
LEMMA OperandsAreDuals ==
  ASSUME NEW nd \in Nodes, nd.op \in {"ema", "kalman1d"}
  PROVE  /\ \A i \in Inputs[nd.op] : IsDual(i.x)
         /\ nd.op = "ema" => IsDual(nd.alpha)
         /\ nd.op = "kalman1d" => IsDual(nd.q) /\ IsDual(nd.r)
BY RealAssumption, RealIsDual

\* The noises that the interpreter accepts.
LEMMA NoisesAccepted ==
  ASSUME NEW nd \in Nodes, nd.op = "kalman1d", FLe(Zero, nd.q.v), FLt(Zero, nd.r.v)
  PROVE  NoisesFit(nd.q, nd.r)
<1>1. RealDual(nd.q) /\ RealDual(nd.r)
  BY RealAssumption
<1>2. IsReal(nd.q.v) /\ IsReal(nd.r.v)
  BY <1>1 DEF RealDual
<1>3. IsPositive(nd.r.v) /\ (IsPositive(nd.q.v) \/ nd.q.v = Zero)
  BY <1>2, NoisePositive
<1> QED BY <1>1, <1>3, RealIsDual DEF NoisesFit

\* A history of such operands.
LEMMA HistoryOfDuals ==
  ASSUME NEW nd \in Nodes, nd.op \in {"ema", "kalman1d"}, NEW h \in Seq(Inputs[nd.op])
  PROVE  DualSamples(h)
<1>1. \A k \in 1 .. Len(h) : h[k] \in Inputs[nd.op]
  OBVIOUS
<1> QED BY <1>1, OperandsAreDuals DEF DualSamples

\* A tick of ema.
LEMMA EmaSensStep ==
  ASSUME node \in Nodes, node.op = "ema", hist \in Seq(Inputs[node.op]), SensInv,
         NEW i \in Inputs[node.op], TickEma(i)
  PROVE  EmaSens'
<1> DEFINE I == Inputs[node.op]
           a == node.alpha
           e == EmaOf(hist, a)
           f == EmaOf(Append(hist, i), a)
           m == Len(hist)
<1>1. /\ hist' = Append(hist, i) /\ node' = node
      /\ primal' = EmaGradStep(primal, grad, i.x, a).primal
      /\ grad' = EmaGradStep(primal, grad, i.x, a).grad
      /\ out' = Dual(primal'.value, grad')
  BY DEF TickEma, Fed, Stepped
<1>2. IsDual(i.x) /\ IsDual(a) /\ DualSamples(hist)
  BY OperandsAreDuals, HistoryOfDuals
<1>3. /\ Append(hist, i) \in Seq(I) /\ Len(Append(hist, i)) = m + 1 /\ m \in Nat
      /\ Append(hist, i)[m + 1] = i
  BY Appended
<1>4. DualSamples(Append(hist, i))
  BY <1>3, HistoryOfDuals
<1>5. IsDual(f)
  BY <1>2, <1>3, <1>4, EmaIsDual
<1>6. EmaGradStep(primal, grad, i.x, a) =
        [primal |-> [init |-> TRUE, value |-> f.v], grad |-> f.d]
  <2>1. CASE m = 0
    <3>1. primal = FreshEma
      <4>1. primal = PrimalInit(node, mode)
        BY <2>1 DEF SensInv, Unwindowed, n
      <4>2. PrimalInit(node, mode) = FreshEma
        BY DEF PrimalInit, Deviations, Pairs, Extrema, Crosses
      <4> QED BY <4>1, <4>2
    <3>2. EmaGradStep(primal, grad, i.x, a) =
            [primal |-> [init |-> TRUE, value |-> i.x.v], grad |-> i.x.d]
      BY <3>1 DEF EmaGradStep, FreshEma
    <3>3. Len(Append(hist, i)) = 1 /\ Append(hist, i)[1] = i
      BY <1>3, <2>1
    <3>4. f = i.x
      BY <1>2, <1>3, <1>4, <3>3, EmaFirst
    <3> QED BY <3>2, <3>4
  <2>2. CASE m > 0
    <3>1. EmaSens
      BY <2>2 DEF SensInv, Unwindowed, n
    <3>2. primal = [init |-> TRUE, value |-> e.v] /\ grad = e.d
      BY <3>1 DEF EmaSens
    <3>3. IsDual(e)
      BY <1>2, EmaIsDual
    <3>4. f = DAdd(DMul(e, DSub(DOne, a)), DMul(i.x, a))
      BY <1>2, <2>2, EmaNext
    <3> HIDE DEF e, f, a
    <3>5. EmaGradStep([init |-> TRUE, value |-> e.v], e.d, i.x, a) =
            [primal |-> [init |-> TRUE, value |-> f.v], grad |-> f.d]
      BY <1>2, <3>3, <3>4, EmaBlends
    <3> QED BY <3>2, <3>5
  <2> QED BY <1>3, <2>1, <2>2
<1>7. f = Dual(f.v, f.d)
  BY <1>5 DEF IsDual
<1> HIDE DEF f
<1>8. primal' = [init |-> TRUE, value |-> f.v] /\ grad' = f.d /\ out' = f
  BY <1>1, <1>6, <1>7
<1>9. EmaOf(hist, node.alpha)' = f
  BY <1>1 DEF f
<1> QED BY <1>8, <1>9 DEF EmaSens

\* A tick of kalman1d.
LEMMA KalmanSensStep ==
  ASSUME node \in Nodes, node.op = "kalman1d", hist \in Seq(Inputs[node.op]), SensInv,
         NEW i \in Inputs[node.op], TickKalman(i)
  PROVE  KalmanSens'
<1> DEFINE I == Inputs[node.op]
           q == node.q
           r == node.r
           f == FilterOf(hist, q, r)
           g == FilterOf(Append(hist, i), q, r)
           m == Len(hist)
           s == KalmanGradStep(primal, grad, i.x, q, r)
<1>1. hist' = Append(hist, i) /\ node' = node /\ mode' = mode
  BY DEF TickKalman, Fed
<1>2. IF mode = "interp" /\ ~ValidNoise THEN out' = Rejected
      ELSE /\ primal' = s.primal /\ grad' = s.grad
           /\ out' = Dual(primal'.xhat, grad'.xhat)
  BY DEF TickKalman, Stepped
<1>3. ValidNoise' = ValidNoise /\ FilterOf(hist, node.q, node.r)' = g
  BY <1>1 DEF ValidNoise
<1>4. CASE ~ValidNoise
  BY <1>3, <1>4 DEF KalmanSens
<1>5. CASE ValidNoise
  <2>1. NoisesFit(q, r) /\ IsDual(i.x) /\ IsDual(r)
    BY <1>5, NoisesAccepted, OperandsAreDuals DEF ValidNoise
  <2>2. /\ Append(hist, i) \in Seq(I) /\ Len(Append(hist, i)) = m + 1 /\ m \in Nat
        /\ Append(hist, i)[m + 1] = i
    BY Appended
  <2>3. s = [primal |-> KalmanPrimal(g), grad |-> KalmanGrad(g)] /\ IsFilter(g)
    <3>1. CASE m = 0
      <4>1. primal = FreshKalman
        <5>1. primal = PrimalInit(node, mode)
          BY <3>1 DEF SensInv, Unwindowed, n
        <5>2. PrimalInit(node, mode) = FreshKalman
          BY DEF PrimalInit, Deviations, Pairs, Extrema, Crosses
        <5> QED BY <5>1, <5>2
      <4>2. s = [primal |-> [init |-> TRUE, xhat |-> i.x.v, p |-> r.v],
                 grad |-> [xhat |-> i.x.d, p |-> r.d]]
        BY <4>1 DEF KalmanGradStep, FreshKalman
      <4>3. Len(Append(hist, i)) = 1 /\ Append(hist, i)[1] = i
        BY <2>2, <3>1
      <4>4. g = [p |-> r, xhat |-> i.x]
        BY <2>2, <4>3, FilterOne
      <4> HIDE DEF g, s, r, q
      <4>5. g.p = r /\ g.xhat = i.x
        BY <4>4
      <4>6. IsPositive(r.v)
        BY <2>1 DEF NoisesFit
      <4> QED BY <2>1, <4>2, <4>5, <4>6 DEF KalmanPrimal, KalmanGrad, IsFilter
    <3>2. CASE m > 0
      <4>1. KalmanSens
        BY <3>2 DEF SensInv, Unwindowed, n
      <4>2. IsFilter(f) /\ primal = KalmanPrimal(f) /\ grad = KalmanGrad(f)
        BY <1>5, <4>1 DEF KalmanSens
      <4>3. g = FilterNext(f, i.x, q, r)
        BY <3>2, FilterMore
      <4> HIDE DEF f, g, q, r
      <4> QED BY <2>1, <4>2, <4>3, KalmanFollows
    <3> QED BY <2>2, <3>1, <3>2
  <2> HIDE DEF g, s
  <2>4. primal' = KalmanPrimal(g) /\ grad' = KalmanGrad(g)
    BY <1>2, <1>5, <2>3
  <2>5. out' = g.xhat
    <3>1. primal'.xhat = g.xhat.v /\ grad'.xhat = g.xhat.d
      BY <2>4 DEF KalmanPrimal, KalmanGrad
    <3>2. g.xhat = Dual(g.xhat.v, g.xhat.d)
      BY <2>3 DEF IsFilter, IsDual
    <3> QED BY <1>2, <1>5, <3>1, <3>2
  <2> QED BY <1>3, <1>5, <2>3, <2>4, <2>5 DEF KalmanSens
<1> QED BY <1>4, <1>5

\* A tick of cross_above or cross_below.
LEMMA CrossSensStep ==
  ASSUME node \in Nodes, node.op \in Crosses, hist \in Seq(Inputs[node.op]), SensInv,
         NEW i \in Inputs[node.op], TickCross(i)
  PROVE  CrossSens'
<1> DEFINE op == node.op
           m == Len(hist)
           h == Append(hist, i)
<1>1. /\ hist' = h /\ node' = node
      /\ primal' = [init |-> TRUE, a |-> i.x.v, b |-> i.y.v]
      /\ out' = Dual(IF Crossed(op, primal, i.x.v, i.y.v) THEN One ELSE Zero, Zero)
  BY DEF TickCross, Fed
<1>2. /\ Len(h) = m + 1 /\ m \in Nat /\ h[m + 1] = i /\ \A k \in 1 .. m : h[k] = hist[k]
  BY Appended
<1>3. n' = m + 1 /\ hist'[n'] = i
  BY <1>1, <1>2 DEF n
<1>4. Crossed(op, primal, i.x.v, i.y.v) <=>
        m + 1 > 1 /\ Up(op, h[m + 1]) /\ ~Up(op, h[(m + 1) - 1]) /\ Known(h[(m + 1) - 1])
  <2>1. CASE m = 0
    <3>1. primal = FreshCross
      BY <2>1 DEF SensInv, Unwindowed, n, PrimalInit, Deviations, Pairs, Extrema, Crosses
    <3>2. ~primal.init
      BY <3>1 DEF FreshCross
    <3>3. ~(m + 1 > 1)
      BY <2>1
    <3> QED BY <3>2, <3>3 DEF Crossed
  <2>2. CASE m > 0
    <3> DEFINE j == hist[m]
               a == j.x.v
               b == j.y.v
    <3>1. CrossSens
      BY <2>2 DEF SensInv, Unwindowed, n
    <3>2. primal.init = TRUE /\ primal.a = a /\ primal.b = b
      BY <3>1 DEF CrossSens, n
    <3>3. m \in 1 .. m /\ (m + 1) - 1 = m /\ m + 1 > 1
      BY <1>2, <2>2
    <3>4. h[(m + 1) - 1] = j /\ j \in Inputs[op]
      BY <1>2, <3>3
    <3>5. (IsReal(a) \/ a = Nan) /\ (IsReal(b) \/ b = Nan)
      BY <3>4, RealAssumption
    <3> HIDE DEF a, b, j, m
    <3>6. /\ FLe(a, b) <=> ~FLt(b, a) /\ Nan \notin {a, b}
          /\ FLe(b, a) <=> ~FLt(a, b) /\ Nan \notin {b, a}
      BY <3>5, NotAbove
    <3>7. Known(j) <=> Nan \notin {a, b}
      BY DEF Known, a, b
    <3>8. CASE op = "cross_above"
      <4>1. Up(op, i) <=> FLt(i.y.v, i.x.v)
        BY <3>8 DEF Up
      <4>2. Up(op, j) <=> FLt(b, a)
        BY <3>8 DEF Up, a, b
      <4>3. Crossed(op, primal, i.x.v, i.y.v) <=> FLe(a, b) /\ FLt(i.y.v, i.x.v)
        BY <3>2, <3>8 DEF Crossed, LE
      <4> QED BY <1>2, <3>3, <3>4, <3>6, <3>7, <4>1, <4>2, <4>3
    <3>9. CASE op = "cross_below"
      <4>1. Up(op, i) <=> FLt(i.x.v, i.y.v)
        BY <3>9 DEF Up
      <4>2. Up(op, j) <=> FLt(a, b)
        BY <3>9 DEF Up, a, b
      <4>3. Crossed(op, primal, i.x.v, i.y.v) <=> FLe(b, a) /\ FLt(i.x.v, i.y.v)
        BY <3>2, <3>9 DEF Crossed, GE
      <4>4. Nan \notin {b, a} <=> Nan \notin {a, b}
        OBVIOUS
      <4> QED BY <1>2, <3>3, <3>4, <3>6, <3>7, <4>1, <4>2, <4>3, <4>4
    <3> QED BY <3>8, <3>9 DEF Crosses
  <2> QED BY <1>2, <2>1, <2>2
<1> HIDE DEF h
<1>5. out' = CrossOf(op, h)
  BY <1>1, <1>2, <1>4 DEF CrossOf
<1> QED BY <1>1, <1>3, <1>5 DEF CrossSens

\* Initially nothing has been fed.
LEMMA SensInit == Init => SensInv
<1> SUFFICES ASSUME Init, node.op \in Unwindowed
             PROVE  /\ node \in Nodes /\ hist \in Seq(Inputs[node.op])
                    /\ n = 0 /\ primal = PrimalInit(node, mode) /\ grad = SensitivityInit(node)
  BY DEF SensInv
<1> QED BY DEF Init, n

\* The states of ema, kalman1d and the cross operators, and what they return
\* with its derivative, are at every tick those of their histories.
THEOREM SensitivityInvariance == Spec => []SensInv
<1>1. ASSUME SensInv, [Next]_vars PROVE SensInv'
  <2>1. CASE UNCHANGED vars
    BY <1>1, <2>1 DEF vars, SensInv, EmaSens, KalmanSens, CrossSens, ValidNoise, n
  <2>2. CASE Next
    <3>1. PICK i \in Inputs[node.op] :
            \/ TickLag(i) \/ TickSma(i) \/ TickDeviation(i) \/ TickPair(i)
            \/ TickEma(i) \/ TickKalman(i) \/ TickExtremum(i) \/ TickCross(i)
      BY <2>2 DEF Next
    <3>2. hist' = Append(hist, i) /\ node' = node
      BY <3>1 DEF TickLag, TickSma, TickDeviation, TickPair, TickEma, TickKalman,
                  TickExtremum, TickCross, Fed
    <3> SUFFICES ASSUME node.op \in Unwindowed
                 PROVE  /\ hist' \in Seq(Inputs[node.op]) /\ n' # 0
                        /\ node \in Nodes
                        /\ node.op = "ema" => EmaSens'
                        /\ node.op = "kalman1d" => KalmanSens'
                        /\ node.op \in Crosses => CrossSens'
      BY <3>2 DEF SensInv
    <3>3. node \in Nodes /\ hist \in Seq(Inputs[node.op])
      BY <1>1 DEF SensInv
    <3>4. hist' \in Seq(Inputs[node.op]) /\ n' # 0
      <4>1. /\ Append(hist, i) \in Seq(Inputs[node.op]) /\ Len(hist) \in Nat
            /\ Len(Append(hist, i)) = Len(hist) + 1
        BY <3>3, Appended
      <4> QED BY <3>2, <4>1 DEF n
    <3>5. ASSUME node.op = "ema" PROVE EmaSens'
      <4>1. TickEma(i)
        BY <3>1, <3>5 DEF TickLag, TickSma, TickDeviation, TickPair, TickKalman,
                          TickExtremum, TickCross, Deviations, Pairs, Extrema, Crosses
      <4> QED BY <1>1, <3>3, <3>5, <4>1, EmaSensStep
    <3>6. ASSUME node.op = "kalman1d" PROVE KalmanSens'
      <4>1. TickKalman(i)
        BY <3>1, <3>6 DEF TickLag, TickSma, TickDeviation, TickPair, TickEma,
                          TickExtremum, TickCross, Deviations, Pairs, Extrema, Crosses
      <4> QED BY <1>1, <3>3, <3>6, <4>1, KalmanSensStep
    <3>7. ASSUME node.op \in Crosses PROVE CrossSens'
      <4>1. TickCross(i)
        BY <3>1, <3>7 DEF TickLag, TickSma, TickDeviation, TickPair, TickEma, TickKalman,
                          TickExtremum, Deviations, Pairs, Extrema, Crosses
      <4> QED BY <1>1, <3>3, <3>7, <4>1, CrossSensStep
    <3> QED BY <3>3, <3>4, <3>5, <3>6, <3>7
  <2> QED BY <1>1, <2>1, <2>2
<1> QED BY <1>1, SensInit, PTL DEF Spec

\* ema and kalman1d return the derivative of what they compute from the whole
\* history, for every history, alpha, valid q and r; the cross operators return 0
\* with their signal.
THEOREM RecurrenceSensitivitiesAlways == Spec => []RecurrenceSensitivities
<1>1. ASSUME SensInv PROVE RecurrenceSensitivities
  <2> SUFFICES ASSUME n > 0 PROVE RecurrenceSensitivities
    BY DEF RecurrenceSensitivities
  <2>1. /\ node.op = "ema" => EmaSens
        /\ node.op = "kalman1d" => KalmanSens
        /\ node.op \in Crosses => CrossSens
    BY <1>1 DEF SensInv, Unwindowed
  <2>2. node.op = "ema" => out = EmaOf(hist, node.alpha)
    BY <2>1 DEF EmaSens
  <2>3. node.op = "kalman1d" /\ ValidNoise => out = FilterOf(hist, node.q, node.r).xhat
    BY <2>1 DEF KalmanSens
  <2>4. node.op \in Crosses => out = CrossOf(node.op, hist)
    BY <2>1 DEF CrossSens
  <2> QED BY <2>2, <2>3, <2>4 DEF RecurrenceSensitivities, CrossOf, Up, Known, n
<1> QED BY <1>1, SensitivityInvariance, PTL

-----------------------------------------------------------------------------
(* Rings and the sums of their windows *)

\* A window of p samples after m: how many it holds and the first of them.
Size(m, p) == IF m < p THEN m ELSE p
First(m, p) == IF m < p THEN 1 ELSE m - p + 1

\* The ring holds the last p elements of f, which has m.
Held(st, f, m, p) ==
  /\ st.cap = p /\ st.head = m % p /\ st.count = Size(m, p) /\ DOMAIN st.buf = 0 .. p - 1
  /\ \A j \in 0 .. m - 1 : j + p >= m => st.buf[j % p] = f[j + 1]

\* The sum of the window.
WindowSum(f, m, p) == Fold("+", f, First(m, p), m)

\* g is f with one more element, its m + 1-st.
Continues(g, f, m, x) == g[m + 1] = x /\ \A k \in 1 .. m : g[k] = f[k]

\* The oldest of a full ring is where the next goes.
LEMMA HeldOldest ==
  ASSUME NEW p \in Nat \ {0}, NEW m \in Nat, NEW st, NEW f, Held(st, f, m, p), ~(m < p)
  PROVE  st.buf[st.head] = f[First(m, p)]
<1> SUFFICES st.buf[m % p] = f[m - p + 1]
  BY DEF First, Held
<1> DEFINE j == m - p
<1>1. j \in 0 .. m - 1 /\ j + p >= m /\ j \in Nat
  OBVIOUS
<1>2. st.buf[j % p] = f[j + 1]
  BY <1>1 DEF Held
<1>3. j % p = m % p
  <2>1. j \div p \in Int /\ j % p \in 0 .. p - 1 /\ j = (j \div p) * p + (j % p)
    BY <1>1, DivMod
  <2>2. m \div p \in Int /\ m % p \in 0 .. p - 1 /\ m = (m \div p) * p + (m % p)
    BY DivMod
  <2>3. m = (j \div p + 1) * p + (j % p)
    BY <2>1
  <2> DEFINE q == j \div p + 1
             u == m \div p
             a == j % p
             b == m % p
  <2>4. q \in Int /\ u \in Int /\ a \in 0 .. p - 1 /\ b \in 0 .. p - 1
    BY <2>1, <2>2
  <2>5. q * p + a = u * p + b
    BY <2>2, <2>3
  <2> HIDE DEF q, u, a, b
  <2>6. a = b
    BY <2>4, <2>5, OneRemainder
  <2> QED BY <2>6 DEF a, b
<1> QED BY <1>2, <1>3

\* The ring after a push.
LEMMA HeldNext ==
  ASSUME NEW p \in Nat \ {0}, NEW m \in Nat, NEW st, NEW f, Held(st, f, m, p),
         NEW g, NEW x, Continues(g, f, m, x), NEW r, r.cap = p,
         r.buf = [st.buf EXCEPT ![st.head] = x], r.head = (st.head + 1) % p,
         r.count = IF st.count = p THEN st.count ELSE st.count + 1
  PROVE  /\ Held(r, g, m + 1, p) /\ st.head \in 0 .. p - 1
         /\ ~(m < p) => st.buf[st.head] = f[First(m, p)]
<1>1. st.head = m % p /\ st.count = Size(m, p) /\ DOMAIN st.buf = 0 .. p - 1
  BY DEF Held
<1>2. m % p \in 0 .. p - 1
  BY DivMod
<1>3. r.head = (m + 1) % p
  BY <1>1, PlacesAdd
<1>4. r.count = Size(m + 1, p)
  BY <1>1 DEF Size
<1>5. DOMAIN r.buf = 0 .. p - 1
  BY <1>1
<1>6. ASSUME NEW j \in 0 .. (m + 1) - 1, j + p >= m + 1 PROVE r.buf[j % p] = g[j + 1]
  <2>1. j % p \in 0 .. p - 1
    BY DivMod
  <2>2. CASE j = m
    BY <1>1, <1>2, <2>2 DEF Continues
  <2>3. CASE j < m
    <3>0. j \in Nat /\ m < j + p
      BY <1>6
    <3>1. j % p # m % p
      BY <2>3, <3>0, PlacesDiffer
    <3>2. j \in 0 .. m - 1 /\ j + p >= m /\ j + 1 \in 1 .. m
      BY <1>6, <2>3
    <3>3. st.buf[j % p] = f[j + 1]
      BY <3>2 DEF Held
    <3>4. g[j + 1] = f[j + 1]
      BY <3>2 DEF Continues
    <3> QED BY <1>1, <2>1, <3>1, <3>3, <3>4
  <2> QED BY <2>2, <2>3
<1>7. ~(m < p) => st.buf[st.head] = f[First(m, p)]
  BY HeldOldest
<1>8. Held(r, g, m + 1, p)
  BY <1>3, <1>4, <1>5, <1>6 DEF Held
<1> QED BY <1>1, <1>2, <1>7, <1>8

\* The sum of the window after one more sample.
LEMMA WindowSumNext ==
  ASSUME NEW p \in Nat \ {0}, NEW m \in Nat, NEW f, NEW g, NEW x, Continues(g, f, m, x),
         IsNumber(x), Numbers(f, First(m, p), m)
  PROVE  /\ m < p => WindowSum(g, m + 1, p) = FAdd(WindowSum(f, m, p), x)
         /\ ~(m < p) => /\ WindowSum(g, m + 1, p) =
                             FAdd(FSub(WindowSum(f, m, p), f[First(m, p)]), x)
                        /\ IsNumber(f[First(m, p)])
         /\ IsNumber(WindowSum(f, m, p)) /\ Numbers(g, First(m + 1, p), m + 1)
         /\ m = 0 => WindowSum(f, m, p) = Zero
<1> DEFINE lo == First(m, p)
<1>1. lo \in Nat \ {0} /\ lo <= m + 1
  BY DEF First
<1>2. \A k \in lo .. m : f[k] = g[k]
  BY <1>1 DEF Continues
<1>3. WindowSum(f, m, p) = Fold("+", g, lo, m)
  BY <1>1, <1>2, FoldSame DEF WindowSum
<1>4. IsNumber(WindowSum(f, m, p))
  BY <1>1, FoldNumber DEF WindowSum
<1>5. Numbers(g, lo, m + 1)
  <2> SUFFICES ASSUME NEW k \in lo .. m + 1 PROVE IsNumber(g[k])
    BY DEF Numbers
  <2>1. k = m + 1 \/ k \in lo .. m
    BY <1>1
  <2> QED BY <1>2, <2>1 DEF Continues, Numbers
<1>6. Numbers(g, First(m + 1, p), m + 1)
  <2>1. First(m + 1, p) \in Nat /\ First(m + 1, p) >= lo
    BY DEF First
  <2>2. \A k \in First(m + 1, p) .. m + 1 : k \in lo .. m + 1
    BY <1>1, <2>1
  <2> HIDE DEF lo
  <2> QED BY <1>5, <2>2 DEF Numbers
<1>7. m < p => WindowSum(g, m + 1, p) = FAdd(WindowSum(f, m, p), x)
  <2> SUFFICES ASSUME m < p PROVE WindowSum(g, m + 1, p) = FAdd(WindowSum(f, m, p), x)
    OBVIOUS
  <2>1. First(m + 1, p) = lo
    BY DEF First
  <2>2. Fold("+", g, lo, m + 1) = FAdd(Fold("+", g, lo, m), g[m + 1])
    BY <1>1, FoldNext DEF Join
  <2> QED BY <1>3, <2>1, <2>2 DEF WindowSum, Continues
<1>8. ASSUME ~(m < p)
      PROVE  WindowSum(g, m + 1, p) = FAdd(FSub(WindowSum(f, m, p), f[lo]), x) /\ IsNumber(f[lo])
  <2>1. First(m + 1, p) = lo + 1 /\ lo + (p - 1) = m /\ p - 1 \in Nat /\ lo \in lo .. m
    BY <1>8 DEF First
  <2>2. lo + (p - 1) + 1 = m + 1
    BY <2>1
  <2> HIDE DEF lo
  <2>3. Fold("+", g, lo + 1, lo + (p - 1) + 1) =
          FAdd(FSub(Fold("+", g, lo, lo + (p - 1)), g[lo]), g[lo + (p - 1) + 1])
    BY <1>1, <1>5, <2>1, <2>2, SumSlides
  <2>4. g[lo] = f[lo]
    BY <1>2, <2>1
  <2>5. IsNumber(f[lo])
    BY <2>1 DEF Numbers, lo
  <2> QED BY <1>3, <2>1, <2>2, <2>3, <2>4, <2>5 DEF WindowSum, Continues
<1>9. m = 0 => WindowSum(f, m, p) = Zero
  <2> SUFFICES ASSUME m = 0 PROVE Fold("+", f, lo, 0) = Zero
    BY DEF WindowSum
  <2>1. 0 < lo
    BY <1>1
  <2> QED BY <1>1, <2>1, FoldSteps DEF Unit, Zero
<1> QED BY <1>4, <1>6, <1>7, <1>8, <1>9

\* The operands of a window: numbers with their derivatives, or nothing.
Operand(x) == (IsNumber(x.v) /\ IsNumber(x.d)) \/ (x.v = Nan /\ x.d = Nan)

\* All m elements are numbers or NaN, and nan says whether one is NaN.
Stream(f, m, nan) ==
  /\ nan \in BOOLEAN /\ \A k \in 1 .. m : IsNumber(f[k]) \/ f[k] = Nan
  /\ nan <=> \E k \in 1 .. m : f[k] = Nan

\* A series with one more element.
LEMMA StreamNext ==
  ASSUME NEW m \in Nat, NEW f, NEW nan, Stream(f, m, nan), NEW x, IsNumber(x) \/ x = Nan,
         NEW g, Continues(g, f, m, x)
  PROVE  /\ Stream(g, m + 1, nan \/ x = Nan)
         /\ ~nan => \A lo \in Nat \ {0} : Numbers(f, lo, m)
         /\ \A k \in 1 .. m : IsPair(f[k])
         /\ IsPair(x)
<1>1. /\ \A k \in 1 .. m : g[k] = f[k] /\ (IsNumber(f[k]) \/ f[k] = Nan)
      /\ g[m + 1] = x /\ \A k \in 1 .. m + 1 : k = m + 1 \/ k \in 1 .. m
  BY DEF Stream, Continues
<1>2. \A k \in 1 .. m + 1 : IsNumber(g[k]) \/ g[k] = Nan
  BY <1>1
<1>3. (nan \/ x = Nan) <=> \E k \in 1 .. m + 1 : g[k] = Nan
  <2>1. ASSUME nan PROVE \E k \in 1 .. m + 1 : g[k] = Nan
    <3>1. PICK k \in 1 .. m : f[k] = Nan
      BY <2>1 DEF Stream
    <3>2. k \in 1 .. m + 1
      OBVIOUS
    <3> QED BY <1>1, <3>1, <3>2
  <2>2. ASSUME x = Nan PROVE \E k \in 1 .. m + 1 : g[k] = Nan
    <3>1. m + 1 \in 1 .. m + 1
      OBVIOUS
    <3> QED BY <1>1, <2>2, <3>1
  <2>3. ASSUME NEW k \in 1 .. m + 1, g[k] = Nan PROVE nan \/ x = Nan
    <3>1. CASE k = m + 1
      BY <1>1, <2>3, <3>1
    <3>2. CASE k \in 1 .. m
      BY <1>1, <2>3, <3>2 DEF Stream
    <3> QED BY <1>1, <3>1, <3>2
  <2> QED BY <2>1, <2>2, <2>3
<1>5. ASSUME ~nan, NEW lo \in Nat \ {0} PROVE Numbers(f, lo, m)
  <2>1. \A k \in lo .. m : k \in 1 .. m
    OBVIOUS
  <2> QED BY <1>1, <1>5, <2>1 DEF Numbers, Stream
<1>6. IsPair(Nan)
  BY DEF Nan, IsPair
<1>7. (\A k \in 1 .. m : IsPair(f[k])) /\ IsPair(x)
  BY <1>1, <1>6, NumberPair
<1> QED BY <1>2, <1>3, <1>5, <1>7 DEF Stream

\* A state of lag or sma.
RingState(st, f, m, p, nan) ==
  /\ DOMAIN st = {"cap", "head", "count", "sum", "buf"} /\ Held(st, f, m, p)
  /\ st.sum = IF nan THEN Nan ELSE WindowSum(f, m, p)

\* No samples, and a ring without any.
LEMMA EmptySum ==
  ASSUME NEW f, NEW p \in Nat \ {0}
  PROVE  WindowSum(f, 0, p) = Zero
<1>1. First(0, p) \in Nat \ {0} /\ 0 < First(0, p)
  BY DEF First
<1>2. Fold("+", f, First(0, p), 0) = Unit("+")
  BY <1>1, FoldSteps
<1> QED BY <1>2 DEF WindowSum, Unit, Zero

\* An empty ring holds no element.
LEMMA EmptyHeld ==
  ASSUME NEW f, NEW p \in Nat \ {0}, NEW st, st.cap = p, st.head = 0, st.count = 0,
         DOMAIN st.buf = 0 .. p - 1
  PROVE  Held(st, f, 0, p)
<1>1. 0 % p = 0
  <2>1. 0 \div p \in Int /\ 0 % p \in 0 .. p - 1 /\ 0 = (0 \div p) * p + (0 % p)
    BY DivMod
  <2> DEFINE q == 0 \div p
             r == 0 % p
  <2>2. q \in Int /\ r \in 0 .. p - 1 /\ q * p + r = 0 * p + 0 /\ 0 \in 0 .. p - 1
    BY <2>1
  <2> HIDE DEF q, r
  <2>3. r = 0
    BY <2>2, OneRemainder
  <2> QED BY <2>3 DEF r
<1>2. Size(0, p) = 0
  BY DEF Size
<1>3. \A j \in 0 .. 0 - 1 : FALSE
  OBVIOUS
<1> QED BY <1>1, <1>2, <1>3 DEF Held

\* A fresh ring holds no element, and Fitted makes one of a ring without places.
LEMMA FreshRingState ==
  ASSUME NEW f, NEW p \in Nat \ {0}
  PROVE  RingState(FreshRing(p), f, 0, p, FALSE) /\ Fitted(FreshRing(0), p) = FreshRing(p)
<1> DEFINE st == FreshRing(p)
<1>1. /\ DOMAIN st = {"cap", "head", "count", "sum", "buf"} /\ st.cap = p /\ st.head = 0
      /\ st.count = 0 /\ st.sum = Zero /\ DOMAIN st.buf = 0 .. p - 1
  BY DEF FreshRing
<1>2. FreshRing(0).cap # p
  BY DEF FreshRing
<1>3. Fitted(FreshRing(0), p) = FreshRing(p)
  BY <1>2 DEF Fitted
<1> HIDE DEF st
<1>4. Held(st, f, 0, p)
  BY <1>1, EmptyHeld
<1> QED BY <1>1, <1>3, <1>4, EmptySum DEF RingState, st

\* What is read from a ring.
LEMMA RingReads ==
  ASSUME NEW p \in Nat \ {0}, NEW m \in Nat, NEW st, NEW f, Held(st, f, m, p)
  PROVE  /\ st.cap = p /\ (IsFull(st) <=> ~(m < p)) /\ (st.count = st.cap <=> ~(m < p))
         /\ st.count = Size(m, p) /\ st.head \in 0 .. p - 1
<1>1. st.cap = p /\ st.count = Size(m, p) /\ st.head = m % p
  BY DEF Held
<1>2. m % p \in 0 .. p - 1
  BY DivMod
<1>3. Size(m, p) = p <=> ~(m < p)
  BY DEF Size
<1> QED BY <1>1, <1>2, <1>3 DEF IsFull

\* The fields after a push.
LEMMA PushedFields ==
  ASSUME NEW st, DOMAIN st = {"cap", "head", "count", "sum", "buf"}, NEW x
  PROVE  LET r == PushPrepared(st, x)
             full == st.count = st.cap
         IN  /\ DOMAIN r = {"cap", "head", "count", "sum", "buf"} /\ r.cap = st.cap
             /\ r.buf = [st.buf EXCEPT ![st.head] = x] /\ r.head = (st.head + 1) % st.cap
             /\ r.count = IF full THEN st.count ELSE st.count + 1
             /\ r.sum = FAdd(IF full THEN FSub(st.sum, st.buf[st.head]) ELSE st.sum, x)
BY DEF PushPrepared

\* The running sum is that of the window, or NaN once it has met one; old is
\* what leaves a full window.
SumIs(sum, f, m, p, nan) == sum = IF nan THEN Nan ELSE WindowSum(f, m, p)
OldestIs(old, f, m, p) == ~(m < p) => old = f[First(m, p)]

\* A sum that a sample joins, after the oldest one has left a full window: a
\* NaN stays in it for good.
LEMMA SumPush ==
  ASSUME NEW p \in Nat \ {0}, NEW m \in Nat, NEW f, NEW nan, Stream(f, m, nan),
         NEW sum, SumIs(sum, f, m, p, nan), NEW old, OldestIs(old, f, m, p),
         NEW x, IsNumber(x) \/ x = Nan, NEW g, Continues(g, f, m, x)
  PROVE  SumIs(FAdd(IF m < p THEN sum ELSE FSub(sum, old), x), g, m + 1, p, nan \/ x = Nan)
<1>0. /\ sum = IF nan THEN Nan ELSE WindowSum(f, m, p)
      /\ ~(m < p) => old = f[First(m, p)]
  BY DEF SumIs, OldestIs
<1> SUFFICES FAdd(IF m < p THEN sum ELSE FSub(sum, old), x) =
               IF nan \/ x = Nan THEN Nan ELSE WindowSum(g, m + 1, p)
  BY DEF SumIs
<1> DEFINE left == IF m < p THEN sum ELSE FSub(sum, old)
<1>1. /\ ~nan => \A lo \in Nat \ {0} : Numbers(f, lo, m)
      /\ (\A k \in 1 .. m : IsPair(f[k])) /\ IsPair(x)
  BY StreamNext
<1>2. First(m, p) \in Nat \ {0} /\ (~(m < p) => First(m, p) \in 1 .. m)
  BY DEF First
<1>3. CASE nan
  <2>1. ~(m < p) => FSub(Nan, old) = Nan
    BY <1>0, <1>1, <1>2, NanAbsorbs
  <2>2. FAdd(Nan, x) = Nan
    BY <1>1, NanAbsorbs
  <2> QED BY <1>0, <1>3, <2>1, <2>2
<1>4. CASE ~nan
  <2>1. Numbers(f, First(m, p), m) /\ sum = WindowSum(f, m, p)
    BY <1>0, <1>1, <1>2, <1>4
  <2>2. CASE x = Nan
    <3>1. IsPair(sum)
      <4>1. IsNumber(WindowSum(f, m, p))
        BY <1>2, <2>1, FoldNumber DEF WindowSum
      <4> QED BY <2>1, <4>1, NumberPair
    <3>2. ~(m < p) => IsPair(FSub(sum, old))
      <4> SUFFICES ASSUME ~(m < p) PROVE IsPair(FSub(sum, old))
        OBVIOUS
      <4>1. IsPair(old)
        BY <1>0, <1>1, <1>2
      <4> QED BY <3>1, <4>1, PairClosed
    <3>3. IsPair(left)
      BY <3>1, <3>2
    <3> HIDE DEF left
    <3>4. FAdd(left, x) = Nan
      BY <2>2, <3>3, NanAbsorbs
    <3> QED BY <2>2, <3>4 DEF left
  <2>3. CASE x # Nan
    <3>1. IsNumber(x)
      BY <2>3
    <3>2. /\ m < p => WindowSum(g, m + 1, p) = FAdd(WindowSum(f, m, p), x)
          /\ ~(m < p) => WindowSum(g, m + 1, p) =
                           FAdd(FSub(WindowSum(f, m, p), f[First(m, p)]), x)
      BY <2>1, <3>1, WindowSumNext
    <3> QED BY <1>0, <1>4, <2>1, <2>3, <3>2
  <2> QED BY <2>2, <2>3
<1> QED BY <1>3, <1>4 DEF Stream

\* A push of lag and sma, and what they read from the state before and after.
LEMMA PushState ==
  ASSUME NEW p \in Nat \ {0}, NEW m \in Nat, NEW f, NEW nan, Stream(f, m, nan), NEW st,
         RingState(st, f, m, p, nan), NEW x, IsNumber(x) \/ x = Nan, NEW g, Continues(g, f, m, x)
  PROVE  /\ RingState(PushPrepared(st, x), g, m + 1, p, nan \/ x = Nan)
         /\ Fitted(st, p) = st
         /\ LagValue(st) = IF m < p THEN Nan ELSE f[First(m, p)]
<1> DEFINE r == PushPrepared(st, x)
           full == st.count = st.cap
           old == st.buf[st.head]
<1>1. DOMAIN st = {"cap", "head", "count", "sum", "buf"} /\ Held(st, f, m, p)
  BY DEF RingState
<1>2. st.cap = p /\ (full <=> ~(m < p)) /\ (IsFull(st) <=> ~(m < p))
  BY <1>1, RingReads
<1>3. /\ DOMAIN r = {"cap", "head", "count", "sum", "buf"} /\ r.cap = st.cap
      /\ r.buf = [st.buf EXCEPT ![st.head] = x] /\ r.head = (st.head + 1) % st.cap
      /\ r.count = IF full THEN st.count ELSE st.count + 1
      /\ r.sum = FAdd(IF full THEN FSub(st.sum, old) ELSE st.sum, x)
  BY <1>1, PushedFields
<1> HIDE DEF r, full
<1>4. Held(r, g, m + 1, p) /\ (~(m < p) => old = f[First(m, p)])
  <2>1. /\ r.cap = p /\ r.head = (st.head + 1) % p
        /\ r.count = IF st.count = p THEN st.count ELSE st.count + 1
    BY <1>2, <1>3 DEF full
  <2> QED BY <1>1, <1>3, <2>1, HeldNext
<1>7. r.sum = IF nan \/ x = Nan THEN Nan ELSE WindowSum(g, m + 1, p)
  <2>1. r.sum = FAdd(IF m < p THEN st.sum ELSE FSub(st.sum, old), x)
    BY <1>2, <1>3
  <2>2. SumIs(st.sum, f, m, p, nan) /\ OldestIs(old, f, m, p)
    BY <1>4 DEF RingState, SumIs, OldestIs
  <2>3. SumIs(r.sum, g, m + 1, p, nan \/ x = Nan)
    BY <2>1, <2>2, SumPush
  <2> QED BY <2>3 DEF SumIs
<1>8. Fitted(st, p) = st
  BY <1>2 DEF Fitted
<1>9. LagValue(st) = IF m < p THEN Nan ELSE f[First(m, p)]
  BY <1>2, <1>4 DEF LagValue
<1>10. RingState(r, g, m + 1, p, nan \/ x = Nan)
  BY <1>3, <1>4, <1>7 DEF RingState
<1> QED BY <1>8, <1>9, <1>10 DEF r

-----------------------------------------------------------------------------
(* The operands of all ticks *)

\* The first operand of all ticks: values and derivatives.
XV(h) == [k \in 1 .. Len(h) |-> h[k].x.v]
XD(h) == [k \in 1 .. Len(h) |-> h[k].x.d]

\* The operands as series, with those of one more tick.
LEMMA HistoryNext ==
  ASSUME NEW I, \A i \in I : Operand(i.x), NEW h \in Seq(I), NEW i \in I
  PROVE  LET m == Len(h)
             g == Append(h, i)
         IN  /\ m \in Nat /\ g \in Seq(I) /\ Len(g) = m + 1
             /\ Continues(XV(g), XV(h), m, i.x.v) /\ Continues(XD(g), XD(h), m, i.x.d)
             /\ Stream(XV(h), m, Seen(h, Nan)) /\ Stream(XD(h), m, Seen(h, Nan))
             /\ Seen(g, Nan) <=> Seen(h, Nan) \/ i.x.v = Nan
             /\ Seen(h, Nan) \in BOOLEAN /\ (m = 0 => ~Seen(h, Nan))
<1> DEFINE m == Len(h)
           g == Append(h, i)
<1>1. /\ m \in Nat /\ g \in Seq(I) /\ Len(g) = m + 1 /\ g[m + 1] = i
      /\ \A k \in 1 .. m : g[k] = h[k]
  BY Appended
<1>2. DOMAIN h = 1 .. m /\ DOMAIN g = 1 .. m + 1 /\ \A k \in 1 .. m : h[k] \in I
  BY <1>1
<1>3. (\A k \in 1 .. m : k \in 1 .. m + 1) /\ m + 1 \in 1 .. m + 1
      /\ \A k \in 1 .. m + 1 : k \in 1 .. m \/ k = m + 1
  BY <1>1
<1>4. Continues(XV(g), XV(h), m, i.x.v) /\ Continues(XD(g), XD(h), m, i.x.d)
  BY <1>1, <1>3 DEF Continues, XV, XD
<1>5. Seen(g, Nan) <=> Seen(h, Nan) \/ i.x.v = Nan
  <2>1. ASSUME Seen(g, Nan) PROVE Seen(h, Nan) \/ i.x.v = Nan
    <3>1. PICK k \in 1 .. m + 1 : g[k].x.v = Nan
      BY <1>2, <2>1 DEF Seen
    <3>2. CASE k = m + 1
      BY <1>1, <3>1, <3>2
    <3>3. CASE k \in 1 .. m
      BY <1>1, <1>2, <3>1, <3>3 DEF Seen
    <3> QED BY <1>3, <3>2, <3>3
  <2>2. ASSUME Seen(h, Nan) PROVE Seen(g, Nan)
    <3>1. PICK k \in 1 .. m : h[k].x.v = Nan
      BY <1>2, <2>2 DEF Seen
    <3>2. k \in DOMAIN g /\ g[k].x.v = Nan
      BY <1>1, <1>2, <1>3, <3>1
    <3> QED BY <3>2 DEF Seen
  <2>3. ASSUME i.x.v = Nan PROVE Seen(g, Nan)
    BY <1>1, <1>2, <1>3, <2>3 DEF Seen
  <2> QED BY <2>1, <2>2, <2>3
<1>6. Seen(h, Nan) <=> \E k \in 1 .. m : h[k].x.v = Nan
  BY <1>2 DEF Seen
<1>7. ASSUME NEW k \in 1 .. m PROVE Operand(h[k].x) /\ (h[k].x.v = Nan <=> h[k].x.d = Nan)
  <2>1. Operand(h[k].x)
    BY <1>2
  <2>2. \A a : IsNumber(a) => a # Nan
    BY NumberPair
  <2> QED BY <2>1, <2>2 DEF Operand
<1>8. Stream(XV(h), m, Seen(h, Nan)) /\ Stream(XD(h), m, Seen(h, Nan))
  <2>1. \A k \in 1 .. m : XV(h)[k] = h[k].x.v /\ XD(h)[k] = h[k].x.d
    BY DEF XV, XD
  <2>2. Seen(h, Nan) \in BOOLEAN
    BY DEF Seen
  <2>3. /\ \A k \in 1 .. m : IsNumber(XV(h)[k]) \/ XV(h)[k] = Nan
        /\ \A k \in 1 .. m : IsNumber(XD(h)[k]) \/ XD(h)[k] = Nan
    BY <1>7, <2>1 DEF Operand
  <2>4. /\ Seen(h, Nan) <=> \E k \in 1 .. m : XV(h)[k] = Nan
        /\ Seen(h, Nan) <=> \E k \in 1 .. m : XD(h)[k] = Nan
    BY <1>6, <1>7, <2>1
  <2> QED BY <2>2, <2>3, <2>4 DEF Stream
<1>9. Seen(h, Nan) \in BOOLEAN /\ (m = 0 => ~Seen(h, Nan))
  BY <1>2 DEF Seen
<1> QED BY <1>1, <1>4, <1>5, <1>8, <1>9

\* The operands of the window operators.
LEMMA WindowOperands ==
  ASSUME NEW nd \in Nodes, nd.op \in Windows \ Extrema
  PROVE  /\ nd.period \in Nat \ {0} /\ (nd.op \in Deviations => nd.period >= 2)
         /\ \A i \in Inputs[nd.op] : /\ Operand(i.x) /\ i.x = Dual(i.x.v, i.x.d)
                                     /\ nd.op \in Pairs => IsDual(i.y)
<1>1. ASSUME NEW i \in Inputs[nd.op]
      PROVE  Operand(i.x) /\ i.x = Dual(i.x.v, i.x.d) /\ (nd.op \in Pairs => IsDual(i.y))
  <2>1. RealDual(i.x) \/ i.x = Undefined
    BY RealAssumption
  <2>2. CASE RealDual(i.x)
    <3>1. IsDual(i.x)
      BY <2>2, RealIsDual
    <3>2. Operand(i.x) /\ i.x = Dual(i.x.v, i.x.d)
      BY <3>1 DEF IsDual, Operand
    <3> QED BY <3>2, RealAssumption, RealIsDual
  <2>3. CASE i.x = Undefined
    <3>1. i.x.v = Nan /\ i.x.d = Nan
      BY <2>3 DEF Undefined, Dual
    <3>2. Operand(i.x) /\ i.x = Dual(i.x.v, i.x.d)
      BY <2>3, <3>1 DEF Undefined, Operand
    <3> QED BY <3>2, RealAssumption, RealIsDual
  <2> QED BY <2>1, <2>2, <2>3
<1> QED BY <1>1, NodeAssumption

\* A dual number divided by a constant.
LEMMA DualOverConstant ==
  ASSUME NEW c \in Nat \ {0}, NEW S, NEW T, IsNumber(S), IsNumber(T)
  PROVE  DDiv(Dual(S, T), Dual(Whole(c), Zero)) = Dual(FDiv(S, Whole(c)), FDiv(T, Whole(c)))
<1>1. PICK t, d : Is(T, t, d)
  BY DEF IsNumber
<1>2. t \in Int /\ d \in Nat \ {0}
  BY <1>1 DEF Is
<1>3. Is(Whole(c), c, 1)
  BY WholeIs
<1>4. FMul(S, Zero) = Zero
  BY Annihilates
<1>5. Is(FMul(T, Whole(c)), t * c, d * 1)
  BY <1>1, <1>3, Product
<1>6. Is(Zero, 0, 1)
  BY WholeIs DEF Zero
<1>7. Is(FSub(FMul(T, Whole(c)), Zero), (t * c) * 1 - 0 * (d * 1), (d * 1) * 1)
  BY <1>5, <1>6, Difference
<1>8. Is(FSub(FMul(T, Whole(c)), Zero), t * c, d)
  <2>1. (t * c) * 1 - 0 * (d * 1) = t * c /\ (d * 1) * 1 = d
    BY <1>2
  <2> QED BY <1>7, <2>1
<1>9. Is(FMul(Whole(c), Whole(c)), c * c, 1 * 1)
  BY <1>3, Product
<1>10. c * c \in Nat \ {0}
  BY Positive
<1>11. Is(FDiv(FSub(FMul(T, Whole(c)), Zero), FMul(Whole(c), Whole(c))),
          (t * c) * (1 * 1), d * (c * c))
  BY <1>8, <1>9, <1>10, Ratio
<1>12. Is(FDiv(T, Whole(c)), t * 1, d * c)
  BY <1>1, <1>3, Ratio
<1>13. ((t * c) * (1 * 1)) * (d * c) = (t * 1) * (d * (c * c))
  <2>1. ((t * c) * (1 * 1)) = t * c /\ t * 1 = t
    BY <1>2
  <2>2. (t * c) * (d * c) = t * (d * (c * c))
    BY <1>2, SMT
  <2> QED BY <2>1, <2>2
<1>14. FDiv(FSub(FMul(T, Whole(c)), Zero), FMul(Whole(c), Whole(c))) = FDiv(T, Whole(c))
  BY <1>11, <1>12, <1>13, Same
<1>15. \A a, b : Dual(a, b).v = a /\ Dual(a, b).d = b
  BY DEF Dual
<1> QED BY <1>4, <1>14, <1>15 DEF DDiv

\* The sums of c duals, and their mean.
LEMMA MeanIsDual ==
  ASSUME NEW c \in Nat \ {0}, NEW w, DOMAIN w = 1 .. c, Len(w) = c
  PROVE  LET S == Fold("+", Values(w, c), 1, c)
             T == Fold("+", Slopes(w, c), 1, c)
         IN  /\ DTotal(w) = Dual(S, T)
             /\ IsNumber(S) /\ IsNumber(T) => Mean(w) = Dual(MeanOf(c, S), MeanOf(c, T))
<1> DEFINE S == Fold("+", Values(w, c), 1, c)
           T == Fold("+", Slopes(w, c), 1, c)
<1>1. DTotal(w) = Dual(S, T)
  BY DEF DTotal, Values, Slopes
<1> HIDE DEF S, T
<1>2. ASSUME IsNumber(S), IsNumber(T) PROVE Mean(w) = Dual(MeanOf(c, S), MeanOf(c, T))
  <2>1. Mean(w) = Dual(FDiv(S, Whole(c)), FDiv(T, Whole(c)))
    BY <1>1, <1>2, DualOverConstant DEF Mean
  <2> QED BY <2>1 DEF MeanOf
<1> QED BY <1>1, <1>2 DEF S, T

\* A function on 1 .. c is a sequence.
LEMMA LengthOf ==
  ASSUME NEW c \in Nat, NEW w, w = [k \in 1 .. c |-> w[k]]
  PROVE  Len(w) = c /\ DOMAIN w = 1 .. c
<1> DEFINE S == {w[k] : k \in 1 .. c}
<1>1. w \in [1 .. c -> S]
  <2>1. \A k \in 1 .. c : w[k] \in S
    OBVIOUS
  <2> HIDE DEF S
  <2> QED BY <2>1
<1> HIDE DEF S
<1>2. w \in Seq(S) /\ DOMAIN w = 1 .. c
  BY <1>1
<1> QED BY <1>2

\* The last c elements.
LEMMA WindowElements ==
  ASSUME NEW I, NEW h \in Seq(I), NEW p \in Nat \ {0}, p <= Len(h)
  PROVE  \A k \in 1 .. p : /\ SubSeq(h, Len(h) - p + 1, Len(h))[k] = h[(Len(h) - p) + k]
                           /\ (Len(h) - p) + k \in 1 .. Len(h)
<1> DEFINE l == Len(h)
           w == SubSeq(h, l - p + 1, l)
<1>1. l \in Nat /\ l - p + 1 \in 1 .. l + 1 /\ l - p + 1 <= l
  OBVIOUS
<1>2. ASSUME NEW k \in 1 .. p PROVE w[k] = h[(l - p) + k] /\ (l - p) + k \in 1 .. l
  <2>1. w = [j \in 1 .. (l - (l - p + 1) + 1) |-> h[(l - p + 1) + j - 1]]
    BY <1>1
  <2>2. k \in 1 .. (l - (l - p + 1) + 1) /\ (l - p + 1) + k - 1 = (l - p) + k
    BY <1>1
  <2>3. (l - p) + k \in 1 .. l
    BY <1>1
  <2> HIDE DEF l, w
  <2> QED BY <2>1, <2>2, <2>3
<1> QED BY <1>2

-----------------------------------------------------------------------------
(* lag and sma *)

\* The two rings of lag and sma after n ticks, and what was returned.
RingSens ==
  LET p == node.period
      nan == Seen(hist, Nan)
  IN  /\ RingState(primal, XV(hist), n, p, nan) /\ RingState(grad, XD(hist), n, p, nan)
      /\ node.op = "lag" => out = IF n > p THEN hist[n - p].x ELSE Undefined
      /\ node.op = "sma" => out = IF IsFull(primal) THEN Dual(RingMean(primal), RingMean(grad))
                                                    ELSE Undefined

\* Before the first tick or after some.
Started(P) == IF n = 0 THEN primal = PrimalInit(node, mode) /\ grad = SensitivityInit(node) ELSE P

\* Either push is one onto a ring with the right capacity, and lag reads the
\* same from it.
LEMMA RingsFit ==
  ASSUME node.op \in {"lag", "sma"}, node.period \in Nat \ {0}, n \in Nat, Started(RingSens),
         n = 0 => ~Seen(hist, Nan), Stream(XV(hist), n, Seen(hist, Nan)),
         Stream(XD(hist), n, Seen(hist, Nan))
  PROVE  \E a, b : LET p == node.period
                       nan == Seen(hist, Nan)
                   IN  /\ RingState(a, XV(hist), n, p, nan) /\ RingState(b, XD(hist), n, p, nan)
                       /\ \A x : /\ PushPrimal(p, x) = PushPrepared(a, x)
                                 /\ Push(grad, p, x) = PushPrepared(b, x)
                       /\ LagValue(primal) = LagValue(a) /\ LagValue(grad) = LagValue(b)
<1> DEFINE p == node.period
           nan == Seen(hist, Nan)
<1>0. nan \in BOOLEAN
  BY DEF Seen
<1>1. CASE n = 0
  <2>1. primal = PrimalInit(node, mode) /\ grad = SensitivityInit(node)
    BY <1>1 DEF Started
  <2>2. primal = IF mode = "interp" THEN FreshRing(0) ELSE FreshRing(p)
    <3>1. PrimalInit(node, mode) = IF mode = "interp" THEN FreshRing(0) ELSE FreshRing(p)
      BY DEF PrimalInit, Deviations, Pairs, Extrema, Crosses
    <3> QED BY <2>1, <3>1
  <2>3. grad = FreshRing(0)
    <3>1. SensitivityInit(node) = FreshRing(0)
      BY DEF SensitivityInit, Deviations, Pairs, Extrema, Crosses
    <3> QED BY <2>1, <3>1
  <2>4. /\ \A f : RingState(FreshRing(p), f, 0, p, FALSE)
        /\ Fitted(FreshRing(0), p) = FreshRing(p)
    BY FreshRingState
  <2>5. Fitted(FreshRing(p), p) = FreshRing(p)
    BY DEF Fitted, FreshRing
  <2>6. LagValue(FreshRing(0)) = Nan
    BY DEF LagValue, IsFull, FreshRing
  <2>7. LagValue(FreshRing(p)) = Nan
    BY DEF LagValue, IsFull, FreshRing
  <2>8. nan = FALSE
    BY <1>0, <1>1
  <2>9. \A x : PushPrimal(p, x) = PushPrepared(FreshRing(p), x)
    BY <2>2, <2>4, <2>5 DEF PushPrimal, Push
  <2>10. \A x : Push(grad, p, x) = PushPrepared(FreshRing(p), x)
    BY <2>3, <2>4 DEF Push
  <2>11. LagValue(primal) = LagValue(FreshRing(p)) /\ LagValue(grad) = LagValue(FreshRing(p))
    BY <2>2, <2>3, <2>6, <2>7
  <2>12. RingState(FreshRing(p), XV(hist), n, p, nan) /\ RingState(FreshRing(p), XD(hist), n, p, nan)
    BY <1>1, <2>4, <2>8
  <2> HIDE DEF p, nan
  <2>13. /\ RingState(FreshRing(p), XV(hist), n, p, nan) /\ RingState(FreshRing(p), XD(hist), n, p, nan)
         /\ \A x : /\ PushPrimal(p, x) = PushPrepared(FreshRing(p), x)
                   /\ Push(grad, p, x) = PushPrepared(FreshRing(p), x)
         /\ LagValue(primal) = LagValue(FreshRing(p)) /\ LagValue(grad) = LagValue(FreshRing(p))
    BY <2>9, <2>10, <2>11, <2>12
  <2> QED BY <2>13, Zenon DEF p, nan
<1>2. CASE n # 0
  <2>1. RingState(primal, XV(hist), n, p, nan) /\ RingState(grad, XD(hist), n, p, nan)
    BY <1>2 DEF Started, RingSens
  <2>2. primal.cap = p /\ grad.cap = p
    BY <2>1 DEF RingState, Held
  <2>3. Fitted(primal, p) = primal /\ Fitted(grad, p) = grad
    BY <2>2 DEF Fitted
  <2>4. \A x : PushPrimal(p, x) = PushPrepared(primal, x) /\ Push(grad, p, x) = PushPrepared(grad, x)
    BY <2>3 DEF PushPrimal, Push
  <2> QED BY <2>1, <2>4
<1> QED BY <1>1, <1>2

\* A tick of lag or sma.
LEMMA RingSensStep ==
  ASSUME node \in Nodes, node.op \in {"lag", "sma"}, hist \in Seq(Inputs[node.op]),
         Started(RingSens), NEW i \in Inputs[node.op], TickLag(i) \/ TickSma(i)
  PROVE  RingSens'
<1> DEFINE I == Inputs[node.op]
           p == node.period
           h == Append(hist, i)
           nan == Seen(hist, Nan)
<1>1. node.op \in Windows \ Extrema
  BY DEF Windows, Extrema
<1>2. p \in Nat \ {0} /\ \A j \in I : Operand(j.x) /\ j.x = Dual(j.x.v, j.x.d)
  BY <1>1, WindowOperands
<1>3. /\ n \in Nat /\ h \in Seq(I) /\ Len(h) = n + 1
      /\ Continues(XV(h), XV(hist), n, i.x.v) /\ Continues(XD(h), XD(hist), n, i.x.d)
      /\ Stream(XV(hist), n, nan) /\ Stream(XD(hist), n, nan)
      /\ Seen(h, Nan) <=> nan \/ i.x.v = Nan
      /\ n = 0 => ~nan
  BY <1>2, HistoryNext DEF n
<1>4. Operand(i.x) /\ (i.x.v = Nan <=> i.x.d = Nan)
  <2>1. \A a : IsNumber(a) => a # Nan
    BY NumberPair
  <2> QED BY <1>2, <2>1 DEF Operand
<1>5. PICK a, b : /\ RingState(a, XV(hist), n, p, nan) /\ RingState(b, XD(hist), n, p, nan)
                  /\ \A x : /\ PushPrimal(p, x) = PushPrepared(a, x)
                            /\ Push(grad, p, x) = PushPrepared(b, x)
                  /\ LagValue(primal) = LagValue(a) /\ LagValue(grad) = LagValue(b)
  BY <1>2, <1>3, RingsFit
<1>6. hist' = h /\ node' = node /\ n' = n + 1
  <2>1. hist' = h /\ node' = node
    BY DEF TickLag, TickSma, Fed
  <2> QED BY <1>3, <2>1 DEF n
<1>7. primal' = PushPrepared(a, i.x.v) /\ grad' = PushPrepared(b, i.x.d)
  <2>1. primal' = PushPrimal(p, i.x.v) /\ grad' = Push(grad, p, i.x.d)
    BY DEF TickLag, TickSma, Stepped
  <2> QED BY <1>5, <2>1
<1> HIDE DEF p, h, nan
<1>8. /\ RingState(PushPrepared(a, i.x.v), XV(h), n + 1, p, nan \/ i.x.v = Nan)
      /\ LagValue(a) = IF n < p THEN Nan ELSE XV(hist)[First(n, p)]
  <2>1. IsNumber(i.x.v) \/ i.x.v = Nan
    BY <1>4 DEF Operand
  <2>2. /\ p \in Nat \ {0} /\ n \in Nat /\ Continues(XV(h), XV(hist), n, i.x.v)
        /\ Stream(XV(hist), n, nan) /\ RingState(a, XV(hist), n, p, nan)
    BY <1>2, <1>3, <1>5
  <2> QED BY <2>1, <2>2, PushState
<1>9. /\ RingState(PushPrepared(b, i.x.d), XD(h), n + 1, p, nan \/ i.x.d = Nan)
      /\ LagValue(b) = IF n < p THEN Nan ELSE XD(hist)[First(n, p)]
  <2>1. IsNumber(i.x.d) \/ i.x.d = Nan
    BY <1>4 DEF Operand
  <2> QED BY <1>2, <1>3, <1>5, <2>1, PushState
<1>10. (nan \/ i.x.v = Nan) = Seen(h, Nan) /\ (nan \/ i.x.d = Nan) = Seen(h, Nan)
  <2>1. Seen(h, Nan) \in BOOLEAN /\ nan \in BOOLEAN
    BY DEF Seen, nan
  <2> QED BY <1>3, <1>4, <2>1
<1>11. /\ RingState(primal', XV(h), n + 1, p, Seen(h, Nan))
       /\ RingState(grad', XD(h), n + 1, p, Seen(h, Nan))
  BY <1>7, <1>8, <1>9, <1>10
<1>12. node.op = "lag" => out' = IF n + 1 > p THEN h[(n + 1) - p].x ELSE Undefined
  <2> SUFFICES ASSUME node.op = "lag"
               PROVE  out' = IF n + 1 > p THEN h[(n + 1) - p].x ELSE Undefined
    OBVIOUS
  <2>1. out' = Dual(LagValue(a), LagValue(b))
    BY <1>5 DEF TickLag, TickSma
  <2>2. CASE n < p
    <3>1. ~(n + 1 > p)
      BY <1>2, <1>3, <2>2
    <3> QED BY <1>8, <1>9, <2>1, <2>2, <3>1 DEF Undefined
  <2>3. CASE ~(n < p)
    <3> DEFINE j == (n + 1) - p
    <3>1. n + 1 > p /\ First(n, p) = j /\ j \in 1 .. n
      BY <1>2, <1>3, <2>3 DEF First
    <3>2. XV(hist)[j] = hist[j].x.v /\ XD(hist)[j] = hist[j].x.d
      BY <3>1 DEF XV, XD, n
    <3>3. h[j] = hist[j] /\ hist[j] \in I
      BY <3>1, Appended DEF h, n
    <3> HIDE DEF j
    <3>4. hist[j].x = Dual(hist[j].x.v, hist[j].x.d)
      BY <1>2, <3>3
    <3>5. out' = h[j].x
      BY <1>8, <1>9, <2>1, <2>3, <3>1, <3>2, <3>3, <3>4
    <3> QED BY <3>1, <3>5 DEF j
  <2> QED BY <2>2, <2>3
<1>13. node.op = "sma" => out' = IF IsFull(primal') THEN Dual(RingMean(primal'), RingMean(grad'))
                                                    ELSE Undefined
  BY DEF TickLag, TickSma
<1> QED BY <1>6, <1>11, <1>12, <1>13 DEF RingSens, p

\* What sma returns is the mean of the window, with that of the derivatives.
LEMMA SmaIsMean ==
  ASSUME node \in Nodes, node.op = "sma", hist \in Seq(Inputs[node.op]), n > 0, RingSens
  PROVE  out = IF Full /\ ~Seen(hist, Nan) THEN Mean(WindowX) ELSE Undefined
<1> DEFINE I == Inputs[node.op]
           p == node.period
           nan == Seen(hist, Nan)
           w == WindowX
<1>1. node.op \in Windows \ Extrema
  BY DEF Windows, Extrema
<1>2. p \in Nat \ {0} /\ \A j \in I : Operand(j.x) /\ j.x = Dual(j.x.v, j.x.d)
  BY <1>1, WindowOperands
<1>3. n \in Nat /\ n > 0 /\ hist[n] \in I
  BY DEF n
<1>4. Stream(XV(hist), n, nan) /\ Stream(XD(hist), n, nan)
  BY <1>2, <1>3, HistoryNext DEF n
<1>5. RingState(primal, XV(hist), n, p, nan) /\ RingState(grad, XD(hist), n, p, nan)
  BY DEF RingSens
<1>6. /\ IsFull(primal) <=> ~(n < p)
      /\ primal.count = Size(n, p) /\ grad.count = Size(n, p)
  <2>1. Held(primal, XV(hist), n, p) /\ Held(grad, XD(hist), n, p)
    BY <1>5 DEF RingState
  <2> QED BY <1>2, <1>3, <2>1, RingReads
<1>7. out = IF IsFull(primal) THEN Dual(RingMean(primal), RingMean(grad)) ELSE Undefined
  BY DEF RingSens
<1>8. Full <=> ~(n < p)
  BY <1>2, <1>3 DEF Full
<1>9. CASE n < p
  BY <1>6, <1>7, <1>8, <1>9
<1>10. CASE ~(n < p) /\ nan
  <2>1. primal.sum = Nan /\ grad.sum = Nan
    BY <1>5, <1>10 DEF RingState
  <2>2. primal.count = p /\ grad.count = p
    BY <1>6, <1>10 DEF Size
  <2>3. IsPair(Whole(p))
    BY <1>2, WholeNumber, NumberPair
  <2>4. RingMean(primal) = Nan /\ RingMean(grad) = Nan
    BY <2>1, <2>2, <2>3, NanAbsorbs DEF RingMean
  <2> QED BY <1>6, <1>7, <1>10, <2>4 DEF Undefined
<1>11. CASE ~(n < p) /\ ~nan
  <2> DEFINE S == WindowSum(XV(hist), n, p)
             T == WindowSum(XD(hist), n, p)
  <2>1. primal.sum = S /\ grad.sum = T
    BY <1>5, <1>11 DEF RingState
  <2>2. primal.count = p /\ grad.count = p
    BY <1>6, <1>11 DEF Size
  <2>3. w = [k \in 1 .. p |-> w[k]]
    BY DEF WindowX
  <2>4. Len(w) = p /\ DOMAIN w = 1 .. p
    <3> HIDE DEF w
    <3> QED BY <1>2, <2>3, LengthOf
  <2>5. ASSUME NEW k \in 1 .. p
        PROVE  w[k].v = XV(hist)[(n - p) + k] /\ w[k].d = XD(hist)[(n - p) + k]
    <3>1. p <= Len(hist)
      BY <1>2, <1>3, <1>11 DEF n
    <3>2. Window[k] = hist[(n - p) + k] /\ (n - p) + k \in 1 .. Len(hist)
      BY <1>2, <3>1, WindowElements DEF Window, n
    <3>3. w[k] = Window[k].x
      BY DEF WindowX
    <3> QED BY <3>2, <3>3 DEF XV, XD
  <2>6. First(n, p) = (n - p) + 1 /\ (n - p) + p = n /\ n - p \in Nat
    BY <1>2, <1>3, <1>11 DEF First
  <2>7. Fold("+", Values(w, p), 1, p) = S
    <3>1. \A k \in 1 .. p : Values(w, p)[k] = XV(hist)[(n - p) + k]
      BY <2>5 DEF Values
    <3>2. Fold("+", Values(w, p), 1, p) = Fold("+", XV(hist), (n - p) + 1, (n - p) + p)
      <4> DEFINE d == n - p
      <4>1. d \in Nat /\ p \in Nat /\ \A k \in 1 .. p : Values(w, p)[k] = XV(hist)[d + k]
        BY <1>2, <2>6, <3>1
      <4> HIDE DEF d, w
      <4>2. Fold("+", Values(w, p), 1, p) = Fold("+", XV(hist), d + 1, d + p)
        BY <4>1, SumShifts
      <4> QED BY <4>2 DEF d
    <3> QED BY <2>6, <3>2 DEF WindowSum
  <2>8. Fold("+", Slopes(w, p), 1, p) = T
    <3>1. \A k \in 1 .. p : Slopes(w, p)[k] = XD(hist)[(n - p) + k]
      BY <2>5 DEF Slopes
    <3>2. Fold("+", Slopes(w, p), 1, p) = Fold("+", XD(hist), (n - p) + 1, (n - p) + p)
      <4> DEFINE d == n - p
      <4>1. d \in Nat /\ p \in Nat /\ \A k \in 1 .. p : Slopes(w, p)[k] = XD(hist)[d + k]
        BY <1>2, <2>6, <3>1
      <4> HIDE DEF d, w
      <4>2. Fold("+", Slopes(w, p), 1, p) = Fold("+", XD(hist), d + 1, d + p)
        BY <4>1, SumShifts
      <4> QED BY <4>2 DEF d
    <3> QED BY <2>6, <3>2 DEF WindowSum
  <2>9. Numbers(XV(hist), First(n, p), n) /\ Numbers(XD(hist), First(n, p), n)
    <3>1. \A k \in First(n, p) .. n : k \in 1 .. n
      BY <1>2, <1>3, <2>6
    <3> QED BY <1>4, <1>11, <3>1 DEF Stream, Numbers
  <2>10. IsNumber(S) /\ IsNumber(T)
    <3>1. First(n, p) \in Nat \ {0}
      BY <2>6
    <3> QED BY <1>3, <2>9, <3>1, FoldNumber DEF WindowSum
  <2> HIDE DEF w, S, T, p
  <2>11. Mean(w) = Dual(MeanOf(p, S), MeanOf(p, T))
    BY <1>2, <2>4, <2>7, <2>8, <2>10, MeanIsDual
  <2>12. MeanOf(p, S) = RingMean(primal) /\ MeanOf(p, T) = RingMean(grad)
    BY <1>2, <2>1, <2>2 DEF MeanOf, RingMean
  <2> QED BY <1>6, <1>7, <1>8, <1>11, <2>11, <2>12 DEF w, nan
<1> QED BY <1>9, <1>10, <1>11

-----------------------------------------------------------------------------
(* Moments of a window *)

\* The products of two series, and their moment.
Prods(f, g, c) == [k \in 1 .. c |-> FMul(f[k], g[k])]
Moment(c, f, g) == MomentOf(c, Fold("+", Prods(f, g, c), 1, c), Fold("+", f, 1, c),
                            Fold("+", g, 1, c))
\* How far each is from the mean.
Devs(f, c) == [k \in 1 .. c |-> FSub(f[k], MeanOf(c, Fold("+", f, 1, c)))]

\* A moment is the sum of the products of the deviations.
LEMMA MomentIsSum ==
  ASSUME NEW c \in Nat \ {0}, NEW f, NEW g, Numbers(f, 1, c), Numbers(g, 1, c)
  PROVE  /\ Moment(c, f, g) = Fold("+", Prods(Devs(f, c), Devs(g, c), c), 1, c)
         /\ Numbers(Devs(f, c), 1, c) /\ Numbers(Devs(g, c), 1, c)
         /\ Numbers(Prods(f, g, c), 1, c) /\ Numbers(Prods(Devs(f, c), Devs(g, c), c), 1, c)
         /\ IsNumber(Moment(c, f, g))
<1> DEFINE A == Fold("+", f, 1, c)
           B == Fold("+", g, 1, c)
           ab == Prods(f, g, c)
           u == Devs(f, c)
           v == Devs(g, c)
           uv == Prods(u, v, c)
<1>1. IsNumber(A) /\ IsNumber(B)
  BY FoldNumber
<1>2. IsNumber(MeanOf(c, A)) /\ IsNumber(MeanOf(c, B))
  BY <1>1, MeanNumber
<1>3. \A k \in 1 .. c : u[k] = FSub(f[k], MeanOf(c, A)) /\ v[k] = FSub(g[k], MeanOf(c, B))
  BY DEF Devs
<1>4. \A k \in 1 .. c : ab[k] = FMul(f[k], g[k]) /\ uv[k] = FMul(u[k], v[k])
  BY DEF Prods
<1>5. \A k \in 1 .. c : IsNumber(f[k]) /\ IsNumber(g[k])
  BY DEF Numbers
<1> HIDE DEF A, B, ab, u, v, uv
<1>6. Numbers(u, 1, c) /\ Numbers(v, 1, c)
  BY <1>2, <1>3, <1>5, NumberClosed DEF Numbers
<1>7. Numbers(ab, 1, c) /\ Numbers(uv, 1, c)
  BY <1>4, <1>5, <1>6, NumberClosed DEF Numbers
<1>8. \A k \in 1 .. c : uv[k] = FMul(FSub(f[k], MeanOf(c, A)), FSub(g[k], MeanOf(c, B)))
  BY <1>3, <1>4
<1>9. Fold("+", uv, 1, c) = MomentOf(c, Fold("+", ab, 1, c), A, B)
  <2>1. A = Fold("+", f, 1, c) /\ B = Fold("+", g, 1, c)
    BY DEF A, B
  <2> QED BY <1>4, <1>8, <2>1, TwoPass
<1>10. IsNumber(Fold("+", uv, 1, c))
  BY <1>7, FoldNumber
<1>11. Moment(c, f, g) = Fold("+", uv, 1, c)
  BY <1>9 DEF Moment, A, B, ab
<1> QED BY <1>6, <1>7, <1>10, <1>11 DEF u, v, ab, uv

\* The moment of dual numbers: that of the values, and its derivative.
LEMMA CoMomentIs ==
  ASSUME NEW c \in Nat \ {0}, NEW s, NEW t, s = [k \in 1 .. c |-> s[k]], Duals(s, c),
         t = [k \in 1 .. c |-> t[k]], Duals(t, c)
  PROVE  CoMoment(s, t) = Dual(Moment(c, Values(s, c), Values(t, c)),
                               FAdd(Moment(c, Slopes(s, c), Values(t, c)),
                                    Moment(c, Values(s, c), Slopes(t, c))))
<1> DEFINE a == Values(s, c)
           b == Slopes(s, c)
           f == Values(t, c)
           g == Slopes(t, c)
           ms == Mean(s)
           mt == Mean(t)
           w == [k \in DOMAIN s |-> DMul(DSub(s[k], ms), DSub(t[k], mt))]
           A == MeanOf(c, Fold("+", a, 1, c))
           B == MeanOf(c, Fold("+", b, 1, c))
           F == MeanOf(c, Fold("+", f, 1, c))
           G == MeanOf(c, Fold("+", g, 1, c))
           V == Prods(Devs(a, c), Devs(f, c), c)
           X == Prods(Devs(b, c), Devs(f, c), c)
           Y == Prods(Devs(a, c), Devs(g, c), c)
<1>1. Len(s) = c /\ DOMAIN s = 1 .. c /\ Len(t) = c /\ DOMAIN t = 1 .. c
  BY LengthOf
<1>2. Numbers(a, 1, c) /\ Numbers(b, 1, c) /\ Numbers(f, 1, c) /\ Numbers(g, 1, c)
  BY PartNumbers
<1>3. \A k \in 1 .. c : s[k].v = a[k] /\ s[k].d = b[k] /\ t[k].v = f[k] /\ t[k].d = g[k]
  BY DEF Values, Slopes
<1>4. /\ IsNumber(Fold("+", a, 1, c)) /\ IsNumber(Fold("+", b, 1, c))
      /\ IsNumber(Fold("+", f, 1, c)) /\ IsNumber(Fold("+", g, 1, c))
  <2> HIDE DEF a, b, f, g
  <2> QED BY <1>2, FoldNumber
<1>5. ms = Dual(A, B) /\ mt = Dual(F, G)
  BY <1>1, <1>4, MeanIsDual
<1> HIDE DEF ms, mt, a, b, f, g
<1>6. /\ \A k \in 1 .. c : Devs(a, c)[k] = FSub(a[k], A) /\ Devs(b, c)[k] = FSub(b[k], B)
      /\ \A k \in 1 .. c : Devs(f, c)[k] = FSub(f[k], F) /\ Devs(g, c)[k] = FSub(g[k], G)
  BY DEF Devs
<1>7. /\ \A k \in 1 .. c : V[k] = FMul(Devs(a, c)[k], Devs(f, c)[k])
      /\ \A k \in 1 .. c : X[k] = FMul(Devs(b, c)[k], Devs(f, c)[k])
      /\ \A k \in 1 .. c : Y[k] = FMul(Devs(a, c)[k], Devs(g, c)[k])
  BY DEF Prods
<1> HIDE DEF A, B, F, G, V, X, Y
<1>8. ASSUME NEW k \in 1 .. c PROVE w[k].v = V[k] /\ w[k].d = FAdd(X[k], Y[k])
  <2>1. \A x, y : Dual(x, y).v = x /\ Dual(x, y).d = y
    BY DEF Dual
  <2>2. DSub(s[k], ms) = Dual(Devs(a, c)[k], Devs(b, c)[k])
    BY <1>3, <1>5, <1>6, <2>1 DEF DSub
  <2>3. DSub(t[k], mt) = Dual(Devs(f, c)[k], Devs(g, c)[k])
    BY <1>3, <1>5, <1>6, <2>1 DEF DSub
  <2>4. DMul(DSub(s[k], ms), DSub(t[k], mt)) = Dual(V[k], FAdd(X[k], Y[k]))
    BY <1>7, <2>1, <2>2, <2>3 DEF DMul
  <2>5. w[k] = DMul(DSub(s[k], ms), DSub(t[k], mt))
    BY <1>1
  <2> QED BY <2>1, <2>4, <2>5
<1>9. w = [k \in 1 .. c |-> w[k]]
  BY <1>1
<1>10. CoMoment(s, t) = DTotal(w)
  BY DEF CoMoment, ms, mt
<1> HIDE DEF w
<1>11. Len(w) = c /\ DOMAIN w = 1 .. c
  BY <1>9, LengthOf
<1>12. DTotal(w) = Dual(Fold("+", Values(w, c), 1, c), Fold("+", Slopes(w, c), 1, c))
  BY <1>11, MeanIsDual
<1>13. /\ Moment(c, a, f) = Fold("+", V, 1, c) /\ Moment(c, b, f) = Fold("+", X, 1, c)
       /\ Moment(c, a, g) = Fold("+", Y, 1, c) /\ Numbers(X, 1, c) /\ Numbers(Y, 1, c)
  BY <1>2, MomentIsSum DEF V, X, Y
<1>14. Fold("+", Values(w, c), 1, c) = Fold("+", V, 1, c)
  <2>1. \A k \in 1 .. c : Values(w, c)[k] = V[k]
    BY <1>8 DEF Values
  <2> QED BY <2>1, FoldSame
<1>15. Fold("+", Slopes(w, c), 1, c) = FAdd(Fold("+", X, 1, c), Fold("+", Y, 1, c))
  <2>1. \A k \in 1 .. c : Slopes(w, c)[k] = FAdd(X[k], Y[k])
    BY <1>8 DEF Slopes
  <2> QED BY <1>13, <2>1, SumAdds
<1> QED BY <1>10, <1>12, <1>13, <1>14, <1>15 DEF a, b, f, g

\* A sum of squared deviations is positive, or nothing deviates: then every
\* moment with these numbers is zero.
LEMMA MomentSign ==
  ASSUME NEW c \in Nat \ {0}, NEW f, Numbers(f, 1, c)
  PROVE  \/ IsPositive(Moment(c, f, f))
         \/ /\ Moment(c, f, f) = Zero
            /\ \A g : Numbers(g, 1, c) => Moment(c, f, g) = Zero /\ Moment(c, g, f) = Zero
<1> DEFINE u == Devs(f, c)
<1>1. Moment(c, f, f) = Fold("+", Prods(u, u, c), 1, c) /\ Numbers(u, 1, c)
  BY MomentIsSum
<1>2. \A k \in 1 .. c : Prods(u, u, c)[k] = FMul(u[k], u[k])
  BY DEF Prods
<1> HIDE DEF u
<1>3. \/ IsPositive(Fold("+", Prods(u, u, c), 1, c))
      \/ Fold("+", Prods(u, u, c), 1, c) = Zero /\ \A k \in 1 .. c : u[k] = Zero
  BY <1>1, <1>2, SquareSum DEF Zero
<1>4. ASSUME \A k \in 1 .. c : u[k] = Zero, NEW g, Numbers(g, 1, c)
      PROVE  Moment(c, f, g) = Zero /\ Moment(c, g, f) = Zero
  <2> DEFINE v == Devs(g, c)
  <2>1. /\ Moment(c, f, g) = Fold("+", Prods(u, v, c), 1, c)
        /\ Moment(c, g, f) = Fold("+", Prods(v, u, c), 1, c) /\ Numbers(v, 1, c)
    BY <1>4, MomentIsSum DEF u
  <2> HIDE DEF v
  <2>2. \A k \in 1 .. c : FMul(v[k], Zero) = Zero /\ FMul(Zero, v[k]) = Zero
    BY <2>1, Annihilates DEF Numbers
  <2>3. \A k \in 1 .. c : Prods(u, v, c)[k] = Whole(0) /\ Prods(v, u, c)[k] = Whole(0)
    BY <1>4, <2>2 DEF Prods, Zero
  <2> QED BY <2>1, <2>3, SumOfZeros DEF Zero
<1> QED BY <1>1, <1>3, <1>4

\* The last p of m elements.
Recent(f, m, p) == [k \in 1 .. p |-> f[(m - p) + k]]

\* Sums and moments of the last elements.
LEMMA RecentSum ==
  ASSUME NEW p \in Nat \ {0}, NEW m \in Nat, ~(m < p), NEW f
  PROVE  /\ Fold("+", Recent(f, m, p), 1, p) = WindowSum(f, m, p)
         /\ Numbers(f, First(m, p), m) => Numbers(Recent(f, m, p), 1, p)
<1> DEFINE d == m - p
           r == Recent(f, m, p)
<1>1. d \in Nat /\ First(m, p) = d + 1 /\ d + p = m
  BY DEF First
<1>2. \A k \in 1 .. p : r[k] = f[d + k]
  BY DEF Recent
<1>3. \A k \in 1 .. p : d + k \in d + 1 .. m
  BY <1>1
<1> HIDE DEF d, r
<1>4. Fold("+", r, 1, p) = Fold("+", f, d + 1, d + p)
  BY <1>1, <1>2, SumShifts
<1>5. Numbers(f, First(m, p), m) => Numbers(r, 1, p)
  BY <1>1, <1>2, <1>3 DEF Numbers
<1> QED BY <1>1, <1>4, <1>5 DEF WindowSum, r

\* The moment of the last p elements, from the sums of the window.
LEMMA RecentMoment ==
  ASSUME NEW p \in Nat \ {0}, NEW m \in Nat, ~(m < p), NEW f, NEW g,
         NEW fg, \A k \in 1 .. m : fg[k] = FMul(f[k], g[k])
  PROVE  Moment(p, Recent(f, m, p), Recent(g, m, p)) =
           MomentOf(p, WindowSum(fg, m, p), WindowSum(f, m, p), WindowSum(g, m, p))
<1>1. \A k \in 1 .. p : Prods(Recent(f, m, p), Recent(g, m, p), p)[k] = Recent(fg, m, p)[k]
  <2>1. \A k \in 1 .. p : (m - p) + k \in 1 .. m
    OBVIOUS
  <2> QED BY <2>1 DEF Prods, Recent
<1>2. Fold("+", Prods(Recent(f, m, p), Recent(g, m, p), p), 1, p) = Fold("+", Recent(fg, m, p), 1, p)
  BY <1>1, FoldSame
<1> QED BY <1>2, RecentSum DEF Moment

\* The second operand of all ticks: values and derivatives.
YV(h) == [k \in 1 .. Len(h) |-> h[k].y.v]
YD(h) == [k \in 1 .. Len(h) |-> h[k].y.d]

\* The window of operands.
LEMMA WindowParts ==
  ASSUME NEW I, hist \in Seq(I), node.period \in Nat \ {0}, ~(n < node.period)
  PROVE  LET p == node.period
         IN  /\ n \in Nat /\ WindowX = [k \in 1 .. p |-> WindowX[k]]
             /\ WindowY = [k \in 1 .. p |-> WindowY[k]]
             /\ \A k \in 1 .. p : /\ WindowX[k] = hist[(n - p) + k].x /\ (n - p) + k \in 1 .. n
                                  /\ WindowY[k] = hist[(n - p) + k].y
             /\ Values(WindowX, p) = Recent(XV(hist), n, p)
             /\ Slopes(WindowX, p) = Recent(XD(hist), n, p)
             /\ Values(WindowY, p) = Recent(YV(hist), n, p)
             /\ Slopes(WindowY, p) = Recent(YD(hist), n, p)
<1> DEFINE p == node.period
           w == WindowX
           y == WindowY
<1>1. p <= Len(hist) /\ n \in Nat
  BY DEF n
<1>2. \A k \in 1 .. p : Window[k] = hist[(n - p) + k] /\ (n - p) + k \in 1 .. Len(hist)
  BY <1>1, WindowElements DEF Window, n
<1>3. w = [k \in 1 .. p |-> w[k]] /\ y = [k \in 1 .. p |-> y[k]]
  BY DEF WindowX, WindowY
<1>4. \A k \in 1 .. p : w[k] = hist[(n - p) + k].x /\ y[k] = hist[(n - p) + k].y
  BY <1>2 DEF WindowX, WindowY
<1>5. \A k \in 1 .. p : /\ XV(hist)[(n - p) + k] = w[k].v /\ XD(hist)[(n - p) + k] = w[k].d
                        /\ YV(hist)[(n - p) + k] = y[k].v /\ YD(hist)[(n - p) + k] = y[k].d
  BY <1>2, <1>4 DEF XV, XD, YV, YD
<1> HIDE DEF w, y, p
<1>6. Values(w, p) = Recent(XV(hist), n, p) /\ Slopes(w, p) = Recent(XD(hist), n, p)
  BY <1>5 DEF Values, Slopes, Recent
<1>7. Values(y, p) = Recent(YV(hist), n, p) /\ Slopes(y, p) = Recent(YD(hist), n, p)
  BY <1>5 DEF Values, Slopes, Recent
<1> QED BY <1>1, <1>2, <1>3, <1>4, <1>6, <1>7 DEF w, y, p, n

-----------------------------------------------------------------------------
(* rolling_corr and rolling_beta *)

\* The five sums of a window of pairs, and which of them a NaN spoils.
Fields == {"x", "y", "xy", "xx", "yy"}
Spoiled == {"x", "xy", "xx"}     \* by a NaN among the x

\* The terms of all ticks, and their derivatives.
TermsV(h) == [f \in Fields |-> [k \in 1 .. Len(h) |-> Terms(h[k].x.v, h[k].y.v)[f]]]
TermsD(h) == [f \in Fields |->
                [k \in 1 .. Len(h) |-> TermsP(h[k].x.v, h[k].x.d, h[k].y.v, h[k].y.d)[f]]]
PairV(h) == [k \in 1 .. Len(h) |-> <<h[k].x.v, h[k].y.v>>]
PairD(h) == [k \in 1 .. Len(h) |-> <<h[k].x.d, h[k].y.d>>]

\* The ring of pairs with its five sums, after m ticks.
PairState(st, b, t, m, p, nan) ==
  /\ DOMAIN st = {"cap", "head", "count", "sums", "buf"} /\ Held(st, b, m, p)
  /\ DOMAIN st.sums = Fields
  /\ \A f \in Fields : st.sums[f] = IF nan /\ f \in Spoiled THEN Nan ELSE WindowSum(t[f], m, p)

\* The two rings of a pair operator after n ticks, and what was returned.
PairSens ==
  LET p == node.period
      nan == Seen(hist, Nan)
  IN  /\ PairState(primal, PairV(hist), TermsV(hist), n, p, nan)
      /\ PairState(grad, PairD(hist), TermsD(hist), n, p, nan)
      /\ out = PairGradient(node.op, primal, grad)

\* The terms of one tick are numbers, or spoiled.
LEMMA TermsAre ==
  ASSUME NEW x, NEW y, Operand(x), IsDual(y)
  PROVE  LET t == Terms(x.v, y.v)
             u == TermsP(x.v, x.d, y.v, y.d)
         IN  /\ DOMAIN t = Fields /\ DOMAIN u = Fields
             /\ \A f \in Fields : IF x.v = Nan /\ f \in Spoiled THEN t[f] = Nan /\ u[f] = Nan
                                  ELSE IsNumber(t[f]) /\ IsNumber(u[f])
<1> DEFINE t == Terms(x.v, y.v)
           u == TermsP(x.v, x.d, y.v, y.d)
<1>1. /\ t.x = x.v /\ t.y = y.v /\ t.xy = FMul(x.v, y.v) /\ t.xx = FMul(x.v, x.v)
      /\ t.yy = FMul(y.v, y.v) /\ DOMAIN t = Fields
  BY DEF Terms, Fields
<1>2. /\ u.x = x.d /\ u.y = y.d /\ u.xy = FAdd(FMul(x.d, y.v), FMul(x.v, y.d))
      /\ u.xx = FMul(Two, FMul(x.v, x.d)) /\ u.yy = FMul(Two, FMul(y.v, y.d))
      /\ DOMAIN u = Fields
  BY DEF TermsP, Fields
<1> HIDE DEF t, u
<1>3. IsNumber(y.v) /\ IsNumber(y.d)
  BY DEF IsDual
<1>4. IsNumber(Two)
  BY WholeNumber DEF Two
<1>5. IsNumber(FMul(y.v, y.v)) /\ IsNumber(FMul(y.v, y.d))
  BY <1>3, NumberClosed
<1>6. IsNumber(FMul(Two, FMul(y.v, y.d)))
  BY <1>4, <1>5, NumberClosed
<1>7. CASE IsNumber(x.v) /\ IsNumber(x.d)
  <2>1. x.v # Nan
    BY <1>7, NumberPair
  <2>2. IsNumber(t.xy) /\ IsNumber(t.xx)
    BY <1>1, <1>3, <1>7, NumberClosed
  <2>3. IsNumber(FMul(x.d, y.v)) /\ IsNumber(FMul(x.v, y.d)) /\ IsNumber(FMul(x.v, x.d))
    BY <1>3, <1>7, NumberClosed
  <2>4. IsNumber(u.xy) /\ IsNumber(u.xx)
    BY <1>2, <1>4, <2>3, NumberClosed
  <2>5. \A f \in Fields : IsNumber(t[f]) /\ IsNumber(u[f])
    BY <1>1, <1>2, <1>3, <1>5, <1>6, <1>7, <2>2, <2>4 DEF Fields
  <2> QED BY <1>1, <1>2, <2>1, <2>5 DEF t, u
<1>8. CASE x.v = Nan /\ x.d = Nan
  <2>1. IsPair(y.v) /\ IsPair(y.d) /\ IsPair(Two) /\ IsPair(Nan)
    BY <1>3, <1>4, NumberPair, NanAbsorbs
  <2>2. /\ FMul(Nan, y.v) = Nan /\ FMul(Nan, y.d) = Nan /\ FMul(Nan, Nan) = Nan
        /\ FAdd(Nan, Nan) = Nan /\ FMul(Two, Nan) = Nan
    BY <2>1, NanAbsorbs
  <2>3. \A f \in Spoiled : t[f] = Nan /\ u[f] = Nan
    BY <1>1, <1>2, <1>8, <2>2 DEF Spoiled
  <2>4. \A f \in Fields : f \in Spoiled \/ (IsNumber(t[f]) /\ IsNumber(u[f]))
    BY <1>1, <1>2, <1>3, <1>5, <1>6 DEF Fields, Spoiled
  <2> QED BY <1>1, <1>2, <1>8, <2>3, <2>4 DEF t, u
<1> QED BY <1>7, <1>8 DEF Operand

\* The terms of a history as series, spoiled by its NaN operands.
LEMMA TermsNext ==
  ASSUME NEW I, \A i \in I : Operand(i.x) /\ IsDual(i.y), NEW h \in Seq(I), NEW i \in I
  PROVE  LET m == Len(h)
             g == Append(h, i)
             nan == Seen(h, Nan)
         IN  /\ Continues(PairV(g), PairV(h), m, <<i.x.v, i.y.v>>)
             /\ Continues(PairD(g), PairD(h), m, <<i.x.d, i.y.d>>)
             /\ \A f \in Fields :
                  /\ Continues(TermsV(g)[f], TermsV(h)[f], m, Terms(i.x.v, i.y.v)[f])
                  /\ Continues(TermsD(g)[f], TermsD(h)[f], m,
                               TermsP(i.x.v, i.x.d, i.y.v, i.y.d)[f])
                  /\ Stream(TermsV(h)[f], m, nan /\ f \in Spoiled)
                  /\ Stream(TermsD(h)[f], m, nan /\ f \in Spoiled)
<1> DEFINE m == Len(h)
           g == Append(h, i)
           nan == Seen(h, Nan)
           T(j) == Terms(j.x.v, j.y.v)
           U(j) == TermsP(j.x.v, j.x.d, j.y.v, j.y.d)
<1>1. /\ m \in Nat /\ g \in Seq(I) /\ Len(g) = m + 1 /\ g[m + 1] = i
      /\ \A k \in 1 .. m : g[k] = h[k]
  BY Appended
<1>2. DOMAIN h = 1 .. m /\ \A k \in 1 .. m : h[k] \in I
  BY <1>1
<1>3. (\A k \in 1 .. m : k \in 1 .. m + 1) /\ m + 1 \in 1 .. m + 1
  BY <1>1
<1>4. /\ Continues(PairV(g), PairV(h), m, <<i.x.v, i.y.v>>)
      /\ Continues(PairD(g), PairD(h), m, <<i.x.d, i.y.d>>)
  BY <1>1, <1>3 DEF Continues, PairV, PairD
<1>5. nan \in BOOLEAN /\ (nan <=> \E k \in 1 .. m : h[k].x.v = Nan)
  BY <1>2 DEF Seen
<1>6. ASSUME NEW f \in Fields
      PROVE  /\ Continues(TermsV(g)[f], TermsV(h)[f], m, T(i)[f])
             /\ Continues(TermsD(g)[f], TermsD(h)[f], m, U(i)[f])
             /\ Stream(TermsV(h)[f], m, nan /\ f \in Spoiled)
             /\ Stream(TermsD(h)[f], m, nan /\ f \in Spoiled)
  <2>1. /\ \A k \in 1 .. m : TermsV(h)[f][k] = T(h[k])[f] /\ TermsD(h)[f][k] = U(h[k])[f]
        /\ \A k \in 1 .. m + 1 : TermsV(g)[f][k] = T(g[k])[f] /\ TermsD(g)[f][k] = U(g[k])[f]
    BY <1>1 DEF TermsV, TermsD
  <2>2. \A j \in I : IF j.x.v = Nan /\ f \in Spoiled THEN T(j)[f] = Nan /\ U(j)[f] = Nan
                     ELSE IsNumber(T(j)[f]) /\ IsNumber(U(j)[f])
    BY TermsAre
  <2> HIDE DEF T, U
  <2>3. Continues(TermsV(g)[f], TermsV(h)[f], m, T(i)[f])
    BY <1>1, <1>3, <2>1 DEF Continues
  <2>4. Continues(TermsD(g)[f], TermsD(h)[f], m, U(i)[f])
    BY <1>1, <1>3, <2>1 DEF Continues
  <2>5. \A a : IsNumber(a) => a # Nan
    BY NumberPair
  <2>6. \A k \in 1 .. m : /\ T(h[k])[f] = Nan <=> h[k].x.v = Nan /\ f \in Spoiled
                          /\ U(h[k])[f] = Nan <=> h[k].x.v = Nan /\ f \in Spoiled
                          /\ IsNumber(T(h[k])[f]) \/ T(h[k])[f] = Nan
                          /\ IsNumber(U(h[k])[f]) \/ U(h[k])[f] = Nan
    BY <1>2, <2>2, <2>5
  <2>7. (nan /\ f \in Spoiled) \in BOOLEAN
    BY <1>5
  <2> HIDE DEF nan
  <2>8. Stream(TermsV(h)[f], m, nan /\ f \in Spoiled)
    BY <1>5, <2>1, <2>6, <2>7 DEF Stream
  <2>9. Stream(TermsD(h)[f], m, nan /\ f \in Spoiled)
    BY <1>5, <2>1, <2>6, <2>7 DEF Stream
  <2> QED BY <2>3, <2>4, <2>8, <2>9
<1> QED BY <1>4, <1>6

\* A series of terms, the terms of one more tick and those of the oldest, and
\* the ring after a push.
TermSeries(t, m, nan) == \A f \in Fields : Stream(t[f], m, nan /\ f \in Spoiled)
NextTerms(u, t, m, e, bad) ==
  \A f \in Fields : /\ Continues(u[f], t[f], m, e[f])
                    /\ IF bad /\ f \in Spoiled THEN e[f] = Nan ELSE IsNumber(e[f])
OldestTerms(old, t, m, p) == \A f \in Fields : OldestIs(old[f], t[f], m, p)
PairPushed(r, st, x, old, e, m, p) ==
  /\ DOMAIN r = {"cap", "head", "count", "sums", "buf"} /\ r.cap = p
  /\ r.buf = [st.buf EXCEPT ![st.head] = x] /\ r.head = (st.head + 1) % p
  /\ r.count = IF st.count = p THEN st.count ELSE st.count + 1
  /\ r.sums = Plus(IF m < p THEN st.sums ELSE Minus(st.sums, old), e)

\* A push of a pair: the ring and the five sums.
LEMMA PairPush ==
  ASSUME NEW p \in Nat \ {0}, NEW m \in Nat, NEW b, NEW t, NEW nan \in BOOLEAN, NEW st,
         PairState(st, b, t, m, p, nan), NEW bad \in BOOLEAN, TermSeries(t, m, nan),
         NEW x, NEW c, Continues(c, b, m, x), NEW e, NEW u, NextTerms(u, t, m, e, bad),
         NEW old, OldestTerms(old, t, m, p), NEW r, PairPushed(r, st, x, old, e, m, p)
  PROVE  PairState(r, c, u, m + 1, p, nan \/ bad)
<1>1. Held(st, b, m, p) /\ DOMAIN st.sums = Fields
  BY DEF PairState
<1>2. Held(r, c, m + 1, p)
  BY <1>1, HeldNext DEF PairPushed
<1>3. /\ DOMAIN r.sums = Fields
      /\ \A f \in Fields :
           r.sums[f] = FAdd(IF m < p THEN st.sums[f] ELSE FSub(st.sums[f], old[f]), e[f])
  BY <1>1 DEF Plus, Minus, PairPushed
<1>4. ASSUME NEW f \in Fields
      PROVE  r.sums[f] = IF (nan \/ bad) /\ f \in Spoiled THEN Nan ELSE WindowSum(u[f], m + 1, p)
  <2>0. PICK bf \in BOOLEAN : bf = (nan /\ f \in Spoiled)
    OBVIOUS
  <2> DEFINE sum == st.sums[f]
             old1 == old[f]
             f1 == t[f]
             g1 == u[f]
             x1 == e[f]
  <2>1. /\ Stream(f1, m, bf) /\ SumIs(sum, f1, m, p, bf) /\ OldestIs(old1, f1, m, p)
        /\ Continues(g1, f1, m, x1) /\ (IsNumber(x1) \/ x1 = Nan)
    BY <2>0 DEF PairState, SumIs, TermSeries, NextTerms, OldestTerms
  <2>2. x1 = Nan <=> bad /\ f \in Spoiled
    <3>1. IsNumber(x1) => x1 # Nan
      BY NumberPair
    <3> QED BY <3>1 DEF NextTerms
  <2>3. r.sums[f] = FAdd(IF m < p THEN sum ELSE FSub(sum, old1), x1)
    BY <1>3
  <2>4. (bf \/ x1 = Nan) = ((nan \/ bad) /\ f \in Spoiled)
    BY <2>0, <2>2
  <2> HIDE DEF sum, old1, f1, g1, x1
  <2>5. SumIs(FAdd(IF m < p THEN sum ELSE FSub(sum, old1), x1), g1, m + 1, p, bf \/ x1 = Nan)
    BY <2>1, SumPush
  <2> QED BY <2>3, <2>4, <2>5 DEF SumIs, g1
<1> QED BY <1>2, <1>3, <1>4 DEF PairState, PairPushed

\* A ring without pairs.
LEMMA FreshPairState ==
  ASSUME NEW b, NEW t, NEW p \in Nat \ {0}
  PROVE  PairState(FreshPair(p), b, t, 0, p, FALSE) /\ FreshPair(0).cap # p /\ FreshPair(p).cap = p
<1> DEFINE st == FreshPair(p)
<1>1. /\ DOMAIN st = {"cap", "head", "count", "sums", "buf"} /\ st.cap = p /\ st.head = 0
      /\ st.count = 0 /\ st.sums = NoSums /\ DOMAIN st.buf = 0 .. p - 1
  BY DEF FreshPair
<1>2. FreshPair(0).cap # p
  BY DEF FreshPair
<1>3. DOMAIN NoSums = Fields /\ \A f \in Fields : NoSums[f] = Zero
  BY DEF NoSums, Fields
<1> HIDE DEF st
<1>4. Held(st, b, 0, p)
  BY <1>1, EmptyHeld
<1>5. \A f \in Fields : st.sums[f] = WindowSum(t[f], 0, p)
  BY <1>1, <1>3, EmptySum
<1> QED BY <1>1, <1>2, <1>3, <1>4, <1>5 DEF PairState, st

\* Both states have the right capacity when a tick uses them.
LEMMA PairsFit ==
  ASSUME node.op \in Pairs, node.period \in Nat \ {0}, n \in Nat, Started(PairSens),
         n = 0 => ~Seen(hist, Nan)
  PROVE  LET p == node.period
             nan == Seen(hist, Nan)
             a == IF primal.cap # p THEN FreshPair(p) ELSE primal
             g == IF grad.cap # p THEN FreshPair(p) ELSE grad
         IN  /\ PairState(a, PairV(hist), TermsV(hist), n, p, nan)
             /\ PairState(g, PairD(hist), TermsD(hist), n, p, nan)
<1> DEFINE p == node.period
           nan == Seen(hist, Nan)
           a == IF primal.cap # p THEN FreshPair(p) ELSE primal
           g == IF grad.cap # p THEN FreshPair(p) ELSE grad
<1>0. nan \in BOOLEAN
  BY DEF Seen
<1>1. CASE n = 0
  <2>1. primal = PrimalInit(node, mode) /\ grad = SensitivityInit(node)
    BY <1>1 DEF Started
  <2>2. primal = IF mode = "interp" THEN FreshPair(0) ELSE FreshPair(p)
    <3>1. PrimalInit(node, mode) = IF mode = "interp" THEN FreshPair(0) ELSE FreshPair(p)
      BY DEF PrimalInit, Deviations, Pairs, Extrema, Crosses
    <3> QED BY <2>1, <3>1
  <2>3. grad = FreshPair(0)
    <3>1. SensitivityInit(node) = FreshPair(0)
      BY DEF SensitivityInit, Deviations, Pairs, Extrema, Crosses
    <3> QED BY <2>1, <3>1
  <2>4. /\ \A b, t : PairState(FreshPair(p), b, t, 0, p, FALSE)
        /\ FreshPair(0).cap # p /\ FreshPair(p).cap = p
    BY FreshPairState
  <2>5. a = FreshPair(p) /\ g = FreshPair(p) /\ nan = FALSE
    BY <1>0, <1>1, <2>2, <2>3, <2>4
  <2> QED BY <1>1, <2>4, <2>5
<1>2. CASE n # 0
  <2>1. /\ PairState(primal, PairV(hist), TermsV(hist), n, p, nan)
        /\ PairState(grad, PairD(hist), TermsD(hist), n, p, nan)
    BY <1>2 DEF Started, PairSens
  <2>2. primal.cap = p /\ grad.cap = p
    BY <2>1 DEF PairState, Held
  <2> QED BY <2>1, <2>2
<1> QED BY <1>1, <1>2

\* A tick of rolling_corr or rolling_beta.
LEMMA PairSensStep ==
  ASSUME node \in Nodes, node.op \in Pairs, hist \in Seq(Inputs[node.op]),
         Started(PairSens), NEW i \in Inputs[node.op], TickPair(i)
  PROVE  PairSens'
<1> DEFINE I == Inputs[node.op]
           p == node.period
           h == Append(hist, i)
           nan == Seen(hist, Nan)
           a == IF primal.cap # p THEN FreshPair(p) ELSE primal
           g == IF grad.cap # p THEN FreshPair(p) ELSE grad
           bad == i.x.v = Nan
           e == Terms(i.x.v, i.y.v)
           u == TermsP(i.x.v, i.x.d, i.y.v, i.y.d)
           old == a.buf[a.head]
           oldP == g.buf[a.head]
           eo == Terms(old[1], old[2])
           uo == TermsP(old[1], oldP[1], old[2], oldP[2])
           s == RollingPairGradStep(p, i.x, i.y)
           r == s.primal
           q == s.grad
<1>1. node.op \in Windows \ Extrema
  BY DEF Windows, Extrema, Pairs
<1>2. p \in Nat \ {0} /\ \A j \in I : Operand(j.x) /\ IsDual(j.y)
  BY <1>1, WindowOperands
<1>3. /\ n \in Nat /\ h \in Seq(I) /\ Len(h) = n + 1
      /\ Seen(h, Nan) <=> nan \/ bad
      /\ n = 0 => ~nan
  BY <1>2, HistoryNext DEF n
<1>4. /\ PairState(a, PairV(hist), TermsV(hist), n, p, nan)
      /\ PairState(g, PairD(hist), TermsD(hist), n, p, nan)
  BY <1>2, <1>3, PairsFit
<1>5. /\ Continues(PairV(h), PairV(hist), n, <<i.x.v, i.y.v>>)
      /\ Continues(PairD(h), PairD(hist), n, <<i.x.d, i.y.d>>)
      /\ \A f \in Fields :
           /\ Continues(TermsV(h)[f], TermsV(hist)[f], n, e[f])
           /\ Continues(TermsD(h)[f], TermsD(hist)[f], n, u[f])
           /\ Stream(TermsV(hist)[f], n, nan /\ f \in Spoiled)
           /\ Stream(TermsD(hist)[f], n, nan /\ f \in Spoiled)
  BY <1>2, TermsNext DEF n
<1>6. \A f \in Fields : IF bad /\ f \in Spoiled THEN e[f] = Nan /\ u[f] = Nan
                        ELSE IsNumber(e[f]) /\ IsNumber(u[f])
  BY <1>2, TermsAre
<1>7. /\ Held(a, PairV(hist), n, p) /\ Held(g, PairD(hist), n, p)
      /\ DOMAIN a = {"cap", "head", "count", "sums", "buf"}
      /\ DOMAIN g = {"cap", "head", "count", "sums", "buf"}
  BY <1>4 DEF PairState
<1>8. /\ a.cap = p /\ g.cap = p /\ g.head = a.head /\ (a.count = a.cap <=> ~(n < p))
      /\ g.count = a.count
  <2>1. a.cap = p /\ (a.count = a.cap <=> ~(n < p))
    BY <1>2, <1>3, <1>7, RingReads
  <2>2. g.cap = p /\ g.head = a.head /\ g.count = a.count
    BY <1>7 DEF Held
  <2> QED BY <2>1, <2>2
<1> HIDE DEF a, g
<1>9. /\ r = [a EXCEPT !.buf[a.head] = <<i.x.v, i.y.v>>, !.head = (a.head + 1) % a.cap,
                       !.count = IF a.count = a.cap THEN a.count ELSE a.count + 1,
                       !.sums = Plus(IF a.count = a.cap THEN Minus(a.sums, eo) ELSE a.sums, e)]
      /\ q = [g EXCEPT !.buf[a.head] = <<i.x.d, i.y.d>>, !.head = (a.head + 1) % a.cap,
                       !.count = IF a.count = a.cap THEN a.count ELSE a.count + 1,
                       !.sums = Plus(IF a.count = a.cap THEN Minus(g.sums, uo) ELSE g.sums, u)]
  BY DEF RollingPairGradStep, a, g
<1> HIDE DEF r, q, s, e, u, eo, uo
<1>10. /\ DOMAIN r = {"cap", "head", "count", "sums", "buf"} /\ r.cap = p
       /\ r.buf = [a.buf EXCEPT ![a.head] = <<i.x.v, i.y.v>>] /\ r.head = (a.head + 1) % p
       /\ r.count = IF a.count = p THEN a.count ELSE a.count + 1
       /\ r.sums = Plus(IF n < p THEN a.sums ELSE Minus(a.sums, eo), e)
  BY <1>7, <1>8, <1>9
<1>11. /\ DOMAIN q = {"cap", "head", "count", "sums", "buf"} /\ q.cap = p
       /\ q.buf = [g.buf EXCEPT ![g.head] = <<i.x.d, i.y.d>>] /\ q.head = (g.head + 1) % p
       /\ q.count = IF g.count = p THEN g.count ELSE g.count + 1
       /\ q.sums = Plus(IF n < p THEN g.sums ELSE Minus(g.sums, uo), u)
  BY <1>7, <1>8, <1>9
<1>12. ~(n < p) => \A f \in Fields : /\ eo[f] = TermsV(hist)[f][First(n, p)]
                                     /\ uo[f] = TermsD(hist)[f][First(n, p)]
  <2> SUFFICES ASSUME ~(n < p), NEW f \in Fields
               PROVE  eo[f] = TermsV(hist)[f][First(n, p)] /\ uo[f] = TermsD(hist)[f][First(n, p)]
    OBVIOUS
  <2> DEFINE k == First(n, p)
  <2>1. k \in 1 .. n
    BY <1>2, <1>3 DEF First
  <2>2. a.buf[a.head] = PairV(hist)[k]
    BY <1>2, <1>3, <1>7, HeldOldest
  <2>3. g.buf[g.head] = PairD(hist)[k]
    BY <1>2, <1>3, <1>7, HeldOldest
  <2> HIDE DEF k
  <2>4. old = <<hist[k].x.v, hist[k].y.v>> /\ oldP = <<hist[k].x.d, hist[k].y.d>>
    BY <1>8, <2>1, <2>2, <2>3 DEF PairV, PairD, n
  <2> HIDE DEF old, oldP
  <2>5. /\ eo = Terms(hist[k].x.v, hist[k].y.v)
        /\ uo = TermsP(hist[k].x.v, hist[k].x.d, hist[k].y.v, hist[k].y.d)
    BY <2>4 DEF eo, uo
  <2>6. /\ TermsV(hist)[f][k] = Terms(hist[k].x.v, hist[k].y.v)[f]
        /\ TermsD(hist)[f][k] = TermsP(hist[k].x.v, hist[k].x.d, hist[k].y.v, hist[k].y.d)[f]
    BY <2>1 DEF TermsV, TermsD, n
  <2> QED BY <2>5, <2>6 DEF k
<1>13. nan \in BOOLEAN /\ bad \in BOOLEAN /\ (nan \/ bad) = Seen(h, Nan)
  BY <1>3 DEF Seen
<1> HIDE DEF nan, bad, p, h, old, oldP
<1>14. PairState(r, PairV(h), TermsV(h), n + 1, p, nan \/ bad)
  <2>1. TermSeries(TermsV(hist), n, nan) /\ NextTerms(TermsV(h), TermsV(hist), n, e, bad)
    BY <1>5, <1>6 DEF TermSeries, NextTerms
  <2>2. OldestTerms(eo, TermsV(hist), n, p)
    BY <1>12 DEF OldestTerms, OldestIs
  <2>3. PairPushed(r, a, <<i.x.v, i.y.v>>, eo, e, n, p)
    BY <1>10 DEF PairPushed
  <2> QED BY <1>2, <1>3, <1>4, <1>5, <1>13, <2>1, <2>2, <2>3, PairPush
<1>15. PairState(q, PairD(h), TermsD(h), n + 1, p, nan \/ bad)
  <2>1. TermSeries(TermsD(hist), n, nan) /\ NextTerms(TermsD(h), TermsD(hist), n, u, bad)
    BY <1>5, <1>6 DEF TermSeries, NextTerms
  <2>2. OldestTerms(uo, TermsD(hist), n, p)
    BY <1>12 DEF OldestTerms, OldestIs
  <2>3. PairPushed(q, g, <<i.x.d, i.y.d>>, uo, u, n, p)
    BY <1>11 DEF PairPushed
  <2> QED BY <1>2, <1>3, <1>4, <1>5, <1>13, <2>1, <2>2, <2>3, PairPush
<1>16. /\ hist' = h /\ node' = node /\ primal' = r /\ grad' = q
       /\ out' = PairGradient(node.op, primal', grad')
  BY DEF TickPair, Fed, Stepped, h, r, q, s, p
<1>17. n' = n + 1
  BY <1>3, <1>16 DEF n
<1> QED BY <1>13, <1>14, <1>15, <1>16, <1>17 DEF PairSens, p

\* Sums may be subtracted part by part.
LEMMA PartsSubtract ==
  ASSUME NEW P, NEW Q, NEW A, NEW B, IsNumber(P), IsNumber(Q), IsNumber(A), IsNumber(B)
  PROVE  /\ FSub(FAdd(P, Q), FAdd(A, B)) = FAdd(FSub(P, A), FSub(Q, B))
         /\ FSub(FSub(FAdd(P, Q), A), B) = FAdd(FSub(P, A), FSub(Q, B))
<1>1. PICK L \in Nat \ {0} : Over(P, L) /\ Over(Q, L) /\ Over(A, L) /\ Over(B, L)
  BY CommonDenominator
<1>2. PICK p \in Int, q \in Int, a \in Int, b \in Int : 
        Is(P, p, L) /\ Is(Q, q, L) /\ Is(A, a, L) /\ Is(B, b, L)
  BY <1>1 DEF Over
<1>3. /\ p + q \in Int /\ a + b \in Int /\ p - a \in Int /\ q - b \in Int /\ (p + q) - a \in Int
      /\ (p + q) - (a + b) = (p - a) + (q - b) /\ ((p + q) - a) - b = (p - a) + (q - b)
  OBVIOUS
<1>4. Is(FAdd(P, Q), p + q, L) /\ Is(FAdd(A, B), a + b, L)
  BY <1>2, SumOver
<1>5. Is(FSub(P, A), p - a, L) /\ Is(FSub(Q, B), q - b, L)
  BY <1>2, SumOver
<1>6. Is(FSub(FAdd(P, Q), A), (p + q) - a, L)
  BY <1>2, <1>3, <1>4, SumOver
<1>7. Is(FAdd(FSub(P, A), FSub(Q, B)), (p - a) + (q - b), L)
  BY <1>3, <1>5, SumOver
<1>8. Is(FSub(FAdd(P, Q), FAdd(A, B)), (p - a) + (q - b), L)
  <2>1. Is(FSub(FAdd(P, Q), FAdd(A, B)), (p + q) - (a + b), L)
    BY <1>3, <1>4, SumOver
  <2> QED BY <1>3, <2>1
<1>9. Is(FSub(FSub(FAdd(P, Q), A), B), (p - a) + (q - b), L)
  <2>1. Is(FSub(FSub(FAdd(P, Q), A), B), ((p + q) - a) - b, L)
    BY <1>2, <1>3, <1>6, SumOver
  <2> QED BY <1>3, <2>1
<1> QED BY <1>7, <1>8, <1>9, Same

\* A sum may be divided part by part.
LEMMA PartsDivide ==
  ASSUME NEW c \in Nat \ {0}, NEW U, NEW V, IsNumber(U), IsNumber(V)
  PROVE  /\ FDiv(FAdd(U, V), Whole(c)) = FAdd(FDiv(U, Whole(c)), FDiv(V, Whole(c)))
         /\ IsNumber(FDiv(U, Whole(c)))
<1>1. PICK L \in Nat \ {0} : Over(U, L) /\ Over(V, L)
  BY CommonDenominator
<1>2. PICK u \in Int, v \in Int : Is(U, u, L) /\ Is(V, v, L)
  BY <1>1 DEF Over
<1>3. Is(FAdd(U, V), u + v, L) /\ u + v \in Int
  BY <1>2, SumOver
<1>4. Is(Whole(c), c, 1)
  BY WholeIs
<1> DEFINE M == L * c
<1>5. M \in Nat \ {0}
  BY Positive
<1>6. ASSUME NEW A, NEW a \in Int, Is(A, a, L) PROVE Is(FDiv(A, Whole(c)), a, M)
  <2>1. Is(FDiv(A, Whole(c)), a * 1, L * c)
    BY <1>4, <1>6, Ratio
  <2>2. a * 1 = a
    OBVIOUS
  <2> QED BY <2>1, <2>2
<1> HIDE DEF M
<1>7. /\ Is(FDiv(U, Whole(c)), u, M) /\ Is(FDiv(V, Whole(c)), v, M)
      /\ Is(FDiv(FAdd(U, V), Whole(c)), u + v, M)
  BY <1>2, <1>3, <1>6
<1>8. Is(FAdd(FDiv(U, Whole(c)), FDiv(V, Whole(c))), u + v, M)
  BY <1>5, <1>7, SumOver
<1> QED BY <1>7, <1>8, Same DEF IsNumber

\* Twice a number.
LEMMA Twice ==
  ASSUME NEW a, IsNumber(a)
  PROVE  FMul(Two, a) = FAdd(a, a)
<1>1. PICK u, L : Is(a, u, L)
  BY DEF IsNumber
<1>2. u \in Int /\ L \in Nat \ {0}
  BY <1>1 DEF Is
<1>3. Is(Two, 2, 1)
  BY WholeIs DEF Two
<1>4. Is(FMul(Two, a), 2 * u, 1 * L)
  BY <1>1, <1>3, Product
<1>5. Is(FAdd(a, a), u + u, L)
  BY <1>1, <1>2, SumOver
<1>6. (2 * u) * L = (u + u) * (1 * L)
  BY <1>2
<1> QED BY <1>4, <1>5, <1>6, Same

\* The logarithmic derivative of a product of two positive numbers.
LEMMA HalfTheRatios ==
  ASSUME NEW k, NEW a, NEW b, NEW x, NEW y, IsNumber(k), IsNumber(x), IsNumber(y),
         IsPositive(a), IsPositive(b)
  PROVE  FDiv(FMul(k, FAdd(FMul(x, b), FMul(a, y))), FMul(Two, FMul(a, b))) =
           FMul(FDiv(k, Two), FAdd(FDiv(x, a), FDiv(y, b)))
<1>1. PICK r, R, p, P, q, Q : Is(k, r, R) /\ Is(x, p, P) /\ Is(y, q, Q)
  BY DEF IsNumber
<1>2. PICK s, S, t, T : s \in Nat \ {0} /\ t \in Nat \ {0} /\ Is(a, s, S) /\ Is(b, t, T)
  BY DEF IsPositive
<1>3. /\ r \in Int /\ p \in Int /\ q \in Int /\ s \in Nat \ {0} /\ t \in Nat \ {0}
      /\ R \in Nat \ {0} /\ P \in Nat \ {0} /\ Q \in Nat \ {0} /\ S \in Nat \ {0}
      /\ T \in Nat \ {0}
  BY <1>1, <1>2 DEF Is
<1>4. Is(Two, 2, 1)
  BY WholeIs DEF Two
<1> DEFINE PT == P * T
           SQ == S * Q
           N == (p * t) * SQ + (s * q) * PT
           D == PT * SQ
           M == (p * S) * (Q * t) + (q * T) * (P * s)
           E == (P * s) * (Q * t)
<1>5. Is(FMul(x, b), p * t, PT) /\ Is(FMul(a, y), s * q, SQ)
  BY <1>1, <1>2, Product
<1>6. Is(FAdd(FMul(x, b), FMul(a, y)), N, D)
  BY <1>5, Sum
<1>7. Is(FMul(k, FAdd(FMul(x, b), FMul(a, y))), r * N, R * D)
  BY <1>1, <1>6, Product
<1>8. Is(FMul(a, b), s * t, S * T) /\ s * t \in Nat \ {0}
  BY <1>2, Product, Positive
<1>9. Is(FMul(Two, FMul(a, b)), 2 * (s * t), 1 * (S * T)) /\ 2 * (s * t) \in Nat \ {0}
  BY <1>4, <1>8, Product, Positive
<1> DEFINE LHS == FDiv(FMul(k, FAdd(FMul(x, b), FMul(a, y))), FMul(Two, FMul(a, b)))
           RHS == FMul(FDiv(k, Two), FAdd(FDiv(x, a), FDiv(y, b)))
<1>10. Is(LHS, (r * N) * (1 * (S * T)), (R * D) * (2 * (s * t)))
  BY <1>7, <1>9, Ratio
<1>11. Is(FDiv(x, a), p * S, P * s) /\ Is(FDiv(y, b), q * T, Q * t)
  BY <1>1, <1>2, Ratio
<1>12. Is(FAdd(FDiv(x, a), FDiv(y, b)), M, E)
  BY <1>11, Sum
<1>13. Is(FDiv(k, Two), r * 1, R * 2)
  BY <1>1, <1>4, Ratio
<1>14. Is(RHS, (r * 1) * M, (R * 2) * E)
  BY <1>12, <1>13, Product
<1>15. N = M /\ D * (s * t) = (S * T) * E
  BY <1>3, SMT
<1>16. ((r * N) * (1 * (S * T))) * ((R * 2) * E) = ((r * 1) * M) * ((R * D) * (2 * (s * t)))
  <2> DEFINE W == S * T
             Z == s * t
  <2>1. N \in Int /\ D \in Int /\ E \in Int /\ W \in Int /\ Z \in Int /\ r \in Int /\ R \in Int
    BY <1>3
  <2>2. N = M /\ D * Z = W * E
    BY <1>15
  <2> HIDE DEF N, D, M, E, W, Z
  <2>3. ((r * N) * (1 * W)) * ((R * 2) * E) = ((r * N) * (R * 2)) * (W * E)
    BY <2>1
  <2>4. ((r * 1) * N) * ((R * D) * (2 * Z)) = ((r * N) * (R * 2)) * (D * Z)
    BY <2>1
  <2>5. ((r * N) * (1 * W)) * ((R * 2) * E) = ((r * 1) * M) * ((R * D) * (2 * Z))
    BY <2>2, <2>3, <2>4
  <2> QED BY <2>5 DEF W, Z
<1> HIDE DEF LHS, RHS
<1>17. LHS = RHS
  <2> DEFINE u == (r * N) * (1 * (S * T))
             v == (R * D) * (2 * (s * t))
             w == (r * 1) * M
             z == (R * 2) * E
  <2>1. Is(LHS, u, v) /\ Is(RHS, w, z) /\ u * z = w * v
    BY <1>10, <1>14, <1>16
  <2> HIDE DEF u, v, w, z
  <2> QED BY <2>1, Same
<1> QED BY <1>17 DEF LHS, RHS

\* Sums of values and of products, centred as the code does, are the moment
\* of the window with its derivative.
LEMMA CentredMoment ==
  ASSUME NEW c \in Nat \ {0}, NEW s, NEW t, s = [k \in 1 .. c |-> s[k]], Duals(s, c),
         t = [k \in 1 .. c |-> t[k]], Duals(t, c), NEW S, NEW T, NEW SP, NEW TP, NEW P, NEW Q,
         S = Fold("+", Values(s, c), 1, c), T = Fold("+", Values(t, c), 1, c),
         SP = Fold("+", Slopes(s, c), 1, c), TP = Fold("+", Slopes(t, c), 1, c),
         P = Fold("+", Prods(Values(s, c), Values(t, c), c), 1, c),
         Q = FAdd(Fold("+", Prods(Slopes(s, c), Values(t, c), c), 1, c),
                  Fold("+", Prods(Values(s, c), Slopes(t, c), c), 1, c))
  PROVE  CoMoment(s, t) = Dual(FSub(P, FDiv(FMul(S, T), Whole(c))),
                               FSub(Q, FDiv(FAdd(FMul(SP, T), FMul(S, TP)), Whole(c))))
<1> DEFINE a == Values(s, c)
           b == Slopes(s, c)
           f == Values(t, c)
           g == Slopes(t, c)
           Q1 == Fold("+", Prods(b, f, c), 1, c)
           Q2 == Fold("+", Prods(a, g, c), 1, c)
<1>1. CoMoment(s, t) = Dual(Moment(c, a, f), FAdd(Moment(c, b, f), Moment(c, a, g)))
  BY CoMomentIs
<1>2. Numbers(a, 1, c) /\ Numbers(b, 1, c) /\ Numbers(f, 1, c) /\ Numbers(g, 1, c)
  BY PartNumbers
<1> HIDE DEF a, b, f, g
<1>3. /\ Moment(c, a, f) = FSub(P, FDiv(FMul(S, T), Whole(c)))
      /\ Moment(c, b, f) = FSub(Q1, FDiv(FMul(SP, T), Whole(c)))
      /\ Moment(c, a, g) = FSub(Q2, FDiv(FMul(S, TP), Whole(c)))
  BY DEF Moment, MomentOf, a, b, f, g
<1>4. Numbers(Prods(b, f, c), 1, c) /\ Numbers(Prods(a, g, c), 1, c)
  BY <1>2, MomentIsSum
<1>5. IsNumber(Q1) /\ IsNumber(Q2)
  BY <1>4, FoldNumber
<1>6. IsNumber(S) /\ IsNumber(T) /\ IsNumber(SP) /\ IsNumber(TP)
  BY <1>2, FoldNumber DEF a, b, f, g
<1>7. Q = FAdd(Q1, Q2)
  BY DEF a, b, f, g
<1> DEFINE U == FMul(SP, T)
           V == FMul(S, TP)
<1>8. IsNumber(U) /\ IsNumber(V)
  BY <1>6, NumberClosed
<1> HIDE DEF Q1, Q2, U, V
<1>9. /\ FDiv(FAdd(U, V), Whole(c)) = FAdd(FDiv(U, Whole(c)), FDiv(V, Whole(c)))
      /\ IsNumber(FDiv(U, Whole(c))) /\ IsNumber(FDiv(V, Whole(c)))
  BY <1>8, PartsDivide
<1>10. FSub(FAdd(Q1, Q2), FAdd(FDiv(U, Whole(c)), FDiv(V, Whole(c)))) =
         FAdd(FSub(Q1, FDiv(U, Whole(c))), FSub(Q2, FDiv(V, Whole(c))))
  BY <1>5, <1>9, PartsSubtract
<1> QED BY <1>1, <1>3, <1>7, <1>9, <1>10 DEF U, V

\* The moments of two windows: a series without spread has no covariance.
LEMMA MomentsAre ==
  ASSUME NEW c \in Nat \ {0}, NEW s, NEW t, s = [k \in 1 .. c |-> s[k]], Duals(s, c),
         t = [k \in 1 .. c |-> t[k]], Duals(t, c)
  PROVE  LET cov == CoMoment(s, t)
             vx == CoMoment(s, s)
             vy == CoMoment(t, t)
         IN  /\ IsDual(cov) /\ IsDual(vx) /\ IsDual(vy)
             /\ IsPositive(vx.v) \/ (vx.v = Zero /\ vx.d = Zero /\ cov.v = Zero)
             /\ IsPositive(vy.v) \/ (vy.v = Zero /\ vy.d = Zero /\ cov.v = Zero)
<1> DEFINE a == Values(s, c)
           b == Slopes(s, c)
           f == Values(t, c)
           g == Slopes(t, c)
           cov == CoMoment(s, t)
           vx == CoMoment(s, s)
           vy == CoMoment(t, t)
<1>1. /\ cov = Dual(Moment(c, a, f), FAdd(Moment(c, b, f), Moment(c, a, g)))
      /\ vx = Dual(Moment(c, a, a), FAdd(Moment(c, b, a), Moment(c, a, b)))
      /\ vy = Dual(Moment(c, f, f), FAdd(Moment(c, g, f), Moment(c, f, g)))
  BY CoMomentIs
<1>2. Numbers(a, 1, c) /\ Numbers(b, 1, c) /\ Numbers(f, 1, c) /\ Numbers(g, 1, c)
  BY PartNumbers
<1> HIDE DEF a, b, f, g, cov, vx, vy
<1>3. \A h, k : Numbers(h, 1, c) /\ Numbers(k, 1, c) => IsNumber(Moment(c, h, k))
  BY MomentIsSum
<1>4. /\ IsNumber(FAdd(Moment(c, b, f), Moment(c, a, g)))
      /\ IsNumber(FAdd(Moment(c, b, a), Moment(c, a, b)))
      /\ IsNumber(FAdd(Moment(c, g, f), Moment(c, f, g)))
  BY <1>2, <1>3, NumberClosed
<1>5. /\ IsDual(cov) /\ IsDual(vx) /\ IsDual(vy) /\ cov.v = Moment(c, a, f)
      /\ vx.v = Moment(c, a, a) /\ vx.d = FAdd(Moment(c, b, a), Moment(c, a, b))
      /\ vy.v = Moment(c, f, f) /\ vy.d = FAdd(Moment(c, g, f), Moment(c, f, g))
  BY <1>1, <1>2, <1>3, <1>4, DualOf
<1>6. FAdd(Zero, Zero) = Zero
  BY Units, Constants DEF Zero
<1>7. IsPositive(vx.v) \/ (vx.v = Zero /\ vx.d = Zero /\ cov.v = Zero)
  <2>1. \/ IsPositive(Moment(c, a, a))
        \/ /\ Moment(c, a, a) = Zero
           /\ \A h : Numbers(h, 1, c) => Moment(c, a, h) = Zero /\ Moment(c, h, a) = Zero
    BY <1>2, MomentSign
  <2> QED BY <1>2, <1>5, <1>6, <2>1
<1>8. IsPositive(vy.v) \/ (vy.v = Zero /\ vy.d = Zero /\ cov.v = Zero)
  <2>1. \/ IsPositive(Moment(c, f, f))
        \/ /\ Moment(c, f, f) = Zero
           /\ \A h : Numbers(h, 1, c) => Moment(c, f, h) = Zero /\ Moment(c, h, f) = Zero
    BY <1>2, MomentSign
  <2> QED BY <1>2, <1>5, <1>6, <2>1
<1> QED BY <1>5, <1>7, <1>8 DEF cov, vx, vy

\* Zero is not above zero, and not positive.
LEMMA ZeroBelow == FLe(Zero, Zero) /\ ~IsPositive(Zero) /\ ~FLt(Zero, Zero)
<1>1. Zero # Nan
  BY Constants, NumberPair
<1>2. FLe(Zero, Zero)
  BY <1>1 DEF FLe, FEq
<1>3. ~FLt(Zero, Zero)
  BY DEF FLt, Zero, Whole, Finite
<1> QED BY <1>2, <1>3, PositiveAbove

\* rolling_corr: the guard for a flat series, and the derivative, which
\* comes out as NaN without one.
LEMMA CorrIs ==
  ASSUME NEW cov, NEW vx, NEW vy, IsDual(cov), IsDual(vx), IsDual(vy),
         IsPositive(vx.v) \/ (vx.v = Zero /\ vx.d = Zero /\ cov.v = Zero),
         IsPositive(vy.v) \/ (vy.v = Zero /\ vy.d = Zero /\ cov.v = Zero)
  PROVE  CorrOf(cov, vx, vy) =
           IF vx.v = Zero \/ vy.v = Zero THEN Undefined
           ELSE Dual(cov.v, FSub(cov.d, FMul(FDiv(cov.v, Two),
                                             FAdd(FDiv(vx.d, vx.v), FDiv(vy.d, vy.v)))))
<1>1. /\ IsNumber(cov.v) /\ IsNumber(cov.d) /\ IsNumber(vx.v) /\ IsNumber(vx.d)
      /\ IsNumber(vy.v) /\ IsNumber(vy.d) /\ IsNumber(Two)
  BY WholeNumber DEF IsDual, Two
<1> DEFINE top == FAdd(FMul(vx.d, vy.v), FMul(vx.v, vy.d))
           bottom == FMul(Two, FMul(vx.v, vy.v))
<1>2. CASE vx.v = Zero \/ vy.v = Zero
  <2>1. cov.v = Zero
    BY <1>2, ZeroBelow
  <2>2. IsNumber(top)
    <3>1. IsNumber(FMul(vx.d, vy.v)) /\ IsNumber(FMul(vx.v, vy.d))
      BY <1>1, NumberClosed
    <3> QED BY <3>1, NumberClosed
  <2>3. FMul(vx.v, vy.v) = Zero /\ FMul(Two, Zero) = Zero
    BY <1>1, <1>2, Annihilates
  <2>4. bottom = Zero
    BY <2>3
  <2> HIDE DEF top, bottom
  <2>5. FMul(cov.v, top) = Zero
    BY <2>1, <2>2, Annihilates
  <2>6. FDiv(FMul(cov.v, top), bottom) = Nan
    BY <2>4, <2>5, ZeroOverZero DEF Zero
  <2>7. FSub(cov.d, Nan) = Nan
    BY <1>1, NumberPair, NanAbsorbs
  <2>8. FLe(vx.v, Zero) \/ FLe(vy.v, Zero)
    BY <1>2, ZeroBelow
  <2> QED BY <1>2, <2>6, <2>7, <2>8 DEF CorrOf, Undefined, top, bottom
<1>3. CASE ~(vx.v = Zero \/ vy.v = Zero)
  <2>1. IsPositive(vx.v) /\ IsPositive(vy.v)
    BY <1>3
  <2>2. ~FLe(vx.v, Zero) /\ ~FLe(vy.v, Zero)
    BY <2>1, PositiveAbove
  <2>3. FDiv(FMul(cov.v, top), bottom) =
          FMul(FDiv(cov.v, Two), FAdd(FDiv(vx.d, vx.v), FDiv(vy.d, vy.v)))
    BY <1>1, <2>1, HalfTheRatios
  <2> QED BY <1>3, <2>2, <2>3 DEF CorrOf
<1> QED BY <1>2, <1>3

\* rolling_beta: the same.
LEMMA BetaIs ==
  ASSUME NEW cov, NEW vx, IsDual(cov), IsDual(vx),
         IsPositive(vx.v) \/ (vx.v = Zero /\ vx.d = Zero /\ cov.v = Zero)
  PROVE  BetaOf(cov, vx) = IF vx.v = Zero THEN Undefined ELSE DDiv(cov, vx)
<1>1. IsNumber(cov.v) /\ IsNumber(cov.d) /\ IsNumber(vx.v) /\ IsNumber(vx.d)
  BY DEF IsDual
<1>2. CASE vx.v = Zero
  <2>1. vx.d = Zero /\ cov.v = Zero
    BY <1>2, ZeroBelow
  <2>2. /\ FMul(cov.d, Zero) = Zero /\ FMul(Zero, Zero) = Zero
    BY <1>1, Annihilates, Constants
  <2>3. FSub(Zero, Zero) = Zero
    BY AddBack, Units, Constants DEF Zero
  <2>4. FDiv(Zero, Zero) = Nan
    BY ZeroOverZero DEF Zero
  <2> QED BY <1>2, <2>1, <2>2, <2>3, <2>4, ZeroBelow DEF BetaOf, Undefined
<1>3. CASE vx.v # Zero
  <2>1. ~FLe(vx.v, Zero)
    BY <1>3, PositiveAbove
  <2> QED BY <1>3, <2>1 DEF BetaOf, DDiv
<1> QED BY <1>2, <1>3

\* The last p of m elements are those of r, and two series added up.
Matches(f, m, p, r) == \A k \in 1 .. p : f[(m - p) + k] = r[k]
Sums(u, v, p) == [k \in 1 .. p |-> FAdd(u[k], v[k])]

\* The sum of a window, given by its elements.
LEMMA SumOfWindow ==
  ASSUME NEW p \in Nat \ {0}, NEW m \in Nat, ~(m < p), NEW f, NEW r, Matches(f, m, p, r)
  PROVE  WindowSum(f, m, p) = Fold("+", r, 1, p)
<1>1. \A k \in 1 .. p : Recent(f, m, p)[k] = r[k]
  BY DEF Recent, Matches
<1>2. Fold("+", Recent(f, m, p), 1, p) = Fold("+", r, 1, p)
  BY <1>1, FoldSame
<1> QED BY <1>2, RecentSum

\* The sum of two series of products.
LEMMA SumOfProds ==
  ASSUME NEW p \in Nat \ {0}, NEW a, NEW b, NEW f, NEW g,
         Numbers(a, 1, p), Numbers(b, 1, p), Numbers(f, 1, p), Numbers(g, 1, p)
  PROVE  Fold("+", Sums(Prods(b, f, p), Prods(a, g, p), p), 1, p) =
           FAdd(Fold("+", Prods(b, f, p), 1, p), Fold("+", Prods(a, g, p), 1, p))
<1> DEFINE u == Prods(b, f, p)
           v == Prods(a, g, p)
           r == Sums(u, v, p)
<1>1. Numbers(u, 1, p) /\ Numbers(v, 1, p)
  BY MomentIsSum
<1>2. \A k \in 1 .. p : r[k] = FAdd(u[k], v[k])
  BY DEF Sums
<1> HIDE DEF u, v, r
<1>3. Fold("+", r, 1, p) = FAdd(Fold("+", u, 1, p), Fold("+", v, 1, p))
  BY <1>1, <1>2, SumAdds
<1> QED BY <1>3 DEF u, v, r

\* Without NaN the operands of the window are dual numbers.
LEMMA CleanWindow ==
  ASSUME NEW I, \A i \in I : Operand(i.x) /\ i.x = Dual(i.x.v, i.x.d), hist \in Seq(I),
         node.period \in Nat \ {0}, ~(n < node.period), ~Seen(Window, Nan)
  PROVE  Duals(WindowX, node.period)
<1> DEFINE p == node.period
<1>1. \A k \in 1 .. p : WindowX[k] = hist[(n - p) + k].x /\ (n - p) + k \in 1 .. n /\ n \in Nat
  BY WindowParts
<1>2. \A k \in 1 .. p : hist[(n - p) + k] \in I
  BY <1>1 DEF n
<1>3. Window = SubSeq(hist, n - p + 1, n) /\ n \in Nat /\ p <= n
  BY DEF Window, n
<1>4. DOMAIN Window = 1 .. p
  <2>1. n - p + 1 \in 1 .. n + 1 /\ n - (n - p + 1) + 1 = p
    BY <1>3
  <2> QED BY <1>3, <2>1 DEF n
<1>5. ASSUME NEW k \in 1 .. p PROVE IsDual(WindowX[k])
  <2>1. WindowX[k] = Window[k].x /\ Window[k].x.v # Nan
    BY <1>4, <1>5 DEF WindowX, Seen
  <2>2. Operand(WindowX[k]) /\ WindowX[k] = Dual(WindowX[k].v, WindowX[k].d)
    BY <1>1, <1>2
  <2> QED BY <2>1, <2>2 DEF Operand, IsDual
<1> QED BY <1>5 DEF Duals

\* What was never seen is not in the window.
LEMMA NeverSeen ==
  ASSUME NEW I, hist \in Seq(I), node.period \in Nat \ {0}, ~(n < node.period), ~Seen(hist, Nan)
  PROVE  ~Seen(Window, Nan)
<1> DEFINE p == node.period
<1>1. \A k \in 1 .. p : Window[k] = hist[(n - p) + k] /\ (n - p) + k \in 1 .. Len(hist)
  BY WindowElements DEF Window, n
<1>2. Window = SubSeq(hist, n - p + 1, n) /\ n \in Nat /\ p <= n
  BY DEF Window, n
<1>3. DOMAIN Window = 1 .. p
  <2>1. n - p + 1 \in 1 .. n + 1 /\ n - (n - p + 1) + 1 = p
    BY <1>2
  <2> QED BY <1>2, <2>1 DEF n
<1>4. DOMAIN hist = 1 .. Len(hist)
  OBVIOUS
<1> QED BY <1>1, <1>3, <1>4 DEF Seen

\* The code's moments are those of the window.
LEMMA PairMoments ==
  ASSUME node \in Nodes, node.op \in Pairs, hist \in Seq(Inputs[node.op]), PairSens,
         ~(n < node.period), ~Seen(hist, Nan)
  PROVE  /\ Cov(primal, grad) = CoMoment(WindowX, WindowY)
         /\ VarX(primal, grad) = CoMoment(WindowX, WindowX)
         /\ VarY(primal, grad) = CoMoment(WindowY, WindowY)
         /\ Duals(WindowX, node.period) /\ Duals(WindowY, node.period)
<1> DEFINE I == Inputs[node.op]
           p == node.period
           w == WindowX
           y == WindowY
           a == Values(w, p)
           b == Slopes(w, p)
           f == Values(y, p)
           g == Slopes(y, p)
           A == primal.sums
           G == grad.sums
           j(k) == (n - p) + k
<1>1. node.op \in Windows \ Extrema
  BY DEF Windows, Extrema, Pairs
<1>2. p \in Nat \ {0} /\ \A i \in I : Operand(i.x) /\ i.x = Dual(i.x.v, i.x.d) /\ IsDual(i.y)
  BY <1>1, WindowOperands
<1>3. /\ n \in Nat /\ w = [k \in 1 .. p |-> w[k]] /\ y = [k \in 1 .. p |-> y[k]]
      /\ \A k \in 1 .. p : w[k] = hist[j(k)].x /\ j(k) \in 1 .. n /\ y[k] = hist[j(k)].y
  BY <1>2, WindowParts
<1>4. Duals(w, p)
  <2>1. ~Seen(Window, Nan)
    BY <1>2, NeverSeen
  <2> QED BY <1>2, <2>1, CleanWindow
<1>5. Duals(y, p)
  <2>0. \A k \in 1 .. n : hist[k] \in I
    BY DEF n
  <2>1. \A k \in 1 .. p : hist[j(k)] \in I
    <3> HIDE DEF I, p
    <3> QED BY <1>3, <2>0
  <2> QED BY <1>2, <1>3, <2>1 DEF Duals
<1> HIDE DEF w, y
<1>6. /\ \A k \in 1 .. p : a[k] = w[k].v /\ b[k] = w[k].d /\ f[k] = y[k].v /\ g[k] = y[k].d
      /\ \A k \in 1 .. p : IsNumber(a[k]) /\ IsNumber(b[k]) /\ IsNumber(f[k]) /\ IsNumber(g[k])
  BY <1>4, <1>5 DEF Values, Slopes, Duals, IsDual
<1> HIDE DEF a, b, f, g
<1>7. /\ \A e \in Fields : A[e] = WindowSum(TermsV(hist)[e], n, p)
      /\ \A e \in Fields : G[e] = WindowSum(TermsD(hist)[e], n, p)
      /\ primal.count = p
  <2>1. primal.count = Size(n, p)
    BY DEF PairSens, PairState, Held
  <2>2. Size(n, p) = p
    BY DEF Size
  <2> QED BY <2>1, <2>2 DEF PairSens, PairState
<1>8. ASSUME NEW e \in Fields, NEW k \in 1 .. p
      PROVE  /\ TermsV(hist)[e][j(k)] = Terms(a[k], f[k])[e]
             /\ TermsD(hist)[e][j(k)] = TermsP(a[k], b[k], f[k], g[k])[e]
  <2>1. /\ TermsV(hist)[e][j(k)] = Terms(hist[j(k)].x.v, hist[j(k)].y.v)[e]
        /\ TermsD(hist)[e][j(k)] = TermsP(hist[j(k)].x.v, hist[j(k)].x.d,
                                          hist[j(k)].y.v, hist[j(k)].y.d)[e]
    BY <1>3 DEF TermsV, TermsD, n
  <2> QED BY <1>3, <1>6, <2>1
<1> HIDE DEF p
<1>11. "x" \in Fields /\ "y" \in Fields /\ "xy" \in Fields /\ "xx" \in Fields /\ "yy" \in Fields
  BY DEF Fields
<1>12. /\ \A u, v : /\ Terms(u, v)["x"] = u /\ Terms(u, v)["y"] = v
                    /\ Terms(u, v)["xy"] = FMul(u, v) /\ Terms(u, v)["xx"] = FMul(u, u)
                    /\ Terms(u, v)["yy"] = FMul(v, v)
       /\ \A u, x, v, z : /\ TermsP(u, x, v, z)["x"] = x /\ TermsP(u, x, v, z)["y"] = z
                          /\ TermsP(u, x, v, z)["xy"] = FAdd(FMul(x, v), FMul(u, z))
                          /\ TermsP(u, x, v, z)["xx"] = FMul(Two, FMul(u, x))
                          /\ TermsP(u, x, v, z)["yy"] = FMul(Two, FMul(v, z))
  BY DEF Terms, TermsP
<1>13. \A u, v : \A k \in 1 .. p : Prods(u, v, p)[k] = FMul(u[k], v[k])
  BY DEF Prods
<1> DEFINE V == TermsV(hist)
           D == TermsD(hist)
<1>14. Matches(V["x"], n, p, a) /\ Matches(V["y"], n, p, f)
  BY <1>8, <1>11, <1>12 DEF Matches
<1>15. /\ Matches(V["xy"], n, p, Prods(a, f, p)) /\ Matches(V["xx"], n, p, Prods(a, a, p))
       /\ Matches(V["yy"], n, p, Prods(f, f, p))
  BY <1>8, <1>11, <1>12, <1>13 DEF Matches
<1>16. Matches(D["x"], n, p, b) /\ Matches(D["y"], n, p, g)
  BY <1>8, <1>11, <1>12 DEF Matches
<1>17. \A u, v : \A k \in 1 .. p : Sums(u, v, p)[k] = FAdd(u[k], v[k])
  BY DEF Sums
<1>18. Matches(D["xy"], n, p, Sums(Prods(b, f, p), Prods(a, g, p), p))
  BY <1>8, <1>11, <1>12, <1>13, <1>17 DEF Matches
<1>19. \A u, v : IsNumber(u) /\ IsNumber(v) => FMul(Two, FMul(u, v)) = FAdd(FMul(v, u), FMul(u, v))
  BY Twice, NumberClosed, Commutes
<1>20. Matches(D["xx"], n, p, Sums(Prods(b, a, p), Prods(a, b, p), p))
  <2> SUFFICES ASSUME NEW k \in 1 .. p
               PROVE  D["xx"][(n - p) + k] = Sums(Prods(b, a, p), Prods(a, b, p), p)[k]
    BY DEF Matches
  <2>1. D["xx"][(n - p) + k] = FMul(Two, FMul(a[k], b[k]))
    BY <1>8, <1>11, <1>12
  <2>2. FMul(Two, FMul(a[k], b[k])) = FAdd(FMul(b[k], a[k]), FMul(a[k], b[k]))
    BY <1>6, <1>19
  <2> QED BY <1>13, <1>17, <2>1, <2>2
<1>21. Matches(D["yy"], n, p, Sums(Prods(g, f, p), Prods(f, g, p), p))
  <2> SUFFICES ASSUME NEW k \in 1 .. p
               PROVE  D["yy"][(n - p) + k] = Sums(Prods(g, f, p), Prods(f, g, p), p)[k]
    BY DEF Matches
  <2>1. D["yy"][(n - p) + k] = FMul(Two, FMul(f[k], g[k]))
    BY <1>8, <1>11, <1>12
  <2>2. FMul(Two, FMul(f[k], g[k])) = FAdd(FMul(g[k], f[k]), FMul(f[k], g[k]))
    BY <1>6, <1>19
  <2> QED BY <1>13, <1>17, <2>1, <2>2
<1>22. Numbers(a, 1, p) /\ Numbers(b, 1, p) /\ Numbers(f, 1, p) /\ Numbers(g, 1, p)
  BY <1>6 DEF Numbers
<1> HIDE DEF V, D
<1>23. /\ A.x = Fold("+", a, 1, p) /\ A.y = Fold("+", f, 1, p)
       /\ G.x = Fold("+", b, 1, p) /\ G.y = Fold("+", g, 1, p)
       /\ A.xy = Fold("+", Prods(a, f, p), 1, p) /\ A.xx = Fold("+", Prods(a, a, p), 1, p)
       /\ A.yy = Fold("+", Prods(f, f, p), 1, p)
       /\ G.xy = FAdd(Fold("+", Prods(b, f, p), 1, p), Fold("+", Prods(a, g, p), 1, p))
       /\ G.xx = FAdd(Fold("+", Prods(b, a, p), 1, p), Fold("+", Prods(a, b, p), 1, p))
       /\ G.yy = FAdd(Fold("+", Prods(g, f, p), 1, p), Fold("+", Prods(f, g, p), 1, p))
  <2>1. ~(n < p) /\ \A e \in Fields : A[e] = WindowSum(V[e], n, p) /\ G[e] = WindowSum(D[e], n, p)
    BY <1>7 DEF p, V, D
  <2> HIDE DEF A, G
  <2>2. A.x = Fold("+", a, 1, p) /\ A.y = Fold("+", f, 1, p)
    BY <1>2, <1>3, <1>11, <1>14, <2>1, SumOfWindow
  <2>3. /\ A.xy = Fold("+", Prods(a, f, p), 1, p) /\ A.xx = Fold("+", Prods(a, a, p), 1, p)
        /\ A.yy = Fold("+", Prods(f, f, p), 1, p)
    BY <1>2, <1>3, <1>11, <1>15, <2>1, SumOfWindow
  <2>4. G.x = Fold("+", b, 1, p) /\ G.y = Fold("+", g, 1, p)
    BY <1>2, <1>3, <1>11, <1>16, <2>1, SumOfWindow
  <2>5. G.xy = FAdd(Fold("+", Prods(b, f, p), 1, p), Fold("+", Prods(a, g, p), 1, p))
    <3>1. G.xy = Fold("+", Sums(Prods(b, f, p), Prods(a, g, p), p), 1, p)
      BY <1>2, <1>3, <1>11, <1>18, <2>1, SumOfWindow
    <3> QED BY <1>2, <1>22, <3>1, SumOfProds
  <2>6. G.xx = FAdd(Fold("+", Prods(b, a, p), 1, p), Fold("+", Prods(a, b, p), 1, p))
    <3>1. G.xx = Fold("+", Sums(Prods(b, a, p), Prods(a, b, p), p), 1, p)
      BY <1>2, <1>3, <1>11, <1>20, <2>1, SumOfWindow
    <3> QED BY <1>2, <1>22, <3>1, SumOfProds
  <2>7. G.yy = FAdd(Fold("+", Prods(g, f, p), 1, p), Fold("+", Prods(f, g, p), 1, p))
    <3>1. G.yy = Fold("+", Sums(Prods(g, f, p), Prods(f, g, p), p), 1, p)
      BY <1>2, <1>3, <1>11, <1>21, <2>1, SumOfWindow
    <3> QED BY <1>2, <1>22, <3>1, SumOfProds
  <2> QED BY <2>2, <2>3, <2>4, <2>5, <2>6, <2>7
<1> HIDE DEF A, G
<1>24. CoMoment(w, y) = Dual(FSub(A.xy, FDiv(FMul(A.x, A.y), Whole(p))),
                             FSub(G.xy, FDiv(FAdd(FMul(G.x, A.y), FMul(A.x, G.y)), Whole(p))))
  BY <1>2, <1>3, <1>4, <1>5, <1>23, CentredMoment DEF a, b, f, g, p
<1>25. CoMoment(w, w) = Dual(FSub(A.xx, FDiv(FMul(A.x, A.x), Whole(p))),
                             FSub(G.xx, FDiv(FAdd(FMul(G.x, A.x), FMul(A.x, G.x)), Whole(p))))
  BY <1>2, <1>3, <1>4, <1>5, <1>23, CentredMoment DEF a, b, f, g, p
<1>26. CoMoment(y, y) = Dual(FSub(A.yy, FDiv(FMul(A.y, A.y), Whole(p))),
                             FSub(G.yy, FDiv(FAdd(FMul(G.y, A.y), FMul(A.y, G.y)), Whole(p))))
  BY <1>2, <1>3, <1>4, <1>5, <1>23, CentredMoment DEF a, b, f, g, p
<1> QED BY <1>4, <1>5, <1>7, <1>24, <1>25, <1>26
        DEF Cov, VarX, VarY, Centred, CentredP, A, G, w, y, p

\* After a NaN both are undefined for good.
LEMMA PairSpoiled ==
  ASSUME NEW p \in Nat \ {0}, NEW a, NEW g, a.count = p, NEW op,
         \A e \in Spoiled : a.sums[e] = Nan /\ g.sums[e] = Nan,
         \A e \in Fields \ Spoiled : IsPair(a.sums[e]) /\ IsPair(g.sums[e])
  PROVE  CorrOf(Cov(a, g), VarX(a, g), VarY(a, g)) = Undefined
         /\ BetaOf(Cov(a, g), VarX(a, g)) = Undefined
<1> DEFINE A == a.sums
           G == g.sums
           c == Whole(p)
<1>1. /\ A.x = Nan /\ A.xy = Nan /\ A.xx = Nan /\ G.x = Nan /\ G.xy = Nan /\ G.xx = Nan
  BY DEF Spoiled
<1>2. IsPair(A.y) /\ IsPair(A.yy) /\ IsPair(G.y) /\ IsPair(G.yy)
  BY DEF Spoiled, Fields
<1>3. IsPair(c) /\ IsPair(Nan) /\ IsPair(Two)
  BY WholeNumber, NumberPair, NanAbsorbs DEF Two
<1> HIDE DEF A, G, c
<1>4. \A x : IsPair(x) => /\ FMul(Nan, x) = Nan /\ FMul(x, Nan) = Nan /\ FSub(Nan, x) = Nan
                          /\ FDiv(Nan, x) = Nan /\ FAdd(Nan, x) = Nan
  BY NanAbsorbs
<1>5. Cov(a, g) = Dual(Nan, Nan)
  <2>1. FSub(A.xy, FDiv(FMul(A.x, A.y), c)) = Nan
    BY <1>1, <1>2, <1>3, <1>4
  <2>2. FSub(G.xy, FDiv(FAdd(FMul(G.x, A.y), FMul(A.x, G.y)), c)) = Nan
    BY <1>1, <1>2, <1>3, <1>4
  <2> QED BY <2>1, <2>2 DEF Cov, Centred, CentredP, A, G, c
<1>6. VarX(a, g) = Dual(Nan, Nan)
  <2>1. FSub(A.xx, FDiv(FMul(A.x, A.x), c)) = Nan
    BY <1>1, <1>2, <1>3, <1>4
  <2>2. FSub(G.xx, FDiv(FAdd(FMul(G.x, A.x), FMul(A.x, G.x)), c)) = Nan
    BY <1>1, <1>2, <1>3, <1>4
  <2> QED BY <2>1, <2>2 DEF VarX, Centred, CentredP, A, G, c
<1> DEFINE v == VarY(a, g)
<1>7. IsPair(v.v) /\ IsPair(v.d)
  <2>1. IsPair(FMul(A.y, A.y)) /\ IsPair(FMul(G.y, A.y)) /\ IsPair(FMul(A.y, G.y))
    BY <1>2, PairClosed
  <2>2. IsPair(FDiv(FMul(A.y, A.y), c))
    BY <1>3, <2>1, PairClosed
  <2>3. IsPair(FSub(A.yy, FDiv(FMul(A.y, A.y), c)))
    BY <1>2, <2>2, PairClosed
  <2>4. IsPair(FAdd(FMul(G.y, A.y), FMul(A.y, G.y)))
    BY <2>1, PairClosed
  <2>5. IsPair(FDiv(FAdd(FMul(G.y, A.y), FMul(A.y, G.y)), c))
    BY <1>3, <2>4, PairClosed
  <2>6. IsPair(FSub(G.yy, FDiv(FAdd(FMul(G.y, A.y), FMul(A.y, G.y)), c)))
    BY <1>2, <2>5, PairClosed
  <2> QED BY <2>3, <2>6 DEF VarY, Centred, CentredP, A, G, c, Dual
<1> HIDE DEF v
<1>8. Dual(Nan, Nan).v = Nan /\ Dual(Nan, Nan).d = Nan
  BY DEF Dual
<1>9. FMul(Nan, v.v) = Nan /\ FMul(Nan, v.d) = Nan /\ FAdd(Nan, Nan) = Nan /\ FMul(Nan, Nan) = Nan
      /\ FMul(Two, Nan) = Nan /\ FDiv(Nan, Nan) = Nan /\ FSub(Nan, Nan) = Nan
  BY <1>3, <1>4, <1>7
<1>10. CorrOf(Dual(Nan, Nan), Dual(Nan, Nan), v) = Undefined
  BY <1>8, <1>9 DEF CorrOf, Undefined
<1>11. BetaOf(Dual(Nan, Nan), Dual(Nan, Nan)) = Undefined
  BY <1>8, <1>9 DEF BetaOf, Undefined
<1> QED BY <1>5, <1>6, <1>10, <1>11 DEF v

\* What rolling_corr and rolling_beta return, with its derivative.
LEMMA PairIsRef ==
  ASSUME node \in Nodes, node.op \in Pairs, hist \in Seq(Inputs[node.op]), n > 0, PairSens
  PROVE  out = PairRef
<1> DEFINE I == Inputs[node.op]
           p == node.period
           nan == Seen(hist, Nan)
           cov == CoMoment(WindowX, WindowY)
           vx == CoMoment(WindowX, WindowX)
           vy == CoMoment(WindowY, WindowY)
<1>1. node.op \in Windows \ Extrema
  BY DEF Windows, Extrema, Pairs
<1>2. p \in Nat \ {0} /\ \A i \in I : Operand(i.x) /\ i.x = Dual(i.x.v, i.x.d) /\ IsDual(i.y)
  BY <1>1, WindowOperands
<1>3. n \in Nat /\ (Full <=> ~(n < p)) /\ hist[n] \in I
  BY <1>2 DEF n, Full
<1>4. out = PairGradient(node.op, primal, grad)
  BY DEF PairSens
<1>5. Held(primal, PairV(hist), n, p)
  BY DEF PairSens, PairState
<1>6. (IsFull(primal) <=> ~(n < p)) /\ primal.count = Size(n, p)
  BY <1>2, <1>3, <1>5, RingReads
<1>7. CASE n < p
  BY <1>3, <1>4, <1>6, <1>7 DEF PairGradient, PairRef
<1>8. CASE ~(n < p) /\ nan
  <2>1. primal.count = p
    BY <1>6, <1>8 DEF Size
  <2>2. \A e \in Spoiled : primal.sums[e] = Nan /\ grad.sums[e] = Nan
    BY <1>8 DEF PairSens, PairState, Spoiled, Fields
  <2>3. \A e \in Fields \ Spoiled : IsPair(primal.sums[e]) /\ IsPair(grad.sums[e])
    <3> SUFFICES ASSUME NEW e \in Fields \ Spoiled
                 PROVE  IsPair(primal.sums[e]) /\ IsPair(grad.sums[e])
      OBVIOUS
    <3>1. /\ primal.sums[e] = WindowSum(TermsV(hist)[e], n, p)
          /\ grad.sums[e] = WindowSum(TermsD(hist)[e], n, p)
      BY DEF PairSens, PairState
    <3>2. Stream(TermsV(hist)[e], n, FALSE) /\ Stream(TermsD(hist)[e], n, FALSE)
      <4>1. /\ Stream(TermsV(hist)[e], n, nan /\ e \in Spoiled)
            /\ Stream(TermsD(hist)[e], n, nan /\ e \in Spoiled)
        BY <1>2, <1>3, TermsNext DEF n
      <4>2. (nan /\ e \in Spoiled) = FALSE
        OBVIOUS
      <4> QED BY <4>1, <4>2
    <3>3. First(n, p) \in Nat \ {0} /\ \A k \in First(n, p) .. n : k \in 1 .. n
      BY <1>2, <1>3 DEF First
    <3>4. Numbers(TermsV(hist)[e], First(n, p), n) /\ Numbers(TermsD(hist)[e], First(n, p), n)
      BY <3>2, <3>3 DEF Stream, Numbers
    <3> QED BY <1>3, <3>1, <3>3, <3>4, FoldNumber, NumberPair DEF WindowSum
  <2>4. CorrOf(Cov(primal, grad), VarX(primal, grad), VarY(primal, grad)) = Undefined
         /\ BetaOf(Cov(primal, grad), VarX(primal, grad)) = Undefined
    BY <1>2, <2>1, <2>2, <2>3, PairSpoiled
  <2>5. out = Undefined
    BY <1>4, <1>6, <1>8, <2>4 DEF PairGradient
  <2> QED BY <1>8, <2>5 DEF PairRef
<1>9. CASE ~(n < p) /\ ~nan
  <2>1. /\ Cov(primal, grad) = cov /\ VarX(primal, grad) = vx /\ VarY(primal, grad) = vy
        /\ Duals(WindowX, p) /\ Duals(WindowY, p)
    BY <1>9, PairMoments
  <2>2. WindowX = [k \in 1 .. p |-> WindowX[k]] /\ WindowY = [k \in 1 .. p |-> WindowY[k]]
    BY DEF WindowX, WindowY
  <2>3. /\ IsDual(cov) /\ IsDual(vx) /\ IsDual(vy)
        /\ IsPositive(vx.v) \/ (vx.v = Zero /\ vx.d = Zero /\ cov.v = Zero)
        /\ IsPositive(vy.v) \/ (vy.v = Zero /\ vy.d = Zero /\ cov.v = Zero)
    <3> DEFINE w == WindowX
               y == WindowY
    <3>1. /\ w = [k \in 1 .. p |-> w[k]] /\ y = [k \in 1 .. p |-> y[k]] /\ Duals(w, p) /\ Duals(y, p)
      BY <2>1, <2>2
    <3> HIDE DEF w, y, p
    <3>2. LET cv == CoMoment(w, y)
              v1 == CoMoment(w, w)
              v2 == CoMoment(y, y)
          IN  /\ IsDual(cv) /\ IsDual(v1) /\ IsDual(v2)
              /\ IsPositive(v1.v) \/ (v1.v = Zero /\ v1.d = Zero /\ cv.v = Zero)
              /\ IsPositive(v2.v) \/ (v2.v = Zero /\ v2.d = Zero /\ cv.v = Zero)
      BY <1>2, <3>1, MomentsAre
    <3> QED BY <3>2 DEF w, y
  <2> HIDE DEF cov, vx, vy
  <2>4. BetaOf(cov, vx) = IF vx.v = Zero THEN Undefined ELSE DDiv(cov, vx)
    BY <2>3, BetaIs
  <2>5. CorrOf(cov, vx, vy) =
           IF vx.v = Zero \/ vy.v = Zero THEN Undefined
           ELSE Dual(cov.v, FSub(cov.d, FMul(FDiv(cov.v, Two),
                                             FAdd(FDiv(vx.d, vx.v), FDiv(vy.d, vy.v)))))
    BY <2>3, CorrIs
  <2>6. out = IF node.op = "rolling_corr" THEN CorrOf(cov, vx, vy) ELSE BetaOf(cov, vx)
    BY <1>4, <1>6, <1>9, <2>1 DEF PairGradient
  <2>7. PairRef = IF vx.v = Zero THEN Undefined
                  ELSE IF node.op = "rolling_beta" THEN DDiv(cov, vx)
                  ELSE IF vy.v = Zero THEN Undefined
                  ELSE Dual(cov.v, FSub(cov.d, FMul(FDiv(cov.v, Two),
                                             FAdd(FDiv(vx.d, vx.v), FDiv(vy.d, vy.v)))))
    BY <1>3, <1>9 DEF PairRef, cov, vx, vy
  <2>8. (node.op = "rolling_corr" /\ node.op # "rolling_beta")
        \/ (node.op = "rolling_beta" /\ node.op # "rolling_corr")
    BY DEF Pairs
  <2> QED BY <2>4, <2>5, <2>6, <2>7, <2>8
<1> QED BY <1>7, <1>8, <1>9

-----------------------------------------------------------------------------
(* rolling_std and zscore *)

\* Welford's state of c numbers with sum S and derivatives with sum T, where
\* P, Q and R are the sums of the squares and of the products in either order:
\* the means, the moment and its derivative.
IsWelford(mean, meanP, m2, m2P, cut, c, S, T, P, Q, R) ==
  /\ mean = MeanOf(c, S) /\ meanP = MeanOf(c, T) /\ m2 = MomentOf(c, P, S, S)
  /\ ~cut => m2P = FAdd(MomentOf(c, Q, T, S), MomentOf(c, R, S, T))

\* The update by a number x with the derivative y.
LEMMA WelfordGrows ==
  ASSUME NEW c \in Nat, NEW S, NEW T, NEW P, NEW Q, NEW R, NEW x, NEW y, NEW cut,
         IsNumber(S), IsNumber(T), IsNumber(P), IsNumber(Q), IsNumber(R), IsNumber(x),
         IsNumber(y), c = 0 => S = Zero /\ T = Zero /\ P = Zero /\ Q = Zero /\ R = Zero,
         NEW mean, NEW meanP, NEW m2, NEW m2P,
         IsWelford(mean, meanP, m2, m2P, cut, c, S, T, P, Q, R)
  PROVE  LET delta == FSub(x, mean)
             deltaP == FSub(y, meanP)
             mean1 == FAdd(mean, FDiv(delta, Whole(c + 1)))
             meanP1 == FAdd(meanP, FDiv(deltaP, Whole(c + 1)))
         IN  IsWelford(mean1, meanP1, FAdd(m2, FMul(delta, FSub(x, mean1))),
                       FAdd(m2P, FAdd(FMul(deltaP, FSub(x, mean1)), FMul(delta, FSub(y, meanP1)))),
                       cut, c + 1, FAdd(S, x), FAdd(T, y), FAdd(P, FMul(x, x)),
                       FAdd(Q, FMul(y, x)), FAdd(R, FMul(x, y)))
<1> DEFINE delta == FSub(x, mean)
           deltaP == FSub(y, meanP)
           mean1 == FAdd(mean, FDiv(delta, Whole(c + 1)))
           meanP1 == FAdd(meanP, FDiv(deltaP, Whole(c + 1)))
           S1 == FAdd(S, x)
           T1 == FAdd(T, y)
           A1 == MomentOf(c, Q, T, S)
           A2 == MomentOf(c, R, S, T)
           B1 == FMul(deltaP, FSub(x, mean1))
           B2 == FMul(delta, FSub(y, meanP1))
<1>0. c = 0 => S = Whole(0) /\ T = Whole(0) /\ P = Whole(0) /\ Q = Whole(0) /\ R = Whole(0)
  BY DEF Zero
<1>1. mean = MeanOf(c, S) /\ meanP = MeanOf(c, T) /\ m2 = MomentOf(c, P, S, S)
  BY DEF IsWelford
<1>2. mean1 = MeanOf(c + 1, S1) /\ meanP1 = MeanOf(c + 1, T1)
  BY <1>0, <1>1, MeanGrows
<1> HIDE DEF mean1, meanP1
<1>3. FAdd(m2, FMul(delta, FSub(x, mean1))) = MomentOf(c + 1, FAdd(P, FMul(x, x)), S1, S1)
  <2>1. FAdd(MomentOf(c, P, S, S), FMul(FSub(x, MeanOf(c, S)), FSub(x, MeanOf(c + 1, FAdd(S, x))))) =
           MomentOf(c + 1, FAdd(P, FMul(x, x)), FAdd(S, x), FAdd(S, x))
    BY <1>0, MomentGrows
  <2> QED BY <1>1, <1>2, <2>1
<1>4. FAdd(A1, B1) = MomentOf(c + 1, FAdd(Q, FMul(y, x)), T1, S1)
  <2>1. FAdd(MomentOf(c, Q, T, S), FMul(FSub(y, MeanOf(c, T)), FSub(x, MeanOf(c + 1, FAdd(S, x))))) =
           MomentOf(c + 1, FAdd(Q, FMul(y, x)), FAdd(T, y), FAdd(S, x))
    BY <1>0, MomentGrows
  <2> QED BY <1>1, <1>2, <2>1
<1>5. FAdd(A2, B2) = MomentOf(c + 1, FAdd(R, FMul(x, y)), S1, T1)
  <2>1. FAdd(MomentOf(c, R, S, T), FMul(FSub(x, MeanOf(c, S)), FSub(y, MeanOf(c + 1, FAdd(T, y))))) =
           MomentOf(c + 1, FAdd(R, FMul(x, y)), FAdd(S, x), FAdd(T, y))
    BY <1>0, MomentGrows
  <2> QED BY <1>1, <1>2, <2>1
<1>6. IsNumber(A1) /\ IsNumber(A2)
  BY MomentNumber
<1>7. IsNumber(B1) /\ IsNumber(B2)
  <2>1. IsNumber(mean) /\ IsNumber(meanP)
    BY <1>1, MeanNumber
  <2>2. IsNumber(S1) /\ IsNumber(T1) /\ c + 1 \in Nat
    BY NumberClosed
  <2>3. IsNumber(mean1) /\ IsNumber(meanP1)
    BY <1>2, <2>2, MeanNumber
  <2>4. /\ IsNumber(delta) /\ IsNumber(deltaP) /\ IsNumber(FSub(x, mean1))
        /\ IsNumber(FSub(y, meanP1))
    BY <2>1, <2>3, NumberClosed
  <2> QED BY <2>4, NumberClosed
<1> HIDE DEF A1, A2, B1, B2
<1>8. FAdd(FAdd(A1, A2), FAdd(B1, B2)) = FAdd(FAdd(A1, B1), FAdd(A2, B2))
  BY <1>6, <1>7, SumsSwap
<1>9. ~cut => m2P = FAdd(A1, A2)
  BY DEF IsWelford, A1, A2
<1>10. ~cut => FAdd(m2P, FAdd(B1, B2)) =
                 FAdd(MomentOf(c + 1, FAdd(Q, FMul(y, x)), T1, S1),
                      MomentOf(c + 1, FAdd(R, FMul(x, y)), S1, T1))
  BY <1>4, <1>5, <1>8, <1>9
<1> QED BY <1>2, <1>3, <1>10 DEF IsWelford, mean1, meanP1, B1, B2

\* The update that takes x and y out again.
LEMMA WelfordShrinks ==
  ASSUME NEW c \in Nat \ {0}, NEW S, NEW T, NEW P, NEW Q, NEW R, NEW x, NEW y, NEW cut,
         IsNumber(S), IsNumber(T), IsNumber(P), IsNumber(Q), IsNumber(R), IsNumber(x),
         IsNumber(y), NEW mean, NEW meanP, NEW m2, NEW m2P,
         IsWelford(mean, meanP, m2, m2P, cut, c + 1, S, T, P, Q, R)
  PROVE  LET dR == FSub(x, mean)
             dRP == FSub(y, meanP)
             meanR == FSub(mean, FDiv(dR, Whole(c)))
             meanRP == FSub(meanP, FDiv(dRP, Whole(c)))
         IN  IsWelford(meanR, meanRP, FSub(m2, FMul(dR, FSub(x, meanR))),
                       FSub(FSub(m2P, FMul(dRP, FSub(x, meanR))), FMul(dR, FSub(y, meanRP))),
                       cut, c, FSub(S, x), FSub(T, y), FSub(P, FMul(x, x)),
                       FSub(Q, FMul(y, x)), FSub(R, FMul(x, y)))
<1> DEFINE dR == FSub(x, mean)
           dRP == FSub(y, meanP)
           meanR == FSub(mean, FDiv(dR, Whole(c)))
           meanRP == FSub(meanP, FDiv(dRP, Whole(c)))
           S1 == FSub(S, x)
           T1 == FSub(T, y)
           A1 == MomentOf(c + 1, Q, T, S)
           A2 == MomentOf(c + 1, R, S, T)
           B1 == FMul(dRP, FSub(x, meanR))
           B2 == FMul(dR, FSub(y, meanRP))
<1>1. mean = MeanOf(c + 1, S) /\ meanP = MeanOf(c + 1, T) /\ m2 = MomentOf(c + 1, P, S, S)
  BY DEF IsWelford
<1>2. meanR = MeanOf(c, S1) /\ meanRP = MeanOf(c, T1)
  BY <1>1, MeanShrinks
<1> HIDE DEF meanR, meanRP
<1>3. FSub(m2, FMul(dR, FSub(x, meanR))) = MomentOf(c, FSub(P, FMul(x, x)), S1, S1)
  <2>1. FSub(MomentOf(c + 1, P, S, S), FMul(FSub(x, MeanOf(c + 1, S)), FSub(x, MeanOf(c, FSub(S, x))))) =
           MomentOf(c, FSub(P, FMul(x, x)), FSub(S, x), FSub(S, x))
    <3>1. Leaves(c, P, S, S, x, x)
      BY MomentShrinks
    <3> QED BY <3>1 DEF Leaves
  <2> QED BY <1>1, <1>2, <2>1
<1>4. FSub(A1, B1) = MomentOf(c, FSub(Q, FMul(y, x)), T1, S1)
  <2>1. FSub(MomentOf(c + 1, Q, T, S), FMul(FSub(y, MeanOf(c + 1, T)), FSub(x, MeanOf(c, FSub(S, x))))) =
           MomentOf(c, FSub(Q, FMul(y, x)), FSub(T, y), FSub(S, x))
    <3>1. Leaves(c, Q, T, S, y, x)
      BY MomentShrinks
    <3> QED BY <3>1 DEF Leaves
  <2> QED BY <1>1, <1>2, <2>1
<1>5. FSub(A2, B2) = MomentOf(c, FSub(R, FMul(x, y)), S1, T1)
  <2>1. FSub(MomentOf(c + 1, R, S, T), FMul(FSub(x, MeanOf(c + 1, S)), FSub(y, MeanOf(c, FSub(T, y))))) =
           MomentOf(c, FSub(R, FMul(x, y)), FSub(S, x), FSub(T, y))
    <3>1. Leaves(c, R, S, T, x, y)
      BY MomentShrinks
    <3> QED BY <3>1 DEF Leaves
  <2> QED BY <1>1, <1>2, <2>1
<1>6. IsNumber(A1) /\ IsNumber(A2)
  <2>1. c + 1 \in Nat
    OBVIOUS
  <2> QED BY <2>1, MomentNumber
<1>7. IsNumber(B1) /\ IsNumber(B2)
  <2>0. c + 1 \in Nat /\ c \in Nat
    OBVIOUS
  <2>1. IsNumber(mean) /\ IsNumber(meanP)
    BY <1>1, <2>0, MeanNumber
  <2>2. IsNumber(S1) /\ IsNumber(T1)
    BY NumberClosed
  <2>3. IsNumber(meanR) /\ IsNumber(meanRP)
    BY <1>2, <2>0, <2>2, MeanNumber
  <2>4. /\ IsNumber(dR) /\ IsNumber(dRP) /\ IsNumber(FSub(x, meanR))
        /\ IsNumber(FSub(y, meanRP))
    BY <2>1, <2>3, NumberClosed
  <2> QED BY <2>4, NumberClosed
<1> HIDE DEF A1, A2, B1, B2
<1>8. FSub(FSub(FAdd(A1, A2), B1), B2) = FAdd(FSub(A1, B1), FSub(A2, B2))
  BY <1>6, <1>7, PartsSubtract
<1>9. ~cut => m2P = FAdd(A1, A2)
  BY DEF IsWelford, A1, A2
<1>10. ~cut => FSub(FSub(m2P, B1), B2) =
                 FAdd(MomentOf(c, FSub(Q, FMul(y, x)), T1, S1),
                      MomentOf(c, FSub(R, FMul(x, y)), S1, T1))
  BY <1>4, <1>5, <1>8, <1>9
<1> QED BY <1>2, <1>3, <1>10 DEF IsWelford, meanR, meanRP, B1, B2

\* A sum of pairs is a pair.
LEMMA PairSum ==
  ASSUME NEW f, NEW m \in Nat, \A k \in 1 .. m : IsPair(f[k])
  PROVE  IsPair(Fold("+", f, 1, m))
<1> DEFINE Good == {k \in Nat : k <= m => IsPair(Fold("+", f, 1, k))}
<1>1. 0 \in Good
  <2>1. Fold("+", f, 1, 0) = Unit("+")
    BY FoldSteps
  <2>2. IsPair(Unit("+"))
    BY Constants, NumberPair DEF Unit, Zero
  <2> QED BY <2>1, <2>2
<1>2. ASSUME NEW k \in Nat, k \in Good PROVE k + 1 \in Good
  <2> SUFFICES ASSUME k + 1 <= m PROVE IsPair(Fold("+", f, 1, k + 1))
    OBVIOUS
  <2>1. IsPair(Fold("+", f, 1, k)) /\ k + 1 \in 1 .. m
    BY <1>2
  <2>2. Fold("+", f, 1, k + 1) = FAdd(Fold("+", f, 1, k), f[k + 1])
    <3>1. Fold("+", f, 1, k + 1) = Join("+", Fold("+", f, 1, k), f[k + 1])
      <4>1. 1 \in Nat \ {0} /\ k \in Nat /\ 1 <= k + 1
        OBVIOUS
      <4> QED BY <4>1, FoldNext
    <3> QED BY <3>1 DEF Join
  <2> QED BY <2>1, <2>2, PairClosed
<1> HIDE DEF Good
<1>3. \A k \in Nat : k \in Good
  BY <1>1, <1>2, Induction
<1> QED BY <1>3 DEF Good

\* Welford's state of the window over the values v and the derivatives d.
WelfordOf(mean, meanP, m2, m2P, cut, v, d, m, p) ==
  IsWelford(mean, meanP, m2, m2P, cut, Size(m, p), WindowSum(v, m, p), WindowSum(d, m, p),
            WindowSum(Prods(v, v, m), m, p), WindowSum(Prods(d, v, m), m, p),
            WindowSum(Prods(v, d, m), m, p))

\* The products of two series, with one more.
LEMMA ProdsNext ==
  ASSUME NEW p \in Nat \ {0}, NEW m \in Nat, NEW f, NEW g, NEW f1, NEW g1, NEW x, NEW y,
         Continues(f1, f, m, x), Continues(g1, g, m, y), IsNumber(x), IsNumber(y),
         Numbers(f, First(m, p), m), Numbers(g, First(m, p), m)
  PROVE  /\ Continues(Prods(f1, g1, m + 1), Prods(f, g, m), m, FMul(x, y))
         /\ Numbers(Prods(f, g, m), First(m, p), m) /\ IsNumber(FMul(x, y))
<1>1. m + 1 \in 1 .. m + 1 /\ \A k \in 1 .. m : k \in 1 .. m + 1
  OBVIOUS
<1>2. Continues(Prods(f1, g1, m + 1), Prods(f, g, m), m, FMul(x, y))
  <2>1. Prods(f1, g1, m + 1)[m + 1] = FMul(x, y)
    BY <1>1 DEF Prods, Continues
  <2>2. ASSUME NEW k \in 1 .. m PROVE Prods(f1, g1, m + 1)[k] = Prods(f, g, m)[k]
    BY <1>1 DEF Prods, Continues
  <2> QED BY <2>1, <2>2 DEF Continues
<1>3. Numbers(Prods(f, g, m), First(m, p), m)
  <2> SUFFICES ASSUME NEW k \in First(m, p) .. m PROVE IsNumber(Prods(f, g, m)[k])
    BY DEF Numbers
  <2>1. k \in 1 .. m
    BY DEF First
  <2>2. IsNumber(f[k]) /\ IsNumber(g[k])
    BY DEF Numbers
  <2> QED BY <2>1, <2>2, NumberClosed DEF Prods
<1> QED BY <1>2, <1>3, NumberClosed

\* The sum f of the window before and h after a number x joined, and y left if
\* the window was full.
Moves(f, h, x, y, m, p) == IF m < p THEN h = FAdd(f, x) ELSE h = FAdd(FSub(f, y), x)

\* The sum of a window of products.
LEMMA ProdsSum ==
  ASSUME NEW p \in Nat \ {0}, NEW m \in Nat, NEW f, NEW g, NEW f1, NEW g1, NEW x, NEW y,
         Continues(f1, f, m, x), Continues(g1, g, m, y), IsNumber(x), IsNumber(y),
         Numbers(f, First(m, p), m), Numbers(g, First(m, p), m)
  PROVE  /\ Moves(WindowSum(Prods(f, g, m), m, p), WindowSum(Prods(f1, g1, m + 1), m + 1, p),
                  FMul(x, y), FMul(f[First(m, p)], g[First(m, p)]), m, p)
         /\ IsNumber(WindowSum(Prods(f, g, m), m, p))
         /\ m = 0 => WindowSum(Prods(f, g, m), m, p) = Zero
<1> DEFINE e == Prods(f, g, m)
           e1 == Prods(f1, g1, m + 1)
           z == FMul(x, y)
<1>1. Continues(e1, e, m, z) /\ Numbers(e, First(m, p), m) /\ IsNumber(z)
  BY ProdsNext
<1>2. ~(m < p) => e[First(m, p)] = FMul(f[First(m, p)], g[First(m, p)])
  <2>1. ~(m < p) => First(m, p) \in 1 .. m
    BY DEF First
  <2> QED BY <2>1 DEF Prods
<1> HIDE DEF e, e1, z
<1>3. /\ m < p => WindowSum(e1, m + 1, p) = FAdd(WindowSum(e, m, p), z)
      /\ ~(m < p) => WindowSum(e1, m + 1, p) = FAdd(FSub(WindowSum(e, m, p), e[First(m, p)]), z)
      /\ IsNumber(WindowSum(e, m, p))
      /\ m = 0 => WindowSum(e, m, p) = Zero
  BY <1>1, WindowSumNext
<1> QED BY <1>2, <1>3 DEF Moves, e, e1, z

\* The sum of a window.
LEMMA SeriesSum ==
  ASSUME NEW p \in Nat \ {0}, NEW m \in Nat, NEW f, NEW f1, NEW x, Continues(f1, f, m, x),
         IsNumber(x), Numbers(f, First(m, p), m)
  PROVE  /\ Moves(WindowSum(f, m, p), WindowSum(f1, m + 1, p), x, f[First(m, p)], m, p)
         /\ IsNumber(WindowSum(f, m, p)) /\ (m = 0 => WindowSum(f, m, p) = Zero)
         /\ ~(m < p) => IsNumber(f[First(m, p)])
         /\ Numbers(f1, First(m + 1, p), m + 1)
<1>1. /\ m < p => WindowSum(f1, m + 1, p) = FAdd(WindowSum(f, m, p), x)
      /\ ~(m < p) => /\ WindowSum(f1, m + 1, p) =
                          FAdd(FSub(WindowSum(f, m, p), f[First(m, p)]), x)
                     /\ IsNumber(f[First(m, p)])
      /\ IsNumber(WindowSum(f, m, p)) /\ Numbers(f1, First(m + 1, p), m + 1)
      /\ m = 0 => WindowSum(f, m, p) = Zero
  BY WindowSumNext
<1> QED BY <1>1 DEF Moves

\* v and d are the values and the derivatives of m ticks, v1 and d1 with one
\* more, and the window before is without NaN.
Goes(v, d, v1, d1, x, y, m, p) ==
  /\ Continues(v1, v, m, x) /\ Continues(d1, d, m, y) /\ IsNumber(x) /\ IsNumber(y)
  /\ Numbers(v, First(m, p), m) /\ Numbers(d, First(m, p), m)

\* The five sums of a window.
LEMMA FiveSums ==
  ASSUME NEW p \in Nat \ {0}, NEW m \in Nat, NEW v, NEW d, NEW v1, NEW d1, NEW x, NEW y,
         Goes(v, d, v1, d1, x, y, m, p)
  PROVE  LET vv == WindowSum(Prods(v, v, m), m, p)
             dv == WindowSum(Prods(d, v, m), m, p)
             vd == WindowSum(Prods(v, d, m), m, p)
             u == v[First(m, p)]
             w == d[First(m, p)]
         IN  /\ Moves(WindowSum(v, m, p), WindowSum(v1, m + 1, p), x, u, m, p)
             /\ Moves(WindowSum(d, m, p), WindowSum(d1, m + 1, p), y, w, m, p)
             /\ Moves(vv, WindowSum(Prods(v1, v1, m + 1), m + 1, p), FMul(x, x), FMul(u, u), m, p)
             /\ Moves(dv, WindowSum(Prods(d1, v1, m + 1), m + 1, p), FMul(y, x), FMul(w, u), m, p)
             /\ Moves(vd, WindowSum(Prods(v1, d1, m + 1), m + 1, p), FMul(x, y), FMul(u, w), m, p)
             /\ IsNumber(WindowSum(v, m, p)) /\ IsNumber(WindowSum(d, m, p)) /\ IsNumber(vv)
             /\ IsNumber(dv) /\ IsNumber(vd) /\ IsNumber(x) /\ IsNumber(y)
             /\ ~(m < p) => IsNumber(u) /\ IsNumber(w)
             /\ m = 0 => /\ WindowSum(v, m, p) = Zero /\ WindowSum(d, m, p) = Zero /\ vv = Zero
                         /\ dv = Zero /\ vd = Zero
<1>1. /\ Continues(v1, v, m, x) /\ Continues(d1, d, m, y) /\ IsNumber(x) /\ IsNumber(y)
      /\ Numbers(v, First(m, p), m) /\ Numbers(d, First(m, p), m)
  BY DEF Goes
<1>2. /\ Moves(WindowSum(v, m, p), WindowSum(v1, m + 1, p), x, v[First(m, p)], m, p)
      /\ IsNumber(WindowSum(v, m, p)) /\ (m = 0 => WindowSum(v, m, p) = Zero)
      /\ ~(m < p) => IsNumber(v[First(m, p)])
  BY <1>1, SeriesSum
<1>3. /\ Moves(WindowSum(d, m, p), WindowSum(d1, m + 1, p), y, d[First(m, p)], m, p)
      /\ IsNumber(WindowSum(d, m, p)) /\ (m = 0 => WindowSum(d, m, p) = Zero)
      /\ ~(m < p) => IsNumber(d[First(m, p)])
  BY <1>1, SeriesSum
<1>4. /\ Moves(WindowSum(Prods(v, v, m), m, p), WindowSum(Prods(v1, v1, m + 1), m + 1, p),
                FMul(x, x), FMul(v[First(m, p)], v[First(m, p)]), m, p)
      /\ IsNumber(WindowSum(Prods(v, v, m), m, p))
      /\ m = 0 => WindowSum(Prods(v, v, m), m, p) = Zero
  BY <1>1, ProdsSum
<1>5. /\ Moves(WindowSum(Prods(d, v, m), m, p), WindowSum(Prods(d1, v1, m + 1), m + 1, p),
                FMul(y, x), FMul(d[First(m, p)], v[First(m, p)]), m, p)
      /\ IsNumber(WindowSum(Prods(d, v, m), m, p))
      /\ m = 0 => WindowSum(Prods(d, v, m), m, p) = Zero
  BY <1>1, ProdsSum
<1>6. /\ Moves(WindowSum(Prods(v, d, m), m, p), WindowSum(Prods(v1, d1, m + 1), m + 1, p),
                FMul(x, y), FMul(v[First(m, p)], d[First(m, p)]), m, p)
      /\ IsNumber(WindowSum(Prods(v, d, m), m, p))
      /\ m = 0 => WindowSum(Prods(v, d, m), m, p) = Zero
  BY <1>1, ProdsSum
<1> QED BY <1>1, <1>2, <1>3, <1>4, <1>5, <1>6

\* A step while the window fills: the update of Grown.
LEMMA WelfordFills ==
  ASSUME NEW p \in Nat \ {0}, NEW m \in Nat, m < p, NEW v, NEW d, NEW v1, NEW d1, NEW x, NEW y,
         Goes(v, d, v1, d1, x, y, m, p), NEW cut, NEW mean, NEW meanP, NEW m2, NEW m2P,
         WelfordOf(mean, meanP, m2, m2P, cut, v, d, m, p)
  PROVE  LET delta == FSub(x, mean)
             deltaP == FSub(y, meanP)
             mean1 == FAdd(mean, FDiv(delta, Whole(m + 1)))
             meanP1 == FAdd(meanP, FDiv(deltaP, Whole(m + 1)))
         IN  WelfordOf(mean1, meanP1, FAdd(m2, FMul(delta, FSub(x, mean1))),
                       FAdd(m2P, FAdd(FMul(deltaP, FSub(x, mean1)), FMul(delta, FSub(y, meanP1)))),
                       cut, v1, d1, m + 1, p)
<1> DEFINE S == WindowSum(v, m, p)
           T == WindowSum(d, m, p)
           P == WindowSum(Prods(v, v, m), m, p)
           Q == WindowSum(Prods(d, v, m), m, p)
           R == WindowSum(Prods(v, d, m), m, p)
<1>1. /\ WindowSum(v1, m + 1, p) = FAdd(S, x) /\ WindowSum(d1, m + 1, p) = FAdd(T, y)
      /\ WindowSum(Prods(v1, v1, m + 1), m + 1, p) = FAdd(P, FMul(x, x))
      /\ WindowSum(Prods(d1, v1, m + 1), m + 1, p) = FAdd(Q, FMul(y, x))
      /\ WindowSum(Prods(v1, d1, m + 1), m + 1, p) = FAdd(R, FMul(x, y))
      /\ IsNumber(S) /\ IsNumber(T) /\ IsNumber(P) /\ IsNumber(Q) /\ IsNumber(R)
      /\ IsNumber(x) /\ IsNumber(y)
      /\ m = 0 => S = Zero /\ T = Zero /\ P = Zero /\ Q = Zero /\ R = Zero
  BY FiveSums DEF Moves
<1>2. Size(m, p) = m /\ Size(m + 1, p) = m + 1
  BY DEF Size
<1>3. IsWelford(mean, meanP, m2, m2P, cut, m, S, T, P, Q, R)
  BY <1>2 DEF WelfordOf
<1> HIDE DEF S, T, P, Q, R
<1> DEFINE delta == FSub(x, mean)
           deltaP == FSub(y, meanP)
           mean1 == FAdd(mean, FDiv(delta, Whole(m + 1)))
           meanP1 == FAdd(meanP, FDiv(deltaP, Whole(m + 1)))
<1>4. IsWelford(mean1, meanP1, FAdd(m2, FMul(delta, FSub(x, mean1))),
                FAdd(m2P, FAdd(FMul(deltaP, FSub(x, mean1)), FMul(delta, FSub(y, meanP1)))),
                cut, m + 1, FAdd(S, x), FAdd(T, y), FAdd(P, FMul(x, x)), FAdd(Q, FMul(y, x)),
                FAdd(R, FMul(x, y)))
  BY <1>1, <1>3, WelfordGrows
<1> QED BY <1>1, <1>2, <1>4 DEF WelfordOf

\* A step of a full window: the update of Slid, before anything is cut off.
LEMMA WelfordSlides ==
  ASSUME NEW p \in Nat, p >= 2, NEW m \in Nat, ~(m < p), NEW v, NEW d, NEW v1, NEW d1, NEW x,
         NEW y, Goes(v, d, v1, d1, x, y, m, p), NEW cut, NEW mean, NEW meanP, NEW m2, NEW m2P,
         WelfordOf(mean, meanP, m2, m2P, cut, v, d, m, p), NEW old, old = v[First(m, p)],
         NEW oldP, oldP = d[First(m, p)]
  PROVE  LET dR == FSub(old, mean)
             dRP == FSub(oldP, meanP)
             meanR == FSub(mean, FDiv(dR, Whole(p - 1)))
             meanRP == FSub(meanP, FDiv(dRP, Whole(p - 1)))
             m2R == FSub(m2, FMul(dR, FSub(old, meanR)))
             m2RP == FSub(FSub(m2P, FMul(dRP, FSub(old, meanR))), FMul(dR, FSub(oldP, meanRP)))
             dA == FSub(x, meanR)
             dAP == FSub(y, meanRP)
             mean1 == FAdd(meanR, FDiv(dA, Whole(p)))
             meanP1 == FAdd(meanRP, FDiv(dAP, Whole(p)))
         IN  WelfordOf(mean1, meanP1, FAdd(m2R, FMul(dA, FSub(x, mean1))),
                       FAdd(m2RP, FAdd(FMul(dAP, FSub(x, mean1)), FMul(dA, FSub(y, meanP1)))),
                       cut, v1, d1, m + 1, p)
<1> DEFINE S == WindowSum(v, m, p)
           T == WindowSum(d, m, p)
           P == WindowSum(Prods(v, v, m), m, p)
           Q == WindowSum(Prods(d, v, m), m, p)
           R == WindowSum(Prods(v, d, m), m, p)
           c == p - 1
<1>1. /\ WindowSum(v1, m + 1, p) = FAdd(FSub(S, old), x)
      /\ WindowSum(d1, m + 1, p) = FAdd(FSub(T, oldP), y)
      /\ WindowSum(Prods(v1, v1, m + 1), m + 1, p) = FAdd(FSub(P, FMul(old, old)), FMul(x, x))
      /\ WindowSum(Prods(d1, v1, m + 1), m + 1, p) = FAdd(FSub(Q, FMul(oldP, old)), FMul(y, x))
      /\ WindowSum(Prods(v1, d1, m + 1), m + 1, p) = FAdd(FSub(R, FMul(old, oldP)), FMul(x, y))
      /\ IsNumber(S) /\ IsNumber(T) /\ IsNumber(P) /\ IsNumber(Q) /\ IsNumber(R)
      /\ IsNumber(x) /\ IsNumber(y) /\ IsNumber(old) /\ IsNumber(oldP)
  <2>1. p \in Nat \ {0}
    OBVIOUS
  <2> QED BY <2>1, FiveSums DEF Moves
<1>2. Size(m, p) = p /\ Size(m + 1, p) = p /\ c \in Nat \ {0} /\ c \in Nat /\ c # 0 /\ c + 1 = p
  BY DEF Size
<1>3. IsWelford(mean, meanP, m2, m2P, cut, c + 1, S, T, P, Q, R)
  BY <1>2 DEF WelfordOf
<1> DEFINE dR == FSub(old, mean)
           dRP == FSub(oldP, meanP)
           meanR == FSub(mean, FDiv(dR, Whole(c)))
           meanRP == FSub(meanP, FDiv(dRP, Whole(c)))
           m2R == FSub(m2, FMul(dR, FSub(old, meanR)))
           m2RP == FSub(FSub(m2P, FMul(dRP, FSub(old, meanR))), FMul(dR, FSub(oldP, meanRP)))
           SR == FSub(S, old)
           TR == FSub(T, oldP)
           PR == FSub(P, FMul(old, old))
           QR == FSub(Q, FMul(oldP, old))
           RR == FSub(R, FMul(old, oldP))
<1> HIDE DEF S, T, P, Q, R, c
<1>4. IsWelford(meanR, meanRP, m2R, m2RP, cut, c, SR, TR, PR, QR, RR)
  BY <1>1, <1>2, <1>3, WelfordShrinks
<1>5. IsNumber(SR) /\ IsNumber(TR) /\ IsNumber(PR) /\ IsNumber(QR) /\ IsNumber(RR)
  <2>1. IsNumber(FMul(old, old)) /\ IsNumber(FMul(oldP, old)) /\ IsNumber(FMul(old, oldP))
    BY <1>1, NumberClosed
  <2> QED BY <1>1, <2>1, NumberClosed
<1> DEFINE dA == FSub(x, meanR)
           dAP == FSub(y, meanRP)
           mean1 == FAdd(meanR, FDiv(dA, Whole(c + 1)))
           meanP1 == FAdd(meanRP, FDiv(dAP, Whole(c + 1)))
<1> HIDE DEF meanR, meanRP, m2R, m2RP, SR, TR, PR, QR, RR
<1>6. IsWelford(mean1, meanP1, FAdd(m2R, FMul(dA, FSub(x, mean1))),
                FAdd(m2RP, FAdd(FMul(dAP, FSub(x, mean1)), FMul(dA, FSub(y, meanP1)))),
                cut, c + 1, FAdd(SR, x), FAdd(TR, y), FAdd(PR, FMul(x, x)), FAdd(QR, FMul(y, x)),
                FAdd(RR, FMul(x, y)))
  BY <1>1, <1>2, <1>4, <1>5, WelfordGrows
<1>7. WelfordOf(mean1, meanP1, FAdd(m2R, FMul(dA, FSub(x, mean1))),
                FAdd(m2RP, FAdd(FMul(dAP, FSub(x, mean1)), FMul(dA, FSub(y, meanP1)))),
                cut, v1, d1, m + 1, p)
  BY <1>1, <1>2, <1>6 DEF WelfordOf, SR, TR, PR, QR, RR
<1> QED BY <1>2, <1>7 DEF meanR, meanRP, m2R, m2RP, c

\* The second moment of a full window is never negative, and is zero only
\* with its derivative.
LEMMA SecondMoment ==
  ASSUME NEW p \in Nat \ {0}, NEW m \in Nat, ~(m < p), NEW v, Numbers(v, First(m, p), m)
  PROVE  LET m2 == MomentOf(p, WindowSum(Prods(v, v, m), m, p), WindowSum(v, m, p),
                            WindowSum(v, m, p))
         IN  IsNumber(m2) /\ ~FLt(m2, Zero) /\ (IsPositive(m2) \/ m2 = Zero)
<1> DEFINE r == Recent(v, m, p)
           m2 == MomentOf(p, WindowSum(Prods(v, v, m), m, p), WindowSum(v, m, p),
                          WindowSum(v, m, p))
<1>1. Numbers(r, 1, p)
  BY RecentSum
<1>2. Moment(p, r, r) = m2
  <2> DEFINE e == Prods(v, v, m)
  <2>1. \A k \in 1 .. m : e[k] = FMul(v[k], v[k])
    BY DEF Prods
  <2> HIDE DEF e
  <2>2. Moment(p, Recent(v, m, p), Recent(v, m, p)) =
          MomentOf(p, WindowSum(e, m, p), WindowSum(v, m, p), WindowSum(v, m, p))
    BY <2>1, RecentMoment
  <2> QED BY <2>2 DEF e
<1> HIDE DEF r, m2
<1>3. IsNumber(m2) /\ (IsPositive(m2) \/ m2 = Zero)
  BY <1>1, <1>2, MomentSign, MomentIsSum
<1>4. ~FLt(m2, Zero)
  BY <1>3, PositiveAbove, ZeroBelow DEF Zero
<1> QED BY <1>3, <1>4 DEF m2

\* Nothing is cut off a right m2; m2' may be, and cut says so.
LEMMA WelfordClamped ==
  ASSUME NEW p \in Nat \ {0}, NEW m \in Nat, ~(m < p), NEW v, NEW d,
         Numbers(v, First(m, p), m), NEW cut \in BOOLEAN, NEW mean, NEW meanP, NEW m2, NEW m2P,
         WelfordOf(mean, meanP, m2, m2P, cut, v, d, m, p)
  PROVE  WelfordOf(mean, meanP, ClampNegative(m2), ClampNegative(m2P), cut \/ FLt(m2P, Zero),
                   v, d, m, p)
<1>1. Size(m, p) = p
  BY DEF Size
<1>2. m2 = MomentOf(p, WindowSum(Prods(v, v, m), m, p), WindowSum(v, m, p), WindowSum(v, m, p))
  BY <1>1 DEF WelfordOf, IsWelford
<1>3. ~FLt(m2, Zero)
  BY <1>2, SecondMoment
<1>4. ClampNegative(m2) = m2 /\ (~FLt(m2P, Zero) => ClampNegative(m2P) = m2P)
  BY <1>3 DEF ClampNegative
<1> QED BY <1>4 DEF WelfordOf, IsWelford

\* The state can be trusted: no NaN at all, or none in the window and in the
\* s ticks before it, as many as slid since the last refresh.
Trusted(f, m, p, s) ==
  Numbers(f, 1, m) \/ (p + s <= m /\ Numbers(f, m - (p + s) + 1, m))

\* A series without its last element.
LEMMA NumbersBefore ==
  ASSUME NEW m \in Nat, NEW f, NEW g, NEW x, Continues(g, f, m, x), NEW lo \in Nat \ {0},
         lo <= m + 1, Numbers(g, lo, m + 1)
  PROVE  Numbers(f, lo, m) /\ IsNumber(x)
<1>1. m + 1 \in lo .. m + 1 /\ \A k \in lo .. m : k \in lo .. m + 1 /\ k \in 1 .. m
  OBVIOUS
<1> QED BY <1>1 DEF Numbers, Continues

\* The window of a state that can be trusted is without NaN.
LEMMA TrustedWindow ==
  ASSUME NEW p \in Nat \ {0}, NEW m \in Nat, NEW f, NEW s \in Nat, Trusted(f, m, p, s)
  PROVE  Numbers(f, First(m, p), m)
<1>1. CASE Numbers(f, 1, m)
  <2>1. \A k \in First(m, p) .. m : k \in 1 .. m
    BY DEF First
  <2> QED BY <1>1, <2>1 DEF Numbers
<1>2. CASE p + s <= m /\ Numbers(f, m - (p + s) + 1, m)
  <2>1. \A k \in First(m, p) .. m : k \in m - (p + s) + 1 .. m
    BY <1>2 DEF First
  <2> QED BY <1>2, <2>1 DEF Numbers
<1> QED BY <1>1, <1>2 DEF Trusted

\* What a step leaves of the trust: the last sample is a number, and without
\* a refresh the state before could be trusted too.
LEMMA TrustedBefore ==
  ASSUME NEW p \in Nat \ {0}, NEW m \in Nat, NEW f, NEW g, NEW x, Continues(g, f, m, x),
         NEW s \in Nat, NEW t \in Nat, t = IF m < p THEN s ELSE s + 1, Trusted(g, m + 1, p, t)
  PROVE  Trusted(f, m, p, s) /\ IsNumber(x)
<1>1. CASE Numbers(g, 1, m + 1)
  BY <1>1, NumbersBefore DEF Trusted
<1>2. CASE p + t <= m + 1 /\ Numbers(g, (m + 1) - (p + t) + 1, m + 1)
  <2> DEFINE lo == (m + 1) - (p + t) + 1
  <2>1. lo \in Nat \ {0} /\ lo <= m + 1
    BY <1>2
  <2>2. Numbers(f, lo, m) /\ IsNumber(x)
    <3> HIDE DEF lo
    <3> QED BY <1>2, <2>1, NumbersBefore DEF lo
  <2>3. CASE m < p
    <3>1. lo = 1
      BY <1>2, <2>3
    <3> QED BY <2>2, <3>1 DEF Trusted
  <2>4. CASE ~(m < p)
    <3>1. lo = m - (p + s) + 1 /\ p + s <= m
      BY <1>2, <2>4
    <3> QED BY <2>2, <3>1 DEF Trusted
  <2> QED BY <2>3, <2>4
<1> QED BY <1>1, <1>2 DEF Trusted

\* w is the ring B cut open at the place of its oldest element.
Turned(w, B, m, p) ==
  LET a == m % p
      b == p - a
  IN  (\A k \in 1 .. b : w[k] = B[(a + k) - 1]) /\ (\A k \in 1 .. a : w[b + k] = B[k - 1])

\* A full ring, cut open, is the window.
LEMMA HeldTurned ==
  ASSUME NEW p \in Nat \ {0}, NEW m \in Nat, ~(m < p), NEW st, NEW f, Held(st, f, m, p)
  PROVE  Turned(Recent(f, m, p), st.buf, m, p)
<1> DEFINE a == m % p
           b == p - a
           q == m \div p
           w == Recent(f, m, p)
<1>1. q \in Int /\ a \in 0 .. p - 1 /\ m = q * p + a
  BY DivMod
<1>2. ASSUME NEW k \in 1 .. p PROVE w[k] = st.buf[((m - p) + (k - 1)) % p]
  <2> DEFINE j == (m - p) + (k - 1)
  <2>1. j \in 0 .. m - 1 /\ j + p >= m /\ j + 1 = (m - p) + k
    OBVIOUS
  <2>2. st.buf[j % p] = f[j + 1]
    BY <2>1 DEF Held
  <2> QED BY <2>1, <2>2 DEF Recent
<1>3. ASSUME NEW k \in 1 .. p, NEW u \in Int, NEW e \in 0 .. p - 1,
             (m - p) + (k - 1) = u * p + e
      PROVE  w[k] = st.buf[e]
  <2> DEFINE j == (m - p) + (k - 1)
             z == j \div p
             y == j % p
  <2>1. j \in Nat
    OBVIOUS
  <2>2. z \in Int /\ y \in 0 .. p - 1 /\ j = z * p + y
    BY <2>1, DivMod
  <2>3. z * p + y = u * p + e
    BY <1>3, <2>2
  <2> HIDE DEF z, y
  <2>4. y = e
    BY <2>2, <2>3, OneRemainder
  <2> QED BY <1>2, <2>4 DEF y
<1>4. q - 1 \in Int /\ (q - 1) * p = q * p - p
  BY <1>1
<1>5. ASSUME NEW k \in 1 .. b PROVE w[k] = st.buf[(a + k) - 1]
  <2> DEFINE e == (a + k) - 1
             u == q - 1
  <2>1. k \in 1 .. p /\ e \in 0 .. p - 1
    BY <1>1
  <2>2. (m - p) + (k - 1) = u * p + e
    BY <1>1, <1>4, <2>1
  <2>3. u \in Int
    BY <1>4
  <2> HIDE DEF e, u, w
  <2>4. w[k] = st.buf[e]
    BY <1>3, <2>1, <2>2, <2>3
  <2> QED BY <2>4 DEF e
<1>6. ASSUME NEW k \in 1 .. a PROVE w[b + k] = st.buf[k - 1]
  <2> DEFINE e == k - 1
  <2>1. b + k \in 1 .. p /\ e \in 0 .. p - 1
    BY <1>1
  <2>2. (m - p) + ((b + k) - 1) = q * p + e
    BY <1>1, <2>1
  <2> HIDE DEF e, w, q
  <2>4. w[b + k] = st.buf[e]
    BY <1>1, <1>3, <2>1, <2>2
  <2> QED BY <2>4 DEF e
<1> QED BY <1>5, <1>6 DEF Turned

\* Every place of the ring is one of the window.
LEMMA TurnedPlaces ==
  ASSUME NEW p \in Nat \ {0}, NEW m \in Nat, NEW w, NEW B, Turned(w, B, m, p)
  PROVE  \A j \in 1 .. p : \E k \in 1 .. p : B[j - 1] = w[k]
<1> DEFINE a == m % p
           b == p - a
<1>1. a \in 0 .. p - 1
  BY DivMod
<1>2. (\A k \in 1 .. b : w[k] = B[(a + k) - 1]) /\ (\A k \in 1 .. a : w[b + k] = B[k - 1])
  BY DEF Turned
<1> HIDE DEF a
<1> SUFFICES ASSUME NEW j \in 1 .. p PROVE \E k \in 1 .. p : B[j - 1] = w[k]
  OBVIOUS
<1>3. CASE j <= a
  <2>1. j \in 1 .. a /\ b + j \in 1 .. p
    BY <1>1, <1>3
  <2> QED BY <1>2, <2>1
<1>4. CASE j > a
  <2> DEFINE k == j - a
  <2>1. k \in 1 .. b /\ k \in 1 .. p /\ (a + k) - 1 = j - 1
    BY <1>1, <1>4
  <2> HIDE DEF k
  <2> QED BY <1>2, <2>1
<1> QED BY <1>1, <1>3, <1>4

\* The sum over the places of a ring is that of the window.
LEMMA RingTotal ==
  ASSUME NEW p \in Nat \ {0}, NEW m \in Nat, NEW w, NEW B, Turned(w, B, m, p), Numbers(w, 1, p)
  PROVE  Total(B, p) = Fold("+", w, 1, p)
<1> DEFINE a == m % p
           b == p - a
           s == [k \in 1 .. p |-> B[k - 1]]
<1>1. a \in Nat /\ b \in Nat /\ a + b = p
  <2>1. a \in 0 .. p - 1
    BY DivMod
  <2> QED BY <2>1
<1>2. Numbers(s, 1, a + b)
  <2> SUFFICES ASSUME NEW j \in 1 .. p PROVE IsNumber(s[j])
    BY <1>1 DEF Numbers
  <2>1. PICK k \in 1 .. p : B[j - 1] = w[k]
    BY TurnedPlaces
  <2> QED BY <2>1 DEF Numbers
<1>3. \A k \in 1 .. b : w[k] = s[a + k]
  <2> SUFFICES ASSUME NEW k \in 1 .. b PROVE w[k] = s[a + k]
    OBVIOUS
  <2>1. a + k \in 1 .. p
    BY <1>1
  <2>2. w[k] = B[(a + k) - 1]
    BY DEF Turned
  <2> QED BY <2>1, <2>2
<1>4. \A k \in 1 .. a : w[b + k] = s[k]
  <2> SUFFICES ASSUME NEW k \in 1 .. a PROVE w[b + k] = s[k]
    OBVIOUS
  <2>1. k \in 1 .. p
    BY <1>1
  <2>2. w[b + k] = B[k - 1]
    BY DEF Turned
  <2> QED BY <2>1, <2>2
<1> HIDE DEF a, b, s
<1>5. Fold("+", w, 1, a + b) = Fold("+", s, 1, a + b)
  BY <1>1, <1>2, <1>3, <1>4, SumRotates
<1> QED BY <1>1, <1>5 DEF Total, s

\* A ring computed from two others place by place is turned as they are.
LEMMA TurnedWith ==
  ASSUME NEW p \in Nat \ {0}, NEW m \in Nat, NEW w, NEW B, NEW u, NEW D, Turned(w, B, m, p),
         Turned(u, D, m, p), NEW E, NEW C,
         \A j \in 0 .. p - 1, k \in 1 .. p : B[j] = w[k] /\ D[j] = u[k] => C[j] = E[k]
  PROVE  Turned(E, C, m, p)
<1> DEFINE a == m % p
           b == p - a
<1>1. a \in 0 .. p - 1
  BY DivMod
<1>2. /\ \A k \in 1 .. b : w[k] = B[(a + k) - 1] /\ u[k] = D[(a + k) - 1]
      /\ \A k \in 1 .. a : w[b + k] = B[k - 1] /\ u[b + k] = D[k - 1]
  BY DEF Turned
<1> HIDE DEF a
<1>3. ASSUME NEW k \in 1 .. b PROVE E[k] = C[(a + k) - 1]
  <2> DEFINE j == (a + k) - 1
  <2>1. j \in 0 .. p - 1 /\ k \in 1 .. p
    BY <1>1
  <2>2. w[k] = B[j] /\ u[k] = D[j]
    BY <1>2
  <2> HIDE DEF j
  <2>3. C[j] = E[k]
    BY <2>1, <2>2
  <2> QED BY <2>3 DEF j
<1>4. ASSUME NEW k \in 1 .. a PROVE E[b + k] = C[k - 1]
  <2> DEFINE j == k - 1
             i == b + k
  <2>1. j \in 0 .. p - 1 /\ i \in 1 .. p
    BY <1>1
  <2>2. w[i] = B[j] /\ u[i] = D[j]
    BY <1>2
  <2> HIDE DEF i, j
  <2>3. C[j] = E[i]
    BY <2>1, <2>2
  <2> QED BY <2>3 DEF i, j
<1> QED BY <1>3, <1>4 DEF Turned, a

\* What a refresh computes from the two buffers.
FreshMean(B, p) == FDiv(Total(B, p), Whole(p))
FreshSquares(B, p) ==
  [k \in DOMAIN B |-> FMul(FSub(B[k], FreshMean(B, p)), FSub(B[k], FreshMean(B, p)))]
FreshProducts(B, D, p) ==
  [k \in DOMAIN B |->
     FMul(Two, FMul(FSub(B[k], FreshMean(B, p)), FSub(D[k], FreshMean(D, p))))]

\* The mean of a ring is the one of the window.
LEMMA FreshMeanIs ==
  ASSUME NEW p \in Nat \ {0}, NEW m \in Nat, ~(m < p), NEW f, NEW B,
         Turned(Recent(f, m, p), B, m, p), Numbers(f, First(m, p), m)
  PROVE  /\ FreshMean(B, p) = MeanOf(p, WindowSum(f, m, p))
         /\ FreshMean(B, p) = MeanOf(p, Fold("+", Recent(f, m, p), 1, p))
         /\ Numbers(Recent(f, m, p), 1, p)
<1> DEFINE r == Recent(f, m, p)
<1>1. Fold("+", r, 1, p) = WindowSum(f, m, p) /\ Numbers(r, 1, p)
  BY RecentSum
<1> HIDE DEF r
<1>2. Total(B, p) = Fold("+", r, 1, p)
  BY <1>1, RingTotal DEF r
<1> QED BY <1>1, <1>2 DEF FreshMean, MeanOf, r

\* The moment of a ring is the one of the window.
LEMMA FreshSquaresAre ==
  ASSUME NEW p \in Nat \ {0}, NEW m \in Nat, ~(m < p), NEW f, NEW B, DOMAIN B = 0 .. p - 1,
         Turned(Recent(f, m, p), B, m, p), Numbers(f, First(m, p), m)
  PROVE  Total(FreshSquares(B, p), p) = Moment(p, Recent(f, m, p), Recent(f, m, p))
<1> DEFINE r == Recent(f, m, p)
           e == Devs(r, p)
           E == Prods(e, e, p)
           C == FreshSquares(B, p)
           mean == FreshMean(B, p)
<1>1. mean = MeanOf(p, Fold("+", r, 1, p)) /\ Numbers(r, 1, p)
  BY FreshMeanIs
<1>2. Moment(p, r, r) = Fold("+", E, 1, p) /\ Numbers(E, 1, p)
  <2> HIDE DEF r
  <2> QED BY <1>1, MomentIsSum
<1>3. Turned(E, C, m, p)
  <2>1. ASSUME NEW j \in 0 .. p - 1, NEW k \in 1 .. p, B[j] = r[k] PROVE C[j] = E[k]
    <3>1. C[j] = FMul(FSub(B[j], mean), FSub(B[j], mean))
      BY DEF FreshSquares
    <3>2. e[k] = FSub(r[k], mean)
      BY <1>1 DEF Devs
    <3>3. E[k] = FMul(e[k], e[k])
      BY DEF Prods
    <3> QED BY <2>1, <3>1, <3>2, <3>3
  <2> HIDE DEF r, C, E
  <2> QED BY <2>1, TurnedWith DEF r
<1> HIDE DEF E, C, r
<1>4. Total(C, p) = Fold("+", E, 1, p)
  BY <1>2, <1>3, RingTotal
<1> QED BY <1>2, <1>4 DEF C, r

\* So is its derivative.
LEMMA FreshProductsAre ==
  ASSUME NEW p \in Nat \ {0}, NEW m \in Nat, ~(m < p), NEW f, NEW B, DOMAIN B = 0 .. p - 1,
         Turned(Recent(f, m, p), B, m, p), Numbers(f, First(m, p), m), NEW g, NEW D,
         Turned(Recent(g, m, p), D, m, p), Numbers(g, First(m, p), m)
  PROVE  Total(FreshProducts(B, D, p), p) =
           FAdd(Moment(p, Recent(g, m, p), Recent(f, m, p)), Moment(p, Recent(f, m, p), Recent(g, m, p)))
<1> DEFINE r == Recent(f, m, p)
           s == Recent(g, m, p)
           e == Devs(r, p)
           h == Devs(s, p)
           E == Sums(Prods(h, e, p), Prods(e, h, p), p)
           C == FreshProducts(B, D, p)
           mean == FreshMean(B, p)
           meanP == FreshMean(D, p)
<1>1. mean = MeanOf(p, Fold("+", r, 1, p)) /\ Numbers(r, 1, p)
  BY FreshMeanIs
<1>2. meanP = MeanOf(p, Fold("+", s, 1, p)) /\ Numbers(s, 1, p)
  BY FreshMeanIs
<1>3. /\ Moment(p, s, r) = Fold("+", Prods(h, e, p), 1, p)
      /\ Moment(p, r, s) = Fold("+", Prods(e, h, p), 1, p)
      /\ Numbers(e, 1, p) /\ Numbers(h, 1, p)
  <2> HIDE DEF r, s
  <2> QED BY <1>1, <1>2, MomentIsSum
<1>4. Fold("+", E, 1, p) = FAdd(Moment(p, s, r), Moment(p, r, s))
  <2> HIDE DEF e, h
  <2> QED BY <1>3, SumOfProds
<1>5. ASSUME NEW k \in 1 .. p
      PROVE  /\ E[k] = FMul(Two, FMul(FSub(r[k], mean), FSub(s[k], meanP)))
             /\ IsNumber(E[k])
  <2>1. e[k] = FSub(r[k], mean) /\ h[k] = FSub(s[k], meanP)
    BY <1>1, <1>2 DEF Devs
  <2>2. IsNumber(e[k]) /\ IsNumber(h[k])
    BY <1>3 DEF Numbers
  <2>3. E[k] = FAdd(FMul(h[k], e[k]), FMul(e[k], h[k]))
    BY DEF Sums, Prods
  <2> HIDE DEF e, h, E
  <2>4. FMul(h[k], e[k]) = FMul(e[k], h[k]) /\ IsNumber(FMul(e[k], h[k]))
    BY <2>2, Commutes, NumberClosed
  <2>5. E[k] = FMul(Two, FMul(e[k], h[k])) /\ IsNumber(E[k])
    BY <2>3, <2>4, Twice, NumberClosed
  <2> QED BY <2>1, <2>5
<1>6. Numbers(E, 1, p)
  BY <1>5 DEF Numbers
<1>7. Turned(E, C, m, p)
  <2>1. ASSUME NEW j \in 0 .. p - 1, NEW k \in 1 .. p, B[j] = r[k], D[j] = s[k] PROVE C[j] = E[k]
    <3>1. C[j] = FMul(Two, FMul(FSub(B[j], mean), FSub(D[j], meanP)))
      BY DEF FreshProducts
    <3> QED BY <1>5, <2>1, <3>1
  <2> HIDE DEF r, s, C, E
  <2> QED BY <2>1, TurnedWith DEF r, s
<1> HIDE DEF E, C
<1>8. Total(C, p) = Fold("+", E, 1, p)
  BY <1>6, <1>7, RingTotal
<1> QED BY <1>4, <1>8 DEF C

\* A refresh computes Welford's state of the window, and nothing is cut off.
LEMMA WelfordRefreshed ==
  ASSUME NEW p \in Nat \ {0}, NEW m \in Nat, ~(m < p), NEW v, NEW B, DOMAIN B = 0 .. p - 1,
         Turned(Recent(v, m, p), B, m, p), Numbers(v, First(m, p), m), NEW d, NEW D,
         Turned(Recent(d, m, p), D, m, p), Numbers(d, First(m, p), m)
  PROVE  WelfordOf(FreshMean(B, p), FreshMean(D, p), ClampNegative(Total(FreshSquares(B, p), p)),
                   Total(FreshProducts(B, D, p), p), FALSE, v, d, m, p)
<1> DEFINE S == WindowSum(v, m, p)
           T == WindowSum(d, m, p)
           P == WindowSum(Prods(v, v, m), m, p)
           Q == WindowSum(Prods(d, v, m), m, p)
           R == WindowSum(Prods(v, d, m), m, p)
           r == Recent(v, m, p)
           s == Recent(d, m, p)
<1>1. /\ \A k \in 1 .. m : Prods(v, v, m)[k] = FMul(v[k], v[k])
      /\ \A k \in 1 .. m : Prods(d, v, m)[k] = FMul(d[k], v[k])
      /\ \A k \in 1 .. m : Prods(v, d, m)[k] = FMul(v[k], d[k])
  BY DEF Prods
<1>2. Moment(p, r, r) = MomentOf(p, P, S, S)
  BY <1>1, RecentMoment
<1>3. Moment(p, s, r) = MomentOf(p, Q, T, S)
  BY <1>1, RecentMoment
<1>4. Moment(p, r, s) = MomentOf(p, R, S, T)
  BY <1>1, RecentMoment
<1>5. FreshMean(B, p) = MeanOf(p, S) /\ FreshMean(D, p) = MeanOf(p, T)
  BY FreshMeanIs
<1>6. Total(FreshSquares(B, p), p) = Moment(p, r, r)
  BY FreshSquaresAre
<1>7. Total(FreshProducts(B, D, p), p) = FAdd(Moment(p, s, r), Moment(p, r, s))
  BY FreshProductsAre
<1>8. ~FLt(MomentOf(p, P, S, S), Zero)
  BY SecondMoment
<1>9. Size(m, p) = p
  BY DEF Size
<1> HIDE DEF S, T, P, Q, R, r, s
<1>10. ClampNegative(Total(FreshSquares(B, p), p)) = MomentOf(p, P, S, S)
  BY <1>2, <1>6, <1>8 DEF ClampNegative
<1> QED BY <1>3, <1>4, <1>5, <1>7, <1>9, <1>10 DEF WelfordOf, IsWelford, S, T, P, Q, R

\* The fields of the two states of rolling_std and zscore.
StatsFields == {"cap", "head", "count", "slides", "sum", "mean", "m2", "buf"}
StdFields == {"cap", "head", "count", "slides", "cut", "mean", "m2", "buf"}

\* The four running values are doubles, and are Welford's.
MomentsPaired(a, g) == IsPair(a.mean) /\ IsPair(a.m2) /\ IsPair(g.mean) /\ IsPair(g.m2)
MomentsOf(a, g, v, d, m, p) == WelfordOf(a.mean, g.mean, a.m2, g.m2, g.cut, v, d, m, p)

\* The states of rolling_std and zscore and of their derivative, after m ticks.
DevState(a, g, v, d, m, p, nan) ==
  /\ DOMAIN a = StatsFields /\ DOMAIN g = StdFields /\ Held(a, v, m, p) /\ Held(g, d, m, p)
  /\ SumIs(a.sum, v, m, p, nan) /\ g.slides \in 0 .. p - 1 /\ g.cut \in BOOLEAN
  /\ MomentsPaired(a, g) /\ (Trusted(v, m, p, g.slides) => MomentsOf(a, g, v, d, m, p))

\* What neither Grown nor Slid touches.
Kept(b, a) == b.cap = a.cap /\ b.head = a.head /\ b.slides = a.slides /\ b.buf = a.buf

\* s is what Grown makes of a and g, field by field.
GrownIs(s, a, g, x, m) ==
  LET delta == FSub(x.v, a.mean)
      deltaP == FSub(x.d, g.mean)
      mean == FAdd(a.mean, FDiv(delta, Whole(m + 1)))
      meanP == FAdd(g.mean, FDiv(deltaP, Whole(m + 1)))
  IN  /\ DOMAIN s.primal = StatsFields /\ DOMAIN s.grad = StdFields
      /\ Kept(s.primal, a) /\ Kept(s.grad, g)
      /\ s.primal.count = a.count + 1 /\ s.grad.count = g.count + 1
      /\ s.primal.sum = a.sum /\ s.grad.cut = g.cut
      /\ s.primal.mean = mean /\ s.grad.mean = meanP
      /\ s.primal.m2 = FAdd(a.m2, FMul(delta, FSub(x.v, mean)))
      /\ s.grad.m2 = FAdd(g.m2, FAdd(FMul(deltaP, FSub(x.v, mean)),
                                     FMul(delta, FSub(x.d, meanP))))

\* The update while the window fills.
LEMMA GrownFields ==
  ASSUME NEW a, NEW g, DOMAIN a = StatsFields, DOMAIN g = StdFields, NEW x, NEW m, a.count = m
  PROVE  GrownIs(Grown(a, g, x), a, g, x, m)
<1> DEFINE s == Grown(a, g, x)
           delta == FSub(x.v, a.mean)
           deltaP == FSub(x.d, g.mean)
           mean == FAdd(a.mean, FDiv(delta, Whole(m + 1)))
           meanP == FAdd(g.mean, FDiv(deltaP, Whole(m + 1)))
           c == FAdd(a.m2, FMul(delta, FSub(x.v, mean)))
           e == FAdd(g.m2, FAdd(FMul(deltaP, FSub(x.v, mean)), FMul(delta, FSub(x.d, meanP))))
<1>1. /\ s.primal = [a EXCEPT !.count = @ + 1, !.mean = mean, !.m2 = c]
      /\ s.grad = [g EXCEPT !.count = @ + 1, !.mean = meanP, !.m2 = e]
  BY DEF Grown
<1> HIDE DEF s, mean, meanP, c, e
<1>2. /\ DOMAIN s.primal = StatsFields /\ Kept(s.primal, a) /\ s.primal.count = a.count + 1
      /\ s.primal.sum = a.sum /\ s.primal.mean = mean /\ s.primal.m2 = c
  BY <1>1 DEF Kept, StatsFields
<1>3. /\ DOMAIN s.grad = StdFields /\ Kept(s.grad, g) /\ s.grad.count = g.count + 1
      /\ s.grad.cut = g.cut /\ s.grad.mean = meanP /\ s.grad.m2 = e
  BY <1>1 DEF Kept, StdFields
<1> QED BY <1>2, <1>3 DEF GrownIs, s, mean, meanP, c, e

\* s is what Slid makes of a and g, field by field.
SlidIs(s, a, g, x, old, oldP, p) ==
  LET dR == FSub(old, a.mean)
      dRP == FSub(oldP, g.mean)
      meanR == FSub(a.mean, FDiv(dR, Whole(p - 1)))
      meanRP == FSub(g.mean, FDiv(dRP, Whole(p - 1)))
      m2R == FSub(a.m2, FMul(dR, FSub(old, meanR)))
      m2RP == FSub(FSub(g.m2, FMul(dRP, FSub(old, meanR))), FMul(dR, FSub(oldP, meanRP)))
      dA == FSub(x.v, meanR)
      dAP == FSub(x.d, meanRP)
      mean == FAdd(meanR, FDiv(dA, Whole(p)))
      meanP == FAdd(meanRP, FDiv(dAP, Whole(p)))
      m2 == FAdd(m2R, FMul(dA, FSub(x.v, mean)))
      m2P == FAdd(m2RP, FAdd(FMul(dAP, FSub(x.v, mean)), FMul(dA, FSub(x.d, meanP))))
  IN  /\ DOMAIN s.primal = StatsFields /\ DOMAIN s.grad = StdFields
      /\ Kept(s.primal, a) /\ Kept(s.grad, g)
      /\ s.primal.count = a.count /\ s.grad.count = g.count
      /\ s.primal.sum = FSub(a.sum, old) /\ s.grad.cut = (g.cut \/ FLt(m2P, Zero))
      /\ s.primal.mean = mean /\ s.grad.mean = meanP
      /\ s.primal.m2 = ClampNegative(m2) /\ s.grad.m2 = ClampNegative(m2P)

\* The update of a full window.
LEMMA SlidFields ==
  ASSUME NEW a, NEW g, DOMAIN a = StatsFields, DOMAIN g = StdFields, NEW x, NEW p, a.count = p
  PROVE  SlidIs(Slid(a, g, x), a, g, x, a.buf[a.head], g.buf[g.head], p)
<1> DEFINE s == Slid(a, g, x)
           old == a.buf[a.head]
           oldP == g.buf[g.head]
           dR == FSub(old, a.mean)
           dRP == FSub(oldP, g.mean)
           meanR == FSub(a.mean, FDiv(dR, Whole(p - 1)))
           meanRP == FSub(g.mean, FDiv(dRP, Whole(p - 1)))
           m2R == FSub(a.m2, FMul(dR, FSub(old, meanR)))
           m2RP == FSub(FSub(g.m2, FMul(dRP, FSub(old, meanR))), FMul(dR, FSub(oldP, meanRP)))
           dA == FSub(x.v, meanR)
           dAP == FSub(x.d, meanRP)
           mean == FAdd(meanR, FDiv(dA, Whole(p)))
           meanP == FAdd(meanRP, FDiv(dAP, Whole(p)))
           m2 == FAdd(m2R, FMul(dA, FSub(x.v, mean)))
           m2P == FAdd(m2RP, FAdd(FMul(dAP, FSub(x.v, mean)), FMul(dA, FSub(x.d, meanP))))
<1>1. /\ s.primal = [a EXCEPT !.sum = FSub(@, old), !.mean = mean, !.m2 = ClampNegative(m2)]
      /\ s.grad = [g EXCEPT !.mean = meanP, !.m2 = ClampNegative(m2P),
                            !.cut = @ \/ FLt(m2P, Zero)]
  BY DEF Slid
<1> HIDE DEF s, mean, meanP, m2, m2P
<1>2. /\ DOMAIN s.primal = StatsFields /\ Kept(s.primal, a) /\ s.primal.count = a.count
      /\ s.primal.sum = FSub(a.sum, old) /\ s.primal.mean = mean
      /\ s.primal.m2 = ClampNegative(m2)
  BY <1>1 DEF Kept, StatsFields
<1>3. /\ DOMAIN s.grad = StdFields /\ Kept(s.grad, g) /\ s.grad.count = g.count
      /\ s.grad.cut = (g.cut \/ FLt(m2P, Zero)) /\ s.grad.mean = meanP
      /\ s.grad.m2 = ClampNegative(m2P)
  BY <1>1 DEF Kept, StdFields
<1> QED BY <1>2, <1>3 DEF SlidIs, s, mean, meanP, m2, m2P

\* Storing the sample in both rings.
LEMMA StoredFields ==
  ASSUME NEW a, NEW g, DOMAIN a = StatsFields, DOMAIN g = StdFields, NEW x
  PROVE  LET s == Stored(a, g, x)
         IN  /\ DOMAIN s.primal = StatsFields /\ DOMAIN s.grad = StdFields
             /\ s.primal.cap = a.cap /\ s.primal.buf = [a.buf EXCEPT ![a.head] = x.v]
             /\ s.primal.head = (a.head + 1) % a.cap /\ s.primal.count = a.count
             /\ s.primal.sum = FAdd(a.sum, x.v) /\ s.primal.mean = a.mean /\ s.primal.m2 = a.m2
             /\ s.grad.cap = g.cap /\ s.grad.buf = [g.buf EXCEPT ![g.head] = x.d]
             /\ s.grad.head = (g.head + 1) % g.cap /\ s.grad.count = g.count
             /\ s.grad.slides = g.slides /\ s.grad.cut = g.cut /\ s.grad.mean = g.mean
             /\ s.grad.m2 = g.m2
<1> DEFINE s == Stored(a, g, x)
<1>1. /\ s.primal = [a EXCEPT !.buf[a.head] = x.v, !.sum = FAdd(@, x.v), !.head = (@ + 1) % a.cap]
      /\ s.grad = [g EXCEPT !.buf[g.head] = x.d, !.head = (@ + 1) % g.cap]
  BY DEF Stored
<1> HIDE DEF s
<1>2. /\ DOMAIN s.primal = StatsFields
      /\ s.primal.cap = a.cap /\ s.primal.buf = [a.buf EXCEPT ![a.head] = x.v]
      /\ s.primal.head = (a.head + 1) % a.cap /\ s.primal.count = a.count
      /\ s.primal.sum = FAdd(a.sum, x.v) /\ s.primal.mean = a.mean /\ s.primal.m2 = a.m2
  BY <1>1 DEF StatsFields
<1>3. /\ DOMAIN s.grad = StdFields
      /\ s.grad.cap = g.cap /\ s.grad.buf = [g.buf EXCEPT ![g.head] = x.d]
      /\ s.grad.head = (g.head + 1) % g.cap /\ s.grad.count = g.count
      /\ s.grad.slides = g.slides /\ s.grad.cut = g.cut /\ s.grad.mean = g.mean
      /\ s.grad.m2 = g.m2
  BY <1>1 DEF StdFields
<1> QED BY <1>2, <1>3 DEF s

\* s is what SlideCounted makes of a and g: one more slide, or a refresh.
CountedIs(s, a, g, p) ==
  LET due == g.slides + 1 >= g.cap
  IN  /\ DOMAIN s.primal = StatsFields /\ DOMAIN s.grad = StdFields
      /\ s.primal.cap = a.cap /\ s.primal.buf = a.buf /\ s.primal.head = a.head
      /\ s.primal.count = a.count /\ s.primal.sum = a.sum
      /\ s.grad.cap = g.cap /\ s.grad.buf = g.buf /\ s.grad.head = g.head
      /\ s.grad.count = g.count
      /\ ~due => /\ s.primal.mean = a.mean /\ s.primal.m2 = a.m2 /\ s.grad.mean = g.mean
                 /\ s.grad.m2 = g.m2 /\ s.grad.cut = g.cut /\ s.grad.slides = g.slides + 1
      /\ due => /\ s.primal.mean = FreshMean(a.buf, p) /\ s.grad.mean = FreshMean(g.buf, p)
                /\ s.primal.m2 = ClampNegative(Total(FreshSquares(a.buf, p), p))
                /\ s.grad.m2 = Total(FreshProducts(a.buf, g.buf, p), p)
                /\ s.grad.cut = FALSE /\ s.grad.slides = 0

\* The end of a step that slid.
LEMMA CountedFields ==
  ASSUME NEW a, NEW g, DOMAIN a = StatsFields, DOMAIN g = StdFields, NEW p, a.count = p
  PROVE  CountedIs(SlideCounted(a, g), a, g, p)
<1> DEFINE s == SlideCounted(a, g)
           due == g.slides + 1 >= g.cap
           b == [a EXCEPT !.slides = @ + 1]
           h == [g EXCEPT !.slides = @ + 1]
<1>1. /\ DOMAIN b = StatsFields /\ b.cap = a.cap /\ b.buf = a.buf /\ b.head = a.head
      /\ b.count = a.count /\ b.sum = a.sum /\ b.mean = a.mean /\ b.m2 = a.m2
  BY DEF StatsFields
<1>2. /\ DOMAIN h = StdFields /\ h.cap = g.cap /\ h.buf = g.buf /\ h.head = g.head
      /\ h.count = g.count /\ h.mean = g.mean /\ h.m2 = g.m2 /\ h.cut = g.cut
      /\ h.slides = g.slides + 1
  BY DEF StdFields
<1>3. s = IF due THEN RollingStdRefreshSensitivity(b, h) ELSE [primal |-> b, grad |-> h]
  BY <1>2 DEF SlideCounted
<1>4. ASSUME ~due PROVE CountedIs(s, a, g, p)
  <2>1. s.primal = b /\ s.grad = h
    BY <1>3, <1>4
  <2> HIDE DEF s, b, h
  <2> QED BY <1>1, <1>2, <1>4, <2>1 DEF CountedIs
<1>5. ASSUME due PROVE CountedIs(s, a, g, p)
  <2> DEFINE mean == FreshMean(a.buf, p)
             meanP == FreshMean(g.buf, p)
             c == ClampNegative(Total(FreshSquares(a.buf, p), p))
             e == Total(FreshProducts(a.buf, g.buf, p), p)
  <2>1. s = RollingStdRefreshSensitivity(b, h)
    BY <1>3, <1>5
  <2> HIDE DEF s, b, h
  <2>2. /\ s.primal = [b EXCEPT !.mean = mean, !.m2 = c, !.slides = 0]
        /\ s.grad = [h EXCEPT !.mean = meanP, !.m2 = e, !.slides = 0, !.cut = FALSE]
    BY <1>1, <1>2, <2>1 DEF RollingStdRefreshSensitivity, FreshMean, FreshSquares, FreshProducts
  <2> HIDE DEF mean, meanP, c, e
  <2>3. /\ DOMAIN s.primal = StatsFields /\ s.primal.cap = b.cap /\ s.primal.buf = b.buf
        /\ s.primal.head = b.head /\ s.primal.count = b.count /\ s.primal.sum = b.sum
        /\ s.primal.mean = mean /\ s.primal.m2 = c
    BY <1>1, <2>2 DEF StatsFields
  <2>4. /\ DOMAIN s.grad = StdFields /\ s.grad.cap = h.cap /\ s.grad.buf = h.buf
        /\ s.grad.head = h.head /\ s.grad.count = h.count /\ s.grad.mean = meanP
        /\ s.grad.m2 = e /\ s.grad.cut = FALSE /\ s.grad.slides = 0
    BY <1>2, <2>2 DEF StdFields
  <2> QED BY <1>1, <1>2, <1>5, <2>3, <2>4 DEF CountedIs, mean, meanP, c, e
<1> QED BY <1>4, <1>5

\* Whole numbers and clamped doubles are doubles.
LEMMA PairOf ==
  ASSUME NEW c \in Nat, NEW a, IsPair(a)
  PROVE  IsPair(Whole(c)) /\ IsPair(ClampNegative(a)) /\ IsPair(Zero) /\ IsPair(Two)
<1>1. \A k \in Nat : IsPair(Whole(k))
  BY WholeNumber, NumberPair
<1>2. IsPair(Zero) /\ IsPair(Two)
  BY <1>1 DEF Zero, Two
<1> QED BY <1>1, <1>2 DEF ClampNegative

\* Grown yields doubles, and Welford's values from such.
LEMMA FillStep ==
  ASSUME NEW a, NEW g, DOMAIN a = StatsFields, DOMAIN g = StdFields, NEW x, IsPair(x.v),
         IsPair(x.d), MomentsPaired(a, g), NEW p \in Nat \ {0}, NEW m \in Nat, m < p,
         a.count = m
  PROVE  LET s == Grown(a, g, x)
         IN  /\ MomentsPaired(s.primal, s.grad)
             /\ \A v, d, v1, d1 :
                  Goes(v, d, v1, d1, x.v, x.d, m, p) /\ MomentsOf(a, g, v, d, m, p) =>
                    MomentsOf(s.primal, s.grad, v1, d1, m + 1, p)
<1> DEFINE s == Grown(a, g, x)
           delta == FSub(x.v, a.mean)
           deltaP == FSub(x.d, g.mean)
           mean == FAdd(a.mean, FDiv(delta, Whole(m + 1)))
           meanP == FAdd(g.mean, FDiv(deltaP, Whole(m + 1)))
           B0 == FMul(delta, FSub(x.v, mean))
           B1 == FMul(deltaP, FSub(x.v, mean))
           B2 == FMul(delta, FSub(x.d, meanP))
<1>1. /\ s.grad.cut = g.cut /\ s.primal.mean = mean /\ s.grad.mean = meanP
      /\ s.primal.m2 = FAdd(a.m2, B0) /\ s.grad.m2 = FAdd(g.m2, FAdd(B1, B2))
  <2>1. GrownIs(s, a, g, x, m)
    BY GrownFields
  <2> HIDE DEF s
  <2> QED BY <2>1 DEF GrownIs
<1>2. IsPair(a.mean) /\ IsPair(a.m2) /\ IsPair(g.mean) /\ IsPair(g.m2) /\ IsPair(Whole(m + 1))
  BY PairOf DEF MomentsPaired
<1>3. IsPair(delta) /\ IsPair(deltaP)
  BY <1>2, PairClosed
<1>4. IsPair(mean) /\ IsPair(meanP)
  <2> HIDE DEF delta, deltaP
  <2>1. IsPair(FDiv(delta, Whole(m + 1))) /\ IsPair(FDiv(deltaP, Whole(m + 1)))
    BY <1>2, <1>3, PairClosed
  <2> QED BY <1>2, <2>1, PairClosed
<1>5. IsPair(B0) /\ IsPair(B1) /\ IsPair(B2)
  <2> HIDE DEF delta, deltaP, mean, meanP
  <2>1. IsPair(FSub(x.v, mean)) /\ IsPair(FSub(x.d, meanP))
    BY <1>4, PairClosed
  <2> QED BY <1>3, <2>1, PairClosed
<1>6. MomentsPaired(s.primal, s.grad)
  <2> HIDE DEF s, mean, meanP, B0, B1, B2
  <2>1. IsPair(FAdd(B1, B2))
    BY <1>5, PairClosed
  <2>2. IsPair(FAdd(a.m2, B0)) /\ IsPair(FAdd(g.m2, FAdd(B1, B2)))
    BY <1>2, <1>5, <2>1, PairClosed
  <2> QED BY <1>1, <1>4, <2>2 DEF MomentsPaired
<1>7. ASSUME NEW v, NEW d, NEW v1, NEW d1, Goes(v, d, v1, d1, x.v, x.d, m, p),
             MomentsOf(a, g, v, d, m, p)
      PROVE  MomentsOf(s.primal, s.grad, v1, d1, m + 1, p)
  <2>1. WelfordOf(a.mean, g.mean, a.m2, g.m2, g.cut, v, d, m, p)
    BY <1>7 DEF MomentsOf
  <2>2. WelfordOf(mean, meanP, FAdd(a.m2, B0), FAdd(g.m2, FAdd(B1, B2)), g.cut, v1, d1, m + 1, p)
    BY <1>7, <2>1, WelfordFills
  <2> HIDE DEF s, mean, meanP, B0, B1, B2
  <2> QED BY <1>1, <2>2 DEF MomentsOf
<1> QED BY <1>6, <1>7

\* So does Slid.
LEMMA SlideStep ==
  ASSUME NEW a, NEW g, DOMAIN a = StatsFields, DOMAIN g = StdFields, NEW x, IsPair(x.v),
         IsPair(x.d), MomentsPaired(a, g), g.cut \in BOOLEAN, NEW p \in Nat, p >= 2, NEW m \in Nat,
         ~(m < p), a.count = p, IsPair(a.buf[a.head]), IsPair(g.buf[g.head])
  PROVE  LET s == Slid(a, g, x)
         IN  /\ MomentsPaired(s.primal, s.grad)
             /\ \A v, d, v1, d1 :
                  /\ Goes(v, d, v1, d1, x.v, x.d, m, p) /\ MomentsOf(a, g, v, d, m, p)
                  /\ a.buf[a.head] = v[First(m, p)] /\ g.buf[g.head] = d[First(m, p)]
                  => MomentsOf(s.primal, s.grad, v1, d1, m + 1, p)
<1> DEFINE s == Slid(a, g, x)
           old == a.buf[a.head]
           oldP == g.buf[g.head]
           dR == FSub(old, a.mean)
           dRP == FSub(oldP, g.mean)
           meanR == FSub(a.mean, FDiv(dR, Whole(p - 1)))
           meanRP == FSub(g.mean, FDiv(dRP, Whole(p - 1)))
           A0 == FMul(dR, FSub(old, meanR))
           A1 == FMul(dRP, FSub(old, meanR))
           A2 == FMul(dR, FSub(oldP, meanRP))
           m2R == FSub(a.m2, A0)
           m2RP == FSub(FSub(g.m2, A1), A2)
           dA == FSub(x.v, meanR)
           dAP == FSub(x.d, meanRP)
           mean == FAdd(meanR, FDiv(dA, Whole(p)))
           meanP == FAdd(meanRP, FDiv(dAP, Whole(p)))
           B0 == FMul(dA, FSub(x.v, mean))
           B1 == FMul(dAP, FSub(x.v, mean))
           B2 == FMul(dA, FSub(x.d, meanP))
           m2 == FAdd(m2R, B0)
           m2P == FAdd(m2RP, FAdd(B1, B2))
<1>1. /\ s.grad.cut = (g.cut \/ FLt(m2P, Zero)) /\ s.primal.mean = mean /\ s.grad.mean = meanP
      /\ s.primal.m2 = ClampNegative(m2) /\ s.grad.m2 = ClampNegative(m2P)
  <2>1. SlidIs(s, a, g, x, old, oldP, p)
    BY SlidFields
  <2> HIDE DEF s, old, oldP
  <2> QED BY <2>1 DEF SlidIs
<1>2. /\ IsPair(a.mean) /\ IsPair(a.m2) /\ IsPair(g.mean) /\ IsPair(g.m2) /\ IsPair(Whole(p))
      /\ IsPair(Whole(p - 1))
  BY PairOf DEF MomentsPaired
<1>3. IsPair(dR) /\ IsPair(dRP)
  BY <1>2, PairClosed
<1>4. IsPair(meanR) /\ IsPair(meanRP)
  <2> HIDE DEF dR, dRP
  <2>1. IsPair(FDiv(dR, Whole(p - 1))) /\ IsPair(FDiv(dRP, Whole(p - 1)))
    BY <1>2, <1>3, PairClosed
  <2> QED BY <1>2, <2>1, PairClosed
<1>5. IsPair(A0) /\ IsPair(A1) /\ IsPair(A2)
  <2> HIDE DEF dR, dRP, meanR, meanRP
  <2>1. IsPair(FSub(old, meanR)) /\ IsPair(FSub(oldP, meanRP))
    BY <1>4, PairClosed
  <2> QED BY <1>3, <2>1, PairClosed
<1>6. IsPair(m2R) /\ IsPair(m2RP)
  <2> HIDE DEF A0, A1, A2
  <2>1. IsPair(FSub(g.m2, A1))
    BY <1>2, <1>5, PairClosed
  <2> QED BY <1>2, <1>5, <2>1, PairClosed
<1>7. IsPair(dA) /\ IsPair(dAP)
  <2> HIDE DEF meanR, meanRP
  <2> QED BY <1>4, PairClosed
<1>8. IsPair(mean) /\ IsPair(meanP)
  <2> HIDE DEF dA, dAP, meanR, meanRP
  <2>1. IsPair(FDiv(dA, Whole(p))) /\ IsPair(FDiv(dAP, Whole(p)))
    BY <1>2, <1>7, PairClosed
  <2> QED BY <1>4, <2>1, PairClosed
<1>9. IsPair(B0) /\ IsPair(B1) /\ IsPair(B2)
  <2> HIDE DEF dA, dAP, mean, meanP
  <2>1. IsPair(FSub(x.v, mean)) /\ IsPair(FSub(x.d, meanP))
    BY <1>8, PairClosed
  <2> QED BY <1>7, <2>1, PairClosed
<1>10. MomentsPaired(s.primal, s.grad)
  <2> HIDE DEF s, mean, meanP, B0, B1, B2, m2R, m2RP
  <2>1. IsPair(FAdd(B1, B2))
    BY <1>9, PairClosed
  <2>2. IsPair(m2) /\ IsPair(m2P)
    BY <1>6, <1>9, <2>1, PairClosed
  <2> HIDE DEF m2, m2P
  <2> QED BY <1>1, <1>8, <2>2, PairOf DEF MomentsPaired
<1>11. ASSUME NEW v, NEW d, NEW v1, NEW d1, Goes(v, d, v1, d1, x.v, x.d, m, p),
              MomentsOf(a, g, v, d, m, p), old = v[First(m, p)], oldP = d[First(m, p)]
       PROVE  MomentsOf(s.primal, s.grad, v1, d1, m + 1, p)
  <2>1. WelfordOf(a.mean, g.mean, a.m2, g.m2, g.cut, v, d, m, p)
    BY <1>11 DEF MomentsOf
  <2>2. WelfordOf(mean, meanP, m2, m2P, g.cut, v1, d1, m + 1, p)
    <3> HIDE DEF s, old, oldP
    <3> QED BY <1>11, <2>1, WelfordSlides
  <2>3. Numbers(v1, First(m + 1, p), m + 1)
    <3>1. /\ Continues(v1, v, m, x.v) /\ IsNumber(x.v) /\ Numbers(v, First(m, p), m)
          /\ p \in Nat \ {0}
      BY <1>11 DEF Goes
    <3> QED BY <3>1, SeriesSum
  <2> HIDE DEF s, mean, meanP, m2, m2P
  <2>4. WelfordOf(mean, meanP, ClampNegative(m2), ClampNegative(m2P), g.cut \/ FLt(m2P, Zero),
                  v1, d1, m + 1, p)
    <3>1. p \in Nat \ {0} /\ m + 1 \in Nat /\ ~(m + 1 < p)
      OBVIOUS
    <3> QED BY <2>2, <2>3, <3>1, WelfordClamped
  <2> QED BY <1>1, <2>4 DEF MomentsOf
<1> QED BY <1>10, <1>11

\* The sum of doubles is one.
LEMMA TotalPair ==
  ASSUME NEW B, NEW p \in Nat, \A j \in 0 .. p - 1 : IsPair(B[j])
  PROVE  IsPair(Total(B, p))
<1> DEFINE f == [k \in 1 .. p |-> B[k - 1]]
<1>1. \A k \in 1 .. p : IsPair(f[k])
  <2> SUFFICES ASSUME NEW k \in 1 .. p PROVE IsPair(f[k])
    OBVIOUS
  <2>1. k - 1 \in 0 .. p - 1
    OBVIOUS
  <2> QED BY <2>1
<1> HIDE DEF f
<1>2. IsPair(Fold("+", f, 1, p))
  BY <1>1, PairSum
<1> QED BY <1>2 DEF Total, f

\* A full ring holds doubles.
LEMMA RingPairs ==
  ASSUME NEW p \in Nat \ {0}, NEW m \in Nat, ~(m < p), NEW st, NEW f, Held(st, f, m, p),
         \A k \in 1 .. m : IsPair(f[k])
  PROVE  \A j \in 0 .. p - 1 : IsPair(st.buf[j])
<1> SUFFICES ASSUME NEW j \in 0 .. p - 1 PROVE IsPair(st.buf[j])
  OBVIOUS
<1>1. Turned(Recent(f, m, p), st.buf, m, p)
  BY HeldTurned
<1> DEFINE i == j + 1
<1>2. i \in 1 .. p /\ i - 1 = j
  OBVIOUS
<1> HIDE DEF i
<1>3. PICK k \in 1 .. p : st.buf[i - 1] = Recent(f, m, p)[k]
  BY <1>1, <1>2, TurnedPlaces
<1>4. (m - p) + k \in 1 .. m /\ Recent(f, m, p)[k] = f[(m - p) + k]
  BY DEF Recent
<1> QED BY <1>2, <1>3, <1>4

\* A refresh yields doubles.
LEMMA FreshPairs ==
  ASSUME NEW p \in Nat \ {0}, NEW B, NEW D, DOMAIN B = 0 .. p - 1,
         \A j \in 0 .. p - 1 : IsPair(B[j]), \A j \in 0 .. p - 1 : IsPair(D[j])
  PROVE  /\ IsPair(FreshMean(B, p)) /\ IsPair(FreshMean(D, p))
         /\ IsPair(ClampNegative(Total(FreshSquares(B, p), p)))
         /\ IsPair(Total(FreshProducts(B, D, p), p))
<1>1. IsPair(Whole(p)) /\ IsPair(Two)
  <2>1. IsPair(Nan)
    BY DEF Nan, IsPair
  <2> QED BY <2>1, PairOf
<1>2. IsPair(Total(B, p)) /\ IsPair(Total(D, p))
  BY TotalPair
<1>3. IsPair(FreshMean(B, p)) /\ IsPair(FreshMean(D, p))
  BY <1>1, <1>2, PairClosed DEF FreshMean
<1>4. \A j \in 0 .. p - 1 : IsPair(FreshSquares(B, p)[j])
  <2> SUFFICES ASSUME NEW j \in 0 .. p - 1 PROVE IsPair(FreshSquares(B, p)[j])
    OBVIOUS
  <2>1. IsPair(FSub(B[j], FreshMean(B, p)))
    BY <1>3, PairClosed
  <2> QED BY <2>1, PairClosed DEF FreshSquares
<1>5. \A j \in 0 .. p - 1 : IsPair(FreshProducts(B, D, p)[j])
  <2> SUFFICES ASSUME NEW j \in 0 .. p - 1 PROVE IsPair(FreshProducts(B, D, p)[j])
    OBVIOUS
  <2> DEFINE y == FSub(B[j], FreshMean(B, p))
             z == FSub(D[j], FreshMean(D, p))
  <2>1. IsPair(y) /\ IsPair(z)
    BY <1>3, PairClosed
  <2>2. FreshProducts(B, D, p)[j] = FMul(Two, FMul(y, z))
    BY DEF FreshProducts
  <2> HIDE DEF y, z
  <2>3. IsPair(FMul(y, z))
    BY <2>1, PairClosed
  <2> QED BY <1>1, <2>2, <2>3, PairClosed
<1>6. IsPair(Total(FreshSquares(B, p), p)) /\ IsPair(Total(FreshProducts(B, D, p), p))
  BY <1>4, <1>5, TotalPair
<1> QED BY <1>3, <1>6, PairOf

\* A step on states that have the right capacity.
DevStepOf(a, g, x) ==
  LET slid == a.count = a.cap
      moved == IF slid THEN Slid(a, g, x) ELSE Grown(a, g, x)
      new == Stored(moved.primal, moved.grad, x)
  IN  IF slid THEN SlideCounted(new.primal, new.grad) ELSE new

\* The derivatives are numbers where the values are.
Alike(v, d, m) == \A k \in 1 .. m : IsNumber(v[k]) => IsNumber(d[k])

\* A trusted state that a number joins.
LEMMA TrustedGoes ==
  ASSUME NEW p \in Nat \ {0}, NEW m \in Nat, NEW v, NEW d, Alike(v, d, m), NEW s \in Nat,
         Trusted(v, m, p, s), NEW x, Operand(x), IsNumber(x.v), NEW v1, NEW d1,
         Continues(v1, v, m, x.v), Continues(d1, d, m, x.d)
  PROVE  Goes(v, d, v1, d1, x.v, x.d, m, p)
<1>1. Numbers(v, First(m, p), m)
  BY TrustedWindow
<1>2. \A k \in First(m, p) .. m : k \in 1 .. m
  BY DEF First
<1>3. Numbers(d, First(m, p), m)
  BY <1>1, <1>2 DEF Numbers, Alike
<1>4. IsNumber(x.d)
  BY NumberPair DEF Operand
<1> QED BY <1>1, <1>3, <1>4 DEF Goes

\* The states before the first sample.
LEMMA FreshDevState ==
  ASSUME NEW v, NEW d, NEW p \in Nat \ {0}
  PROVE  /\ DevState(FreshStats(p), FreshStdSensitivity(p), v, d, 0, p, FALSE)
         /\ FreshStats(0).cap # p /\ FreshStats(p).cap = p /\ FreshStdSensitivity(0).cap # p
<1> DEFINE a == FreshStats(p)
           g == FreshStdSensitivity(p)
<1>1. /\ DOMAIN a = StatsFields /\ a.cap = p /\ a.head = 0 /\ a.count = 0 /\ a.sum = Zero
      /\ a.mean = Zero /\ a.m2 = Zero /\ DOMAIN a.buf = 0 .. p - 1
  BY DEF FreshStats, StatsFields
<1>2. /\ DOMAIN g = StdFields /\ g.cap = p /\ g.head = 0 /\ g.count = 0 /\ g.slides = 0
      /\ g.cut = FALSE /\ g.mean = Zero /\ g.m2 = Zero /\ DOMAIN g.buf = 0 .. p - 1
  BY DEF FreshStdSensitivity, StdFields
<1>3. FreshStats(0).cap # p /\ FreshStdSensitivity(0).cap # p
  BY DEF FreshStats, FreshStdSensitivity
<1> HIDE DEF a, g
<1>4. Held(a, v, 0, p) /\ Held(g, d, 0, p)
  BY <1>1, <1>2, EmptyHeld
<1>5. SumIs(a.sum, v, 0, p, FALSE)
  BY <1>1, EmptySum DEF SumIs
<1>6. MomentsPaired(a, g)
  <2>1. IsPair(Zero)
    BY Constants, NumberPair
  <2> QED BY <1>1, <1>2, <2>1 DEF MomentsPaired
<1>7. MomentsOf(a, g, v, d, 0, p)
  <2>1. Size(0, p) = 0
    BY DEF Size
  <2>2. FAdd(Zero, Zero) = Zero
    BY Constants, Units DEF Zero
  <2>3. \A S, T, P : MeanOf(0, S) = Zero /\ MomentOf(0, P, S, T) = Zero
    BY DEF MeanOf, MomentOf, Zero
  <2> QED BY <1>1, <1>2, <2>1, <2>2, <2>3 DEF MomentsOf, WelfordOf, IsWelford
<1>8. g.slides \in 0 .. p - 1 /\ g.cut \in BOOLEAN
  <2>1. 0 \in 0 .. p - 1
    OBVIOUS
  <2>2. FALSE \in BOOLEAN
    OBVIOUS
  <2> QED BY <1>2, <2>1, <2>2, Zenon
<1> QED BY <1>1, <1>2, <1>3, <1>4, <1>5, <1>6, <1>7, <1>8 DEF DevState, a, g

\* v1 and d1 are v and d with the values of one more operand x.
Lengthens(v, d, v1, d1, x, m, nan) ==
  /\ Stream(v, m, nan) /\ Stream(d, m, nan) /\ Alike(v, d, m) /\ Operand(x)
  /\ Continues(v1, v, m, x.v) /\ Continues(d1, d, m, x.d)

\* The two rings, the sum and the count of slides after a step.
Turns(r, q, a, g, x, m, p) ==
  /\ DOMAIN r = StatsFields /\ DOMAIN q = StdFields /\ r.cap = p /\ q.cap = p
  /\ r.buf = [a.buf EXCEPT ![a.head] = x.v] /\ r.head = (a.head + 1) % p
  /\ q.buf = [g.buf EXCEPT ![g.head] = x.d] /\ q.head = (g.head + 1) % p
  /\ r.count = IF a.count = p THEN a.count ELSE a.count + 1
  /\ q.count = IF g.count = p THEN g.count ELSE g.count + 1
  /\ r.sum = FAdd(IF m < p THEN a.sum ELSE FSub(a.sum, a.buf[a.head]), x.v)

\* They hold the window again.
LEMMA TurnsHold ==
  ASSUME NEW p \in Nat \ {0}, NEW m \in Nat, NEW a, NEW g, NEW v, NEW d, NEW nan,
         DevState(a, g, v, d, m, p, nan), NEW v1, NEW d1, NEW x, Lengthens(v, d, v1, d1, x, m, nan),
         NEW r, NEW q, Turns(r, q, a, g, x, m, p)
  PROVE  /\ DOMAIN r = StatsFields /\ DOMAIN q = StdFields
         /\ Held(r, v1, m + 1, p) /\ Held(q, d1, m + 1, p)
         /\ SumIs(r.sum, v1, m + 1, p, nan \/ x.v = Nan)
<1>1. Held(a, v, m, p) /\ Held(g, d, m, p) /\ SumIs(a.sum, v, m, p, nan)
  BY DEF DevState
<1>2. /\ Stream(v, m, nan) /\ Continues(v1, v, m, x.v) /\ Continues(d1, d, m, x.d)
      /\ (IsNumber(x.v) \/ x.v = Nan)
  BY DEF Lengthens, Operand
<1>3. Held(r, v1, m + 1, p)
  BY <1>1, <1>2, HeldNext DEF Turns
<1>4. Held(q, d1, m + 1, p)
  BY <1>1, <1>2, HeldNext DEF Turns
<1>5. SumIs(r.sum, v1, m + 1, p, nan \/ x.v = Nan)
  <2> DEFINE old == a.buf[a.head]
  <2>1. OldestIs(old, v, m, p)
    BY <1>1, HeldOldest DEF OldestIs
  <2>2. r.sum = FAdd(IF m < p THEN a.sum ELSE FSub(a.sum, old), x.v)
    BY DEF Turns
  <2> HIDE DEF old
  <2>3. SumIs(FAdd(IF m < p THEN a.sum ELSE FSub(a.sum, old), x.v), v1, m + 1, p, nan \/ x.v = Nan)
    BY <1>1, <1>2, <2>1, SumPush
  <2> QED BY <2>2, <2>3
<1> QED BY <1>3, <1>4, <1>5 DEF Turns

\* What is read from the states before a step.
LEMMA DevReads ==
  ASSUME NEW p \in Nat \ {0}, NEW m \in Nat, NEW a, NEW g, NEW v, NEW d, NEW nan,
         DevState(a, g, v, d, m, p, nan), NEW v1, NEW d1, NEW x, Lengthens(v, d, v1, d1, x, m, nan)
  PROVE  /\ DOMAIN a = StatsFields /\ DOMAIN g = StdFields /\ MomentsPaired(a, g)
         /\ a.cap = p /\ g.cap = p /\ a.count = Size(m, p) /\ g.count = Size(m, p)
         /\ a.count = a.cap <=> ~(m < p)
         /\ g.slides \in 0 .. p - 1 /\ g.cut \in BOOLEAN
         /\ IsPair(x.v) /\ IsPair(x.d)
         /\ ~(m < p) => /\ a.buf[a.head] = v[First(m, p)] /\ g.buf[g.head] = d[First(m, p)]
                        /\ IsPair(a.buf[a.head]) /\ IsPair(g.buf[g.head])
<1>1. Held(a, v, m, p) /\ Held(g, d, m, p)
  BY DEF DevState
<1>2. a.cap = p /\ a.count = Size(m, p) /\ (a.count = a.cap <=> ~(m < p))
  BY <1>1, RingReads
<1>3. g.cap = p /\ g.count = Size(m, p)
  BY <1>1, RingReads
<1>4. /\ Stream(v, m, nan) /\ Stream(d, m, nan) /\ Continues(v1, v, m, x.v)
      /\ Continues(d1, d, m, x.d) /\ (IsNumber(x.v) \/ x.v = Nan) /\ (IsNumber(x.d) \/ x.d = Nan)
  BY DEF Lengthens, Operand
<1>5. (\A k \in 1 .. m : IsPair(v[k])) /\ IsPair(x.v)
  BY <1>4, StreamNext
<1>6. (\A k \in 1 .. m : IsPair(d[k])) /\ IsPair(x.d)
  BY <1>4, StreamNext
<1>7. ASSUME ~(m < p)
      PROVE  /\ a.buf[a.head] = v[First(m, p)] /\ g.buf[g.head] = d[First(m, p)]
             /\ IsPair(a.buf[a.head]) /\ IsPair(g.buf[g.head])
  <2>1. First(m, p) \in 1 .. m
    BY <1>7 DEF First
  <2>2. a.buf[a.head] = v[First(m, p)]
    BY <1>1, <1>7, HeldOldest
  <2>3. g.buf[g.head] = d[First(m, p)]
    BY <1>1, <1>7, HeldOldest
  <2> QED BY <1>5, <1>6, <2>1, <2>2, <2>3
<1> QED BY <1>2, <1>3, <1>5, <1>6, <1>7 DEF DevState

\* A step while the window fills.
LEMMA DevFills ==
  ASSUME NEW p \in Nat \ {0}, NEW m \in Nat, m < p, NEW a, NEW g, NEW v, NEW d, NEW nan,
         DevState(a, g, v, d, m, p, nan), NEW v1, NEW d1, NEW x, Lengthens(v, d, v1, d1, x, m, nan)
  PROVE  LET s == DevStepOf(a, g, x)
         IN  DevState(s.primal, s.grad, v1, d1, m + 1, p, nan \/ x.v = Nan)
<1> DEFINE e == Grown(a, g, x)
           s == Stored(e.primal, e.grad, x)
           r == s.primal
           q == s.grad
<1>1. /\ DOMAIN a = StatsFields /\ DOMAIN g = StdFields /\ MomentsPaired(a, g)
      /\ a.cap = p /\ g.cap = p /\ a.count = Size(m, p) /\ g.count = Size(m, p)
      /\ a.count # a.cap /\ g.slides \in 0 .. p - 1 /\ g.cut \in BOOLEAN
      /\ IsPair(x.v) /\ IsPair(x.d)
  BY DevReads
<1>2. a.count = m /\ g.count = m /\ g.slides \in Nat
  BY <1>1 DEF Size
<1>3. DevStepOf(a, g, x) = s
  BY <1>1 DEF DevStepOf
<1>4. GrownIs(e, a, g, x, m)
  BY <1>1, <1>2, GrownFields
<1> HIDE DEF e
<1>5. /\ DOMAIN e.primal = StatsFields /\ DOMAIN e.grad = StdFields
      /\ Kept(e.primal, a) /\ Kept(e.grad, g) /\ e.primal.count = a.count + 1
      /\ e.grad.count = g.count + 1 /\ e.primal.sum = a.sum /\ e.grad.cut = g.cut
  BY <1>4 DEF GrownIs
<1>6. /\ DOMAIN r = StatsFields /\ DOMAIN q = StdFields
      /\ r.cap = e.primal.cap /\ r.buf = [e.primal.buf EXCEPT ![e.primal.head] = x.v]
      /\ r.head = (e.primal.head + 1) % e.primal.cap /\ r.count = e.primal.count
      /\ r.sum = FAdd(e.primal.sum, x.v) /\ r.mean = e.primal.mean /\ r.m2 = e.primal.m2
      /\ q.cap = e.grad.cap /\ q.buf = [e.grad.buf EXCEPT ![e.grad.head] = x.d]
      /\ q.head = (e.grad.head + 1) % e.grad.cap /\ q.count = e.grad.count
      /\ q.slides = e.grad.slides /\ q.cut = e.grad.cut /\ q.mean = e.grad.mean
      /\ q.m2 = e.grad.m2
  BY <1>5, StoredFields
<1> HIDE DEF s, r, q
<1>7. Turns(r, q, a, g, x, m, p)
  BY <1>1, <1>2, <1>5, <1>6 DEF Turns, Kept
<1>8. q.slides = g.slides /\ q.cut = g.cut
  BY <1>5, <1>6 DEF Kept
<1>9. /\ MomentsPaired(e.primal, e.grad)
      /\ \A u, w, u1, w1 : Goes(u, w, u1, w1, x.v, x.d, m, p) /\ MomentsOf(a, g, u, w, m, p) =>
                             MomentsOf(e.primal, e.grad, u1, w1, m + 1, p)
  BY <1>1, <1>2, FillStep DEF e
<1>10. MomentsPaired(r, q)
  BY <1>6, <1>9 DEF MomentsPaired
<1>11. ASSUME Trusted(v1, m + 1, p, q.slides) PROVE MomentsOf(r, q, v1, d1, m + 1, p)
  <2>1. Continues(v1, v, m, x.v) /\ Continues(d1, d, m, x.d) /\ Alike(v, d, m) /\ Operand(x)
    BY DEF Lengthens
  <2>2. Trusted(v, m, p, g.slides) /\ IsNumber(x.v)
    BY <1>2, <1>8, <1>11, <2>1, TrustedBefore
  <2>3. Goes(v, d, v1, d1, x.v, x.d, m, p)
    BY <1>2, <2>1, <2>2, TrustedGoes
  <2>4. MomentsOf(a, g, v, d, m, p)
    BY <2>2 DEF DevState
  <2>5. MomentsOf(e.primal, e.grad, v1, d1, m + 1, p)
    BY <1>9, <2>3, <2>4
  <2> QED BY <1>6, <2>5 DEF MomentsOf
<1>12. /\ DOMAIN r = StatsFields /\ DOMAIN q = StdFields
       /\ Held(r, v1, m + 1, p) /\ Held(q, d1, m + 1, p)
       /\ SumIs(r.sum, v1, m + 1, p, nan \/ x.v = Nan)
  BY <1>7, TurnsHold
<1>13. q.slides \in 0 .. p - 1 /\ q.cut \in BOOLEAN
  BY <1>1, <1>8
<1>14. DevState(r, q, v1, d1, m + 1, p, nan \/ x.v = Nan)
  BY <1>10, <1>11, <1>12, <1>13 DEF DevState
<1> QED BY <1>3, <1>14 DEF r, q

\* What a refresh makes of two rings that hold the window.
LEMMA RefreshStep ==
  ASSUME NEW p \in Nat \ {0}, NEW m \in Nat, ~(m < p), NEW r, NEW q, NEW v, NEW d, NEW nan,
         Held(r, v, m, p), Held(q, d, m, p), Stream(v, m, nan), Stream(d, m, nan),
         Alike(v, d, m), r.mean = FreshMean(r.buf, p), q.mean = FreshMean(q.buf, p),
         r.m2 = ClampNegative(Total(FreshSquares(r.buf, p), p)),
         q.m2 = Total(FreshProducts(r.buf, q.buf, p), p), q.cut = FALSE
  PROVE  /\ MomentsPaired(r, q)
         /\ Numbers(v, First(m, p), m) => MomentsOf(r, q, v, d, m, p)
<1>1. DOMAIN r.buf = 0 .. p - 1
  BY DEF Held
<1>2. \A f : Stream(f, m, nan) => \A k \in 1 .. m : IsPair(f[k])
  <2> SUFFICES ASSUME NEW f, Stream(f, m, nan), NEW k \in 1 .. m PROVE IsPair(f[k])
    OBVIOUS
  <2>1. IsNumber(f[k]) \/ f[k] = Nan
    BY DEF Stream
  <2>2. IsPair(Nan)
    BY DEF Nan, IsPair
  <2> QED BY <2>1, <2>2, NumberPair
<1>3. \A j \in 0 .. p - 1 : IsPair(r.buf[j])
  BY <1>2, RingPairs
<1>4. \A j \in 0 .. p - 1 : IsPair(q.buf[j])
  BY <1>2, RingPairs
<1>5. MomentsPaired(r, q)
  BY <1>1, <1>3, <1>4, FreshPairs DEF MomentsPaired
<1>6. ASSUME Numbers(v, First(m, p), m) PROVE MomentsOf(r, q, v, d, m, p)
  <2>1. \A k \in First(m, p) .. m : k \in 1 .. m
    BY DEF First
  <2>2. Numbers(d, First(m, p), m)
    BY <1>6, <2>1 DEF Numbers, Alike
  <2>3. Turned(Recent(v, m, p), r.buf, m, p)
    BY HeldTurned
  <2>4. Turned(Recent(d, m, p), q.buf, m, p)
    BY HeldTurned
  <2> DEFINE B == r.buf
             D == q.buf
  <2>5. WelfordOf(FreshMean(B, p), FreshMean(D, p), ClampNegative(Total(FreshSquares(B, p), p)),
                  Total(FreshProducts(B, D, p), p), FALSE, v, d, m, p)
    <3> HIDE DEF B, D
    <3> QED BY <1>1, <1>6, <2>2, <2>3, <2>4, WelfordRefreshed DEF B, D
  <2> QED BY <2>5 DEF MomentsOf
<1> QED BY <1>5, <1>6

\* The series after the step.
LEMMA LengthensNext ==
  ASSUME NEW m \in Nat, NEW v, NEW d, NEW nan, NEW v1, NEW d1, NEW x,
         Lengthens(v, d, v1, d1, x, m, nan)
  PROVE  /\ Stream(v1, m + 1, nan \/ x.v = Nan) /\ Stream(d1, m + 1, nan \/ x.v = Nan)
         /\ Alike(v1, d1, m + 1)
<1>1. /\ Stream(v, m, nan) /\ Stream(d, m, nan) /\ Alike(v, d, m) /\ Operand(x)
      /\ Continues(v1, v, m, x.v) /\ Continues(d1, d, m, x.d)
      /\ (IsNumber(x.v) \/ x.v = Nan) /\ (IsNumber(x.d) \/ x.d = Nan)
  BY DEF Lengthens, Operand
<1>2. (x.v = Nan) = (x.d = Nan) /\ (IsNumber(x.v) => IsNumber(x.d))
  BY <1>1, NumberPair DEF Operand
<1>3. Stream(v1, m + 1, nan \/ x.v = Nan)
  BY <1>1, StreamNext
<1>4. Stream(d1, m + 1, nan \/ x.d = Nan)
  BY <1>1, StreamNext
<1>5. Alike(v1, d1, m + 1)
  <2> SUFFICES ASSUME NEW k \in 1 .. m + 1, IsNumber(v1[k]) PROVE IsNumber(d1[k])
    BY DEF Alike
  <2>1. CASE k = m + 1
    BY <1>1, <1>2, <2>1 DEF Continues
  <2>2. CASE k \in 1 .. m
    BY <1>1, <2>2 DEF Continues, Alike
  <2> QED BY <2>1, <2>2
<1> QED BY <1>2, <1>3, <1>4, <1>5

\* A step of a full window.
LEMMA DevSlides ==
  ASSUME NEW p \in Nat, p >= 2, NEW m \in Nat, ~(m < p), NEW a, NEW g, NEW v, NEW d, NEW nan,
         DevState(a, g, v, d, m, p, nan), NEW v1, NEW d1, NEW x, Lengthens(v, d, v1, d1, x, m, nan)
  PROVE  LET s == DevStepOf(a, g, x)
         IN  DevState(s.primal, s.grad, v1, d1, m + 1, p, nan \/ x.v = Nan)
<1> DEFINE e == Slid(a, g, x)
           t == Stored(e.primal, e.grad, x)
           s == SlideCounted(t.primal, t.grad)
           r == s.primal
           q == s.grad
           due == g.slides + 1 >= p
<1>0. p \in Nat \ {0}
  OBVIOUS
<1>1. /\ DOMAIN a = StatsFields /\ DOMAIN g = StdFields /\ MomentsPaired(a, g)
      /\ a.cap = p /\ g.cap = p /\ a.count = Size(m, p) /\ g.count = Size(m, p)
      /\ a.count = a.cap /\ g.slides \in 0 .. p - 1 /\ g.cut \in BOOLEAN
      /\ IsPair(x.v) /\ IsPair(x.d)
      /\ a.buf[a.head] = v[First(m, p)] /\ g.buf[g.head] = d[First(m, p)]
      /\ IsPair(a.buf[a.head]) /\ IsPair(g.buf[g.head])
  BY <1>0, DevReads
<1>2. a.count = p /\ g.count = p /\ g.slides \in Nat
  BY <1>1 DEF Size
<1>3. DevStepOf(a, g, x) = s
  BY <1>1 DEF DevStepOf
<1> DEFINE old == a.buf[a.head]
           oldP == g.buf[g.head]
<1>4. SlidIs(e, a, g, x, old, oldP, p)
  BY <1>1, <1>2, SlidFields
<1> HIDE DEF e, old, oldP
<1>5. /\ DOMAIN e.primal = StatsFields /\ DOMAIN e.grad = StdFields
      /\ Kept(e.primal, a) /\ Kept(e.grad, g) /\ e.primal.count = a.count
      /\ e.grad.count = g.count /\ e.primal.sum = FSub(a.sum, old) /\ e.grad.cut \in BOOLEAN
  BY <1>1, <1>4 DEF SlidIs
<1>6. /\ DOMAIN t.primal = StatsFields /\ DOMAIN t.grad = StdFields
      /\ t.primal.cap = e.primal.cap
      /\ t.primal.buf = [e.primal.buf EXCEPT ![e.primal.head] = x.v]
      /\ t.primal.head = (e.primal.head + 1) % e.primal.cap /\ t.primal.count = e.primal.count
      /\ t.primal.sum = FAdd(e.primal.sum, x.v) /\ t.primal.mean = e.primal.mean
      /\ t.primal.m2 = e.primal.m2
      /\ t.grad.cap = e.grad.cap /\ t.grad.buf = [e.grad.buf EXCEPT ![e.grad.head] = x.d]
      /\ t.grad.head = (e.grad.head + 1) % e.grad.cap /\ t.grad.count = e.grad.count
      /\ t.grad.slides = e.grad.slides /\ t.grad.cut = e.grad.cut /\ t.grad.mean = e.grad.mean
      /\ t.grad.m2 = e.grad.m2
  BY <1>5, StoredFields
<1> HIDE DEF t
<1>7. t.primal.count = p /\ t.grad.slides = g.slides /\ t.grad.cap = p
  BY <1>1, <1>2, <1>5, <1>6 DEF Kept
<1>8. /\ DOMAIN r = StatsFields /\ DOMAIN q = StdFields
      /\ r.cap = t.primal.cap /\ r.buf = t.primal.buf /\ r.head = t.primal.head
      /\ r.count = t.primal.count /\ r.sum = t.primal.sum
      /\ q.cap = t.grad.cap /\ q.buf = t.grad.buf /\ q.head = t.grad.head
      /\ q.count = t.grad.count
      /\ ~due => /\ r.mean = t.primal.mean /\ r.m2 = t.primal.m2 /\ q.mean = t.grad.mean
                 /\ q.m2 = t.grad.m2 /\ q.cut = t.grad.cut /\ q.slides = g.slides + 1
      /\ due => /\ r.mean = FreshMean(r.buf, p) /\ q.mean = FreshMean(q.buf, p)
                /\ r.m2 = ClampNegative(Total(FreshSquares(r.buf, p), p))
                /\ q.m2 = Total(FreshProducts(r.buf, q.buf, p), p)
                /\ q.cut = FALSE /\ q.slides = 0
  <2>1. CountedIs(s, t.primal, t.grad, p)
    BY <1>6, <1>7, CountedFields
  <2> HIDE DEF s
  <2> QED BY <1>7, <2>1 DEF CountedIs
<1> HIDE DEF s, r, q
<1>9. Turns(r, q, a, g, x, m, p)
  BY <1>1, <1>2, <1>5, <1>6, <1>8 DEF Turns, Kept, old
<1>10. /\ DOMAIN r = StatsFields /\ DOMAIN q = StdFields
       /\ Held(r, v1, m + 1, p) /\ Held(q, d1, m + 1, p)
       /\ SumIs(r.sum, v1, m + 1, p, nan \/ x.v = Nan)
  BY <1>0, <1>9, TurnsHold
<1>11. ASSUME ~due PROVE DevState(r, q, v1, d1, m + 1, p, nan \/ x.v = Nan)
  <2>1. /\ MomentsPaired(e.primal, e.grad)
        /\ \A u, w, u1, w1 :
             /\ Goes(u, w, u1, w1, x.v, x.d, m, p) /\ MomentsOf(a, g, u, w, m, p)
             /\ a.buf[a.head] = u[First(m, p)] /\ g.buf[g.head] = w[First(m, p)]
             => MomentsOf(e.primal, e.grad, u1, w1, m + 1, p)
    BY <1>1, <1>2, SlideStep DEF e
  <2>2. MomentsPaired(r, q)
    BY <1>6, <1>8, <1>11, <2>1 DEF MomentsPaired
  <2>3. q.slides = g.slides + 1 /\ q.slides \in Nat
    BY <1>2, <1>8, <1>11
  <2>4. ASSUME Trusted(v1, m + 1, p, q.slides) PROVE MomentsOf(r, q, v1, d1, m + 1, p)
    <3>1. Continues(v1, v, m, x.v) /\ Continues(d1, d, m, x.d) /\ Alike(v, d, m) /\ Operand(x)
      BY DEF Lengthens
    <3>2. Trusted(v, m, p, g.slides) /\ IsNumber(x.v)
      BY <1>0, <1>2, <2>3, <2>4, <3>1, TrustedBefore
    <3>3. Goes(v, d, v1, d1, x.v, x.d, m, p)
      BY <1>0, <1>2, <3>1, <3>2, TrustedGoes
    <3>4. MomentsOf(a, g, v, d, m, p)
      BY <3>2 DEF DevState
    <3>5. MomentsOf(e.primal, e.grad, v1, d1, m + 1, p)
      BY <1>1, <2>1, <3>3, <3>4
    <3> QED BY <1>6, <1>8, <1>11, <3>5 DEF MomentsOf
  <2>5. q.slides \in 0 .. p - 1
    BY <1>1, <1>11, <2>3
  <2>6. q.cut \in BOOLEAN
    BY <1>5, <1>6, <1>8, <1>11
  <2> QED BY <1>10, <2>2, <2>4, <2>5, <2>6 DEF DevState
<1>12. ASSUME due PROVE DevState(r, q, v1, d1, m + 1, p, nan \/ x.v = Nan)
  <2>1. m + 1 \in Nat /\ ~(m + 1 < p) /\ 0 \in 0 .. p - 1
    OBVIOUS
  <2>2. /\ Stream(v1, m + 1, nan \/ x.v = Nan) /\ Stream(d1, m + 1, nan \/ x.v = Nan)
        /\ Alike(v1, d1, m + 1)
    BY LengthensNext
  <2>3. /\ r.mean = FreshMean(r.buf, p) /\ q.mean = FreshMean(q.buf, p)
        /\ r.m2 = ClampNegative(Total(FreshSquares(r.buf, p), p))
        /\ q.m2 = Total(FreshProducts(r.buf, q.buf, p), p) /\ q.cut = FALSE /\ q.slides = 0
    BY <1>8, <1>12
  <2>4. /\ MomentsPaired(r, q)
        /\ Numbers(v1, First(m + 1, p), m + 1) => MomentsOf(r, q, v1, d1, m + 1, p)
    BY <1>0, <1>10, <2>1, <2>2, <2>3, RefreshStep
  <2>5. ASSUME Trusted(v1, m + 1, p, q.slides) PROVE MomentsOf(r, q, v1, d1, m + 1, p)
    <3>1. q.slides \in Nat
      BY <2>3
    <3>2. Numbers(v1, First(m + 1, p), m + 1)
      BY <1>0, <2>1, <2>5, <3>1, TrustedWindow
    <3> QED BY <2>4, <3>2
  <2>6. q.slides \in 0 .. p - 1
    BY <2>1, <2>3
  <2>7. q.cut \in BOOLEAN
    BY <2>3
  <2> QED BY <1>10, <2>4, <2>5, <2>6, <2>7 DEF DevState
<1>13. DevState(r, q, v1, d1, m + 1, p, nan \/ x.v = Nan)
  BY <1>11, <1>12
<1> QED BY <1>3, <1>13 DEF r, q

\* The states of rolling_std and zscore after n ticks, and what was returned.
DevSens ==
  LET p == node.period
      nan == Seen(hist, Nan)
  IN  /\ DevState(primal, grad, XV(hist), XD(hist), n, p, nan)
      /\ out = IF node.op = "rolling_std" THEN StdGradient(primal, grad)
                                          ELSE ZscoreGradient(primal, grad, Latest.x)

\* Both states have the right capacity when a tick uses them.
LEMMA DevsFit ==
  ASSUME node.op \in Deviations, node.period \in Nat \ {0}, n \in Nat, Started(DevSens),
         n = 0 => ~Seen(hist, Nan)
  PROVE  LET p == node.period
             nan == Seen(hist, Nan)
             a == IF primal.cap # p THEN FreshStats(p) ELSE primal
             g == IF grad.cap # p THEN FreshStdSensitivity(p) ELSE grad
         IN  DevState(a, g, XV(hist), XD(hist), n, p, nan)
<1> DEFINE p == node.period
           nan == Seen(hist, Nan)
           a == IF primal.cap # p THEN FreshStats(p) ELSE primal
           g == IF grad.cap # p THEN FreshStdSensitivity(p) ELSE grad
<1>0. nan \in BOOLEAN
  BY DEF Seen
<1>1. CASE n = 0
  <2>1. primal = PrimalInit(node, mode) /\ grad = SensitivityInit(node)
    BY <1>1 DEF Started
  <2>2. primal = IF mode = "interp" THEN FreshStats(0) ELSE FreshStats(p)
    <3>1. PrimalInit(node, mode) = IF mode = "interp" THEN FreshStats(0) ELSE FreshStats(p)
      BY DEF PrimalInit, Deviations, Pairs, Extrema, Crosses
    <3> QED BY <2>1, <3>1
  <2>3. grad = FreshStdSensitivity(0)
    <3>1. SensitivityInit(node) = FreshStdSensitivity(0)
      BY DEF SensitivityInit, Deviations, Pairs, Extrema, Crosses
    <3> QED BY <2>1, <3>1
  <2>4. /\ \A v, d : DevState(FreshStats(p), FreshStdSensitivity(p), v, d, 0, p, FALSE)
        /\ FreshStats(0).cap # p /\ FreshStats(p).cap = p /\ FreshStdSensitivity(0).cap # p
    BY FreshDevState
  <2>5. a = FreshStats(p) /\ g = FreshStdSensitivity(p) /\ nan = FALSE
    BY <1>0, <1>1, <2>2, <2>3, <2>4
  <2> QED BY <1>1, <2>4, <2>5
<1>2. CASE n # 0
  <2>1. DevState(primal, grad, XV(hist), XD(hist), n, p, nan)
    BY <1>2 DEF Started, DevSens
  <2>2. primal.cap = p /\ grad.cap = p
    BY <2>1 DEF DevState, Held
  <2> QED BY <2>1, <2>2
<1> QED BY <1>1, <1>2

\* A tick of rolling_std or zscore.
LEMMA DevSensStep ==
  ASSUME node \in Nodes, node.op \in Deviations, hist \in Seq(Inputs[node.op]),
         Started(DevSens), NEW i \in Inputs[node.op], TickDeviation(i)
  PROVE  DevSens'
<1> DEFINE I == Inputs[node.op]
           p == node.period
           h == Append(hist, i)
           nan == Seen(hist, Nan)
           a == IF primal.cap # p THEN FreshStats(p) ELSE primal
           g == IF grad.cap # p THEN FreshStdSensitivity(p) ELSE grad
           x == i.x
           s == DevStepOf(a, g, x)
<1>1. node.op \in Windows \ Extrema
  BY DEF Windows, Extrema, Deviations
<1>2. p \in Nat \ {0} /\ p \in Nat /\ p >= 2 /\ \A j \in I : Operand(j.x)
  BY <1>1, WindowOperands
<1>3. /\ n \in Nat /\ h \in Seq(I) /\ Len(h) = n + 1
      /\ Continues(XV(h), XV(hist), n, x.v) /\ Continues(XD(h), XD(hist), n, x.d)
      /\ Stream(XV(hist), n, nan) /\ Stream(XD(hist), n, nan)
      /\ Seen(h, Nan) <=> nan \/ x.v = Nan
      /\ n = 0 => ~nan
  BY <1>2, HistoryNext DEF n
<1>4. Alike(XV(hist), XD(hist), n)
  <2> SUFFICES ASSUME NEW k \in 1 .. n, IsNumber(XV(hist)[k]) PROVE IsNumber(XD(hist)[k])
    BY DEF Alike
  <2>1. XV(hist)[k] = hist[k].x.v /\ XD(hist)[k] = hist[k].x.d /\ hist[k] \in I
    BY DEF XV, XD, n
  <2>2. Operand(hist[k].x)
    BY <1>2, <2>1
  <2> QED BY <2>1, <2>2, NumberPair DEF Operand
<1>5. DevState(a, g, XV(hist), XD(hist), n, p, nan)
  BY <1>2, <1>3, DevsFit
<1>6. Lengthens(XV(hist), XD(hist), XV(h), XD(h), x, n, nan)
  BY <1>2, <1>3, <1>4 DEF Lengthens
<1>7. RollingStdOrZscoreGradStep(p, x) = s
  BY DEF RollingStdOrZscoreGradStep, DevStepOf
<1>8. /\ hist' = h /\ node' = node /\ primal' = s.primal /\ grad' = s.grad
      /\ out' = IF node.op = "rolling_std" THEN StdGradient(primal', grad')
                                           ELSE ZscoreGradient(primal', grad', x)
  BY <1>7 DEF TickDeviation, Fed, Stepped
<1>9. n' = n + 1 /\ Latest'.x = x
  <2>1. h[n + 1] = i
    BY Appended DEF n
  <2> QED BY <1>3, <1>8, <2>1 DEF n, Latest
<1>10. (nan \/ x.v = Nan) = Seen(h, Nan)
  <2>1. Seen(h, Nan) \in BOOLEAN /\ nan \in BOOLEAN
    BY DEF Seen
  <2> QED BY <1>3, <2>1
<1> HIDE DEF p, h, nan, a, g, x, s
<1>11. DevState(s.primal, s.grad, XV(h), XD(h), n + 1, p, nan \/ x.v = Nan)
  <2>1. CASE n < p
    BY <1>2, <1>3, <1>5, <1>6, <2>1, DevFills DEF s
  <2>2. CASE ~(n < p)
    BY <1>2, <1>3, <1>5, <1>6, <2>2, DevSlides DEF s
  <2> QED BY <2>1, <2>2
<1> QED BY <1>8, <1>9, <1>10, <1>11 DEF DevSens, p

\* A positive number, or zero, divided by a count.
LEMMA OverCount ==
  ASSUME NEW c \in Nat \ {0}, NEW a, IsPositive(a) \/ a = Zero
  PROVE  /\ IsPositive(a) => IsPositive(FDiv(a, Whole(c)))
         /\ a = Zero => FDiv(a, Whole(c)) = Zero
<1>1. Is(Whole(c), c, 1)
  BY WholeIs
<1>2. ASSUME IsPositive(a) PROVE IsPositive(FDiv(a, Whole(c)))
  <2>1. PICK k, d : k \in Nat \ {0} /\ Is(a, k, d)
    BY <1>2 DEF IsPositive
  <2>2. Is(FDiv(a, Whole(c)), k * 1, d * c)
    BY <1>1, <2>1, Ratio
  <2>3. k * 1 \in Nat \ {0}
    BY <2>1
  <2> QED BY <2>2, <2>3 DEF IsPositive
<1>3. ASSUME a = Zero PROVE FDiv(a, Whole(c)) = Zero
  <2>1. Is(a, 0, 1)
    BY <1>3, WholeIs DEF Zero
  <2>2. Is(FDiv(a, Whole(c)), 0 * 1, 1 * c)
    BY <1>1, <2>1, Ratio
  <2>3. (0 * 1) * 1 = 0 * (1 * c)
    OBVIOUS
  <2>4. FDiv(a, Whole(c)) = a
    BY <2>1, <2>2, <2>3, Same
  <2> QED BY <1>3, <2>4
<1> QED BY <1>2, <1>3

\* The states of a trusted full window: mean and moment with their
\* derivatives, that of the moment unless it was cut off.
LEMMA DevMoments ==
  ASSUME node \in Nodes, node.op \in Deviations, hist \in Seq(Inputs[node.op]), DevSens,
         ~(n < node.period), Trusted(XV(hist), n, node.period, grad.slides)
  PROVE  LET c2 == CoMoment(WindowX, WindowX)
         IN  /\ IsDual(c2) /\ (IsPositive(c2.v) \/ (c2.v = Zero /\ c2.d = Zero))
             /\ primal.m2 = c2.v /\ (~grad.cut => grad.m2 = c2.d)
             /\ Mean(WindowX) = Dual(primal.mean, grad.mean)
             /\ primal.mean = MeanOf(node.period, WindowSum(XV(hist), n, node.period))
<1> DEFINE I == Inputs[node.op]
           p == node.period
           w == WindowX
           v == XV(hist)
           d == XD(hist)
           S == WindowSum(v, n, p)
           T == WindowSum(d, n, p)
           P == WindowSum(Prods(v, v, n), n, p)
           Q == WindowSum(Prods(d, v, n), n, p)
           R == WindowSum(Prods(v, d, n), n, p)
           r == Recent(v, n, p)
           s == Recent(d, n, p)
<1>1. node.op \in Windows \ Extrema
  BY DEF Windows, Extrema, Deviations
<1>2. p \in Nat \ {0} /\ \A j \in I : Operand(j.x) /\ j.x = Dual(j.x.v, j.x.d)
  BY <1>1, WindowOperands
<1>3. /\ n \in Nat /\ w = [k \in 1 .. p |-> w[k]]
      /\ \A k \in 1 .. p : w[k] = hist[(n - p) + k].x /\ (n - p) + k \in 1 .. n
      /\ Values(w, p) = r /\ Slopes(w, p) = s
  BY <1>2, WindowParts
<1>4. DevState(primal, grad, v, d, n, p, Seen(hist, Nan))
  BY DEF DevSens
<1>5. grad.slides \in Nat /\ MomentsOf(primal, grad, v, d, n, p)
  BY <1>2, <1>4 DEF DevState
<1>6. Numbers(v, First(n, p), n)
  <2> HIDE DEF v
  <2> QED BY <1>2, <1>3, <1>5, TrustedWindow DEF v
<1>7. Duals(w, p)
  <2> SUFFICES ASSUME NEW k \in 1 .. p PROVE IsDual(w[k])
    BY DEF Duals
  <2> DEFINE j == (n - p) + k
  <2>0. j \in 1 .. n /\ w[k] = hist[j].x
    BY <1>3
  <2>1. j \in 1 .. n /\ w[k] = hist[j].x /\ j \in First(n, p) .. n
    <3>1. First(n, p) = (n - p) + 1 /\ n - p \in Nat /\ k >= 1 /\ n \in Nat
      BY <1>2, <1>3 DEF First
    <3> HIDE DEF w
    <3> QED BY <2>0, <3>1
  <2>2. v[j] = hist[j].x.v /\ hist[j] \in I
    BY <2>1 DEF XV, n
  <2> HIDE DEF j, v, w
  <2>3. IsNumber(hist[j].x.v)
    BY <1>6, <2>1, <2>2 DEF Numbers
  <2>4. Operand(hist[j].x) /\ hist[j].x = Dual(hist[j].x.v, hist[j].x.d)
    BY <1>2, <2>2
  <2> QED BY <2>1, <2>3, <2>4, NumberPair DEF Operand, IsDual
<1>8. Size(n, p) = p
  BY <1>2, <1>3 DEF Size
<1>9. /\ primal.mean = MeanOf(p, S) /\ grad.mean = MeanOf(p, T) /\ primal.m2 = MomentOf(p, P, S, S)
      /\ ~grad.cut => grad.m2 = FAdd(MomentOf(p, Q, T, S), MomentOf(p, R, S, T))
  BY <1>5, <1>8 DEF MomentsOf, WelfordOf, IsWelford
<1> HIDE DEF v, d, p, w
<1>10. /\ \A k \in 1 .. n : Prods(v, v, n)[k] = FMul(v[k], v[k])
       /\ \A k \in 1 .. n : Prods(d, v, n)[k] = FMul(d[k], v[k])
       /\ \A k \in 1 .. n : Prods(v, d, n)[k] = FMul(v[k], d[k])
  BY DEF Prods
<1>11. ~(n < p)
  BY DEF p
<1>12. Moment(p, r, r) = MomentOf(p, P, S, S)
  BY <1>2, <1>3, <1>10, <1>11, RecentMoment
<1>13. Moment(p, s, r) = MomentOf(p, Q, T, S)
  BY <1>2, <1>3, <1>10, <1>11, RecentMoment
<1>14. Moment(p, r, s) = MomentOf(p, R, S, T)
  BY <1>2, <1>3, <1>10, <1>11, RecentMoment
<1>15. CoMoment(w, w) = Dual(Moment(p, r, r), FAdd(Moment(p, s, r), Moment(p, r, s)))
  BY <1>2, <1>3, <1>7, CoMomentIs
<1>16. /\ IsDual(CoMoment(w, w))
       /\ IsPositive(CoMoment(w, w).v) \/ (CoMoment(w, w).v = Zero /\ CoMoment(w, w).d = Zero)
  BY <1>2, <1>3, <1>7, MomentsAre
<1>17. Fold("+", r, 1, p) = S /\ Fold("+", s, 1, p) = T
  BY <1>2, <1>3, <1>11, RecentSum
<1>18. Mean(w) = Dual(MeanOf(p, S), MeanOf(p, T))
  <2>1. Len(w) = p /\ DOMAIN w = 1 .. p
    BY <1>2, <1>3, LengthOf
  <2>2. IsNumber(S) /\ IsNumber(T)
    <3>1. Numbers(Values(w, p), 1, p) /\ Numbers(Slopes(w, p), 1, p)
      BY <1>7 DEF Numbers, Values, Slopes, Duals, IsDual
    <3> HIDE DEF r, s
    <3>2. IsNumber(Fold("+", r, 1, p)) /\ IsNumber(Fold("+", s, 1, p))
      BY <1>2, <1>3, <3>1, FoldNumber
    <3> QED BY <1>17, <3>2
  <2> HIDE DEF S, T, r, s
  <2> QED BY <1>2, <1>3, <1>17, <2>1, <2>2, MeanIsDual
<1>19. \A x, y : Dual(x, y).v = x /\ Dual(x, y).d = y
  BY DEF Dual
<1> HIDE DEF S, T, P, Q, R, r, s
<1>20. primal.m2 = CoMoment(w, w).v /\ (~grad.cut => grad.m2 = CoMoment(w, w).d)
  BY <1>9, <1>12, <1>13, <1>14, <1>15, <1>19
<1> QED BY <1>9, <1>16, <1>18, <1>20 DEF w, p, S, v

\* The last q samples, when NaN is not among them.
LEMMA LastOnes ==
  ASSUME NEW I, NEW h \in Seq(I), NEW q \in Nat \ {0}, q <= Len(h),
         ~Seen(SubSeq(h, Len(h) - q + 1, Len(h)), Nan)
  PROVE  \A k \in (Len(h) - q) + 1 .. Len(h) : h[k].x.v # Nan
<1> DEFINE m == Len(h)
           W == SubSeq(h, m - q + 1, m)
<1>1. m \in Nat
  OBVIOUS
<1>2. \A j \in 1 .. q : W[j] = h[(m - q) + j]
  BY WindowElements
<1>3. DOMAIN W = 1 .. q
  <2>1. m - q + 1 \in 1 .. m + 1 /\ m - (m - q + 1) + 1 = q
    BY <1>1
  <2> QED BY <1>1, <2>1
<1> SUFFICES ASSUME NEW k \in (m - q) + 1 .. m PROVE h[k].x.v # Nan
  OBVIOUS
<1> DEFINE j == k - (m - q)
<1>4. j \in 1 .. q /\ (m - q) + j = k
  BY <1>1
<1>5. W[j].x.v # Nan
  <2> HIDE DEF j
  <2> QED BY <1>3, <1>4 DEF Seen
<1> HIDE DEF W, j
<1> QED BY <1>2, <1>4, <1>5

\* A history that never had a NaN, or not for two windows, is trusted.
LEMMA CleanTrusted ==
  ASSUME NEW I, \A i \in I : Operand(i.x), hist \in Seq(I), node.period \in Nat \ {0},
         ~Seen(hist, Nan) \/ LongClean, NEW s \in 0 .. node.period - 1
  PROVE  Trusted(XV(hist), n, node.period, s)
<1> DEFINE p == node.period
<1>0. n \in Nat /\ \A k \in 1 .. n : hist[k] \in I /\ XV(hist)[k] = hist[k].x.v
  BY DEF n, XV
<1>1. \A k \in 1 .. n : hist[k].x.v # Nan => IsNumber(XV(hist)[k])
  BY <1>0 DEF Operand
<1>2. CASE ~Seen(hist, Nan)
  <2>1. \A k \in 1 .. n : hist[k].x.v # Nan
    BY <1>2 DEF Seen, n
  <2>2. Numbers(XV(hist), 1, n)
    BY <1>1, <2>1 DEF Numbers
  <2> QED BY <2>2 DEF Trusted
<1>3. CASE LongClean
  <2> DEFINE lo == n - (p + s) + 1
             q == 2 * p
  <2>1. q <= n /\ q \in Nat \ {0} /\ ~Seen(SubSeq(hist, n - q + 1, n), Nan)
    BY <1>0, <1>3 DEF LongClean
  <2>2. p + s <= n /\ lo \in Nat \ {0} /\ lo >= (n - q) + 1
    <3>1. n \in Nat /\ p \in Nat /\ p >= 1 /\ s \in Nat /\ s <= p - 1 /\ 2 * p <= n
      BY <1>0, <2>1
    <3> HIDE DEF p
    <3> QED BY <3>1
  <2> HIDE DEF q
  <2>3. \A k \in (n - q) + 1 .. n : hist[k].x.v # Nan
    BY <2>1, LastOnes DEF n
  <2>4. \A k \in lo .. n : k \in (n - q) + 1 .. n /\ k \in 1 .. n
    BY <1>0, <2>1, <2>2
  <2>5. Numbers(XV(hist), lo, n)
    BY <1>1, <2>3, <2>4 DEF Numbers
  <2> QED BY <2>2, <2>5 DEF Trusted
<1> QED BY <1>2, <1>3

\* What rolling_std returns, with its derivative.
LEMMA StdIsRef ==
  ASSUME node \in Nodes, node.op = "rolling_std", hist \in Seq(Inputs[node.op]), n > 0, DevSens
  PROVE  StdSensitivity
<1> SUFFICES ASSUME ~Seen(hist, Nan) \/ LongClean
             PROVE  out.v = StdRef.v /\ (~grad.cut => out.d = StdRef.d)
  BY DEF StdSensitivity
<1> DEFINE I == Inputs[node.op]
           p == node.period
           c2 == CoMoment(WindowX, WindowX)
           W == Whole(p - 1)
<1>1. node.op \in Deviations /\ node.op \in Windows \ Extrema
  BY DEF Windows, Extrema, Deviations
<1>2. p \in Nat \ {0} /\ p \in Nat /\ p >= 2 /\ \A j \in I : Operand(j.x)
  BY <1>1, WindowOperands
<1>3. n \in Nat /\ hist[n] \in I
  BY DEF n
<1>4. DevState(primal, grad, XV(hist), XD(hist), n, p, Seen(hist, Nan))
  BY DEF DevSens
<1>5. out = StdGradient(primal, grad)
  BY DEF DevSens
<1>6. (IsFull(primal) <=> ~(n < p)) /\ primal.count = Size(n, p)
  <2>1. Held(primal, XV(hist), n, p)
    BY <1>4 DEF DevState
  <2> QED BY <1>2, <1>3, <2>1, RingReads
<1>7. Full <=> ~(n < p)
  BY <1>2, <1>3 DEF Full
<1>8. \A x, y : Dual(x, y).v = x /\ Dual(x, y).d = y
  BY DEF Dual
<1>9. CASE n < p
  BY <1>5, <1>6, <1>7, <1>9 DEF StdGradient, StdRef
<1>10. CASE ~(n < p)
  <2>1. Trusted(XV(hist), n, p, grad.slides)
    <3>1. grad.slides \in 0 .. p - 1
      BY <1>4 DEF DevState
    <3> QED BY <1>2, <3>1, CleanTrusted
  <2>2. /\ IsDual(c2) /\ (IsPositive(c2.v) \/ (c2.v = Zero /\ c2.d = Zero))
        /\ primal.m2 = c2.v /\ (~grad.cut => grad.m2 = c2.d)
    BY <1>1, <1>10, <2>1, DevMoments
  <2>3. primal.count = p
    BY <1>6, <1>10 DEF Size
  <2> HIDE DEF p, c2
  <2>4. p - 1 \in Nat \ {0}
    BY <1>2
  <2>5. DDiv(c2, Dual(W, Zero)) = Dual(FDiv(c2.v, W), FDiv(c2.d, W))
    <3>1. c2 = Dual(c2.v, c2.d) /\ IsNumber(c2.v) /\ IsNumber(c2.d)
      BY <2>2 DEF IsDual
    <3> DEFINE S == c2.v
               T == c2.d
               c == p - 1
    <3> HIDE DEF S, T, c
    <3>2. DDiv(Dual(S, T), Dual(Whole(c), Zero)) = Dual(FDiv(S, Whole(c)), FDiv(T, Whole(c)))
      BY <2>4, <3>1, DualOverConstant DEF S, T, c
    <3> QED BY <3>1, <3>2 DEF S, T, c
  <2> DEFINE var == FDiv(c2.v, W)
             varP == FDiv(grad.m2, W)
             varD == FDiv(c2.d, W)
  <2>6. StdRef = Dual(var, IF var = Zero THEN Nan ELSE FDiv(varD, Two))
    <3>1. StdRef = LET u == DDiv(c2, Dual(Whole(p - 1), Zero))
                   IN  Dual(u.v, IF u.v = Zero THEN Nan ELSE FDiv(u.d, Two))
      BY <1>7, <1>10 DEF StdRef, c2, p
    <3> QED BY <1>8, <2>5, <3>1
  <2>7. StdGradient(primal, grad) =
          Dual(var, CASE var = Nan -> Nan [] var = Zero -> FDiv(varP, Zero)
                      [] OTHER -> FDiv(varP, Two))
    BY <1>6, <1>10, <2>2, <2>3 DEF StdGradient
  <2>8. var # Nan /\ (var = Zero => c2.v = Zero /\ c2.d = Zero)
    <3>1. /\ IsPositive(c2.v) => IsPositive(var)
          /\ c2.v = Zero => var = Zero
      BY <2>2, <2>4, OverCount
    <3>2. IsNumber(var)
      <4>1. CASE IsPositive(c2.v)
        BY <3>1, <4>1, PositiveAdds
      <4>2. CASE c2.v = Zero
        BY <3>1, <4>2, Constants
      <4> QED BY <2>2, <4>1, <4>2
    <3>3. ~IsPositive(Zero)
      BY ZeroBelow
    <3> HIDE DEF var
    <3> QED BY <2>2, <3>1, <3>2, <3>3, NumberPair
  <2>9. out.v = StdRef.v
    BY <1>5, <1>8, <2>6, <2>7
  <2>10. ASSUME ~grad.cut PROVE out.d = StdRef.d
    <3>1. varP = varD
      BY <2>2, <2>10
    <3>2. CASE var = Zero
      <4>1. varD = Zero
        <5>1. c2.d = Zero
          BY <2>8, <3>2
        <5> QED BY <2>4, <5>1, OverCount
      <4>2. FDiv(Zero, Zero) = Nan
        BY ZeroOverZero DEF Zero
      <4> HIDE DEF var, varP, varD
      <4>3. Zero # Nan
        BY Constants, NumberPair
      <4> QED BY <1>5, <1>8, <2>6, <2>7, <3>1, <3>2, <4>1, <4>2, <4>3
    <3>3. CASE var # Zero
      <4> HIDE DEF var, varP, varD
      <4> QED BY <1>5, <1>8, <2>6, <2>7, <2>8, <3>1, <3>3
    <3> QED BY <3>2, <3>3
  <2> QED BY <2>9, <2>10
<1> QED BY <1>9, <1>10

\* What zscore returns, with its derivative.
LEMMA ZscoreIsRef ==
  ASSUME node \in Nodes, node.op = "zscore", hist \in Seq(Inputs[node.op]), n > 0, DevSens
  PROVE  out.v = ZscoreRef.v /\ (~grad.cut => out.d = ZscoreRef.d)
<1> DEFINE I == Inputs[node.op]
           p == node.period
           nan == Seen(hist, Nan)
           c2 == CoMoment(WindowX, WindowX)
           x == Latest.x
<1>1. node.op \in Deviations /\ node.op \in Windows \ Extrema
  BY DEF Windows, Extrema, Deviations
<1>2. p \in Nat \ {0} /\ p \in Nat /\ \A j \in I : Operand(j.x) /\ j.x = Dual(j.x.v, j.x.d)
  BY <1>1, WindowOperands
<1>3. n \in Nat /\ Latest \in I
  BY DEF n, Latest
<1>4. DevState(primal, grad, XV(hist), XD(hist), n, p, nan)
  BY DEF DevSens
<1>5. out = ZscoreGradient(primal, grad, x)
  BY DEF DevSens
<1>6. (IsFull(primal) <=> ~(n < p)) /\ primal.count = Size(n, p)
  <2>1. Held(primal, XV(hist), n, p)
    BY <1>4 DEF DevState
  <2> QED BY <1>2, <1>3, <2>1, RingReads
<1>7. Full <=> ~(n < p)
  BY <1>2, <1>3 DEF Full
<1>8. \A y, z : Dual(y, z).v = y /\ Dual(y, z).d = z
  BY DEF Dual
<1>9. CASE n < p
  BY <1>5, <1>6, <1>7, <1>9 DEF ZscoreGradient, ZscoreRef
<1>10. CASE ~(n < p) /\ nan
  <2>1. primal.sum = Nan /\ MomentsPaired(primal, grad)
    BY <1>4, <1>10 DEF DevState, SumIs
  <2>2. IsPair(primal.m2) /\ IsPair(grad.mean) /\ IsPair(grad.m2)
    BY <2>1 DEF MomentsPaired
  <2>3. primal.count = p
    BY <1>6, <1>10 DEF Size
  <2>4. IsPair(x.v) /\ IsPair(x.d) /\ IsPair(Whole(p)) /\ IsPair(Two)
    <3>1. IsPair(Nan)
      BY DEF Nan, IsPair
    <3>2. Operand(x)
      BY <1>2, <1>3
    <3> QED BY <1>2, <3>1, <3>2, NumberPair, PairOf DEF Operand
  <2>5. RingMean(primal) = Nan
    BY <2>1, <2>3, <2>4, NanAbsorbs DEF RingMean
  <2> DEFINE lift == FDiv(grad.m2, FMul(Two, primal.m2))
             rest == FSub(x.d, grad.mean)
  <2>6. IsPair(lift) /\ IsPair(rest)
    <3>1. IsPair(FMul(Two, primal.m2))
      BY <2>2, <2>4, PairClosed
    <3> QED BY <2>2, <2>4, <3>1, PairClosed
  <2>7. FSub(x.v, RingMean(primal)) = Nan
    BY <2>4, <2>5, NanAbsorbs
  <2>8. FSub(rest, FMul(Nan, lift)) = Nan
    <3> HIDE DEF rest, lift
    <3> QED BY <2>6, NanAbsorbs
  <2>9. ZscoreGradient(primal, grad, x) = Undefined
    <3> HIDE DEF x
    <3> QED BY <2>7, <2>8 DEF ZscoreGradient, Undefined
  <2>10. ZscoreRef = Undefined
    BY <1>10 DEF ZscoreRef
  <2> QED BY <1>5, <2>9, <2>10
<1>11. CASE ~(n < p) /\ ~nan
  <2>1. Trusted(XV(hist), n, p, grad.slides)
    <3>1. grad.slides \in 0 .. p - 1
      BY <1>4 DEF DevState
    <3> QED BY <1>2, <1>11, <3>1, CleanTrusted
  <2>2. /\ IsDual(c2) /\ (IsPositive(c2.v) \/ (c2.v = Zero /\ c2.d = Zero))
        /\ primal.m2 = c2.v /\ (~grad.cut => grad.m2 = c2.d)
        /\ Mean(WindowX) = Dual(primal.mean, grad.mean)
        /\ primal.mean = MeanOf(p, WindowSum(XV(hist), n, p))
    BY <1>1, <1>11, <2>1, DevMoments
  <2>3. primal.count = p /\ primal.sum = WindowSum(XV(hist), n, p)
    <3>1. primal.count = p
      BY <1>6, <1>11 DEF Size
    <3>2. SumIs(primal.sum, XV(hist), n, p, nan)
      BY <1>4 DEF DevState
    <3> QED BY <1>11, <3>1, <3>2 DEF SumIs
  <2>4. RingMean(primal) = primal.mean
    BY <1>2, <2>2, <2>3 DEF RingMean, MeanOf
  <2>5. c2.v # Nan
    BY <2>2, NumberPair DEF IsDual
  <2>6. DSub(x, Mean(WindowX)) = Dual(FSub(x.v, primal.mean), FSub(x.d, grad.mean))
    BY <1>8, <2>2 DEF DSub
  <2> DEFINE from == FSub(x.v, primal.mean)
             rest == FSub(x.d, grad.mean)
  <2>7. ZscoreRef = IF c2.v = Zero THEN Undefined
                    ELSE Dual(from, FSub(rest, FMul(from, FDiv(c2.d, FMul(Two, c2.v)))))
    BY <1>7, <1>8, <1>11, <2>6 DEF ZscoreRef
  <2> HIDE DEF c2, x
  <2>8. ZscoreGradient(primal, grad, x) =
          IF c2.v = Zero THEN Undefined
          ELSE Dual(from, FSub(rest, FMul(from, FDiv(grad.m2, FMul(Two, c2.v)))))
    BY <1>6, <1>11, <2>2, <2>4, <2>5 DEF ZscoreGradient
  <2> HIDE DEF from, rest
  <2> QED BY <1>5, <1>8, <2>2, <2>7, <2>8
<1> QED BY <1>9, <1>10, <1>11

-----------------------------------------------------------------------------
(* The window operators together *)

\* The windows other than the extrema.
Windowed == Windows \ Extrema

\* The inductive invariant: the states of a window operator hold the window
\* of the history, and out is what they yield.
WinInv ==
  node.op \in Windowed =>
    /\ node \in Nodes /\ hist \in Seq(Inputs[node.op])
    /\ n = 0 => primal = PrimalInit(node, mode) /\ grad = SensitivityInit(node)
    /\ n > 0 => /\ node.op \in {"lag", "sma"} => RingSens
                /\ node.op \in Deviations => DevSens
                /\ node.op \in Pairs => PairSens

\* It holds at first.
LEMMA WinInit == Init => WinInv
<1> SUFFICES ASSUME Init PROVE WinInv
  OBVIOUS
<1>1. node \in Nodes /\ hist = << >>
  BY DEF Init
<1>2. n = 0 /\ hist \in Seq(Inputs[node.op])
  BY <1>1 DEF n
<1> QED BY <1>1, <1>2 DEF Init, WinInv

\* Every tick of a window operator keeps its states those of the window.
THEOREM WindowInvariance == Spec => []WinInv
<1>1. ASSUME WinInv, [Next]_vars PROVE WinInv'
  <2>1. CASE UNCHANGED vars
    BY <1>1, <2>1 DEF vars, WinInv, RingSens, DevSens, PairSens, Latest, n
  <2>2. CASE Next
    <3>1. PICK i \in Inputs[node.op] :
            \/ TickLag(i) \/ TickSma(i) \/ TickDeviation(i) \/ TickPair(i)
            \/ TickEma(i) \/ TickKalman(i) \/ TickExtremum(i) \/ TickCross(i)
      BY <2>2 DEF Next
    <3>2. hist' = Append(hist, i) /\ node' = node
      BY <3>1 DEF TickLag, TickSma, TickDeviation, TickPair, TickEma, TickKalman,
                  TickExtremum, TickCross, Fed
    <3> SUFFICES ASSUME node.op \in Windowed
                 PROVE  /\ hist' \in Seq(Inputs[node.op]) /\ n' # 0
                        /\ node \in Nodes
                        /\ node.op \in {"lag", "sma"} => RingSens'
                        /\ node.op \in Deviations => DevSens'
                        /\ node.op \in Pairs => PairSens'
      BY <3>2 DEF WinInv
    <3>3. node \in Nodes /\ hist \in Seq(Inputs[node.op])
      BY <1>1 DEF WinInv
    <3>4. n \in Nat /\ hist' \in Seq(Inputs[node.op]) /\ n' # 0
      <4>1. /\ Append(hist, i) \in Seq(Inputs[node.op]) /\ Len(hist) \in Nat
            /\ Len(Append(hist, i)) = Len(hist) + 1
        BY <3>3, Appended
      <4> QED BY <3>2, <4>1 DEF n
    <3>5. /\ node.op \in {"lag", "sma"} => Started(RingSens)
          /\ node.op \in Deviations => Started(DevSens)
          /\ node.op \in Pairs => Started(PairSens)
      BY <1>1, <3>4 DEF WinInv, Started
    <3>6. ASSUME node.op \in {"lag", "sma"} PROVE RingSens'
      <4>1. TickLag(i) \/ TickSma(i)
        BY <3>1, <3>6 DEF TickDeviation, TickPair, TickEma, TickKalman,
                          TickExtremum, TickCross, Deviations, Pairs, Extrema, Crosses
      <4> QED BY <3>3, <3>5, <3>6, <4>1, RingSensStep
    <3>7. ASSUME node.op \in Deviations PROVE DevSens'
      <4>1. TickDeviation(i)
        BY <3>1, <3>7 DEF TickLag, TickSma, TickPair, TickEma, TickKalman,
                          TickExtremum, TickCross, Deviations, Pairs, Extrema, Crosses
      <4> QED BY <3>3, <3>5, <3>7, <4>1, DevSensStep
    <3>8. ASSUME node.op \in Pairs PROVE PairSens'
      <4>1. TickPair(i)
        BY <3>1, <3>8 DEF TickLag, TickSma, TickDeviation, TickEma, TickKalman,
                          TickExtremum, TickCross, Deviations, Pairs, Extrema, Crosses
      <4> QED BY <3>3, <3>5, <3>8, <4>1, PairSensStep
    <3> QED BY <3>3, <3>4, <3>6, <3>7, <3>8
  <2> QED BY <1>1, <2>1, <2>2
<1> QED BY <1>1, WinInit, PTL DEF Spec

\* What lag, sma, rolling_std, zscore, rolling_corr and rolling_beta return
\* with their value is the derivative of their definition over the window, for
\* every period and history, NaN among the operands included; of rolling_std
\* and zscore until m2' is cut off, and again from the next refresh on.
THEOREM WindowSensitivitiesAlways == Spec => []WindowSensitivities
<1>1. ASSUME WinInv PROVE WindowSensitivities
  <2> SUFFICES ASSUME n > 0 PROVE WindowSensitivities
    BY DEF WindowSensitivities
  <2>1. ASSUME node.op \in Windowed
        PROVE  /\ node \in Nodes /\ hist \in Seq(Inputs[node.op])
               /\ node.op \in {"lag", "sma"} => RingSens
               /\ node.op \in Deviations => DevSens
               /\ node.op \in Pairs => PairSens
    BY <1>1, <2>1 DEF WinInv
  <2>2. {"lag", "sma"} \cup Deviations \cup Pairs \subseteq Windowed
    BY DEF Windowed, Windows, Deviations, Pairs, Extrema
  <2>3. node.op = "lag" => out = IF n > node.period THEN hist[n - node.period].x ELSE Undefined
    BY <2>1, <2>2 DEF RingSens
  <2>4. node.op = "sma" =>
          out = IF Full /\ ~Seen(hist, Nan) THEN Mean(WindowX) ELSE Undefined
    BY <2>1, <2>2, SmaIsMean
  <2>5. StdSensitivity
    <3>1. CASE node.op = "rolling_std"
      <4>1. node.op \in Deviations
        BY <3>1 DEF Deviations
      <4> QED BY <2>1, <2>2, <3>1, <4>1, StdIsRef
    <3>2. CASE node.op # "rolling_std"
      BY <3>2 DEF StdSensitivity
    <3> QED BY <3>1, <3>2
  <2>6. node.op = "zscore" => out.v = ZscoreRef.v /\ (~grad.cut => out.d = ZscoreRef.d)
    <3>1. "zscore" \in Deviations
      BY DEF Deviations
    <3> QED BY <2>1, <2>2, <3>1, ZscoreIsRef
  <2>7. node.op \in Pairs => out = PairRef
    BY <2>1, <2>2, PairIsRef
  <2> QED BY <2>3, <2>4, <2>5, <2>6, <2>7 DEF WindowSensitivities
<1> QED BY <1>1, WindowInvariance, PTL
=============================================================================
