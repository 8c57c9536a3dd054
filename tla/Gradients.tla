----------------------------- MODULE Gradients -----------------------------
(***************************************************************************)
(* The derivative of a stateful call with respect to one parameter, tick   *)
(* by tick: the sensitivity recurrences that ForwardGradientInterpreter    *)
(* (src/src/autodiff.cpp) and the jit_rt_*_grad calls of gradient code     *)
(* (src/src/runtime.cpp) advance next to the state of the call itself.     *)
(* One behaviour is one call, fed dual numbers: the operand's value and    *)
(* its derivative.                                                         *)
(*                                                                         *)
(* Mode "interp" is the gradient interpreter on a context whose states are *)
(* set up by their first use, "compiled" is gradient code on a prewarmed   *)
(* context, and "lowered" the code for rolling_min and rolling_max that    *)
(* has no gradient.  Doubles are exact (Ieee).  A square root is avoided:  *)
(* a deviation is given as its square and what is divided by it, in zscore *)
(* and rolling_corr and in the derivative of rolling_std, is given         *)
(* multiplied by it.                                                       *)
(***************************************************************************)
EXTENDS MonoDeque, Sequences

CONSTANTS Nodes,     \* the calls: [op, period], [op, alpha] or [op, q, r]
          Inputs,    \* by op: the operands [x, y] of a tick, duals
          MaxTicks   \* by op: bound on the ticks

Dual(v, d) == [v |-> v, d |-> d]
Undefined == Dual(Nan, Nan)
Rejected == [thrown |-> TRUE]           \* what a call that throws leaves

Windows == {"lag", "sma", "rolling_std", "zscore", "rolling_corr", "rolling_beta",
            "rolling_min", "rolling_max"}
Deviations == {"rolling_std", "zscore"}
Pairs == {"rolling_corr", "rolling_beta"}
Extrema == {"rolling_min", "rolling_max"}
Crosses == {"cross_above", "cross_below"}

\* A period is a positive literal, and at least 2 under a deviation: anything
\* else is rejected by both paths before the first tick.
ASSUME NodeAssumption ==
  \A nd \in Nodes : /\ nd.op \in Windows => nd.period \in Nat \ {0}
                    /\ nd.op \in Deviations => nd.period >= 2
                    /\ Inputs[nd.op] # {} /\ MaxTicks[nd.op] \in Nat

\* Operands are doubles.
Samples(op) == {i.x.v : i \in Inputs[op]}
ASSUME SampleAssumption ==
  \A nd \in Nodes : \A a, b \in Samples(nd.op) :
    IsDouble(a) /\ (SameNumber(a, b) => a = b)

\* Numbers in lowest terms, where the operators divide or compare them.
IsReal(a) == a \in Int \X (Nat \ {0}) /\ a = Rat(a[1], a[2])
RealDual(x) == x = Dual(x.v, x.d) /\ IsReal(x.v) /\ IsReal(x.d)
ASSUME RealAssumption ==
  \A nd \in Nodes :
    /\ nd.op = "ema" => RealDual(nd.alpha)
    /\ nd.op = "kalman1d" => RealDual(nd.q) /\ RealDual(nd.r)
    /\ nd.op \in {"ema", "kalman1d"} => \A i \in Inputs[nd.op] : RealDual(i.x)
    /\ nd.op \in Windows \ Extrema =>
         \A i \in Inputs[nd.op] : RealDual(i.x) \/ i.x = Undefined
    /\ nd.op \in Pairs => \A i \in Inputs[nd.op] : RealDual(i.y)
    /\ nd.op \in Crosses =>
         \A i \in Inputs[nd.op] : \A a \in {i.x.v, i.y.v} : IsReal(a) \/ a = Nan

Modes(op) == {"interp", "compiled"} \cup (IF op \in Extrema THEN {"lowered"} ELSE {})

VARIABLES node, mode,   \* the call, and who evaluates it
          primal,       \* its state: RingStatsState, LagState, ...
          grad,         \* its sensitivity state for the parameter
          hist,         \* ghost: the operands of all ticks
          out           \* what the last tick returned, a dual

vars == <<node, mode, primal, grad, hist, out>>

Zero == Whole(0)
One == Whole(1)
Two == Whole(2)

\* The first c places of a buffer, added up.
Total(buf, c) == Fold("+", [k \in 1 .. c |-> buf[k - 1]], 1, c)

-----------------------------------------------------------------------------
(* lag and sma: the sensitivity is the same operator on the derivatives *)

FreshRing(p) == [cap |-> p, head |-> 0, count |-> 0, sum |-> Zero,
                 buf |-> [k \in 0 .. p - 1 |-> Zero]]
Fitted(st, p) == IF st.cap # p THEN FreshRing(p) ELSE st
IsFull(st) == st.count = st.cap /\ st.cap > 0

\* The push of LagState and of RingStatsState, of which sma reads only sum.
PushPrepared(st, x) ==
  LET full == st.count = st.cap
  IN  [st EXCEPT !.sum = FAdd(IF full THEN FSub(@, st.buf[st.head]) ELSE @, x),
                 !.buf[st.head] = x, !.head = (@ + 1) % st.cap,
                 !.count = IF full THEN @ ELSE @ + 1]

Push(st, p, x) == PushPrepared(Fitted(st, p), x)

\* Gradient code pushes onto prewarmed states, but for the sensitivities.
PushPrimal(p, x) == IF mode = "compiled" THEN PushPrepared(primal, x) ELSE Push(primal, p, x)

LagValue(st) == IF IsFull(st) THEN st.buf[st.head] ELSE Nan
RingMean(st) == FDiv(st.sum, Whole(st.count))

-----------------------------------------------------------------------------
(* rolling_std and zscore: Welford's update and its derivative *)

FreshStats(p) == [cap |-> p, head |-> 0, count |-> 0, slides |-> 0, sum |-> Zero,
                  mean |-> Zero, m2 |-> Zero, buf |-> [k \in 0 .. p - 1 |-> Zero]]

\* RollingStdSensitivityState has no sum; cut is a ghost: the clamp below
\* changed m2 since the last refresh.
FreshStdSensitivity(p) == [cap |-> p, head |-> 0, count |-> 0, slides |-> 0, cut |-> FALSE,
                           mean |-> Zero, m2 |-> Zero, buf |-> [k \in 0 .. p - 1 |-> Zero]]

ClampNegative(a) == IF FLt(a, Zero) THEN Zero ELSE a

Grown(a, g, x) ==
  LET count == Whole(a.count + 1)
      delta == FSub(x.v, a.mean)
      deltaP == FSub(x.d, g.mean)
      mean == FAdd(a.mean, FDiv(delta, count))
      meanP == FAdd(g.mean, FDiv(deltaP, count))
  IN  [primal |-> [a EXCEPT !.count = @ + 1, !.mean = mean,
                            !.m2 = FAdd(@, FMul(delta, FSub(x.v, mean)))],
       grad |-> [g EXCEPT !.count = @ + 1, !.mean = meanP,
                          !.m2 = FAdd(@, FAdd(FMul(deltaP, FSub(x.v, mean)),
                                              FMul(delta, FSub(x.d, meanP))))]]

\* A full window: the oldest sample leaves, then x joins.  Either m2 is cut
\* off at 0 for its own sake (the path for a capacity of 1 is not reached).
Slid(a, g, x) ==
  LET count == Whole(a.count)
      rest == Whole(a.count - 1)
      old == a.buf[a.head]
      oldP == g.buf[g.head]
      dR == FSub(old, a.mean)
      dRP == FSub(oldP, g.mean)
      meanR == FSub(a.mean, FDiv(dR, rest))
      meanRP == FSub(g.mean, FDiv(dRP, rest))
      m2R == FSub(a.m2, FMul(dR, FSub(old, meanR)))
      m2RP == FSub(FSub(g.m2, FMul(dRP, FSub(old, meanR))), FMul(dR, FSub(oldP, meanRP)))
      dA == FSub(x.v, meanR)
      dAP == FSub(x.d, meanRP)
      mean == FAdd(meanR, FDiv(dA, count))
      meanP == FAdd(meanRP, FDiv(dAP, count))
      m2 == FAdd(m2R, FMul(dA, FSub(x.v, mean)))
      m2P == FAdd(m2RP, FAdd(FMul(dAP, FSub(x.v, mean)), FMul(dA, FSub(x.d, meanP))))
  IN  [primal |-> [a EXCEPT !.sum = FSub(@, old), !.mean = mean, !.m2 = ClampNegative(m2)],
       grad |-> [g EXCEPT !.mean = meanP, !.m2 = ClampNegative(m2P),
                          !.cut = @ \/ FLt(m2P, Zero)]]

\* mean, m2 and their derivatives afresh from the two buffers; sum is kept.
RollingStdRefreshSensitivity(a, g) ==
  LET mean == FDiv(Total(a.buf, a.count), Whole(a.count))
      meanP == FDiv(Total(g.buf, a.count), Whole(a.count))
      d(k) == FSub(a.buf[k], mean)
      m2 == Total([k \in DOMAIN a.buf |-> FMul(d(k), d(k))], a.count)
      m2P == Total([k \in DOMAIN a.buf |-> FMul(Two, FMul(d(k), FSub(g.buf[k], meanP)))],
                   a.count)
  IN  [primal |-> [a EXCEPT !.mean = mean, !.m2 = ClampNegative(m2), !.slides = 0],
       grad |-> [g EXCEPT !.mean = meanP, !.m2 = m2P, !.slides = 0, !.cut = FALSE]]

\* The end of a step that slid: both count it, and the sensitivity's count
\* decides when both are refreshed.
SlideCounted(a, g) ==
  LET b == [a EXCEPT !.slides = @ + 1]
      h == [g EXCEPT !.slides = @ + 1]
  IN  IF h.slides >= h.cap THEN RollingStdRefreshSensitivity(b, h)
      ELSE [primal |-> b, grad |-> h]

\* Mutant: the ring of derivatives does not turn.
StoredUnturned(a, g, x) ==
  [primal |-> [a EXCEPT !.buf[a.head] = x.v, !.sum = FAdd(@, x.v), !.head = (@ + 1) % a.cap],
   grad |-> [g EXCEPT !.buf[g.head] = x.d]]

Stored(a, g, x) ==
  [primal |-> [a EXCEPT !.buf[a.head] = x.v, !.sum = FAdd(@, x.v), !.head = (@ + 1) % a.cap],
   grad |-> [g EXCEPT !.buf[g.head] = x.d, !.head = (@ + 1) % g.cap]]

\* Both states after one more sample.
RollingStdOrZscoreGradStep(p, x) ==
  LET a == IF primal.cap # p THEN FreshStats(p) ELSE primal
      g == IF grad.cap # p THEN FreshStdSensitivity(p) ELSE grad
      slid == a.count = a.cap
      moved == IF slid THEN Slid(a, g, x) ELSE Grown(a, g, x)
      new == Stored(moved.primal, moved.grad, x)
  IN  IF slid THEN SlideCounted(new.primal, new.grad) ELSE new

\* The variance, and the derivative of its root times that root.
StdGradient(a, g) ==
  LET freedom == Whole(a.count - 1)
      var == FDiv(a.m2, freedom)
      varP == FDiv(g.m2, freedom)
  IN  IF ~IsFull(a) THEN Undefined
      ELSE Dual(var, CASE var = Nan -> Nan
                       [] var = Zero -> FDiv(varP, Zero)
                       [] OTHER -> FDiv(varP, Two))

\* Times the deviation: x - mean, and the derivative of the quotient.
ZscoreGradient(a, g, x) ==
  LET fromMean == FSub(x.v, RingMean(a))
      lift == FDiv(g.m2, FMul(Two, a.m2))   \* std' / std
  IN  IF ~IsFull(a) \/ a.m2 \in {Nan, Zero} THEN Undefined
      ELSE Dual(fromMean, FSub(FSub(x.d, g.mean), FMul(fromMean, lift)))

-----------------------------------------------------------------------------
(* rolling_corr and rolling_beta: five running sums and their derivatives *)

NoSums == [x |-> Zero, y |-> Zero, xy |-> Zero, xx |-> Zero, yy |-> Zero]
FreshPair(p) == [cap |-> p, head |-> 0, count |-> 0, sums |-> NoSums,
                 buf |-> [k \in 0 .. p - 1 |-> <<Zero, Zero>>]]

Terms(x, y) == [x |-> x, y |-> y, xy |-> FMul(x, y), xx |-> FMul(x, x), yy |-> FMul(y, y)]
TermsP(x, xp, y, yp) ==
  [x |-> xp, y |-> yp, xy |-> FAdd(FMul(xp, y), FMul(x, yp)),
   xx |-> FMul(Two, FMul(x, xp)), yy |-> FMul(Two, FMul(y, yp))]
Plus(s, t) == [f \in DOMAIN s |-> FAdd(s[f], t[f])]
Minus(s, t) == [f \in DOMAIN s |-> FSub(s[f], t[f])]

\* Both rings turn with the head of the primal one.
RollingPairGradStep(p, x, y) ==
  LET a == IF primal.cap # p THEN FreshPair(p) ELSE primal
      g == IF grad.cap # p THEN FreshPair(p) ELSE grad
      full == a.count = a.cap
      old == a.buf[a.head]
      oldP == g.buf[a.head]
      count == IF full THEN a.count ELSE a.count + 1
      head == (a.head + 1) % a.cap
      left == IF full THEN Minus(a.sums, Terms(old[1], old[2])) ELSE a.sums
      leftP == IF full THEN Minus(g.sums, TermsP(old[1], oldP[1], old[2], oldP[2])) ELSE g.sums
  IN  [primal |-> [a EXCEPT !.buf[a.head] = <<x.v, y.v>>, !.head = head, !.count = count,
                            !.sums = Plus(left, Terms(x.v, y.v))],
       grad |-> [g EXCEPT !.buf[a.head] = <<x.d, y.d>>, !.head = head, !.count = count,
                          !.sums = Plus(leftP, TermsP(x.v, x.d, y.v, y.d))]]

Centred(s, f, i, j, count) == FSub(s[f], FDiv(FMul(s[i], s[j]), Whole(count)))
CentredP(s, t, f, i, j, count) ==
  FSub(t[f], FDiv(FAdd(FMul(t[i], s[j]), FMul(s[i], t[j])), Whole(count)))

Cov(a, g) == Dual(Centred(a.sums, "xy", "x", "y", a.count),
                  CentredP(a.sums, g.sums, "xy", "x", "y", a.count))
VarX(a, g) == Dual(Centred(a.sums, "xx", "x", "x", a.count),
                   CentredP(a.sums, g.sums, "xx", "x", "x", a.count))
VarY(a, g) == Dual(Centred(a.sums, "yy", "y", "y", a.count),
                   CentredP(a.sums, g.sums, "yy", "y", "y", a.count))

\* Times sqrt(var_x * var_y).  The value is guarded against flat series, the
\* derivative is not.
CorrOf(cov, vx, vy) ==
  Dual(IF FLe(vx.v, Zero) \/ FLe(vy.v, Zero) THEN Nan ELSE cov.v,
       FSub(cov.d, FDiv(FMul(cov.v, FAdd(FMul(vx.d, vy.v), FMul(vx.v, vy.d))),
                        FMul(Two, FMul(vx.v, vy.v)))))
BetaOf(cov, vx) ==
  Dual(IF FLe(vx.v, Zero) THEN Nan ELSE FDiv(cov.v, vx.v),
       FDiv(FSub(FMul(cov.d, vx.v), FMul(cov.v, vx.d)), FMul(vx.v, vx.v)))

PairGradient(op, a, g) ==
  IF ~IsFull(a) THEN Undefined
  ELSE IF op = "rolling_corr" THEN CorrOf(Cov(a, g), VarX(a, g), VarY(a, g))
  ELSE BetaOf(Cov(a, g), VarX(a, g))

-----------------------------------------------------------------------------
(* ema, ema_alpha and kalman1d *)

FreshEma == [init |-> FALSE, value |-> Zero]

EmaGradStep(a, g, x, alpha) ==
  LET keep == FSub(One, alpha.v)
      blended == FAdd(FMul(alpha.v, x.v), FMul(keep, a.value))
      blendedP == FAdd(FAdd(FMul(alpha.v, x.d), FMul(keep, g)),
                       FMul(alpha.d, FSub(x.v, a.value)))
  IN  IF ~a.init THEN [primal |-> [init |-> TRUE, value |-> x.v], grad |-> x.d]
      ELSE [primal |-> [a EXCEPT !.value = blended], grad |-> blendedP]

FreshKalman == [init |-> FALSE, xhat |-> Zero, p |-> Zero]
FreshKalmanSensitivity == [xhat |-> Zero, p |-> Zero]

\* Mutant: the gain is taken for a constant.
GainPConstant(pPred, pPredP, denom, denomP) == Zero
GainP(pPred, pPredP, denom, denomP) ==
  FDiv(FSub(FMul(pPredP, denom), FMul(pPred, denomP)), FMul(denom, denom))

\* A denominator that is not positive (the interpreter: not above 1e-18)
\* leaves both states alone.
KalmanGradStep(a, g, x, q, r) ==
  LET pPred == FAdd(a.p, q.v)
      pPredP == FAdd(g.p, q.d)
      denom == FAdd(pPred, r.v)
      k == FDiv(pPred, denom)
      kP == GainP(pPred, pPredP, denom, FAdd(pPredP, r.d))
      innov == FSub(x.v, a.xhat)
      new == FMul(FSub(One, k), pPred)
      newP == FSub(FMul(FSub(One, k), pPredP), FMul(kP, pPred))
      cut == FLt(new, Zero)
  IN  IF ~a.init THEN [primal |-> [init |-> TRUE, xhat |-> x.v, p |-> r.v],
                       grad |-> [xhat |-> x.d, p |-> r.d]]
      ELSE IF FLe(denom, Zero) THEN [primal |-> a, grad |-> g]
      ELSE [primal |-> [a EXCEPT !.xhat = FAdd(@, FMul(k, innov)),
                                 !.p = IF cut THEN Zero ELSE new],
            grad |-> [xhat |-> FAdd(g.xhat, FAdd(FMul(kP, innov),
                                                 FMul(k, FSub(x.d, g.xhat)))),
                      p |-> IF cut THEN Zero ELSE newP]]

\* Only the interpreter checks the noises.
ValidNoise == FLe(Zero, node.q.v) /\ FLt(Zero, node.r.v)

-----------------------------------------------------------------------------
(* rolling_min and rolling_max: a ring of derivatives, one for each tick of *)
(* the window, and the front of the deque says which one counts.            *)

UpdateDeque(op, dq, t, p, x) ==
  CASE op = "rolling_min" /\ mode = "interp" -> UpdateRollingMin(dq, t, p, x)
    [] op = "rolling_max" /\ mode = "interp" -> UpdateRollingMax(dq, t, p, x)
    [] op = "rolling_min" /\ mode = "compiled" -> UpdateRollingMinPrepared(dq, t, x)
    [] op = "rolling_max" /\ mode = "compiled" -> UpdateRollingMaxPrepared(dq, t, x)
    [] op = "rolling_min" /\ mode = "lowered" -> EmitLoweredRollingMin(dq, t, p, x)
    [] op = "rolling_max" /\ mode = "lowered" -> EmitLoweredRollingMax(dq, t, p, x)

\* Written at the tick's own place; the head of the ring is never read.
ExtremumSensitivity(g, t, p, d) ==
  LET ring == Fitted(g, p) IN [ring EXCEPT !.buf[t % ring.cap] = d]

\* Mutant: the derivative of the sample just seen.
ActiveGradientLatest(dq, g, t, p) == IF t + 1 < p THEN Nan ELSE g.buf[t % p]

ActiveGradient(dq, g, t, p) == IF t + 1 < p THEN Nan ELSE g.buf[MonoFront(dq).tick % p]

-----------------------------------------------------------------------------
(* cross_above and cross_below: piecewise constant *)

FreshCross == [init |-> FALSE, a |-> Zero, b |-> Zero]
Crossed(op, st, a, b) == st.init /\ IF op = "cross_above" THEN LE(st.a, st.b) /\ FLt(b, a)
                                                         ELSE GE(st.a, st.b) /\ FLt(a, b)

-----------------------------------------------------------------------------
\* The runtime state a call starts from: untouched, or prewarmed.
PrimalInit(nd, m) ==
  LET p == IF m = "interp" THEN 0 ELSE nd.period
  IN  CASE nd.op \in {"lag", "sma"} -> FreshRing(p)
        [] nd.op \in Deviations -> FreshStats(p)
        [] nd.op \in Pairs -> FreshPair(p)
        [] nd.op \in Extrema -> IF m = "interp" THEN EmptyDeque(0) ELSE EmptyDeque(p + 1)
        [] nd.op = "ema" -> FreshEma
        [] nd.op = "kalman1d" -> FreshKalman
        [] nd.op \in Crosses -> FreshCross

\* ResizeSensitivityStorage and ResetSensitivityStorage know no period.
SensitivityInit(nd) ==
  CASE nd.op \in {"lag", "sma"} \cup Extrema -> FreshRing(0)
    [] nd.op \in Deviations -> FreshStdSensitivity(0)
    [] nd.op \in Pairs -> FreshPair(0)
    [] nd.op = "kalman1d" -> FreshKalmanSensitivity
    [] nd.op = "ema" -> Zero
    [] nd.op \in Crosses -> Zero

Init ==
  /\ node \in Nodes /\ mode \in Modes(node.op)
  /\ primal = PrimalInit(node, mode) /\ grad = SensitivityInit(node)
  /\ hist = << >> /\ out = Undefined

Fed(i) == /\ Len(hist) < MaxTicks[node.op] /\ i \in Inputs[node.op]
          /\ hist' = Append(hist, i)
          /\ UNCHANGED <<node, mode>>

Stepped(s) == primal' = s.primal /\ grad' = s.grad

TickLag(i) ==
  /\ node.op = "lag" /\ Fed(i)
  /\ out' = Dual(LagValue(primal), LagValue(grad))
  /\ Stepped([primal |-> PushPrimal(node.period, i.x.v),
              grad |-> Push(grad, node.period, i.x.d)])

TickSma(i) ==
  /\ node.op = "sma" /\ Fed(i)
  /\ Stepped([primal |-> PushPrimal(node.period, i.x.v),
              grad |-> Push(grad, node.period, i.x.d)])
  /\ out' = IF IsFull(primal') THEN Dual(RingMean(primal'), RingMean(grad')) ELSE Undefined

TickDeviation(i) ==
  /\ node.op \in Deviations /\ Fed(i)
  /\ Stepped(RollingStdOrZscoreGradStep(node.period, i.x))
  /\ out' = IF node.op = "rolling_std" THEN StdGradient(primal', grad')
                                       ELSE ZscoreGradient(primal', grad', i.x)

TickPair(i) ==
  /\ node.op \in Pairs /\ Fed(i)
  /\ Stepped(RollingPairGradStep(node.period, i.x, i.y))
  /\ out' = PairGradient(node.op, primal', grad')

TickEma(i) ==
  /\ node.op = "ema" /\ Fed(i)
  /\ Stepped(EmaGradStep(primal, grad, i.x, node.alpha))
  /\ out' = Dual(primal'.value, grad')

TickKalman(i) ==
  /\ node.op = "kalman1d" /\ Fed(i)
  /\ IF mode = "interp" /\ ~ValidNoise
     THEN out' = Rejected /\ UNCHANGED <<primal, grad>>
     ELSE /\ Stepped(KalmanGradStep(primal, grad, i.x, node.q, node.r))
          /\ out' = Dual(primal'.xhat, grad'.xhat)

TickExtremum(i) ==
  LET t == Len(hist)
      p == node.period
      lowered == mode = "lowered"
  IN  /\ node.op \in Extrema /\ Fed(i)
      /\ primal' = UpdateDeque(node.op, primal, t, p, i.x.v)
      /\ grad' = IF lowered THEN grad ELSE ExtremumSensitivity(grad, t, p, i.x.d)
      /\ out' = Dual(Answer(primal', t, p),
                     IF lowered THEN Nan ELSE ActiveGradient(primal', grad', t, p))

TickCross(i) ==
  /\ node.op \in Crosses /\ Fed(i)
  /\ primal' = [init |-> TRUE, a |-> i.x.v, b |-> i.y.v]
  /\ out' = Dual(IF Crossed(node.op, primal, i.x.v, i.y.v) THEN One ELSE Zero, Zero)
  /\ UNCHANGED grad

Next == \E i \in Inputs[node.op] :
          \/ TickLag(i) \/ TickSma(i) \/ TickDeviation(i) \/ TickPair(i)
          \/ TickEma(i) \/ TickKalman(i) \/ TickExtremum(i) \/ TickCross(i)

Spec == Init /\ [][Next]_vars

-----------------------------------------------------------------------------
(* References: the batch definitions over dual numbers. *)

DAdd(a, b) == Dual(FAdd(a.v, b.v), FAdd(a.d, b.d))
DSub(a, b) == Dual(FSub(a.v, b.v), FSub(a.d, b.d))
DMul(a, b) == Dual(FMul(a.v, b.v), FAdd(FMul(a.d, b.v), FMul(a.v, b.d)))
DDiv(a, b) == Dual(FDiv(a.v, b.v),
                   FDiv(FSub(FMul(a.d, b.v), FMul(a.v, b.d)), FMul(b.v, b.v)))
DOne == Dual(One, Zero)
DTotal(s) == Dual(Fold("+", [k \in DOMAIN s |-> s[k].v], 1, Len(s)),
                  Fold("+", [k \in DOMAIN s |-> s[k].d], 1, Len(s)))

n == Len(hist)
Full == n >= node.period
Window == SubSeq(hist, n - node.period + 1, n)
Latest == hist[n]
Seen(s, v) == \E k \in DOMAIN s : s[k].x.v = v

WindowX == [k \in 1 .. node.period |-> Window[k].x]
WindowY == [k \in 1 .. node.period |-> Window[k].y]
Mean(s) == DDiv(DTotal(s), Dual(Whole(Len(s)), Zero))

\* The sum of products of deviations from the mean.
CoMoment(s, t) ==
  LET ms == Mean(s)
      mt == Mean(t)
  IN  DTotal([k \in DOMAIN s |-> DMul(DSub(s[k], ms), DSub(t[k], mt))])

\* Two windows without NaN, which is when a refresh has forgotten one.
LongClean == n >= 2 * node.period /\ ~Seen(SubSeq(hist, n - 2 * node.period + 1, n), Nan)

StdRef ==
  LET var == DDiv(CoMoment(WindowX, WindowX), Dual(Whole(node.period - 1), Zero))
  IN  IF ~Full THEN Undefined
      ELSE Dual(var.v, IF var.v = Zero THEN Nan ELSE FDiv(var.d, Two))

ZscoreRef ==
  LET m2 == CoMoment(WindowX, WindowX)
      dev == DSub(Latest.x, Mean(WindowX))
  IN  IF ~Full \/ Seen(hist, Nan) \/ m2.v = Zero THEN Undefined
      ELSE Dual(dev.v, FSub(dev.d, FMul(dev.v, FDiv(m2.d, FMul(Two, m2.v)))))

PairRef ==
  LET cov == CoMoment(WindowX, WindowY)
      vx == CoMoment(WindowX, WindowX)
      vy == CoMoment(WindowY, WindowY)
  IN  IF ~Full \/ Seen(hist, Nan) \/ vx.v = Zero THEN Undefined
      ELSE IF node.op = "rolling_beta" THEN DDiv(cov, vx)
      ELSE IF vy.v = Zero THEN Undefined
      ELSE Dual(cov.v, FSub(cov.d, FMul(FDiv(cov.v, Two),
                                        FAdd(FDiv(vx.d, vx.v), FDiv(vy.d, vy.v)))))

-----------------------------------------------------------------------------
\* Between ticks a deque holds between one and `period' entries, so that the
\* push of the next tick, which comes before the eviction, cannot overwrite
\* the front: this is what the extra entry is for (runtime.cpp:119).
RoomForPush(dq) ==
  /\ dq.cap > 0 => dq.head < dq.cap
  /\ dq.count <= node.period
  /\ hist # << >> => dq.count >= 1

SortedBy(dq, Pops(_, _)) ==
  \A k \in 1 .. dq.count - 1 :
    LET a == Entry(dq, k - 1)
        b == Entry(dq, k)
    IN  a.tick < b.tick /\ ~Pops(a.val, b.val)

\* There is room in a deque, and it stays sorted by age, and by value away
\* from NaN: equal samples do not pile up in it.
DequeInv ==
  node.op \in Extrema =>
    /\ RoomForPush(primal)
    /\ IF node.op = "rolling_min" THEN SortedBy(primal, GE) ELSE SortedBy(primal, LE)

\* In every window without NaN, whatever came before it, rolling_min is the
\* least and rolling_max the greatest sample of the window, in the runtime
\* and lowered, and its derivative is that of the latest sample that has
\* this value, found in the ring of derivatives by the tick in the deque.
ExtremaOfWindow ==
  (node.op \in Extrema /\ n > 0 /\ Full /\ ~Seen(Window, Nan)) =>
    LET beats(a, b) == IF node.op = "rolling_min" THEN LE(a, b) ELSE GE(a, b)
        best == {k \in 1 .. node.period :
                   \A j \in 1 .. node.period : beats(Window[k].x.v, Window[j].x.v)}
        last == CHOOSE k \in best : \A j \in best : j <= k
    IN  /\ out.v = Window[last].x.v
        /\ mode # "lowered" => out.d = Window[last].x.d

\* The value of rolling_std is the one of the window, and so is its
\* derivative until the recurrence of m2' is cut off at 0 for being negative,
\* which it may rightly be (runtime.cpp:300), and again from the next refresh
\* on, when everything is taken from the buffers.
StdSensitivity ==
  node.op = "rolling_std" /\ (~Seen(hist, Nan) \/ LongClean) =>
    out.v = StdRef.v /\ (~grad.cut => out.d = StdRef.d)

\* What a window operator returns with its value is the derivative of its
\* definition over the window, and not a number where the value is none:
\* sliding sums and Welford updates with their derivatives, the refresh, and
\* rings of values and derivatives that turn together.  A NaN operand is
\* forgotten by lag and rolling_std, and never by sma, zscore and the pairs.
WindowSensitivities ==
  n > 0 =>
    /\ node.op = "lag" =>
         out = IF n > node.period THEN hist[n - node.period].x ELSE Undefined
    /\ node.op = "sma" =>
         out = IF Full /\ ~Seen(hist, Nan) THEN Mean(WindowX) ELSE Undefined
    /\ StdSensitivity
    /\ node.op = "zscore" => out.v = ZscoreRef.v /\ (~grad.cut => out.d = ZscoreRef.d)
    /\ node.op \in Pairs => out = PairRef

-----------------------------------------------------------------------------
\* The m-th power, with the derivative m a^(m - 1) a'.
Power(a, m) == Fold("*", [i \in 1 .. m |-> a], 1, m)
DPower(a, m) ==
  Dual(Power(a.v, m), IF m = 0 THEN Zero ELSE FMul(Whole(m), FMul(Power(a.v, m - 1), a.d)))

\* The exponentially weighted mean as one sum: each of the samples times alpha
\* (the first one: times 1) and a power of 1 - alpha.
EmaWeight(a, k, m) == DMul(IF k = 1 THEN DOne ELSE a, DPower(DSub(DOne, a), m - k))
EmaOf(s, a) == DTotal([k \in 1 .. Len(s) |-> DMul(s[k].x, EmaWeight(a, k, Len(s)))])

\* The filter in information form: 1/p' = 1/(p + q) + 1/r and a gain of p'/r.
FilterNext(st, x, q, r) ==
  LET new == DDiv(DOne, DAdd(DDiv(DOne, DAdd(st.p, q)), DDiv(DOne, r)))
  IN  [p |-> new, xhat |-> DAdd(st.xhat, DMul(DDiv(new, r), DSub(x, st.xhat)))]
FilterOf(s, q, r) ==
  LET f[k \in Nat] == IF k <= 1 THEN [p |-> r, xhat |-> s[1].x]
                      ELSE FilterNext(f[k - 1], s[k].x, q, r)
  IN  f[Len(s)]

\* ema, ema_alpha and kalman1d return the derivative of what they compute
\* from the whole history, also with respect to a parameter that is their
\* alpha, q or r.  Of noises the interpreter refuses (q < 0, r <= 0) nothing
\* is claimed.
RecurrenceSensitivities ==
  n > 0 =>
    /\ node.op = "ema" => out = EmaOf(hist, node.alpha)
    /\ node.op = "kalman1d" /\ ValidNoise => out = FilterOf(hist, node.q, node.r).xhat
    /\ node.op \in Crosses =>
         LET up(k) == IF node.op = "cross_above" THEN FLt(hist[k].y.v, hist[k].x.v)
                                                 ELSE FLt(hist[k].x.v, hist[k].y.v)
             known(k) == Nan \notin {hist[k].x.v, hist[k].y.v}
         IN  out = Dual(IF n > 1 /\ up(n) /\ ~up(n - 1) /\ known(n - 1)
                        THEN One ELSE Zero, Zero)
=============================================================================
