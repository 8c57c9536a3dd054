----------------------------- MODULE PairWindow -----------------------------
(***************************************************************************)
(* The remaining window operators: vwap over price and volume,             *)
(* rolling_corr and rolling_beta over a pair of series, and lag.  Each has *)
(* a runtime state (src/src/runtime.cpp, interpreter and opaque JIT) and a *)
(* lowered one (src/src/jit_compiler.cpp).  Tick feeds <<x, y>> to all:    *)
(* price and volume for vwap, the two series for the pair, x for lag.      *)
(***************************************************************************)
EXTENDS WindowCall, Sequences

CONSTANTS Xs, Ys   \* the samples of either series; NaN may be an x

ASSUME SampleAssumption == Xs \subseteq Int \cup {NaN} /\ Ys \subseteq Int

VARIABLES window,           \* ghost: the last `period' pairs, oldest first
          seenNaN,          \* ghost: some x was NaN
          vwap, lowVwap,    \* VwapState, VwapStateLowered
          pair, lowPair,    \* RollingPairState, RollingPairStateLowered
          lag, lowLag,      \* LagState, LagStateLowered
          past,             \* ghost: the x of `period' ticks ago, NaN if none
          lagOut, lowLagOut

vars == <<period, window, seenNaN, vwap, lowVwap, pair, lowPair, lag, lowLag,
          past, lagOut, lowLagOut, warm>>

-----------------------------------------------------------------------------
\* A ring of p zeros with the running sums `sums'.
Ring(p, sums) == [cap |-> p, head |-> 0, count |-> 0, sums |-> sums,
                  buf |-> [k \in 0 .. p - 1 |-> <<0, 0>>]]

NoPV == [pv |-> 0, vol |-> 0]
NoSums == [x |-> 0, y |-> 0, xy |-> 0, xx |-> 0, yy |-> 0]

PVOf(e) == [pv |-> Mul(e[1], e[2]), vol |-> e[2]]
SumsOf(e) == [x |-> e[1], y |-> e[2], xy |-> Mul(e[1], e[2]), xx |-> Sq(e[1]), yy |-> Sq(e[2])]

Plus(s, t) == [f \in DOMAIN s |-> Add(s[f], t[f])]
Minus(s, t) == [f \in DOMAIN s |-> Sub(s[f], t[f])]

\* The push all of them share: on a full ring what the oldest entry
\* contributed leaves the sums before the new entry's contribution joins.
Push(st, e, Of(_)) ==
  LET full == st.count = st.cap
  IN  [st EXCEPT !.sums = Plus(IF full THEN Minus(@, Of(st.buf[st.head])) ELSE @, Of(e)),
                 !.buf[st.head] = e,
                 !.head = (@ + 1) % st.cap,
                 !.count = IF full THEN @ ELSE @ + 1]

\* An interpreter state that does not fit the period is started afresh.
Fitted(st, p, sums) == IF st.cap # p THEN Ring(p, sums) ELSE st

IsFull(st) == st.count = st.cap /\ st.cap > 0

-----------------------------------------------------------------------------
(* vwap: the value is given as its numerator and denominator *)

\* A volume that is not positive counts as 1.
Volume(v) == IF v > 0 THEN v ELSE 1

VwapPush(st, p, price, vol) == Push(Fitted(st, p, NoPV), <<price, vol>>, PVOf)

VwapValue(st) ==
  IF ~IsFull(st) \/ st.sums.vol = 0 THEN <<NaN>> ELSE <<st.sums.pv, st.sums.vol>>

\* Mutant: the volume that falls out stays in sum_vol.
EmitLoweredVwapLeaky(st, price, vol) ==
  LET new == Push(st, <<price, vol>>, PVOf)
  IN  [new EXCEPT !.sums.vol = st.sums.vol + vol]

EmitLoweredVwap(st, price, vol) == Push(st, <<price, vol>>, PVOf)

LoweredVwapValue(st, p) ==
  IF st.count = p /\ st.sums.vol > 0 THEN <<st.sums.pv, st.sums.vol>> ELSE <<NaN>>

-----------------------------------------------------------------------------
(* rolling_corr and rolling_beta, by n * cov, n * var_x and n * var_y *)

RollingPairPush(st, p, x, y) == Push(Fitted(st, p, NoSums), <<x, y>>, SumsOf)

Cov(st) == Sub(Mul(st.cap, st.sums.xy), Mul(st.sums.x, st.sums.y))
VarX(st) == Sub(Mul(st.cap, st.sums.xx), Sq(st.sums.x))
VarY(st) == Sub(Mul(st.cap, st.sums.yy), Sq(st.sums.y))

\* NaN variances pass the guard, and the quotient is NaN then.
Quotient(parts) == IF \E k \in DOMAIN parts : parts[k] = NaN THEN <<NaN>> ELSE parts

RollingPairCorrelation(st) ==
  IF ~IsFull(st) \/ LE(VarX(st), 0) \/ LE(VarY(st), 0) THEN <<NaN>>
  ELSE Quotient(<<Cov(st), VarX(st), VarY(st)>>)

\* Mutant: no guard against a flat x series.
RollingPairBetaFlat(st) == IF ~IsFull(st) THEN <<NaN>> ELSE Quotient(<<Cov(st), VarX(st)>>)

RollingPairBeta(st) ==
  IF ~IsFull(st) \/ LE(VarX(st), 0) THEN <<NaN>> ELSE Quotient(<<Cov(st), VarX(st)>>)

EmitLoweredRollingPair(st, x, y) == Push(st, <<x, y>>, SumsOf)

LoweredCorr(st, p) ==
  IF st.count = p /\ GT(VarX(st), 0) /\ GT(VarY(st), 0)
  THEN Quotient(<<Cov(st), VarX(st), VarY(st)>>) ELSE <<NaN>>

LoweredBeta(st, p) ==
  IF st.count = p /\ GT(VarX(st), 0) THEN Quotient(<<Cov(st), VarX(st)>>) ELSE <<NaN>>

-----------------------------------------------------------------------------
(* lag: the value is read before the push *)

NoLagSums == << >>
LagRing(p) == Ring(p, NoLagSums)
LagOf(e) == << >>

LagPush(st, p, x) == Push(Fitted(st, p, NoLagSums), <<x, 0>>, LagOf)

LagValue(st) ==
  IF st.cap = 0 \/ st.count < st.cap THEN NaN ELSE st.buf[st.head][1]

EmitLoweredLag(st, p, x) ==
  [state |-> Push(st, <<x, 0>>, LagOf),
   out |-> IF st.count = p THEN st.buf[st.head][1] ELSE NaN]

\* No count in the specialised code: it neither tests it nor keeps it.
EmitLoweredLagWarm(st, p, x) ==
  [state |-> [st EXCEPT !.buf[st.head] = <<x, 0>>, !.head = (@ + 1) % p],
   out |-> st.buf[st.head][1]]

-----------------------------------------------------------------------------
Init ==
  /\ period \in Periods
  /\ window = << >> /\ seenNaN = FALSE /\ warm = FALSE
  /\ vwap = Ring(0, NoPV) /\ pair = Ring(0, NoSums) /\ lag = LagRing(0)
  /\ lowVwap = Ring(period, NoPV) /\ lowPair = Ring(period, NoSums) /\ lowLag = LagRing(period)
  /\ past = NaN /\ lagOut = NaN /\ lowLagOut = NaN

Tick(x, y) ==
  LET price == IF x = NaN THEN 0 ELSE x   \* prices come from the market, not from lag
      lowered == IF warm THEN EmitLoweredLagWarm(lowLag, period, x)
                         ELSE EmitLoweredLag(lowLag, period, x)
  IN  /\ vwap' = VwapPush(vwap, period, price, Volume(y))
      /\ lowVwap' = EmitLoweredVwap(lowVwap, price, Volume(y))
      /\ pair' = RollingPairPush(pair, period, x, y)
      /\ lowPair' = EmitLoweredRollingPair(lowPair, x, y)
      /\ lagOut' = LagValue(lag)
      /\ lag' = LagPush(lag, period, x)
      /\ lowLagOut' = lowered.out
      /\ lowLag' = lowered.state
      /\ past' = IF Len(window) = period THEN window[1][1] ELSE NaN
      /\ window' = Append(IF Len(window) = period THEN Tail(window) ELSE window, <<x, y>>)
      /\ seenNaN' = (seenNaN \/ x = NaN)
      /\ UNCHANGED <<period, warm>>

Promote == /\ ~warm /\ Len(window) >= WarmupThreshold(period)
           /\ warm' = TRUE
           /\ UNCHANGED <<period, window, seenNaN, vwap, lowVwap, pair, lowPair, lag,
                          lowLag, past, lagOut, lowLagOut>>

Next == Promote \/ \E x \in Xs, y \in Ys : Tick(x, y)

Spec == Init /\ [][Next]_vars

-----------------------------------------------------------------------------
Full == Len(window) = period

\* vwap is the volume-weighted mean of the window: running sums that always
\* hold exactly the entries of the ring, and never a zero denominator.
VwapIsWindowAverage ==
  window # << >> =>
    LET price(k) == IF window[k][1] = NaN THEN 0 ELSE window[k][1]
        vol(k) == Volume(window[k][2])
        ref == IF Full THEN <<SumOf([k \in 1 .. period |-> price(k) * vol(k)], period),
                              SumOf([k \in 1 .. period |-> vol(k)], period)>>
               ELSE <<NaN>>
    IN  VwapValue(vwap) = ref /\ LoweredVwapValue(lowVwap, period) = ref

\* n * cov of the window by the two-pass definition.
CovRef(i, j) ==
  LET total(d) == SumOf([k \in 1 .. period |-> window[k][d]], period)
      dev(k, d) == period * window[k][d] - total(d)
  IN  SumOf([k \in 1 .. period |-> dev(k, i) * dev(k, j)], period) \div period

CorrRef == IF seenNaN \/ ~Full \/ CovRef(1, 1) = 0 \/ CovRef(2, 2) = 0 THEN <<NaN>>
           ELSE <<CovRef(1, 2), CovRef(1, 1), CovRef(2, 2)>>
BetaRef == IF seenNaN \/ ~Full \/ CovRef(1, 1) = 0 THEN <<NaN>>
           ELSE <<CovRef(1, 2), CovRef(1, 1)>>

\* rolling_corr and rolling_beta are those of the window, undefined on flat
\* series; once an operand was NaN they are NaN for good, in every backend.
PairStatsOfWindow ==
  window # << >> =>
    /\ RollingPairCorrelation(pair) = CorrRef /\ LoweredCorr(lowPair, period) = CorrRef
    /\ RollingPairBeta(pair) = BetaRef /\ LoweredBeta(lowPair, period) = BetaRef

\* lag is the sample of `period' ticks ago, specialised code included.
LagIsPast == lagOut = past /\ lowLagOut = past
=============================================================================
