---------------------------- MODULE Recurrences ----------------------------
(***************************************************************************)
(* The operators with a constant amount of state: ema, ema_alpha,          *)
(* cross_above, cross_below and kalman1d.  The interpreter and the opaque  *)
(* JIT calls (jit_rt_ and so on, src/src/runtime.cpp) keep it in the same  *)
(* arrays of a SignalContext, the lowered code (src/src/jit_compiler.cpp)  *)
(* in arrays of its own.  One context is ticked by one backend at a time;  *)
(* Swap changes the backend between two ticks.                             *)
(*                                                                         *)
(* Doubles are exact rationals (Ieee); a y may also be NaN, a model value. *)
(***************************************************************************)
EXTENDS Ieee, Sequences, FiniteSets

CONSTANTS Periods,    \* the period literals of ema
          Alphas,     \* the values of the parameter in ema_alpha(x, alpha)
          Noises,     \* the pairs <<q, r>> of kalman1d(x, q, r), literals
          Inputs,     \* the pairs <<x, y>> a tick feeds: x to all, y to the crosses
          NaN,        \* may be a y
          MaxTicks    \* bound on the length of a run

ASSUME RecurrenceAssumption ==
  /\ Periods \subseteq Nat \ {0} /\ MaxTicks \in Nat
  /\ Inputs \subseteq Int \X (Int \cup {NaN})
  /\ \A a \in Alphas : /\ a[1] \in Nat /\ a[2] \in Nat \ {0} /\ a[1] <= a[2]
                       /\ a = Rat(a[1], a[2])
  /\ Noises \subseteq Nat \X (Nat \ {0})   \* q >= 0, r > 0

Backends == {"interp", "opaque", "lowered"}

VARIABLES period, noise,       \* literals of the program
          alpha,               \* ctx.params[0]
          backend, warm,       \* who ticks; whether the lowered code is specialised
          ema, emaAlpha, above, below, kalman,        \* EMAState, CrossState, Kalman1dState
          lowEma, lowAbove, lowBelow, lowKalman,      \* their lowered mirrors
          hist,                \* ghost: what every tick was fed, and who ran it
          out, fires           \* what the last tick answered; ghost: firings so far

classic == <<ema, emaAlpha, above, below, kalman>>
lowered == <<lowEma, lowAbove, lowBelow, lowKalman>>
vars == <<period, noise, alpha, backend, warm, classic, lowered, hist, out, fires>>

-----------------------------------------------------------------------------
\* Comparisons of doubles: NaN fails them all.
LE(a, b) == NaN \notin {a, b} /\ a <= b
LT(a, b) == NaN \notin {a, b} /\ a < b

-----------------------------------------------------------------------------
(* ema and ema_alpha: each step yields the new EMAState, whose value is the *)
(* answer.                                                                  *)

EmaFresh == [init |-> FALSE, value |-> Whole(0), alpha |-> Whole(0)]
AlphaOf(p) == Rat(2, p + 1)

Blend(a, x, v) == FAdd(FMul(a, Whole(x)), FMul(FSub(Whole(1), a), v))

EvalEma(st, p, x) ==
  IF ~st.init THEN [st EXCEPT !.init = TRUE, !.value = Whole(x)]
  ELSE [st EXCEPT !.value = Blend(AlphaOf(p), x, @)]

EvalEmaAlpha(st, a, x) ==
  [init |-> TRUE, alpha |-> a,
   value |-> IF st.init THEN Blend(a, x, st.value) ELSE Whole(x)]

\* Both of the runtime's calls set alpha on the first tick and keep it.
jit_rt_ema(st, p, x) ==
  IF ~st.init THEN [init |-> TRUE, value |-> Whole(x), alpha |-> AlphaOf(p)]
  ELSE [st EXCEPT !.value = Blend(st.alpha, x, @)]

jit_rt_ema_alpha(st, a, x) ==
  IF ~st.init THEN [init |-> TRUE, value |-> Whole(x), alpha |-> a]
  ELSE [st EXCEPT !.value = Blend(st.alpha, x, @)]

\* Mutant: warm code on a state that never had a first tick.
EmitLoweredEmaAlwaysWarm(st, p, x) ==
  [st EXCEPT !.init = TRUE, !.value = Blend(AlphaOf(p), x, @)]

EmitLoweredEma(st, p, x) ==
  LET blended == Blend(AlphaOf(p), x, st.value)
  IN  [st EXCEPT !.init = TRUE, !.value = IF st.init THEN blended ELSE Whole(x)]

\* The specialised code does not look whether the state is initialised.
EmitLoweredEmaWarm(st, p, x) == [st EXCEPT !.value = Blend(AlphaOf(p), x, @)]

\* What PrewarmSignalContext leaves in the runtime's slot.
EmaPrewarmed(p) == [EmaFresh EXCEPT !.alpha = AlphaOf(p)]

-----------------------------------------------------------------------------
(* cross_above and cross_below *)

CrossFresh == [init |-> FALSE, a |-> 0, b |-> 0]
CrossNext(a, b) == [init |-> TRUE, a |-> a, b |-> b]

\* Mutant: a touch does not arm the operator.
CrossedAboveStrict(st, a, b) == st.init /\ LT(st.a, st.b) /\ LT(b, a)

CrossedAbove(st, a, b) == st.init /\ LE(st.a, st.b) /\ LT(b, a)
CrossedBelow(st, a, b) == st.init /\ LE(st.b, st.a) /\ LT(a, b)

-----------------------------------------------------------------------------
(* kalman1d *)

KalmanFresh == [init |-> FALSE, xhat |-> Whole(0), p |-> Whole(0)]

\* Mutant: the prediction step forgets the process noise.
Kalman1dStepNoPredict(st, x, q, r) ==
  IF ~st.init THEN [init |-> TRUE, xhat |-> Whole(x), p |-> r]
  ELSE LET k == FDiv(st.p, FAdd(st.p, r))
       IN  [st EXCEPT !.xhat = FAdd(@, FMul(k, FSub(Whole(x), @))),
                      !.p = FMul(FSub(Whole(1), k), st.p)]

\* denom <= 0 and p_new < 0 do not happen for q >= 0 and r > 0.
Kalman1dStep(st, x, q, r) ==
  IF ~st.init THEN [init |-> TRUE, xhat |-> Whole(x), p |-> r]
  ELSE LET pPred == FAdd(st.p, q)
           k == FDiv(pPred, FAdd(pPred, r))
       IN  [st EXCEPT !.xhat = FAdd(@, FMul(k, FSub(Whole(x), @))),
                      !.p = FMul(FSub(Whole(1), k), pPred)]

EmitLoweredKalman1d(st, x, q, r) ==
  LET pPred == FAdd(st.p, q)
      k == FDiv(pPred, FAdd(pPred, r))
      update == [init |-> TRUE, xhat |-> FAdd(st.xhat, FMul(k, FSub(Whole(x), st.xhat))),
                 p |-> FMul(FSub(Whole(1), k), pPred)]
  IN  IF st.init THEN update ELSE [init |-> TRUE, xhat |-> Whole(x), p |-> r]

-----------------------------------------------------------------------------
NoOut == [ema |-> Whole(0), emaAlpha |-> Whole(0), kalman |-> Whole(0),
          above |-> FALSE, below |-> FALSE]

\* A context after PrewarmSignalContext.
Init ==
  /\ period \in Periods /\ noise \in Noises /\ alpha \in Alphas
  /\ backend \in Backends /\ warm = FALSE
  /\ ema = EmaPrewarmed(period) /\ emaAlpha = EmaFresh
  /\ above = CrossFresh /\ below = CrossFresh /\ kalman = KalmanFresh
  /\ lowEma = EmaFresh /\ lowAbove = CrossFresh /\ lowBelow = CrossFresh
  /\ lowKalman = KalmanFresh
  /\ hist = << >> /\ out = NoOut /\ fires = [above |-> 0, below |-> 0]

\* The parts of a tick all backends share: ema_alpha has no lowered form.
TickWith(x, y, emaNew, emaAlphaNew, aboveNow, belowNow, kalmanNew) ==
  /\ emaAlpha' = emaAlphaNew
  /\ out' = [ema |-> emaNew.value, emaAlpha |-> emaAlphaNew.value,
             kalman |-> kalmanNew.xhat, above |-> aboveNow, below |-> belowNow]
  /\ fires' = [above |-> fires.above + (IF aboveNow THEN 1 ELSE 0),
               below |-> fires.below + (IF belowNow THEN 1 ELSE 0)]
  /\ hist' = Append(hist, [x |-> x, y |-> y, alpha |-> alpha, by |-> backend])
  /\ UNCHANGED <<period, noise, alpha, backend, warm>>

TickClassic(x, y) ==
  LET q == Whole(noise[1])
      r == Whole(noise[2])
      interpreted == backend = "interp"
  IN  /\ backend \in {"interp", "opaque"} /\ Len(hist) < MaxTicks
      /\ ema' = IF interpreted THEN EvalEma(ema, period, x) ELSE jit_rt_ema(ema, period, x)
      /\ kalman' = Kalman1dStep(kalman, x, q, r)
      /\ above' = CrossNext(x, y) /\ below' = CrossNext(x, y)
      /\ TickWith(x, y, ema',
                  IF interpreted THEN EvalEmaAlpha(emaAlpha, alpha, x)
                                 ELSE jit_rt_ema_alpha(emaAlpha, alpha, x),
                  CrossedAbove(above, x, y), CrossedBelow(below, x, y), kalman')
      /\ UNCHANGED lowered

TickLowered(x, y) ==
  LET q == Whole(noise[1])
      r == Whole(noise[2])
  IN  /\ backend = "lowered" /\ Len(hist) < MaxTicks
      /\ lowEma' = IF warm THEN EmitLoweredEmaWarm(lowEma, period, x)
                           ELSE EmitLoweredEma(lowEma, period, x)
      /\ lowKalman' = EmitLoweredKalman1d(lowKalman, x, q, r)
      /\ lowAbove' = CrossNext(x, y) /\ lowBelow' = CrossNext(x, y)
      /\ TickWith(x, y, lowEma', jit_rt_ema_alpha(emaAlpha, alpha, x),
                  CrossedAbove(lowAbove, x, y), CrossedBelow(lowBelow, x, y), lowKalman')
      /\ UNCHANGED <<ema, above, below, kalman>>

\* SetStandaloneParameters between two ticks.
SetParameter(a) ==
  /\ a # alpha /\ Len(hist) < MaxTicks
  /\ alpha' = a
  /\ UNCHANGED <<period, noise, backend, warm, classic, lowered, hist, out, fires>>

\* The caller goes on with another backend on the same context.
Swap(b) ==
  /\ b # backend /\ ~warm /\ Len(hist) \in 1 .. MaxTicks - 1
  /\ backend' = b
  /\ UNCHANGED <<period, noise, alpha, warm, classic, lowered, hist, out, fires>>

\* TieredProgramJit promotes; an ema is warm after one tick.
Promote ==
  /\ backend = "lowered" /\ ~warm /\ Len(hist) \in 1 .. MaxTicks - 1
  /\ \A i \in DOMAIN hist : hist[i].by = "lowered"
  /\ warm' = TRUE
  /\ UNCHANGED <<period, noise, alpha, backend, classic, lowered, hist, out, fires>>

Next == \/ \E i \in Inputs : TickClassic(i[1], i[2]) \/ TickLowered(i[1], i[2])
        \/ \E a \in Alphas : SetParameter(a)
        \/ \E b \in Backends : Swap(b)
        \/ Promote

Spec == Init /\ [][Next]_vars

-----------------------------------------------------------------------------
ticks == Len(hist)

\* Lowered code has had all ticks, or none.
Unmixed == \A i, j \in 1 .. ticks : hist[i].by = "lowered" <=> hist[j].by = "lowered"

\* No runtime call of ema_alpha met an alpha that was set since the tick before.
AlphaSettled == \A i \in 2 .. ticks : hist[i].by = "interp" \/ hist[i].alpha = hist[i - 1].alpha

\* The exponentially weighted mean of the samples of s: sample i has weight
\* a[i], the first one 1, discounted by 1 - a[j] for each later sample j.
Decay(a) == [j \in DOMAIN a |-> FSub(Whole(1), a[j])]
Weight(a, i) == FMul(IF i = 1 THEN Whole(1) ELSE a[i], Fold("*", Decay(a), i + 1, Len(a)))
WeightedMean(s, a) ==
  Fold("+", [i \in 1 .. Len(s) |-> FMul(Whole(s[i].x), Weight(a, i))], 1, Len(s))

\* ema is the weighted mean of every sample of its history, also when
\* interpreter and opaque JIT, which find alpha in different places, take
\* turns, and when specialised code goes on; not claimed of a context on which
\* lowered code and the others take turns, each on its own array.  ema_alpha
\* has one state for all backends and blends with the alpha supplied on each
\* tick; not claimed once a runtime call, which keeps the alpha of an earlier
\* tick (runtime.cpp:1290), meets a new one.
EmaOfHistory ==
  ticks > 0 =>
    /\ Unmixed =>
         out.ema = WeightedMean(hist, [i \in 1 .. ticks |-> AlphaOf(period)])
    /\ AlphaSettled => out.emaAlpha = WeightedMean(hist, [i \in 1 .. ticks |-> hist[i].alpha])

\* A cross operator fires once for each excursion of x above (below) y that
\* starts from a tick with x on the other side or touching, and a NaN operand
\* neither fires it nor arms it; whichever backends tick, as long as they use
\* the same arrays.
UpIn(s) ==
  Cardinality({i \in 2 .. Len(s) : LE(s[i - 1].x, s[i - 1].y) /\ LT(s[i].y, s[i].x)})
DownIn(s) ==
  Cardinality({i \in 2 .. Len(s) : LE(s[i - 1].y, s[i - 1].x) /\ LT(s[i].x, s[i].y)})
CrossOncePerExcursion ==
  Unmixed => fires.above = UpIn(hist) /\ fires.below = DownIn(hist)

\* The variance of the filter after k ticks, by the information form of the
\* Kalman update, 1/p' = 1/(p + q) + 1/r, from p = r on.
Variance(q, r, k) ==
  LET v[i \in Nat] ==
        IF i <= 1 THEN Whole(r)
        ELSE FDiv(Whole(1), FAdd(FDiv(Whole(1), FAdd(v[i - 1], Whole(q))), Rat(1, r)))
  IN  v[k]

\* The filter that answers.
Filter == IF hist[ticks].by = "lowered" THEN lowKalman ELSE kalman

\* kalman1d follows it, and with no process noise the filter is the plain mean
\* of all measurements; whichever backends tick, as long as they use the same
\* array.
KalmanOfHistory ==
  (ticks > 0 /\ Unmixed) =>
    /\ Filter.p = Variance(noise[1], noise[2], ticks)
    /\ noise[1] = 0 =>
         out.kalman = FDiv(Fold("+", [i \in 1 .. ticks |-> Whole(hist[i].x)], 1, ticks),
                           Whole(ticks))
=============================================================================
