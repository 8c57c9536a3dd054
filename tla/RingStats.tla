----------------------------- MODULE RingStats -----------------------------
(***************************************************************************)
(* The rolling window behind sma, rolling_std and zscore, as every backend *)
(* computes it: RingStatsState of src/src/runtime.cpp (the interpreter and *)
(* the jit_rt_* calls) and the IR the JIT emits for the lowered operators  *)
(* (src/src/jit_compiler.cpp).  StatsTick feeds one sample to all of them. *)
(*                                                                         *)
(* Arithmetic is exact.  With n = count, the mean is kept as n * mean and  *)
(* m2 as n * m2, which are integers for integer samples; a variance of a   *)
(* window of n is then known by n * (n - 1) * variance.  Rounding is left  *)
(* out; NaN, which absorbs every operation, is not.                        *)
(***************************************************************************)
EXTENDS WindowCall, Sequences

CONSTANT Samples     \* numbers, and NaN (a lag in its warm-up as operand)

ASSUME StreamAssumption == Samples \subseteq Int \cup {NaN}

VARIABLES samples,   \* ghost: the last `period' samples, oldest first
          clean,     \* ghost: samples since the last NaN, up to 2 * period
          tainted,   \* ghost: some sample was NaN
          interp,    \* the interpreter's RingStatsState, set up by its first push
          opaque,    \* the RingStatsState of jit_rt_sma etc., prewarmed
          lowSma,    \* LoweredSmaState
          lowStd     \* LoweredRollingStdState

statsVars == <<period, samples, clean, tainted, interp, opaque, lowSma, lowStd, warm>>

ClampNegative(a) == IF a # NaN /\ a < 0 THEN 0 ELSE a

\* n * sum over s of (element - mean)^2, by the two-pass definition.
TwoPass(s, n) == LET total == SumOf(s, n)
                     dev == [i \in 1 .. n |-> Sq(Sub(Mul(n, s[i]), total))]
                 IN  Div(SumOf(dev, n), n)

-----------------------------------------------------------------------------
(* RingStatsState *)

FreshStats(p) == [cap |-> p, buf |-> [i \in 0 .. p - 1 |-> 0], head |-> 0, count |-> 0,
                  sum |-> 0, mean |-> 0, m2 |-> 0, slides |-> 0]

\* mean and m2 of n samples, before and after one more.
OnAdd(n, st, x) ==
  [st EXCEPT !.mean = Add(st.mean, x),
             !.m2 = IF n = 0 THEN IF x = NaN THEN NaN ELSE 0
                    ELSE Div(Add(Mul(n + 1, st.m2), Sq(Sub(Mul(n, x), st.mean))), n)]

\* ... and of n samples, before and after one leaves.
OnRemove(n, st, old) ==
  [st EXCEPT !.mean = Sub(st.mean, old),
             !.m2 = Div(Sub(Mul(n - 1, st.m2), Sq(Sub(Mul(n, old), st.mean))), n)]

OnSlide(st, old, x) ==
  IF st.cap <= 1
  THEN [st EXCEPT !.mean = x, !.m2 = 0]
  ELSE LET slid == OnAdd(st.count - 1, OnRemove(st.count, st, old), x)
       IN  [slid EXCEPT !.m2 = ClampNegative(slid.m2)]

RefreshInterval(cap) == cap

\* The buffer as the loops over it read it.
Contents(st) == [i \in 1 .. st.cap |-> st.buf[i - 1]]

\* mean and m2 afresh from the buffer; sum is left as it is.
RefreshFromBuffer(st) ==
  [st EXCEPT !.mean = SumOf(Contents(st), st.count), !.m2 = TwoPass(Contents(st), st.count),
             !.slides = 0]

\* Mutant: the accumulators are never anchored to the buffer.
RefreshNever(st) == st

\* The refresh at the end of a push that slid the window.
RefreshIfDue(st) ==
  IF st.slides >= RefreshInterval(st.cap) /\ st.cap > 1 THEN RefreshFromBuffer(st) ELSE st

\* slides_since_refresh, which is only ever compared with the interval; at
\* capacity 1 it is never reset, and counts no further here.
CountSlide(st) == [st EXCEPT !.slides = IF @ < RefreshInterval(st.cap) THEN @ + 1 ELSE @]

RingStatsPushPrepared(st, x) ==
  LET full == st.count = st.cap
      old  == st.buf[st.head]
      upd  == IF full THEN OnSlide([st EXCEPT !.sum = Sub(@, old)], old, x)
              ELSE [OnAdd(st.count, st, x) EXCEPT !.count = @ + 1]
      new  == [upd EXCEPT !.buf[st.head] = x, !.sum = Add(@, x), !.head = (@ + 1) % st.cap]
  IN  IF full THEN RefreshIfDue(CountSlide(new)) ELSE new

\* The interpreter's push: as above, on a state first made to fit the period.
RingStatsPush(st, p, x) ==
  RingStatsPushPrepared(IF st.cap # p THEN FreshStats(p) ELSE st, x)

RingStatsFull(st) == st.count = st.cap /\ st.cap > 0

-----------------------------------------------------------------------------
(* The lowered states.  Their buffers are written at head and never cleared. *)

FreshLowered(p) == [buf |-> [i \in 0 .. p - 1 |-> 0], head |-> 0, count |-> 0,
                    sum |-> 0, sumsq |-> 0]

LoweredSma(st, p, x) ==
  LET wasFull == st.count = p
      old == IF wasFull THEN st.buf[st.head] ELSE 0
  IN  [st EXCEPT !.buf[st.head] = x, !.sum = Sub(Add(@, x), old),
                 !.head = (@ + 1) % p, !.count = IF wasFull THEN @ ELSE @ + 1]

\* Mutant: the entry that leaves is read after the new one is stored.
LoweredSmaWarmStored(st, p, x) ==
  [st EXCEPT !.buf[st.head] = x, !.sum = Sub(Add(@, x), x), !.head = (@ + 1) % p]

\* The specialised code: no count, no test.
LoweredSmaWarm(st, p, x) ==
  [st EXCEPT !.buf[st.head] = x, !.sum = Sub(Add(@, x), st.buf[st.head]),
             !.head = (@ + 1) % p]

LoweredRollingStd(st, p, x) ==
  LET wasFull == st.count = p
      old == IF wasFull THEN st.buf[st.head] ELSE 0
  IN  [st EXCEPT !.buf[st.head] = x, !.sum = Sub(Add(@, x), old),
                 !.sumsq = Sub(Add(@, Sq(x)), Sq(old)),
                 !.head = (@ + 1) % p, !.count = IF wasFull THEN @ ELSE @ + 1]

-----------------------------------------------------------------------------
(* What each backend answers.  A mean is given by its sum, a standard       *)
(* deviation by n * (n - 1) * variance, a zscore by n * (x - mean) and that. *)

SmaOut(st) == IF RingStatsFull(st) THEN st.sum ELSE NaN

\* jit_rt_sma_prepare and the vector reduction over the buffer it returns.
SimdSmaOut(st) == IF RingStatsFull(st) THEN SumOf(Contents(st), st.count) ELSE NaN

LoweredSmaOut(st, p) == IF warm \/ st.count = p THEN st.sum ELSE NaN

StddevSample(st) == IF st.count < 2 THEN NaN ELSE st.m2
StdOut(st) == IF RingStatsFull(st) THEN StddevSample(st) ELSE NaN

LoweredStdOut(st, p) ==
  IF st.count = p THEN ClampNegative(Sub(Mul(p, st.sumsq), Sq(st.sum))) ELSE NaN

ZscoreOut(st, x) ==
  LET sd == StdOut(st) num == Sub(Mul(st.count, x), st.sum)
  IN  IF sd \in {NaN, 0} \/ num = NaN THEN <<NaN>> ELSE <<num, sd>>

\* Mutant: no guard against a flat window.
LoweredZscoreFlat(st, p, x) ==
  LET sd == LoweredStdOut(st, p) num == Sub(Mul(p, x), st.sum)
  IN  IF sd = NaN \/ num = NaN THEN <<NaN>> ELSE <<num, sd>>

LoweredZscoreOut(st, p, x) ==
  LET sd == LoweredStdOut(st, p) num == Sub(Mul(p, x), st.sum)
  IN  IF sd \in {NaN, 0} \/ num = NaN THEN <<NaN>> ELSE <<num, sd>>

-----------------------------------------------------------------------------
StatsInit == /\ period \in Periods
        /\ samples = << >> /\ clean = 0 /\ tainted = FALSE /\ warm = FALSE
        /\ interp = FreshStats(0) /\ opaque = FreshStats(period)
        /\ lowSma = FreshLowered(period) /\ lowStd = FreshLowered(period)

StatsTick(x) ==
  /\ samples' = Append(IF Len(samples) = period THEN Tail(samples) ELSE samples, x)
  /\ clean' = IF x = NaN THEN 0 ELSE IF clean = 2 * period THEN clean ELSE clean + 1
  /\ tainted' = (tainted \/ x = NaN)
  /\ interp' = RingStatsPush(interp, period, x)
  /\ opaque' = RingStatsPushPrepared(opaque, x)
  /\ lowSma' = IF warm THEN LoweredSmaWarm(lowSma, period, x)
                       ELSE LoweredSma(lowSma, period, x)
  /\ lowStd' = LoweredRollingStd(lowStd, period, x)
  /\ UNCHANGED <<period, warm>>

StatsPromote == /\ ~warm /\ Len(samples) >= WarmupThreshold(period)
           /\ warm' = TRUE
           /\ UNCHANGED <<period, samples, clean, tainted, interp, opaque, lowSma, lowStd>>

StatsNext == StatsPromote \/ \E x \in Samples : StatsTick(x)

StatsSpec == StatsInit /\ [][StatsNext]_statsVars

-----------------------------------------------------------------------------
StatsFull == Len(samples) = period
Latest == samples[Len(samples)]

\* sma is the mean of the last `period' samples, and NaN before there are so
\* many, in all four computations, the specialised one included.  The running
\* sums of interpreter, runtime call and lowered code keep a NaN sample after
\* it has left the window; of the vector reduction over the buffer
\* (jit_compiler.cpp:1080-1132) nothing is claimed once a sample was NaN.
SmaIsWindowMean ==
  samples # << >> =>
    LET ref == IF StatsFull THEN SumOf(samples, period) ELSE NaN
        running == IF tainted THEN NaN ELSE ref
    IN  /\ SmaOut(interp) = running /\ SmaOut(opaque) = running
        /\ LoweredSmaOut(lowSma, period) = running
        /\ ~tainted => SimdSmaOut(opaque) = ref

StdRef == IF StatsFull /\ period >= 2 THEN TwoPass(samples, period) ELSE NaN

\* rolling_std is the sample deviation of the window: incremental Welford
\* with removals (runtime.cpp:429-463), its refresh, and sum of squares
\* minus square of sum (jit_compiler.cpp:1312-1318) all equal the two passes.
\* A NaN sample poisons m2, but for two windows at most: the refresh every
\* `capacity' slides (runtime.cpp:534-540) finds it gone from the buffer.  Of
\* the lowered code nothing is claimed once a sample was NaN.
StdIsWindowDeviation ==
  (samples # << >> /\ period >= 2) =>
    /\ (~tainted \/ clean = 2 * period) =>
         StdOut(interp) = StdRef /\ StdOut(opaque) = StdRef
    /\ ~tainted => LoweredStdOut(lowStd, period) = StdRef

\* zscore is undefined on a flat window and after a NaN sample, and otherwise
\* the same quotient in every backend.
ZscoresAgree ==
  (samples # << >> /\ period >= 2) =>
    LET ref == IF tainted \/ StdRef \in {NaN, 0} THEN <<NaN>>
               ELSE <<period * Latest - SumOf(samples, period), StdRef>>
    IN  /\ ZscoreOut(interp, Latest) = ref /\ ZscoreOut(opaque, Latest) = ref
        /\ LoweredZscoreOut(lowStd, period, Latest) = ref
=============================================================================
