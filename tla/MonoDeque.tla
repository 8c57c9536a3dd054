----------------------------- MODULE MonoDeque -----------------------------
(***************************************************************************)
(* The monotonic deque behind rolling_min and rolling_max: entries with    *)
(* the tick they came at, in a circular buffer of period + 1 entries, as   *)
(* src/src/runtime.cpp keeps it (MonoDequeState and a tick index) and as   *)
(* the lowered IR of src/src/jit_compiler.cpp does                         *)
(* (RollingMinMaxStateLowered).                                            *)
(***************************************************************************)
EXTENDS Ieee

GE(a, b) == FLe(b, a)
LE(a, b) == FLe(a, b)

EmptyDeque(cap) == [cap |-> cap, head |-> 0, count |-> 0,
                    buf |-> [k \in 0 .. cap - 1 |-> [tick |-> 0, val |-> Whole(0)]]]

\* Mutant: no entry to spare for the push that precedes the eviction.
MonoInitTight(dq, p) == IF dq.cap = p THEN dq ELSE EmptyDeque(p)

MonoInit(dq, p) == IF dq.cap = p + 1 THEN dq ELSE EmptyDeque(p + 1)

\* The k-th entry from the front, counted from 0.
Entry(dq, k) == dq.buf[(dq.head + k) % dq.cap]

MonoFront(dq) == dq.buf[dq.head]

\* while (!MonoEmpty(dq) && pops(MonoBack(dq).second, sample)) MonoPopBack(dq)
PopBack(dq, x, Pops(_, _)) ==
  [dq EXCEPT !.count =
     CHOOSE k \in 0 .. dq.count :
       /\ \A j \in k .. dq.count - 1 : Pops(Entry(dq, j).val, x)
       /\ k > 0 => ~Pops(Entry(dq, k - 1).val, x)]

MonoPushBack(dq, t, x) ==
  [dq EXCEPT !.buf[(dq.head + dq.count) % dq.cap] = [tick |-> t, val |-> x],
             !.count = @ + 1]

\* while (!MonoEmpty(dq) && idx + 1 - MonoFront(dq).first > period) MonoPopFront(dq)
EvictFront(dq, t, p) ==
  LET aged(k) == t + 1 - Entry(dq, k).tick > p
      n == CHOOSE k \in 0 .. dq.count : /\ \A j \in 0 .. k - 1 : aged(j)
                                        /\ k < dq.count => ~aged(k)
  IN  [dq EXCEPT !.head = (@ + n) % dq.cap, !.count = @ - n]

UpdateRollingMin(dq, t, p, x) ==
  EvictFront(MonoPushBack(PopBack(MonoInit(dq, p), x, GE), t, x), t, p)

UpdateRollingMax(dq, t, p, x) ==
  EvictFront(MonoPushBack(PopBack(MonoInit(dq, p), x, LE), t, x), t, p)

\* On a prewarmed deque, whose period is its capacity less one.
UpdateRollingMinPrepared(dq, t, x) ==
  EvictFront(MonoPushBack(PopBack(dq, x, GE), t, x), t, dq.cap - 1)

UpdateRollingMaxPrepared(dq, t, x) ==
  EvictFront(MonoPushBack(PopBack(dq, x, LE), t, x), t, dq.cap - 1)

\* The same three loops as basic blocks, on the prewarmed state; the window
\* is the period literal.
EmitLoweredMonoDequeRolling(dq, t, p, x, Pops(_, _)) ==
  EvictFront(MonoPushBack(PopBack(dq, x, Pops), t, x), t, p)

EmitLoweredRollingMin(dq, t, p, x) == EmitLoweredMonoDequeRolling(dq, t, p, x, GE)
EmitLoweredRollingMax(dq, t, p, x) == EmitLoweredMonoDequeRolling(dq, t, p, x, LE)

\* NaN until `period' samples have been seen.
Answer(dq, t, p) == IF t + 1 < p THEN Nan ELSE MonoFront(dq).val
=============================================================================
