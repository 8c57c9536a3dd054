--------------------------- MODULE MCSignalContext ---------------------------
(* Two signals with one operator of each family.  Returning: the second goes *)
(* back to its first call before its last,                                   *)
(*   ema(x, 2) + kalman1d(x, q, r) + ema(x, 2) + sma(x, 2)                   *)
(* where both emas have one node id.  Repeating: it ends on that call,       *)
(*   ema(x, 2) + kalman1d(x, q, r) + ema(x, 2)                               *)
EXTENDS SignalContext

CallOf(id, op, period) == [id |-> id, op |-> op, period |-> period]

First == <<CallOf(1, "ring", 2), CallOf(2, "mono", 1)>>
Shared == <<CallOf(3, "ema", 2), CallOf(4, "cell", 1), CallOf(3, "ema", 2)>>

Returning == <<First, Append(Shared, CallOf(5, "ring", 2))>>
Repeating == <<First, Shared>>
=============================================================================
