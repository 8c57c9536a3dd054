-------------------------------- MODULE Fifo --------------------------------
(***************************************************************************)
(* What SpscRing promises its two callers: a bounded first-in first-out    *)
(* queue.  A successful try_push appends, a successful try_pop removes the *)
(* oldest element and hands it out; a call that returns false changes      *)
(* nothing.                                                                *)
(***************************************************************************)
EXTENDS Naturals, Sequences

CONSTANTS N,       \* kCapacity
          Values,  \* what the ring carries
          NoValue  \* the caller's out parameter before the first try_pop

VARIABLES q,       \* the queued values, oldest first
          got      \* the value the last successful try_pop handed out

vars == <<q, got>>

Init == q = << >> /\ got = NoValue

Push(v) == /\ Len(q) < N
           /\ q' = Append(q, v)
           /\ got' = got

Pop == /\ q # << >>
       /\ got' = Head(q)
       /\ q' = Tail(q)

Next == Pop \/ \E v \in Values : Push(v)

Spec == Init /\ [][Next]_vars
=============================================================================
