------------------------------ MODULE SpscRing ------------------------------
(***************************************************************************)
(* SpscRing<T, N> (src/src/spsc_ring.h): the lock-free ring between the    *)
(* feed thread, which calls try_push, and the eval thread, which calls     *)
(* try_pop.  One action is one access to memory the other thread can see.  *)
(*                                                                         *)
(* The indices are size_t: they count modulo W (2^64 in the build, a small *)
(* multiple of N here, so that they wrap many times).                      *)
(*                                                                         *)
(* Memory order.  A load of the other side's index may return any value    *)
(* between the one this thread already knows of and the live one.  An      *)
(* acquire load that reads a release store also orders everything the      *)
(* other thread did before that store; knownHead and knownTail are the     *)
(* index values so acquired.  A slot read that is not ordered after its    *)
(* write is undefined: it yields any value.                                *)
(***************************************************************************)
EXTENDS Integers, Sequences

CONSTANTS N,        \* kCapacity, a power of two, at least 2
          Laps,     \* W / N: how many times the indices lap the ring
          Values,   \* T
          NoValue   \* contents of a slot or an out parameter never written

W == N * Laps

ASSUME CapacityAssumption == N \in Nat /\ N >= 2
\* N and 2^64 are powers of two, so N divides W; no ring fills the address space.
ASSUME WidthAssumption == Laps \in Nat /\ Laps >= 2
ASSUME ValueAssumption == NoValue \notin Values

VARIABLES head, tail,       \* head_ and tail_, the shared indices
          cachedTail,       \* cached_tail_, the producer's shadow of tail_
          cachedHead,       \* cached_head_, the consumer's shadow of head_
          slots,            \* slots_
          knownTail,        \* ghost: tail_ as acquired by the producer
          knownHead,        \* ghost: head_ as acquired by the consumer
          ppc, pval,        \* the producer: where it is in try_push(pval)
          cpc, out,         \* the consumer: where it is in try_pop(out)
          got               \* what the last successful try_pop handed out

vars == <<head, tail, cachedTail, cachedHead, slots, knownTail, knownHead,
          ppc, pval, cpc, out, got>>
producerVars == <<head, cachedTail, knownTail, ppc, pval>>
consumerVars == <<tail, cachedHead, knownHead, cpc, out, got>>

Index == 0 .. W - 1

\* Unsigned subtraction and increment of size_t, and the slot of an index.
Dist(a, b) == IF a >= b THEN a - b ELSE a - b + W
Plus(a, d) == IF a + d >= W THEN a + d - W ELSE a + d
SlotOf(i) == i % N

\* What a load may return that reads an index whose live value is `live'
\* into a thread that knows of `known'.
Loads(known, live) == {Plus(known, d) : d \in 0 .. Dist(live, known)}

Init ==
  /\ head = 0 /\ tail = 0 /\ cachedTail = 0 /\ cachedHead = 0
  /\ slots = [i \in 0 .. N - 1 |-> NoValue]
  /\ knownTail = 0 /\ knownHead = 0
  /\ ppc = "idle" /\ pval = NoValue
  /\ cpc = "idle" /\ out = NoValue /\ got = NoValue

-----------------------------------------------------------------------------
(* try_push, on the feed thread *)

\* The producer looks full to itself: h - cached_tail_ == N.
SeemsFull(h, t) == Dist(h, t) = N

\* Mutant: no boundary test on entry.
PushCallUnchecked(v) ==
  /\ ppc = "idle"
  /\ pval' = v
  /\ ppc' = "write"
  /\ UNCHANGED <<head, cachedTail, knownTail, slots, consumerVars>>

PushCall(v) ==
  /\ ppc = "idle"
  /\ pval' = v
  /\ ppc' = IF SeemsFull(head, cachedTail) THEN "refresh" ELSE "write"
  /\ UNCHANGED <<head, cachedTail, knownTail, slots, consumerVars>>

\* cached_tail_ = tail_.load(acquire)
RefreshTail(t) ==
  /\ ppc = "refresh"
  /\ t \in Loads(knownTail, tail)
  /\ cachedTail' = t
  /\ knownTail' = t
  /\ UNCHANGED <<head, pval, slots, consumerVars>>

PushFull == \E t \in Index : /\ RefreshTail(t)
                             /\ SeemsFull(head, t)
                             /\ ppc' = "idle"

PushRoom == \E t \in Index : /\ RefreshTail(t)
                             /\ ~SeemsFull(head, t)
                             /\ ppc' = "write"

PushWrite ==
  /\ ppc = "write"
  /\ slots' = [slots EXCEPT ![SlotOf(head)] = pval]
  /\ ppc' = "publish"
  /\ UNCHANGED <<head, cachedTail, knownTail, pval, consumerVars>>

\* head_.store(h + 1, release); try_push returns true
PushPublish ==
  /\ ppc = "publish"
  /\ head' = Plus(head, 1)
  /\ ppc' = "idle"
  /\ UNCHANGED <<cachedTail, knownTail, pval, slots, consumerVars>>

-----------------------------------------------------------------------------
(* try_pop, on the eval thread *)

SeemsEmpty(t, h) == t = h

PopCall ==
  /\ cpc = "idle"
  /\ cpc' = IF SeemsEmpty(tail, cachedHead) THEN "refresh" ELSE "read"
  /\ UNCHANGED <<tail, cachedHead, knownHead, out, got, slots, producerVars>>

\* Mutant: a relaxed load, which orders nothing.
RefreshHeadRelaxed(h) ==
  /\ cpc = "refresh"
  /\ h \in Loads(knownHead, head)
  /\ cachedHead' = h
  /\ UNCHANGED <<knownHead, tail, out, got, slots, producerVars>>

\* cached_head_ = head_.load(acquire)
RefreshHead(h) ==
  /\ cpc = "refresh"
  /\ h \in Loads(knownHead, head)
  /\ cachedHead' = h
  /\ knownHead' = h
  /\ UNCHANGED <<tail, out, got, slots, producerVars>>

PopEmpty == \E h \in Index : /\ RefreshHead(h)
                             /\ SeemsEmpty(tail, h)
                             /\ cpc' = "idle"

PopSome == \E h \in Index : /\ RefreshHead(h)
                            /\ ~SeemsEmpty(tail, h)
                            /\ cpc' = "read"

\* Mutant: the slot after the oldest one.
PopReadNext ==
  /\ cpc = "read"
  /\ out' = slots[SlotOf(Plus(tail, 1))]
  /\ cpc' = "release"
  /\ UNCHANGED <<tail, cachedHead, knownHead, got, slots, producerVars>>

\* out = slots_[t & kMask]; any value if the write is not ordered before it.
PopRead ==
  /\ cpc = "read"
  /\ IF Dist(knownHead, tail) > 0
     THEN out' = slots[SlotOf(tail)]
     ELSE out' \in Values \cup {NoValue}
  /\ cpc' = "release"
  /\ UNCHANGED <<tail, cachedHead, knownHead, got, slots, producerVars>>

\* tail_.store(t + 1, release); try_pop returns true
PopRelease ==
  /\ cpc = "release"
  /\ tail' = Plus(tail, 1)
  /\ got' = out
  /\ cpc' = "idle"
  /\ UNCHANGED <<cachedHead, knownHead, out, slots, producerVars>>

-----------------------------------------------------------------------------
ProducerStep == PushFull \/ PushRoom \/ PushWrite \/ PushPublish
ConsumerStep == PopEmpty \/ PopSome \/ PopRead \/ PopRelease

Next == \/ \E v \in Values : PushCall(v)
        \/ ProducerStep
        \/ PopCall
        \/ ConsumerStep

Spec == Init /\ [][Next]_vars

-----------------------------------------------------------------------------
TypeOK ==
  /\ head \in Index /\ tail \in Index
  /\ cachedTail \in Index /\ cachedHead \in Index
  /\ knownTail \in Index /\ knownHead \in Index
  /\ slots \in [0 .. N - 1 -> Values \cup {NoValue}]
  /\ ppc \in {"idle", "refresh", "write", "publish"}
  /\ cpc \in {"idle", "refresh", "read", "release"}
  /\ pval \in Values \cup {NoValue}
  /\ out \in Values \cup {NoValue}
  /\ got \in Values \cup {NoValue}

\* The ring order of the six indices, read backwards from head:
\*     knownTail = cachedTail <= tail <= cachedHead <= knownHead <= head
\* where the oldest and the newest are at most N apart.  A shadow index is
\* an over-conservative estimate, never ahead of the index it shadows.
RingOrder ==
  /\ Dist(head, cachedTail) <= N
  /\ Dist(head, tail) <= Dist(head, cachedTail)
  /\ Dist(head, cachedHead) <= Dist(head, tail)
  /\ Dist(head, knownHead) <= Dist(head, cachedHead)
  /\ knownTail = cachedTail

\* A thread is past its boundary test only if the test came out that way.
Guarded ==
  /\ ppc \in {"write", "publish"} => Dist(head, cachedTail) < N
  /\ cpc \in {"read", "release"} => cachedHead # tail

\* What a thread carries between its two accesses to shared memory.
Carried ==
  /\ ppc # "idle" => pval \in Values
  /\ ppc = "publish" => slots[SlotOf(head)] = pval
  /\ cpc = "release" => out = slots[SlotOf(tail)]

IndInv == TypeOK /\ RingOrder /\ Guarded /\ Carried

\* No data race on a slot: the threads are never at accesses of one slot at
\* the same time, and every access is ordered, through an acquired index,
\* after the other thread's last use of that slot (spsc_ring.h:22-30).
SlotRaceFree ==
  /\ ~(ppc = "write" /\ cpc = "read" /\ SlotOf(head) = SlotOf(tail))
  /\ ppc = "write" => Dist(head, knownTail) < N
  /\ cpc = "read" => Dist(knownHead, tail) > 0

\* "We never report `not full' when we are full" (spsc_ring.h:34-36): the
\* store of a successful try_push finds fewer than N elements in the ring.
NeverOverfull == ppc = "publish" => Dist(head, tail) < N

\* The ring implements the bounded queue: the queue is what lies between
\* the live tail and the live head.
queue == [i \in 1 .. Dist(head, tail) |-> slots[SlotOf(Plus(tail, i - 1))]]
Abstract == INSTANCE Fifo WITH q <- queue
Refines == Abstract!Spec
=============================================================================
