------------------------- MODULE SpscPipelineProofs -------------------------
(***************************************************************************)
(* The ring is correct for every capacity and every index width: IndInv is *)
(* inductive, it excludes races on a slot and overfull publication, and    *)
(* under it every step of the ring is a step of the bounded queue.         *)
(*                                                                         *)
(* The ingest pipeline loses, reorders and duplicates nothing, for every   *)
(* pool of events, capacity and index width.  The ring's own invariant     *)
(* carries over, although the pipeline takes one step the ring does not:   *)
(* the acquire load of producer_done.                                      *)
(***************************************************************************)
EXTENDS SpscPipeline, SequenceTheorems, TLAPS

-----------------------------------------------------------------------------
(* Arithmetic of the indices *)

\* The index type has room for at least two laps of the ring.
LEMMA WidthFacts == W \in Nat /\ W >= 2 * N /\ N \in Nat /\ N >= 2
BY CapacityAssumption, WidthAssumption DEF W

\* Quotient and remainder of a natural number.
LEMMA DivMod == ASSUME NEW n \in Nat, n >= 1, NEW a \in Nat
                PROVE  /\ a \div n \in Nat
                       /\ a % n \in 0 .. n - 1
                       /\ a = (a \div n) * n + (a % n)
OBVIOUS

\* The only multiple of n strictly between -n and n is 0.
LEMMA NoMultiple ==
  ASSUME NEW n \in Nat, n >= 1, NEW k \in Int, k * n > -n, k * n < n
  PROVE  k = 0
<1>1. CASE k >= 1
  <2>1. k * n >= n BY <1>1
  <2> QED BY <2>1
<1>2. CASE k <= -1
  <2>1. k * n <= -n BY <1>2
  <2> QED BY <2>1
<1> QED BY <1>1, <1>2

\* Two numbers in the same residue class that are less than n apart, up to
\* a multiple of n, are that multiple apart.
LEMMA ModUnique ==
  ASSUME NEW n \in Nat, n >= 1, NEW a \in Nat, NEW b \in Nat, NEW k \in Int,
         a % n = b % n, a - b + k * n > -n, a - b + k * n < n
  PROVE  a - b + k * n = 0
<1> DEFINE qa == a \div n  qb == b \div n
<1>1. a = qa * n + (a % n) /\ qa \in Int BY DivMod
<1>2. b = qb * n + (b % n) /\ qb \in Int BY DivMod
<1> HIDE DEF qa, qb
<1>3. a - b + k * n = (qa - qb + k) * n
  <2>1. a - b = qa * n - qb * n BY <1>1, <1>2, DivMod
  <2>2. (qa - qb + k) * n = qa * n - qb * n + k * n BY <1>1, <1>2
  <2> QED BY <2>1, <2>2, <1>1, <1>2
<1>4. qa - qb + k = 0 BY <1>1, <1>2, <1>3, NoMultiple
<1> QED BY <1>3, <1>4

\* h - t of try_push is an index, and 0 exactly when the indices agree.
LEMMA DistFacts == ASSUME NEW a \in Index, NEW b \in Index
                   PROVE  /\ Dist(a, b) \in Index
                          /\ Dist(a, b) = 0 <=> a = b
BY WidthFacts DEF Dist, Index

\* An advanced index is an index.
LEMMA PlusType == ASSUME NEW a \in Index, NEW d \in Index
                  PROVE  Plus(a, d) \in Index
BY WidthFacts DEF Plus, Index

\* h & kMask names a slot of the array.
LEMMA SlotRange == ASSUME NEW a \in Index PROVE SlotOf(a) \in 0 .. N - 1
BY WidthFacts DEF SlotOf, Index

\* Indices less than a ring apart name different slots, across the wrap of
\* the index too, because N divides W.
LEMMA SlotUnique ==
  ASSUME NEW a \in Index, NEW b \in Index, Dist(a, b) > 0, Dist(a, b) < N
  PROVE  SlotOf(a) # SlotOf(b)
<1> SUFFICES ASSUME SlotOf(a) = SlotOf(b) PROVE FALSE
  OBVIOUS
<1>0. /\ a \in Nat /\ b \in Nat /\ W = Laps * N /\ Laps \in Int
      /\ N \in Nat /\ N >= 1
  BY WidthFacts, WidthAssumption, CapacityAssumption DEF Index, W
<1>1. PICK k \in {0, Laps} : Dist(a, b) = a - b + k * N
  <2>1. CASE a >= b
    <3>1. Dist(a, b) = a - b + 0 * N BY <1>0, <2>1 DEF Dist
    <3> QED BY <3>1
  <2>2. CASE ~(a >= b)
    <3>1. Dist(a, b) = a - b + Laps * N BY <1>0, <2>2 DEF Dist
    <3> QED BY <3>1
  <2> QED BY <2>1, <2>2
<1>2. k \in Int BY <1>0, <1>1
<1>3. a - b + k * N > -N /\ a - b + k * N < N BY <1>0, <1>1, <1>2
<1>4. a % N = b % N BY DEF SlotOf
<1>5. a - b + k * N = 0 BY <1>0, <1>2, <1>3, <1>4, ModUnique
<1> QED BY <1>1, <1>5

\* Advancing one of the ends by one.
LEMMA DistStep ==
  ASSUME NEW a \in Index, NEW b \in Index
  PROVE  /\ Dist(a, b) < W - 1 => Dist(Plus(a, 1), b) = Dist(a, b) + 1
         /\ Dist(a, b) > 0 => Dist(a, Plus(b, 1)) = Dist(a, b) - 1
BY WidthFacts DEF Dist, Plus, Index

\* Advancing the far end by any part of the distance.
LEMMA DistPart ==
  ASSUME NEW a \in Index, NEW b \in Index, NEW d \in 0 .. Dist(a, b)
  PROVE  /\ Plus(b, d) \in Index
         /\ Dist(a, Plus(b, d)) = Dist(a, b) - d
BY WidthFacts DEF Dist, Plus, Index

\* An index loaded from the other side lies between the known and the live.
LEMMA LoadsFacts ==
  ASSUME NEW known \in Index, NEW live \in Index, NEW v \in Loads(known, live)
  PROVE  /\ v \in Index
         /\ Dist(live, v) <= Dist(live, known)
BY DistPart, DistFacts DEF Loads, Index

-----------------------------------------------------------------------------
(* The inductive invariant *)

\* A freshly constructed ring satisfies the invariant.
LEMMA InitIndInv == Init => IndInv
<1> SUFFICES ASSUME Init PROVE IndInv
  OBVIOUS
<1>1. TypeOK BY WidthFacts DEF Init, TypeOK, Index
<1>2. RingOrder /\ Guarded /\ Carried
  BY WidthFacts DEF Init, RingOrder, Guarded, Carried, Dist
<1> QED BY <1>1, <1>2 DEF IndInv

\* Under the invariant the slot about to be written and the slot about to
\* be read are different ones.
LEMMA SlotsApart ==
  ASSUME IndInv, ppc = "write", cpc \in {"read", "release"}
  PROVE  SlotOf(head) # SlotOf(tail)
<1>1. head \in Index /\ tail \in Index /\ cachedHead \in Index
      /\ cachedTail \in Index /\ knownHead \in Index
  BY DEF IndInv, TypeOK
<1>2. Dist(head, tail) < N
  BY <1>1, DistFacts, WidthFacts DEF IndInv, RingOrder, Guarded, Index
<1>3. head # tail
  <2> SUFFICES ASSUME head = tail PROVE FALSE
    OBVIOUS
  <2>1. Dist(head, tail) = 0 BY <1>1, DistFacts
  <2>2. Dist(head, cachedHead) = 0
    BY <2>1, <1>1, DistFacts DEF IndInv, RingOrder, Index
  <2>3. cachedHead = tail BY <2>2, <1>1, DistFacts
  <2> QED BY <2>3 DEF IndInv, Guarded
<1>4. Dist(head, tail) > 0 BY <1>1, <1>3, DistFacts DEF Index
<1> QED BY <1>1, <1>2, <1>4, SlotUnique

\* Every step of try_push and try_pop preserves the invariant: one case per
\* action, the parts it disturbs below.
LEMMA StepIndInv == IndInv /\ [Next]_vars => IndInv'
<1> SUFFICES ASSUME IndInv, [Next]_vars PROVE IndInv'
  OBVIOUS
<1> USE DEF IndInv
<1>t. /\ head \in Index /\ tail \in Index /\ cachedHead \in Index
      /\ cachedTail \in Index /\ knownHead \in Index /\ knownTail \in Index
  BY DEF TypeOK
<1>d. /\ Dist(head, tail) \in Index /\ Dist(head, cachedTail) \in Index
      /\ Dist(head, cachedHead) \in Index /\ Dist(head, knownHead) \in Index
  BY <1>t, DistFacts
<1>1. ASSUME NEW v \in Values, PushCall(v) PROVE IndInv'
  <2> USE <1>1 DEF PushCall, consumerVars
  <2>1. TypeOK' BY DEF TypeOK
  <2>2. RingOrder' BY DEF RingOrder, TypeOK
  <2>3. Guarded'
    BY <1>t, <1>d, DistFacts, WidthFacts
    DEF Guarded, RingOrder, SeemsFull, TypeOK, Index
  <2>4. Carried' BY DEF Carried
  <2> QED BY <2>1, <2>2, <2>3, <2>4
<1>2. ASSUME NEW t \in Index, RefreshTail(t),
             \/ SeemsFull(head, t) /\ ppc' = "idle"
             \/ ~SeemsFull(head, t) /\ ppc' = "write"
      PROVE  IndInv'
  <2> USE <1>2 DEF RefreshTail, consumerVars
  <2>1. TypeOK' BY DEF TypeOK
  <2>2. Dist(head, tail) <= Dist(head, t) /\ Dist(head, t) <= N
    BY <1>t, WidthFacts DEF RingOrder, Loads, Dist, Plus, Index
  <2>3. RingOrder' BY <2>2, <1>t, <1>d DEF RingOrder
  <2>4. Guarded'
    <3>1. Dist(head, t) \in Int BY <1>t, DistFacts DEF Index
    <3>2. ~SeemsFull(head, t) => Dist(head, t) < N
      BY <3>1, <2>2, WidthFacts DEF SeemsFull
    <3> QED BY <3>2 DEF Guarded
  <2>5. Carried' BY DEF Carried
  <2> QED BY <2>1, <2>3, <2>4, <2>5
<1>3. CASE PushWrite
  <2> USE <1>3 DEF PushWrite, consumerVars
  <2>1. TypeOK' BY <1>t, SlotRange DEF TypeOK, Carried
  <2>2. RingOrder' BY DEF RingOrder
  <2>3. Guarded' BY DEF Guarded
  <2>4. Carried' BY <1>t, SlotRange, SlotsApart DEF Carried, TypeOK
  <2> QED BY <2>1, <2>2, <2>3, <2>4
<1>4. CASE PushPublish
  <2> USE <1>4 DEF PushPublish, consumerVars
  <2>0. 1 \in Index BY WidthFacts DEF Index
  <2>1. TypeOK' BY <1>t, <2>0, PlusType DEF TypeOK
  <2>2. /\ Dist(head', cachedTail) = Dist(head, cachedTail) + 1
        /\ Dist(head', tail) = Dist(head, tail) + 1
        /\ Dist(head', cachedHead) = Dist(head, cachedHead) + 1
        /\ Dist(head', knownHead) = Dist(head, knownHead) + 1
        /\ Dist(head, cachedTail) < N
    BY <1>t, <1>d, DistStep, WidthFacts DEF RingOrder, Guarded, Index
  <2>3. RingOrder' BY <2>2, <1>d, WidthFacts DEF RingOrder, Index
  <2>4. Guarded' BY DEF Guarded
  <2>5. Carried' BY DEF Carried
  <2> QED BY <2>1, <2>3, <2>4, <2>5
<1>5. CASE PopCall
  <2> USE <1>5 DEF PopCall, producerVars
  <2>1. TypeOK' BY DEF TypeOK
  <2>2. RingOrder' BY DEF RingOrder
  <2>3. Guarded' BY DEF Guarded, SeemsEmpty
  <2>4. Carried' BY DEF Carried
  <2> QED BY <2>1, <2>2, <2>3, <2>4
<1>6. ASSUME NEW h \in Index, RefreshHead(h),
             \/ SeemsEmpty(tail, h) /\ cpc' = "idle"
             \/ ~SeemsEmpty(tail, h) /\ cpc' = "read"
      PROVE  IndInv'
  <2> USE <1>6 DEF RefreshHead, producerVars
  <2>1. TypeOK' BY DEF TypeOK
  <2>2. Dist(head, h) <= Dist(head, knownHead) /\ Dist(head, h) \in Index
    BY <1>t, LoadsFacts, DistFacts
  <2>3. RingOrder' BY <2>2, <1>t, <1>d DEF RingOrder, Index
  <2>4. Guarded' BY DEF Guarded, SeemsEmpty
  <2>5. Carried' BY DEF Carried
  <2> QED BY <2>1, <2>3, <2>4, <2>5
<1>7. CASE PopRead
  <2> USE <1>7 DEF PopRead, producerVars
  <2>0. Dist(knownHead, tail) > 0
    BY <1>t, <1>d, WidthFacts DEF RingOrder, Guarded, Dist, Index
  <2>1. TypeOK' BY <2>0, <1>t, SlotRange DEF TypeOK
  <2>2. RingOrder' BY DEF RingOrder
  <2>3. Guarded' BY DEF Guarded
  <2>4. Carried' BY <2>0 DEF Carried
  <2> QED BY <2>1, <2>2, <2>3, <2>4
<1>8. CASE PopRelease
  <2> USE <1>8 DEF PopRelease, producerVars
  <2>0. 1 \in Index BY WidthFacts DEF Index
  <2>1. TypeOK' BY <1>t, <2>0, PlusType DEF TypeOK
  <2>2. Dist(head, cachedHead) < Dist(head, tail)
    BY <1>t, WidthFacts DEF RingOrder, Guarded, Dist, Index
  <2>3. Dist(head, tail') = Dist(head, tail) - 1
    BY <2>2, <1>t, <1>d, DistStep DEF Index
  <2>4. RingOrder' BY <2>2, <2>3, <1>d DEF RingOrder, Index
  <2>5. Guarded' BY DEF Guarded
  <2>6. Carried' BY DEF Carried
  <2> QED BY <2>1, <2>4, <2>5, <2>6
<1>9. CASE UNCHANGED vars
  BY <1>9 DEF vars, TypeOK, RingOrder, Guarded, Carried
<1> QED
  BY <1>1, <1>2, <1>3, <1>4, <1>5, <1>6, <1>7, <1>8, <1>9
  DEF Next, ProducerStep, ConsumerStep, PushFull, PushRoom, PopEmpty, PopSome

\* IndInv, the type invariant included, holds in every reachable state of
\* try_push and try_pop.
THEOREM Invariance == Spec => []IndInv
BY InitIndInv, StepIndInv, PTL DEF Spec

-----------------------------------------------------------------------------
(* Safety *)

\* The invariant excludes a shared slot and a publication into a full ring.
LEMMA IndInvRaceFree == IndInv => SlotRaceFree /\ NeverOverfull
<1> SUFFICES ASSUME IndInv PROVE SlotRaceFree /\ NeverOverfull
  OBVIOUS
<1>t. /\ head \in Index /\ tail \in Index /\ cachedHead \in Index
      /\ cachedTail \in Index /\ knownHead \in Index /\ knownTail \in Index
  BY DEF IndInv, TypeOK
<1>1. ~(ppc = "write" /\ cpc = "read" /\ SlotOf(head) = SlotOf(tail))
  BY SlotsApart
<1>2. ppc = "write" => Dist(head, knownTail) < N
  BY DEF IndInv, RingOrder, Guarded
<1>3. cpc = "read" => Dist(knownHead, tail) > 0
  BY <1>t, WidthFacts DEF IndInv, RingOrder, Guarded, Dist, Index
<1>4. ppc = "publish" => Dist(head, tail) < N
  BY <1>t, DistFacts, WidthFacts DEF IndInv, RingOrder, Guarded, Index
<1> QED BY <1>1, <1>2, <1>3, <1>4 DEF SlotRaceFree, NeverOverfull

\* The feed thread and the eval thread never race on a slot, in any order of
\* their steps, for every capacity and however often the indices wrap.
THEOREM RaceFreedom == Spec => []SlotRaceFree
BY Invariance, IndInvRaceFree, PTL

\* A successful try_push never publishes into a full ring.
THEOREM NoOverfullPublish == Spec => []NeverOverfull
BY Invariance, IndInvRaceFree, PTL

-----------------------------------------------------------------------------
(* The ring implements the bounded queue *)

\* The k-th queued element is fewer than N slots behind head.
LEMMA QueuedIndex ==
  ASSUME IndInv, NEW k \in 1 .. Dist(head, tail)
  PROVE  /\ Plus(tail, k - 1) \in Index
         /\ Dist(head, Plus(tail, k - 1)) = Dist(head, tail) - (k - 1)
<1>1. head \in Index /\ tail \in Index BY DEF IndInv, TypeOK
<1>2. Dist(head, tail) \in Nat BY <1>1, DistFacts, WidthFacts DEF Index
<1>3. k - 1 \in 0 .. Dist(head, tail) BY <1>2
<1> QED BY <1>1, <1>3, DistPart

\* The queue the ring stands for has one element per index between tail and
\* head.
LEMMA QueueLength ==
  ASSUME IndInv
  PROVE  /\ queue \in Seq(Values \cup {NoValue})
         /\ Len(queue) = Dist(head, tail)
         /\ Dist(head, tail) \in Nat
<1>1. Dist(head, tail) \in Nat
  BY DistFacts DEF IndInv, TypeOK, Index
<1>2. \A k \in 1 .. Dist(head, tail) :
         slots[SlotOf(Plus(tail, k - 1))] \in Values \cup {NoValue}
  BY QueuedIndex, SlotRange DEF IndInv, TypeOK
<1>3. queue \in [1 .. Dist(head, tail) -> Values \cup {NoValue}]
  BY <1>2 DEF queue
<1> QED BY <1>1, <1>3

\* A step that leaves both ends alone, and of the slots writes at most the
\* one at head when there is room, leaves the queue alone.
LEMMA QueueKept ==
  ASSUME IndInv, head' = head, tail' = tail,
         \/ slots' = slots
         \/ ppc = "write" /\ slots' = [slots EXCEPT ![SlotOf(head)] = pval]
  PROVE  queue' = queue
<1>1. CASE slots' = slots BY <1>1 DEF queue
<1>2. CASE ppc = "write" /\ slots' = [slots EXCEPT ![SlotOf(head)] = pval]
  <2>1. ASSUME NEW k \in 1 .. Dist(head, tail)
        PROVE  slots'[SlotOf(Plus(tail, k - 1))] = slots[SlotOf(Plus(tail, k - 1))]
    <3>1. head \in Index /\ tail \in Index /\ cachedTail \in Index
      BY DEF IndInv, TypeOK
    <3>2. Dist(head, tail) < N
      BY <1>2, <3>1, DistFacts, WidthFacts
      DEF IndInv, RingOrder, Guarded, Index
    <3>3. SlotOf(head) # SlotOf(Plus(tail, k - 1))
      <4>1. /\ Dist(head, Plus(tail, k - 1)) > 0
            /\ Dist(head, Plus(tail, k - 1)) < N
        <5>1. Dist(head, tail) \in Nat BY <3>1, DistFacts DEF Index
        <5>2. Dist(head, Plus(tail, k - 1)) = Dist(head, tail) - (k - 1)
          BY QueuedIndex
        <5> QED BY <5>1, <5>2, <3>2, WidthFacts
      <4> QED BY <4>1, <3>1, <2>1, QueuedIndex, SlotUnique
    <3> QED BY <1>2, <3>3, <2>1, <3>1, QueuedIndex, SlotRange DEF IndInv, TypeOK
  <2> QED BY <2>1 DEF queue
<1> QED BY <1>1, <1>2

\* The release store of head_ in try_push appends the pushed value.
LEMMA PublishAppends ==
  ASSUME IndInv, PushPublish
  PROVE  /\ pval \in Values
         /\ Len(queue) < N
         /\ queue' = Append(queue, pval)
<1> USE DEF PushPublish, consumerVars
<1>1. head \in Index /\ tail \in Index /\ cachedTail \in Index
  BY DEF IndInv, TypeOK
<1>2. Dist(head, tail) < N
  BY <1>1, DistFacts, WidthFacts DEF IndInv, RingOrder, Guarded, Index
<1>3. Dist(head', tail') = Dist(head, tail) + 1
  BY <1>1, <1>2, DistFacts, DistStep, WidthFacts DEF Index
<1>4. Plus(tail, Dist(head, tail)) = head
  BY <1>1, WidthFacts DEF Plus, Dist, Index
<1>5. slots[SlotOf(head)] = pval /\ pval \in Values
  BY DEF IndInv, Carried
<1>6. queue' = [k \in 1 .. Dist(head, tail) + 1 |->
                   slots[SlotOf(Plus(tail, k - 1))]]
  BY <1>3 DEF queue
<1>7. queue'[Dist(head, tail) + 1] = pval
  <2>1. Dist(head, tail) \in Nat BY QueueLength
  <2>2. Dist(head, tail) + 1 - 1 = Dist(head, tail) BY <2>1
  <2> QED BY <1>4, <1>5, <1>6, <2>1, <2>2
<1> DEFINE d == Dist(head, tail)  S == Values \cup {NoValue}
<1>8. d \in Nat /\ Len(queue) = d /\ queue \in Seq(S)
  BY QueueLength
<1>9. queue' = Append(queue, pval)
  <2>1. ASSUME NEW k \in 1 .. d PROVE queue'[k] = queue[k]
    <3>1. k \in 1 .. d + 1 BY <1>8
    <3>2. queue[k] = slots[SlotOf(Plus(tail, k - 1))] BY DEF queue
    <3> QED BY <3>1, <3>2, <1>6
  <2>2. \A k \in 1 .. d + 1 : queue'[k] = IF k = d + 1 THEN pval ELSE queue[k]
    BY <1>7, <1>8, <2>1
  <2>3. \A k \in 1 .. d : queue[k] \in S BY <1>8, ElementOfSeq
  <2>4. \A k \in 1 .. d + 1 : queue'[k] \in S BY <2>2, <2>3, <1>5, <1>8
  <2>5. queue' \in [1 .. d + 1 -> S] BY <1>6, <2>4
  <2>6. queue' \in Seq(S) /\ Len(queue') = d + 1 BY <2>5, <1>8
  <2>7. /\ Append(queue, pval) \in Seq(S)
        /\ Len(Append(queue, pval)) = d + 1
        /\ \A k \in 1 .. d + 1 :
              Append(queue, pval)[k] = IF k = d + 1 THEN pval ELSE queue[k]
    BY <1>5, <1>8, AppendProperties
  <2> HIDE DEF d, S
  <2> QED BY <2>2, <2>6, <2>7, SeqEqual
<1> QED BY <1>2, <1>5, <1>9, QueueLength

\* The release store of tail_ in try_pop removes the head of the queue.
LEMMA ReleasePops ==
  ASSUME IndInv, PopRelease
  PROVE  /\ queue # << >>
         /\ got' = Head(queue)
         /\ queue' = Tail(queue)
<1> USE DEF PopRelease, producerVars
<1>1. /\ head \in Index /\ tail \in Index /\ cachedHead \in Index
      /\ cpc = "release"
  BY DEF IndInv, TypeOK
<1>2. Dist(head, tail) > 0
  BY <1>1, WidthFacts DEF IndInv, RingOrder, Guarded, Dist, Index
<1>3. Dist(head', tail') = Dist(head, tail) - 1
  BY <1>1, <1>2, DistStep
<1> DEFINE d == Dist(head, tail)
<1>4. d \in Nat /\ Len(queue) = d /\ queue \in Seq(Values \cup {NoValue})
  BY QueueLength
<1>5. Head(queue) = got'
  <2>1. Plus(tail, 1 - 1) = tail BY <1>1, WidthFacts DEF Plus, Index
  <2>2. queue[1] = slots[SlotOf(tail)] BY <2>1, <1>2, <1>4 DEF queue
  <2>3. out = slots[SlotOf(tail)] BY <1>1 DEF IndInv, Carried
  <2> QED BY <2>2, <2>3, <1>2, <1>4
<1>6. ASSUME NEW k \in 1 .. d - 1
      PROVE  Plus(tail', k - 1) = Plus(tail, k)
  BY <1>1, <1>2, <1>4, WidthFacts DEF Plus, Dist, Index
<1>7. queue' = [k \in 1 .. d - 1 |-> slots[SlotOf(Plus(tail', k - 1))]]
  BY <1>3 DEF queue
<1>8. \A k \in 1 .. d - 1 : queue'[k] = queue[k + 1]
  <2> SUFFICES ASSUME NEW k \in 1 .. d - 1 PROVE queue'[k] = queue[k + 1]
    OBVIOUS
  <2>1. k + 1 \in 1 .. d /\ (k + 1) - 1 = k BY <1>4
  <2>2. queue[k + 1] = slots[SlotOf(Plus(tail, k))] BY <2>1 DEF queue
  <2> QED BY <1>6, <1>7, <2>2
<1>9. queue' = Tail(queue)
  <2> DEFINE S == Values \cup {NoValue}
  <2>1. queue # << >> BY <1>2, <1>4
  <2>2. /\ Tail(queue) \in Seq(S) /\ Len(Tail(queue)) = d - 1
        /\ \A k \in 1 .. d - 1 : Tail(queue)[k] = queue[k + 1]
    BY <1>4, <2>1, HeadTailProperties
  <2>3. \A k \in 1 .. d - 1 : queue[k + 1] \in S BY <1>4, ElementOfSeq
  <2>4. queue' \in [1 .. d - 1 -> S] BY <1>7, <1>8, <2>3
  <2>5. queue' \in Seq(S) /\ Len(queue') = d - 1 BY <2>4, <1>2, <1>4
  <2> HIDE DEF d, S
  <2> QED BY <2>2, <2>5, <1>8, SeqEqual
<1> QED BY <1>2, <1>4, <1>5, <1>9

\* Every step of the ring is a step of the bounded queue, or leaves it alone.
LEMMA StepRefines == IndInv /\ [Next]_vars => [Abstract!Next]_(Abstract!vars)
<1> SUFFICES ASSUME IndInv, [Next]_vars
             PROVE  Abstract!Next \/ UNCHANGED <<queue, got>>
  BY DEF Abstract!vars
<1>1. CASE PushPublish
  <2>1. Abstract!Push(pval)
    BY <1>1, PublishAppends DEF Abstract!Push, PushPublish, consumerVars
  <2> QED BY <2>1, <1>1, PublishAppends DEF Abstract!Next
<1>2. CASE PopRelease
  <2>1. Abstract!Pop BY <1>2, ReleasePops DEF Abstract!Pop
  <2> QED BY <2>1 DEF Abstract!Next
<1>3. ASSUME NEW v \in Values, PushCall(v) PROVE UNCHANGED <<queue, got>>
  BY <1>3, QueueKept DEF PushCall, consumerVars
<1>4. ASSUME NEW t \in Index, RefreshTail(t) PROVE UNCHANGED <<queue, got>>
  BY <1>4, QueueKept DEF RefreshTail, consumerVars
<1>5. CASE PushWrite
  BY <1>5, QueueKept DEF PushWrite, consumerVars
<1>6. CASE PopCall
  BY <1>6, QueueKept DEF PopCall, producerVars
<1>7. ASSUME NEW h \in Index, RefreshHead(h) PROVE UNCHANGED <<queue, got>>
  BY <1>7, QueueKept DEF RefreshHead, producerVars
<1>8. CASE PopRead
  BY <1>8, QueueKept DEF PopRead, producerVars
<1>9. CASE UNCHANGED vars
  BY <1>9, QueueKept DEF vars
<1> QED
  BY <1>1, <1>2, <1>3, <1>4, <1>5, <1>6, <1>7, <1>8, <1>9
  DEF Next, ProducerStep, ConsumerStep, PushFull, PushRoom, PopEmpty, PopSome

\* The ring is a bounded FIFO queue: nothing is lost, duplicated, reordered
\* or overwritten between try_push and try_pop.
THEOREM RingIsFifo == Spec => Refines
<1>1. Init => Abstract!Init
  <2> SUFFICES ASSUME Init PROVE queue = << >> /\ got = NoValue
    BY DEF Abstract!Init
  <2>1. Len(queue) = 0
    BY InitIndInv, QueueLength, WidthFacts DEF Init, Dist
  <2> QED BY <2>1, InitIndInv, QueueLength DEF Init
<1> QED BY <1>1, StepRefines, Invariance, PTL DEF Spec, Refines, Abstract!Spec

-----------------------------------------------------------------------------
(* The pipeline *)

\* Everything the proofs need of a reachable state.
PipeIndInv == IndInv /\ PipeInv /\ NothingLost

-----------------------------------------------------------------------------
(* Runs of consecutive events *)

\* m events from the one after p.
Events(p, m) == [k \in 1 .. m |-> p + k]

\* A run of events is a sequence.
LEMMA EventsSeq ==
  ASSUME NEW p \in Nat, NEW m \in Nat
  PROVE  Events(p, m) \in Seq(Nat) /\ Len(Events(p, m)) = m
<1>1. Events(p, m) \in [1 .. m -> Nat]
  BY DEF Events
<1> QED BY <1>1 DEF Events

\* Pushing the next event of the feed lengthens the run.
LEMMA EventsAppend ==
  ASSUME NEW p \in Nat, NEW m \in Nat
  PROVE  Append(Events(p, m), p + m + 1) = Events(p, m + 1)
<1> DEFINE e == Events(p, m)  f == Events(p, m + 1)  g == Append(e, p + m + 1)
<1>0. m + 1 \in Nat
  OBVIOUS
<1>1. e \in Seq(Nat) /\ Len(e) = m /\ f \in Seq(Nat) /\ Len(f) = m + 1
  BY <1>0, EventsSeq, Zenon
<1>2. g \in Seq(Nat) /\ Len(g) = m + 1
  BY <1>1, AppendProperties
<1>3. \A k \in 1 .. m + 1 : g[k] = IF k = m + 1 THEN p + m + 1 ELSE e[k]
  BY <1>1, AppendProperties
<1>4. \A k \in 1 .. m + 1 : f[k] = p + k
  BY DEF Events
<1>5. \A k \in 1 .. m : e[k] = p + k
  BY DEF Events
<1>6. \A k \in 1 .. m + 1 : f[k] = g[k]
  BY <1>3, <1>4, <1>5
<1> HIDE DEF e, f, g
<1>7. f = g
  BY <1>1, <1>2, <1>6, SeqEqual
<1> QED BY <1>7 DEF e, f, g

\* Popping the oldest event shortens it.
LEMMA EventsTail ==
  ASSUME NEW p \in Nat, NEW m \in Nat, m > 0
  PROVE  /\ Head(Events(p, m)) = p + 1
         /\ Tail(Events(p, m)) = Events(p + 1, m - 1)
<1> DEFINE e == Events(p, m)  f == Events(p + 1, m - 1)
<1>0. p + 1 \in Nat /\ m - 1 \in Nat
  OBVIOUS
<1>1. e \in Seq(Nat) /\ Len(e) = m /\ f \in Seq(Nat) /\ Len(f) = m - 1
  BY <1>0, EventsSeq, Zenon
<1>2. /\ Head(e) = e[1]
      /\ Tail(e) \in Seq(Nat) /\ Len(Tail(e)) = m - 1
      /\ \A k \in 1 .. m - 1 : Tail(e)[k] = e[k + 1]
  BY <1>1, HeadTailProperties
<1>3. e[1] = p + 1
  BY DEF Events
<1>4. \A k \in 1 .. m - 1 : e[k + 1] = p + (k + 1)
  BY DEF Events
<1>5. \A k \in 1 .. m - 1 : f[k] = (p + 1) + k
  BY DEF Events
<1>6. \A k \in 1 .. m - 1 : f[k] = Tail(e)[k]
  BY <1>2, <1>4, <1>5
<1> HIDE DEF e, f
<1>7. f = Tail(e)
  BY <1>1, <1>2, <1>6, SeqEqual
<1> QED BY <1>2, <1>3, <1>7 DEF e, f

-----------------------------------------------------------------------------
(* The ring under the pipeline *)

\* A step of the pipeline is a step of the ring, or leaves it alone, or is
\* the acquire load of producer_done.
LEMMA PipeStep ==
  ASSUME PipeTypeOK, [PipeNext]_pipeVars
  PROVE  [Next]_vars \/ AcquireDone
<1>1. CASE FeedCall
  <2>1. i + 1 \in Values
    BY <1>1, TotalAssumption DEF FeedCall, PipeTypeOK
  <2> QED BY <1>1, <2>1 DEF FeedCall, Next
<1>2. CASE FeedFull \/ FeedRoom \/ FeedWrite \/ FeedPublish
  BY <1>2 DEF FeedFull, FeedRoom, FeedWrite, FeedPublish, Next, ProducerStep
<1>3. CASE EvalCall \/ EvalSome \/ EvalRead \/ EvalEmpty \/ EvalRelease
  BY <1>3 DEF EvalCall, EvalSome, EvalRead, EvalEmpty, EvalRelease, Next, ConsumerStep
<1>4. CASE FeedFinish \/ EvalNotDone \/ EvalEmptyApprox \/ EvalApply
  BY <1>4 DEF FeedFinish, EvalNotDone, EvalEmptyApprox, EvalApply
<1>5. CASE Stop \/ UNCHANGED pipeVars
  BY <1>5 DEF Stop, pipeVars
<1> QED BY <1>1, <1>2, <1>3, <1>4, <1>5 DEF PipeNext, Feed, Eval

\* producer_done, acquired, orders head_ as well: the ring's invariant
\* survives, and neither the queue nor the last value changes.
LEMMA AcquireDoneRing ==
  ASSUME IndInv, AcquireDone
  PROVE  IndInv' /\ queue' = queue /\ got' = got
<1>t. /\ head \in Index /\ tail \in Index /\ cachedHead \in Index
      /\ cachedTail \in Index /\ knownHead \in Index
  BY DEF IndInv, TypeOK
<1>1. TypeOK'
  BY DEF IndInv, TypeOK, AcquireDone
<1>2. Dist(head, head) = 0 /\ Dist(head, cachedHead) \in Nat
  BY <1>t, DistFacts DEF Index
<1>3. RingOrder'
  BY <1>2 DEF IndInv, RingOrder, AcquireDone
<1>4. Guarded' /\ Carried'
  BY DEF IndInv, Guarded, Carried, AcquireDone
<1>5. queue' = queue
  BY QueueKept DEF AcquireDone
<1> QED BY <1>1, <1>3, <1>4, <1>5 DEF IndInv, AcquireDone

\* The ring's invariant is preserved by the pipeline.
LEMMA PipeRing ==
  ASSUME IndInv, PipeTypeOK, [PipeNext]_pipeVars
  PROVE  IndInv'
BY PipeStep, AcquireDoneRing, StepIndInv

\* The steps that are neither the publication nor the release of an element
\* leave the queue alone.
LEMMA QuietSteps ==
  ASSUME IndInv, PipeTypeOK, [PipeNext]_pipeVars, ~FeedPublish, ~EvalRelease
  PROVE  queue' = queue
<1>1. CASE FeedCall \/ EvalCall
  BY <1>1, QueueKept DEF FeedCall, PushCall, EvalCall, PopCall, consumerVars, producerVars
<1>2. CASE FeedFull \/ FeedRoom
  BY <1>2, QueueKept DEF FeedFull, FeedRoom, PushFull, PushRoom, RefreshTail, consumerVars
<1>3. CASE EvalSome \/ EvalEmpty
  BY <1>3, QueueKept DEF EvalSome, EvalEmpty, PopSome, PopEmpty, RefreshHead, producerVars
<1>4. CASE FeedWrite
  BY <1>4, QueueKept DEF FeedWrite, PushWrite, consumerVars
<1>5. CASE EvalRead
  BY <1>5, QueueKept DEF EvalRead, PopRead, producerVars
<1>6. CASE FeedFinish \/ EvalNotDone \/ EvalEmptyApprox \/ EvalApply
  BY <1>6, QueueKept DEF FeedFinish, EvalNotDone, EvalEmptyApprox, EvalApply, vars
<1>7. CASE Stop \/ UNCHANGED pipeVars
  BY <1>7, QueueKept DEF Stop, pipeVars, vars
<1>8. CASE AcquireDone
  BY <1>8, AcquireDoneRing
<1> QED
  BY <1>1, <1>2, <1>3, <1>4, <1>5, <1>6, <1>7, <1>8 DEF PipeNext, Feed, Eval

-----------------------------------------------------------------------------
(* The pipeline's invariant *)

\* Before the first push the pipeline is in order.
LEMMA PipeInitInv == PipeInit => PipeIndInv
<1> SUFFICES ASSUME PipeInit PROVE PipeIndInv
  OBVIOUS
<1>1. IndInv
  BY InitIndInv DEF PipeInit
<1>2. PipeTypeOK
  <2>1. i \in 0 .. Total /\ processed \in 0 .. Total /\ market \in 0 .. Total
    BY TotalAssumption DEF PipeInit
  <2>2. done \in BOOLEAN /\ cstate = "pop"
    BY Zenon DEF PipeInit
  <2> QED BY <1>1, <2>1, <2>2 DEF PipeTypeOK, IndInv
<1>3. InFlight
  <2>1. Len(queue) = 0 /\ queue \in Seq(Values \cup {NoValue})
    BY <1>1, QueueLength, WidthFacts DEF PipeInit, Init, Dist
  <2>2. Events(0, 0) \in Seq(Nat) /\ Len(Events(0, 0)) = 0
    BY EventsSeq
  <2>3. queue = << >> /\ Events(0, 0) = << >>
    BY <2>1, <2>2
  <2>4. Popped = 0 /\ i = 0 /\ i - Popped = 0
    BY DEF PipeInit, Popped
  <2>5. queue = [k \in 1 .. i - Popped |-> Popped + k]
    BY <2>3, <2>4 DEF Events
  <2> QED BY <2>4, <2>5 DEF InFlight, PipeInit
<1>4. InFeedOrder /\ LoopsInStep /\ NothingLost
  BY DEF PipeInit, Init, InFeedOrder, LoopsInStep, NothingLost
<1> QED BY <1>1, <1>2, <1>3, <1>4 DEF PipeIndInv, PipeInv

\* The ring holds the events pushed and not yet popped after every step: a
\* publication adds events_pool[i], a release takes the oldest, and applying
\* it only moves the count.
LEMMA StepInFlight ==
  ASSUME PipeIndInv, [PipeNext]_pipeVars
  PROVE  InFlight'
<1> USE DEF PipeIndInv, PipeInv
<1>t. /\ i \in Nat /\ processed \in Nat /\ Popped \in Nat /\ Popped <= i /\ i - Popped \in Nat
      /\ Total \in Nat
  BY TotalAssumption DEF PipeTypeOK, Popped, InFlight
<1>q. queue = Events(Popped, i - Popped)
  BY DEF InFlight, Events
<1>1. CASE FeedPublish
  <2>1. queue' = Append(queue, pval) /\ pval = i + 1
    BY <1>1, PublishAppends DEF FeedPublish, PushPublish, LoopsInStep
  <2>2. Popped + (i - Popped) + 1 = i + 1 /\ (i - Popped) + 1 = (i + 1) - Popped
    BY <1>t
  <2>3. queue' = Events(Popped, (i + 1) - Popped)
    BY <1>t, <1>q, <2>1, <2>2, EventsAppend
  <2>4. Popped' = Popped /\ i' = i + 1 /\ got' = got /\ cstate' = cstate /\ processed' = processed
    BY <1>1 DEF FeedPublish, PushPublish, consumerVars, Popped
  <2>5. queue' = Events(Popped, i - Popped)'
    BY <2>3, <2>4 DEF Events
  <2>6. Popped' <= i'
    BY <1>t, <2>4
  <2> QED BY <2>4, <2>5, <2>6 DEF InFlight, Events
<1>2. CASE EvalRelease
  <2>1. queue # << >> /\ got' = Head(queue) /\ queue' = Tail(queue)
    BY <1>2, ReleasePops DEF EvalRelease
  <2>2. cpc # "idle"
    BY <1>2 DEF EvalRelease, PopRelease
  <2>3. cstate = "pop" /\ processed < Total /\ Popped = processed
    BY <2>2 DEF LoopsInStep, Popped
  <2>4. i - Popped > 0
    <3>1. Len(queue) = i - Popped /\ queue \in Seq(Nat)
      BY <1>t, <1>q, EventsSeq
    <3> QED BY <2>1, <3>1, <1>t
  <2>5. got' = Popped + 1 /\ queue' = Events(Popped + 1, (i - Popped) - 1)
    BY <1>t, <1>q, <2>1, <2>4, EventsTail
  <2>6. Popped' = Popped + 1 /\ i' = i /\ cstate' = "apply" /\ processed' = processed
    BY <1>2, <2>3 DEF EvalRelease, Popped
  <2>7. (i - Popped) - 1 = i' - Popped' /\ Popped' <= i'
    BY <1>t, <2>4, <2>6
  <2>8. queue' = Events(Popped, i - Popped)'
    BY <2>5, <2>6, <2>7 DEF Events
  <2> QED BY <2>3, <2>5, <2>6, <2>7, <2>8 DEF InFlight, Events
<1>3. CASE ~FeedPublish /\ ~EvalRelease
  <2>1. queue' = queue
    BY <1>3, QuietSteps
  <2>2. i' = i
    BY <1>3 DEF PipeNext, Feed, Eval, FeedCall, FeedFull, FeedRoom, FeedWrite, FeedFinish,
                EvalCall, EvalSome, EvalRead, EvalEmpty, EvalNotDone, AcquireDone,
                EvalEmptyApprox, EvalApply, Stop, pipeVars, loopVars
  <2>3. Popped' = Popped /\ (cstate' = "apply" => got' = got /\ processed' = processed /\ cstate = "apply")
    <3>1. CASE EvalApply
      BY <1>t, <3>1 DEF EvalApply, Popped
    <3>2. CASE EvalNotDone \/ EvalEmpty \/ AcquireDone \/ EvalEmptyApprox
      <4>1. cstate # "apply" /\ cstate' # "apply" /\ processed' = processed
        BY <3>2 DEF EvalNotDone, EvalEmpty, AcquireDone, EvalEmptyApprox, PopEmpty,
                    RefreshHead, LoopsInStep
      <4> QED BY <4>1 DEF Popped
    <3>3. CASE EvalCall \/ EvalSome \/ EvalRead
      <4>1. cstate = "pop" /\ cstate' = cstate /\ processed' = processed
        BY <3>3 DEF EvalCall, EvalSome, EvalRead, PopSome, RefreshHead, PopRead, LoopsInStep, loopVars
      <4> QED BY <4>1 DEF Popped
    <3>4. CASE Feed \/ Stop \/ UNCHANGED pipeVars
      <4>1. cstate' = cstate /\ processed' = processed /\ got' = got
        BY <1>3, <3>4 DEF Feed, FeedCall, PushCall, FeedFull, PushFull, FeedRoom, PushRoom,
           RefreshTail, FeedWrite, PushWrite, FeedFinish, Stop, pipeVars, loopVars,
           vars, consumerVars
      <4> QED BY <4>1 DEF Popped
    <3> QED BY <1>3, <3>1, <3>2, <3>3, <3>4 DEF PipeNext, Eval
  <2> QED BY <1>t, <2>1, <2>2, <2>3 DEF InFlight
<1> QED BY <1>1, <1>2, <1>3

\* The two loops stay in step.
LEMMA StepLoops ==
  ASSUME PipeIndInv, [PipeNext]_pipeVars
  PROVE  LoopsInStep'
<1> USE DEF PipeIndInv, PipeInv
<1>t. i \in Nat /\ Total \in Nat /\ i <= Total
  BY TotalAssumption DEF PipeTypeOK
<1>1. CASE FeedCall
  BY <1>1, <1>t DEF FeedCall, PushCall, consumerVars, loopVars, LoopsInStep
<1>2. CASE FeedFull \/ FeedRoom
  BY <1>2 DEF FeedFull, FeedRoom, PushFull, PushRoom, RefreshTail, consumerVars,
              loopVars, LoopsInStep
<1>3. CASE FeedWrite
  BY <1>3 DEF FeedWrite, PushWrite, consumerVars, loopVars, LoopsInStep
<1>4. CASE FeedPublish
  BY <1>4 DEF FeedPublish, PushPublish, consumerVars, LoopsInStep
<1>5. CASE FeedFinish
  BY <1>5 DEF FeedFinish, vars, LoopsInStep
<1>6. CASE EvalCall
  BY <1>6 DEF EvalCall, PopCall, producerVars, loopVars, LoopsInStep
<1>7. CASE EvalSome \/ EvalRead
  BY <1>7 DEF EvalSome, EvalRead, PopSome, RefreshHead, PopRead, producerVars,
              loopVars, LoopsInStep
<1>8. CASE EvalEmpty
  BY <1>8 DEF EvalEmpty, PopEmpty, RefreshHead, producerVars, LoopsInStep
<1>9. CASE EvalNotDone
  BY <1>9 DEF EvalNotDone, vars, LoopsInStep
<1>10. CASE AcquireDone
  BY <1>10 DEF AcquireDone, LoopsInStep
<1>11. CASE EvalEmptyApprox
  BY <1>11 DEF EvalEmptyApprox, vars, LoopsInStep
<1>12. CASE EvalRelease
  BY <1>12 DEF EvalRelease, PopRelease, producerVars, LoopsInStep
<1>13. CASE EvalApply
  BY <1>13 DEF EvalApply, vars, LoopsInStep
<1>14. CASE Stop \/ UNCHANGED pipeVars
  BY <1>14 DEF Stop, pipeVars, loopVars, vars, LoopsInStep
<1> QED
  BY <1>1, <1>2, <1>3, <1>4, <1>5, <1>6, <1>7, <1>8, <1>9, <1>10, <1>11, <1>12,
     <1>13, <1>14
  DEF PipeNext, Feed, Eval

\* A step leaves the loop counters in their pools and market at the last event.
LEMMA StepCounters ==
  ASSUME PipeIndInv, [PipeNext]_pipeVars
  PROVE  PipeTypeOK' /\ InFeedOrder'
<1> USE DEF PipeIndInv, PipeInv
<1>t. /\ i \in 0 .. Total /\ processed \in 0 .. Total /\ market = processed
      /\ done \in BOOLEAN /\ cstate \in {"pop", "check", "empty", "apply", "stopped"}
      /\ Total \in Nat
  BY TotalAssumption DEF PipeTypeOK, InFeedOrder
<1>r. TypeOK'
  BY PipeRing DEF IndInv
<1>1. CASE FeedPublish
  <2>1. i < Total
    BY <1>1 DEF FeedPublish, PushPublish, LoopsInStep
  <2> QED BY <1>1, <1>r, <1>t, <2>1 DEF FeedPublish, PipeTypeOK, InFeedOrder
<1>2. CASE EvalApply
  <2>1. got = processed + 1 /\ processed < Total
    BY <1>2 DEF EvalApply, InFlight
  <2>2. market' = processed + 1 /\ processed' = processed + 1
    BY <1>2, <2>1 DEF EvalApply
  <2>3. i' = i /\ done' = done /\ cstate' \in {"pop", "stopped"}
    BY <1>2 DEF EvalApply
  <2> QED BY <1>r, <1>t, <2>1, <2>2, <2>3 DEF PipeTypeOK, InFeedOrder
<1>3. CASE FeedFinish
  <2>1. done' \in BOOLEAN
    BY <1>3, Zenon DEF FeedFinish
  <2>2. i' = i /\ processed' = processed /\ market' = market /\ cstate' = cstate
    BY <1>3 DEF FeedFinish
  <2> QED BY <1>r, <1>t, <2>1, <2>2 DEF PipeTypeOK, InFeedOrder
<1>4. CASE ~FeedPublish /\ ~EvalApply /\ ~FeedFinish
  <2>1. i' = i /\ processed' = processed /\ market' = market /\ done' = done
    BY <1>4 DEF PipeNext, Feed, Eval, FeedCall, FeedFull, FeedRoom, FeedWrite, EvalCall,
                EvalSome, EvalRead, EvalEmpty, EvalNotDone, AcquireDone, EvalEmptyApprox,
                EvalRelease, Stop, pipeVars, loopVars
  <2>2. cstate' \in {"pop", "check", "empty", "apply", "stopped"}
    BY <1>4, <1>t DEF PipeNext, Feed, Eval, FeedCall, FeedFull, FeedRoom, FeedWrite, EvalCall,
                EvalSome, EvalRead, EvalEmpty, EvalNotDone, AcquireDone, EvalEmptyApprox,
                EvalRelease, Stop, pipeVars, loopVars
  <2> QED BY <1>r, <1>t, <2>1, <2>2 DEF PipeTypeOK, InFeedOrder
<1> QED BY <1>1, <1>2, <1>3, <1>4

\* The consumer stops after its last event, or when the ring is empty with
\* every push ordered before the test: then all the events have been popped.
LEMMA StepNothingLost ==
  ASSUME PipeIndInv, [PipeNext]_pipeVars
  PROVE  NothingLost'
<1> USE DEF PipeIndInv, PipeInv
<1>1. CASE EvalEmptyApprox
  <2>1. PICK h \in Loads(knownHead, head) :
            cstate' = IF SizeApprox(h) = 0 THEN "stopped" ELSE "pop"
    BY <1>1 DEF EvalEmptyApprox
  <2>2. done /\ knownHead = head /\ i = Total /\ cstate = "empty"
    BY <1>1 DEF EvalEmptyApprox, LoopsInStep
  <2>3. head \in Index /\ tail \in Index
    BY DEF IndInv, TypeOK
  <2>4. h = head
    <3>1. h \in Index /\ Dist(head, h) <= Dist(head, head)
      BY <2>1, <2>2, <2>3, LoadsFacts
    <3>2. Dist(head, head) = 0 /\ Dist(head, h) \in Nat
      BY <2>3, <3>1, DistFacts DEF Index
    <3> QED BY <2>3, <3>1, <3>2, DistFacts
  <2>5. CASE SizeApprox(h) = 0
    <3>1. Len(queue) = 0 /\ queue \in Seq(Values \cup {NoValue})
      BY <2>4, <2>5, QueueLength DEF SizeApprox
    <3>2. Popped = processed /\ Popped \in Nat /\ i - Popped \in Nat
      BY <2>2, TotalAssumption DEF Popped, PipeTypeOK, InFlight
    <3>3. Len(queue) = i - Popped
      BY <3>2, EventsSeq DEF InFlight, Events
    <3>4. processed = Total
      BY <2>2, <3>1, <3>2, <3>3, TotalAssumption DEF PipeTypeOK
    <3> QED BY <1>1, <3>4 DEF EvalEmptyApprox, NothingLost
  <2>6. CASE SizeApprox(h) # 0
    BY <2>1, <2>6 DEF NothingLost
  <2> QED BY <2>5, <2>6
<1>2. CASE EvalApply
  BY <1>2 DEF EvalApply, NothingLost
<1>3. CASE ~EvalEmptyApprox /\ ~EvalApply
  BY <1>3 DEF PipeNext, Feed, Eval, FeedCall, FeedFull, FeedRoom, FeedWrite, FeedPublish,
              FeedFinish, EvalCall, EvalSome, EvalRead, EvalEmpty, EvalNotDone, AcquireDone,
              EvalRelease, Stop, pipeVars, loopVars, NothingLost
<1> QED BY <1>1, <1>2, <1>3

-----------------------------------------------------------------------------
(* Theorems *)

\* The inductive invariant of the pipeline: ring, loops and feed.
LEMMA PipeInvariance == PipeSpec => []PipeIndInv
<1>1. PipeIndInv /\ [PipeNext]_pipeVars => PipeIndInv'
  <2> SUFFICES ASSUME PipeIndInv, [PipeNext]_pipeVars PROVE PipeIndInv'
    OBVIOUS
  <2>1. IndInv'
    BY PipeRing DEF PipeIndInv, PipeInv
  <2> QED BY <2>1, StepInFlight, StepLoops, StepCounters, StepNothingLost
          DEF PipeIndInv, PipeInv
<1> QED BY PipeInitInv, <1>1, PTL DEF PipeSpec

\* Whatever the interleaving of feed and eval thread, the ring holds exactly
\* the events pushed and not yet popped, and the events are applied in the
\* order of the feed, none twice and none skipped.
THEOREM FeedOrder == PipeSpec => []PipeInv
<1>1. PipeIndInv => PipeInv
  BY DEF PipeIndInv
<1> QED BY <1>1, PipeInvariance, PTL

\* The eval thread leaves its loop only when every event has been evaluated.
THEOREM NoEventLost == PipeSpec => []NothingLost
<1>1. PipeIndInv => NothingLost
  BY DEF PipeIndInv
<1> QED BY <1>1, PipeInvariance, PTL

\* The ring's invariant and the absence of slot races survive the pipeline's
\* extra synchronisation through producer_done.
THEOREM PipelineRaceFree == PipeSpec => [](IndInv /\ SlotRaceFree)
<1>1. PipeIndInv => IndInv /\ SlotRaceFree
  BY IndInvRaceFree DEF PipeIndInv
<1> QED BY <1>1, PipeInvariance, PTL

\* Under the pipeline the ring still is a bounded FIFO queue.
THEOREM PipelineIsFifo == PipeSpec => Refines
<1>1. PipeInit => Abstract!Init
  <2> SUFFICES ASSUME PipeInit PROVE queue = << >> /\ got = NoValue
    BY DEF Abstract!Init
  <2>1. IndInv /\ Len(queue) = 0
    BY InitIndInv, QueueLength, WidthFacts DEF PipeInit, Init, Dist
  <2> QED BY <2>1, QueueLength DEF PipeInit, Init
<1>2. PipeIndInv /\ [PipeNext]_pipeVars => [Abstract!Next]_(Abstract!vars)
  <2> SUFFICES ASSUME PipeIndInv, [PipeNext]_pipeVars
               PROVE  [Abstract!Next]_(Abstract!vars)
    OBVIOUS
  <2>1. IndInv /\ PipeTypeOK
    BY DEF PipeIndInv, PipeInv
  <2>2. CASE AcquireDone
    BY <2>1, <2>2, AcquireDoneRing DEF Abstract!vars
  <2>3. CASE [Next]_vars
    BY <2>1, <2>3, StepRefines
  <2> QED BY <2>1, <2>2, <2>3, PipeStep
<1> QED BY <1>1, <1>2, PipeInvariance, PTL DEF PipeSpec, Refines, Abstract!Spec
=============================================================================
