------------------------- MODULE SignalContextProofs -------------------------
(* Proofs about SignalContext: for every program, every parameter vector and *)
(* every order of prewarms, parameter changes and ticks.                     *)
(*                                                                           *)
(* The walk of PrewarmSignalContext is a recursive function over the visits  *)
(* of a signal.  What it computes is shown by the least-number principle: a  *)
(* first visit at which a claim fails has a predecessor at which it holds.   *)
EXTENDS SignalContext, SequenceTheorems, WellFoundedInduction, TLAPS

Memories == [nodes : 0..(MaxId + 1), base : 0..(MaxId + 1),
             classic : [Ids -> State], lowered : [Ids -> State],
             sens : Seq(0..MaxAge)]

(* What holds of the arrays during a walk: its fields are in range, the base *)
(* pointers are those of the arrays, the lowered clocks count samples.       *)
MemoryOK(m) ==
  /\ m \in Memories
  /\ m.base = m.nodes
  /\ \A id \in Ids : m.lowered[id].index = m.lowered[id].age

Fits(m, v) == /\ v.id < m.nodes
              /\ m.classic[v.id].cap = v.period
              /\ m.lowered[v.id].cap = v.period

Unused(m) == \A id \in Ids : m.classic[id].age = 0 /\ m.classic[id].index = 0

(* The signals the loop under way is through with are prepared, and all of   *)
(* them are when it has completed; no loop is under way then.                *)
LoopProgress ==
  /\ cursor > 0 => ~warm
  /\ \A s \in DOMAIN Program :
       warm \/ s <= cursor => \A i \in DOMAIN Program[s] : Fits(Memory, Program[s][i])

ContextIndInv == ContextInv /\ LoopProgress /\ GradientSlotsInRange

------------------------------------------------------------------------------
(* Every set of numbers that is not empty has a least element.               *)
LEMMA LeastNumber ==
  ASSUME NEW T, T \subseteq Nat, T # {}
  PROVE  \E n \in T : \A k \in T : n <= k
<1> DEFINE R == OpToRel(<, Nat)
<1>1. IsWellFoundedOn(R, Nat)
  BY NatLessThanWellFounded
<1>2. \A x, y \in Nat : <<y, x>> \in R <=> y < x
  BY DEF OpToRel
<1> HIDE DEF R
<1>3. PICK n \in T : \A k \in T : ~ (<<k, n>> \in R)
  BY <1>1, WFMin
<1>4. ASSUME NEW k \in T PROVE n <= k
  <2>1. k \in Nat /\ n \in Nat
    OBVIOUS
  <2>2. ~(k < n)
    BY <1>2, <1>3, <2>1
  <2> QED BY <2>1, <2>2
<1> QED BY <1>4

(* The largest id is one, and bounds them all.                               *)
LEMMA MaxIdBounds ==
  /\ MaxId \in Ids /\ Ids \subseteq Nat \ {0}
  /\ \A i \in Ids : i <= MaxId
  /\ Visits \subseteq Call
  /\ \A s \in DOMAIN Program : /\ Program[s] \in Seq(Call)
                               /\ Len(Program[s]) \in Nat \ {0}
                               /\ DOMAIN Program[s] = 1 .. Len(Program[s])
                               /\ \A i \in DOMAIN Program[s] : Program[s][i] \in Visits
  /\ Len(Program) \in Nat \ {0} /\ DOMAIN Program = 1 .. Len(Program)
<1>1. /\ Program \in Seq(Seq(Call)) /\ DOMAIN Program = 1 .. Len(Program)
      /\ Len(Program) \in Nat
  BY ProgramAssumption
<1>2. ASSUME NEW s \in DOMAIN Program
      PROVE  /\ Program[s] \in Seq(Call)
             /\ Len(Program[s]) \in Nat \ {0}
             /\ DOMAIN Program[s] = 1 .. Len(Program[s])
             /\ \A i \in DOMAIN Program[s] : Program[s][i] \in Visits /\ Program[s][i] \in Call
  <2>1. Program[s] \in Seq(Call) /\ Program[s] # <<>>
    BY <1>1, ProgramAssumption
  <2>2. Len(Program[s]) \in Nat /\ DOMAIN Program[s] = 1 .. Len(Program[s])
    BY <2>1
  <2>3. Len(Program[s]) # 0
    BY <2>1, EmptySeq
  <2>4. \A i \in DOMAIN Program[s] : Program[s][i] \in Call
    BY <2>1, <2>2
  <2>5. \A i \in DOMAIN Program[s] : Program[s][i] \in Visits
    BY DEF Visits
  <2> QED BY <2>1, <2>2, <2>3, <2>4, <2>5
<1>3. Visits \subseteq Call
  BY <1>2 DEF Visits
<1>4. Ids \subseteq Nat \ {0}
  BY <1>3 DEF Ids, Call
<1>5. MaxId \in Ids /\ \A i \in Ids : i <= MaxId
  BY ProgramAssumption DEF MaxId
<1>6. Len(Program) # 0
  <2> SUFFICES ASSUME Len(Program) = 0 PROVE FALSE
    OBVIOUS
  <2>1. DOMAIN Program = {}
    BY <1>1
  <2>2. Visits = {}
    BY <2>1 DEF Visits
  <2> QED BY <2>2, <1>5 DEF Ids
<1> QED BY <1>1, <1>2, <1>3, <1>4, <1>5, <1>6

(* std::vector::resize yields the length asked for.                          *)
LEMMA ResizeLength ==
  ASSUME NEW seq \in Seq(0..MaxAge), NEW n \in Nat
  PROVE  Resize(seq, n) \in Seq(0..MaxAge) /\ Len(Resize(seq, n)) = n
<1>1. Len(seq) \in Nat /\ \A i \in 1 .. Len(seq) : seq[i] \in 0..MaxAge
  BY LenProperties, ElementOfSeq
<1>2. \A i \in 1 .. n : (IF i <= Len(seq) THEN seq[i] ELSE 0) \in 0..MaxAge
  BY <1>1, ProgramAssumption
<1>3. Resize(seq, n) \in [1 .. n -> 0..MaxAge]
  BY <1>2 DEF Resize
<1>4. Resize(seq, n) \in Seq(0..MaxAge)
  BY <1>3, SeqDef
<1>5. DOMAIN Resize(seq, n) = 1 .. n
  BY DEF Resize
<1> QED BY <1>4, <1>5, LenProperties

------------------------------------------------------------------------------
(* Preparing a state, for a call of any family: the capacity is the period,  *)
(* the lowered clock starts at 0, and an unused state stays one.             *)
LEMMA PreparedState ==
  ASSUME NEW st \in State, NEW v \in Call
  PROVE  /\ PreparedClassic(st, v) \in State /\ PreparedClassic(st, v).cap = v.period
         /\ st.age = 0 /\ st.index = 0 =>
              PreparedClassic(st, v).age = 0 /\ PreparedClassic(st, v).index = 0
         /\ PreparedLowered(st, v) \in State /\ PreparedLowered(st, v).cap = v.period
         /\ PreparedLowered(st, v).index = PreparedLowered(st, v).age
<1>1. MaxAge \in Nat /\ v.op \in Ops /\ v.period \in Nat
  BY ProgramAssumption DEF Call
<1>2. CASE v.op = "ema"
  BY <1>1, <1>2 DEF PreparedClassic, PreparedLowered, State, Blank
<1>3. CASE v.op = "ring"
  BY <1>1, <1>3 DEF PreparedClassic, PreparedLowered, State, Blank
<1>4. CASE v.op = "mono"
  BY <1>1, <1>4 DEF PreparedClassic, PreparedLowered, State, Blank
<1>5. CASE v.op = "cell"
  BY <1>1, <1>5 DEF PreparedClassic, PreparedLowered, State, Blank
<1> QED BY <1>1, <1>2, <1>3, <1>4, <1>5 DEF Ops

(* EnsureNodeCapacity makes room for the node and moves no state.            *)
LEMMA CapacityEnsured ==
  ASSUME NEW m, MemoryOK(m), NEW id \in Ids, params \in Nat
  PROVE  LET e == EnsureNodeCapacity(m, id)
         IN  /\ e \in Memories /\ e.base = e.nodes
             /\ id < e.nodes /\ m.nodes <= e.nodes
             /\ e.classic = m.classic /\ e.lowered = m.lowered
             /\ params > 0 => Len(e.sens) = (id + 1) * params
<1> DEFINE e == EnsureNodeCapacity(m, id)
           n == IF m.nodes < id + 1 THEN id + 1 ELSE m.nodes
<1>1. id \in Nat /\ MaxId \in Nat /\ id <= MaxId
  BY MaxIdBounds
<1>2. /\ m.nodes \in 0..(MaxId + 1) /\ m.sens \in Seq(0..MaxAge)
      /\ m.classic \in [Ids -> State] /\ m.lowered \in [Ids -> State]
  BY DEF MemoryOK, Memories
<1>3. n \in 0..(MaxId + 1) /\ id < n /\ m.nodes <= n
  BY <1>1, <1>2
<1>4. /\ SensitivityFor(m, id) \in Seq(0..MaxAge)
      /\ params > 0 => Len(SensitivityFor(m, id)) = (id + 1) * params
  <2>1. (id + 1) * params \in Nat
    BY <1>1
  <2> QED BY <1>2, <2>1, ResizeLength DEF SensitivityFor, Needed
<1>5. e = [nodes |-> n, base |-> n, classic |-> m.classic,
           lowered |-> m.lowered, sens |-> SensitivityFor(m, id)]
  <2>1. e = [m EXCEPT !.nodes = n, !.sens = SensitivityFor(m, id), !.base = n]
    BY DEF EnsureNodeCapacity, Needed, RefreshLoweredStateBases
  <2> HIDE DEF e, n
  <2>2. m \in Memories
    BY DEF MemoryOK
  <2> QED BY <2>1, <2>2 DEF Memories
<1> HIDE DEF e, n
<1>6. e \in Memories
  BY <1>2, <1>3, <1>4, <1>5 DEF Memories
<1> QED BY <1>3, <1>4, <1>5, <1>6 DEF e

(* One visit prepares its node, undoes no earlier preparation, and leaves    *)
(* the sensitivity storage at the size its own node needs.                   *)
LEMMA VisitPrepares ==
  ASSUME NEW m, MemoryOK(m), NEW v \in Visits, params \in Nat
  PROVE  LET n == Visit(m, v)
         IN  /\ MemoryOK(n) /\ Fits(n, v)
             /\ \A w \in Visits : Fits(m, w) => Fits(n, w)
             /\ Unused(m) => Unused(n)
             /\ params > 0 => Len(n.sens) = (v.id + 1) * params
<1> DEFINE e == EnsureNodeCapacity(m, v.id)
           n == Visit(m, v)
<1>1. v \in Call /\ v.id \in Ids /\ Visits \subseteq Call /\ \A w \in Visits : w.id \in Ids
  BY MaxIdBounds DEF Ids
<1>2. /\ e \in Memories /\ e.base = e.nodes
      /\ v.id < e.nodes /\ m.nodes <= e.nodes
      /\ e.classic = m.classic /\ e.lowered = m.lowered
      /\ params > 0 => Len(e.sens) = (v.id + 1) * params
  BY <1>1, CapacityEnsured
<1>3. n = [e EXCEPT !.classic[v.id] = PreparedClassic(@, v),
                    !.lowered[v.id] = PreparedLowered(@, v)]
  BY DEF Visit
<1> HIDE DEF e, n
<1>4. /\ e.classic \in [Ids -> State] /\ e.lowered \in [Ids -> State]
      /\ e.nodes \in 0..(MaxId + 1) /\ m.nodes \in 0..(MaxId + 1) /\ MaxId \in Nat
      /\ e = [nodes |-> e.nodes, base |-> e.base, classic |-> e.classic,
              lowered |-> e.lowered, sens |-> e.sens]
  BY <1>2, MaxIdBounds DEF Memories, MemoryOK
<1>5. /\ n = [nodes |-> e.nodes, base |-> e.base,
              classic |-> [e.classic EXCEPT ![v.id] = PreparedClassic(@, v)],
              lowered |-> [e.lowered EXCEPT ![v.id] = PreparedLowered(@, v)],
              sens |-> e.sens]
  BY <1>3, <1>4
<1>6. /\ \A id \in Ids : n.classic[id] = IF id = v.id THEN PreparedClassic(m.classic[id], v)
                                         ELSE m.classic[id]
      /\ \A id \in Ids : n.lowered[id] = IF id = v.id THEN PreparedLowered(m.lowered[id], v)
                                         ELSE m.lowered[id]
      /\ n.nodes = e.nodes /\ n.base = e.base /\ n.sens = e.sens
      /\ DOMAIN n.classic = Ids /\ DOMAIN n.lowered = Ids
  BY <1>1, <1>2, <1>4, <1>5
<1>7. \A id \in Ids : m.classic[id] \in State /\ m.lowered[id] \in State
  BY <1>2, <1>4
<1>8. MemoryOK(n)
  <2>1. n.classic \in [Ids -> State] /\ n.lowered \in [Ids -> State]
    BY <1>1, <1>2, <1>4, <1>5, <1>7, PreparedState
  <2>2. n \in Memories
    BY <1>2, <1>5, <2>1 DEF Memories
  <2>3. ASSUME NEW id \in Ids PROVE n.lowered[id].index = n.lowered[id].age
    <3>1. m.lowered[id] \in State /\ m.lowered[id].index = m.lowered[id].age
      BY <1>7 DEF MemoryOK
    <3>2. CASE id = v.id
      <4>1. n.lowered[id] = PreparedLowered(m.lowered[id], v)
        BY <1>6, <3>2
      <4> QED BY <1>1, <3>1, <4>1, PreparedState
    <3>3. CASE id # v.id
      BY <1>6, <3>1, <3>3
    <3> QED BY <3>2, <3>3
  <2> QED BY <1>2, <1>6, <2>2, <2>3 DEF MemoryOK
<1>9. Fits(n, v)
  <2>1. /\ PreparedClassic(m.classic[v.id], v).cap = v.period
        /\ PreparedLowered(m.lowered[v.id], v).cap = v.period
    BY <1>1, <1>7, PreparedState
  <2>2. /\ n.classic[v.id] = PreparedClassic(m.classic[v.id], v)
        /\ n.lowered[v.id] = PreparedLowered(m.lowered[v.id], v)
    BY <1>1, <1>6
  <2> QED BY <1>2, <1>6, <2>1, <2>2 DEF Fits
<1>10. ASSUME NEW w \in Visits, Fits(m, w) PROVE Fits(n, w)
  <2>1. CASE w.id = v.id
    BY <1>9, <2>1, ProgramAssumption
  <2>2. CASE w.id # v.id
    <3>1. w.id \in Ids /\ w.id \in Nat
      BY <1>1, MaxIdBounds
    <3>2. w.id < n.nodes
      BY <1>2, <1>4, <1>6, <1>10, <3>1 DEF Fits
    <3> QED BY <1>6, <1>10, <2>2, <3>1, <3>2 DEF Fits
  <2> QED BY <2>1, <2>2
<1>11. ASSUME Unused(m) PROVE Unused(n)
  <2> SUFFICES ASSUME NEW id \in Ids
               PROVE  n.classic[id].age = 0 /\ n.classic[id].index = 0
    BY DEF Unused
  <2>1. m.classic[id] \in State /\ m.classic[id].age = 0 /\ m.classic[id].index = 0
    BY <1>7, <1>11 DEF Unused
  <2>2. /\ PreparedClassic(m.classic[id], v).age = 0
        /\ PreparedClassic(m.classic[id], v).index = 0
    BY <1>1, <2>1, PreparedState
  <2>3. n.classic[id] \in {m.classic[id], PreparedClassic(m.classic[id], v)}
    BY <1>6
  <2> QED BY <2>1, <2>2, <2>3
<1> QED BY <1>2, <1>6, <1>8, <1>9, <1>10, <1>11 DEF n

------------------------------------------------------------------------------
IsWalk(w, m, signal, n) ==
  w = [k \in 0 .. n |-> IF k = 0 THEN m ELSE Visit(w[k - 1], signal[k])]

(* The recursive function of the walk exists: a first length without one     *)
(* would extend the function of the length before it.                        *)
LEMMA WalkExists ==
  ASSUME NEW m, NEW signal, NEW len \in Nat
  PROVE  \E w : IsWalk(w, m, signal, len)
<1> DEFINE T == {n \in Nat : ~ \E w : IsWalk(w, m, signal, n)}
<1> SUFFICES ASSUME T # {} PROVE FALSE
  OBVIOUS
<1>1. PICK n \in T : \A k \in T : n <= k
  BY LeastNumber
<1>2. CASE n = 0
  <2> DEFINE w == [k \in 0 .. 0 |-> m]
  <2>1. IsWalk(w, m, signal, 0)
    BY DEF IsWalk
  <2> QED BY <1>2, <2>1
<1>3. CASE n # 0
  <2>1. n - 1 \in Nat /\ n - 1 \notin T /\ n \in Nat
    BY <1>1, <1>3
  <2>2. PICK w : IsWalk(w, m, signal, n - 1)
    BY <2>1
  <2> DEFINE u == [k \in 0 .. n |-> IF k = n THEN Visit(w[n - 1], signal[n]) ELSE w[k]]
  <2>3. \A k \in 0 .. n - 1 : w[k] = IF k = 0 THEN m ELSE Visit(w[k - 1], signal[k])
    BY <2>2 DEF IsWalk
  <2>4. ASSUME NEW k \in 0 .. n
        PROVE  u[k] = IF k = 0 THEN m ELSE Visit(u[k - 1], signal[k])
    <3>1. CASE k = n
      <4>1. u[k] = Visit(w[n - 1], signal[n]) /\ u[n - 1] = w[n - 1]
        BY <2>1, <3>1
      <4> QED BY <1>3, <3>1, <4>1
    <3>2. CASE k # n /\ k # 0
      <4>1. k \in 0 .. n - 1 /\ k - 1 \in 0 .. n /\ k - 1 # n
        BY <2>1, <3>2
      <4>2. u[k] = w[k] /\ u[k - 1] = w[k - 1]
        BY <4>1, <3>2
      <4> QED BY <2>3, <3>2, <4>1, <4>2
    <3>3. CASE k = 0
      <4>1. u[k] = w[k] /\ k \in 0 .. n - 1
        BY <1>3, <2>1, <3>3
      <4> QED BY <2>3, <3>3, <4>1
    <3> QED BY <1>3, <3>1, <3>2, <3>3
  <2>5. IsWalk(u, m, signal, n)
    <3> DEFINE f == [k \in 0 .. n |-> IF k = 0 THEN m ELSE Visit(u[k - 1], signal[k])]
    <3>1. \A k \in 0 .. n : u[k] = f[k]
      BY <2>4
    <3>2. u = f
      BY <3>1
    <3> QED BY <3>2 DEF IsWalk
  <2> QED BY <2>5, <1>1
<1> QED BY <1>2, <1>3

(* So Walk is the last element of it.                                        *)
LEMMA WalkDefined ==
  ASSUME NEW m, NEW signal, Len(signal) \in Nat
  PROVE  \E w : IsWalk(w, m, signal, Len(signal)) /\ Walk(m, signal) = w[Len(signal)]
<1> DEFINE w == CHOOSE w : IsWalk(w, m, signal, Len(signal))
<1>1. IsWalk(w, m, signal, Len(signal))
  BY WalkExists
<1>2. Walk(m, signal) = w[Len(signal)]
  BY DEF Walk, IsWalk
<1> QED BY <1>1, <1>2

(* PrewarmSignalContext on a signal: afterwards every call of it fits, every *)
(* call that fitted still does, and the sensitivity storage has the size     *)
(* that the last call of the signal needs.                                   *)
LEMMA WalkPrepares ==
  ASSUME NEW m, MemoryOK(m), NEW s \in DOMAIN Program, params \in Nat
  PROVE  LET n == Walk(m, Program[s])
         IN  /\ MemoryOK(n)
             /\ \A i \in DOMAIN Program[s] : Fits(n, Program[s][i])
             /\ \A v \in Visits : Fits(m, v) => Fits(n, v)
             /\ Unused(m) => Unused(n)
             /\ params > 0 =>
                  Len(n.sens) = (Program[s][Len(Program[s])].id + 1) * params
<1> DEFINE signal == Program[s]
           len == Len(signal)
<1>1. len \in Nat \ {0} /\ \A i \in 1 .. len : signal[i] \in Visits
  BY MaxIdBounds
<1>2. PICK w : IsWalk(w, m, signal, len) /\ Walk(m, signal) = w[len]
  BY <1>1, WalkDefined
<1> DEFINE Done(k) == /\ MemoryOK(w[k])
                      /\ \A i \in 1 .. k : Fits(w[k], signal[i])
                      /\ \A v \in Visits : Fits(m, v) => Fits(w[k], v)
                      /\ Unused(m) => Unused(w[k])
                      /\ params > 0 /\ k > 0 =>
                           Len(w[k].sens) = (signal[k].id + 1) * params
           T == {k \in 0 .. len : ~Done(k)}
<1> HIDE DEF signal, len
<1>3. w[0] = m /\ \A k \in 1 .. len : w[k] = Visit(w[k - 1], signal[k])
  BY <1>1, <1>2 DEF IsWalk
<1>4. T = {}
  <2> SUFFICES ASSUME T # {} PROVE FALSE
    OBVIOUS
  <2>1. PICK k \in T : \A j \in T : k <= j
    <3>1. T \subseteq Nat
      BY <1>1
    <3> HIDE DEF T
    <3> QED BY <3>1, LeastNumber
  <2>2. k \in 0 .. len /\ ~Done(k)
    BY <2>1
  <2>3. CASE k = 0
    BY <1>3, <2>2, <2>3
  <2>4. CASE k # 0
    <3>1. k \in 1 .. len /\ k - 1 \in 0 .. len /\ ~(k <= k - 1)
      BY <1>1, <2>2, <2>4
    <3>2. Done(k - 1)
      BY <2>1, <3>1
    <3>3. w[k] = Visit(w[k - 1], signal[k]) /\ signal[k] \in Visits
      BY <1>1, <1>3, <3>1
    <3>4. /\ MemoryOK(w[k]) /\ Fits(w[k], signal[k])
          /\ \A v \in Visits : Fits(w[k - 1], v) => Fits(w[k], v)
          /\ Unused(w[k - 1]) => Unused(w[k])
          /\ params > 0 => Len(w[k].sens) = (signal[k].id + 1) * params
      BY <3>2, <3>3, VisitPrepares
    <3>5. \A i \in 1 .. k : Fits(w[k], signal[i])
      <4> SUFFICES ASSUME NEW i \in 1 .. k, i # k PROVE Fits(w[k], signal[i])
        BY <3>4
      <4>1. i \in 1 .. k - 1 /\ i \in 1 .. len
        BY <1>1, <3>1
      <4> QED BY <1>1, <3>2, <3>4, <4>1
    <3>6. Done(k)
      BY <3>2, <3>4, <3>5
    <3> QED BY <2>2, <3>6
  <2> QED BY <2>3, <2>4
<1>5. Done(len)
  BY <1>1, <1>4
<1>6. DOMAIN signal = 1 .. len /\ len > 0
  BY <1>1, MaxIdBounds DEF signal, len
<1> QED BY <1>2, <1>5, <1>6 DEF signal, len

------------------------------------------------------------------------------
(* The slots of all nodes are in range as soon as there is room for those of *)
(* the largest id.                                                           *)
LEMMA RoomForAll ==
  ASSUME NEW k \in Nat, NEW n \in Nat, MaxId < n, NEW id \in Ids, NEW p \in 0..(k - 1)
  PROVE  id * k + p < n * k
<1>1. id \in Nat /\ id + 1 <= n
  <2>1. id \in Nat \ {0} /\ MaxId \in Nat \ {0} /\ id <= MaxId
    BY MaxIdBounds, Zenon
  <2> QED BY <2>1
<1>2. (id + 1) * k <= n * k
  BY <1>1
<1>3. (id + 1) * k = id * k + k
  BY <1>1
<1>4. id * k \in Nat /\ n * k \in Nat
  BY <1>1
<1> QED BY <1>2, <1>3, <1>4

(* The states of a new context: no array, no clock that has run.             *)
LEMMA ContextInit == Init => ContextIndInv
<1> SUFFICES ASSUME Init PROVE ContextIndInv
  OBVIOUS
<1>1. MaxId \in Nat /\ Len(Program) \in Nat \ {0} /\ DOMAIN Program = 1 .. Len(Program)
  BY MaxIdBounds
<1>2. Blank \in State /\ <<>> \in Seq(0..MaxAge)
  BY ProgramAssumption DEF Blank, State
<1>3. TypeOK
  <2>1. nodes \in 0..(MaxId + 1) /\ base \in 0..(MaxId + 1) /\ cursor \in 0..(Len(Program) - 1)
    BY <1>1 DEF Init
  <2>2. classic \in [Ids -> State] /\ lowered \in [Ids -> State] /\ sens \in Seq(0..MaxAge)
    BY <1>2 DEF Init
  <2>3. warm \in BOOLEAN /\ late \in BOOLEAN /\ reused \in BOOLEAN
    BY DEF Init
  <2>4. params \in ParamCounts \cup {0}
    BY DEF Init
  <2> QED BY <2>1, <2>2, <2>3, <2>4 DEF TypeOK
<1>4. BasesCurrent /\ StampsCountSamples
  BY DEF Init, BasesCurrent, StampsCountSamples, Blank
<1>5. LoopProgress
  BY <1>1 DEF Init, LoopProgress
<1>6. GradientSlotsInRange
  BY DEF Init, GradientSlotsInRange, Ready
<1> QED BY <1>3, <1>4, <1>5, <1>6 DEF ContextIndInv, ContextInv

(* The memory of a state that satisfies the invariant is fit for a walk.     *)
LEMMA MemoryOfState ==
  ASSUME ContextInv
  PROVE  /\ MemoryOK(Memory) /\ params \in Nat
         /\ Memory.nodes = nodes /\ Memory.base = base /\ Memory.sens = sens
         /\ Memory.classic = classic /\ Memory.lowered = lowered
<1>1. params \in Nat
  BY ProgramAssumption DEF ContextInv, TypeOK
<1>2. Memory \in Memories
  BY DEF ContextInv, TypeOK, Memories, Memory
<1> QED BY <1>1, <1>2 DEF Memory, MemoryOK, ContextInv, BasesCurrent, StampsCountSamples

(* PrewarmSignalContext preserves the invariant.                             *)
LEMMA PrewarmStep ==
  ASSUME ContextIndInv, PrewarmSignalContext
  PROVE  ContextIndInv'
<1> DEFINE s == cursor + 1
           m == Walk(Memory, Program[s])
           last == s = Len(Program)
<1>1. /\ TypeOK /\ MaxId \in Nat /\ cursor \in 0..(Len(Program) - 1)
      /\ Len(Program) \in Nat \ {0} /\ DOMAIN Program = 1 .. Len(Program)
  BY MaxIdBounds DEF ContextIndInv, ContextInv, TypeOK
<1>2. s \in DOMAIN Program
  BY <1>1
<1>3. /\ MemoryOK(Memory) /\ params \in Nat
      /\ Memory.nodes = nodes /\ Memory.base = base /\ Memory.sens = sens
      /\ Memory.classic = classic /\ Memory.lowered = lowered
  BY MemoryOfState DEF ContextIndInv
<1>4. /\ MemoryOK(m)
      /\ \A i \in DOMAIN Program[s] : Fits(m, Program[s][i])
      /\ \A v \in Visits : Fits(Memory, v) => Fits(m, v)
      /\ Unused(Memory) => Unused(m)
      /\ params > 0 => Len(m.sens) = (Program[s][Len(Program[s])].id + 1) * params
  BY <1>2, <1>3, WalkPrepares
<1>5. /\ nodes' = m.nodes /\ base' = m.nodes
      /\ classic' = m.classic /\ lowered' = m.lowered /\ sens' = m.sens
      /\ cursor' = (IF last THEN 0 ELSE cursor + 1)
      /\ warm' = last
      /\ late' = (late /\ ~last)
      /\ reused' = (reused \/ \E id \in Ids : classic[id].age > 0)
      /\ params' = params
  BY DEF PrewarmSignalContext, RefreshLoweredStateBases
<1> HIDE DEF m
<1>6. TypeOK'
  <2>1. m \in Memories
    BY <1>4 DEF MemoryOK
  <2>2. cursor' \in 0..(Len(Program) - 1)
    BY <1>1, <1>5
  <2>3. warm' \in BOOLEAN /\ late' \in BOOLEAN /\ reused' \in BOOLEAN
    BY <1>5
  <2>4. /\ nodes' \in 0..(MaxId + 1) /\ base' \in 0..(MaxId + 1)
        /\ classic' \in [Ids -> State] /\ lowered' \in [Ids -> State]
        /\ sens' \in Seq(0..MaxAge)
    <3>1. /\ m.nodes \in 0..(MaxId + 1) /\ m.classic \in [Ids -> State]
          /\ m.lowered \in [Ids -> State] /\ m.sens \in Seq(0..MaxAge)
      BY <2>1 DEF Memories
    <3> QED BY <1>5, <3>1, Zenon
  <2>5. params' \in ParamCounts \cup {0}
    BY <1>1, <1>5, Zenon DEF TypeOK
  <2> QED BY <2>2, <2>3, <2>4, <2>5 DEF TypeOK
<1>7. BasesCurrent'
  BY <1>5 DEF BasesCurrent
<1>8. StampsCountSamples'
  <2>1. \A id \in Ids : lowered'[id].index = lowered'[id].age
    BY <1>4, <1>5 DEF MemoryOK
  <2>2. ASSUME ~reused' PROVE \A id \in Ids : classic'[id].index = classic'[id].age
    <3>1. ~reused /\ \A id \in Ids : ~(classic[id].age > 0)
      BY <1>5, <2>2
    <3>2. \A id \in Ids : classic[id].age = 0 /\ classic[id].index = 0
      <4> SUFFICES ASSUME NEW id \in Ids PROVE classic[id].age = 0 /\ classic[id].index = 0
        OBVIOUS
      <4>1. classic[id] \in State /\ MaxAge \in Nat
        BY <1>1, ProgramAssumption DEF TypeOK
      <4>2. classic[id].age \in Nat
        BY <4>1 DEF State
      <4>3. classic[id].index = classic[id].age
        BY <3>1 DEF ContextIndInv, ContextInv, StampsCountSamples
      <4> QED BY <3>1, <4>2, <4>3
    <3>3. Unused(Memory)
      BY <1>3, <3>2 DEF Unused
    <3>4. Unused(m)
      BY <1>4, <3>3
    <3> QED BY <1>5, <3>4 DEF Unused
  <2> QED BY <2>1, <2>2 DEF StampsCountSamples
<1>9. LoopProgress'
  <2>1. cursor' > 0 => ~warm'
    <3>1. last => cursor' = 0
      BY <1>5
    <3>2. ~last => ~warm'
      BY <1>5
    <3> QED BY <3>1, <3>2
  <2>2. ASSUME NEW t \in DOMAIN Program, (warm \/ t <= cursor)' \/ last,
               NEW i \in DOMAIN Program[t]
        PROVE  Fits(Memory, Program[t][i])'
    <3>1. Program[t][i] \in Visits
      BY MaxIdBounds
    <3>2. t <= s
      <4>1. CASE last
        BY <1>1, <4>1
      <4>2. CASE ~last
        <5>1. ~warm' /\ cursor' = s
          BY <1>5, <4>2
        <5> QED BY <2>2, <4>2, <5>1
      <4> QED BY <4>1, <4>2
    <3>3. Fits(m, Program[t][i])
      <4>1. CASE t = s
        BY <1>4, <4>1, <2>2
      <4>2. CASE t # s
        <5>1. t <= cursor
          BY <1>1, <3>2, <4>2
        <5>2. Fits(Memory, Program[t][i])
          BY <5>1 DEF ContextIndInv, LoopProgress
        <5> QED BY <1>4, <3>1, <5>2
      <4> QED BY <4>1, <4>2
    <3> QED BY <1>5, <3>3 DEF Fits, Memory
  <2> QED BY <2>1, <2>2, <1>5 DEF LoopProgress
<1>10. GradientSlotsInRange'
  <2> SUFFICES ASSUME Ready', LastVisited = MaxId PROVE SlotsInRange'
    BY DEF GradientSlotsInRange, LastVisited
  <2>1. last
    BY <1>5 DEF Ready
  <2>2. CASE params = 0
    BY <1>5, <2>2 DEF SlotsInRange
  <2>3. CASE params # 0
    <3>1. Len(sens') = (MaxId + 1) * params
      BY <1>3, <1>4, <1>5, <2>1, <2>3 DEF LastVisited
    <3>2. \A id \in Ids, p \in 0..(params - 1) : id * params + p < (MaxId + 1) * params
      BY <1>1, <1>3, RoomForAll
    <3> QED BY <1>5, <3>1, <3>2 DEF SlotsInRange, GradientSlot
  <2> QED BY <2>2, <2>3
<1> QED BY <1>6, <1>7, <1>8, <1>9, <1>10 DEF ContextIndInv, ContextInv

(* When the program is prepared there is room for the largest id.            *)
LEMMA WarmHasRoom ==
  ASSUME ContextIndInv, warm
  PROVE  MaxId < nodes /\ nodes \in Nat
<1>1. PICK v \in Visits : v.id = MaxId
  BY MaxIdBounds DEF Ids
<1>2. PICK s \in DOMAIN Program : \E i \in DOMAIN Program[s] : v = Program[s][i]
  BY DEF Visits
<1>3. Fits(Memory, v)
  BY <1>2 DEF ContextIndInv, LoopProgress
<1>4. nodes \in Nat
  BY MaxIdBounds DEF ContextIndInv, ContextInv, TypeOK
<1> QED BY <1>1, <1>3, <1>4 DEF Fits, Memory

(* Changing the number of parameters preserves the invariant: SetParameters  *)
(* by marking the storage out of date, SetStandaloneParameters by resizing.  *)
LEMMA SetParametersStep ==
  ASSUME ContextIndInv, NEW k \in ParamCounts, SetParameters(k)
  PROVE  ContextIndInv'
<1>1. /\ params' = k /\ late' = (late \/ warm \/ cursor > 0)
      /\ UNCHANGED <<nodes, base, classic, lowered, sens, cursor, warm, reused>>
  BY DEF SetParameters
<1>2. ContextInv'
  <2>1. late' \in BOOLEAN
    BY <1>1
  <2>2. TypeOK'
    BY <1>1, <2>1 DEF ContextIndInv, ContextInv, TypeOK
  <2> QED BY <1>1, <2>2 DEF ContextIndInv, ContextInv, BasesCurrent, StampsCountSamples
<1>3. LoopProgress'
  BY <1>1 DEF ContextIndInv, LoopProgress, Memory, Fits
<1>4. GradientSlotsInRange'
  BY <1>1 DEF GradientSlotsInRange, Ready
<1> QED BY <1>2, <1>3, <1>4 DEF ContextIndInv

(* And SetStandaloneParameters.                                              *)
LEMMA SetStandaloneParametersStep ==
  ASSUME ContextIndInv, NEW k \in ParamCounts, SetStandaloneParameters(k)
  PROVE  ContextIndInv'
<1>1. /\ params' = k /\ sens' = [i \in 1 .. (nodes * k) |-> 0] /\ late' = FALSE
      /\ UNCHANGED <<nodes, base, classic, lowered, cursor, warm, reused>>
  BY DEF SetStandaloneParameters
<1>2. k \in Nat /\ nodes \in Nat /\ MaxAge \in Nat
  BY ProgramAssumption, MaxIdBounds DEF ContextIndInv, ContextInv, TypeOK
<1>3. nodes * k \in Nat
  BY <1>2
<1>4. sens' \in [1 .. nodes * k -> 0..MaxAge]
  BY <1>1, <1>2
<1>5. sens' \in Seq(0..MaxAge) /\ Len(sens') = nodes * k
  <2>1. sens' \in Seq(0..MaxAge)
    BY <1>3, <1>4, SeqDef
  <2> QED BY <1>1, <1>3, <2>1, LenProperties
<1>6. ContextInv'
  <2>1. TypeOK'
    BY <1>1, <1>5 DEF ContextIndInv, ContextInv, TypeOK
  <2> QED BY <1>1, <2>1 DEF ContextIndInv, ContextInv, BasesCurrent, StampsCountSamples
<1>7. LoopProgress'
  BY <1>1 DEF ContextIndInv, LoopProgress, Memory, Fits
<1>8. GradientSlotsInRange'
  <2> SUFFICES ASSUME Ready' PROVE SlotsInRange'
    BY DEF GradientSlotsInRange
  <2>1. MaxId < nodes
    BY <1>1, WarmHasRoom DEF Ready
  <2>2. \A id \in Ids, p \in 0..(k - 1) : id * k + p < nodes * k
    BY <1>2, <2>1, RoomForAll
  <2> QED BY <1>1, <1>5, <2>2 DEF SlotsInRange, GradientSlot
<1> QED BY <1>6, <1>7, <1>8 DEF ContextIndInv

(* A pushed state keeps its capacity, and its clock counts on.               *)
LEMMA PushedState ==
  ASSUME NEW st \in State
  PROVE  /\ Pushed(st) \in State /\ Pushed(st).cap = st.cap
         /\ st.index = st.age => Pushed(st).index = Pushed(st).age
<1>1. MaxAge \in Nat
  BY ProgramAssumption
<1>2. \A a \in 0..MaxAge : Older(a) \in 0..MaxAge
  BY <1>1 DEF Older
<1>3. st.cap \in Nat /\ st.age \in 0..MaxAge /\ st.index \in 0..MaxAge
  BY DEF State
<1> DEFINE a == Older(st.age)
           b == Older(st.index)
<1>4. a \in 0..MaxAge /\ b \in 0..MaxAge /\ (st.index = st.age => a = b)
  BY <1>2, <1>3
<1>5. Pushed(st) = [st EXCEPT !.age = a, !.index = b]
  BY DEF Pushed
<1> HIDE DEF a, b
<1>6. Pushed(st) = [cap |-> st.cap, age |-> a, index |-> b]
  BY <1>5 DEF State
<1> QED BY <1>3, <1>4, <1>6 DEF State

(* The same for all states of an array.                                      *)
LEMMA PushedStates ==
  ASSUME NEW states \in [Ids -> State]
  PROVE  /\ PushAll(states) \in [Ids -> State]
         /\ \A id \in Ids :
              /\ PushAll(states)[id].cap = states[id].cap
              /\ states[id].index = states[id].age =>
                   PushAll(states)[id].index = PushAll(states)[id].age
BY PushedState DEF PushAll

(* A tick changes clocks and sensitivities, and neither the arrays' lengths  *)
(* nor what they are prepared for.                                           *)
LEMMA TickStep ==
  ASSUME ContextIndInv,
         TickRuntime \/ TickLowered \/ \E p \in 0..(params - 1) : TickGradient(p)
  PROVE  ContextIndInv'
<1>1. classic \in [Ids -> State] /\ lowered \in [Ids -> State] /\ sens \in Seq(0..MaxAge)
  BY DEF ContextIndInv, ContextInv, TypeOK
<1>2. /\ UNCHANGED <<nodes, base, params, cursor, warm, late, reused>>
      /\ classic' = classic \/ classic' = PushAll(classic)
      /\ lowered' = lowered \/ lowered' = PushAll(lowered)
  BY DEF TickRuntime, TickLowered, TickGradient
<1>3. sens' \in Seq(0..MaxAge) /\ Len(sens') = Len(sens)
  <2>1. CASE UNCHANGED sens
    BY <1>1, <2>1
  <2>2. CASE \E p \in 0..(params - 1) : TickGradient(p)
    <3>1. PICK p \in 0..(params - 1) : TickGradient(p)
      BY <2>2
    <3> DEFINE e(i) == IF \E id \in Ids : i = GradientSlot(id, p) + 1
                         THEN Older(sens[i]) ELSE sens[i]
    <3>2. sens' = [i \in DOMAIN sens |-> e(i)]
      BY <3>1 DEF TickGradient
    <3>3. DOMAIN sens = 1 .. Len(sens) /\ Len(sens) \in Nat
      BY <1>1, LenProperties
    <3>4. \A i \in 1 .. Len(sens) : sens[i] \in 0..MaxAge
      BY <1>1, ElementOfSeq
    <3>5. \A i \in 1 .. Len(sens) : e(i) \in 0..MaxAge
      BY <3>4, ProgramAssumption DEF Older
    <3> HIDE DEF e
    <3>6. sens' \in [1 .. Len(sens) -> 0..MaxAge]
      BY <3>2, <3>3, <3>5
    <3>7. sens' \in Seq(0..MaxAge)
      BY <3>3, <3>6, SeqDef
    <3> QED BY <3>3, <3>6, <3>7, LenProperties
  <2> QED BY <2>1, <2>2 DEF TickRuntime, TickLowered
<1>4. /\ classic' \in [Ids -> State] /\ lowered' \in [Ids -> State]
      /\ \A id \in Ids : classic'[id].cap = classic[id].cap /\ lowered'[id].cap = lowered[id].cap
      /\ \A id \in Ids : lowered[id].index = lowered[id].age => lowered'[id].index = lowered'[id].age
      /\ \A id \in Ids : classic[id].index = classic[id].age => classic'[id].index = classic'[id].age
  BY <1>1, <1>2, PushedStates
<1>5. TypeOK'
  BY <1>2, <1>3, <1>4 DEF ContextIndInv, ContextInv, TypeOK
<1>6. BasesCurrent' /\ StampsCountSamples'
  BY <1>2, <1>4 DEF ContextIndInv, ContextInv, BasesCurrent, StampsCountSamples
<1>7. LoopProgress'
  <2>1. \A v \in Visits : Fits(Memory, v) => Fits(Memory, v)'
    BY <1>2, <1>4 DEF Fits, Memory, Ids
  <2>2. \A s \in DOMAIN Program : \A i \in DOMAIN Program[s] : Program[s][i] \in Visits
    BY MaxIdBounds
  <2> QED BY <1>2, <2>1, <2>2 DEF ContextIndInv, LoopProgress
<1>8. GradientSlotsInRange'
  BY <1>2, <1>3 DEF ContextIndInv, GradientSlotsInRange, Ready, SlotsInRange, GradientSlot,
                    LastVisited
<1> QED BY <1>5, <1>6, <1>7, <1>8 DEF ContextIndInv, ContextInv

------------------------------------------------------------------------------
(* The inductive invariant of a context, for every program and any use.      *)
THEOREM ContextInvariance == Spec => []ContextIndInv
<1>1. ContextIndInv /\ [Next]_vars => ContextIndInv'
  <2> SUFFICES ASSUME ContextIndInv, [Next]_vars PROVE ContextIndInv'
    OBVIOUS
  <2>1. CASE PrewarmSignalContext
    BY <2>1, PrewarmStep
  <2>2. CASE \E k \in ParamCounts : SetParameters(k)
    BY <2>2, SetParametersStep
  <2>3. CASE \E k \in ParamCounts : SetStandaloneParameters(k)
    BY <2>3, SetStandaloneParametersStep
  <2>4. CASE TickRuntime \/ TickLowered \/ \E p \in 0..(params - 1) : TickGradient(p)
    BY <2>4, TickStep
  <2>5. CASE UNCHANGED vars
    BY <2>5 DEF vars, ContextIndInv, ContextInv, TypeOK, BasesCurrent, StampsCountSamples,
                LoopProgress, Fits, Memory, GradientSlotsInRange, Ready, SlotsInRange,
                GradientSlot, LastVisited
  <2> QED BY <2>1, <2>2, <2>3, <2>4, <2>5 DEF Next
<1> QED BY ContextInit, <1>1, PTL DEF Spec

(* At no time is a base pointer stale, a field out of range, or a deque's    *)
(* clock wrong in a context that was prewarmed once.                         *)
THEOREM ContextAlwaysOK == Spec => []ContextInv
<1>1. ContextIndInv => ContextInv
  BY DEF ContextIndInv
<1> QED BY ContextInvariance, <1>1, PTL

(* After a prewarm loop every call of the program, the early ones too, has   *)
(* room in the arrays and both its states are prepared for its period.       *)
THEOREM WarmedAlwaysFits == Spec => []WarmedFits
<1>1. ContextIndInv => WarmedFits
  <2> SUFFICES ASSUME ContextIndInv, warm, NEW v \in Visits
               PROVE  /\ v.id < nodes
                      /\ classic[v.id].cap = v.period
                      /\ lowered[v.id].cap = v.period
    BY DEF WarmedFits
  <2>1. PICK s \in DOMAIN Program : \E i \in DOMAIN Program[s] : v = Program[s][i]
    BY DEF Visits
  <2>2. Fits(Memory, v)
    BY <2>1 DEF ContextIndInv, LoopProgress
  <2> QED BY <2>2 DEF Fits, Memory
<1> QED BY ContextInvariance, <1>1, PTL

(* A context prepared by a walk that ends on the largest id has a            *)
(* sensitivity slot for every node and parameter.                            *)
THEOREM GradientSlotsAlwaysFit == Spec => []GradientSlotsInRange
<1>1. ContextIndInv => GradientSlotsInRange
  BY DEF ContextIndInv
<1> QED BY ContextInvariance, <1>1, PTL
=============================================================================
