---------------------------- MODULE SignalContext ----------------------------
(* SignalContext (src/runtime.h, src/runtime.cpp): the storage of one        *)
(* symbol's operator states, its preparation by PrewarmSignalContext and the *)
(* parameter bindings that size the gradient storage.                        *)
(*                                                                           *)
(* All per-node arrays are resized in lockstep, so one length stands for     *)
(* them.  An array moves when it grows: a base pointer is identified by the  *)
(* length the array had when the pointer was taken.  A state is its capacity *)
(* (0: never prepared) and its age, the samples it has seen since it was     *)
(* reset, capped at MaxAge; the values themselves are the subject of the     *)
(* other modules.                                                            *)
(*                                                                           *)
(* Program is the sequence of signals handed to PrewarmSignalContext, each   *)
(* the sequence of its stateful calls in walk order with the node ids that   *)
(* AllocateProgramNodeIds gives: from 1 upwards, a repeated call inside one  *)
(* signal reusing the earlier id.                                            *)
EXTENDS Integers, Sequences

CONSTANTS Program,     \* <<signal, ...>>, signal = <<[id, op, period], ...>>
          ParamCounts, \* sizes of the parameter vectors that are set
          MaxAge       \* bound on ages

(* What prewarming does to a state depends on the family of the operator.    *)
(*   ema:  never resets the runtime state (ema)                              *)
(*   ring: resets the runtime state when the period changes (sma, vwap, ...) *)
(*   mono: as ring, and restarts the tick index (rolling_min, rolling_max)   *)
(*   cell: always resets both (kalman1d, cross_above, cross_below)           *)
Ops == {"ema", "ring", "mono", "cell"}

Visits == UNION {{Program[s][i] : i \in DOMAIN Program[s]} : s \in DOMAIN Program}
Ids == {v.id : v \in Visits}
MaxId == CHOOSE m \in Ids : \A i \in Ids : i <= m

Call == [id : Nat \ {0}, op : Ops, period : Nat \ {0}]

(* A signal without stateful calls leaves nothing behind and is left out.    *)
ASSUME ProgramAssumption ==
  /\ Program \in Seq(Seq(Call))
  /\ \A s \in DOMAIN Program : Program[s] # <<>>
  /\ \A v, w \in Visits : v.id = w.id => v = w
  /\ \E m \in Ids : \A i \in Ids : i <= m
  /\ ParamCounts \subseteq Nat
  /\ MaxAge \in Nat \ {0}

VARIABLES nodes,   \* length of the per-node arrays
          base,    \* lowered_bases: nodes when the pointers were taken
          classic, \* ema_states, sma_states, ... by node id
          lowered, \* ema_lowered, sma_lowered, ... by node id
          params,  \* gradient_param_count
          sens,    \* *_sensitivity_states: ages, slot k at index k + 1
          cursor,  \* signals prewarmed by the loop under way
          warm,    \* a prewarm loop over the program has completed
          late,    \* SetParameters changed the count since
          reused   \* ghost: a context in use was prewarmed again

vars == <<nodes, base, classic, lowered, params, sens, cursor, warm, late, reused>>

State == [cap : Nat, age : 0..MaxAge, index : 0..MaxAge]
Blank == [cap |-> 0, age |-> 0, index |-> 0]

TypeOK ==
  /\ nodes \in 0..(MaxId + 1)
  /\ base \in 0..(MaxId + 1)
  /\ classic \in [Ids -> State]
  /\ lowered \in [Ids -> State]
  /\ params \in ParamCounts \cup {0}
  /\ sens \in Seq(0..MaxAge)
  /\ cursor \in 0..(Len(Program) - 1)
  /\ warm \in BOOLEAN
  /\ late \in BOOLEAN
  /\ reused \in BOOLEAN

Init ==
  /\ nodes = 0
  /\ base = 0
  /\ classic = [i \in Ids |-> Blank]
  /\ lowered = [i \in Ids |-> Blank]
  /\ params = 0
  /\ sens = <<>>
  /\ cursor = 0
  /\ warm = FALSE
  /\ late = FALSE
  /\ reused = FALSE

------------------------------------------------------------------------------
(* std::vector::resize: cut off, or extended by fresh elements.              *)
Resize(seq, n) == [i \in 1..n |-> IF i <= Len(seq) THEN seq[i] ELSE 0]

(* RefreshLoweredStateBases, given the pointers it overwrites.               *)
\* Mutant: pointers are taken once.
RefreshUnlessSet(old, n) == IF old = 0 THEN n ELSE old
RefreshLoweredStateBases(old, n) == n

(* EnsureNodeCapacity: arrays only grow, the sensitivity storage takes the   *)
(* size this node needs.                                                     *)
\* Mutant: off by one.
NeededOneShort(id) == id
Needed(id) == id + 1

\* Mutant: the sensitivity storage is not resized.
SensitivityKept(m, id) == m.sens
SensitivityFor(m, id) == IF params > 0 THEN Resize(m.sens, Needed(id) * params)
                                       ELSE m.sens

EnsureNodeCapacity(m, id) ==
  LET n == IF m.nodes < Needed(id) THEN Needed(id) ELSE m.nodes
  IN [m EXCEPT !.nodes = n, !.sens = SensitivityFor(m, id),
               !.base = RefreshLoweredStateBases(m.base, n)]

(* The runtime-call state of a prepared node.                                *)
PreparedClassic(st, v) ==
  CASE v.op = "ema" -> [st EXCEPT !.cap = v.period]
    [] v.op = "ring" -> IF st.cap = v.period THEN st
                        ELSE [Blank EXCEPT !.cap = v.period]
    [] v.op = "mono" -> IF st.cap = v.period THEN [st EXCEPT !.index = 0]
                        ELSE [Blank EXCEPT !.cap = v.period]
    [] v.op = "cell" -> [Blank EXCEPT !.cap = v.period]

(* The lowered state, whatever it held, is rebuilt empty.                    *)
PreparedLowered(st, v) == [Blank EXCEPT !.cap = v.period]

(* PrewarmSignalContext: one visit of its walk.                              *)
Visit(m, v) ==
  LET e == EnsureNodeCapacity(m, v.id)
  IN [e EXCEPT !.classic[v.id] = PreparedClassic(@, v),
               !.lowered[v.id] = PreparedLowered(@, v)]

(* The walk over a signal, from the memory m it finds.                       *)
Walk(m, signal) ==
  LET w[k \in 0 .. Len(signal)] == IF k = 0 THEN m ELSE Visit(w[k - 1], signal[k])
  IN w[Len(signal)]

Memory == [nodes |-> nodes, base |-> base, classic |-> classic,
           lowered |-> lowered, sens |-> sens]

(* A caller's loop over the program's signals, one call per step.            *)
PrewarmSignalContext ==
  LET m == Walk(Memory, Program[cursor + 1])
      last == cursor + 1 = Len(Program)
  IN /\ nodes' = m.nodes
     /\ base' = RefreshLoweredStateBases(m.base, m.nodes)
     /\ classic' = m.classic
     /\ lowered' = m.lowered
     /\ sens' = m.sens
     /\ cursor' = IF last THEN 0 ELSE cursor + 1
     /\ warm' = last
     /\ late' = (late /\ ~last)
     /\ reused' = (reused \/ \E id \in Ids : classic[id].age > 0)
     /\ UNCHANGED params

(* MultiSymbolSignalContext::SetParameters, through RefreshParamViews: the   *)
(* count changes, the storage does not.                                      *)
SetParameters(k) ==
  /\ params' = k
  /\ late' = (late \/ warm \/ cursor > 0)
  /\ UNCHANGED <<nodes, base, classic, lowered, sens, cursor, warm, reused>>

(* SetStandaloneParameters: resizes for the current node capacity and clears *)
(* every sensitivity.                                                        *)
SetStandaloneParameters(k) ==
  /\ params' = k
  /\ sens' = [i \in 1..(nodes * k) |-> 0]
  /\ late' = FALSE
  /\ UNCHANGED <<nodes, base, classic, lowered, cursor, warm, reused>>

------------------------------------------------------------------------------
Older(age) == IF age = MaxAge THEN MaxAge ELSE age + 1
Pushed(st) == [st EXCEPT !.age = Older(@), !.index = Older(@)]
PushAll(states) == [i \in Ids |-> Pushed(states[i])]

Ready == warm /\ cursor = 0

(* One tick of the interpreter, or of code that calls the runtime.           *)
TickRuntime ==
  /\ Ready
  /\ classic' = PushAll(classic)
  /\ UNCHANGED <<nodes, base, lowered, params, sens, cursor, warm, late, reused>>

(* One tick of lowered code: through the base pointers.                      *)
TickLowered ==
  /\ Ready
  /\ lowered' = PushAll(lowered)
  /\ UNCHANGED <<nodes, base, classic, params, sens, cursor, warm, late, reused>>

(* GradientSlot; CheckedGradientParam admits p < gradient_param_count.       *)
GradientSlot(id, p) == id * params + p

SlotsInRange == \A id \in Ids, p \in 0..(params - 1) : GradientSlot(id, p) < Len(sens)

(* One tick of gradient code for parameter p: every node's runtime state and *)
(* its sensitivity to p.  Beyond the storage it has no defined effect.       *)
TickGradient(p) ==
  /\ Ready
  /\ p < params
  /\ SlotsInRange
  /\ classic' = PushAll(classic)
  /\ sens' = [i \in DOMAIN sens |->
                IF \E id \in Ids : i = GradientSlot(id, p) + 1
                  THEN Older(sens[i]) ELSE sens[i]]
  /\ UNCHANGED <<nodes, base, lowered, params, cursor, warm, late, reused>>

Next ==
  \/ PrewarmSignalContext
  \/ \E k \in ParamCounts : SetParameters(k)
  \/ \E k \in ParamCounts : SetStandaloneParameters(k)
  \/ TickRuntime
  \/ TickLowered
  \/ \E p \in 0..(params - 1) : TickGradient(p)

Spec == Init /\ [][Next]_vars

------------------------------------------------------------------------------
(* The base pointers compiled code loads from offset 0 of the context are    *)
(* never those of an array that has moved since.                             *)
BasesCurrent == base = nodes

(* Deque entries carry the tick index at which they were pushed, so expiry   *)
(* is right only while the index counts the samples a state has seen.  It    *)
(* always does in the lowered arrays, and in the runtime's until a context   *)
(* in use is prewarmed again: that restarts the index of rolling_min and     *)
(* rolling_max but keeps their entries (runtime.cpp:1041).                   *)
StampsCountSamples ==
  \A id \in Ids : /\ lowered[id].index = lowered[id].age
                  /\ ~reused => classic[id].index = classic[id].age

(* At no time is a pointer stale, a field out of its range, or a deque's     *)
(* clock wrong in a context that was prewarmed once.                         *)
ContextInv == TypeOK /\ BasesCurrent /\ StampsCountSamples

(* Once the loop over the program is through, every node of it has storage   *)
(* in the arrays, prepared for its period in both layouts: growing the       *)
(* arrays for a later signal loses nothing of the earlier ones.              *)
WarmedFits ==
  warm => \A v \in Visits : /\ v.id < nodes
                            /\ classic[v.id].cap = v.period
                            /\ lowered[v.id].cap = v.period

(* ARCHITECTURE.md: operators "carry parameter sensitivities in additional   *)
(* per-(node_id, param_id) state slots".  EnsureNodeCapacity sizes their     *)
(* storage for the node at hand, so it shrinks and grows along the walk.  A  *)
(* prepared context has a slot for every node and parameter, if the walk     *)
(* over the program ends on the largest id, however often it went back to a  *)
(* shared one before.  (SetParameters after the prewarm leaves the storage   *)
(* of the old count.)                                                        *)
LastVisited == LET signal == Program[Len(Program)] IN signal[Len(signal)].id
GradientSlotsInRange == Ready /\ ~late /\ LastVisited = MaxId => SlotsInRange

(* The same as the document has it: a slot for each node and parameter of    *)
(* every program.                                                            *)
SlotPerNodeAndParam == Ready /\ ~late => SlotsInRange
=============================================================================
