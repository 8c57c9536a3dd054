----------------------------- MODULE TieredJit -----------------------------
(***************************************************************************)
(* TieredProgramJit (src/src/jit_compiler.cpp:4195-4323).  A control       *)
(* thread compiles a program (baseline), and once every context has run    *)
(* WarmupTickThreshold() ticks compiles it again with assume_warm and      *)
(* swaps active_fn.  Evaluator threads, each with its own SignalContext,   *)
(* load active_fn and run what they loaded, tick after tick.               *)
(*                                                                         *)
(* The specialised code drops the "is it warm yet" guards of the warm-safe *)
(* calls.  What matters of a state is how many samples it has seen, up to  *)
(* the number it needs: `count' of sma and lag, `initialized' of ema.      *)
(***************************************************************************)
EXTENDS Integers, FiniteSetsExt

CONSTANTS Calls,         \* the stateful calls of the program
          Op, Period,    \* of each call
          Conditional,   \* whether it is inside a then- or else-branch
          Evaluators,
          MaxInt         \* the largest int: a period is one

WarmupBounded == {"sma", "ema", "ema_alpha", "lag", "rolling_std", "rolling_min",
                  "rolling_max", "zscore", "vwap"}
Ops == WarmupBounded \cup {"cross_above", "cross_below", "rolling_corr",
                           "rolling_beta", "kalman1d"}

ASSUME ProgramAssumption ==
  /\ MaxInt \in Nat
  /\ Op \in [Calls -> Ops]
  /\ Period \in [Calls -> 1 .. MaxInt]
  /\ Conditional \in [Calls -> BOOLEAN]

VARIABLES active,     \* active_fn
          promoted, compiled,
          ctl,        \* where the control thread is in Compile() or Promote()
          visible,    \* per evaluator, the values a load of active_fn may return
          held,       \* per evaluator, the function it is about to run, or "null"
          ticks,      \* per evaluator, ticks run on its context, up to Threshold
          filled,     \* per evaluator and call, samples seen, up to Need
          agrees      \* ghost: every tick so far was what baseline code does

tierVars == <<active, promoted, compiled, ctl, visible, held, ticks, filled, agrees>>
Fns == {"null", "baseline", "specialised"}

-----------------------------------------------------------------------------
(* ComputeProgramWarmupThreshold and CollectWarmSafeStatefulCalls *)

OpThreshold(c) == IF Op[c] \notin WarmupBounded THEN 0
                  ELSE IF Op[c] \in {"ema", "ema_alpha"} THEN 1
                  ELSE Period[c]

\* Mutant: lag is forgotten.
ThresholdNoLag == Max({0} \cup {OpThreshold(c) : c \in {d \in Calls : Op[d] # "lag"}})

Threshold == Max({0} \cup {OpThreshold(c) : c \in Calls})

\* Mutant: calls under a condition are specialised, too.
WarmSafeAll == {c \in Calls : Op[c] \in {"sma", "ema", "lag"}}

WarmSafe == {c \in Calls : Op[c] \in {"sma", "ema", "lag"} /\ ~Conditional[c]}

-----------------------------------------------------------------------------
(* One tick of either code on a context: the calls in `run' are reached.    *)

\* Operators that are set up by their first sample.
Seeded == {"ema", "ema_alpha", "cross_above", "cross_below", "kalman1d"}

Need(c) == IF Op[c] \in Seeded THEN 1 ELSE Period[c]

\* With its guards a call counts its sample ...
Count(f, c) == IF f[c] < Need(c) THEN f[c] + 1 ELSE f[c]

\* ... and answers by what it finds: lag looks before the push, a window
\* after it, and to a seeded operator the first sample is special.
GuardedAnswer(f, c) ==
  IF Op[c] = "lag" THEN IF f[c] = Need(c) THEN "value" ELSE "NaN"
  ELSE IF Op[c] \in Seeded THEN IF f[c] = Need(c) THEN "value" ELSE "first"
  ELSE IF Count(f, c) = Need(c) THEN "value" ELSE "NaN"

RunBaseline(f, run) ==
  [state |-> [c \in Calls |-> IF c \in run THEN Count(f, c) ELSE f[c]],
   out |-> [c \in run |-> GuardedAnswer(f, c)]]

RunSpecialised(f, run) ==
  [state |-> [c \in Calls |-> IF c \in run /\ c \notin WarmSafe THEN Count(f, c) ELSE f[c]],
   out |-> [c \in run |-> IF c \in WarmSafe THEN "value" ELSE GuardedAnswer(f, c)]]

Run(fn, f, run) == IF fn = "specialised" THEN RunSpecialised(f, run) ELSE RunBaseline(f, run)

\* What a tick may reach: every call outside of conditionals, any inside.
Reached == {run \in SUBSET Calls : \A c \in Calls : ~Conditional[c] => c \in run}

-----------------------------------------------------------------------------
TierInit ==
  /\ active = "null" /\ promoted = FALSE /\ compiled = FALSE /\ ctl = "idle"
  /\ visible = [e \in Evaluators |-> {"null"}]
  /\ held = [e \in Evaluators |-> "null"]
  /\ ticks = [e \in Evaluators |-> 0]
  /\ filled = [e \in Evaluators |-> [c \in Calls |-> 0]]
  /\ agrees = TRUE

\* active_fn.store(fn, release)
Store(fn) == /\ active' = fn
             /\ visible' = [e \in Evaluators |-> visible[e] \cup {fn}]

CompileStart == /\ ctl = "idle"
                /\ Store("null")
                /\ ctl' = "resetting"
                /\ UNCHANGED <<promoted, compiled, held, ticks, filled, agrees>>

CompileReset == /\ ctl = "resetting"
                /\ promoted' = FALSE /\ compiled' = FALSE
                /\ ctl' = "building"
                /\ UNCHANGED <<active, visible, held, ticks, filled, agrees>>

CompileFail == /\ ctl = "building"
               /\ ctl' = "idle"
               /\ UNCHANGED <<active, promoted, compiled, visible, held, ticks, filled, agrees>>

CompileDone == /\ ctl = "building"
               /\ Store("baseline")
               /\ compiled' = TRUE
               /\ ctl' = "idle"
               /\ UNCHANGED <<promoted, held, ticks, filled, agrees>>

\* Mutant: one warm context is enough.
WarmedUpSome == \E e \in Evaluators : ticks[e] >= Threshold

\* The caller's side of the contract (jit_compiler.h:346-348).
WarmedUp == \A e \in Evaluators : ticks[e] >= Threshold

PromoteCall == /\ ctl = "idle" /\ WarmedUp
               /\ compiled /\ ~promoted
               /\ ctl' = "specialising"
               /\ UNCHANGED <<active, promoted, compiled, visible, held, ticks, filled, agrees>>

PromoteFail == /\ ctl = "specialising"
               /\ ctl' = "idle"
               /\ UNCHANGED <<active, promoted, compiled, visible, held, ticks, filled, agrees>>

PromotePublish == /\ ctl = "specialising"
                  /\ Store("specialised")
                  /\ ctl' = "marking"
                  /\ UNCHANGED <<promoted, compiled, held, ticks, filled, agrees>>

PromoteMark == /\ ctl = "marking"
               /\ promoted' = TRUE
               /\ ctl' = "idle"
               /\ UNCHANGED <<active, compiled, visible, held, ticks, filled, agrees>>

-----------------------------------------------------------------------------
\* CurrentFunction(): active_fn.load(acquire).  A null is not called.
Load(e) == /\ held[e] = "null"
           /\ \E fn \in visible[e] :
                /\ held' = [held EXCEPT ![e] = fn]
                /\ visible' = [visible EXCEPT ![e] = IF fn = active THEN {fn} ELSE @]
           /\ UNCHANGED <<active, promoted, compiled, ctl, ticks, filled, agrees>>

Tick(e) == /\ held[e] # "null"
           /\ held' = [held EXCEPT ![e] = "null"]
           /\ \E run \in Reached :
                /\ filled' = [filled EXCEPT ![e] = Run(held[e], @, run).state]
                /\ agrees' = (agrees /\ Run(held[e], filled[e], run)
                                          = RunBaseline(filled[e], run))
           /\ ticks' = [ticks EXCEPT ![e] = IF @ < Threshold THEN @ + 1 ELSE @]
           /\ UNCHANGED <<active, promoted, compiled, ctl, visible>>

TierNext == \/ CompileStart \/ CompileReset \/ CompileFail \/ CompileDone
        \/ PromoteCall \/ PromoteFail \/ PromotePublish \/ PromoteMark
        \/ \E e \in Evaluators : Load(e) \/ Tick(e)

TierSpec == TierInit /\ [][TierNext]_tierVars

-----------------------------------------------------------------------------
TierTypeOK ==
  /\ active \in Fns /\ promoted \in BOOLEAN /\ compiled \in BOOLEAN
  /\ ctl \in {"idle", "resetting", "building", "specialising", "marking"}
  /\ visible \in [Evaluators -> SUBSET Fns]
  /\ held \in [Evaluators -> Fns]
  /\ ticks \in [Evaluators -> 0 .. Threshold]
  /\ filled \in [Evaluators -> [Calls -> Nat]]
  /\ agrees \in BOOLEAN

\* A call that every tick reaches has seen as many samples as there were
\* ticks, until it needs no more; no call counts beyond what it needs.
Counted ==
  \A e \in Evaluators, c \in Calls :
    /\ filled[e][c] <= Need(c)
    /\ ~Conditional[c] => filled[e][c] >= ticks[e] \/ filled[e][c] = Need(c)

\* Specialised code is about only when all contexts have run their warm-up.
AboutWhenWarm ==
  (\/ active = "specialised" \/ ctl \in {"specialising", "marking"}
   \/ \E e \in Evaluators : held[e] = "specialised" \/ "specialised" \in visible[e])
  => WarmedUp

\* "every warm-safe stateful node in the program is in its steady state" when
\* specialised code runs on a context (docs/tiered_specialization.md:69-72).
SpecialisedOnlyWhenWarm ==
  \A e \in Evaluators : held[e] = "specialised" =>
    \A c \in WarmSafe : filled[e][c] = Need(c)

\* Tiering is invisible: every tick gave the answers and left the states that
\* baseline code gives, whatever mix of functions ran before.
TiersAgree == agrees

\* IsPromoted() says that CurrentFunction() has been swapped: unless a new
\* Compile() is under way, the flag is up only with the function published.
PromotedMeansSwapped ==
  /\ promoted /\ ctl # "resetting" => active = "specialised" /\ compiled
  /\ active = "specialised" /\ ctl # "marking" => promoted

\* ... which takes knowing where the control thread is in its sequence of stores.
PublishOrder ==
  /\ PromotedMeansSwapped
  /\ ctl \in {"resetting", "building"} => active = "null"
  /\ ctl \in {"building", "specialising", "marking"} => ~promoted
  /\ ctl \in {"specialising", "marking"} => compiled
  /\ ctl = "marking" => active = "specialised"

IndInv == TierTypeOK /\ Counted /\ AboutWhenWarm /\ PublishOrder /\ agrees
=============================================================================
