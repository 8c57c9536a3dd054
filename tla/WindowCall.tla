----------------------------- MODULE WindowCall -----------------------------
(***************************************************************************)
(* What the calls of all window operators have in common: the period, a    *)
(* literal of the program, and which code runs them.                       *)
(***************************************************************************)
EXTENDS Doubles

CONSTANT Periods   \* the period literals a program may use

ASSUME PeriodAssumption == Periods \subseteq Nat \ {0}

VARIABLES period,  \* the node's period literal
          warm     \* TieredProgramJit has promoted: assume_warm code runs

\* Mutant: one tick too early.
WarmupThresholdShort(p) == p - 1

\* The caller promotes once WarmupTickThreshold() ticks have run.
WarmupThreshold(p) == p
=============================================================================
