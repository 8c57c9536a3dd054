---------------------------- MODULE MCTieredJit ----------------------------
(* Two evaluators; one call of each kind the two analyses tell apart: lag   *)
(* with the longest period of all, sma and ema inside and outside of a      *)
(* conditional, and an operator no warm-up is computed for.                 *)
EXTENDS TieredJit, TLC
MCOp == [s |-> "sma", t |-> "sma", l |-> "lag", e |-> "ema", k |-> "kalman1d"]
MCPeriod == [s |-> 2, t |-> 2, l |-> 3, e |-> 5, k |-> 9]
MCConditional == [s |-> FALSE, t |-> TRUE, l |-> FALSE, e |-> TRUE, k |-> FALSE]
MCCalls == DOMAIN MCOp
Symmetry == Permutations(Evaluators)
=============================================================================
