------------------------------ MODULE Doubles ------------------------------
(***************************************************************************)
(* The double arithmetic of the operators, exact on integers.  NaN absorbs *)
(* every operation and fails every comparison.                             *)
(***************************************************************************)
EXTENDS Integers

CONSTANT NaN   \* quiet_NaN(), a model value
ASSUME NaNAssumption == NaN \notin Int

Add(a, b) == IF NaN \in {a, b} THEN NaN ELSE a + b
Sub(a, b) == IF NaN \in {a, b} THEN NaN ELSE a - b
Mul(a, b) == IF NaN \in {a, b} THEN NaN ELSE a * b
Div(a, b) == IF NaN \in {a, b} THEN NaN ELSE a \div b   \* only where exact
Sq(a) == Mul(a, a)

GE(a, b) == NaN \notin {a, b} /\ a >= b
LE(a, b) == NaN \notin {a, b} /\ a <= b
GT(a, b) == NaN \notin {a, b} /\ a > b

\* s[1] + ... + s[n], added up in this order.
SumOf(s, n) ==
  LET total[k \in Nat] == IF k = 0 THEN 0 ELSE Add(total[k - 1], s[k]) IN total[n]
=============================================================================
