---------------------------- MODULE Expressions ----------------------------
(***************************************************************************)
(* The abstract syntax of the signal language (src/src/ast.h) and what its *)
(* operators compute when a program runs.  Every node has its children in  *)
(* `kids', in the order in which all passes visit them.                    *)
(***************************************************************************)
EXTENDS Ieee, Sequences

CONSTANT Tolerance   \* the 1e-12 of == and !=, scaled to the literals at hand

Num(v) == [k |-> "num", val |-> v, kids |-> << >>]
Ident(n) == [k |-> "id", name |-> n, kids |-> << >>]
Param(n, i) == [k |-> "param", name |-> n, id |-> i, kids |-> << >>]
Unary(op, e) == [k |-> "unary", name |-> op, kids |-> <<e>>]
Binary(op, l, r) == [k |-> "bin", name |-> op, kids |-> <<l, r>>]
If(c, t, e) == [k |-> "if", name |-> "if", kids |-> <<c, t, e>>]

\* A call has a node id and a symbol id, 0 until they are assigned.
Call(fn, args) == [k |-> "call", name |-> fn, id |-> 0, sym |-> 0, kids |-> args]

Zero == Whole(0)
One == Whole(1)
Bool(b) == IF b THEN One ELSE Zero
Truth(v) == v # Zero   \* NaN included

Arithmetic == {"+", "-", "*", "/"}
Comparison == {">", "<", ">=", "<=", "==", "!="}
Logical == {"&&", "||"}

\* The operators on which compile time and run time agree.
Exact(op, l, r) ==
  CASE op = "+" -> FAdd(l, r)
    [] op = "-" -> FSub(l, r)
    [] op = "*" -> FMul(l, r)
    [] op = "/" -> FDiv(l, r)
    [] op = ">" -> Bool(FLt(r, l))
    [] op = "<" -> Bool(FLt(l, r))
    [] op = ">=" -> Bool(FLe(r, l))
    [] op = "<=" -> Bool(FLe(l, r))
    [] op = "&&" -> Bool(Truth(l) /\ Truth(r))
    [] op = "||" -> Bool(Truth(l) \/ Truth(r))

\* What an operator yields at run time: == and != have a tolerance.
Apply(op, l, r) ==
  LET gap == FAbs(FSub(l, r))
  IN  CASE op = "==" -> Bool(FLt(gap, Tolerance))
        [] op = "!=" -> Bool(FLe(Tolerance, gap))
        [] OTHER -> Exact(op, l, r)

ApplyUnary(op, v) == IF op = "-" THEN FNeg(v) ELSE v

\* The first argument of these names an instrument and is not an expression.
IsTickerFirstArgFn(name) == name \in {"mid", "bid", "ask", "spread", "vwap"}

IsStatefulOp(name) ==
  name \in {"ema", "ema_alpha", "sma", "rolling_std", "rolling_min", "rolling_max", "zscore",
            "vwap", "lag", "cross_above", "cross_below", "rolling_corr", "rolling_beta",
            "kalman1d"}

Ticker(e, i) == e.k = "call" /\ i = 1 /\ IsTickerFirstArgFn(e.name)

\* A copy, without the node and symbol ids.
RECURSIVE CloneExpr(_)
CloneExpr(e) ==
  LET kids == [i \in DOMAIN e.kids |-> CloneExpr(e.kids[i])]
  IN  IF e.k = "call" THEN Call(e.name, kids) ELSE [e EXCEPT !.kids = kids]

\* Structural equality does not look at the ids either.
AstEquals(a, b) == CloneExpr(a) = CloneExpr(b)

\* The node itself and all nodes below it.
RECURSIVE SubExprs(_)
SubExprs(e) == {e} \cup UNION {SubExprs(e.kids[i]) : i \in DOMAIN e.kids}

HasState(e) == \E s \in SubExprs(e) : s.k = "call" /\ IsStatefulOp(s.name)
=============================================================================
