------------------------------ MODULE Autodiff ------------------------------
(***************************************************************************)
(* Gradients of a program in its parameters: the symbolic derivative of a  *)
(* stateless body and the forward-mode interpreter (src/src/autodiff.cpp), *)
(* the compiled gradient (EmitValueGradientExpr of jit_compiler.cpp) and   *)
(* the objective of calibration (src/cli/jitse_calibrate.cpp).             *)
(*                                                                         *)
(* A ValueGradient is a record [val, der]: a value, and its derivative in  *)
(* one parameter, the target.  A context has one for every node id.        *)
(***************************************************************************)
EXTENDS ExprEval

Dual(v, d) == [val |-> v, der |-> d]

\* The chain rule for the binary operators, as the gradient code applies it.
GradBinary(op, l, r) ==
  Dual(Apply(op, l.val, r.val),
       CASE op = "+" -> FAdd(l.der, r.der)
         [] op = "-" -> FSub(l.der, r.der)
         [] op = "*" -> FAdd(FMul(l.der, r.val), FMul(l.val, r.der))
         [] op = "/" -> FDiv(FSub(FMul(l.der, r.val), FMul(l.val, r.der)), FMul(r.val, r.val))
         [] OTHER -> Zero)

GradUnary(op, x) == Dual(ApplyUnary(op, x.val), ApplyUnary(op, x.der))

\* Mutant: the derivative of abs at zero is taken from the right.
GradAbsRight(x) ==
  Dual(FAbs(x.val), FMul(IF FLt(x.val, Zero) THEN Whole(-1) ELSE One, x.der))

GradAbs(x) ==
  LET sign == IF FLt(Zero, x.val) THEN One ELSE IF FLt(x.val, Zero) THEN Whole(-1) ELSE Zero
  IN  Dual(FAbs(x.val), FMul(sign, x.der))

Seed(i, target) == IF i = target THEN One ELSE Zero

-----------------------------------------------------------------------------
(* BuildStatelessGradientSignals *)

RequirePhase1Supported(e) ==
  \A s \in SubExprs(e) :
    s.k = "call" => s.name \in {"mid", "bid", "ask", "spread", "abs", "log", "sqrt"}

RECURSIVE Differentiate(_, _)
Differentiate(e, target) ==
  LET x(i) == CloneExpr(e.kids[i])
      dx(i) == Differentiate(e.kids[i], target)
      zero == Num(Zero)
  IN  CASE e.k = "param" -> Num(Seed(e.id, target))
        [] e.k = "unary" -> IF e.name = "+" THEN dx(1) ELSE Unary("-", dx(1))
        [] e.k = "bin" ->
             CASE e.name \in {"+", "-"} -> Binary(e.name, dx(1), dx(2))
               [] e.name = "*" -> Binary("+", Binary("*", dx(1), x(2)), Binary("*", x(1), dx(2)))
               [] e.name = "/" -> Binary("/", Binary("-", Binary("*", dx(1), x(2)),
                                                          Binary("*", x(1), dx(2))),
                                              Binary("*", x(2), x(2)))
               [] OTHER -> zero
        [] e.k = "if" -> If(x(1), dx(2), dx(3))
        [] e.k = "call" /\ e.name = "abs" ->
             If(Binary(">", x(1), zero), dx(1),
                If(Binary("<", x(1), zero), Unary("-", dx(1)), zero))
        [] OTHER -> zero

GradientSignal(e, target) == FoldConstants(Differentiate(e, target))

-----------------------------------------------------------------------------
(* ForwardGradientInterpreter *)

FreshGradient(nodes) == [id \in 1 .. nodes |-> Dual(Nan, Nan)]

RECURSIVE EvalExpr(_, _, _, _, _)
EvalExpr(e, env, target, ctx, cache) ==
  LET first == EvalExpr(e.kids[1], env, target, ctx, cache)
      second == EvalExpr(e.kids[2], env, target, first.ctx, first.cache)
      value(vg) == [vg |-> vg, ctx |-> ctx, cache |-> cache]
  IN  CASE e.k = "num" -> value(Dual(e.val, Zero))
        [] e.k = "param" -> value(Dual(env.params[e.id], Seed(e.id, target)))
        [] e.k = "unary" -> [first EXCEPT !.vg = GradUnary(e.name, @)]
        [] e.k = "bin" -> [second EXCEPT !.vg = GradBinary(e.name, first.vg, @)]
        [] e.k = "if" -> EvalExpr(IF Truth(first.vg.val) THEN e.kids[2] ELSE e.kids[3],
                                  env, target, first.ctx, first.cache)
        [] e.k = "call" ->
             CASE e.name = "mid" -> value(Dual(env.market[e.sym], Zero))
               [] e.name = "abs" -> [first EXCEPT !.vg = GradAbs(@)]
               [] e.name = "lag" ->
                    IF Cached(cache, e.id) THEN value(cache[e.id])
                    ELSE [vg |-> first.ctx[e.id],
                          ctx |-> [first.ctx EXCEPT ![e.id] = first.vg],
                          cache |-> With(first.cache, e.id, first.ctx[e.id])]

\* EvaluateSignalGradient for one signal after the other.
EvaluateGradients(signals, env, target, ctx0) ==
  LET run[i \in 0 .. Len(signals)] ==
        IF i = 0 THEN [out |-> << >>, ctx |-> ctx0]
        ELSE LET before == run[i - 1]
                 r == EvalExpr(signals[i].body, env, target, before.ctx, << >>)
             IN  [out |-> Append(before.out, r.vg), ctx |-> r.ctx]
  IN  run[Len(signals)]

-----------------------------------------------------------------------------
(* The compiled gradient: the code of the scalar program, with a derivative *)
(* beside every value; stateful_grad_emit_cache is filled like the other    *)
(* cache.                                                                   *)

CompileProgramGradient(signals) == CompileProgram(signals, FALSE)

\* Mutant: only the value of a call is remembered.
ReusedGradientStale(ssa, id) == Dual(ssa[id].val, Zero)

\* What a reused call stands for.
ReusedGradient(ssa, id) == ssa[id]

RECURSIVE ExecuteGradient(_, _, _, _, _)
ExecuteGradient(c, env, target, ctx, ssa) ==
  LET first == ExecuteGradient(c.kids[1], env, target, ctx, ssa)
      second == ExecuteGradient(c.kids[2], env, target, first.ctx, first.ssa)
      value(vg) == [vg |-> vg, ctx |-> ctx, ssa |-> ssa]
  IN  CASE c.k = "num" -> value(Dual(c.val, Zero))
        [] c.k = "param" -> value(Dual(env.params[c.id], Seed(c.id, target)))
        [] c.k = "unary" -> [first EXCEPT !.vg = GradUnary(c.name, @)]
        [] c.k = "bin" -> [second EXCEPT !.vg = GradBinary(c.name, first.vg, @)]
        [] c.k = "if" -> ExecuteGradient(IF Truth(first.vg.val) THEN c.kids[2] ELSE c.kids[3],
                                         env, target, first.ctx, first.ssa)
        [] c.k = "reuse" -> value(ReusedGradient(ssa, c.id))
        [] c.k = "call" ->
             CASE c.name = "mid" -> value(Dual(env.market[c.sym], Zero))
               [] c.name = "abs" -> [first EXCEPT !.vg = GradAbs(@)]
               [] c.name = "lag" ->
                    [vg |-> first.ctx[c.id], ctx |-> [first.ctx EXCEPT ![c.id] = first.vg],
                     ssa |-> With(first.ssa, c.id, first.ctx[c.id])]

RunProgramGradient(code, env, target, ctx0) ==
  LET run[i \in 0 .. Len(code)] ==
        IF i = 0 THEN [out |-> << >>, ctx |-> ctx0, ssa |-> << >>]
        ELSE LET before == run[i - 1]
                 r == ExecuteGradient(code[i], env, target, before.ctx, before.ssa)
             IN  [out |-> Append(before.out, r.vg), ctx |-> r.ctx, ssa |-> r.ssa]
  IN  run[Len(code)]

-----------------------------------------------------------------------------
(* Calibration: the objective is half the mean squared error of one output. *)

\* Mutant: one arena for all parameters.
ArenaShared(nodes, used) == used

\* Every parameter gets a new arena, prewarmed.
Arena(nodes, used) == FreshGradient(nodes)

\* The compiled gradient over all ticks, once per parameter: the outputs of
\* signal `output', the derivative in that parameter beside each value.
Replay(code, nodes, params, ticks, output) ==
  LET pass[p \in 0 .. Len(params)] ==
        IF p = 0 THEN [vgs |-> << >>, ctx |-> FreshGradient(nodes)]
        ELSE LET before == pass[p - 1]
                 step[t \in 0 .. Len(ticks)] ==
                   IF t = 0 THEN [vgs |-> << >>, ctx |-> Arena(nodes, before.ctx)]
                   ELSE LET s == step[t - 1]
                            r == RunProgramGradient(code, [market |-> ticks[t], params |-> params],
                                                    p, s.ctx)
                        IN  [vgs |-> Append(s.vgs, r.out[output]), ctx |-> r.ctx]
                 done == step[Len(ticks)]
             IN  [vgs |-> Append(before.vgs, done.vgs), ctx |-> done.ctx]
  IN  pass[Len(params)].vgs

FSum(s) == LET sum[i \in 0 .. Len(s)] == IF i = 0 THEN Zero ELSE FAdd(sum[i - 1], s[i])
           IN  sum[Len(s)]
FMean(s) == FDiv(FSum(s), Whole(Len(s)))

\* Of the outputs of all passes.  Throws for an output or a derivative that is
\* not finite; the objective is taken from the first pass.
ObjectiveAndGradient(vgs, goal) ==
  LET err(p, t) == FSub(vgs[p][t].val, goal)
  IN  IF \E p \in DOMAIN vgs : \E t \in DOMAIN vgs[p] :
           ~Finite(vgs[p][t].val) \/ ~Finite(vgs[p][t].der)
      THEN Rejected
      ELSE [ok |-> TRUE,
            objective |-> FMean([t \in DOMAIN vgs[1] |->
                                   FMul(Rat(1, 2), FMul(err(1, t), err(1, t)))]),
            gradient |-> [p \in DOMAIN vgs |->
                            FMean([t \in DOMAIN vgs[p] |-> FMul(err(p, t), vgs[p][t].der)])]]

EvaluateObjectiveAndGradient(code, nodes, params, ticks, output, goal) ==
  ObjectiveAndGradient(Replay(code, nodes, params, ticks, output), goal)
=============================================================================
