------------------------------ MODULE ExprEval ------------------------------
(***************************************************************************)
(* One tick of a prepared program on its three backends: the tree-walking  *)
(* interpreter (src/src/interpreter.cpp), the scalar JIT code and the      *)
(* vectorised JIT code (EmitExpr of src/src/jit_compiler.cpp), with the    *)
(* caches that turn a shared node id into one push per tick.               *)
(*                                                                         *)
(* Of the stateful operators this module runs lag(e, 1): its state is the  *)
(* last sample pushed, NaN before the first.  A context is the state of    *)
(* every node id; env has the market, by symbol id, and the parameters.    *)
(***************************************************************************)
EXTENDS SignalProgram

Cached(cache, id) == id \in DOMAIN cache

With(f, id, v) == [i \in DOMAIN f \cup {id} |-> IF i = id THEN v ELSE f[i]]

\* A context as PrewarmSignalContext leaves it.
Fresh(nodes) == [id \in 1 .. nodes |-> Nan]

-----------------------------------------------------------------------------
(* Interpreter::Evaluate, on a context `ctx'.  Both sides of an operator,   *)
(* && and || included, are evaluated.                                       *)

RECURSIVE Visit(_, _, _, _)
Visit(e, env, ctx, cache) ==
  LET first == Visit(e.kids[1], env, ctx, cache)
      second == Visit(e.kids[2], env, first.ctx, first.cache)
      value(v) == [val |-> v, ctx |-> ctx, cache |-> cache]
  IN  CASE e.k = "num" -> value(e.val)
        [] e.k = "param" -> value(env.params[e.id])
        [] e.k = "unary" -> [first EXCEPT !.val = ApplyUnary(e.name, @)]
        [] e.k = "bin" -> [second EXCEPT !.val = Apply(e.name, first.val, @)]
        [] e.k = "if" -> Visit(IF Truth(first.val) THEN e.kids[2] ELSE e.kids[3],
                               env, first.ctx, first.cache)
        [] e.k = "call" ->
             CASE e.name = "mid" -> value(env.market[e.sym])
               [] e.name = "abs" -> [first EXCEPT !.val = FAbs(@)]
               [] e.name = "lag" ->
                    IF Cached(cache, e.id) THEN value(cache[e.id])
                    ELSE [val |-> first.ctx[e.id],
                          ctx |-> [first.ctx EXCEPT ![e.id] = first.val],
                          cache |-> With(first.cache, e.id, first.ctx[e.id])]

\* The signals one after the other; the cache lasts for one of them.
InterpretProgram(signals, env, ctx0) ==
  LET run[i \in 0 .. Len(signals)] ==
        IF i = 0 THEN [out |-> << >>, ctx |-> ctx0]
        ELSE LET before == run[i - 1]
                 r == Visit(signals[i].body, env, before.ctx, << >>)
             IN  [out |-> Append(before.out, r.val), ctx |-> r.ctx]
  IN  run[Len(signals)]

-----------------------------------------------------------------------------
(* EmitExpr.  Emitting a call either builds it or, its id being in          *)
(* stateful_emit_cache, names the value built before.  The basic block of   *)
(* an instruction is given by the branches that lead to it.                 *)

Within(outer, inner) == /\ Len(outer) <= Len(inner)
                        /\ SubSeq(inner, 1, Len(outer)) = outer

\* Code is the expression, a call that names an earlier value marked.
Reuse(e) == [e EXCEPT !.k = "reuse", !.kids = << >>]

\* `blocks': node id -> block of its value; ok: every reuse is dominated.
RECURSIVE EmitExpr(_, _, _, _)
EmitExpr(e, vector, block, blocks) ==
  LET stateful == e.k = "call" /\ e.id > 0
      inner(i) == IF e.k = "if" /\ i > 1 /\ ~vector THEN Append(block, <<e, i>>) ELSE block
      emitted[i \in 0 .. Len(e.kids)] ==
        IF i = 0 THEN [kids |-> << >>, blocks |-> blocks, ok |-> TRUE]
        ELSE LET before == emitted[i - 1]
                 c == EmitExpr(e.kids[i], vector, inner(i), before.blocks)
             IN  IF Ticker(e, i) THEN [before EXCEPT !.kids = Append(@, e.kids[i])]
                 ELSE [kids |-> Append(before.kids, c.code), blocks |-> c.blocks,
                       ok |-> before.ok /\ c.ok]
      all == emitted[Len(e.kids)]
  IN  IF stateful /\ Cached(blocks, e.id)
      THEN [code |-> Reuse(e), blocks |-> blocks, ok |-> Within(blocks[e.id], block)]
      ELSE [code |-> [e EXCEPT !.kids = all.kids], ok |-> all.ok,
            blocks |-> IF stateful THEN With(all.blocks, e.id, block) ELSE all.blocks]

\* CompileProgram, CompileProgramVectorized: one cache for the whole program.
CompileProgram(signals, vector) ==
  LET emit[i \in 0 .. Len(signals)] ==
        IF i = 0 THEN [code |-> << >>, blocks |-> << >>, ok |-> TRUE]
        ELSE LET before == emit[i - 1]
                 c == EmitExpr(signals[i].body, vector, << >>, before.blocks)
             IN  [code |-> Append(before.code, c.code), blocks |-> c.blocks,
                  ok |-> before.ok /\ c.ok]
  IN  emit[Len(signals)]

\* Mutant: the arms of the select are the wrong way round.
SelectSwapped(cond, t, f) == IF Truth(cond) THEN f ELSE t

\* The lane-wise select of the vector code.
Select(cond, t, f) == IF Truth(cond) THEN t ELSE f

\* The code at work: `ssa' has the values built so far in this tick.  The
\* vector code runs both branches and selects.
RECURSIVE Execute(_, _, _, _, _)
Execute(c, vector, env, ctx, ssa) ==
  LET first == Execute(c.kids[1], vector, env, ctx, ssa)
      second == Execute(c.kids[2], vector, env, first.ctx, first.ssa)
      third == Execute(c.kids[3], vector, env, second.ctx, second.ssa)
      value(v) == [val |-> v, ctx |-> ctx, ssa |-> ssa]
  IN  CASE c.k = "num" -> value(c.val)
        [] c.k = "param" -> value(env.params[c.id])
        [] c.k = "unary" -> [first EXCEPT !.val = ApplyUnary(c.name, @)]
        [] c.k = "bin" -> [second EXCEPT !.val = Apply(c.name, first.val, @)]
        [] c.k = "if" ->
             IF vector THEN [third EXCEPT !.val = Select(first.val, second.val, third.val)]
             ELSE Execute(IF Truth(first.val) THEN c.kids[2] ELSE c.kids[3],
                          vector, env, first.ctx, first.ssa)
        [] c.k = "reuse" -> value(ssa[c.id])
        [] c.k = "call" ->
             CASE c.name = "mid" -> value(env.market[c.sym])
               [] c.name = "abs" -> [first EXCEPT !.val = FAbs(@)]
               [] c.name = "lag" ->
                    [val |-> first.ctx[c.id], ctx |-> [first.ctx EXCEPT ![c.id] = first.val],
                     ssa |-> With(first.ssa, c.id, first.ctx[c.id])]

RunProgram(code, vector, env, ctx0) ==
  LET run[i \in 0 .. Len(code)] ==
        IF i = 0 THEN [out |-> << >>, ctx |-> ctx0, ssa |-> << >>]
        ELSE LET before == run[i - 1]
                 r == Execute(code[i], vector, env, before.ctx, before.ssa)
             IN  [out |-> Append(before.out, r.val), ctx |-> r.ctx, ssa |-> r.ssa]
  IN  run[Len(code)]
=============================================================================
