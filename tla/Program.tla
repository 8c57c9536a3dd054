------------------------------ MODULE Program ------------------------------
(***************************************************************************)
(* The life of a program: its source is parsed, its signals are inlined    *)
(* into one another, it is prepared (node ids, symbol ids, code), and then *)
(* it is ticked on every backend at once: the interpreter, the scalar and  *)
(* the vector JIT, the forward-mode gradients and the compiled gradients,  *)
(* the latter two on one context per parameter.                            *)
(*                                                                         *)
(* `source' is what its author wrote: parameters and signals as trees, in  *)
(* which a parameter or a signal is an identifier.  The passes get to see  *)
(* the tokens of its lines, fully parenthesised.                           *)
(***************************************************************************)
EXTENDS Autodiff, Relation

CONSTANTS Sources,    \* the programs to be checked: [params, signals]
          AllSignals, \* TRUE: prepared by main.cpp --all-signals, FALSE: by all others
          Inputs,     \* what the mid price of an instrument can be
          MaxTicks    \* bound: ticks of a run

VARIABLES source,     \* [params, signals], sequences of [name, body]
          stage,      \* "source", "parsed", "inlined", "ready" or "rejected"
          prog,       \* the ProgramDef so far
          nodes,      \* number of node ids
          symbols,    \* the SymbolTable
          code,       \* what CompileProgram, ...Vectorized and ...Gradient built
          hist,       \* ghost: the markets of all ticks, by symbol id
          ctx,        \* the contexts, by backend
          outs        \* the outputs of the last tick, by backend

vars == <<source, stage, prog, nodes, symbols, code, hist, ctx, outs>>

None == << >>

\* The tokens of an expression, with all parentheses.
RECURSIVE Spell(_)
Spell(e) ==
  LET kid(i) == Spell(e.kids[i])
      args == [i \in DOMAIN e.kids |-> (IF i > 1 THEN <<Word(",")>> ELSE << >>) \o kid(i)]
  IN  CASE e.k = "num" -> <<Number(e.val)>>
        [] e.k = "id" -> <<Identifier(e.name)>>
        [] e.k = "unary" -> Parens(<<Word(e.name)>> \o kid(1))
        [] e.k = "bin" -> Parens(kid(1) \o <<Word(e.name)>> \o kid(2))
        [] e.k = "if" -> Parens(<<Word("if")>> \o kid(1) \o <<Word("then")>> \o kid(2)
                                  \o <<Word("else")>> \o kid(3))
        [] e.k = "call" -> <<Identifier(e.name)>> \o Parens(FlattenSeq(args))

Lines ==
  LET line(kind, def) == <<Word(kind), Identifier(def.name), Word("=")>> \o Spell(def.body)
  IN  [i \in DOMAIN source.params |-> line("param", source.params[i])]
        \o [i \in DOMAIN source.signals |-> line("signal", source.signals[i])]

-----------------------------------------------------------------------------
Init ==
  /\ source \in Sources /\ stage = "source"
  /\ prog = None /\ nodes = 0 /\ symbols = << >> /\ code = None
  /\ hist = << >> /\ ctx = None /\ outs = None

\* A pass either yields a program or throws.
Becomes(result, next) ==
  /\ stage' = IF result.ok THEN next ELSE "rejected"
  /\ prog' = IF result.ok THEN result ELSE None

Parse ==
  /\ stage = "source"
  /\ Becomes(ParseProgram(Lines), "parsed")
  /\ UNCHANGED <<source, nodes, symbols, code, hist, ctx, outs>>

Inline ==
  /\ stage = "parsed"
  /\ Becomes(InlineSignalDependencies(prog), "inlined")
  /\ UNCHANGED <<source, nodes, symbols, code, hist, ctx, outs>>

\* An identifier that is left is "unresolved" to the code generator.
Resolved(signals) ==
  \A i \in DOMAIN signals : CollectRefs(signals[i].body) = {}

Bound(signals, table) ==
  [i \in DOMAIN signals |-> [signals[i] EXCEPT !.body = BindSymbolIds(@, table)]]

Compiled(signals) ==
  [scalar |-> CompileProgram(signals, FALSE), vec |-> CompileProgram(signals, TRUE),
   grad |-> CompileProgramGradient(signals)]

\* Prewarmed; one for each parameter under gradients.
Contexts(n) ==
  LET perParam == [p \in DOMAIN prog.params |-> FreshGradient(n)]
  IN  [interp |-> Fresh(n), scalar |-> Fresh(n), vec |-> Fresh(n),
       forward |-> perParam, compiled |-> perParam]

\* A bound program with n node ids and its code.
Load(signals, n, table, built) ==
  /\ stage' = IF built.scalar.ok /\ built.grad.ok THEN "ready" ELSE "rejected"
  /\ prog' = [prog EXCEPT !.signals = signals]
  /\ nodes' = n /\ symbols' = table /\ code' = built
  /\ ctx' = Contexts(n)

\* Given the ids of all nodes and the registered instruments.
BindAndLoad(alloc, reg) ==
  IF /\ reg.ok
     /\ \A i \in DOMAIN prog.signals : Bindable(prog.signals[i].body)
     /\ Resolved(prog.signals)
  THEN LET bound == Bound(alloc.signals, reg.symbols)
       IN  Load(bound, alloc.st.next - 1, reg.symbols, Compiled(bound))
  ELSE stage' = "rejected" /\ UNCHANGED <<prog, nodes, symbols, code, ctx>>

\* Node ids, RegisterOrGetId, BindSymbolIds, a prewarmed context, the code.
Prepare ==
  /\ stage = "inlined"
  /\ BindAndLoad(IF AllSignals THEN AllocateSeparately(prog.signals)
                 ELSE AllocateProgramNodeIds(prog.signals),
                 RegisterTickers(prog.signals))
  /\ UNCHANGED <<source, hist, outs>>

ParamValues == [p \in DOMAIN prog.params |-> prog.params[p].val]

Tick(market) ==
  LET env == [market |-> market, params |-> ParamValues]
      i == InterpretProgram(prog.signals, env, ctx.interp)
      s == RunProgram(code.scalar.code, FALSE, env, ctx.scalar)
      v == RunProgram(code.vec.code, TRUE, env, ctx.vec)
      f == [p \in DOMAIN prog.params |-> EvaluateGradients(prog.signals, env, p, ctx.forward[p])]
      c == [p \in DOMAIN prog.params |->
              RunProgramGradient(code.grad.code, env, p, ctx.compiled[p])]
  IN  /\ stage = "ready" /\ Len(hist) < MaxTicks
      /\ ctx' = [interp |-> i.ctx, scalar |-> s.ctx, vec |-> v.ctx,
                 forward |-> [p \in DOMAIN f |-> f[p].ctx],
                 compiled |-> [p \in DOMAIN c |-> c[p].ctx]]
      /\ outs' = [interp |-> i.out, scalar |-> s.out, vec |-> v.out,
                  forward |-> [p \in DOMAIN f |-> f[p].out],
                  compiled |-> [p \in DOMAIN c |-> c[p].out]]
      /\ hist' = Append(hist, market)
      /\ UNCHANGED <<source, stage, prog, nodes, symbols, code>>

Next == \/ Parse \/ Inline \/ Prepare
        \/ \E market \in [DOMAIN symbols -> Inputs] : Tick(market)

Spec == Init /\ [][Next]_vars

-----------------------------------------------------------------------------
(* What a source means, independently of all passes *)

Bodies(defs) == {defs[i].body : i \in DOMAIN defs}
Everywhere(defs) == UNION {SubExprs(b) : b \in Bodies(defs)}

BodyOf(name) == IF name \in Names(source.params)
                THEN source.params[Position(source.params, name)].body
                ELSE source.signals[Position(source.signals, name)].body

\* The value of an expression at tick t and its derivative in parameter p.  A
\* reference is the value of what it refers to; lag looks back one tick.
RECURSIVE Meaning(_, _, _)
Meaning(e, p, t) ==
  LET x(i) == Meaning(e.kids[i], p, t)
  IN  CASE e.k = "num" -> Dual(e.val, Zero)
        [] e.k = "id" ->
             IF e.name \in Names(source.params)
             THEN Dual(Meaning(BodyOf(e.name), p, t).val, Seed(Position(source.params, e.name), p))
             ELSE Meaning(BodyOf(e.name), p, t)
        [] e.k = "unary" -> GradUnary(e.name, x(1))
        [] e.k = "bin" -> GradBinary(e.name, x(1), x(2))
        [] e.k = "if" -> IF Truth(x(1).val) THEN x(2) ELSE x(3)
        [] e.k = "call" ->
             CASE e.name = "mid" -> Dual(hist[t][LookupId(symbols, e.kids[1].name)], Zero)
               [] e.name = "abs" -> GradAbs(x(1))
               [] e.name = "lag" -> IF t = 1 THEN Dual(Nan, Nan) ELSE Meaning(e.kids[1], p, t - 1)

\* The signals a signal refers to, outside of branches that folding drops.
RefersTo == [s \in Names(source.signals), r \in Names(source.signals) |->
               r \in CollectRefs(FoldConstants(BodyOf(s)))]

Reaches == TransitiveClosure(RefersTo, Names(source.signals))
Acyclic == \A s \in Names(source.signals) : ~Reaches[s, s]

\* A signal that has state, itself or through what it refers to.
Stateful(name) ==
  name \in Names(source.signals) /\
    \/ HasState(BodyOf(name))
    \/ \E r \in Names(source.signals) : Reaches[name, r] /\ HasState(BodyOf(r))

\* State of its own inside a branch: there it is pushed only when the branch
\* is taken, and a signal with state that is referred to is copied there.
ConditionalState ==
  \E e \in Everywhere(source.signals) : e.k = "if" /\
    \E i \in {2, 3} : \/ HasState(e.kids[i])
                      \/ \E r \in CollectRefs(e.kids[i]) : Stateful(r)

\* == or != on two constants that compile time and run time tell apart.
FoldedApart ==
  \E e \in Everywhere(source.params \o source.signals) : e.k = "bin" /\ e.name \in {"==", "!="} /\
    LET l == FoldConstants(e.kids[1]) r == FoldConstants(e.kids[2])
    IN  l.k = "num" /\ r.k = "num" /\ FoldBinary(e.name, l.val, r.val) # Apply(e.name, l.val, r.val)

\* A constant divided by a constant zero: its derivative is no number.
ConstantByZero ==
  \E e \in Everywhere(source.signals) :
    e.k = "bin" /\ e.name = "/" /\ FoldConstants(e.kids[2]) = Num(Zero)

now == Len(hist)
Ticked == now > 0

-----------------------------------------------------------------------------
(* What is wrong with a source *)

\* A comparison or a logical operator stands where a truth value is wanted,
\* and nowhere else; an instrument is a name.
Truthlike(e) == e.k = "bin" /\ e.name \notin Arithmetic
Typed(b) ==
  /\ ~Truthlike(b)
  /\ \A e \in SubExprs(b) : \A i \in DOMAIN e.kids :
       /\ Ticker(e, i) => e.kids[i].k = "id"
       /\ Truthlike(e.kids[i]) <=> (e.k = "if" /\ i = 1) \/ (e.k = "bin" /\ e.name \in Logical)

\* An instrument is called like a signal that the same body refers to.
Captured(s) ==
  LET b == FoldConstants(BodyOf(s))
  IN  CollectTickerSymbols(b) \cap CollectRefs(b) \cap Names(source.signals) # {}

WellFormed ==
  LET defs == source.params \o source.signals
      folded == {FoldConstants(b) : b \in Bodies(source.signals)}
  IN  /\ source.signals # << >> /\ Distinct(defs)
      /\ \A b \in Bodies(defs) : Typed(b)
      /\ \A b \in Bodies(source.params) :
           \A e \in SubExprs(FoldConstants(b)) : e.k \notin {"id", "call"}
      /\ \A b \in folded : CollectRefs(b) \subseteq Names(defs)
      /\ Acyclic /\ \A s \in Names(source.signals) : ~Captured(s)
      /\ Cardinality(UNION {CollectTickerSymbols(b) : b \in folded}) <= MaxInstruments

\* A program is rejected for what its author did wrong, and only then: a name
\* given twice, a type error, a default that is not constant, an undefined
\* name, a cycle, an instrument captured by a signal, too many instruments.
\* In particular the code generator never reuses the value of a call where
\* it is not available: "the cached Value's BasicBlock dominates all later
\* uses" (jit_compiler.cpp:1974-1976), or else verifyFunction rejects.
AcceptsExactly == /\ stage = "ready" => WellFormed
                  /\ stage = "rejected" => ~WellFormed

\* A formatted program parses to the program that was formatted ("parses to
\* a structurally-equal AST", dsl_formatter.h:3-6).
FormatsBack == stage = "parsed" => ParseProgram(FormatProgram(prog)) = prog

\* The two places where it does not: the right operand of || is an &&, which
\* the formatter takes to bind tighter and the parser does not, or an operand
\* of a logical operator was folded to a literal, which does not type-check.
Unprintable ==
  \E e \in Everywhere(prog.signals) : Truthlike(e) /\ e.name \in Logical /\
    \/ e.name = "||" /\ e.kids[2].k = "bin" /\ e.kids[2].name = "&&"
    \/ \E i \in {1, 2} : e.kids[i].k = "num"

\* Everything else survives: precedences, associativity, signs, infinities.
RoundTrips == (stage = "parsed" /\ ~Unprintable) => FormatsBack

-----------------------------------------------------------------------------
(* What the backends make of a source *)

\* Parsing, folding, inlining, the sharing of node ids and the caches leave
\* what a program means: every output of the interpreter is the one that the
\* source defines over the history, if state is not conditional and no
\* equality of constants was folded that the tolerance decides differently.
PreparedMeansSource ==
  (Ticked /\ ~ConditionalState /\ ~FoldedApart) =>
    \A i \in DOMAIN outs.interp : outs.interp[i] = Meaning(source.signals[i].body, 0, now).val

\* The scalar JIT answers like the interpreter and leaves the same states,
\* tick after tick, for every program ("The core invariant is interpreter/JIT
\* parity", docs/agent_architecture.md:12): a cache built when the code was
\* emitted comes to the same as one filled while a tree is walked.
ScalarMatchesInterpreter ==
  Ticked => ctx.scalar = ctx.interp /\ outs.scalar = outs.interp

\* The calls of an expression inside (outside) of all branches.
RECURSIVE CallIds(_, _, _)
CallIds(e, inBranch, wanted) ==
  UNION {CallIds(e.kids[i], inBranch \/ (e.k = "if" /\ i > 1), wanted) : i \in DOMAIN e.kids}
    \cup IF e.k = "call" /\ e.id > 0 /\ inBranch = wanted THEN {e.id} ELSE {}

Ids(inBranch) == UNION {CallIds(b, FALSE, inBranch) : b \in Bodies(prog.signals)}

\* The vector JIT agrees, too, if no call inside a branch has a state of its
\* own: those that repeat an unconditional call are aliased to it.  Without
\* the condition it does not: it runs both branches (jit_compiler.cpp:1929).
VecMatchesIfAliased ==
  (Ticked /\ Ids(TRUE) \subseteq Ids(FALSE)) =>
    ctx.vec = ctx.interp /\ outs.vec = outs.interp

\* Both gradients, interpreted and compiled, come with the value that the
\* interpreter computes, agree with each other on every program, and are the
\* derivative of what the source means.
GradientsOfSource ==
  Ticked =>
    /\ outs.forward = outs.compiled /\ ctx.forward = ctx.compiled
    /\ \A p \in DOMAIN outs.forward : \A i \in DOMAIN outs.interp :
         /\ outs.forward[p][i].val = outs.interp[i]
         /\ ~(ConditionalState \/ FoldedApart \/ ConstantByZero) =>
              outs.forward[p][i] = Meaning(source.signals[i].body, p, now)

\* The symbolic derivative of a stateless signal, folded and run as a signal
\* of its own, is the derivative the forward mode computes beside a value.
StatelessGradientsAgree ==
  Ticked =>
    \A p \in DOMAIN prog.params : \A i \in DOMAIN prog.signals :
      LET b == prog.signals[i].body
          env == [market |-> hist[now], params |-> ParamValues]
          vg == outs.forward[p][i]
      IN  (RequirePhase1Supported(b) /\ Finite(vg.val) /\ Finite(vg.der)) =>
            Visit(BindSymbolIds(GradientSignal(b, p), symbols), env, << >>, << >>).val = vg.der

\* r is what calibration reports, m[p, t] what the source means at tick t.
Calibrated(r, m) ==
  LET err(p, t) == FSub(m[p, t].val, One)
      params == DOMAIN prog.params
  IN  /\ r.ok <=> \A p \in params : \A t \in 1 .. now : Finite(m[p, t].val) /\ Finite(m[p, t].der)
      /\ r.ok =>
           /\ FMul(Whole(2), r.objective) = FMean([t \in 1 .. now |-> FMul(err(1, t), err(1, t))])
           /\ \A p \in params :
                r.gradient[p] = FMean([t \in 1 .. now |-> FMul(err(p, t), m[p, t].der)])

\* The objective that calibration reports is the one of the source over the
\* ticks, its gradient the derivative in every parameter, although every
\* parameter takes a pass of its own over the same ticks; and calibration
\* gives up if and only if an output or a derivative is not finite.
CalibrationGradient ==
  (now = MaxTicks /\ prog.params # << >> /\ ~(ConditionalState \/ FoldedApart \/ ConstantByZero)) =>
    Calibrated(EvaluateObjectiveAndGradient(code.grad.code, nodes, ParamValues, hist, 1, One),
               [p \in DOMAIN prog.params, t \in 1 .. now |->
                  Meaning(source.signals[1].body, p, t)])
=============================================================================
