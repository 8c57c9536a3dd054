--------------------------- MODULE SignalProgram ---------------------------
(***************************************************************************)
(* A program of several lines, from its source to the tree that runs:      *)
(* ParseProgram, InlineSignalDependencies, AllocateProgramNodeIds and      *)
(* BindSymbolIds of src/src/signal_program.cpp, with the SymbolTable.      *)
(* A pass that throws yields Rejected.                                     *)
(***************************************************************************)
EXTENDS Dsl, FiniteSets

CONSTANT MaxInstruments   \* kMaxInstruments

Rejected == [ok |-> FALSE]

-----------------------------------------------------------------------------
(* ParseProgram *)

\* One line.  A default must fold to a literal; the body of a signal is
\* checked, then folded.
ParseDef(toks) ==
  LET kind == Peek(toks, 1).kind
      body == ParseExpr(toks, Consume(toks, Consume(toks, 2, "identifier"), "="))
      end == Consume(toks, body.pos, "eof")
      folded == FoldConstants(body.e)
  IN  IF /\ kind \in {"param", "signal"} /\ end # 0
         /\ TypeCheckExpr(body.e) = "number"
         /\ kind = "param" => folded.k = "num"
      THEN [ok |-> TRUE, kind |-> kind, name |-> toks[2].name, body |-> folded]
      ELSE Rejected

Names(defs) == {defs[i].name : i \in DOMAIN defs}
Distinct(defs) == Cardinality(Names(defs)) = Len(defs)
Position(defs, name) == CHOOSE i \in DOMAIN defs : defs[i].name = name

\* An identifier that names a parameter becomes a reference to it.
RECURSIVE ResolveParameterRefs(_, _)
ResolveParameterRefs(e, params) ==
  IF e.k = "id" THEN IF e.name \in Names(params) THEN Param(e.name, Position(params, e.name)) ELSE e
  ELSE [e EXCEPT !.kids = [i \in DOMAIN e.kids |->
          IF Ticker(e, i) THEN e.kids[i] ELSE ResolveParameterRefs(e.kids[i], params)]]

ParseProgram(lines) ==
  LET defs == [i \in DOMAIN lines |-> ParseDef(lines[i])]
      of(kind) == SelectSeq(defs, LAMBDA d : d.kind = kind)
      params == of("param")
      signals == of("signal")
  IN  IF /\ \A i \in DOMAIN defs : defs[i].ok
         /\ signals # << >> /\ Distinct(params) /\ Distinct(signals)
         /\ Names(params) \cap Names(signals) = {}
      THEN [ok |-> TRUE,
            params |-> [i \in DOMAIN params |->
                          [name |-> params[i].name, val |-> params[i].body.val]],
            signals |-> [i \in DOMAIN signals |->
                           [name |-> signals[i].name,
                            body |-> ResolveParameterRefs(signals[i].body, params)]]]
      ELSE Rejected

\* FormatProgram: the parameters first, then the signals.
FormatProgram(prog) ==
  LET line(kind, def, body) ==
        <<Word(kind), Identifier(def.name), Word("=")>> \o body
  IN  [i \in DOMAIN prog.params |->
         line("param", prog.params[i], FormatNumber(prog.params[i].val))]
        \o [i \in DOMAIN prog.signals |->
              line("signal", prog.signals[i], FormatExpr(prog.signals[i].body, PrecCond))]

-----------------------------------------------------------------------------
(* InlineSignalDependencies *)

RECURSIVE CollectRefs(_)
CollectRefs(e) ==
  IF e.k = "id" THEN {e.name}
  ELSE UNION {CollectRefs(e.kids[i]) : i \in {j \in DOMAIN e.kids : ~Ticker(e, j)}}

\* defs: the inlined bodies of the signals referred to, by name.  An
\* instrument of the name of one of them is replaced, too.
RECURSIVE InlineExpr(_, _)
InlineExpr(e, defs) ==
  IF e.k = "id" THEN IF e.name \in DOMAIN defs THEN CloneExpr(defs[e.name]) ELSE e
  ELSE [e EXCEPT !.kids = [i \in DOMAIN e.kids |-> InlineExpr(e.kids[i], defs)]]

\* visiting: the signals that are being resolved (state 1); a reference back
\* to one of them is a cycle.
RECURSIVE InlineSignal(_, _, _)
InlineSignal(signals, i, visiting) ==
  LET refs == CollectRefs(signals[i].body) \cap Names(signals)
      dfs == [r \in refs |->
                InlineSignal(signals, Position(signals, r), visiting \cup {i})]
  IN  IF i \in visiting \/ \E r \in refs : ~dfs[r].ok THEN Rejected
      ELSE [ok |-> TRUE,
            body |-> InlineExpr(signals[i].body, [r \in refs |-> dfs[r].body])]

InlineSignalDependencies(prog) ==
  LET done == [i \in DOMAIN prog.signals |-> InlineSignal(prog.signals, i, {})]
  IN  IF \A i \in DOMAIN done : done[i].ok
      THEN [prog EXCEPT !.signals =
              [i \in DOMAIN done |-> [name |-> prog.signals[i].name, body |-> done[i].body]]]
      ELSE Rejected

-----------------------------------------------------------------------------
(* AllocateProgramNodeIds.  `seen' holds the calls that have an id of their *)
(* own, as they were before ids, with whether they stand unconditionally.   *)

\* Mutant: calls inside branches are aliased to as well.
TryAliasNodeIdAny(seen, call) ==
  LET hits == {s \in seen : AstEquals(s.call, call)}
  IN  IF hits = {} THEN 0 ELSE (CHOOSE s \in hits : \A h \in hits : s.id <= h.id).id

\* The id of an equal call seen before, if it is unconditional.
TryAliasNodeId(seen, call) ==
  LET hits == {s \in seen : s.unconditional /\ AstEquals(s.call, call)}
  IN  IF hits = {} THEN 0 ELSE (CHOOSE s \in hits : TRUE).id

\* The walk: a call gets its id before the calls in its arguments do; the
\* branches of a conditional are not unconditional.
RECURSIVE Walk(_, _, _)
Walk(e, uncond, st) ==
  LET stateful == e.k = "call" /\ IsStatefulOp(e.name)
      alias == IF stateful THEN TryAliasNodeId(st.seen, e) ELSE 0
      id == IF alias > 0 THEN alias ELSE st.next
      own == [next |-> id + 1,
              seen |-> st.seen \cup {[call |-> e, id |-> id, unconditional |-> uncond]}]
      walked[i \in 0 .. Len(e.kids)] ==
        IF i = 0 THEN [kids |-> << >>, st |-> IF stateful /\ alias = 0 THEN own ELSE st]
        ELSE LET before == walked[i - 1]
                 w == Walk(e.kids[i], uncond /\ ~(e.k = "if" /\ i > 1), before.st)
             IN  [kids |-> Append(before.kids, w.e), st |-> w.st]
      all == walked[Len(e.kids)]
  IN  [e |-> IF stateful THEN [e EXCEPT !.id = id, !.kids = all.kids]
             ELSE [e EXCEPT !.kids = all.kids],
       st |-> all.st]

\* Mutant: what was seen in one signal is aliased to from the next.
ForgetNothing(st) == st

\* seen.clear() between signals.
ForgetSeen(st) == [st EXCEPT !.seen = {}]

\* The signals with their ids, and the first id that is free.
AllocateProgramNodeIds(signals) ==
  LET alloc[i \in 0 .. Len(signals)] ==
        IF i = 0 THEN [signals |-> << >>, st |-> [next |-> 1, seen |-> {}]]
        ELSE LET before == alloc[i - 1]
                 w == Walk(signals[i].body, TRUE, ForgetSeen(before.st))
             IN  [signals |-> Append(before.signals, [signals[i] EXCEPT !.body = w.e]),
                  st |-> w.st]
  IN  alloc[Len(signals)]

\* AllocateNodeIds: the ids of one signal, from 1 on.
AllocateNodeIds(signal) == Walk(signal.body, TRUE, [next |-> 1, seen |-> {}])

\* The --all-signals mode of main.cpp: it for every signal, and the largest id.
AllocateSeparately(signals) ==
  LET w == [i \in DOMAIN signals |-> AllocateNodeIds(signals[i])]
  IN  [signals |-> [i \in DOMAIN signals |-> [signals[i] EXCEPT !.body = w[i].e]],
       st |-> [next |-> Max({w[i].st.next : i \in DOMAIN signals})]]

-----------------------------------------------------------------------------
(* The SymbolTable, a sequence of names: the id of a symbol is its place.   *)

CollectTickerSymbols(e) ==
  {s.kids[1].name : s \in {s \in SubExprs(e) : /\ s.k = "call" /\ IsTickerFirstArgFn(s.name)
                                               /\ s.kids # << >> /\ s.kids[1].k = "id"}}

RegisterOrGetId(symbols, name) ==
  IF name \in Range(symbols) THEN [ok |-> TRUE, symbols |-> symbols]
  ELSE IF Len(symbols) >= MaxInstruments THEN Rejected
  ELSE [ok |-> TRUE, symbols |-> Append(symbols, name)]

\* The instruments of all signals; those of one signal come in any order.
RECURSIVE RegisterAll(_, _)
RegisterAll(symbols, names) ==
  IF names = {} THEN [ok |-> TRUE, symbols |-> symbols]
  ELSE LET name == CHOOSE n \in names : TRUE
           more == RegisterOrGetId(symbols, name)
       IN  IF more.ok THEN RegisterAll(more.symbols, names \ {name}) ELSE Rejected

RegisterTickers(signals) ==
  LET reg[i \in 0 .. Len(signals)] ==
        IF i = 0 THEN [ok |-> TRUE, symbols |-> << >>]
        ELSE LET before == reg[i - 1]
             IN  IF before.ok
                 THEN RegisterAll(before.symbols, CollectTickerSymbols(signals[i].body))
                 ELSE Rejected
  IN  reg[Len(signals)]

LookupId(symbols, name) == CHOOSE i \in DOMAIN symbols : symbols[i] = name

\* BindSymbolIds throws where an instrument is no longer a name.
Bindable(e) == \A s \in SubExprs(e) : \A i \in DOMAIN s.kids : Ticker(s, i) => s.kids[i].k = "id"

RECURSIVE BindSymbolIds(_, _)
BindSymbolIds(e, symbols) ==
  LET kids == [i \in DOMAIN e.kids |-> BindSymbolIds(e.kids[i], symbols)]
  IN  IF e.kids # << >> /\ Ticker(e, 1)
      THEN [e EXCEPT !.kids = kids, !.sym = LookupId(symbols, e.kids[1].name)]
      ELSE [e EXCEPT !.kids = kids]
=============================================================================
