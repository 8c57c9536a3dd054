-------------------------------- MODULE Dsl --------------------------------
(***************************************************************************)
(* From the tokens of one line to a checked and folded tree, and back:     *)
(* src/src/parser.cpp, type_check.cpp, constant_fold.cpp and               *)
(* dsl_formatter.cpp.  The lexer is left out: a line is a sequence of      *)
(* tokens.  A position of 0 stands for a ParseError: nothing can be        *)
(* consumed there.                                                         *)
(***************************************************************************)
EXTENDS Expressions, SequencesExt

Word(kind) == [kind |-> kind]
Number(v) == [kind |-> "number", val |-> v]
Identifier(n) == [kind |-> "identifier", name |-> n]

Peek(toks, pos) == IF pos = 0 THEN Word("error")
                   ELSE IF pos > Len(toks) THEN Word("eof") ELSE toks[pos]

Consume(toks, pos, kind) == IF Peek(toks, pos).kind = kind THEN pos + 1 ELSE 0

Fail == [e |-> Num(Nan), pos |-> 0]

\* The left-associative levels, loosest first; && and || share one.
Levels == <<Logical, Comparison, {"+", "-"}, {"*", "/"}>>

RECURSIVE ParseExpr(_, _), ParseLevel(_, _, _), ParseRest(_, _, _), ParseUnary(_, _),
          ParsePrimary(_, _), ParseArgList(_, _)

ParseConditional(toks, pos) ==
  LET c == ParseExpr(toks, pos + 1)
      t == ParseExpr(toks, Consume(toks, c.pos, "then"))
      f == ParseExpr(toks, Consume(toks, t.pos, "else"))
  IN  [e |-> If(c.e, t.e, f.e), pos |-> f.pos]

ParseExpr(toks, pos) ==
  IF Peek(toks, pos).kind = "if" THEN ParseConditional(toks, pos) ELSE ParseLevel(toks, pos, 1)

\* ParseLogical, ParseComparison, ParseTerm and ParseFactor ...
ParseLevel(toks, pos, level) ==
  IF level > Len(Levels) THEN ParseUnary(toks, pos)
  ELSE ParseRest(toks, ParseLevel(toks, pos, level + 1), level)

\* ... and their loops: one more operand for as long as an operator follows.
ParseRest(toks, left, level) ==
  LET op == Peek(toks, left.pos).kind
      right == ParseLevel(toks, left.pos + 1, level + 1)
  IN  IF op \notin Levels[level] THEN left
      ELSE ParseRest(toks, [e |-> Binary(op, left.e, right.e), pos |-> right.pos], level)

ParseUnary(toks, pos) ==
  LET op == Peek(toks, pos).kind
      inner == ParseUnary(toks, pos + 1)
  IN  IF op \in {"+", "-"} THEN [e |-> Unary(op, inner.e), pos |-> inner.pos]
      ELSE ParsePrimary(toks, pos)

ParsePrimary(toks, pos) ==
  LET tok == Peek(toks, pos)
      args == IF Peek(toks, pos + 2).kind = ")" THEN [es |-> << >>, pos |-> pos + 2]
              ELSE ParseArgList(toks, pos + 2)
      inner == ParseExpr(toks, pos + 1)
  IN  CASE tok.kind = "number" -> [e |-> Num(tok.val), pos |-> pos + 1]
        [] tok.kind = "identifier" ->
             IF Peek(toks, pos + 1).kind # "(" THEN [e |-> Ident(tok.name), pos |-> pos + 1]
             ELSE [e |-> Call(tok.name, args.es), pos |-> Consume(toks, args.pos, ")")]
        [] tok.kind = "(" -> [e |-> inner.e, pos |-> Consume(toks, inner.pos, ")")]
        [] OTHER -> Fail

ParseArgList(toks, pos) ==
  LET first == ParseExpr(toks, pos)
      rest == ParseArgList(toks, first.pos + 1)
  IN  IF Peek(toks, first.pos).kind # "," THEN [es |-> <<first.e>>, pos |-> first.pos]
      ELSE [es |-> <<first.e>> \o rest.es, pos |-> rest.pos]

-----------------------------------------------------------------------------
(* TypeCheckExpr: "number", "bool", or "error" for what RequireType throws. *)

RECURSIVE TypeCheckExpr(_)
TypeCheckExpr(e) ==
  LET is(i, type) == TypeCheckExpr(e.kids[i]) = type
      both(type) == is(1, type) /\ is(2, type)
      typed == CASE e.k = "unary" -> is(1, "number")
                 [] e.k = "bin" -> both(IF e.name \in Logical THEN "bool" ELSE "number")
                 [] e.k = "if" -> is(1, "bool") /\ is(2, "number") /\ is(3, "number")
                 [] e.k = "call" -> \A i \in DOMAIN e.kids :
                                      IF Ticker(e, i) THEN e.kids[i].k = "id" ELSE is(i, "number")
                 [] OTHER -> TRUE
  IN  IF ~typed THEN "error"
      ELSE IF e.k = "bin" /\ e.name \notin Arithmetic THEN "bool" ELSE "number"

-----------------------------------------------------------------------------
(* FoldConstants *)

\* Mutant: <= is folded like <.
FoldBinaryStrict(op, l, r) ==
  CASE op = "==" -> Bool(FEq(l, r))
    [] op = "!=" -> Bool(~FEq(l, r))
    [] OTHER -> Exact(IF op = "<=" THEN "<" ELSE op, l, r)

\* == and != compare exactly here.
FoldBinary(op, l, r) ==
  CASE op = "==" -> Bool(FEq(l, r))
    [] op = "!=" -> Bool(~FEq(l, r))
    [] OTHER -> Exact(op, l, r)

RECURSIVE FoldConstants(_)
FoldConstants(e) ==
  LET kids == [i \in DOMAIN e.kids |-> FoldConstants(e.kids[i])]
      lit(i) == kids[i].k = "num"
      val(i) == kids[i].val
  IN  CASE e.k = "unary" /\ lit(1) -> Num(ApplyUnary(e.name, val(1)))
        [] e.k = "bin" /\ lit(1) /\ lit(2) -> Num(FoldBinary(e.name, val(1), val(2)))
        [] e.k = "if" /\ lit(1) -> IF Truth(val(1)) THEN kids[2] ELSE kids[3]
        [] OTHER -> [e EXCEPT !.kids = kids]

-----------------------------------------------------------------------------
(* The formatter *)

BinaryPrec(op) == CASE op = "||" -> 1
                    [] op = "&&" -> 2
                    [] op \in {"==", "!="} -> 3
                    [] op \in {">", "<", ">=", "<="} -> 4
                    [] op \in {"+", "-"} -> 5
                    [] op \in {"*", "/"} -> 6
PrecCond == 0
PrecUnary == 7

Parens(toks) == <<Word("(")>> \o toks \o <<Word(")")>>

\* A negative number is a minus sign and a literal; what has no literal is
\* spelled as a quotient.
FormatNumber(v) ==
  LET sign == IF v[1] < 0 THEN <<Word("-")>> ELSE << >>
  IN  IF Finite(v) THEN sign \o <<Number(FAbs(v))>>
      ELSE Parens(sign \o <<Number(Whole(Abs(v[1]))), Word("/"), Number(Zero)>>)

\* Mutant: the right operand may be of the same precedence.
RightPrecLoose(op) == BinaryPrec(op)

\* All operators are left-associative.
RightPrec(op) == BinaryPrec(op) + 1

RECURSIVE FormatExpr(_, _)
FormatExpr(e, outer) ==
  LET at(i, prec) == FormatExpr(e.kids[i], prec)
      unless(prec, toks) == IF prec < outer THEN Parens(toks) ELSE toks
      args == [i \in DOMAIN e.kids |->
                 (IF i > 1 THEN <<Word(",")>> ELSE << >>) \o at(i, PrecCond)]
  IN  CASE e.k = "num" -> FormatNumber(e.val)
        [] e.k \in {"id", "param"} -> <<Identifier(e.name)>>
        [] e.k = "unary" -> unless(PrecUnary, <<Word(e.name)>> \o at(1, PrecUnary))
        [] e.k = "bin" ->
             unless(BinaryPrec(e.name),
                    at(1, BinaryPrec(e.name)) \o <<Word(e.name)>> \o at(2, RightPrec(e.name)))
        [] e.k = "if" ->
             unless(PrecCond,
                    <<Word("if")>> \o at(1, PrecCond + 1) \o <<Word("then")>>
                      \o at(2, PrecCond + 1) \o <<Word("else")>> \o at(3, PrecCond))
        [] e.k = "call" -> <<Identifier(e.name)>> \o Parens(FlattenSeq(args))
=============================================================================
