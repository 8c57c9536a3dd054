----------------------------- MODULE MCProgram -----------------------------
(* Three families of programs.  Bodies: all trees of height two over lag,  *)
(* +, conditionals and &&, alone, joined, as branches and as two signals.  *)
(* References: three signals, each the sum of two things it may refer to,  *)
(* well-formed or not.  Formulas: operators of every precedence level over *)
(* two parameters, constants and a market read.                            *)
EXTENDS Program

N(n) == Num(Whole(n))
M == Call("mid", <<Ident("A")>>)
Lag(e) == Call("lag", <<e, N(1)>>)
AbsOf(e) == Call("abs", <<e>>)
Plus(l, r) == Binary("+", l, r)
Pos(e) == Binary(">", e, N(0))
Def(name, body) == [name |-> name, body |-> body]
Signals(bodies) == [params |-> << >>,
                    signals |-> [i \in DOMAIN bodies |-> Def(<<"s", "t", "u">>[i], bodies[i])]]

-----------------------------------------------------------------------------
Small == {M, Lag(M)}
Grow(T) == {M} \cup {Lag(e) : e \in T} \cup {Plus(l, r) : l, r \in T}
             \cup {If(Pos(c), t, e) : c, t, e \in T}
Trees == Grow(Small)
Deeper == Trees \cup {Lag(e) : e \in Trees}
Both(l, r) == If(Binary("&&", Pos(l), Pos(r)), N(1), N(0))

BodyPrograms ==
  {Signals(<<Plus(l, r)>>) : l, r \in Deeper}
    \cup {Signals(<<l, r>>) : l, r \in Trees}
    \cup {Signals(<<If(Pos(c), t, e)>>) : c \in Small, t, e \in Trees}
    \cup {Signals(<<Both(l, r)>>) : l, r \in Trees}

-----------------------------------------------------------------------------
\* B is an instrument, and t is one in mid(t).
Refs == {Ident("s"), Ident("t"), Ident("u"), Ident("x"), M, Lag(Call("mid", <<Ident("B")>>)),
         Call("mid", <<Ident("t")>>)}
RefBodies == {Plus(l, r) : l, r \in Refs}
               \cup {If(Pos(M), Lag(Ident("t")), Ident("u")), If(Binary("<", N(1), N(2)), M, Ident("s"))}
Leaves == {M, Ident("u"), Lag(M), Pos(M)}

RefPrograms ==
  {Signals(<<a, b, c>>) : a \in RefBodies, b \in {Plus(Ident("u"), Lag(M)), M, Ident("s")},
                          c \in Leaves}
    \cup {[params |-> <<Def(n, N(2))>>, signals |-> <<Def("s", a), Def(m, M)>>] :
            n \in {"s", "t", "x"}, m \in {"s", "t"}, a \in RefBodies}

-----------------------------------------------------------------------------
P == Ident("p")
Q == Ident("q")
Half == Num(<<1, 2>>)
Inner == {Binary(op, P, M) : op \in Arithmetic} \cup {Unary("-", P), AbsOf(Binary("-", Q, M))}
           \cup {If(Binary(op, M, N(1)), P, Q) : op \in {">", "=="}}
Conds == {Binary(op, l, r) : op \in {">", "<=", "!="}, l \in {M, N(1)}, r \in {Half, N(1), Num(<<21, 20>>)}}
Formulas ==
  {Binary(op, e, f) : op \in Arithmetic, e, f \in Inner}
    \cup {Binary(op, P, Binary(op2, Q, M)) : op, op2 \in Arithmetic}
    \cup {Unary(op, e) : op \in {"-", "+"}, e \in Inner}
    \cup {If(Binary(op, c, d), P, M) : op \in Logical, c, d \in Conds}
    \cup {If(Binary(op, c, Binary(op2, c, d)), P, N(0)) :
            op, op2 \in Logical, c \in {Pos(M), Pos(P)}, d \in {Binary("==", Q, M)}}
    \cup {If(Binary(op, Binary(op2, c, d), c), P, N(0)) :
            op, op2 \in Logical, c \in {Pos(M), Pos(P)}, d \in {Binary("==", Q, M)}}
    \cup {If(Pos(Lag(Binary("*", P, M))), e, Binary("*", Q, M)) : e \in Inner}
    \cup {Plus(Lag(e), Binary("*", Lag(e), P)) : e \in Inner}
    \cup {Binary("/", N(n), N(0)) : n \in {0, 1}} \cup {Unary("-", Binary("/", P, N(0)))}

Pair(pBody, body) == [params |-> <<Def("p", pBody), Def("q", N(1))>>,
                      signals |-> <<Def("s", body), Def("t", Plus(Ident("s"), P))>>]
FormulaPrograms ==
  {Pair(N(2), f) : f \in Formulas}
    \cup {Pair(d, M) : d \in {Unary("-", Half), Binary("/", N(-1), N(0)), Binary("/", N(0), N(0)),
                              If(Binary("==", Num(<<1, 20>>), N(0)), M, N(1)), Pos(N(1)), Q}}

-----------------------------------------------------------------------------
MCSources == BodyPrograms \cup RefPrograms \cup FormulaPrograms
MCTolerance == <<1, 10>>
MCInputs == {Whole(0), Whole(1)}
=============================================================================
