--------------------------- MODULE MCModuleCache ---------------------------
(* Three processes.  The gradient of the first program calls the gradient    *)
(* runtime; the second has a gradient that EmitExpr rejects.                 *)
EXTENDS ModuleCache, TLC

CONSTANTS c1, c2, c3, p1, p2, b1, b2

RequestPairs == (Kinds \X {p1}) \cup {<<"grad", p2>>}
RejectedPairs == {<<"grad", p2>>}
Symmetry == Permutations(Compilers)
=============================================================================
