--------------------------- MODULE MCSpscPipeline ---------------------------
(* Ten events through a ring of four slots whose indices wrap after eight. *)
EXTENDS SpscPipeline
MCValues == 1 .. Total
=============================================================================
