----------------------------- MODULE MCWindows -----------------------------
(* Windows of one to three samples over streams of numbers and NaN. *)
EXTENDS Windows

MCXs == {0, 1, 4, NaN}
=============================================================================
