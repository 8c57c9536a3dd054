--------------------------- MODULE MCRecurrences ---------------------------
(* Up to four ticks; x below, at and above y, y also NaN; q = 0, q > 0. *)
EXTENDS Recurrences
MCInputs == {<<1, 2>>, <<2, 2>>, <<3, 2>>, <<3, NaN>>}
MCAlphas == {<<1, 2>>, <<1, 4>>}
MCNoises == {<<0, 2>>, <<1, 1>>}
=============================================================================
