------------------------------ MODULE Windows ------------------------------
(***************************************************************************)
(* The window operators of one program over one stream: the statistics of  *)
(* RingStats and the operators of PairWindow read the same series x on the *)
(* same ticks, have the same period, and are promoted by the same          *)
(* TieredProgramJit, since assume_warm is a property of the whole module   *)
(* (src/src/jit_compiler.cpp) and not of a node.                           *)
(***************************************************************************)
EXTENDS RingStats, PairWindow

ASSUME SameStream == Samples = Xs

windowsVars == <<statsVars, vars>>

WindowsInit == StatsInit /\ Init

\* One evaluation of the program: every operator takes its sample.
WindowsTick(x, y) == StatsTick(x) /\ Tick(x, y)

\* The specialised module replaces the code of every operator at once.
WindowsPromote == StatsPromote /\ Promote

WindowsNext == WindowsPromote \/ \E x \in Xs, y \in Ys : WindowsTick(x, y)

WindowsSpec == WindowsInit /\ [][WindowsNext]_windowsVars
=============================================================================
