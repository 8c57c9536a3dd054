---------------------------- MODULE MCGradients ----------------------------
(* Every stateful call with a derivative.  Streams are longer than two     *)
(* windows, so that a refresh follows a slide and rings have wrapped; ties *)
(* with different derivatives, negative derivatives and warming-up         *)
(* operands (not a number, derivative included) are among the operands.    *)
EXTENDS Gradients

D(v, d) == Dual(Whole(v), Whole(d))
Only(x) == [x |-> x, y |-> Dual(Zero, Zero)]
Both(x, y) == [x |-> x, y |-> y]

WindowNodes == [op : {"lag", "sma"} \cup Extrema, period : {1, 2, 3}]
                 \cup [op : Deviations, period : {2, 3}]
                 \cup [op : Pairs, period : {1, 2, 3}]
EmaNodes == [op : {"ema"}, alpha : {Dual(Rat(2, 3), Zero), Dual(Rat(1, 2), One)}]
KalmanNodes == [op : {"kalman1d"}, q : {D(0, 0), D(1, 0), D(1, 1)}, r : {D(1, 0), D(1, 1)}]
                 \cup [op : {"kalman1d"}, q : {D(-3, 1)}, r : {D(1, 0)}]
CrossNodes == [op : Crosses]

MCNodes == WindowNodes \cup EmaNodes \cup KalmanNodes \cup CrossNodes

Ops == {nd.op : nd \in MCNodes}

MCInputs == [op \in Ops |->
  CASE op \in Extrema -> {Only(D(1, 5)), Only(D(2, 6)), Only(D(2, 7)), Only(Undefined)}
    [] op \in {"lag", "sma"} -> {Only(D(1, 0)), Only(D(3, -1)), Only(Undefined)}
    [] op \in Deviations -> {Only(D(0, 0)), Only(D(1, 2)), Only(D(2, -1)), Only(Undefined)}
    [] op \in Pairs -> {Both(D(0, 1), D(1, 0)), Both(D(1, 0), D(3, -1)),
                        Both(D(2, -1), D(1, 1)), Both(Undefined, D(0, 0))}
    [] op \in Crosses -> {Both(D(1, 1), D(2, 0)), Both(D(2, 0), D(2, 0)),
                          Both(D(3, 1), D(2, 0)), Both(Undefined, D(2, 0)),
                          Both(D(2, 1), Undefined)}
    [] OTHER -> {Only(D(0, 1)), Only(D(2, 0)), Only(D(3, -1))}]

MCMaxTicks == [op \in Ops |->
  CASE op \in Extrema -> 6
    [] op \in Deviations -> 7
    [] op \in Pairs -> 5
    [] op \in {"lag", "sma"} -> 6
    [] OTHER -> 4]
=============================================================================
