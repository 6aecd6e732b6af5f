----------------------------- MODULE MCBacktest -----------------------------
(* Instances of Backtest for TLC: two assets, a few bars and targets. *)
EXTENDS Backtest

SomeBars == {[open |-> 20, close |-> 10], [open |-> 0, close |-> 20], [open |-> 10, close |-> 20]}

(* Per cent: balanced, oversubscribed, and one asset only. *)
SomeTargets == {[a \in Asset |-> 50], [a \in Asset |-> 80], (1 :> 60)}

Taxes == [a \in Asset |-> IF a = 1 THEN 3 ELSE 0]
=============================================================================
