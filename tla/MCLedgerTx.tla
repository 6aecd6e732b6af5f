----------------------------- MODULE MCLedgerTx -----------------------------
(* Instances of LedgerTx: a few overlapping requests on one asset. *)
EXTENDS LedgerTx, TLC

CONSTANTS a, q1, q2, q3

Of(t, d, n, c) == [NoEvent EXCEPT !.type = t, !.asset = a, !.date = d, !.qty = n, !.cash = c]

(* Nothing, one buy, or two of which the second is dated earlier, with a    *)
(* sale that took one share of it.                                          *)
Streams == {<<>>, <<Of("buy", 2, 2, -2)>>,
            <<Of("buy", 2, 2, -2), Of("buy", 1, 2, -2), Of("sell", 2, -1, 1)>>}
Pasts == {LET b == Replay(s, DOMAIN s)
          IN  [events |-> s, lots |-> b.lots, cons |-> b.cons] : s \in Streams}

SomeInputs == {Of("buy", 1, 2, -2), Of("sell", 2, 2, 2),
               [Of("split", 2, 0, 0) EXCEPT !.ratio = <<2, 1>>],
               [Of("adjustment", 1, -1, 0) EXCEPT !.costDelta = 2],
               [Of("adjustment", 1, 1, 0) EXCEPT !.costDelta = 3]}

Symmetry == Permutations(Request)
=============================================================================
