------------------------------ MODULE MCLedger ------------------------------
(* Instances of Ledger for TLC: small sets of create requests. *)
EXTENDS Ledger

(* One unit of money: every division an instance makes is exact. *)
U == 5040

Blank == [type |-> "cash", asset |-> NoAsset, date |-> 2, qty |-> 0, cash |-> 0,
          ratio |-> <<1, 1>>, unitCost |-> Absent, costDelta |-> 0]

Req(t, s, q, c) == [Blank EXCEPT !.type = t, !.asset = s, !.qty = q, !.cash = c]
Split(s, r) == [Blank EXCEPT !.type = "split", !.asset = s, !.ratio = r]
Adjust(s, q, u, d) == [Blank EXCEPT !.type = "adjustment", !.asset = s, !.qty = q,
                                    !.unitCost = u, !.costDelta = d]
Earlier(in) == [in EXCEPT !.date = 1]

CONSTANTS a, other

Rejects == {Req("sell", a, 0, U), Req("buy", a, -2, U), Split(a, <<1, 1>>), Split(a, <<0, 1>>),
            Adjust(NoAsset, 2, Absent, 0)}

(* Buys and sales over two lots, corporate actions and adjustments of one   *)
(* asset; trades entered after later ones; another asset beside it.         *)
ActionInputs ==
    {Req("buy", a, 2, -U), Earlier(Req("buy", a, 4, -2 * U)),
     Req("sell", a, 3, 4 * U), Earlier(Req("sell", a, 2, 2 * U)),
     Req("cash_dividend", a, 0, U), Req("stock_dividend", a, 2, 0),
     Req("capital_reduction", a, 2, 2 * U), Split(a, <<1, 2>>),
     Adjust(a, -1, 2 * U, 0), Adjust(a, 2, U, U),
     Req("buy", other, 2, -U)} \union Rejects

(* Trades of two assets, for the run of the void that is refused.           *)
PairInputs ==
    {Req("cash", NoAsset, 0, U)} \union
    UNION {{Req("buy", s, 2, -U), Req("sell", s, 1, U), Req("cash_dividend", s, 0, U)} : s \in Asset}
=============================================================================
