-------------------------------- MODULE Lots --------------------------------
(***************************************************************************)
(* The lot engine of internal/ledger: FIFO consumption of open lots,       *)
(* splits, pro-rata deductions from the adjusted cost, and the replay of   *)
(* an event stream into lots.                                              *)
(*                                                                         *)
(* An event is identified by its position in the order of creation, which  *)
(* stands for (created_at, id).  A lot is identified by the event that     *)
(* opened it: applying one event inserts at most one lot, and a rebuild    *)
(* deletes every lot before it inserts any.                                *)
(*                                                                         *)
(* A book is the pair of derived tables (lots, lot_consumptions) plus the  *)
(* error that rolls the transaction back.  Money and shares are integers;  *)
(* the instances choose amounts that divide exactly, so the rounding of    *)
(* decimal division is not modelled.                                       *)
(***************************************************************************)
EXTENDS Integers, FiniteSetsExt, Folds, Functions

CONSTANTS
    Asset,      \* the assets an event may name
    NoAsset     \* the value of a NULL asset_id

ASSUME NoAssetAssumption == NoAsset \notin Asset

(* A metadata number that was not given; amounts of money are not negative. *)
Absent == -1

EventTypes == {"buy", "sell", "cash_dividend", "stock_dividend", "split",
               "capital_reduction", "cash", "adjustment"}

(* The stored columns of a ledger event that the lots depend on: qty is the *)
(* signed quantity_shares and cash the cash_delta.                          *)
Event == [type : EventTypes, asset : Asset \union {NoAsset}, date : Nat,
          qty : Int, cash : Int, ratio : Nat \X (Nat \ {0}), unitCost : Nat \union {Absent},
          costDelta : Int, voided : BOOLEAN]

Lot == [asset : Asset, date : Nat, original : Nat, remaining : Nat,
        cost : Int, adjusted : Int]

Consumption == [event : Nat, lot : Nat, qty : Nat, cost : Int, pnl : Int]

Abs(n) == IF n < 0 THEN -n ELSE n

EmptyBook == [lots |-> <<>>, cons |-> {}, err |-> "ok"]

-----------------------------------------------------------------------------
(* The open lots of an asset and their FIFO order: open_date, then the      *)
(* creation order of the opening events.                                    *)
OpenLots(ls, a) == {l \in DOMAIN ls : ls[l].asset = a /\ ls[l].remaining > 0}

(* Variant: lots in the order of creation only, whatever their open_date.   *)
BeforeByCreation(ls, i, j) == i < j

Before(ls, i, j) == \/ ls[i].date < ls[j].date
                    \/ ls[i].date = ls[j].date /\ i < j

OpenShares(ls, a) == SumFunction([l \in OpenLots(ls, a) |-> ls[l].remaining])

(* The shares of the open lots that come before lot l.                      *)
Ahead(ls, a, l) ==
    SumFunction([k \in {k \in OpenLots(ls, a) : Before(ls, k, l)} |-> ls[k].remaining])

(* Variant: every lot gives up q shares, not only the first ones.           *)
TakenFromEach(ls, a, q, l) == Min({ls[l].remaining, q})

(* Variant: a lot gives up all that is asked for, however little it holds.  *)
TakenBeyondTheLot(ls, a, q, l) == Max({0, q - Ahead(ls, a, l)})

(* The shares a consumption of q takes from lot l: what is left of q when   *)
(* every lot before l is exhausted, at most what l has.                     *)
Taken(ls, a, q, l) == Min({ls[l].remaining, Max({0, q - Ahead(ls, a, l)})})

(* Consumes q shares of asset a for event id.  Cost(l, n) and Pnl(l, n) say *)
(* how the cost and the profit of n shares of lot l are recorded.           *)
ConsumeLots(b, id, a, q, Cost(_, _), Pnl(_, _)) ==
    LET hit == {l \in OpenLots(b.lots, a) : Taken(b.lots, a, q, l) > 0}
        n == [l \in hit |-> Taken(b.lots, a, q, l)]
    IN  IF OpenShares(b.lots, a) < q
        THEN [b EXCEPT !.err = "insufficient"]
        ELSE [b EXCEPT
                !.lots = [l \in DOMAIN b.lots |->
                            IF l \in hit THEN [b.lots[l] EXCEPT !.remaining = @ - n[l]]
                                         ELSE b.lots[l]],
                !.cons = @ \union {[event |-> id, lot |-> l, qty |-> n[l],
                                    cost |-> Cost(l, n[l]), pnl |-> Pnl(l, n[l])] : l \in hit}]

(* Variant: the cost per share is taken over the shares that remain.        *)
CostOverRemaining(ls, l, n) == (ls[l].cost * n) \div ls[l].remaining

(* The share of a lot's original cost that n of its shares carry.           *)
FifoCost(ls, l, n) == (ls[l].cost * n) \div ls[l].original

(* Variant: the proceeds are divided by the size of the lot.                *)
ProceedsByLotSize(b, id, a, q, net) ==
    ConsumeLots(b, id, a, q,
                LAMBDA l, n : FifoCost(b.lots, l, n),
                LAMBDA l, n : (net * n) \div b.lots[l].original - FifoCost(b.lots, l, n))

(* A sale or a capital reduction: the net proceeds are split by shares.     *)
ConsumeLotsFIFO(b, id, a, q, net) ==
    ConsumeLots(b, id, a, q,
                LAMBDA l, n : FifoCost(b.lots, l, n),
                LAMBDA l, n : (net * n) \div q - FifoCost(b.lots, l, n))

(* A negative adjustment realizes no profit and may carry its own cost.     *)
ConsumeLotsForAdjustment(b, id, a, q, unitCost) ==
    ConsumeLots(b, id, a, q,
                LAMBDA l, n : IF unitCost = Absent THEN FifoCost(b.lots, l, n) ELSE unitCost * n,
                LAMBDA l, n : 0)

(* Open lots are scaled by new/old; closed lots and consumptions are not.   *)
ApplySplitToLots(b, a, ratio) ==
    [b EXCEPT !.lots =
        [l \in DOMAIN b.lots |->
            IF l \in OpenLots(b.lots, a)
            THEN [b.lots[l] EXCEPT !.original = (@ * ratio[1]) \div ratio[2],
                                   !.remaining = (@ * ratio[1]) \div ratio[2]]
            ELSE b.lots[l]]]

(* Variant: the deduction follows the remaining shares, so that a partly    *)
(* sold lot is deducted twice in proportion.                                *)
DeductByRemaining(b, a, amount) ==
    LET total == OpenShares(b.lots, a)
    IN  IF b.err # "ok" \/ total = 0 THEN b
        ELSE [b EXCEPT !.lots =
                [l \in DOMAIN b.lots |->
                    IF l \in OpenLots(b.lots, a)
                    THEN [b.lots[l] EXCEPT !.adjusted = @ - (amount * b.lots[l].remaining) \div total]
                    ELSE b.lots[l]]]

(* Takes amount out of the adjusted cost of the open lots, by open shares.  *)
DeductAdjustedCostProRata(b, a, amount) ==
    LET total == OpenShares(b.lots, a)
    IN  IF b.err # "ok" \/ total = 0 THEN b
        ELSE [b EXCEPT !.lots =
                [l \in DOMAIN b.lots |->
                    IF l \in OpenLots(b.lots, a)
                    THEN [b.lots[l] EXCEPT !.adjusted = @ - (amount * b.lots[l].original) \div total]
                    ELSE b.lots[l]]]

InsertLot(b, id, e, cost) ==
    [b EXCEPT !.lots = [l \in DOMAIN b.lots \union {id} |->
        IF l = id THEN [asset |-> e.asset, date |-> e.date, original |-> Abs(e.qty),
                        remaining |-> Abs(e.qty), cost |-> cost, adjusted |-> cost]
                  ELSE b.lots[l]]]

-----------------------------------------------------------------------------
(* The four adjustment types: shares first, then the adjusted cost, which   *)
(* therefore also falls on shares this very event added.                    *)
ApplyAdjustmentToLots(b, id, e) ==
    LET shares == CASE e.qty < 0 -> ConsumeLotsForAdjustment(b, id, e.asset, -e.qty, e.unitCost)
                    [] e.qty > 0 -> InsertLot(b, id, e, IF e.unitCost = Absent THEN 0
                                                                 ELSE e.unitCost * e.qty)
                    [] OTHER -> b
    IN  IF e.costDelta = 0 THEN shares
        ELSE DeductAdjustedCostProRata(shares, e.asset, -e.costDelta)

ApplyEventToLots(b, id, e) ==
    IF e.asset = NoAsset THEN b ELSE
    CASE e.type = "buy" -> InsertLot(b, id, e, -e.cash)
      [] e.type = "stock_dividend" -> InsertLot(b, id, e, 0)
      [] e.type = "sell" -> ConsumeLotsFIFO(b, id, e.asset, Abs(e.qty), e.cash)
      [] e.type = "capital_reduction" ->
            LET reduced == IF e.qty = 0 THEN b
                           ELSE ConsumeLotsFIFO(b, id, e.asset, Abs(e.qty), e.cash)
            IN  IF e.cash > 0 THEN DeductAdjustedCostProRata(reduced, e.asset, e.cash)
                              ELSE reduced
      [] e.type = "cash_dividend" ->
            IF e.cash > 0 THEN DeductAdjustedCostProRata(b, e.asset, e.cash) ELSE b
      [] e.type = "split" -> ApplySplitToLots(b, e.asset, e.ratio)
      [] e.type = "adjustment" -> ApplyAdjustmentToLots(b, id, e)
      [] OTHER -> b

(* Whether applying the event issues a statement of its own.                *)
TouchesLots(e) ==
    /\ e.asset # NoAsset
    /\ \/ e.type \in {"buy", "stock_dividend", "sell", "capital_reduction", "split"}
       \/ e.type = "cash_dividend" /\ e.cash > 0
       \/ e.type = "adjustment" /\ (e.qty # 0 \/ e.costDelta # 0)

(* The last of the events ids in the order trade_date, created_at, id.      *)
LastOf(events, ids) == CHOOSE i \in ids : \A j \in ids \ {i} : Before(events, j, i)

(* Replays the events named by ids in that order; the first error ends the  *)
(* replay.                                                                  *)
Replay(events, ids) ==
    MapThenFoldSet(LAMBDA i, b : IF b.err # "ok" THEN b
                                 ELSE ApplyEventToLots(b, i, events[i]),
                   EmptyBook, LAMBDA i : i, LAMBDA S : LastOf(events, S), ids)
=============================================================================
