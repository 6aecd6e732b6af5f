------------------------------ MODULE Strategy ------------------------------
(***************************************************************************)
(* The target weight strategy (internal/strategy/rebalance.go) and the fee *)
(* and tax estimates it uses (internal/twmarket/calc.go), as operators.    *)
(* Money is integral; weights, the band and all rates are in 1/Scale.      *)
(* Quotients are exact where the code keeps 16 decimal places.             *)
(***************************************************************************)
EXTENDS Integers, FiniteSets, SequencesExt

CONSTANTS
    Asset,      \* symbols, numbered in the order of sort.Strings
    Scale,
    Band,       \* rebalance_band
    CashBuffer,
    MinTrade,   \* min_trade_amount
    LotSize,    \* shares in a lot when whole lots are preferred, else 1
    FeeRate,    \* fee_rate times fee_discount
    FeeMinimum,
    TaxRate     \* the securities tax of each asset's type

ASSUME StrategyAssumption ==
    /\ Asset \subseteq Nat /\ IsFiniteSet(Asset)
    /\ Scale \in Nat \ {0} /\ LotSize \in Nat \ {0}
    /\ {Band, CashBuffer, MinTrade, FeeRate, FeeMinimum} \subseteq Nat
    /\ TaxRate \in [Asset -> 0..Scale]

Abs(n) == IF n < 0 THEN -n ELSE n

EstimateFee(gross) == Max({(gross * FeeRate) \div Scale, FeeMinimum})
EstimateTax(a, gross) == (gross * TaxRate[a]) \div Scale

(* What a sale brings in, by the estimate: never less than nothing.         *)
SellNetProceeds(a, gross) == Max({0, gross - EstimateFee(gross) - EstimateTax(a, gross)})

(* What the strategy is given: cash, the shares held, a price for each      *)
(* asset (0: none is known), and the targets.                               *)
Total(in) == in.cash + SumFunction([a \in Asset |-> in.shares[a] * in.price[a]])

(* num / den shares, rounded down to whole shares, then to whole lots.      *)
FloorQuantity(num, den) == ((num \div den) \div LotSize) * LotSize

(* How far an asset is below its target, in money times Scale.              *)
Gap(in, a) == in.target[a] * Total(in) - Scale * in.shares[a] * in.price[a]

Order(a, action, qty) == [asset |-> a, action |-> action, qty |-> qty]
Amount(in, o) == o.qty * in.price[o.asset]

(* The assets for which an order is drafted: priced, outside the band, not  *)
(* too small a trade.                                                       *)
OffTarget(in) ==
    {a \in DOMAIN in.target :
        /\ in.price[a] > 0
        /\ Abs(Gap(in, a)) > Band * Total(in)
        /\ Abs(Gap(in, a)) >= Scale * MinTrade}

Wanted(in, a) == FloorQuantity(Abs(Gap(in, a)), Scale * in.price[a])

Sells(in) ==
    {o \in {Order(a, "sell", Min({Wanted(in, a), in.shares[a]})) :
                a \in {a \in OffTarget(in) : Gap(in, a) < 0}} : o.qty > 0}

DraftBuys(in) ==
    {o \in {Order(a, "buy", Wanted(in, a)) :
                a \in {a \in OffTarget(in) : Gap(in, a) > 0}} : o.qty > 0}

(* Variant: the cash buffer is left out of the budget.                      *)
BudgetWithoutBuffer(in) ==
    Max({0, in.cash}) + SumFunction([o \in Sells(in) |-> SellNetProceeds(o.asset, Amount(in, o))])

(* Cash above the buffer and the estimated net proceeds of the sales.       *)
Budget(in) ==
    Max({0, in.cash - CashBuffer})
        + SumFunction([o \in Sells(in) |-> SellNetProceeds(o.asset, Amount(in, o))])

(* When the budget does not cover the drafts, each gets its part of it by   *)
(* amount, and what falls below the smallest trade is dropped.              *)
Buys(in) ==
    LET drafts == DraftBuys(in)
        total == SumFunction([o \in drafts |-> Amount(in, o)])
        scaled == {[o EXCEPT !.qty = FloorQuantity(Amount(in, o) * Budget(in),
                                                   total * in.price[o.asset])] : o \in drafts}
    IN  IF total <= Budget(in) THEN drafts
        ELSE {o \in scaled : o.qty > 0 /\ Amount(in, o) >= MinTrade}

(* The orders in S by their asset: at each place the one that has as many   *)
(* before it as the place asks for.                                         *)
BySymbol(S) ==
    [i \in 1..Cardinality(S) |->
        CHOOSE o \in S : Cardinality({p \in S : p.asset < o.asset}) = i - 1]

(* The orders in their sequence: sales first, then purchases.  Assets to    *)
(* hold, or on which nothing is advised, have no order.                     *)
Rebalance(in) ==
    IF Total(in) <= 0 THEN <<>> ELSE BySymbol(Sells(in)) \o BySymbol(Buys(in))
=============================================================================
