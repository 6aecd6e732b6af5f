------------------------------ MODULE Backtest ------------------------------
(***************************************************************************)
(* The backtest loop (internal/backtest/harness.go, Simulate): on the      *)
(* first trading day of a month the strategy decides on closing prices;    *)
(* its orders are filled at the open of the next trading day, or, with     *)
(* timing "close", at the close of the same day.  Bars are chosen by the   *)
(* environment day by day; an asset may have none on a trading day.        *)
(***************************************************************************)
EXTENDS Strategy, WalkForward

CONSTANTS
    LastDay,        \* trading days 1..LastDay
    Bars,           \* daily bars: [open, close], open 0 when it is missing
    NoBar,
    Targets,        \* target weights of some assets, in 1/Scale
    InitialCash,
    Slippage

ASSUME BacktestAssumption ==
    /\ LastDay \in Nat \ {0} /\ InitialCash \in Nat \ {0} /\ Slippage \in 0..(Scale - 1)
    /\ Bars \subseteq [open : Nat, close : Nat \ {0}] /\ NoBar \notin Bars
    /\ \A t \in Targets : DOMAIN t \subseteq Asset /\ \A a \in DOMAIN t : t[a] \in Int

VARIABLES
    timing,     \* Execution.FillTiming
    target,     \* Settings.TargetWeights
    month,      \* the month of each trading day
    day, bars,  \* today and its bars
    phase,      \* where the loop body is
    lastClose, cash, positions,
    orders,     \* the orders still to fill
    decision,   \* the day and the strategy input of the last decision
    trades, equity

vars == <<timing, target, month, day, bars, phase, lastClose, cash, positions,
          orders, decision, trades, equity>>

Day == 1..LastDay
Months == {m \in [Day -> Day] : m[1] = 1 /\ \A d \in 1..(LastDay - 1) : m[d + 1] \in {m[d], m[d] + 1}}

Init ==
    /\ timing \in {"next_open", "close"} /\ target \in Targets /\ month \in Months
    /\ day = 0 /\ phase = "night"
    /\ bars = [a \in Asset |-> NoBar]
    /\ lastClose = [a \in Asset |-> 0]
    /\ cash = InitialCash /\ positions = [a \in Asset |-> 0]
    /\ orders = <<>> /\ trades = <<>>
    /\ decision = [day |-> 0, in |-> [cash |-> 0, shares |-> positions,
                                      price |-> lastClose, target |-> target]]
    /\ equity = InitialCash

EquityOf == cash + SumFunction([a \in Asset |-> positions[a] * lastClose[a]])

NextDay(b) ==
    /\ phase = "night" /\ day < LastDay
    /\ \E a \in Asset : b[a] # NoBar
    /\ day' = day + 1 /\ bars' = b /\ phase' = "open"
    /\ lastClose' = [a \in Asset |-> IF b[a] = NoBar THEN lastClose[a] ELSE b[a].close]
    /\ UNCHANGED <<timing, target, month, cash, positions, orders, decision, trades, equity>>

FillBasePrice(a, useOpen) ==
    IF bars[a] = NoBar THEN 0
    ELSE IF useOpen /\ bars[a].open > 0 THEN bars[a].open ELSE bars[a].close

ApplySlippage(price, side) ==
    (price * (IF side = "buy" THEN Scale + Slippage ELSE Scale - Slippage)) \div Scale

Trade(o, qty, price, delta) ==
    [day |-> day, decided |-> decision.day, asset |-> o.asset, action |-> o.action,
     qty |-> qty, price |-> price, delta |-> delta]

Book(o, qty, price, delta) ==
    /\ cash' = cash + delta
    /\ positions' = [positions EXCEPT ![o.asset] = IF o.action = "buy" THEN @ + qty ELSE @ - qty]
    /\ trades' = Append(trades, Trade(o, qty, price, delta))

NoTrade == UNCHANGED <<cash, positions, trades>>

ExecuteSell(o, price) ==
    LET qty == Min({o.qty, positions[o.asset]})
        gross == qty * price
    IN  IF qty <= 0 THEN NoTrade
        ELSE Book(o, qty, price, gross - EstimateFee(gross) - EstimateTax(o.asset, gross))

Cost(qty, price) == qty * price + EstimateFee(qty * price)

(* Variants: the fee is not counted; one step too far.                      *)
AffordableWithoutFee(o, price) ==
    {qty \in 1..o.qty : (o.qty - qty) % LotSize = 0 /\ qty * price <= cash}
AffordableToNothing(o, price) ==
    {qty \in 0..o.qty : (o.qty - qty) % LotSize = 0 /\ Cost(qty, price) <= cash}

(* The quantity is lowered lot by lot until cash covers amount and fee.     *)
Affordable(o, price) ==
    {qty \in 1..o.qty : (o.qty - qty) % LotSize = 0 /\ Cost(qty, price) <= cash}

ExecuteBuy(o, price) ==
    LET fits == Affordable(o, price)
    IN  IF fits = {} THEN NoTrade
        ELSE Book(o, Max(fits), price, -Cost(Max(fits), price))

(* One order of executeIntents; without a price today it lapses.            *)
Fill ==
    /\ phase \in {"open", "close", "fallback"} /\ orders # <<>>
    /\ LET o == Head(orders)
           base == FillBasePrice(o.asset, phase = "open")
           price == ApplySlippage(base, o.action)
       IN  IF base <= 0 \/ price <= 0 THEN NoTrade
           ELSE IF o.action = "sell" THEN ExecuteSell(o, price)
           ELSE ExecuteBuy(o, price)
    /\ orders' = Tail(orders)
    /\ UNCHANGED <<timing, target, month, day, bars, phase, lastClose, decision, equity>>

StrategyInput == [cash |-> cash, shares |-> positions, price |-> lastClose, target |-> target]

FirstOfMonth == day = 1 \/ month[day] # month[day - 1]

(* Variant: the orders are filled on the day of the decision, at the open.  *)
DecideAtOpen ==
    /\ phase = "open" /\ orders = <<>>
    /\ IF FirstOfMonth /\ decision.day # day
       THEN /\ orders' = Rebalance(StrategyInput)
            /\ decision' = [day |-> day, in |-> StrategyInput]
            /\ phase' = "open"
       ELSE phase' = "value" /\ UNCHANGED <<orders, decision>>
    /\ UNCHANGED <<timing, target, month, day, bars, lastClose, cash, positions, trades, equity>>

Decide ==
    /\ phase = "open" /\ orders = <<>>
    /\ IF FirstOfMonth
       THEN /\ orders' = Rebalance(StrategyInput)
            /\ decision' = [day |-> day, in |-> StrategyInput]
            /\ phase' = IF timing = "close" THEN "close" ELSE "value"
       ELSE phase' = "value" /\ UNCHANGED <<orders, decision>>
    /\ UNCHANGED <<timing, target, month, day, bars, lastClose, cash, positions, trades, equity>>

(* Variant: the last point of the curve is left as it was.                  *)
ValueOnce ==
    /\ \/ phase = "value"
       \/ phase \in {"close", "fallback"} /\ orders = <<>>
    /\ equity' = IF phase = "fallback" THEN equity ELSE EquityOf
    /\ phase' = IF day < LastDay THEN "night"
                ELSE IF orders # <<>> THEN "fallback" ELSE "done"
    /\ UNCHANGED <<timing, target, month, day, bars, lastClose, cash, positions,
                   orders, decision, trades>>

(* The point of the equity curve for today; orders that have no next day    *)
(* are filled at the last close, and the last point is computed again.      *)
Value ==
    /\ \/ phase = "value"
       \/ phase \in {"close", "fallback"} /\ orders = <<>>
    /\ equity' = EquityOf
    /\ phase' = IF day < LastDay THEN "night"
                ELSE IF orders # <<>> THEN "fallback" ELSE "done"
    /\ UNCHANGED <<timing, target, month, day, bars, lastClose, cash, positions,
                   orders, decision, trades>>

Next ==
    \/ \E b \in [Asset -> Bars \union {NoBar}] : NextDay(b)
    \/ Fill \/ Decide \/ Value

Spec == Init /\ [][Next]_vars

-----------------------------------------------------------------------------
TypeOK ==
    /\ phase \in {"night", "open", "close", "value", "fallback", "done"}
    /\ day \in 0..LastDay /\ decision.day \in 0..day
    /\ cash \in Int /\ equity \in Int
    /\ positions \in [Asset -> Nat] /\ lastClose \in [Asset -> Nat]
    /\ \A i \in DOMAIN orders : orders[i].qty > 0
    /\ \A i \in DOMAIN trades : trades[i].qty > 0 /\ trades[i].price > 0

(* A decision on closing prices is filled at the open of the very next      *)
(* trading day ("to avoid look-ahead", harness.go:134, and the comment on   *)
(* Execution), whatever month begins then, and only a decision of the last  *)
(* day at its own close; with timing "close" always the same day.  Other    *)
(* sentences, older than the timing, still speak of fills at the close of   *)
(* the day itself (harness.go:2-3, :96-97, docs/api-spec.md:214).           *)
NoLookAhead ==
    \A i \in DOMAIN trades :
        LET t == trades[i]
        IN  t.day = IF timing = "close" \/ t.decided = LastDay THEN t.decided
                    ELSE t.decided + 1

(* The trades of the last decision.                                         *)
Latest == {i \in DOMAIN trades : trades[i].decided = decision.day}

(* What a trade cost more, or brought less, than its decision reckoned.     *)
Worse(t) ==
    LET planned == t.qty * decision.in.price[t.asset]
    IN  IF t.action = "buy" THEN -t.delta - planned
        ELSE SellNetProceeds(t.asset, planned) - t.delta

(* The cash buffer is kept: once the orders of a decision are done, cash is *)
(* not below the buffer (or what there was, if less) by more than the fees  *)
(* of purchases, slippage and the change of prices; unless a sale that      *)
(* should have paid for purchases found no price and lapsed.                *)
BufferKept ==
    LET in == decision.in
        allSold == \A o \in Sells(in) : \E i \in Latest :
                        trades[i].asset = o.asset /\ trades[i].action = "sell"
    IN  orders = <<>> /\ Total(in) > 0 /\ allSold =>
            cash >= Min({in.cash, CashBuffer}) - SumFunction([i \in Latest |-> Worse(trades[i])])

(* Cash is never overdrawn by purchases: below zero it can only be when a   *)
(* sale brought less than its fee and tax (executeSell books what the       *)
(* estimate of the strategy cuts off at zero).                              *)
PurchasesNeverOverdraw ==
    cash >= 0 \/ \E i \in DOMAIN trades : trades[i].action = "sell" /\ trades[i].delta < 0

(* TestsFollowTraining for the months of this data and any small windows;   *)
(* the months stay as they are.                                             *)
TestsAreUnseen == day = 0 =>
    \A train, test, step \in 0..LastDay :
        TestsFollowTraining(month, month[LastDay], [train |-> train, test |-> test, step |-> step])

(* The curve ends with what the books hold, also when the orders of the     *)
(* last day were filled after its point was drawn.                          *)
CurveEndsWithTheBooks == phase = "done" => equity = EquityOf
=============================================================================
