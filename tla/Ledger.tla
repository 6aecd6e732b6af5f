------------------------------- MODULE Ledger -------------------------------
(***************************************************************************)
(* The ledger service of one user (internal/ledger/service.go and          *)
(* portfolio.go): an append-only stream of events, the lots and            *)
(* consumptions derived from it, and the latest portfolio snapshot.        *)
(*                                                                         *)
(* One action is one request handled from validation to commit.  Requests  *)
(* of one user that overlap in time are the subject of other modules; here *)
(* they follow one another.                                                *)
(***************************************************************************)
EXTENDS Lots, Sequences

CONSTANTS
    Inputs,      \* the create requests; cash is the amount that moves
    MaxEvents,   \* bound: the number of events ever stored
    MaxVoids,    \* bound: the number of events ever voided
    ConnBusy     \* does the driver refuse a statement while rows are being read?

Input == [type : EventTypes, asset : Asset \union {NoAsset}, date : Nat, qty : Int,
          cash : Int, ratio : Nat \X (Nat \ {0}), unitCost : Nat \union {Absent},
          costDelta : Int]

ASSUME LedgerAssumption ==
    /\ Inputs \subseteq Input
    /\ MaxEvents \in Nat /\ MaxVoids \in Nat
    /\ ConnBusy \in BOOLEAN

VARIABLES
    events,     \* ledger_events in the order of creation
    lots,       \* lots, by the event that opened them
    cons,       \* lot_consumptions
    snapshot,   \* positions and cash of the last portfolio_snapshots row
    outcome     \* how the last request ended

vars == <<events, lots, cons, snapshot, outcome>>

Outcomes == {"ok", "validation", "insufficient", "not_found", "conn_busy"}

Book == [lots |-> lots, cons |-> cons, err |-> "ok"]

ActiveIn(evs) == {i \in DOMAIN evs : ~evs[i].voided}
Active == ActiveIn(events)

(* What portfolioTx computes from the tables it sees.                       *)
Portfolio(evs, ls) ==
    [cash |-> SumFunction([i \in ActiveIn(evs) |-> evs[i].cash]),
     positions |-> [a \in Asset |->
        LET Effective(c(_)) == SumFunction(
                [l \in OpenLots(ls, a) |-> (c(l) * ls[l].remaining) \div ls[l].original])
        IN  [shares |-> OpenShares(ls, a),
             cost |-> Effective(LAMBDA l : ls[l].cost),
             adjusted |-> Effective(LAMBDA l : ls[l].adjusted)]]]

(* The shares PortfolioHistory shows on day d: the sum of quantity_shares.  *)
HistoryShares(a, d) ==
    SumFunction([i \in {i \in Active : events[i].asset = a /\ events[i].date <= d} |->
                    events[i].qty])

Init ==
    /\ events = <<>>
    /\ lots = EmptyBook.lots
    /\ cons = EmptyBook.cons
    /\ snapshot = Portfolio(events, lots)
    /\ outcome = "ok"

-----------------------------------------------------------------------------
(* The requests prepareEvent rejects.                                       *)
Rejected(in) ==
    \/ in.qty < 0 /\ in.type # "adjustment"
    \/ in.type \in {"buy", "sell", "stock_dividend"} /\ (in.asset = NoAsset \/ in.qty = 0)
    \/ in.type \in {"cash_dividend", "capital_reduction", "split"} /\ in.asset = NoAsset
    \/ /\ in.type = "split"
       /\ in.qty # 0 \/ in.ratio[1] \in {0, in.ratio[2]} \/ OpenShares(lots, in.asset) = 0
    \/ /\ in.type = "adjustment" /\ in.asset = NoAsset
       /\ in.qty # 0 \/ in.costDelta # 0

(* Variant: the quantity is stored as the request gave it.                  *)
StoredQtyUnsigned(in) == in.qty

(* The signed quantity_shares prepareEvent stores: for a split the shares   *)
(* it would add to what is open at that moment.                             *)
StoredQty(in) ==
    CASE in.type \in {"sell", "capital_reduction"} -> -in.qty
      [] in.type = "split" -> LET total == OpenShares(lots, in.asset)
                              IN  (total * in.ratio[1]) \div in.ratio[2] - total
      [] OTHER -> in.qty

Prepared(in) ==
    [type |-> in.type, asset |-> in.asset, date |-> in.date, qty |-> StoredQty(in),
     cash |-> IF in.type \in {"stock_dividend", "split"} THEN 0 ELSE in.cash,
     ratio |-> in.ratio, unitCost |-> in.unitCost, costDelta |-> in.costDelta,
     voided |-> FALSE]

Fail(code) ==
    /\ outcome' = code
    /\ UNCHANGED <<events, lots, cons, snapshot>>

Commit(evs, b) ==
    /\ events' = evs
    /\ lots' = b.lots
    /\ cons' = b.cons
    /\ snapshot' = Portfolio(evs, b.lots)
    /\ outcome' = "ok"

(* Bound: only splits that leave whole shares are requested.                *)
WholeShares(in) ==
    \A l \in OpenLots(lots, in.asset) :
        /\ (lots[l].original * in.ratio[1]) % in.ratio[2] = 0
        /\ (lots[l].remaining * in.ratio[1]) % in.ratio[2] = 0

CreateEvent(in) ==
    /\ Len(events) < MaxEvents
    /\ WholeShares(in)
    /\ IF Rejected(in) THEN Fail("validation")
       ELSE LET evs == Append(events, Prepared(in))
                b == ApplyEventToLots(Book, Len(evs), evs[Len(evs)])
            IN  IF b.err # "ok" THEN Fail(b.err) ELSE Commit(evs, b)

(* Variants: the consumptions are not deleted before the replay; the replay *)
(* does not leave out the voided events.                                    *)
RebuildKeepingConsumptions(evs) ==
    LET b == Replay(evs, ActiveIn(evs)) IN [b EXCEPT !.cons = @ \union cons]

RebuildFromAllEvents(evs) == Replay(evs, DOMAIN evs)

(* rebuildLotsTx: the statements of the replay are issued on the connection *)
(* whose event rows are still being read.                                   *)
RebuildLots(evs) ==
    IF ConnBusy /\ \E i \in ActiveIn(evs) : TouchesLots(evs[i])
    THEN [EmptyBook EXCEPT !.err = "conn_busy"]
    ELSE Replay(evs, ActiveIn(evs))

VoidEvent(i, reason) ==
    IF ~reason THEN Fail("validation")
    ELSE IF i \notin Active THEN Fail("not_found")
    ELSE LET evs == [events EXCEPT ![i].voided = TRUE]
             b == RebuildLots(evs)
         IN  /\ Cardinality(DOMAIN events \ Active) < MaxVoids
             /\ IF b.err # "ok" THEN Fail(b.err) ELSE Commit(evs, b)

Next ==
    \/ \E in \in Inputs : CreateEvent(in)
    \/ \E i \in 1..(Len(events) + 1), reason \in BOOLEAN : VoidEvent(i, reason)

Spec == Init /\ [][Next]_vars

-----------------------------------------------------------------------------
TypeOK ==
    /\ events \in Seq(Event) /\ Len(events) <= MaxEvents
    /\ DOMAIN lots \subseteq DOMAIN events
    /\ \A l \in DOMAIN lots : lots[l] \in Lot /\ lots[l].remaining <= lots[l].original
    /\ cons \subseteq Consumption
    /\ outcome \in Outcomes

(***************************************************************************)
(* Safety of the lots.                                                     *)
(***************************************************************************)

(* Every unit of a lot's original cost is either still in the lot or was    *)
(* recorded as consumed, across partial sales and splits in between         *)
(* (consumeLotsFIFO against applySplitToLots, which scales the lot but not  *)
(* the consumption rows).  Adjustments that carry their own unit cost are   *)
(* the documented exception.                                                *)
OriginalCostConserved ==
    \A l \in DOMAIN lots :
        LET mine == {c \in cons : c.lot = l}
        IN  (\E c \in mine : events[c.event].unitCost # Absent)
            \/ lots[l].cost = (lots[l].cost * lots[l].remaining) \div lots[l].original
                              + SumFunction([c \in mine |-> c.cost])

(* The net proceeds of a sale or reduction are divided without loss over    *)
(* the lots it consumed: cost consumed plus realized profit adds up to the  *)
(* cash received, and the shares consumed to the shares sold.               *)
ProceedsFullyAllocated ==
    \A i \in Active :
        LET rows == {c \in cons : c.event = i}
        IN  events[i].type \in {"sell", "capital_reduction"} /\ events[i].qty # 0 =>
              /\ SumFunction([c \in rows |-> c.cost + c.pnl]) = events[i].cash
              /\ SumFunction([c \in rows |-> c.qty]) = Abs(events[i].qty)

(* First in, first out: when an event consumed from lot l, every lot that   *)
(* comes before l in FIFO order and existed at the time is exhausted        *)
(* (openLotStatesTx orders by open_date, created_at, id of the opener).     *)
FirstInFirstOut ==
    \A c \in cons : \A k \in DOMAIN lots :
        /\ lots[k].asset = lots[c.lot].asset /\ k < c.event
        /\ \/ lots[k].date < lots[c.lot].date
           \/ lots[k].date = lots[c.lot].date /\ k < c.lot
        => lots[k].remaining = 0

(* No lot and no consumption outlives the event it came from: a void leaves *)
(* nothing of the voided event in the derived tables.                       *)
DerivedFromActiveEvents ==
    /\ DOMAIN lots \subseteq Active
    /\ \A c \in cons : c.event \in Active /\ c.lot \in DOMAIN lots

(* While no event was entered after one of a later trade date, the lots and *)
(* consumptions are what a replay of the active events would build, so a    *)
(* void changes nothing but what it voids (the claim of the comment on      *)
(* rebuildLotsTx).                                                          *)
RebuildReproducesBook ==
    (\A i, j \in Active : i < j => events[i].date <= events[j].date)
        => Replay(events, Active) = Book

(* The last snapshot is the portfolio of the tables it was committed with.  *)
SnapshotCurrent == snapshot = Portfolio(events, lots)

(* PortfolioHistory, which adds up quantity_shares, shows on the last day   *)
(* the shares the lots hold.  What a split added is recorded as of its      *)
(* entry ("for display only", types.go), so an asset with a split is        *)
(* excused once something was voided.                                       *)
HistoryAgreesWithLots ==
    LET today == Max({in.date : in \in Inputs})
        SplitIn(s) == \E i \in Active : events[i].type = "split" /\ events[i].asset = s
    IN  \A s \in Asset : (SplitIn(s) => Active = DOMAIN events)
                        => HistoryShares(s, today) = OpenShares(lots, s)

(* Voiding an event rebuilds the lots and the snapshot, whatever else the   *)
(* ledger holds: it is never refused because of the driver's connection.    *)
VoidNeverBusy == outcome # "conn_busy"

(***************************************************************************)
(* Action properties.                                                      *)
(***************************************************************************)

(* Stored events are never edited or removed, and a voided event stays      *)
(* voided: the only change to a row is setting voided_at once.              *)
EventsAppendOnly ==
    [][/\ Len(events') >= Len(events)
       /\ \A i \in DOMAIN events :
            events'[i] \in {events[i], [events[i] EXCEPT !.voided = TRUE]}]_events

(* A recorded cash dividend lowers the adjusted cost of the position by     *)
(* exactly the cash received, and a recorded split keeps both total costs,  *)
(* however the shares are spread over partly sold lots.                     *)
CorporateActionsKeepTotals ==
    [][Len(events') > Len(events) =>
        LET e == events'[Len(events')]
            old == Portfolio(events, lots).positions[e.asset]
            new == Portfolio(events', lots').positions[e.asset]
        IN  /\ e.type = "cash_dividend" /\ e.cash > 0 /\ old.shares > 0 =>
                new = [old EXCEPT !.adjusted = @ - e.cash]
            /\ e.type = "split" =>
                new = [old EXCEPT !.shares = (@ * e.ratio[1]) \div e.ratio[2]]]_vars

(* The share counts implement the lot-free specification of the ledger.     *)
Positions == INSTANCE Position WITH
    stream <- events, shares <- [a \in Asset |-> OpenShares(lots, a)]
PositionSpec == Positions!Spec
=============================================================================
