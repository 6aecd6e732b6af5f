------------------------------ MODULE LedgerTx ------------------------------
(***************************************************************************)
(* The transactions of one user's ledger (internal/ledger/service.go and   *)
(* portfolio.go), statement by statement, with the recommendations that    *)
(* read it (internal/recommend/service.go).  Requests overlap; PostgreSQL  *)
(* runs them READ COMMITTED: a statement sees what is committed when it    *)
(* begins and what its own transaction wrote, and a row that another       *)
(* transaction has locked is waited for and then looked at again.          *)
(*                                                                         *)
(* An event is its place in the order of created_at, which is the begin of *)
(* its transaction; rows that were rolled back keep their place and are    *)
(* never committed.  What the engine does with the locked lots is Lots.    *)
(***************************************************************************)
EXTENDS Lots, Sequences, Functions

CONSTANTS
    Request,    \* the requests
    NoRequest,
    Past,       \* the ledgers, events and lots, that may be there at the start
    Inputs,     \* the events requests ask to create; an adjustment's quantity alone is signed
    MaxEvents   \* bound: a void names one of the first MaxEvents events

(* The event adds a lot of its own to the book.                             *)
Opens(e) ==
    /\ e.asset # NoAsset
    /\ \/ e.type \in {"buy", "stock_dividend"}
       \/ e.type = "adjustment" /\ e.qty > 0

(* It changes the adjusted cost after its shares, with a query of its own   *)
(* for the open lots.                                                       *)
Recosts(e) == e.asset # NoAsset /\ e.type = "adjustment" /\ e.costDelta # 0

(* What it does to the lots before that.                                    *)
SharesOf(e) == IF Recosts(e) THEN [e EXCEPT !.costDelta = 0] ELSE e

(* That begins with a query for the open lots.                              *)
Locks(e) == TouchesLots(SharesOf(e)) /\ ~Opens(e)

ASSUME LedgerTxAssumption ==
    /\ NoRequest \notin Request
    /\ MaxEvents \in Nat
    /\ \A p \in Past :
         /\ p.events \in Seq(Event)
         /\ \A n \in DOMAIN p.lots : /\ p.lots[n] \in Lot
                                    /\ p.lots[n].remaining <= p.lots[n].original
         /\ DOMAIN p.lots = {n \in DOMAIN p.events : Opens(p.events[n])}
         /\ \A n \in DOMAIN p.lots : p.lots[n].asset = p.events[n].asset
         /\ p.cons \subseteq Consumption
         /\ \A c \in p.cons : c.event \in DOMAIN p.events /\ c.lot \in DOMAIN p.lots
    \* what prepareEvent accepts
    /\ Inputs \subseteq {e \in Event :
         /\ e.type # "adjustment" => e.qty >= 0
         /\ e.type \in {"buy", "sell", "stock_dividend"} => e.asset # NoAsset /\ e.qty > 0
         /\ e.type \in {"cash_dividend", "capital_reduction", "split"} => e.asset # NoAsset
         /\ e.type = "adjustment" /\ e.asset = NoAsset => e.qty = 0 /\ e.costDelta = 0
         /\ ~e.voided}

(* The ledgers at the start are whole: the lots hold the shares the events  *)
(* record, and an event that leaves the lots alone records none (the first  *)
(* is proved of ledgers built request by request, HistoryIsOfTheLots).      *)
ASSUME PastAssumption ==
    \A p \in Past :
         /\ \A a \in Asset :
              OpenShares(p.lots, a) = SumFunction([n \in {n \in DOMAIN p.events :
                                          p.events[n].asset = a} |-> p.events[n].qty])
         /\ \A n \in DOMAIN p.events :
              TouchesLots(p.events[n]) \/ p.events[n].asset = NoAsset \/ p.events[n].qty = 0

VARIABLES
    events,     \* ledger_events, committed or not, in the order of created_at
    active,     \* those that are committed and not voided
    lots, cons, \* lots and lot_consumptions, committed
    twice,      \* events of which a second lot was inserted beside the first
    req,        \* what a request asks for
    pc,         \* the next statement of a request
    row,        \* the event a request has inserted, 0 before
    total,      \* the open shares read for a split
    todo,       \* the rows its statement has still to lock
    held,       \* the lots its transaction has locked
    wrote,      \* what its transaction has written
    seen,       \* what its portfolios have read
    overlap,    \* the requests that committed changes while it ran
    latest      \* the request whose latest snapshot was committed last

db == <<active, lots, cons, twice, latest>>
local == <<req, row, total, todo, held, wrote, seen>>
vars == <<events, db, pc, local, overlap>>

NoEvent == [type |-> "cash", asset |-> NoAsset, date |-> 0, qty |-> 0, cash |-> 0,
            ratio |-> <<1, 1>>, unitCost |-> Absent, costDelta |-> 0, voided |-> FALSE]
Idle == [op |-> "none", event |-> NoEvent, of |-> 0]
Creates == {[op |-> "create", event |-> e, of |-> 0] : e \in Inputs}
Voids == {[op |-> "void", event |-> NoEvent, of |-> n] : n \in 1..MaxEvents}
Advice == [op |-> "advise", event |-> NoEvent, of |-> 0]

Nothing == [lots |-> <<>>, cons |-> {}, gone |-> {}, uncons |-> {}]

Ended == {"done", "failed"}
InTx == {"mark", "uncons", "unconsume", "delete", "select", "lock", "reselect", "relock",
         "replay", "cash", "positions", "commit"}
InFlight == InTx \union {"total", "begin"}

IsVoid(r) == req[r].op = "void"

(* The lots as a transaction sees them that has written w.                  *)
Written(ls, w) ==
    [n \in (DOMAIN ls \ w.gone) \union DOMAIN w.lots |->
        IF n \in DOMAIN w.lots THEN w.lots[n] ELSE ls[n]]

Init ==
    /\ \E p \in Past :
         /\ events = p.events /\ active = DOMAIN p.events
         /\ lots = p.lots /\ cons = p.cons
    /\ twice = {} /\ latest = NoRequest
    /\ req = [r \in Request |-> Idle]
    /\ pc = [r \in Request |-> "idle"]
    /\ row = [r \in Request |-> 0]
    /\ total = [r \in Request |-> 0]
    /\ todo = [r \in Request |-> {}]
    /\ held = [r \in Request |-> {}]
    /\ wrote = [r \in Request |-> Nothing]
    /\ seen = [r \in Request |-> <<>>]
    /\ overlap = [r \in Request |-> {}]

-----------------------------------------------------------------------------
Goto(r, where) == pc' = [pc EXCEPT ![r] = where]

(* The transaction is rolled back: nothing of it was ever visible.          *)
Rollback(r) ==
    /\ Goto(r, "failed")
    /\ todo' = [todo EXCEPT ![r] = {}]
    /\ held' = [held EXCEPT ![r] = {}]
    /\ wrote' = [wrote EXCEPT ![r] = Nothing]
    /\ seen' = [seen EXCEPT ![r] = <<>>]
    /\ overlap' = [overlap EXCEPT ![r] = {}]
    /\ row' = [row EXCEPT ![r] = 0]
    /\ total' = [total EXCEPT ![r] = 0]
    /\ UNCHANGED <<events, db, req>>

Arrive(r, q) ==
    /\ pc[r] = "idle"
    /\ req' = [req EXCEPT ![r] = q]
    /\ Goto(r, CASE q.op = "advise" -> "cash"
                 [] q.event.type = "split" -> "total"
                 [] OTHER -> "begin")
    /\ UNCHANGED <<events, db, row, total, todo, held, wrote, seen, overlap>>

(* prepareEvent of a split: the open shares, read outside the transaction.  *)
ReadTotal(r) ==
    /\ pc[r] = "total"
    /\ LET shares == OpenShares(lots, req[r].event.asset)
       IN  /\ total' = [total EXCEPT ![r] = shares]
           /\ Goto(r, IF shares = 0 THEN "failed" ELSE "begin")
    /\ UNCHANGED <<events, db, req, row, todo, held, wrote, seen, overlap>>

(* The event insertPreparedEvent stores.                                    *)
Prepared(r) ==
    LET e == req[r].event
    IN  [e EXCEPT !.qty = CASE e.type \in {"sell", "capital_reduction"} -> -@
                            [] e.type = "split" ->
                                 (total[r] * e.ratio[1]) \div e.ratio[2] - total[r]
                            [] OTHER -> @,
                  !.cash = IF e.type \in {"stock_dividend", "split"} THEN 0 ELSE @]

(* Begin of CreateEvent, the insert of the event and, when it opens one, of *)
(* its lot: none of them meets another transaction.                         *)
BeginCreate(r) ==
    /\ pc[r] = "begin" /\ ~IsVoid(r)
    /\ LET e == Prepared(r)
           n == Len(events) + 1
       IN  /\ events' = Append(events, e)
           /\ row' = [row EXCEPT ![r] = n]
           /\ wrote' = [wrote EXCEPT ![r].lots =
                IF Opens(e) THEN ApplyEventToLots(EmptyBook, n, SharesOf(e)).lots ELSE @]
           /\ Goto(r, CASE Locks(e) -> "select"
                        [] Recosts(e) /\ ~Locks(e) -> "reselect"
                        [] OTHER -> "cash")
    /\ UNCHANGED <<db, req, total, todo, held, seen, overlap>>

BeginVoid(r) ==
    /\ pc[r] = "begin" /\ IsVoid(r)
    /\ Goto(r, "mark")
    /\ UNCHANGED <<events, db, local, overlap>>

(* The void whose transaction holds the row of event n.                     *)
Marks(r, n) == IsVoid(r) /\ req[r].of = n /\ pc[r] \in InTx \ {"mark"}

(* UPDATE ledger_events ... WHERE voided_at IS NULL.                        *)
MarkVoided(r) ==
    /\ pc[r] = "mark"
    /\ \A q \in Request \ {r} : ~Marks(q, req[r].of)
    /\ IF req[r].of \in active
       THEN Goto(r, "uncons") /\ UNCHANGED <<events, db, local, overlap>>
       ELSE Rollback(r)

(* rebuildLotsTx deletes the consumptions it sees when the statement begins *)
(* and that no other void has deleted by the time it gets to them.          *)
SelectConsumptions(r) ==
    /\ pc[r] = "uncons"
    /\ wrote' = [wrote EXCEPT ![r].uncons = cons]
    /\ Goto(r, "unconsume")
    /\ UNCHANGED <<events, db, req, row, total, todo, held, seen, overlap>>

DeleteConsumptions(r) ==
    /\ pc[r] = "unconsume"
    /\ \A q \in Request \ {r} :
         pc[q] \in InTx \ {"unconsume"} => wrote[q].uncons \intersect wrote[r].uncons = {}
    /\ wrote' = [wrote EXCEPT ![r].uncons = @ \intersect cons]
    /\ Goto(r, "delete")
    /\ UNCHANGED <<events, db, req, row, total, todo, held, seen, overlap>>

(* The rows a statement goes for are those it sees when it begins:          *)
(* DELETE FROM lots of the user, or openLotStatesTx, FOR UPDATE, of which   *)
(* those its transaction has locked or inserted keep it waiting for nobody. *)
SelectLots(r) ==
    /\ pc[r] \in {"delete", "select", "reselect"}
    /\ todo' = [todo EXCEPT ![r] =
         IF IsVoid(r) THEN DOMAIN lots ELSE OpenLots(lots, req[r].event.asset) \ held[r]]
    /\ Goto(r, IF pc[r] = "reselect" THEN "relock" ELSE "lock")
    /\ UNCHANGED <<events, db, req, row, total, held, wrote, seen, overlap>>

(* Variant: openLotStatesTx without ORDER BY.                               *)
NextRowsInAnyOrder(r) == todo[r]

(* openLotStatesTx locks in FIFO order, a delete in the order of its scan.  *)
NextRows(r) ==
    IF IsVoid(r) THEN todo[r]
    ELSE {l \in todo[r] : \A k \in todo[r] \ {l} : Before(events, l, k)}

(* Variant: the rows are read without FOR UPDATE.                           *)
LockRowReading(r, l) ==
    /\ pc[r] \in {"lock", "relock"} /\ l \in NextRows(r)
    /\ held' = [held EXCEPT ![r] = @ \union ({l} \intersect DOMAIN lots)]
    /\ todo' = [todo EXCEPT ![r] = @ \ {l}]
    /\ UNCHANGED <<events, db, pc, req, row, total, wrote, seen, overlap>>

(* A row is waited for, looked at again, and left out if it is gone or no   *)
(* longer open.                                                             *)
LockRow(r, l) ==
    /\ pc[r] \in {"lock", "relock"} /\ l \in NextRows(r)
    /\ \A q \in Request \ {r} : l \notin held[q]
    /\ held' = [held EXCEPT ![r] = IF l \in DOMAIN lots /\ (IsVoid(r) \/ lots[l].remaining > 0)
                                   THEN @ \union {l} ELSE @]
    /\ todo' = [todo EXCEPT ![r] = @ \ {l}]
    /\ UNCHANGED <<events, db, pc, req, row, total, wrote, seen, overlap>>

(* applyEventToLots on the locked lots, for an adjustment up to its shares; *)
(* the updates meet nobody.                                                 *)
ApplyToLots(r) ==
    /\ pc[r] = "lock" /\ todo[r] = {} /\ ~IsVoid(r)
    /\ LET e == events[row[r]]
           b == ApplyEventToLots([EmptyBook EXCEPT !.lots = Restrict(lots, held[r])],
                                 row[r], SharesOf(e))
       IN  IF b.err # "ok" THEN Rollback(r)
           ELSE /\ wrote' = [wrote EXCEPT ![r].lots = b.lots, ![r].cons = b.cons]
                /\ Goto(r, IF Recosts(e) THEN "reselect" ELSE "cash")
                /\ UNCHANGED <<events, db, req, row, total, todo, held, seen, overlap>>

(* The end of an adjustment: its cost, over the open lots as they are now.  *)
ApplyCost(r) ==
    /\ pc[r] = "relock" /\ todo[r] = {}
    /\ LET e == events[row[r]]
           ls == Written(Restrict(lots, held[r]), wrote[r])
           b == DeductAdjustedCostProRata([EmptyBook EXCEPT !.lots = ls], e.asset, -e.costDelta)
       IN  wrote' = [wrote EXCEPT ![r].lots = b.lots]
    /\ Goto(r, "cash")
    /\ UNCHANGED <<events, db, req, row, total, todo, held, seen, overlap>>

(* The end of the delete: a lot that a consumption still refers to, one     *)
(* committed since the consumptions were deleted, cannot go.                *)
DeleteLots(r) ==
    /\ pc[r] = "lock" /\ todo[r] = {} /\ IsVoid(r)
    /\ IF \E c \in cons \ wrote[r].uncons : c.lot \in held[r] THEN Rollback(r)
       ELSE /\ wrote' = [wrote EXCEPT ![r].gone = held[r]]
            /\ Goto(r, "replay")
            /\ UNCHANGED <<events, db, req, row, total, todo, held, seen, overlap>>

(* Variant: the events are read to the end before the first is applied, as  *)
(* a repair of the refused statements would do.                             *)
RebuildCollecting(r) ==
    /\ pc[r] = "replay"
    /\ LET b == Replay(events, active \ {req[r].of})
       IN  IF b.err # "ok" THEN Rollback(r)
           ELSE /\ wrote' = [wrote EXCEPT ![r].lots = b.lots, ![r].cons = b.cons]
                /\ Goto(r, "cash")
                /\ UNCHANGED <<events, db, req, row, total, todo, held, seen, overlap>>

(* The events rebuildLotsTx sees; applying one that touches lots is refused *)
(* by the connection whose rows are being read (Ledger, VoidNeverBusy).     *)
RebuildLots(r) ==
    /\ pc[r] = "replay"
    /\ IF \E n \in active \ {req[r].of} : TouchesLots(events[n]) THEN Rollback(r)
       ELSE Goto(r, "cash") /\ UNCHANGED <<events, db, local, overlap>>

-----------------------------------------------------------------------------
(* The tables as a statement of r sees them: committed, and its own writes. *)
ActiveSeen(r) == IF IsVoid(r) THEN active \ {req[r].of}
                 ELSE active \union ({row[r]} \ {0})

OpenIn(ls) == [n \in {n \in DOMAIN ls : ls[n].remaining > 0} |-> ls[n]]

(* portfolioTx: the cash is one statement over the events, ...              *)
ReadCash(r) ==
    /\ pc[r] = "cash"
    /\ seen' = [seen EXCEPT ![r] = Append(@, [events |-> ActiveSeen(r), lots |-> <<>>])]
    /\ Goto(r, "positions")
    /\ UNCHANGED <<events, db, req, row, total, todo, held, wrote, overlap>>

(* Variant: the positions are read on another connection.                   *)
ReadPositionsOutside(r) ==
    /\ pc[r] = "positions"
    /\ seen' = [seen EXCEPT ![r][Len(seen[r])].lots = OpenIn(lots)]
    /\ Goto(r, IF req[r].op = "advise" /\ Len(seen[r]) = 1 THEN "cash" ELSE "commit")
    /\ UNCHANGED <<events, db, req, row, total, todo, held, wrote, overlap>>

(* ... the positions are another over the lots.  A recommendation reads a   *)
(* portfolio to compute from and then takes its snapshot.                   *)
ReadPositions(r) ==
    /\ pc[r] = "positions"
    /\ seen' = [seen EXCEPT ![r][Len(seen[r])].lots = OpenIn(Written(lots, wrote[r]))]
    /\ Goto(r, IF req[r].op = "advise" /\ Len(seen[r]) = 1 THEN "cash" ELSE "commit")
    /\ UNCHANGED <<events, db, req, row, total, todo, held, wrote, overlap>>

(* The commit of an event or of a void.                                     *)
Commit(r) ==
    /\ pc[r] = "commit" /\ req[r].op # "advise"
    /\ active' = ActiveSeen(r)
    /\ lots' = Written(lots, wrote[r])
    /\ cons' = (cons \ wrote[r].uncons) \union wrote[r].cons
    /\ twice' = twice \union
         ((DOMAIN wrote[r].lots \ held[r]) \intersect (DOMAIN lots \ wrote[r].gone))
    /\ latest' = r
    /\ held' = [held EXCEPT ![r] = {}]
    /\ overlap' = [q \in Request |->
         IF q # r /\ pc[q] \in InFlight THEN overlap[q] \union {r} ELSE overlap[q]]
    /\ Goto(r, "done")
    /\ UNCHANGED <<events, req, row, total, todo, wrote, seen>>

(* Variant: the run names the latest snapshot there is instead of its own.  *)
StoreRunWithLatest(r) ==
    /\ pc[r] = "commit" /\ req[r].op = "advise"
    /\ seen' = [seen EXCEPT ![r][2] = IF latest = NoRequest THEN @ ELSE seen[latest][1]]
    /\ Goto(r, "done")
    /\ UNCHANGED <<events, db, req, row, total, todo, held, wrote, overlap>>

(* The commit of a recommendation changes nothing the ledger reads.         *)
StoreRun(r) ==
    /\ pc[r] = "commit" /\ req[r].op = "advise"
    /\ Goto(r, "done")
    /\ UNCHANGED <<events, db, local, overlap>>

(* A statement fails, the request is cut off, or PostgreSQL ends a circle   *)
(* of waits.                                                                *)
Abort(r) == pc[r] \in InFlight /\ Rollback(r)

Statement(r) ==
    \/ ReadTotal(r) \/ BeginCreate(r) \/ BeginVoid(r) \/ MarkVoided(r)
    \/ SelectConsumptions(r) \/ DeleteConsumptions(r) \/ SelectLots(r)
    \/ \E l \in todo[r] : LockRow(r, l)
    \/ ApplyToLots(r) \/ ApplyCost(r) \/ DeleteLots(r) \/ RebuildLots(r)
    \/ ReadCash(r) \/ ReadPositions(r) \/ Commit(r) \/ StoreRun(r)

Next ==
    \/ \E r \in Request, q \in Creates \union Voids \union {Advice} : Arrive(r, q)
    \/ \E r \in Request : Statement(r) \/ Abort(r)

Spec == Init /\ [][Next]_vars

-----------------------------------------------------------------------------
TypeOK ==
    /\ events \in Seq(Event)
    /\ active \subseteq DOMAIN events /\ twice \subseteq DOMAIN events
    /\ DOMAIN lots \subseteq DOMAIN events
    /\ \A n \in DOMAIN lots : lots[n] \in Lot /\ lots[n].remaining <= lots[n].original
    /\ cons \subseteq Consumption
    /\ req \in [Request -> Creates \union Voids \union {Advice, Idle}]
    /\ pc \in [Request -> InFlight \union Ended \union {"idle"}]
    /\ row \in [Request -> 0..Len(events)]
    /\ total \in [Request -> Nat]
    /\ todo \in [Request -> SUBSET DOMAIN events]
    /\ held \in [Request -> SUBSET DOMAIN events]
    /\ \A r \in Request : held[r] \subseteq DOMAIN lots
    /\ overlap \in [Request -> SUBSET Request]
    /\ latest \in Request \union {NoRequest}

(* The shares the events record add up to the shares the lots hold, however *)
(* sales, buys and voids overlap: no update of a lot is lost.  A split      *)
(* records what it adds to a total read before its transaction, so one that *)
(* overlapped another commit is excused.                                    *)
SharesAddUp ==
    LET Late(n) == \E r \in Request :
                      row[r] = n /\ events[n].type = "split" /\ overlap[r] # {}
        Recorded(a) == SumFunction([n \in {n \in active : events[n].asset = a} |->
                                        events[n].qty])
    IN  (\E n \in active : Late(n)) \/ \A a \in Asset : Recorded(a) = OpenShares(lots, a)

(* Every active event that opens a lot has one and every lot is that of an  *)
(* active event; a consumption is that of an active event on a lot that is  *)
(* there.  The void that rebuilds meets buys and sales that begin before    *)
(* and end after any of its statements.                                     *)
LotsOfActiveEvents ==
    /\ twice = {}
    /\ DOMAIN lots = {n \in active : Opens(events[n])}
    /\ \A c \in cons : c.event \in active /\ c.lot \in DOMAIN lots

(* The events and lots a request changed, its event among them.             *)
Changed(r) == {row[r], req[r].of} \union DOMAIN wrote[r].lots \union wrote[r].gone

(* When the latest snapshot is that of request r, it differs from the       *)
(* ledger only in what requests changed that committed while r ran: it has  *)
(* everything r did, and everything that was there before.                  *)
LatestMissesOnlyOverlaps ==
    latest # NoRequest =>
        LET s == seen[latest][1]
            later == UNION {Changed(q) : q \in overlap[latest]}
        IN  /\ \A n \in DOMAIN events \ later : n \in s.events <=> n \in active
            /\ \A n \in DOMAIN events \ later :
                 LET now == OpenIn(lots)
                 IN  /\ n \in DOMAIN s.lots <=> n \in DOMAIN now
                     /\ n \in DOMAIN now => s.lots[n] = now[n]

(* The snapshot a recommendation names and the portfolio it was computed    *)
(* from differ only in what was committed while the recommendation ran.     *)
AdviceNamesItsInputs ==
    \A r \in Request : pc[r] = "done" /\ req[r].op = "advise" =>
        LET later == UNION {Changed(q) : q \in overlap[r]}
            input == seen[r][1]
            named == seen[r][2]
        IN  \A n \in DOMAIN events \ later :
              /\ n \in input.events <=> n \in named.events
              /\ n \in DOMAIN input.lots <=> n \in DOMAIN named.lots
              /\ n \in DOMAIN named.lots => input.lots[n] = named.lots[n]

(* Request r waits for a lot that q has locked.                             *)
WaitsFor(r, q) ==
    /\ r # q /\ pc[r] \in {"lock", "relock"}
    /\ NextRows(r) \intersect held[q] # {}
    /\ \A l \in NextRows(r) : \E p \in Request \ {r} : l \in held[p]

(* A create that waits for another one is behind it in the order of the     *)
(* lots, unless the other is in the second locking of its transaction: the  *)
(* waits of creates never form a circle without such an adjustment, and     *)
(* only that and a void, which locks in another order, can make PostgreSQL  *)
(* end one.                                                                 *)
CreatesWaitInOrder ==
    \A r, q \in {r \in Request : req[r].op = "create"} :
        WaitsFor(r, q) /\ pc[q] # "relock" =>
            \A l \in NextRows(r), k \in todo[q] : Before(events, l, k)
=============================================================================
