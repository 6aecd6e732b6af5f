--------------------------- MODULE LedgerTxProofs ---------------------------
(***************************************************************************)
(* What is proved of the overlapping transactions of a ledger for any      *)
(* number of requests, events and lots: the lots are those of the active   *)
(* events, creates wait for each other in the order of the lots, the       *)
(* tables keep their types, what is read is out of date only by what was   *)
(* committed meanwhile, and no update of a lot is lost.                    *)
(*                                                                         *)
(* IInv is about rows and locks; JInv adds what the rows hold; FInv adds   *)
(* what has been read, SInv what the shares add up to.                     *)
(***************************************************************************)
EXTENDS LedgerTx, LotsProofs

(* Where a transaction has applied all it will to lots.                     *)
Ending == {"cash", "positions", "commit"}

(* Where an adjustment has yet to apply its cost.                           *)
Between == {"reselect", "relock"}

(* The event a void is about opened a lot.                                  *)
Opened(r) == Opens(events[req[r].of])

(* The lot that the event a request has inserted opens, if it opens one.    *)
Own(r) == IF Opens(events[row[r]]) THEN {row[r]} ELSE {}

(* A stored event is a record; what an adjustment adds or takes is a number.*)
Stored(e) ==
    /\ e = [type |-> e.type, asset |-> e.asset, date |-> e.date, qty |-> e.qty, cash |-> e.cash,
            ratio |-> e.ratio, unitCost |-> e.unitCost, costDelta |-> e.costDelta,
            voided |-> e.voided]
    /\ e.date \in Nat
    /\ e.type = "adjustment" => e.qty \in Int

(* The types of what transactions keep to themselves.                       *)
Types ==
    /\ \E S : events \in Seq(S)
    /\ \A n \in DOMAIN events : Stored(events[n])
    /\ active \subseteq DOMAIN events
    /\ req \in [Request -> Creates \union Voids \union {Advice, Idle}]
    /\ pc \in [Request -> InFlight \union Ended \union {"idle"}]
    /\ row \in [Request -> 0..Len(events)]
    /\ todo \in [Request -> SUBSET DOMAIN events]
    /\ held \in [Request -> SUBSET DOMAIN events]
    /\ \E S : wrote \in [Request -> [lots : S, cons : S, gone : S, uncons : S]]

(* Where a request can be, and what it has not got there.                   *)
Place(r) ==
    /\ pc[r] = "idle" <=> req[r].op = "none"
    /\ pc[r] \in {"idle", "total", "begin", "mark"} => row[r] = 0 /\ wrote[r] = Nothing
    /\ pc[r] \notin {"lock", "replay"} \union Between \union Ending => held[r] = {}
    /\ pc[r] \notin {"lock", "relock"} => todo[r] = {}
    /\ pc[r] \in {"mark", "uncons", "unconsume", "delete", "replay"} => IsVoid(r)
    /\ pc[r] \in {"select", "total"} \union Between => req[r].op = "create"
    /\ req[r].op = "advise" => pc[r] \in Ending \union Ended /\ held[r] = {}

(* The event a create has inserted is its own until it commits; what it     *)
(* writes are its own lot and lots it has locked, the first of them in the  *)
(* order of the lots.                                                       *)
Creating(r) ==
    req[r].op = "create" /\ pc[r] \in InTx =>
        /\ row[r] \in DOMAIN events \ active
        /\ wrote[r].gone = {} /\ wrote[r].uncons = {}
        /\ pc[r] \in {"select", "lock"} => Locks(events[row[r]])
        /\ pc[r] \in Between =>
             /\ Recosts(events[row[r]])
             /\ Own(r) \subseteq DOMAIN wrote[r].lots
             /\ DOMAIN wrote[r].lots \subseteq held[r] \union Own(r)
        /\ pc[r] \in Ending => DOMAIN wrote[r].lots = held[r] \union Own(r)
        /\ pc[r] \in Between \union Ending =>
             \A c \in wrote[r].cons : c.event = row[r] /\ c.lot \in held[r]
        /\ pc[r] = "lock" => \A l \in held[r], k \in todo[r] : Before(events, l, k)

(* A void past its first statement has an active event; the lot of that     *)
(* event is among those it locks and deletes, and is the only one when the  *)
(* replay is through; no consumption survives that it should have deleted.  *)
Voiding(r) ==
    IsVoid(r) /\ pc[r] \in InTx =>
        /\ DOMAIN wrote[r].lots = {} /\ wrote[r].cons = {}
        /\ pc[r] # "mark" => req[r].of \in active
        /\ pc[r] \notin {"mark", "uncons"} =>
             \A c \in cons : c.event = req[r].of => c \in wrote[r].uncons
        /\ pc[r] = "lock" /\ Opened(r) => req[r].of \in todo[r] \union held[r]
        /\ pc[r] \in {"replay"} \union Ending =>
             /\ wrote[r].gone = held[r]
             /\ Opened(r) => req[r].of \in held[r]
             /\ \A c \in cons \ wrote[r].uncons : c.lot \notin held[r]
        /\ pc[r] \in Ending => held[r] \subseteq {req[r].of}

(* No two requests lock a lot, insert an event or void one together.        *)
Alone(r, q) ==
    /\ held[r] \intersect held[q] = {}
    /\ req[r].op = "create" /\ pc[r] \in InTx => row[q] # row[r]
    /\ Marks(r, req[r].of) => ~Marks(q, req[r].of)

(* All that is said of one transaction.                                     *)
Local(r) == Place(r) /\ Creating(r) /\ Voiding(r)

(* The invariant about rows and locks.                                      *)
IInv ==
    /\ Types
    /\ LotsOfActiveEvents
    /\ \A r \in Request : held[r] \subseteq DOMAIN lots
    /\ \A r \in Request : Local(r)
    /\ \A r, q \in Request : r # q => Alone(r, q)

-----------------------------------------------------------------------------
(* Events are like that.                                                    *)
LEMMA EventStored == ASSUME NEW e \in Event PROVE Stored(e)
BY DEF Event, Stored

(* What of an event is applied to the shares.                               *)
LEMMA SharesOfIs ==
  ASSUME NEW e, Stored(e)
  PROVE  /\ Stored(SharesOf(e))
         /\ SharesOf(e).type = e.type /\ SharesOf(e).asset = e.asset /\ SharesOf(e).qty = e.qty
         /\ SharesOf(e).date = e.date /\ SharesOf(e).cash = e.cash
         /\ e.type = "adjustment" /\ e.asset # NoAsset => SharesOf(e).costDelta = 0
<1>1. CASE Recosts(e)
  <2>1. SharesOf(e) = [e EXCEPT !.costDelta = 0]
    BY <1>1 DEF SharesOf
  <2> QED BY <2>1 DEF Stored
<1>2. CASE ~Recosts(e)
  BY <1>2 DEF SharesOf, Recosts
<1> QED BY <1>1, <1>2

(* An event that opens a lot inserts it, consumes nothing and cannot fail.  *)
LEMMA OpensLot ==
  ASSUME NEW id, NEW e, Stored(e), Opens(e)
  PROVE  LET b == ApplyEventToLots(EmptyBook, id, SharesOf(e))
         IN  DOMAIN b.lots = {id} /\ b.cons = {} /\ b.err = "ok"
<1> DEFINE s == SharesOf(e)
<1>1. /\ s.type = e.type /\ s.asset = e.asset /\ s.qty = e.qty
      /\ e.type = "adjustment" => s.costDelta = 0
  BY SharesOfIs DEF Opens
<1>2. s.asset # NoAsset
  BY <1>1 DEF Opens
<1> HIDE DEF s
<1>3. CASE e.type \in {"buy", "stock_dividend"}
  BY <1>1, <1>2, <1>3 DEF ApplyEventToLots, InsertLot, EmptyBook, s
<1>4. CASE e.type = "adjustment"
  <2>1. s.qty \in Int /\ s.qty > 0
    BY <1>1, <1>4 DEF Opens, Stored
  <2>2. ApplyEventToLots(EmptyBook, id, s) = ApplyAdjustmentToLots(EmptyBook, id, s)
    BY <1>1, <1>2, <1>4 DEF ApplyEventToLots
  <2>3. ~(s.qty < 0)
    BY <2>1
  <2>4. \E c : ApplyAdjustmentToLots(EmptyBook, id, s) = InsertLot(EmptyBook, id, s, c)
    BY <1>1, <1>4, <2>1, <2>3 DEF ApplyAdjustmentToLots
  <2> QED BY <2>2, <2>4 DEF InsertLot, EmptyBook, s
<1> QED BY <1>3, <1>4 DEF Opens

(* It touches lots.                                                         *)
LEMMA OpeningTouches == ASSUME NEW e, Stored(e), Opens(e) PROVE TouchesLots(e)
BY DEF Stored, Opens, TouchesLots

(* The book c is b with the same lots and consumptions, if not their values.*)
SameRows(b, c) ==
    /\ c = [lots |-> c.lots, cons |-> c.cons, err |-> c.err]
    /\ DOMAIN c.lots = DOMAIN b.lots /\ c.cons = b.cons

(* A deduction from the adjusted costs is like that.                        *)
LEMMA DeductKeeps ==
  ASSUME NEW b, b = [lots |-> b.lots, cons |-> b.cons, err |-> b.err], NEW a, NEW x
  PROVE  SameRows(b, DeductAdjustedCostProRata(b, a, x))
BY DEF SameRows, DeductAdjustedCostProRata

(* A book without consumptions that holds the lots ls.                      *)
LEMMA BookOn ==
  ASSUME NEW ls
  PROVE  [EmptyBook EXCEPT !.lots = ls] = [lots |-> ls, cons |-> {}, err |-> "ok"]
<1>1. EmptyBook = [lots |-> EmptyBook.lots, cons |-> {}, err |-> "ok"]
  BY DEF EmptyBook
<1> QED BY <1>1

(* A book on the lots ls in which event id alone has consumed.              *)
TookFrom(ls, id, c) ==
    /\ c = [lots |-> c.lots, cons |-> c.cons, err |-> c.err]
    /\ DOMAIN c.lots = DOMAIN ls
    /\ \A n \in c.cons : n.event = id /\ n.lot \in DOMAIN ls

(* A consumption adds and removes no lot.                                   *)
LEMMA FifoKeeps ==
  ASSUME NEW ls, NEW id, NEW a, NEW q, NEW net
  PROVE  TookFrom(ls, id, ConsumeLotsFIFO([EmptyBook EXCEPT !.lots = ls], id, a, q, net))
<1> DEFINE book == [EmptyBook EXCEPT !.lots = ls]
           b == ConsumeLotsFIFO(book, id, a, q, net)
           hit == {l \in OpenLots(ls, a) : Taken(ls, a, q, l) > 0}
<1>1. book = [lots |-> ls, cons |-> {}, err |-> "ok"]
  BY BookOn
<1>2. hit \subseteq DOMAIN ls
  BY DEF OpenLots
<1>3. CASE OpenShares(ls, a) < q
  BY <1>1, <1>3 DEF ConsumeLotsFIFO, ConsumeLots, TookFrom
<1>4. CASE ~(OpenShares(ls, a) < q)
  <2>1. DOMAIN b.lots = DOMAIN ls /\ b = [lots |-> b.lots, cons |-> b.cons, err |-> b.err]
    BY <1>1, <1>4 DEF ConsumeLotsFIFO, ConsumeLots
  <2>2. \A c \in b.cons : \E l \in hit : c.event = id /\ c.lot = l
    BY <1>1, <1>4 DEF ConsumeLotsFIFO, ConsumeLots
  <2> QED BY <1>2, <2>1, <2>2 DEF TookFrom
<1> QED BY <1>3, <1>4

(* Nor does that of an adjustment.                                          *)
LEMMA AdjustmentKeeps ==
  ASSUME NEW ls, NEW id, NEW a, NEW q, NEW u
  PROVE  TookFrom(ls, id, ConsumeLotsForAdjustment([EmptyBook EXCEPT !.lots = ls], id, a, q, u))
<1> DEFINE book == [EmptyBook EXCEPT !.lots = ls]
           b == ConsumeLotsForAdjustment(book, id, a, q, u)
           hit == {l \in OpenLots(ls, a) : Taken(ls, a, q, l) > 0}
<1>1. book = [lots |-> ls, cons |-> {}, err |-> "ok"]
  BY BookOn
<1>2. hit \subseteq DOMAIN ls
  BY DEF OpenLots
<1>3. CASE OpenShares(ls, a) < q
  BY <1>1, <1>3 DEF ConsumeLotsForAdjustment, ConsumeLots, TookFrom
<1>4. CASE ~(OpenShares(ls, a) < q)
  <2>1. DOMAIN b.lots = DOMAIN ls /\ b = [lots |-> b.lots, cons |-> b.cons, err |-> b.err]
    BY <1>1, <1>4 DEF ConsumeLotsForAdjustment, ConsumeLots
  <2>2. \A c \in b.cons : \E l \in hit : c.event = id /\ c.lot = l
    BY <1>1, <1>4 DEF ConsumeLotsForAdjustment, ConsumeLots
  <2> QED BY <1>2, <2>1, <2>2 DEF TookFrom
<1> QED BY <1>3, <1>4

(* Nor does any event that begins by locking lots.                          *)
LEMMA LockersKeepLots ==
  ASSUME NEW ls, NEW id, NEW e, Stored(e), Locks(e)
  PROVE  LET b == ApplyEventToLots([EmptyBook EXCEPT !.lots = ls], id, SharesOf(e))
         IN  /\ DOMAIN b.lots = DOMAIN ls
             /\ \A c \in b.cons : c.event = id /\ c.lot \in DOMAIN ls
<1> DEFINE s == SharesOf(e)
           book == [EmptyBook EXCEPT !.lots = ls]
           b == ApplyEventToLots(book, id, s)
<1>1. /\ s.type = e.type /\ s.asset = e.asset /\ s.qty = e.qty /\ s.cash = e.cash
      /\ e.type = "adjustment" /\ e.asset # NoAsset => s.costDelta = 0
  BY SharesOfIs
<1>2. TouchesLots(s) /\ s.asset # NoAsset /\ ~Opens(e)
  BY DEF Locks, TouchesLots
<1>3. book = [lots |-> ls, cons |-> {}, err |-> "ok"] /\ TookFrom(ls, id, book)
  BY DEF EmptyBook, TookFrom
<1> HIDE DEF s, book
<1> SUFFICES TookFrom(ls, id, b)
  BY DEF TookFrom, book, s
<1>4. \A c, x : TookFrom(ls, id, c) => TookFrom(ls, id, DeductAdjustedCostProRata(c, s.asset, x))
  BY DeductKeeps DEF TookFrom, SameRows
<1>5. \A q, net : TookFrom(ls, id, ConsumeLotsFIFO(book, id, s.asset, q, net))
  BY FifoKeeps DEF book
<1>6. CASE e.type = "sell"
  BY <1>1, <1>2, <1>5, <1>6 DEF ApplyEventToLots
<1>7. CASE e.type = "capital_reduction"
  BY <1>1, <1>2, <1>3, <1>4, <1>5, <1>7 DEF ApplyEventToLots
<1>8. CASE e.type = "cash_dividend"
  BY <1>1, <1>2, <1>3, <1>4, <1>8 DEF ApplyEventToLots
<1>9. CASE e.type = "split"
  BY <1>1, <1>2, <1>3, <1>9 DEF ApplyEventToLots, ApplySplitToLots, TookFrom
<1>10. CASE e.type = "adjustment"
  <2>1. s.costDelta = 0 /\ s.qty \in Int /\ s.qty < 0
    <3>1. s.costDelta = 0 /\ s.qty \in Int
      BY <1>1, <1>2, <1>10 DEF Stored
    <3> QED BY <1>1, <1>2, <1>10, <3>1 DEF TouchesLots, Opens
  <2>2. b = ConsumeLotsForAdjustment(book, id, s.asset, -s.qty, s.unitCost)
    BY <1>1, <1>2, <1>10, <2>1 DEF ApplyEventToLots, ApplyAdjustmentToLots
  <2> QED BY <2>2, AdjustmentKeeps DEF book
<1> QED BY <1>1, <1>2, <1>6, <1>7, <1>8, <1>9, <1>10 DEF TouchesLots, Opens

-----------------------------------------------------------------------------
(* Nothing of request q changes.                                            *)
Same(q) ==
    /\ pc'[q] = pc[q] /\ req'[q] = req[q] /\ row'[q] = row[q]
    /\ todo'[q] = todo[q] /\ held'[q] = held[q] /\ wrote'[q] = wrote[q]

(* The stored events stay, and others may have been appended.               *)
Grown ==
    /\ DOMAIN events \subseteq DOMAIN events'
    /\ \A n \in DOMAIN events : events'[n] = events[n]

(* A transaction that takes no step keeps what is said of it while the      *)
(* tables stay.                                                             *)
LEMMA OthersStay ==
  ASSUME IInv, NEW q \in Request, Same(q), Grown, UNCHANGED <<active, lots, cons>>
  PROVE  Local(q)' /\ held'[q] \subseteq DOMAIN lots'
<1>1. Local(q) /\ held[q] \subseteq DOMAIN lots /\ todo[q] \subseteq DOMAIN events
      /\ held[q] \subseteq DOMAIN events /\ active \subseteq DOMAIN events
  BY DEF IInv, Types
<1>2. Place(q)'
  BY <1>1 DEF Local, Place, Same, IsVoid
<1>3. Creating(q)'
  <2>1. row[q] \in DOMAIN events /\ req[q].op = "create" /\ pc[q] \in InTx
        => Own(q)' = Own(q) /\ events'[row[q]] = events[row[q]]
    BY <1>1 DEF Same, Grown, Own
  <2> QED BY <1>1, <2>1 DEF Local, Creating, Same, Grown, Before, InTx, Between, Ending
<1>4. Voiding(q)'
  BY <1>1 DEF Local, Voiding, Same, Grown, Opened, IsVoid, Ending, Between
<1> QED BY <1>1, <1>2, <1>3, <1>4 DEF Local, Same

(* Request r and the others have nothing in common.                         *)
Apart(r) == \A q \in Request \ {r} : Alone(r, q) /\ Alone(q, r)

(* That stays so when r gains neither lots nor an event.                    *)
LEMMA StayApart ==
  ASSUME IInv, NEW r \in Request, \A q \in Request \ {r} : Same(q),
         held'[r] \subseteq held[r],
         row'[r] \in {0, row[r]},
         req'[r].op = "create" /\ pc'[r] \in InTx =>
            req[r].op = "create" /\ pc[r] \in InTx /\ row'[r] = row[r],
         Marks(r, req[r].of)' => Marks(r, req[r].of) /\ req'[r] = req[r]
  PROVE  Apart(r)'
<1> SUFFICES ASSUME NEW q \in Request \ {r} PROVE Alone(r, q)' /\ Alone(q, r)'
  BY DEF Apart
<1>1. Alone(r, q) /\ Alone(q, r) /\ Creating(q)
  BY DEF IInv, Local
<1>2. held'[r] \intersect held'[q] = {}
  BY <1>1 DEF Alone, Same
<1>3. req[q].op = "create" /\ pc[q] \in InTx => row[q] # 0
  BY <1>1 DEF Creating, IInv, Types
<1>4. (req[q].op = "create" /\ pc[q] \in InTx => row[r] # row[q])'
  BY <1>1, <1>3 DEF Alone, Same
<1>5. (req[r].op = "create" /\ pc[r] \in InTx => row[q] # row[r])'
  BY <1>1 DEF Alone, Same
<1>6. Marks(q, req[q].of)' = Marks(q, req[q].of) /\ req'[q] = req[q]
  BY DEF Same, Marks, IsVoid
<1>7. (Marks(r, req[r].of) => ~Marks(q, req[r].of))'
  BY <1>1, <1>6 DEF Alone, Same, Marks, IsVoid
<1>8. (Marks(q, req[q].of) => ~Marks(r, req[q].of))'
  BY <1>1, <1>6 DEF Alone, Same, Marks, IsVoid
<1> QED BY <1>2, <1>4, <1>5, <1>7, <1>8 DEF Alone

(* Only the transaction that takes a step can come to share rows with       *)
(* another.                                                                 *)
LEMMA OthersAlone ==
  ASSUME IInv, NEW r \in Request, \A q \in Request \ {r} : Same(q), Apart(r)'
  PROVE  \A p, q \in Request : p # q => Alone(p, q)'
<1> SUFFICES ASSUME NEW p \in Request, NEW q \in Request, p # q PROVE Alone(p, q)'
  OBVIOUS
<1>1. CASE p = r \/ q = r
  BY <1>1 DEF Apart
<1>2. CASE p # r /\ q # r
  <2>1. Alone(p, q) /\ Same(p) /\ Same(q)
    BY <1>2 DEF IInv
  <2> QED BY <2>1 DEF Alone, Same, Marks, IsVoid
<1> QED BY <1>1, <1>2

(* A step of r that commits nothing.                                        *)
LEMMA QuietStep ==
  ASSUME IInv, NEW r \in Request, \A q \in Request \ {r} : Same(q), Grown,
         UNCHANGED <<active, lots, cons, twice>>,
         Types', Local(r)', held'[r] \subseteq DOMAIN lots, Apart(r)'
  PROVE  IInv'
<1>1. LotsOfActiveEvents'
  BY DEF IInv, Types, LotsOfActiveEvents, Grown
<1>2. \A q \in Request : held'[q] \subseteq DOMAIN lots'
  BY OthersStay DEF IInv
<1>3. \A q \in Request : Local(q)'
  BY OthersStay
<1>4. \A p, q \in Request : p # q => Alone(p, q)'
  BY OthersAlone
<1> QED BY <1>1, <1>2, <1>3, <1>4 DEF IInv

(* A step of r that only goes on to the next statement.                     *)
LEMMA MoveStep ==
  ASSUME IInv, NEW r \in Request, NEW w \in InFlight \union Ended, Goto(r, w),
         UNCHANGED <<events, db, req, row, todo, held, wrote>>, Local(r)',
         req[r].op = "create" /\ w \in InTx => pc[r] \in InTx,
         IsVoid(r) /\ w \in InTx \ {"mark"} =>
            pc[r] \in InTx \ {"mark"} \/ \A q \in Request \ {r} : ~Marks(q, req[r].of)
  PROVE  IInv'
<1>1. pc' = [pc EXCEPT ![r] = w] /\ pc'[r] = w
  BY DEF Goto, IInv, Types
<1>2. Types'
  BY <1>1 DEF IInv, Types, db
<1>3. \A q \in Request \ {r} : Same(q)
  BY <1>1 DEF IInv, Types, Same
<1>4. Grown /\ UNCHANGED <<active, lots, cons, twice>> /\ held'[r] \subseteq DOMAIN lots
  BY DEF Grown, db, IInv
<1>5. Apart(r)'
  <2> SUFFICES ASSUME NEW q \in Request \ {r} PROVE Alone(r, q)' /\ Alone(q, r)'
    BY DEF Apart
  <2>1. Alone(r, q) /\ Alone(q, r) /\ Same(q)
    BY <1>3 DEF IInv
  <2> QED BY <1>1, <2>1 DEF Alone, Same, Marks, IsVoid
<1> QED BY <1>2, <1>3, <1>4, <1>5, QuietStep

(* A rollback keeps the invariant, and so do the steps below.               *)
LEMMA RollbackStep ==
  ASSUME IInv, NEW r \in Request, pc[r] \in InFlight, Rollback(r)
  PROVE  IInv'
<1>1. Types'
  <2>1. PICK S : wrote \in [Request -> [lots : S, cons : S, gone : S, uncons : S]]
    BY DEF IInv, Types
  <2> DEFINE T == S \union {<<>>, {}}
  <2>2. wrote' \in [Request -> [lots : T, cons : T, gone : T, uncons : T]]
    <3>1. Nothing \in [lots : T, cons : T, gone : T, uncons : T]
      BY DEF Nothing
    <3>2. wrote \in [Request -> [lots : T, cons : T, gone : T, uncons : T]]
      BY <2>1
    <3> QED BY <3>1, <3>2 DEF Rollback
  <2>3. pc' \in [Request -> InFlight \union Ended \union {"idle"}]
    BY DEF IInv, Types, Rollback, Goto, Ended
  <2>4. events' = events /\ active' = active /\ req' = req
    BY DEF Rollback, db
  <2>5. row' \in [Request -> 0..Len(events)]
    <3>1. 0 \in 0..Len(events)
      BY DEF IInv, Types
    <3> QED BY <3>1 DEF IInv, Types, Rollback
  <2>6. todo' \in [Request -> SUBSET DOMAIN events] /\ held' \in [Request -> SUBSET DOMAIN events]
    BY DEF IInv, Types, Rollback
  <2> QED BY <2>2, <2>3, <2>4, <2>5, <2>6 DEF IInv, Types
<1>2. \A q \in Request \ {r} : Same(q)
  BY DEF IInv, Types, Rollback, Goto, Same
<1>3. pc'[r] = "failed" /\ row'[r] = 0 /\ todo'[r] = {} /\ held'[r] = {} /\ req' = req
  BY DEF IInv, Types, Rollback, Goto
<1>4. req[r].op # "none"
  BY DEF IInv, Local, Place, InFlight, InTx
<1>5. Local(r)'
  BY <1>3, <1>4 DEF Local, Place, Creating, Voiding, InTx, Ending, Between, Ended, IsVoid
<1>6. Grown /\ UNCHANGED <<active, lots, cons, twice>>
  BY DEF Rollback, Grown, db
<1>7. Apart(r)'
  BY <1>2, <1>3, StayApart DEF InTx, Marks
<1>8. held'[r] \subseteq DOMAIN lots
  BY <1>3
<1> QED BY <1>1, <1>2, <1>5, <1>6, <1>7, <1>8, QuietStep

LEMMA ArriveStep ==
  ASSUME IInv, NEW r \in Request, NEW q \in Creates \union Voids \union {Advice}, Arrive(r, q)
  PROVE  IInv'
<1>1. Types'
  BY DEF IInv, Types, Arrive, Goto, db, InFlight, InTx
<1>2. \A p \in Request \ {r} : Same(p)
  BY DEF IInv, Types, Arrive, Goto, Same
<1>3. /\ pc[r] = "idle" /\ req'[r] = q
      /\ pc'[r] = CASE q.op = "advise" -> "cash"
                    [] q.event.type = "split" -> "total"
                    [] OTHER -> "begin"
      /\ row' = row /\ todo' = todo /\ held' = held /\ wrote' = wrote
  BY DEF IInv, Types, Arrive, Goto
<1>4. q.op \in {"create", "void", "advise"} /\ (q.op # "create" => q.event.type # "split")
  BY DEF Creates, Voids, Advice, NoEvent
<1>5. Place(r)
  BY DEF IInv, Local
<1>6. pc'[r] = IF q.op = "advise" THEN "cash"
               ELSE IF q.event.type = "split" THEN "total" ELSE "begin"
  BY <1>3, <1>4 DEF Advice, NoEvent
<1>7. Place(r)'
  BY <1>3, <1>4, <1>5, <1>6 DEF Place, IsVoid, Ending, Between
<1>8. Creating(r)' /\ Voiding(r)'
  BY <1>3, <1>4, <1>6 DEF Creating, Voiding, InTx, IsVoid
<1>9. Grown /\ UNCHANGED <<active, lots, cons, twice>>
  BY DEF Arrive, Grown, db
<1>10. pc'[r] \notin InTx \/ (pc'[r] = "cash" /\ q.op = "advise")
  <2>1. CASE q.op = "advise"
    BY <1>6, <2>1
  <2>2. CASE q.op # "advise"
    BY <1>6, <2>2 DEF InTx
  <2> QED BY <2>1, <2>2
<1>11. held'[r] = held[r] /\ row'[r] = row[r] /\ held'[r] \subseteq DOMAIN lots
  BY <1>3 DEF IInv
<1>12. Local(r)'
  BY <1>7, <1>8 DEF Local
<1>13. ~(req'[r].op = "create" /\ pc'[r] \in InTx) /\ ~Marks(r, req[r].of)'
  BY <1>3, <1>10 DEF Marks, IsVoid
<1>14. Apart(r)'
  BY <1>2, <1>11, <1>13, StayApart
<1> QED BY <1>1, <1>2, <1>9, <1>11, <1>12, <1>14, QuietStep

LEMMA InitIInv == Init => IInv
<1> SUFFICES ASSUME Init PROVE IInv
  OBVIOUS
<1>1. PICK p \in Past : /\ events = p.events /\ active = DOMAIN p.events
                        /\ lots = p.lots /\ cons = p.cons
  BY DEF Init
<1>2. events \in Seq(Event)
  BY <1>1, LedgerTxAssumption
<1>4. DOMAIN lots = {n \in active : Opens(events[n])}
  BY <1>1, LedgerTxAssumption
<1>5. \A n \in DOMAIN events : Stored(events[n])
  BY <1>2, EventStored
<1>6. Types
  <2>1. \E S : wrote \in [Request -> [lots : S, cons : S, gone : S, uncons : S]]
    <3>1. Nothing \in [lots : {<<>>, {}}, cons : {<<>>, {}}, gone : {<<>>, {}}, uncons : {<<>>, {}}]
      BY DEF Nothing
    <3> QED BY <3>1 DEF Init
  <2>2. active \subseteq DOMAIN events /\ row \in [Request -> 0..Len(events)]
    <3>1. 0 \in 0..Len(events)
      BY <1>2
    <3> QED BY <1>1, <3>1 DEF Init
  <2>3. /\ req \in [Request -> Creates \union Voids \union {Advice, Idle}]
        /\ pc \in [Request -> InFlight \union Ended \union {"idle"}]
        /\ todo \in [Request -> SUBSET DOMAIN events]
        /\ held \in [Request -> SUBSET DOMAIN events]
    BY DEF Init
  <2> QED BY <1>2, <1>5, <2>1, <2>2, <2>3 DEF Types
<1>7. LotsOfActiveEvents
  <2>1. \A c \in cons : c.event \in active /\ c.lot \in DOMAIN lots
    BY <1>1, LedgerTxAssumption
  <2> QED BY <1>4, <2>1 DEF Init, LotsOfActiveEvents
<1>8. \A r \in Request : Local(r)
  BY DEF Init, Local, Place, Creating, Voiding, Idle, IsVoid, InTx, Ending, Between
<1>9. \A r, q \in Request : r # q => Alone(r, q)
  BY DEF Init, Alone, Marks, IsVoid, Idle
<1>10. \A r \in Request : held[r] \subseteq DOMAIN lots
  BY DEF Init
<1> QED BY <1>6, <1>7, <1>8, <1>9, <1>10 DEF IInv

-----------------------------------------------------------------------------
(* The steps that only go on, or give up.                                   *)
LEMMA ReadTotalStep ==
  ASSUME IInv, NEW r \in Request, ReadTotal(r)
  PROVE  IInv'
<1>1. PICK w \in {"failed", "begin"} : Goto(r, w)
  BY DEF ReadTotal
<1>2. pc[r] = "total" /\ UNCHANGED <<events, db, req, row, todo, held, wrote>>
  BY DEF ReadTotal
<1>3. pc'[r] = w
  BY <1>1 DEF IInv, Types, Goto
<1>4. Local(r)'
  BY <1>2, <1>3 DEF IInv, Local, Place, Creating, Voiding, IsVoid, InTx, Ending, Between, Ended
<1>5. w \in InFlight \union Ended /\ w \notin InTx
  BY DEF InFlight, Ended, InTx
<1> QED BY <1>1, <1>2, <1>4, <1>5, MoveStep

LEMMA BeginVoidStep ==
  ASSUME IInv, NEW r \in Request, BeginVoid(r)
  PROVE  IInv'
<1>1. /\ pc[r] = "begin" /\ IsVoid(r) /\ Goto(r, "mark")
      /\ UNCHANGED <<events, db, req, row, todo, held, wrote>>
  BY DEF BeginVoid, local
<1>2. pc'[r] = "mark"
  BY <1>1 DEF IInv, Types, Goto
<1>3. Local(r)'
  BY <1>1, <1>2 DEF IInv, Local, Place, Creating, Voiding, IsVoid, InTx, Ending, Between, Ended, Nothing
<1>4. "mark" \in InFlight \union Ended /\ req[r].op # "create"
  BY <1>1 DEF InFlight, InTx, IsVoid
<1> QED BY <1>1, <1>3, <1>4, MoveStep

LEMMA MarkVoidedStep ==
  ASSUME IInv, NEW r \in Request, MarkVoided(r)
  PROVE  IInv'
<1>1. pc[r] = "mark" /\ IsVoid(r) /\ \A q \in Request \ {r} : ~Marks(q, req[r].of)
  BY DEF MarkVoided, IInv, Local, Place
<1>2. CASE req[r].of \notin active
  <2>1. Rollback(r)
    BY <1>2 DEF MarkVoided
  <2> QED BY <1>1, <2>1, RollbackStep DEF InFlight, InTx
<1>3. CASE req[r].of \in active
  <2>1. Goto(r, "uncons") /\ UNCHANGED <<events, db, req, row, todo, held, wrote>>
    BY <1>3 DEF MarkVoided, local
  <2>2. pc'[r] = "uncons"
    BY <2>1 DEF IInv, Types, Goto
  <2>3. wrote[r] = Nothing /\ active' = active
    BY <1>1, <2>1 DEF IInv, Local, Place, db
  <2>4. Local(r)'
    BY <1>1, <1>3, <2>1, <2>2, <2>3
       DEF IInv, Local, Place, Creating, Voiding, IsVoid, InTx, Ending, Between, Ended, Nothing
  <2>5. "uncons" \in InFlight \union Ended /\ req[r].op # "create"
    BY <1>1 DEF InFlight, InTx, IsVoid
  <2> QED BY <1>1, <2>1, <2>4, <2>5, MoveStep
<1> QED BY <1>2, <1>3

LEMMA RebuildLotsStep ==
  ASSUME IInv, NEW r \in Request, RebuildLots(r)
  PROVE  IInv'
<1>1. pc[r] = "replay" /\ IsVoid(r)
  BY DEF RebuildLots, IInv, Local, Place
<1>2. CASE \E n \in active \ {req[r].of} : TouchesLots(events[n])
  <2>1. Rollback(r)
    BY <1>2 DEF RebuildLots
  <2> QED BY <1>1, <2>1, RollbackStep DEF InFlight, InTx
<1>3. CASE ~\E n \in active \ {req[r].of} : TouchesLots(events[n])
  <2>1. Goto(r, "cash") /\ UNCHANGED <<events, db, req, row, todo, held, wrote>>
    BY <1>3 DEF RebuildLots, local
  <2>2. pc'[r] = "cash"
    BY <2>1 DEF IInv, Types, Goto
  <2>3. held[r] \subseteq {req[r].of}
    <3> SUFFICES ASSUME NEW l \in held[r], l # req[r].of PROVE FALSE
      OBVIOUS
    <3>1. l \in active /\ l \in DOMAIN events /\ Opens(events[l]) /\ Stored(events[l])
      BY DEF IInv, LotsOfActiveEvents, Types
    <3>2. TouchesLots(events[l])
      BY <3>1, OpeningTouches
    <3> QED BY <1>3, <3>1, <3>2
  <2>4. Place(r)'
    BY <1>1, <2>1, <2>2 DEF IInv, Local, Place, IsVoid, Ending, Between
  <2>5. Creating(r)'
    BY <1>1, <2>1 DEF Creating, IsVoid
  <2>6. Voiding(r)'
    BY <1>1, <2>1, <2>2, <2>3 DEF IInv, Local, Voiding, IsVoid, InTx, Ending, Between, db, Opened
  <2>7. "cash" \in InFlight \union Ended /\ req[r].op # "create"
    BY <1>1 DEF InFlight, InTx, IsVoid
  <2> QED BY <1>1, <2>1, <2>4, <2>5, <2>6, <2>7, MoveStep DEF Local, InTx
<1> QED BY <1>2, <1>3

(* Once it has its lots, a request reads its portfolios.                    *)
LEMMA ReadingStep ==
  ASSUME IInv, NEW r \in Request, ReadCash(r) \/ ReadPositions(r) \/ StoreRun(r)
  PROVE  IInv'
<1>1. /\ pc[r] \in Ending
      /\ UNCHANGED <<events, db, req, row, todo, held, wrote>>
  BY DEF ReadCash, ReadPositions, StoreRun, Ending, Between, local
<1>2. PICK w \in Ending \union {"done"} : Goto(r, w) /\ (w = "done" => req[r].op = "advise")
  BY DEF ReadCash, ReadPositions, StoreRun, Ending, Between
<1>3. pc'[r] = w
  BY <1>2 DEF IInv, Types, Goto
<1>4. Place(r)'
  <2>1. Place(r) /\ pc[r] \notin {"idle", "lock", "relock"} /\ w \notin {"idle", "lock", "relock"}
    BY <1>1, <1>2 DEF IInv, Local, Ending, Between
  <2>2. req[r].op # "none" /\ todo[r] = {}
    BY <2>1 DEF Place
  <2>3. CASE w \in Ending
    BY <1>1, <1>3, <2>1, <2>2, <2>3 DEF Place, IsVoid, Ending, Between, Ended
  <2>4. CASE w = "done"
    BY <1>1, <1>2, <1>3, <2>1, <2>2, <2>4 DEF Place, IsVoid, Ending, Between, Ended
  <2> QED BY <1>2, <2>3, <2>4
<1>5. Creating(r)'
  BY <1>1, <1>2, <1>3 DEF IInv, Local, Creating, Own, Ending, Between, InTx, db, Before
<1>6. Voiding(r)'
  BY <1>1, <1>2, <1>3 DEF IInv, Local, Voiding, IsVoid, InTx, Ending, Between, db, Opened
<1>7. w \in InFlight \union Ended /\ pc[r] \in InTx \ {"mark"}
  BY <1>1, <1>2 DEF InFlight, InTx, Ended, Ending, Between
<1> QED BY <1>1, <1>2, <1>4, <1>5, <1>6, <1>7, MoveStep DEF Local

-----------------------------------------------------------------------------
(* The steps that lock lots or note what will be written.                   *)

LEMMA ConsumptionsStep ==
  ASSUME IInv, NEW r \in Request, SelectConsumptions(r) \/ DeleteConsumptions(r)
  PROVE  IInv'
<1>1. /\ pc[r] \in {"uncons", "unconsume"} /\ IsVoid(r)
      /\ UNCHANGED <<events, db, req, row, todo, held>>
  BY DEF SelectConsumptions, DeleteConsumptions, IInv, Local, Place
<1>2. PICK w \in {"unconsume", "delete"} : Goto(r, w)
  BY DEF SelectConsumptions, DeleteConsumptions
<1>3. pc'[r] = w /\ pc' = [pc EXCEPT ![r] = w]
  BY <1>2 DEF IInv, Types, Goto
<1>4. PICK u : wrote' = [wrote EXCEPT ![r].uncons = u]
  BY DEF SelectConsumptions, DeleteConsumptions
<1>5. PICK S : wrote \in [Request -> [lots : S, cons : S, gone : S, uncons : S]]
  BY DEF IInv, Types
<1>6. /\ wrote'[r].lots = wrote[r].lots /\ wrote'[r].cons = wrote[r].cons
      /\ wrote'[r].uncons = u
      /\ \A q \in Request \ {r} : wrote'[q] = wrote[q]
  BY <1>4, <1>5
<1>7. \A c \in cons : c.event = req[r].of => c \in u
  <2>1. CASE SelectConsumptions(r)
    BY <1>5, <1>6, <2>1 DEF SelectConsumptions
  <2>2. CASE DeleteConsumptions(r)
    <3>1. u = wrote[r].uncons \intersect cons /\ pc[r] = "unconsume"
      BY <1>5, <1>6, <2>2 DEF DeleteConsumptions
    <3> QED BY <1>1, <3>1 DEF IInv, Local, Voiding, InTx
  <2> QED BY <2>1, <2>2
<1>8. Types'
  <2> DEFINE T == S \union {u}
  <2>1. wrote' \in [Request -> [lots : T, cons : T, gone : T, uncons : T]]
    BY <1>4, <1>5
  <2>2. w \in InFlight
    BY DEF InFlight, InTx
  <2> QED BY <1>1, <1>3, <2>1, <2>2 DEF IInv, Types, db
<1>9. \A q \in Request \ {r} : Same(q)
  BY <1>1, <1>3, <1>6 DEF Same, IInv, Types
<1>10. Place(r)'
  BY <1>1, <1>3 DEF IInv, Local, Place, IsVoid, Ending, Between, Ended
<1>11. Creating(r)'
  BY <1>1 DEF Creating, IsVoid
<1>12. Voiding(r)'
  BY <1>1, <1>3, <1>6, <1>7 DEF IInv, Local, Voiding, IsVoid, InTx, Ending, Between, db, Opened
<1>13. Apart(r)'
  BY <1>1, <1>3, <1>9, StayApart DEF InTx, Marks, IsVoid
<1>14. Grown /\ UNCHANGED <<active, lots, cons, twice>> /\ held'[r] \subseteq DOMAIN lots
  BY <1>1 DEF Grown, db, IInv
<1> QED BY <1>8, <1>9, <1>10, <1>11, <1>12, <1>13, <1>14, QuietStep DEF Local

LEMMA SelectLotsStep ==
  ASSUME IInv, NEW r \in Request, SelectLots(r)
  PROVE  IInv'
<1> DEFINE to == IF pc[r] = "reselect" THEN "relock" ELSE "lock"
<1>1. /\ pc[r] \in {"delete", "select", "reselect"}
      /\ UNCHANGED <<events, db, req, row, held, wrote>>
      /\ req[r].op \in {"create", "void"}
  BY DEF SelectLots, IInv, Local, Place, IsVoid, Between
<1>2. pc'[r] = to /\ pc' = [pc EXCEPT ![r] = to]
  BY DEF SelectLots, IInv, Types, Goto
<1>3. todo'[r] \subseteq DOMAIN lots /\ (IsVoid(r) => todo'[r] = DOMAIN lots)
  BY DEF SelectLots, IInv, Types, OpenLots
<1>4. DOMAIN lots \subseteq DOMAIN events
  BY DEF IInv, Types, LotsOfActiveEvents
<1>5. Types'
  <2>1. todo' \in [Request -> SUBSET DOMAIN events]
    BY <1>3, <1>4 DEF SelectLots, IInv, Types
  <2>2. pc' \in [Request -> InFlight \union Ended \union {"idle"}]
    BY <1>2 DEF IInv, Types, InFlight, InTx
  <2> QED BY <1>1, <2>1, <2>2 DEF IInv, Types, db
<1>6. \A q \in Request \ {r} : Same(q)
  BY <1>1, <1>2 DEF SelectLots, Same, IInv, Types
<1>7. Place(r)'
  BY <1>1, <1>2 DEF IInv, Local, Place, IsVoid, Ending, Between, Ended
<1>8. Creating(r)'
  <2>1. pc[r] # "reselect" => held[r] = {}
    BY <1>1 DEF IInv, Local, Place, Ending, Between
  <2>2. req[r].op = "create" => pc[r] # "delete"
    BY <1>1 DEF IInv, Local, Place, IsVoid
  <2> QED BY <1>1, <1>2, <2>1, <2>2 DEF IInv, Local, Creating, Own, Ending, Between, InTx, db
<1>9. Voiding(r)'
  <2>1. IsVoid(r) => req[r].of \in active
    BY <1>1 DEF IInv, Local, Place, Voiding, IsVoid, InTx, Between
  <2>2. IsVoid(r) /\ Opened(r) => req[r].of \in todo'[r]
    BY <1>3, <2>1 DEF IInv, LotsOfActiveEvents, Opened
  <2>3. IsVoid(r) => pc[r] = "delete"
    BY <1>1 DEF IInv, Local, Place, IsVoid, Between
  <2> QED BY <1>1, <1>2, <2>1, <2>2, <2>3
          DEF IInv, Local, Voiding, IsVoid, InTx, Ending, db, Opened
<1>10. Apart(r)'
  BY <1>1, <1>2, <1>6, StayApart DEF InTx, Marks, IsVoid
<1>11. Grown /\ UNCHANGED <<active, lots, cons, twice>> /\ held'[r] \subseteq DOMAIN lots
  BY <1>1 DEF Grown, db, IInv
<1> QED BY <1>5, <1>6, <1>7, <1>8, <1>9, <1>10, <1>11, QuietStep DEF Local

LEMMA LockRowStep ==
  ASSUME IInv, NEW r \in Request, NEW l \in todo[r], LockRow(r, l)
  PROVE  IInv'
<1>1. /\ pc[r] \in {"lock", "relock"} /\ l \in NextRows(r)
      /\ \A q \in Request \ {r} : l \notin held[q]
      /\ UNCHANGED <<events, db, pc, req, row, wrote>>
  BY DEF LockRow
<1>2. /\ todo'[r] = todo[r] \ {l} /\ held'[r] \subseteq held[r] \union {l}
      /\ held[r] \subseteq held'[r] /\ held'[r] \subseteq DOMAIN lots
      /\ IsVoid(r) /\ l \in DOMAIN lots => l \in held'[r]
  BY DEF LockRow, IInv, Types
<1>3. Types'
  <2>1. todo' \in [Request -> SUBSET DOMAIN events] /\ held' \in [Request -> SUBSET DOMAIN events]
    BY DEF LockRow, IInv, Types
  <2> QED BY <1>1, <2>1 DEF IInv, Types, db
<1>4. \A q \in Request \ {r} : Same(q)
  BY <1>1 DEF LockRow, Same, IInv, Types
<1>5. Place(r)'
  BY <1>1 DEF IInv, Local, Place, IsVoid, Ending, Between, Ended
<1>6. Creating(r)'
  <2> SUFFICES ASSUME req[r].op = "create" PROVE Creating(r)'
    BY <1>1 DEF Creating
  <2>1. Creating(r) /\ \A k \in todo[r] \ {l} : Before(events, l, k)
    BY <1>1 DEF IInv, Local, NextRows, IsVoid
  <2>2. pc[r] = "lock" => \A h \in held'[r], k \in todo'[r] : Before(events, h, k)
    BY <1>1, <1>2, <2>1 DEF Creating, InTx
  <2>3. pc[r] = "relock" =>
          /\ DOMAIN wrote[r].lots \subseteq held'[r] \union Own(r)
          /\ \A c \in wrote[r].cons : c.event = row[r] /\ c.lot \in held'[r]
    BY <1>2, <2>1 DEF Creating, InTx, Between
  <2> QED BY <1>1, <2>1, <2>2, <2>3 DEF Creating, Own, Ending, Between, InTx, db, Before
<1>7. Voiding(r)'
  <2> SUFFICES ASSUME IsVoid(r) PROVE Voiding(r)'
    BY <1>1 DEF Voiding, IsVoid
  <2>1. Voiding(r) /\ req[r].of \in active /\ pc[r] = "lock"
    BY <1>1 DEF IInv, Local, Place, Voiding, InTx, Between, IsVoid
  <2>2. Opened(r) => req[r].of \in todo'[r] \union held'[r]
    <3>1. Opened(r) => req[r].of \in DOMAIN lots
      BY <2>1 DEF IInv, LotsOfActiveEvents, Opened
    <3> QED BY <1>1, <1>2, <2>1, <3>1 DEF Voiding, InTx
  <2> QED BY <1>1, <2>1, <2>2 DEF Voiding, IsVoid, InTx, Ending, Between, db, Opened
<1>8. Apart(r)'
  <2> SUFFICES ASSUME NEW q \in Request \ {r} PROVE Alone(r, q)' /\ Alone(q, r)'
    BY DEF Apart
  <2>1. Alone(r, q) /\ Alone(q, r) /\ l \notin held[q]
    BY <1>1 DEF IInv
  <2> QED BY <1>1, <1>2, <1>4, <2>1 DEF Alone, Same, Marks, IsVoid
<1>9. Grown /\ UNCHANGED <<active, lots, cons, twice>>
  BY <1>1 DEF Grown, db
<1> QED BY <1>2, <1>3, <1>4, <1>5, <1>6, <1>7, <1>8, <1>9, QuietStep DEF Local

(* What a request that is under way and is no void asks for.                *)
LEMMA CreateInput ==
  ASSUME IInv, NEW r \in Request, pc[r] \in {"begin", "lock", "relock"}, ~IsVoid(r)
  PROVE  req[r].op = "create" /\ req[r].event \in Inputs
<1>1. req[r] \in Creates \union Voids \union {Advice, Idle}
  BY DEF IInv, Types
<1>2. req[r].op # "none" /\ req[r].op # "advise"
  BY DEF IInv, Local, Place, Ending, Between, Ended
<1>3. req[r] \in Creates
  <2>1. CASE req[r] \in Voids
    BY <2>1 DEF Voids, IsVoid
  <2>2. CASE req[r] \in {Advice, Idle}
    BY <1>2, <2>2 DEF Advice, Idle
  <2> QED BY <1>1, <2>1, <2>2
<1> QED BY <1>3 DEF Creates

LEMMA ApplyToLotsStep ==
  ASSUME IInv, NEW r \in Request, ApplyToLots(r)
  PROVE  IInv'
<1> DEFINE e == events[row[r]]
           b == ApplyEventToLots([EmptyBook EXCEPT !.lots = Restrict(lots, held[r])],
                                row[r], SharesOf(e))
           to == IF Recosts(e) THEN "reselect" ELSE "cash"
<1>1. pc[r] = "lock" /\ todo[r] = {} /\ ~IsVoid(r)
  BY DEF ApplyToLots
<1>2. req[r].op = "create"
  BY <1>1, CreateInput
<1>3. Creating(r) /\ row[r] \in DOMAIN events /\ Locks(e) /\ Stored(e) /\ Own(r) = {}
  <2>1. Creating(r) /\ row[r] \in DOMAIN events /\ Locks(e)
    BY <1>1, <1>2 DEF IInv, Local, Creating, InTx
  <2> QED BY <2>1 DEF IInv, Types, Own, Locks
<1>4. DOMAIN b.lots = held[r] /\ \A c \in b.cons : c.event = row[r] /\ c.lot \in held[r]
  <2>1. DOMAIN Restrict(lots, held[r]) = held[r]
    BY DEF Restrict
  <2> HIDE DEF e
  <2> QED BY <1>3, <2>1, LockersKeepLots
<1>5. CASE b.err # "ok"
  <2>1. Rollback(r)
    BY <1>5 DEF ApplyToLots
  <2> QED BY <1>1, <2>1, RollbackStep DEF InFlight, InTx
<1>6. CASE b.err = "ok"
  <2>1. /\ wrote' = [wrote EXCEPT ![r].lots = b.lots, ![r].cons = b.cons]
        /\ pc' = [pc EXCEPT ![r] = to]
        /\ UNCHANGED <<events, db, req, row, todo, held>>
    BY <1>6 DEF ApplyToLots, Goto
  <2>2. PICK S : wrote \in [Request -> [lots : S, cons : S, gone : S, uncons : S]]
    BY DEF IInv, Types
  <2> DEFINE ls == b.lots
             cs == b.cons
             T == S \union {ls, cs}
  <2> HIDE DEF b
  <2>3. /\ wrote'[r].lots = ls /\ wrote'[r].cons = cs
        /\ wrote'[r].gone = wrote[r].gone /\ wrote'[r].uncons = wrote[r].uncons
        /\ \A q \in Request \ {r} : wrote'[q] = wrote[q]
    BY <2>1, <2>2
  <2>4. wrote' \in [Request -> [lots : T, cons : T, gone : T, uncons : T]]
    BY <2>1, <2>2
  <2>5. pc'[r] = to /\ \A q \in Request \ {r} : pc'[q] = pc[q]
    BY <2>1 DEF IInv, Types
  <2>6. Types'
    BY <2>1, <2>4 DEF IInv, Types, db, InFlight, InTx
  <2>7. \A q \in Request \ {r} : Same(q)
    BY <2>1, <2>3, <2>5 DEF Same
  <2>8. Place(r)'
    BY <1>1, <1>2, <2>1, <2>5 DEF IInv, Local, Place, IsVoid, Ending, Between, Ended
  <2>9. Creating(r)'
    <3>1. row'[r] = row[r] /\ held'[r] = held[r] /\ events' = events /\ active' = active
          /\ Own(r)' = Own(r) /\ req' = req
      BY <2>1 DEF db, Own
    <3>2. DOMAIN ls = held[r] \union Own(r) /\ \A c \in cs : c.event = row[r] /\ c.lot \in held[r]
      BY <1>3, <1>4
    <3> QED BY <1>1, <1>2, <1>3, <2>3, <2>5, <3>1, <3>2 DEF Creating, Ending, Between, InTx
  <2>10. Voiding(r)'
    BY <1>2, <2>1 DEF Voiding, IsVoid
  <2>11. Apart(r)'
    BY <1>1, <1>2, <2>1, <2>5, <2>7, StayApart DEF InTx, Marks, IsVoid
  <2>12. Grown /\ UNCHANGED <<active, lots, cons, twice>> /\ held'[r] \subseteq DOMAIN lots
    BY <2>1 DEF Grown, db, IInv
  <2> QED BY <2>6, <2>7, <2>8, <2>9, <2>10, <2>11, <2>12, QuietStep DEF Local
<1> QED BY <1>5, <1>6

(* What is written when the cost is applied: the lots held, and its own.    *)
LEMMA ApplyCostStep ==
  ASSUME IInv, NEW r \in Request, ApplyCost(r)
  PROVE  IInv'
<1> DEFINE e == events[row[r]]
           old == [EmptyBook EXCEPT !.lots = Written(Restrict(lots, held[r]), wrote[r])]
           ls == DeductAdjustedCostProRata(old, e.asset, -e.costDelta).lots
<1>1. pc[r] = "relock" /\ todo[r] = {} /\ req[r].op = "create"
  BY DEF ApplyCost, IInv, Local, Place, Between
<1>2. /\ Creating(r) /\ wrote[r].gone = {} /\ row[r] \in DOMAIN events \ active
      /\ Own(r) \subseteq DOMAIN wrote[r].lots /\ DOMAIN wrote[r].lots \subseteq held[r] \union Own(r)
      /\ \A c \in wrote[r].cons : c.event = row[r] /\ c.lot \in held[r]
  BY <1>1 DEF IInv, Local, Creating, InTx, Between
<1>3. DOMAIN ls = held[r] \union Own(r)
  <2>1. DOMAIN old.lots = held[r] \union DOMAIN wrote[r].lots
    BY <1>2 DEF Written, Restrict, EmptyBook
  <2>2. old = [lots |-> old.lots, cons |-> old.cons, err |-> old.err]
    BY BookOn
  <2> HIDE DEF old
  <2> QED BY <1>2, <2>1, <2>2, DeductKeeps DEF SameRows
<1>4. /\ wrote' = [wrote EXCEPT ![r].lots = ls] /\ pc' = [pc EXCEPT ![r] = "cash"]
      /\ UNCHANGED <<events, db, req, row, todo, held>>
  BY DEF ApplyCost, Goto
<1> HIDE DEF ls
<1>5. PICK S : wrote \in [Request -> [lots : S, cons : S, gone : S, uncons : S]]
  BY DEF IInv, Types
<1> DEFINE T == S \union {ls}
<1>6. /\ wrote'[r].lots = ls /\ wrote'[r].cons = wrote[r].cons
      /\ wrote'[r].gone = wrote[r].gone /\ wrote'[r].uncons = wrote[r].uncons
      /\ \A q \in Request \ {r} : wrote'[q] = wrote[q]
  BY <1>4, <1>5
<1>7. wrote' \in [Request -> [lots : T, cons : T, gone : T, uncons : T]]
  BY <1>4, <1>5
<1>8. pc'[r] = "cash" /\ \A q \in Request \ {r} : pc'[q] = pc[q]
  BY <1>4 DEF IInv, Types
<1>9. Types'
  BY <1>4, <1>7 DEF IInv, Types, db, InFlight, InTx
<1>10. \A q \in Request \ {r} : Same(q)
  BY <1>4, <1>6, <1>8 DEF Same
<1>11. Place(r)'
  BY <1>1, <1>4, <1>8 DEF IInv, Local, Place, IsVoid, Ending, Between, Ended
<1>12. Creating(r)'
  <2>1. row'[r] = row[r] /\ held'[r] = held[r] /\ events' = events /\ active' = active
        /\ Own(r)' = Own(r) /\ req' = req
    BY <1>4 DEF db, Own
  <2> QED BY <1>1, <1>2, <1>3, <1>6, <1>8, <2>1 DEF Creating, Ending, Between, InTx
<1>13. Voiding(r)'
  BY <1>1, <1>4 DEF Voiding, IsVoid
<1>14. Apart(r)'
  BY <1>1, <1>4, <1>8, <1>10, StayApart DEF InTx, Marks, IsVoid
<1>15. Grown /\ UNCHANGED <<active, lots, cons, twice>> /\ held'[r] \subseteq DOMAIN lots
  BY <1>4 DEF Grown, db, IInv
<1> QED BY <1>9, <1>10, <1>11, <1>12, <1>13, <1>14, <1>15, QuietStep DEF Local

LEMMA DeleteLotsStep ==
  ASSUME IInv, NEW r \in Request, DeleteLots(r)
  PROVE  IInv'
<1>1. pc[r] = "lock" /\ todo[r] = {} /\ IsVoid(r)
  BY DEF DeleteLots
<1>2. CASE \E c \in cons \ wrote[r].uncons : c.lot \in held[r]
  <2>1. Rollback(r)
    BY <1>2 DEF DeleteLots
  <2> QED BY <1>1, <2>1, RollbackStep DEF InFlight, InTx
<1>3. CASE ~\E c \in cons \ wrote[r].uncons : c.lot \in held[r]
  <2>1. /\ wrote' = [wrote EXCEPT ![r].gone = held[r]]
        /\ pc' = [pc EXCEPT ![r] = "replay"]
        /\ UNCHANGED <<events, db, req, row, todo, held>>
    BY <1>3 DEF DeleteLots, Goto
  <2>2. PICK S : wrote \in [Request -> [lots : S, cons : S, gone : S, uncons : S]]
    BY DEF IInv, Types
  <2> DEFINE T == S \union {held[r]}
  <2>3. /\ wrote'[r].lots = wrote[r].lots /\ wrote'[r].cons = wrote[r].cons
        /\ wrote'[r].gone = held[r] /\ wrote'[r].uncons = wrote[r].uncons
        /\ \A q \in Request \ {r} : wrote'[q] = wrote[q]
    BY <2>1, <2>2
  <2>4. wrote' \in [Request -> [lots : T, cons : T, gone : T, uncons : T]]
    BY <2>1, <2>2
  <2>5. pc'[r] = "replay" /\ \A q \in Request \ {r} : pc'[q] = pc[q]
    BY <2>1 DEF IInv, Types
  <2>6. Types'
    BY <2>1, <2>4 DEF IInv, Types, db, InFlight, InTx
  <2>7. \A q \in Request \ {r} : Same(q)
    BY <2>1, <2>3, <2>5 DEF Same
  <2>8. Place(r)'
    BY <1>1, <2>1, <2>5 DEF IInv, Local, Place, IsVoid, Ending, Between, Ended
  <2>9. Creating(r)'
    BY <1>1, <2>1 DEF Creating, IsVoid
  <2>10. Voiding(r)'
    BY <1>1, <1>3, <2>1, <2>3, <2>5 DEF IInv, Local, Voiding, IsVoid, InTx, Ending, Between, db, Opened
  <2>11. Apart(r)'
    BY <1>1, <2>1, <2>5, <2>7, StayApart DEF InTx, Marks, IsVoid
  <2>12. Grown /\ UNCHANGED <<active, lots, cons, twice>> /\ held'[r] \subseteq DOMAIN lots
    BY <2>1 DEF Grown, db, IInv
  <2> QED BY <2>6, <2>7, <2>8, <2>9, <2>10, <2>11, <2>12, QuietStep DEF Local
<1> QED BY <1>2, <1>3

(* What a create stores is the input but for its quantity and its cash.     *)
LEMMA PreparedStored ==
  ASSUME NEW r \in Request, req[r].event \in Inputs
  PROVE  /\ Stored(Prepared(r)) /\ Prepared(r).type = req[r].event.type
         /\ Prepared(r) = [req[r].event EXCEPT !.qty = Prepared(r).qty, !.cash = Prepared(r).cash]
<1> DEFINE i == req[r].event
           q == CASE i.type \in {"sell", "capital_reduction"} -> -i.qty
                  [] i.type = "split" -> (total[r] * i.ratio[1]) \div i.ratio[2] - total[r]
                  [] OTHER -> i.qty
           c == IF i.type \in {"stock_dividend", "split"} THEN 0 ELSE i.cash
<1>1. i \in Event /\ (i.type = "adjustment" => q = i.qty /\ i.qty \in Int)
  <2>1. i \in Event
    BY LedgerTxAssumption
  <2> QED BY <2>1, EventFields
<1>2. Prepared(r) = [i EXCEPT !.qty = q, !.cash = c]
  BY DEF Prepared
<1> HIDE DEF q, c, i
<1>3. Prepared(r).qty = q /\ Prepared(r).cash = c
  BY <1>1, <1>2 DEF Event
<1> QED BY <1>1, <1>2, <1>3 DEF Event, Stored, i

(* A new event is behind all others, so that nobody else has it.            *)
LEMMA BeginCreateStep ==
  ASSUME IInv, NEW r \in Request, BeginCreate(r)
  PROVE  IInv'
<1> DEFINE n == Len(events) + 1
           e == Prepared(r)
           ls == IF Opens(e) THEN ApplyEventToLots(EmptyBook, n, SharesOf(e)).lots
                             ELSE wrote[r].lots
           to == IF Locks(e) THEN "select" ELSE IF Recosts(e) THEN "reselect" ELSE "cash"
<1>1. /\ pc[r] = "begin" /\ ~IsVoid(r)
      /\ events' = Append(events, e) /\ row' = [row EXCEPT ![r] = n]
      /\ wrote' = [wrote EXCEPT ![r].lots = ls] /\ pc' = [pc EXCEPT ![r] = to]
      /\ UNCHANGED <<db, req, todo, held>>
  BY DEF BeginCreate, Goto
<1>2. req[r].op = "create" /\ req[r].event \in Inputs
  BY <1>1, CreateInput
<1>3. Stored(e)
  BY <1>2, PreparedStored
<1>4. Opens(e) => DOMAIN ls = {n}
  BY <1>3, OpensLot
<1> HIDE DEF ls, e
<1>5. PICK S : events \in Seq(S)
  BY DEF IInv, Types
<1>6. /\ Len(events) \in Nat /\ DOMAIN events = 1..Len(events)
      /\ DOMAIN events' = 1..n /\ Len(events') = n
      /\ events'[n] = e /\ \A k \in DOMAIN events : events'[k] = events[k]
      /\ events' \in Seq(S \union {e})
  BY <1>1, <1>5
<1>7. n \notin DOMAIN events /\ DOMAIN events \subseteq DOMAIN events'
  BY <1>6
<1>8. PICK U : wrote \in [Request -> [lots : U, cons : U, gone : U, uncons : U]]
  BY DEF IInv, Types
<1>9. /\ wrote'[r].lots = ls /\ wrote'[r].cons = wrote[r].cons
      /\ wrote'[r].gone = wrote[r].gone /\ wrote'[r].uncons = wrote[r].uncons
      /\ \A q \in Request \ {r} : wrote'[q] = wrote[q]
  BY <1>1, <1>8
<1>10. to \in {"cash", "select", "reselect"} /\ pc'[r] = to /\ \A q \in Request \ {r} : pc'[q] = pc[q]
  BY <1>1 DEF IInv, Types
<1>11. row'[r] = n /\ \A q \in Request \ {r} : row'[q] = row[q]
  BY <1>1 DEF IInv, Types
<1>12. Types'
  <2> DEFINE T == U \union {ls}
  <2>1. wrote' \in [Request -> [lots : T, cons : T, gone : T, uncons : T]]
    BY <1>1, <1>8
  <2>2. pc' \in [Request -> InFlight \union Ended \union {"idle"}]
    BY <1>1, <1>10 DEF IInv, Types, InFlight, InTx
  <2>3. row' \in [Request -> 0..Len(events')]
    BY <1>1, <1>6 DEF IInv, Types
  <2>4. \A k \in DOMAIN events' : Stored(events'[k])
    <3> SUFFICES ASSUME NEW k \in DOMAIN events' PROVE Stored(events'[k])
      OBVIOUS
    <3>1. CASE k = n
      BY <1>3, <1>6, <3>1
    <3>2. CASE k # n
      <4>1. k \in DOMAIN events
        BY <1>6, <3>2
      <4> QED BY <1>6, <4>1 DEF IInv, Types
    <3> QED BY <3>1, <3>2
  <2>5. active' \subseteq DOMAIN events' /\ req' = req /\ todo' = todo /\ held' = held
    BY <1>1, <1>7 DEF IInv, Types, db
  <2>6. /\ todo' \in [Request -> SUBSET DOMAIN events']
        /\ held' \in [Request -> SUBSET DOMAIN events']
    BY <1>7, <2>5 DEF IInv, Types
  <2> QED BY <1>6, <2>1, <2>2, <2>3, <2>4, <2>5, <2>6 DEF IInv, Types
<1>13. \A q \in Request \ {r} : Same(q)
  BY <1>1, <1>9, <1>10, <1>11 DEF Same
<1>14. wrote[r] = Nothing /\ held[r] = {} /\ active' = active
  BY <1>1 DEF IInv, Local, Place, Ending, Between, db
<1>15. Place(r)'
  BY <1>1, <1>2, <1>3, <1>10 DEF IInv, Local, Place, IsVoid, Ending, Between, Ended
<1>16. Creating(r)'
  <2>1. row'[r] \in DOMAIN events' \ active' /\ events'[row'[r]] = e
    BY <1>6, <1>7, <1>11, <1>14 DEF IInv, Types
  <2>2. DOMAIN wrote'[r].lots = Own(r)' /\ held'[r] = {} /\ wrote'[r].cons = {}
    <3>1. Own(r)' = IF Opens(e) THEN {n} ELSE {}
      BY <1>11, <2>1 DEF Own
    <3>2. ~Opens(e) => ls = <<>>
      BY <1>14 DEF ls, Nothing
    <3> QED BY <1>1, <1>4, <1>9, <1>14, <3>1, <3>2 DEF Nothing
  <2>3. /\ pc'[r] = "select" => Locks(e)
        /\ pc'[r] = "reselect" => Recosts(e)
        /\ pc'[r] \notin {"lock", "relock"}
    BY <1>10
  <2>4. wrote'[r].gone = {} /\ wrote'[r].uncons = {}
    BY <1>9, <1>14 DEF Nothing
  <2> HIDE DEF to
  <2> QED BY <1>10, <2>1, <2>2, <2>3, <2>4 DEF Creating, Between
<1>17. Voiding(r)'
  BY <1>1, <1>2 DEF Voiding, IsVoid
<1>18. Apart(r)'
  <2> SUFFICES ASSUME NEW q \in Request \ {r} PROVE Alone(r, q)' /\ Alone(q, r)'
    BY DEF Apart
  <2>1. Alone(r, q) /\ Alone(q, r) /\ Same(q) /\ row[q] \in 0..Len(events)
    BY <1>13 DEF IInv, Types
  <2>2. row'[q] # row'[r]
    BY <1>6, <1>11, <2>1 DEF Same
  <2> QED BY <1>1, <1>2, <1>14, <2>1, <2>2 DEF Alone, Same, Marks, IsVoid
<1>19. Grown /\ UNCHANGED <<active, lots, cons, twice>> /\ held'[r] \subseteq DOMAIN lots
  BY <1>1, <1>6, <1>7 DEF Grown, db, IInv
<1> QED BY <1>12, <1>13, <1>15, <1>16, <1>17, <1>18, <1>19, QuietStep DEF Local

-----------------------------------------------------------------------------
(* What a commit does to the tables: a create adds its event and changes    *)
(* its own lot and lots it has locked, a void takes its event with the lot  *)
(* of it.                                                                   *)
CommitsCreate(r) ==
    /\ active' = active \union {row[r]}
    /\ row[r] \in DOMAIN events \ active
    /\ DOMAIN lots' = DOMAIN lots \union Own(r)
    /\ \A c \in cons' \ cons : c.event = row[r] /\ c.lot \in held[r]

(* What the commit of a void does to the tables.                            *)
CommitsVoid(r) ==
    /\ active' = active \ {req[r].of} /\ req[r].of \in active
    /\ DOMAIN lots' = DOMAIN lots \ held[r]
    /\ held[r] = IF Opened(r) THEN {req[r].of} ELSE {}
    /\ cons' \subseteq cons
    /\ \A c \in cons' : c.event # req[r].of /\ c.lot \notin held[r]

(* A commit is one of the two.                                              *)
LEMMA CommitTables ==
  ASSUME IInv, NEW r \in Request, Commit(r)
  PROVE  /\ twice' = {}
         /\ \/ req[r].op = "create" /\ CommitsCreate(r)
            \/ IsVoid(r) /\ CommitsVoid(r)
<1>1. /\ pc[r] = "commit" /\ req[r].op # "advise"
      /\ active' = ActiveSeen(r) /\ lots' = Written(lots, wrote[r])
      /\ cons' = (cons \ wrote[r].uncons) \union wrote[r].cons
      /\ twice' = twice \union
           ((DOMAIN wrote[r].lots \ held[r]) \intersect (DOMAIN lots \ wrote[r].gone))
  BY DEF Commit
<1>2. req[r].op = "create" \/ IsVoid(r)
  <2>1. req[r] \in Creates \union Voids \union {Advice, Idle}
    BY DEF IInv, Types
  <2>2. req[r].op # "none"
    BY <1>1 DEF IInv, Local, Place
  <2>3. req[r].op \in {"create", "void", "advise", "none"}
    BY <2>1 DEF Creates, Voids, Advice, Idle
  <2> QED BY <1>1, <2>2, <2>3 DEF IsVoid
<1>3. DOMAIN lots' = (DOMAIN lots \ wrote[r].gone) \union DOMAIN wrote[r].lots
  BY <1>1 DEF Written
<1>4. /\ twice = {} /\ held[r] \subseteq DOMAIN lots
      /\ DOMAIN lots = {n \in active : Opens(events[n])}
  BY DEF IInv, LotsOfActiveEvents
<1>5. CASE req[r].op = "create"
  <2>1. /\ row[r] \in DOMAIN events \ active /\ wrote[r].gone = {} /\ wrote[r].uncons = {}
        /\ DOMAIN wrote[r].lots = held[r] \union Own(r)
        /\ \A c \in wrote[r].cons : c.event = row[r] /\ c.lot \in held[r]
    BY <1>1, <1>5 DEF IInv, Local, Creating, InTx, Ending
  <2>2. active' = active \union {row[r]}
    <3>1. row[r] # 0
      BY <2>1 DEF IInv, Types
    <3> QED BY <1>1, <1>5, <3>1 DEF ActiveSeen, IsVoid
  <2>3. DOMAIN lots' = DOMAIN lots \union Own(r)
    BY <1>3, <1>4, <2>1
  <2>4. \A c \in cons' \ cons : c.event = row[r] /\ c.lot \in held[r]
    BY <1>1, <2>1
  <2>5. twice' = {}
    BY <1>1, <1>4, <2>1 DEF Own
  <2> QED BY <1>5, <2>1, <2>2, <2>3, <2>4, <2>5 DEF CommitsCreate
<1>6. CASE IsVoid(r)
  <2>1. Voiding(r)
    BY DEF IInv, Local
  <2>2. /\ DOMAIN wrote[r].lots = {} /\ wrote[r].cons = {} /\ req[r].of \in active
        /\ \A c \in cons : c.event = req[r].of => c \in wrote[r].uncons
    BY <1>1, <1>6, <2>1 DEF Voiding, InTx
  <2>3. /\ wrote[r].gone = held[r] /\ held[r] \subseteq {req[r].of}
        /\ Opened(r) => req[r].of \in held[r]
        /\ \A c \in cons \ wrote[r].uncons : c.lot \notin held[r]
    BY <1>1, <1>6, <2>1 DEF Voiding, InTx, Ending, Between
  <2>4. held[r] = IF Opened(r) THEN {req[r].of} ELSE {}
    <3>1. CASE Opened(r)
      BY <2>3, <3>1
    <3>2. CASE ~Opened(r)
      <4>1. req[r].of \notin held[r]
        BY <1>4, <3>2 DEF Opened
      <4> QED BY <2>3, <3>2, <4>1
    <3> QED BY <3>1, <3>2
  <2>5. DOMAIN lots' = DOMAIN lots \ held[r]
    BY <1>3, <2>2, <2>3
  <2>6. cons' \subseteq cons /\ \A c \in cons' : c.event # req[r].of /\ c.lot \notin held[r]
    BY <1>1, <2>2, <2>3
  <2>7. twice' = {} /\ active' = active \ {req[r].of}
    BY <1>1, <1>4, <1>6, <2>2 DEF ActiveSeen
  <2> QED BY <1>6, <2>2, <2>4, <2>5, <2>6, <2>7 DEF CommitsVoid
<1> QED BY <1>2, <1>5, <1>6

LEMMA CommitStep ==
  ASSUME IInv, NEW r \in Request, Commit(r)
  PROVE  IInv'
<1>1. /\ pc[r] = "commit" /\ held' = [held EXCEPT ![r] = {}] /\ pc' = [pc EXCEPT ![r] = "done"]
      /\ UNCHANGED <<events, req, row, todo, wrote>>
  BY DEF Commit, Goto
<1>2. pc'[r] = "done" /\ held'[r] = {}
  BY <1>1 DEF IInv, Types
<1>3. \A q \in Request \ {r} : Same(q)
  BY <1>1 DEF IInv, Types, Same
<1>4. /\ twice' = {}
      /\ \/ req[r].op = "create" /\ CommitsCreate(r)
         \/ IsVoid(r) /\ CommitsVoid(r)
  BY CommitTables
<1>5. /\ active \subseteq DOMAIN events /\ DOMAIN lots = {n \in active : Opens(events[n])}
      /\ held[r] \subseteq DOMAIN lots
      /\ \A c \in cons : c.event \in active /\ c.lot \in DOMAIN lots
  BY DEF IInv, LotsOfActiveEvents, Types
<1>6. Types'
  <2>1. active' \subseteq DOMAIN events
    BY <1>4, <1>5 DEF CommitsCreate, CommitsVoid
  <2>2. /\ pc' \in [Request -> InFlight \union Ended \union {"idle"}]
        /\ held' \in [Request -> SUBSET DOMAIN events]
    BY <1>1 DEF IInv, Types, Ended
  <2> QED BY <1>1, <2>1, <2>2 DEF IInv, Types
<1>7. LotsOfActiveEvents'
  <2>1. CASE CommitsCreate(r)
    <3>1. DOMAIN lots' = {n \in active' : Opens(events[n])}
      BY <1>5, <2>1 DEF CommitsCreate, Own
    <3>2. \A c \in cons' : c.event \in active' /\ c.lot \in DOMAIN lots'
      BY <1>5, <2>1 DEF CommitsCreate
    <3> QED BY <1>1, <1>4, <3>1, <3>2 DEF LotsOfActiveEvents
  <2>2. CASE CommitsVoid(r)
    <3>1. DOMAIN lots' = {n \in active' : Opens(events[n])}
      BY <1>5, <2>2 DEF CommitsVoid, Opened
    <3>2. \A c \in cons' : c.event \in active' /\ c.lot \in DOMAIN lots'
      BY <1>5, <2>2 DEF CommitsVoid
    <3> QED BY <1>1, <1>4, <3>1, <3>2 DEF LotsOfActiveEvents
  <2> QED BY <1>4, <2>1, <2>2
<1>8. Local(r)'
  <2>1. Place(r) /\ todo[r] = {}
    BY <1>1 DEF IInv, Local, Place
  <2>2. Place(r)'
    BY <1>1, <1>2, <2>1 DEF Place, IsVoid, Ending, Between, Ended
  <2> QED BY <1>2, <2>2 DEF Local, Creating, Voiding, InTx
<1>9. ASSUME NEW q \in Request \ {r}
      PROVE  Local(q)' /\ held'[q] \subseteq DOMAIN lots'
  <2>1. Local(q) /\ Same(q) /\ held[q] \subseteq DOMAIN lots /\ Alone(q, r) /\ Alone(r, q)
    BY <1>3 DEF IInv
  <2>2. held'[q] \subseteq DOMAIN lots'
    <3>1. held[q] \subseteq DOMAIN lots'
      BY <1>4, <2>1 DEF CommitsCreate, CommitsVoid, Alone
    <3> QED BY <2>1, <3>1 DEF Same
  <2>3. Place(q)'
    BY <2>1 DEF Local, Place, Same, IsVoid
  <2>4. Creating(q)'
    <3> SUFFICES ASSUME req[q].op = "create", pc[q] \in InTx PROVE Creating(q)'
      BY <2>1 DEF Creating, Same
    <3>1. row[q] \in DOMAIN events \ active'
      <4>1. row[q] \in DOMAIN events \ active /\ row[q] # row[r]
        BY <2>1 DEF Local, Creating, Alone
      <4> QED BY <1>4, <4>1 DEF CommitsCreate, CommitsVoid
    <3>2. Creating(q) /\ Own(q)' = Own(q)
      BY <1>1, <2>1 DEF Local, Own, Same
    <3> QED BY <1>1, <2>1, <3>1, <3>2 DEF Creating, Same, Before
  <2>5. Voiding(q)'
    <3> SUFFICES ASSUME IsVoid(q), pc[q] \in InTx PROVE Voiding(q)'
      BY <2>1 DEF Voiding, Same, IsVoid
    <3>1. Voiding(q)
      BY <2>1 DEF Local
    <3>2. pc[q] # "mark" => req[q].of \in active'
      <4> SUFFICES ASSUME pc[q] # "mark" PROVE req[q].of \in active'
        OBVIOUS
      <4>1. req[q].of \in active
        BY <3>1 DEF Voiding
      <4>2. CASE CommitsCreate(r)
        BY <4>1, <4>2 DEF CommitsCreate
      <4>3. CASE IsVoid(r) /\ CommitsVoid(r)
        <5>1. req[q].of # req[r].of
          BY <1>1, <2>1, <4>3 DEF Alone, Marks, InTx
        <5> QED BY <4>1, <4>3, <5>1 DEF CommitsVoid
      <4> QED BY <1>4, <4>2, <4>3
    <3>3. pc[q] \notin {"mark", "uncons"} =>
            \A c \in cons' : c.event = req[q].of => c \in wrote[q].uncons
      <4> SUFFICES ASSUME pc[q] \notin {"mark", "uncons"}, NEW c \in cons', c.event = req[q].of
                   PROVE  c \in wrote[q].uncons
        OBVIOUS
      <4>1. req[q].of \in active /\ \A d \in cons : d.event = req[q].of => d \in wrote[q].uncons
        BY <3>1 DEF Voiding
      <4>2. c \in cons
        BY <1>4, <4>1 DEF CommitsCreate, CommitsVoid
      <4> QED BY <4>1, <4>2
    <3>4. pc[q] \in {"replay"} \union Ending =>
            \A c \in cons' \ wrote[q].uncons : c.lot \notin held[q]
      <4> SUFFICES ASSUME pc[q] \in {"replay"} \union Ending, NEW c \in cons' \ wrote[q].uncons
                   PROVE  c.lot \notin held[q]
        OBVIOUS
      <4>1. CASE c \in cons
        BY <3>1, <4>1 DEF Voiding
      <4>2. CASE c \notin cons
        <5>1. c.lot \in held[r]
          BY <1>4, <4>2 DEF CommitsCreate, CommitsVoid
        <5> QED BY <2>1, <5>1 DEF Alone
      <4> QED BY <4>1, <4>2
    <3>5. events' = events /\ req'[q] = req[q] /\ Same(q)
      BY <1>1, <2>1
    <3>6. (Opened(q) <=> Opened(q)') /\ (IsVoid(q) <=> IsVoid(q)')
      BY <3>5 DEF Opened, IsVoid
    <3> QED BY <3>1, <3>2, <3>3, <3>4, <3>5, <3>6 DEF Voiding, Same
  <2> QED BY <2>2, <2>3, <2>4, <2>5 DEF Local
<1>10. Apart(r)'
  BY <1>1, <1>2, <1>3, StayApart DEF InTx, Marks
<1>11. \A p, q \in Request : p # q => Alone(p, q)'
  BY <1>3, <1>10, OthersAlone
<1> QED BY <1>2, <1>6, <1>7, <1>8, <1>9, <1>11 DEF IInv

-----------------------------------------------------------------------------
(* Every step keeps the invariant.                                          *)
LEMMA NextIInv == IInv /\ [Next]_vars => IInv'
<1> SUFFICES ASSUME IInv, [Next]_vars PROVE IInv'
  OBVIOUS
<1>1. ASSUME NEW r \in Request, NEW q \in Creates \union Voids \union {Advice}, Arrive(r, q)
      PROVE  IInv'
  BY <1>1, ArriveStep
<1>2. ASSUME NEW r \in Request, Statement(r)
      PROVE  IInv'
  BY <1>2, ReadTotalStep, BeginCreateStep, BeginVoidStep, MarkVoidedStep, ConsumptionsStep,
     SelectLotsStep, LockRowStep, ApplyToLotsStep, ApplyCostStep, DeleteLotsStep, RebuildLotsStep,
     ReadingStep, CommitStep DEF Statement
<1>3. ASSUME NEW r \in Request, Abort(r)
      PROVE  IInv'
  BY <1>3, RollbackStep DEF Abort
<1>4. CASE UNCHANGED vars
  <2>1. /\ UNCHANGED <<events, active, lots, cons, twice, req, pc>>
        /\ UNCHANGED <<row, todo, held, wrote>>
    BY <1>4 DEF vars, db, local
  <2>2. Types' /\ LotsOfActiveEvents'
    BY <2>1 DEF IInv, Types, LotsOfActiveEvents
  <2>3. ASSUME NEW r \in Request PROVE Local(r)' /\ held'[r] \subseteq DOMAIN lots'
    BY <2>1, OthersStay DEF Same, Grown
  <2>4. ASSUME NEW r \in Request, NEW q \in Request, r # q PROVE Alone(r, q)'
    <3>1. Alone(r, q)
      BY <2>4 DEF IInv
    <3> QED BY <2>1, <3>1 DEF Alone, Marks, IsVoid
  <2> QED BY <2>2, <2>3, <2>4 DEF IInv
<1> QED BY <1>1, <1>2, <1>3, <1>4 DEF Next

(* The invariant holds throughout.                                          *)
LEMMA InductiveInvariant == Spec => []IInv
BY InitIInv, NextIInv, PTL DEF Spec

(* The lots are those of the active events that open one and every consumption is that of   *)
(* an active event on a lot that is there, however creates, voids and       *)
(* recommendations overlap (ledger/service.go).                             *)
THEOREM LotsAreOfActiveEvents == Spec => []LotsOfActiveEvents
<1>1. IInv => LotsOfActiveEvents
  BY DEF IInv
<1> QED BY <1>1, InductiveInvariant, PTL

(* Lots are locked in the order Before, which no two lots share.            *)
LEMMA BeforeOrders ==
  ASSUME IInv, NEW k \in DOMAIN events, NEW l \in DOMAIN events, Before(events, k, l)
  PROVE  ~Before(events, l, k) /\ k # l
<1>1. k \in Nat /\ l \in Nat /\ events[k].date \in Nat /\ events[l].date \in Nat
  BY DEF IInv, Types, Stored
<1> QED BY <1>1 DEF Before

(* It implies that waiting is in the order of the lots.                     *)
LEMMA WaitsInOrder == IInv => CreatesWaitInOrder
<1> SUFFICES ASSUME IInv, NEW r \in Request, NEW q \in Request,
                    req[r].op = "create", req[q].op = "create", WaitsFor(r, q), pc[q] # "relock",
                    NEW l \in NextRows(r), NEW k \in todo[q]
             PROVE  Before(events, l, k)
  BY DEF CreatesWaitInOrder
<1>1. PICK h \in NextRows(r) : h \in held[q]
  BY DEF WaitsFor
<1>2. NextRows(r) \subseteq todo[r] /\ todo[r] \subseteq DOMAIN events
  BY DEF NextRows, IInv, Types
<1>3. l = h
  <2> SUFFICES ASSUME l # h PROVE FALSE
    OBVIOUS
  <2>1. Before(events, l, h) /\ Before(events, h, l)
    BY <1>1, <1>2 DEF NextRows, IsVoid
  <2> QED BY <1>1, <1>2, <2>1, BeforeOrders
<1>4. pc[q] = "lock"
  BY DEF IInv, Local, Place
<1>5. Before(events, h, k)
  BY <1>1, <1>4 DEF IInv, Local, Creating, InTx
<1> QED BY <1>3, <1>5

(* A create that waits for another is behind it in the order in which       *)
(* openLotStatesTx locks, unless the other is an adjustment that locks a    *)
(* second time for its cost: without one of these, creates never wait for   *)
(* each other in a circle (ledger/service.go).                              *)
THEOREM NoCircleOfCreates == Spec => []CreatesWaitInOrder
BY InductiveInvariant, WaitsInOrder, PTL

-----------------------------------------------------------------------------
(* What a step other than a commit leaves alone.                            *)
Quiet(r) ==
    \/ \E q \in Creates \union Voids \union {Advice} : Arrive(r, q)
    \/ ReadTotal(r) \/ BeginCreate(r) \/ BeginVoid(r) \/ MarkVoided(r)
    \/ SelectConsumptions(r) \/ DeleteConsumptions(r) \/ SelectLots(r)
    \/ \E l \in todo[r] : LockRow(r, l)
    \/ ApplyToLots(r) \/ ApplyCost(r) \/ DeleteLots(r) \/ RebuildLots(r)
    \/ ReadCash(r) \/ ReadPositions(r) \/ StoreRun(r) \/ Abort(r)

(* The parts of the state that say nothing about locks.                     *)
Tabled ==
    /\ events \in Seq(Event)
    /\ \A n \in DOMAIN lots : lots[n] \in Lot /\ lots[n].remaining <= lots[n].original
    /\ cons \subseteq Consumption
    /\ total \in [Request -> Nat]
    /\ \E S : seen \in [Request -> Seq([events : SUBSET Nat, lots : S])]
    /\ overlap \in [Request -> SUBSET Request]
    /\ latest \in Request \union {NoRequest}

(* Nothing of request q changes, what it has read included.                 *)
Still(q) == Same(q) /\ total'[q] = total[q] /\ seen'[q] = seen[q] /\ overlap'[q] = overlap[q]

(* A step is a commit of the ledger or a quiet step of one request.         *)
LEMMA NextSteps ==
  ASSUME [Next]_vars
  PROVE  UNCHANGED vars \/ \E r \in Request : Quiet(r) \/ Commit(r)
BY DEF Next, Statement, Quiet

(* A quiet step leaves the tables and the other requests alone.             *)
LEMMA QuietKeeps ==
  ASSUME IInv, Tabled, NEW r \in Request, Quiet(r)
  PROVE  /\ \A q \in Request \ {r} : Still(q)
         /\ Grown /\ UNCHANGED <<active, lots, cons, twice, latest>>
<1> DEFINE Alike == \A q \in Request \ {r} : Still(q)
<1> USE DEF IInv, Types, Tabled, Still, Same, Goto, db, local, Grown
<1>1. ASSUME NEW q \in Creates \union Voids \union {Advice}, Arrive(r, q)
      PROVE  Alike /\ Grown /\ UNCHANGED <<active, lots, cons, twice, latest>>
  BY <1>1 DEF Arrive
<1>2. CASE ReadTotal(r)
  BY <1>2 DEF ReadTotal
<1>3. CASE BeginCreate(r)
  <2>1. Alike /\ UNCHANGED <<active, lots, cons, twice, latest>>
    BY <1>3 DEF BeginCreate
  <2>2. PICK e : events' = Append(events, e)
    BY <1>3 DEF BeginCreate
  <2>3. DOMAIN events \subseteq DOMAIN events' /\ \A n \in DOMAIN events : events'[n] = events[n]
    BY <2>2
  <2> QED BY <2>1, <2>3
<1>4. CASE BeginVoid(r) \/ StoreRun(r)
  BY <1>4 DEF BeginVoid, StoreRun
<1>5. CASE Rollback(r)
  BY <1>5 DEF Rollback
<1>6. CASE MarkVoided(r)
  BY <1>5, <1>6 DEF MarkVoided
<1>7. CASE SelectConsumptions(r) \/ DeleteConsumptions(r)
  BY <1>7 DEF SelectConsumptions, DeleteConsumptions
<1>8. CASE SelectLots(r)
  BY <1>8 DEF SelectLots
<1>9. ASSUME NEW l \in todo[r], LockRow(r, l)
      PROVE  Alike /\ Grown /\ UNCHANGED <<active, lots, cons, twice, latest>>
  BY <1>9 DEF LockRow
<1>10. CASE ApplyToLots(r)
  BY <1>5, <1>10 DEF ApplyToLots
<1>11. CASE DeleteLots(r)
  BY <1>5, <1>11 DEF DeleteLots
<1>12. CASE RebuildLots(r)
  BY <1>5, <1>12 DEF RebuildLots
<1>13. CASE ReadCash(r)
  BY <1>13 DEF ReadCash
<1>14. CASE ReadPositions(r)
  BY <1>14 DEF ReadPositions
<1>15. CASE Abort(r)
  BY <1>5, <1>15 DEF Abort
<1>16. CASE ApplyCost(r)
  BY <1>16 DEF ApplyCost
<1> QED BY <1>1, <1>2, <1>3, <1>4, <1>6, <1>7, <1>8, <1>9, <1>10, <1>11, <1>12, <1>13, <1>14, <1>15,
           <1>16
        DEF Quiet

(* The lots are a finite table of well-formed rows.                         *)
LEMMA TableFacts ==
  ASSUME IInv, Tabled
  PROVE  /\ LotsOK(lots)
         /\ DOMAIN events = 1..Len(events) /\ Len(events) \in Nat /\ DOMAIN events \subseteq Nat
         /\ DOMAIN lots \subseteq active /\ active \subseteq DOMAIN events
         /\ IsFiniteSet(active) /\ active \subseteq Nat
         /\ \A n \in DOMAIN events : events[n] \in Event
<1>1. DOMAIN events = 1..Len(events) /\ Len(events) \in Nat /\ DOMAIN events \subseteq Nat
  BY DEF Tabled
<1>2. DOMAIN lots \subseteq active /\ active \subseteq DOMAIN events
  BY DEF IInv, LotsOfActiveEvents, Types
<1>3. IsFiniteSet(active) /\ IsFiniteSet(DOMAIN lots)
  <2>1. IsFiniteSet(1..Len(events))
    BY <1>1, FS_Interval
  <2>2. active \subseteq 1..Len(events) /\ DOMAIN lots \subseteq 1..Len(events)
    BY <1>1, <1>2
  <2> QED BY <2>1, <2>2, FS_Subset
<1>4. LotsOK(lots)
  BY <1>1, <1>2, <1>3 DEF Tabled, LotsOK
<1> QED BY <1>1, <1>2, <1>3, <1>4 DEF Tabled

(* The event a create stores.                                               *)
LEMMA PreparedEvent ==
  ASSUME IInv, total \in [Request -> Nat], NEW r \in Request, req[r].op = "create"
  PROVE  /\ req[r].event \in Event /\ req[r].event \in Inputs
         /\ Prepared(r) \in Event /\ Prepared(r).type = req[r].event.type
         /\ Prepared(r).asset = req[r].event.asset /\ Prepared(r).ratio = req[r].event.ratio
         /\ Prepared(r).type \in {"sell", "capital_reduction"} => Prepared(r).qty <= 0
         /\ Prepared(r).type \in {"buy", "stock_dividend"} => Prepared(r).qty >= 0
         /\ Prepared(r).type \in {"cash", "cash_dividend"} => Prepared(r).qty = req[r].event.qty
         /\ Prepared(r).type = "split" =>
              /\ Prepared(r).asset \in Asset
              /\ Prepared(r).qty =
                   (total[r] * Prepared(r).ratio[1]) \div Prepared(r).ratio[2] - total[r]
<1> DEFINE e == req[r].event
           p == Prepared(r)
<1>1. e \in Inputs
  <2>1. req[r] \in Creates \union Voids \union {Advice, Idle}
    BY DEF IInv, Types
  <2> QED BY <2>1 DEF Creates, Voids, Advice, Idle
<1>2. /\ e \in Event
      /\ e.type # "adjustment" => e.qty >= 0
      /\ e.type = "split" => e.asset # NoAsset
  BY <1>1, LedgerTxAssumption
<1>3. /\ e.qty \in Int /\ e.cash \in Int /\ e.asset \in Asset \union {NoAsset}
      /\ e.ratio[1] \in Nat /\ e.ratio[2] \in Nat \ {0} /\ total[r] \in Nat
  BY <1>2, EventFields
<1> DEFINE t == total[r]
           n == e.ratio[1]
           d == e.ratio[2]
           q == CASE e.type \in {"sell", "capital_reduction"} -> -e.qty
                  [] e.type = "split" -> (t * n) \div d - t
                  [] OTHER -> e.qty
           c == IF e.type \in {"stock_dividend", "split"} THEN 0 ELSE e.cash
<1>4. p = [e EXCEPT !.qty = q, !.cash = c]
  BY DEF Prepared
<1>5. q \in Int
  <2>1. (t * n) \div d - t \in Int
    <3>1. t \in Nat /\ n \in Nat /\ d \in Nat \ {0}
      BY <1>3
    <3> HIDE DEF t, n, d
    <3>2. t * n \in Int
      BY <3>1
    <3>3. (t * n) \div d \in Int
      BY <3>1, <3>2, Divides
    <3> QED BY <3>1, <3>3
  <2> HIDE DEF t, n, d
  <2> QED BY <1>3, <2>1
<1>6. e.type \in {"sell", "capital_reduction"} => q <= 0
  BY <1>2, <1>3
<1>7. e.type \in {"buy", "stock_dividend"} => q >= 0
  BY <1>2, <1>3
<1>8. /\ e.type = "split" => q = (t * n) \div d - t
      /\ e.type \in {"cash", "cash_dividend"} => q = e.qty
  OBVIOUS
<1>9. c \in Int
  BY <1>3
<1> HIDE DEF q, c
<1>10. p \in Event /\ p.qty = q /\ p.type = e.type /\ p.asset = e.asset /\ p.ratio = e.ratio
  BY <1>2, <1>4, <1>5, <1>9 DEF Event
<1> HIDE DEF p, e
<1> QED BY <1>1, <1>2, <1>3, <1>6, <1>7, <1>8, <1>10 DEF p, e

(* A sequence with one element replaced is one.                             *)
LEMMA SeqExcept ==
  ASSUME NEW S, NEW s \in Seq(S), NEW k, NEW x, k \in 1..Len(s) => x \in S
  PROVE  [s EXCEPT ![k] = x] \in Seq(S)
<1>1. CASE k \in 1..Len(s)
  BY <1>1
<1>2. CASE k \notin 1..Len(s)
  <2>1. DOMAIN s = 1..Len(s)
    OBVIOUS
  <2>2. [s EXCEPT ![k] = x] = s
    BY <1>2, <2>1
  <2> QED BY <2>2
<1> QED BY <1>1, <1>2

(* What has been read may be taken from a larger set.                       *)
LEMMA MorePortfolios ==
  ASSUME NEW S, NEW T, seen \in [Request -> Seq([events : SUBSET Nat, lots : S])], S \subseteq T
  PROVE  seen \in [Request -> Seq([events : SUBSET Nat, lots : T])]
<1> DEFINE A == [events : SUBSET Nat, lots : S]
           B == [events : SUBSET Nat, lots : T]
<1>1. A \subseteq B
  OBVIOUS
<1>2. seen \in [Request -> Seq(A)]
  OBVIOUS
<1> HIDE DEF A, B
<1>3. seen \in [Request -> Seq(B)]
  BY <1>1, <1>2
<1> QED BY <1>3 DEF B

(* A quiet step keeps the types.                                            *)
LEMMA TabledQuiet ==
  ASSUME IInv, Tabled, NEW r \in Request, Quiet(r)
  PROVE  Tabled'
<1>1. UNCHANGED <<active, lots, cons, twice, latest>>
  BY QuietKeeps
<1>2. events' \in Seq(Event)
  <2>1. CASE BeginCreate(r)
    <3>1. req[r].op = "create"
      BY <2>1, CreateInput DEF BeginCreate
    <3>2. Prepared(r) \in Event
      BY <3>1, PreparedEvent DEF Tabled
    <3> QED BY <2>1, <3>2 DEF BeginCreate, Tabled
  <2>2. CASE ~BeginCreate(r)
    <3>1. events' = events
      BY <2>2 DEF Quiet, Arrive, ReadTotal, BeginVoid, MarkVoided, SelectConsumptions,
                  DeleteConsumptions, SelectLots, LockRow, ApplyToLots, ApplyCost, DeleteLots, RebuildLots,
                  ReadCash, ReadPositions, StoreRun, Abort, Rollback
    <3> QED BY <3>1 DEF Tabled
  <2> QED BY <2>1, <2>2
<1>3. total' \in [Request -> Nat]
  <2>1. CASE ReadTotal(r)
    <3>1. OpenShares(lots, req[r].event.asset) \in Nat
      BY TableFacts, OpenSharesOfAll
    <3> QED BY <2>1, <3>1 DEF ReadTotal, Tabled
  <2>2. CASE Rollback(r)
    BY <2>2 DEF Rollback, Tabled
  <2>3. CASE ~ReadTotal(r) /\ ~Rollback(r)
    <3>1. total' = total
      BY <2>3 DEF Quiet, Arrive, BeginCreate, BeginVoid, MarkVoided, SelectConsumptions,
                  DeleteConsumptions, SelectLots, LockRow, ApplyToLots, ApplyCost, DeleteLots, RebuildLots,
                  ReadCash, ReadPositions, StoreRun, Abort, local
    <3> QED BY <3>1 DEF Tabled
  <2> QED BY <2>1, <2>2, <2>3
<1>4. overlap' \in [Request -> SUBSET Request]
  <2>1. CASE Rollback(r)
    BY <2>1 DEF Rollback, Tabled
  <2>2. CASE ~Rollback(r)
    <3>1. overlap' = overlap
      BY <2>2 DEF Quiet, Arrive, ReadTotal, BeginCreate, BeginVoid, MarkVoided, SelectConsumptions,
                  DeleteConsumptions, SelectLots, LockRow, ApplyToLots, ApplyCost, DeleteLots, RebuildLots,
                  ReadCash, ReadPositions, StoreRun, Abort
    <3> QED BY <3>1 DEF Tabled
  <2> QED BY <2>1, <2>2
<1> DEFINE Rec(S) == [events : SUBSET Nat, lots : S]
<1>5. \E S : seen' \in [Request -> Seq(Rec(S))]
  <2>1. PICK S : seen \in [Request -> Seq(Rec(S))]
    BY DEF Tabled
  <2>2. CASE ReadCash(r)
    <3> DEFINE T == S \union {<<>>}
               p == [events |-> ActiveSeen(r), lots |-> <<>>]
    <3>1. ActiveSeen(r) \in SUBSET Nat
      BY TableFacts DEF ActiveSeen, IInv, Types
    <3>2. p \in Rec(T)
      BY <3>1
    <3>3. seen \in [Request -> Seq(Rec(T))]
      BY <2>1, MorePortfolios
    <3>4. seen' = [seen EXCEPT ![r] = Append(@, p)]
      BY <2>2 DEF ReadCash
    <3> HIDE DEF p, T, Rec
    <3>5. seen' \in [Request -> Seq(Rec(T))]
      BY <3>2, <3>3, <3>4
    <3> QED BY <3>5
  <2>3. CASE ReadPositions(r)
    <3> DEFINE x == OpenIn(Written(lots, wrote[r]))
               T == S \union {x}
               k == Len(seen[r])
    <3>1. seen' = [seen EXCEPT ![r][k].lots = x]
      BY <2>3 DEF ReadPositions
    <3> HIDE DEF x
    <3>2. seen \in [Request -> Seq(Rec(T))]
      BY <2>1, MorePortfolios
    <3>3. seen[r] \in Seq(Rec(T)) /\ \A j \in 1..k : seen[r][j] \in Rec(T)
      <4> HIDE DEF T, Rec
      <4> QED BY <3>2
    <3>4. ASSUME k \in 1..k PROVE [seen[r][k] EXCEPT !.lots = x] \in Rec(T)
      <4>1. seen[r][k] \in Rec(T) /\ x \in T
        BY <3>3, <3>4
      <4> HIDE DEF T
      <4> QED BY <4>1
    <3> DEFINE new == [seen[r][k] EXCEPT !.lots = x]
    <3>6. seen' = [seen EXCEPT ![r] = [seen[r] EXCEPT ![k] = new]]
      BY <3>1
    <3> HIDE DEF T, Rec, new
    <3>5. [seen[r] EXCEPT ![k] = new] \in Seq(Rec(T))
      <4>1. k \in 1..k => new \in Rec(T)
        BY <3>4 DEF new
      <4> HIDE DEF k
      <4> QED BY <3>3, <4>1, SeqExcept DEF k
    <3>7. seen' \in [Request -> Seq(Rec(T))]
      BY <3>2, <3>5, <3>6
    <3> QED BY <3>7
  <2>4. CASE Rollback(r)
    <3>1. <<>> \in Seq(Rec(S))
      OBVIOUS
    <3>2. seen' \in [Request -> Seq(Rec(S))]
      BY <2>1, <2>4, <3>1 DEF Rollback
    <3> QED BY <3>2
  <2>5. CASE ~ReadCash(r) /\ ~ReadPositions(r) /\ ~Rollback(r)
    <3>1. seen' = seen
      BY <2>5 DEF Quiet, Arrive, ReadTotal, BeginCreate, BeginVoid, MarkVoided, SelectConsumptions,
                  DeleteConsumptions, SelectLots, LockRow, ApplyToLots, ApplyCost, DeleteLots, RebuildLots,
                  StoreRun, Abort, local
    <3> QED BY <2>1, <3>1
  <2> QED BY <2>2, <2>3, <2>4, <2>5
<1> QED BY <1>1, <1>2, <1>3, <1>4, <1>5 DEF Tabled

-----------------------------------------------------------------------------
(* The lots ms hold the shares of gs and those that event e records; a      *)
(* split whose shares are whole multiplies them.                            *)
MovesShares(e, gs, ms) ==
    \A a \in Asset :
        IF e.type = "split" /\ e.asset = a
        THEN (\A l \in OpenLots(gs, a) : (gs[l].remaining * e.ratio[1]) % e.ratio[2] = 0)
               => OpenShares(ms, a) = (OpenShares(gs, a) * e.ratio[1]) \div e.ratio[2]
        ELSE OpenShares(ms, a) = OpenShares(gs, a) + (IF e.asset = a THEN e.qty ELSE 0)

(* The lots a transaction has written over, its own not among them.         *)
Base(r) == Restrict(lots, DOMAIN wrote[r].lots \ {row[r]})

(* What a create has stored is the event it asked for; what it writes are   *)
(* lots whose shares are those it has written over, as they still are, and  *)
(* what that event records.                                                 *)
Made(r) ==
    /\ req[r].op = "create" /\ pc[r] \in InTx => events[row[r]] = Prepared(r)
    /\ req[r].op = "create" /\ pc[r] \in Between \union Ending =>
         /\ LotsOK(wrote[r].lots) /\ wrote[r].cons \subseteq Consumption
         /\ Signed(events[row[r]]) => MovesShares(events[row[r]], Base(r), wrote[r].lots)

(* What is applied to the shares is an event.                               *)
LEMMA SharesOfEvent ==
  ASSUME NEW e \in Event
  PROVE  /\ SharesOf(e) \in Event /\ SharesOf(e).type = e.type /\ SharesOf(e).asset = e.asset
         /\ SharesOf(e).qty = e.qty /\ SharesOf(e).ratio = e.ratio
         /\ Signed(e) => Signed(SharesOf(e))
<1>1. /\ SharesOf(e) \in Event /\ SharesOf(e).type = e.type /\ SharesOf(e).asset = e.asset
      /\ SharesOf(e).qty = e.qty /\ SharesOf(e).ratio = e.ratio
  BY DEF SharesOf, Event
<1> QED BY <1>1 DEF Signed

(* The engine leaves well-formed lots with the shares the event records.    *)
LEMMA EngineMoves ==
  ASSUME NEW b, BookOK(b), NEW id \in Nat, id \notin DOMAIN b.lots, NEW e \in Event, NEW d,
         d = ApplyEventToLots(b, id, SharesOf(e)), d.err = "ok"
  PROVE  BookOK(d) /\ (Signed(e) => MovesShares(e, b.lots, d.lots))
<1> DEFINE s == SharesOf(e)
<1>1. /\ s \in Event /\ s.type = e.type /\ s.asset = e.asset /\ s.qty = e.qty /\ s.ratio = e.ratio
      /\ Signed(e) => Signed(s)
  BY SharesOfEvent
<1> HIDE DEF s
<1>2. d = ApplyEventToLots(b, id, s)
  BY DEF s
<1>3. BookOK(d)
  <2>1. PICK c : Moved(b, id, s, c) /\ Recosted(c, d)
    BY <1>1, <1>2, Applied
  <2>2. BookOK(c)
    BY <1>1, <2>1, MovedOK
  <2> QED BY <2>1, <2>2, RecostedOK
<1>4. ASSUME Signed(e), NEW a \in Asset, ~(e.type = "split" /\ e.asset = a)
      PROVE  OpenShares(d.lots, a) = OpenShares(b.lots, a) + (IF e.asset = a THEN e.qty ELSE 0)
  <2>1. Signed(s) /\ (s.type = "split" => s.asset # a)
    BY <1>1, <1>4
  <2>2. OpenShares(d.lots, a) = OpenShares(b.lots, a) + IF s.asset = a THEN s.qty ELSE 0
    BY <1>1, <1>2, <2>1, AppliedShares
  <2> QED BY <1>1, <2>2
<1>5. ASSUME NEW a \in Asset, e.type = "split", e.asset = a,
             \A l \in OpenLots(b.lots, a) : (b.lots[l].remaining * e.ratio[1]) % e.ratio[2] = 0
      PROVE  OpenShares(d.lots, a) = (OpenShares(b.lots, a) * e.ratio[1]) \div e.ratio[2]
  <2>1. \A l \in OpenLots(b.lots, s.asset) : (b.lots[l].remaining * s.ratio[1]) % s.ratio[2] = 0
    BY <1>1, <1>5
  <2> QED BY <1>1, <1>2, <1>5, <2>1, AppliedSplit
<1> QED BY <1>3, <1>4, <1>5 DEF MovesShares

(* An event that touches no lot records no shares.                          *)
LEMMA IdleIsEmpty ==
  ASSUME NEW e \in Event, Signed(e), ~TouchesLots(SharesOf(e))
  PROVE  e.asset = NoAsset \/ (e.qty = 0 /\ e.type # "split")
<1>1. e.type \in EventTypes /\ SharesOf(e).type = e.type /\ SharesOf(e).asset = e.asset
      /\ SharesOf(e).qty = e.qty
  BY EventFields, SharesOfEvent
<1> QED BY <1>1 DEF TouchesLots, Signed, EventTypes

(* What a create writes are its own lot and lots it has locked.             *)
LEMMA WritesHeld ==
  ASSUME IInv, Tabled, NEW r \in Request, req[r].op = "create", pc[r] \in Between \union Ending
  PROVE  /\ row[r] \in DOMAIN events \ active /\ row[r] \in Nat
         /\ row[r] \notin DOMAIN lots /\ row[r] \notin held[r] /\ held[r] \subseteq DOMAIN lots
         /\ DOMAIN wrote[r].lots \ {row[r]} \subseteq held[r]
         /\ pc[r] \in Ending => DOMAIN wrote[r].lots \ {row[r]} = held[r]
<1>1. pc[r] \in InTx
  BY DEF Between, Ending, InTx
<1>2. row[r] \in DOMAIN events \ active /\ row[r] \in Nat /\ row[r] \notin DOMAIN lots
      /\ held[r] \subseteq DOMAIN lots
  BY <1>1, TableFacts DEF IInv, Local, Creating
<1>3. /\ DOMAIN wrote[r].lots \subseteq held[r] \union Own(r)
      /\ pc[r] \in Ending => DOMAIN wrote[r].lots = held[r] \union Own(r)
  BY <1>1 DEF IInv, Local, Creating
<1> QED BY <1>2, <1>3 DEF Own

(* What a create has locked or written is not the business of others.       *)
LEMMA MadeByOthers ==
  ASSUME IInv, Tabled, NEW q \in Request, Made(q), Still(q), Grown,
         \A n \in held[q] : lots'[n] = lots[n]
  PROVE  Made(q)'
<1>1. req[q].op = "create" /\ pc[q] \in InTx => row[q] \in DOMAIN events
  BY DEF IInv, Local, Creating
<1>2. Prepared(q)' = Prepared(q)
  BY DEF Prepared, Still, Same
<1>3. req[q].op = "create" /\ pc[q] \in Between \union Ending => Base(q)' = Base(q)
  BY WritesHeld DEF Base, Restrict, Still, Same
<1>4. Between \union Ending \subseteq InTx
  BY DEF Ending, Between, InTx
<1> QED BY <1>1, <1>2, <1>3, <1>4 DEF Made, Still, Same, Grown

(* An event is new to the lots its transaction begins with.                 *)
LEMMA MadeBegin ==
  ASSUME IInv, Tabled, NEW r \in Request, BeginCreate(r)
  PROVE  Made(r)'
<1> DEFINE e == Prepared(r)
           n == Len(events) + 1
           d == ApplyEventToLots(EmptyBook, n, SharesOf(e))
<1>1. /\ req[r].op = "create" /\ req' = req /\ total' = total /\ wrote[r] = Nothing
      /\ lots' = lots
  BY CreateInput DEF BeginCreate, IInv, Local, Place, db
<1>2. e \in Event
  BY <1>1, PreparedEvent DEF Tabled
<1>3. events'[n] = e /\ row'[r] = n /\ n \in Nat
  BY <1>2 DEF BeginCreate, Tabled, IInv, Types
<1>4. Prepared(r)' = e
  BY <1>1 DEF Prepared
<1>5. pc'[r] = IF Locks(e) THEN "select" ELSE IF Recosts(e) THEN "reselect" ELSE "cash"
  BY DEF BeginCreate, Goto, IInv, Types
<1>6. wrote'[r].lots = (IF Opens(e) THEN d.lots ELSE wrote[r].lots) /\ wrote'[r].cons = wrote[r].cons
  BY DEF BeginCreate, IInv, Types
<1>7. wrote'[r].cons = {} /\ (~Opens(e) => wrote'[r].lots = <<>>)
  BY <1>1, <1>6 DEF Nothing
<1>8. /\ BookOK(EmptyBook) /\ DOMAIN EmptyBook.lots = {} /\ n \notin DOMAIN EmptyBook.lots
      /\ LotsOK(<<>>)
  BY FS_EmptySet DEF EmptyBook, LotsOK, BookOK
<1> HIDE DEF e, d
<1>9. CASE Locks(e)
  BY <1>3, <1>4, <1>5, <1>9 DEF Made, Ending, Between
<1>10. CASE Opens(e)
  <2>1. d.err = "ok" /\ DOMAIN d.lots = {n}
    BY <1>2, <1>10, EventStored, OpensLot DEF d
  <2>2. BookOK(d) /\ (Signed(e) => MovesShares(e, EmptyBook.lots, d.lots))
    BY <1>2, <1>3, <1>8, <2>1, EngineMoves DEF d
  <2>3. Base(r)' = EmptyBook.lots
    <3>1. DOMAIN wrote'[r].lots \ {row'[r]} = {}
      BY <1>3, <1>6, <1>10, <2>1
    <3> QED BY <3>1 DEF Base, Restrict, EmptyBook
  <2> QED BY <1>3, <1>4, <1>6, <1>7, <1>10, <2>2, <2>3 DEF Made, BookOK
<1>11. CASE ~Opens(e) /\ ~Locks(e)
  <2>1. wrote'[r].lots = <<>> /\ LotsOK(wrote'[r].lots) /\ DOMAIN wrote'[r].lots = {}
    BY <1>7, <1>8, <1>11
  <2>2. DOMAIN Base(r)' = {}
    BY <2>1 DEF Base, Restrict
  <2>3. \A a : OpenShares(wrote'[r].lots, a) = 0 /\ OpenShares(Base(r)', a) = 0
    BY <2>1, <2>2, NoLotsNoShares
  <2>4. Signed(e) => e.asset = NoAsset \/ (e.qty = 0 /\ e.type # "split")
    BY <1>2, <1>11, IdleIsEmpty DEF Locks
  <2>5. Signed(e) => MovesShares(e, Base(r)', wrote'[r].lots)
    BY <2>3, <2>4, NoAssetAssumption DEF MovesShares
  <2> QED BY <1>3, <1>4, <1>7, <2>1, <2>5 DEF Made
<1> QED BY <1>9, <1>10, <1>11

(* It is applied to the lots the transaction has locked.                    *)
LEMMA MadeApply ==
  ASSUME IInv, Tabled, NEW r \in Request, Made(r), ApplyToLots(r), ~Rollback(r)
  PROVE  Made(r)'
<1> DEFINE e == events[row[r]]
           b == [EmptyBook EXCEPT !.lots = Restrict(lots, held[r])]
           d == ApplyEventToLots(b, row[r], SharesOf(e))
<1>1. req[r].op = "create" /\ pc[r] = "lock" /\ pc[r] \in InTx
  BY CreateInput DEF ApplyToLots, InTx
<1>2. UNCHANGED <<events, lots, req, row, total, held>>
  BY DEF ApplyToLots, db
<1>3. /\ d.err = "ok"
      /\ wrote' = [wrote EXCEPT ![r].lots = d.lots, ![r].cons = d.cons]
  BY DEF ApplyToLots
<1> HIDE DEF d
<1>4. wrote'[r].lots = d.lots /\ wrote'[r].cons = d.cons
  BY <1>3 DEF IInv, Types
<1>5. /\ row[r] \in DOMAIN events \ active /\ row[r] \in Nat /\ e = Prepared(r) /\ e \in Event
      /\ row[r] \notin DOMAIN lots /\ held[r] \subseteq DOMAIN lots /\ Locks(e)
  BY <1>1, TableFacts DEF IInv, Local, Creating, Made
<1>6. LotsOK(Restrict(lots, held[r])) /\ DOMAIN Restrict(lots, held[r]) = held[r]
  BY <1>5, TableFacts, RestrictOK
<1>7. BookOK(b) /\ b.lots = Restrict(lots, held[r])
  <2>1. b = [lots |-> Restrict(lots, held[r]), cons |-> {}, err |-> "ok"]
    BY BookOn
  <2> QED BY <1>6, <2>1 DEF BookOK
<1>8. DOMAIN d.lots = held[r]
  <2>1. Stored(e)
    BY <1>5, EventStored
  <2> HIDE DEF e
  <2> QED BY <1>5, <1>6, <2>1, LockersKeepLots DEF d
<1> HIDE DEF b, e
<1>9. BookOK(d) /\ (Signed(e) => MovesShares(e, b.lots, d.lots))
  <2>1. row[r] \notin DOMAIN b.lots
    BY <1>5, <1>6, <1>7
  <2> QED BY <1>3, <1>5, <1>7, <2>1, EngineMoves DEF d
<1>10. Base(r)' = b.lots
  <2>1. DOMAIN wrote'[r].lots \ {row'[r]} = held[r]
    BY <1>2, <1>4, <1>5, <1>8
  <2> QED BY <1>2, <1>7, <2>1 DEF Base
<1>11. Prepared(r)' = Prepared(r) /\ events'[row'[r]] = e
  BY <1>2 DEF Prepared, e
<1> QED BY <1>1, <1>2, <1>4, <1>5, <1>9, <1>10, <1>11 DEF Made, BookOK

(* Its cost changes no shares of these lots or of those locked since.       *)
LEMMA MadeCost ==
  ASSUME IInv, Tabled, NEW r \in Request, Made(r), ApplyCost(r)
  PROVE  Made(r)'
<1> DEFINE e == events[row[r]]
           hs == Restrict(lots, held[r])
           ls == Written(hs, wrote[r])
           b == [EmptyBook EXCEPT !.lots = ls]
           d == DeductAdjustedCostProRata(b, e.asset, -e.costDelta)
           ms == wrote[r].lots
           H == DOMAIN ms \ {row[r]}
<1>1. /\ pc[r] = "relock" /\ pc[r] \in InTx /\ pc[r] \in Between /\ pc'[r] = "cash"
      /\ req[r].op = "create"
  BY DEF ApplyCost, InTx, Between, Goto, IInv, Types, Local, Place
<1>2. UNCHANGED <<events, lots, req, row, total, held>>
  BY DEF ApplyCost, db
<1>3. wrote' = [wrote EXCEPT ![r].lots = d.lots]
  BY DEF ApplyCost
<1> HIDE DEF d
<1>4. wrote'[r].lots = d.lots /\ wrote'[r].cons = wrote[r].cons
  BY <1>3 DEF IInv, Types
<1>5. /\ row[r] \in DOMAIN events \ active /\ e = Prepared(r) /\ e \in Event
      /\ row[r] \notin DOMAIN lots /\ row[r] \notin held[r] /\ held[r] \subseteq DOMAIN lots
      /\ H \subseteq held[r] /\ wrote[r].gone = {} /\ Own(r) \subseteq DOMAIN ms
      /\ DOMAIN ms \subseteq held[r] \union Own(r)
  BY <1>1, TableFacts, WritesHeld DEF IInv, Local, Creating, Made
<1>6. /\ LotsOK(ms) /\ wrote[r].cons \subseteq Consumption
      /\ Signed(e) => MovesShares(e, Base(r), ms)
  BY <1>1 DEF Made
<1>7. LotsOK(hs) /\ DOMAIN hs = held[r] /\ \A n \in held[r] : hs[n] = lots[n]
  BY <1>5, TableFacts, RestrictOK
<1>8. /\ DOMAIN ls = (DOMAIN hs \ H) \union DOMAIN ms
      /\ \A n \in DOMAIN ls : ls[n] = IF n \in DOMAIN ms THEN ms[n] ELSE hs[n]
      /\ DOMAIN ls = held[r] \union Own(r)
      /\ DOMAIN ms \intersect (DOMAIN hs \ H) = {} /\ H \in SUBSET DOMAIN hs
  <2>1. /\ DOMAIN ls = DOMAIN hs \union DOMAIN ms
        /\ \A n \in DOMAIN ls : ls[n] = IF n \in DOMAIN ms THEN ms[n] ELSE hs[n]
    <3> HIDE DEF hs
    <3> QED BY <1>5 DEF Written
  <2> HIDE DEF hs, ls, ms
  <2> QED BY <1>5, <1>7, <2>1 DEF Own
<1>9. Restrict(hs, H) = Base(r)
  <2>1. \A n \in H : hs[n] = lots[n]
    BY <1>5, <1>7
  <2> HIDE DEF hs
  <2> QED BY <2>1 DEF Base, Restrict
<1> HIDE DEF hs, ls, ms, H
<1>10. /\ LotsOK(ls)
       /\ \A a : OpenShares(ls, a) = OpenShares(hs, a) - OpenShares(Base(r), a) + OpenShares(ms, a)
  BY <1>6, <1>7, <1>8, <1>9, LotsOverwritten
<1>11. BookOK(b) /\ b.lots = ls
  <2>1. b = [lots |-> ls, cons |-> {}, err |-> "ok"]
    BY BookOn
  <2> QED BY <1>10, <2>1 DEF BookOK
<1> HIDE DEF b, e
<1>12. BookOK(d) /\ DOMAIN d.lots = DOMAIN ls
       /\ \A l \in DOMAIN ls : d.lots[l].asset = ls[l].asset /\ d.lots[l].remaining = ls[l].remaining
  <2>1. -e.costDelta \in Int
    BY <1>5, EventFields
  <2>2. Recosted(b, d)
    BY <1>11, <2>1, DeductRecosts DEF d
  <2> QED BY <1>11, <2>2, RecostedOK
<1>13. \A a : OpenShares(d.lots, a) = OpenShares(ls, a)
  <2>1. LotsOK(d.lots)
    BY <1>12 DEF BookOK
  <2> QED BY <1>10, <1>12, <2>1, SharesSame DEF LotsOf
<1>14. Base(r)' = hs
  <2>1. DOMAIN wrote'[r].lots \ {row'[r]} = held[r]
    BY <1>2, <1>4, <1>5, <1>8, <1>12 DEF Own
  <2> QED BY <1>2, <2>1 DEF Base, hs
<1>15. e.type # "split" /\ e.qty \in Int
  <2>1. Recosts(e)
    BY <1>1 DEF IInv, Local, Creating, e
  <2> QED BY <1>5, <2>1, EventFields DEF Recosts
<1>16. Signed(e) => MovesShares(e, hs, d.lots)
  <2> SUFFICES ASSUME Signed(e), NEW a \in Asset
               PROVE  OpenShares(d.lots, a) = OpenShares(hs, a) + (IF e.asset = a THEN e.qty ELSE 0)
    BY <1>15 DEF MovesShares
  <2>1. OpenShares(ms, a) = OpenShares(Base(r), a) + (IF e.asset = a THEN e.qty ELSE 0)
    BY <1>6, <1>15 DEF MovesShares
  <2>2. LotsOK(Base(r))
    <3>1. H \subseteq DOMAIN lots
      BY <1>5
    <3> QED BY <3>1, TableFacts, RestrictOK DEF Base, H, ms
  <2>3. OpenShares(hs, a) \in Int /\ OpenShares(Base(r), a) \in Int
    BY <1>7, <2>2, OpenSharesOfAll
  <2> QED BY <1>10, <1>13, <1>15, <2>1, <2>3
<1>17. Prepared(r)' = Prepared(r) /\ events'[row'[r]] = e
  BY <1>2 DEF Prepared, e
<1> QED BY <1>1, <1>2, <1>4, <1>5, <1>6, <1>12, <1>14, <1>16, <1>17 DEF Made, BookOK

(* What a create writes stays what its event makes of the lots.             *)
LEMMA MadeQuiet ==
  ASSUME IInv, Tabled, NEW r \in Request, Made(r), Quiet(r)
  PROVE  Made(r)'
<1>1. UNCHANGED lots /\ Grown
  BY QuietKeeps
<1>2. Between \union Ending \subseteq InTx
  BY DEF Ending, Between, InTx
<1>3. CASE req'[r].op # "create" \/ pc'[r] \notin InTx
  BY <1>2, <1>3 DEF Made
<1>4. CASE Rollback(r)
  <2>1. pc'[r] = "failed"
    BY <1>4 DEF Rollback, Goto, IInv, Types
  <2> QED BY <1>3, <2>1 DEF InTx
<1>5. ASSUME UNCHANGED <<events, req, row, total, wrote>>, pc[r] \in InTx,
             pc'[r] \in Between \union Ending => pc[r] \in Between \union Ending
      PROVE  Made(r)'
  <2>1. Prepared(r)' = Prepared(r) /\ Base(r)' = Base(r)
    BY <1>1, <1>5 DEF Prepared, Base
  <2> QED BY <1>5, <2>1 DEF Made
<1>6. CASE BeginCreate(r) \/ ApplyCost(r) \/ (ApplyToLots(r) /\ ~Rollback(r))
  BY <1>6, MadeBegin, MadeCost, MadeApply
<1>7. CASE ReadCash(r) \/ ReadPositions(r)
  <2>1. UNCHANGED <<events, req, row, total, wrote>> /\ pc[r] \in Ending
    BY <1>7 DEF ReadCash, ReadPositions, db, Ending
  <2> QED BY <1>2, <1>5, <2>1
<1>8. CASE SelectLots(r)
  <2>1. UNCHANGED <<events, req, row, total, wrote>> /\ pc[r] \in InTx
        /\ pc'[r] = (IF pc[r] = "reselect" THEN "relock" ELSE "lock")
    BY <1>8 DEF SelectLots, Goto, InTx, IInv, Types
  <2> QED BY <1>5, <2>1 DEF Ending, Between
<1>9. CASE \E l \in todo[r] : LockRow(r, l)
  <2>1. UNCHANGED <<events, req, row, total, wrote, pc>> /\ pc[r] \in InTx
    BY <1>9 DEF LockRow, InTx
  <2> QED BY <1>5, <2>1
<1>10. CASE ReadTotal(r)
  BY <1>3, <1>10 DEF ReadTotal, Goto, IInv, Types, InTx
<1>11. CASE StoreRun(r)
  BY <1>3, <1>11 DEF StoreRun, Goto, IInv, Types, InTx
<1>12. ASSUME NEW q \in Creates \union Voids \union {Advice}, Arrive(r, q)
       PROVE  Made(r)'
  <2>1. req'[r] = q /\ pc'[r] \in {"cash", "total", "begin"} /\ (pc'[r] = "cash" => q.op = "advise")
    <3>1. q.op \in {"create", "void", "advise"}
      BY DEF Creates, Voids, Advice
    <3> QED BY <1>12, <3>1 DEF Arrive, Goto, IInv, Types
  <2> QED BY <1>3, <2>1 DEF InTx
<1>13. CASE BeginVoid(r) \/ MarkVoided(r) \/ SelectConsumptions(r) \/ DeleteConsumptions(r)
            \/ DeleteLots(r) \/ RebuildLots(r)
  <2>1. req' = req /\ IsVoid(r)
    BY <1>13 DEF BeginVoid, MarkVoided, SelectConsumptions, DeleteConsumptions, DeleteLots,
                 RebuildLots, Rollback, local, IInv, Local, Place
  <2> QED BY <1>3, <2>1 DEF IsVoid
<1> QED BY <1>4, <1>6, <1>7, <1>8, <1>9, <1>10, <1>11, <1>12, <1>13 DEF Quiet, Abort

(* What a commit of an event writes is the engine's.                        *)
LEMMA CreateWrites ==
  ASSUME IInv, Tabled, NEW r \in Request, req[r].op = "create", Made(r), Commit(r)
  PROVE  /\ LotsOK(wrote[r].lots) /\ wrote[r].cons \subseteq Consumption
         /\ DOMAIN wrote[r].lots = held[r] \union Own(r)
         /\ DOMAIN wrote[r].lots \ {row[r]} = held[r]
         /\ row[r] \in DOMAIN events \ active /\ row[r] \notin DOMAIN lots
         /\ held[r] \subseteq DOMAIN lots
         /\ cons' = cons \union wrote[r].cons
         /\ DOMAIN lots' = DOMAIN lots \union DOMAIN wrote[r].lots
         /\ \A n \in DOMAIN lots' :
              lots'[n] = IF n \in DOMAIN wrote[r].lots THEN wrote[r].lots[n] ELSE lots[n]
         /\ active' = active \union {row[r]}
<1>1. pc[r] = "commit" /\ pc[r] \in InTx /\ pc[r] \in Ending
  BY DEF Commit, InTx, Ending
<1>2. LotsOK(wrote[r].lots) /\ wrote[r].cons \subseteq Consumption
  BY <1>1 DEF Made
<1>3. /\ wrote[r].gone = {} /\ wrote[r].uncons = {}
      /\ DOMAIN wrote[r].lots = held[r] \union Own(r)
  BY <1>1 DEF IInv, Local, Creating
<1>4. /\ row[r] \in DOMAIN events \ active /\ row[r] \notin DOMAIN lots
      /\ held[r] \subseteq DOMAIN lots /\ DOMAIN wrote[r].lots \ {row[r]} = held[r]
  BY <1>1, WritesHeld
<1>5. lots' = Written(lots, wrote[r]) /\ cons' = (cons \ wrote[r].uncons) \union wrote[r].cons
      /\ active' = ActiveSeen(r)
  BY DEF Commit
<1>6. Written(lots, wrote[r]) =
        [n \in DOMAIN lots \union DOMAIN wrote[r].lots |->
           IF n \in DOMAIN wrote[r].lots THEN wrote[r].lots[n] ELSE lots[n]]
  BY <1>3 DEF Written
<1>7. active' = active \union {row[r]}
  BY <1>4, <1>5, TableFacts DEF ActiveSeen, IsVoid
<1> QED BY <1>2, <1>3, <1>4, <1>5, <1>6, <1>7

(* What a commit of a void leaves.                                          *)
LEMMA VoidWrites ==
  ASSUME IInv, Tabled, NEW r \in Request, IsVoid(r), Commit(r)
  PROVE  /\ lots' = Restrict(lots, DOMAIN lots \ held[r])
         /\ cons' \subseteq cons
         /\ active' = active \ {req[r].of} /\ req[r].of \in active
<1>1. pc[r] = "commit" /\ pc[r] \in InTx /\ pc[r] \in Ending
  BY DEF Commit, InTx, Ending, Between
<1>2. /\ DOMAIN wrote[r].lots = {} /\ wrote[r].gone = held[r] /\ wrote[r].cons = {}
      /\ req[r].of \in active
  BY <1>1 DEF IInv, Local, Voiding
<1>3. lots' = Written(lots, wrote[r]) /\ cons' = (cons \ wrote[r].uncons) \union wrote[r].cons
      /\ active' = ActiveSeen(r)
  BY DEF Commit
<1>4. Written(lots, wrote[r]) = [n \in DOMAIN lots \ held[r] |-> lots[n]]
  BY <1>2 DEF Written
<1> QED BY <1>2, <1>3, <1>4 DEF Restrict, ActiveSeen

(* Only creates and voids commit changes.                                   *)
LEMMA CommitOps ==
  ASSUME IInv, NEW r \in Request, Commit(r)
  PROVE  req[r].op = "create" \/ IsVoid(r)
BY CommitTables

(* What a commit leaves alone.                                              *)
LEMMA CommitKeeps ==
  ASSUME IInv, Tabled, NEW r \in Request, Made(r), Commit(r)
  PROVE  /\ UNCHANGED <<events, req, row, total, todo, wrote, seen>> /\ latest' = r
         /\ pc'[r] = "done" /\ held'[r] = {} /\ overlap'[r] = overlap[r]
         /\ \A q \in Request \ {r} :
              /\ Same(q)
              /\ overlap'[q] = IF pc[q] \in InFlight THEN overlap[q] \union {r} ELSE overlap[q]
         /\ \A n \in DOMAIN lots : n \notin held[r] => n \in DOMAIN lots' /\ lots'[n] = lots[n]
<1>1. /\ UNCHANGED <<events, req, row, total, todo, wrote, seen>> /\ latest' = r
      /\ pc'[r] = "done" /\ held'[r] = {} /\ overlap'[r] = overlap[r]
      /\ \A q \in Request \ {r} :
           /\ Same(q)
           /\ overlap'[q] = IF pc[q] \in InFlight THEN overlap[q] \union {r} ELSE overlap[q]
  BY DEF Commit, Goto, IInv, Types, Same
<1>2. \A n \in DOMAIN lots : n \notin held[r] => n \in DOMAIN lots' /\ lots'[n] = lots[n]
  <2>1. CASE req[r].op = "create"
    <3>1. /\ DOMAIN wrote[r].lots \ {row[r]} = held[r] /\ row[r] \notin DOMAIN lots
          /\ DOMAIN lots' = DOMAIN lots \union DOMAIN wrote[r].lots
          /\ \A n \in DOMAIN lots' :
               lots'[n] = IF n \in DOMAIN wrote[r].lots THEN wrote[r].lots[n] ELSE lots[n]
      BY <2>1, CreateWrites
    <3> QED BY <3>1
  <2>2. CASE IsVoid(r)
    BY <2>2, VoidWrites DEF Restrict
  <2> QED BY <2>1, <2>2, CommitOps
<1> QED BY <1>1, <1>2

(* A commit keeps the types.                                                *)
LEMMA TabledCommit ==
  ASSUME IInv, Tabled, NEW r \in Request, Made(r), Commit(r)
  PROVE  Tabled'
<1>1. /\ \A n \in DOMAIN lots' : lots'[n] \in Lot /\ lots'[n].remaining <= lots'[n].original
      /\ cons' \subseteq Consumption
  <2>1. CASE req[r].op = "create"
    <3>1. LotsOK(wrote[r].lots) /\ wrote[r].cons \subseteq Consumption
      BY <2>1, CreateWrites
    <3>2. \A n \in DOMAIN wrote[r].lots :
            wrote[r].lots[n] \in Lot /\ wrote[r].lots[n].remaining <= wrote[r].lots[n].original
      BY <3>1 DEF LotsOK
    <3>3. /\ DOMAIN lots' = DOMAIN lots \union DOMAIN wrote[r].lots
          /\ \A n \in DOMAIN lots' :
               lots'[n] = IF n \in DOMAIN wrote[r].lots THEN wrote[r].lots[n] ELSE lots[n]
      BY <2>1, CreateWrites
    <3>4. cons' = cons \union wrote[r].cons
      BY <2>1, CreateWrites
    <3> QED BY <3>1, <3>2, <3>3, <3>4 DEF Tabled
  <2>2. CASE IsVoid(r)
    BY <2>2, VoidWrites DEF Tabled, Restrict
  <2> QED BY <2>1, <2>2, CommitOps
<1>2. overlap' \in [Request -> SUBSET Request]
  BY DEF Commit, Tabled
<1>3. events' = events /\ total' = total /\ seen' = seen /\ latest' = r
  BY CommitKeeps
<1> QED BY <1>1, <1>2, <1>3 DEF Tabled

(* A commit changes no lot that another request has locked.                 *)
LEMMA MadeCommit ==
  ASSUME IInv, Tabled, NEW r \in Request, \A q \in Request : Made(q), Commit(r), NEW q \in Request
  PROVE  Made(q)'
<1>1. CASE q = r
  <2>1. pc'[q] = "done"
    BY <1>1, CommitKeeps
  <2> QED BY <2>1 DEF Made, InTx, Ending, Between
<1>2. CASE q # r
  <2>2. /\ Same(q) /\ UNCHANGED <<events, total>> /\ held[q] \subseteq DOMAIN lots
        /\ held[q] \intersect held[r] = {} /\ Made(q)
    BY <1>2, CommitKeeps DEF IInv, Alone
  <2>3. \A n \in held[q] : lots'[n] = lots[n]
    BY <2>2, CommitKeeps
  <2>4. req[q].op = "create" /\ pc[q] \in Between \union Ending => Base(q)' = Base(q)
    BY <2>2, <2>3, WritesHeld DEF Base, Restrict, Same
  <2>5. Prepared(q)' = Prepared(q)
    BY <2>2 DEF Same, Prepared
  <2> QED BY <2>2, <2>4, <2>5 DEF Made, Same
<1> QED BY <1>1, <1>2

(* The invariant of the tables: what is there has its type, and what a      *)
(* request writes is what the engine makes of what it has locked.           *)
JInv == IInv /\ Tabled /\ \A r \in Request : Made(r)

(* The ledgers at the start are well-formed.                                *)
LEMMA InitJInv == Init => JInv
<1> SUFFICES ASSUME Init PROVE JInv
  OBVIOUS
<1>1. IInv
  BY InitIInv
<1>2. PICK p \in Past : events = p.events /\ lots = p.lots /\ cons = p.cons
  BY DEF Init
<1>3. /\ events \in Seq(Event) /\ cons \subseteq Consumption
      /\ \A n \in DOMAIN lots : lots[n] \in Lot /\ lots[n].remaining <= lots[n].original
  BY <1>2, LedgerTxAssumption
<1>4. seen \in [Request -> Seq([events : SUBSET Nat, lots : {}])]
  <2> DEFINE A == [events : SUBSET Nat, lots : {}]
  <2>1. seen = [r \in Request |-> <<>>]
    BY DEF Init
  <2> HIDE DEF A
  <2>2. seen \in [Request -> Seq(A)]
    BY <2>1
  <2> QED BY <2>2 DEF A
<1>5. /\ total \in [Request -> Nat] /\ overlap \in [Request -> SUBSET Request]
      /\ latest \in Request \union {NoRequest}
  BY DEF Init
<1>6. Tabled
  BY <1>3, <1>4, <1>5 DEF Tabled
<1>7. \A r \in Request : Made(r)
  BY DEF Init, Made, InTx, Ending, Between
<1> QED BY <1>1, <1>6, <1>7 DEF JInv

(* Every step keeps the tables well-formed.                                 *)
LEMMA NextJInv == JInv /\ [Next]_vars => JInv'
<1> SUFFICES ASSUME JInv, [Next]_vars PROVE JInv'
  OBVIOUS
<1>1. IInv'
  BY NextIInv DEF JInv
<1>2. IInv /\ Tabled /\ \A r \in Request : Made(r)
  BY DEF JInv
<1>3. ASSUME NEW r \in Request, Quiet(r) PROVE Tabled' /\ \A q \in Request : Made(q)'
  <2>1. Tabled' /\ Made(r)'
    BY <1>2, <1>3, TabledQuiet, MadeQuiet
  <2>2. (\A q \in Request \ {r} : Still(q)) /\ Grown /\ lots' = lots
    BY <1>2, <1>3, QuietKeeps
  <2>3. \A q \in Request \ {r} : Made(q)'
    BY <1>2, <2>2, MadeByOthers
  <2> QED BY <2>1, <2>3
<1>4. ASSUME NEW r \in Request, Commit(r) PROVE Tabled' /\ \A q \in Request : Made(q)'
  BY <1>2, <1>4, TabledCommit, MadeCommit
<1>5. CASE UNCHANGED vars
  <2>1. UNCHANGED <<events, active, lots, cons, latest, req, pc, row, total, held, wrote, seen, overlap, todo>>
    BY <1>5 DEF vars, db, local
  <2>2. Tabled'
    BY <1>2, <2>1 DEF Tabled
  <2>3. \A r \in Request : Made(r)'
    BY <1>2, <2>1, MadeByOthers DEF Still, Same, Grown
  <2> QED BY <1>1, <2>2, <2>3 DEF JInv
<1> QED BY <1>1, <1>3, <1>4, <1>5, NextSteps DEF JInv

(* The tables are well-formed in every reachable state.                     *)
LEMMA TablesInvariant == Spec => []JInv
BY InitJInv, NextJInv, PTL DEF Spec

(* The type invariant is part of it.                                        *)
LEMMA JInvTypes == JInv => TypeOK
<1> SUFFICES ASSUME JInv PROVE TypeOK
  OBVIOUS
<1>1. IInv /\ Tabled
  BY DEF JInv
<1>2. twice = {} /\ DOMAIN lots \subseteq DOMAIN events
  BY <1>1, TableFacts DEF IInv, LotsOfActiveEvents
<1> QED BY <1>1, <1>2 DEF TypeOK, IInv, Types, Tabled

(* What the transactions read and write keeps its type: sales, splits and   *)
(* voids that overlap never leave a lot with a negative or a missing number *)
(* of shares, or with more than it was opened with (ledger/service.go).     *)
THEOREM TablesTyped == Spec => []TypeOK
BY TablesInvariant, JInvTypes, PTL

-----------------------------------------------------------------------------
(* What request r may have missed: the changes that were committed while it *)
(* ran.                                                                     *)
Later(r) == UNION {Changed(q) : q \in overlap[r]}

(* A portfolio s names the events A, and the lots ls, except where L.       *)
NamesEvents(s, A, L) == \A n \in Nat \ L : n \in s.events <=> n \in A

(* The portfolio s holds the open lots of ls, those of L perhaps excepted.  *)
NamesLots(s, ls, L) ==
    \A n \in Nat \ L :
        /\ n \in DOMAIN s.lots <=> n \in DOMAIN ls /\ ls[n].remaining > 0
        /\ n \in DOMAIN ls /\ ls[n].remaining > 0 => s.lots[n] = ls[n]

(* How many portfolios a request has read, and what of them is still so.    *)
Reading(r) ==
    /\ \A q \in overlap[r] : pc[q] = "done"
    /\ pc[r] \notin Ending \union Ended => Len(seen[r]) = 0
    /\ req[r].op # "advise" => /\ pc[r] = "cash" => Len(seen[r]) = 0
                               /\ pc[r] \in {"positions", "commit"} => Len(seen[r]) = 1
    /\ req[r].op = "advise" => /\ pc[r] = "cash" => Len(seen[r]) \in {0, 1}
                               /\ pc[r] = "positions" => Len(seen[r]) \in {1, 2}
                               /\ pc[r] = "commit" => Len(seen[r]) = 2
    /\ pc[r] \in Ending =>
         \A k \in 1..Len(seen[r]) :
            /\ NamesEvents(seen[r][k], ActiveSeen(r), Later(r))
            /\ pc[r] # "positions" \/ k # Len(seen[r]) =>
                 NamesLots(seen[r][k], Written(lots, wrote[r]), Later(r))
    /\ pc[r] = "done" /\ req[r].op = "advise" =>
         \E A, ls : \A k \in {1, 2} : /\ NamesEvents(seen[r][k], A, Later(r))
                                      /\ NamesLots(seen[r][k], ls, Later(r))

(* The latest snapshot is that of an ended request and names the ledger     *)
(* except where others have changed it since.                               *)
LatestRead ==
    latest # NoRequest =>
        /\ pc[latest] = "done"
        /\ NamesEvents(seen[latest][1], active, Later(latest))
        /\ NamesLots(seen[latest][1], lots, Later(latest))

(* Both, on top of the tables.                                              *)
FInv == JInv /\ LatestRead /\ \A r \in Request : Reading(r)

(* Nothing has been read at the start.                                      *)
LEMMA InitFInv == Init => FInv
<1> SUFFICES ASSUME Init PROVE FInv
  OBVIOUS
<1>1. LatestRead
  BY DEF Init, LatestRead
<1>2. \A r \in Request : Reading(r)
  BY DEF Init, Reading, Ending, Between
<1> QED BY <1>1, <1>2, InitJInv DEF FInv

(* A request that takes a step has not ended.                               *)
LEMMA QuietIsNotDone ==
  ASSUME NEW r \in Request, Quiet(r)
  PROVE  pc[r] # "done" /\ (pc[r] = "idle" \/ pc[r] \in InFlight)
BY DEF Quiet, Arrive, ReadTotal, BeginCreate, BeginVoid, MarkVoided, SelectConsumptions,
       DeleteConsumptions, SelectLots, LockRow, ApplyToLots, ApplyCost, DeleteLots, RebuildLots,
       ReadCash, ReadPositions, StoreRun, Abort, InFlight, InTx

(* What others have committed stays what it was.                            *)
LEMMA LaterStays ==
  ASSUME FInv, NEW r \in Request, Quiet(r), NEW q \in Request, overlap'[q] = overlap[q]
  PROVE  Later(q)' = Later(q) /\ \A p \in overlap'[q] : pc'[p] = "done"
<1>1. \A p \in Request \ {r} : Still(p)
  BY QuietKeeps DEF FInv, JInv
<1>2. \A p \in overlap[q] : pc[p] = "done" /\ p \in Request
  BY DEF FInv, Reading, JInv, Tabled
<1>3. \A p \in overlap[q] : Still(p)
  BY <1>1, <1>2, QuietIsNotDone
<1>4. \A p \in overlap[q] : Changed(p)' = Changed(p)
  BY <1>3 DEF Still, Same, Changed
<1> QED BY <1>2, <1>3, <1>4 DEF Later, Still, Same

(* What another request has read stays as fresh as it was.                  *)
LEMMA OthersRead ==
  ASSUME FInv, NEW r \in Request, Quiet(r), NEW q \in Request, q # r
  PROVE  Reading(q)'
<1>1. Still(q) /\ UNCHANGED <<active, lots>>
  BY QuietKeeps DEF FInv, JInv
<1>2. Later(q)' = Later(q) /\ \A p \in overlap'[q] : pc'[p] = "done"
  BY <1>1, LaterStays DEF Still
<1>3. ActiveSeen(q)' = ActiveSeen(q) /\ Written(lots, wrote[q])' = Written(lots, wrote[q])
  BY <1>1 DEF ActiveSeen, IsVoid, Still, Same, Written
<1>4. Reading(q)
  BY DEF FInv
<1>5. \A k : /\ NamesEvents(seen[q][k], ActiveSeen(q), Later(q))' <=>
                NamesEvents(seen[q][k], ActiveSeen(q), Later(q))
             /\ NamesLots(seen[q][k], Written(lots, wrote[q]), Later(q))' <=>
                NamesLots(seen[q][k], Written(lots, wrote[q]), Later(q))
  BY <1>1, <1>2, <1>3 DEF Still, NamesEvents, NamesLots
<1>6. (pc[q] = "done" /\ req[q].op = "advise" =>
         \E A, ls : \A k \in {1, 2} : /\ NamesEvents(seen[q][k], A, Later(q))
                                      /\ NamesLots(seen[q][k], ls, Later(q)))'
  <2> SUFFICES ASSUME pc[q] = "done", req[q].op = "advise"
               PROVE  \E A, ls : \A k \in {1, 2} : /\ NamesEvents(seen'[q][k], A, Later(q)')
                                                   /\ NamesLots(seen'[q][k], ls, Later(q)')
    BY <1>1 DEF Still, Same
  <2>1. PICK A, ls : \A k \in {1, 2} : /\ NamesEvents(seen[q][k], A, Later(q))
                                       /\ NamesLots(seen[q][k], ls, Later(q))
    BY <1>4 DEF Reading
  <2>2. seen'[q] = seen[q]
    BY <1>1 DEF Still
  <2> QED BY <1>2, <2>1, <2>2
<1> QED BY <1>1, <1>2, <1>4, <1>5, <1>6 DEF Reading, Still, Same

(* A quiet step makes the latest snapshot no older.                         *)
LEMMA QuietLatest ==
  ASSUME FInv, NEW r \in Request, Quiet(r)
  PROVE  LatestRead'
<1> SUFFICES ASSUME latest' # NoRequest PROVE LatestRead'
  BY DEF LatestRead
<1>1. UNCHANGED <<active, lots, latest>> /\ \A p \in Request \ {r} : Still(p)
  BY QuietKeeps DEF FInv, JInv
<1>2. latest \in Request /\ pc[latest] = "done"
  BY <1>1 DEF FInv, LatestRead, JInv, Tabled
<1>3. Still(latest)
  BY <1>1, <1>2, QuietIsNotDone
<1>4. Later(latest)' = Later(latest)
  <2>1. Later(latest)' = UNION {Changed(q)' : q \in overlap'[latest]}
    BY <1>1 DEF Later
  <2>2. ASSUME NEW l \in Request, l = latest PROVE Later(l)' = Later(l)
    BY <1>3, <2>2, LaterStays DEF Still
  <2>3. \A l \in Request : l = latest => UNION {Changed(q)' : q \in overlap'[l]} = Later(l)
    BY <2>2 DEF Later
  <2> QED BY <1>2, <2>1, <2>3
<1>5. LatestRead
  BY DEF FInv
<1> QED BY <1>1, <1>3, <1>4, <1>5 DEF LatestRead, NamesEvents, NamesLots, Still, Same

(* What a request has read is a sequence of portfolios.                     *)
LEMMA SeenTypes ==
  ASSUME Tabled, NEW r \in Request
  PROVE  /\ Len(seen[r]) \in Nat /\ DOMAIN seen[r] = 1..Len(seen[r])
         /\ \E S : seen[r] \in Seq(S)
<1>1. PICK S : seen \in [Request -> Seq([events : SUBSET Nat, lots : S])]
  BY DEF Tabled
<1> DEFINE A == [events : SUBSET Nat, lots : S]
<1> HIDE DEF A
<1>2. seen[r] \in Seq(A)
  BY <1>1 DEF A
<1> QED BY <1>2

(* A statement that reads no portfolio.                                     *)
LEMMA NoReading ==
  ASSUME FInv, NEW r \in Request, Quiet(r), ~ReadCash(r), ~ReadPositions(r), ~StoreRun(r)
  PROVE  Reading(r)'
<1>1. CASE Rollback(r)
  <2>1. pc'[r] = "failed" /\ overlap'[r] = {}
    BY <1>1 DEF Rollback, Goto, FInv, JInv, IInv, Types, Tabled
  <2> QED BY <2>1 DEF Reading, Ending, Ended
<1>2. CASE ~Rollback(r)
  <2>1. overlap' = overlap /\ seen' = seen
    BY <1>2 DEF Quiet, Arrive, ReadTotal, BeginCreate, BeginVoid, MarkVoided, SelectConsumptions,
                DeleteConsumptions, SelectLots, LockRow, ApplyToLots, ApplyCost, DeleteLots, RebuildLots,
                Abort, local
  <2>2. \A p \in overlap'[r] : pc'[p] = "done"
    BY <2>1, LaterStays
  <2>3. pc[r] \notin Ending \union Ended
    BY <1>2, QuietIsNotDone
       DEF Quiet, Arrive, ReadTotal, BeginCreate, BeginVoid, MarkVoided, SelectConsumptions,
           DeleteConsumptions, SelectLots, LockRow, ApplyToLots, ApplyCost, DeleteLots, RebuildLots, Abort,
           Ending, Ended
  <2>4. Len(seen'[r]) = 0
    BY <2>1, <2>3 DEF FInv, Reading
  <2>5. pc'[r] \notin {"positions", "commit", "done"}
    <3>1. pc' = [pc EXCEPT ![r] = pc'[r]] /\ pc'[r] \in
            {"cash", "total", "begin", "failed", "select", "mark", "uncons", "unconsume", "delete",
             "lock", "replay", "reselect", "relock"}
      <4> USE DEF FInv, JInv, IInv, Types, Goto
      <4>1. CASE \E q \in Creates \union Voids \union {Advice} : Arrive(r, q)
        BY <4>1 DEF Arrive
      <4>2. CASE ReadTotal(r) \/ BeginCreate(r)
        BY <4>2 DEF ReadTotal, BeginCreate
      <4>3. CASE BeginVoid(r) \/ MarkVoided(r) \/ SelectConsumptions(r) \/ DeleteConsumptions(r)
        BY <1>2, <4>3 DEF BeginVoid, MarkVoided, SelectConsumptions, DeleteConsumptions
      <4>4. CASE SelectLots(r) \/ \E l \in todo[r] : LockRow(r, l)
        BY <4>4 DEF SelectLots, LockRow
      <4>5. CASE ApplyToLots(r) \/ ApplyCost(r) \/ DeleteLots(r) \/ RebuildLots(r)
        BY <1>2, <4>5 DEF ApplyToLots, ApplyCost, DeleteLots, RebuildLots
      <4> QED BY <1>2, <4>1, <4>2, <4>3, <4>4, <4>5 DEF Quiet, Abort
    <3> QED BY <3>1
  <2> QED BY <2>2, <2>4, <2>5 DEF Reading, Ending
<1> QED BY <1>1, <1>2

(* The statement that reads the cash.                                       *)
LEMMA CashRead ==
  ASSUME FInv, NEW r \in Request, ReadCash(r)
  PROVE  Reading(r)'
<1> DEFINE p == [events |-> ActiveSeen(r), lots |-> <<>>]
           n == Len(seen[r])
<1>1. /\ pc[r] = "cash" /\ pc'[r] = "positions"
      /\ UNCHANGED <<events, active, lots, req, row, wrote, overlap>>
  BY DEF ReadCash, Goto, FInv, JInv, IInv, Types, db
<1>2. Quiet(r)
  BY DEF Quiet
<1>3. Later(r)' = Later(r) /\ \A q \in overlap'[r] : pc'[q] = "done"
  BY <1>1, <1>2, LaterStays
<1>4. PICK S : seen[r] \in Seq(S)
  BY SeenTypes DEF FInv, JInv
<1>5. seen'[r] = Append(seen[r], p)
  BY DEF ReadCash, FInv, JInv, Tabled
<1> HIDE DEF p
<1>6. n \in Nat /\ Len(seen'[r]) = n + 1 /\ seen'[r][n + 1] = p /\ \A k \in 1..n : seen'[r][k] = seen[r][k]
  BY <1>4, <1>5
<1>7. Reading(r)
  BY DEF FInv
<1>8. ActiveSeen(r)' = ActiveSeen(r) /\ Written(lots, wrote[r])' = Written(lots, wrote[r])
  BY <1>1 DEF ActiveSeen, IsVoid, Written
<1>9. ASSUME NEW k \in 1..(n + 1)
      PROVE  /\ NamesEvents(seen'[r][k], ActiveSeen(r), Later(r))
             /\ k # n + 1 => NamesLots(seen'[r][k], Written(lots, wrote[r]), Later(r))
  <2>1. CASE k = n + 1
    BY <1>6, <2>1 DEF p, NamesEvents
  <2>2. CASE k # n + 1
    <3>1. k \in 1..n
      BY <1>6, <2>2
    <3> QED BY <1>1, <1>6, <1>7, <3>1 DEF Reading, Ending
  <2> QED BY <2>1, <2>2
<1>10. \A k \in 1..Len(seen'[r]) :
         /\ NamesEvents(seen'[r][k], ActiveSeen(r)', Later(r)')
         /\ k # Len(seen'[r]) => NamesLots(seen'[r][k], Written(lots, wrote[r])', Later(r)')
  BY <1>3, <1>6, <1>8, <1>9
<1>11. /\ req[r].op # "advise" => n = 0
       /\ req[r].op = "advise" => n \in {0, 1}
  BY <1>1, <1>7 DEF Reading
<1>12. /\ req'[r].op # "advise" => Len(seen'[r]) = 1
       /\ req'[r].op = "advise" => Len(seen'[r]) \in {1, 2}
  BY <1>1, <1>6, <1>11
<1> HIDE DEF n
<1> QED BY <1>1, <1>3, <1>10, <1>12 DEF Reading, Ending, Ended

(* The statement that reads the positions.                                  *)
LEMMA PositionsRead ==
  ASSUME FInv, NEW r \in Request, ReadPositions(r)
  PROVE  Reading(r)'
<1> DEFINE x == OpenIn(Written(lots, wrote[r]))
           n == Len(seen[r])
           p == [seen[r][n] EXCEPT !.lots = x]
<1>1. /\ pc[r] = "positions"
      /\ pc'[r] = (IF req[r].op = "advise" /\ n = 1 THEN "cash" ELSE "commit")
      /\ UNCHANGED <<events, active, lots, req, row, wrote, overlap>>
  BY DEF ReadPositions, Goto, FInv, JInv, IInv, Types, db
<1>2. Quiet(r)
  BY DEF Quiet
<1>3. Later(r)' = Later(r) /\ \A q \in overlap'[r] : pc'[q] = "done"
  BY <1>1, <1>2, LaterStays
<1>4. PICK S : seen \in [Request -> Seq([events : SUBSET Nat, lots : S])]
  BY DEF FInv, JInv, Tabled
<1> DEFINE A == [events : SUBSET Nat, lots : S]
<1>5. /\ n \in Nat /\ DOMAIN seen[r] = 1..n
      /\ \A k \in 1..n : seen[r][k] \in A
  <2> HIDE DEF A
  <2>1. seen[r] \in Seq(A)
    BY <1>4 DEF A
  <2> QED BY <2>1
<1>6. Reading(r)
  BY DEF FInv
<1>7. n >= 1 /\ (req[r].op # "advise" => n = 1) /\ (req[r].op = "advise" => n \in {1, 2})
  BY <1>1, <1>6 DEF Reading
<1>8. seen'[r] = [seen[r] EXCEPT ![n].lots = x]
  BY DEF ReadPositions, FInv, JInv, Tabled
<1>9. seen'[r] = [seen[r] EXCEPT ![n] = p]
  BY <1>8
<1>10. p.events = seen[r][n].events /\ p.lots = x
  <2>1. seen[r][n] \in A
    BY <1>5, <1>7
  <2> HIDE DEF x
  <2> QED BY <2>1
<1> HIDE DEF p, A
<1>11. Len(seen'[r]) = n /\ seen'[r][n] = p /\ \A k \in 1..n : k # n => seen'[r][k] = seen[r][k]
  <2>1. PICK T : seen[r] \in Seq(T)
    BY SeenTypes DEF FInv, JInv
  <2> HIDE DEF n
  <2>2. n \in 1..n /\ n \in DOMAIN seen[r] /\ DOMAIN seen[r] = 1..n
    BY <1>5, <1>7
  <2>3. DOMAIN seen'[r] = 1..n
    BY <1>9, <2>2
  <2>4. Len(seen'[r]) = n
    <3>1. seen'[r] \in Seq(T \union {p})
      <4>1. seen[r] \in Seq(T \union {p})
        BY <2>1
      <4> QED BY <1>9, <4>1, SeqExcept
    <3>2. DOMAIN seen'[r] = 1..Len(seen'[r]) /\ Len(seen'[r]) \in Nat
      BY <3>1
    <3> QED BY <1>5, <2>3, <3>2 DEF n
  <2> QED BY <1>9, <2>2, <2>4
<1>12. ActiveSeen(r)' = ActiveSeen(r) /\ Written(lots, wrote[r])' = Written(lots, wrote[r])
  BY <1>1 DEF ActiveSeen, IsVoid, Written
<1>13. ASSUME NEW k \in 1..n
       PROVE  /\ NamesEvents(seen'[r][k], ActiveSeen(r), Later(r))
              /\ NamesLots(seen'[r][k], Written(lots, wrote[r]), Later(r))
  <2>1. /\ NamesEvents(seen[r][k], ActiveSeen(r), Later(r))
        /\ k # n => NamesLots(seen[r][k], Written(lots, wrote[r]), Later(r))
    BY <1>1, <1>6 DEF Reading, Ending
  <2>2. CASE k # n
    BY <1>11, <2>1, <2>2
  <2>3. CASE k = n
    <3>1. NamesEvents(seen'[r][k], ActiveSeen(r), Later(r))
      BY <1>10, <1>11, <2>1, <2>3 DEF NamesEvents
    <3>2. NamesLots(seen'[r][k], Written(lots, wrote[r]), Later(r))
      BY <1>10, <1>11, <2>3 DEF NamesLots, OpenIn
    <3> QED BY <3>1, <3>2
  <2> QED BY <2>2, <2>3
<1>14. \A k \in 1..Len(seen'[r]) :
         /\ NamesEvents(seen'[r][k], ActiveSeen(r)', Later(r)')
         /\ NamesLots(seen'[r][k], Written(lots, wrote[r])', Later(r)')
  BY <1>3, <1>11, <1>12, <1>13
<1> QED BY <1>1, <1>3, <1>7, <1>11, <1>14 DEF Reading, Ending, Ended

(* A recommendation ends with two portfolios that agree with one ledger.    *)
LEMMA AdviceRead ==
  ASSUME FInv, NEW r \in Request, StoreRun(r)
  PROVE  Reading(r)'
<1>1. /\ pc[r] = "commit" /\ pc'[r] = "done" /\ req[r].op = "advise"
      /\ UNCHANGED <<events, active, lots, req, row, wrote, seen, overlap>>
  BY DEF StoreRun, Goto, FInv, JInv, IInv, Types, db, local
<1>2. Quiet(r)
  BY DEF Quiet
<1>3. Later(r)' = Later(r) /\ \A q \in overlap'[r] : pc'[q] = "done"
  BY <1>1, <1>2, LaterStays
<1>4. Reading(r)
  BY DEF FInv
<1>5. Len(seen[r]) = 2 /\ \A k \in 1..2 : /\ NamesEvents(seen[r][k], ActiveSeen(r), Later(r))
                                          /\ NamesLots(seen[r][k], Written(lots, wrote[r]), Later(r))
  BY <1>1, <1>4 DEF Reading, Ending
<1>6. \E A, ls : \A k \in {1, 2} : /\ NamesEvents(seen'[r][k], A, Later(r)')
                                   /\ NamesLots(seen'[r][k], ls, Later(r)')
  BY <1>1, <1>3, <1>5
<1> QED BY <1>1, <1>3, <1>6 DEF Reading, Ending, Ended

(* A commit changes the tables where Changed says, and nowhere else.        *)
LEMMA CommitChanges ==
  ASSUME JInv, NEW r \in Request, Commit(r), NEW n \in Nat \ Changed(r)
  PROVE  /\ n \in active' <=> n \in active
         /\ n \in DOMAIN lots' <=> n \in DOMAIN lots
         /\ n \in DOMAIN lots => lots'[n] = lots[n]
<1>1. active' = ActiveSeen(r) /\ lots' = Written(lots, wrote[r])
  BY DEF Commit
<1>2. n # row[r] /\ n # req[r].of /\ n \notin DOMAIN wrote[r].lots /\ n \notin wrote[r].gone
  BY DEF Changed
<1> QED BY <1>1, <1>2 DEF ActiveSeen, Written

(* A commit is added to what the requests in flight have missed, and is all *)
(* in the snapshot of its own request.                                      *)
LEMMA CommitRead ==
  ASSUME FInv, NEW r \in Request, Commit(r)
  PROVE  LatestRead' /\ \A q \in Request : Reading(q)'
<1>1. JInv /\ IInv /\ Tabled /\ Made(r) /\ Reading(r) /\ pc[r] = "commit" /\ req[r].op # "advise"
  BY DEF FInv, JInv, Commit
<1>2. /\ UNCHANGED <<events, req, row, total, todo, wrote, seen>> /\ latest' = r
      /\ pc'[r] = "done" /\ held'[r] = {} /\ overlap'[r] = overlap[r]
      /\ \A q \in Request \ {r} :
           /\ Same(q)
           /\ overlap'[q] = IF pc[q] \in InFlight THEN overlap[q] \union {r} ELSE overlap[q]
  BY <1>1, CommitKeeps
<1>3. ASSUME NEW q \in Request PROVE Changed(q)' = Changed(q) /\ Reading(q) /\ overlap[q] \subseteq Request
  BY <1>1, <1>2 DEF Changed, FInv, Tabled
<1>4. ASSUME NEW q \in Request
      PROVE  /\ \A p \in overlap'[q] : pc'[p] = "done"
             /\ Later(q)' = IF q # r /\ pc[q] \in InFlight THEN Later(q) \union Changed(r) ELSE Later(q)
  <2>1. overlap'[q] = IF q # r /\ pc[q] \in InFlight THEN overlap[q] \union {r} ELSE overlap[q]
    BY <1>2
  <2>2. \A p \in overlap'[q] : p \in Request /\ Changed(p)' = Changed(p)
    BY <1>3, <2>1
  <2>3. Later(q)' = UNION {Changed(p) : p \in overlap'[q]}
    BY <2>2 DEF Later
  <2>4. \A p \in overlap'[q] : pc'[p] = "done"
    <3> SUFFICES ASSUME NEW p \in overlap'[q], p # r PROVE pc'[p] = "done"
      BY <1>2
    <3>1. p \in overlap[q]
      BY <2>1
    <3>2. pc[p] = "done" /\ p \in Request
      BY <1>3, <3>1 DEF Reading
    <3> QED BY <1>2, <3>2 DEF Same
  <2> QED BY <2>1, <2>3, <2>4 DEF Later
<1>5. Reading(r)'
  BY <1>1, <1>2, <1>4 DEF Reading, Ending, Ended
<1>6. LatestRead'
  <2>1. /\ NamesEvents(seen[r][1], ActiveSeen(r), Later(r))
        /\ NamesLots(seen[r][1], Written(lots, wrote[r]), Later(r))
    BY <1>1 DEF Reading, Ending
  <2>2. active' = ActiveSeen(r) /\ lots' = Written(lots, wrote[r])
    BY DEF Commit
  <2>3. Later(r)' = Later(r)
    BY <1>4
  <2>4. /\ NamesEvents(seen'[r][1], active', Later(r)')
        /\ NamesLots(seen'[r][1], lots', Later(r)')
    BY <1>2, <2>1, <2>2, <2>3
  <2> QED BY <1>2, <2>4 DEF LatestRead, Later
<1>7. ASSUME NEW q \in Request \ {r}, pc[q] \in InFlight PROVE Reading(q)'
  <2>1. Same(q) /\ Reading(q) /\ seen' = seen
    BY <1>2, <1>3
  <2>2. Later(q)' = Later(q) \union Changed(r) /\ \A p \in overlap'[q] : pc'[p] = "done"
    BY <1>4, <1>7
  <2>3. \A n \in Nat \ Later(q)' : n \in ActiveSeen(q)' <=> n \in ActiveSeen(q)
    <3> SUFFICES ASSUME NEW n \in Nat \ Later(q)' PROVE n \in ActiveSeen(q)' <=> n \in ActiveSeen(q)
      OBVIOUS
    <3>1. n \in active' <=> n \in active
      BY <1>1, <2>2, CommitChanges
    <3> QED BY <2>1, <3>1 DEF ActiveSeen, IsVoid, Same
  <2> DEFINE ls == Written(lots, wrote[q])
             ms == Written(lots, wrote[q])'
  <2>4. \A n \in Nat \ Later(q)' : (n \in DOMAIN ms <=> n \in DOMAIN ls) /\ (n \in DOMAIN ls => ms[n] = ls[n])
    <3> SUFFICES ASSUME NEW n \in Nat \ Later(q)'
                 PROVE  (n \in DOMAIN ms <=> n \in DOMAIN ls) /\ (n \in DOMAIN ls => ms[n] = ls[n])
      OBVIOUS
    <3>1. (n \in DOMAIN lots' <=> n \in DOMAIN lots) /\ (n \in DOMAIN lots => lots'[n] = lots[n])
      BY <1>1, <2>2, CommitChanges
    <3> QED BY <1>2, <3>1 DEF Written
  <2> HIDE DEF ls, ms
  <2>5. \A k : NamesEvents(seen[q][k], ActiveSeen(q), Later(q)) => NamesEvents(seen[q][k], ActiveSeen(q)', Later(q)')
    BY <2>2, <2>3 DEF NamesEvents
  <2>6. \A k : NamesLots(seen[q][k], ls, Later(q)) => NamesLots(seen[q][k], ms, Later(q)')
    BY <2>2, <2>4 DEF NamesLots
  <2>7. pc[q] \in Ending => \A k \in 1..Len(seen[q]) :
            /\ NamesEvents(seen[q][k], ActiveSeen(q), Later(q))
            /\ pc[q] # "positions" \/ k # Len(seen[q]) => NamesLots(seen[q][k], ls, Later(q))
    BY <2>1 DEF Reading, ls
  <2>8. pc[q] \in Ending => \A k \in 1..Len(seen[q]) :
            /\ NamesEvents(seen[q][k], ActiveSeen(q)', Later(q)')
            /\ pc[q] # "positions" \/ k # Len(seen[q]) => NamesLots(seen[q][k], ms, Later(q)')
    BY <2>5, <2>6, <2>7
  <2>9. pc[q] # "done"
    BY <1>7 DEF InFlight, InTx
  <2> QED BY <2>1, <2>2, <2>8, <2>9 DEF Reading, Same, ms
<1>8. ASSUME NEW q \in Request \ {r}, pc[q] \notin InFlight PROVE Reading(q)'
  <2>1. Same(q) /\ Reading(q) /\ seen' = seen /\ overlap'[q] = overlap[q]
    BY <1>2, <1>3, <1>8
  <2>2. Later(q)' = Later(q) /\ \A p \in overlap'[q] : pc'[p] = "done"
    BY <1>4, <1>8
  <2>3. pc[q] \notin Ending
    BY <1>8 DEF Ending, Between, InFlight, InTx
  <2> QED BY <2>1, <2>2, <2>3 DEF Reading, Same
<1> QED BY <1>5, <1>6, <1>7, <1>8

(* Every step keeps what has been read that fresh.                          *)
LEMMA NextFInv == FInv /\ [Next]_vars => FInv'
<1> SUFFICES ASSUME FInv, [Next]_vars PROVE FInv'
  OBVIOUS
<1>1. JInv'
  BY NextJInv DEF FInv
<1>2. ASSUME NEW r \in Request, Quiet(r) PROVE LatestRead' /\ \A q \in Request : Reading(q)'
  BY <1>2, QuietLatest, OthersRead, NoReading, CashRead, PositionsRead, AdviceRead
<1>3. CASE UNCHANGED vars
  <2>1. UNCHANGED <<events, active, lots, latest, req, pc, row, wrote, seen, overlap>>
    BY <1>3 DEF vars, db, local
  <2>2. ASSUME NEW r \in Request PROVE Later(r)' = Later(r)
    BY <2>1 DEF Later, Changed
  <2>3. ASSUME NEW r \in Request PROVE ActiveSeen(r)' = ActiveSeen(r)
    BY <2>1 DEF ActiveSeen, IsVoid
  <2>4. ASSUME NEW r \in Request PROVE Written(lots, wrote[r])' = Written(lots, wrote[r])
    BY <2>1 DEF Written
  <2>5. ASSUME NEW r \in Request PROVE Reading(r)'
    <3>1. Reading(r)
      BY DEF FInv
    <3>2. /\ Later(r)' = Later(r) /\ ActiveSeen(r)' = ActiveSeen(r)
          /\ Written(lots, wrote[r])' = Written(lots, wrote[r])
      BY <2>2, <2>3, <2>4
    <3>3. seen' = seen /\ pc' = pc /\ req' = req /\ overlap' = overlap
      BY <2>1
    <3> QED BY <3>1, <3>2, <3>3, ZenonT(30) DEF Reading
  <2>6. LatestRead'
    <3>1. LatestRead /\ latest \in Request \union {NoRequest}
      BY DEF FInv, JInv, Tabled
    <3>2. latest \in Request => Later(latest)' = Later(latest)
      BY <2>1, <2>2 DEF Later, Changed
    <3> QED BY <2>1, <3>1, <3>2 DEF LatestRead, NamesEvents, NamesLots
  <2> QED BY <1>1, <2>5, <2>6 DEF FInv
<1> QED BY <1>1, <1>2, <1>3, CommitRead, NextSteps DEF FInv

(* It is that fresh in every reachable state.                               *)
LEMMA ReadingInvariant == Spec => []FInv
BY InitFInv, NextFInv, PTL DEF Spec

(* The latest snapshot is one of them.                                      *)
LEMMA FreshLatest == FInv => LatestMissesOnlyOverlaps
<1> SUFFICES ASSUME FInv PROVE LatestMissesOnlyOverlaps
  OBVIOUS
<1>1. DOMAIN events \subseteq Nat
  BY TableFacts DEF FInv, JInv
<1> QED BY <1>1 DEF LatestMissesOnlyOverlaps, FInv, LatestRead, NamesEvents, NamesLots, Later, OpenIn

(* However creates, voids and recommendations overlap, the latest snapshot  *)
(* misses at most what requests changed that committed while its own ran    *)
(* (ledger/portfolio.go, SnapshotTx).                                       *)
THEOREM LatestIsComplete == Spec => []LatestMissesOnlyOverlaps
BY ReadingInvariant, FreshLatest, PTL

(* So are the two portfolios of a recommendation.                           *)
LEMMA FreshAdvice == FInv => AdviceNamesItsInputs
<1> SUFFICES ASSUME FInv, NEW r \in Request, pc[r] = "done", req[r].op = "advise",
                    NEW n \in DOMAIN events \ Later(r)
             PROVE  /\ n \in seen[r][1].events <=> n \in seen[r][2].events
                    /\ n \in DOMAIN seen[r][1].lots <=> n \in DOMAIN seen[r][2].lots
                    /\ n \in DOMAIN seen[r][2].lots => seen[r][1].lots[n] = seen[r][2].lots[n]
  BY DEF AdviceNamesItsInputs, Later
<1>1. PICK A, ls : \A k \in {1, 2} : /\ NamesEvents(seen[r][k], A, Later(r))
                                     /\ NamesLots(seen[r][k], ls, Later(r))
  BY DEF FInv, Reading
<1>2. n \in Nat \ Later(r)
  BY TableFacts DEF FInv, JInv
<1>3. \A k \in {1, 2} : /\ n \in seen[r][k].events <=> n \in A
                        /\ n \in DOMAIN seen[r][k].lots <=> n \in DOMAIN ls /\ ls[n].remaining > 0
                        /\ n \in DOMAIN ls /\ ls[n].remaining > 0 => seen[r][k].lots[n] = ls[n]
  BY <1>1, <1>2 DEF NamesEvents, NamesLots
<1> QED BY <1>3

(* A recommendation computes from one portfolio and names the snapshot of   *)
(* another; the two differ at most in what was committed while it ran       *)
(* (recommend/service.go).                                                  *)
THEOREM AdviceIsConsistent == Spec => []AdviceNamesItsInputs
BY ReadingInvariant, FreshAdvice, PTL

-----------------------------------------------------------------------------
(* The splits asked for double, halve or otherwise divide what is held      *)
(* without a rest, and an event that only moves cash names no shares.       *)
PlainInputs ==
    \A e \in Inputs :
        /\ e.type = "split" => e.ratio[1] % e.ratio[2] = 0
        /\ e.type \in {"cash", "cash_dividend"} /\ e.asset # NoAsset => e.qty = 0

(* What is stored of them is signed by what it does to the shares.          *)
LEMMA PreparedSigned ==
  ASSUME PlainInputs, IInv, Tabled, NEW r \in Request, req[r].op = "create"
  PROVE  Signed(Prepared(r)) /\ Prepared(r) \in Event
<1>1. /\ req[r].event \in Inputs /\ Prepared(r) \in Event /\ Prepared(r).type = req[r].event.type
      /\ Prepared(r).asset = req[r].event.asset
      /\ Prepared(r).type \in {"sell", "capital_reduction"} => Prepared(r).qty <= 0
      /\ Prepared(r).type \in {"buy", "stock_dividend"} => Prepared(r).qty >= 0
      /\ Prepared(r).type \in {"cash", "cash_dividend"} => Prepared(r).qty = req[r].event.qty
  BY PreparedEvent DEF Tabled
<1> QED BY <1>1 DEF PlainInputs, Signed

(* A split event that others have overlapped.                               *)
LateSplit(n) == \E r \in Request : row[r] = n /\ events[n].type = "split" /\ overlap[r] # {}

(* The lots hold the shares of the events ids, one of which may excuse them.*)
AddsUp(ids, ls) ==
    (\E n \in ids : LateSplit(n)) \/ \A a \in Asset : Recorded(events, ids, a) = OpenShares(ls, a)

(* The lots that the void r leaves.                                         *)
Left(r) == Restrict(lots, DOMAIN lots \ held[r])

(* A split that nobody overlapped has counted the very shares it locks.     *)
SplitRead(r) ==
    req[r].op = "create" /\ req[r].event.type = "split" /\ overlap[r] = {} =>
        /\ pc[r] \in InFlight \ {"total"} => total[r] = OpenShares(lots, req[r].event.asset)
        /\ pc[r] \in {"lock"} \union Ending =>
             todo[r] \union held[r] = OpenLots(lots, req[r].event.asset)

(* The splits requests have stored touch lots; events that do not record no *)
(* shares.                                                                  *)
Touching ==
    /\ \A r \in Request : row[r] # 0 =>
         /\ req[r].op = "create" /\ row[r] \in DOMAIN events
         /\ events[row[r]].type = "split" => TouchesLots(events[row[r]])
    /\ \A n \in DOMAIN events :
         TouchesLots(events[n]) \/ events[n].asset = NoAsset \/ events[n].qty = 0

(* A void that has been through its replay.                                 *)
Deleting(r) == IsVoid(r) /\ pc[r] \in Ending

(* The shares add up now, and will when a void that has replayed commits;   *)
(* of two such voids one has seen that the event of the other is idle.      *)
SInv ==
    /\ JInv /\ Touching
    /\ \A r \in Request : SplitRead(r)
    /\ AddsUp(active, lots)
    /\ \A r \in Request : Deleting(r) => AddsUp(active \ {req[r].of}, Left(r))
    /\ \A r, q \in Request : r # q /\ Deleting(r) /\ Deleting(q) =>
         ~TouchesLots(events[req[r].of]) \/ ~TouchesLots(events[req[q].of])

(* The shares add up at the start.                                          *)
LEMMA InitSInv == Init => SInv
<1> SUFFICES ASSUME Init PROVE SInv
  OBVIOUS
<1>1. JInv
  BY InitJInv
<1>2. PICK p \in Past : events = p.events /\ active = DOMAIN p.events /\ lots = p.lots
  BY DEF Init
<1>3. \A a \in Asset : Recorded(events, active, a) = OpenShares(lots, a)
  BY <1>2, PastAssumption DEF Recorded
<1>4. Touching
  BY <1>2, PastAssumption DEF Touching, Init
<1>5. \A r \in Request : SplitRead(r) /\ ~Deleting(r)
  BY DEF Init, SplitRead, Deleting, Ending, Between, InFlight, InTx
<1>6. AddsUp(active, lots)
  BY <1>3 DEF AddsUp
<1> QED BY <1>1, <1>4, <1>5, <1>6 DEF SInv

(* Splits stay late, and events keep what they record.                      *)
LEMMA AddsUpStays ==
  ASSUME Grown, \A n \in active : LateSplit(n) => LateSplit(n)', active \subseteq DOMAIN events,
         NEW ids \in SUBSET active, NEW ls, AddsUp(ids, ls)
  PROVE  (\E n \in ids : LateSplit(n)') \/ \A a \in Asset : Recorded(events', ids, a) = OpenShares(ls, a)
<1>1. \A n \in ids : events'[n] = events[n]
  BY DEF Grown
<1>2. \A a : Recorded(events', ids, a) = Recorded(events, ids, a)
  BY <1>1, RecordedSame
<1> QED BY <1>2 DEF AddsUp

(* A split that was overlapped stays so when another request moves on.      *)
LEMMA LateStaysQuiet ==
  ASSUME SInv, NEW r \in Request, Quiet(r), NEW n \in active, LateSplit(n)
  PROVE  LateSplit(n)'
<1>1. PICK q \in Request : row[q] = n /\ events[n].type = "split" /\ overlap[q] # {}
  BY DEF LateSplit
<1>2. JInv /\ IInv /\ Tabled
  BY DEF SInv, JInv
<1>3. n \in DOMAIN events /\ n # 0
  BY <1>2, TableFacts
<1>4. Grown /\ \A p \in Request \ {r} : Still(p)
  BY <1>2, QuietKeeps
<1>5. q # r
  <2> SUFFICES ASSUME q = r PROVE FALSE
    OBVIOUS
  <2>1. req[r].op = "create"
    BY <1>1, <1>3 DEF SInv, Touching
  <2>2. pc[r] \in InTx
    <3>1. pc[r] = "idle" \/ pc[r] \in InFlight
      BY QuietIsNotDone
    <3>2. pc[r] \notin {"idle", "total", "begin"}
      BY <1>1, <1>2, <1>3 DEF IInv, Local, Place
    <3> QED BY <3>1, <3>2 DEF InFlight
  <2>3. row[r] \notin active
    BY <1>2, <2>1, <2>2 DEF IInv, Local, Creating
  <2> QED BY <1>1, <2>3
<1> QED BY <1>1, <1>3, <1>4, <1>5 DEF LateSplit, Still, Same, Grown

(* A commit makes splits late and none timely.                              *)
LEMMA LateStaysCommit ==
  ASSUME SInv, NEW r \in Request, Commit(r), NEW n, LateSplit(n)
  PROVE  LateSplit(n)'
<1>1. JInv /\ IInv /\ Tabled /\ Made(r)
  BY DEF SInv, JInv
<1>2. row' = row /\ events' = events /\ overlap'[r] = overlap[r]
      /\ \A q \in Request \ {r} :
           overlap'[q] = IF pc[q] \in InFlight THEN overlap[q] \union {r} ELSE overlap[q]
  BY <1>1, CommitKeeps
<1> QED BY <1>2 DEF LateSplit

(* The splits requests store touch lots.                                    *)
LEMMA TouchingStays ==
  ASSUME SInv, PlainInputs, NEW r \in Request, Quiet(r)
  PROVE  Touching'
<1>1. JInv /\ IInv /\ Tabled /\ Touching
  BY DEF SInv, JInv
<1>2. Grown /\ \A q \in Request \ {r} : Still(q)
  BY <1>1, QuietKeeps
<1>3. \A q \in Request \ {r} : row'[q] # 0 =>
        /\ req'[q].op = "create" /\ row'[q] \in DOMAIN events'
        /\ events'[row'[q]].type = "split" => TouchesLots(events'[row'[q]])
  BY <1>1, <1>2 DEF Touching, Still, Same, Grown
<1>4. CASE BeginCreate(r)
  <2> DEFINE e == Prepared(r)
             n == Len(events) + 1
  <2>1. req[r].op = "create" /\ req' = req
    BY <1>1, <1>4, CreateInput DEF BeginCreate
  <2>2. /\ Signed(e) /\ e \in Event /\ e.type \in EventTypes
        /\ e.type = "split" => e.asset \in Asset
    BY <1>1, <2>1, PreparedSigned, PreparedEvent, EventFields DEF Tabled
  <2>3. /\ e.type = "split" => TouchesLots(e)
        /\ TouchesLots(e) \/ e.asset = NoAsset \/ e.qty = 0
    <3> HIDE DEF e
    <3> QED BY <2>2, NoAssetAssumption DEF TouchesLots, Signed, EventTypes
  <2>4. row'[r] = n /\ events' = Append(events, e)
    BY <1>1, <1>4 DEF BeginCreate, IInv, Types
  <2>5. DOMAIN events' = DOMAIN events \union {n} /\ events'[n] = e /\ n # 0
        /\ \A m \in DOMAIN events : events'[m] = events[m]
    <3> HIDE DEF e
    <3> QED BY <1>1, <2>2, <2>4 DEF Tabled
  <2> HIDE DEF e, n
  <2> QED BY <1>1, <1>3, <2>1, <2>3, <2>4, <2>5 DEF Touching
<1>5. CASE ~BeginCreate(r)
  <2>1. events' = events
    BY <1>5 DEF Quiet, Arrive, ReadTotal, BeginVoid, MarkVoided, SelectConsumptions,
                DeleteConsumptions, SelectLots, LockRow, ApplyToLots, ApplyCost, DeleteLots, RebuildLots,
                ReadCash, ReadPositions, StoreRun, Abort, Rollback
  <2>2. row'[r] = 0 \/ (row'[r] = row[r] /\ req'[r] = req[r])
    <3>1. CASE Rollback(r)
      BY <1>1, <3>1 DEF Rollback, IInv, Types
    <3>2. CASE \E q \in Creates \union Voids \union {Advice} : Arrive(r, q)
      <4>1. pc[r] = "idle" /\ row' = row
        BY <3>2 DEF Arrive
      <4>2. Place(r)
        BY <1>1 DEF IInv, Local
      <4> QED BY <4>1, <4>2 DEF Place
    <3>3. CASE ~Rollback(r) /\ ~\E q \in Creates \union Voids \union {Advice} : Arrive(r, q)
      BY <1>5, <3>3 DEF Quiet, ReadTotal, BeginVoid, MarkVoided, SelectConsumptions,
                DeleteConsumptions, SelectLots, LockRow, ApplyToLots, ApplyCost, DeleteLots, RebuildLots,
                ReadCash, ReadPositions, StoreRun, Abort, local
    <3> QED BY <3>1, <3>2, <3>3
  <2> QED BY <1>1, <1>3, <2>1, <2>2 DEF Touching
<1> QED BY <1>4, <1>5

(* A split that nobody overlapped goes on to lock what it has counted.      *)
LEMMA SplitReadStays ==
  ASSUME SInv, NEW r \in Request, Quiet(r)
  PROVE  SplitRead(r)'
<1>1. JInv /\ IInv /\ Tabled /\ Place(r) /\ SplitRead(r) /\ Made(r)
  BY DEF SInv, JInv, IInv, Local
<1>2. UNCHANGED <<active, lots>>
  BY <1>1, QuietKeeps
<1>12. req[r].op = "create" /\ req[r].event.type = "split" => pc[r] \notin Between
  <2> SUFFICES ASSUME req[r].op = "create", pc[r] \in Between PROVE req[r].event.type = "adjustment"
    OBVIOUS
  <2>1. pc[r] \in InTx
    BY DEF Between, InTx
  <2>2. Recosts(events[row[r]]) /\ events[row[r]] = Prepared(r)
    BY <1>1, <2>1 DEF IInv, Local, Creating, Made
  <2>3. Prepared(r).type = req[r].event.type
    BY <1>1, PreparedEvent DEF Tabled
  <2> QED BY <2>2, <2>3 DEF Recosts
<1> USE DEF SplitRead, Goto
<1>3. CASE Rollback(r)
  <2>1. pc'[r] = "failed"
    BY <1>1, <1>3 DEF Rollback, IInv, Types
  <2> QED BY <2>1 DEF InFlight, InTx, Ending, Between
<1>4. ASSUME NEW q \in Creates \union Voids \union {Advice}, Arrive(r, q)
      PROVE  SplitRead(r)'
  <2>1. req'[r] = q /\ pc'[r] = (CASE q.op = "advise" -> "cash"
                                   [] q.event.type = "split" -> "total"
                                   [] OTHER -> "begin")
    BY <1>1, <1>4 DEF Arrive, IInv, Types
  <2>2. q.op = "create" /\ q.event.type = "split" => pc'[r] = "total"
    BY <2>1
  <2> QED BY <2>1, <2>2 DEF Ending, Between
<1>5. CASE ReadTotal(r)
  BY <1>1, <1>2, <1>5 DEF ReadTotal, Ending, Between, Tabled, IInv, Types, InFlight, InTx
<1>6. CASE BeginCreate(r)
  <2>1. pc[r] = "begin" /\ req' = req /\ total' = total /\ overlap' = overlap
    BY <1>6 DEF BeginCreate
  <2>2. req[r].op = "create" /\ req[r].event.type = "split" => pc'[r] = "select"
    <3> SUFFICES ASSUME req[r].op = "create", req[r].event.type = "split" PROVE pc'[r] = "select"
      OBVIOUS
    <3> DEFINE e == Prepared(r)
    <3>1. e.type = "split" /\ e.asset \in Asset /\ e \in Event
      BY <1>1, PreparedEvent DEF Tabled
    <3>2. Locks(e)
      <4> HIDE DEF e
      <4> QED BY <3>1, SharesOfEvent, NoAssetAssumption DEF Locks, Opens, TouchesLots
    <3> HIDE DEF e
    <3>3. pc' = [pc EXCEPT ![r] = IF Locks(e) THEN "select"
                                  ELSE IF Recosts(e) THEN "reselect" ELSE "cash"]
      BY <1>6 DEF BeginCreate, e
    <3> QED BY <1>1, <3>2, <3>3 DEF IInv, Types
  <2> QED BY <1>1, <1>2, <2>1, <2>2 DEF Ending, Between, InFlight, InTx
<1>7. CASE BeginVoid(r) \/ MarkVoided(r) \/ SelectConsumptions(r) \/ DeleteConsumptions(r)
           \/ DeleteLots(r) \/ RebuildLots(r)
  <2>1. req' = req /\ IsVoid(r)
    BY <1>1, <1>7 DEF BeginVoid, MarkVoided, SelectConsumptions, DeleteConsumptions, DeleteLots,
                 RebuildLots, Rollback, local, Place
  <2> QED BY <2>1 DEF IsVoid
<1>8. CASE SelectLots(r)
  <2>1. /\ pc[r] \in {"delete", "select", "reselect"} /\ UNCHANGED <<req, total, held, overlap>>
        /\ pc'[r] = (IF pc[r] = "reselect" THEN "relock" ELSE "lock")
        /\ todo'[r] = (IF IsVoid(r) THEN DOMAIN lots
                       ELSE OpenLots(lots, req[r].event.asset) \ held[r])
    BY <1>1, <1>8 DEF SelectLots, IInv, Types
  <2> SUFFICES ASSUME req[r].op = "create", req[r].event.type = "split", overlap[r] = {}
               PROVE  /\ total[r] = OpenShares(lots, req[r].event.asset)
                      /\ todo'[r] \union held[r] = OpenLots(lots, req[r].event.asset)
    BY <1>2, <2>1
  <2>2. pc[r] \in {"delete", "select"}
    BY <1>12, <2>1 DEF Between
  <2>3. held[r] = {}
    BY <1>1, <2>2 DEF Place, Ending, Between
  <2> QED BY <1>1, <2>1, <2>2, <2>3 DEF IsVoid, InFlight, InTx
<1>9. ASSUME NEW l \in todo[r], LockRow(r, l)
      PROVE  SplitRead(r)'
  <2>1. /\ pc[r] \in {"lock", "relock"} /\ pc' = pc /\ UNCHANGED <<req, total, overlap>>
        /\ held'[r] = (IF l \in DOMAIN lots /\ (IsVoid(r) \/ lots[l].remaining > 0)
                       THEN held[r] \union {l} ELSE held[r])
        /\ todo'[r] = todo[r] \ {l}
    BY <1>1, <1>9 DEF LockRow, IInv, Types
  <2> SUFFICES ASSUME req[r].op = "create", req[r].event.type = "split", overlap[r] = {}
               PROVE  /\ total[r] = OpenShares(lots, req[r].event.asset)
                      /\ todo'[r] \union held'[r] = OpenLots(lots, req[r].event.asset)
    BY <1>2, <2>1
  <2>2. pc[r] = "lock"
    BY <1>12, <2>1 DEF Between
  <2>3. /\ total[r] = OpenShares(lots, req[r].event.asset)
        /\ todo[r] \union held[r] = OpenLots(lots, req[r].event.asset)
    BY <1>1, <2>2 DEF InFlight, InTx
  <2>4. l \in DOMAIN lots /\ lots[l].remaining > 0
    BY <2>3 DEF OpenLots
  <2> QED BY <2>1, <2>3, <2>4
<1>10. CASE (ApplyToLots(r) /\ ~Rollback(r)) \/ ReadCash(r) \/ ReadPositions(r)
  <2>1. /\ pc[r] \in {"lock"} \union Ending /\ pc[r] \in InFlight \ {"total"}
        /\ UNCHANGED <<req, total, todo, held, overlap>>
    BY <1>10 DEF ApplyToLots, ReadCash, ReadPositions, Ending, Between, InFlight, InTx
  <2> QED BY <1>1, <1>2, <2>1
<1>11. CASE StoreRun(r)
  BY <1>11 DEF StoreRun, local
<1>13. CASE ApplyCost(r)
  <2>1. pc[r] \in Between /\ req' = req
    BY <1>13 DEF ApplyCost, Between
  <2> QED BY <1>12, <2>1
<1> QED BY <1>3, <1>4, <1>5, <1>6, <1>7, <1>8, <1>9, <1>10, <1>11, <1>13 DEF Quiet, Abort

(* Events that record nothing can be left out.                              *)
LEMMA IdleDropped ==
  ASSUME JInv, Touching, NEW ids \in SUBSET active, NEW ls, AddsUp(ids, ls),
         NEW n \in DOMAIN events, ~TouchesLots(events[n])
  PROVE  AddsUp(ids \ {n}, ls)
<1>1. IInv /\ Tabled
  BY DEF JInv
<1>2. ASSUME NEW m \in ids, LateSplit(m) PROVE m \in ids \ {n} /\ LateSplit(m)
  <2>1. m # 0
    BY <1>1, TableFacts
  <2> QED BY <1>2, <2>1 DEF LateSplit, Touching
<1>3. ASSUME NEW a \in Asset PROVE Recorded(events, ids \ {n}, a) = Recorded(events, ids, a)
  <2>1. CASE n \notin ids
    <3>1. ids \ {n} = ids
      BY <2>1
    <3> QED BY <3>1
  <2>2. CASE n \in ids
    <3>1. IsFiniteSet(ids) /\ \A j \in ids : events[j] \in Event
      BY <1>1, TableFacts, FS_Subset
    <3>2. \A j \in ids : events[j].qty \in Int
      BY <3>1, EventFields
    <3>3. events[n].asset = NoAsset \/ events[n].qty = 0
      BY DEF Touching
    <3>4. a # NoAsset
      BY NoAssetAssumption
    <3>5. /\ events[n].asset = a => Recorded(events, ids, a) = Recorded(events, ids \ {n}, a) + events[n].qty
          /\ events[n].asset # a => Recorded(events, ids, a) = Recorded(events, ids \ {n}, a)
      BY <2>2, <3>1, <3>2, RecordedAdd
    <3>6. Recorded(events, ids \ {n}, a) \in Int
      <4>1. IsFiniteSet(ids \ {n})
        BY <3>1, FS_Subset
      <4> QED BY <3>1, <4>1, RecordedInt
    <3> QED BY <3>3, <3>4, <3>5, <3>6
  <2> QED BY <2>1, <2>2
<1> QED BY <1>2, <1>3 DEF AddsUp

(* Idle events record no shares at all.                                     *)
LEMMA IdleRecordsNothing ==
  ASSUME JInv, NEW ids \in SUBSET active, NEW a \in Asset,
         \A n \in ids : events[n].asset = NoAsset \/ events[n].qty = 0
  PROVE  Recorded(events, ids, a) = 0
<1> DEFINE S == {i \in ids : events[i].asset = a}
           f == [i \in S |-> events[i].qty]
<1>1. IsFiniteSet(S)
  BY TableFacts, FS_Subset DEF JInv
<1>2. \A x \in S : f[x] = 0
  BY NoAssetAssumption
<1>3. Recorded(events, ids, a) = SumFunctionOnSet(f, S)
  BY DEF Recorded, SumFunction
<1> HIDE DEF f, S
<1> QED BY <1>1, <1>2, <1>3, SumZero

(* The replay of a void runs into nothing that touches lots.                *)
LEMMA RebuildAddsUp ==
  ASSUME SInv, NEW r \in Request, RebuildLots(r), ~Rollback(r)
  PROVE  /\ AddsUp(active \ {req[r].of}, Left(r))
         /\ \A q \in Request \ {r} : Deleting(q) => ~TouchesLots(events[req[q].of])
<1>1. JInv /\ IInv /\ Tabled /\ Touching
  BY DEF SInv, JInv
<1>2. pc[r] = "replay" /\ IsVoid(r) /\ \A n \in active \ {req[r].of} : ~TouchesLots(events[n])
  BY <1>1 DEF RebuildLots, IInv, Local, Place
<1>3. \A n \in active \ {req[r].of} : events[n].asset = NoAsset \/ events[n].qty = 0
  BY <1>1, <1>2, TableFacts DEF Touching
<1>4. DOMAIN lots \subseteq held[r]
  <2> SUFFICES ASSUME NEW n \in DOMAIN lots PROVE n \in held[r]
    OBVIOUS
  <2>1. n \in active /\ n \in DOMAIN events /\ Opens(events[n]) /\ Stored(events[n])
    BY <1>1 DEF IInv, LotsOfActiveEvents, Types
  <2>2. n = req[r].of
    BY <1>2, <2>1, OpeningTouches
  <2>3. Opened(r) => req[r].of \in held[r]
    BY <1>1, <1>2 DEF IInv, Local, Voiding, InTx
  <2> QED BY <2>1, <2>2, <2>3 DEF Opened
<1>5. DOMAIN Left(r) = {}
  BY <1>4 DEF Left, Restrict
<1>6. AddsUp(active \ {req[r].of}, Left(r))
  <2>1. \A a \in Asset : Recorded(events, active \ {req[r].of}, a) = 0 /\ OpenShares(Left(r), a) = 0
    BY <1>1, <1>3, <1>5, IdleRecordsNothing, NoLotsNoShares
  <2> QED BY <2>1 DEF AddsUp
<1>7. ASSUME NEW q \in Request \ {r}, Deleting(q) PROVE ~TouchesLots(events[req[q].of])
  <2>1. req[q].of \in active
    BY <1>1, <1>7 DEF Deleting, IInv, Local, Voiding, Ending, Between, InTx
  <2>2. req[q].of # req[r].of
    <3>1. Alone(r, q)
      BY <1>1 DEF IInv
    <3> QED BY <1>2, <1>7, <3>1 DEF Alone, Marks, Deleting, Ending, Between, InTx, IsVoid
  <2> QED BY <1>2, <2>1, <2>2
<1> QED BY <1>6, <1>7

(* A quiet step keeps the shares.                                           *)
LEMMA QuietSInv ==
  ASSUME SInv, PlainInputs, NEW r \in Request, Quiet(r)
  PROVE  SInv'
<1>1. JInv /\ IInv /\ Tabled /\ Touching /\ active \subseteq DOMAIN events
  BY TableFacts DEF SInv, JInv
<1>2. /\ Grown /\ UNCHANGED <<active, lots>> /\ \A q \in Request \ {r} : Still(q)
  BY <1>1, QuietKeeps
<1>3. JInv'
  <2>1. [Next]_vars
    BY DEF Next, Statement, Quiet
  <2> QED BY <1>1, <2>1, NextJInv
<1>4. Touching'
  BY TouchingStays
<1>5. \A q \in Request : SplitRead(q)'
  <2>1. ASSUME NEW q \in Request \ {r} PROVE SplitRead(q)'
    <3>1. Still(q) /\ SplitRead(q) /\ lots' = lots
      BY <1>2 DEF SInv
    <3> QED BY <3>1 DEF SplitRead, Still, Same
  <2> QED BY <2>1, SplitReadStays
<1>6. ASSUME NEW ids \in SUBSET active, NEW ls, AddsUp(ids, ls)
      PROVE  (\E n \in ids : LateSplit(n)') \/ \A a \in Asset : Recorded(events', ids, a) = OpenShares(ls, a)
  BY <1>1, <1>2, <1>6, LateStaysQuiet, AddsUpStays
<1>7. AddsUp(active, lots)'
  <2>1. AddsUp(active, lots)
    BY DEF SInv
  <2>2. (\E n \in active : LateSplit(n)') \/ \A a \in Asset : Recorded(events', active, a) = OpenShares(lots, a)
    BY <1>6, <2>1
  <2> QED BY <1>2, <2>2 DEF AddsUp
<1>8. Deleting(r)' =>
         /\ Deleting(r) \/ (RebuildLots(r) /\ ~Rollback(r))
         /\ held'[r] = held[r] /\ req'[r] = req[r]
  <2>1. CASE Rollback(r)
    BY <1>1, <2>1 DEF Rollback, Goto, IInv, Types, Deleting, Ending, Between
  <2>2. CASE RebuildLots(r) /\ ~Rollback(r)
    BY <2>2 DEF RebuildLots, local
  <2>3. CASE ReadCash(r) \/ ReadPositions(r)
    BY <2>3 DEF ReadCash, ReadPositions, Deleting, IsVoid, Ending, Between
  <2>4. CASE BeginCreate(r) \/ StoreRun(r) \/ ApplyToLots(r)
    BY <2>4 DEF BeginCreate, StoreRun, ApplyToLots, Rollback, Deleting, IsVoid, local
  <2>8. CASE ApplyCost(r)
    <3>1. req' = req /\ pc[r] \in Between
      BY <2>8 DEF ApplyCost, Between
    <3>2. req[r].op = "create"
      BY <1>1, <3>1 DEF IInv, Local, Place
    <3> QED BY <3>1, <3>2 DEF Deleting, IsVoid
  <2>5. CASE ReadTotal(r) \/ BeginVoid(r) \/ MarkVoided(r) \/ SelectConsumptions(r)
             \/ DeleteConsumptions(r) \/ SelectLots(r) \/ DeleteLots(r)
    BY <1>1, <2>1, <2>5 DEF ReadTotal, BeginVoid, MarkVoided, SelectConsumptions, DeleteConsumptions,
                 SelectLots, DeleteLots, Goto, IInv, Types, Deleting, Ending, Between
  <2>6. ASSUME NEW l \in todo[r], LockRow(r, l) PROVE ~Deleting(r)'
    BY <2>6 DEF LockRow, Deleting, Ending, Between
  <2>7. ASSUME NEW q \in Creates \union Voids \union {Advice}, Arrive(r, q) PROVE ~Deleting(r)'
    <3>1. req'[r] = q /\ pc'[r] = (CASE q.op = "advise" -> "cash"
                                     [] q.event.type = "split" -> "total"
                                     [] OTHER -> "begin")
      BY <1>1, <2>7 DEF Arrive, Goto, IInv, Types
    <3>2. q.op = "void" => pc'[r] \in {"total", "begin"}
      BY <3>1
    <3> QED BY <3>1, <3>2 DEF Deleting, IsVoid, Ending, Between
  <2> QED BY <2>1, <2>2, <2>3, <2>4, <2>5, <2>6, <2>7, <2>8 DEF Quiet, Abort
<1>9. ASSUME NEW q \in Request, Deleting(q)'
      PROVE  /\ AddsUp(active \ {req[q].of}, Left(q)) /\ req'[q] = req[q] /\ Left(q)' = Left(q)
             /\ Deleting(q) \/ (q = r /\ RebuildLots(r) /\ ~Rollback(r))
             /\ req[q].of \in active
  <2>1. /\ Deleting(q) \/ (q = r /\ RebuildLots(r) /\ ~Rollback(r))
        /\ req'[q] = req[q] /\ held'[q] = held[q]
    <3>1. CASE q = r
      BY <1>8, <1>9, <3>1
    <3>2. CASE q # r
      BY <1>2, <1>9, <3>2 DEF Still, Same, Deleting, IsVoid
    <3> QED BY <3>1, <3>2
  <2>2. AddsUp(active \ {req[q].of}, Left(q))
    BY <2>1, RebuildAddsUp DEF SInv
  <2>3. Left(q)' = Left(q)
    BY <1>2, <2>1 DEF Left
  <2>4. req[q].of \in active
    <3>1. pc[q] \in InTx \ {"mark"} /\ IsVoid(q)
      BY <1>1, <2>1 DEF Deleting, RebuildLots, Ending, Between, InTx, IInv, Local, Place
    <3> QED BY <1>1, <3>1 DEF IInv, Local, Voiding
  <2> QED BY <2>1, <2>2, <2>3, <2>4
<1>10. \A q \in Request : Deleting(q)' => AddsUp(active \ {req[q].of}, Left(q))'
  <2> SUFFICES ASSUME NEW q \in Request, Deleting(q)' PROVE AddsUp(active \ {req[q].of}, Left(q))'
    OBVIOUS
  <2> DEFINE ids == active \ {req[q].of}
  <2>1. AddsUp(ids, Left(q)) /\ ids' = ids /\ Left(q)' = Left(q)
    BY <1>2, <1>9
  <2>2. (\E n \in ids : LateSplit(n)') \/ \A a \in Asset : Recorded(events', ids, a) = OpenShares(Left(q), a)
    BY <1>6, <2>1
  <2> QED BY <2>1, <2>2 DEF AddsUp
<1>11. \A p, q \in Request : p # q /\ Deleting(p)' /\ Deleting(q)' =>
         ~TouchesLots(events'[req'[p].of]) \/ ~TouchesLots(events'[req'[q].of])
  <2> SUFFICES ASSUME NEW p \in Request, NEW q \in Request, p # q, Deleting(p)', Deleting(q)'
               PROVE  ~TouchesLots(events'[req'[p].of]) \/ ~TouchesLots(events'[req'[q].of])
    OBVIOUS
  <2>1. /\ req'[p] = req[p] /\ req'[q] = req[q]
        /\ events'[req[p].of] = events[req[p].of] /\ events'[req[q].of] = events[req[q].of]
    BY <1>1, <1>2, <1>9 DEF Grown
  <2>2. CASE Deleting(p) /\ Deleting(q)
    <3>1. ~TouchesLots(events[req[p].of]) \/ ~TouchesLots(events[req[q].of])
      BY <2>2 DEF SInv
    <3> QED BY <2>1, <3>1
  <2>3. CASE q = r /\ RebuildLots(r) /\ ~Rollback(r)
    <3>1. Deleting(p)
      BY <1>9, <2>3
    <3>2. ~TouchesLots(events[req[p].of])
      BY <2>3, <3>1, RebuildAddsUp
    <3> QED BY <2>1, <3>2
  <2>4. CASE p = r /\ RebuildLots(r) /\ ~Rollback(r)
    <3>1. Deleting(q)
      BY <1>9, <2>4
    <3>2. ~TouchesLots(events[req[q].of])
      BY <2>4, <3>1, RebuildAddsUp
    <3> QED BY <2>1, <3>2
  <2> QED BY <1>9, <2>2, <2>3, <2>4
<1> QED BY <1>3, <1>4, <1>5, <1>7, <1>10, <1>11 DEF SInv

(* A create moves the shares of the lots it has locked by what its event    *)
(* records, unless that is a split that others have overlapped.             *)
LEMMA CreateDelta ==
  ASSUME SInv, PlainInputs, NEW r \in Request, req[r].op = "create", Commit(r),
         req[r].event.type = "split" => overlap[r] = {}, NEW a \in Asset
  PROVE  OpenShares(wrote[r].lots, a)
           = OpenShares(Restrict(lots, held[r]), a)
               + (IF events[row[r]].asset = a THEN events[row[r]].qty ELSE 0)
<1> DEFINE e == events[row[r]]
           in == req[r].event
           gs == Restrict(lots, held[r])
           ms == wrote[r].lots
<1>1. JInv /\ IInv /\ Tabled /\ Made(r) /\ SplitRead(r) /\ Place(r)
  BY DEF SInv, JInv, IInv, Local
<1>2. pc[r] = "commit" /\ pc[r] \in InTx /\ pc[r] \in Ending /\ pc[r] \in InFlight \ {"total"}
  BY DEF Commit, InTx, Ending, InFlight
<1>3. e = Prepared(r) /\ e \in Event /\ Signed(e)
  BY <1>1, <1>2, PreparedSigned DEF Made
<1>4. Base(r) = gs /\ LotsOK(gs)
  <2>1. DOMAIN wrote[r].lots \ {row[r]} = held[r] /\ held[r] \subseteq DOMAIN lots
    BY <1>1, CreateWrites
  <2> QED BY <1>1, <2>1, TableFacts, RestrictOK DEF Base
<1>5. MovesShares(e, gs, ms)
  BY <1>1, <1>2, <1>3, <1>4 DEF Made
<1>6. CASE ~(e.type = "split" /\ e.asset = a)
  <2> HIDE DEF e, gs, ms
  <2>1. OpenShares(ms, a) = OpenShares(gs, a) + (IF e.asset = a THEN e.qty ELSE 0)
    BY <1>5, <1>6 DEF MovesShares
  <2> QED BY <2>1 DEF e, gs, ms
<1>7. CASE e.type = "split" /\ e.asset = a
  <2>1. /\ in \in Inputs /\ in \in Event /\ e.type = in.type /\ e.asset = in.asset
        /\ e.ratio = in.ratio
        /\ e.qty = (total[r] * e.ratio[1]) \div e.ratio[2] - total[r]
    BY <1>1, <1>3, <1>7, PreparedEvent DEF Tabled
  <2>2. e.ratio[1] \in Nat /\ e.ratio[2] \in Nat \ {0} /\ e.ratio[1] % e.ratio[2] = 0
    <3>1. in.ratio[1] % in.ratio[2] = 0
      BY <1>7, <2>1 DEF PlainInputs
    <3> QED BY <1>3, <2>1, <3>1, EventFields
  <2>3. total[r] = OpenShares(lots, a) /\ held[r] = OpenLots(lots, a) /\ total[r] \in Nat
    <3>1. overlap[r] = {} /\ in.type = "split" /\ in.asset = a /\ todo[r] = {}
      BY <1>1, <1>2, <1>7, <2>1 DEF Place
    <3> QED BY <1>1, <1>2, <3>1 DEF SplitRead, Tabled
  <2>4. OpenLots(gs, a) = OpenLots(lots, a) /\ \A l \in OpenLots(lots, a) : gs[l] = lots[l]
    BY <2>3 DEF OpenLots, Restrict
  <2>5. OpenShares(gs, a) = OpenShares(lots, a)
    <3>1. [l \in OpenLots(gs, a) |-> gs[l].remaining]
            = [l \in OpenLots(lots, a) |-> lots[l].remaining]
      BY <2>4
    <3> QED BY <3>1 DEF OpenShares
  <2>6. \A l \in OpenLots(gs, a) : (gs[l].remaining * e.ratio[1]) % e.ratio[2] = 0
    <3> SUFFICES ASSUME NEW l \in OpenLots(gs, a)
                 PROVE  (gs[l].remaining * e.ratio[1]) % e.ratio[2] = 0
      OBVIOUS
    <3>1. gs[l].remaining \in Nat
      BY <1>4, OpenFacts
    <3> QED BY <2>2, <3>1, WholeMultiple
  <2> DEFINE x == OpenShares(gs, a)
             k == e.ratio[1]
             d == e.ratio[2]
  <2>7. OpenShares(ms, a) = (x * k) \div d
    <3> HIDE DEF e, gs, ms
    <3> QED BY <1>5, <1>7, <2>6 DEF MovesShares
  <2>8. x \in Nat /\ e.qty = (x * k) \div d - x /\ k \in Nat /\ d \in Nat \ {0}
    BY <2>1, <2>2, <2>3, <2>5
  <2> HIDE DEF x, k, d, e
  <2>9. (x * k) \div d \in Int
    <3>1. x * k \in Int
      BY <2>8
    <3> QED BY <2>8, <3>1, Divides
  <2>10. OpenShares(ms, a) = x + e.qty
    BY <2>7, <2>8, <2>9
  <2> QED BY <1>7, <2>10 DEF x, e
<1> QED BY <1>6, <1>7

(* The table ns is ls, where ms was written over the lots H.                *)
Overwritten(ls, H, ms, ns) ==
  /\ LotsOK(ls) /\ H \in SUBSET DOMAIN ls /\ LotsOK(ms)
  /\ DOMAIN ms \intersect (DOMAIN ls \ H) = {}
  /\ DOMAIN ns = (DOMAIN ls \ H) \union DOMAIN ms
  /\ \A n \in DOMAIN ns : ns[n] = IF n \in DOMAIN ms THEN ms[n] ELSE ls[n]

(* Its shares are those of ls but for what was written.                     *)
LEMMA OverwrittenShares ==
  ASSUME NEW ls, NEW H, NEW ms, NEW ns, Overwritten(ls, H, ms, ns), NEW a
  PROVE  OpenShares(ns, a) = OpenShares(ls, a) - OpenShares(Restrict(ls, H), a) + OpenShares(ms, a)
BY LotsOverwritten DEF Overwritten

(* The commit of an event, seen beside lots G that nobody of it has locked. *)
LEMMA CreateAddsUp ==
  ASSUME SInv, PlainInputs, NEW r \in Request, req[r].op = "create", Commit(r),
         NEW ids \in SUBSET active, NEW G \in SUBSET DOMAIN lots, G \intersect held[r] = {},
         AddsUp(ids, Restrict(lots, DOMAIN lots \ G))
  PROVE  \/ \E n \in ids \union {row[r]} : LateSplit(n)'
         \/ \A a \in Asset : Recorded(events', ids \union {row[r]}, a)
                             = OpenShares(Restrict(lots', DOMAIN lots' \ G), a)
<1> DEFINE ls == Restrict(lots, DOMAIN lots \ G)
           ns == Restrict(lots', DOMAIN lots' \ G)
           ms == wrote[r].lots
           H == held[r]
           gs == Restrict(lots, H)
           more == ids \union {row[r]}
<1>1. JInv /\ IInv /\ Tabled /\ Made(r) /\ LotsOK(lots) /\ DOMAIN lots \subseteq active
      /\ active \subseteq DOMAIN events /\ IsFiniteSet(active)
      /\ \A n \in DOMAIN events : events[n] \in Event
  BY TableFacts DEF SInv, JInv
<1>2. pc[r] = "commit" /\ pc[r] \in InTx
  BY DEF Commit, InTx
<1>3. events[row[r]] \in Event /\ events[row[r]].type = req[r].event.type
  BY <1>1, <1>2, PreparedEvent DEF Made, Tabled
<1>4. /\ LotsOK(ms) /\ DOMAIN ms = H \union Own(r) /\ DOMAIN ms \ {row[r]} = H
      /\ row[r] \in DOMAIN events \ active /\ row[r] \notin DOMAIN lots
      /\ DOMAIN lots' = DOMAIN lots \union DOMAIN ms
      /\ \A n \in DOMAIN lots' : lots'[n] = IF n \in DOMAIN ms THEN ms[n] ELSE lots[n]
  BY <1>1, CreateWrites
<1>5. events' = events /\ Grown /\ held[r] \subseteq DOMAIN lots
  BY <1>1, CommitKeeps DEF Grown, IInv
<1>6. \A n : LateSplit(n) => LateSplit(n)'
  BY LateStaysCommit
<1> SUFFICES (\E n \in more : LateSplit(n)')
               \/ \A a \in Asset : Recorded(events', more, a) = OpenShares(ns, a)
  OBVIOUS
<1>7. CASE \E n \in ids : LateSplit(n)
  BY <1>6, <1>7
<1>8. CASE req[r].event.type = "split" /\ overlap[r] # {}
  <2>1. LateSplit(row[r])
    BY <1>3, <1>8 DEF LateSplit
  <2> QED BY <1>6, <2>1
<1>9. CASE /\ \A a \in Asset : Recorded(events, ids, a) = OpenShares(ls, a)
           /\ req[r].event.type = "split" => overlap[r] = {}
  <2> SUFFICES ASSUME NEW a \in Asset PROVE Recorded(events, more, a) = OpenShares(ns, a)
    BY <1>5
  <2>1. /\ LotsOK(ls) /\ DOMAIN ls = DOMAIN lots \ G /\ \A n \in DOMAIN lots \ G : ls[n] = lots[n]
    BY <1>1, RestrictOK
  <2>2. DOMAIN ns = DOMAIN lots' \ G /\ \A n \in DOMAIN lots' \ G : ns[n] = lots'[n]
    BY DEF Restrict
  <2>3. LotsOK(ms)
    BY <1>4
  <2> HIDE DEF ls, ns, ms
  <2>4. H \in SUBSET DOMAIN ls
    BY <1>5, <2>1
  <2>5. DOMAIN ms \intersect G = {} /\ DOMAIN ms \intersect (DOMAIN ls \ H) = {}
        /\ (DOMAIN ls \ H) \union DOMAIN ms = (DOMAIN lots \union DOMAIN ms) \ G
    <3>1. H \intersect G = {} /\ H \subseteq DOMAIN lots /\ G \subseteq DOMAIN lots
      BY <1>5
    <3> HIDE DEF H
    <3> QED BY <1>4, <2>1, <3>1
  <2>6. /\ DOMAIN ns = (DOMAIN ls \ H) \union DOMAIN ms
        /\ \A n \in DOMAIN ns : ns[n] = IF n \in DOMAIN ms THEN ms[n] ELSE ls[n]
    BY <1>4, <2>1, <2>2, <2>5
  <2>7. OpenShares(ns, a) = OpenShares(ls, a) - OpenShares(Restrict(ls, H), a) + OpenShares(ms, a)
    <3> HIDE DEF H
    <3>1. LotsOK(ls) /\ H \in SUBSET DOMAIN ls /\ LotsOK(ms)
          /\ DOMAIN ms \intersect (DOMAIN ls \ H) = {}
      BY <2>1, <2>3, <2>4, <2>5
    <3>2. DOMAIN ns = (DOMAIN ls \ H) \union DOMAIN ms
      BY <2>6
    <3>3. \A n \in DOMAIN ns : ns[n] = IF n \in DOMAIN ms THEN ms[n] ELSE ls[n]
      BY <2>6
    <3>4. Overwritten(ls, H, ms, ns)
      BY <3>1, <3>2, <3>3 DEF Overwritten
    <3> QED BY <3>4, OverwrittenShares
  <2>8. OpenShares(Restrict(ls, H), a) = OpenShares(gs, a)
    <3>1. \A n \in H : ls[n] = lots[n]
      BY <2>1, <2>4
    <3> QED BY <3>1 DEF Restrict
  <2>9. OpenShares(ms, a)
          = OpenShares(gs, a) + (IF events[row[r]].asset = a THEN events[row[r]].qty ELSE 0)
    BY <1>9, CreateDelta DEF ms, gs, H
  <2>10. OpenShares(ls, a) \in Int /\ OpenShares(gs, a) \in Int /\ events[row[r]].qty \in Int
    <3>1. LotsOK(gs)
      BY <1>1, <1>5, RestrictOK
    <3> HIDE DEF gs
    <3> QED BY <1>3, <2>1, <3>1, OpenSharesOfAll, EventFields
  <2>11. Recorded(events, more, a)
           = Recorded(events, ids, a) + (IF events[row[r]].asset = a THEN events[row[r]].qty ELSE 0)
    <3> DEFINE id == row[r]
    <3>1. IsFiniteSet(ids)
      BY <1>1, FS_Subset
    <3>2. (\A j \in ids : events[j] \in Event) /\ id \notin ids /\ events[id] \in Event
      BY <1>1, <1>4
    <3> HIDE DEF id
    <3>3. Recorded(events, ids \union {id}, a)
            = Recorded(events, ids, a) + (IF events[id].asset = a THEN events[id].qty ELSE 0)
      BY <3>1, <3>2, RecordedWith
    <3> QED BY <3>3 DEF id
  <2>12. Recorded(events, ids, a) = OpenShares(ls, a)
    BY <1>9 DEF ls
  <2> HIDE DEF gs, H, more
  <2> QED BY <2>7, <2>8, <2>9, <2>10, <2>11, <2>12
<1> QED BY <1>7, <1>8, <1>9 DEF AddsUp

(* A void of an idle event has no lot to delete.                            *)
LEMMA IdleHoldsNothing ==
  ASSUME JInv, NEW r \in Request, Deleting(r), ~TouchesLots(events[req[r].of])
  PROVE  held[r] = {}
<1> SUFFICES ASSUME NEW n \in held[r] PROVE FALSE
  OBVIOUS
<1>1. IInv
  BY DEF JInv
<1>2. n = req[r].of /\ n \in DOMAIN lots
  BY <1>1 DEF Deleting, IInv, Local, Voiding, Ending, Between, InTx
<1>3. Opens(events[n]) /\ Stored(events[n])
  BY <1>1, <1>2 DEF IInv, LotsOfActiveEvents, Types
<1> QED BY <1>2, <1>3, OpeningTouches

(* The commit of an event keeps the shares, with and without the lots that  *)
(* a void is about to delete.                                               *)
LEMMA CreateSInv ==
  ASSUME SInv, PlainInputs, NEW r \in Request, req[r].op = "create", Commit(r)
  PROVE  /\ AddsUp(active, lots)'
         /\ \A q \in Request : Deleting(q)' => AddsUp(active \ {req[q].of}, Left(q))'
<1>1. JInv /\ IInv /\ Tabled /\ Made(r) /\ LotsOK(lots)
  BY TableFacts DEF SInv, JInv
<1>2. /\ UNCHANGED <<events, req, row>> /\ pc'[r] = "done" /\ \A q \in Request \ {r} : Same(q)
      /\ active' = active \union {row[r]}
  BY <1>1, CommitKeeps, CreateWrites
<1>3. LotsOK(lots')
  <2>1. JInv'
    BY <1>1, NextJInv DEF Next, Statement
  <2>2. IInv' /\ Tabled'
    BY <2>1 DEF JInv
  <2>3. DOMAIN lots' \subseteq DOMAIN events' /\ IsFiniteSet(DOMAIN lots') /\ DOMAIN lots' \subseteq Nat
    <3>1. DOMAIN events' = 1..Len(events') /\ Len(events') \in Nat
      BY <2>2 DEF Tabled
    <3>2. DOMAIN lots' \subseteq 1..Len(events')
      BY <2>2, <3>1 DEF IInv, LotsOfActiveEvents, Types
    <3>3. IsFiniteSet(1..Len(events'))
      BY <3>1, FS_Interval
    <3> QED BY <3>1, <3>2, <3>3, FS_Subset
  <2> QED BY <2>2, <2>3 DEF LotsOK, Tabled
<1>4. AddsUp(active, lots)'
  <2>1. AddsUp(active, Restrict(lots, DOMAIN lots \ {}))
    BY <1>1, AllLotsLeft DEF SInv, AddsUp
  <2>2. \/ \E n \in active \union {row[r]} : LateSplit(n)'
        \/ \A a \in Asset : Recorded(events', active \union {row[r]}, a)
                            = OpenShares(Restrict(lots', DOMAIN lots' \ {}), a)
    BY <2>1, CreateAddsUp
  <2>3. \A a : OpenShares(Restrict(lots', DOMAIN lots' \ {}), a) = OpenShares(lots', a)
    BY <1>3, AllLotsLeft
  <2> QED BY <1>2, <2>2, <2>3 DEF AddsUp
<1>5. ASSUME NEW q \in Request, Deleting(q)' PROVE AddsUp(active \ {req[q].of}, Left(q))'
  <2>1. q # r
    BY <1>2, <1>5 DEF Deleting, Ending, Between
  <2>2. Deleting(q) /\ req'[q] = req[q] /\ held'[q] = held[q]
    BY <1>2, <1>5, <2>1 DEF Deleting, IsVoid, Same
  <2> DEFINE ids == active \ {req[q].of}
             G == held[q]
  <2>3. AddsUp(ids, Restrict(lots, DOMAIN lots \ G))
    BY <2>2 DEF SInv, Left
  <2>4. G \in SUBSET DOMAIN lots /\ G \intersect held[r] = {}
    BY <1>1, <2>1 DEF IInv, Alone
  <2>5. \/ \E n \in ids \union {row[r]} : LateSplit(n)'
        \/ \A a \in Asset : Recorded(events', ids \union {row[r]}, a)
                            = OpenShares(Restrict(lots', DOMAIN lots' \ G), a)
    <3> HIDE DEF ids, G
    <3>1. ids \in SUBSET active
      BY DEF ids
    <3> QED BY <2>3, <2>4, <3>1, CreateAddsUp
  <2>6. row[r] # req[q].of
    <3>1. req[q].of \in active
      BY <1>1, <2>2 DEF Deleting, IInv, Local, Voiding, Ending, Between, InTx
    <3>2. row[r] \notin active
      BY <1>1 DEF IInv, Local, Creating, Commit, InTx
    <3> QED BY <3>1, <3>2
  <2>7. (active \ {req[q].of})' = ids \union {row[r]} /\ Left(q)' = Restrict(lots', DOMAIN lots' \ G)
    BY <1>2, <2>2, <2>6 DEF Left
  <2> HIDE DEF ids, G
  <2> QED BY <2>5, <2>7 DEF AddsUp
<1> QED BY <1>4, <1>5

(* The commit of a void keeps the shares, and those another void is about   *)
(* to leave.                                                                *)
LEMMA VoidSInv ==
  ASSUME SInv, NEW r \in Request, IsVoid(r), Commit(r)
  PROVE  /\ AddsUp(active, lots)'
         /\ \A q \in Request : Deleting(q)' => AddsUp(active \ {req[q].of}, Left(q))'
<1>1. JInv /\ IInv /\ Tabled /\ Made(r) /\ LotsOK(lots) /\ Touching /\ active \subseteq DOMAIN events
  BY TableFacts DEF SInv, JInv
<1>2. /\ UNCHANGED <<events, req, row>> /\ pc'[r] = "done" /\ \A q \in Request \ {r} : Same(q)
      /\ active' = active \ {req[r].of} /\ lots' = Left(r) /\ req[r].of \in active
  BY <1>1, CommitKeeps, VoidWrites DEF Left
<1>3. Deleting(r) /\ AddsUp(active', lots')
  <2>1. Deleting(r)
    BY DEF Deleting, Commit, Ending, Between
  <2> QED BY <1>2, <2>1 DEF SInv
<1>4. ASSUME NEW ids \in SUBSET active, NEW ls, AddsUp(ids, ls)
      PROVE  (\E n \in ids : LateSplit(n)') \/ \A a \in Asset : Recorded(events', ids, a) = OpenShares(ls, a)
  <2>1. Grown
    BY <1>2 DEF Grown
  <2> QED BY <1>1, <1>4, <2>1, LateStaysCommit, AddsUpStays
<1>5. AddsUp(active, lots)'
  <2>1. (\E n \in active' : LateSplit(n)') \/ \A a \in Asset : Recorded(events', active', a) = OpenShares(lots', a)
    <3>1. active' \in SUBSET active
      BY <1>2
    <3> QED BY <1>3, <1>4, <3>1
  <2> QED BY <2>1 DEF AddsUp
<1>6. ASSUME NEW q \in Request, Deleting(q)' PROVE AddsUp(active \ {req[q].of}, Left(q))'
  <2>1. q # r
    BY <1>2, <1>6 DEF Deleting, Ending, Between
  <2>2. Deleting(q) /\ req'[q] = req[q] /\ held'[q] = held[q]
    BY <1>2, <1>6, <2>1 DEF Deleting, IsVoid, Same
  <2> DEFINE ids == active' \ {req[q].of}
             ls == Restrict(lots', DOMAIN lots' \ held[q])
  <2>3. req[q].of \in active
    BY <1>1, <2>2 DEF Deleting, IInv, Local, Voiding, Ending, Between, InTx
  <2>4. ~TouchesLots(events[req[r].of]) \/ ~TouchesLots(events[req[q].of])
    BY <1>3, <2>1, <2>2 DEF SInv
  <2>5. held[q] \subseteq DOMAIN lots /\ held[q] \intersect held[r] = {}
    BY <1>1, <2>1 DEF IInv, Alone
  <2>6. AddsUp(ids, ls)
    <3>1. CASE ~TouchesLots(events[req[r].of])
      <4>1. held[r] = {}
        BY <1>1, <1>3, <3>1, IdleHoldsNothing
      <4>2. ls = Left(q)
        BY <1>2, <4>1 DEF Left, Restrict
      <4>3. AddsUp(active \ {req[q].of}, Left(q))
        BY <2>2 DEF SInv
      <4>4. ids = (active \ {req[q].of}) \ {req[r].of}
        BY <1>2
      <4>5. AddsUp((active \ {req[q].of}) \ {req[r].of}, Left(q))
        <5>1. active \ {req[q].of} \in SUBSET active /\ req[r].of \in DOMAIN events
          BY <1>1, <1>2
        <5> QED BY <1>1, <3>1, <4>3, <5>1, IdleDropped
      <4> HIDE DEF ids, ls
      <4> QED BY <4>2, <4>4, <4>5
    <3>2. CASE ~TouchesLots(events[req[q].of])
      <4>1. held[q] = {}
        BY <1>1, <2>2, <3>2, IdleHoldsNothing
      <4>2. ls = lots'
        BY <1>2, <4>1 DEF Left, Restrict
      <4>3. AddsUp(active' \ {req[q].of}, lots')
        <5>1. active' \in SUBSET active /\ req[q].of \in DOMAIN events
          BY <1>1, <1>2, <2>3
        <5> QED BY <1>1, <1>3, <3>2, <5>1, IdleDropped
      <4> HIDE DEF ls
      <4> QED BY <4>2, <4>3
    <3> QED BY <2>4, <3>1, <3>2
  <2>7. (active \ {req[q].of})' = ids /\ Left(q)' = ls /\ ids \in SUBSET active
    BY <1>2, <2>2 DEF Left
  <2> HIDE DEF ids, ls
  <2>8. (\E n \in ids : LateSplit(n)') \/ \A a \in Asset : Recorded(events', ids, a) = OpenShares(ls, a)
    <3>1. \A is, ks : is \in SUBSET active /\ AddsUp(is, ks) =>
            (\E n \in is : LateSplit(n)') \/ \A a \in Asset : Recorded(events', is, a) = OpenShares(ks, a)
      BY <1>4
    <3> QED BY <2>6, <2>7, <3>1
  <2> QED BY <2>7, <2>8 DEF AddsUp
<1> QED BY <1>5, <1>6

(* A commit keeps the shares.                                               *)
LEMMA CommitSInv ==
  ASSUME SInv, PlainInputs, NEW r \in Request, Commit(r)
  PROVE  SInv'
<1>1. JInv /\ IInv /\ Tabled /\ Made(r) /\ Touching
  BY DEF SInv, JInv
<1>2. /\ UNCHANGED <<events, req, row, total, todo>> /\ pc'[r] = "done"
      /\ \A q \in Request \ {r} :
           /\ Same(q)
           /\ overlap'[q] = IF pc[q] \in InFlight THEN overlap[q] \union {r} ELSE overlap[q]
  BY <1>1, CommitKeeps
<1>3. JInv'
  BY <1>1, NextJInv DEF Next, Statement
<1>4. Touching'
  BY <1>1, <1>2 DEF Touching
<1>5. ASSUME NEW q \in Request PROVE SplitRead(q)'
  <2>1. CASE q = r \/ pc[q] \notin InFlight
    <3>1. pc'[q] \notin InFlight
      BY <1>2, <2>1 DEF Same, InFlight, InTx
    <3>2. pc'[q] \notin {"lock"} \union Ending
      BY <3>1 DEF InFlight, InTx, Ending, Between
    <3> QED BY <3>1, <3>2 DEF SplitRead
  <2>2. CASE q # r /\ pc[q] \in InFlight
    <3>1. overlap'[q] # {}
      BY <1>2, <2>2
    <3> QED BY <3>1 DEF SplitRead
  <2> QED BY <2>1, <2>2
<1>6. /\ AddsUp(active, lots)'
      /\ \A q \in Request : Deleting(q)' => AddsUp(active \ {req[q].of}, Left(q))'
  BY <1>1, CommitOps, CreateSInv, VoidSInv
<1>7. \A q \in Request : Deleting(q)' => q # r /\ Deleting(q)
  BY <1>2 DEF Deleting, Ending, Between, IsVoid, Same
<1>8. \A p, q \in Request : p # q /\ Deleting(p)' /\ Deleting(q)' =>
         ~TouchesLots(events'[req'[p].of]) \/ ~TouchesLots(events'[req'[q].of])
  BY <1>2, <1>7 DEF SInv
<1> QED BY <1>3, <1>4, <1>5, <1>6, <1>8 DEF SInv

(* Every step keeps the shares.                                             *)
LEMMA NextSInv == PlainInputs /\ SInv /\ [Next]_vars => SInv'
<1> SUFFICES ASSUME PlainInputs, SInv, [Next]_vars PROVE SInv'
  OBVIOUS
<1>1. CASE UNCHANGED vars
  <2>1. /\ UNCHANGED <<events, active, lots, req, pc, row, total, todo, held, overlap>>
    BY <1>1 DEF vars, db, local
  <2>2. JInv'
    BY NextJInv DEF SInv
  <2>3. \A n : LateSplit(n)' <=> LateSplit(n)
    BY <2>1 DEF LateSplit
  <2>5. \A r \in Request : /\ SplitRead(r)' <=> SplitRead(r)
                           /\ Deleting(r)' <=> Deleting(r)
                           /\ Left(r)' = Left(r)
    BY <2>1 DEF SplitRead, Deleting, IsVoid, Left
  <2>6. Touching'
    BY <2>1 DEF SInv, Touching
  <2>7. AddsUp(active, lots)'
    <3>1. AddsUp(active, lots)
      BY DEF SInv
    <3> QED BY <2>1, <2>3, <3>1 DEF AddsUp
  <2>8. ASSUME NEW r \in Request, Deleting(r)' PROVE AddsUp(active \ {req[r].of}, Left(r))'
    <3>1. AddsUp(active \ {req[r].of}, Left(r))
      BY <2>5, <2>8 DEF SInv
    <3> QED BY <2>1, <2>3, <2>5, <3>1 DEF AddsUp
  <2>9. \A p, q \in Request : p # q /\ Deleting(p)' /\ Deleting(q)' =>
         ~TouchesLots(events'[req'[p].of]) \/ ~TouchesLots(events'[req'[q].of])
    BY <2>1, <2>5 DEF SInv
  <2> QED BY <2>2, <2>5, <2>6, <2>7, <2>8, <2>9 DEF SInv
<1> QED BY <1>1, NextSteps, QuietSInv, CommitSInv

(* The property the model checker checks is part of it.                     *)
LEMMA AddsUpIs == SInv => SharesAddUp
BY DEF SInv, AddsUp, LateSplit, Recorded, SharesAddUp

(* However sales, buys, splits and voids overlap, no update of a lot is     *)
(* lost: the lots hold what the events record, unless a split counted       *)
(* before another commit (ledger/service.go, prepareEvent).                 *)
THEOREM NoUpdateIsLost == ASSUME PlainInputs PROVE Spec => []SharesAddUp
<1>1. SInv /\ [Next]_vars => SInv'
  BY NextSInv
<1>2. Init => SInv
  BY InitSInv
<1>3. SInv => SharesAddUp
  BY AddsUpIs
<1> QED BY <1>1, <1>2, <1>3, PTL DEF Spec
=============================================================================
