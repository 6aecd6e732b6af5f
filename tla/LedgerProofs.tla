---------------------------- MODULE LedgerProofs ----------------------------
(***************************************************************************)
(* What of the ledger is proved for every set of assets, inputs and        *)
(* bounds.  The inductive invariant IInv says that the stored events are   *)
(* events, that the snapshot is that of the tables, and that the book is a *)
(* sound one of the active events: what a create adds to it and what a     *)
(* void replays is the lot engine's (LotsProofs).  On it rest the          *)
(* invariants that add something up over events or rows.                   *)
(***************************************************************************)
EXTENDS Ledger, LotsProofs

(* The part of TypeOK that the steps keep by themselves.                    *)
Typed ==
  /\ events \in Seq(Event) /\ Len(events) <= MaxEvents
  /\ outcome \in Outcomes

(* The inductive invariant: the rows are those of the active events (Sound  *)
(* is the lot engine's).                                                    *)
IInv == Typed /\ SnapshotCurrent /\ Sound(events, Active, Book)

-----------------------------------------------------------------------------
(* The events, and which of them are active, once one is added or voided.   *)
LEMMA StreamFacts ==
  ASSUME events \in Seq(Event)
  PROVE  /\ Active \subseteq DOMAIN events /\ DOMAIN events = 1..Len(events) /\ Len(events) \in Nat
         /\ IsFiniteSet(Active) /\ Active \subseteq Nat
         /\ \A i \in DOMAIN events : events[i] \in Event
<1>1. Active \subseteq DOMAIN events /\ DOMAIN events = 1..Len(events) /\ Len(events) \in Nat
  BY DEF Active, ActiveIn
<1>2. IsFiniteSet(1..Len(events))
  BY <1>1, FS_Interval
<1> QED BY <1>1, <1>2, FS_Subset

(* What a sequence of events is when an active one is appended to it.       *)
LEMMA AppendFacts ==
  ASSUME events \in Seq(Event), NEW e \in Event, ~e.voided
  PROVE  /\ Append(events, e) \in Seq(Event) /\ Len(Append(events, e)) = Len(events) + 1
         /\ Len(events) + 1 \in Nat /\ Len(events) + 1 \notin DOMAIN events
         /\ DOMAIN Append(events, e) = DOMAIN events \union {Len(events) + 1}
         /\ \A i \in DOMAIN events : Append(events, e)[i] = events[i]
         /\ Append(events, e)[Len(events) + 1] = e
         /\ ActiveIn(Append(events, e)) = Active \union {Len(events) + 1}
<1> DEFINE evs == Append(events, e)
           n == Len(events) + 1
<1>1. /\ evs \in Seq(Event) /\ Len(evs) = n /\ n \in Nat /\ n \notin DOMAIN events
      /\ DOMAIN evs = DOMAIN events \union {n}
      /\ \A i \in DOMAIN events : evs[i] = events[i]
      /\ evs[n] = e
  OBVIOUS
<1> HIDE DEF evs, n
<1>2. ActiveIn(evs) = ActiveIn(events) \union {n}
  BY <1>1 DEF ActiveIn
<1> QED BY <1>1, <1>2 DEF evs, n, Active

(* What it is when one of its active events is voided.                      *)
LEMMA VoidFacts ==
  ASSUME events \in Seq(Event), NEW i \in Active
  PROVE  LET evs == [events EXCEPT ![i].voided = TRUE]
         IN  /\ evs \in Seq(Event) /\ Len(evs) = Len(events)
             /\ evs[i] = [events[i] EXCEPT !.voided = TRUE]
             /\ \A j \in DOMAIN events \ {i} : evs[j] = events[j]
             /\ ActiveIn(evs) = Active \ {i}
<1> DEFINE e == [events[i] EXCEPT !.voided = TRUE]
           evs == [events EXCEPT ![i] = e]
<1>1. i \in 1..Len(events) /\ events[i] \in Event
  BY StreamFacts
<1>2. e \in Event /\ e.voided = TRUE
  BY <1>1 DEF Event
<1>3. evs = [events EXCEPT ![i].voided = TRUE]
  OBVIOUS
<1> HIDE DEF e
<1>4. /\ evs \in Seq(Event) /\ Len(evs) = Len(events) /\ DOMAIN evs = DOMAIN events
      /\ evs[i] = e /\ \A j \in DOMAIN events \ {i} : evs[j] = events[j]
  BY <1>1, <1>2
<1> HIDE DEF evs
<1>5. ActiveIn(evs) = ActiveIn(events) \ {i}
  BY <1>2, <1>4 DEF ActiveIn
<1> QED BY <1>3, <1>4, <1>5 DEF Active, e

(* What is stored of a request is an event.                                 *)
LEMMA PreparedIsEvent ==
  ASSUME Sound(events, Active, Book), NEW in \in Inputs
  PROVE  Prepared(in) \in Event /\ ~Prepared(in).voided
<1>1. in \in Input
  BY LedgerAssumption
<1>2. OpenShares(lots, in.asset) \in Nat
  BY OpenSharesOfAll DEF Sound, BookOK, Book
<1> DEFINE total == OpenShares(lots, in.asset)
<1>3. in.ratio[1] \in Nat /\ in.ratio[2] \in Nat \ {0} /\ in.qty \in Int /\ in.type \in EventTypes
  BY <1>1 DEF Input
<1>4. (total * in.ratio[1]) \div in.ratio[2] - total \in Int
  <2> DEFINE r == in.ratio[1]
             d == in.ratio[2]
  <2>1. r \in Nat /\ d \in Nat \ {0} /\ total \in Nat
    BY <1>2, <1>3
  <2> HIDE DEF r, d, total
  <2>2. total * r \in Int
    BY <2>1
  <2>3. (total * r) \div d \in Int
    BY <2>1, <2>2, Divides
  <2> QED BY <2>1, <2>3 DEF r, d
<1>5. StoredQty(in) \in Int
  <2>1. CASE in.type \in {"sell", "capital_reduction"}
    BY <1>3, <2>1 DEF StoredQty
  <2>2. CASE in.type = "split"
    BY <1>4, <2>2 DEF StoredQty
  <2>3. CASE in.type \notin {"sell", "capital_reduction", "split"}
    BY <1>3, <2>3 DEF StoredQty
  <2> QED BY <2>1, <2>2, <2>3
<1>6. (IF in.type \in {"stock_dividend", "split"} THEN 0 ELSE in.cash) \in Int
  BY <1>1 DEF Input
<1> QED BY <1>1, <1>5, <1>6 DEF Prepared, Input, Event

(* A book of some events is one of any stream that begins with them.        *)
LEMMA SoundSame ==
  ASSUME NEW evs, NEW others, NEW ids, NEW b, Sound(evs, ids, b),
         \A i \in ids : others[i] = evs[i]
  PROVE  Sound(others, ids, b)
BY DEF Sound

-----------------------------------------------------------------------------
(* What a request that succeeds does: it records an event, whose effect on  *)
(* the lots is the engine's, ...                                            *)
Records(in) ==
  /\ ~Rejected(in) /\ WholeShares(in) /\ Len(events) < MaxEvents
  /\ events' = Append(events, Prepared(in))
  /\ ApplyEventToLots(Book, Len(events) + 1, Prepared(in)).err = "ok"
  /\ Book' = ApplyEventToLots(Book, Len(events) + 1, Prepared(in))

(* ... or it voids one and replays the others.                              *)
Unwinds(i) ==
  /\ i \in Active
  /\ events' = [events EXCEPT ![i].voided = TRUE]
  /\ Replay(events', Active').err = "ok"
  /\ Book' = Replay(events', Active')

(* A step changes no table, or it records or unwinds and takes a new        *)
(* snapshot.                                                                *)
Settles ==
  \/ UNCHANGED <<events, lots, cons, snapshot>>
  \/ /\ snapshot' = Portfolio(events', lots')
     /\ (\E in \in Inputs : Records(in)) \/ (\E i \in Active : Unwinds(i))

(* CreateEvent does the first when it fails, else it records.               *)
LEMMA CreateSettles ==
  ASSUME IInv, NEW in \in Inputs, CreateEvent(in)
  PROVE  Settles /\ outcome' \in Outcomes
<1> DEFINE e == Prepared(in)
           n == Len(events) + 1
           evs == Append(events, e)
           b == ApplyEventToLots(Book, n, e)
<1>1. e \in Event /\ ~e.voided /\ events \in Seq(Event)
  BY PreparedIsEvent DEF IInv, Typed
<1>2. evs[Len(evs)] = e /\ Len(evs) = n
  BY <1>1, AppendFacts
<1>3. CASE Rejected(in)
  BY <1>3 DEF CreateEvent, Fail, Settles, Outcomes
<1>4. CASE ~Rejected(in)
  <2> HIDE DEF e, n
  <2>1. CASE b.err # "ok"
    <3>1. Fail(b.err)
      BY <1>2, <1>4, <2>1 DEF CreateEvent, e
    <3>2. b.err \in {"ok", "insufficient"}
      <4>1. BookOK(b)
        <5>1. n \in Nat /\ BookOK(Book)
          BY <1>1, AppendFacts DEF n, IInv, Sound
        <5>2. PICK c : Moved(Book, n, e, c) /\ Recosted(c, b)
          BY <1>1, <5>1, Applied
        <5> HIDE DEF b
        <5> QED BY <1>1, <5>1, <5>2, MovedOK, RecostedOK
      <4> QED BY <4>1 DEF BookOK
    <3> HIDE DEF b
    <3> QED BY <3>1, <3>2 DEF Fail, Settles, Outcomes
  <2>2. CASE b.err = "ok"
    <3>1. Commit(evs, b)
      BY <1>2, <1>4, <2>2 DEF CreateEvent, e
    <3>2. WholeShares(in) /\ Len(events) < MaxEvents
      BY DEF CreateEvent
    <3>3. BookOK(b)
      <4>1. n \in Nat /\ BookOK(Book)
        BY <1>1, AppendFacts DEF n, IInv, Sound
      <4>2. PICK c : Moved(Book, n, e, c) /\ Recosted(c, b)
        BY <1>1, <4>1, Applied
      <4> HIDE DEF b
      <4> QED BY <1>1, <4>1, <4>2, MovedOK, RecostedOK
    <3>4. Book' = b
      <4> HIDE DEF b
      <4> QED BY <2>2, <3>1, <3>3 DEF Commit, Book, BookOK
    <3>5. events' = evs /\ snapshot' = Portfolio(events', lots') /\ outcome' = "ok"
      BY <3>1 DEF Commit
    <3>6. Records(in)
      BY <1>4, <2>2, <3>2, <3>4, <3>5 DEF Records, e, n
    <3> QED BY <3>5, <3>6 DEF Settles, Outcomes
  <2> QED BY <2>1, <2>2
<1> QED BY <1>3, <1>4

(* VoidEvent does the first when it fails, else it unwinds.                 *)
LEMMA VoidSettles ==
  ASSUME IInv, NEW i \in 1..(Len(events) + 1), NEW reason \in BOOLEAN, VoidEvent(i, reason)
  PROVE  Settles /\ outcome' \in Outcomes
<1> DEFINE evs == [events EXCEPT ![i].voided = TRUE]
           b == RebuildLots(evs)
<1>1. CASE ~reason \/ i \notin Active
  BY <1>1 DEF VoidEvent, Fail, Settles, Outcomes
<1>2. CASE reason /\ i \in Active
  <2>1. evs \in Seq(Event) /\ ActiveIn(evs) = Active \ {i} /\ Len(evs) = Len(events)
    BY <1>2, VoidFacts DEF IInv, Typed
  <2>2. IF b.err # "ok" THEN Fail(b.err) ELSE Commit(evs, b)
    BY <1>2 DEF VoidEvent
  <2> HIDE DEF evs
  <2>3. BookOK(Replay(evs, ActiveIn(evs)))
    <3>1. IsFiniteSet(ActiveIn(evs)) /\ ActiveIn(evs) \subseteq Nat
      BY <2>1, StreamFacts, FS_Subset DEF IInv, Typed
    <3>2. \A j \in ActiveIn(evs) : evs[j] \in Event
      BY <2>1 DEF ActiveIn
    <3> QED BY <3>1, <3>2, ReplaySound DEF Sound
  <2>4. \/ b.err = "conn_busy"
        \/ b = Replay(evs, ActiveIn(evs))
    BY DEF RebuildLots, EmptyBook
  <2>5. CASE b.err # "ok"
    <3>1. b.err \in Outcomes
      BY <2>3, <2>4 DEF BookOK, Outcomes
    <3> HIDE DEF b
    <3> QED BY <2>2, <2>5, <3>1 DEF Fail, Settles
  <2>6. CASE b.err = "ok"
    <3>1. b = Replay(evs, ActiveIn(evs)) /\ BookOK(b)
      BY <2>3, <2>4, <2>6
    <3>2. Commit(evs, b)
      BY <2>2, <2>6
    <3> HIDE DEF b
    <3>3. Book' = b
      BY <2>6, <3>1, <3>2 DEF Commit, Book, BookOK
    <3>4. events' = evs /\ snapshot' = Portfolio(events', lots') /\ outcome' = "ok"
          /\ Active' = ActiveIn(evs)
      BY <3>2 DEF Commit, Active
    <3>5. Unwinds(i)
      BY <1>2, <2>6, <3>1, <3>3, <3>4 DEF Unwinds, evs
    <3> QED BY <1>2, <3>4, <3>5 DEF Settles, Outcomes
  <2> QED BY <2>5, <2>6
<1> QED BY <1>1, <1>2

(* So does every step.                                                      *)
LEMMA NextSettles ==
  ASSUME IInv, [Next]_vars
  PROVE  Settles /\ outcome' \in Outcomes
<1>1. CASE UNCHANGED vars
  BY <1>1 DEF vars, Settles, IInv, Typed
<1>2. CASE Next
  BY <1>2, CreateSettles, VoidSettles DEF Next
<1> QED BY <1>1, <1>2

-----------------------------------------------------------------------------
(* The invariant holds of the empty tables.                                 *)
LEMMA InitIInv == Init => IInv
<1> SUFFICES ASSUME Init PROVE IInv
  OBVIOUS
<1>1. events = <<>> /\ events \in Seq(Event) /\ Len(events) = 0
  BY DEF Init
<1>2. Typed
  BY <1>1, LedgerAssumption DEF Init, Typed, Outcomes
<1>3. SnapshotCurrent
  BY DEF Init, SnapshotCurrent
<1>4. Active = {} /\ Book = EmptyBook
  BY <1>1 DEF Active, ActiveIn, Init, Book, EmptyBook
<1> QED BY <1>2, <1>3, <1>4, EmptySound DEF IInv

(* Recording an event extends a book of the active events by one of them.   *)
LEMMA RecordsKeep ==
  ASSUME IInv, NEW in \in Inputs, Records(in)
  PROVE  /\ events' \in Seq(Event) /\ Len(events') <= MaxEvents
         /\ Sound(events', Active', Book')
<1> DEFINE n == Len(events) + 1
           e == Prepared(in)
<1>1. e \in Event /\ ~e.voided /\ events \in Seq(Event) /\ Sound(events, Active, Book)
  BY PreparedIsEvent DEF IInv, Typed
<1>2. /\ events' \in Seq(Event) /\ Len(events') = n /\ n \in Nat
      /\ events'[n] = e /\ \A i \in DOMAIN events : events'[i] = events[i]
      /\ Active' = Active \union {n} /\ n \notin DOMAIN events
  BY <1>1, AppendFacts DEF Records, Active
<1>3. Len(events') <= MaxEvents
  BY <1>1, <1>2, LedgerAssumption DEF Records
<1>4. /\ Active \subseteq DOMAIN events /\ Active \in SUBSET Nat /\ n \notin Active
      /\ \A j \in Active : j < n
  BY <1>1, <1>2, StreamFacts
<1>5. Book' = ApplyEventToLots(Book, n, events'[n])
  BY <1>2 DEF Records
<1> HIDE DEF e, n
<1>6. Sound(events', Active, Book)
  BY <1>1, <1>2, <1>4, SoundSame
<1>7. Precede(events', Active, n)
  BY <1>4 DEF Precede
<1>8. Sound(events', Active \union {n}, ApplyEventToLots(Book, n, events'[n]))
  BY <1>1, <1>2, <1>4, <1>6, <1>7, AppliedSound
<1> QED BY <1>2, <1>3, <1>5, <1>8

(* The stream after a void, and the book replayed from it.                  *)
LEMMA UnwindsKeep ==
  ASSUME IInv, NEW i \in Active, Unwinds(i)
  PROVE  /\ events' \in Seq(Event) /\ Len(events') <= MaxEvents
         /\ Sound(events', Active', Book')
         /\ IsFiniteSet(Active') /\ Active' \subseteq Nat /\ Active' = Active \ {i}
         /\ \A j \in Active' : events'[j] = events[j] /\ events'[j] \in Event
<1>1. /\ events' \in Seq(Event) /\ Len(events') = Len(events)
      /\ \A j \in DOMAIN events \ {i} : events'[j] = events[j]
      /\ Active' = Active \ {i}
  BY VoidFacts DEF IInv, Typed, Unwinds, Active
<1>2. /\ IsFiniteSet(Active') /\ Active' \subseteq Nat
      /\ \A j \in Active' : events'[j] = events[j] /\ events'[j] \in Event
  BY <1>1, StreamFacts, FS_Subset DEF IInv, Typed
<1>3. Sound(events', Active', Book')
  BY <1>2, ReplaySound DEF Unwinds
<1> QED BY <1>1, <1>2, <1>3 DEF IInv, Typed

(* It is kept by every step.                                                *)
LEMMA NextIInv == IInv /\ [Next]_vars => IInv'
<1> SUFFICES ASSUME IInv, [Next]_vars PROVE IInv'
  OBVIOUS
<1>1. Settles /\ outcome' \in Outcomes
  BY NextSettles
<1>2. CASE UNCHANGED <<events, lots, cons, snapshot>>
  BY <1>1, <1>2 DEF IInv, Typed, SnapshotCurrent, Active, Book
<1>3. CASE snapshot' = Portfolio(events', lots') /\ \E in \in Inputs : Records(in)
  BY <1>1, <1>3, RecordsKeep DEF IInv, Typed, SnapshotCurrent
<1>4. CASE snapshot' = Portfolio(events', lots') /\ \E i \in Active : Unwinds(i)
  BY <1>1, <1>4, UnwindsKeep DEF IInv, Typed, SnapshotCurrent
<1> QED BY <1>1, <1>2, <1>3, <1>4 DEF Settles

(* It holds throughout.                                                     *)
LEMMA Invariance == Spec => []IInv
BY InitIInv, NextIInv, PTL DEF Spec

-----------------------------------------------------------------------------
(* Stored events are never edited or removed, and a void is for good.       *)
THEOREM AppendOnly == Spec => EventsAppendOnly
<1> DEFINE Kept == /\ Len(events') >= Len(events)
                   /\ \A i \in DOMAIN events :
                        events'[i] \in {events[i], [events[i] EXCEPT !.voided = TRUE]}
<1>1. IInv /\ [Next]_vars => [Kept]_events
  <2> SUFFICES ASSUME IInv, [Next]_vars, events' # events PROVE Kept
    OBVIOUS
  <2>1. events \in Seq(Event) /\ Len(events) \in Nat
    BY StreamFacts DEF IInv, Typed
  <2>2. ASSUME NEW in \in Inputs, Records(in) PROVE Kept
    <3>1. Prepared(in) \in Event /\ ~Prepared(in).voided
      BY PreparedIsEvent DEF IInv
    <3> QED BY <2>1, <2>2, <3>1, AppendFacts DEF Records
  <2>3. ASSUME NEW i \in Active, Unwinds(i) PROVE Kept
    BY <2>1, <2>3, VoidFacts DEF Unwinds
  <2> QED BY <2>2, <2>3, NextSettles DEF Settles
<1> QED BY Invariance, <1>1, PTL DEF Spec, EventsAppendOnly

(* The snapshot of the last successful request is the portfolio of the      *)
(* events and lots that request committed, and failed requests leave all    *)
(* three as they were.                                                      *)
THEOREM SnapshotIsCurrent == Spec => []SnapshotCurrent
<1>1. IInv => SnapshotCurrent
  BY DEF IInv
<1> QED BY Invariance, <1>1, PTL

(* The rows stay rows of their tables, within what each lot was opened      *)
(* with, whatever requests follow one another.                              *)
THEOREM Types == Spec => []TypeOK
<1>1. IInv => TypeOK
  BY StreamFacts DEF IInv, Typed, TypeOK, Sound, BookOK, LotsOK, Book
<1> QED BY Invariance, <1>1, PTL

(* No lot and no consumption outlives the event it came from.               *)
THEOREM DerivedFromActive == Spec => []DerivedFromActiveEvents
<1>1. IInv => DerivedFromActiveEvents
  BY DEF IInv, DerivedFromActiveEvents, Sound, Book
<1> QED BY Invariance, <1>1, PTL

(* Lots are consumed first in, first out, whatever is voided in between and *)
(* in whatever order of trade dates the events were entered.                *)
THEOREM ConsumedInOrder == Spec => []FirstInFirstOut
<1>1. IInv => FirstInFirstOut
  BY DEF IInv, FirstInFirstOut, Sound, InOrder, Book, Before
<1> QED BY Invariance, <1>1, PTL

-----------------------------------------------------------------------------
(* An event recorded after all the others in the order of replay is the     *)
(* last one replayed, on top of the book as it was.                         *)
LEMMA RecordsReplay ==
  ASSUME IInv, RebuildReproducesBook, NEW in \in Inputs, Records(in)
  PROVE  RebuildReproducesBook'
<1> DEFINE n == Len(events) + 1
           e == Prepared(in)
<1> SUFFICES ASSUME \A i, j \in Active' : i < j => events'[i].date <= events'[j].date
             PROVE  Replay(events', Active') = Book'
  BY DEF RebuildReproducesBook, Active
<1>1. /\ e \in Event /\ ~e.voided /\ events \in Seq(Event)
      /\ events' \in Seq(Event) /\ Sound(events', Active', Book')
  BY PreparedIsEvent, RecordsKeep DEF IInv, Typed
<1>2. /\ n \in Nat /\ n \notin DOMAIN events
      /\ events'[n] = e /\ \A i \in DOMAIN events : events'[i] = events[i]
      /\ Active' = Active \union {n}
  BY <1>1, AppendFacts DEF Records, Active
<1>3. /\ Active \subseteq DOMAIN events /\ IsFiniteSet(Active) /\ Active \subseteq Nat
      /\ n \notin Active /\ \A i \in Active : events[i] \in Event /\ i < n
  BY <1>1, <1>2, StreamFacts
<1>4. Book' = ApplyEventToLots(Book, n, events'[n])
  BY <1>2 DEF Records
<1> HIDE DEF e, n
<1>5. Dated(events', Active')
  <2>1. IsFiniteSet(Active')
    BY <1>2, <1>3, FS_AddElement
  <2>2. \A i \in Active' : events'[i] \in Event /\ i \in Nat
    BY <1>1, <1>2, <1>3
  <2> QED BY <2>1, <2>2 DEF Dated, Event
<1>6. LastOf(events', Active') = n
  <2>1. \A j \in Active' \ {n} : events'[j].date <= events'[n].date /\ j < n
    BY <1>2, <1>3
  <2>2. \A j \in Active' : events'[j].date \in Nat /\ j \in Nat
    BY <1>5 DEF Dated
  <2>3. \A j \in Active' \ {n} : Before(events', j, n)
    BY <1>2, <2>1, <2>2 DEF Before
  <2> QED BY <1>2, <1>5, <2>3, LastIsUnique
<1>7. Replay(events', Active) = Book
  <2>1. Dated(events, Active) /\ \A i \in Active : events'[i] = events[i]
    BY <1>2, <1>3 DEF Dated, Event
  <2>2. \A i, j \in Active : i < j => events[i].date <= events[j].date
    BY <1>2, <2>1
  <2> QED BY <2>1, <2>2, ReplaySame DEF RebuildReproducesBook
<1>8. Replay(events', Active') = ReplayStep(events', Active', Replay(events', Active' \ {n}))
  BY <1>2, <1>5, <1>6, ReplayLast
<1>9. Active' \ {n} = Active
  BY <1>2, <1>3
<1> QED BY <1>4, <1>6, <1>7, <1>8, <1>9 DEF ReplayStep, Book

(* As long as no event was entered after one of a later trade date, a       *)
(* rebuild finds the book it replaces, so that a void changes nothing but   *)
(* what it voids.                                                           *)
THEOREM RebuildIsIdentity == Spec => []RebuildReproducesBook
<1>1. Init => RebuildReproducesBook
  <2> SUFFICES ASSUME Init PROVE Replay(events, Active) = Book
    BY DEF RebuildReproducesBook
  <2>1. Active = {} /\ Book = EmptyBook
    BY DEF Active, ActiveIn, Init, Book, EmptyBook
  <2>2. Dated(events, {})
    BY FS_EmptySet DEF Dated
  <2> QED BY <2>1, <2>2, ReplayLast
<1>2. IInv /\ RebuildReproducesBook /\ [Next]_vars => RebuildReproducesBook'
  <2> SUFFICES ASSUME IInv, RebuildReproducesBook, [Next]_vars PROVE RebuildReproducesBook'
    OBVIOUS
  <2>1. CASE UNCHANGED <<events, lots, cons, snapshot>>
    BY <2>1 DEF RebuildReproducesBook, Active, Book
  <2>2. ASSUME NEW i \in Active, Unwinds(i) PROVE RebuildReproducesBook'
    BY <2>2 DEF Unwinds, RebuildReproducesBook
  <2> QED BY <2>1, <2>2, RecordsReplay, NextSettles DEF Settles
<1> QED BY Invariance, <1>1, <1>2, PTL DEF Spec

-----------------------------------------------------------------------------
(* The requests that carry a quantity are those that move shares.           *)
SharesOnlyWhenMoved ==
  \A in \in Inputs : in.type \in {"cash", "cash_dividend"} /\ in.asset # NoAsset => in.qty = 0

(* An active event splits the shares of s.                                  *)
SplitIn(s) == \E i \in Active : events[i].type = "split" /\ events[i].asset = s

(* What PortfolioHistory adds up, of all days, against the lots.            *)
HistoryMatches ==
  \A s \in Asset : (SplitIn(s) => Active = DOMAIN events)
                     => Recorded(events, Active, s) = OpenShares(lots, s)

(* The invariant behind HistoryAgreesWithLots.                              *)
HInv ==
  /\ \A i \in Active : Signed(events[i]) /\ \E in \in Inputs : events[i].date = in.date
  /\ HistoryMatches

(* The sign of what is stored follows from the type of the request.         *)
MovesSigned(e) == e.type \notin {"cash", "cash_dividend"} => Signed(e)

(* What prepareEvent lets through has a quantity of the sign of its type.   *)
LEMMA PreparedMovesSigned ==
  ASSUME NEW in \in Inputs, ~Rejected(in)
  PROVE  MovesSigned(Prepared(in))
<1>1. in \in Input
  BY LedgerAssumption
<1>2. in.qty \in Int /\ in.type \in EventTypes
  BY <1>1 DEF Input
<1>3. in.type # "adjustment" => in.qty >= 0
  BY <1>2 DEF Rejected
<1>4. CASE in.type \in {"sell", "capital_reduction"}
  BY <1>2, <1>3, <1>4 DEF MovesSigned, Signed, Prepared, StoredQty
<1>5. CASE in.type = "split"
  BY <1>5 DEF MovesSigned, Signed, Prepared, StoredQty
<1>6. CASE in.type \notin {"sell", "capital_reduction", "split"}
  BY <1>2, <1>3, <1>6 DEF MovesSigned, Signed, Prepared, StoredQty
<1> QED BY <1>4, <1>5, <1>6

(* So it has when only events that move shares have one at all.             *)
LEMMA PreparedIsSigned ==
  ASSUME SharesOnlyWhenMoved, NEW in \in Inputs, ~Rejected(in)
  PROVE  Signed(Prepared(in)) /\ Prepared(in).date = in.date
<1>1. Prepared(in).date = in.date
  BY DEF Prepared
<1>2. CASE in.type \in {"cash", "cash_dividend"}
  BY <1>2 DEF Signed, Prepared, StoredQty, SharesOnlyWhenMoved
<1>3. CASE in.type \notin {"cash", "cash_dividend"}
  BY <1>3, PreparedMovesSigned DEF MovesSigned, Prepared
<1> QED BY <1>1, <1>2, <1>3

(* A recorded event moves the two by the same number of shares.             *)
LEMMA RecordsHistory ==
  ASSUME IInv, HInv, SharesOnlyWhenMoved, NEW in \in Inputs, Records(in)
  PROVE  HInv'
<1> DEFINE n == Len(events) + 1
           e == Prepared(in)
<1>1. /\ e \in Event /\ ~e.voided /\ events \in Seq(Event)
      /\ events' \in Seq(Event) /\ Sound(events', Active', Book')
  BY PreparedIsEvent, RecordsKeep DEF IInv, Typed
<1>2. /\ n \in Nat /\ n \notin DOMAIN events /\ DOMAIN events' = DOMAIN events \union {n}
      /\ events'[n] = e /\ \A i \in DOMAIN events : events'[i] = events[i]
      /\ Active' = Active \union {n}
  BY <1>1, AppendFacts DEF Records, Active
<1>3. /\ Active \subseteq DOMAIN events /\ IsFiniteSet(Active) /\ n \notin Active
      /\ \A i \in Active : events[i] \in Event
  BY <1>1, <1>2, StreamFacts
<1>4. Signed(e) /\ e.date = in.date
  BY PreparedIsSigned DEF Records
<1>5. \A i \in Active' : Signed(events'[i]) /\ \E jn \in Inputs : events'[i].date = jn.date
  BY <1>2, <1>3, <1>4 DEF HInv
<1>6. ASSUME NEW s \in Asset, SplitIn(s)' => Active' = DOMAIN events'
      PROVE  Recorded(events', Active', s) = OpenShares(lots', s)
  <2>1. SplitIn(s) => SplitIn(s)'
    BY <1>2, <1>3 DEF SplitIn
  <2>2. Recorded(events, Active, s) = OpenShares(lots, s)
    BY <1>2, <1>3, <1>6, <2>1 DEF HInv, HistoryMatches
  <2>3. Recorded(events', Active, s) = Recorded(events, Active, s)
    BY <1>2, <1>3, RecordedSame
  <2>4. Recorded(events', Active', s) = Recorded(events', Active, s) + IF e.asset = s THEN e.qty ELSE 0
    <3>1. IsFiniteSet(Active') /\ n \in Active' /\ Active' \ {n} = Active
      BY <1>2, <1>3, FS_AddElement
    <3>2. \A j \in Active' : events'[j].qty \in Int
      BY <1>1, <1>2, <1>3, EventFields
    <3>3. /\ events'[n].asset = s =>
                 Recorded(events', Active', s) = Recorded(events', Active, s) + events'[n].qty
          /\ events'[n].asset # s => Recorded(events', Active', s) = Recorded(events', Active, s)
      BY <3>1, <3>2, RecordedAdd
    <3>4. OpenShares(lots, s) \in Nat
      BY OpenSharesOfAll DEF IInv, Sound, BookOK, Book
    <3> HIDE DEF e, n
    <3> QED BY <1>2, <2>2, <2>3, <3>3, <3>4
  <2>5. /\ lots' = ApplyEventToLots(Book, n, e).lots /\ ApplyEventToLots(Book, n, e).err = "ok"
        /\ BookOK(Book) /\ Book.lots = lots /\ n \notin DOMAIN lots
    BY <1>2, <1>3 DEF Records, Book, IInv, Sound
  <2>6. CASE e.type = "split" /\ e.asset = s
    <3>1. in.type = "split" /\ in.asset = s /\ e.ratio = in.ratio
      BY <2>6 DEF Prepared
    <3>2. \A l \in OpenLots(Book.lots, s) : (Book.lots[l].remaining * e.ratio[1]) % e.ratio[2] = 0
      BY <2>5, <3>1 DEF Records, WholeShares
    <3>3. OpenShares(lots', s) = (OpenShares(lots, s) * e.ratio[1]) \div e.ratio[2]
      <4> HIDE DEF e, n
      <4> QED BY <1>1, <1>2, <2>5, <2>6, <3>2, AppliedSplit
    <3>4. e.qty = (OpenShares(lots, s) * e.ratio[1]) \div e.ratio[2] - OpenShares(lots, s)
      BY <3>1 DEF Prepared, StoredQty
    <3>5. OpenShares(lots, s) \in Nat /\ OpenShares(lots', s) \in Nat
      BY <1>1, OpenSharesOfAll DEF IInv, Sound, BookOK, Book
    <3> HIDE DEF e, n
    <3> QED BY <2>2, <2>3, <2>4, <2>6, <3>3, <3>4, <3>5
  <2>7. CASE e.type = "split" => e.asset # s
    <3> HIDE DEF e, n
    <3>1. OpenShares(ApplyEventToLots(Book, n, e).lots, s)
            = OpenShares(Book.lots, s) + IF e.asset = s THEN e.qty ELSE 0
      BY <1>1, <1>2, <1>4, <2>5, <2>7, AppliedShares
    <3> QED BY <2>2, <2>3, <2>4, <2>5, <3>1
  <2> QED BY <2>6, <2>7
<1> QED BY <1>5, <1>6 DEF HInv, HistoryMatches

(* After a void only the assets that were never split are compared, and     *)
(* those the replay rebuilds share by share.                                *)
LEMMA UnwindsHistory ==
  ASSUME IInv, HInv, NEW i \in Active, Unwinds(i)
  PROVE  HInv'
<1>1. /\ IsFiniteSet(Active') /\ Active' \subseteq Nat /\ Active' = Active \ {i}
      /\ \A j \in Active' : events'[j] = events[j] /\ events'[j] \in Event
      /\ events' \in Seq(Event) /\ Len(events') = Len(events)
  BY UnwindsKeep, VoidFacts DEF Unwinds, IInv, Typed
<1>2. \A j \in Active' : Signed(events'[j]) /\ \E in \in Inputs : events'[j].date = in.date
  BY <1>1 DEF HInv
<1>3. SharesMatch(events', Active', Book')
  BY <1>1, <1>2, ReplayShares DEF Unwinds
<1>4. Active' # DOMAIN events'
  <2>1. i \in DOMAIN events /\ DOMAIN events = 1..Len(events)
    BY StreamFacts DEF IInv, Typed
  <2>2. DOMAIN events' = 1..Len(events')
    BY <1>1
  <2> QED BY <1>1, <2>1, <2>2
<1>5. HistoryMatches'
  BY <1>3, <1>4 DEF HistoryMatches, SharesMatch, SplitIn, Book
<1> QED BY <1>2, <1>5 DEF HInv

(* Every active event is one the history of the last day counts.            *)
LEMMA HistoryOfToday ==
  ASSUME IInv, HInv, IsFiniteSet(Inputs)
  PROVE  HistoryAgreesWithLots
<1> DEFINE dates == {in.date : in \in Inputs}
           today == Max(dates)
<1>1. \A i \in Active : events[i].date <= today
  <2> SUFFICES ASSUME NEW i \in Active PROVE events[i].date <= today
    OBVIOUS
  <2>1. IsFiniteSet(dates)
    <3> DEFINE date == [in \in Inputs |-> in.date]
    <3>1. date \in Surjection(Inputs, dates)
      BY DEF Surjection
    <3> HIDE DEF date, dates
    <3> QED BY <3>1, FS_Surjection
  <2>2. dates \subseteq Nat
    BY LedgerAssumption DEF Input
  <2>3. events[i].date \in dates
    BY DEF HInv
  <2> HIDE DEF dates
  <2> QED BY <2>1, <2>2, <2>3, MaxOfSet
<1> HIDE DEF today
<1>2. ASSUME NEW s \in Asset PROVE HistoryShares(s, today) = Recorded(events, Active, s)
  <2>1. {i \in Active : events[i].asset = s /\ events[i].date <= today}
          = {i \in Active : events[i].asset = s}
    BY <1>1
  <2> QED BY <2>1 DEF HistoryShares, Recorded
<1> QED BY <1>2 DEF HInv, HistoryMatches, HistoryAgreesWithLots, SplitIn, today

(* The history and the lots agree on the last day, whatever was recorded    *)
(* and, for assets never split, whatever was voided.  Assumed: finitely     *)
(* many requests, so that there is a last day, and no quantity on requests  *)
(* that move none.                                                          *)
THEOREM HistoryIsOfTheLots ==
  ASSUME IsFiniteSet(Inputs), SharesOnlyWhenMoved
  PROVE  Spec => []HistoryAgreesWithLots
<1>1. Init => HInv
  <2> SUFFICES ASSUME Init PROVE HInv
    OBVIOUS
  <2>1. Active = {} /\ Book = EmptyBook /\ lots = EmptyBook.lots
    BY DEF Active, ActiveIn, Init, Book, EmptyBook
  <2>2. SharesMatch(events, {}, EmptyBook)
    BY EmptyShares
  <2> QED BY <2>1, <2>2 DEF HInv, HistoryMatches, SharesMatch
<1>2. IInv /\ HInv /\ [Next]_vars => HInv'
  <2> SUFFICES ASSUME IInv, HInv, [Next]_vars PROVE HInv'
    OBVIOUS
  <2>1. CASE UNCHANGED <<events, lots, cons, snapshot>>
    BY <2>1 DEF HInv, HistoryMatches, Active, SplitIn
  <2> QED BY <2>1, RecordsHistory, UnwindsHistory, NextSettles DEF Settles
<1>3. IInv /\ HInv => HistoryAgreesWithLots
  BY HistoryOfToday
<1> QED BY Invariance, <1>1, <1>2, <1>3, PTL DEF Spec

-----------------------------------------------------------------------------
(* Sales and reductions at a whole price per share: the model divides       *)
(* integers where the code divides decimals.                                *)
WholePrices ==
  \A in \in Inputs : in.type \in {"sell", "capital_reduction"} /\ in.qty # 0 =>
    \E price \in Int : in.cash = price * in.qty

(* The invariant behind ProceedsFullyAllocated.                             *)
PInv ==
  /\ \A i \in Active : Even(events[i])
  /\ Allocated(events, Active, Book)

(* With whole prices a recorded sale has even proceeds.                     *)
LEMMA PreparedIsEven ==
  ASSUME WholePrices, NEW in \in Inputs, ~Rejected(in)
  PROVE  Even(Prepared(in))
<1> SUFFICES ASSUME in.type \in {"sell", "capital_reduction"}, Prepared(in).qty # 0
             PROVE  /\ in.asset \in Asset
                    /\ \E price \in Int : in.cash = price * Abs(Prepared(in).qty)
  BY DEF Even, Prepared
<1>1. in \in Input
  BY LedgerAssumption
<1>2. in.qty \in Int /\ in.asset \in Asset
  BY <1>1 DEF Input, Rejected
<1>3. Prepared(in).qty = -in.qty
  BY DEF Prepared, StoredQty
<1>4. in.qty # 0 /\ in.qty >= 0
  BY <1>2, <1>3 DEF Rejected
<1>5. Abs(Prepared(in).qty) = in.qty
  BY <1>2, <1>3, <1>4 DEF Abs
<1> QED BY <1>2, <1>4, <1>5 DEF WholePrices

(* Allocated is about the events of ids only.                               *)
LEMMA AllocatedSame ==
  ASSUME NEW evs, NEW others, NEW ids, NEW b, Allocated(evs, ids, b), \A i \in ids : others[i] = evs[i]
  PROVE  Allocated(others, ids, b)
BY DEF Allocated

(* A recorded sale allocates its own proceeds and touches no earlier row.   *)
LEMMA RecordsAllocate ==
  ASSUME IInv, PInv, WholePrices, NEW in \in Inputs, Records(in)
  PROVE  PInv'
<1> DEFINE n == Len(events) + 1
           e == Prepared(in)
<1>1. e \in Event /\ ~e.voided /\ events \in Seq(Event) /\ Sound(events, Active, Book) /\ Even(e)
  BY PreparedIsEvent, PreparedIsEven DEF IInv, Typed, Records
<1>2. /\ n \in Nat /\ n \notin DOMAIN events
      /\ events'[n] = e /\ \A i \in DOMAIN events : events'[i] = events[i]
      /\ Active' = Active \union {n}
  BY <1>1, AppendFacts DEF Records, Active
<1>3. Active \subseteq DOMAIN events /\ Active \in SUBSET Nat /\ n \notin Active
  BY <1>1, <1>2, StreamFacts
<1>4. Book' = ApplyEventToLots(Book, n, events'[n]) /\ ApplyEventToLots(Book, n, events'[n]).err = "ok"
  BY <1>2 DEF Records
<1> HIDE DEF e, n
<1>5. Sound(events', Active, Book) /\ Allocated(events', Active, Book)
  BY <1>1, <1>2, <1>3, SoundSame, AllocatedSame DEF PInv
<1>6. Allocated(events', Active \union {n}, ApplyEventToLots(Book, n, events'[n]))
  BY <1>1, <1>2, <1>3, <1>4, <1>5, AppliedAllocated
<1>7. \A i \in Active' : Even(events'[i])
  BY <1>1, <1>2, <1>3 DEF PInv
<1> QED BY <1>2, <1>4, <1>6, <1>7 DEF PInv

(* The net proceeds of every active sale and reduction are divided over the *)
(* lots it consumed without loss, after any number of replays.  Assumed:    *)
(* whole prices.                                                            *)
THEOREM ProceedsAllocated ==
  ASSUME WholePrices
  PROVE  Spec => []ProceedsFullyAllocated
<1>1. Init => PInv
  BY DEF Init, PInv, Active, ActiveIn, Allocated
<1>2. IInv /\ PInv /\ [Next]_vars => PInv'
  <2> SUFFICES ASSUME IInv, PInv, [Next]_vars PROVE PInv'
    OBVIOUS
  <2>1. CASE UNCHANGED <<events, lots, cons, snapshot>>
    BY <2>1 DEF PInv, Active, Book
  <2>2. ASSUME NEW i \in Active, Unwinds(i) PROVE PInv'
    <3>1. /\ IsFiniteSet(Active') /\ Active' \subseteq Nat /\ Active' = Active \ {i}
          /\ \A j \in Active' : events'[j] = events[j] /\ events'[j] \in Event
      BY <2>2, UnwindsKeep
    <3>2. \A j \in Active' : Even(events'[j])
      BY <3>1 DEF PInv
    <3>3. Allocated(events', Active', Book')
      BY <2>2, <3>1, <3>2, ReplayAllocated DEF Unwinds
    <3> QED BY <3>2, <3>3 DEF PInv
  <2> QED BY <2>1, <2>2, RecordsAllocate, NextSettles DEF Settles
<1>3. PInv => ProceedsFullyAllocated
  BY DEF PInv, Allocated, RowsOf, ProceedsFullyAllocated, Book
<1> QED BY Invariance, <1>1, <1>2, <1>3, PTL DEF Spec

-----------------------------------------------------------------------------
(* Splits by whole numbers: a replay over other lots than those the split   *)
(* was recorded for leaves whole shares in each of them.  The code's shares *)
(* are decimals.                                                            *)
WholeRatios == \A in \in Inputs : in.type = "split" => in.ratio[1] % in.ratio[2] = 0

(* An event that is applied moves a position as the specification without   *)
(* lots says.                                                               *)
LEMMA AppliedPosition ==
  ASSUME NEW b, BookOK(b), NEW id \in Nat, id \notin DOMAIN b.lots, NEW e \in Event,
         MovesSigned(e), NEW s \in Asset, ApplyEventToLots(b, id, e).err = "ok",
         e.type = "split" /\ e.asset = s =>
           \A l \in OpenLots(b.lots, s) : (b.lots[l].remaining * e.ratio[1]) % e.ratio[2] = 0
  PROVE  OpenShares(ApplyEventToLots(b, id, e).lots, s)
           = Positions!After(OpenShares(b.lots, s), s, e)
<1> DEFINE d == ApplyEventToLots(b, id, e)
           n == OpenShares(b.lots, s)
           m == OpenShares(d.lots, s)
<1>1. PICK c : Moved(b, id, e, c) /\ Recosted(c, d)
  BY Applied
<1>2. BookOK(c) /\ BookOK(d)
  <2> HIDE DEF d
  <2> QED BY <1>1, MovedOK, RecostedOK
<1>3. n \in Nat /\ m \in Nat /\ e.qty \in Int
  BY <1>2, OpenSharesOfAll, EventFields DEF BookOK
<1>4. CASE e.type \in {"cash", "cash_dividend"}
  <2>1. c = b
    BY <1>1, <1>4 DEF Moved, Inserted, Inserts, Sold, Consumes, Split
  <2> HIDE DEF d
  <2>2. LotsOK(b.lots) /\ LotsOK(d.lots) /\ LotsOf(d.lots, s) = LotsOf(b.lots, s)
        /\ \A l \in LotsOf(b.lots, s) : d.lots[l].remaining = b.lots[l].remaining
    BY <1>1, <1>2, <2>1, RecostedOK DEF BookOK, LotsOf
  <2>3. m = n
    BY <2>2, SharesSame
  <2> QED BY <1>4, <2>3 DEF Positions!After, Positions!Moves, d
<1>5. CASE e.type = "split" /\ e.asset = s
  <2>1. m = (n * e.ratio[1]) \div e.ratio[2]
    BY <1>5, AppliedSplit
  <2> HIDE DEF n, m
  <2> QED BY <1>3, <1>5, <2>1 DEF Positions!After, Positions!Moves, n, m
<1>6. CASE e.type \notin {"cash", "cash_dividend"} /\ ~(e.type = "split" /\ e.asset = s)
  <2>1. m = n + IF e.asset = s THEN e.qty ELSE 0
    BY <1>6, AppliedShares DEF MovesSigned
  <2> HIDE DEF n, m
  <2>2. CASE e.asset = s
    <3>1. Max({-1, n + e.qty}) = n + e.qty
      <4>1. -1 \in Int /\ n + e.qty \in Int /\ ~(-1 >= n + e.qty)
        BY <1>3, <2>1, <2>2
      <4> QED BY <4>1, MaxTwo
    <3>2. Positions!Max({-1, n + e.qty}) = n + e.qty
      BY <3>1 DEF Max, Positions!Max
    <3> QED BY <1>3, <1>6, <2>1, <2>2, <3>2 DEF Positions!After, Positions!Moves, n, m
  <2>3. CASE e.asset # s
    BY <1>3, <1>6, <2>1, <2>3 DEF Positions!After, Positions!Moves, n, m
  <2> QED BY <2>2, <2>3
<1> QED BY <1>4, <1>5, <1>6

(* The position after the last of the events s, and g as the positions of   *)
(* each subset of S.                                                        *)
PosStep(evs, a, s, n) == Positions!After(n, a, evs[LastOf(evs, s)])

(* g maps every part of S to the position that its events, in order, lead   *)
(* to.                                                                      *)
Places(g, evs, a, S) ==
  g = [s \in SUBSET S |-> IF s = {} THEN 0 ELSE PosStep(evs, a, s, g[s \ {LastOf(evs, s)}])]

(* The position after the events of S.                                      *)
Pos(evs, a, S) == (CHOOSE g : Places(g, evs, a, S))[S]

(* InDateOrder, a fold of the community modules, in these terms.            *)
LEMMA InDateOrderIs ==
  ASSUME NEW evs, NEW a
  PROVE  Positions!InDateOrder(evs, a) = Pos(evs, a, ActiveIn(evs))
BY DEF Positions!InDateOrder, Positions!MapThenFoldSet, Positions!ActiveEvents, ActiveIn,
       Pos, Places, PosStep, LastOf, Before

(* Two such functions agree: else they differ on a smallest part.           *)
LEMMA PlacesAgree ==
  ASSUME NEW evs, NEW a, NEW S, NEW T, NEW g, Places(g, evs, a, S), NEW h, Places(h, evs, a, T),
         NEW s, s \in SUBSET S, s \in SUBSET T, Dated(evs, s)
  PROVE  g[s] = h[s]
<1> DEFINE Bad == {t \in SUBSET s : g[t] # h[t]}
<1> SUFFICES ASSUME Bad # {} PROVE FALSE
  OBVIOUS
<1>1. PICK t \in Bad : \A x \in t : t \ {x} \notin Bad
  <2>1. Bad \in SUBSET SUBSET s
    OBVIOUS
  <2>2. IsFiniteSet(s)
    BY DEF Dated
  <2> HIDE DEF Bad
  <2> QED BY <2>1, <2>2, Smallest
<1>2. g[t] # h[t] /\ t \in SUBSET s /\ t \in SUBSET S /\ t \in SUBSET T
  BY <1>1
<1>3. /\ g[t] = IF t = {} THEN 0 ELSE PosStep(evs, a, t, g[t \ {LastOf(evs, t)}])
      /\ h[t] = IF t = {} THEN 0 ELSE PosStep(evs, a, t, h[t \ {LastOf(evs, t)}])
  BY <1>2 DEF Places
<1>4. t # {}
  BY <1>2, <1>3
<1>5. LastOf(evs, t) \in t
  BY <1>2, <1>4, LastExists, FS_Subset DEF Dated
<1>6. g[t \ {LastOf(evs, t)}] = h[t \ {LastOf(evs, t)}]
  BY <1>1, <1>5
<1> QED BY <1>2, <1>3, <1>4, <1>6

(* There is one for every finite set of events: else for a smallest one     *)
(* there is none.                                                           *)
LEMMA PlacesExist ==
  ASSUME NEW evs, NEW a, NEW S, Dated(evs, S)
  PROVE  \E g : Places(g, evs, a, S)
<1> DEFINE Bad == {t \in SUBSET S : ~\E g : Places(g, evs, a, t)}
<1> SUFFICES ASSUME Bad # {} PROVE FALSE
  OBVIOUS
<1>1. PICK t \in Bad : \A x \in t : t \ {x} \notin Bad
  <2>1. Bad \in SUBSET SUBSET S
    OBVIOUS
  <2>2. IsFiniteSet(S)
    BY DEF Dated
  <2> HIDE DEF Bad
  <2> QED BY <2>1, <2>2, Smallest
<1>2. t \in SUBSET S /\ Dated(evs, t) /\ ~\E g : Places(g, evs, a, t)
  BY <1>1, FS_Subset DEF Dated
<1>3. CASE t = {}
  <2> DEFINE g == [s \in SUBSET t |-> 0]
  <2>1. SUBSET t = {{}}
    BY <1>3
  <2>2. g = [s \in SUBSET t |-> IF s = {} THEN 0 ELSE PosStep(evs, a, s, g[s \ {LastOf(evs, s)}])]
    BY <2>1
  <2> QED BY <1>2, <2>2 DEF Places
<1>4. CASE t # {}
  <2> DEFINE G(x) == CHOOSE g : Places(g, evs, a, t \ {x})
             l == LastOf(evs, t)
  <2>1. ASSUME NEW x \in t PROVE Places(G(x), evs, a, t \ {x})
    <3>1. \E g : Places(g, evs, a, t \ {x})
      BY <1>1
    <3> QED BY <3>1
  <2> HIDE DEF G
  <2> DEFINE Of(s) == G(CHOOSE x \in t : x \notin s)
             g == [s \in SUBSET t |-> IF s = t THEN PosStep(evs, a, t, G(l)[t \ {l}])
                                                ELSE Of(s)[s]]
  <2>2. ASSUME NEW s \in SUBSET t, NEW x \in t, x \notin s PROVE g[s] = G(x)[s]
    <3> DEFINE y == CHOOSE y \in t : y \notin s
    <3>1. y \in t /\ y \notin s
      BY <2>2
    <3>2. g[s] = G(y)[s]
      BY <2>2
    <3> HIDE DEF y, g
    <3>3. Places(G(x), evs, a, t \ {x}) /\ Places(G(y), evs, a, t \ {y})
      BY <2>1, <3>1
    <3>4. s \in SUBSET (t \ {x}) /\ s \in SUBSET (t \ {y}) /\ Dated(evs, s)
      BY <1>2, <2>2, <3>1, FS_Subset DEF Dated
    <3>5. G(y)[s] = G(x)[s]
      BY <3>3, <3>4, PlacesAgree
    <3> QED BY <3>2, <3>5
  <2>3. ASSUME NEW s \in SUBSET t
        PROVE  g[s] = IF s = {} THEN 0 ELSE PosStep(evs, a, s, g[s \ {LastOf(evs, s)}])
    <3>1. CASE s = t
      <4>1. l \in t /\ t \ {l} \in SUBSET t /\ l \notin t \ {l}
        BY <1>2, <1>4, LastExists
      <4>2. g[t \ {l}] = G(l)[t \ {l}]
        <5> HIDE DEF g, l
        <5> QED BY <2>2, <4>1
      <4>3. g[t] = PosStep(evs, a, t, G(l)[t \ {l}])
        OBVIOUS
      <4> HIDE DEF g
      <4> QED BY <1>4, <3>1, <4>2, <4>3
    <3>2. CASE s # t
      <4>1. PICK x \in t : x \notin s
        BY <3>2
      <4> DEFINE k == LastOf(evs, s)
      <4> HIDE DEF g, k
      <4>2. g[s] = G(x)[s] /\ g[s \ {k}] = G(x)[s \ {k}]
        BY <2>2, <4>1
      <4>3. Places(G(x), evs, a, t \ {x})
        BY <2>1
      <4>4. G(x)[s] = IF s = {} THEN 0 ELSE PosStep(evs, a, s, G(x)[s \ {k}])
        BY <4>1, <4>3 DEF Places, k
      <4> QED BY <4>2, <4>4 DEF k
    <3> QED BY <3>1, <3>2
  <2>4. g = [s \in SUBSET t |-> g[s]]
    OBVIOUS
  <2> HIDE DEF g
  <2>5. Places(g, evs, a, t)
    <3>1. g = [s \in SUBSET t |-> IF s = {} THEN 0 ELSE PosStep(evs, a, s, g[s \ {LastOf(evs, s)}])]
      BY <2>3, <2>4, Zenon
    <3> QED BY <3>1 DEF Places
  <2> QED BY <1>2, <2>5
<1> QED BY <1>3, <1>4

(* The position of some events is the last one's, on top of the others'.    *)
LEMMA PosLast ==
  ASSUME NEW evs, NEW a, NEW S, Dated(evs, S)
  PROVE  Pos(evs, a, S) = IF S = {} THEN 0
                          ELSE PosStep(evs, a, S, Pos(evs, a, S \ {LastOf(evs, S)}))
<1> DEFINE g == CHOOSE g : Places(g, evs, a, S)
           l == LastOf(evs, S)
           T == S \ {l}
           h == CHOOSE h : Places(h, evs, a, T)
<1>1. Dated(evs, T)
  BY FS_RemoveElement DEF Dated
<1>2. Places(g, evs, a, S) /\ Places(h, evs, a, T)
  BY <1>1, PlacesExist
<1>3. Pos(evs, a, S) = g[S] /\ Pos(evs, a, T) = h[T]
  BY DEF Pos
<1> HIDE DEF g, h
<1>4. g[T] = h[T]
  <2>1. T \in SUBSET S /\ T \in SUBSET T
    OBVIOUS
  <2> HIDE DEF T
  <2> QED BY <1>1, <1>2, <2>1, PlacesAgree
<1>5. g[S] = IF S = {} THEN 0 ELSE PosStep(evs, a, S, g[T])
  BY <1>2 DEF Places
<1> QED BY <1>3, <1>4, <1>5

(* A replay that succeeds leaves the lots the positions in date order.      *)
LEMMA ReplayPositions ==
  ASSUME NEW evs, NEW S, IsFiniteSet(S), S \subseteq Nat, NEW s \in Asset,
         \A i \in S : /\ evs[i] \in Event /\ MovesSigned(evs[i])
                      /\ evs[i].type = "split" => evs[i].ratio[1] % evs[i].ratio[2] = 0,
         Replay(evs, S).err = "ok"
  PROVE  OpenShares(Replay(evs, S).lots, s) = Pos(evs, s, S)
<1> DEFINE OK(t) == Replay(evs, t).err = "ok" => OpenShares(Replay(evs, t).lots, s) = Pos(evs, s, t)
           Bad == {t \in SUBSET S : ~OK(t)}
<1> SUFFICES ASSUME Bad # {} PROVE FALSE
  OBVIOUS
<1>1. PICK t \in Bad : \A x \in t : t \ {x} \notin Bad
  <2>1. Bad \in SUBSET SUBSET S
    OBVIOUS
  <2> HIDE DEF Bad
  <2> QED BY <2>1, Smallest
<1>2. t \in SUBSET S /\ ~OK(t) /\ IsFiniteSet(t)
  BY <1>1, FS_Subset
<1>3. Dated(evs, t)
  BY <1>2, EventFields DEF Dated
<1> DEFINE l == LastOf(evs, t)
           r == t \ {l}
           b == Replay(evs, r)
<1>4. /\ Replay(evs, t) = IF t = {} THEN EmptyBook ELSE ReplayStep(evs, t, b)
      /\ Pos(evs, s, t) = IF t = {} THEN 0 ELSE PosStep(evs, s, t, Pos(evs, s, r))
  BY <1>3, ReplayLast, PosLast
<1>5. t # {}
  <2> SUFFICES ASSUME t = {} PROVE FALSE
    OBVIOUS
  <2>1. OpenShares(EmptyBook.lots, s) = 0
    <3>1. LotsOK(EmptyBook.lots) /\ OpenLots(EmptyBook.lots, s) = {}
      BY FS_EmptySet DEF EmptyBook, LotsOK, OpenLots
    <3> HIDE DEF Bad
    <3> QED BY <3>1, OpenSharesOfAll, SumEmpty
  <2> QED BY <1>2, <1>4, <2>1
<1>6. l \in t
  BY <1>3, <1>5, LastExists
<1>7. OK(r)
  BY <1>1, <1>6
<1>8. /\ l \in Nat /\ evs[l] \in Event /\ MovesSigned(evs[l]) /\ l \notin r
      /\ evs[l].type = "split" => evs[l].ratio[1] % evs[l].ratio[2] = 0
      /\ IsFiniteSet(r) /\ r \subseteq Nat /\ \A i \in r : evs[i] \in Event
  <2>1. IsFiniteSet(r) /\ r \subseteq S
    BY <1>2, FS_RemoveElement
  <2>2. l \in S /\ l \notin r
    BY <1>2, <1>6
  <2> HIDE DEF r, l
  <2> QED BY <2>1, <2>2
<1>9. /\ Replay(evs, t) = IF b.err # "ok" THEN b ELSE ApplyEventToLots(b, l, evs[l])
      /\ Pos(evs, s, t) = Positions!After(Pos(evs, s, r), s, evs[l])
  BY <1>4, <1>5 DEF ReplayStep, PosStep
<1>10. Sound(evs, r, b)
  BY <1>8, ReplaySound
<1>11. b.err = "ok" => OpenShares(b.lots, s) = Pos(evs, s, r)
  BY <1>7
<1> HIDE DEF l, r, b
<1>12. SUFFICES ASSUME Replay(evs, t).err = "ok"
                PROVE  OpenShares(Replay(evs, t).lots, s) = Pos(evs, s, t)
  BY <1>2
<1> HIDE DEF Bad, OK
<1>13. b.err = "ok" /\ Replay(evs, t) = ApplyEventToLots(b, l, evs[l])
  BY <1>9, <1>12
<1>14. BookOK(b) /\ l \notin DOMAIN b.lots
  BY <1>8, <1>10 DEF Sound
<1>15. evs[l].type = "split" =>
         \A k \in OpenLots(b.lots, s) : (b.lots[k].remaining * evs[l].ratio[1]) % evs[l].ratio[2] = 0
  <2> SUFFICES ASSUME evs[l].type = "split", NEW k \in OpenLots(b.lots, s)
               PROVE  (b.lots[k].remaining * evs[l].ratio[1]) % evs[l].ratio[2] = 0
    OBVIOUS
  <2>1. b.lots[k].remaining \in Nat
    BY <1>14, OpenFacts DEF BookOK
  <2>2. evs[l].ratio[1] \in Nat /\ evs[l].ratio[2] \in Nat \ {0}
    BY <1>8, EventFields
  <2> QED BY <1>8, <2>1, <2>2, WholeMultiple
<1>16. OpenShares(ApplyEventToLots(b, l, evs[l]).lots, s)
         = Positions!After(OpenShares(b.lots, s), s, evs[l])
  BY <1>8, <1>12, <1>13, <1>14, <1>15, AppliedPosition
<1> QED BY <1>9, <1>11, <1>13, <1>16

(* What the refinement needs to know of the active events.                  *)
SInv ==
  \A i \in Active :
    /\ MovesSigned(events[i])
    /\ events[i].type = "split" => events[i].ratio[1] % events[i].ratio[2] = 0

(* Recording an event records it in the lot-free ledger.                    *)
LEMMA RecordsRefine ==
  ASSUME IInv, SInv, WholeRatios, NEW in \in Inputs, Records(in)
  PROVE  SInv' /\ Positions!Next
<1> DEFINE n == Len(events) + 1
           e == Prepared(in)
<1>1. e \in Event /\ ~e.voided /\ events \in Seq(Event) /\ events' \in Seq(Event)
      /\ Sound(events', Active', Book')
  BY PreparedIsEvent, RecordsKeep DEF IInv, Typed
<1>2. /\ n \in Nat /\ n \notin DOMAIN events /\ Len(events') = n /\ n > Len(events)
      /\ events' = Append(events, e)
      /\ events'[n] = e /\ \A i \in DOMAIN events : events'[i] = events[i]
      /\ Active' = Active \union {n}
  BY <1>1, AppendFacts, StreamFacts DEF Records, Active
<1>3. Active \subseteq DOMAIN events /\ n \notin Active
  BY <1>1, <1>2, StreamFacts
<1>4. MovesSigned(e) /\ (e.type = "split" => e.ratio[1] % e.ratio[2] = 0)
  BY PreparedMovesSigned DEF Records, Prepared, WholeRatios
<1>5. SInv'
  BY <1>2, <1>3, <1>4 DEF SInv
<1>6. /\ lots' = ApplyEventToLots(Book, n, e).lots /\ ApplyEventToLots(Book, n, e).err = "ok"
      /\ BookOK(Book) /\ Book.lots = lots /\ n \notin DOMAIN lots
  BY <1>2, <1>3 DEF Records, Book, IInv, Sound
<1>7. ASSUME NEW s \in Asset
      PROVE  /\ OpenShares(lots', s) = Positions!After(OpenShares(lots, s), s, e)
             /\ OpenShares(lots', s) >= 0
  <2>1. OpenShares(lots', s) \in Nat
    BY <1>1, OpenSharesOfAll DEF Sound, BookOK, Book
  <2>2. e.type = "split" /\ e.asset = s =>
          \A l \in OpenLots(Book.lots, s) : (Book.lots[l].remaining * e.ratio[1]) % e.ratio[2] = 0
    BY <1>6 DEF Records, WholeShares, Prepared
  <2> HIDE DEF e, n
  <2> QED BY <1>1, <1>2, <1>4, <1>6, <2>1, <2>2, AppliedPosition
<1>8. [a \in Asset |-> OpenShares(lots', a)]
        = [a \in Asset |-> Positions!After([x \in Asset |-> OpenShares(lots, x)][a], a, e)]
  <2> HIDE DEF e
  <2> QED BY <1>7
<1>9. Positions!Record(events'[Len(events')])
  BY <1>1, <1>2, <1>7, <1>8 DEF Positions!Record, Positions!Settle
<1> QED BY <1>1, <1>2, <1>5, <1>9 DEF Positions!Next

(* A void that succeeds leaves the positions in date order.                 *)
LEMMA UnwindsRefine ==
  ASSUME IInv, SInv, NEW i \in Active, Unwinds(i)
  PROVE  SInv' /\ Positions!Next
<1>1. /\ IsFiniteSet(Active') /\ Active' \subseteq Nat /\ Active' = Active \ {i}
      /\ \A j \in Active' : events'[j] = events[j] /\ events'[j] \in Event
      /\ Sound(events', Active', Book')
  BY UnwindsKeep
<1>2. SInv'
  BY <1>1 DEF SInv
<1>3. ASSUME NEW s \in Asset
      PROVE  /\ OpenShares(lots', s) = Positions!InDateOrder(events', s)
             /\ OpenShares(lots', s) >= 0
  <2>1. OpenShares(lots', s) \in Nat
    BY <1>1, OpenSharesOfAll DEF Sound, BookOK, Book
  <2>2. OpenShares(Replay(events', Active').lots, s) = Pos(events', s, Active')
    <3>1. \A j \in Active' :
            /\ events'[j] \in Event /\ MovesSigned(events'[j])
            /\ events'[j].type = "split" => events'[j].ratio[1] % events'[j].ratio[2] = 0
      BY <1>1, <1>2 DEF SInv
    <3>2. Replay(events', Active').err = "ok"
      BY DEF Unwinds
    <3> QED BY <1>1, <3>1, <3>2, ReplayPositions
  <2>3. Positions!InDateOrder(events', s) = Pos(events', s, Active')
    BY InDateOrderIs DEF Active
  <2> QED BY <2>1, <2>2, <2>3 DEF Unwinds, Book
<1>4. [a \in Asset |-> OpenShares(lots', a)] = [a \in Asset |-> Positions!InDateOrder(events', a)]
  BY <1>3
<1>5. i \in DOMAIN events /\ ~events[i].voided
  BY DEF Active, ActiveIn
<1>6. Positions!Void(i)
  BY <1>3, <1>4, <1>5 DEF Unwinds, Positions!Void, Positions!Settle
<1> QED BY <1>2, <1>5, <1>6 DEF Positions!Next

(* The share counts of the ledger are those of the specification without    *)
(* lots: every create moves one position by its quantity or ratio, and      *)
(* every void leaves the positions of the remaining events in date order.   *)
(* Assumed: whole split ratios.                                             *)
THEOREM RefinesPosition ==
  ASSUME WholeRatios
  PROVE  Spec => PositionSpec
<1>1. Init => Positions!Init /\ SInv
  <2> SUFFICES ASSUME Init PROVE Positions!Init /\ SInv
    OBVIOUS
  <2>1. events = <<>> /\ Active = {}
    BY DEF Init, Active, ActiveIn
  <2>2. ASSUME NEW s \in Asset PROVE OpenShares(lots, s) = 0
    <3>1. LotsOK(lots) /\ OpenLots(lots, s) = {}
      BY FS_EmptySet DEF Init, EmptyBook, LotsOK, OpenLots
    <3> QED BY <3>1, OpenSharesOfAll, SumEmpty
  <2> QED BY <2>1, <2>2 DEF Positions!Init, SInv
<1>2. IInv /\ SInv /\ [Next]_vars => SInv' /\ [Positions!Next]_(Positions!vars)
  <2> SUFFICES ASSUME IInv, SInv, [Next]_vars
               PROVE  SInv' /\ [Positions!Next]_(Positions!vars)
    OBVIOUS
  <2>1. CASE UNCHANGED <<events, lots, cons, snapshot>>
    BY <2>1 DEF SInv, Active, Positions!vars
  <2> QED BY <2>1, RecordsRefine, UnwindsRefine, NextSettles DEF Settles
<1> QED BY Invariance, <1>1, <1>2, PTL DEF Spec, PositionSpec, Positions!Spec
-----------------------------------------------------------------------------
(* Amounts that whole splits divide without a rest.  K[n] divides every     *)
(* price per share once n events are active: it is K[n - 1], divided by the *)
(* ratio when the n-th of them is a split.  The code's amounts are decimals.*)
FineAmounts(K) ==
  /\ \A n \in 1..MaxEvents : \E m \in Int : K[n - 1] = m * K[n]
  /\ \A in \in Inputs :
       /\ in.type = "split" /\ in.ratio[1] # 0 => \A n \in 1..MaxEvents :
            \E m \in Int : K[n - 1] = m * (K[n] * (in.ratio[1] \div in.ratio[2]))
       /\ in.type = "buy" /\ in.qty > 0 => \A n \in 0..MaxEvents :
            \E price \in Int : in.cash = (price * K[n]) * in.qty
       /\ in.type = "adjustment" /\ in.unitCost # Absent => \A n \in 0..MaxEvents :
            \E price \in Int : in.unitCost = price * K[n]

(* The invariant behind OriginalCostConserved: every lot has one price per  *)
(* share, whole for as many splits as the bound leaves.                     *)
CInv(K) ==
  /\ \A i \in Active : Fine(events[i], MaxEvents, K)
  /\ Priced(events, Book, K[Cardinality(Active)])

(* No more events are active than there are events.                         *)
LEMMA CountActive ==
  ASSUME NEW evs \in Seq(Event)
  PROVE  Cardinality(ActiveIn(evs)) \in Nat /\ Cardinality(ActiveIn(evs)) <= Len(evs)
<1> DEFINE n == Len(evs)
           S == ActiveIn(evs)
<1>1. n \in Nat /\ S \in SUBSET (1..n)
  BY DEF ActiveIn
<1> HIDE DEF n, S
<1>2. IsFiniteSet(1..n) /\ Cardinality(1..n) = IF 1 > n THEN 0 ELSE n - 1 + 1
  BY <1>1, FS_Interval
<1>3. Cardinality(1..n) = n
  BY <1>1, <1>2
<1>4. IsFiniteSet(S) /\ Cardinality(S) <= Cardinality(1..n)
  BY <1>1, <1>2, FS_Subset
<1>5. Cardinality(S) \in Nat
  BY <1>4, FS_CardinalityType
<1> QED BY <1>3, <1>4, <1>5 DEF n, S

(* What a recorded event opens is a multiple of every price unit, and a     *)
(* split divides it.                                                        *)
LEMMA PreparedIsFine ==
  ASSUME WholeRatios, NEW K \in [0..MaxEvents -> Int], FineAmounts(K),
         NEW in \in Inputs, ~Rejected(in)
  PROVE  Fine(Prepared(in), MaxEvents, K)
<1> DEFINE e == Prepared(in)
<1>1. /\ in.type \in EventTypes /\ in.qty \in Int /\ in.cash \in Int /\ in.unitCost \in Int
      /\ in.ratio[1] \in Nat /\ in.ratio[2] \in Nat \ {0}
  BY LedgerAssumption DEF Input, Absent
<1>2. /\ e.type = in.type /\ e.ratio = in.ratio /\ e.unitCost = in.unitCost
      /\ e.type = "buy" => e.cash = in.cash
      /\ Inserts(e) => e.qty = in.qty
  BY DEF Prepared, StoredQty, Inserts
<1> HIDE DEF e
<1>3. ASSUME NEW n \in 0..MaxEvents, Inserts(e)
      PROVE  e.qty # 0 /\ \E p \in Int : OpeningCost(e) = p * (Abs(e.qty) * K[n])
  <2> DEFINE q == in.qty
             k == K[n]
  <2>1. q \in Int /\ q > 0 /\ e.qty = q /\ Abs(e.qty) = q /\ k \in Int
    <3>1. q > 0
      BY <1>1, <1>2, <1>3 DEF Inserts, Rejected
    <3> QED BY <1>1, <1>2, <1>3, <3>1 DEF Abs
  <2>2. CASE e.type = "buy"
    <3>1. PICK price \in Int : in.cash = (price * k) * q
      BY <1>2, <2>1, <2>2 DEF FineAmounts
    <3> HIDE DEF q, k
    <3>2. -in.cash = (-price) * (q * k) /\ -price \in Int
      BY <2>1, <3>1
    <3>3. OpeningCost(e) = -in.cash
      BY <1>2, <2>2 DEF OpeningCost
    <3> QED BY <2>1, <3>2, <3>3 DEF k
  <2>3. CASE e.type = "adjustment" /\ e.unitCost # Absent
    <3>1. PICK price \in Int : in.unitCost = price * k
      BY <1>2, <2>3 DEF FineAmounts
    <3>2. OpeningCost(e) = in.unitCost * q
      BY <1>2, <2>1, <2>3 DEF OpeningCost
    <3> HIDE DEF q, k
    <3>3. (price * k) * q = price * (q * k)
      BY <2>1
    <3> QED BY <2>1, <3>1, <3>2, <3>3 DEF k
  <2>4. CASE ~(e.type = "buy") /\ ~(e.type = "adjustment" /\ e.unitCost # Absent)
    <3>1. OpeningCost(e) = 0
      BY <2>4 DEF OpeningCost
    <3> HIDE DEF q, k
    <3>2. 0 = 0 * (q * k)
      BY <2>1
    <3> QED BY <2>1, <3>1, <3>2 DEF k
  <2> QED BY <2>2, <2>3, <2>4
<1>4. ASSUME NEW n \in 1..MaxEvents PROVE Scales(e, K[n - 1], K[n])
  <2>1. \E m \in Int : K[n - 1] = m * K[n]
    BY DEF FineAmounts
  <2>2. ASSUME e.type = "split"
        PROVE  \E k \in Nat \ {0}, m \in Int :
                 e.ratio[1] = k * e.ratio[2] /\ K[n - 1] = m * (K[n] * k)
    <3> DEFINE r == in.ratio[1]
               d == in.ratio[2]
               k == r \div d
    <3>1. r # 0 /\ r % d = 0
      BY <1>2, <2>2 DEF Rejected, WholeRatios
    <3>2. \E m \in Int : K[n - 1] = m * (K[n] * k)
      BY <1>2, <2>2, <3>1 DEF FineAmounts
    <3>3. d * k = r /\ k \in Nat
      <4>1. r \in Nat /\ d \in Nat \ {0}
        BY <1>1
      <4> HIDE DEF r, d
      <4> QED BY <3>1, <4>1, WholeProduct, Divides
    <3>4. k # 0 /\ r = k * d
      <4> HIDE DEF r, d, k
      <4> QED BY <1>1, <3>1, <3>3 DEF r, d
    <3> QED BY <1>2, <3>2, <3>3, <3>4
  <2> QED BY <2>1, <2>2 DEF Scales
<1> QED BY <1>3, <1>4 DEF Fine, Fits, e

(* Prices are about the rows of ids only.                                   *)
LEMMA PricedSame ==
  ASSUME NEW evs, NEW others, NEW ids, NEW b, Sound(evs, ids, b), \A i \in ids : others[i] = evs[i],
         NEW K, Priced(evs, b, K)
  PROVE  Priced(others, b, K)
<1>1. \A c \in b.cons : others[c.event] = evs[c.event]
  BY DEF Sound
<1>2. ASSUME NEW l \in DOMAIN b.lots, NEW u, AtPrice(evs, b.lots[l], RowsIn(b.cons, l), u)
      PROVE  AtPrice(others, b.lots[l], RowsIn(b.cons, l), u)
  BY <1>1, <1>2 DEF AtPrice, RowsIn
<1> QED BY <1>2 DEF Priced

(* An event that is recorded keeps them.                                    *)
LEMMA RecordsPriced ==
  ASSUME IInv, WholeRatios, NEW K \in [0..MaxEvents -> Int], FineAmounts(K), CInv(K),
         NEW in \in Inputs, Records(in)
  PROVE  CInv(K)'
<1> DEFINE n == Len(events) + 1
           e == Prepared(in)
<1>1. /\ e \in Event /\ ~e.voided /\ events \in Seq(Event) /\ Sound(events, Active, Book)
      /\ Fine(e, MaxEvents, K)
  BY PreparedIsEvent, PreparedIsFine DEF IInv, Typed, Records
<1>2. /\ n \in Nat /\ n \notin DOMAIN events
      /\ events'[n] = e /\ \A i \in DOMAIN events : events'[i] = events[i]
      /\ Active' = Active \union {n}
  BY <1>1, AppendFacts DEF Records, Active
<1>3. /\ Active \subseteq DOMAIN events /\ Active \in SUBSET Nat /\ n \notin Active
      /\ IsFiniteSet(Active)
  BY <1>1, <1>2, StreamFacts
<1>4. Book' = ApplyEventToLots(Book, n, events'[n]) /\ ApplyEventToLots(Book, n, events'[n]).err = "ok"
  BY <1>2 DEF Records
<1> DEFINE m == Cardinality(Active)
<1>5. m \in 0..MaxEvents /\ m + 1 \in 1..MaxEvents /\ m + 1 - 1 = m /\ Cardinality(Active') = m + 1
      /\ m + 1 \in 0..MaxEvents
  <2>1. m \in Nat /\ Cardinality(Active') = m + 1
    BY <1>2, <1>3, FS_AddElement, FS_CardinalityType
  <2>2. m <= Len(events)
    BY <1>1, CountActive DEF Active
  <2>3. Len(events) < MaxEvents /\ Len(events) \in Nat
    BY <1>1, StreamFacts DEF Records
  <2> HIDE DEF m
  <2> QED BY <2>1, <2>2, <2>3, LedgerAssumption
<1> HIDE DEF e, n, m
<1>6. Sound(events', Active, Book) /\ Priced(events', Book, K[m])
  BY <1>1, <1>2, <1>3, SoundSame, PricedSame DEF CInv, m
<1>7. /\ K[m] \in Int /\ K[m + 1] \in Int
      /\ Fits(events'[n], K[m + 1]) /\ Scales(events'[n], K[m], K[m + 1])
  BY <1>1, <1>2, <1>5 DEF Fine
<1>8. Priced(events', ApplyEventToLots(Book, n, events'[n]), K[m + 1])
  BY <1>1, <1>2, <1>3, <1>4, <1>6, <1>7, AppliedPriced
<1>9. \A i \in Active' : Fine(events'[i], MaxEvents, K)
  BY <1>1, <1>2, <1>3 DEF CInv
<1> QED BY <1>4, <1>5, <1>8, <1>9 DEF CInv

(* So does a replay.                                                        *)
LEMMA UnwindsPriced ==
  ASSUME IInv, NEW K \in [0..MaxEvents -> Int], CInv(K), NEW i \in Active, Unwinds(i)
  PROVE  CInv(K)'
<1>1. /\ IsFiniteSet(Active') /\ Active' \subseteq Nat /\ Active' = Active \ {i}
      /\ \A j \in Active' : events'[j] = events[j] /\ events'[j] \in Event
      /\ events' \in Seq(Event) /\ Len(events') <= MaxEvents
  BY UnwindsKeep
<1>2. \A j \in Active' : Fine(events'[j], MaxEvents, K)
  BY <1>1 DEF CInv
<1>3. Cardinality(Active') <= MaxEvents
  <2>1. Cardinality(Active') \in Nat /\ Cardinality(Active') <= Len(events')
    BY <1>1, CountActive DEF Active
  <2> QED BY <1>1, <2>1, LedgerAssumption
<1>4. MaxEvents \in Nat
  BY LedgerAssumption
<1>5. Priced(events', Replay(events', Active'), K[Cardinality(Active')])
  BY <1>1, <1>2, <1>3, <1>4, ReplayPriced DEF Unwinds
<1> QED BY <1>2, <1>5 DEF CInv, Unwinds

(* What is not spent is what the remaining shares cost.                     *)
LEMMA PricedConserved ==
  ASSUME IInv, NEW K \in Int, Priced(events, Book, K)
  PROVE  OriginalCostConserved
<1> SUFFICES ASSUME NEW l \in DOMAIN lots,
                    ~\E c \in RowsIn(cons, l) : events[c.event].unitCost # Absent
             PROVE  lots[l].cost = (lots[l].cost * lots[l].remaining) \div lots[l].original
                                     + Spent(RowsIn(cons, l))
  BY DEF OriginalCostConserved, RowsIn, Spent
<1>1. PICK p \in Int : AtPrice(events, lots[l], RowsIn(cons, l), p * K)
  BY DEF Priced, Book
<1> DEFINE u == p * K
           o == lots[l].original
           m == lots[l].remaining
<1>2. /\ lots[l] \in Lot /\ o \in Nat \ {0} /\ m \in Nat /\ u \in Int
      /\ lots[l].cost = u * o /\ Spent(RowsIn(cons, l)) = u * (o - m)
  BY <1>1 DEF IInv, Sound, BookOK, LotsOK, Book, Lot, AtPrice
<1> HIDE DEF u, o, m
<1>3. ((u * o) * m) \div o = u * m
  BY <1>2, PriceTimesShares
<1>4. u * o = u * m + u * (o - m)
  BY <1>2
<1> QED BY <1>2, <1>3, <1>4 DEF o, m

(* Every unit of a lot's cost is still in the lot or was recorded as        *)
(* consumed, whatever was sold, split, adjusted and voided in between.      *)
(* Assumed: whole ratios, and amounts that they divide.                     *)
THEOREM CostConserved ==
  ASSUME WholeRatios, NEW K \in [0..MaxEvents -> Int], FineAmounts(K)
  PROVE  Spec => []OriginalCostConserved
<1>1. Init => CInv(K)
  BY DEF Init, CInv, Active, ActiveIn, Priced, Book, EmptyBook
<1>2. IInv /\ CInv(K) /\ [Next]_vars => CInv(K)'
  <2> SUFFICES ASSUME IInv, CInv(K), [Next]_vars PROVE CInv(K)'
    OBVIOUS
  <2>1. CASE UNCHANGED <<events, lots, cons, snapshot>>
    BY <2>1 DEF CInv, Active, Book
  <2> QED BY <2>1, RecordsPriced, UnwindsPriced, NextSettles DEF Settles
<1>3. IInv /\ CInv(K) => OriginalCostConserved
  <2> SUFFICES ASSUME IInv, CInv(K) PROVE OriginalCostConserved
    OBVIOUS
  <2>1. events \in Seq(Event) /\ Len(events) <= MaxEvents /\ Len(events) \in Nat
    BY DEF IInv, Typed
  <2>2. Cardinality(Active) \in Nat /\ Cardinality(Active) <= Len(events)
    BY <2>1, CountActive DEF Active
  <2>3. Cardinality(Active) \in 0..MaxEvents
    BY <2>1, <2>2, LedgerAssumption
  <2>4. K[Cardinality(Active)] \in Int
    BY <2>3
  <2> QED BY <2>4, PricedConserved DEF CInv
<1> QED BY Invariance, <1>1, <1>2, <1>3, PTL DEF Spec
-----------------------------------------------------------------------------
(* A step that records a dividend pays a whole amount per open share: the   *)
(* model divides integers where the code divides decimals.                  *)
WholeDividend ==
  Len(events') > Len(events) =>
    LET e == events'[Len(events')]
    IN  e.type = "cash_dividend" /\ OpenShares(lots, e.asset) > 0 =>
          \E x \in Int : e.cash = x * OpenShares(lots, e.asset)

(* A position of the portfolio: its shares and the costs they carry.        *)
LEMMA PositionIs ==
  ASSUME NEW evs, NEW ls, NEW a \in Asset
  PROVE  Portfolio(evs, ls).positions[a] =
           [shares |-> OpenShares(ls, a), cost |-> CostOf(ls, a), adjusted |-> AdjustedOf(ls, a)]
BY DEF Portfolio, CostOf, AdjustedOf

(* A recorded cash dividend lowers the adjusted cost of the position by     *)
(* exactly the cash received, and a recorded split keeps both total costs.  *)
(* Assumed: dividends of a whole amount per share.                          *)
THEOREM TotalsKept == Spec /\ [][WholeDividend]_vars => CorporateActionsKeepTotals
<1> DEFINE Kept ==
      Len(events') > Len(events) =>
        LET e == events'[Len(events')]
            old == Portfolio(events, lots).positions[e.asset]
            new == Portfolio(events', lots').positions[e.asset]
        IN  /\ e.type = "cash_dividend" /\ e.cash > 0 /\ old.shares > 0 =>
                new = [old EXCEPT !.adjusted = @ - e.cash]
            /\ e.type = "split" =>
                new = [old EXCEPT !.shares = (@ * e.ratio[1]) \div e.ratio[2]]
<1>1. IInv /\ [Next]_vars /\ [WholeDividend]_vars => [Kept]_vars
  <2> SUFFICES ASSUME IInv, [Next]_vars, WholeDividend, Len(events') > Len(events) PROVE Kept
    <3>1. Len(events) \in Nat
      BY StreamFacts DEF IInv, Typed
    <3>2. CASE UNCHANGED vars
      BY <3>2
    <3>3. CASE ~UNCHANGED vars
      BY <3>3
    <3> QED BY <3>2, <3>3
  <2>1. /\ events \in Seq(Event) /\ Len(events) \in Nat /\ events' # events
        /\ \A i \in Active : events' # [events EXCEPT ![i].voided = TRUE]
    <3>1. events \in Seq(Event) /\ Len(events) \in Nat
      BY StreamFacts DEF IInv, Typed
    <3> QED BY <3>1, VoidFacts
  <2>2. PICK in \in Inputs : Records(in)
    BY <2>1, NextSettles DEF Settles, Unwinds
  <2> DEFINE n == Len(events) + 1
             e == Prepared(in)
             a == e.asset
             d == ApplyEventToLots(Book, n, e)
  <2>3. /\ e \in Event /\ n \in Nat /\ Len(events') = n /\ events'[n] = e
        /\ e.type = in.type /\ e.ratio = in.ratio /\ a = in.asset
    <3>1. e \in Event /\ ~e.voided
      BY PreparedIsEvent DEF IInv
    <3>2. e.type = in.type /\ e.ratio = in.ratio /\ a = in.asset
      BY DEF Prepared
    <3> HIDE DEF e
    <3> QED BY <2>1, <2>2, <3>1, <3>2, AppendFacts DEF Records, e
  <2>4. BookOK(Book) /\ Book.err = "ok" /\ Book.lots = lots /\ d.lots = lots'
    <3>1. Book' = d
      BY <2>2 DEF Records
    <3> HIDE DEF d
    <3> QED BY <3>1 DEF IInv, Sound, Book
  <2>5. e.type \in {"cash_dividend", "split"} => a \in Asset /\ a # NoAsset
    <3>1. e.type \in {"cash_dividend", "split"} => a # NoAsset
      BY <2>2, <2>3 DEF Records, Rejected
    <3> HIDE DEF e
    <3> QED BY <2>3, <3>1, EventFields
  <2> HIDE DEF e, n
  <2>6. ASSUME e.type = "cash_dividend", e.cash > 0, OpenShares(lots, a) > 0
        PROVE  Portfolio(events', lots').positions[a]
                 = [Portfolio(events, lots).positions[a] EXCEPT !.adjusted = @ - e.cash]
    <3>1. PICK x \in Int : e.cash = x * OpenShares(lots, a)
      BY <2>3, <2>6 DEF WholeDividend
    <3>2. d = DeductAdjustedCostProRata(Book, a, e.cash)
      BY <2>5, <2>6 DEF ApplyEventToLots
    <3>3. OpenShares(lots, a) # 0
      BY <2>6
    <3> HIDE DEF a, d
    <3>4. /\ OpenShares(lots', a) = OpenShares(lots, a) /\ CostOf(lots', a) = CostOf(lots, a)
          /\ AdjustedOf(lots', a) = AdjustedOf(lots, a) - e.cash
      BY <2>4, <3>1, <3>2, <3>3, DeductTotals
    <3>5. a \in Asset
      BY <2>5, <2>6
    <3>6. /\ Portfolio(events, lots).positions[a]
               = [shares |-> OpenShares(lots, a), cost |-> CostOf(lots, a),
                  adjusted |-> AdjustedOf(lots, a)]
          /\ Portfolio(events', lots').positions[a]
               = [shares |-> OpenShares(lots', a), cost |-> CostOf(lots', a),
                  adjusted |-> AdjustedOf(lots', a)]
      BY <3>5, PositionIs
    <3> QED BY <3>4, <3>6
  <2>7. ASSUME e.type = "split"
        PROVE  Portfolio(events', lots').positions[a]
                 = [Portfolio(events, lots).positions[a] EXCEPT
                      !.shares = (@ * e.ratio[1]) \div e.ratio[2]]
    <3>1. e.ratio[1] # 0
      BY <2>2, <2>3, <2>7 DEF Records, Rejected
    <3>2. \A l \in OpenLots(lots, a) :
            /\ (lots[l].original * e.ratio[1]) % e.ratio[2] = 0
            /\ (lots[l].remaining * e.ratio[1]) % e.ratio[2] = 0
      BY <2>2, <2>3 DEF Records, WholeShares
    <3>3. Split(Book, e, d)
      BY <2>5, <2>7 DEF ApplyEventToLots, Split
    <3> HIDE DEF d
    <3>4. CostOf(lots', a) = CostOf(lots, a) /\ AdjustedOf(lots', a) = AdjustedOf(lots, a)
      BY <2>3, <2>4, <3>1, <3>2, <3>3, SplitTotals
    <3>5. OpenShares(lots', a) = (OpenShares(lots, a) * e.ratio[1]) \div e.ratio[2]
      <4>1. \A l \in OpenLots(Book.lots, e.asset) :
              (Book.lots[l].remaining * e.ratio[1]) % e.ratio[2] = 0
        BY <2>4, <3>2
      <4> QED BY <2>3, <2>4, <3>3, <4>1, SplitShares
    <3>6. a \in Asset
      BY <2>5, <2>7
    <3> HIDE DEF a
    <3>7. /\ Portfolio(events, lots).positions[a]
               = [shares |-> OpenShares(lots, a), cost |-> CostOf(lots, a),
                  adjusted |-> AdjustedOf(lots, a)]
          /\ Portfolio(events', lots').positions[a]
               = [shares |-> OpenShares(lots', a), cost |-> CostOf(lots', a),
                  adjusted |-> AdjustedOf(lots', a)]
      BY <3>6, PositionIs
    <3> QED BY <3>4, <3>5, <3>7
  <2>8. Portfolio(events, lots).positions[a].shares = OpenShares(lots, a)
        \/ e.type \notin {"cash_dividend", "split"}
    <3>1. CASE e.type \in {"cash_dividend", "split"}
      <4>1. a \in Asset
        BY <2>5, <3>1
      <4> HIDE DEF a
      <4>2. Portfolio(events, lots).positions[a]
              = [shares |-> OpenShares(lots, a), cost |-> CostOf(lots, a),
                 adjusted |-> AdjustedOf(lots, a)]
        BY <4>1, PositionIs
      <4> QED BY <4>2
    <3>2. CASE e.type \notin {"cash_dividend", "split"}
      BY <3>2
    <3> QED BY <3>1, <3>2
  <2> QED BY <2>3, <2>6, <2>7, <2>8
<1> QED BY Invariance, <1>1, PTL DEF Spec, CorporateActionsKeepTotals
=============================================================================
