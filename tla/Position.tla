------------------------------ MODULE Position ------------------------------
(***************************************************************************)
(* What the ledger promises about share counts, without lots: every active *)
(* event moves the position of its asset by its quantity (or multiplies it *)
(* by a split ratio), no position is ever negative, and voiding an event   *)
(* leaves the position the remaining events amount to in trade-date order. *)
(***************************************************************************)
EXTENDS Integers, Sequences, Folds, FiniteSetsExt

CONSTANTS Asset, Event

VARIABLES stream, shares

vars == <<stream, shares>>

Moves(e, a) == e.asset = a /\ e.type \notin {"cash", "cash_dividend"}

(* The position of asset a after event e; -1 once it would be negative.     *)
After(n, a, e) ==
    IF n < 0 \/ ~Moves(e, a) THEN n
    ELSE IF e.type = "split" THEN (n * e.ratio[1]) \div e.ratio[2]
    ELSE Max({-1, n + e.qty})

ActiveEvents(evs) == {i \in DOMAIN evs : ~evs[i].voided}

InDateOrder(evs, a) ==
    LET latest(S) == CHOOSE i \in S : \A j \in S \ {i} :
                        evs[j].date < evs[i].date \/ (evs[j].date = evs[i].date /\ j < i)
    IN  MapThenFoldSet(LAMBDA i, n : After(n, a, evs[i]), 0, LAMBDA i : i, latest,
                       ActiveEvents(evs))

Init == stream = <<>> /\ shares = [a \in Asset |-> 0]

Settle(evs, pos) ==
    /\ \A a \in Asset : pos[a] >= 0
    /\ stream' = evs
    /\ shares' = pos

Record(e) ==
    /\ ~e.voided
    /\ Settle(Append(stream, e), [a \in Asset |-> After(shares[a], a, e)])

Void(i) ==
    /\ ~stream[i].voided
    /\ LET evs == [stream EXCEPT ![i].voided = TRUE]
       IN  Settle(evs, [a \in Asset |-> InDateOrder(evs, a)])

Next ==
    \/ Len(stream') > Len(stream) /\ stream'[Len(stream')] \in Event
                                  /\ Record(stream'[Len(stream')])
    \/ \E i \in DOMAIN stream : Void(i)

Spec == Init /\ [][Next]_vars
=============================================================================
