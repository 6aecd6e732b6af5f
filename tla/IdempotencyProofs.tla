-------------------------- MODULE IdempotencyProofs --------------------------
(***************************************************************************)
(* The middleware's guarantees for every number of attempts and keys,      *)
(* overlapping attempts and failures included.                             *)
(***************************************************************************)
EXTENDS Idempotency, TLAPS

(* What a stored response is, and that it is the one every replay sends.    *)
StoreInv ==
    /\ \A k \in Key : store[k] # None =>
         pc[store[k]] = "stored" /\ answer[store[k]] \in {"ok", "rejected"}
    /\ \A r \in Attempt : pc[r] = "answered" => answer[r] \in Answers
    /\ \A r \in Attempt : pc[r] = "stored" => store[KeyOf[r]] # None
    /\ \A r \in Attempt : pc[r] = "replayed" =>
         /\ store[KeyOf[r]] # None
         /\ replay[r] = store[KeyOf[r]]
         /\ replay[r] \in earlier[r]

(* Who may be where: an attempt that ran its handler had seen no stored     *)
(* response among the attempts that had ended before it.                    *)
HistoryInv ==
    /\ \A r \in Attempt : \A q \in earlier[r] : pc[q] \in Ended
    /\ \A r \in effect : pc[r] \in {"answered", "stored", "unstored", "cut"}
    /\ \A r \in Attempt : pc[r] \in {"handling", "answered", "stored", "unstored", "cut"} =>
         \A q \in earlier[r] : pc[q] # "stored"

(* The inductive invariant.                                                 *)
IInv == TypeOK /\ StoreInv /\ HistoryInv

-----------------------------------------------------------------------------
(* It holds before the first request.                                       *)
LEMMA InitIInv == Init => IInv
  BY IdempotencyAssumption
  DEF Init, IInv, TypeOK, StoreInv, HistoryInv, Running, Ended, Answers

(* Every action keeps the types and the shape of the stored responses.      *)
LEMMA StepStore ==
  ASSUME IInv, [Next]_vars
  PROVE  TypeOK' /\ StoreInv'
<1> USE IdempotencyAssumption DEF IInv, TypeOK, StoreInv, HistoryInv, Running, Ended, Answers
<1>1. ASSUME NEW r \in Attempt, Lookup(r) PROVE TypeOK' /\ StoreInv'
  BY <1>1 DEF Lookup, Arrives, Goto, Same
<1>2. ASSUME NEW r \in Attempt, LookupFails(r) PROVE TypeOK' /\ StoreInv'
  BY <1>2 DEF LookupFails, Arrives, Goto, Same
<1>3. ASSUME NEW r \in Attempt, NEW a \in Answers, NEW changes \in BOOLEAN,
             Handle(r, a, changes)
      PROVE TypeOK' /\ StoreInv'
  BY <1>3 DEF Handle, Goto, Storable
<1>4. ASSUME NEW r \in Attempt, Store(r) PROVE TypeOK' /\ StoreInv'
  BY <1>4 DEF Store, Goto, Storable
<1>5. ASSUME NEW r \in Attempt, StoreFails(r) PROVE TypeOK' /\ StoreInv'
  BY <1>5 DEF StoreFails, Goto
<1>6. CASE Crash
  BY <1>6 DEF Crash
<1>7. CASE UNCHANGED vars
  BY <1>7 DEF vars
<1> QED BY <1>1, <1>2, <1>3, <1>4, <1>5, <1>6, <1>7 DEF Next

(* An attempt that has ended stays ended, and none of the attempts that     *)
(* ended before a running one becomes "stored".                             *)
LEMMA StepHistory ==
  ASSUME IInv, [Next]_vars
  PROVE  HistoryInv'
<1> USE IdempotencyAssumption DEF IInv, TypeOK, StoreInv, HistoryInv, Running, Ended, Answers
<1>1. ASSUME NEW r \in Attempt, Lookup(r) PROVE HistoryInv'
  BY <1>1 DEF Lookup, Arrives, Goto, Same
<1>2. ASSUME NEW r \in Attempt, LookupFails(r) PROVE HistoryInv'
  BY <1>2 DEF LookupFails, Arrives, Goto, Same
<1>3. ASSUME NEW r \in Attempt, NEW a \in Answers, NEW changes \in BOOLEAN,
             Handle(r, a, changes)
      PROVE HistoryInv'
  BY <1>3 DEF Handle, Goto
<1>4. ASSUME NEW r \in Attempt, Store(r) PROVE HistoryInv'
  BY <1>4 DEF Store, Goto
<1>5. ASSUME NEW r \in Attempt, StoreFails(r) PROVE HistoryInv'
  BY <1>5 DEF StoreFails, Goto
<1>6. CASE Crash
  BY <1>6 DEF Crash
<1>7. CASE UNCHANGED vars
  BY <1>7 DEF vars
<1> QED BY <1>1, <1>2, <1>3, <1>4, <1>5, <1>6, <1>7 DEF Next

(* It holds throughout.                                                     *)
LEMMA Invariance == Spec => []IInv
<1>1. IInv /\ [Next]_vars => IInv'
  BY StepStore, StepHistory DEF IInv
<1> QED BY InitIInv, <1>1, PTL DEF Spec

-----------------------------------------------------------------------------
(* The variables keep their types, and a stored response belongs to the key *)
(* it is stored for and is neither a 5xx nor without a body.                *)
THEOREM Typing == Spec => []TypeOK
<1>1. IInv => TypeOK
  BY DEF IInv
<1> QED BY Invariance, <1>1, PTL

(* A replay sends the response of an earlier attempt with the same key that *)
(* ran to its end and did not report a failure of the server.               *)
THEOREM ReplaysAreFaithful == Spec => []ReplayFaithful
<1>1. IInv => ReplayFaithful
  BY IdempotencyAssumption DEF IInv, TypeOK, StoreInv, ReplayFaithful
<1> QED BY Invariance, <1>1, PTL

(* All replays of a key send the same response.                             *)
THEOREM AllReplaysAgree == Spec => []ReplaysAgree
<1>1. IInv => ReplaysAgree
  BY IdempotencyAssumption DEF IInv, TypeOK, StoreInv, ReplaysAgree
<1> QED BY Invariance, <1>1, PTL

(* A repeat of an ended attempt changes the data again only when the first  *)
(* attempt's response could not be stored.                                  *)
THEOREM RepeatsAreStopped == Spec => []RepeatsOnlyUnstored
<1>1. IInv => RepeatsOnlyUnstored
  BY DEF IInv, TypeOK, HistoryInv, RepeatsOnlyUnstored, Ended
<1> QED BY Invariance, <1>1, PTL
=============================================================================
