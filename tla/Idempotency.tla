----------------------------- MODULE Idempotency -----------------------------
(***************************************************************************)
(* The idempotency middleware (internal/api/idempotency.go): look the key  *)
(* up, run the handler when it is not found, store the response after the  *)
(* handler has committed.  An attempt is one POST of a client; a client    *)
(* repeats a request by sending another attempt with the same key (here    *)
(* key stands for user, Idempotency-Key, method and path together).        *)
(***************************************************************************)
EXTENDS Naturals, FiniteSets

CONSTANTS
    Attempt,    \* the POSTs that may be sent
    Key,
    KeyOf,      \* the key each attempt carries
    None,
    Overlap,    \* may an attempt arrive while another of its key is running?
    Loss        \* may a database call fail or the process end?

ASSUME IdempotencyAssumption ==
    /\ KeyOf \in [Attempt -> Key]
    /\ None \notin Attempt
    /\ Overlap \in BOOLEAN /\ Loss \in BOOLEAN

VARIABLES
    pc,         \* where an attempt is
    answer,     \* what its handler wrote: a class of responses
    effect,     \* the attempts whose handler committed a change
    store,      \* idempotency_keys: whose response is kept for a key
    replay,     \* the attempt whose response an attempt was sent
    earlier     \* attempts of its key that had ended when an attempt looked

vars == <<pc, answer, effect, store, replay, earlier>>

(* The responses the middleware tells apart: "ok" and "rejected" (4xx) are  *)
(* JSON below 500, "error" is 5xx, "empty" has no JSON body (a 204).        *)
Answers == {"ok", "rejected", "error", "empty"}
Running == {"handling", "answered"}
Ended == {"stored", "unstored", "replayed", "refused", "cut"}

Same(r) == {q \in Attempt : KeyOf[q] = KeyOf[r]}

Init ==
    /\ pc = [r \in Attempt |-> "idle"]
    /\ answer = [r \in Attempt |-> "none"]
    /\ effect = {}
    /\ store = [k \in Key |-> None]
    /\ replay = [r \in Attempt |-> None]
    /\ earlier = [r \in Attempt |-> {}]

Goto(r, where) == pc' = [pc EXCEPT ![r] = where]

Arrives(r) ==
    /\ pc[r] = "idle"
    /\ Overlap \/ \A q \in Same(r) : pc[q] \notin Running
    /\ earlier' = [earlier EXCEPT ![r] = {q \in Same(r) : pc[q] \in Ended}]

(* Variant: an answer is replayed before it has been stored.                *)
LookupAnswered(r) ==
    LET ready == {q \in Same(r) : pc[q] = "answered"}
    IN  /\ Arrives(r)
        /\ IF ready = {}
           THEN Goto(r, "handling") /\ UNCHANGED replay
           ELSE \E q \in ready :
                    Goto(r, "replayed") /\ replay' = [replay EXCEPT ![r] = q]
        /\ UNCHANGED <<answer, effect, store>>

(* Variant: the handler runs whether or not the key is found.               *)
LookupNever(r) ==
    /\ Arrives(r)
    /\ Goto(r, "handling")
    /\ UNCHANGED <<answer, effect, store, replay>>

Lookup(r) ==
    /\ Arrives(r)
    /\ LET kept == store[KeyOf[r]]
       IN  IF kept = None
           THEN Goto(r, "handling") /\ UNCHANGED replay
           ELSE Goto(r, "replayed") /\ replay' = [replay EXCEPT ![r] = kept]
    /\ UNCHANGED <<answer, effect, store>>

LookupFails(r) ==
    /\ Loss
    /\ Arrives(r)
    /\ Goto(r, "refused")
    /\ UNCHANGED <<answer, effect, store, replay>>

(* The handler commits its change and answers ok or with an empty body, or  *)
(* changes nothing and answers otherwise; when a call fails after the       *)
(* commit, the other answers hide a change (resolving a difference answers  *)
(* 400 then).                                                               *)
Handle(r, a, changes) ==
    /\ pc[r] = "handling"
    /\ a \in {"ok", "empty"} => changes
    /\ a \in {"rejected", "error"} /\ changes => Loss
    /\ answer' = [answer EXCEPT ![r] = a]
    /\ effect' = IF changes THEN effect \union {r} ELSE effect
    /\ Goto(r, "answered")
    /\ UNCHANGED <<store, replay, earlier>>

Storable(a) == a \notin {"error", "empty"}

(* Variant: a failure is stored like any other response.                    *)
StoreFailuresToo(r) ==
    /\ pc[r] = "answered"
    /\ store' = [store EXCEPT ![KeyOf[r]] = IF @ = None THEN r ELSE @]
    /\ Goto(r, "stored")
    /\ UNCHANGED <<answer, effect, replay, earlier>>

(* INSERT ... ON CONFLICT DO NOTHING.                                       *)
Store(r) ==
    /\ pc[r] = "answered"
    /\ IF Storable(answer[r])
       THEN /\ store' = [store EXCEPT ![KeyOf[r]] = IF @ = None THEN r ELSE @]
            /\ Goto(r, "stored")
       ELSE UNCHANGED store /\ Goto(r, "unstored")
    /\ UNCHANGED <<answer, effect, replay, earlier>>

(* The error of the insert is ignored: the client has its answer already.   *)
StoreFails(r) ==
    /\ Loss
    /\ pc[r] = "answered"
    /\ Goto(r, "unstored")
    /\ UNCHANGED <<answer, effect, store, replay, earlier>>

(* The process ends while attempts are running; what a handler committed    *)
(* remains.                                                                 *)
Crash ==
    /\ Loss
    /\ \E r \in Attempt : pc[r] \in Running
    /\ pc' = [r \in Attempt |-> IF pc[r] \in Running THEN "cut" ELSE pc[r]]
    /\ UNCHANGED <<answer, effect, store, replay, earlier>>

Next ==
    \/ \E r \in Attempt : Lookup(r) \/ LookupFails(r) \/ Store(r) \/ StoreFails(r)
    \/ \E r \in Attempt, a \in Answers, changes \in BOOLEAN : Handle(r, a, changes)
    \/ Crash

Spec == Init /\ [][Next]_vars

-----------------------------------------------------------------------------
TypeOK ==
    /\ pc \in [Attempt -> Running \union Ended \union {"idle"}]
    /\ answer \in [Attempt -> Answers \union {"none"}]
    /\ effect \subseteq Attempt
    /\ store \in [Key -> Attempt \union {None}]
    /\ \A k \in Key : store[k] # None => KeyOf[store[k]] = k /\ Storable(answer[store[k]])
    /\ replay \in [Attempt -> Attempt \union {None}]
    /\ earlier \in [Attempt -> SUBSET Attempt]

(* A replay is the response of an attempt with the same key whose handler   *)
(* had run to the end, and never a response that reported a failure.        *)
ReplayFaithful ==
    \A r \in Attempt : pc[r] = "replayed" =>
        /\ replay[r] \in earlier[r]
        /\ answer[replay[r]] \in {"ok", "rejected"}

(* All replays of a key send the same response: a stored response is never  *)
(* replaced, not even by an attempt that overlapped the first.              *)
ReplaysAgree ==
    \A r, q \in Attempt :
        pc[r] = "replayed" /\ pc[q] = "replayed" /\ KeyOf[r] = KeyOf[q]
            => replay[r] = replay[q]

(* A request repeated after its first attempt ended changes the data again  *)
(* only when the response of the first could not be stored or was lost; a   *)
(* stored response, whoever stored it, always stops the later attempt.      *)
RepeatsOnlyUnstored ==
    \A r \in Attempt : \A q \in earlier[r] :
        r \in effect /\ q \in effect => pc[q] \in {"unstored", "cut"}

(* "Repeating a request with the same key gives the original result": what  *)
(* it creates (the answer then has a body) is created once.                 *)
AtMostOnce ==
    \A r, q \in effect :
        KeyOf[r] = KeyOf[q] /\ "empty" \notin {answer[r], answer[q]} => r = q
=============================================================================
