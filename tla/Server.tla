------------------------------- MODULE Server -------------------------------
(***************************************************************************)
(* The requests of the API server (internal/api) over its pool of database *)
(* connections (OpenPool), and the API keys they come with and manage      *)
(* (internal/auth).  A request is the sequence of its database calls.  A   *)
(* statement or a transaction on its own takes a connection when one is    *)
(* free, runs, and gives it back: it is one step.  A transaction that is   *)
(* open while other calls are made keeps its connection from "begin" to    *)
(* "commit" or "rollback".                                                 *)
(***************************************************************************)
EXTENDS Integers, Sequences, FiniteSets

CONSTANTS
    MaxRequests,    \* bound: the requests that arrive
    Operation,      \* what they ask for
    ByKey,          \* what is asked for with an API key, too
    PoolSize        \* MaxConns

Request == 1..MaxRequests   \* numbered as they arrive

(* The user has one key at the start; a created key is named for its        *)
(* request.                                                                 *)
FirstKey == 0
Key == Request \union {FirstKey}
NoKey == -1     \* comes with a session, or manages no key

KeyOperations == {"createKey", "revokeKey", "rotateKey"}

ASSUME ServerAssumption ==
    /\ MaxRequests \in Nat
    /\ PoolSize \in Nat \ {0}
    /\ Operation \subseteq KeyOperations \union
         {"read", "putSettings", "createEvent", "voidEvent", "compare", "resolve",
          "compensate", "loseRace", "recommend", "backtest"}
    /\ ByKey \subseteq Operation \ KeyOperations    \* keys are managed in a session only

VARIABLES
    req,        \* what a request asks for
    todo,       \* the calls it still has to make
    kept,       \* the requests that keep a connection
    blocked,    \* those that have a second one and wait on it for a row of the first
    answer,     \* how it ended
    keys        \* api_keys: "none", "active" or "revoked"

vars == <<req, todo, kept, blocked, answer, keys>>

-----------------------------------------------------------------------------
(* The calls of the services.  Errors of these are thrown away.             *)
Ignored == {"audit", "touch"}

(* Variant: the total of a split is read while the transaction is open.     *)
CreateEventReadingInside == <<"fees", "asset", "begin", "shares", "commit">>

(* prepareEvent reads the fees, the asset and, for a split, the shares.     *)
CreateEvent == <<"fees", "asset", "shares", "event">>

(* CreateRun of a reconciliation: the run is inserted, and all but the      *)
(* broker's rows is read on other connections while that one is kept.       *)
CompareRun ==
    <<"begin", "portfolio", "feeTax", "dividends", "recorded", "symbols", "commit">>

(* ResolveDiffWithInput of a missing dividend, up to its own transaction.   *)
Adjust == <<"diff", "dividends", "recorded">> \o CreateEvent

ResolveDiff == Adjust \o <<"update", "diff">>

(* A statement of its own transaction failed, which gave up its locks, or   *)
(* its transaction did: the compensation runs before the rollback.          *)
CompensateDiff == Adjust \o <<"begin", "void", "rollback">>

(* It lost the race: its open transaction has written the row of the event  *)
(* that the compensation, on another connection, asks to lock.              *)
LoseRace == Adjust \o <<"begin", "voidLinked", "rollback">>

CreateRecommendation ==
    <<"settings", "portfolio", "prices", "snapshot", "version", "run">>

BacktestRun == <<"settings", "bars", "run">>

RotateKey == <<"revoke", "audit", "describe", "insert", "audit">>

(* The handlers: the service, then the audit.                               *)
Work(op) ==
    CASE op = "read" -> <<"read">>
      [] op = "putSettings" -> <<"update", "settings">>
      [] op = "createEvent" -> CreateEvent \o <<"audit">>
      [] op = "voidEvent" -> <<"void", "audit">>
      [] op = "compare" -> CompareRun \o <<"audit">>
      [] op = "resolve" -> ResolveDiff
      [] op = "compensate" -> CompensateDiff
      [] op = "loseRace" -> LoseRace
      [] op = "recommend" -> CreateRecommendation \o <<"audit">>
      [] op = "backtest" -> BacktestRun \o <<"audit">>
      [] op = "createKey" -> <<"insert", "audit">>
      [] op = "revokeKey" -> <<"revoke", "audit">>
      [] op = "rotateKey" -> RotateKey

Authenticate(q) == IF q.key = NoKey THEN <<"session">> ELSE <<"apikey", "touch">>

-----------------------------------------------------------------------------
Idle == [op |-> "none", key |-> NoKey, of |-> NoKey, dead |-> FALSE]

InFlight(r) == todo[r] # <<>>

Free == PoolSize - Cardinality(kept) - Cardinality(blocked)

(* The next call of r takes a connection, or ends the transaction that has  *)
(* one.                                                                     *)
Takes(r) == Head(todo[r]) \notin {"commit", "rollback"}

(* A revocation of key k, other than by a rotation, has been answered.      *)
Revoked(k) ==
    \E r \in Request : answer[r] = "ok" /\ req[r].of = k /\ req[r].op = "revokeKey"

Init ==
    /\ req = [r \in Request |-> Idle]
    /\ todo = [r \in Request |-> <<>>]
    /\ kept = {} /\ blocked = {}
    /\ answer = [r \in Request |-> "none"]
    /\ keys = [k \in Key |-> IF k = FirstKey THEN "active" ELSE "none"]

(* A request comes with, or is about, any key there is.                     *)
Arrive(r, op, key, of) ==
    /\ req[r] = Idle /\ \A q \in Request : q < r => req[q] # Idle
    /\ key # NoKey => keys[key] # "none" /\ op \in ByKey
    /\ IF op \in {"revokeKey", "rotateKey"} THEN of # NoKey /\ keys[of] # "none" ELSE of = NoKey
    /\ LET q == [op |-> op, key |-> key, of |-> of, dead |-> key # NoKey /\ Revoked(key)]
       IN  /\ req' = [req EXCEPT ![r] = q]
           /\ todo' = [todo EXCEPT ![r] = Authenticate(q) \o Work(op)]
    /\ UNCHANGED <<kept, blocked, answer, keys>>

(* Variant: the rollback of the open transaction is forgotten.              *)
EndsKeeping(r, how) ==
    /\ answer' = [answer EXCEPT ![r] = how]
    /\ todo' = [todo EXCEPT ![r] = <<>>]
    /\ UNCHANGED <<kept, blocked>>

(* The request is answered; whatever transaction is open is rolled back.    *)
Ends(r, how) ==
    /\ answer' = [answer EXCEPT ![r] = how]
    /\ todo' = [todo EXCEPT ![r] = <<>>]
    /\ kept' = kept \ {r} /\ blocked' = blocked \ {r}

(* The call returns, and the next one is made with it.                      *)
Returns(r) ==
    IF Len(todo[r]) = 1 THEN Ends(r, IF Head(todo[r]) = "rollback" THEN "refused" ELSE "ok")
    ELSE /\ todo' = [todo EXCEPT ![r] = Tail(@)]
         /\ kept' = IF Takes(r) THEN kept ELSE kept \ {r}
         /\ UNCHANGED <<blocked, answer>>

(* The next call of r is this one, and finds a connection.                  *)
Calls(r, name) == InFlight(r) /\ Head(todo[r]) = name /\ (Takes(r) => Free > 0)

(* BEGIN of a transaction that stays open over other calls.                 *)
Begin(r) ==
    /\ Calls(r, "begin")
    /\ todo' = [todo EXCEPT ![r] = Tail(@)]
    /\ kept' = kept \union {r}
    /\ UNCHANGED <<req, blocked, answer, keys>>

(* FOR UPDATE of a row this request's own transaction has written: it waits *)
(* on a connection of its own for what only its end releases.               *)
VoidLinked(r) ==
    /\ Calls(r, "voidLinked") /\ r \notin blocked
    /\ blocked' = blocked \union {r}
    /\ UNCHANGED <<req, todo, kept, answer, keys>>

CheckKey(r) ==
    /\ Calls(r, "apikey")
    /\ IF keys[req[r].key] = "active" THEN Returns(r) ELSE Ends(r, "refused")
    /\ UNCHANGED <<req, keys>>

(* revoked_at = COALESCE(revoked_at, now()): a revoked key may be revoked.  *)
RevokeKey(r) ==
    /\ Calls(r, "revoke")
    /\ keys' = [keys EXCEPT ![req[r].of] = "revoked"]
    /\ Returns(r)
    /\ UNCHANGED req

(* Variant: a revoked key cannot be described any more.                     *)
DescribeActiveKey(r) ==
    /\ Calls(r, "describe")
    /\ IF keys[req[r].of] = "active" THEN Returns(r) ELSE Ends(r, "refused")
    /\ UNCHANGED <<req, keys>>

DescribeKey(r) ==
    /\ Calls(r, "describe")
    /\ Returns(r)
    /\ UNCHANGED <<req, keys>>

InsertKey(r) ==
    /\ Calls(r, "insert")
    /\ keys' = [keys EXCEPT ![r] = "active"]
    /\ Returns(r)
    /\ UNCHANGED req

(* Any other call.                                                          *)
Run(r) ==
    /\ InFlight(r) /\ Calls(r, Head(todo[r]))
    /\ Head(todo[r]) \notin {"begin", "voidLinked", "apikey", "revoke", "describe", "insert"}
    /\ Returns(r)
    /\ UNCHANGED <<req, keys>>

(* The call took effect, but its answer is lost.                            *)
Lost(r) ==
    /\ Calls(r, "revoke") \/ Calls(r, "insert")
    /\ keys' = CASE Head(todo[r]) = "revoke" -> [keys EXCEPT ![req[r].of] = "revoked"]
                 [] Head(todo[r]) = "insert" -> [keys EXCEPT ![r] = "active"]
    /\ Ends(r, "failed")
    /\ UNCHANGED req

OnlyIgnoredLeft(r) == \A i \in DOMAIN todo[r] : todo[r][i] \in Ignored

(* Variant: waiting for a connection is not subject to the time limit.      *)
TimeoutSparingWaits(r) ==
    /\ InFlight(r) /\ (Takes(r) => Free > 0)
    /\ Ends(r, IF OnlyIgnoredLeft(r) THEN "ok" ELSE "failed")
    /\ UNCHANGED <<req, keys>>

(* The time limit, a client that hangs up, a call that fails: the calls     *)
(* from now on fail, and the first whose error is looked at ends it.        *)
Timeout(r) ==
    /\ InFlight(r)
    /\ Ends(r, IF OnlyIgnoredLeft(r) THEN "ok" ELSE "failed")
    /\ UNCHANGED <<req, keys>>

Statement(r) ==
    \/ Begin(r) \/ VoidLinked(r) \/ Run(r)
    \/ CheckKey(r) \/ RevokeKey(r) \/ DescribeKey(r) \/ InsertKey(r)

Next ==
    \/ \E r \in Request, op \in Operation, key, of \in Key \union {NoKey} : Arrive(r, op, key, of)
    \/ \E r \in Request : Statement(r) \/ Lost(r) \/ Timeout(r)

Spec == Init /\ [][Next]_vars

-----------------------------------------------------------------------------
(* Types, and: no more connections are held than the pool has, and a        *)
(* request that has been answered holds none.                               *)
TypeOK ==
    /\ kept \union blocked \subseteq {r \in Request : InFlight(r)} /\ Free >= 0
    /\ answer \in [Request -> {"none", "ok", "refused", "failed"}]
    /\ keys \in [Key -> {"none", "active", "revoked"}]

(* Requests that keep a connection while they ask for another, and those of *)
(* them that keep the other, too.                                           *)
Nests(r) == InFlight(r) /\ req[r].op \in {"compare", "compensate", "loseRace"}
Loses(r) == InFlight(r) /\ req[r].op = "loseRace"

(* Every request in flight waits, and no connection is free.                *)
Stuck ==
    /\ Free = 0
    /\ \A r \in Request : InFlight(r) => Takes(r)

(* The pool is at a standstill only when reconciliations under way hold all *)
(* of it, one connection each and a second for every lost race: with fewer  *)
(* of them nobody waits for a connection for ever, whatever else the server *)
(* is asked to do.                                                          *)
OnlyReconciliationsStarve ==
    Stuck => Cardinality({r \in Request : Nests(r)}) + Cardinality({r \in Request : Loses(r)})
               >= PoolSize

(* The keys the user has been told.                                         *)
Known == {FirstKey} \union
         {r \in Request : answer[r] = "ok" /\ req[r].op \in {"createKey", "rotateKey"}}

(* What the user may rely on: a known key goes only when its revocation or  *)
(* rotation was asked for, and a rotation that did not fail has told a new  *)
(* one; a key that works and that nobody was told was left by a request     *)
(* that failed; and a key is refused from the answer to its revocation on   *)
(* (docs/implementation-plan.md:104).  Of a rotated key, which the docs let *)
(* work for a while longer, the last says nothing.                          *)
KeysAreAccountedFor ==
    /\ \A k \in Known : keys[k] = "revoked" =>
         \E r \in Request : /\ req[r].of = k
                           /\ \/ req[r].op = "revokeKey"
                              \/ req[r].op = "rotateKey" /\ (InFlight(r) \/ answer[r] = "failed" \/ r \in Known)
    /\ \A k \in Request : keys[k] = "active" => k \in Known \/ InFlight(k) \/ answer[k] = "failed"
    /\ \A r \in Request : req[r].dead => answer[r] # "ok"

(* Calls return, the pool serves those that wait in turn, and the time      *)
(* limit is relied on by those who wait for themselves and when everyone    *)
(* waits.                                                                   *)
FairSpec ==
    /\ Spec
    /\ \A r \in Request : /\ SF_vars(Statement(r))
                          /\ WF_vars((Stuck \/ r \in blocked) /\ Timeout(r))

(* Every request is answered, here: once MaxRequests have arrived, none is  *)
(* left in flight.  Only the lost race and the standstill of                *)
(* reconciliations take the time limit to end.                              *)
EveryRequestEnds == []<>(\A r \in Request : ~InFlight(r))
=============================================================================
