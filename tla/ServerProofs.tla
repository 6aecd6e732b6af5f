---------------------------- MODULE ServerProofs ----------------------------
(***************************************************************************)
(* What is proved of the server for any number of requests and any size of *)
(* the pool: who may keep a connection, when the pool stands still, and    *)
(* what becomes of the keys.  That requests end is left to the model       *)
(* checker.                                                                *)
(***************************************************************************)
EXTENDS Server, FiniteSetTheorems, SequenceTheorems, TLAPS

(* The calls requests make.                                                 *)
Call ==
    {"session", "apikey", "touch", "audit", "read", "settings", "update", "void",
     "fees", "asset", "shares", "event", "begin", "voidLinked", "commit", "rollback",
     "portfolio", "feeTax", "dividends", "recorded", "symbols", "diff",
     "prices", "snapshot", "version", "run", "bars",
     "revoke", "describe", "insert"}

(* The names of the calls in a sequence.                                    *)
Names(s) == {s[i] : i \in DOMAIN s}

-----------------------------------------------------------------------------
(* Calls put one after the other, and the calls that are left.              *)
LEMMA NamesJoined ==
  ASSUME NEW s \in Seq(Call), NEW t \in Seq(Call)
  PROVE  /\ s \o t \in Seq(Call)
         /\ Names(s \o t) = Names(s) \union Names(t)
         /\ t # <<>> => s \o t # <<>> /\ (s \o t)[Len(s \o t)] = t[Len(t)]
         /\ s # <<>> => Head(s \o t) = Head(s)
<1>1. s \o t \in Seq(Call) /\ Len(s \o t) = Len(s) + Len(t)
  OBVIOUS
<1>2. /\ \A i \in DOMAIN s : (s \o t)[i] = s[i]
      /\ \A i \in DOMAIN t : (s \o t)[i + Len(s)] = t[i]
  OBVIOUS
<1>3. Names(s \o t) \subseteq Names(s) \union Names(t)
  <2> SUFFICES ASSUME NEW i \in DOMAIN (s \o t)
               PROVE  (s \o t)[i] \in Names(s) \union Names(t)
    BY DEF Names
  <2>1. CASE i \in DOMAIN s
    BY <1>2, <2>1 DEF Names
  <2>2. CASE i \notin DOMAIN s
    <3>1. i - Len(s) \in DOMAIN t /\ (i - Len(s)) + Len(s) = i
      BY <1>1, <2>2
    <3>2. (s \o t)[i] = t[i - Len(s)]
      BY <1>1, <1>2, <3>1
    <3> QED BY <3>1, <3>2 DEF Names
  <2> QED BY <2>1, <2>2
<1>4. Names(s) \subseteq Names(s \o t)
  <2> SUFFICES ASSUME NEW i \in DOMAIN s PROVE s[i] \in Names(s \o t)
    BY DEF Names
  <2>1. i \in DOMAIN (s \o t)
    BY <1>1
  <2> QED BY <1>2, <2>1 DEF Names
<1>5. Names(t) \subseteq Names(s \o t)
  <2> SUFFICES ASSUME NEW i \in DOMAIN t PROVE t[i] \in Names(s \o t)
    BY DEF Names
  <2>1. i + Len(s) \in DOMAIN (s \o t)
    BY <1>1
  <2> QED BY <1>2, <2>1 DEF Names
<1>6. ASSUME t # <<>> PROVE s \o t # <<>> /\ (s \o t)[Len(s \o t)] = t[Len(t)]
  <2>1. Len(t) \in DOMAIN t /\ Len(t) > 0
    BY <1>6
  <2> QED BY <1>1, <1>2, <2>1
<1>7. ASSUME s # <<>> PROVE Head(s \o t) = Head(s)
  <2>1. 1 \in DOMAIN s
    BY <1>7
  <2>2. s \o t # <<>>
    BY <1>1, <1>7
  <2> QED BY <1>1, <1>2, <2>1, <2>2
<1> QED BY <1>1, <1>3, <1>4, <1>5, <1>6, <1>7

(* Only the empty sequence has no elements.                                 *)
LEMMA LengthTells ==
  ASSUME NEW s, Len(s) # 0
  PROVE  s # <<>>
<1>1. Len(<<>>) = 0
  OBVIOUS
<1> QED BY <1>1, Zenon

(* What is left of the calls after the first.                               *)
LEMMA NamesLeft ==
  ASSUME NEW s \in Seq(Call), s # <<>>
  PROVE  /\ Tail(s) \in Seq(Call) /\ Head(s) \in Names(s)
         /\ Names(s) = {Head(s)} \union Names(Tail(s))
         /\ Len(s) # 1 => Tail(s) # <<>> /\ Tail(s)[Len(Tail(s))] = s[Len(s)]
         /\ Len(s) = 1 => Names(s) = {Head(s)} /\ s[Len(s)] = Head(s)
<1>1. /\ Tail(s) \in Seq(Call) /\ Len(Tail(s)) = Len(s) - 1 /\ Len(s) \in Nat /\ Len(s) > 0
      /\ Head(s) = s[1] /\ 1 \in DOMAIN s
      /\ \A i \in DOMAIN Tail(s) : Tail(s)[i] = s[i + 1] /\ i + 1 \in DOMAIN s
  OBVIOUS
<1>2. Head(s) \in Names(s)
  BY <1>1 DEF Names
<1>3. Names(Tail(s)) \subseteq Names(s)
  BY <1>1 DEF Names
<1>4. Names(s) \subseteq {Head(s)} \union Names(Tail(s))
  <2> SUFFICES ASSUME NEW i \in DOMAIN s, i # 1 PROVE s[i] \in Names(Tail(s))
    BY <1>1 DEF Names
  <2>1. i - 1 \in DOMAIN Tail(s) /\ (i - 1) + 1 = i
    BY <1>1
  <2>2. Tail(s)[i - 1] = s[i]
    BY <1>1, <2>1
  <2> QED BY <2>1, <2>2 DEF Names
<1>5. ASSUME Len(s) # 1 PROVE Tail(s) # <<>> /\ Tail(s)[Len(Tail(s))] = s[Len(s)]
  <2>1. Len(Tail(s)) > 0 /\ Len(Tail(s)) \in DOMAIN Tail(s) /\ Len(Tail(s)) + 1 = Len(s)
    BY <1>1, <1>5
  <2>2. Tail(s) # <<>>
    <3>1. Len(Tail(s)) # 0
      BY <2>1
    <3> QED BY <3>1, LengthTells
  <2>3. Tail(s)[Len(Tail(s))] = s[Len(Tail(s)) + 1]
    BY <1>1, <2>1
  <2> QED BY <2>1, <2>2, <2>3
<1>6. ASSUME Len(s) = 1 PROVE Names(s) = {Head(s)} /\ s[Len(s)] = Head(s)
  BY <1>1, <1>6 DEF Names
<1> QED BY <1>1, <1>2, <1>3, <1>4, <1>5, <1>6
-----------------------------------------------------------------------------
(* The calls of an operation, the last of which is never a begin.           *)
Calling(s) == s \in Seq(Call) /\ s # <<>> /\ s[Len(s)] # "begin"

(* Those that neither open a transaction for others nor touch the keys.     *)
Telling == {"begin", "voidLinked", "rollback", "apikey", "insert", "revoke"}

(* No call of s tells a key or reads one.                                   *)
Plain(s) == Calling(s) /\ Names(s) \intersect Telling = {}

(* Two sequences of calls, one after the other.                             *)
LEMMA CallingJoined ==
  ASSUME NEW s, NEW t, Calling(s), Calling(t)
  PROVE  /\ Calling(s \o t) /\ Names(s \o t) = Names(s) \union Names(t)
         /\ (s \o t)[Len(s \o t)] = t[Len(t)] /\ Head(s \o t) = Head(s)
BY NamesJoined DEF Calling

(* They are plain when both are.                                            *)
LEMMA PlainJoined ==
  ASSUME NEW s, NEW t, Plain(s), Plain(t)
  PROVE  Plain(s \o t)
BY CallingJoined DEF Plain

(* A single call.                                                           *)
LEMMA OneCall ==
  ASSUME NEW c \in Call, c # "begin"
  PROVE  Calling(<<c>>) /\ Names(<<c>>) = {c} /\ (c \notin Telling => Plain(<<c>>))
BY DEF Calling, Names, Plain

(* The operations that have nothing to do with keys are plain.              *)
LEMMA PlainCalls ==
  /\ Plain(CreateEvent) /\ Plain(Adjust) /\ Plain(ResolveDiff)
  /\ Plain(CreateRecommendation) /\ Plain(BacktestRun)
  /\ Plain(<<"update", "settings">>) /\ Plain(<<"void", "audit">>)
<1>1. Plain(CreateEvent)
  BY DEF CreateEvent, Plain, Calling, Names, Telling, Call
<1>2. Plain(<<"diff", "dividends", "recorded">>)
  BY DEF Plain, Calling, Names, Telling, Call
<1>3. Plain(<<"update", "diff">>)
  BY DEF Plain, Calling, Names, Telling, Call
<1>4. Plain(Adjust)
  BY <1>1, <1>2, PlainJoined DEF Adjust
<1>5. Plain(ResolveDiff)
  BY <1>3, <1>4, PlainJoined DEF ResolveDiff
<1>6. Plain(CreateRecommendation)
  BY DEF CreateRecommendation, Plain, Calling, Names, Telling, Call
<1>7. Plain(BacktestRun)
  BY DEF BacktestRun, Plain, Calling, Names, Telling, Call
<1>8. Plain(<<"update", "settings">>) /\ Plain(<<"void", "audit">>)
  BY DEF Plain, Calling, Names, Telling, Call
<1> QED BY <1>1, <1>4, <1>5, <1>6, <1>7, <1>8

(* What the calls of an operation have among them.                          *)
Shape(op, s) ==
    /\ Calling(s)
    /\ "begin" \in Names(s) => op \in {"compare", "compensate", "loseRace"}
    /\ "voidLinked" \in Names(s) => op = "loseRace"
    /\ "rollback" \in Names(s) => op \notin KeyOperations
    /\ "insert" \in Names(s) <=> op \in {"createKey", "rotateKey"}
    /\ "revoke" \in Names(s) <=> op \in {"revokeKey", "rotateKey"}
    /\ op \in KeyOperations => s[Len(s)] = "audit"

(* A plain sequence has the shape of any operation without keys.            *)
LEMMA PlainShape ==
  ASSUME NEW op, NEW s, Plain(s), op \notin KeyOperations
  PROVE  Shape(op, s)
BY DEF Shape, Plain, Telling, KeyOperations

(* The calls of each operation have its shape.                              *)
LEMMA WorkShape ==
  ASSUME NEW op \in Operation
  PROVE  Shape(op, Work(op)) /\ "apikey" \notin Names(Work(op))
<1> DEFINE Goal == Shape(op, Work(op)) /\ "apikey" \notin Names(Work(op))
<1>1. Plain(<<"audit">>) /\ Plain(<<"read">>)
  BY OneCall DEF Telling, Call
<1>2. ASSUME Plain(Work(op)), op \notin KeyOperations PROVE Goal
  BY <1>2, PlainShape DEF Plain, Telling
<1>3. CASE op = "read"
  BY <1>1, <1>2, <1>3 DEF Work, KeyOperations
<1>4. CASE op = "putSettings"
  BY <1>2, <1>4, PlainCalls DEF Work, KeyOperations
<1>5. CASE op = "createEvent"
  BY <1>1, <1>2, <1>5, PlainCalls, PlainJoined DEF Work, KeyOperations
<1>6. CASE op = "voidEvent"
  BY <1>2, <1>6, PlainCalls DEF Work, KeyOperations
<1>7. CASE op = "compare"
  <2>1. Calling(CompareRun) /\ Names(CompareRun) \intersect Telling \subseteq {"begin"}
    BY DEF CompareRun, Calling, Names, Telling, Call
  <2>2. Work(op) = CompareRun \o <<"audit">>
    BY <1>7 DEF Work
  <2>3. Calling(Work(op)) /\ Names(Work(op)) = Names(CompareRun) \union Names(<<"audit">>)
    BY <1>1, <2>1, <2>2, CallingJoined DEF Plain
  <2>4. Names(<<"audit">>) = {"audit"}
    BY OneCall DEF Call
  <2> QED BY <1>7, <2>1, <2>3, <2>4 DEF Shape, Telling, KeyOperations
<1>8. CASE op = "resolve"
  BY <1>2, <1>8, PlainCalls DEF Work, KeyOperations
<1>9. CASE op = "compensate"
  <2> DEFINE t == <<"begin", "void", "rollback">>
  <2>1. Calling(t) /\ Names(t) \intersect {"apikey", "insert", "revoke", "voidLinked"} = {}
    BY DEF Calling, Names, Call
  <2>2. Work(op) = Adjust \o t
    BY <1>9 DEF Work, CompensateDiff
  <2>3. Calling(Work(op)) /\ Names(Work(op)) = Names(Adjust) \union Names(t)
    BY <2>1, <2>2, PlainCalls, CallingJoined DEF Plain
  <2> QED BY <1>9, <2>1, <2>3, PlainCalls DEF Plain, Telling, Shape, KeyOperations
<1>10. CASE op = "recommend"
  BY <1>1, <1>2, <1>10, PlainCalls, PlainJoined DEF Work, KeyOperations
<1>11. CASE op = "backtest"
  BY <1>1, <1>2, <1>11, PlainCalls, PlainJoined DEF Work, KeyOperations
<1>12. CASE op = "createKey"
  <2>1. Work(op) = <<"insert", "audit">>
    BY <1>12 DEF Work
  <2>2. Calling(Work(op)) /\ Names(Work(op)) = {"insert", "audit"}
    BY <2>1 DEF Calling, Names, Call
  <2>3. Work(op)[Len(Work(op))] = "audit"
    BY <2>1
  <2> QED BY <1>12, <2>2, <2>3, SMTT(20) DEF Shape, KeyOperations
<1>13. CASE op = "revokeKey"
  <2>1. Work(op) = <<"revoke", "audit">>
    BY <1>13 DEF Work
  <2>2. Calling(Work(op)) /\ Names(Work(op)) = {"revoke", "audit"}
    BY <2>1 DEF Calling, Names, Call
  <2>3. Work(op)[Len(Work(op))] = "audit"
    BY <2>1
  <2> QED BY <1>13, <2>2, <2>3, SMTT(20) DEF Shape, KeyOperations
<1>14. CASE op = "rotateKey"
  <2>1. Work(op) = RotateKey
    BY <1>14 DEF Work
  <2>2. Calling(RotateKey) /\ RotateKey[Len(RotateKey)] = "audit"
    BY DEF RotateKey, Calling, Call
  <2>3. Names(RotateKey) = {"revoke", "audit", "describe", "insert"}
    BY DEF RotateKey, Names
  <2> QED BY <1>14, <2>1, <2>2, <2>3 DEF Shape, KeyOperations
<1>15. CASE op = "loseRace"
  <2> DEFINE t == <<"begin", "voidLinked", "rollback">>
  <2>1. Calling(t) /\ Names(t) \intersect {"apikey", "insert", "revoke"} = {}
    BY DEF Calling, Names, Call
  <2>2. Work(op) = Adjust \o t
    BY <1>15 DEF Work, LoseRace
  <2>3. Calling(Work(op)) /\ Names(Work(op)) = Names(Adjust) \union Names(t)
    BY <2>1, <2>2, PlainCalls, CallingJoined DEF Plain
  <2> QED BY <1>15, <2>1, <2>3, PlainCalls DEF Plain, Telling, Shape, KeyOperations
<1> QED BY <1>3, <1>4, <1>5, <1>6, <1>7, <1>8, <1>9, <1>10, <1>11, <1>12, <1>13, <1>14,
           <1>15, ServerAssumption DEF KeyOperations

(* A key is inserted at most once, and asking for the key comes first.      *)
Once(s) == \A i, j \in DOMAIN s : s[i] = "insert" /\ s[j] = "insert" => i = j

(* A key is inserted once when only the second part inserts, at one place.  *)
LEMMA OnceJoined ==
  ASSUME NEW s, Calling(s), "insert" \notin Names(s), NEW t, Calling(t),
         NEW n, \A i \in DOMAIN t : t[i] = "insert" => i = n
  PROVE  Once(s \o t)
<1>1. /\ Len(s \o t) = Len(s) + Len(t) /\ Len(s) \in Nat /\ Len(t) \in Nat
      /\ s \o t \in Seq(Call)
  BY DEF Calling
<1>2. ASSUME NEW i \in DOMAIN (s \o t), (s \o t)[i] = "insert"
      PROVE  i - Len(s) = n /\ i \in Nat
  <2>1. i \in Nat /\ i >= 1 /\ i <= Len(s) + Len(t)
    BY <1>1
  <2>2. CASE i <= Len(s)
    <3>1. i \in DOMAIN s /\ (s \o t)[i] = s[i]
      BY <2>1, <2>2 DEF Calling
    <3> QED BY <1>2, <3>1 DEF Names
  <2>3. CASE i > Len(s)
    <3>1. i - Len(s) \in DOMAIN t /\ (s \o t)[i] = t[i - Len(s)]
      BY <1>1, <2>1, <2>3 DEF Calling
    <3> QED BY <1>2, <2>1, <3>1
  <2> QED BY <1>1, <2>1, <2>2, <2>3
<1> QED BY <1>1, <1>2 DEF Once

(* A request that authenticates and then works has the shape of its         *)
(* operation.                                                               *)
LEMMA RequestShape ==
  ASSUME NEW op \in Operation, NEW key, NEW of, NEW dead, key # NoKey => op \in ByKey,
         NEW q, q = [op |-> op, key |-> key, of |-> of, dead |-> dead],
         NEW s, s = Authenticate(q) \o Work(op)
  PROVE  /\ Shape(op, s) /\ Once(s)
         /\ "apikey" \in Names(s) => op \notin KeyOperations
         /\ key # NoKey => Head(s) = "apikey"
<1>1. Shape(op, Work(op)) /\ "apikey" \notin Names(Work(op)) /\ Calling(Work(op))
  BY WorkShape DEF Shape
<1>2. CASE key = NoKey
  <2>1. Authenticate(q) = <<"session">> /\ Calling(<<"session">>) /\ Names(<<"session">>) = {"session"}
    BY <1>2, OneCall DEF Authenticate, Call
  <2>2. /\ Calling(s) /\ Names(s) = {"session"} \union Names(Work(op))
        /\ s[Len(s)] = Work(op)[Len(Work(op))]
    BY <1>1, <2>1, CallingJoined
  <2>3. Shape(op, s) /\ "apikey" \notin Names(s)
    BY <1>1, <2>2 DEF Shape
  <2>4. Once(s)
    <3>1. CASE op = "createKey"
      <4> DEFINE w == <<"insert", "audit">>
      <4>1. Calling(w) /\ \A i \in DOMAIN w : w[i] = "insert" => i = 1
        BY DEF Calling, Call
      <4>2. s = <<"session">> \o w
        BY <2>1, <3>1 DEF Work
      <4> QED BY <2>1, <4>1, <4>2, OnceJoined
    <3>2. CASE op = "rotateKey"
      <4>1. Calling(RotateKey) /\ \A i \in DOMAIN RotateKey : RotateKey[i] = "insert" => i = 4
        BY DEF RotateKey, Calling, Call
      <4>2. s = <<"session">> \o RotateKey
        BY <2>1, <3>2 DEF Work
      <4> QED BY <2>1, <4>1, <4>2, OnceJoined
    <3>3. CASE op \notin {"createKey", "rotateKey"}
      BY <2>3, <3>3 DEF Shape, Once, Names
    <3> QED BY <3>1, <3>2, <3>3
  <2> QED BY <1>2, <2>3, <2>4
<1>3. CASE key # NoKey
  <2> DEFINE a == <<"apikey", "touch">>
  <2>1. Authenticate(q) = a /\ Calling(a) /\ Names(a) = {"apikey", "touch"} /\ Head(a) = "apikey"
    BY <1>3 DEF Authenticate, Calling, Names, Call
  <2>2. /\ Calling(s) /\ Names(s) = {"apikey", "touch"} \union Names(Work(op))
        /\ s[Len(s)] = Work(op)[Len(Work(op))] /\ Head(s) = "apikey"
    <3>1. s = a \o Work(op) /\ Calling(Work(op))
      BY <1>1, <2>1 DEF Shape
    <3> DEFINE t == Work(op)
    <3>2. Calling(a) /\ Calling(t)
      BY <2>1, <3>1
    <3> HIDE DEF a, t
    <3>3. /\ Calling(a \o t) /\ Names(a \o t) = Names(a) \union Names(t)
          /\ (a \o t)[Len(a \o t)] = t[Len(t)] /\ Head(a \o t) = Head(a)
      BY <3>2, CallingJoined
    <3>4. s = a \o t
      BY <3>1 DEF t
    <3>5. /\ Calling(s) /\ Names(s) = Names(a) \union Names(t)
          /\ s[Len(s)] = t[Len(t)] /\ Head(s) = Head(a)
      BY <3>3, <3>4
    <3> QED BY <2>1, <3>5 DEF t
  <2>3. op \notin KeyOperations
    BY <1>3, ServerAssumption
  <2>4. Shape(op, s)
    BY <1>1, <2>2, <2>3 DEF Shape
  <2>5. Once(s)
    BY <2>3, <2>4 DEF Shape, Once, Names, KeyOperations
  <2> QED BY <2>2, <2>3, <2>4, <2>5
<1> QED BY <1>2, <1>3

-----------------------------------------------------------------------------
(* The inductive invariant.                                                 *)
Changing == {"revokeKey", "rotateKey"}

(* Types of requests, connections and keys.                                 *)
Types ==
    /\ \E S : req \in [Request -> S]
    /\ todo \in [Request -> Seq(Call)]
    /\ kept \subseteq Request /\ blocked \subseteq Request
    /\ Cardinality(kept) + Cardinality(blocked) <= PoolSize
    /\ answer \in [Request -> {"none", "ok", "refused", "failed"}]
    /\ keys \in [Key -> {"none", "active", "revoked"}]

(* A request has calls to make until it is answered, and keeps a connection *)
(* only for a reconciliation, a second one only when that lost a race.      *)
Flow(r) ==
    /\ req[r] = Idle => todo[r] = <<>> /\ answer[r] = "none"
    /\ req[r] # Idle => (InFlight(r) <=> answer[r] = "none")
    /\ InFlight(r) => todo[r][Len(todo[r])] # "begin"
    /\ "begin" \in Names(todo[r]) \/ r \in kept => Nests(r)
    /\ "voidLinked" \in Names(todo[r]) \/ r \in blocked => Loses(r)

(* What a request has still to do with keys, and what it has done.          *)
KeyFlow(r) ==
    LET op == req[r].op
    IN  /\ "apikey" \in Names(todo[r]) \/ "rollback" \in Names(todo[r]) \/ answer[r] = "refused" =>
             op \notin KeyOperations
        /\ op \in KeyOperations /\ InFlight(r) => todo[r][Len(todo[r])] = "audit"
        /\ "insert" \in Names(todo[r]) => op \in {"createKey", "rotateKey"} /\ keys[r] = "none"
        /\ Once(todo[r])
        /\ keys[r] # "none" => op \in {"createKey", "rotateKey"}
        /\ "revoke" \in Names(todo[r]) => op \in Changing
        /\ op \in Changing => req[r].of \in Key /\ keys[req[r].of] # "none"
        /\ op \in Changing /\ "revoke" \notin Names(todo[r]) /\ (InFlight(r) \/ answer[r] = "ok") =>
             keys[req[r].of] = "revoked"
        /\ req[r].dead =>
             /\ req[r].key \in Key /\ Revoked(req[r].key) /\ answer[r] # "ok"
             /\ InFlight(r) => Head(todo[r]) = "apikey"

(* A revoked key is one whose revocation was asked for.                     *)
Asked(k) == keys[k] = "revoked" => \E r \in Request : req[r].of = k /\ req[r].op \in Changing

(* The inductive invariant.                                                 *)
IInv ==
    /\ Types
    /\ \A r \in Request : Flow(r) /\ KeyFlow(r)
    /\ \A k \in Key : Asked(k)

-----------------------------------------------------------------------------
(* The names of keys.                                                       *)
LEMMA KeyNames ==
  Request \subseteq Key /\ NoKey \notin Key /\ FirstKey \in Key /\ FirstKey \notin Request
BY ServerAssumption DEF Key, Request, NoKey, FirstKey

(* There are finitely many requests.                                        *)
LEMMA FiniteRequests ==
  ASSUME NEW S \in SUBSET Request
  PROVE  IsFiniteSet(S) /\ Cardinality(S) \in Nat
<1>1. IsFiniteSet(Request)
  BY FS_Interval, ServerAssumption DEF Request
<1>2. IsFiniteSet(S)
  BY <1>1, FS_Subset
<1> QED BY <1>2, FS_CardinalityType

(* The invariant holds before the first request.                            *)
LEMMA InitIInv == Init => IInv
<1> SUFFICES ASSUME Init PROVE IInv
  OBVIOUS
<1>1. Types
  <2>1. Cardinality(kept) + Cardinality(blocked) <= PoolSize
    BY FS_EmptySet, ServerAssumption DEF Init
  <2>2. \E S : req \in [Request -> S]
    <3>1. req \in [Request -> {Idle}]
      BY DEF Init
    <3> QED BY <3>1
  <2> QED BY <2>1, <2>2 DEF Init, Types
<1>2. ASSUME NEW r \in Request PROVE Flow(r) /\ KeyFlow(r)
  <2>1. /\ req[r] = Idle /\ todo[r] = <<>> /\ kept = {} /\ blocked = {}
        /\ answer[r] = "none" /\ keys[r] = "none"
        /\ Names(todo[r]) = {} /\ Once(todo[r])
    BY KeyNames DEF Init, Names, Once
  <2>2. Flow(r)
    BY <2>1 DEF Flow, InFlight
  <2>3. KeyFlow(r)
    BY <2>1 DEF KeyFlow, InFlight, Idle, KeyOperations, Changing
  <2> QED BY <2>2, <2>3
<1>3. \A k \in Key : Asked(k)
  BY DEF Init, Asked
<1> QED BY <1>1, <1>2, <1>3 DEF IInv

(* A revocation that was answered holds.                                    *)
LEMMA RevokedHolds ==
  ASSUME IInv, NEW k, Revoked(k)
  PROVE  k \in Key /\ keys[k] = "revoked"
<1>1. PICK r \in Request : answer[r] = "ok" /\ req[r].of = k /\ req[r].op = "revokeKey"
  BY DEF Revoked
<1>2. Flow(r) /\ KeyFlow(r)
  BY DEF IInv
<1>3. req[r] # Idle /\ ~InFlight(r)
  BY <1>1, <1>2 DEF Flow
<1>4. Names(todo[r]) = {}
  BY <1>3 DEF InFlight, Names
<1> QED BY <1>1, <1>2, <1>4 DEF KeyFlow, Changing

-----------------------------------------------------------------------------
(* What a step of request r may do with the keys.                           *)
KeysOf(r) ==
    /\ keys' \in [Key -> {"none", "active", "revoked"}]
    /\ \A k \in Key :
         \/ keys'[k] = keys[k]
         \/ keys'[k] = "revoked" /\ keys[k] # "none" /\ k = req[r].of /\ req[r].op \in Changing
         \/ /\ k = r /\ keys[k] = "none" /\ keys'[k] = "active"
            /\ req[r].op \in {"createKey", "rotateKey"}

(* The requests that do not take the step.                                  *)
Same(q) ==
    /\ req'[q] = req[q] /\ todo'[q] = todo[q] /\ answer'[q] = answer[q]
    /\ q \in kept' <=> q \in kept
    /\ q \in blocked' <=> q \in blocked

(* Requests that take no step stay as the invariant says.                   *)
LEMMA OthersFlow ==
  ASSUME IInv, NEW r \in Request, InFlight(r), req' = req, KeysOf(r),
         \A q \in Request \ {r} : Same(q)
  PROVE  /\ \A q \in Request \ {r} : Flow(q)' /\ KeyFlow(q)'
         /\ \A k \in Key : Asked(k)' /\ (Revoked(k) => Revoked(k)')
<1>1. answer[r] = "none"
  BY DEF IInv, Flow, InFlight
<1>2. ASSUME NEW k \in Key PROVE Asked(k)'
  BY DEF IInv, Asked, KeysOf
<1>3. ASSUME NEW k \in Key, Revoked(k) PROVE Revoked(k)'
  <2>1. PICK q \in Request : answer[q] = "ok" /\ req[q].of = k /\ req[q].op = "revokeKey"
    BY <1>3 DEF Revoked
  <2>2. answer'[q] = "ok"
    BY <1>1, <2>1 DEF Same
  <2> QED BY <2>1, <2>2 DEF Revoked
<1>4. ASSUME NEW q \in Request \ {r} PROVE Flow(q)' /\ KeyFlow(q)'
  <2>1. Flow(q) /\ KeyFlow(q) /\ Same(q) /\ q \in Key
    BY KeyNames DEF IInv
  <2>2. Flow(q)'
    BY <2>1 DEF Flow, Same, InFlight, Nests, Loses
  <2>3. /\ "insert" \in Names(todo[q]) => keys'[q] = "none"
        /\ keys'[q] # "none" => keys[q] # "none"
    BY <2>1 DEF KeysOf, KeyFlow
  <2>4. ASSUME req[q].op \in Changing
        PROVE  /\ keys'[req[q].of] # "none"
               /\ keys[req[q].of] = "revoked" => keys'[req[q].of] = "revoked"
    BY <2>1, <2>4 DEF KeysOf, KeyFlow
  <2>5. req[q].dead => Revoked(req[q].key)'
    BY <1>3, <2>1 DEF KeyFlow
  <2> QED BY <2>1, <2>2, <2>3, <2>4, <2>5 DEF KeyFlow, Same, InFlight
<1> QED BY <1>2, <1>3, <1>4

(* Nothing is left after the only call.                                     *)
LEMMA OnlyOneCall ==
  ASSUME NEW s \in Seq(Call), Len(s) = 1
  PROVE  Names(Tail(s)) = {}
<1>1. s # <<>>
  BY LengthTells
<1>2. Tail(s) \in Seq(Call) /\ Len(Tail(s)) = 0
  BY <1>1
<1>3. ASSUME NEW t \in Seq(Call), Len(t) = 0 PROVE DOMAIN t = {}
  BY <1>3
<1>4. DOMAIN Tail(s) = {}
  BY <1>2, <1>3, Zenon
<1> QED BY <1>4, Zenon DEF Names

(* After the call that inserts a key no other does.                         *)
LEMMA OnceLeft ==
  ASSUME NEW s \in Seq(Call), s # <<>>, Once(s)
  PROVE  Once(Tail(s)) /\ (Head(s) = "insert" => "insert" \notin Names(Tail(s)))
<1>1. /\ Len(s) \in Nat /\ Len(s) > 0 /\ Head(s) = s[1] /\ 1 \in DOMAIN s
      /\ \A i \in DOMAIN Tail(s) : i \in Nat /\ i >= 1 /\ Tail(s)[i] = s[i + 1] /\ i + 1 \in DOMAIN s
  OBVIOUS
<1>2. Once(Tail(s))
  <2> SUFFICES ASSUME NEW i \in DOMAIN Tail(s), NEW j \in DOMAIN Tail(s),
                      Tail(s)[i] = "insert", Tail(s)[j] = "insert"
               PROVE  i = j
    BY DEF Once
  <2>1. i + 1 = j + 1
    BY <1>1 DEF Once
  <2> QED BY <1>1, <2>1
<1>3. ASSUME Head(s) = "insert", NEW i \in DOMAIN Tail(s), Tail(s)[i] = "insert" PROVE FALSE
  <2>1. i + 1 = 1
    BY <1>1, <1>3 DEF Once
  <2> QED BY <1>1, <2>1
<1> QED BY <1>2, <1>3 DEF Names

-----------------------------------------------------------------------------
(* Whoever holds no more connections leaves room in the pool.               *)
LEMMA ConnectionsLeft ==
  ASSUME IInv, NEW K \in SUBSET kept, NEW B \in SUBSET blocked
  PROVE  Cardinality(K) + Cardinality(B) <= PoolSize
<1>1. /\ IsFiniteSet(kept) /\ Cardinality(kept) \in Nat
      /\ IsFiniteSet(blocked) /\ Cardinality(blocked) \in Nat
  BY FiniteRequests DEF IInv, Types
<1>2. Cardinality(K) <= Cardinality(kept) /\ Cardinality(K) \in Nat
  BY <1>1, FS_Subset, FS_CardinalityType
<1>3. Cardinality(B) <= Cardinality(blocked) /\ Cardinality(B) \in Nat
  BY <1>1, FS_Subset, FS_CardinalityType
<1>4. Cardinality(kept) + Cardinality(blocked) <= PoolSize
  BY DEF IInv, Types
<1> QED BY <1>1, <1>2, <1>3, <1>4, ServerAssumption

(* A step that ends request r, and one after which it has calls to make.    *)
LEMMA EndsStep ==
  ASSUME IInv, NEW r \in Request, InFlight(r), req' = req, KeysOf(r),
         NEW how \in {"ok", "refused", "failed"}, Ends(r, how),
         how = "ok" => ~req[r].dead /\ (req[r].op \in Changing => keys'[req[r].of] = "revoked"),
         how = "refused" => req[r].op \notin KeyOperations
  PROVE  IInv'
<1>1. /\ todo'[r] = <<>> /\ answer'[r] = how /\ r \notin kept' \union blocked' /\ Flow(r) /\ KeyFlow(r)
      /\ r \in Key
  BY KeyNames DEF IInv, Types, Ends
<1>2. \A q \in Request \ {r} : Same(q)
  BY DEF IInv, Types, Ends, Same
<1>3. Types'
  <2>1. Cardinality(kept') + Cardinality(blocked') <= PoolSize
    BY ConnectionsLeft DEF Ends, IInv, Types
  <2>2. todo' \in [Request -> Seq(Call)]
    BY DEF IInv, Types, Ends
  <2>3. answer' \in [Request -> {"none", "ok", "refused", "failed"}] /\ kept' \subseteq Request
        /\ blocked' \subseteq Request
    BY DEF IInv, Types, Ends
  <2> QED BY <2>1, <2>2, <2>3 DEF IInv, Types, KeysOf
<1>4. Flow(r)'
  <2>1. req[r] # Idle
    BY <1>1 DEF Flow, InFlight
  <2> QED BY <1>1, <2>1 DEF Flow, InFlight, Names
<1>5. KeyFlow(r)'
  <2>1. Names(todo'[r]) = {} /\ Once(todo'[r])
    BY <1>1 DEF Names, Once
  <2>2. keys'[r] # "none" => req[r].op \in {"createKey", "rotateKey"}
    BY <1>1 DEF KeysOf, KeyFlow, Changing
  <2>3. req[r].op \in Changing => req[r].of \in Key /\ keys'[req[r].of] # "none"
    BY <1>1 DEF KeysOf, KeyFlow
  <2>4. req[r].dead => req[r].key \in Key /\ Revoked(req[r].key)' /\ how # "ok"
    BY <1>1, <1>2, OthersFlow DEF KeyFlow
  <2> QED BY <1>1, <2>1, <2>2, <2>3, <2>4 DEF KeyFlow, InFlight
<1> QED BY <1>2, <1>3, <1>4, <1>5, OthersFlow DEF IInv

(* A request that goes on to its next call keeps the invariant.             *)
LEMMA GoesOnStep ==
  ASSUME IInv, NEW r \in Request, InFlight(r), req' = req, KeysOf(r),
         Len(todo[r]) # 1, todo' = [todo EXCEPT ![r] = Tail(@)], answer' = answer,
         kept' \in {kept, kept \union {r}, kept \ {r}}, blocked' = blocked,
         Cardinality(kept') + Cardinality(blocked') <= PoolSize,
         r \in kept' => Nests(r), ~req[r].dead,
         "insert" \in Names(Tail(todo[r])) => keys'[r] = "none",
         req[r].op \in Changing /\ "revoke" \notin Names(Tail(todo[r])) => keys'[req[r].of] = "revoked"
  PROVE  IInv'
<1>1. /\ todo'[r] = Tail(todo[r]) /\ Flow(r) /\ KeyFlow(r) /\ r \in Key
      /\ todo[r] \in Seq(Call) /\ todo[r] # <<>>
  BY KeyNames DEF IInv, Types, InFlight
<1>2. \A q \in Request \ {r} : Same(q)
  BY DEF IInv, Types, Same
<1>3. /\ Tail(todo[r]) \in Seq(Call) /\ Names(Tail(todo[r])) \subseteq Names(todo[r])
      /\ Tail(todo[r]) # <<>>
      /\ Tail(todo[r])[Len(Tail(todo[r]))] = todo[r][Len(todo[r])]
      /\ Once(Tail(todo[r]))
  BY <1>1, NamesLeft, OnceLeft DEF KeyFlow
<1>4. Types'
  <2>1. todo' \in [Request -> Seq(Call)]
    BY <1>3 DEF IInv, Types
  <2> QED BY <2>1 DEF IInv, Types, KeysOf
<1>5. Flow(r)'
  <2>1. req[r] # Idle
    BY <1>1 DEF Flow, InFlight
  <2>2. InFlight(r)' /\ answer'[r] = "none"
    BY <1>1, <1>3, <2>1 DEF Flow, InFlight
  <2>3. "begin" \in Names(todo'[r]) => Nests(r)'
    BY <1>1, <1>3, <2>2 DEF Flow, Nests
  <2>4. r \in kept' => Nests(r)'
    BY <2>2 DEF Nests
  <2>5. todo'[r][Len(todo'[r])] # "begin"
    BY <1>1, <1>3 DEF Flow
  <2>6. "voidLinked" \in Names(todo'[r]) \/ r \in blocked' => Loses(r)'
    BY <1>1, <1>3, <2>2 DEF Flow, Loses
  <2> QED BY <2>1, <2>2, <2>3, <2>4, <2>5, <2>6 DEF Flow
<1>6. KeyFlow(r)'
  <2>1. keys'[r] # "none" => req[r].op \in {"createKey", "rotateKey"}
    BY <1>1 DEF KeysOf, KeyFlow, Changing
  <2>2. req[r].op \in Changing => req[r].of \in Key /\ keys'[req[r].of] # "none"
    BY <1>1 DEF KeysOf, KeyFlow
  <2> QED BY <1>1, <1>3, <2>1, <2>2 DEF KeyFlow, InFlight
<1> QED BY <1>2, <1>4, <1>5, <1>6, OthersFlow DEF IInv

(* A call that returns.                                                     *)
LEMMA ReturnsStep ==
  ASSUME IInv, NEW r \in Request, InFlight(r), req' = req, KeysOf(r), Returns(r), ~req[r].dead,
         "insert" \in Names(Tail(todo[r])) => keys'[r] = "none",
         req[r].op \in Changing /\ "revoke" \notin Names(Tail(todo[r])) => keys'[req[r].of] = "revoked"
  PROVE  IInv'
<1>1. todo[r] \in Seq(Call) /\ todo[r] # <<>> /\ Flow(r) /\ KeyFlow(r)
  BY DEF IInv, Types, InFlight
<1>2. CASE Len(todo[r]) = 1
  <2> DEFINE how == IF Head(todo[r]) = "rollback" THEN "refused" ELSE "ok"
  <2>1. Ends(r, how) /\ how \in {"ok", "refused", "failed"}
    BY <1>2 DEF Returns
  <2>2. Names(Tail(todo[r])) = {}
    BY <1>1, <1>2, OnlyOneCall
  <2>3. how = "refused" => req[r].op \notin KeyOperations
    BY <1>1, NamesLeft DEF KeyFlow
  <2> HIDE DEF how
  <2> QED BY <2>1, <2>2, <2>3, EndsStep
<1>3. CASE Len(todo[r]) # 1
  <2>1. /\ todo' = [todo EXCEPT ![r] = Tail(@)] /\ answer' = answer /\ blocked' = blocked
        /\ kept' = IF Takes(r) THEN kept ELSE kept \ {r}
    BY <1>3 DEF Returns
  <2>2. Cardinality(kept') + Cardinality(blocked') <= PoolSize
    BY <2>1, ConnectionsLeft
  <2>3. r \in kept' => Nests(r)
    BY <1>1, <2>1 DEF Flow
  <2>4. kept' \in {kept, kept \union {r}, kept \ {r}}
    BY <2>1
  <2> QED BY <1>3, <2>1, <2>2, <2>3, <2>4, GoesOnStep
<1> QED BY <1>2, <1>3

-----------------------------------------------------------------------------
(* A free connection is there to be taken, whichever way.                   *)
LEMMA ConnectionTaken ==
  ASSUME IInv, NEW r \in Request, Free > 0
  PROVE  /\ Cardinality(kept \union {r}) + Cardinality(blocked) <= PoolSize
         /\ Cardinality(kept) + Cardinality(blocked \union {r}) <= PoolSize
<1>1. /\ IsFiniteSet(kept) /\ Cardinality(kept) \in Nat
      /\ IsFiniteSet(blocked) /\ Cardinality(blocked) \in Nat
  BY FiniteRequests DEF IInv, Types
<1>2. ASSUME NEW S \in {kept, blocked}
      PROVE  Cardinality(S \union {r}) \in Nat /\ Cardinality(S \union {r}) <= Cardinality(S) + 1
  <2>1. IsFiniteSet(S) /\ Cardinality(S) \in Nat
    BY <1>1
  <2>2. /\ IsFiniteSet(S \union {r})
        /\ Cardinality(S \union {r}) = IF r \in S THEN Cardinality(S) ELSE Cardinality(S) + 1
    BY <2>1, FS_AddElement
  <2>3. Cardinality(S \union {r}) \in Nat
    BY <2>2, FS_CardinalityType
  <2> QED BY <2>1, <2>2, <2>3
<1>3. Cardinality(kept) + Cardinality(blocked) < PoolSize
  BY <1>1, ServerAssumption DEF Free
<1>4. /\ Cardinality(kept \union {r}) \in Nat /\ Cardinality(kept \union {r}) <= Cardinality(kept) + 1
      /\ Cardinality(blocked \union {r}) \in Nat
      /\ Cardinality(blocked \union {r}) <= Cardinality(blocked) + 1
  BY <1>2
<1> QED BY <1>1, <1>3, <1>4, ServerAssumption

(* What a request that calls has among its calls.                           *)
LEMMA CallsFirst ==
  ASSUME IInv, NEW r \in Request, NEW c, Calls(r, c)
  PROVE  /\ InFlight(r) /\ Head(todo[r]) = c /\ c \in Names(todo[r])
         /\ Names(todo[r]) = {c} \union Names(Tail(todo[r]))
         /\ c # "apikey" => ~req[r].dead
         /\ Flow(r) /\ KeyFlow(r) /\ todo[r] \in Seq(Call)
<1>1. InFlight(r) /\ Head(todo[r]) = c /\ todo[r] \in Seq(Call) /\ Flow(r) /\ KeyFlow(r)
  BY DEF IInv, Types, Calls
<1>2. c \in Names(todo[r]) /\ Names(todo[r]) = {c} \union Names(Tail(todo[r]))
  BY <1>1, NamesLeft DEF InFlight
<1>3. c # "apikey" => ~req[r].dead
  BY <1>1 DEF KeyFlow
<1> QED BY <1>1, <1>2, <1>3

(* Keys that stay are as the invariant says.                                *)
LEMMA SameKeys ==
  ASSUME IInv, NEW r \in Request, keys' = keys
  PROVE  KeysOf(r)
BY DEF KeysOf, IInv, Types

(* A call that has nothing to do with keys leaves what is to do with them.  *)
LEMMA OtherCalls ==
  ASSUME IInv, NEW r \in Request, NEW c, Calls(r, c), c \notin {"insert", "revoke"}, keys' = keys
  PROVE  /\ "insert" \in Names(Tail(todo[r])) => keys'[r] = "none"
         /\ req[r].op \in Changing /\ "revoke" \notin Names(Tail(todo[r])) =>
              keys'[req[r].of] = "revoked"
BY CallsFirst DEF KeyFlow

(* The steps of a request, one by one.                                      *)
LEMMA BeginStep ==
  ASSUME IInv, NEW r \in Request, Begin(r)
  PROVE  IInv'
<1>1. Calls(r, "begin") /\ keys' = keys /\ req' = req
  BY DEF Begin
<1>2. /\ InFlight(r) /\ Nests(r) /\ ~req[r].dead /\ KeysOf(r)
      /\ Flow(r) /\ todo[r] \in Seq(Call) /\ Head(todo[r]) = "begin"
  BY <1>1, CallsFirst, SameKeys DEF Flow
<1>3. Len(todo[r]) # 1
  BY <1>2, NamesLeft DEF Flow, InFlight
<1>4. Cardinality(kept') + Cardinality(blocked') <= PoolSize
  <2>1. Free > 0
    BY <1>1, <1>2 DEF Calls, Takes
  <2> QED BY <2>1, ConnectionTaken DEF Begin
<1>5. /\ "insert" \in Names(Tail(todo[r])) => keys'[r] = "none"
      /\ req[r].op \in Changing /\ "revoke" \notin Names(Tail(todo[r])) => keys'[req[r].of] = "revoked"
  BY <1>1, OtherCalls
<1> QED BY <1>1, <1>2, <1>3, <1>4, <1>5, GoesOnStep DEF Begin

(* One that comes to wait for itself.                                       *)
LEMMA VoidLinkedStep ==
  ASSUME IInv, NEW r \in Request, VoidLinked(r)
  PROVE  IInv'
<1>1. /\ Calls(r, "voidLinked") /\ blocked' = blocked \union {r}
      /\ UNCHANGED <<req, todo, kept, answer, keys>>
  BY DEF VoidLinked
<1>2. InFlight(r) /\ Flow(r) /\ KeyFlow(r) /\ Loses(r) /\ Head(todo[r]) = "voidLinked"
  BY <1>1, CallsFirst DEF Flow
<1>3. Types'
  <2>1. Free > 0
    BY <1>1, <1>2 DEF Calls, Takes
  <2>2. Cardinality(kept') + Cardinality(blocked') <= PoolSize
    BY <1>1, <2>1, ConnectionTaken
  <2> QED BY <1>1, <2>2 DEF IInv, Types
<1>4. ASSUME NEW q \in Request PROVE Flow(q)' /\ KeyFlow(q)'
  <2>1. Flow(q) /\ KeyFlow(q)
    BY DEF IInv
  <2>2. Flow(q)'
    BY <1>1, <1>2, <2>1 DEF Flow, InFlight, Nests, Loses
  <2>3. KeyFlow(q)'
    BY <1>1, <2>1 DEF KeyFlow, InFlight, Revoked
  <2> QED BY <2>2, <2>3
<1>5. \A k \in Key : Asked(k)'
  BY <1>1 DEF IInv, Asked
<1> QED BY <1>3, <1>4, <1>5 DEF IInv

LEMMA CheckKeyStep ==
  ASSUME IInv, NEW r \in Request, CheckKey(r)
  PROVE  IInv'
<1>1. Calls(r, "apikey") /\ keys' = keys /\ req' = req
  BY DEF CheckKey
<1>2. InFlight(r) /\ KeysOf(r) /\ KeyFlow(r) /\ req[r].op \notin KeyOperations
  BY <1>1, CallsFirst, SameKeys DEF KeyFlow
<1>3. CASE keys[req[r].key] = "active"
  <2>1. Returns(r) /\ ~req[r].dead
    BY <1>2, <1>3, RevokedHolds DEF CheckKey, KeyFlow
  <2> QED BY <1>1, <1>2, <2>1, OtherCalls, ReturnsStep
<1>4. CASE keys[req[r].key] # "active"
  <2>1. Ends(r, "refused")
    BY <1>4 DEF CheckKey
  <2> QED BY <1>1, <1>2, <2>1, EndsStep
<1> QED BY <1>3, <1>4

(* What a revocation does to the keys.                                      *)
LEMMA RevokeKeys ==
  ASSUME IInv, NEW r \in Request, Calls(r, "revoke"), keys' = [keys EXCEPT ![req[r].of] = "revoked"]
  PROVE  KeysOf(r) /\ req[r].op \in Changing /\ keys'[req[r].of] = "revoked"
<1>1. req[r].op \in Changing /\ req[r].of \in Key /\ keys[req[r].of] # "none"
  BY CallsFirst DEF KeyFlow
<1> QED BY <1>1 DEF KeysOf, IInv, Types

LEMMA RevokeKeyStep ==
  ASSUME IInv, NEW r \in Request, RevokeKey(r)
  PROVE  IInv'
<1>1. /\ Calls(r, "revoke") /\ req' = req /\ Returns(r)
      /\ keys' = [keys EXCEPT ![req[r].of] = "revoked"]
  BY DEF RevokeKey
<1>2. InFlight(r) /\ ~req[r].dead /\ KeyFlow(r)
  BY <1>1, CallsFirst
<1>3. KeysOf(r) /\ keys'[req[r].of] = "revoked"
  BY <1>1, RevokeKeys
<1>4. "insert" \in Names(Tail(todo[r])) => keys'[r] = "none"
  <2> SUFFICES ASSUME "insert" \in Names(Tail(todo[r])) PROVE keys'[r] = "none"
    OBVIOUS
  <2>1. keys[r] = "none" /\ r \in Key
    BY <1>1, CallsFirst, KeyNames DEF KeyFlow
  <2>2. r # req[r].of
    BY <1>1, <1>2, <2>1, RevokeKeys DEF KeyFlow
  <2> QED BY <1>1, <2>1, <2>2 DEF IInv, Types
<1> QED BY <1>1, <1>2, <1>3, <1>4, ReturnsStep

LEMMA DescribeKeyStep ==
  ASSUME IInv, NEW r \in Request, DescribeKey(r)
  PROVE  IInv'
<1>1. Calls(r, "describe") /\ req' = req /\ keys' = keys /\ Returns(r)
  BY DEF DescribeKey
<1> QED BY <1>1, CallsFirst, SameKeys, OtherCalls, ReturnsStep

(* What an insertion does to the keys.                                      *)
LEMMA InsertKeys ==
  ASSUME IInv, NEW r \in Request, Calls(r, "insert"), keys' = [keys EXCEPT ![r] = "active"]
  PROVE  KeysOf(r)
<1>1. r \in Key /\ keys[r] = "none" /\ req[r].op \in {"createKey", "rotateKey"}
  BY CallsFirst, KeyNames DEF KeyFlow
<1> QED BY <1>1 DEF KeysOf, IInv, Types

LEMMA InsertKeyStep ==
  ASSUME IInv, NEW r \in Request, InsertKey(r)
  PROVE  IInv'
<1>1. Calls(r, "insert") /\ req' = req /\ Returns(r) /\ keys' = [keys EXCEPT ![r] = "active"]
  BY DEF InsertKey
<1>2. InFlight(r) /\ ~req[r].dead /\ KeyFlow(r) /\ todo[r] \in Seq(Call) /\ KeysOf(r)
  <2>1. InFlight(r) /\ ~req[r].dead /\ KeyFlow(r) /\ todo[r] \in Seq(Call)
    BY <1>1, CallsFirst
  <2>2. KeysOf(r)
    BY <1>1, InsertKeys
  <2> QED BY <2>1, <2>2
<1>3. "insert" \notin Names(Tail(todo[r]))
  BY <1>1, <1>2, CallsFirst, OnceLeft DEF KeyFlow, InFlight
<1>4. req[r].op \in Changing /\ "revoke" \notin Names(Tail(todo[r])) => keys'[req[r].of] = "revoked"
  <2> SUFFICES ASSUME req[r].op \in Changing, "revoke" \notin Names(Tail(todo[r]))
               PROVE  keys'[req[r].of] = "revoked"
    OBVIOUS
  <2>1. keys[req[r].of] = "revoked" /\ keys[r] = "none"
    BY <1>1, CallsFirst DEF KeyFlow
  <2> QED BY <1>1, <2>1 DEF IInv, Types
<1> QED BY <1>1, <1>2, <1>3, <1>4, ReturnsStep

LEMMA RunStep ==
  ASSUME IInv, NEW r \in Request, Run(r)
  PROVE  IInv'
<1>1. PICK c : /\ Calls(r, c)
              /\ c \notin {"begin", "voidLinked", "apikey", "revoke", "describe", "insert"}
              /\ req' = req /\ keys' = keys /\ Returns(r)
  BY DEF Run
<1> QED BY <1>1, CallsFirst, SameKeys, OtherCalls, ReturnsStep

LEMMA LostStep ==
  ASSUME IInv, NEW r \in Request, Lost(r)
  PROVE  IInv'
<1>1. Ends(r, "failed") /\ req' = req /\ InFlight(r)
  BY DEF Lost, Calls
<1>2. KeysOf(r)
  <2>1. CASE Calls(r, "revoke")
    BY <2>1, RevokeKeys DEF Lost, Calls
  <2>2. CASE Calls(r, "insert")
    BY <2>2, InsertKeys DEF Lost, Calls
  <2> QED BY <2>1, <2>2 DEF Lost
<1> QED BY <1>1, <1>2, EndsStep

LEMMA TimeoutStep ==
  ASSUME IInv, NEW r \in Request, Timeout(r)
  PROVE  IInv'
<1> DEFINE how == IF OnlyIgnoredLeft(r) THEN "ok" ELSE "failed"
<1>1. InFlight(r) /\ Ends(r, how) /\ req' = req /\ keys' = keys
  BY DEF Timeout
<1>2. KeysOf(r) /\ how \in {"ok", "refused", "failed"} /\ how # "refused"
  BY <1>1, SameKeys
<1>3. ASSUME OnlyIgnoredLeft(r)
      PROVE  ~req[r].dead /\ (req[r].op \in Changing => keys'[req[r].of] = "revoked")
  <2>1. todo[r] \in Seq(Call) /\ KeyFlow(r) /\ Names(todo[r]) \subseteq Ignored
    BY <1>3 DEF IInv, Types, OnlyIgnoredLeft, Names
  <2>2. Head(todo[r]) \in Ignored /\ "revoke" \notin Names(todo[r])
    BY <1>1, <2>1, NamesLeft DEF InFlight, Ignored
  <2>3. Head(todo[r]) # "apikey"
    BY <2>2 DEF Ignored
  <2> QED BY <1>1, <2>1, <2>2, <2>3 DEF KeyFlow
<1>4. how = "ok" => OnlyIgnoredLeft(r)
  OBVIOUS
<1> HIDE DEF how
<1> QED BY <1>1, <1>2, <1>3, <1>4, EndsStep

(* An arriving request brings the calls of its operation, and a key that    *)
(* was revoked before is known to be.                                       *)
LEMMA ArriveStep ==
  ASSUME IInv, NEW r \in Request, NEW op \in Operation,
         NEW key \in Key \union {NoKey}, NEW of \in Key \union {NoKey}, Arrive(r, op, key, of)
  PROVE  IInv'
<1> DEFINE d == key # NoKey /\ Revoked(key)
           q == [op |-> op, key |-> key, of |-> of, dead |-> d]
           s == Authenticate(q) \o Work(op)
<1>1. /\ req[r] = Idle /\ req' = [req EXCEPT ![r] = q] /\ todo' = [todo EXCEPT ![r] = s]
      /\ kept' = kept /\ blocked' = blocked /\ answer' = answer /\ keys' = keys
      /\ key # NoKey => op \in ByKey
      /\ op \in Changing => of # NoKey /\ keys[of] # "none"
  BY DEF Arrive, Changing
<1>2. /\ Shape(op, s) /\ Once(s)
      /\ "apikey" \in Names(s) => op \notin KeyOperations
      /\ key # NoKey => Head(s) = "apikey"
  <2>1. key # NoKey => op \in ByKey
    BY <1>1
  <2> HIDE DEF d
  <2> QED BY <2>1, RequestShape
<1>3. s \in Seq(Call) /\ s # <<>> /\ op # "none"
  <2>1. op # "none"
    BY ServerAssumption DEF KeyOperations
  <2> QED BY <1>2, <2>1 DEF Shape, Calling
<1>4. q # Idle /\ q.op = op /\ q.key = key /\ q.of = of /\ q.dead = d
  BY <1>3 DEF Idle
<1> HIDE DEF q, s
<1>5. /\ req'[r] = q /\ todo'[r] = s /\ Flow(r) /\ KeyFlow(r)
      /\ \A p \in Request \ {r} : Same(p)
  BY <1>1 DEF IInv, Types, Same
<1>6. Types'
  <2>1. PICK S : req \in [Request -> S]
    BY DEF IInv, Types
  <2>2. req' \in [Request -> S \union {q}]
    BY <1>1, <2>1
  <2>3. todo' \in [Request -> Seq(Call)]
    BY <1>1, <1>3 DEF IInv, Types
  <2> QED BY <1>1, <2>2, <2>3 DEF IInv, Types
<1>7. ASSUME NEW k \in Key, Revoked(k) PROVE Revoked(k)'
  <2>1. PICK p \in Request : answer[p] = "ok" /\ req[p].of = k /\ req[p].op = "revokeKey"
    BY <1>7 DEF Revoked
  <2>2. p # r
    BY <1>1, <1>5, <2>1 DEF Flow
  <2> QED BY <1>5, <2>1, <2>2 DEF Revoked, Same
<1>8. ASSUME NEW k \in Key PROVE Asked(k)'
  <2> SUFFICES ASSUME keys[k] = "revoked"
               PROVE  \E p \in Request : req'[p].of = k /\ req'[p].op \in Changing
    BY <1>1 DEF Asked
  <2>1. PICK p \in Request : req[p].of = k /\ req[p].op \in Changing
    BY DEF IInv, Asked
  <2>2. p # r
    BY <1>1, <2>1 DEF Idle, Changing
  <2> QED BY <1>5, <2>1, <2>2 DEF Same
<1>9. ASSUME NEW p \in Request \ {r} PROVE Flow(p)' /\ KeyFlow(p)'
  <2>1. Flow(p) /\ KeyFlow(p) /\ Same(p)
    BY <1>5 DEF IInv
  <2>2. Flow(p)'
    BY <2>1 DEF Flow, Same, InFlight, Nests, Loses
  <2>3. req[p].dead => Revoked(req[p].key)'
    BY <1>7, <2>1 DEF KeyFlow, Same
  <2> QED BY <1>1, <2>1, <2>2, <2>3 DEF KeyFlow, Same, InFlight
<1>10. answer[r] = "none" /\ r \notin kept \union blocked /\ keys[r] = "none"
  BY <1>1, <1>5 DEF Flow, KeyFlow, Nests, Loses, InFlight, Idle
<1>11. Flow(r)'
  <2>1. InFlight(r)' /\ req'[r] # Idle
    BY <1>3, <1>4, <1>5 DEF InFlight
  <2>2. "begin" \in Names(s) => Nests(r)'
    BY <1>2, <1>4, <1>5, <2>1 DEF Shape, Nests
  <2>3. "voidLinked" \in Names(s) => Loses(r)'
    BY <1>2, <1>4, <1>5, <2>1 DEF Shape, Loses
  <2> QED BY <1>1, <1>2, <1>5, <1>10, <2>1, <2>2, <2>3 DEF Flow, Shape, Calling
<1>12. KeyFlow(r)'
  <2>1. d => key \in Key /\ Revoked(key)'
    BY <1>7
  <2>2. op \in {"createKey", "rotateKey"} => "insert" \in Names(s)
    BY <1>2 DEF Shape
  <2>3. op \in Changing <=> "revoke" \in Names(s)
    BY <1>2 DEF Shape, Changing
  <2> QED BY <1>1, <1>2, <1>4, <1>5, <1>10, <2>1, <2>2, <2>3 DEF KeyFlow, Shape, InFlight
<1> QED BY <1>5, <1>6, <1>8, <1>9, <1>11, <1>12 DEF IInv

(* Every step keeps the invariant.                                          *)
LEMMA NextIInv == IInv /\ [Next]_vars => IInv'
<1> SUFFICES ASSUME IInv, [Next]_vars PROVE IInv'
  OBVIOUS
<1>1. ASSUME NEW r \in Request, NEW op \in Operation,
             NEW key \in Key \union {NoKey}, NEW of \in Key \union {NoKey}, Arrive(r, op, key, of)
      PROVE  IInv'
  BY <1>1, ArriveStep
<1>2. ASSUME NEW r \in Request, Statement(r) \/ Lost(r) \/ Timeout(r)
      PROVE  IInv'
  BY <1>2, BeginStep, VoidLinkedStep, CheckKeyStep, RevokeKeyStep, DescribeKeyStep, InsertKeyStep,
     RunStep, LostStep, TimeoutStep DEF Statement
<1>3. CASE UNCHANGED vars
  <2>1. UNCHANGED <<req, todo, kept, blocked, answer, keys>>
    BY <1>3 DEF vars
  <2>2. Types' /\ \A k \in Key : Asked(k)'
    BY <2>1 DEF IInv, Types, Asked
  <2>3. ASSUME NEW r \in Request PROVE Flow(r)' /\ KeyFlow(r)'
    BY <2>1 DEF IInv, Flow, KeyFlow, InFlight, Nests, Loses, Revoked
  <2> QED BY <2>2, <2>3 DEF IInv
<1> QED BY <1>1, <1>2, <1>3 DEF Next

(* It holds throughout.                                                     *)
LEMMA InductiveInvariant == Spec => []IInv
BY InitIInv, NextIInv, PTL DEF Spec

-----------------------------------------------------------------------------
(* The types, and with them: no more connections are kept than the pool     *)
(* has, and none by a request that was answered (OpenPool, every rollback   *)
(* that is deferred).                                                       *)
THEOREM TypeCorrect == Spec => []TypeOK
<1>1. IInv => TypeOK
  <2> SUFFICES ASSUME IInv PROVE TypeOK
    OBVIOUS
  <2>1. Free >= 0
    BY FiniteRequests, ServerAssumption DEF Free, IInv, Types
  <2>2. kept \union blocked \subseteq {r \in Request : InFlight(r)}
    BY DEF IInv, Types, Flow, Nests, Loses
  <2> QED BY <2>1, <2>2 DEF TypeOK, IInv, Types
<1> QED BY <1>1, InductiveInvariant, PTL

(* A pool of any size stands still only when the reconciliations under way, *)
(* those that lost a race counted twice, are at least as many as it has     *)
(* connections, whatever else is asked of the server (reconcile/service.go, *)
(* CreateRun, ResolveDiffWithInput, compensateAdjustment).                  *)
THEOREM ReconciliationsStarve == Spec => []OnlyReconciliationsStarve
<1>1. IInv => OnlyReconciliationsStarve
  <2> DEFINE N == {r \in Request : Nests(r)}
             L == {r \in Request : Loses(r)}
  <2> SUFFICES ASSUME IInv, Stuck PROVE Cardinality(N) + Cardinality(L) >= PoolSize
    BY DEF OnlyReconciliationsStarve
  <2>1. kept \in SUBSET N /\ blocked \in SUBSET L
    BY DEF IInv, Types, Flow
  <2>2. /\ IsFiniteSet(N) /\ Cardinality(N) \in Nat /\ Cardinality(kept) \in Nat
        /\ IsFiniteSet(L) /\ Cardinality(L) \in Nat /\ Cardinality(blocked) \in Nat
    BY FiniteRequests DEF IInv, Types
  <2>3. Cardinality(kept) <= Cardinality(N) /\ Cardinality(blocked) <= Cardinality(L)
    <3> HIDE DEF N, L
    <3> QED BY <2>1, <2>2, FS_Subset
  <2>4. Cardinality(kept) + Cardinality(blocked) = PoolSize
    BY <2>2, ServerAssumption DEF Stuck, Free
  <2> HIDE DEF N, L
  <2> QED BY <2>2, <2>3, <2>4, ServerAssumption
<1> QED BY <1>1, InductiveInvariant, PTL

(* However the requests about keys overlap, fail and lose their answers:    *)
(* the keys are as the user was told (auth/service.go).                     *)
THEOREM KeysAccounted == Spec => []KeysAreAccountedFor
<1>1. IInv => KeysAreAccountedFor
  <2> SUFFICES ASSUME IInv PROVE KeysAreAccountedFor
    OBVIOUS
  <2>1. ASSUME NEW r \in Request, req[r].op \in {"createKey", "revokeKey", "rotateKey"}
        PROVE  InFlight(r) \/ answer[r] = "failed" \/ answer[r] = "ok"
    <3>1. req[r] # Idle
      BY <2>1 DEF Idle
    <3>2. answer[r] # "refused" /\ answer[r] \in {"none", "ok", "refused", "failed"}
      BY <2>1 DEF IInv, KeyFlow, KeyOperations, Types
    <3> QED BY <3>1, <3>2 DEF IInv, Flow
  <2>2. ASSUME NEW k \in Known, keys[k] = "revoked"
        PROVE  \E r \in Request : /\ req[r].of = k
                                  /\ \/ req[r].op = "revokeKey"
                                     \/ /\ req[r].op = "rotateKey"
                                        /\ InFlight(r) \/ answer[r] = "failed" \/ r \in Known
    <3>1. k \in Key
      BY KeyNames DEF Known
    <3>2. PICK r \in Request : req[r].of = k /\ req[r].op \in Changing
      BY <2>2, <3>1 DEF IInv, Asked
    <3>3. CASE req[r].op = "revokeKey"
      BY <3>2, <3>3
    <3>4. CASE req[r].op = "rotateKey"
      BY <2>1, <3>2, <3>4 DEF Known
    <3> QED BY <3>2, <3>3, <3>4 DEF Changing
  <2>3. ASSUME NEW k \in Request, keys[k] = "active"
        PROVE  k \in Known \/ InFlight(k) \/ answer[k] = "failed"
    <3>1. req[k].op \in {"createKey", "rotateKey"}
      BY <2>3 DEF IInv, KeyFlow
    <3> QED BY <2>1, <3>1 DEF Known
  <2>4. \A r \in Request : req[r].dead => answer[r] # "ok"
    BY DEF IInv, KeyFlow
  <2> QED BY <2>2, <2>3, <2>4 DEF KeysAreAccountedFor
<1> QED BY <1>1, InductiveInvariant, PTL
=============================================================================
