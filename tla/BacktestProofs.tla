--------------------------- MODULE BacktestProofs ---------------------------
(***************************************************************************)
(* What is proved of the backtest for every set of assets, bars, targets,  *)
(* fees and number of days: no order is filled at a price its decision     *)
(* could have known, whatever the strategy answers and whatever months and *)
(* bars the days have (the order queue is never carried past the day the   *)
(* fill timing gives it); the curve ends with the books; the windows of a  *)
(* walk forward test only on days that come after their training; the      *)
(* advice of the strategy is a sequence of orders, whatever it is given;   *)
(* the books keep their types and are overdrawn by no purchase; and what a *)
(* decision leaves of cash is the buffer less what its trades went worse   *)
(* than it reckoned.                                                       *)
(***************************************************************************)
EXTENDS Backtest, FiniteSetTheorems, WellFoundedInduction, TLAPS

(* The recorded trades form a sequence of some kind of record.              *)
Recorded == \E S : trades \in Seq(S)

(* The loop is somewhere, on one of its days.                               *)
Clock ==
    /\ timing \in {"next_open", "close"}
    /\ day \in 0..LastDay
    /\ phase \in {"night", "open", "close", "value", "fallback", "done"}

(* The day whose decision the waiting orders carry, by where the loop is.   *)
Queue ==
    orders # <<>> =>
        /\ phase = "open" => timing = "next_open" /\ decision.day = day - 1
        /\ phase = "close" => timing = "close" /\ decision.day = day
        /\ phase \in {"value", "night"} => timing = "next_open" /\ decision.day = day
        /\ phase = "fallback" => /\ timing = "next_open"
                                 /\ decision.day = day /\ day = LastDay
        /\ phase # "done"

(* The inductive invariant behind NoLookAhead.                              *)
IInv == Recorded /\ Clock /\ Queue /\ NoLookAhead

-----------------------------------------------------------------------------
(* It holds before the first day.                                           *)
LEMMA InitIInv == Init => IInv
<1> SUFFICES ASSUME Init PROVE IInv
  OBVIOUS
<1>1. trades \in Seq({}) /\ DOMAIN trades = {}
  BY DEF Init
<1>2. Recorded
  BY <1>1 DEF Recorded
<1>3. Clock
  BY BacktestAssumption DEF Init, Clock
<1>4. Queue
  BY DEF Init, Queue
<1>5. NoLookAhead
  BY <1>1 DEF NoLookAhead
<1> QED BY <1>2, <1>3, <1>4, <1>5 DEF IInv

(* A filled or lapsed order leaves the trades as they were or adds one that *)
(* carries today and the day of the decision.                               *)
LEMMA FillOutcome ==
  ASSUME Fill
  PROVE  \/ trades' = trades
         \/ \E o, qty, price, delta : trades' = Append(trades, Trade(o, qty, price, delta))
<1>1. ASSUME NEW o, NEW price, ExecuteSell(o, price)
      PROVE  \/ trades' = trades
             \/ \E p, qty, pr, delta : trades' = Append(trades, Trade(p, qty, pr, delta))
  BY <1>1 DEF ExecuteSell, Book, NoTrade
<1>2. ASSUME NEW o, NEW price, ExecuteBuy(o, price)
      PROVE  \/ trades' = trades
             \/ \E p, qty, pr, delta : trades' = Append(trades, Trade(p, qty, pr, delta))
  BY <1>2 DEF ExecuteBuy, Book, NoTrade
<1> QED BY <1>1, <1>2 DEF Fill, NoTrade

(* An order is filled when its decision allows it: the next day, or the     *)
(* same day with timing "close" or at the very end.                         *)
LEMMA FillsOnTime ==
  ASSUME BacktestAssumption, Clock, Queue, Fill
  PROVE  day = IF timing = "close" \/ decision.day = LastDay THEN decision.day
               ELSE decision.day + 1
BY DEF BacktestAssumption, Clock, Queue, Fill

(* What a fill records obeys NoLookAhead.                                   *)
LEMMA FillNoLookAhead ==
  ASSUME BacktestAssumption, IInv, Fill
  PROVE  Recorded' /\ NoLookAhead'
<1>1. CASE trades' = trades
  BY <1>1 DEF IInv, Recorded, NoLookAhead, Fill
<1>2. ASSUME NEW o, NEW qty, NEW price, NEW delta,
             trades' = Append(trades, Trade(o, qty, price, delta))
      PROVE  Recorded' /\ NoLookAhead'
  <2> DEFINE t == Trade(o, qty, price, delta)
  <2>1. PICK S : trades \in Seq(S)
    BY DEF IInv, Recorded
  <2>2. trades \in Seq(S \union {t}) /\ t \in S \union {t}
    BY <2>1
  <2>3. trades' \in Seq(S \union {t})
    BY <1>2, <2>2
  <2>4. t.day = day /\ t.decided = decision.day
    BY DEF Trade
  <2>5. ASSUME NEW i \in DOMAIN trades'
        PROVE  (i \in DOMAIN trades /\ trades'[i] = trades[i]) \/ trades'[i] = t
    <3> HIDE DEF t
    <3> QED BY <1>2, <2>2, <2>5 DEF t
  <2>6. timing' = timing
    BY DEF Fill
  <2>7. ASSUME NEW i \in DOMAIN trades'
        PROVE  trades'[i].day = IF timing' = "close" \/ trades'[i].decided = LastDay
                                THEN trades'[i].decided ELSE trades'[i].decided + 1
    <3> HIDE DEF t
    <3>1. CASE i \in DOMAIN trades /\ trades'[i] = trades[i]
      BY <3>1, <2>6 DEF IInv, NoLookAhead
    <3>2. CASE trades'[i] = t
      BY <3>2, <2>4, <2>6, FillsOnTime DEF IInv
    <3> QED BY <2>5, <3>1, <3>2
  <2> QED BY <2>3, <2>7 DEF Recorded, NoLookAhead
<1> QED BY <1>1, <1>2, FillOutcome

(* It is kept by every step.                                                *)
LEMMA StepIInv == BacktestAssumption /\ IInv /\ [Next]_vars => IInv'
<1> SUFFICES ASSUME BacktestAssumption, IInv, [Next]_vars PROVE IInv'
  OBVIOUS
<1>1. ASSUME NEW b, NextDay(b) PROVE IInv'
  <2>1. Clock'
    BY <1>1 DEF NextDay, IInv, Clock, BacktestAssumption
  <2>2. Queue'
    BY <1>1 DEF NextDay, IInv, Clock, Queue, BacktestAssumption
  <2>3. Recorded' /\ NoLookAhead'
    BY <1>1 DEF NextDay, IInv, Recorded, NoLookAhead
  <2> QED BY <2>1, <2>2, <2>3 DEF IInv
<1>2. CASE Fill
  <2>1. Clock'
    BY <1>2 DEF Fill, IInv, Clock
  <2>2. Queue'
    BY <1>2 DEF Fill, IInv, Queue
  <2> QED BY <1>2, <2>1, <2>2, FillNoLookAhead DEF IInv
<1>3. CASE Decide
  <2>1. Clock'
    BY <1>3 DEF Decide, IInv, Clock
  <2>2. decision' = decision \/ decision'.day = day
    BY <1>3 DEF Decide
  <2>3. Queue'
    BY <1>3, <2>2 DEF Decide, IInv, Clock, Queue
  <2>4. Recorded' /\ NoLookAhead'
    BY <1>3 DEF Decide, IInv, Recorded, NoLookAhead
  <2> QED BY <2>1, <2>3, <2>4 DEF IInv
<1>4. CASE Value
  <2>1. Clock'
    BY <1>4 DEF Value, IInv, Clock
  <2>2. Queue'
    <3> SUFFICES ASSUME orders' # <<>> PROVE Queue'
      BY DEF Queue
    <3>1. orders # <<>> /\ phase = "value"
      BY <1>4 DEF Value
    <3>2. timing = "next_open" /\ decision.day = day
      BY <3>1 DEF IInv, Queue
    <3>3. CASE day < LastDay
      <4>1. phase' = "night"
        BY <1>4, <3>3 DEF Value
      <4> QED BY <1>4, <3>2, <4>1 DEF Value, Queue
    <3>4. CASE ~(day < LastDay)
      <4>1. day = LastDay
        BY <3>4 DEF IInv, Clock, BacktestAssumption
      <4>2. phase' = "fallback"
        BY <1>4, <3>1, <3>4 DEF Value
      <4> QED BY <1>4, <3>2, <4>1, <4>2 DEF Value, Queue
    <3> QED BY <3>3, <3>4
  <2>3. Recorded' /\ NoLookAhead'
    BY <1>4 DEF Value, IInv, Recorded, NoLookAhead
  <2> QED BY <2>1, <2>2, <2>3 DEF IInv
<1>5. CASE UNCHANGED vars
  BY <1>5 DEF vars, IInv, Recorded, Clock, Queue, NoLookAhead
<1> QED BY <1>1, <1>2, <1>3, <1>4, <1>5 DEF Next

(* A decision is filled at the open of the next trading day, or on its own  *)
(* day where the timing or the end of the data says so: for all bars, all   *)
(* months, all targets and whatever the strategy advises.                   *)
THEOREM NoLookAheadTheorem == Spec => []NoLookAhead
<1>1. IInv => NoLookAhead
  BY DEF IInv
<1> QED BY InitIInv, StepIInv, BacktestAssumption, <1>1, PTL DEF Spec

(* The books do not move once the loop has ended, and its last step values  *)
(* them: the curve ends with cash and shares at their last closes, also     *)
(* when orders were filled after the first value of the last day.           *)
THEOREM CurveTheorem == Spec => []CurveEndsWithTheBooks
<1>1. Init => CurveEndsWithTheBooks
  BY DEF Init, CurveEndsWithTheBooks
<1>2. CurveEndsWithTheBooks /\ [Next]_vars => CurveEndsWithTheBooks'
  <2> SUFFICES ASSUME CurveEndsWithTheBooks, [Next]_vars PROVE CurveEndsWithTheBooks'
    OBVIOUS
  <2>1. CASE Value
    <3>1. EquityOf' = EquityOf
      BY <2>1 DEF Value, EquityOf
    <3> QED BY <2>1, <3>1 DEF Value, CurveEndsWithTheBooks
  <2>2. CASE Fill
    BY <2>2 DEF Fill, CurveEndsWithTheBooks
  <2>3. CASE Decide
    BY <2>3 DEF Decide, CurveEndsWithTheBooks
  <2>4. ASSUME NEW b, NextDay(b) PROVE CurveEndsWithTheBooks'
    BY <2>4 DEF NextDay, CurveEndsWithTheBooks
  <2>5. CASE UNCHANGED vars
    <3>1. EquityOf' = EquityOf
      BY <2>5 DEF vars, EquityOf
    <3> QED BY <2>5, <3>1 DEF vars, CurveEndsWithTheBooks
  <2> QED BY <2>1, <2>2, <2>3, <2>4, <2>5 DEF Next
<1> QED BY <1>1, <1>2, PTL DEF Spec

-----------------------------------------------------------------------------
(* The months of the days follow one another (monthsOf and the bars it is   *)
(* computed from are sorted by date).                                       *)
Consecutive(m, last) ==
    /\ m \in [1..last -> Nat] /\ last \in Nat
    /\ \A d \in 1..(last - 1) : m[d + 1] \in {m[d], m[d] + 1}

(* Months grow along the days: a smallest day against it would have a day   *)
(* before it that is against it, too.                                       *)
LEMMA MonthsGrow ==
  ASSUME NEW last, NEW m, Consecutive(m, last),
         NEW d \in 1..last, NEW e \in 1..last, d <= e
  PROVE  m[d] <= m[e]
<1> SUFFICES ASSUME m[e] < m[d] PROVE FALSE
  BY DEF Consecutive
<1> DEFINE Less == {f \in Nat : f \in d..last /\ m[f] < m[d]}
<1>1. Less \in SUBSET Nat /\ e \in Less
  BY DEF Consecutive
<1> HIDE DEF Less
<1>2. PICK f \in Less : \A g \in Less : f <= g
  <2> DEFINE R == {p \in Nat \X Nat : p[1] < p[2]}
  <2>1. IsWellFoundedOn(R, Nat)
    BY NatLessThanWellFounded DEF OpToRel
  <2> HIDE DEF R
  <2>2. PICK f \in Less : \A g \in Less : <<g, f>> \notin R
    BY <1>1, <2>1, WFMin
  <2>3. f \in Nat /\ \A g \in Less : g \in Nat /\ ~(g < f)
    BY <1>1, <2>2 DEF R
  <2> QED BY <2>2, <2>3
<1>3. f \in Nat /\ f \in d..last /\ m[f] < m[d]
  BY <1>2 DEF Less
<1>4. f # d
  BY <1>3 DEF Consecutive
<1>5. f - 1 \in 1..(last - 1) /\ f - 1 \in d..last /\ (f - 1) + 1 = f /\ f - 1 \in Nat
  BY <1>3, <1>4 DEF Consecutive
<1>6. m[f - 1] <= m[f] /\ m[f - 1] \in Nat /\ m[d] \in Nat /\ m[f] \in Nat
  BY <1>3, <1>5 DEF Consecutive
<1>7. f - 1 \in Less
  BY <1>3, <1>5, <1>6 DEF Less
<1> QED BY <1>2, <1>3, <1>7

(* Multiples of the step that differ lie a step apart.                      *)
LEMMA Multiples ==
  ASSUME NEW i \in Nat, NEW j \in Nat, NEW s \in Nat, i * s < j * s
  PROVE  i * s + s <= j * s
<1>1. i < j
  BY Z3
<1>2. PICK k \in Nat : j = i + 1 + k
  BY <1>1
<1>3. j * s = i * s + s + k * s
  BY <1>2
<1>4. k * s >= 0
  OBVIOUS
<1> QED BY <1>3, <1>4

(* What a number is rounded down to.                                        *)
LEMMA Rounded ==
  ASSUME NEW x \in Nat, NEW s \in Nat \ {0}
  PROVE  \E i \in 0..x : i * s <= x /\ x < i * s + s
<1> DEFINE i == x \div s
<1>1. i \in Nat /\ i * s <= x /\ x < i * s + s
  OBVIOUS
<1>2. i <= i * s
  BY <1>1
<1>3. i \in 0..x
  <2> HIDE DEF i
  <2> QED BY <1>1, <1>2
<1> QED BY <1>1, <1>3

(* The test of a fold lies after its training, by months.                   *)
LEMMA Later ==
  ASSUME NEW k \in Nat, NEW tr \in Nat, NEW a \in Nat, NEW b \in Nat, a \in (k + 1)..(k + tr),
         NEW te \in Nat, b \in (k + tr + 1)..(k + tr + te)
  PROVE  a < b
OBVIOUS

(* The test of a later fold lies after that of an earlier one, by months.   *)
LEMMA NextTest ==
  ASSUME NEW j \in Nat, NEW k \in Nat, NEW tr \in Nat, NEW te \in Nat, NEW st \in Nat,
         NEW a \in Nat, NEW b \in Nat, te <= st, j + st <= k,
         a \in (j + tr + 1)..(j + tr + te), b \in (k + tr + 1)..(k + tr + te)
  PROVE  a < b
OBVIOUS

(* Some fold tests a month that is neither too early for a test nor in the  *)
(* last months, which no longer fill one.                                   *)
LEMMA Covered ==
  ASSUME NEW n \in Nat, NEW tr \in Nat, NEW te \in Nat \ {0}, NEW a \in Nat,
         ~(a <= tr), ~(n - a < te)
  PROVE  \E i \in 0..n : /\ i * te + tr + te <= n /\ a \in (i * te + tr + 1)..(i * te + tr + te)
<1> DEFINE x == a - tr - 1
<1>1. x \in Nat /\ x <= n /\ a = x + tr + 1 /\ a + te <= n
  OBVIOUS
<1> HIDE DEF x
<1>2. PICK i \in 0..x : i * te <= x /\ x < i * te + te
  BY <1>1, Rounded
<1>3. i \in 0..n
  BY <1>1, <1>2
<1> DEFINE y == i * te
<1>4. y \in Nat /\ y <= x /\ x < y + te
  BY <1>2, <1>3
<1> HIDE DEF y
<1>5. y + tr + te <= n /\ a \in (y + tr + 1)..(y + tr + te)
  BY <1>1, <1>4
<1> QED BY <1>3, <1>5 DEF y

(* The folds of a walk forward over any months and with any windows.        *)
LEMMA FoldsFollow ==
  ASSUME NEW last, NEW m, Consecutive(m, last), NEW n \in Nat,
         NEW given \in [train : Int, test : Int, step : Int]
  PROVE  TestsFollowTraining(m, n, given)
<1> DEFINE w == WithDefaults(given)
           tr == w.train
           te == w.test
           st == w.step
<1>1. /\ tr \in Nat /\ te \in Nat \ {0} /\ st \in Nat
      /\ given.step <= 0 => st = te
  BY DEF WithDefaults
<1> HIDE DEF w
<1>2. DOMAIN m = 1..last /\ \A d \in DOMAIN m : m[d] \in Nat /\ d \in Int
  BY DEF Consecutive
<1>3. ASSUME NEW d \in DOMAIN m, NEW e \in DOMAIN m, m[d] < m[e] PROVE d < e
  <2> SUFFICES ASSUME ~(d < e) PROVE FALSE
    OBVIOUS
  <2>0. e <= d
    BY <1>2
  <2>1. m[e] <= m[d]
    BY <1>2, <2>0, MonthsGrow
  <2>2. m[d] \in Nat /\ m[e] \in Nat
    BY <1>2
  <2> QED BY <1>3, <2>1, <2>2
<1>4. ASSUME NEW k \in Starts(n, w)
      PROVE  k \in Nat /\ \E i \in Nat : k = i * st
  BY <1>1 DEF Starts
<1>5. ASSUME NEW k \in Starts(n, w), NEW d \in DOMAIN m, NEW e \in DOMAIN m,
             d \in Slice(m, TrainMonths(k, w)), e \in Slice(m, TestMonths(k, w))
      PROVE  d < e
  <2>1. m[d] \in (k + 1)..(k + tr) /\ m[e] \in (k + tr + 1)..(k + tr + te)
    BY <1>5 DEF Slice, TrainMonths, TestMonths
  <2>2. k \in Nat /\ m[d] \in Nat /\ m[e] \in Nat /\ tr \in Nat /\ te \in Nat
    BY <1>1, <1>2, <1>4
  <2> HIDE DEF tr, te
  <2>3. m[d] < m[e]
    BY <2>1, <2>2, Later
  <2> QED BY <1>3, <2>3
<1>6. ASSUME st >= te, NEW j \in Starts(n, w), NEW k \in Starts(n, w), j < k,
             NEW d \in Slice(m, TestMonths(j, w)), NEW e \in Slice(m, TestMonths(k, w))
      PROVE  d < e
  <2>1. /\ d \in DOMAIN m /\ e \in DOMAIN m
        /\ m[d] \in (j + tr + 1)..(j + tr + te) /\ m[e] \in (k + tr + 1)..(k + tr + te)
    BY <1>6 DEF Slice, TestMonths
  <2>2. PICK i1 \in Nat, i2 \in Nat : j = i1 * st /\ k = i2 * st
    BY <1>4, <1>6
  <2>3. /\ j \in Nat /\ k \in Nat /\ m[d] \in Nat /\ m[e] \in Nat
        /\ tr \in Nat /\ te \in Nat /\ st \in Nat
    BY <1>1, <1>2, <1>4, <2>1
  <2> HIDE DEF tr, te, st
  <2>4. j + st <= k
    BY <1>6, <2>2, <2>3, Multiples
  <2>5. te <= st
    BY <1>6, <2>3
  <2>6. m[d] < m[e]
    BY <2>1, <2>3, <2>4, <2>5, NextTest
  <2> QED BY <1>3, <2>1, <2>6
<1>7. ASSUME given.step <= 0, NEW d \in DOMAIN m,
             ~(m[d] <= tr), ~(n - m[d] < te)
      PROVE  \E k \in Starts(n, w) : d \in Slice(m, TestMonths(k, w))
  <2>1. m[d] \in Nat /\ tr \in Nat /\ te \in Nat \ {0} /\ st = te
    BY <1>1, <1>2, <1>7
  <2> HIDE DEF tr, te, st
  <2>2. PICK i \in 0..n : i * te + tr + te <= n /\ m[d] \in (i * te + tr + 1)..(i * te + tr + te)
    BY <1>7, <2>1, Covered
  <2> USE DEF tr, te, st
  <2>3. i * te = i * st
    BY <2>1
  <2>4. i * te \in Starts(n, w)
    BY <2>2, <2>3 DEF Starts
  <2>5. d \in Slice(m, TestMonths(i * te, w))
    BY <1>7, <2>2 DEF Slice, TestMonths
  <2> QED BY <2>4, <2>5
<1>8. given.step <= 0 =>
         \A d \in DOMAIN m :
            \/ m[d] <= w.train \/ n - m[d] < w.test
            \/ \E k \in Starts(n, w) : d \in Slice(m, TestMonths(k, w))
  BY <1>7
<1>9. \A k \in Starts(n, w), d, e \in DOMAIN m :
         d \in Slice(m, TrainMonths(k, w)) /\ e \in Slice(m, TestMonths(k, w)) => d < e
  BY <1>5
<1>10. w.step >= w.test =>
         \A j, k \in Starts(n, w) : j < k =>
            \A d \in Slice(m, TestMonths(j, w)), e \in Slice(m, TestMonths(k, w)) : d < e
  BY <1>6
<1> QED BY <1>8, <1>9, <1>10 DEF TestsFollowTraining, w

(* The months never change, so what holds of the folds holds throughout:    *)
(* the tests of a walk forward follow its training, and one another, for    *)
(* any number of days, any months and any windows.                          *)
THEOREM TestsFollow == Spec => []TestsAreUnseen
<1> DEFINE Inv == month \in Months
<1>1. Init => Inv
  BY DEF Init
<1>2. Inv /\ [Next]_vars => Inv'
  BY DEF Next, NextDay, Fill, ExecuteSell, ExecuteBuy, Decide, Value, vars, Months
<1>3. BacktestAssumption /\ Inv => TestsAreUnseen
  <2> SUFFICES ASSUME BacktestAssumption, Inv,
                      NEW train \in 0..LastDay, NEW test \in 0..LastDay, NEW step \in 0..LastDay
               PROVE  TestsFollowTraining(month, month[LastDay],
                                          [train |-> train, test |-> test, step |-> step])
    BY DEF TestsAreUnseen
  <2>1. Consecutive(month, LastDay)
    BY DEF Months, Day, Consecutive, BacktestAssumption
  <2>2. month[LastDay] \in Nat
    BY DEF Months, Day, BacktestAssumption
  <2>3. [train |-> train, test |-> test, step |-> step] \in [train : Int, test : Int, step : Int]
    BY DEF BacktestAssumption
  <2> QED BY <2>1, <2>2, <2>3, FoldsFollow
<1> HIDE DEF Inv
<1> QED BY <1>1, <1>2, <1>3, BacktestAssumption, PTL DEF Spec

-----------------------------------------------------------------------------
(* Sums over finite sets, which the community modules define by a recursive *)
(* function: what is needed of them here, from a smallest counterexample.   *)

(* A finite set that has subsets against Bad has a smallest one.            *)
LEMMA Smallest ==
  ASSUME NEW S, IsFiniteSet(S), NEW Bad \in SUBSET SUBSET S, Bad # {}
  PROVE  \E s \in Bad : \A x \in s : s \ {x} \notin Bad
<1> DEFINE Sizes == {n \in Nat : \E s \in Bad : Cardinality(s) = n}
           R == {p \in Nat \X Nat : p[1] < p[2]}
<1>1. \A s \in Bad : IsFiniteSet(s) /\ Cardinality(s) \in Nat
  BY FS_Subset, FS_CardinalityType
<1>2. Sizes \in SUBSET Nat /\ Sizes # {}
  BY <1>1
<1>3. IsWellFoundedOn(R, Nat)
  BY NatLessThanWellFounded DEF OpToRel
<1> HIDE DEF R
<1>4. PICK n \in Sizes : \A m \in Sizes : <<m, n>> \notin R
  <2> HIDE DEF Sizes
  <2> QED BY <1>2, <1>3, WFMin
<1>5. PICK s \in Bad : Cardinality(s) = n
  BY <1>4
<1>6. ASSUME NEW x \in s, s \ {x} \in Bad PROVE FALSE
  <2>1. Cardinality(s \ {x}) = n - 1 /\ n - 1 \in Nat /\ n \in Nat
    BY <1>1, <1>5, <1>6, FS_RemoveElement
  <2>2. n - 1 \in Sizes
    BY <1>6, <2>1
  <2>3. <<n - 1, n>> \in R
    BY <2>1 DEF R
  <2> QED BY <1>4, <2>2, <2>3
<1> QED BY <1>5, <1>6

(* The element a sum or fold of the community modules takes out of a set.   *)
Pick(s) == CHOOSE x \in s : TRUE

(* g adds up f over the subsets of S.                                       *)
Adds(g, f, S) == g = [s \in SUBSET S |-> IF s = {} THEN 0 ELSE f[Pick(s)] + g[s \ {Pick(s)}]]

(* The sum of f over S.                                                     *)
SumOf(f, S) == (CHOOSE g : Adds(g, f, S))[S]

(* SumFunctionOnSet, which the community modules define by a fold, is that  *)
(* sum.                                                                     *)
LEMMA SumIsTotal ==
  ASSUME NEW f, NEW S
  PROVE  SumFunctionOnSet(f, S) = SumOf(f, S)
BY DEF SumFunctionOnSet, FoldFunctionOnSet, MapThenFoldSet, SumOf, Adds, Pick

(* What is picked from a set is in it.                                      *)
LEMMA PickIn == ASSUME NEW s, s # {} PROVE Pick(s) \in s
BY DEF Pick

(* What is added up over a set does not depend on the set it is part of.    *)
LEMMA AddsAgree ==
  ASSUME NEW f, NEW S, NEW T, NEW g, Adds(g, f, S), NEW h, Adds(h, f, T),
         NEW s, s \in SUBSET S, s \in SUBSET T, IsFiniteSet(s)
  PROVE  g[s] = h[s]
<1> DEFINE Bad == {t \in SUBSET s : g[t] # h[t]}
<1> SUFFICES ASSUME Bad # {} PROVE FALSE
  OBVIOUS
<1>1. PICK t \in Bad : \A x \in t : t \ {x} \notin Bad
  <2>1. Bad \in SUBSET SUBSET s
    OBVIOUS
  <2> HIDE DEF Bad
  <2> QED BY <2>1, Smallest
<1>2. /\ g[t] = IF t = {} THEN 0 ELSE f[Pick(t)] + g[t \ {Pick(t)}]
      /\ h[t] = IF t = {} THEN 0 ELSE f[Pick(t)] + h[t \ {Pick(t)}]
  BY <1>1 DEF Adds
<1>3. CASE t = {}
  BY <1>1, <1>2, <1>3
<1>4. CASE t # {}
  <2>1. Pick(t) \in t
    BY <1>4, PickIn
  <2>2. g[t \ {Pick(t)}] = h[t \ {Pick(t)}]
    BY <1>1, <2>1
  <2> QED BY <1>1, <1>2, <1>4, <2>2
<1> QED BY <1>3, <1>4

(* There is a function that adds up f over the subsets of a finite set.     *)
LEMMA AddsExists ==
  ASSUME NEW f, NEW S, IsFiniteSet(S)
  PROVE  \E g : Adds(g, f, S)
<1> DEFINE Bad == {t \in SUBSET S : ~\E g : Adds(g, f, t)}
<1> SUFFICES ASSUME Bad # {} PROVE FALSE
  OBVIOUS
<1>1. PICK t \in Bad : \A x \in t : t \ {x} \notin Bad
  <2>1. Bad \in SUBSET SUBSET S
    OBVIOUS
  <2> HIDE DEF Bad
  <2> QED BY <2>1, Smallest
<1>2. t \in SUBSET S /\ IsFiniteSet(t) /\ ~\E g : Adds(g, f, t)
  BY <1>1, FS_Subset
<1>3. CASE t = {}
  <2> DEFINE g == [s \in SUBSET t |-> 0]
  <2>1. SUBSET t = {{}}
    BY <1>3
  <2>2. g = [s \in SUBSET t |-> IF s = {} THEN 0 ELSE f[Pick(s)] + g[s \ {Pick(s)}]]
    BY <2>1
  <2> QED BY <1>2, <2>2 DEF Adds
<1>4. CASE t # {}
  <2> DEFINE G(x) == CHOOSE g : Adds(g, f, t \ {x})
  <2>1. ASSUME NEW x \in t PROVE Adds(G(x), f, t \ {x})
    <3>1. \E g : Adds(g, f, t \ {x})
      BY <1>1
    <3> QED BY <3>1
  <2> HIDE DEF G
  <2> DEFINE Of(s) == G(CHOOSE x \in t : x \notin s)
             g == [s \in SUBSET t |-> IF s = t THEN f[Pick(t)] + G(Pick(t))[t \ {Pick(t)}]
                                                ELSE Of(s)[s]]
  <2>2. ASSUME NEW s \in SUBSET t, NEW x \in t, x \notin s PROVE g[s] = G(x)[s]
    <3> DEFINE y == CHOOSE y \in t : y \notin s
    <3>1. y \in t /\ y \notin s
      BY <2>2
    <3>2. g[s] = G(y)[s]
      BY <2>2
    <3> HIDE DEF y, g
    <3>3. Adds(G(x), f, t \ {x}) /\ Adds(G(y), f, t \ {y})
      BY <2>1, <3>1
    <3>4. s \in SUBSET (t \ {x}) /\ s \in SUBSET (t \ {y}) /\ IsFiniteSet(s)
      BY <1>2, <2>2, <3>1, FS_Subset
    <3> QED BY <3>2, <3>3, <3>4, AddsAgree
  <2>3. ASSUME NEW s \in SUBSET t
        PROVE  g[s] = IF s = {} THEN 0 ELSE f[Pick(s)] + g[s \ {Pick(s)}]
    <3>1. CASE s = t
      <4>1. Pick(t) \in t /\ t \ {Pick(t)} \in SUBSET t /\ Pick(t) \notin t \ {Pick(t)}
        BY <1>4, PickIn
      <4>2. g[t \ {Pick(t)}] = G(Pick(t))[t \ {Pick(t)}]
        <5> HIDE DEF g
        <5> QED BY <2>2, <4>1
      <4>3. g[t] = f[Pick(t)] + G(Pick(t))[t \ {Pick(t)}]
        OBVIOUS
      <4> HIDE DEF g
      <4> QED BY <1>4, <3>1, <4>2, <4>3
    <3>2. CASE s # t
      <4>1. PICK x \in t : x \notin s
        BY <3>2
      <4> HIDE DEF g
      <4>2. g[s] = G(x)[s] /\ g[s \ {Pick(s)}] = G(x)[s \ {Pick(s)}]
        BY <2>2, <4>1
      <4>3. Adds(G(x), f, t \ {x})
        BY <2>1
      <4>4. G(x)[s] = IF s = {} THEN 0 ELSE f[Pick(s)] + G(x)[s \ {Pick(s)}]
        BY <4>1, <4>3 DEF Adds
      <4> QED BY <4>2, <4>4
    <3> QED BY <3>1, <3>2
  <2>4. g = [s \in SUBSET t |-> g[s]]
    OBVIOUS
  <2> HIDE DEF g
  <2>5. Adds(g, f, t)
    <3>1. g = [s \in SUBSET t |-> IF s = {} THEN 0 ELSE f[Pick(s)] + g[s \ {Pick(s)}]]
      BY <2>3, <2>4, Zenon
    <3> QED BY <3>1 DEF Adds
  <2> QED BY <1>2, <2>5
<1> QED BY <1>3, <1>4

(* The sum over a set takes out the element it picks.                       *)
LEMMA SumPick ==
  ASSUME NEW f, NEW S, IsFiniteSet(S)
  PROVE  SumFunctionOnSet(f, S) =
           IF S = {} THEN 0 ELSE f[Pick(S)] + SumFunctionOnSet(f, S \ {Pick(S)})
<1> DEFINE g == CHOOSE g : Adds(g, f, S)
           T == S \ {Pick(S)}
           h == CHOOSE h : Adds(h, f, T)
<1>1. Adds(g, f, S) /\ Adds(h, f, T)
  BY AddsExists, FS_RemoveElement
<1>2. SumFunctionOnSet(f, S) = g[S] /\ SumFunctionOnSet(f, T) = h[T]
  BY SumIsTotal DEF SumOf
<1> HIDE DEF g, h
<1>3. g[T] = h[T]
  <2>1. T \in SUBSET S /\ T \in SUBSET T /\ IsFiniteSet(T)
    BY FS_RemoveElement
  <2> HIDE DEF T
  <2> QED BY <1>1, <2>1, AddsAgree
<1>4. g[S] = IF S = {} THEN 0 ELSE f[Pick(S)] + g[T]
  BY <1>1 DEF Adds
<1> QED BY <1>2, <1>3, <1>4

(* Nothing adds up to zero.                                                 *)
LEMMA SumEmpty == ASSUME NEW f PROVE SumFunctionOnSet(f, {}) = 0
BY SumPick, FS_EmptySet

(* A sum of integers is an integer.                                         *)
LEMMA SumInt ==
  ASSUME NEW S, IsFiniteSet(S), NEW f, \A x \in S : f[x] \in Int
  PROVE  SumFunctionOnSet(f, S) \in Int
<1> DEFINE Bad == {t \in SUBSET S : SumFunctionOnSet(f, t) \notin Int}
<1> SUFFICES ASSUME Bad # {} PROVE FALSE
  OBVIOUS
<1>1. PICK t \in Bad : \A x \in t : t \ {x} \notin Bad
  <2>1. Bad \in SUBSET SUBSET S
    OBVIOUS
  <2> HIDE DEF Bad
  <2> QED BY <2>1, Smallest
<1>2. IsFiniteSet(t) /\ t \subseteq S
  BY <1>1, FS_Subset
<1>3. t # {}
  BY <1>1, SumEmpty
<1>4. Pick(t) \in t /\ SumFunctionOnSet(f, t \ {Pick(t)}) \in Int
  BY <1>1, <1>3, PickIn
<1> QED BY <1>1, <1>2, <1>3, <1>4, SumPick

(* A sum of naturals is a natural.                                          *)
LEMMA SumNat ==
  ASSUME NEW S, IsFiniteSet(S), NEW f, \A x \in S : f[x] \in Nat
  PROVE  SumFunctionOnSet(f, S) \in Nat
<1> DEFINE Bad == {t \in SUBSET S : SumFunctionOnSet(f, t) \notin Nat}
<1> SUFFICES ASSUME Bad # {} PROVE FALSE
  OBVIOUS
<1>1. PICK t \in Bad : \A x \in t : t \ {x} \notin Bad
  <2>1. Bad \in SUBSET SUBSET S
    OBVIOUS
  <2> HIDE DEF Bad
  <2> QED BY <2>1, Smallest
<1>2. IsFiniteSet(t) /\ t \subseteq S
  BY <1>1, FS_Subset
<1>3. t # {}
  BY <1>1, SumEmpty
<1>4. Pick(t) \in t /\ SumFunctionOnSet(f, t \ {Pick(t)}) \in Nat
  BY <1>1, <1>3, PickIn
<1> QED BY <1>1, <1>2, <1>3, <1>4, SumPick

(* Any element can be taken out of a sum, not only the one it picks.        *)
LEMMA SumRemove ==
  ASSUME NEW S, IsFiniteSet(S), NEW f, \A x \in S : f[x] \in Int, NEW x \in S
  PROVE  SumFunctionOnSet(f, S) = f[x] + SumFunctionOnSet(f, S \ {x})
<1> DEFINE Sum(t) == SumFunctionOnSet(f, t)
           Bad == {t \in SUBSET S : \E y \in t : Sum(t) # f[y] + Sum(t \ {y})}
<1> SUFFICES ASSUME Bad # {} PROVE FALSE
  OBVIOUS
<1>1. PICK t \in Bad : \A y \in t : t \ {y} \notin Bad
  <2>1. Bad \in SUBSET SUBSET S
    OBVIOUS
  <2> HIDE DEF Bad
  <2> QED BY <2>1, Smallest
<1>2. PICK y \in t : Sum(t) # f[y] + Sum(t \ {y})
  BY <1>1
<1> DEFINE p == Pick(t)
           both == (t \ {y}) \ {p}
<1>3. p \in t /\ Sum(t) = f[p] + Sum(t \ {p})
  BY <1>1, <1>2, PickIn, SumPick, FS_Subset
<1>4. p # y
  BY <1>2, <1>3
<1> HIDE DEF p
<1>5. Sum(t \ {y}) = f[p] + Sum(both)
  BY <1>1, <1>3, <1>4
<1>6. Sum(t \ {p}) = f[y] + Sum(both)
  <2>1. (t \ {p}) \ {y} = both
    OBVIOUS
  <2> QED BY <1>1, <1>3, <1>4, <2>1
<1>7. Sum(both) \in Int /\ f[p] \in Int /\ f[y] \in Int
  <2>1. both \in SUBSET S /\ IsFiniteSet(both)
    BY <1>1, FS_Subset
  <2> QED BY <1>1, <1>3, <2>1, SumInt
<1> HIDE DEF Sum, both
<1> QED BY <1>2, <1>3, <1>5, <1>6, <1>7

(* One more element adds its value.                                         *)
LEMMA SumAdd ==
  ASSUME NEW S, IsFiniteSet(S), NEW x, x \notin S,
         NEW f, \A y \in S \union {x} : f[y] \in Int
  PROVE  SumFunctionOnSet(f, S \union {x}) = SumFunctionOnSet(f, S) + f[x]
<1>1. IsFiniteSet(S \union {x}) /\ (S \union {x}) \ {x} = S
  BY FS_AddElement
<1>2. SumFunctionOnSet(f, S \union {x}) = f[x] + SumFunctionOnSet(f, S)
  BY <1>1, SumRemove
<1> QED BY <1>2, SumInt

(* Functions that agree on a set have the same sum over it.                 *)
LEMMA SumSame ==
  ASSUME NEW S, IsFiniteSet(S), NEW f, NEW g, \A x \in S : f[x] = g[x]
  PROVE  SumFunctionOnSet(f, S) = SumFunctionOnSet(g, S)
<1> DEFINE Bad == {t \in SUBSET S : SumFunctionOnSet(f, t) # SumFunctionOnSet(g, t)}
<1> SUFFICES ASSUME Bad # {} PROVE FALSE
  OBVIOUS
<1>1. PICK t \in Bad : \A x \in t : t \ {x} \notin Bad
  <2>1. Bad \in SUBSET SUBSET S
    OBVIOUS
  <2> HIDE DEF Bad
  <2> QED BY <2>1, Smallest
<1>2. IsFiniteSet(t) /\ t \subseteq S /\ t # {}
  BY <1>1, SumEmpty, FS_Subset
<1>3. Pick(t) \in t
  BY <1>2, PickIn
<1>4. SumFunctionOnSet(f, t \ {Pick(t)}) = SumFunctionOnSet(g, t \ {Pick(t)})
  BY <1>1, <1>3
<1>5. f[Pick(t)] = g[Pick(t)]
  BY <1>2, <1>3
<1> QED BY <1>1, <1>2, <1>4, <1>5, SumPick

(* The sums over two sets that have nothing in common.                      *)
LEMMA SumUnion ==
  ASSUME NEW S, IsFiniteSet(S), NEW T, IsFiniteSet(T), S \intersect T = {},
         NEW f, \A x \in S \union T : f[x] \in Int
  PROVE  SumFunctionOnSet(f, S \union T) = SumFunctionOnSet(f, S) + SumFunctionOnSet(f, T)
<1> DEFINE Sum(t) == SumFunctionOnSet(f, t)
           Bad == {t \in SUBSET T : Sum(S \union t) # Sum(S) + Sum(t)}
<1> SUFFICES ASSUME Bad # {} PROVE FALSE
  OBVIOUS
<1>1. PICK t \in Bad : \A x \in t : t \ {x} \notin Bad
  <2>1. Bad \in SUBSET SUBSET T
    OBVIOUS
  <2> HIDE DEF Bad
  <2> QED BY <2>1, Smallest
<1>2. IsFiniteSet(t) /\ t \subseteq T /\ Sum(S) \in Int /\ Sum(S \union t) # Sum(S) + Sum(t)
  BY <1>1, FS_Subset, SumInt
<1>3. t # {}
  <2> SUFFICES ASSUME t = {} PROVE FALSE
    OBVIOUS
  <2>1. S \union t = S /\ Sum(t) = 0
    BY SumEmpty
  <2> HIDE DEF Sum
  <2> QED BY <1>2, <2>1
<1>4. PICK x \in t : TRUE
  BY <1>3
<1> DEFINE r == t \ {x}
<1>5. Sum(S \union r) = Sum(S) + Sum(r)
  BY <1>1, <1>4
<1>6. Sum(t) = f[x] + Sum(r) /\ Sum(r) \in Int
  <2>1. \A y \in t : f[y] \in Int
    BY <1>2
  <2>2. IsFiniteSet(r)
    BY <1>2, FS_RemoveElement
  <2> QED BY <1>2, <1>4, <2>1, <2>2, SumRemove, SumInt
<1>7. Sum(S \union t) = f[x] + Sum(S \union r)
  <2> DEFINE u == S \union t
  <2>1. IsFiniteSet(u) /\ x \in u /\ u \ {x} = S \union r /\ \A y \in u : f[y] \in Int
    BY <1>2, <1>4, FS_Union
  <2> HIDE DEF u
  <2>2. Sum(u) = f[x] + Sum(u \ {x})
    BY <2>1, SumRemove
  <2> QED BY <2>1, <2>2 DEF u
<1>8. f[x] \in Int
  BY <1>2, <1>4
<1> HIDE DEF Sum, r
<1> QED BY <1>2, <1>5, <1>6, <1>7, <1>8

(* A part of a sum of naturals is at most the whole.                        *)
LEMMA SumPart ==
  ASSUME NEW S, IsFiniteSet(S), NEW T \in SUBSET S, NEW f, \A x \in S : f[x] \in Nat
  PROVE  SumFunctionOnSet(f, T) <= SumFunctionOnSet(f, S)
<1> DEFINE R == S \ T
<1>1. IsFiniteSet(T) /\ IsFiniteSet(R) /\ T \intersect R = {} /\ T \union R = S
  BY FS_Subset
<1> HIDE DEF R
<1>2. (\A x \in T : f[x] \in Nat) /\ (\A x \in R : f[x] \in Nat)
  BY <1>1
<1>3. SumFunctionOnSet(f, T) \in Nat /\ SumFunctionOnSet(f, R) \in Nat
  BY <1>1, <1>2, SumNat
<1>4. \A x \in T \union R : f[x] \in Int
  BY <1>2
<1>5. SumFunctionOnSet(f, T \union R) = SumFunctionOnSet(f, T) + SumFunctionOnSet(f, R)
  BY <1>1, <1>4, SumUnion
<1>6. SumFunctionOnSet(f, S) = SumFunctionOnSet(f, T) + SumFunctionOnSet(f, R)
  BY <1>1, <1>5, Zenon
<1> QED BY <1>3, <1>6

(* The sum of what two functions add up to.                                 *)
LEMMA SumPlus ==
  ASSUME NEW S, IsFiniteSet(S), NEW f, NEW g, NEW h,
         \A x \in S : f[x] \in Int /\ g[x] \in Int /\ h[x] = f[x] + g[x]
  PROVE  SumFunctionOnSet(h, S) = SumFunctionOnSet(f, S) + SumFunctionOnSet(g, S)
<1> DEFINE F(t) == SumFunctionOnSet(f, t)
           G(t) == SumFunctionOnSet(g, t)
           H(t) == SumFunctionOnSet(h, t)
           Bad == {t \in SUBSET S : H(t) # F(t) + G(t)}
<1> SUFFICES ASSUME Bad # {} PROVE FALSE
  OBVIOUS
<1>1. PICK t \in Bad : \A x \in t : t \ {x} \notin Bad
  <2>1. Bad \in SUBSET SUBSET S
    OBVIOUS
  <2> HIDE DEF Bad
  <2> QED BY <2>1, Smallest
<1>2. IsFiniteSet(t) /\ t \subseteq S /\ H(t) # F(t) + G(t)
  BY <1>1, FS_Subset
<1>3. t # {}
  <2> SUFFICES ASSUME t = {} PROVE FALSE
    OBVIOUS
  <2>1. F(t) = 0 /\ G(t) = 0 /\ H(t) = 0
    BY SumEmpty
  <2> HIDE DEF F, G, H
  <2> QED BY <1>2, <2>1
<1> DEFINE p == Pick(t)
           r == t \ {p}
<1>4. p \in t /\ H(r) = F(r) + G(r)
  BY <1>1, <1>3, PickIn
<1>5. H(t) = h[p] + H(r) /\ F(t) = f[p] + F(r) /\ G(t) = g[p] + G(r)
  BY <1>2, <1>3, SumPick
<1>6. F(r) \in Int /\ G(r) \in Int
  <2>1. IsFiniteSet(r) /\ r \subseteq S
    BY <1>2, FS_RemoveElement
  <2> QED BY <2>1, SumInt
<1>7. f[p] \in Int /\ g[p] \in Int /\ h[p] = f[p] + g[p]
  BY <1>2, <1>4
<1> HIDE DEF F, G, H, p, r
<1> QED BY <1>2, <1>4, <1>5, <1>6, <1>7

(* Multiplying a sum, for SumTimes.                                         *)
LEMMA Distributes ==
  ASSUME NEW a \in Int, NEW x \in Int, NEW y \in Int
  PROVE  a * x + a * y = a * (x + y) /\ a * x \in Int /\ a * 0 = 0
OBVIOUS

(* The sum of the multiples of what a function adds up.                     *)
LEMMA SumTimes ==
  ASSUME NEW S, IsFiniteSet(S), NEW c \in Int, NEW f, NEW h,
         \A x \in S : f[x] \in Int /\ h[x] = c * f[x]
  PROVE  SumFunctionOnSet(h, S) = c * SumFunctionOnSet(f, S)
<1> DEFINE F(t) == SumFunctionOnSet(f, t)
           H(t) == SumFunctionOnSet(h, t)
           Bad == {t \in SUBSET S : H(t) # c * F(t)}
<1> SUFFICES ASSUME Bad # {} PROVE FALSE
  OBVIOUS
<1>1. PICK t \in Bad : \A x \in t : t \ {x} \notin Bad
  <2>1. Bad \in SUBSET SUBSET S
    OBVIOUS
  <2> HIDE DEF Bad
  <2> QED BY <2>1, Smallest
<1>2. IsFiniteSet(t) /\ t \subseteq S /\ H(t) # c * F(t)
  BY <1>1, FS_Subset
<1>3. t # {}
  BY <1>2, SumEmpty, Distributes
<1> DEFINE p == Pick(t)
           r == t \ {p}
<1>4. p \in t /\ H(r) = c * F(r)
  BY <1>1, <1>3, PickIn
<1>5. H(t) = h[p] + H(r) /\ F(t) = f[p] + F(r)
  BY <1>2, <1>3, SumPick
<1>6. F(r) \in Int
  <2>1. IsFiniteSet(r) /\ r \subseteq S
    BY <1>2, FS_RemoveElement
  <2> QED BY <2>1, SumInt
<1>7. f[p] \in Int /\ h[p] = c * f[p]
  BY <1>2, <1>4
<1> HIDE DEF F, H, p, r
<1> QED BY <1>2, <1>4, <1>5, <1>6, <1>7, Distributes

(* A sum of nothing but zeros.                                              *)
LEMMA SumZero ==
  ASSUME NEW S, IsFiniteSet(S), NEW f, \A x \in S : f[x] = 0
  PROVE  SumFunctionOnSet(f, S) = 0
<1> DEFINE c == 0
<1>1. c \in Int /\ \A x \in S : f[x] \in Int /\ f[x] = c * f[x]
  OBVIOUS
<1> HIDE DEF c
<1>2. SumFunctionOnSet(f, S) = c * SumFunctionOnSet(f, S) /\ SumFunctionOnSet(f, S) \in Int
  BY <1>1, SumTimes, SumInt
<1> QED BY <1>2 DEF c

(* A sum over the images of different elements.                             *)
LEMMA SumImage ==
  ASSUME NEW S, IsFiniteSet(S), NEW m, \A x, y \in S : m[x] = m[y] => x = y,
         NEW f, NEW h, \A x \in S : h[x] \in Int /\ f[m[x]] = h[x]
  PROVE  /\ IsFiniteSet({m[x] : x \in S})
         /\ SumFunctionOnSet(f, {m[x] : x \in S}) = SumFunctionOnSet(h, S)
<1> DEFINE Im(t) == {m[x] : x \in t}
           F(t) == SumFunctionOnSet(f, Im(t))
           H(t) == SumFunctionOnSet(h, t)
           Bad == {t \in SUBSET S : ~(IsFiniteSet(Im(t)) /\ F(t) = H(t))}
<1> SUFFICES ASSUME Bad # {} PROVE FALSE
  OBVIOUS
<1>1. PICK t \in Bad : \A x \in t : t \ {x} \notin Bad
  <2>1. Bad \in SUBSET SUBSET S
    OBVIOUS
  <2> HIDE DEF Bad
  <2> QED BY <2>1, Smallest
<1>2. IsFiniteSet(t) /\ t \subseteq S /\ ~(IsFiniteSet(Im(t)) /\ F(t) = H(t))
  BY <1>1, FS_Subset
<1>3. t # {}
  <2> SUFFICES ASSUME t = {} PROVE FALSE
    OBVIOUS
  <2>1. Im(t) = {}
    OBVIOUS
  <2> HIDE DEF Im
  <2> QED BY <1>2, <2>1, SumEmpty, FS_EmptySet
<1>4. PICK x \in t : TRUE
  BY <1>3
<1> DEFINE r == t \ {x}
<1>5. IsFiniteSet(Im(r)) /\ F(r) = H(r)
  BY <1>1, <1>4
<1>6. H(t) = h[x] + H(r) /\ H(r) \in Int /\ h[x] \in Int /\ f[m[x]] = h[x]
  <2>1. IsFiniteSet(r) /\ \A y \in t : h[y] \in Int
    BY <1>2, FS_RemoveElement
  <2> QED BY <1>2, <1>4, <2>1, SumRemove, SumInt
<1>7. Im(t) = Im(r) \union {m[x]} /\ m[x] \notin Im(r)
  BY <1>2, <1>4
<1>8. \A y \in Im(r) \union {m[x]} : f[y] \in Int
  BY <1>2, <1>4
<1>9. IsFiniteSet(Im(t)) /\ F(t) = F(r) + f[m[x]]
  <2>1. IsFiniteSet(Im(r) \union {m[x]})
    BY <1>5, FS_AddElement
  <2> DEFINE u == Im(r)
             y == m[x]
  <2>2. SumFunctionOnSet(f, u \union {y}) = SumFunctionOnSet(f, u) + f[y]
    <3>1. IsFiniteSet(u) /\ y \notin u /\ \A z \in u \union {y} : f[z] \in Int
      BY <1>5, <1>7, <1>8
    <3> HIDE DEF u, y
    <3> QED BY <3>1, SumAdd
  <2> QED BY <1>7, <2>1, <2>2, Zenon
<1> HIDE DEF F, H, Im, r
<1> QED BY <1>2, <1>5, <1>6, <1>9

(* A sum of smaller values is smaller.                                      *)
LEMMA SumAtMost ==
  ASSUME NEW S, IsFiniteSet(S), NEW f, NEW g,
         \A x \in S : f[x] \in Int /\ g[x] \in Int /\ f[x] <= g[x]
  PROVE  SumFunctionOnSet(f, S) <= SumFunctionOnSet(g, S)
<1> DEFINE h == [x \in S |-> g[x] - f[x]]
<1>1. \A x \in S : h[x] \in Nat /\ h[x] \in Int /\ g[x] = f[x] + h[x]
  OBVIOUS
<1> HIDE DEF h
<1>2. SumFunctionOnSet(g, S) = SumFunctionOnSet(f, S) + SumFunctionOnSet(h, S)
  BY <1>1, SumPlus
<1>3. SumFunctionOnSet(h, S) \in Nat /\ SumFunctionOnSet(f, S) \in Int
  BY <1>1, SumNat, SumInt
<1> QED BY <1>2, <1>3

(* What a finite set is mapped onto is finite.                              *)
LEMMA OntoFinite ==
  ASSUME NEW S, IsFiniteSet(S), NEW m,
         NEW T, \A x \in S : m[x] \in T, \A y \in T : \E x \in S : y = m[x]
  PROVE  IsFiniteSet(T)
<1> DEFINE n == [x \in S |-> m[x]]
<1>1. n \in Surjection(S, T)
  BY DEF Surjection
<1> QED BY <1>1, FS_Surjection

(* The sum over a set whose elements are those of another, matched.         *)
LEMMA SumOnto ==
  ASSUME NEW S, IsFiniteSet(S), NEW m, \A x, y \in S : m[x] = m[y] => x = y,
         NEW T, \A x \in S : m[x] \in T, \A y \in T : \E x \in S : y = m[x],
         NEW f, NEW h, \A x \in S : h[x] \in Int /\ f[m[x]] = h[x]
  PROVE  SumFunctionOnSet(f, T) = SumFunctionOnSet(h, S)
<1>1. T = {m[x] : x \in S}
  OBVIOUS
<1>2. SumFunctionOnSet(f, {m[x] : x \in S}) = SumFunctionOnSet(h, S)
  BY SumImage
<1> QED BY <1>1, <1>2, Zenon

(* A sum of what is each at most a different part of another sum.           *)
LEMMA SumInto ==
  ASSUME NEW S, IsFiniteSet(S), NEW m, \A x, y \in S : m[x] = m[y] => x = y,
         NEW T, IsFiniteSet(T), \A x \in S : m[x] \in T,
         NEW f, \A y \in T : f[y] \in Nat,
         NEW g, \A x \in S : g[x] \in Int /\ g[x] <= f[m[x]]
  PROVE  SumFunctionOnSet(g, S) <= SumFunctionOnSet(f, T)
<1> DEFINE h == [x \in S |-> f[m[x]]]
           I == {m[x] : x \in S}
<1>1. \A x \in S : h[x] \in Int /\ g[x] \in Int /\ g[x] <= h[x] /\ f[m[x]] = h[x]
  OBVIOUS
<1>2. I \in SUBSET T /\ \A x \in S : m[x] \in I /\ \A y \in I : \E z \in S : y = m[z]
  OBVIOUS
<1>3. \A y \in I : \E x \in S : y = m[x]
  OBVIOUS
<1> HIDE DEF h, I
<1>4. SumFunctionOnSet(f, I) = SumFunctionOnSet(h, S)
  BY <1>1, <1>2, <1>3, SumOnto
<1>5. SumFunctionOnSet(f, I) <= SumFunctionOnSet(f, T)
  BY <1>2, SumPart
<1>6. SumFunctionOnSet(g, S) <= SumFunctionOnSet(h, S)
  BY <1>1, SumAtMost
<1>7. /\ SumFunctionOnSet(g, S) \in Int /\ SumFunctionOnSet(h, S) \in Int
      /\ SumFunctionOnSet(f, T) \in Int
  BY <1>1, SumInt, SumNat
<1> QED BY <1>4, <1>5, <1>6, <1>7

(* The smaller of two numbers.                                              *)
LEMMA MinTwo ==
  ASSUME NEW x \in Int, NEW y \in Int
  PROVE  Min({x, y}) = IF x <= y THEN x ELSE y
<1>1. CASE x <= y
  <2>1. \A z \in {x, y} : x <= z
    BY <1>1
  <2>2. \A m \in {x, y} : (\A z \in {x, y} : m <= z) => m = x
    BY <1>1
  <2> QED BY <1>1, <2>1, <2>2 DEF Min
<1>2. CASE ~(x <= y)
  <2>1. \A z \in {x, y} : y <= z
    BY <1>2
  <2>2. \A m \in {x, y} : (\A z \in {x, y} : m <= z) => m = y
    BY <1>2
  <2> QED BY <1>2, <2>1, <2>2 DEF Min
<1> QED BY <1>1, <1>2

(* The larger of two numbers.                                               *)
LEMMA MaxTwo ==
  ASSUME NEW x \in Int, NEW y \in Int
  PROVE  Max({x, y}) = IF x >= y THEN x ELSE y
<1>1. CASE x >= y
  <2>1. \A z \in {x, y} : x >= z
    BY <1>1
  <2>2. \A m \in {x, y} : (\A z \in {x, y} : m >= z) => m = x
    BY <1>1
  <2> QED BY <1>1, <2>1, <2>2 DEF Max
<1>2. CASE ~(x >= y)
  <2>1. \A z \in {x, y} : y >= z
    BY <1>2
  <2>2. \A m \in {x, y} : (\A z \in {x, y} : m >= z) => m = y
    BY <1>2
  <2> QED BY <1>2, <2>1, <2>2 DEF Max
<1> QED BY <1>1, <1>2

(* A finite set of numbers that is not empty has a largest one: else there  *)
(* is a smallest distance to a bound that none of its elements keeps.       *)
LEMMA MaxOfSet ==
  ASSUME NEW n \in Nat, NEW S \in SUBSET (0..n), S # {}
  PROVE  Max(S) \in S /\ \A i \in S : i <= Max(S)
<1> DEFINE Left == {n - i : i \in S}
           R == {p \in Nat \X Nat : p[1] < p[2]}
<1>1. Left \in SUBSET Nat /\ Left # {}
  <2>1. \A i \in S : n - i \in Nat /\ n - i \in Left
    OBVIOUS
  <2>2. \E i \in S : n - i \in Left
    BY <2>1
  <2>3. \A k \in Left : k \in Nat
    BY <2>1
  <2> HIDE DEF Left
  <2> QED BY <2>2, <2>3
<1>2. IsWellFoundedOn(R, Nat)
  BY NatLessThanWellFounded DEF OpToRel
<1> HIDE DEF R
<1>3. PICK k \in Left : \A j \in Left : <<j, k>> \notin R
  <2> HIDE DEF Left
  <2> QED BY <1>1, <1>2, WFMin
<1>4. PICK m \in S : k = n - m
  BY <1>3
<1>5. ASSUME NEW i \in S PROVE m >= i
  <2>1. n - i \in Left /\ n - i \in Nat /\ k \in Nat
    BY <1>4
  <2>2. ~(n - i < k)
    BY <1>3, <2>1 DEF R
  <2> QED BY <1>4, <2>2
<1>6. Max(S) \in S /\ \A i \in S : Max(S) >= i
  <2>1. \E x \in S : \A i \in S : x >= i
    BY <1>5
  <2> QED BY <2>1 DEF Max
<1> QED BY <1>6

(* What the whole of a number divided by another is.                        *)
LEMMA Quotient ==
  ASSUME NEW x \in Nat, NEW y \in Nat \ {0}
  PROVE  x \div y \in Nat
OBVIOUS

-----------------------------------------------------------------------------
(* The strategy: what it is given, and what its orders are.                 *)
InputOK(in) ==
  /\ in.cash \in Int
  /\ in.shares \in [Asset -> Nat] /\ in.price \in [Asset -> Nat]
  /\ DOMAIN in.target \subseteq Asset /\ \A a \in DOMAIN in.target : in.target[a] \in Int

(* What an order can be.                                                    *)
Orders == [asset : Asset, action : {"buy", "sell"}, qty : Nat \ {0}]

(* A finite set of orders, at most one for each asset.                      *)
Drafts(S) ==
  /\ IsFiniteSet(S) /\ S \subseteq Orders
  /\ \A o, p \in S : o.asset = p.asset => o = p

(* Fees and taxes are no less than nothing.                                 *)
LEMMA FeesTyped ==
  ASSUME StrategyAssumption, NEW a \in Asset, NEW gross \in Nat
  PROVE  /\ EstimateFee(gross) \in Nat /\ EstimateTax(a, gross) \in Nat
         /\ SellNetProceeds(a, gross) \in Nat
<1>1. FeeRate \in Nat /\ FeeMinimum \in Nat /\ Scale \in Nat \ {0} /\ TaxRate[a] \in Nat
  BY DEF StrategyAssumption
<1>2. gross * FeeRate \in Nat /\ gross * TaxRate[a] \in Nat
  BY <1>1
<1>3. (gross * FeeRate) \div Scale \in Nat /\ (gross * TaxRate[a]) \div Scale \in Nat
  BY <1>1, <1>2, Quotient
<1>4. EstimateFee(gross) \in Nat
  BY <1>1, <1>3, MaxTwo DEF EstimateFee
<1>5. EstimateTax(a, gross) \in Nat
  BY <1>3 DEF EstimateTax
<1>6. gross - EstimateFee(gross) - EstimateTax(a, gross) \in Int
  BY <1>4, <1>5
<1>7. SellNetProceeds(a, gross) \in Nat
  BY <1>6, MaxTwo DEF SellNetProceeds
<1> QED BY <1>4, <1>5, <1>7

(* What everything is worth is a number.                                    *)
LEMMA WorthTyped ==
  ASSUME StrategyAssumption, NEW c \in Int, NEW s \in [Asset -> Nat], NEW p \in [Asset -> Nat]
  PROVE  c + SumFunction([a \in Asset |-> s[a] * p[a]]) \in Int
<1> DEFINE f == [a \in Asset |-> s[a] * p[a]]
<1>1. DOMAIN f = Asset /\ \A a \in Asset : f[a] \in Int
  OBVIOUS
<1> HIDE DEF f
<1>2. SumFunction(f) \in Int
  BY <1>1, SumInt DEF SumFunction, StrategyAssumption
<1> QED BY <1>2 DEF f

(* How far an asset is from its target is a number.                         *)
LEMMA GapTyped ==
  ASSUME StrategyAssumption, NEW in, InputOK(in), NEW a \in DOMAIN in.target
  PROVE  Total(in) \in Int /\ Gap(in, a) \in Int /\ Abs(Gap(in, a)) \in Nat
<1>1. Total(in) \in Int
  BY WorthTyped DEF Total, InputOK
<1>2. in.target[a] \in Int /\ in.shares[a] \in Nat /\ in.price[a] \in Nat /\ Scale \in Nat
  BY DEF InputOK, StrategyAssumption
<1>3. in.target[a] * Total(in) \in Int
  BY <1>1, <1>2
<1>4. Scale * in.shares[a] * in.price[a] \in Int
  BY <1>2
<1>5. Gap(in, a) \in Int
  BY <1>3, <1>4 DEF Gap
<1> QED BY <1>1, <1>5 DEF Abs

(* Shares are cut down to whole lots.                                       *)
LEMMA FloorTyped ==
  ASSUME StrategyAssumption, NEW num \in Nat, NEW den \in Nat \ {0}
  PROVE  FloorQuantity(num, den) \in Nat
<1>1. LotSize \in Nat \ {0}
  BY DEF StrategyAssumption
<1>2. (num \div den) \div LotSize \in Nat
  BY <1>1, Quotient
<1> QED BY <1>1, <1>2 DEF FloorQuantity

(* What is wanted of an asset is a number of shares.                        *)
LEMMA WantedTyped ==
  ASSUME StrategyAssumption, NEW in, InputOK(in), NEW a \in OffTarget(in)
  PROVE  a \in Asset /\ a \in DOMAIN in.target /\ Wanted(in, a) \in Nat
<1>1. a \in DOMAIN in.target /\ a \in Asset /\ in.price[a] \in Nat /\ in.price[a] > 0
  BY DEF OffTarget, InputOK
<1>2. Abs(Gap(in, a)) \in Nat
  BY <1>1, GapTyped
<1>3. Scale * in.price[a] \in Nat \ {0}
  BY <1>1 DEF StrategyAssumption
<1> QED BY <1>1, <1>2, <1>3, FloorTyped DEF Wanted

(* A set of orders made of some assets, one of each, in which some are left *)
(* out.                                                                     *)
LEMMA DraftsOfAssets ==
  ASSUME StrategyAssumption, NEW f, NEW A \in SUBSET Asset, DOMAIN f = A,
         \A a \in A : f[a].asset = a /\ (f[a].qty > 0 => f[a] \in Orders),
         NEW S, S = {o \in {f[a] : a \in A} : o.qty > 0}
  PROVE  Drafts(S)
<1>1. S \subseteq Orders /\ \A o, p \in S : o.asset = p.asset => o = p
  OBVIOUS
<1>2. IsFiniteSet(A)
  BY FS_Subset DEF StrategyAssumption
<1> DEFINE T == {f[a] : a \in A}
           g == [a \in A |-> f[a]]
<1>3. g \in Surjection(A, T)
  BY DEF Surjection
<1>4. IsFiniteSet(T)
  <2> HIDE DEF g, T
  <2> QED BY <1>2, <1>3, FS_Surjection
<1>5. S \in SUBSET T
  OBVIOUS
<1>6. IsFiniteSet(S)
  <2> HIDE DEF T
  <2> QED BY <1>4, <1>5, FS_Subset
<1> QED BY <1>1, <1>6 DEF Drafts

(* The sales, and below the purchases, are drafts.                          *)
LEMMA SellsAreDrafts ==
  ASSUME StrategyAssumption, NEW in, InputOK(in)
  PROVE  Drafts(Sells(in))
<1> DEFINE A == {a \in OffTarget(in) : Gap(in, a) < 0}
           f == [a \in A |-> Order(a, "sell", Min({Wanted(in, a), in.shares[a]}))]
<1>1. A \in SUBSET Asset
  BY WantedTyped
<1>2. ASSUME NEW a \in A
      PROVE  f[a].asset = a /\ (f[a].qty > 0 => f[a] \in Orders)
  <2>1. a \in Asset /\ Wanted(in, a) \in Nat /\ in.shares[a] \in Nat
    BY <1>2, WantedTyped DEF InputOK
  <2>2. Min({Wanted(in, a), in.shares[a]}) \in Nat
    <3> DEFINE w == Wanted(in, a)
               h == in.shares[a]
    <3>1. w \in Int /\ h \in Int /\ w \in Nat /\ h \in Nat
      BY <2>1
    <3> HIDE DEF w, h
    <3>2. Min({w, h}) \in Nat
      BY <3>1, MinTwo
    <3> QED BY <3>2 DEF w, h
  <2>3. f[a] = [asset |-> a, action |-> "sell", qty |-> Min({Wanted(in, a), in.shares[a]})]
    BY DEF Order
  <2> HIDE DEF f
  <2> QED BY <2>1, <2>2, <2>3 DEF Orders
<1>3. Sells(in) = {o \in {f[a] : a \in A} : o.qty > 0}
  BY DEF Sells
<1> HIDE DEF f, A
<1>4. DOMAIN f = A
  BY DEF f
<1> QED BY <1>1, <1>2, <1>3, <1>4, DraftsOfAssets

(* The purchases before they are scaled, each at a price.                   *)
LEMMA DraftBuysAreDrafts ==
  ASSUME StrategyAssumption, NEW in, InputOK(in)
  PROVE  Drafts(DraftBuys(in)) /\ \A o \in DraftBuys(in) : in.price[o.asset] \in Nat \ {0}
<1> DEFINE A == {a \in OffTarget(in) : Gap(in, a) > 0}
           f == [a \in A |-> Order(a, "buy", Wanted(in, a))]
<1>1. A \in SUBSET Asset
  BY WantedTyped
<1>2. ASSUME NEW a \in A
      PROVE  f[a].asset = a /\ (f[a].qty > 0 => f[a] \in Orders) /\ in.price[a] \in Nat \ {0}
  <2>1. a \in Asset /\ Wanted(in, a) \in Nat
    BY <1>2, WantedTyped
  <2>2. f[a] = [asset |-> a, action |-> "buy", qty |-> Wanted(in, a)]
    BY DEF Order
  <2>3. in.price[a] \in Nat /\ in.price[a] > 0
    BY <1>2, <2>1 DEF OffTarget, InputOK
  <2> HIDE DEF f
  <2> QED BY <2>1, <2>2, <2>3 DEF Orders
<1>3. DraftBuys(in) = {o \in {f[a] : a \in A} : o.qty > 0}
  BY DEF DraftBuys
<1> HIDE DEF f, A
<1>4. DOMAIN f = A
  BY DEF f
<1>5. Drafts(DraftBuys(in))
  BY <1>1, <1>2, <1>3, <1>4, DraftsOfAssets
<1>6. \A o \in DraftBuys(in) : in.price[o.asset] \in Nat \ {0}
  BY <1>2, <1>3
<1> QED BY <1>5, <1>6

(* What is added up over orders is no less than nothing.                    *)
LEMMA OrdersAddUp ==
  ASSUME NEW S, Drafts(S), NEW f, DOMAIN f = S, \A o \in S : f[o] \in Nat
  PROVE  SumFunction(f) \in Nat
BY SumNat DEF SumFunction, Drafts

(* What an order is about is an amount of money.                            *)
LEMMA AmountTyped ==
  ASSUME NEW in, InputOK(in), NEW o \in Orders
  PROVE  Amount(in, o) \in Nat /\ o.asset \in Asset
BY DEF Amount, InputOK, Orders

(* The budget is no less than nothing.                                      *)
LEMMA BudgetTyped ==
  ASSUME StrategyAssumption, NEW in, InputOK(in)
  PROVE  Budget(in) \in Nat
<1> DEFINE f == [o \in Sells(in) |-> SellNetProceeds(o.asset, Amount(in, o))]
<1>1. ASSUME NEW o \in Sells(in) PROVE f[o] \in Nat
  <2>1. o \in Orders
    BY SellsAreDrafts DEF Drafts
  <2> QED BY <2>1, AmountTyped, FeesTyped
<1>2. DOMAIN f = Sells(in)
  OBVIOUS
<1>3. SumFunction(f) \in Nat
  <2> HIDE DEF f
  <2> QED BY <1>1, <1>2, SellsAreDrafts, OrdersAddUp
<1>4. in.cash - CashBuffer \in Int
  BY DEF InputOK, StrategyAssumption
<1>5. Max({0, in.cash - CashBuffer}) \in Nat
  BY <1>4, MaxTwo
<1> QED BY <1>3, <1>5 DEF Budget

(* The purchases, scaled or not.                                            *)
LEMMA BuysAreDrafts ==
  ASSUME StrategyAssumption, NEW in, InputOK(in)
  PROVE  Drafts(Buys(in))
<1> DEFINE drafts == DraftBuys(in)
           total == SumFunction([o \in drafts |-> Amount(in, o)])
           Scaled(o) == FloorQuantity(Amount(in, o) * Budget(in), total * in.price[o.asset])
           scaled == {[o EXCEPT !.qty = Scaled(o)] : o \in drafts}
<1>1. Drafts(drafts) /\ \A o \in drafts : in.price[o.asset] \in Nat \ {0}
  BY DraftBuysAreDrafts
<1>2. Budget(in) \in Nat
  BY BudgetTyped
<1>3. CASE total <= Budget(in)
  <2>1. Buys(in) = drafts
    BY <1>3 DEF Buys
  <2> HIDE DEF drafts
  <2> QED BY <1>1, <2>1
<1>4. CASE ~(total <= Budget(in))
  <2>1. Buys(in) = {o \in scaled : o.qty > 0 /\ Amount(in, o) >= MinTrade}
    BY <1>4 DEF Buys
  <2>2. total \in Nat
    <3> DEFINE f == [o \in drafts |-> Amount(in, o)]
    <3> HIDE DEF drafts
    <3>1. DOMAIN f = drafts /\ \A o \in drafts : f[o] \in Nat
      BY <1>1, AmountTyped DEF Drafts
    <3> HIDE DEF f
    <3>2. SumFunction(f) \in Nat
      BY <1>1, <3>1, OrdersAddUp
    <3> QED BY <3>2 DEF f
  <2> HIDE DEF drafts, total
  <2>3. total \in Nat \ {0}
    BY <1>2, <1>4, <2>2
  <2>4. ASSUME NEW o \in drafts PROVE Scaled(o) \in Nat /\ o \in Orders
    <3>1. o \in Orders /\ Amount(in, o) \in Nat
      BY <1>1, AmountTyped DEF Drafts
    <3>2. Amount(in, o) * Budget(in) \in Nat
      BY <1>2, <3>1
    <3>3. total * in.price[o.asset] \in Nat \ {0}
      BY <1>1, <2>3
    <3> QED BY <3>1, <3>2, <3>3, FloorTyped
  <2> HIDE DEF Scaled
  <2>5. ASSUME NEW o \in scaled, o.qty > 0
        PROVE  o \in Orders /\ \E p \in drafts : o = [p EXCEPT !.qty = Scaled(p)] /\ o.asset = p.asset
    <3>1. PICK p \in drafts : o = [p EXCEPT !.qty = Scaled(p)]
      BY <2>5
    <3>2. Scaled(p) \in Nat /\ p \in Orders
      BY <2>4
    <3>3. o.asset = p.asset /\ o.qty = Scaled(p)
      BY <3>1, <3>2 DEF Orders
    <3>4. o \in Orders
      BY <2>5, <3>1, <3>2, <3>3 DEF Orders
    <3> QED BY <3>1, <3>3, <3>4
  <2>6. Buys(in) \subseteq Orders /\ \A o, p \in Buys(in) : o.asset = p.asset => o = p
    <3>1. Buys(in) \subseteq scaled /\ \A o \in Buys(in) : o.qty > 0
      BY <2>1
    <3> HIDE DEF scaled
    <3>2. Buys(in) \subseteq Orders
      BY <2>5, <3>1
    <3>3. ASSUME NEW o \in Buys(in), NEW p \in Buys(in), o.asset = p.asset PROVE o = p
      <4>1. PICK q \in drafts : o = [q EXCEPT !.qty = Scaled(q)] /\ o.asset = q.asset
        BY <2>5, <3>1
      <4>2. PICK r \in drafts : p = [r EXCEPT !.qty = Scaled(r)] /\ p.asset = r.asset
        BY <2>5, <3>1
      <4>3. q = r
        BY <1>1, <3>3, <4>1, <4>2 DEF Drafts
      <4> QED BY <4>1, <4>2, <4>3
    <3> QED BY <3>2, <3>3
  <2>7. IsFiniteSet(Buys(in))
    <3> DEFINE g == [o \in drafts |-> [o EXCEPT !.qty = Scaled(o)]]
    <3>1. g \in Surjection(drafts, scaled)
      BY DEF Surjection
    <3>2. Buys(in) \in SUBSET scaled
      BY <2>1
    <3> HIDE DEF g, scaled
    <3>3. IsFiniteSet(scaled)
      BY <1>1, <3>1, FS_Surjection DEF Drafts
    <3> QED BY <3>2, <3>3, FS_Subset
  <2> QED BY <2>6, <2>7 DEF Drafts
<1> QED BY <1>3, <1>4

(* Each place of the sequence has an order of its own: the places of the    *)
(* orders are all different, and there are as many orders as places.        *)
LEMMA SortedTyped ==
  ASSUME StrategyAssumption, NEW S, Drafts(S)
  PROVE  /\ BySymbol(S) \in Seq(Orders)
         /\ \A k \in DOMAIN BySymbol(S) : BySymbol(S)[k] \in S
         /\ \A j, k \in DOMAIN BySymbol(S) : BySymbol(S)[j] = BySymbol(S)[k] => j = k
<1> DEFINE n == Cardinality(S)
           Less(o) == {p \in S : p.asset < o.asset}
           rank == [o \in S |-> Cardinality(Less(o))]
<1>0. IsFiniteSet(S) /\ n \in Nat /\ \A o \in S : o.asset \in Nat
  BY FS_CardinalityType DEF Drafts, Orders, StrategyAssumption
<1>1. ASSUME NEW o \in S
      PROVE  IsFiniteSet(Less(o)) /\ rank[o] \in Nat /\ rank[o] = Cardinality(Less(o))
  <2>1. IsFiniteSet(Less(o))
    BY <1>0, FS_Subset
  <2> QED BY <2>1, FS_CardinalityType
<1>2. ASSUME NEW o \in S PROVE rank[o] \in 0..(n - 1)
  <2>1. Less(o) \in SUBSET S /\ o \in S /\ o \notin Less(o)
    BY <1>0, <1>2
  <2> DEFINE L == Less(o)
  <2>2. rank[o] = Cardinality(L) /\ rank[o] \in Nat /\ L \in SUBSET S /\ o \notin L
    BY <1>1, <2>1
  <2> HIDE DEF L, rank, n
  <2>3. Cardinality(L) <= Cardinality(S) /\ Cardinality(S) # Cardinality(L)
    BY <1>0, <1>2, <2>2, FS_Subset
  <2> QED BY <1>0, <2>2, <2>3 DEF n
<1>3. ASSUME NEW o \in S, NEW p \in S, o.asset < p.asset PROVE rank[o] < rank[p]
  <2> DEFINE L == Less(o)
             M == Less(p)
  <2>1. L \in SUBSET M /\ o \in M /\ o \notin L
    BY <1>0, <1>3
  <2>2. /\ rank[o] = Cardinality(L) /\ rank[o] \in Nat
        /\ IsFiniteSet(M) /\ rank[p] = Cardinality(M) /\ rank[p] \in Nat
    BY <1>1
  <2> HIDE DEF L, M, rank
  <2>3. Cardinality(L) <= Cardinality(M) /\ Cardinality(M) # Cardinality(L)
    BY <2>1, <2>2, FS_Subset
  <2> QED BY <2>2, <2>3
<1>4. ASSUME NEW o \in S, NEW p \in S, o # p PROVE rank[o] # rank[p]
  <2>1. o.asset # p.asset /\ o.asset \in Nat /\ p.asset \in Nat
    BY <1>0, <1>4 DEF Drafts
  <2>2. o.asset < p.asset \/ p.asset < o.asset
    BY <2>1
  <2>3. rank[o] \in Nat /\ rank[p] \in Nat
    BY <1>1
  <2> HIDE DEF rank
  <2> QED BY <1>3, <2>2, <2>3
<1>5. IsFiniteSet(0..(n - 1)) /\ Cardinality(0..(n - 1)) = n
  <2> DEFINE m == n - 1
  <2>1. m \in Int /\ 0 \in Int
    BY <1>0
  <2> HIDE DEF m
  <2>2. IsFiniteSet(0..m)
    BY <2>1, FS_Interval
  <2>3. Cardinality(0..m) = IF 0 > m THEN 0 ELSE m - 0 + 1
    BY ONLY <2>1, FS_Interval
  <2> USE DEF m
  <2> HIDE DEF n
  <2> QED BY <1>0, <2>2, <2>3
<1>6. rank \in Surjection(S, 0..(n - 1))
  <2>1. rank \in Injection(S, 0..(n - 1))
    <3>1. rank \in [S -> 0..(n - 1)]
      BY <1>2
    <3> HIDE DEF rank, n
    <3> QED BY <1>4, <3>1 DEF Injection, IsInjective
  <2> HIDE DEF rank
  <2>2. Cardinality(S) = Cardinality(0..(n - 1))
    BY <1>5
  <2> HIDE DEF n
  <2> QED BY <1>5, <2>1, <2>2, FS_Injection
<1> DEFINE At(i) == CHOOSE o \in S : Cardinality({p \in S : p.asset < o.asset}) = i - 1
<1>7. ASSUME NEW i \in 1..n PROVE At(i) \in S /\ rank[At(i)] = i - 1
  <2>1. i - 1 \in 0..(n - 1)
    BY <1>0
  <2>2. PICK o \in S : rank[o] = i - 1
    <3> HIDE DEF rank, n
    <3> QED BY <1>6, <2>1 DEF Surjection
  <2>3. Cardinality({p \in S : p.asset < o.asset}) = i - 1
    BY <2>2
  <2>4. At(i) \in S /\ Cardinality({p \in S : p.asset < At(i).asset}) = i - 1
    BY <2>3
  <2> HIDE DEF At
  <2> QED BY <2>4
<1>8. BySymbol(S) = [i \in 1..n |-> At(i)]
  BY DEF BySymbol
<1> HIDE DEF n, At, rank
<1>9. \A i \in 1..n : At(i) \in Orders
  BY <1>7 DEF Drafts
<1>10. \A i, j \in 1..n : At(i) = At(j) => i = j
  BY <1>0, <1>7
<1> QED BY <1>0, <1>7, <1>8, <1>9, <1>10

(* The advice is a sequence of orders.                                      *)
LEMMA AdviceTyped ==
  ASSUME StrategyAssumption, NEW in, InputOK(in)
  PROVE  Rebalance(in) \in Seq(Orders)
<1>1. BySymbol(Sells(in)) \in Seq(Orders) /\ BySymbol(Buys(in)) \in Seq(Orders)
  BY SellsAreDrafts, BuysAreDrafts, SortedTyped
<1>2. BySymbol(Sells(in)) \o BySymbol(Buys(in)) \in Seq(Orders) /\ <<>> \in Seq(Orders)
  BY <1>1
<1> QED BY <1>2 DEF Rebalance

-----------------------------------------------------------------------------
(* The books: what orders change.                                           *)
Accounts ==
  /\ cash \in Int /\ positions \in [Asset -> Nat]
  /\ \E S : trades \in Seq(S)
  /\ \A i \in DOMAIN trades : trades[i].qty > 0 /\ trades[i].price > 0
  /\ PurchasesNeverOverdraw

(* The inductive invariant behind TypeOK and PurchasesNeverOverdraw.        *)
BInv ==
  /\ target \in Targets
  /\ phase \in {"night", "open", "close", "value", "fallback", "done"}
  /\ day \in 0..LastDay /\ decision.day \in 0..day
  /\ bars \in [Asset -> Bars \union {NoBar}] /\ lastClose \in [Asset -> Nat]
  /\ equity \in Int /\ orders \in Seq(Orders)
  /\ Accounts

(* A trade keeps the books in order if it sells no more than is held and    *)
(* buys no more than cash pays for.                                         *)
LEMMA BookKeeps ==
  ASSUME Accounts, NEW o \in Orders, NEW qty \in Nat \ {0}, NEW price \in Nat \ {0},
         NEW delta \in Int, Book(o, qty, price, delta),
         o.action = "sell" => qty <= positions[o.asset],
         o.action = "buy" => cash + delta >= 0
  PROVE  Accounts'
<1> DEFINE t == Trade(o, qty, price, delta)
<1>1. cash' = cash + delta /\ trades' = Append(trades, t) /\ cash \in Int
  BY DEF Book, Accounts
<1>2. o.asset \in Asset /\ o.action \in {"buy", "sell"}
  BY DEF Orders
<1>3. positions' \in [Asset -> Nat]
  <2>1. positions[o.asset] \in Nat /\ positions \in [Asset -> Nat]
    BY <1>2 DEF Accounts
  <2> DEFINE n == IF o.action = "buy" THEN positions[o.asset] + qty ELSE positions[o.asset] - qty
  <2>2. n \in Nat
    BY <1>2, <2>1
  <2>3. positions' = [positions EXCEPT ![o.asset] = n]
    BY DEF Book
  <2> HIDE DEF n
  <2> QED BY <2>1, <2>2, <2>3
<1>4. t.qty = qty /\ t.price = price /\ t.action = o.action /\ t.delta = delta
  BY DEF Trade
<1> HIDE DEF t
<1>5. PICK S : trades \in Seq(S)
  BY DEF Accounts
<1>6. trades \in Seq(S \union {t}) /\ t \in S \union {t}
  BY <1>5
<1>7. /\ trades' \in Seq(S \union {t}) /\ Len(trades') = Len(trades) + 1
      /\ DOMAIN trades \subseteq DOMAIN trades' /\ Len(trades) + 1 \in DOMAIN trades'
      /\ trades'[Len(trades) + 1] = t
      /\ \A i \in DOMAIN trades : trades'[i] = trades[i]
      /\ \A i \in DOMAIN trades' : i \in DOMAIN trades \/ i = Len(trades) + 1
  BY <1>1, <1>6
<1>8. \A i \in DOMAIN trades' : trades'[i].qty > 0 /\ trades'[i].price > 0
  <2> SUFFICES ASSUME NEW i \in DOMAIN trades'
               PROVE  trades'[i].qty > 0 /\ trades'[i].price > 0
    OBVIOUS
  <2>1. CASE i \in DOMAIN trades
    BY <1>7, <2>1 DEF Accounts
  <2>2. CASE i = Len(trades) + 1
    <3>1. trades'[i] = t /\ qty > 0 /\ price > 0
      BY <1>7, <2>2
    <3> QED BY <1>4, <3>1
  <2> QED BY <1>7, <2>1, <2>2
<1>9. PurchasesNeverOverdraw'
  <2>1. CASE \E i \in DOMAIN trades : trades[i].action = "sell" /\ trades[i].delta < 0
    <3>1. PICK i \in DOMAIN trades : trades[i].action = "sell" /\ trades[i].delta < 0
      BY <2>1
    <3>2. i \in DOMAIN trades' /\ trades'[i] = trades[i]
      BY <1>7
    <3> QED BY <3>1, <3>2 DEF PurchasesNeverOverdraw
  <2>2. CASE cash >= 0
    <3>1. CASE cash + delta >= 0
      BY <1>1, <3>1 DEF PurchasesNeverOverdraw
    <3>2. CASE ~(cash + delta >= 0)
      <4>1. o.action = "sell" /\ delta < 0
        BY <1>1, <1>2, <2>2, <3>2
      <4> QED BY <1>4, <1>7, <4>1 DEF PurchasesNeverOverdraw
    <3> QED BY <3>1, <3>2
  <2> QED BY <2>1, <2>2 DEF Accounts, PurchasesNeverOverdraw
<1>10. \E T : trades' \in Seq(T)
  BY <1>7
<1> QED BY <1>1, <1>3, <1>8, <1>9, <1>10 DEF Accounts

(* A sale never sells more than is held.                                    *)
LEMMA SaleKeeps ==
  ASSUME StrategyAssumption, Accounts, NEW o \in Orders, o.action = "sell",
         NEW price \in Nat \ {0}, ExecuteSell(o, price)
  PROVE  Accounts'
<1> DEFINE h == positions[o.asset]
           n == o.qty
           qty == Min({n, h})
           gross == qty * price
           delta == gross - EstimateFee(gross) - EstimateTax(o.asset, gross)
<1>1. o.asset \in Asset /\ n \in Nat \ {0} /\ h \in Nat
  BY DEF Orders, Accounts
<1>2. qty \in Nat /\ qty <= h
  <2> HIDE DEF n, h
  <2> QED BY <1>1, MinTwo
<1>3. CASE qty <= 0
  <2>1. NoTrade
    BY <1>3 DEF ExecuteSell
  <2> QED BY <2>1 DEF NoTrade, Accounts, PurchasesNeverOverdraw
<1>4. CASE ~(qty <= 0)
  <2>1. Book(o, qty, price, delta)
    BY <1>4 DEF ExecuteSell
  <2>2. qty \in Nat \ {0}
    <3> HIDE DEF qty
    <3> QED BY <1>2, <1>4
  <2>3. delta \in Int
    <3> HIDE DEF qty
    <3>1. gross \in Nat
      BY <2>2
    <3> HIDE DEF gross
    <3>2. EstimateFee(gross) \in Nat /\ EstimateTax(o.asset, gross) \in Nat
      BY <1>1, <3>1, FeesTyped
    <3> QED BY <3>1, <3>2
  <2> HIDE DEF qty, delta
  <2>4. o.action = "sell" => qty <= positions[o.asset]
    BY <1>2
  <2>5. o.action = "buy" => cash + delta >= 0
    OBVIOUS
  <2> QED BY <2>1, <2>2, <2>3, <2>4, <2>5, BookKeeps
<1> QED BY <1>3, <1>4

(* A purchase is lowered until cash covers it.                              *)
LEMMA PurchaseKeeps ==
  ASSUME StrategyAssumption, Accounts, NEW o \in Orders, o.action = "buy",
         NEW price \in Nat \ {0}, ExecuteBuy(o, price)
  PROVE  Accounts'
<1> DEFINE fits == Affordable(o, price)
           qty == Max(fits)
           cost == Cost(qty, price)
<1>1. o.asset \in Asset /\ o.qty \in Nat
  BY DEF Orders
<1>2. CASE fits = {}
  <2>1. NoTrade
    BY <1>2 DEF ExecuteBuy
  <2> QED BY <2>1 DEF NoTrade, Accounts, PurchasesNeverOverdraw
<1>3. CASE fits # {}
  <2>1. Book(o, qty, price, -cost)
    BY <1>3 DEF ExecuteBuy
  <2>2. fits \in SUBSET (0..o.qty)
    BY <1>1 DEF Affordable
  <2> HIDE DEF fits
  <2>3. qty \in fits
    <3> DEFINE n == o.qty
    <3>1. n \in Nat /\ fits \in SUBSET (0..n)
      BY <1>1, <2>2
    <3> HIDE DEF n
    <3> QED BY <1>3, <3>1, MaxOfSet
  <2> HIDE DEF qty
  <2>4. qty \in 1..o.qty /\ cost <= cash
    BY <2>3 DEF fits, Affordable
  <2>5. qty \in Nat \ {0}
    BY <1>1, <2>4
  <2>6. cost \in Nat
    <3>1. qty * price \in Nat
      BY <2>5
    <3>2. EstimateFee(qty * price) \in Nat
      BY <1>1, <3>1, FeesTyped
    <3> QED BY <3>1, <3>2 DEF Cost
  <2> HIDE DEF cost
  <2>7. -cost \in Int /\ cash + (-cost) >= 0
    BY <2>4, <2>6 DEF Accounts
  <2> DEFINE delta == -cost
  <2>8. delta \in Int /\ Book(o, qty, price, delta) /\ (o.action = "buy" => cash + delta >= 0)
    BY <2>1, <2>7
  <2> HIDE DEF delta
  <2>9. o.action = "sell" => qty <= positions[o.asset]
    OBVIOUS
  <2> QED BY <2>5, <2>8, <2>9, BookKeeps
<1> QED BY <1>2, <1>3

(* The price of a fill is a number.                                         *)
LEMMA FillPrice ==
  ASSUME StrategyAssumption, BacktestAssumption, BInv, Fill
  PROVE  /\ FillBasePrice(Head(orders).asset, phase = "open") \in Nat
         /\ ApplySlippage(FillBasePrice(Head(orders).asset, phase = "open"),
                          Head(orders).action) \in Nat
<1> DEFINE o == Head(orders)
           base == FillBasePrice(o.asset, phase = "open")
           price == ApplySlippage(base, o.action)
<1>1. orders \in Seq(Orders) /\ orders # <<>>
  BY DEF BInv, Fill
<1>2. o \in Orders
  BY <1>1
<1>3. base \in Nat
  <2>1. o.asset \in Asset
    BY <1>2 DEF Orders
  <2>2. bars[o.asset] = NoBar \/ bars[o.asset] \in Bars
    BY <2>1 DEF BInv
  <2>3. bars[o.asset] = NoBar \/ (bars[o.asset].open \in Nat /\ bars[o.asset].close \in Nat)
    BY <2>2 DEF BacktestAssumption
  <2> HIDE DEF o
  <2> QED BY <2>3 DEF FillBasePrice
<1> HIDE DEF base
<1>4. price \in Nat
  <2> DEFINE k == IF o.action = "buy" THEN Scale + Slippage ELSE Scale - Slippage
  <2>1. k \in Nat /\ Scale \in Nat \ {0}
    BY DEF BacktestAssumption, StrategyAssumption
  <2>2. price = (base * k) \div Scale
    BY DEF ApplySlippage
  <2> HIDE DEF k, price
  <2>3. base * k \in Nat
    BY <1>3, <2>1
  <2> QED BY <2>1, <2>2, <2>3, Quotient
<1> QED BY <1>3, <1>4 DEF base, price

(* What an order does, or that it lapses.                                   *)
LEMMA FillKeeps ==
  ASSUME StrategyAssumption, BacktestAssumption, BInv, Fill
  PROVE  BInv'
<1> DEFINE o == Head(orders)
           base == FillBasePrice(o.asset, phase = "open")
           price == ApplySlippage(base, o.action)
<1>1. orders \in Seq(Orders) /\ orders # <<>> /\ Accounts
  BY DEF BInv, Fill
<1>2. o \in Orders /\ Tail(orders) \in Seq(Orders)
  BY <1>1
<1>3. IF base <= 0 \/ price <= 0 THEN NoTrade
      ELSE IF o.action = "sell" THEN ExecuteSell(o, price) ELSE ExecuteBuy(o, price)
  BY DEF Fill
<1>4. /\ orders' = Tail(orders)
      /\ UNCHANGED <<timing, target, month, day, bars, phase, lastClose, decision, equity>>
  BY DEF Fill
<1>5. base \in Nat /\ price \in Nat
  BY FillPrice
<1> HIDE DEF base
<1> HIDE DEF price, o
<1>7. Accounts'
  <2>1. CASE base <= 0 \/ price <= 0
    <3>1. NoTrade
      BY <1>3, <2>1
    <3> QED BY <1>1, <3>1 DEF NoTrade, Accounts, PurchasesNeverOverdraw
  <2>2. CASE ~(base <= 0 \/ price <= 0)
    <3>1. price \in Nat \ {0}
      BY <1>5, <2>2
    <3>2. CASE o.action = "sell"
      <4>1. ExecuteSell(o, price)
        BY <1>3, <2>2, <3>2
      <4> QED BY <1>1, <1>2, <3>1, <3>2, <4>1, SaleKeeps
    <3>3. CASE o.action # "sell"
      <4>1. ExecuteBuy(o, price) /\ o.action = "buy"
        BY <1>2, <1>3, <2>2, <3>3 DEF Orders
      <4> QED BY <1>1, <1>2, <3>1, <4>1, PurchaseKeeps
    <3> QED BY <3>2, <3>3
  <2> QED BY <2>1, <2>2
<1>8. orders' \in Seq(Orders)
  BY <1>2, <1>4
<1> QED BY <1>4, <1>7, <1>8 DEF BInv

(* The inductive invariant holds before the first day.                      *)
LEMMA InitBInv == BacktestAssumption /\ Init => BInv
<1> SUFFICES ASSUME BacktestAssumption, Init PROVE BInv
  OBVIOUS
<1>1. cash \in Int /\ cash >= 0 /\ equity \in Int /\ 0 \in 0..LastDay /\ 0 \in 0..0
  BY DEF Init, BacktestAssumption
<1>2. orders \in Seq(Orders) /\ trades \in Seq({}) /\ DOMAIN trades = {}
  BY DEF Init
<1>3. /\ positions \in [Asset -> Nat] /\ lastClose \in [Asset -> Nat]
      /\ bars \in [Asset -> Bars \union {NoBar}]
  BY DEF Init
<1>4. target \in Targets /\ phase = "night" /\ day = 0 /\ decision.day = 0
  BY DEF Init
<1>5. Accounts
  BY <1>1, <1>2, <1>3 DEF Accounts, PurchasesNeverOverdraw
<1> QED BY <1>1, <1>2, <1>3, <1>4, <1>5 DEF BInv

(* It is kept by every step.                                                *)
LEMMA NextBInv == StrategyAssumption /\ BacktestAssumption /\ BInv /\ [Next]_vars => BInv'
<1> SUFFICES ASSUME StrategyAssumption, BacktestAssumption, BInv, [Next]_vars PROVE BInv'
  OBVIOUS
<1>1. ASSUME UNCHANGED <<cash, positions, trades>> PROVE Accounts'
  BY <1>1 DEF BInv, Accounts, PurchasesNeverOverdraw
<1>2. EquityOf \in Int
  <2>1. cash \in Int /\ positions \in [Asset -> Nat] /\ lastClose \in [Asset -> Nat]
    BY DEF BInv, Accounts
  <2> QED BY <2>1, WorthTyped DEF EquityOf
<1>3. ASSUME NEW b \in [Asset -> Bars \union {NoBar}], NextDay(b) PROVE BInv'
  <2>1. Accounts' /\ UNCHANGED <<target, orders, decision, equity>>
    BY <1>1, <1>3 DEF NextDay
  <2>2. day' \in 0..LastDay /\ decision'.day \in 0..day' /\ phase' = "open"
    <3>1. day < LastDay /\ day' = day + 1 /\ phase' = "open" /\ UNCHANGED decision
      BY <1>3 DEF NextDay
    <3>2. day \in 0..LastDay /\ LastDay \in Nat /\ decision.day \in 0..day
      BY DEF BInv, BacktestAssumption
    <3> QED BY <3>1, <3>2
  <2>3. bars' = b /\ lastClose' = [a \in Asset |-> IF b[a] = NoBar THEN lastClose[a] ELSE b[a].close]
    BY <1>3 DEF NextDay
  <2>4. \A a \in Asset : (IF b[a] = NoBar THEN lastClose[a] ELSE b[a].close) \in Nat
    <3> SUFFICES ASSUME NEW a \in Asset, b[a] # NoBar PROVE b[a].close \in Nat
      BY DEF BInv
    <3>1. b[a] \in Bars
      OBVIOUS
    <3> QED BY <3>1 DEF BacktestAssumption
  <2>5. lastClose' \in [Asset -> Nat]
    BY <2>3, <2>4
  <2> QED BY <2>1, <2>2, <2>3, <2>5 DEF BInv
<1>4. CASE Decide
  <2>1. Accounts' /\ UNCHANGED <<target, day, bars, lastClose, equity>>
    BY <1>1, <1>4 DEF Decide
  <2>2. phase' \in {"close", "value"}
    BY <1>4 DEF Decide
  <2>3. InputOK(StrategyInput)
    <3>1. /\ StrategyInput.cash = cash /\ StrategyInput.shares = positions
          /\ StrategyInput.price = lastClose /\ StrategyInput.target = target
      BY DEF StrategyInput
    <3>2. DOMAIN target \subseteq Asset /\ \A a \in DOMAIN target : target[a] \in Int
      BY DEF BInv, BacktestAssumption
    <3> QED BY <3>1, <3>2 DEF InputOK, BInv, Accounts
  <2>4. Rebalance(StrategyInput) \in Seq(Orders)
    BY <2>3, AdviceTyped
  <2>5. orders' \in Seq(Orders)
    <3>1. orders' = Rebalance(StrategyInput) \/ orders' = orders
      BY <1>4 DEF Decide
    <3> QED BY <2>4, <3>1 DEF BInv
  <2>6. decision'.day \in 0..day'
    <3>1. decision'.day = day \/ decision' = decision
      BY <1>4 DEF Decide
    <3> QED BY <2>1, <3>1 DEF BInv
  <2> QED BY <2>1, <2>2, <2>5, <2>6 DEF BInv
<1>5. CASE Value
  <2>1. Accounts' /\ UNCHANGED <<target, day, bars, lastClose, orders, decision>>
    BY <1>1, <1>5 DEF Value
  <2>2. phase' \in {"night", "fallback", "done"} /\ equity' \in Int
    BY <1>2, <1>5 DEF Value
  <2> QED BY <2>1, <2>2 DEF BInv
<1>6. CASE UNCHANGED vars
  <2>1. Accounts' /\ UNCHANGED <<target, day, bars, lastClose, orders, decision, phase, equity>>
    BY <1>1, <1>6 DEF vars
  <2> QED BY <2>1 DEF BInv
<1> QED BY <1>3, <1>4, <1>5, <1>6, FillKeeps DEF Next

(* It holds throughout.                                                     *)
LEMMA BooksInvariant == Spec => []BInv
BY InitBInv, NextBInv, StrategyAssumption, BacktestAssumption, PTL DEF Spec

(* Types of the loop, for any bars, months, targets, rates and number of    *)
(* days: no position is ever sold below zero, no order and no trade is      *)
(* empty, and every trade has a price.                                      *)
THEOREM Typing == Spec => []TypeOK
<1>1. BInv => TypeOK
  <2> SUFFICES ASSUME BInv PROVE TypeOK
    OBVIOUS
  <2>1. \A i \in DOMAIN orders : orders[i].qty > 0
    <3>1. \A i \in DOMAIN orders : orders[i] \in Orders
      BY DEF BInv
    <3>2. \A o \in Orders : o.qty > 0
      BY DEF Orders
    <3> QED BY <3>1, <3>2
  <2> QED BY <2>1 DEF BInv, Accounts, TypeOK
<1> QED BY BooksInvariant, <1>1, PTL

(* Cash is overdrawn, if at all, by a sale that brought in less than its    *)
(* fee and tax: a purchase is lowered until cash pays for it and its fee    *)
(* (executeBuy), whatever the prices did since the decision.                *)
THEOREM PurchasesArePaid == Spec => []PurchasesNeverOverdraw
<1>1. BInv => PurchasesNeverOverdraw
  BY DEF BInv, Accounts
<1> QED BY BooksInvariant, <1>1, PTL

-----------------------------------------------------------------------------
(* The budget: what the purchases of the strategy can cost.                 *)

(* Multiplying keeps the order, and so does the way back.                   *)
LEMMA TimesKeepsOrder ==
  ASSUME NEW x \in Nat, NEW y \in Nat, NEW z \in Nat
  PROVE  /\ x * z \in Nat
         /\ x <= y => x * z <= y * z
         /\ z # 0 /\ x * z <= y * z => x <= y
<1>1. x * z \in Nat
  OBVIOUS
<1>2. ASSUME x <= y PROVE x * z <= y * z
  <2>1. y - x \in Nat /\ (y - x) * z \in Nat
    BY <1>2
  <2>2. y * z = x * z + (y - x) * z
    OBVIOUS
  <2> QED BY <1>1, <2>1, <2>2
<1>3. ASSUME z # 0, x > y PROVE x * z > y * z
  <2>1. x - y - 1 \in Nat /\ (x - y - 1) * z \in Nat /\ z > 0
    BY <1>3
  <2>2. x * z = y * z + z + (x - y - 1) * z
    OBVIOUS
  <2>3. y * z \in Nat
    OBVIOUS
  <2> QED BY <2>1, <2>2, <2>3
<1> QED BY <1>1, <1>2, <1>3

(* The whole of a quotient, times what it was divided by.                   *)
LEMMA QuotientBelow ==
  ASSUME NEW x \in Nat, NEW y \in Nat \ {0}
  PROVE  (x \div y) * y <= x
<1>1. x = y * (x \div y) + (x % y) /\ x % y \in 0..(y - 1) /\ x \div y \in Nat
  OBVIOUS
<1>2. y * (x \div y) = (x \div y) * y
  BY <1>1
<1> QED BY <1>1, <1>2

(* Cut down to whole lots, a quantity is worth no more than it was.         *)
LEMMA FloorBelow ==
  ASSUME StrategyAssumption, NEW num \in Nat, NEW den \in Nat \ {0}
  PROVE  FloorQuantity(num, den) * den <= num
<1> DEFINE x == num \div den
           y == (x \div LotSize) * LotSize
<1>1. LotSize \in Nat \ {0}
  BY DEF StrategyAssumption
<1>2. x \in Nat /\ x * den <= num
  BY Quotient, QuotientBelow
<1> HIDE DEF x
<1>3. y \in Nat /\ y <= x
  BY <1>1, <1>2, Quotient, QuotientBelow
<1> HIDE DEF y
<1>4. y * den <= x * den /\ y * den \in Nat /\ x * den \in Nat
  BY <1>2, <1>3, TimesKeepsOrder
<1> QED BY <1>2, <1>4 DEF FloorQuantity, x, y

(* One product in three orders.                                             *)
LEMMA Regroup ==
  ASSUME NEW q \in Nat, NEW t \in Nat, NEW p \in Nat
  PROVE  q * (t * p) = t * (q * p) /\ q * t = t * q
OBVIOUS

(* What the purchases of a decision cost at its prices is covered by the    *)
(* cash above the buffer and the sales, also when they are scaled.          *)
LEMMA BuysWithinBudget ==
  ASSUME StrategyAssumption, NEW in, InputOK(in)
  PROVE  SumFunctionOnSet([o \in Orders |-> Amount(in, o)], Buys(in)) <= Budget(in)
<1> DEFINE amount == [o \in Orders |-> Amount(in, o)]
           drafts == DraftBuys(in)
           total == SumFunction([o \in drafts |-> Amount(in, o)])
           budget == Budget(in)
           Scaled(o) == FloorQuantity(Amount(in, o) * budget, total * in.price[o.asset])
           m == [o \in drafts |-> [o EXCEPT !.qty = Scaled(o)]]
           scaled == {m[o] : o \in drafts}
<1>1. /\ IsFiniteSet(drafts) /\ drafts \subseteq Orders
      /\ \A o, p \in drafts : o.asset = p.asset => o = p
      /\ \A o \in drafts : in.price[o.asset] \in Nat \ {0}
  BY DraftBuysAreDrafts DEF Drafts
<1>2. budget \in Nat
  BY BudgetTyped
<1>3. \A o \in Orders : amount[o] = Amount(in, o) /\ amount[o] \in Nat
  BY AmountTyped
<1>4. total = SumFunctionOnSet(amount, drafts) /\ total \in Nat
  <2> DEFINE f == [o \in drafts |-> Amount(in, o)]
  <2>1. DOMAIN f = drafts /\ \A o \in drafts : f[o] = amount[o] /\ amount[o] \in Nat
    BY <1>1, <1>3
  <2> HIDE DEF f, amount, drafts
  <2>2. SumFunctionOnSet(f, drafts) = SumFunctionOnSet(amount, drafts)
    BY <1>1, <2>1, SumSame
  <2>3. SumFunctionOnSet(amount, drafts) \in Nat
    BY <1>1, <2>1, SumNat
  <2> QED BY <2>1, <2>2, <2>3 DEF SumFunction, f
<1>5. Buys(in) = IF total <= budget THEN drafts
                 ELSE {o \in scaled : o.qty > 0 /\ Amount(in, o) >= MinTrade}
  BY DEF Buys
<1>6. CASE total <= budget
  BY <1>4, <1>5, <1>6
<1>7. CASE ~(total <= budget)
  <2>1. Buys(in) \subseteq scaled
    BY <1>5, <1>7
  <2> HIDE DEF amount, drafts, total, budget
  <2>2. total \in Nat \ {0}
    BY <1>2, <1>4, <1>7
  <2>3. ASSUME NEW o \in drafts
        PROVE  /\ Scaled(o) \in Nat /\ Scaled(o) * in.price[o.asset] \in Nat
               /\ total * (Scaled(o) * in.price[o.asset]) <= amount[o] * budget
    <3> DEFINE p == in.price[o.asset]
               q == Scaled(o)
               num == Amount(in, o) * budget
               den == total * p
    <3>1. p \in Nat \ {0} /\ Amount(in, o) \in Nat /\ amount[o] = Amount(in, o)
      BY <1>1, <1>3
    <3>2. num \in Nat /\ den \in Nat \ {0}
      BY <1>2, <2>2, <3>1
    <3>3. q \in Nat /\ q * den <= num
      BY <3>2, FloorTyped, FloorBelow
    <3> HIDE DEF p, q
    <3>4. total * (q * p) = q * den /\ q * p \in Nat
      BY <2>2, <3>1, <3>3, Regroup, TimesKeepsOrder
    <3> QED BY <3>1, <3>3, <3>4 DEF p, q
  <2> HIDE DEF Scaled
  <2> DEFINE h == [o \in drafts |-> Scaled(o) * in.price[o.asset]]
             th == [o \in drafts |-> total * h[o]]
             ba == [o \in drafts |-> budget * amount[o]]
  <2>4. \A o \in drafts : m[o].asset = o.asset /\ m[o].qty = Scaled(o) /\ m[o].action = o.action
    BY <1>1 DEF Orders
  <2>5. \A o, p \in drafts : m[o] = m[p] => o = p
    <3> HIDE DEF m
    <3> QED BY <1>1, <2>4
  <2> DEFINE worth == [x \in scaled |-> Amount(in, x)]
  <2>6. \A o \in drafts : h[o] \in Nat /\ worth[m[o]] = h[o]
    <3>1. \A o \in drafts : m[o] \in scaled
      OBVIOUS
    <3> HIDE DEF m, scaled
    <3>2. \A o \in drafts : worth[m[o]] = Amount(in, m[o])
      BY <3>1
    <3> QED BY <2>3, <2>4, <3>2 DEF Amount
  <2>7. \A x \in scaled : worth[x] \in Nat
    <3> HIDE DEF worth, h, m
    <3> QED BY <2>6
  <2>8. /\ \A o \in drafts : h[o] \in Int /\ th[o] = total * h[o] /\ th[o] \in Int
        /\ \A o \in drafts : amount[o] \in Int /\ ba[o] = budget * amount[o] /\ ba[o] \in Int
    <3>1. \A o \in drafts : h[o] \in Nat /\ amount[o] \in Nat
      BY <1>1, <1>3, <2>6
    <3>2. total \in Nat /\ budget \in Nat
      BY <1>2, <2>2
    <3> HIDE DEF h
    <3>3. \A o \in drafts : total * h[o] \in Int /\ budget * amount[o] \in Int
      BY <3>1, <3>2
    <3> QED BY <3>1, <3>3
  <2>9. \A o \in drafts : th[o] <= ba[o]
    <3> SUFFICES ASSUME NEW o \in drafts PROVE total * h[o] <= budget * amount[o]
      OBVIOUS
    <3>1. total * h[o] <= amount[o] * budget
      BY <2>3
    <3>2. amount[o] \in Nat
      BY <1>1, <1>3
    <3> QED BY <1>2, <3>1, <3>2, Regroup
  <2>10. \A o \in Buys(in) : o \in scaled /\ o \in Orders /\ amount[o] = worth[o]
    <3>1. Buys(in) \subseteq Orders
      BY BuysAreDrafts DEF Drafts
    <3> QED BY <1>3, <2>1, <3>1
  <2> HIDE DEF h, th, ba, worth, m
  <2>11. IsFiniteSet(scaled) /\ SumFunctionOnSet(worth, scaled) = SumFunctionOnSet(h, drafts)
    <3>1. IsFiniteSet(drafts)
      BY <1>1
    <3>2. \A o \in drafts : h[o] \in Int /\ worth[m[o]] = h[o]
      BY <2>6
    <3>3. (\A o \in drafts : m[o] \in scaled) /\ \A x \in scaled : \E o \in drafts : x = m[o]
      OBVIOUS
    <3> HIDE DEF scaled
    <3>4. SumFunctionOnSet(worth, scaled) = SumFunctionOnSet(h, drafts)
      BY <3>1, <3>2, <3>3, <2>5, SumOnto
    <3> QED BY <3>1, <3>3, <3>4, OntoFinite
  <2> DEFINE cost == SumFunctionOnSet(h, drafts)
  <2>12. SumFunctionOnSet(amount, Buys(in)) <= cost
    <3>1. IsFiniteSet(Buys(in)) /\ Buys(in) \in SUBSET scaled
      BY <2>1, <2>11, FS_Subset
    <3> HIDE DEF scaled
    <3>2. SumFunctionOnSet(amount, Buys(in)) = SumFunctionOnSet(worth, Buys(in))
      BY <2>10, <3>1, SumSame
    <3>3. SumFunctionOnSet(worth, Buys(in)) <= SumFunctionOnSet(worth, scaled)
      BY <2>7, <2>11, <3>1, SumPart
    <3> QED BY <2>11, <3>2, <3>3
  <2>13. cost \in Nat /\ SumFunctionOnSet(th, drafts) = total * cost
    BY <1>1, <2>2, <2>6, <2>8, SumNat, SumTimes
  <2>14. SumFunctionOnSet(ba, drafts) = budget * total
    BY <1>1, <1>2, <1>4, <2>8, SumTimes
  <2>15. total * cost <= budget * total
    BY <1>1, <2>8, <2>9, <2>13, <2>14, SumAtMost
  <2> HIDE DEF cost
  <2>16. cost <= budget
    <3>1. cost * total <= budget * total
      BY <2>2, <2>13, <2>15, Regroup
    <3> QED BY <1>2, <2>2, <2>13, <3>1, TimesKeepsOrder
  <2>17. SumFunctionOnSet(amount, Buys(in)) \in Int
    <3>1. IsFiniteSet(Buys(in)) /\ \A o \in Buys(in) : amount[o] \in Int
      BY <1>3, BuysAreDrafts DEF Drafts
    <3> QED BY <3>1, SumInt
  <2> DEFINE spent == SumFunctionOnSet(amount, Buys(in))
  <2>18. spent \in Int /\ spent <= cost /\ cost \in Int /\ budget \in Int
    BY <1>2, <2>12, <2>13, <2>17
  <2> HIDE DEF spent
  <2>19. spent <= budget
    BY <2>16, <2>18
  <2> QED BY <2>19 DEF spent, amount, budget
<1> QED BY <1>6, <1>7

-----------------------------------------------------------------------------
(* The orders of a decision: for each asset at most one.                    *)
Planned(in) == Sells(in) \union Buys(in)

(* Sales are of what is above its target and held.                          *)
LEMMA SellsAreHeld ==
  ASSUME StrategyAssumption, NEW in, InputOK(in), NEW o \in Sells(in)
  PROVE  o \in Orders /\ o.action = "sell" /\ o.qty <= in.shares[o.asset] /\ Gap(in, o.asset) < 0
<1>1. PICK a \in {a \in OffTarget(in) : Gap(in, a) < 0} :
        o = Order(a, "sell", Min({Wanted(in, a), in.shares[a]}))
  BY DEF Sells
<1> DEFINE w == Wanted(in, a)
           h == in.shares[a]
<1>2. w \in Int /\ h \in Int
  <2>1. a \in Asset /\ Wanted(in, a) \in Nat
    BY <1>1, WantedTyped
  <2>2. in.shares[a] \in Nat
    BY <2>1 DEF InputOK
  <2> QED BY <2>1, <2>2
<1>3. o.asset = a /\ o.action = "sell" /\ o.qty = Min({w, h})
  BY <1>1 DEF Order
<1> HIDE DEF w, h
<1>4. o.qty <= h
  <2>1. Min({w, h}) = IF w <= h THEN w ELSE h
    BY <1>2, MinTwo
  <2> DEFINE q == o.qty
  <2>2. q = IF w <= h THEN w ELSE h
    BY <1>3, <2>1
  <2> HIDE DEF q
  <2>3. q <= h
    BY <1>2, <2>2
  <2> QED BY <2>3 DEF q
<1> QED BY <1>1, <1>3, <1>4, SellsAreDrafts DEF h, Drafts

(* Purchases are of what is below its target.                               *)
LEMMA BuysAreBelow ==
  ASSUME StrategyAssumption, NEW in, InputOK(in), NEW o \in Buys(in)
  PROVE  o \in Orders /\ o.action = "buy" /\ Gap(in, o.asset) > 0
<1> DEFINE Scaled(p) ==
      FloorQuantity(Amount(in, p) * Budget(in),
                    SumFunction([q \in DraftBuys(in) |-> Amount(in, q)]) * in.price[p.asset])
<1>1. PICK p \in DraftBuys(in) : o = p \/ o = [p EXCEPT !.qty = Scaled(p)]
  BY DEF Buys
<1>2. PICK a \in {a \in OffTarget(in) : Gap(in, a) > 0} : p = Order(a, "buy", Wanted(in, a))
  BY DEF DraftBuys
<1>3. p.asset = a /\ p.action = "buy"
  BY <1>2 DEF Order
<1> HIDE DEF Scaled
<1>4. o.asset = p.asset /\ o.action = p.action
  <2>1. p = [asset |-> p.asset, action |-> p.action, qty |-> p.qty]
    BY <1>2 DEF Order
  <2> QED BY <1>1, <2>1
<1>5. o \in Orders
  BY BuysAreDrafts DEF Drafts
<1> QED BY <1>2, <1>3, <1>4, <1>5

(* No asset is both sold and bought.                                        *)
LEMMA PlannedApart ==
  ASSUME StrategyAssumption, NEW in, InputOK(in)
  PROVE  /\ Planned(in) \subseteq Orders
         /\ \A o, p \in Planned(in) : o.asset = p.asset => o = p
         /\ \A o \in Planned(in) : o.action = "sell" => o \in Sells(in)
         /\ \A o \in Planned(in) : o.action = "buy" => o \in Buys(in)
<1>1. ASSUME NEW o \in Sells(in), NEW p \in Buys(in) PROVE o.asset # p.asset
  <2> DEFINE g == Gap(in, o.asset)
  <2>1. g < 0 /\ g \in Int
    <3>1. PICK a \in OffTarget(in) : o = Order(a, "sell", Min({Wanted(in, a), in.shares[a]}))
      BY DEF Sells
    <3>2. o.asset \in DOMAIN in.target
      BY <3>1 DEF OffTarget, Order
    <3> QED BY <3>2, SellsAreHeld, GapTyped
  <2>2. Gap(in, p.asset) > 0
    BY BuysAreBelow
  <2> QED BY <2>1, <2>2
<1>2. ASSUME NEW o \in Planned(in), NEW p \in Planned(in), o.asset = p.asset PROVE o = p
  BY <1>1, <1>2, SellsAreDrafts, BuysAreDrafts DEF Planned, Drafts
<1> QED BY <1>2, SellsAreHeld, BuysAreBelow DEF Planned

(* The advice goes through them one by one.                                 *)
LEMMA AdviceIsPlanned ==
  ASSUME StrategyAssumption, NEW in, InputOK(in)
  PROVE  /\ \A k \in DOMAIN Rebalance(in) : Rebalance(in)[k] \in Planned(in)
         /\ \A j, k \in DOMAIN Rebalance(in) :
              Rebalance(in)[j].asset = Rebalance(in)[k].asset => j = k
<1> DEFINE s == BySymbol(Sells(in))
           b == BySymbol(Buys(in))
<1>1. /\ s \in Seq(Orders) /\ \A k \in DOMAIN s : s[k] \in Sells(in)
      /\ \A j, k \in DOMAIN s : s[j] = s[k] => j = k
  BY SellsAreDrafts, SortedTyped
<1>2. /\ b \in Seq(Orders) /\ \A k \in DOMAIN b : b[k] \in Buys(in)
      /\ \A j, k \in DOMAIN b : b[j] = b[k] => j = k
  BY BuysAreDrafts, SortedTyped
<1>3. Rebalance(in) = <<>> \/ Rebalance(in) = s \o b
  BY DEF Rebalance
<1> HIDE DEF s, b
<1> DEFINE r == s \o b
<1>4. /\ r \in Seq(Orders) /\ Len(r) = Len(s) + Len(b)
      /\ \A k \in DOMAIN r : \/ k \in DOMAIN s /\ r[k] = s[k]
                             \/ k - Len(s) \in DOMAIN b /\ r[k] = b[k - Len(s)]
  BY <1>1, <1>2
<1>5. \A k \in DOMAIN r : r[k] \in Planned(in)
  BY <1>1, <1>2, <1>4 DEF Planned
<1>6. ASSUME NEW j \in DOMAIN r, NEW k \in DOMAIN r, r[j].asset = r[k].asset PROVE j = k
  <2>1. r[j] = r[k]
    BY <1>5, <1>6, PlannedApart
  <2>2. j \in Nat /\ k \in Nat /\ Len(s) \in Nat
    BY <1>1, <1>4
  <2>3. \A o \in Sells(in) : o \notin Buys(in)
    BY SellsAreHeld, BuysAreBelow
  <2> HIDE DEF r
  <2>4. CASE j \in DOMAIN s /\ r[j] = s[j] /\ k \in DOMAIN s /\ r[k] = s[k]
    BY <1>1, <2>1, <2>4
  <2>5. CASE /\ j - Len(s) \in DOMAIN b /\ r[j] = b[j - Len(s)]
             /\ k - Len(s) \in DOMAIN b /\ r[k] = b[k - Len(s)]
    <3>1. j - Len(s) = k - Len(s)
      BY <1>2, <2>1, <2>5
    <3> QED BY <2>2, <3>1
  <2> QED BY <1>1, <1>2, <1>4, <2>1, <2>3, <2>4, <2>5
<1> HIDE DEF r
<1>7. \A j, k \in DOMAIN r : r[j].asset = r[k].asset => j = k
  BY <1>6
<1>8. CASE Rebalance(in) = <<>>
  BY <1>8
<1> QED BY <1>3, <1>5, <1>7, <1>8 DEF r

-----------------------------------------------------------------------------
(* What the orders of the last decision have done to the books so far.      *)

(* Trade t is what came of order o: a sale in full, a purchase in part.     *)
Meets(t, o) ==
  /\ t.asset = o.asset /\ t.action = o.action
  /\ t.qty \in Nat /\ t.qty <= o.qty /\ t.delta \in Int
  /\ t.action = "sell" => t.qty = o.qty

(* No asset is twice among the trades and the orders still to fill; cash    *)
(* and positions are those of the decision but for these trades.            *)
Unfolds ==
  /\ cash = decision.in.cash + SumFunctionOnSet([i \in DOMAIN trades |-> trades[i].delta], Latest)
  /\ \A k \in DOMAIN orders : orders[k] \in Planned(decision.in)
  /\ \A j, k \in DOMAIN orders : orders[j].asset = orders[k].asset => j = k
  /\ \A i \in Latest : \E o \in Planned(decision.in) : Meets(trades[i], o)
  /\ \A i, j \in Latest : trades[i].asset = trades[j].asset => i = j
  /\ \A i \in Latest, k \in DOMAIN orders : trades[i].asset # orders[k].asset
  /\ \A a \in Asset : \/ \E i \in Latest : trades[i].asset = a
                      \/ positions[a] = decision.in.shares[a]

(* The inductive invariant behind BufferKept, on top of BInv.               *)
KInv ==
  /\ InputOK(decision.in)
  /\ \A i \in DOMAIN trades : trades[i].decided \in 0..decision.day
  /\ phase = "open" => decision.day < day
  /\ Total(decision.in) > 0 => Unfolds

(* The sum over the latest trades is one of integers.                       *)
LEMMA LatestFinite ==
  ASSUME BInv
  PROVE  /\ IsFiniteSet(DOMAIN trades) /\ DOMAIN trades = 1..Len(trades) /\ Len(trades) \in Nat
         /\ IsFiniteSet(Latest) /\ Latest \subseteq DOMAIN trades
<1>1. PICK S : trades \in Seq(S)
  BY DEF BInv, Accounts
<1>2. DOMAIN trades = 1..Len(trades) /\ Len(trades) \in Nat
  BY <1>1
<1>3. IsFiniteSet(1..Len(trades))
  BY <1>2, FS_Interval
<1>4. Latest \in SUBSET DOMAIN trades
  BY DEF Latest
<1> QED BY <1>2, <1>3, <1>4, FS_Subset

(* A trade at the head of the orders is the next to unfold.                 *)
LEMMA BookUnfolds ==
  ASSUME StrategyAssumption, BInv, KInv, Total(decision.in) > 0, orders # <<>>,
         NEW qty \in Nat, NEW price, NEW delta \in Int,
         Book(Head(orders), qty, price, delta),
         qty <= Head(orders).qty, Head(orders).action = "sell" => qty = Head(orders).qty,
         orders' = Tail(orders), UNCHANGED <<decision, day, phase>>
  PROVE  KInv'
<1> DEFINE o == Head(orders)
           t == Trade(o, qty, price, delta)
           n == Len(trades) + 1
           in == decision.in
           now == Latest
           d == [i \in DOMAIN trades |-> trades[i].delta]
           e == [i \in DOMAIN trades' |-> trades'[i].delta]
<1>1. /\ cash' = cash + delta
      /\ positions' = [positions EXCEPT ![o.asset] = IF o.action = "buy" THEN @ + qty ELSE @ - qty]
      /\ trades' = Append(trades, t)
  BY DEF Book
<1>2. /\ t.asset = o.asset /\ t.action = o.action /\ t.qty = qty /\ t.delta = delta
      /\ t.decided = decision.day
  BY DEF Trade
<1> HIDE DEF t
<1>3. PICK S : trades \in Seq(S)
  BY DEF BInv, Accounts
<1>4. trades \in Seq(S \union {t}) /\ t \in S \union {t}
  BY <1>3
<1>5. /\ n \notin DOMAIN trades /\ DOMAIN trades' = DOMAIN trades \union {n} /\ trades'[n] = t
      /\ \A i \in DOMAIN trades : trades'[i] = trades[i]
  BY <1>1, <1>4
<1>6. /\ o = orders[1] /\ 1 \in DOMAIN orders
      /\ \A k \in DOMAIN orders' : /\ k + 1 \in DOMAIN orders /\ orders'[k] = orders[k + 1]
                                   /\ k \in Nat /\ k # 0
  <2>1. orders \in Seq(Orders) /\ orders # <<>>
    BY DEF BInv
  <2> QED BY <2>1
<1>7. Unfolds /\ IsFiniteSet(now) /\ now \subseteq DOMAIN trades
  BY LatestFinite DEF KInv
<1>8. Latest' = now \union {n} /\ n \notin now
  <2>1. decision' = decision
    OBVIOUS
  <2> HIDE DEF n
  <2> QED BY <1>2, <1>5, <2>1 DEF Latest
<1>9. o \in Planned(in) /\ o \in Orders /\ o.asset \in Asset
  BY <1>6, <1>7, PlannedApart DEF Unfolds, KInv, Orders
<1>10. /\ \A i \in now : trades'[i] = trades[i] /\ trades[i].asset # o.asset
       /\ trades'[n] = t /\ Meets(t, o)
  BY <1>2, <1>5, <1>6, <1>7 DEF Unfolds, Meets
<1>11. cash' = in.cash + SumFunctionOnSet(e, Latest')
  <2>1. \A i \in now : d[i] = e[i] /\ d[i] \in Int /\ e[i] \in Int
    BY <1>5, <1>7 DEF Unfolds, Meets
  <2>2. e[n] = delta
    BY <1>2, <1>5
  <2>3. cash = in.cash + SumFunctionOnSet(d, now) /\ in.cash \in Int
    BY <1>7 DEF Unfolds, KInv, InputOK
  <2> HIDE DEF d, e, n, now
  <2>4. SumFunctionOnSet(e, now \union {n}) = SumFunctionOnSet(e, now) + e[n]
    BY <1>7, <1>8, <2>1, <2>2, SumAdd
  <2>5. SumFunctionOnSet(e, now) = SumFunctionOnSet(d, now) /\ SumFunctionOnSet(d, now) \in Int
    BY <1>7, <2>1, SumSame, SumInt
  <2>6. SumFunctionOnSet(e, Latest') = SumFunctionOnSet(d, now) + delta
    BY <1>8, <2>2, <2>4, <2>5
  <2> DEFINE s == SumFunctionOnSet(d, now)
             c == in.cash
  <2>7. cash = c + s /\ s \in Int /\ c \in Int /\ delta \in Int /\ cash' = cash + delta
    BY <1>1, <2>3, <2>5
  <2>8. SumFunctionOnSet(e, Latest') = s + delta
    BY <2>6
  <2> HIDE DEF s, c
  <2>9. cash' = c + (s + delta)
    BY <2>7
  <2> QED BY <2>8, <2>9 DEF c
<1> HIDE DEF o, n, now
<1>12. \A k \in DOMAIN orders' : orders'[k] \in Planned(in) /\ orders'[k].asset # o.asset
  <2>1. \A k \in Nat : k # 0 => k + 1 # 1
    OBVIOUS
  <2> QED BY <1>6, <1>7, <2>1 DEF Unfolds
<1>13. \A j, k \in DOMAIN orders' : orders'[j].asset = orders'[k].asset => j = k
  <2>1. \A j, k \in Nat : j + 1 = k + 1 => j = k
    OBVIOUS
  <2> QED BY <1>6, <1>7, <2>1 DEF Unfolds
<1>14. \A i \in Latest' : \E p \in Planned(in) : Meets(trades'[i], p)
  BY <1>7, <1>8, <1>9, <1>10 DEF Unfolds, now
<1>15. \A i, j \in Latest' : trades'[i].asset = trades'[j].asset => i = j
  BY <1>2, <1>7, <1>8, <1>10 DEF Unfolds, now
<1>16. \A i \in Latest', k \in DOMAIN orders' : trades'[i].asset # orders'[k].asset
  BY <1>2, <1>6, <1>7, <1>8, <1>10, <1>12 DEF Unfolds, now
<1>17. \A a \in Asset : \/ \E i \in Latest' : trades'[i].asset = a
                        \/ positions'[a] = in.shares[a]
  <2> SUFFICES ASSUME NEW a \in Asset, a # o.asset
               PROVE  (\E i \in Latest' : trades'[i].asset = a) \/ positions'[a] = in.shares[a]
    BY <1>2, <1>8, <1>10
  <2>1. positions'[a] = positions[a]
    BY <1>1 DEF BInv, Accounts
  <2>2. (\E i \in now : trades[i].asset = a) \/ positions[a] = in.shares[a]
    BY <1>7 DEF Unfolds, now
  <2> QED BY <1>8, <1>10, <2>1, <2>2
<1>18. Unfolds'
  BY <1>11, <1>12, <1>13, <1>14, <1>15, <1>16, <1>17 DEF Unfolds
<1>19. \A i \in DOMAIN trades' : trades'[i].decided \in 0..decision.day
  <2>1. decision.day \in 0..decision.day
    BY DEF BInv
  <2> QED BY <1>2, <1>5, <2>1 DEF KInv
<1> QED BY <1>18, <1>19 DEF KInv

(* An order that lapses only leaves the queue.                              *)
LEMMA LapseUnfolds ==
  ASSUME BInv, KInv, orders # <<>>, NoTrade, orders' = Tail(orders),
         UNCHANGED <<decision, day, phase>>
  PROVE  KInv'
<1>1. UNCHANGED <<trades, cash, positions>>
  BY DEF NoTrade
<1>2. \A k \in DOMAIN orders' : k + 1 \in DOMAIN orders /\ orders'[k] = orders[k + 1] /\ k \in Nat
  <2>1. orders \in Seq(Orders) /\ orders # <<>>
    BY DEF BInv
  <2> QED BY <2>1
<1>3. \A j, k \in Nat : j + 1 = k + 1 => j = k
  OBVIOUS
<1>4. Unfolds => Unfolds'
  BY <1>1, <1>2, <1>3 DEF Unfolds, Latest
<1> QED BY <1>1, <1>4 DEF KInv

(* A trade carries the day of the decision.                                 *)
LEMMA FillDecided ==
  ASSUME BInv, KInv, Fill
  PROVE  \A i \in DOMAIN trades' : trades'[i].decided \in 0..decision.day
<1>1. PICK S : trades \in Seq(S)
  BY DEF BInv, Accounts
<1>2. CASE trades' = trades
  BY <1>2 DEF KInv
<1>3. ASSUME NEW o, NEW qty, NEW price, NEW delta,
             trades' = Append(trades, Trade(o, qty, price, delta))
      PROVE  \A i \in DOMAIN trades' : trades'[i].decided \in 0..decision.day
  <2> DEFINE t == Trade(o, qty, price, delta)
  <2>1. t.decided = decision.day /\ decision.day \in 0..decision.day
    BY DEF Trade, BInv
  <2> HIDE DEF t
  <2>2. trades' = Append(trades, t) /\ trades \in Seq(S \union {t}) /\ t \in S \union {t}
    BY <1>1, <1>3 DEF t
  <2>3. \A i \in DOMAIN trades' : \/ i \in DOMAIN trades /\ trades'[i] = trades[i]
                                 \/ trades'[i] = t
    BY <2>2
  <2> QED BY <2>1, <2>3 DEF KInv
<1> QED BY <1>2, <1>3, FillOutcome

(* A sale is made in full: what is sold of an asset is held since the       *)
(* decision, and nothing else has moved it.                                 *)
LEMMA FillUnfolds ==
  ASSUME StrategyAssumption, BacktestAssumption, BInv, KInv, Fill
  PROVE  KInv'
<1> DEFINE o == Head(orders)
           base == FillBasePrice(o.asset, phase = "open")
           price == ApplySlippage(base, o.action)
<1>1. /\ orders # <<>> /\ orders' = Tail(orders)
      /\ UNCHANGED <<decision, day, phase>>
      /\ IF base <= 0 \/ price <= 0 THEN NoTrade
         ELSE IF o.action = "sell" THEN ExecuteSell(o, price) ELSE ExecuteBuy(o, price)
  BY DEF Fill
<1>2. o \in Orders /\ o = orders[1] /\ 1 \in DOMAIN orders
  <2>1. orders \in Seq(Orders)
    BY DEF BInv
  <2> QED BY <1>1, <2>1
<1>3. price \in Nat
  BY FillPrice
<1> HIDE DEF base, price
<1>4. CASE NoTrade
  BY <1>1, <1>4, LapseUnfolds
<1>5. CASE ~(Total(decision.in) > 0)
  <2>1. \A i \in DOMAIN trades' : trades'[i].decided \in 0..decision.day
    BY FillDecided
  <2> QED BY <1>1, <1>5, <2>1 DEF KInv
<1>6. CASE Total(decision.in) > 0 /\ ~NoTrade /\ o.action = "sell"
  <2> DEFINE h == positions[o.asset]
             m == o.qty
             qty == Min({m, h})
             gross == qty * price
             delta == gross - EstimateFee(gross) - EstimateTax(o.asset, gross)
  <2>1. Book(o, qty, price, delta)
    BY <1>1, <1>6 DEF ExecuteSell
  <2>2. h = decision.in.shares[o.asset] /\ m <= h /\ m \in Nat /\ h \in Nat
    <3>1. o \in Planned(decision.in) /\ \A i \in Latest : trades[i].asset # o.asset
      BY <1>2, <1>6 DEF KInv, Unfolds
    <3>2. o.qty <= decision.in.shares[o.asset]
      BY <1>6, <3>1, PlannedApart, SellsAreHeld DEF KInv
    <3>3. o.asset \in Asset /\ o.qty \in Nat
      BY <1>2 DEF Orders
    <3> QED BY <1>6, <3>1, <3>2, <3>3 DEF KInv, Unfolds, InputOK
  <2>3. qty = m
    <3> HIDE DEF h, m
    <3> QED BY <2>2, MinTwo
  <2> HIDE DEF qty
  <2>4. gross \in Nat
    BY <1>3, <2>2, <2>3
  <2> HIDE DEF gross
  <2>5. delta \in Int
    BY <1>2, <2>4, FeesTyped DEF Orders
  <2> HIDE DEF delta
  <2>6. qty \in Nat /\ qty <= o.qty /\ qty = o.qty
    BY <2>2, <2>3
  <2> QED BY <1>1, <1>6, <2>1, <2>5, <2>6, BookUnfolds
<1>7. CASE Total(decision.in) > 0 /\ ~NoTrade /\ o.action # "sell"
  <2> DEFINE fits == Affordable(o, price)
             qty == Max(fits)
             cost == Cost(qty, price)
             delta == -cost
  <2>1. fits # {} /\ Book(o, qty, price, -cost)
    BY <1>1, <1>7 DEF ExecuteBuy
  <2>2. fits \in SUBSET (0..o.qty) /\ o.qty \in Nat
    BY <1>2 DEF Affordable, Orders
  <2> HIDE DEF fits
  <2>3. qty \in fits
    <3> DEFINE n == o.qty
    <3>1. n \in Nat /\ fits \in SUBSET (0..n)
      BY <2>2
    <3> HIDE DEF n
    <3> QED BY <2>1, <3>1, MaxOfSet
  <2> HIDE DEF qty
  <2>4. qty \in Nat /\ qty <= o.qty
    BY <2>2, <2>3
  <2>5. delta \in Int
    <3>1. qty * price \in Nat
      BY <1>3, <2>4
    <3>2. EstimateFee(qty * price) \in Nat
      BY <1>2, <3>1, FeesTyped DEF Orders
    <3> QED BY <3>1, <3>2 DEF Cost
  <2>6. Book(o, qty, price, delta)
    BY <2>1
  <2> HIDE DEF delta
  <2> QED BY <1>1, <1>7, <2>4, <2>5, <2>6, BookUnfolds
<1> QED BY <1>4, <1>5, <1>6, <1>7

(* Nothing has been decided before the first day.                           *)
LEMMA InitKInv == BacktestAssumption /\ StrategyAssumption /\ Init => KInv
<1> SUFFICES ASSUME BacktestAssumption, StrategyAssumption, Init PROVE KInv
  OBVIOUS
<1> DEFINE in == decision.in
<1>1. /\ in.cash = 0 /\ in.shares = positions /\ in.price = lastClose /\ in.target = target
      /\ positions = [a \in Asset |-> 0] /\ lastClose = [a \in Asset |-> 0]
      /\ target \in Targets /\ trades = <<>> /\ phase = "night"
  BY DEF Init
<1>2. InputOK(in)
  BY <1>1 DEF InputOK, BacktestAssumption
<1> DEFINE f == [a \in Asset |-> in.shares[a] * in.price[a]]
<1>3. DOMAIN f = Asset /\ \A a \in Asset : f[a] = 0
  BY <1>1
<1>4. IsFiniteSet(Asset)
  BY DEF StrategyAssumption
<1> HIDE DEF f
<1>5. SumFunctionOnSet(f, Asset) = 0
  BY <1>3, <1>4, SumZero
<1>6. SumFunction(f) = 0
  BY <1>3, <1>5 DEF SumFunction
<1>7. Total(in) = 0
  BY <1>1, <1>6 DEF Total, f
<1> QED BY <1>1, <1>2, <1>7 DEF KInv

(* With a new decision nothing has been done about its orders yet.          *)
LEMMA DecideUnfolds ==
  ASSUME StrategyAssumption, BacktestAssumption, BInv, KInv, Decide, FirstOfMonth
  PROVE  KInv'
<1> DEFINE in == StrategyInput
<1>1. /\ phase = "open" /\ orders' = Rebalance(in) /\ decision' = [day |-> day, in |-> in]
      /\ phase' # "open" /\ UNCHANGED <<day, cash, positions, trades>>
  BY DEF Decide
<1>2. decision'.day = day /\ decision'.in = in /\ decision.day < day
  BY <1>1 DEF KInv
<1>3. InputOK(in) /\ in.cash = cash /\ in.shares = positions
  BY DEF InputOK, StrategyInput, BInv, Accounts, BacktestAssumption
<1> HIDE DEF in
<1>4. \A i \in DOMAIN trades : trades[i].decided \in 0..day /\ trades[i].decided # day
  BY <1>2 DEF KInv, BInv
<1>5. Latest' = {}
  BY <1>1, <1>2, <1>4 DEF Latest
<1>6. cash' = in.cash + SumFunctionOnSet([i \in DOMAIN trades' |-> trades'[i].delta], Latest')
  <2>1. cash' = in.cash /\ in.cash \in Int
    BY <1>1, <1>3 DEF BInv, Accounts
  <2> QED BY <1>5, <2>1, SumEmpty
<1>7. /\ \A k \in DOMAIN orders' : orders'[k] \in Planned(in)
      /\ \A j, k \in DOMAIN orders' : orders'[j].asset = orders'[k].asset => j = k
  BY <1>1, <1>3, AdviceIsPlanned
<1>8. Unfolds'
  BY <1>1, <1>2, <1>3, <1>5, <1>6, <1>7 DEF Unfolds
<1>9. \A i \in DOMAIN trades' : trades'[i].decided \in 0..decision'.day
  BY <1>1, <1>2, <1>4
<1> QED BY <1>1, <1>2, <1>3, <1>8, <1>9 DEF KInv

(* It is kept by every step.                                                *)
LEMMA NextKInv ==
  StrategyAssumption /\ BacktestAssumption /\ BInv /\ KInv /\ [Next]_vars => KInv'
<1> SUFFICES ASSUME StrategyAssumption, BacktestAssumption, BInv, KInv, [Next]_vars PROVE KInv'
  OBVIOUS
<1>1. ASSUME UNCHANGED <<cash, positions, orders, decision, trades>>,
             phase' = "open" => decision.day < day'
      PROVE  KInv'
  <2>1. Unfolds => Unfolds'
    BY <1>1 DEF Unfolds, Latest
  <2> QED BY <1>1, <2>1 DEF KInv
<1>2. ASSUME NEW b, NextDay(b) PROVE KInv'
  <2>1. decision.day < day'
    BY <1>2 DEF NextDay, BInv, BacktestAssumption
  <2> QED BY <1>1, <1>2, <2>1 DEF NextDay
<1>3. CASE Decide /\ ~FirstOfMonth
  BY <1>1, <1>3 DEF Decide
<1>4. CASE Value
  BY <1>1, <1>4 DEF Value
<1>5. CASE UNCHANGED vars
  BY <1>1, <1>5 DEF vars, KInv
<1> QED BY <1>2, <1>3, <1>4, <1>5, DecideUnfolds, FillUnfolds DEF Next

(* It holds in every state.                                                 *)
LEMMA UnfoldsInvariance == Spec => [](BInv /\ KInv)
<1>1. Init => BInv /\ KInv
  BY InitBInv, InitKInv, StrategyAssumption, BacktestAssumption
<1>2. BInv /\ KInv /\ [Next]_vars => BInv' /\ KInv'
  BY NextBInv, NextKInv, StrategyAssumption, BacktestAssumption
<1> QED BY <1>1, <1>2, PTL DEF Spec

(* When the orders of a decision are done, cash is what it was at the       *)
(* decision plus, trade by trade, what was planned less what went worse.    *)
LEMMA KeepsBuffer ==
  ASSUME StrategyAssumption, BInv, KInv, orders = <<>>, Total(decision.in) > 0,
         \A o \in Sells(decision.in) : \E i \in Latest :
            trades[i].asset = o.asset /\ trades[i].action = "sell"
  PROVE  cash >= Min({decision.in.cash, CashBuffer})
                   - SumFunction([i \in Latest |-> Worse(trades[i])])
<1> DEFINE in == decision.in
           T == Latest
           LS == {i \in T : trades[i].action = "sell"}
           LB == {i \in T : trades[i].action = "buy"}
           planned == [i \in T |-> trades[i].qty * in.price[trades[i].asset]]
           d == [i \in DOMAIN trades |-> trades[i].delta]
           w == [i \in Latest |-> Worse(trades[i])]
           g == [i \in T |-> IF trades[i].action = "buy" THEN -planned[i]
                             ELSE SellNetProceeds(trades[i].asset, planned[i])]
           net == [o \in Sells(in) |-> SellNetProceeds(o.asset, Amount(in, o))]
           amount == [o \in Orders |-> Amount(in, o)]
<1>1. /\ InputOK(in) /\ Unfolds
      /\ IsFiniteSet(T) /\ T \subseteq DOMAIN trades
  BY LatestFinite DEF KInv
<1>2. \A i \in T : \E o \in Planned(in) : Meets(trades[i], o)
  BY <1>1 DEF Unfolds
<1>3. ASSUME NEW i \in T
      PROVE  /\ trades[i].asset \in Asset /\ trades[i].action \in {"buy", "sell"}
             /\ trades[i].qty \in Nat /\ trades[i].delta \in Int
  BY <1>1, <1>2, PlannedApart DEF Meets, Orders
<1>4. ASSUME NEW i \in T
      PROVE  /\ planned[i] \in Nat /\ planned[i] = trades[i].qty * in.price[trades[i].asset]
             /\ SellNetProceeds(trades[i].asset, planned[i]) \in Nat
             /\ g[i] \in Int
  <2> DEFINE p == in.price[trades[i].asset]
             q == trades[i].qty
  <2>1. p \in Nat /\ q \in Nat /\ planned[i] = q * p
    BY <1>1, <1>3 DEF InputOK
  <2> HIDE DEF p, q, planned
  <2>2. planned[i] \in Nat
    BY <2>1
  <2>3. SellNetProceeds(trades[i].asset, planned[i]) \in Nat
    BY <1>3, <2>2, FeesTyped
  <2> QED BY <2>1, <2>2, <2>3 DEF p, q
<1>5. ASSUME NEW i \in T
      PROVE  d[i] \in Int /\ w[i] \in Int /\ g[i] = d[i] + w[i]
  <2> DEFINE x == trades[i].delta
             y == SellNetProceeds(trades[i].asset, planned[i])
             z == planned[i]
  <2>1. w[i] = IF trades[i].action = "buy" THEN -x - z ELSE y - x
    BY <1>4 DEF Worse
  <2>2. x \in Int /\ y \in Int /\ z \in Int /\ d[i] = x
    BY <1>1, <1>3, <1>4
  <2>3. g[i] = IF trades[i].action = "buy" THEN -z ELSE y
    OBVIOUS
  <2> HIDE DEF x, y, z, w, g, d
  <2> QED BY <2>1, <2>2, <2>3
<1>6. DOMAIN w = T
  OBVIOUS
<1>7. cash = in.cash + SumFunctionOnSet(d, T) /\ in.cash \in Int /\ CashBuffer \in Nat
  BY <1>1 DEF Unfolds, InputOK, StrategyAssumption
<1>8. \A i \in T : LS \union LB = T /\ LS \intersect LB = {}
  BY <1>3
<1>9. IsFiniteSet(LS) /\ IsFiniteSet(LB) /\ LS \subseteq T /\ LB \subseteq T
  BY <1>1, FS_Subset
<1>10. ASSUME NEW i \in T, NEW o \in Planned(in), Meets(trades[i], o)
       PROVE  /\ trades[i].action = "sell" => o \in Sells(in) /\ trades[i].qty = o.qty
              /\ trades[i].action = "buy" => o \in Buys(in)
              /\ o \in Orders /\ o.asset = trades[i].asset /\ trades[i].qty <= o.qty
  BY <1>1, <1>10, PlannedApart DEF Meets
<1> DEFINE Of(i) == CHOOSE o \in Planned(in) : Meets(trades[i], o)
           m == [i \in T |-> Of(i)]
<1>11. \A i \in T : m[i] \in Planned(in) /\ Meets(trades[i], m[i])
  BY <1>2
<1>12. \A i, j \in T : m[i] = m[j] => i = j
  <2> HIDE DEF m
  <2> QED BY <1>1, <1>11 DEF Unfolds, Meets
<1> HIDE DEF m
<1>13. \A i \in T : /\ trades[i].action = "sell" => m[i] \in Sells(in) /\ trades[i].qty = m[i].qty
                    /\ trades[i].action = "buy" => m[i] \in Buys(in)
                    /\ m[i] \in Orders /\ m[i].asset = trades[i].asset /\ trades[i].qty <= m[i].qty
  BY <1>10, <1>11
<1>14. SumFunctionOnSet(g, LS) = SumFunctionOnSet(net, Sells(in))
  <2>1. ASSUME NEW o \in Sells(in) PROVE \E i \in LS : o = m[i]
    <3>1. PICK i \in T : trades[i].asset = o.asset /\ trades[i].action = "sell"
      OBVIOUS
    <3>2. m[i] \in Sells(in) /\ m[i].asset = o.asset
      BY <1>13, <3>1
    <3>3. m[i] = o
      BY <1>1, <3>2, PlannedApart DEF Planned
    <3> QED BY <3>1, <3>3
  <2>2. ASSUME NEW i \in LS PROVE m[i] \in Sells(in) /\ g[i] \in Int /\ net[m[i]] = g[i]
    <3>1. m[i] \in Sells(in) /\ trades[i].qty = m[i].qty /\ m[i].asset = trades[i].asset
      BY <1>13
    <3>2. planned[i] = Amount(in, m[i])
      BY <3>1 DEF Amount
    <3> HIDE DEF planned
    <3> QED BY <1>4, <3>1, <3>2
  <2> DEFINE sells == Sells(in)
  <2>3. /\ \A i \in LS : m[i] \in sells /\ g[i] \in Int /\ net[m[i]] = g[i]
        /\ \A o \in sells : \E i \in LS : o = m[i]
    BY <2>1, <2>2
  <2>4. IsFiniteSet(LS) /\ \A i, j \in LS : m[i] = m[j] => i = j
    BY <1>9, <1>12
  <2> HIDE DEF net, g, LS, sells
  <2>5. SumFunctionOnSet(net, sells) = SumFunctionOnSet(g, LS)
    BY <2>3, <2>4, SumOnto
  <2> QED BY <2>5 DEF sells
<1>15. SumFunctionOnSet(planned, LB) \in Nat /\ SumFunctionOnSet(planned, LB) <= Budget(in)
  <2>1. ASSUME NEW i \in LB
        PROVE  planned[i] \in Nat /\ m[i] \in Buys(in) /\ planned[i] <= amount[m[i]]
    <3> DEFINE p == in.price[trades[i].asset]
               q == trades[i].qty
               r == m[i].qty
    <3>1. /\ m[i] \in Orders /\ m[i].asset = trades[i].asset /\ q <= r /\ r \in Nat
          /\ m[i] \in Buys(in)
      BY <1>13 DEF Orders
    <3>2. p \in Nat /\ q \in Nat
      BY <1>1, <1>3 DEF InputOK
    <3>3. amount[m[i]] = r * p /\ planned[i] = q * p
      BY <3>1 DEF Amount
    <3> HIDE DEF p, q, r, amount, planned
    <3> QED BY <3>1, <3>2, <3>3, TimesKeepsOrder
  <2>2. IsFiniteSet(Buys(in)) /\ \A o \in Buys(in) : amount[o] \in Nat
    <3>1. IsFiniteSet(Buys(in)) /\ Buys(in) \subseteq Orders
      BY <1>1, BuysAreDrafts DEF Drafts
    <3> QED BY <1>1, <3>1, AmountTyped
  <2> DEFINE buys == Buys(in)
  <2>3. \A i \in LB : m[i] \in buys /\ planned[i] \in Int /\ planned[i] <= amount[m[i]]
    BY <2>1
  <2>4. IsFiniteSet(LB) /\ \A i, j \in LB : m[i] = m[j] => i = j
    BY <1>9, <1>12
  <2>5. SumFunctionOnSet(amount, buys) <= Budget(in)
    BY <1>1, BuysWithinBudget
  <2> HIDE DEF planned, amount, LB, buys
  <2>6. SumFunctionOnSet(planned, LB) <= SumFunctionOnSet(amount, buys)
    BY <2>2, <2>3, <2>4, SumInto DEF buys
  <2>7. /\ SumFunctionOnSet(planned, LB) \in Nat /\ SumFunctionOnSet(amount, buys) \in Nat
        /\ Budget(in) \in Nat
    BY <1>1, <2>1, <2>2, <2>4, SumNat, BudgetTyped DEF buys
  <2> DEFINE s1 == SumFunctionOnSet(planned, LB)
             s2 == SumFunctionOnSet(amount, buys)
             s3 == Budget(in)
  <2>8. s1 \in Nat /\ s2 \in Nat /\ s3 \in Nat /\ s1 <= s2 /\ s2 <= s3
    BY <2>5, <2>6, <2>7
  <2> HIDE DEF s1, s2, s3
  <2>9. s1 <= s3
    BY <2>8
  <2> QED BY <2>8, <2>9 DEF s1, s3
<1>16. SumFunctionOnSet(g, LB) = -SumFunctionOnSet(planned, LB)
  <2>1. \A i \in LB : planned[i] \in Int /\ g[i] = (-1) * planned[i]
    <3>1. \A i \in LB : planned[i] \in Nat /\ g[i] = -planned[i]
      BY <1>4
    <3> HIDE DEF planned, g
    <3> QED BY <3>1
  <2> DEFINE c == -1
  <2>2. c \in Int /\ \A i \in LB : planned[i] \in Int /\ g[i] = c * planned[i]
    BY <2>1
  <2> HIDE DEF c, planned, g
  <2>3. SumFunctionOnSet(g, LB) = c * SumFunctionOnSet(planned, LB)
    BY <1>9, <2>2, SumTimes
  <2> QED BY <1>15, <2>3 DEF c
<1>17. SumFunctionOnSet(net, Sells(in)) \in Int
       /\ Budget(in) = Max({0, in.cash - CashBuffer}) + SumFunctionOnSet(net, Sells(in))
  <2>1. DOMAIN net = Sells(in) /\ \A o \in Sells(in) : net[o] \in Int /\ IsFiniteSet(Sells(in))
    <3>1. ASSUME NEW o \in Sells(in) PROVE net[o] \in Int
      <4>1. o \in Orders /\ Amount(in, o) \in Nat /\ o.asset \in Asset
        BY <1>1, SellsAreHeld, AmountTyped
      <4>2. SellNetProceeds(o.asset, Amount(in, o)) \in Nat
        <5> DEFINE x == Amount(in, o)
        <5>1. x \in Nat /\ o.asset \in Asset
          BY <4>1
        <5> HIDE DEF x
        <5>2. SellNetProceeds(o.asset, x) \in Nat
          BY <5>1, FeesTyped
        <5> QED BY <5>2 DEF x
      <4> QED BY <4>2
    <3> QED BY <1>1, <3>1, SellsAreDrafts DEF Drafts
  <2>2. Budget(in) = Max({0, in.cash - CashBuffer}) + SumFunction(net)
    BY DEF Budget
  <2>3. IsFiniteSet(Sells(in))
    BY <1>1, SellsAreDrafts DEF Drafts
  <2> HIDE DEF net
  <2> QED BY <2>1, <2>2, <2>3, SumInt DEF SumFunction
<1>18. SumFunctionOnSet(g, T) = SumFunctionOnSet(d, T) + SumFunctionOnSet(w, T)
  <2> HIDE DEF g, d, w
  <2> QED BY <1>1, <1>5, SumPlus
<1>19. SumFunctionOnSet(g, T) = SumFunctionOnSet(g, LS) + SumFunctionOnSet(g, LB)
  <2>1. LS \union LB = T /\ LS \intersect LB = {}
    BY <1>3
  <2>2. \A i \in LS \union LB : g[i] \in Int
    BY <1>4, <1>9
  <2> HIDE DEF g, LS, LB
  <2> QED BY <1>9, <2>1, <2>2, SumUnion
<1>20. SumFunctionOnSet(d, T) \in Int /\ SumFunctionOnSet(w, T) \in Int
  <2> HIDE DEF d, w
  <2> QED BY <1>1, <1>5, SumInt
<1>21. SumFunction(w) = SumFunctionOnSet(w, T)
  BY <1>6 DEF SumFunction
<1> DEFINE sd == SumFunctionOnSet(d, T)
           sw == SumFunctionOnSet(w, T)
           sn == SumFunctionOnSet(net, Sells(in))
           sp == SumFunctionOnSet(planned, LB)
           c == in.cash
           above == Max({0, c - CashBuffer})
           least == Min({c, CashBuffer})
<1>22. /\ sd \in Int /\ sw \in Int /\ sn \in Int /\ sp \in Int /\ c \in Int /\ CashBuffer \in Int
       /\ sn + (-sp) = sd + sw /\ cash = c + sd /\ sp <= above + sn
  <2>1. /\ sd \in Int /\ sw \in Int /\ sn \in Int /\ sp \in Int /\ c \in Int /\ CashBuffer \in Int
        /\ cash = c + sd
    BY <1>7, <1>15, <1>17, <1>20
  <2>2. SumFunctionOnSet(g, T) = sn + (-sp) /\ SumFunctionOnSet(g, T) = sd + sw
    BY <1>14, <1>16, <1>18, <1>19
  <2>3. sp <= above + sn
    BY <1>15, <1>17
  <2> QED BY <2>1, <2>2, <2>3, Zenon
<1> HIDE DEF sd, sw, sn, sp, c
<1>23. /\ above = IF 0 >= c - CashBuffer THEN 0 ELSE c - CashBuffer
       /\ least = IF c <= CashBuffer THEN c ELSE CashBuffer
  <2>1. 0 \in Int /\ c - CashBuffer \in Int /\ c \in Int /\ CashBuffer \in Int
    BY <1>22
  <2> QED BY <2>1, MaxTwo, MinTwo
<1> HIDE DEF above, least
<1>24. cash >= least - sw
  <2>1. above \in Int /\ least \in Int /\ above + least = c
    BY <1>22, <1>23
  <2>2. cash = above + least + sd /\ sd = sn + (-sp) - sw
    BY <1>22, <2>1
  <2> QED BY <1>22, <2>1, <2>2
<1> QED BY <1>21, <1>24 DEF least, sw, c

(* Whatever the targets, prices, slippage, rates and days: once the orders  *)
(* of a decision are done and its sales were made, cash is below the        *)
(* buffer, or what there was, by no more than the trades went worse than    *)
(* the decision reckoned.                                                   *)
THEOREM BufferIsKept == Spec => []BufferKept
<1>1. StrategyAssumption /\ BInv /\ KInv => BufferKept
  BY KeepsBuffer DEF BufferKept
<1> QED BY UnfoldsInvariance, StrategyAssumption, <1>1, PTL
=============================================================================
