---------------------------- MODULE CatchUpProofs ----------------------------
(* Theorems about CatchUp, for any assets, calendar, sources and bounds. *)
EXTENDS CatchUp, FiniteSetTheorems, TLAPS

\* A bar is of a tracked asset and of a day of the calendar.
LEMMA QuotedBars ==
  ASSUME NEW b \in Quoted
  PROVE  b[1] \in Assets /\ b[2] \in OpenDays /\ b[2] \in Days /\ b[2] \in Nat
<1>1. b \in Assets \X OpenDays
  BY CalendarAssumption
<1>2. b[1] \in Assets /\ b[2] \in OpenDays
  BY <1>1
<1>3. OpenDays \subseteq Days /\ LastDay \in Nat
  BY CalendarAssumption
<1>4. \A d \in Days : d \in Nat
  BY <1>3 DEF Days
<1> QED BY <1>2, <1>3, <1>4

\* The request that is made is for a tracked asset and for a month of the calendar.
LEMMA Request ==
  ASSUME TypeOK, pc \in {"month", "fetch", "mark"}
  PROVE  /\ Order[next] \in Assets
         /\ MarketOf[Order[next]] \in Markets
         /\ <<Code[Order[next]], month>> \in Codes \X Months
<1>1. next \in 1 .. Len(Order)
  BY TrackedAssumption DEF TypeOK
<1>2. Order[next] \in Assets
  BY <1>1, TrackedAssumption
<1>3. MarketOf[Order[next]] \in Markets /\ Code[Order[next]] \in Codes
  BY <1>2, TrackedAssumption
<1>4. month \in Months
  BY DEF TypeOK
<1> QED BY <1>2, <1>3, <1>4

LEMMA FirstMonth == MonthOf[1] \in Months
  BY CalendarAssumption DEF Months, Days

LEMMA MissingAreMonths ==
  ASSUME NEW a \in Assets, NEW t \in Nat
  PROVE  MissingMonths(a, t) \subseteq Months
  BY CalendarAssumption DEF MissingMonths, Required, Months

\* The years of a catch-up are years of the calendar, its own among them.
LEMMA AskedYears ==
  ASSUME NEW t \in Days
  PROVE  YearsAsked(t) \subseteq Years /\ YearOf[t] \in YearsAsked(t)
<1>1. LastDay \in Nat
  BY CalendarAssumption
<1>2. YearsAsked(t) \subseteq Years
  BY DEF YearsAsked, Years
<1>3. t <= t
  BY <1>1 DEF Days
<1>4. YearOf[t] \in YearsAsked(t)
  BY <1>3 DEF YearsAsked
<1> QED BY <1>2, <1>4

LEMMA FirstYears ==
  /\ 1 \in Days
  /\ TypeOK => day \in Days /\ day \in 1 .. day /\ today \in Days /\ day \in Nat
<1>1. LastDay \in Nat /\ StartDay \in Days
  BY CalendarAssumption
<1>2. 1 \in Days
  BY <1>1 DEF Days
<1> QED BY <1>1, <1>2 DEF TypeOK, Days

\* Bars that are out stay out.
LEMMA OutGrows ==
  ASSUME TypeOK, Tick
  PROVE  /\ day' \in Days /\ closed' \in BOOLEAN /\ day <= day'
         /\ Out \in Nat /\ Out' \in Nat /\ Out <= Out'
<1>1. LastDay \in Nat /\ day \in 1 .. LastDay /\ closed \in BOOLEAN
  BY CalendarAssumption DEF TypeOK, Days
<1>2. CASE ~closed /\ closed' = TRUE /\ day' = day
  BY <1>1, <1>2 DEF Out, Days
<1>3. CASE closed /\ day < LastDay /\ day' = day + 1 /\ closed' = FALSE
  <2>1. Out = day
    BY <1>3 DEF Out
  <2>2. Out' = day' - 1
    BY <1>3 DEF Out
  <2>3. closed' \in BOOLEAN
    BY <1>3
  <2>4. day' = day + 1 /\ day < LastDay
    BY <1>3
  <2> QED BY <1>1, <2>1, <2>2, <2>3, <2>4 DEF Days
<1> QED BY <1>2, <1>3 DEF Tick

\* What the frame of a step that leaves the clock alone gives.
LEMMA OutStays ==
  ASSUME TypeOK, UNCHANGED clock
  PROVE  /\ day' = day /\ closed' = closed /\ Out' = Out
         /\ day \in Nat /\ 1 <= day /\ Out \in Nat
  BY CalendarAssumption DEF TypeOK, Days, Out, clock

LEMMA LimiterTyped ==
  ASSUME TypeOK, NEW s \in Markets, ComesToNothing(s) \/ ReportSuccess(s)
  PROVE  fails' \in [Markets -> 0 .. MaxFails] /\ streak' \in [Markets -> Nat]
<1>1. MaxFails \in Nat /\ fails \in [Markets -> 0 .. MaxFails] /\ streak \in [Markets -> Nat]
  BY CalendarAssumption DEF TypeOK
<1>2. CASE ReportFailure(s)
  BY <1>1, <1>2 DEF ReportFailure, Counted
<1>3. CASE ReportSuccess(s)
  BY <1>1, <1>3 DEF ReportSuccess
<1>4. CASE UNCHANGED limiter
  BY <1>1, <1>4 DEF limiter
<1> QED BY <1>2, <1>3, <1>4 DEF ComesToNothing

LEMMA SyncTyped ==
  ASSUME TypeOK, SyncSecurities
  PROVE  fails' \in [Markets -> 0 .. MaxFails] /\ streak' \in [Markets -> Nat]
<1>1. MaxFails \in Nat /\ fails \in [Markets -> 0 .. MaxFails] /\ streak \in [Markets -> Nat]
  BY CalendarAssumption DEF TypeOK
<1> QED BY <1>1 DEF SyncSecurities, Counted, Markets

LEMMA EndTyped ==
  ASSUME TypeOK, End, UNCHANGED clock
  PROVE  /\ pc' = "idle" /\ today' \in 1 .. day' /\ next' \in 1 .. Len(Order) + 1
         /\ years' = {}
         /\ gaps' \subseteq Months /\ month' \in Months /\ result' \in Marks
         /\ asked' \in 0 .. Out' /\ streak' \in [Markets -> Nat]
<1>1. 1 \in 1 .. Len(Order) + 1
  BY TrackedAssumption
<1> QED
  BY <1>1, OutStays, FirstMonth DEF End, Marks

(* The type invariant is inductive. *)
THEOREM Typing == Spec => []TypeOK
<1> USE DEF PCs, Marks, Markets
<1>1. Init => TypeOK
  <2> SUFFICES ASSUME Init PROVE TypeOK
    OBVIOUS
  <2>1. 1 \in Days /\ StartDay \in Days /\ day = StartDay /\ Out = StartDay - 1
    BY FirstYears, CalendarAssumption DEF Init, Out
  <2>2. 1 \in 1 .. Len(Order) + 1
    BY TrackedAssumption
  <2>3. /\ fails \in [Markets -> 0 .. MaxFails] /\ streak \in [Markets -> Nat]
        /\ checkpoint \in [Codes \X Months -> Marks] /\ asOf \in [Codes \X Months -> 0 .. Out]
        /\ stops \in 0 .. MaxStops
    <3>1. 0 \in 0 .. Out
      BY <2>1, CalendarAssumption DEF Days
    <3> QED
      BY <3>1, CalendarAssumption DEF Init
  <2>4. /\ day \in Days /\ closed \in BOOLEAN /\ up \in BOOLEAN /\ pc = "idle"
        /\ today \in 1 .. day /\ next \in 1 .. Len(Order) + 1
        /\ gaps \subseteq Months /\ month \in Months /\ result \in Marks
        /\ asked \in 0 .. Out /\ bars = {} /\ years = {} /\ calendar = {}
    <3>1. 1 \in 1 .. day /\ 0 \in 0 .. Out
      BY <2>1, CalendarAssumption DEF Days
    <3> QED
      BY <2>1, <2>2, <3>1, FirstMonth DEF Init
  <2> QED
    BY <2>1, <2>3, <2>4 DEF TypeOK
<1>2. TypeOK /\ [Next]_vars => TypeOK'
  <2> SUFFICES ASSUME TypeOK, [Next]_vars PROVE TypeOK'
    OBVIOUS
  <2> USE DEF clock, process, cursor, limiter, tables
  <2>1. CASE Tick
    <3>1. /\ today \in 1 .. day' /\ asked \in 0 .. Out'
          /\ bars \subseteq {b \in Quoted : b[2] <= Out'}
          /\ asOf \in [Codes \X Months -> 0 .. Out']
      <4>1. \A b \in Quoted : b[2] \in Nat
        BY QuotedBars
      <4>2. day \in Nat /\ day' \in Nat
        BY <2>1, OutGrows, CalendarAssumption, SMTT(20) DEF TypeOK, Days
      <4>3. 0 .. Out \subseteq 0 .. Out' /\ 1 .. day \subseteq 1 .. day'
        BY <2>1, <4>2, OutGrows
      <4> QED
        BY <2>1, <4>1, <4>3, OutGrows, SMTT(20) DEF TypeOK
    <3> QED
      BY <2>1, <3>1, OutGrows DEF Tick, TypeOK
  <2>2. CASE Start
    BY <2>2, FirstYears, OutStays DEF Start, Begin, TypeOK
  <2>3. CASE Daily
    BY <2>3, FirstYears, OutStays DEF Daily, Begin, TypeOK
  <2>4. CASE Stop
    <3>1. stops' \in 0 .. MaxStops /\ fails' \in [Markets -> 0 .. MaxFails]
      BY <2>4, CalendarAssumption DEF Stop, TypeOK
    <3> QED
      BY <2>4, <3>1, EndTyped, OutStays DEF Stop, TypeOK
  <2>5. CASE DatabaseFails
    <3>1. stops' \in 0 .. MaxStops
      BY <2>5, CalendarAssumption DEF DatabaseFails, TypeOK
    <3> QED
      BY <2>5, <3>1, EndTyped, OutStays DEF DatabaseFails, TypeOK
  <2>6. ASSUME NEW s \in Markets, ImportDaily(s) PROVE TypeOK'
    <3>1. Snapshot(s) \subseteq {b \in Quoted : b[2] <= Out}
      BY DEF Snapshot
    <3> QED
      BY <2>6, <3>1, LimiterTyped, OutStays DEF ImportDaily, After, TypeOK
  <2>7. ASSUME NEW s \in Markets, ImportDailyFails(s) PROVE TypeOK'
    BY <2>7, LimiterTyped DEF ImportDailyFails, After, TypeOK, Out
  <2>8. CASE ImportCorporateActions
    BY <2>8, LimiterTyped, TrackedAssumption, SMTT(20) DEF ImportCorporateActions, TypeOK, Out
  <2>9. CASE Asset
    <3>1. CASE End
      BY <2>9, <3>1, EndTyped DEF Asset, TypeOK, Out
    <3>2. CASE ~End
      <4>1. next <= Len(Order) /\ Order[next] \in Assets
        BY <2>9, <3>2, TrackedAssumption DEF Asset, TypeOK
      <4> QED
        BY <2>9, <3>2, <4>1, MissingAreMonths, SMTT(20) DEF Asset, TypeOK, Out, Days
    <3> QED BY <3>1, <3>2
  <2>10. CASE Month
    <3>1. CASE End
      BY <2>10, <3>1, EndTyped DEF Month, TypeOK, Out
    <3>2. CASE ~End
      BY <2>10, <3>2 DEF Month, TypeOK, Out
    <3> QED BY <3>1, <3>2
  <2>11. CASE AssetDone
    BY <2>11, TrackedAssumption, SMTT(20) DEF AssetDone, TypeOK, Out
  <2>12. CASE Backfill
    <3>1. Answer(Order[next], month) \subseteq {b \in Quoted : b[2] <= Out}
      BY DEF Answer
    <3> QED
      <4>1. /\ fails' \in [Markets -> 0 .. MaxFails] /\ streak' \in [Markets -> Nat]
            /\ next <= Len(Order)
        BY <2>12, Request, LimiterTyped DEF Backfill, TypeOK
      <4>2. /\ result' \in {"unrecoverable", "succeeded", "failed"}
            /\ asked' \in 0 .. Out /\ pc' = "mark"
        BY <2>12, OutStays DEF Backfill, Outcomes, EmptyMark
      <4>3. bars' \subseteq {b \in Quoted : b[2] <= Out}
        BY <2>12, <3>1 DEF Backfill, TypeOK
      <4> QED
        BY <2>12, <4>1, <4>2, <4>3, OutStays DEF Backfill, TypeOK
  <2>13. CASE BackfillFails
    BY <2>13, Request, LimiterTyped DEF BackfillFails, TypeOK, Out
  <2>14. CASE Mark
    BY <2>14, Request, FirstMonth, CalendarAssumption, SMTT(20) DEF Mark, TypeOK, Out, Days
  <2>15. CASE UNCHANGED vars
    BY <2>15 DEF vars, TypeOK, Out
  <2>16. CASE SyncSecurities
    BY <2>16, SyncTyped DEF SyncSecurities, TypeOK, Out
  <2>17. CASE SyncCalendar
    <3>1. DueYears \subseteq Years
      BY DEF DueYears, Years
    <3>2. fails' \in [Markets -> 0 .. MaxFails] /\ streak' \in [Markets -> Nat]
      <4>1. CASE ReportSuccess("TWSE")
        BY <4>1, LimiterTyped
      <4>2. CASE /\ fails' = [fails EXCEPT !["TWSE"] = Counted("TWSE")]
                 /\ UNCHANGED streak
        <5>1. MaxFails \in Nat /\ fails \in [Markets -> 0 .. MaxFails]
          BY CalendarAssumption DEF TypeOK
        <5>2. Counted("TWSE") \in 0 .. MaxFails
          BY <5>1 DEF Counted
        <5> QED
          BY <4>2, <5>1, <5>2 DEF TypeOK
      <4> QED
        BY <2>17, <4>1, <4>2 DEF SyncCalendar
    <3>3. calendar' \subseteq Years
      BY <2>17, <3>1 DEF SyncCalendar, TypeOK
    <3> QED
      BY <2>17, <3>2, <3>3 DEF SyncCalendar, TypeOK, Out
  <2>18. CASE EnsureYear \/ EnsureYearFails
    <3>1. /\ fails' \in [Markets -> 0 .. MaxFails] /\ streak' \in [Markets -> Nat]
          /\ pc \in PCs /\ up
      BY <2>18, LimiterTyped DEF EnsureYear, EnsureYearFails, TypeOK
    <3>2. years' \subseteq YearsAsked(today) /\ calendar' \subseteq Years
      <4>1. YearsAsked(today) \subseteq Years
        BY AskedYears, FirstYears
      <4> QED
        BY <2>18, <4>1 DEF EnsureYear, EnsureYearFails, TypeOK
    <3>3. pc' \in {"calendar", "error"} /\ UNCHANGED <<clock, process, today, next, gaps, month>>
      BY <2>18 DEF EnsureYear, EnsureYearFails
    <3>4. UNCHANGED <<result, asked, bars, checkpoint, asOf>>
      BY <2>18 DEF EnsureYear, EnsureYearFails
    <3> QED
      BY <3>1, <3>2, <3>3, <3>4 DEF TypeOK, Out
  <2>19. CASE CalendarDone
    BY <2>19 DEF CalendarDone, TypeOK, Out
  <2>20. CASE ReturnError
    BY <2>20, EndTyped, OutStays DEF ReturnError, TypeOK
  <2> QED
    BY <2>1, <2>2, <2>3, <2>4, <2>5, <2>6, <2>7, <2>8, <2>9, <2>10, <2>11, <2>12, <2>13,
       <2>14, <2>15, <2>16, <2>17, <2>18, <2>19, <2>20 DEF Next, Step
<1> QED BY <1>1, <1>2, PTL DEF Spec

------------------------------------------------------------------------------
\* What a catch-up is about to mark unrecoverable is early or has no bar at all.
UnrecoverableInv ==
  /\ UnrecoverableMonthsAreEmpty
  /\ pc = "mark" /\ result = "unrecoverable" =>
       Early(Order[next], month) \/ \A b \in Quoted : b[1] = Order[next] => MonthOf[b[2]] # month

(* When no symbol is traded on both markets, a month given up for ever has  *)
(* no bar that any source will ever have, unless TWSE refuses it for its    *)
(* first day: else only a past month without any row is given up, and a     *)
(* past month gains no rows.                                                *)
THEOREM Unrecoverable == ASSUME DistinctCodes PROVE Spec => []UnrecoverableMonthsAreEmpty
<1>1. Init => UnrecoverableInv
  <2> SUFFICES ASSUME Init PROVE UnrecoverableInv
    OBVIOUS
  <2>1. \A a \in Assets, m \in Months : checkpoint[<<Code[a], m>>] = "none"
    BY DEF Init, Codes
  <2> QED
    BY <2>1 DEF Init, UnrecoverableInv, UnrecoverableMonthsAreEmpty
<1>2. TypeOK /\ UnrecoverableInv /\ [Next]_vars => UnrecoverableInv'
  <2> SUFFICES ASSUME TypeOK, UnrecoverableInv, [Next]_vars PROVE UnrecoverableInv'
    OBVIOUS
  <2> USE DEF clock, process, cursor, limiter, tables
  <2>1. CASE Backfill
    <3>1. CASE result' # "unrecoverable"
      BY <2>1, <3>1 DEF Backfill, UnrecoverableInv, UnrecoverableMonthsAreEmpty
    <3>2. CASE result' = "unrecoverable" /\ Early(Order[next], month)
      BY <2>1, <3>2 DEF Backfill, UnrecoverableInv, UnrecoverableMonthsAreEmpty
    <3>3. CASE result' = "unrecoverable" /\ ~Early(Order[next], month)
      <4>1. Answer(Order[next], month) = {} /\ month < MonthOf[day]
        BY <2>1, <3>3 DEF Backfill, Outcomes, EmptyMark
      <4>2. ASSUME NEW b \in Quoted, b[1] = Order[next], MonthOf[b[2]] = month
            PROVE  FALSE
        <5>1. b[2] \in Days /\ day \in Days /\ b[2] \in Nat /\ day \in Nat
          BY QuotedBars, CalendarAssumption DEF TypeOK, Days
        <5>2. MonthOf[day] \in Nat /\ MonthOf[b[2]] \in Nat
          BY <5>1, CalendarAssumption
        <5>3. ~(day <= b[2])
          BY <4>1, <4>2, <5>1, <5>2, CalendarAssumption
        <5>4. b[2] <= Out
          BY <5>1, <5>3 DEF Out
        <5> QED BY <3>3, <4>1, <4>2, <5>4 DEF Answer
      <4> QED
        BY <2>1, <4>2 DEF Backfill, UnrecoverableInv, UnrecoverableMonthsAreEmpty
    <3> QED BY <3>1, <3>2, <3>3
  <2>2. CASE Mark
    <3>1. pc' # "mark"
      BY <2>2 DEF Mark
    <3>2. ASSUME NEW a \in Assets, NEW m \in Months, checkpoint'[<<Code[a], m>>] = "unrecoverable"
          PROVE  Early(a, m) \/ \A b \in Quoted : b[1] = a => MonthOf[b[2]] # m
      <4> DEFINE key == <<Code[Order[next]], month>>
      <4>1. Order[next] \in Assets /\ <<Code[a], m>> \in Codes \X Months
        BY <2>2, Request DEF Mark, Codes
      <4>2. CASE <<Code[a], m>> # key
        <5>1. checkpoint[<<Code[a], m>>] = "unrecoverable"
          BY <2>2, <3>2, <4>1, <4>2 DEF Mark, TypeOK
        <5> QED BY <5>1 DEF UnrecoverableInv, UnrecoverableMonthsAreEmpty
      <4>3. CASE <<Code[a], m>> = key
        <5>1. a = Order[next] /\ m = month
          BY <4>1, <4>3 DEF DistinctCodes
        <5>2. result = "unrecoverable"
          BY <2>2, <3>2, <4>1, <4>3 DEF Mark, TypeOK
        <5> QED BY <2>2, <5>1, <5>2 DEF Mark, UnrecoverableInv
      <4> QED BY <4>2, <4>3
    <3> QED BY <3>1, <3>2 DEF UnrecoverableInv, UnrecoverableMonthsAreEmpty
  <2>3. CASE BackfillFails
    BY <2>3 DEF BackfillFails, UnrecoverableInv, UnrecoverableMonthsAreEmpty
  <2>4. CASE UNCHANGED checkpoint /\ pc' # "mark"
    BY <2>4 DEF UnrecoverableInv, UnrecoverableMonthsAreEmpty
  <2>5. CASE UNCHANGED <<checkpoint, cursor>>
    BY <2>5 DEF UnrecoverableInv, UnrecoverableMonthsAreEmpty
  <2>6. (Tick \/ SyncSecurities \/ SyncCalendar \/ UNCHANGED vars) => UNCHANGED <<checkpoint, cursor>>
    BY DEF Tick, SyncSecurities, SyncCalendar, vars
  <2>7. /\ \A s \in Markets : ImportDaily(s) \/ ImportDailyFails(s) => UNCHANGED checkpoint /\ pc' # "mark"
        /\ Daily \/ Stop \/ DatabaseFails => UNCHANGED checkpoint /\ pc' # "mark"
        /\ Start => UNCHANGED checkpoint /\ (pc' # "mark" \/ UNCHANGED cursor)
        /\ ImportCorporateActions \/ AssetDone => UNCHANGED checkpoint /\ pc' # "mark"
        /\ Asset => UNCHANGED checkpoint /\ pc' # "mark"
        /\ Month => UNCHANGED checkpoint /\ pc' # "mark"
        /\ EnsureYear \/ EnsureYearFails => UNCHANGED checkpoint /\ pc' # "mark"
        /\ CalendarDone \/ ReturnError => UNCHANGED checkpoint /\ pc' # "mark"
    BY DEF EnsureYear, EnsureYearFails, CalendarDone, ReturnError,
           ImportDaily, ImportDailyFails, After, Daily, Stop, DatabaseFails, Start, Begin, End,
           ImportCorporateActions, AssetDone, Asset, Month
  <2> QED
    BY <2>1, <2>2, <2>3, <2>4, <2>5, <2>6, <2>7 DEF Next, Step
<1>3. UnrecoverableInv => UnrecoverableMonthsAreEmpty
  BY DEF UnrecoverableInv
<1> QED BY <1>1, <1>2, <1>3, Typing, PTL DEF Spec
------------------------------------------------------------------------------
\* What a catch-up is about to mark succeeded is stored as far as it was answered.
LateDaysInv ==
  /\ OnlyLateDaysAreMissed
  /\ pc = "mark" /\ result = "succeeded" =>
       \A b \in Quoted \ bars : b[1] = Order[next] /\ MonthOf[b[2]] = month => b[2] > asked

(* When no symbol is traded on both markets, a succeeded month lacks only   *)
(* bars that came out after it was last answered, wherever the catch-up     *)
(* fails or the process stops: bars are committed before the checkpoint.    *)
THEOREM LateDays == ASSUME DistinctCodes PROVE Spec => []OnlyLateDaysAreMissed
<1>1. Init => LateDaysInv
  <2> SUFFICES ASSUME Init PROVE LateDaysInv
    OBVIOUS
  <2>1. ASSUME NEW b \in Quoted PROVE checkpoint[<<Code[b[1]], MonthOf[b[2]]>>] = "none"
    BY QuotedBars DEF Init, Codes, Months
  <2> QED
    BY <2>1 DEF Init, LateDaysInv, OnlyLateDaysAreMissed
<1>2. TypeOK /\ LateDaysInv /\ [Next]_vars => LateDaysInv'
  <2> SUFFICES ASSUME TypeOK, LateDaysInv, [Next]_vars PROVE LateDaysInv'
    OBVIOUS
  <2> USE DEF clock, process, cursor, limiter, tables
  <2>1. CASE Backfill
    <3>1. ASSUME NEW b \in Quoted \ bars', b[1] = Order[next], MonthOf[b[2]] = month,
                 result' = "succeeded"
          PROVE  b[2] > asked'
      <4>3. ~Early(Order[next], month)
        BY <2>1, <3>1 DEF Backfill, Outcomes
      <4>1. b \notin Answer(Order[next], month) /\ asked' = Out
        BY <2>1, <3>1 DEF Backfill
      <4>2. b[2] \in Nat /\ Out \in Nat
        <5>1. day \in Nat /\ 1 <= day
          BY CalendarAssumption DEF TypeOK, Days
        <5> QED BY <5>1, QuotedBars DEF Out
      <4> QED BY <3>1, <4>1, <4>2, <4>3 DEF Answer
    <3> QED
      BY <2>1, <3>1 DEF Backfill, LateDaysInv, OnlyLateDaysAreMissed
  <2>2. CASE Mark
    <3>1. pc' # "mark"
      BY <2>2 DEF Mark
    <3>2. ASSUME NEW b \in Quoted \ bars', checkpoint'[<<Code[b[1]], MonthOf[b[2]]>>] = "succeeded"
          PROVE  b[2] > asOf'[<<Code[b[1]], MonthOf[b[2]]>>]
      <4> DEFINE key == <<Code[Order[next]], month>>
                 own == <<Code[b[1]], MonthOf[b[2]]>>
      <4>1. Order[next] \in Assets /\ b[1] \in Assets /\ own \in Codes \X Months
        BY <2>2, Request, QuotedBars DEF Mark, Codes, Months
      <4>2. CASE own # key
        <5>1. checkpoint'[own] = checkpoint[own] /\ asOf'[own] = asOf[own] /\ b \notin bars
          BY <2>2, <3>2, <4>1, <4>2 DEF Mark, TypeOK
        <5> QED BY <3>2, <5>1 DEF LateDaysInv, OnlyLateDaysAreMissed
      <4>3. CASE own = key
        <5>1. b[1] = Order[next] /\ MonthOf[b[2]] = month
          BY <4>1, <4>3 DEF DistinctCodes
        <5>2. checkpoint'[own] = result /\ asOf'[own] = asked /\ b \notin bars
          BY <2>2, <3>2, <4>1, <4>3 DEF Mark, TypeOK
        <5> QED BY <2>2, <3>2, <5>1, <5>2 DEF Mark, LateDaysInv
      <4> QED BY <4>2, <4>3
    <3> QED BY <3>1, <3>2 DEF LateDaysInv, OnlyLateDaysAreMissed
  <2>3. CASE BackfillFails
    BY <2>3 DEF BackfillFails, LateDaysInv, OnlyLateDaysAreMissed
  <2>4. CASE UNCHANGED <<checkpoint, asOf>> /\ bars \subseteq bars' /\ pc' # "mark"
    BY <2>4 DEF LateDaysInv, OnlyLateDaysAreMissed
  <2>5. CASE UNCHANGED <<bars, checkpoint, asOf, cursor>>
    BY <2>5 DEF LateDaysInv, OnlyLateDaysAreMissed
  <2>6. (Tick \/ SyncSecurities \/ SyncCalendar \/ UNCHANGED vars) =>
          UNCHANGED <<bars, checkpoint, asOf, cursor>>
    BY DEF Tick, SyncSecurities, SyncCalendar, vars
  <2>7. /\ \A s \in Markets : ImportDaily(s) \/ ImportDailyFails(s) =>
             UNCHANGED <<checkpoint, asOf>> /\ bars \subseteq bars' /\ pc' # "mark"
        /\ Daily \/ Stop \/ DatabaseFails => UNCHANGED tables /\ pc' # "mark"
        /\ Start => UNCHANGED tables /\ (pc' # "mark" \/ UNCHANGED cursor)
        /\ ImportCorporateActions \/ AssetDone => UNCHANGED tables /\ pc' # "mark"
        /\ Asset => UNCHANGED tables /\ pc' # "mark"
        /\ Month => UNCHANGED tables /\ pc' # "mark"
        /\ CalendarDone \/ ReturnError => UNCHANGED tables /\ pc' # "mark"
        /\ EnsureYear \/ EnsureYearFails => UNCHANGED <<bars, checkpoint, asOf>> /\ pc' # "mark"
    BY DEF EnsureYear, EnsureYearFails, CalendarDone, ReturnError,
           ImportDaily, ImportDailyFails, After, Daily, Stop, DatabaseFails, Start, Begin, End,
           ImportCorporateActions, AssetDone, Asset, Month
  <2> QED
    BY <2>1, <2>2, <2>3, <2>4, <2>5, <2>6, <2>7 DEF Next, Step
<1>3. LateDaysInv => OnlyLateDaysAreMissed
  BY DEF LateDaysInv
<1> QED BY <1>1, <1>2, <1>3, Typing, PTL DEF Spec
------------------------------------------------------------------------------
\* The failures of a source in this catch-up are counted by its limiter, up to MaxFails,
\* and the requests before the loop are few: those for earlier years, then a few more.
Left == Cardinality(years \ {YearOf[today]})
Asked == Cardinality(YearsAsked(today))

CountInv ==
  \A s \in Markets :
    /\ fails[s] < MaxFails => streak[s] <= fails[s]
    /\ pc = "idle" => streak[s] = 0
    /\ pc = "fetch" => streak[MarketOf[Order[next]]] < MaxFails

FewInv ==
  /\ pc = "calendar" => streak["TWSE"] + Left < Asked
  /\ pc = "TWSE" => streak["TWSE"] < Asked
  /\ pc \in {"TPEX", "actions"} => streak["TWSE"] <= Asked
  /\ pc \in {"calendar", "TWSE", "TPEX"} => streak["TPEX"] = 0

StreakInv == CountInv /\ FewInv /\ BlockedSourceIsLeftAlone

\* There are finitely many years, and one catch-up asks for its own.
LEMMA YearsCounted ==
  ASSUME TypeOK
  PROVE  /\ Asked \in Nat /\ Left \in Nat
         /\ \A t \in Days :
              /\ Cardinality(YearsAsked(t)) \in Nat
              /\ Cardinality(YearsAsked(t) \ {YearOf[t]}) \in Nat
              /\ Cardinality(YearsAsked(t) \ {YearOf[t]}) + 1 = Cardinality(YearsAsked(t))
         /\ \A y \in years \ {YearOf[today]} :
              /\ Cardinality((years \ {y}) \ {YearOf[today]}) = Left - 1
              /\ Left - 1 \in Nat
<1>1. Years \in SUBSET Nat /\ LastDay \in Days /\ \A y \in Years : y <= YearOf[LastDay]
  <2>1. LastDay \in Days /\ \A d \in Days : d <= LastDay
    BY FirstYears, CalendarAssumption DEF Days
  <2> QED BY <2>1, CalendarAssumption DEF Years
<1>2. IsFiniteSet(Years)
  <2>1. YearOf[LastDay] \in Nat
    BY <1>1, CalendarAssumption
  <2> QED BY <1>1, <2>1, FS_BoundedSetOfNaturals
<1>3. ASSUME NEW t \in Days
      PROVE  /\ IsFiniteSet(YearsAsked(t)) /\ Cardinality(YearsAsked(t)) \in Nat
             /\ Cardinality(YearsAsked(t) \ {YearOf[t]}) \in Nat
             /\ Cardinality(YearsAsked(t) \ {YearOf[t]}) + 1 = Cardinality(YearsAsked(t))
  <2>1. YearsAsked(t) \in SUBSET Years /\ YearOf[t] \in YearsAsked(t)
    BY AskedYears
  <2>2. IsFiniteSet(YearsAsked(t))
    BY ONLY <1>2, <2>1, FS_Subset
  <2>3. Cardinality(YearsAsked(t)) \in Nat
    BY ONLY <2>2, FS_CardinalityType
  <2>4. Cardinality(YearsAsked(t) \ {YearOf[t]}) = Cardinality(YearsAsked(t)) - 1
    BY ONLY <2>1, <2>2, FS_RemoveElement
  <2>5. Cardinality(YearsAsked(t) \ {YearOf[t]}) \in Nat
    BY ONLY <2>2, FS_RemoveElement, FS_CardinalityType
  <2> QED BY <2>2, <2>3, <2>4, <2>5
<1> DEFINE rest == years \ {YearOf[today]}
<1>4. today \in Days
  BY FirstYears
<1>5. IsFiniteSet(rest) /\ Left = Cardinality(rest) /\ Left \in Nat
  <2>1. rest \in SUBSET YearsAsked(today) /\ IsFiniteSet(YearsAsked(today))
    BY <1>3, <1>4 DEF TypeOK
  <2>2. IsFiniteSet(rest)
    BY ONLY <2>1, FS_Subset
  <2>3. Cardinality(rest) \in Nat
    BY ONLY <2>2, FS_CardinalityType
  <2> QED BY <2>2, <2>3 DEF Left
<1>6. ASSUME NEW y \in rest
      PROVE  /\ Cardinality((years \ {y}) \ {YearOf[today]}) = Left - 1
             /\ Left - 1 \in Nat
  <2>1. Cardinality(rest \ {y}) = Cardinality(rest) - 1
    BY ONLY <1>5, <1>6, FS_RemoveElement
  <2>2. (years \ {y}) \ {YearOf[today]} = rest \ {y}
    OBVIOUS
  <2>3. Cardinality(rest \ {y}) \in Nat
    BY ONLY <1>5, FS_RemoveElement, FS_CardinalityType
  <2> QED BY <1>5, <2>1, <2>2, <2>3
<1> QED BY <1>3, <1>4, <1>5, <1>6 DEF Asked

\* BlockedSourceIsLeftAlone, for one bound.
Bound == Larger(MaxFails, Asked + 1)

LEMMA Bounds ==
  ASSUME TypeOK
  PROVE  /\ Bound \in Nat /\ MaxFails <= Bound /\ Asked + 1 <= Bound
         /\ BlockedSourceIsLeftAlone <=> streak["TWSE"] <= Bound /\ streak["TPEX"] <= MaxFails
  BY YearsCounted, CalendarAssumption DEF Bound, Larger, BlockedSourceIsLeftAlone, Asked

\* What one request does to the counts of its source and of the other one.
LEMMA OneRequest ==
  ASSUME TypeOK, CountInv, NEW s \in Markets, ComesToNothing(s) \/ ReportSuccess(s)
  PROVE  \A t \in Markets :
           /\ fails'[t] < MaxFails => streak'[t] <= fails'[t]
           /\ streak'[t] \in Nat
           /\ streak'[t] <= IF t = s THEN streak[t] + 1 ELSE streak[t]
           /\ t = s /\ streak[s] < MaxFails => streak'[t] <= MaxFails
<1>0. /\ MaxFails \in Nat \ {0}
      /\ fails \in [Markets -> 0 .. MaxFails] /\ streak \in [Markets -> Nat]
  BY CalendarAssumption DEF TypeOK
<1>1. CASE ReportFailure(s)
  BY <1>0, <1>1 DEF ReportFailure, Counted, CountInv
<1>2. CASE ReportSuccess(s)
  BY <1>0, <1>2 DEF ReportSuccess, CountInv
<1>3. CASE UNCHANGED limiter
  BY <1>0, <1>3 DEF CountInv, limiter
<1> QED BY <1>1, <1>2, <1>3 DEF ComesToNothing

(* Whatever its limiter has counted before, one catch-up sends a source at  *)
(* most MaxFails failing requests in a row; and TWSE one for each year of   *)
(* its calendar and one more, when that is more.                            *)
THEOREM LeftAlone == Spec => []BlockedSourceIsLeftAlone
<1> USE DEF Markets
<1>1. TypeOK /\ Init => StreakInv
  <2> SUFFICES ASSUME TypeOK, Init PROVE StreakInv
    OBVIOUS
  <2>1. Cardinality(YearsAsked(1)) \in Nat
    BY FirstYears, YearsCounted
  <2> QED
    BY <2>1, CalendarAssumption
    DEF Init, StreakInv, CountInv, FewInv, BlockedSourceIsLeftAlone, Larger
<1>2. TypeOK /\ TypeOK' /\ StreakInv /\ [Next]_vars => StreakInv'
  <2> SUFFICES ASSUME TypeOK, TypeOK', StreakInv, [Next]_vars PROVE StreakInv'
    OBVIOUS
  <2> USE DEF clock, process, cursor, limiter, tables
  <2>0. /\ MaxFails \in Nat \ {0}
        /\ fails \in [Markets -> 0 .. MaxFails] /\ streak \in [Markets -> Nat]
        /\ Asked \in Nat /\ Left \in Nat
        /\ Bound \in Nat /\ MaxFails <= Bound /\ Asked + 1 <= Bound
        /\ streak["TWSE"] <= Bound /\ streak["TPEX"] <= MaxFails
        /\ CountInv /\ FewInv
    BY Bounds, YearsCounted, CalendarAssumption DEF TypeOK, StreakInv
  <2>1. CASE UNCHANGED <<pc, next, today, years, limiter>>
    BY <2>1 DEF StreakInv, CountInv, FewInv, BlockedSourceIsLeftAlone, Left, Asked
  <2>2. CASE End /\ UNCHANGED clock /\ fails' \in [Markets -> Nat]
    <3>1. streak' = [s \in Markets |-> 0] /\ pc' = "idle" /\ today' = 1
      BY <2>2 DEF End
    <3>2. Cardinality(YearsAsked(1)) \in Nat
      BY FirstYears, YearsCounted
    <3> QED
      BY <2>0, <2>2, <3>1, <3>2 DEF StreakInv, CountInv, FewInv, BlockedSourceIsLeftAlone, Larger
  <2>3. CASE pc = "idle" /\ Begin /\ UNCHANGED <<clock, fails>>
    <3>1. /\ pc' = "calendar" /\ today' = day /\ years' = YearsAsked(day) /\ streak' = streak
          /\ streak["TWSE"] = 0 /\ streak["TPEX"] = 0
      BY <2>0, <2>3 DEF Begin, CountInv
    <3> DEFINE all == Cardinality(YearsAsked(day))
               earlier == Cardinality(YearsAsked(day) \ {YearOf[day]})
    <3>2. earlier + 1 = all /\ earlier \in Nat /\ all \in Nat
      BY FirstYears, YearsCounted
    <3>3. Left' = earlier /\ Asked' = all
      BY <3>1 DEF Left, Asked
    <3>4. BlockedSourceIsLeftAlone'
      BY <2>0, <3>1, <3>2 DEF BlockedSourceIsLeftAlone, Larger
    <3> HIDE DEF all, earlier
    <3>5. FewInv'
      <4>1. pc' = "calendar" /\ streak'["TWSE"] = 0 /\ streak'["TPEX"] = 0
        BY <3>1
      <4>2. streak'["TWSE"] + Left' < Asked'
        BY <3>2, <3>3, <4>1
      <4> QED BY <4>1, <4>2 DEF FewInv
    <3>6. CountInv'
      BY <2>0, <2>3, <3>1 DEF CountInv
    <3> QED BY <3>4, <3>5, <3>6 DEF StreakInv
  <2>4. ASSUME UNCHANGED today, CountInv', FewInv',
               streak'["TWSE"] <= Bound, streak'["TPEX"] <= MaxFails
        PROVE  StreakInv'
    BY <2>4 DEF StreakInv, BlockedSourceIsLeftAlone, Bound, Asked
  <2>5. UNCHANGED today => Asked' = Asked
    BY DEF Asked
  <2>6. CASE EnsureYear \/ EnsureYearFails
    <3> DEFINE cur == YearOf[today]
    <3>1. PICK y \in years :
            /\ years' = years \ {y} /\ UNCHANGED <<today, next>> /\ pc = "calendar"
            /\ \/ pc' = "calendar" /\ (UNCHANGED limiter \/ ReportSuccess("TWSE"))
               \/ /\ pc' = IF y = cur THEN "error" ELSE "calendar"
                  /\ ComesToNothing("TWSE") \/ ReportSuccess("TWSE")
      BY <2>6 DEF EnsureYear, EnsureYearFails
    <3>2. /\ streak'["TWSE"] \in Nat /\ streak'["TPEX"] = 0
          /\ streak'["TWSE"] <= streak["TWSE"] + 1
          /\ UNCHANGED limiter \/ ReportSuccess("TWSE") => streak'["TWSE"] <= streak["TWSE"]
      <4>1. CASE UNCHANGED limiter
        BY <2>0, <3>1, <4>1 DEF FewInv
      <4>2. CASE ReportSuccess("TWSE")
        BY <2>0, <3>1, <4>2 DEF ReportSuccess, FewInv
      <4>3. CASE ComesToNothing("TWSE")
        BY <2>0, <3>1, <4>3, OneRequest DEF FewInv, ReportSuccess
      <4> QED BY <3>1, <4>1, <4>2, <4>3
    <3>3. CountInv'
      <4>1. \A t \in Markets : fails'[t] < MaxFails => streak'[t] <= fails'[t]
        BY <2>0, <3>1, OneRequest DEF CountInv
      <4> QED BY <3>1, <4>1 DEF CountInv
    <3>4. Left' = IF y = cur THEN Left ELSE Left - 1
      <4>1. CASE y = cur
        <5>1. (years \ {y}) \ {cur} = years \ {cur}
          BY <4>1
        <5> QED BY <3>1, <4>1, <5>1 DEF Left
      <4>2. CASE y # cur
        BY <3>1, <4>2, YearsCounted DEF Left
      <4> QED BY <4>1, <4>2
    <3>5. streak["TWSE"] + Left < Asked /\ streak["TWSE"] \in Nat /\ Left' \in Nat
      BY <2>0, <3>1, <3>4, YearsCounted DEF FewInv
    <3>6. FewInv' /\ streak'["TWSE"] <= Bound
      <4>1. pc' = "calendar" => streak'["TWSE"] + Left' < Asked
        BY <2>0, <3>1, <3>2, <3>4, <3>5
      <4>2. pc' \in {"calendar", "error"} /\ Asked' = Asked /\ streak'["TWSE"] <= Asked
        BY <2>0, <2>5, <3>1, <3>2, <3>5
      <4> QED BY <2>0, <3>2, <4>1, <4>2 DEF FewInv
    <3> QED BY <2>0, <2>4, <3>1, <3>2, <3>3, <3>6
  <2>7. CASE CalendarDone
    BY <2>0, <2>4, <2>5, <2>7 DEF CalendarDone, CountInv, FewInv
  <2>8. ASSUME NEW s \in Markets, ImportDaily(s) \/ ImportDailyFails(s) PROVE StreakInv'
    <3>1. /\ pc = s /\ pc' = After(s) /\ (ComesToNothing(s) \/ ReportSuccess(s))
          /\ UNCHANGED <<next, today>>
      BY <2>8 DEF ImportDaily, ImportDailyFails
    <3> QED BY <2>0, <2>4, <2>5, <3>1, OneRequest DEF After, CountInv, FewInv
  <2>9. CASE ImportCorporateActions
    <3>1. /\ pc = "actions" /\ pc' \in {"asset", "error"} /\ ComesToNothing("TWSE")
          /\ UNCHANGED today
      BY <2>9 DEF ImportCorporateActions
    <3> QED BY <2>0, <2>4, <2>5, <3>1, OneRequest DEF CountInv, FewInv
  <2>10. CASE Asset /\ ~End
    BY <2>0, <2>4, <2>5, <2>10 DEF Asset, CountInv, FewInv
  <2>11. CASE Month /\ ~End
    <3>1. streak[MarketOf[Order[next]]] < MaxFails
      <4> DEFINE s == MarketOf[Order[next]]
      <4>1. s \in Markets /\ fails[s] \in 0 .. MaxFails /\ streak[s] \in Nat
        BY <2>0, <2>11, Request DEF Month
      <4>2. fails[s] < MaxFails
        BY <2>0, <2>11, <4>1 DEF Month, Paused
      <4> QED BY <2>0, <4>1, <4>2 DEF CountInv
    <3> QED BY <2>0, <2>4, <2>5, <2>11, <3>1 DEF Month, CountInv, FewInv
  <2>12. CASE AssetDone
    BY <2>0, <2>4, <2>5, <2>12 DEF AssetDone, CountInv, FewInv
  <2>13. CASE Backfill \/ BackfillFails
    <3> DEFINE s == MarketOf[Order[next]]
    <3>1. s \in Markets /\ streak[s] < MaxFails
      BY <2>0, <2>13, Request DEF Backfill, BackfillFails, CountInv
    <3>2. (ComesToNothing(s) \/ ReportSuccess(s)) /\ pc' = "mark" /\ UNCHANGED today
      BY <2>13 DEF Backfill, BackfillFails
    <3> QED BY <2>0, <2>4, <2>5, <3>1, <3>2, OneRequest DEF CountInv, FewInv
  <2>14. CASE Mark
    BY <2>0, <2>4, <2>5, <2>14 DEF Mark, CountInv, FewInv
  <2>15. CASE SyncSecurities \/ SyncCalendar
    <3>1. UNCHANGED <<pc, next, today, years>>
      BY <2>15 DEF SyncSecurities, SyncCalendar
    <3>2. \A s \in Markets :
            (streak'[s] = streak[s] /\ fails'[s] >= fails[s]) \/ streak'[s] = 0
      BY <2>0, <2>15 DEF SyncSecurities, SyncCalendar, ReportSuccess, Counted
    <3>3. pc = "fetch" => MarketOf[Order[next]] \in Markets
      BY Request
    <3>4. fails' \in [Markets -> 0 .. MaxFails] /\ streak' \in [Markets -> Nat]
      BY DEF TypeOK
    <3>5. CountInv'
      BY <2>0, <3>1, <3>2, <3>3, <3>4 DEF CountInv
    <3>6. Left' = Left /\ Asked' = Asked
      BY <3>1 DEF Left, Asked
    <3>7. FewInv' /\ streak'["TWSE"] <= Bound /\ streak'["TPEX"] <= MaxFails
      BY <2>0, <3>1, <3>2, <3>4, <3>6 DEF FewInv
    <3> QED BY <2>4, <3>1, <3>5, <3>7
  <2>16. /\ (Tick \/ UNCHANGED vars) => UNCHANGED <<pc, next, today, years, limiter>>
         /\ Start => \/ UNCHANGED <<pc, next, today, years, limiter>>
                     \/ (pc = "idle" /\ Begin /\ UNCHANGED <<clock, fails>>)
         /\ Daily => pc = "idle" /\ Begin /\ UNCHANGED <<clock, fails>>
         /\ DatabaseFails \/ ReturnError => End /\ UNCHANGED <<clock, fails>>
         /\ Stop => End /\ UNCHANGED clock /\ fails' = [s \in Markets |-> 0]
         /\ Asset \/ Month => UNCHANGED <<clock, fails>>
    BY DEF Tick, vars, Start, Daily, DatabaseFails, ReturnError, Stop, Asset, Month, TypeOK
  <2>17. (UNCHANGED fails \/ fails' = [s \in Markets |-> 0]) => fails' \in [Markets -> Nat]
    BY <2>0
  <2> QED
    BY <2>1, <2>2, <2>3, <2>6, <2>7, <2>8, <2>9, <2>10, <2>11, <2>12, <2>13, <2>14, <2>15,
       <2>16, <2>17 DEF Next, Step
<1>3. StreakInv => BlockedSourceIsLeftAlone
  BY DEF StreakInv
<1> QED BY <1>1, <1>2, <1>3, Typing, PTL DEF Spec
==============================================================================
