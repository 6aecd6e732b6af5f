------------------------------- MODULE CatchUp -------------------------------
(***************************************************************************)
(* The market data worker: cmd/worker/main.go, and in internal/marketdata  *)
(* RunCatchUp and what it calls (backfill.go), the daily snapshots         *)
(* (twse_importer.go, corporate_actions.go) and the limiter of each source *)
(* (ratelimit.go).  A catch-up completes the trading calendar              *)
(* (calendar.go), imports today's snapshots, then asks for every month in  *)
(* which a tracked asset misses a trading day, and records per month how   *)
(* that went.  The clock, the sources and the process (which may stop at   *)
(* any point) run beside it.                                               *)
(*                                                                         *)
(* Prices are abstracted away: a bar is the pair of its asset and its day. *)
(***************************************************************************)
EXTENDS Naturals, Sequences, FiniteSets

CONSTANTS
  Assets,         \* the tracked assets
  Order,          \* the tracked assets in the order of their symbols
  Code,           \* the symbol of an asset
  MarketOf,       \* its market
  Ledgered,       \* the first trade date of the assets that have one
  StartDay,       \* BOUND: the clock starts here, with an empty database
  LastDay,        \* BOUND: and stops here
  OpenDays,       \* the days on which the exchange trades
  MonthOf,        \* the month of a day
  YearOf,         \* its year
  FirstDay,       \* stockDayMinDate, the first day TWSE can be asked for
  Quoted,         \* the bars the sources have once the day has closed
  Window,         \* BackfillMonths, in days
  MaxFails,       \* maxConsecutiveFails
  ImportOnStart,  \* MARKET_IMPORT_ON_START
  WeeklyDays,     \* BOUND: the days on which the weekly job runs
  MaxStops        \* BOUND: how often the process stops or the database fails

Days == 1 .. LastDay
Months == {MonthOf[d] : d \in Days}
Years == {YearOf[d] : d \in Days}
Markets == {"TWSE", "TPEX"}
Codes == {Code[a] : a \in Assets}
Marks == {"none", "succeeded", "failed", "unrecoverable"}

ASSUME TrackedAssumption ==
  /\ Order \in Seq(Assets)
  /\ \A a \in Assets : \E i \in DOMAIN Order : Order[i] = a
  /\ MarketOf \in [Assets -> Markets]
  /\ Code \in [Assets -> Codes]
  /\ DOMAIN Ledgered \subseteq Assets /\ \A a \in DOMAIN Ledgered : Ledgered[a] \in Nat

\* Not so for the database, where assets are unique per market and symbol.
DistinctCodes == \A a1, a2 \in Assets : Code[a1] = Code[a2] => a1 = a2

ASSUME CalendarAssumption ==
  /\ LastDay \in Nat /\ StartDay \in Days
  /\ Window \in Nat /\ MaxFails \in Nat \ {0} /\ MaxStops \in Nat
  /\ OpenDays \subseteq Days /\ WeeklyDays \subseteq Days
  /\ MonthOf \in [Days -> Nat] /\ YearOf \in [Days -> Nat] /\ FirstDay \in Nat \ {0}
  /\ \A d, e \in Days : d <= e => MonthOf[d] <= MonthOf[e] /\ YearOf[d] <= YearOf[e]
  /\ Quoted \subseteq Assets \X OpenDays

VARIABLES
  day, closed,    \* the date in Taipei, and whether its prices are out
  up, stops,      \* the process
  pc,             \* where the one catch-up is ("idle": catchUpMu is free)
  today,          \* its copy of the date
  years,          \* the years of the calendar it has yet to look at
  next,           \* the asset it is at, an index of Order
  gaps,           \* the months of that asset it has yet to look at
  month, result,  \* the month it asks for and how that went
  fails,          \* consecutiveFails of each limiter
  calendar,       \* trading_calendar: the years that are in it
  bars,           \* market_daily_bars
  checkpoint,     \* backfill_checkpoints: its key has no market
  asked, asOf,    \* history: the last day that was out when a month was answered
  streak          \* history: what failed in this catch-up since the source last answered

clock == <<day, closed>>
process == <<up, stops>>
cursor == <<pc, today, years, next, gaps, month, result, asked>>
limiter == <<fails, streak>>
tables == <<calendar, bars, checkpoint, asOf>>
vars == <<clock, process, cursor, limiter, tables>>

\* The last day whose prices the sources have.
Out == IF closed THEN day ELSE day - 1

\* A month is asked for by its first day.  TWSE answers that this is earlier than its
\* data when the month begins before FirstDay, whatever it has of the rest.
Early(a, m) == MarketOf[a] = "TWSE" /\ \E d \in Days : d < FirstDay /\ MonthOf[d] = m

\* The bars a source would answer with for one asset and month.
Answer(a, m) == {b \in Quoted : b[1] = a /\ MonthOf[b[2]] = m /\ b[2] <= Out /\ ~Early(a, m)}

Init ==
  /\ day = StartDay /\ closed = FALSE /\ up = FALSE /\ stops = 0
  /\ pc = "idle" /\ today = 1 /\ years = {} /\ next = 1 /\ gaps = {}
  /\ month = MonthOf[1] /\ result = "none" /\ asked = 0
  /\ fails = [s \in Markets |-> 0] /\ streak = [s \in Markets |-> 0]
  /\ calendar = {} /\ bars = {}
  /\ checkpoint = [k \in Codes \X Months |-> "none"]
  /\ asOf = [k \in Codes \X Months |-> 0]
------------------------------------------------------------------------------
\* The clock: the exchange closes, the next day comes.
Tick ==
  /\ \/ ~closed /\ closed' = TRUE /\ day' = day
     \/ closed /\ day < LastDay /\ day' = day + 1 /\ closed' = FALSE
  /\ UNCHANGED <<process, cursor, limiter, tables>>

\* backfillStartDate: from the first trade or from today, Window days back.
BackfillStart(a, t) ==
  LET from == IF a \in DOMAIN Ledgered THEN Ledgered[a] ELSE t
  IN  IF from >= Window + FirstDay THEN from - Window ELSE FirstDay

\* The years from the earliest of these days to today.
YearsAsked(t) ==
  {YearOf[d] : d \in {e \in Days : e <= t /\ (e = t \/ \E a \in Assets : BackfillStart(a, t) <= e)}}

\* RunCatchUp begins with the date and the tracked assets.
Begin ==
  /\ pc' = "calendar" /\ today' = day /\ years' = YearsAsked(day)
  /\ UNCHANGED <<next, gaps, month, result, asked, streak>>

\* It ends, and its variables with it.
End ==
  /\ pc' = "idle" /\ today' = 1 /\ years' = {} /\ next' = 1 /\ gaps' = {}
  /\ month' = MonthOf[1] /\ result' = "none" /\ asked' = 0
  /\ streak' = [s \in Markets |-> 0]

\* The process starts, with a catch-up if so configured.
Start ==
  /\ ~up /\ up' = TRUE
  /\ IF ImportOnStart THEN Begin ELSE UNCHANGED <<cursor, streak>>
  /\ UNCHANGED <<clock, stops, fails, tables>>

Known(d) == YearOf[d] \in calendar

\* The daily job: after the close of a trading day, or of any day if the calendar does
\* not have it, unless a catch-up is running.
\* On LastDay it stands for the jobs of all later days.
Daily ==
  /\ up /\ closed /\ (Known(day) => day \in OpenDays) /\ pc = "idle"
  /\ Begin
  /\ UNCHANGED <<clock, process, fails, tables>>

\* The process stops, at any point: a signal, a crash.  Its limiters go with it.
Stop ==
  /\ up /\ stops < MaxStops
  /\ up' = FALSE /\ stops' = stops + 1
  /\ End /\ fails' = [s \in Markets |-> 0]
  /\ UNCHANGED <<clock, tables>>
------------------------------------------------------------------------------
\* The limiter.  Only fails >= MaxFails is ever asked, so it stops counting there.
Counted(s) == IF fails[s] < MaxFails THEN fails[s] + 1 ELSE MaxFails

ReportFailure(s) ==
  /\ fails' = [fails EXCEPT ![s] = Counted(s)]
  /\ streak' = [streak EXCEPT ![s] = streak[s] + 1]

\* Variant: success ends the waiting, and the count goes on.
ReportSuccessWithoutReset(s) ==
  /\ streak' = [streak EXCEPT ![s] = 0]
  /\ UNCHANGED fails

ReportSuccess(s) ==
  /\ fails' = [fails EXCEPT ![s] = 0]
  /\ streak' = [streak EXCEPT ![s] = 0]

\* A request comes to nothing: the source fails, its good answer is odd or cannot
\* be saved, or the database fails before the request is sent.
ComesToNothing(s) == ReportFailure(s) \/ ReportSuccess(s) \/ UNCHANGED limiter

\* Variant: paused by the time of the backoff, which the last Wait has slept through.
PausedUntil(s) == FALSE

Paused(s) == fails[s] >= MaxFails

\* The weekly job runs beside a catch-up and shares the limiters.  SyncSecuritiesList
\* asks TWSE, then TPEx if that went well, and adds no tracked asset.
SyncSecurities ==
  /\ day \in WeeklyDays /\ up
  /\ \/ fails' = [fails EXCEPT !["TWSE"] = Counted("TWSE")] /\ UNCHANGED streak
     \/ /\ fails' = [fails EXCEPT !["TWSE"] = 0, !["TPEX"] = Counted("TPEX")]
        /\ streak' = [streak EXCEPT !["TWSE"] = 0]
     \/ fails' = [s \in Markets |-> 0] /\ streak' = [s \in Markets |-> 0]
  /\ UNCHANGED <<clock, process, cursor, tables>>

\* Then it makes sure of the calendar of the year, in the last month of the next one too.
DueYears ==
  LET last == \A d \in Days : YearOf[d] = YearOf[day] => MonthOf[d] <= MonthOf[day]
  IN  {y \in Years : y = YearOf[day] \/ (last /\ y = YearOf[day] + 1)}

SyncCalendar ==
  /\ day \in WeeklyDays /\ up
  /\ \E y \in DueYears \ calendar :
       \/ /\ fails' = [fails EXCEPT !["TWSE"] = Counted("TWSE")]
          /\ UNCHANGED <<streak, calendar>>
       \/ /\ ReportSuccess("TWSE")
          /\ calendar' \in {calendar, calendar \union {y}}
  /\ UNCHANGED <<clock, process, cursor, bars, checkpoint, asOf>>

\* EnsureCalendarYear for the earliest year left: a year that is there is not asked for.
\* Neither here nor before the snapshots does anybody ask whether the source is paused.
EarliestLeft(y) == y \in years /\ \A z \in years : y <= z

EnsureYear ==
  /\ pc = "calendar"
  /\ \E y \in years :
       /\ EarliestLeft(y) /\ years' = years \ {y}
       /\ \/ y \in calendar /\ UNCHANGED <<limiter, calendar>>
          \/ y \notin calendar /\ ReportSuccess("TWSE") /\ calendar' = calendar \union {y}
  /\ UNCHANGED <<clock, process, pc, today, next, gaps, month, result, asked, bars, checkpoint, asOf>>

\* It fails, or the ingestion run of a saved year fails to close: a warning for an
\* earlier year, the end of the catch-up for the current one.
EnsureYearFails ==
  /\ pc = "calendar"
  /\ \E y \in years \ calendar :
       /\ EarliestLeft(y) /\ years' = years \ {y}
       /\ \/ ComesToNothing("TWSE") /\ UNCHANGED calendar
          \/ ReportSuccess("TWSE") /\ calendar' = calendar \union {y}
       /\ pc' = IF y = YearOf[today] THEN "error" ELSE "calendar"
  /\ UNCHANGED <<clock, process, today, next, gaps, month, result, asked, bars, checkpoint, asOf>>

CalendarDone ==
  /\ pc = "calendar" /\ years = {}
  /\ pc' = "TWSE"
  /\ UNCHANGED <<clock, process, today, years, next, gaps, month, result, asked, limiter, tables>>

\* RunCatchUp returns the error of a step.
ReturnError ==
  /\ pc = "error"
  /\ End
  /\ UNCHANGED <<clock, process, fails, tables>>

\* Variant: today's rows are taken before the prices are final.
SnapshotOfToday(s) == {b \in Quoted : MarketOf[b[1]] = s /\ b[2] = day}

\* The bars in the snapshot of a market: those of the last trading day that is out.
Snapshot(s) ==
  LET last == {d \in OpenDays : d <= Out /\ \A e \in OpenDays : e <= Out => e <= d}
  IN  {b \in Quoted : MarketOf[b[1]] = s /\ b[2] \in last}

After(s) == IF s = "TWSE" THEN "TPEX" ELSE "actions"

\* ImportTWSEDailyAll, ImportTPExDailyAll: a failure does not stop the catch-up.
ImportDaily(s) ==
  /\ pc = s
  /\ ReportSuccess(s)
  /\ bars' = bars \union Snapshot(s)
  /\ pc' = After(s)
  /\ UNCHANGED <<clock, process, today, years, next, gaps, month, result, asked, calendar, checkpoint, asOf>>

ImportDailyFails(s) ==
  /\ pc = s
  /\ ComesToNothing(s)
  /\ pc' = After(s)
  /\ UNCHANGED <<clock, process, today, years, next, gaps, month, result, asked, tables>>

\* ImportTWSECorporateActions, good or bad, is a request to the same source.  Then the
\* loop begins, if the calendar has a LastOpenTradingDay.
ImportCorporateActions ==
  /\ pc = "actions"
  /\ ComesToNothing("TWSE")
  /\ pc' = IF \E d \in OpenDays : Known(d) /\ d <= today THEN "asset" ELSE "error"
  /\ next' = 1 /\ gaps' = {}
  /\ UNCHANGED <<clock, process, today, years, month, result, asked, tables>>
------------------------------------------------------------------------------
\* TradingDaysBetween(backfillStartDate, LastOpenTradingDay(today)).
Required(a, t) == {d \in OpenDays : Known(d) /\ BackfillStart(a, t) <= d /\ d <= t}

MissingMonths(a, t) == {MonthOf[d] : d \in {e \in Required(a, t) : <<a, e>> \notin bars}}

\* shouldFetchMonth
ShouldFetch(mark, m, t) ==
  mark \in {"none", "failed"} \/ (mark = "succeeded" /\ m >= MonthOf[t])

\* The head of the outer loop.  A paused source ends the whole catch-up.
Asset ==
  /\ pc = "asset"
  /\ IF next > Len(Order) \/ Paused(MarketOf[Order[next]])
       THEN End
       ELSE /\ pc' = "month" /\ gaps' = MissingMonths(Order[next], today)
            /\ UNCHANGED <<today, years, next, month, result, asked, streak>>
  /\ UNCHANGED <<clock, process, fails, tables>>

\* The head of the inner loop: the earliest month left, asked for or skipped.
Month ==
  /\ pc = "month" /\ gaps # {}
  /\ IF Paused(MarketOf[Order[next]])
       THEN End
       ELSE \E m \in gaps :
              /\ \A n \in gaps : m <= n
              /\ gaps' = gaps \ {m}
              /\ IF ShouldFetch(checkpoint[<<Code[Order[next]], m>>], m, today)
                   THEN pc' = "fetch" /\ month' = m
                   ELSE UNCHANGED <<pc, month>>
              /\ UNCHANGED <<today, years, next, result, asked, streak>>
  /\ UNCHANGED <<clock, process, fails, tables>>

\* No month left: the next asset.
AssetDone ==
  /\ pc = "month" /\ gaps = {}
  /\ pc' = "asset" /\ next' = next + 1
  /\ UNCHANGED <<clock, process, today, years, gaps, month, result, asked, limiter, tables>>

\* Variant: the current month is given up as well.
EmptyMarkOfAnyMonth(m) == "unrecoverable"

\* A month without any row: past months are given up, by the date of now.
EmptyMark(m) == IF m < MonthOf[day] THEN "unrecoverable" ELSE "succeeded"

\* How the answer for a month is marked.  What is too early is given up; rows need not
\* hold a price, and the ingestion run of saved bars may fail to close.
Outcomes(a, m) ==
  IF Early(a, m) THEN {"unrecoverable"}
  ELSE IF Answer(a, m) = {} THEN {EmptyMark(m), "succeeded"} ELSE {"succeeded", "failed"}

\* BackfillSymbolMonth gets an answer and saves its bars in one transaction.
Backfill ==
  LET asset == Order[next]
  IN  /\ pc = "fetch"
      /\ ReportSuccess(MarketOf[asset])
      /\ bars' = bars \union Answer(asset, month)
      /\ result' \in Outcomes(asset, month)
      /\ asked' = Out /\ pc' = "mark"
      /\ UNCHANGED <<clock, process, today, years, next, gaps, month, calendar, checkpoint, asOf>>

\* Variant: the error of saving is dropped.
BackfillFailsUnnoticed ==
  /\ pc = "fetch"
  /\ ComesToNothing(MarketOf[Order[next]])
  /\ result' = "succeeded" /\ asked' = Out /\ pc' = "mark"
  /\ UNCHANGED <<clock, process, today, years, next, gaps, month, tables>>

BackfillFails ==
  /\ pc = "fetch"
  /\ ComesToNothing(MarketOf[Order[next]])
  /\ result' = "failed" /\ pc' = "mark"
  /\ UNCHANGED <<clock, process, today, years, next, gaps, month, asked, tables>>

\* markCheckpoint
Mark ==
  LET key == <<Code[Order[next]], month>>
  IN  /\ pc = "mark"
      /\ checkpoint' = [checkpoint EXCEPT ![key] = result]
      /\ asOf' = [asOf EXCEPT ![key] = asked]
      /\ pc' = "month" /\ month' = MonthOf[1] /\ result' = "none" /\ asked' = 0
      /\ UNCHANGED <<clock, process, today, years, next, gaps, limiter, calendar, bars>>

\* A query or the checkpoint fails: RunCatchUp returns the error.
DatabaseFails ==
  /\ pc \in {"calendar", "asset", "month", "mark"} /\ stops < MaxStops
  /\ stops' = stops + 1
  /\ End
  /\ UNCHANGED <<clock, up, fails, tables>>

\* What a running catch-up does next, however its requests end.
Step ==
  \/ EnsureYear \/ EnsureYearFails \/ CalendarDone \/ ReturnError
  \/ \E s \in Markets : ImportDaily(s) \/ ImportDailyFails(s)
  \/ ImportCorporateActions
  \/ Asset \/ Month \/ AssetDone
  \/ Backfill \/ BackfillFails \/ Mark

Next == Tick \/ Start \/ Daily \/ Stop \/ SyncSecurities \/ SyncCalendar \/ Step \/ DatabaseFails

Spec == Init /\ [][Next]_vars

(***************************************************************************)
(* The clock goes on, the process is started again, cron fires, and a      *)
(* catch-up that runs goes on: every wait in it is bounded, by the limiter *)
(* (an hour) or by the HTTP client (a minute).                             *)
(***************************************************************************)
Scheduled == WF_vars(Tick) /\ WF_vars(Start) /\ WF_vars(Daily) /\ WF_vars(Step)

\* ASSUMED of the sources: some day they are back, and what they answer can be saved.
Recover ==
  <>[][/\ \A s \in Markets : ImportDailyFails(s) => ImportDaily(s)
       /\ BackfillFails => Backfill
       /\ ImportCorporateActions => fails'["TWSE"] <= fails["TWSE"]
       /\ EnsureYearFails => EnsureYear /\ pc' = "calendar"
       /\ SyncSecurities \/ SyncCalendar => \A s \in Markets : fails'[s] <= fails[s]]_vars

FairSpec == Spec /\ Scheduled /\ Recover
------------------------------------------------------------------------------
PCs == {"idle", "calendar", "error", "TWSE", "TPEX", "actions", "asset", "month", "fetch", "mark"}

\* Types, and what the parts of the process agree on: only a started process runs
\* a catch-up, its date is not ahead of the clock, and bars are real and out.
TypeOK ==
  /\ day \in Days /\ closed \in BOOLEAN /\ up \in BOOLEAN /\ stops \in 0 .. MaxStops
  /\ pc \in PCs /\ (~up => pc = "idle")
  /\ today \in 1 .. day /\ years \subseteq YearsAsked(today) /\ next \in 1 .. Len(Order) + 1
  /\ (pc \in {"month", "fetch", "mark"} => next <= Len(Order))
  /\ gaps \subseteq Months /\ month \in Months
  /\ result \in Marks /\ (pc = "mark" => result # "none")
  /\ asked \in 0 .. Out
  /\ fails \in [Markets -> 0 .. MaxFails] /\ streak \in [Markets -> Nat]
  /\ calendar \subseteq Years /\ bars \subseteq {b \in Quoted : b[2] <= Out}
  /\ checkpoint \in [Codes \X Months -> Marks] /\ asOf \in [Codes \X Months -> 0 .. Out]

\* A month is marked unrecoverable, and so skipped for ever (shouldFetchMonth: the source
\* certainly has no data), only when no source will ever have a bar of it, but for the one
\* month TWSE refuses although its data begins in it (backfill.go:207, :220-226).
UnrecoverableMonthsAreEmpty ==
  \A a \in Assets, m \in Months :
    checkpoint[<<Code[a], m>>] = "unrecoverable" =>
      Early(a, m) \/ \A b \in Quoted : b[1] = a => MonthOf[b[2]] # m

\* A succeeded month lacks only bars that came out after it was last answered:
\* whatever fails or stops in between, an answered bar is stored or asked for again.
OnlyLateDaysAreMissed ==
  \A b \in Quoted \ bars :
    LET key == <<Code[b[1]], MonthOf[b[2]]>>
    IN  checkpoint[key] = "succeeded" => b[2] > asOf[key]

Larger(m, n) == IF m > n THEN m ELSE n

\* A source that fails is left alone: one catch-up sends it at most MaxFails failing
\* requests without an answer in between, whatever the weekly job asks beside it.  But
\* nothing before the loop over the assets asks whether it is paused: TWSE is sent a
\* request for each earlier year the calendar lacks and two more, whatever has failed.
BlockedSourceIsLeftAlone ==
  /\ streak["TWSE"] <= Larger(MaxFails, Cardinality(YearsAsked(today)) + 1)
  /\ streak["TPEX"] <= MaxFails

\* A bar that is out, that the worker requires and does not have.
Lacks(b) == b \in Quoted \ bars /\ BackfillStart(b[1], day) <= b[2] /\ b[2] <= Out
StillAsked(b) == ShouldFetch(checkpoint[<<Code[b[1]], MonthOf[b[2]]>>], MonthOf[b[2]], day)

\* However long the worker was down, every gap will be closed
\* (cmd/worker/main.go, the comment on the catch-up at the start).
DowntimeGapsStayOpen == \A b \in Quoted : Lacks(b) => StillAsked(b)

\* A gap that the catch-up would ask for does not stay one: it is filled or given up.
GapsClose == \A b \in Quoted : (Lacks(b) /\ StillAsked(b)) ~> ~(Lacks(b) /\ StillAsked(b))
==============================================================================
