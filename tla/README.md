# easy-invest: TLA+ models, checks and proofs

easy-invest keeps the ledger of a private investor on the Taiwanese market: an API server
(`cmd/server`, `internal/api`) over PostgreSQL, and a worker (`cmd/worker`) that imports market
data. This directory holds TLA+ modules of the parts whose behaviour is hard to test, TLC
configurations that check them on small instances, and TLAPS proofs of theorems about them for
every value of their constants. The source is the reference: every definition is translated from
the Go code, and `PROJECT.json` ("map") names its lines.

To check a module, `tlc -config X.cfg MCModule.tla`; to check its proofs, `tlapm ModuleProofs.tla`.

## Inventory

State lives in PostgreSQL (READ COMMITTED, a pool of eight connections per process,
`platform/db.go`). A request runs in a goroutine of its own and is cut off after 30 seconds
(`api/server.go`); stopping the server waits ten seconds (`cmd/server/main.go`). The worker keeps
only the limiter of each source and a mutex in memory.

| component | state | operations | hard behaviour | what makes it correct |
| --- | --- | --- | --- | --- |
| lot engine (`ledger/engine.go`) | lots, consumptions | consume FIFO, split, deduct, adjust | partial sales across splits; divisions | costs and shares are conserved |
| ledger service (`ledger/service.go`, `portfolio.go`) | events, lots, latest snapshot | CreateEvent, VoidEvent with rebuild, Portfolio, PortfolioHistory | backdated events, void of sold buys, statements while rows are read, overlapping transactions under READ COMMITTED | derived tables are what the active events amount to; no update is lost; a snapshot misses only what overlapped it |
| reconciliation (`reconcile/service.go`) | runs, differences | CreateRun, ResolveDiff | three transactions per resolution, races, lost answers, a lock on itself | resolved once and for good, adjustments traceable |
| idempotency (`api/idempotency.go`) | stored responses | lookup, handle, store | check then act, ignored errors | a repeat gives the first result |
| catch-up (`marketdata/backfill.go`, importers, `ratelimit.go`) | bars, checkpoints, limiters | RunCatchUp, SyncSecuritiesList | stops at any point, failing sources, a date that moves, shared limiters | gaps close; only empty months are given up |
| worker (`cmd/worker`) | mutex, cron | start, daily, weekly, backup | triggers that coincide | one catch-up at a time |
| calendar (`marketdata/calendar.go`) | open days | import a year, queries | years not yet published; requests past the pause of the source | gaps are judged by open days |
| freshness (`marketdata/freshness.go`) | none | lag in open days | nobody calls StaleTradingDays | old data is told |
| recommendation (`recommend/service.go`) | runs, items | CreateRun, UpdateItemStatus | inputs read in several transactions | a run names the portfolio it was computed from |
| strategy (`strategy/rebalance.go`, `twmarket/calc.go`) | none | Rebalance | cash rules, scaling, whole lots | the buffer is kept, targets are not overshot |
| backtest (`backtest/harness.go`, `walkforward.go` and others) | cash, positions, pending orders, curve | simulate, walk forward, store | orders that wait for the next day, bars that are missing, windows cut by index | no look-ahead, never spend what is not there, tests on unseen data |
| server (`api/server.go`, `middleware.go`, the handlers) | requests in flight | a handler: authentication, service, audit | 30 seconds, lost answers, ignored errors | every request is answered |
| authentication (`auth/service.go`) | users, API keys | register, log in, create, revoke, rotate | rotation in several statements, a key checked before it is revoked | a revoked key is dead, no key is active that nobody was told of |
| backups (`platform/backup.go`) | files | Backup, PruneBackups | overlapping jobs, file names by the second | the newest survive |
| pool, migrations (`platform/db.go`) | connections, a lock | acquire, migrate | holding one connection and asking for another | only the time limit of a few requests may be needed to go on |
| web interface (`web/`) | none the server needs | | | not modelled |

Components interact through the database and by calls: reconciliation calls the ledger
(CreateEvent, VoidEvent, Portfolio) on connections of its own, while it keeps one; recommendations
read portfolio and prices; every POST that creates passes the idempotency middleware; catch-up takes the first
trade dates of assets from the ledger; the weekly job shares the limiters with the catch-up.

`PROJECT.json` lists every component with its status and every hazard with its line.

## Modules

| module | models | depends on |
| --- | --- | --- |
| `Lots` | the lot engine and the replay of events, as operators on a book (lots, consumptions, error) | |
| `Ledger` | one user's ledger, one request after another: CreateEvent, VoidEvent, snapshot, history | `Lots`; refines `Position` |
| `Position` | abstract: share counts without lots | |
| `LedgerTx` | the transactions of the ledger statement by statement, overlapping, and the recommendations that read it | `Lots` |
| `Reconcile` | CreateRun and ResolveDiffWithInput, one database call per step | refines `Resolution` |
| `Resolution` | abstract: a difference is resolved once, an adjusted one names one event | |
| `Idempotency` | the middleware around any handler | |
| `Server` | requests as sequences of database calls over the pool, and the life of API keys | |
| `CatchUp` | the worker: clock, process, catch-up, limiters, tables | |
| `Strategy` | Rebalance with the estimates of fee and tax, as operators | |
| `Backtest` | the loop of Simulate, day by day and order by order | `Strategy`, `WalkForward` |
| `WalkForward` | the windows of a walk forward and the days they hold, as operators | |
| `MC*` | small instances for TLC | |
| `*Proofs` | theorems and their proofs | |

The ledger is modelled twice, at two grains: `Ledger` has every type of event and what a request does as
a whole, `LedgerTx` what its statements see when other requests run between them. Both apply events with the
operators of `Lots`. `Server` in turn treats a whole ledger transaction as one call, since what matters
there is who holds a connection.

### Lots and Ledger

An event is its position in the order of creation, which stands for `(created_at, id)`; a lot is
named by the event that opened it. Shares and money are integers, and instances use amounts that
divide exactly (a unit of 5040), so the rounding of decimal division is not modelled. `ConsumeLots`
gives the result of the Go loop in closed form: lot l gives what is left of the quantity when
the lots before it are exhausted. A request is one action (`CreateEvent`, `VoidEvent`), with
validation, lots, snapshot and commit; an error leaves everything as it was. `ConnBusy` says
whether the driver refuses statements while rows are read, which is how pgx behaves and
what rebuildLotsTx runs into (see the findings); the other runs set it to FALSE to see what a void
does once that is out of the way.

Dates are trade dates; a request may carry one earlier than those of events already there. Fees,
valuation and settlement dates do not reach the lots and are left out. The four
adjustment types of `types.go` are one, since the lots treat them alike.

### LedgerTx

`active`, `lots` and `cons` are what is committed; `wrote` is what an open transaction has written,
which `Commit` makes visible. A statement that locks rows first looks at what is committed
(`SelectLots`, `SelectConsumptions`: the rows in `todo`), then takes them one by one (`LockRow`),
waiting while another transaction has a row (`held`) and looking again when it has it, as PostgreSQL
does under READ COMMITTED. `openLotStatesTx` takes them in FIFO order, a DELETE in any order. An event is
its place in the order of `created_at`, which is the begin of the transaction; rolled back events keep a place
and are never active. A void that would apply an event that touches lots fails there
(`RebuildLots`), as the run LedgerVoidBusy shows it does. `Abort` is a failed statement, the end of the
context, or PostgreSQL ending a deadlock, at any point. Every type of event is there: those that open
a lot (`Opens`) insert it, the others that touch lots lock and update them (`Locks`). An adjustment of the adjusted cost does
so after its shares, with a second query of its transaction (`Recosts`, from `reselect` to `ApplyCost`;
`service.go:603`), which also sees what was committed since the first, and the lot it has just inserted. `seen`, `overlap` and `twice` are history
variables: what portfolios read, who committed meanwhile, and events with a second lot.

The variant `RebuildCollecting` is the repair of the refused void that suggests itself, reading the events to
the end before the first is applied. With it a void gives a second lot to a buy that commits between
its DELETE of the lots and its SELECT of the events (`service.go:717`): `LotsOfActiveEvents` fails.

### Reconcile

Per request: program counter, the event it booked, whether its context has ended. A step is one
statement or commit. What a transaction wrote shows when it commits (`Apply`); a row lock is read
off the program counters (`Holds`); the self-made wait of a compensation inside the open
transaction is the location `void_in_tx`, which only a time limit or failure ends. A failing call
may have committed (`CreateEventFails`, `Abort`); `Faulty` are the requests whose calls may fail by themselves,
the others fail only when their context has ended. `Gap` stands for the discrepancies between ledger
and broker, and `Closes` for what the comparison would no longer find: a dividend is
matched by any active cash dividend. A position would take an adjustment with figures, and the handler passes none
(`reconciliation_handlers.go:77-90`, `service.go:326-328`), so its event changes nothing and closes nothing.

### Idempotency

An attempt is one POST. Its handler commits or does not, and answers in one of four classes the
middleware tells apart. With `Loss`, any call may fail and the process may end between
the commit of the handler and the insert of the response.

### Server

A request is `todo`, the database calls it still has to make, in the order its handler and service make them.
A statement or a whole transaction takes a connection when one is free and gives it back, in one step. A
transaction that stays open over other calls keeps its connection (`kept`) from `begin` to `commit` or
`rollback`: CreateRun of a reconciliation (`service.go:227`, which computes the portfolio on the pool while
its own transaction is open) and the compensations of a resolution, which void its event. After a failed statement the
locks are gone and the void returns (`CompensateDiff`); after a lost race (`LoseRace`) it waits, on a second connection
(`blocked`), for the row its own transaction has written, until the time limit ends both. `Timeout` ends a request
at any point and rolls back what is open; when only calls are left whose errors are thrown away (the audit),
the request has succeeded. `Lost` is a call that took effect and whose answer did not arrive. Keys:
authentication reads the key, revocation sets it whatever it was, and rotation revokes, describes and inserts
in separate statements. The two calls of the idempotency middleware around a POST are left out: they take
a connection like any other call and keep none.

A rotation revokes the old key at once, whereas `docs/api-spec.md:67` promises the old one a grace period
(`KeysAreAccountedFor` says when a key is refused only of revocations, `docs/implementation-plan.md:104`);
the new key does not inherit its expiry. Rotating a key that is revoked, or that another request is rotating,
creates one more. What the model makes sure of is that no key stays active that its user was not told, unless the
request failed or was cut off: then an active key that nobody knows is left behind.

### CatchUp

`Tick` moves the clock, first to the close of a day and then to the next day. The process starts
and stops (`Start`, `Stop`); a catch-up is the cursor `pc`: the years the calendar lacks (`EnsureYear`), snapshot of TWSE, of TPEx, the
corporate actions, then per asset the missing months, per month `fetch` and `mark`. A request is a
step that ends well (`EnsureYear`, `ImportDaily`, `Backfill`) or comes to nothing, whatever the reason
(`ComesToNothing`: failure reported, good answer unusable, database). A year that fails is a warning, the
current one ends the catch-up (`error`). Open days are those of imported years (`Known`, `Required`). `asked`, `asOf` and `streak`
are history variables. Abstracted: prices and revisions (a bar is an asset and a day); a source has the bars of a day when that day closes;
the window of months is one of days; the weekly job is two steps, its list of securities (two requests, which
write different limiters) and each year of its calendar (`SyncCalendar`).

A month is asked for by its first day, and TWSE refuses what is earlier than its data (`Early`, `backfill.go:207` and
`:220-226`). `backfillStartDate` clamps to the first day it has, the 4th of January 2010, so this befalls
exactly that January: it is asked for as 20100101 and given up, although the source has bars of it.
Whether an empty month is past is decided by the local date of the process (`backfill.go:235`), which in the
compose file is that of UTC. The model has the date of Taipei for both and lets the mark of an empty month be
the one of the day before, too; behind Taipei a month is only given up later.

### Strategy and Backtest

`Strategy` has no state: `Rebalance(in)` is the sequence of orders for cash, shares, prices and targets.
Weights, the band and all rates are integers in 1/`Scale`, money is integral and quotients are exact,
whereas the code rounds them to 16 decimal places; a weight that lies exactly on a boundary may
therefore be treated differently. Advice that trades nothing (`hold`, `no_action`) is left out: the
simulation skips it, and an empty sequence of orders ends the day as one of such advice does.

`Backtest` is the loop of Simulate, with `phase` for the place in its body: `NextDay` (a day on which some
asset has a bar), `Fill` (one order of executeIntents, at the open), `Decide` (on the first trading day of
a month), `Fill` again at the close with timing `close`, `Value` (the point of the curve), and after the
last day `Fill` for orders that have no next day. Months and bars are chosen by the environment, so every
grouping of the days into months occurs. The arithmetic of `ApplySlippage` is exact in the instance.
`decision` and the fields `decided` of the trades are history variables.

`WalkForward` has the defaults, the starts of the folds, and the days of a window; a month is its place among the
months that have a bar. A step shorter than the test is accepted and makes days count twice in the chained
equity (the comment at `walkforward.go:46` speaks only of a step of zero); the second part of
`TestsAreUnseen` is therefore conditional on the step.

## Runs

| run | question | bounds |
| --- | --- | --- |
| LedgerActions | costs conserved, proceeds fully allocated; FIFO; derived tables equal a replay and outlive no event; history and lots agree; corporate actions keep totals; `Position` implemented | 2 assets, 4 events, 2 voids: two lots and a sale over both, entered in any order of trade date, or an action between two others, and voids of either; reductions, dividends, reverse splits, adjustments, invalid requests |
| LedgerOverlaps | no update of a lot lost; one lot per active buy and none else; snapshots and recommendations miss only what overlapped them; creates wait in the order of the lots | 3 interchangeable requests on one asset (buy, sale over one or two lots, split, adjustment of the cost with fewer or more shares, void, recommendation) after nothing, a buy, or two buys and a sale; 749,067 states |
| ReconcileRaces | resolved runs, backing, answers that hold, refinement of `Resolution`, adjusted dividends stay closed, every request answered | 2 runs, a dividend and a position, 2 requests, one of which meets every failure; 40,643 states |
| IdempotencyRepeats | replays faithful and agreeing, repeats stopped | 4 attempts of one key, interchangeable: two that overlap and two that are replayed, any call of which may fail; another key shares no variable (proved for any number of keys) |
| ServerRequests | who can bring the pool to a standstill; keys are what their user was told; every request is answered | 3 requests, a pool of 2, every order of calls, lost answers and time limits; 499,260 states |
| CatchUpFailures | months given up are empty; answered bars stored or asked again; a failing source left alone; gaps close | clock from day 2 to 3 in 2 months and years, of which the first day is before the data of TWSE; 2 assets on 2 markets, 1 stop or database failure, pause after 1 failure, weekly job on day 2; 418,690 states |
| BacktestDecisions | no look-ahead, buffer kept, no overdraft, the curve ends with the books, walk forwards test on unseen days | 2 assets, 4 trading days in any months, 3 bars or none for each asset and day (one without an open), 3 sets of targets, both timings, lots of two; windows of up to 4 months |

Why these bounds are enough: a resolution involves one difference and its run, and a race two requests; one
faulty request and one that is not give every pair of which one fails, and the theorems cover any number.
Two dates give every order of entry against trade date; four events give two lots, something that touches both
and something later, and a void of any of them. Three overlapping requests give two that race and one that reads
or voids while they do, and two open lots are enough for them to be locked in two orders. A pool of two is filled by
two comparisons or one lost race, with a third request that only waits, and the bound by which they fill it is proved for any pool. The instance of `Server` leaves out operations
of the shape of others (`putSettings`, `voidEvent`, `resolve`, `backtest`, `createKey`); the theorems include them.
Two months, one of two days, give a month that was current, is
past and lacks a day, with a year of the calendar that is past and one that is current, and a stop can fall between any two steps of a catch-up of which another
follows. Four trading days give two decisions whose orders wait for a day, with a sale funded by
a change of prices in between, and a decision on the last day. `WeeklyDays`, `StartDay`, `LastDay`, `MaxStops`, `MaxEvents`, `MaxVoids` and `MaxRequests` are bounds of the instances;
`MaxFails` (6 in the code) and `Window` (24 months) are smaller than in the code, and `FirstDay` stands where the instance can reach it. On the last day `Daily` stands for the
job of every later day, so that liveness is not cut short by the bound. `CHECK_DEADLOCK FALSE` is
set where the system really may stop: all requests answered, a backtest that is done, or the worker waiting for a day
after the last.

Each property is paired in `PROJECT.json` with a variant of a mapped definition (the operators
commented "Variant") that breaks it.

### Findings

Runs that end in a violation show a disagreement between the code and what the repository says
(`PROJECT.json` quotes the sentences):

| run | what TLC shows |
| --- | --- |
| LedgerVoidBusy | a void is refused whenever another active event touches lots: the rebuild issues statements while its rows are open |
| ReconcileStuckRun | two simultaneous last resolutions leave the run open for ever |
| IdempotencyOverlap | overlapping requests with one key both create |
| ReconcileOrphans | the loser of a race waits for itself until the time limit, and its adjustment event stays active though no difference names it |
| CatchUpDowntime | a month marked succeeded while current keeps its gap when the worker is down over its end |

### Preconditions of the passing runs

Some properties hold only under a condition that the code does not enforce. It is a constant or an
assumption of the module, so that the boundary is visible:

* `RebuildReproducesBook` is about events entered in the order of their trade dates. One entered with an earlier
  date is replayed before events it was applied after (`service.go:727`), contrary to the comment at
  `service.go:706`; FIFO, conservation and the position still hold then, and the run enters such events.
* `HistoryAgreesWithLots` needs dividends without a quantity and, for an asset with an active split, that nothing was voided:
  the history sums `quantity_shares` (`portfolio.go:169`), a column that is for display on a split
  (`types.go:27`) and ignored by the lots on a dividend.
* `SharesAddUp` excuses a split that overlapped another commit: the quantity it records comes from a total
  read before its transaction (`service.go:341`), while its lots are read under lock.
* `LatestMissesOnlyOverlaps` and `AdviceNamesItsInputs` excuse what was committed while the snapshot was taken: two overlapping creates
  leave a latest snapshot that misses one of them until the next event, and a recommendation
  may name a snapshot that differs from the portfolio it computed with (`recommend/service.go:140`).
* `ConnBusy = FALSE` in LedgerActions: with TRUE, as built, a void that would touch lots
  fails and changes nothing, so the committed states are among those of FALSE. `LedgerTx` is as built.
* `CreatesWaitInOrder` excuses waiting for an adjustment of shares and cost in its second locking (`service.go:603`): it holds
  lots, and may wait for one that was committed, with an earlier date, after its first query. With a request that
  holds that one and waits for the others it closes a circle, which PostgreSQL ends.
* `AdjustedIsBacked` excuses requests that were told they failed: the adjustment event is committed
  before the transaction that names it begins (`reconcile/service.go:357`). `RerunFindsNoAdjustedDividend` excuses those whose calls
  may fail (`Faulty`), for the same reason.
* `RerunFindsNoAdjustedDividend` is about dividends. A position difference that was adjusted comes back in the next run, since its
  event carries no figures, contrary to `docs/implementation-plan.md:172` (after every difference is resolved the next
  run finds none, or accepted ones only). A dividend that two open runs hold is booked once from each.
* `UnrecoverableMonthsAreEmpty` excuses the month TWSE refuses because it is asked for by a day before its data (`Early`).
* `BlockedSourceIsLeftAlone` counts the years of the calendar: they are asked for before anything looks at the pause, by the loop
  at `backfill.go:391`, so TWSE can be sent a failing request for each of them and two more however long it has been
  paused, whereas `ratelimit.go:13` and `docs/data-sources.md:150` let a paused source rest until the next period.
* `NoLookAhead` is what the code does with its default timing and what its comments on `Execution` and on the loop say (`harness.go:33-38`, `:134`;
  also `backtest/service.go:207`). The comments at `harness.go:2-3` and `:96-97`, `docs/api-spec.md:214` and
  `docs/implementation-plan.md:179` say that orders are filled at the close of the day they are decided: that is timing `close`,
  which no caller asks for.
* `Unrecoverable` and `LateDays` need distinct symbols (`DistinctCodes`); checkpoints are keyed without
  the market (`migrations/0002:15`), so a share that moves from TPEx to TWSE shares its marks.
* `BufferKept` needs the sales of a decision to find a price: one whose asset has no bar on the day of
  the fill lapses (`harness.go:172`), the purchases it should pay for go ahead, and cash may end below the buffer.
* `PurchasesNeverOverdraw` excuses sales that bring in less than fee and tax, which executeSell books as
  a loss of cash (`harness.go:263`) and the estimate of the strategy counts as nothing (`rebalance.go:295`).
* `OnlyReconciliationsStarve` tells who can: with eight comparisons at once (`db.go`, MaxConns), each keeping a connection, or four lost
  races, each keeping two, nobody gets on until a time limit ends one.
* `KeysAreAccountedFor` excuses keys of requests that failed or were cut off, and, as to revocation, requests that were let in
  before the answer to the revocation (`docs/implementation-plan.md:104`). Of rotated keys it demands no such thing: the code
  refuses them at once, `docs/api-spec.md:67` has them work for a grace period.
* `GapsClose` needs both sources to recover: a paused TWSE ends the catch-up for TPEx as well
  (`backfill.go:428-431`).

## Fairness

* `Reconcile`: weak fairness of a request's next statement and of its time limit. The limit is
  the router's 30 seconds, so a request that waits for a lock, its own included, is ended. Nothing
  obliges a request to arrive or a call to fail.
* `Server`: strong fairness of the next call of a request, for the pool serves those that wait in turn and
  a call that has a connection returns; weak fairness of the time limit only while everybody waits (`Stuck`) and for a lost race that
  waits for itself (`blocked`), so that no other wait is ended by it. Nothing obliges a request to arrive or an answer to be lost.
* `CatchUp`: weak fairness of the clock, of the start (somebody starts the worker again: the compose
  file has no restart policy, so this is an assumption about its operator), of the daily job
  (cron) and of the running catch-up (its waits are bounded by the limiter's hour and the HTTP client's
  minute). `Recover` is the assumption about the sources: some day both are back, what they answer can be saved, and
  the requests of the corporate actions and of the weekly job report no failure any more. It is needed: a source that fails for ever closes no gap.

## Proofs

| module | theorem | argument |
| --- | --- | --- |
| `LotsProofs` | lemmas only | sums over finite sets, FIFO consumption, division of costs, one event applied to a book, the replay |
| `LedgerProofs` | `AppendOnly`, `SnapshotIsCurrent`, `Types`, `DerivedFromActive`, `ConsumedInOrder`, `RebuildIsIdentity`, `HistoryIsOfTheLots`, `ProceedsAllocated`, `RefinesPosition`, `CostConserved`, `TotalsKept` | see below |
| `IdempotencyProofs` | `Typing`, `ReplaysAreFaithful`, `AllReplaysAgree`, `RepeatsAreStopped` | the type invariant also says that a stored response belongs to its key and can be stored; on it rests an invariant that ties replay, store and the attempts that had ended |
| `ReconcileProofs` | `Typing`, `ResolvedRuns`, `AdjustedDiffsAreBacked`, `Answers`, `Refinement` | a run can be resolved only if its checker saw nothing else pending, and pending never comes back: the strengthening says this of a request between its check and its commit (`settles`), and that the holder of a row is alone. `Answers` is kept by every step from the same invariant: a request is told it succeeded only by its own commit, and a resolved difference has no other |
| | `RerunsFindNoAdjustedDividend` | an adjusted difference whose request cannot fail by itself names an event that is active (`StandingInv`), and an active event of a dividend is what a comparison leaves out; no other step finds anything |
| `LedgerTxProofs` | `LotsAreOfActiveEvents`, `NoCircleOfCreates`, `TablesTyped`, `LatestIsComplete`, `AdviceIsConsistent`, `NoUpdateIsLost` | see below |
| `ServerProofs` | `TypeCorrect`, `ReconciliationsStarve`, `KeysAccounted` | see below |
| `CatchUpProofs` | `Typing`, `Unrecoverable`, `LateDays`, `LeftAlone` | between answer and mark the result tells what the answer held; the strengthening carries it over the two steps, and over the stop in between. `LeftAlone` counts failures of the catch-up against the limiter, and while the calendar is completed against the years that are left |
| `BacktestProofs` | `NoLookAheadTheorem`, `CurveTheorem` | the strengthening says of the waiting orders, by the place in the loop, which day decided them: they never outlive the day the timing gives them, so a second decision cannot overwrite them; nothing is needed of the strategy |
| | `Typing`, `PurchasesArePaid` | sells and buys of `Rebalance` are drafts of positive quantity for one asset each, and sorting them (`BySymbol`) makes a sequence of orders; a fill of such an order sells no more than is held and buys no more than cash pays for (`Accounts`) |
| | `BufferIsKept` | a decision plans buys of at most its budget, also when they are scaled (`BuysWithinBudget`). Its plan then unfolds (`Unfolds`, `KInv`): cash is that of the decision plus its trades so far, every trade is of a planned order of another asset and no larger, and what waits is planned and of assets not traded yet. Once nothing waits and every planned sale was made, the trades earn what was planned less what went worse |
| | `TestsFollow` | the months of the data never change and follow one another; that they grow along the days is shown with the day of a smallest counterexample (`WFMin`), the rest is arithmetic of multiples of the step |

`LotsProofs` needs what sums and replays compute for every set and sequence. An induction theorem of the library cannot be
instantiated here, so each such fact is shown with a smallest counterexample (`Smallest`, from `WFMin`): of the finite sets,
or the prefixes of the events, for which it fails, take a smallest, remove one element, and contradict. `SumIsTotal`,
`SumAdd`, `SumUnion`, `SumImage` and `ReplayLast` are the results everything else cites. `BookOK` says of a book that its
rows are rows of their tables; `Sound(events, A, b)` says that its lots and consumptions come from the events of A and that
lots were consumed in order. `AppliedSound` and `ReplaySound` keep both, and
`AppliedShares`, `AppliedAllocated` say what an event does to the sums.

`LedgerProofs`: the invariant `IInv` is that the tables are typed, the snapshot is current and the book is `Sound`. FIFO alone is
not inductive: a consumption must be of an event and a lot that are there, a lot must bear the date of its event, and
a replay must take events in an order in which a new lot comes after those consumed so far, or is
created after the events that consumed them (`Precede`). A request that is recorded applies one event to a sound book; a void replays the rest, or leaves the
lots alone if its event touches none. `HInv` and `PInv` add what the stored events keep of the inputs:
the sign of their quantity, and that their cash divides by it. `CInv` gives every lot one price per share (`Priced`):
the lot cost that price for each of its shares, and its rows took that price for each share they took, unless one of them
carries a cost of its own. A split divides the price by what it multiplies the shares with, the rows keep what they took, and
for the division to leave no rest the price has to be a multiple of a unit that gets smaller with every event
(`FineAmounts`). `TotalsKept` is a property of one step: a split scales dividend and divisor of each lot's share of the cost
alike (`ScaledQuotient`), for any lots; a dividend of a whole amount per share takes that amount out of the lot for
each of its open shares, whatever the lot's adjusted cost was (`DivideLess`). `RebuildIsIdentity` rests on `RecordsReplay`: an event
that is the last by date is applied last in a replay as well. The refinement maps every step to the same change of share counts,
or to a stutter where no shares move; that counts stay natural numbers is part of what is shown.

`LedgerTxProofs`: that lots and active events match is broken by one transaction only if another changed, between
its statements, what it relies on. The invariant says of every transaction where it stands (`Place`: which variables are still
empty at which statement), what a creation holds (`Creating`: its event is its own and not yet active, the
lots it wrote are the locked ones or, when its event opens one, its own), and what a void holds (`Voiding`: its event is active, the lot of
that event is among those it locks and deletes, and is the only one once the replay has found nothing else to apply; no consumption
of those lots is left out); locked lots exist;
and two transactions have nothing in common (`Alone`: neither the lots they hold, nor the event they insert
or void). A commit then changes lots and events together. `NoCircleOfCreates` follows from the
order in which `NextRows` takes the rows: what a creation has still to lock lies behind what it holds, in its first locking.

Three layers stand on it. `JInv` types the tables and says what the lots are that a request holds (`Made`), so that
what a commit writes is a row again. `FInv` says of what a request has read of the tables (`seen`) that it differs from what is committed
only by events of requests that overlapped it (`Reading`, `LatestRead`); `LatestIsComplete` and `AdviceIsConsistent` follow. `SInv` is
`SharesAddUp` together with what makes it inductive: it also holds for the lots a void has replayed but not
yet committed, less its event, and of two voids that are past their replay one has an event that touches no lots.
TLC checked that conjunct on the instance of LedgerOverlaps before it was proved.

`ServerProofs`: a request is a suffix of the calls of its operation; from the shape of those sequences (`Shape`, a finite case
distinction) the invariant derives that only comparing and compensating requests are ever in `kept` (`Flow`), that a
key is inserted once and only by its request, and revoked before the answer to its revocation (`KeyFlow`,
`Asked`). The standstill is then counting: all connections are in `kept`, `kept` is finite and within those requests.

All are proved for every value of the constants that satisfies the named ASSUMEs, which TLC
evaluates in the runs: among them that assets are finite (`StrategyAssumption`), and that the ledgers from which the overlapping
requests start are whole (`PastAssumption`), which `HistoryIsOfTheLots` proves of the ledgers `Ledger` reaches under the condition below. Some theorems assume more, in their statement:

* `DistinctCodes` (`Unrecoverable`, `LateDays`): no two assets share a symbol, which the database does not guarantee.
* `SharesOnlyWhenMoved` (`HistoryIsOfTheLots`): a cash entry or dividend carries no quantity. `prepareEvent` accepts one, and
  `PortfolioHistory` then counts it (`portfolio.go:169`); the property fails without it. Inputs must be finitely many
  as well, for that there is a last date.
* `WholePrices` (`ProceedsAllocated`): what a sale or reduction brings in is a whole amount per share. Otherwise the
  division by the quantity has a rest, as the code's decimals have in their last digit.
* `PlainInputs` (`NoUpdateIsLost`): as `WholeRatios` below, and a cash entry or dividend that names an asset carries no quantity:
  it would be stored (`service.go:435-436`), and no lot changes.
* `WholeRatios` (`RefinesPosition`, `CostConserved`): a split multiplies by a whole number. In a replay after a void a split
  meets other lots than when it was recorded, and an integer model would cut what the code's decimals keep.
* `FineAmounts(K)` (`CostConserved`): the amounts of buys and the unit costs of adjustments are, per share, multiples of
  K[0], and K[n - 1] is one of K[n] and of K[n] times each split ratio. With ratios that divide R such a K is K[n] = R to the power of
  `MaxEvents` - n. It is what a decimal with enough digits is to the code, and it says nothing of sales, whose proceeds the cost does
  not depend on. In the instance of `LedgerActions` the splits are reverse ones (1 for 2), for which TLC checks the property without it.
* `WholeDividend` (`TotalsKept`, as a condition on steps): a dividend that is recorded is a whole amount per open share. Nothing is
  assumed of splits.

Only model-checked is liveness, which is out of the prover's reach, as is everything about ENABLED. No module
declares a RECURSIVE operator. `BySymbol` sorts by rank, the number of symbols that come before, instead of with
`SortSeq`, whose definition the provers cannot expand.

## Not modelled

* Decimal rounding, dividend fees and premiums, return and overfitting statistics, the choice of the best parameters,
  the numeric comparison of a reconciliation: pure functions of one record, with tests of their own, and
  for the statistics in floating point, which TLA+ has no arithmetic for.
* The parsing of broker files and of source answers, hashing, signing, scopes, encoding: wording and
  layout, about which no property here speaks.
* Registering, logging in, settings, reads and `UpdateItemStatus`: single statements that
  leave nothing to interleave. They appear in `Server` as calls, if at all.
* Freshness: `StaleTradingDays` is called by no run of the program (`recommend/service.go:125`).
* Backups and migrations: what could go wrong lies in `pg_dump`, the file system and the migration library, of which the
  sources say nothing.
* Configuration, command line checks, web interface: no state the server depends on.

What would add most from here: the statements of a repaired void (an exclusive lock of the user's ledger
before the DELETE) in `LedgerTx`, once the code has one, with `RebuildReproducesBook` for overlapping requests; and
one module that composes `Idempotency` with `Server`, should the middleware come to reserve keys before the handler.
