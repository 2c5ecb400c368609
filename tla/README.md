# Price Replay Lab: formal models

TLA+ models of this repository: a local market-replay workstation with a Python
server (FastAPI, SQLite, Parquet), a browser client (React, zustand) and a tool
that downloads candles. The models are translated from the source files, not from
their documentation; `PROJECT.json` maps every definition to the lines it stands
for. Modules named `MC...` give constants their values for TLC, the `.cfg` files
say what each run checks, and modules named `...Proofs` hold proofs for TLAPS.

Contents: [inventory](#1-inventory), [modules](#2-modules-and-how-they-correspond-to-the-code),
[runs](#3-runs-bounds-and-what-they-show), [fairness](#4-fairness),
[proofs](#5-proofs), [findings](#6-disagreements-found), [what is not modelled](#7-what-is-not-modelled-and-why),
[plan](#8-plan).

## 1. Inventory

| Component | Code | State it keeps | Operations | Module |
|---|---|---|---|---|
| Replay engine | `service.py`, `execution.py`, `domain.py` | working state of a session: revealed candles, trades, fills, step, status | market order, close, close all, move stop or target, settings, step loop | `ReplayEngine` |
| Statistics | `stats.py` | accumulator kept beside the snapshot | booking of an entry or exit; reference computation from the full history; rebuild by migration v6 | `ReplayStats` |
| Session store | `repository.py`, `service.py` | durable: session row, trades, fills. Per process: cache of hydrated states, record of persisted rows | load (cached or by four reads), change, compare-and-swap save, rollback, delete | `SessionStore`, `AtomicSession`, `SessionValues` |
| Browser store | `store.ts`, `api.ts` | installed snapshot, paged history, spinners, generations, saved session id | restore, open, mutate, apply, refresh, load older, leave | `ClientStore` |
| Schema migrations | `migrations.py` | recorded version, tables and columns | baseline, migrations v1 to v8, seeding, all at every start | `SchemaMigration` |
| Backup and restore | `maintenance.py` | live database with its write-ahead log, candidate, safety backups | staged restore | `DatabaseRestore` |
| Market data paging | `market_data.py` (`RangeBars`), `service.session_bars` | LRU of pages and its bar count, shared by request threads | index, slice, iterate | `RangeBars` |
| Downloader | `tools/dukascopy_downloader` | payload cache, temporary files, quality report, CSV, manifest | fetch with retries, read, validate, publish or take back | `Downloader` |
| Dataset import, versions, bar caches | `market_data.py`, `repository.publish_import`, `service.session_bars` | version directories, raw copies, batches, the pointer to the current version, the version of each session. Per process: scan, history and session caches | stage, publish, clean up, invalidate; create and read a session | `DatasetImport`, `VersionedData` |
| Timeframes, resampling, indicators | `timeframes.py`, `indicators.py`, `service._tail`, `service._rendered` | none | pure functions | `DisplayedBars` |
| Quantity policy | `quantity.py` | none | decimal subtraction with a tolerance | no |
| Chart history, list queries | `service.py`, `repository.py` | none | bounded reads | `ChartFocus` (chart history) |
| HTTP layer | `main.py`, `api_models.py`, `config.py` | none | routes, validation of bodies, error mapping | no |
| Browser interface | `*.tsx`, `helpers.ts` | forms, chart, playback timer, focus and its generation | rendering; chart focus requests | `ChartFocus` (the focus) |

How they interact. The browser sends a request per user action and refuses a
second one while `busy`. A request is served by a thread of the server, which
loads the session (from the process's cache when the stored revision is the
cached one, else with separate `SELECT`s), lets the engine change the copy, and
saves it in one transaction that succeeds only if the stored revision is still
the one it read. The answer is either a full snapshot or an update for exactly
the next revision. The engine reads candles through `RangeBars`, which all
threads of a process share, from the version of the dataset the session was
pinned to when it was created; an import writes a new version and moves the pointer
for sessions to come. The browser looks at an old trade through a bounded window
that the server cuts out of the same dataset. Every process migrates the database when it starts;
a restore replaces the file while no process runs. The downloader produces the
files an import accepts; it shares nothing with the server.

What is hard here, component by component, and what makes each correct:

- **Engine.** Several exits on one candle, gaps, both levels touched at once, and
  a step that is a loop of minutes. Correct when no open trade outlives its
  levels, exits happen at prices the candle traded and never flatter the user,
  times never run backwards, excursions count only closes while the trade was
  open, and history is final.
- **Statistics.** Two computations of one thing, one of them incremental over
  arbitrary sequences. Correct when they agree in every state.
- **Session store.** Threads, several processes, reads from different commits,
  caches that outlive the row, a working set pruned to a window, rows skipped
  because they look persisted, rollbacks, crashes after a commit. Correct when
  every commit applies one operation to the complete latest history.
- **Browser store.** Answers that are late, lost or reordered, snapshots that a load
  between two commits has mixed, other tabs, records that leave the window while a page
  is loading. Correct when what is on screen is what the server had at that revision,
  without holes, and nothing waits for ever.
- **Migrations and restore.** Several processes at once, crashes between
  transactions and between files, commits that only the log holds. Correct when
  the version never promises what is not there, only migrated databases are served
  or installed, also where base tables were lost, and no commit is lost.
- **Paging.** Threads without a lock on an LRU whose key does not say how long a
  page is. Correct when a read returns exactly the candles asked for.
- **Imports.** A version is many files and one row; three caches are filled by
  threads that read before an import and store after it; a failure half-way is
  cleaned up and a crash is not. Correct when a session sees one whole version,
  for ever.
- **Chart.** Windows cut at both ends and at the seam of two sequences, a local
  clock that runs backwards once a year, answers to requests made for another trade
  or timeframe. Correct when nothing unrevealed is shown, bars stand for exactly
  their candles, and what is shown belongs to what is selected.
- **Downloader.** Retries, payloads fetched too early, crashes between three
  published files. Correct when only complete exports are vouched for.

`PROJECT.json` lists each hazard at its line with the properties that watch it, or
with the reason why none does.

## 2. Modules and how they correspond to the code

`SessionStore` extends `SessionValues` and instantiates `AtomicSession` (also over
`SessionValues`) as what it implements; `ReplayEngine` extends `ReplayStats`, and that `Sums`;
`DatabaseRestore` extends `SchemaMigration`, whose actions it reuses;
`DatasetImport` instantiates `VersionedData` as what it implements; `ChartFocus`
extends the operators of `DisplayedBars`. `Listing` lists a set of numbers in order,
as the engine lists trades by rowid and the import its files by year, and picks the rows
of a list as a query does; `Sums` has the running totals of a list. The modules
`...Proofs` each extend the module they are about (`DatabaseRestoreProofs` covers the
migrations as well, `ChartFocusProofs` the bars); `ListingProofs` has what several of
them need about lists, sums, recursive functions and least counterexamples.
The other modules stand alone: what they would share with each other is a snapshot, and
each abstracts it to what its own properties tell apart.

### ReplayStats and ReplayEngine

Prices, quantities and money are exact integers. The three cost components of a
fill are linear in its quantity and are one `UnitCost`; P&L is measured at
reference prices, as the code does. Candles are chosen when they are revealed: a
step reveals any member of `Bars`, which is then remembered, so a run covers every
dataset of that length. A step request is `Step`, then one `RevealMinute` per
iteration of the loop, or `StepBreak` when an iteration finds no candle left, then
`StepEnd`, which completes a session whose last candle is revealed; the code has both
places (`service.py:349` and `:356`). The variable `loop` keeps other operations
out, since the code runs them one request at a time on a copy.

`StopTouched`, `StopFillPrice`, `ExitOn` and their mirror images are
`process_bar`; `CloseTrade` and `AfterClose` are `close_trade`; `Excursed` is
`_update_excursions`. `ReplayStats` has `Book` (`book_fill`, `book_trade_close`) and
`BookAll` (the bookings of one operation, one after another), `Stats`
(`calculate_stats`), `StatsFromHistory` (`calculate_stats_from_history`) and
`AccumulatorFromHistory` (the v6 rebuild, which books fill after fill by `Rebook`). The accumulator and both
computations have all its figures; a realized R is a fraction that the code adds up, and
is counted in parts of 1 / `RUnit`, of which every risk an instance can have takes a whole
number (`RAssumption`), so that the sums are exact. Ratios formed from the figures at
the end (rates, averages, expectancy) are left to their numerators and denominators.

### SessionValues, AtomicSession, SessionStore

A session value is a revision, totals, trades (id, status and a stamp for any
other change) and fills. `Mutations` is every change a request can make to one: settings
and steps that touch no trade, an order, and any set of closes together with any set of
changes of open trades, as one step closes some trades and moves the excursions of
others; a partial close changes a trade and adds a fill.
`AtomicSession` says what the store promises: one variable, one `Mutate` per
successful request, `Delete`.

In `SessionStore` a request is a sequence of actions split where another thread
can get in: lookup, `Touch` (the `move_to_end` after the lookup), `ReadRow`,
`ReadOpenTrades`, `ReadClosedTrades`, `ReadFills`, `PutLoaded`, `Change`, `Commit`
or `RollBack`, `Track`, `PutSaved`. A save is one action because it is one
transaction. The tables keep rowid order, on which the windows and the order of
hydration depend. `Restart` clears what a process holds in memory and drops its
requests wherever they are. The refinement mapping is `Stored`: the row with the
complete tables.

### ClientStore

The server is a list of revisions per session, each with its number of fills, so
a fill is its number and a window or a page is a run of numbers. Everything
between two `await`s of the store is one action. `Serve` lets the server answer
at some moment, `Receive` delivers the answer at any later one, in any order;
`Lose` loses it, after the server may have done the work. A read of the server is two
actions: `ReadRow` finds the revision of the session's row, and `Serve` answers with the
window and the totals that `SELECT`s after it find, each at a moment of its own, so that a
snapshot may be a mixture (`SnapshotOf`, `Totals`). `MutateElsewhere`, `DeleteElsewhere` and
`SaveElsewhere` are other tabs, which share the saved id. The field `made` of a snapshot
is for the properties only: whether it is whole, mixed, or an update was merged into a
mixed one.

### VersionedData and DatasetImport

A file is a stamp and holds one candle, so a version is a function from years to
stamps. `VersionedData` is what the import promises: a dataset appears whole in the
step that makes it current, never changes, and a session is pinned to one that has
appeared. In `DatasetImport` an import is `BeginImport`, a `WriteYear` per file,
`CopyRaw`, `Publish` (one transaction), then `ListKeys` and `DropKey` (the loop of
`invalidate_bars`, whose `del` fails when the key is gone); `Fail`, `DropFiles`,
`DropRaw` are its `except` branch. A request is `CreateSession` or `LoadSession`,
then for each cache lookup, `Touch`, the read of the files, `Insert` and the
eviction, each a step of its own. `Restart` kills every thread and empties the
caches; staged files stay behind. `ReplaceLegacyFile` is the unnumbered dataset
being replaced by something outside this code. The refinement mapping counts the
files of a version once its batch is recorded.

### DisplayedBars and ChartFocus

Times are minutes; the local clock is the identity up to `PutBackAt` and runs
`PutBackBy` behind after it. `bucket_for`, `resample`, `sma`, `tail` have the names
of the functions they stand for, and a bar carries the first and the last of its
candles as in the code. What they should be is stated apart: `Faithful`,
`InOrder`.

`ChartFocus` has a session on the server (place in the replay, timeframe, trades,
fills), the snapshot this tab shows, the answer on its way to it, and the focus with
its requests. A step reveals one candle (`advance_step_minutes` is 1 unless the user
changes it), and may hit the exits of open trades. `chart_history` is evaluated
when a request is served, so it sees whatever the session has become.
`HandleFocus` is `handleFocus` up to its `await`, `Settle` what follows it;
`Reclassify` is the layout effect, part of the action that renders a new snapshot.
Indicators are part of the settings signature in the code; here the minutes of the
timeframe stand for it.

### SchemaMigration and DatabaseRestore

A database is its recorded version, the set of effects (which of v1 to v8 are
present), whether its legacy rows can be read, and a token for its data. `Start`,
`Detect`, `RecordBaseline`, `CheckTables`, `Migrate`, `Seed` are the transactions
of `migrate()`; `Stop` is a crash, or an error that leaves it. A version is
*honest* if every effect it promises is present. A database may also have lost base
tables, whatever version it records: `migrate()` then starts at v1 again. `Start` reads the
version and `CheckTables` looks for the tables, two statements that another process can
come between; `lost` and `misled` are history variables for the case in which one does.

`DatabaseRestore` adds the main file apart from the log (`AutoCheckpoint` folds
one into the other), and the restore stage by stage. It can be aborted at any
stage, which stands for every exception and for a crash. `latest` and `replaced`
are history variables for the properties only.

### RangeBars

A candle is its place, file and row. A read is `Start`, then for each page `Lookup`, and
`Touch` if it was found, or else `Load`, `Move`, the read and the write of the bar count,
the eviction loop, and `Take`. Nothing is locked, so every access to the dictionary or
to the count is an action of its own: `+=` is `ReadCount` and `WriteCount`, the
condition of the loop is `TestCount` and `TestPages`, and `Evict` may meet a dictionary
that another thread has emptied, as `Touch` and `Move` may miss their page; the read then
fails with `KeyError`. `due` is what a thread has still to add to the count. `drift` is a
history variable: what pages stored twice, pages evicted before they were counted and
overwritten changes have made of the count.

### Downloader

A payload is whole, early (well-formed, but fetched before the period was over),
damaged or torn. The stages of a run are fetch, quality, csv, manifest, or the
two unlinks of a strict run that refuses. `Trusted` is the verdict of
`validate_candles` and `validate_ticks` on what has been read: of candles a bar must not be
missing (`HasItsBars`), and one made from the ticks of an early payload is not missing. `Crash` may come at
any stage and tears the payloads being written.

## 3. Runs, bounds and what they show

| Run | Configuration | Checks | Distinct states |
|---|---|---|---|
| `engine_levels` | one trade, both directions, every stop and target of two levels, every sequence of three of five candles, steps of one and two minutes | `LevelsNotCrossed`, `ExitsAreHonest`, `LedgerIsCausal`, `ExcursionsMatchCloses` | 67 k |
| `engine_ledger` | two trades of up to two units, three of two candles | `LedgerExplainsTrades`, `StatsMatchHistory`, `AccumulatorRebuilds`, `HistoryIsFinal`, `PlaybackCompletes` | 110 k |
| `store_threads` | two threads, two processes, up to three trades and two commits from a session without trades and from one with a closed and two open trades; windows of one | `CurrentCopiesAreExact`, `TrackerIsHonest`, `ImplementsAtomicSession` | 1.2 M |
| `client_views` | two sessions of up to three revisions, window and pages of one, two fills per mutation, two requests in flight, four actions, three loads | `InstalledStateIsTrue`, `HistoryIsContiguous`, `SpinnersEnd`, `UpdatesNeverGoBack` | 4.8 M |
| `database_restore` | two processes, databases and backups of several ages, readable or not, with and without their base tables, two crashes, two commits, one restore | `VersionIsHonest`, `ServesMigrated`, `LiveKeepsItsData`, `ReplacedDataIsSafe`, `InstalledIsMigrated`, `StartupSucceeds` | 1.2 M |
| `market_pages` | two threads, three reads of a range over two files that leaves out a row at each end, pages of two, a cache of two bars | `ReadsAreExact`, `CacheIsBounded`, `ReadsEnd` | 508 k |
| `download_runs` | two periods, one of which must have data, two attempts, three runs | `TrustIsEarned`, `StrictLeavesNoPartial`, `CacheIsWhole`, `RunsEnd` | 1.6 M |
| `dataset_import` | two importing threads, versions of three and of two years, two reading threads, one session, caches of one entry; in an old installation the unnumbered dataset and one import (`Upgrades`) | `VersionsStayWhole`, `AnswersAreExact`, `ImplementsVersionedData` | 315 k |
| `chart_focus` | two trades, eight candles of history and five of the replay with a gap, windows of four candles, charts of two, timeframes of one and three minutes, clock put back by two; two looks at a trade, one change of the timeframe, one request this tab is not told of; two sessions to start from, four fills | `WindowsAreCausal`, `WindowsAreBounded`, `FocusIsCurrent`, `LiveFocusIsShown`, `LoadingIsServed`, `DisplayIsFaithful` | 1.5 M |
| `store_history_gap`, `client_left_session`, `schema_race` | as small as the disagreement | one property each, violated | |

Why the bounds are enough:

- The five candles of `engine_levels` are the cases `process_bar` tells apart:
  nothing touched, both touched with a close at either end, a gap through either
  level. Levels lie one tick from the price, so touching exactly occurs.
  Trades do not interact inside `process_bar`, so one trade suffices there.
  What trades do share, the ledger and the accumulator, has a run of its own with
  two trades and partial closes, hence up to two exits of one trade and two trades
  that exit on one candle.
- In the store runs the windows are smaller than the history, so truncation and
  pruning occur in nearly every behaviour. Two threads are enough for every race
  of two requests; two processes make them stale to each other. Two commits let a load
  span two commits of the other thread. With two open trades a commit can close both,
  close one and change the other, or change both.
- In `client_views` every mutation adds more fills than the window holds, so each
  update evicts. Two requests in flight allow each pair to overtake one another, and two
  commits can come between the reads of one load. Four actions let a session be left, and
  the refresh it had under way be answered into an action on another one.
- One restore and two crashes let a restore meet a half-migrated database, a
  half-migrated source and commits in the log, in every order. A database without base
  tables is among those to start from and to restore from.
- `market_pages` has a page shared with different lengths, a range that begins and
  ends inside pages, a read that crosses files, and a cache that is full after
  one page. Two threads put every step of one read between any two steps of the other.
- In `dataset_import` caches of one entry make every insertion evict, so each lookup
  races the insertions of the other thread. The second version lacks a year the
  first has, so a file left over or taken too early shows. Two imports run at once and
  overtake one another at every step, the deletions of one key among them. The context of
  two files lets a file of the unnumbered dataset be replaced between two reads of one
  request, and either version has candles to create a session on.
- In `chart_focus` the replay crosses a gap that makes one trade's span longer than a
  window, and its chart begins in the hour that occurs twice. The user has just resumed a
  session in which one trade is closed. In one, a second is open and can be closed partly
  or wholly, so a later look can overtake an earlier one and a fill can push the exit of
  the first out of the snapshot; in the other, a trade was entered late enough to be on
  the live chart, and its candle leaves the chart before the bar that holds it does.
  One change of the timeframe and one unseen request suffice to make any answer stale.
  `DisplayIsFaithful` evaluates every chart of both profiles at every place of the
  replay; the history is just long enough for a warm average in either timeframe.
- Three downloads let a run follow a published one and a crashed one.

`Deadlock`: engine and store runs check it. The client, restore, paging,
chart and download runs stop when their bound on requests, commits, reads, looks or runs is used
up, which is not a deadlock of the program.

The types of each module are its `TypeOK` (`PagesOK` in `RangeBars`), the first conjunct of
an invariant that a run checks (`TrackerIsHonest`, `SpinnersEnd`, `CacheIsBounded`, `VersionsStayWhole`,
`LoadingIsServed`), or part of the inductive invariant of section 5.

What the properties say is stated above each of them. The ones to read first are
`ImplementsAtomicSession` with `CurrentCopiesAreExact` (why the compare-and-swap
suffices although a load mixes commits: a mixed copy is always out of date),
`ImplementsVersionedData`, `HistoryIsContiguous`, `FocusIsCurrent`, `LevelsNotCrossed`, `StatsMatchHistory` and
`LiveKeepsItsData`. Four of them except something, and say so: `VersionIsHonest` and
`ServesMigrated` the race that `schema_race` shows; `InstalledStateIsTrue` and
`HistoryIsContiguous` say less of a load that commits ran into, and the latter nothing
once an update is merged into one.

Every property has a mutant in `PROJECT.json`: a plausible bug in one definition
with which TLC finds the property violated under the same configuration. The
mutated operators stand beside the definitions they replace.

## 4. Fairness

- `ReplayEngine!FairSpec`: the server finishes the loop of a request it started,
  and a client in playback keeps sending steps (the browser's playback timer). Orders
  and moves of levels have no fairness.
- `DatabaseRestore!RestoreSpec`: a process goes on, or is started again after it
  stopped; the number of stops is bounded. A restore that has begun goes on or is
  aborted. Commits, checkpoints and restores need not happen.
- `RangeBars!RangeSpec`: a thread goes on with the read it started.
- `Downloader!Spec`: a run goes on until it ends, since every request has a
  timeout; it may crash at any step, and nobody has to start another.
- `SessionStore`, `DatasetImport`, `ClientStore` and `ChartFocus` have safety
  properties only. That a browser's spinner ends is stated as a safety property
  (`SpinnersEnd`, `LoadingIsServed`: something in flight that is still current will
  end it), which needs no assumption about the network.

## 5. Proofs

TLAPS proves, for every value of the constants that satisfies the named
assumptions:

| Module | Theorem | States |
|---|---|---|
| `ReplayEngineProofs` | `EngineTypeCorrect` | `Spec => []TypeOK` |
| | `LevelsNeverCrossed` | `Spec => []LevelsNotCrossed` |
| | `ExitsStayHonest` | `Spec => []ExitsAreHonest` |
| | `ExcursionsStayExact` | `Spec => []ExcursionsMatchCloses` |
| | `LedgerStaysCausal` | `Spec => []LedgerIsCausal` |
| | `HistoryStaysFinal` | `Spec => HistoryIsFinal` |
| | `LedgerStaysExplained` | `Spec => []LedgerExplainsTrades` |
| | `StatsStayExact` | `Spec => []StatsMatchHistory` |
| | `RebuildStaysExact` | `Spec => []AccumulatorRebuilds` |
| `SessionStoreProofs` | `StoreImplementsAtomicSession` | `Spec => ImplementsAtomicSession` |
| | `CurrentCopiesStayExact` | `Spec => []CurrentCopiesAreExact` |
| | `TrackerStaysHonest` | `Spec => []TrackerIsHonest` |
| `DatabaseRestoreProofs` | `VersionStaysHonest` | `Spec => []VersionIsHonest` |
| | `OnlyMigratedIsServed` | `Spec => []ServesMigrated` |
| | `RestoreLosesNoCommit` | `RestoreSpec => []LiveKeepsItsData` |
| | `ReplacedDataIsBackedUp` | `RestoreSpec => []ReplacedDataIsSafe` |
| | `OnlyMigratedIsInstalled` | `RestoreSpec => []InstalledIsMigrated` |
| | `RestoredStaysHonest` | `RestoreSpec => []VersionIsHonest` and `[]ServesMigrated` |
| `MarketDataProofs` | `ReadsStayExact` | `RangeSpec => []ReadsAreExact` |
| | `CacheStaysBounded` | `RangeSpec => []CacheIsBounded` |
| | `PublishedTrustIsEarned` | `Spec => []TrustIsEarned` |
| | `StrictIsAllOrNothing` | `Spec => []StrictLeavesNoPartial` |
| | `CacheStaysWhole` | `Spec => []CacheIsWhole` |
| `DatasetImportProofs` | `VersionsAreWhole` | `Spec => []VersionsStayWhole` |
| | `AnswersStayExact` | `Spec => []AnswersAreExact` |
| | `ImportImplementsData` | `Spec => ImplementsVersionedData` |
| `ChartFocusProofs` | `WindowsStayCausal` | `Spec => []WindowsAreCausal` |
| | `WindowsStayBounded` | `Spec => []WindowsAreBounded` |
| | `FocusStaysCurrent` | `Spec => []FocusIsCurrent` |
| | `LoadingStaysServed` | `Spec => []LoadingIsServed` |
| | `DisplayStaysFaithful` | `Spec => []DisplayIsFaithful` |
| | `LiveFocusStaysShown` | `Spec => []LiveFocusIsShown` |
| `ClientStoreProofs` | `InstalledStaysTrue` | `Spec => []InstalledStateIsTrue` |
| | `HistoryStaysContiguous` | `Spec => []HistoryIsContiguous` |
| | `SpinnersStayServed` | `Spec => []SpinnersEnd` |
| | `UpdatesOnlyAdvance` | `Spec => UpdatesNeverGoBack` |

Each theorem follows from an invariant that holds at the start and after every step:
one lemma for the initial states, one lemma per operation or handler, one for the
step, and a last temporal step. Where nothing else is said, the assumptions on the
constants are types (natural numbers, finite sets) and that the marker `None` is
none of the things it stands in for.

**Engine.** From `BarsAssumption` (low and high bound open and close, which the
import enforces), `InputsAssumption`, `CostsAssumption`, `RAssumption`, `NoneAssumption`.
`IInv` is `TypeOK` with `LevelsNotCrossed`; it is inductive because a level is
only ever accepted on its side of the current price, and the price changes only in
`RevealMinute`, where `SurvivorKeepsLevels` shows that a trade the candle left open
has both levels on their sides of the new close. What has happened is in
`HistoryInv`, which says of every trade that its exit is one its candle justifies and
that its excursions are the extremes of `ClosesSeen`, and of the ledger that it is in
order and not ahead of the clock. The step lemmas say what a step may do to any one
trade (`Follows`) and to the ledger (`LedgerGrows`); `HistoryIsFinal` is that.

**Engine, the books.** `BooksInv` adds that trades, ledger and accumulator account for each
other, in a predicate `Books` of any such three values: every fill is some trade's
(`FillsOwned`); every trade has its `Account` in the ledger (one entry of its initial
quantity, exits of what is no longer open, the sum of its net amounts as its P&L, its last
fill as its exit once it is closed); each figure of the accumulator is the number or the
sum it stands for (`CountsMatch`, `PnlsMatch`, `FillsMatch`); and the rebuild, run over
the ledger, passes through accumulators and ends with the stored one (`Rebuilds`). That
each booking keeps the books (`BooksOpened`, `BooksClosed`, `BooksKept`) is the heart of
it. A fill more adds one number to each sum and one balance to the curve, and the peak and
the drawdown stay those of the curve because a drawdown ends at the new balance or did so
before (`PathIs`, `PathGrows`). A close moves one trade from the open to the closed, so it
adds to each count and each sum what it books (`CountsClosed`, `PnlsClosed`). The rebuild
counts every trade before its first fill where the engine counts it at its order, which
comes to the same (`RebookCommutes`); and what it booked for the old fills does not change,
because a closed trade has its last fill (`RebookAgrees`). An operation that closes several
trades is a list of such bookings (`Closing`), and the state after each of them (`Reached`)
has its books in order (`BooksAfterCloses`). `BooksExplain` and `BooksTellStats` read the
properties off; the reference statistics compute the drawdown from the highest balance so
far, which `HighestSoFar` and `DeepestIs` show to be the accumulator's.

**Session store.** From `StoreAssumption`. A commit makes every copy out of date but the
one it stores (`Outdated`), and between commits nothing stored changes, except that a
deletion removes all of it and nothing is stored again. So `Inv` speaks only of copies
that claim the stored revision. For these it says at each step of a request what it has
read so far (`AtStep`): after the last read the copy is `Exact`, a full window of the
complete history; after `Change` it `Reflects` what the same mutation makes of the
complete history, and everything that differs is in it (`Ready`); after `Commit` it may
hold more than a window (`Wide`) until it is pruned. A tracking record at the stored
revision is `Honest`. `MutationKeeps` shows that any mutation of a window does to it what
it does to the history, and `SavedIs` that the rows written then are the ones that
differ, hence that `Upsert` of them yields the whole new history. A commit therefore
is one `Mutate` of the atomic session, a deletion is its `Delete`, and no other step
changes `Stored`. `PrunedIsExact` and `LoadedIsExact` rest on lemmas about the rows a
query or a window picks (`ChosenIs`, `RecentTrades`, `LoadedTrades`, `PrunedTrades`).

**Migrations.** From `MigrationAssumption`: the databases to start from are honest, or
have lost base tables. `VersionIsHonest` is not inductive: a process carries a version
from one transaction to the next, and another may write meanwhile. The invariant adds
`MarksAreHonest`, the same of what each process carries, and `MarksInRange` for
the types. It is preserved because effects are never taken back
(`HonestGrows`): a baseline read off an old shape may be late, but not a lie. A process
that carries the version of a database without its base tables is in `lost`; it
carries no lie either if the tables are still missing when it looks for them, since it
then starts at v1, and otherwise `misled` records that it does. `ServesMigrated` follows
from an honest mark past the last migration.

**Restore.** From `RestoreAssumption` as well (a backup that has the baseline is
honest, as one taken from such a database is). The properties speak of the moment
after a step; the invariant says what each stage relies on: nobody runs
(`NobodyRuns`, from which no start of a process races a restore), the candidate was
accepted and then migrated (`CandidateIsSound`), what
will be replaced is in a safety backup (`LiveIsBackedUp`), and the log is folded in
before it is removed (`LogIsFolded`). The steps of the migrations keep their own
invariant, which is cited. What is installed replaces the database about which a process
may have been misled.

**Downloader.** From `DownloaderAssumption`. A run decides when it writes the
report and ends two files later, so the invariant carries the decision:
`ReadingIsSound` (what counts as fetched parses), `DecisionStands` (the report is
the verdict, the CSV is the one that was judged, only a strict run takes back),
`FetchesAreSound` (what will be installed was delivered whole).

**Market data paging.** From `RangeAssumption`. The range is the files' candles joined one
file after another (`InRangeIs`), and `CandleIs` ties an index to its file, its row and the
page of its place. A page may be longer than `_BARS_PAGE_SIZE`, and another thread may
evict or replace it between any two steps of a read, so the invariant does not say what
the cache holds of a place. It says that a page reaches at least as far as its place
requires and not past its file (`Loadable`), and that the page in a thread's hand is that
of the candle it reads next (`ReadIsSound`); then what is taken of it is not empty and is
what the range goes on with (`TakesNext`). The dictionary holds each place
once (`OneEach`, `PagesAreSound`). Of the count the invariant has the balance of
`CacheIsBounded`, which every step keeps (`Balances`): what a step adds to or takes from
the pages it adds to or takes from the count, from what is due, or from the drift. For
the bound, as long as the count is over it and pages are left some thread `Watches`: it
has still to test the count (`CountsAreSound`). A step that brings the count over the
bound is one of such a thread, and none stops watching before the count is within it or the
pages are gone (`KeepsWatch`).

**Dataset import.** From `DataAssumption`. What is staged or cleaned up is a version
that no batch records, so files that are served do not change, except those of the
unnumbered dataset, which only grow newer. Hence everything a request has read, and
everything a cache holds of it, lies `Between` the files at some earlier moment and
the files now, and for a version these are the same: `RequestsOK` and `CachesOK` say
so for each step of a request. `ImportsOK` says what each stage of an import has written
and that no two have the same version. A cache exceeds its capacity by no more than the
keys being inserted (`SizesOK`), so an eviction always finds something to evict. The
refinement is proved step by step: each action maps to an action of `VersionedData`
or changes nothing it can see.

**Chart.** From `FocusAssumption` and `StartsAssumption` (the session the user resumes is
one that requests lead to: `Orderly`). Only closed trades are asked for, and of a closed
trade nothing changes whatever the session does (`Final`, `Follows`), so a window that is
right when it is cut stays right (`WindowOK`). A request that is current was sent with the
timeframe shown, because every change of it makes the others old (`RequestOK`, `Timely`).

**Chart, what it draws.** From `DisplayAssumption` (the candles ascend in time) and
`WarmupAssumption` (no fewer periods of warm-up than the average has). `resample` passes
through lists of bars that `Stand` for the candles so far: each bar is drawn from
consecutive candles of one bucket, none is left out, and the last bar ends with the last
candle. One candle more starts a bar (`StartsBar`) or is merged into the last one
(`MergesIntoBar`), and either way they do again, for any series of candles, minutes and
profile. From that follow `Faithful` and, since buckets ascend with the local clock
(`LocalBucketAscends`), `InOrder`. The tail of the replay is in each of its four cases the
last `window` candles (`TailIs`). For the average, `CandlePlace` bounds the place of a
candle by the minutes of the bars before its own, and once more the minutes of a bar where
the clocks were put back; so a candle behind the warm-up is in a bar that has one
(`BarIsWarm`). A focus without a window was within the bounds of the chart when the last
snapshot was rendered (`FocusShown`): its entry is a candle of the chart, or one before it
that the first bar holds (`SameBucket`).

**Browser store.** From `ClientAssumption`. No state has what the server held before a
session was deleted, so the invariant says that there is a history of each session
(`\E h \in Histories`) that only grows (`HistoryGrows`), of which every answer under way and
what is installed tell (`SnapshotOK`, `UpdateOK`, `StateOK`): one revision, or, if commits
ran into the load, the row of one and the fills of a later one (`MixOf`). A mixture of
later revisions stays one when the history grows (`StateStays`). What is on screen is a
run of numbers that counts down from the newest (`ShowsFrom`), and a page that is current
begins where the older records end (`CallOK`); an update of the next revision adds to
the run of a whole snapshot exactly the numbers that follow it, and shifts records from
the window to the older ones (`MergedIs`, `MergeShows`).

Sequences filtered, reversed, joined or listed in order are defined by what they hold at each
place, and not by the recursive operators of the libraries, since those cannot be
expanded in a proof; a sum is the last of the running totals, a recursive function. Induction
over numbers is replaced by a least counterexample (`LeastNat` in `ListingProofs`), which
rests on the well-founded order of the naturals: so `Iterates` shows that a function given
step by step exists, and `StepwiseSame` that two of them with the same steps agree.

Model-checked only:

- Liveness (`PlaybackCompletes`, `StartupSucceeds`, `ReadsEnd`, `RunsEnd`), which these
  provers cannot treat with fairness and `ENABLED`. Every other property of a passing run
  is a theorem.

## 6. Disagreements found

Each is a run whose counterexample is a behaviour of the code.

- `store_history_gap`: a load puts the open trades before the closed ones, the window of
  a process keeps the closed trades that come last in its list, and a page holds trades
  entered before the cursor. When the newer of two trades is closed after the older, by a
  process that loaded the session in between, the window keeps the older one and the newer
  is neither in it nor on a page, although the README promises "paginated complete
  trade/fill history".
- `client_left_session`: a refresh that is answered after the user left installs
  the session again and saves its id. The tests promise the opposite for a left
  action: "stays on setup and keeps storage clear when a left action resolves".
- `schema_race`: of two processes that start on a database that has lost base tables,
  one reads the recorded version, then the other recreates the tables in its v1, then the
  first finds them all and starts behind the recorded version. It serves a database
  without what the later migrations add to those tables, until the other process is
  done. The docstring of `migrate` says that such a database "is completed the same way,
  even when it carries recorded metadata".

Observed while modelling, listed as hazards with their lines and without a run:

- A cached entry can vanish between its lookup and its `move_to_end` or `del`, in
  the session cache (`repository.py:322`), `session_bars`, the scan cache, the pages
  and `invalidate_bars`: a request then fails with `KeyError`, and an import that is
  published is reported as failed. The models take these paths; their properties
  show what stays right. The eviction loop of the pages has one more such path: `popitem`
  on a dictionary emptied since it was tested.
- The bar count of the pages drifts when reads overlap, either way and for good: after
  that the cache holds more bars than its bound, or fewer than it could.
- `GET` serves a load that commits have run into. The snapshot then has the scalars of one
  revision and the records of later ones; where its total is no larger than its
  window but the session has more records, there is no cursor, and the records in front
  of the window are not reachable until the next snapshot. An update that such a load had
  already read can be merged after it, when so many records were added that its fills
  have left the window: they come back at its end. With windows of 1000 fills both
  take a busy session.
- A history page of a session that was deleted meanwhile is empty and ends the paging as if
  there were no more records.
- The saved id is one for all tabs: a reload restores the session another tab opened last.
- After a conflict the action ends before its refresh is answered. A later mutation
  may be applied first, and the refresh then installs an older snapshot;
  `UpdatesNeverGoBack` shows that snapshots are the only way back.
- `chart_history` compares minutes with a number of bars: a trade held over a
  weekend is flagged truncated and cut to its first minutes although all its candles
  would fit, and the notice says "it spans more bars than the window can hold".
- In the hour that the New York clock repeats, bars of the `new_york_close` profile
  get times that start again before those already drawn. A trade entered in its second
  pass has a time later than its bar, so `focusWithinLiveBounds` may take it to be on the
  live chart when its bar has left it; `LiveFocusIsShown` leaves this case out
  (`ClockRanBack`).
- A chart window comes in the timeframe the session has when it is served: changed
  in another tab, it differs from the one the controls show.
- A review saved while its session is deleted stays behind (`service.py:472`); a recorded version that moves back
  for a moment when a second process starts; an old manifest that stays beside a
  newer partial CSV when a download dies between the two; a temporary name shared by
  two downloaders; an hour of ticks fetched before it was over, which is vouched for, as
  are the H1 and D1 candles made from it.

## 7. What is not modelled, and why

- Binary floating point and the tolerance of `quantity.py`: integers are exact, and
  with them the policy is a subtraction.
- Rows of `orders` and `replay_events`: written in the same transaction, never read
  back by an operation.
- Trade reviews: a check on one connection and a write on another, which nothing here
  relates to anything else (section 6).
- Closed trades in `ClientStore`: the same code as the fills with the same
  generation; what differs, the order of the server's list, is in `SessionStore`.
- Other exceptions than a lost compare-and-swap inside a save are the same
  rollback; disk errors are a crash.
- Two downloaders at once, the coverage threshold of sparse instruments, and the
  ledger file the tool appends to.
- The backup command by itself: one consistent read through SQLite's online backup, then
  the same rename as a safety backup.
- Parsing and validation of the rows of an imported file, symbol metadata, dataset listings:
  data that no property here tells apart.
- The clock put forward in `DisplayedBars`: it leaves local times without an hour and
  does not change their order. The clock is put back once in an instance.
- An older snapshot after a conflict in `ChartFocus`: its snapshots come in order.
- Volumes and the partial flag of bars; steps of several minutes in `ChartFocus` (in
  `ReplayEngine` they are a loop).
- The playback timer: it calls `step` again when the store is not busy, which is an
  action `ClientStore` has anyway.
- Rendering, formatting, request models, generated types, scripts and build files.

## 8. Plan

Done, in this order: the engine with its statistics, the session store over its
abstract specification, the browser store, migrations with restore, paging,
the downloader, the first theorems; then dataset imports over their abstract
specification, and the chart with its focus; then the proofs about the engine's
history, the restore, the import and its refinement, the chart and what it draws, the
browser store, the session store with its refinement, the books of the engine, and paging.

Next, most important first:

1. Closed trades in `ClientStore`; a second downloader process.
