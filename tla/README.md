# TLA+ models of TIX Terminal

TIX Terminal (`ike-terminal`) keeps investment portfolios: it reads broker
statements, prices the positions from public sources, corrects them for splits
and spin-offs, and draws the history of each portfolio. This directory holds
TLA+ models of its server, the TLC configurations that check them on small
instances, and proofs, checked by TLAPS, that the most important results hold
for every value of the constants.

Paths below are relative to `server/src/` of the repository.

## 1. The system

One Node process runs everything. JavaScript is single-threaded and
better-sqlite3 is synchronous, so a stretch of code without an `await` is
atomic with respect to every other request, timer and callback; interleaving
happens at the awaits only, and a crash or a deploy between any two writes that
are not in one SQLite transaction. Data lives in one SQLite file per portfolio,
in `price_history.db`, `auth.db` and the database of import profiles.

| Part | State it keeps | Operations | Talks to |
|---|---|---|---|
| Concurrency limiter `services/concurrency.ts` | `active`, `queue` | wrap an async call | in front of Yahoo (4 slots), stooq and biznesradar (3), the LLM (1) |
| Source guard `services/source-guard.ts` | consecutive blocks, backoff, episodes, misses per key; last success and last mails mirrored in SQLite | `registerBlock`, `registerSuccess`, `registerParseMiss`, `getState`, `isBlocked` | price services report to it; admin mails; `/api/health` |
| Price sources `yahoo-*.ts`, `stooq.ts`, `biznesradar*.ts`, bond catalogue | caches in memory and SQLite | fetch quote, history, events | limiter, guard, caches |
| Dashboard views `portfolio-views.ts`, `history-memo.ts`, `positions-memo.ts` | two maps of promises | build history, build positions, `/metrics`, `/cash-flow` | repositories, engine, spin-off applier, prices |
| Data version `db/data-version.ts` | one counter per portfolio | get, bump | every repository bumps it; both memos key on it |
| Splits `split-detector.ts`, `db/splits-repo.ts` | `stock_splits` | detect, persist, import, edit by hand, delete | views, engine |
| Spin-offs `spin-offs-applier.ts`, `db/spin-offs-repo.ts` | `spin_offs`, ticker map entries of children | apply, withdraw, revert | views, prices, `ticker_map` |
| Engine `portfolio-engine.ts`, `split-detector.ts`, `spin-off-transform.ts`, `option-expiry-transform.ts` | none (pure) | adjust, transform, FIFO, closed trades, smart-deletion plan; series, TWR, MWR | views, routes |
| Import `import-service.ts`, `parsers/*` | `transactions`, `cash_operations` | parse, deduplicate, reconcile | repositories |
| Universal import `generic-import-service.ts`, `db/import-profiles-repo.ts` | batches, the library of profiles | commit, re-import, correct a profile | repositories, LLM |
| Inbox `db/quarantine-repo.ts` | `import_quarantine` | ignore, resolve, report, delete | imports, user |
| Cash operations `db/operations-repo.ts` | `cash_operations`, `portfolio_metadata` | insert, deduplicate, edit, delete, clear | imports, scanners, user |
| Scanners `dividend-scanner.ts`, `interest-scanner.ts`, calendars | `last_*_scan`, estimated operations | run by timers, by hand, when settings are saved | Yahoo, `cash_operations`, `transactions` |
| Accounts, sharing, admin, client | `auth.db`, tokens | requests | all of the above |

### Where it is hard, and what makes each part correct

* **Limiter.** A waiter that has been woken resumes a microtask later; a new
  call may come first. Correct when the counter is the number of slots in use,
  no slot is idle while somebody waits, nobody is lost from the queue, and
  slots are granted first come, first served.
* **Guard.** Answers of parallel requests arrive in any order, before and after
  the breaker opened; a deploy forgets all but the store. Correct when the
  breaker opens for a reason and for at most one backoff, when the admin is
  written to only about blocks that lasted, at most once per dedup window
  across restarts, and not about markup while something still parses.
* **Requests to Yahoo.** The breaker is asked, a pair of crumb and cookies is
  taken or fetched, the request stands in line, the answer is reported: each is
  a wait away from the one before, and all requests share the breaker, the pair
  and the slots. Correct when a session that merely ended is no block, when little
  still leaves for a source that blocks, and when every request ends.
* **Views.** Requests read, wait for the network, and go on with what they had
  read; computations are shared between requests and memoized under a version
  read at another moment than the data. Correct when neither memo serves a
  result that is older than the version it is filed under, when a failure is
  never served twice, and when what the user reverted stays reverted.
* **Imports.** Statements overlap, come from several brokers, are loaded again,
  and are read anew once a profile is corrected, while the user edits the
  result. Correct when nothing is counted twice, nothing that was listed is
  missing, and what the user decided is not undone.

* **Scanners.** A pass over the dividends reads once, waits for Yahoo for every
  paper, and writes at the end, while the user, a statement or another pass
  writes the same ledger. Correct when it books no dividend that stood there
  when it began, and marks a day as done only when nothing is missing; the
  interest scanner when it comes to rest.
* **Engine.** The same transactions are matched by two copies of the FIFO queues
  and by a third for smart deletion, after three transformations that must not
  disturb one another. Correct when every share is in one place, first in, first
  out, and when no transformation rewrites the past or makes money.

## 2. Modules

| Module | Role |
|---|---|
| `FifoSemaphore` | abstract specification: calls stand in line, the first n run |
| `ConcurrencyLimiter` | the limiter; refines `FifoSemaphore`, proved in `YahooRequests_proofs` |
| `Breaker` | abstract specification: what a circuit breaker promises to those who ask it |
| `SourceGuard`, `SourceGuard_proofs` | the guard; refines `Breaker`; its invariants, action properties and the refinement, proved |
| `YahooRequests`, `YahooRequests_proofs` | requests to Yahoo: limiter, breaker and the pair of `yahoo-auth.ts` composed; its safety proved |
| `PortfolioViews`, `PortfolioViews_proofs` | the two views, their memos, the applier and the writers; all properties of the passing run proved |
| `ImportLedger`, `ImportLedger_proofs` | deduplication, batches, re-import, inbox; all properties of the passing run proved |
| `SumLemmas` | sums over finite sets: what they are, and how they compare; induction stated with sets |
| `CashOperations` | the cash ledger: its deduplication, its queries, and the user's writes |
| `InterestScanner` | interest on free cash, over `CashOperations` |
| `Scanners`, `Scanners_proofs` | the passes over the dividends, composed with the two above; all its properties but the deferred dividends proved |
| `FifoQueues` | the FIFO queues of the engine over one sequence of transactions, and their reference without queues |
| `FifoEngine`, `FifoEngine_proofs`, `FifoSpinOff_proofs` | positions, closed trades and smart deletion over a table with splits, a spin-off and options; all properties of the passing run proved |
| `MC*` | instances: model values, statements, symmetry, lanes |

Each module begins with the constants that are parameters of the code, then
those that bound the model, which are commented as such and occur only in
guards. `Fault...` operators are slips one could make in the
code; each is the faulty variant of one definition, and exists to show that the
property written for it notices. No behaviour uses them.

### ConcurrencyLimiter

`active` and `queue` are the two variables of `createConcurrencyLimiter`
(`services/concurrency.ts:9-36`); `pc[c]` says where call `c` is. `CallQueued`
and `CallAdmitted` are the two branches of the guard at line 14; `SettleHandOver`
and `SettleFree` are the two branches of the `finally`, which runs whether `fn()`
resolved or rejected; `Resume` is the microtask of the woken waiter. `admission`
is a history variable, the owners of the slots in the order they got them, and
gives the refinement: the line of `FifoSemaphore` is `admission \o queue`.

### SourceGuard

One action per method of `createSourceGuard`, plus `Tick` and `Restart`. All
methods are synchronous, so each is one step; that they are called in any order
models responses of parallel requests. `mirror` is what the process knows of the
store and `store` what SQLite holds; `Loaded` is the lazy `ensureLoaded`. The
store may refuse to work (`StoreMayFail`): the code swallows that, and the
properties that need the store say so through `storeFailed`. In one operation
all accesses to the store fail or none does. Times are small integers;
the constants keep the code's order of comparison (`<`, `<=`, `>=`) everywhere.
`lastSuccess`, `firstBlock` and `mails` are history variables.

The breaker in it is also what others build upon: `Breaker` keeps of it a count
up to the threshold and whether it is open, and `RefinesBreaker` says that the guard,
with its clock, backoff, mails, store and restarts, does nothing that `Breaker` does
not allow (`CountedBlocks` is the count).

### YahooRequests

Extends `ConcurrencyLimiter` and instantiates `Breaker`. `at[r]` is where a request
is between two waits: fetching cookies, fetching a crumb, about to read the pair,
ready for the limiter, in it (where `pc[r]` goes on), or with an answer that is yet
to be reported, since reading the body is a wait after the slot was given back.
`crumb`, `cookies` and `expired` are the three variables of `services/yahoo-auth.ts`;
crumb and cookies are named by the session of Yahoo they belong to. What tells the callers
of Yahoo apart is their `Kind`: v7 and v10 (`fetchQuoteChunk`, `yahooQuoteSummary`)
need a pair and repeat once; v8 (`yahooChart` and its two siblings in `stooq.ts` and
`benchmark-updater.ts`) needs none; a search (`ticker-search.ts`) takes a pair if it
can have one, asks no breaker and reports no success. Yahoo itself is external: it
opens a session for whoever asks, drops them all (`Rotate`), accepts a pair of one
living session (`Accepts`), and refuses or fails anybody at any time. A restart is not
modelled: it drops all requests and begins anew. `disturbed` and `late` are histories.

### PortfolioViews

A request is a program counter and what it has read (`req`); a computation is a
promise (`comps`) with the inputs it was given, its state, and the split it
detected. Steps are the stretches between awaits: `ReadForHistory` is
`buildHistoryView` up to `await applyPendingSpinOffs`, `JoinHistory` from there
into the memo, `Answer` the rest; `CallPositions` is
`buildPositionsViewMemoized` with the start of `buildPositionsView`,
`PositionsRun`, `PositionsComputed` and `PositionsDone` what follows its awaits: on
the applier, on the computation (after which splits are stored), on the rates of the
cash (after which the promise is settled). The spin-off is a row with a status and
whether its child moved to the ISIN it is held under. The applier's steps
at the network (`ResolveChild`, `InsertSpinOff`) happen for any request or
computation that is in it. Writers are one action each and bump the version
exactly where the repository does. The result of a computation is abstracted to
its inputs: that is what staleness is about. One portfolio, one benchmark and one base
currency stand for all: the other parts of a memo key only separate entries.

### ImportLedger

`ledger` maps each row, of the columns deduplication looks at, to its number of
copies. `WithDedup` is `insertTransactionsWithDedup`, with `Matches` for the
`WHERE` of its two counting statements and `NewRows` for `toInsert`.
`BulkImport`, `CommitGeneric` and `Reimport` are the three handlers that read
statements; each is one SQLite transaction, hence one step. `CommitGeneric`
registers its batch in another database after that transaction, so a crash may
leave the batch unregistered (`Lost`). `EditRow`, `DeleteRow`, `AddManual`,
`ClearImported` are the user's; `IgnoreRow`, `ResolveRow`, `ReportRow`,
`DeleteQuarantineRow` decide about the inbox. A statement is what each
version of the profile reads out of it (`MCStatements`); a package of several
files is a sequence of imports, as in the code (insert per file). `largest`,
`covered` and `awaiting` are histories of what the statements listed and of
what the user was told.

### CashOperations, InterestScanner, Scanners

`CashOperations` is the table and everybody who writes it but the scanners.
A row is an operation and the number of the copy. `InsertedWithDedup` is
`insertOperationsWithDedup`, whose `Key` has no source; `DividendExists` and
`LatestDividend` are the two queries the dividend scanner lives by. Dates are
days; the code compares them as strings, so a row with a time of day (some
parsers write one) is later than its day: `Stamped`. `SharesAt` is
`getSharesAtDate`.

`InterestScanner` adds `scanInterest`, which is synchronous and hence one step:
`InterestOperations` is `computeInterestOperations` for one currency, month by
month with the carry of net interest; `Recompute` is the comparison, the
deletion of the scanner's rows, and the insert *with deduplication* of the new
ones. `SaveSettings` is the route that forces it.

`Scanners` is `scanDividends`. `pass[c]` is what a pass of caller `c` holds
between its waits: what it read at its start (day, trades, start date), what it
has still to do, what it found. `StartPass` is the synchronous part, `FetchEvents`
the wait for one ticker (which may come back empty-handed: errors are swallowed in
`fetchYahooDividendEvents`), `CheckEvent` the decisions about one event,
`FinishPass` the insert and the mark. The timer and `POST /dividends/scan` may be
in a pass at once; `PassThrows` loses one of them (the rates fail before its first
answer, or the insert after its last), `Restart` all. `covered`, `left`, `silent` and
`since` are histories: why an event was not booked, and which dividends came
after the pass had started.

### FifoEngine

The state is what is stored: the table of transactions in the order of their
ids, the splits, the status of one spin-off, and the day. One action per handler
that writes them. Everything else is a function of it, as in the code: `Stream` is
what `computeOpenPositions` and `computeClosedTrades` do first (split adjustment,
spin-off, expiry of options, a stable sort by date over rows that come the newest
first), `PositionMetrics` and `ClosedTrades` are the two copies of the queues,
`Matching` and `Planned` those of smart deletion. The queues stand in `FifoQueues`,
which knows no paper, date or price: `Put` and `Take` are the loops all of them
share, a lot at the end, a quantity from the front, and each of the four functions
of the code that walk over transactions is a run of one step (`MetricsAfter`,
`TradesAfter`, `MatchingAfter`, `RemainingAfter`). `FirstInFirstOut` is the
reference: `Traded` is how much of a side the first k transactions are, and the
parts of two transactions that meet are the overlap of what each of them covers
when the shares of its side are laid end to end. `SplitsOfPositions`
differs from `splits` as in the code: `/positions` computes with what it detected,
less what a spin-off explains (`IsArtefact`), `/closed-trades` with what is stored.

## 3. Runs

A passing run has no error over its whole state space; a run marked *violated*
shows that the code does not do what a comment or a test says of it.

| Run | Module, configuration | Question | Distinct states |
|---|---|---|---|
| `yahoo` | `MCYahooRequests`, `MCYahoo` | four requests on two slots, their pair and their breaker: are slots counted and granted in order, is only a refusal a block, does every request end? | 265,000 |
| `guard` | `MCSourceGuard`, `MCGuard` | the breaker, the markup alarm, the mails and the store, with restarts and a store that may fail; is it a `Breaker`? | 198,000 |
| `guard_alert` | `MCSourceGuard`, `MCGuardAlert` | is every transition to "suspected" mailed? *violated* | |
| `views` | `MCPortfolioViews` | the memos and the applier, two requests racing each other and the user | 5,315,000 |
| `views_stale` | `MCPortfolioViews`, `MCViewsStale` | is a memoized history as new as its version? *violated* | |
| `views_split` | `MCPortfolioViews`, `MCViewsSplit` | does every change of a split bump the version? *violated* | |
| `import` | `MCImportLedger`, `MCImport` | deduplication while the user edits, adds and deletes; and batches, re-imports, crashes and the inbox | 354,000 |
| `import_reimport` | `MCImportLedger`, `MCImportReimport` | does re-importing the same statement leave the ledger as it was? *violated* | |
| `scans` | `MCScanners`, `MCScans` | two callers' passes beside all writers; interest beside all writers | 1,189,000 |
| `scans_deferred` | `MCScanners`, `MCScansDeferred` | is a dividend left for the next scan within its reach? *violated* | |
| `fifo` | `MCFifoEngine`, `MCFifo` | do the queues agree with references without queues, and the transformations keep what they promise? | 101,000 |
| `fifo_split` | `MCFifoEngine`, `MCFifoSplit` | is a short sale at an unchanged price no split? *violated* | |

Where one module answers several questions that share little state, an MC module
lets a behaviour choose a *lane* at its start (`lane`, never changed again), which
restricts the inputs: the behaviours of the run are those of all lanes, and every
property is checked in each. The lanes of `MCYahooRequests` are two quotes and their
pair, a quote and a search and their pair, and all four with a pair that stays good
(the line and the breaker); those of `MCSourceGuard` the one with refused
requests and the one with pages without data; those of `MCImportLedger` the user's
hands and the batches; those of `MCScanners` one pass over two papers, two passes
over one, and interest; those of `MCFifoEngine` plain transactions, splits, the
spin-off and options.

### What the properties say

* `SlotsAccounted`, `NoIdleSlotWhileWaiting`, and `QueueIsTheParked` in
  `RequestsInv`: the counter, the queue and the places of the calls agree at every
  moment, the moment between a hand-over and the waiter's microtask included.
  `RefinesFifoSemaphore`: calls start in their turn.
* `ABlockIsARefusal`: a session that ends is no block, although its pair is rejected:
  it is fetched anew and the request repeated. What the code needs for that is part
  of the property: that refreshes do not overlap (see section 4), and that Yahoo drops
  its sessions once and not again during the repetition.
* `LateFetchesAreFew`: `isBlocked` is asked before the waits, so what was under way
  when the breaker opened still leaves; that is one fetch for each, two for a quote,
  and nothing that starts later, but for searches.
* `EveryRequestEnds`: through refresh, queue, answer and repetition, whatever Yahoo
  answers. `RequestsInv` is the inductive invariant of the proofs.
* `RefinesBreaker`: the guard opens, closes and counts as `Breaker` does.
* `OpenForAReason`, `EpisodesSpanBackoffs`, `BlockMailOnlyIfItLasted`: the
  breaker is open because of enough blocks since the last success and never for
  longer than a backoff; n episodes span n backoffs, so a burst of parallel 429s
  is one episode and does not reach the admin when `notifyAfterBlockEpisodes` is
  two.
* `MailsSpaced`, `StoredSuccessIsRecent`, `MarkupMailNotWhileParsing`: what
  survives a restart suffices for the dedup window and, within one throttle, for the
  grace of the last success.
* `PositionsMemoFresh`, `MemosKnowSpinOffs`: what a memo would serve now was
  computed from the ledger (positions) and the spin-offs (both) of now, although
  neither is in the key.
* `NoFailedPromiseKept`, `MemosBounded`, `TtlIsItsOwn`: an entry that is
  replaced, evicted or expired while its promise runs neither comes back nor
  spoils its successor.
* `RevertedStaysReverted`: an applier that was at the network while the user
  reverted a spin-off does not bring it back.
* `OverlapsDoNotSum`, `PositionsCountedOnce`: nothing is counted twice, however
  statements overlap and whoever lists a CFD position.
* `ImportedTradesCovered`: nothing that was listed is missing.
* `UnknownRowsKept`, `DecidedRowsStayDecided`: an unrecognised row the user was
  told of stays in the inbox, and what was decided about it is not undone.
* `BesideOnlyWhatCameMeanwhile`: the scanner's check and its insert are waits
  apart, yet an estimate is booked beside another dividend of the paper only if
  that one was written after the pass began. `MarkedDayIsComplete`: with the mark,
  every dividend that was due and answered for is in the table.
* `SecondInterestScanIsQuiet`: interest comes to rest after one scan, so the daily
  timer does not rewrite rows and invalidate the memos. The exception it names
  is real: somebody else's row with the key of one of the scanner's
  (`operations-repo.ts:67` has no source in it) is taken for it, and then every
  scan deletes and inserts again.
* `EachShareOnce`: the n-th share bought goes with the n-th share sold. What is
  open and what closed, computed by two copies of the code in two views, together
  are exactly that. `OpenGroupIsUnbroken`: a trade is shown as part of the open
  position just if the position has not been flat since.
* `MatchingAgreesWithEngine`, `SmartDeleteKeepsTheRest`: the third copy pairs as
  the others do, and the deletion it plans leaves every other pair as it was.
* `SplitsLikeARegister`, `SpinOffMovesCostOnly`, `ExpiredOptionsAreClosed`: each
  transformation against what it stands for: a register that multiplies holdings
  on the ex-date; a spin-off that leaves trades of the past, shares and the sum of
  the cost alone; an expiry that leaves nothing open. The model has whole numbers where
  the code has floating point, so the sum of the cost is claimed where the divisions
  have no remainder (`NothingIsRounded`); the prices of the instance are chosen so that
  this is so in each of its states. Trades and shares are claimed in any case.

### Bounds, and why they are enough

* Requests to Yahoo: two slots and four requests give every shape of the queue that
  the code can tell apart: empty, one waiting, several waiting, while another call
  may arrive between a hand-over and its microtask. A threshold of 2 is opened by two
  of them while the others wait. Two requests are what a race for the pair
  takes; `MaxRotations` = 1 lets a session end at any moment. Six `Names` suffice:
  crumb, cookies and two refreshes hold four at most, so there is always another.
* Guard: times are 0..7, with a backoff of 2, a dedup window of 3 and a throttle
  of 2: two episodes, two dedup windows, and restarts within and after each.
  `MaxBlocks` = 4 is twice the threshold. The breaker and the markup alarm share
  no variable but the mirror of the store and the last success, hence two lanes.
* Views: two requests race each other over two computations, with one write by
  the user or one midnight; the memos hold one entry each, so a promise may be
  evicted or replaced while it runs. A write and a midnight make a new key each,
  in a component of their own, so `MCNext` explores them one at a time; the proof
  covers them together. The two violated runs use the same code and need no more.
* Imports: two brokers and the universal import list one trade once or twice;
  three sources are what the wildcards of `SOURCE_WILDCARDS` tell apart, two
  copies what counting tells apart. `MaxHands` = 1 admits any edit, move or
  manual entry, one at a time. With two batches the rows of one broker at a time
  stand beside them, for the wildcards make brokers interchangeable there.
  `InboxLimit` = 1 makes the cap bite.
* Scanners: two papers with a dividend each, one before the other or on one day;
  four days with a grace of 2 and a window of 1, so that a dividend is recent,
  then due, then old, and another one is inside or outside the window. `MaxRows` =
  2 lets one row of the user's or a broker's stand beside the scanner's. Two months
  of two days are closed; the second is computed on the interest of the first.
* FIFO: up to four transactions of quantity 1 or 2 in any order of dates and ids,
  two dates of one day among them: a lot taken in parts by two sales, a sale over
  two lots, a reversal from long to short in one transaction, a flat moment in the
  middle. In the other lanes three transactions, on both sides of the ex-date or the
  last day, with up to two splits. Prices and ratios are chosen so that all
  divisions are exact. The guard of spin-offs knows the spin-off from its row only
  (`InMap` = FALSE), so that a detection is seen before it and refused after it;
  `Window` = 0 keeps the parent guarded on one day of three.

`CHECK_DEADLOCK FALSE` is set for the views only, where every bound may be used
up; there the model stops and the program would not.

### Fairness

Only requests to Yahoo, with their limiter, have liveness. The fairness is weak
fairness of the steps of a request that has started: the event loop runs every
microtask, every `fn()` given to a limiter settles, and so do the two fetches of
`services/yahoo-auth.ts:24,36`. Most requests carry
`AbortSignal.timeout(FETCH_TIMEOUT)` (`services/stooq.ts:92,165,186,282`,
`services/biznesradar.ts:92,179`, `services/yahoo-finance.ts:39,57,242`,
`services/yahoo-quotes.ts:483`, `services/benchmark-updater.ts:47`). Two places do
not: `services/ticker-search.ts:26-33,291-298` set no signal at all, and
`services/llm-client.ts:122-149` clears its timer once the headers are in, so that
reading the body, inside the one slot of `llmMutex`
(`services/profile-generator.ts:115,144`), is not covered. There the assumption
rests on the time limits that Node's `fetch` has by itself; both are listed as
hazards. Nothing obliges anybody to make a call.

## 4. Where the code and what is said of it differ

Shown by a run:

* `guard_alert`: `source-guard.ts:109` says that `notify` is called at the
  transition of the state. `getState` (345-349) recomputes the suspicion and
  stores it in `lastMarkup` without a mail; when `/api/health` is polled after
  the grace of the last success runs out, the transition happens there, and the
  next miss finds `lastMarkup` already true. Nobody is told.
* `views_stale`: `history-memo.ts:11-18` says every change of the inputs goes
  through a write that bumps the version and invalidates the memo.
  `buildHistoryView` (`portfolio-views.ts:283-311`) reads the ledger before it
  awaits the applier and calls the memo after it, so the key holds the version of
  then and the data of before. No second user is needed: the applier itself
  writes the child into `ticker_map` (`spin-offs-applier.ts:232-274`) and bumps.
* `views_split`: `data-version.ts:4-8` lists the splits among the data whose
  every write bumps the version. `importCombinedFiles` (`import-service.ts:929-940`)
  stores the splits of a statement and bumps nothing, so a statement that has no
  new transactions leaves both memos serving series without the split. The same
  property fails another way, longer and not shown by the shortest counterexample:
  `persistNewSplits` (`portfolio-views.ts:258-280`) upserts all detected splits,
  those it had read included, and bumps only for new ones; `ON CONFLICT DO UPDATE`
  (`splits-repo.ts:47-63`) then overwrites what the user entered, or restores what
  the user deleted, while the series was computed.
* `import_reimport`: the test at `generic-import.test.ts:252` expects that
  uploading the same file again leaves the number of rows. The universal import
  lists a trade once; mBank's export lists two of it and adds one, since the
  universal row stands for the other. The re-import deletes the universal row,
  finds mBank's one, takes its own for a duplicate of it, and one trade is lost.
* `scans_deferred`: `dividend-scanner.ts:335` says "skip, wait for next scan" of a
  recent dividend that is not known to be paid. The next scan starts at the latest
  dividend of any ticker (245-248); when a later one of another paper is booked,
  by the same pass even, the older one is never asked for again.
* `fifo_split`: `split-detector.ts:7-10` says the tolerance of 2 excludes short
  sales. `tx.price * rawRatio <= avgBuyPrice * 2` holds for a ratio of 2 at an
  unchanged price: one share bought, two sold, and a 2:1 split is detected and
  stored by the next `GET /positions`.

Met while modelling, and part of the models, but not shown by a run:

* `transactions-repo.ts:57-59` says editing an imported transaction changes its
  source to `manual`; `PUT /transactions/:id` (`routes/portfolio.ts:1847-1955`)
  keeps the source and the batch. `EditRow` does what the code does; a re-import
  of the batch therefore discards the edit.
* `source-guard.ts:125` expires misses after `missWindow`; `registerParseMiss`
  reads the previous entry before expired ones are pruned, so misses of a
  singleton page further apart than the window still count as consecutive.
* `dividend-scanner.ts:439-443` keeps the day unmarked after an outage, if there
  were errors and nothing was inserted; `fetchYahooDividendEvents`
  (`yahoo-finance.ts:475-478`) swallows every error, so the day is marked and the
  tickers that were not answered for wait for tomorrow.
* A dividend of a monthly payer within 30 days of the previous one counts as
  present (`operations-repo.ts:276`); an estimate that the user deletes comes back
  with the next scan if the latest dividend is not younger; trades loaded during a
  pass, or dividends older than the latest one, are never scanned.
* `DELETE /clear` promises to leave what was not imported (`routes/import.ts:130-134`);
  the rows of the interest scanner carry a batch and go with it
  (`operations-repo.ts:164-168`) until the next scan. `scanInterest` is said to run
  after imports (`interest-scanner.ts:269-272`) and does not.
* Rows with a time of day count from the next day on, in the balance that bears
  interest and in the shares held today.
* The matching for smart deletion works on the table as it is: no splits, and the
  oldest id of a date first, where the engine has adjusted rows and the newest
  first. With a split, "fully-matched" (`portfolio-engine.ts:3093`) need not mean
  that all shares are sold, and the plan may take too little or too much.
  `MatchingAgreesWithEngine` states the agreement where neither occurs.
  `portfolio-engine.ts:3255` says that a purchase sold in several sales is not
  supported; the code supports it, and `SmartDeleteKeepsTheRest` holds there too.
* A row on or after the last day of an option, an opening one included, leaves the
  option to itself (`option-expiry-transform.ts:59`); it then stays open for good.
* Until `/positions` has stored a split it detected, closed trades are computed
  without it.

* Refreshes of the pair are not shared (`yahoo-auth.ts:60-66`), and the cookies are
  stored before the crumb (27, 52). When a session ends, the first request is rejected
  and refreshes; if a second one starts a refresh meanwhile, the first may read its own
  crumb with the second's cookies, is rejected again, and registers a block, which
  `yahoo-guard.ts:60-63` says a rotation must not do. `ABlockIsARefusal` excludes
  overlapping refreshes for that; without the exclusion TLC finds this behaviour.
  `invalidateYahooAuth` (68-70) drops whatever crumb is cached, a good one that
  another request has just fetched too.
* `yahoo-guard.ts:110` says that the limiter wraps every fetch to Yahoo; the two
  fetches of a refresh go past it, and past the breaker. Searches ask no breaker and
  report no success (`ticker-search.ts:15-40,280-300`), but do report blocks.

Met outside the models: `findAutoDividendOverlaps` (`operations-repo.ts:308-309`, "żeby
obie strony widziały tę samą parę") cuts the suffix of the broker's name only, so a
bare ticker of a statement does not find the estimate `X.WA` that the scanner would
have recognised in the other direction.

## 5. Proofs

TLAPS proves the following for every value of the constants that satisfies the
named assumptions of the module. All of those say only what a constant is: a
positive number of slots, thresholds and windows that are natural numbers, a
null that is not a time or a status, memos with room for an entry, statements that
list rows.

### YahooRequests_proofs: the limiter

`LimiterInvariant` proves `IInv`; `LimiterTypeOK`, `LimiterSlotsAccounted`,
`LimiterNoIdleSlot` and `LimiterQueueIsTheParked` follow from it. The counting
invariant `active = Cardinality(Owners)` is awkward to carry through a hand-over,
where one owner leaves and another enters in the same step. `IInv` carries
instead that `admission` lists the owners, each once, and that `active` is its
length; the cardinality follows at the end, because a sequence without
repetitions is a bijection. A hand-over needs that the head of the queue is
parked (`QueueIsTheParked`), and that nobody is in the queue while a slot is free
(`NoIdleSlotWhileWaiting`), or else the freed slot of `SettleFree` would be missed
by somebody.

`LimiterImplementsFifoSemaphore` proves that the safety part of `FifoSemaphore` is
implemented, with `line <- admission \o queue`: a call enters at the end of the
line, because it is admitted only when the queue is empty (`IInv`); a settled one
leaves from among the first `active`; a hand-over moves the border between
`admission` and `queue` and leaves the line otherwise as it is; a microtask is a
stutter.

### YahooRequests_proofs: the composition

The composition keeps the invariant of the limiter because each of its steps is one
of the limiter's or leaves it alone (`LimiterStep`), and inherits from it what is
proved there: `RequestsSlotsAccounted`, `RequestsNoIdleSlot`, and, with the same
mapping, `RequestsImplementFifoSemaphore`. `RequestsInvariant` proves `RequestsInv`.
`LateByAttempt` counts the fetches since the breaker opened by the attempt a request
is in, which gives `RequestsLateFetchesAreFew`. `Undisturbed` carries `RequestsBlockIsRefusal`: as
long as nothing has disturbed it and sessions were dropped at most once, there is one
refresh at a time, whoever refreshes has a reason (no crumb, or an expired one), the
cached pair is of one session whenever no refresh is between its two answers, and a
repetition holds a pair of the new sessions, which Yahoo accepts. All of it for any
number of callers, slots and sessions and any threshold.

### SourceGuard_proofs

`GuardImplementsBreaker` proves `RefinesBreaker`. The end of the backoff is `Elapse`;
a success and a restart are `Reset`; pages without data, polls and all other ticks of
the clock are stutters. That a block is the abstract one needs `OpenForAReason`: an
open breaker has its count full.

`GuardInvariant` proves `IInv`, from which the four state properties follow;
`GuardBlockMailOnlyIfItLasted` and `GuardMarkupMailNotWhileParsing` are proved of
every step from it. Two parts of `IInv` are no properties of their own.
`StoreMirrored` says that a process that has read the store knows what is in it and
that the last mails are: without it `MailsSpaced` is not inductive over a restart.
`SuccessRemembered` says that the success known to the process is at most one
throttle older than the latest of all: it is what `StoredSuccessIsRecent` turns into
when the next process has loaded the store, and what the markup alarm is judged by.
Both hold under `~storeFailed`, the case in which the code promises anything at all.
`EpisodesSpanBackoffs` is the arithmetic part: an episode begins only after the
previous backoff ran out, so n of them span n backoffs (counted to the end of the last) (lemmas `OneMore`,
`MoreIsNotLess`).

### ImportLedger_proofs

`InboxKeepsUnknownRows` and `InboxDecisionsStay`, from the typed part of the state
that concerns the inbox (`InboxInv`). The heart is `Reread`: rows that are dropped
are those of the batch that are still pending, these are exactly the ones that the
user is no longer told of, and what is inserted afterwards overwrites nothing.

`LedgerTypeOK`, `LedgerOverlapsDoNotSum`, `LedgerPositionsCountedOnce` and
`LedgerImportedTradesCovered` follow from `LedgerInv`, which is their conjunction with
`InboxInv`: what the run checks is inductive as it stands. All of it is about numbers of
rows, `Number`, which the proof turns into one form, `Tally(rows, set)`, the sum of the
copies over the rows of a set: the rows that match a key and a source
(`MatchingRows`), those of a source (`ImportedRows`), of a position (`PositionRows`),
and those that stand for what a source lists (`CoveringRows`). `DedupTally`,
`WithoutTally` and `MovedTally` say what an insert, a deletion and a move do to any
tally. `DedupStep` is the heart: an insert brings the matching rows of a key up to what
is listed and not above; the rows of the source are among the matching ones, so they do
not exceed the largest statement; the matching ones are among the covering ones
(`RowSets`), so what is listed is covered.

### SumLemmas

Sums are defined by a choice of a recursive function, so nothing follows of them without
induction. The library's induction theorems take the claim as an operator, which the
provers cannot instantiate; `NaturalsByInduction` and `SetsByInduction` take the set of
what satisfies the claim in its place, and follow from the well-foundedness of the
naturals. `SumExists` proves that the function chosen exists; `SumEmpty`, `SumRemove`,
`SumPlus`, `SumMonotone`, `SumUnion`, `SumPart` and the others are the algebra of it.

### Scanners_proofs

`Invariant` proves `IInv`: the types, and for each pass under way `FoundIsNew` and
`DueIsHandled`. The first says that whatever matches an estimate a pass is about to
book came after the pass had started; it is what makes the gap between the check and
the insert harmless for what was there before, and it survives every other writer
because a pass keeps the history `since` of what they add (`OthersGoOn`). The second
says that a dividend that is due is still to be asked for, among the events to be
checked, found, or covered; so when nothing is left to ask and to check it is found
or covered, and `InsertedWithDedup` leaves a row with the key of each thing found.
`BookedBesideNewOnly` and `MarkedDayComplete` follow, for any number of callers,
papers, events and sources and any window. `InterestIsQuiet` needs no history: after
`Recompute` the rows of the scanner are the desired ones, unless one of them was
taken for a duplicate, and the base from which they are computed has not changed.

### PortfolioViews_proofs

`ViewsInvariant` proves `IInv`, the conjunction of the run's state properties with
two parts that are none of their own. `KeysPast` says that every key is of a version
and a day already counted: a bump makes a key that nothing is filed under, so an entry
under the key of now was filed when the ledger and the spin-offs were those of now.
That is why `PositionsMemoFresh` survives every writer, the applier in the middle of
another request included, and why a history filed after the wait (`JoinHistory`) knows
the spin-offs although it does not know the ledger (`views_stale`).
`EntriesMatchPromises` says that an entry and its promise agree on the view and the
key: without it a failure, which forgets by key, might leave the entry of the failed
promise. `Parts` is `IInv` again, sorted by what it says of each memo, because most
steps disturb one of them; `HistoryStays` and `PositionsStay` say what becomes of a
memo whose entries are a part of those before, and every step is one of: the memos
stand (`MemosStand`), a promise goes on (`PromiseGoesOn`), a promise starts
(`PromiseStarts`), entries are dropped or moved (`WithoutIsPart`, `MovedToTheEnd`,
`NewestIsPart`). What is kept of a memo is an increasing enumeration of its places
(`Kept`); that there is one for every set of places is proved without induction, by
the well-foundedness of the naturals (`OrderExists`). `TombstonesStay` is proved of
every step on its own and needs only that the null is no status.

### FifoEngine_proofs

`FifoTypeOK`, `FifoEachShareOnce`, `FifoOpenGroupIsUnbroken`,
`FifoExpiredOptionsAreClosed`, `FifoSplitsLikeARegister`,
`FifoMatchingAgreesWithEngine` and `FifoSmartDeleteKeepsTheRest`. The views are functions
of the state, so the last six are facts about every sequence of transactions, and what
has to be invariant is that the streams are such sequences.

The first half knows only sequences with a side and a quantity (`IsBook`). Every fold of
the code is a recursive function on `0..n` (`RunExists`: it exists and is what its
equation says; `UpTo` is induction along it, in the form that the claim is a set). The
invariant of both copies of the queues is one formula, `Holds`: after k transactions the
queue of a side holds of each transaction what `Excess` leaves of it when as much as was
traded of the other side is taken from the first on, its lots are in the order of the
transactions, and one of the queues is empty. `TakeProperties` says what the inner loop
does, for any queue and any quantity: of every lot goes the least of what it has and what
is still asked for. `QueuesStep` puts both together, and `BookIsFirstInFirstOut` compares
the result with the reference by arithmetic. `BookIsOpenIfUnbroken` needs more than that:
the number of a round trip grows exactly when both queues are empty, that is when the net
quantity is zero (`FlatIsNetZero`), so a trade has the number of the last one just if
no zero lies in between.

The second half is about types: sorting by date, adjusting for splits, the spin-off and
the expiry turn the table into a sequence of rows with natural quantities
(`StreamType`), whatever the splits are; a ratio is a product over a finite set of splits
(`RatioType`) and no zero, which is why `TypeOK` has to know that there are finitely
many. For `FifoTypeOK` each way of writing the state needs its own chain: `SmartDeleteType`
(what a plan leaves is not empty; what is sold of a purchase is a sum of pairs), and
`SplitsOfPositionsType` (what the heuristic finds is a split of a paper that has none, one
of a day, with a ratio from the list).

`FifoExpiredOptionsAreClosed` needs sums over sequences that were picked, sorted and put
together. `Weighed(s, w)` is the sum of a weight over the elements; `WeighedConcat`,
`WeighedPicked` and `WeighedByDate` say what becomes of it, and a net quantity is such a
sum (`NetIsWeighed`). The rows that close options weigh for each what it lacks
(`ClosingsWeigh`), so that as much is sold as is bought, and then both queues are empty
(`EmptyIfEven`). That a spin-off adds no row of an option past its last day
is a matter of types again (`LapsedRows`), and of the assumption that the child of a
spin-off is no option.

`FifoSplitsLikeARegister` compares two ways to the same number. The engine multiplies
each transaction by the ratios of the splits after its day (`StreamIsWorth`: the net
quantity of the stream is the sum of these products, by `Weighed` along the reversal,
the sorting and the adjustment). The register goes through the days and multiplies what
it has. In between stands `RegisterIsWorth`, by induction over the days: the register
times the ratio of the splits still to come is what the transactions so far are worth.
A day takes its ratio out of that product (`RatioOfDay`), which needs that a product
over a union of disjoint sets is the product of two, and that a paper has at most one
split a day, which is part of `TypeOK`.

`FifoMatchingAgreesWithEngine` has two halves. Over one sequence the queue of smart
deletion is the long queue of the closed trades until something is sold short, and from
then on the plan is refused (`SameMatchingStep`). That both see one sequence for a plain
paper (`PlainStream`) is the harder half: one is sorted from the table, the other from the
reversed and sorted table after the adjustment, a spin-off of other papers and the expiry
of options. A sequence of at most one row is known by how often each set of rows occurs in
it (`CountedSame`); such a count is a `Weighed` sum, which every transformation of other
papers leaves alone (`TransformedWeighs`); and a plain paper has at most one row of a date
(`OneOfADate`). The spin-off is the step where this could fail, because what is held on the
eve is looked up by id: it must not be that of another paper (`NothingHeldOfOthers`, which
needs that the lots of the eve are of transactions of the parent, `RemainingPlaces`).

`FifoSmartDeleteKeepsTheRest` compares the matchings of two tables, which differ in
length, in quantities and in the ids of everything behind what was deleted. To sort both
and to run both queues in step would need an invariant over two runs of different length.
The proof takes sorting and queues out of the question first. `Listed` says that the
sequence a paper is matched in holds all its transactions, ordered by date and id;
`PairsAreOverlaps` that the pairs are the overlaps of `FirstInFirstOut`, each a pair of
its own since a queue holds one lot of a transaction (`TradesPlaces`). So how much was
traded before a transaction is a sum over a set, `Prior`, that needs no order
(`PriorIsTraded`, `SumImage`), and the matching is a table of `Share`s: what a purchase
and a sale have in common as intervals in the line of shares (`MatchingByShares`). The plan
then is one map of counts: `Cut` counts shares without those of the purchase. It keeps
what any other purchase has in common with any sale (`CutKeeps`), because two purchases
never share an interval (`PriorInTurn`); what the plan leaves of a sale is the distance of
the images of its ends (`PlannedIsRest`), so that by induction along the listing the
image of what came before is what comes before after the plan (`PlannedPrior`), and
sales that were covered stay covered (`AfterIsCovered`), since `Cut` is monotone. That
the transactions kept stand one place forward for each deleted one before them, and
nothing else stands there, is `PickedStands`, by induction along the table.

### FifoSpinOff_proofs

`FifoSpinOffMovesCostOnly` follows a row of the parent through the spin-off. A
transformation that turns each row into rows is `Each(s, L)`, and choosing rows is one of
these (`Keep`), so that picking, sorting and splitting into lots commute by one lemma
(`KeepEach`): the stream after the spin-off is the stream before it, each row replaced by
its lots (`SpunOffStream`), and a purchase of the child. What the spin-off finds held of a
row is what first in, first out leaves of it on the eve (`HeldOfRow`), although it runs
queues of its own and looks rows up by id. Along the line of shares that is the end of the
row's interval, and what the sales before the ex-date take is its beginning
(`EndIsLeft`). So the lot that was sold, which comes first and keeps id and price, has in
common with these sales what the row had, and the lot that is kept has nothing
(`SoldMeet`). The pairs of the past are the overlaps before the ex-date
(`PastIsOverlaps`) and stay (`LotsHaveMet`). The order of the two lots matters here. Cost
and shares are weights again: a kept lot loses what moves (`LotsCost`), the child is
bought for the sum of that (`BoughtIs`), and what is held on the eve is a whole multiple of
the parent's later splits (`HeldIsMultiple`, each quantity being one), so that going back
to the scale of the ex-date loses nothing. No assumption says so; `NothingIsRounded` only
asks it of prices.

The assumptions of both modules are those of the constants: days and bounds are
natural numbers, the ex-date is among the days, the parent is another paper than its
child and neither is an option, the window of the guard is a natural number, ratios are positive and so far from each other that 5% of tolerance does not
confuse them, and what the user may enter has a positive quantity and price.

### Only model-checked

* `EveryRequestEnds` and the fairness part of `RefinesFifoSemaphore`: liveness is out of
  the prover's reach. All else that the passing runs check is proved.
* What the rounding of the code may lose in a spin-off is neither checked nor proved:
  floating point is left out of the model.

## 6. What is left out

Within the modelled parts:

* The limiter: nothing. `mapWithConcurrency` in the same file has no shared state
  but a counter and is left out.
* The guard: messages of the mails, and the status codes that count as a block
  (`detectYahooBlock`), which decide what is reported to the guard.
* Requests to Yahoo: pages without data (`registerParseMiss`), which are the markup
  alarm of `SourceGuard` and do not reach the breaker; the fallback of `stooq.ts`
  after Yahoo; that one caller asks for many papers, which is as many requests.
* The views: option contracts and names, the response itself; the FX rates of
  `/positions` and `riskFreeRate` (no shared state); the lazy passes that fill
  sectors and resolve stubs, which write `ticker_map` and bump like any other
  writer; `last_split_scan`, so that a computation of positions may detect a split
  at any time; the backoff of an applier that failed (it may
  retry at any time); a second move of a child to another ISIN (`rehomed` is true
  after the first, a bound of the model).
* The import: parsing; the operations (`cash_operations`) of a statement, whose
  deduplication has no source in its key; what the reconcilers add afterwards
  (redemptions, taxes, currencies). A CFD row and another one never share a key,
  since `cfd_position_id` decides which statement counts. Rows written before
  `source` existed (NULL) count like `manual`.
* The scanners: currencies, taxes and the FX rates of an estimate; splits in the
  shares held; the cache of 12 hours in front of Yahoo; the sanity check but for its
  outcome (`Odd`); the warning about overlaps after an import. Operations of one
  statement all differ in their key.
* The engine: commissions, fees and their allocation to trades, currencies, CFD
  positions, bonds; settlement prices of options (they expire for nothing);
  detection of splits from prices, with its half of the guard of spin-offs; an edit that
  changes the paper; synthetic rows as targets of smart deletion, which the code
  refuses; series, returns and risk, which are floating-point arithmetic.

Parts that are not modelled:

* Parsers, ISIN resolution: string code without state. `src/shared` and `src/client`
  are tables, types and a user interface; they are most of the lines of the
  repository, and nothing in them is a step of the server.
* Price sources and their caches: the requests to Yahoo, the guard and the limiter
  are modelled, what they fetch is not.
* Accounts, sharing, administration, mail, client: ordinary requests.
* Scripts, seeds and samples.

## 7. Plan

In this order; what stands above is done.

1. `HistoryCache` (`biznesradar.ts`, `history-cache.ts`): a refused page
   in the middle of a history leaves a hole that no later fetch fills; the
   abstract specification is a series without holes.
2. `BossaRedemptions`: markers and rows closed from one reading of the
   transactions; idempotence of an import.
3. `ProfileLibrary` (`import-profiles-repo.ts`): versions, approval, notices of a
   needed re-import, quotas.
4. A run of `YahooRequests` with refreshes that are shared, once the code shares them:
   `ABlockIsARefusal` without the exception for overlaps.
5. Costs as fractions instead of integers, so that `SpinOffMovesCostOnly` needs no
   `NothingIsRounded`, and what the rounding of the code may lose stated as a bound.
