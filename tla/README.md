# StockAI in TLA+

StockAI is two Python services that share a MongoDB database and nothing else:

* `src/backend`: a FastAPI application. Its handlers are plain functions, so
  FastAPI runs them in a thread pool: two requests interleave between any two
  database operations.
* `src/agent-runner`: one process with one `while True` loop (`main.py`). Each
  turn runs whichever of the daily and hourly refreshes is due (institutional
  scan, breadth, macro, economics), then at most one earnings scan, then at most
  one job of the work queue. Docker restarts the process when it dies
  (`restart: unless-stopped`); an exception is logged and the loop goes on.

A React client talks to the backend over HTTP; the FMP and Finnhub APIs, web
scraping and a local LLM are the external services.

## Inventory

| Part | State | Operations | Hard behaviour | Correct when |
|---|---|---|---|---|
| Work queue (`routers/queue.py`, `stocks.py`, `earnings.py`, `watchlist.py`; `queue_worker.py`) | `work_queue`, `ticker_index`, `analyses`, `watchlist` | enqueue (delta or full), Run All, analyze, bulk add, delete, pin, unpin, enable/disable; claim, run, close, delist, recover | check-then-act handlers, a worker that dies with a job running, a ticker deleted under a running job | one active job per ticker, a job runs once at a time, a full request gets a full run, every job settles, a deleted ticker leaves nothing behind |
| Price store (`price_store.py`, twice) | `price_history`, one document per ticker | refresh none, delta, full | two services and two threads of the worker replace the same document; late, partial and restated bars; failures and empty answers | no gaps, nothing lost, a refresh is not undone, the envelope is honest |
| Breadth (`tools/breadth.py`, `breadth_worker.py`) | `breadth_cache`, `breadth_divergences`, `breadth_meta`, `market_flow_events` | daily sweep, cached read, divergence transitions, events | crash between writes, SPY missing for a day, runs from the loop and from a crew | at most one open divergence, one event for each that opens |
| Institutional scan (`institutional_flow_worker.py`) | `institutional_flow`, its meta (`last_scan_at`, `manual_scan_requested`) | request, claim, scan, dedup, insert, stamp | crash between insert and stamp, swallowed scrape failures, manual versus scheduled | no event twice, no window skipped |
| Crew pull (`crew.py`) | none of its own: runs the stages | existence check, second opinion, prefetch, superinvestor list | a check and a second opinion that share a provider, death between two writes | a ticker with confirmed statements is not delisted, weeks of moves meet |
| News and insider stores (`tools/news.py`, `insider.py`) | one document per ticker | delta, paged fetch, rebuild, cluster detection | failure between pages, late filings, empty answers | the next delta still asks for what is missing, a delta loses nothing, a failed rebuild loses nothing |
| Statements (`tools/financials.py`) | `financials_cache`: data and outcomes by statement | fetch, retry of what is unavailable | a document completed piece by piece | nothing served is older than the window |
| FMP budget (`tools/fmp_client.py`, `backend/fmp.py`) | shared daily counter, in-process minute window | count, cap, throttle | two processes, one counter | cap not passed |
| Backend caches (`routers/market.py`, `earnings_data.py`, `tools/earnings_calendar.py`) | headlines, calendar, universe, earnings history | read through, refresh | concurrent requests, two services, failures cached | what is served unmarked is as fresh as promised |
| Worker loop (`main.py`) | the turn | six workers in order, one handler | an exception ends the turn for the workers after it, turn after turn | nobody is starved |
| Economics (`tools/economics.py`, read by `routers/market.py`) | treasury, calendar and indicator collections, run meta | backfill windows, pull, due test | long outages, one series of many failing, a death between windows or between rows | no hole but those named below, a success is complete, an event is shown once |
| Macro refresh (`macro_worker.py`, `tools/macro.py`) | FRED cache, per-sector reads, hourly throttle | refresh if due | throttle before the work, a document completed later | at most hourly, bounded age |
| Earnings scan (`earnings_scan_worker.py`, `agents/earnings_scanner.py`) | `earnings_scans` | request, claim, rank, finish | process dies mid-scan, candidates that fail | every scan ends, its list is a ranking |
| Skills (`skills/*.py`, `tools/price.py`) | none; the position's ledger carries the stop | resampling, bar types and patterns, gaps, up/down volume, market flow, trailing stop | open bars, windows that move, carried-over stop | a later session changes of an earlier answer only what it may |
| Agents, chunker, LLM client, read-only routers, frontend, scripts | none of their own | prompts, projections, views | none | not modelled |

The components share data, not calls: the backend inserts jobs and flags that
the loop polls; the loop writes documents that the backend serves; both write
`ticker_index` and `price_history`.

## Modules

| Module | Models |
|---|---|
| `QueueData` | the four collections of the queue and the single-document updates both services make on them |
| `QueueApi` | the backend's handlers, one database operation per step, for a set `Req` of threads |
| `QueueWorker` | the worker: recovery, claim, crew result, closing, delisting in its three writes, crash, the clock |
| `StockQueue` | the two composed, the fairness, the properties |
| `JobBoard` | the abstract queue: post, raise, take, finish, abandon, requeue, withdraw |
| `StockQueue_proofs` | theorems about `StockQueue` |
| `PriceStore` | `get_series` of both services and its callers, and the provider |
| `PriceStore_proofs` | theorems about `PriceStore` |
| `Breadth` | `get_market_breadth` in its database operations, its two callers, the clock, the death of the process |
| `Breadth_proofs` | theorems about `Breadth` |
| `FlowScan` | the institutional scan, Scan Now, the delete of a ticker, Dataroma's page and the cached 13F rows |
| `FlowScan_proofs` | theorems about `FlowScan` |
| `Strat`, `Gaps`, `Accumulation`, `MarketFlow`, `Position` | the five deterministic skills, as operators on small integer bars |
| `Trading` | a ticker analysed after each of its sessions, and a position held in it |
| `Trading_proofs` | theorems about `Trading` |
| `Budget` | the daily counter and its cap |
| `NewsStore`, `InsiderStore`, `Statements` | what the stages of a pull store: windows, deltas, pages, merges, retries |
| `CrewPull` | one pull of a ticker after another over those stores |
| `PageCaches` | the backend's own requests over headlines, calendar, universe and history |
| `SharedBudget` | pulls and pages side by side over one budget and one database |
| `SharedBudget_proofs` | theorems about `SharedBudget` |
| `Economics`, `Macro`, `EarningsScans` | three of the loop's workers with the collections they write, and the pages that read them |
| `Worker` | the loop over all six workers |
| `Worker_proofs` | theorems about `Worker` |
| `Extrema` | lemmas the proofs share: the smallest and the largest of a set of naturals |
| `MCStockQueue`, `MCPriceStore`, `MCBreadth`, `MCFlowScan`, `MCTrading`, `MCSharedBudget`, `MCWorker` | small instances for TLC |

`QueueData`, `QueueApi` and `QueueWorker` are composed by `StockQueue`, which
implements `JobBoard` (`INSTANCE`, property `BoardSpec`). `CrewPull` composes the
stores over `Budget`, and `SharedBudget` composes it with `PageCaches`; `Worker`
composes `Economics`, `Macro` and `EarningsScans` under the loop, and has of the
other three workers only whether they were due, succeeded or raised; `Trading`
composes the skills. `PriceStore`, `Breadth` and `FlowScan` stand alone: they
share no document with one another, except that a delete and a pull meet several
of them, and there the module has the part of the handler that concerns it. A
definition whose comment starts with "Mutant:" is not part of a model: it is a
plausible slip in the definition after it, kept to show that the properties
notice it.

### The queue

`jobs` is `work_queue` in insertion order, which stands for `created_at` (two
concurrent inserts may carry timestamps in the other order; no property depends
on which of the two is first). `registry` is the status in `ticker_index`,
`watch` counts the pins of each ticker by status, because neither
`add_to_watchlist` nor an index keeps them unique, and `analysis` says which job
wrote the ticker's document. A thread's `req` holds its handler's local
variables: what it read stays read while others write. `told` remembers the jobs
whose client was answered `mode: "full"`; no action reads it.

A handler's step is one MongoDB operation: `Lookup` (`find_one`), `Reactivate`,
`RegisterTicker` (the upsert), `FindExisting` (the `find_one` of an active job,
without a sort, so any of them), `Upgrade`, `Insert`; for a delete `Unregister`,
`DeleteAnalyses`, `DeletePin`, `DeleteJobs`. Handlers over several tickers loop
over them (`EndTicker`). The worker's `Claim` is the atomic
`find_one_and_update`; `WriteAnalysis` and `CloseJob` are the two writes after
the crew returns, and `Crash` may come between any two steps. `Startup` is
`_startup`: it runs once per process, so a job that is not stale at that moment
stays `running` until another process starts.

### The price store

One document, because documents of different tickers never meet. A call reads
(`Load`), asks the provider (`Fetch`, or `Degrade` when the budget is spent or
the request fails) and replaces the document (`Store`) with what *it* read and
was given; the process may die at any point (`Die`). Callers are a pull's price
stage, a breadth sweep or earnings scan, and a chart, which reads first and asks
for a delta only when nothing is stored (`Peek`). In a parallel prefetch the
price stage and the sweep are two threads of the worker.

The provider is the environment. A day's bar appears on its day or, late, the
day after; it moves until it is final; two days later only a restatement (split,
dividend) changes it, and a restatement changes every bar's scale. A day may
have no bar. A bar is represented by its form and scale, not by prices. Answers
may be empty whatever the provider holds.

### Breadth

One call at a time, because both callers run in the worker's one loop; what
interleaves with it is the evening, midnight, the provider and `Crash` between
any two database operations. `cache` holds for each exchange and session the day
its row was computed on (`computed_on`), which is all that `_breadth_records`
looks at; a row written by `WriteRow` loses its `spy_close`. `signal` says which
divergence the market shows at each session: it is chosen once, arbitrarily, so
every sequence of readings is covered, and a call reads it off the newest session
that has both readings (`Detected`). `update_divergence_tracking` is `FillForward`,
`SetLast`, `FindActive`, `Resolve`, `Insert` and `EmitEvent`, one write each, with
the date read once (`call.today`). A follow-through return is represented by the
session it is measured to.

The worker's turn carries the `now` at which the turn of the loop began, which may
be the previous evening when the institutional scan before it ran past midnight
(`TurnOf`), whereas the rows and divergences are dated by the clock at the time.

### The flow scan

Time is in half days, before and after the scheduled hour. A fund key is a set of
parts, so that the containment of one key in another is inclusion, and
`Wording[f]` says which keys extraction may come up with for fund `f`; each
listed move gets one of them, differently in each scan. `Fetch` may miss moves:
the scrape fails and answers `[]`, the page text is cut, the model overlooks one.
Deduplication (`DedupMove`, `DedupRow`) and `insert_many` (`InsertMove`,
`InsertRow`) go document by document, in any order, and `Abort` (an exception, or
the death of the process) may come between any two. `flow` holds the Dataroma
documents of the feed and `filed` the 13F ones.

### Pulls, pages and the budget

A stage of a pull reads its document, asks the provider and replaces the document
in one operation; one process pulls a ticker, and no one else writes these
documents, so a stage is a step (`NewsStage`, `InsiderStage`, `StatementStage`)
that chooses how far the provider's answer got. `news` is the set of stored
articles, numbered by time, so that a page of the provider's newest-first answer
is a slice of the numbers; `cut` is a history variable: the articles that a fetch
which was cut short left out. `pull.mode` is delta or full; a full pull starts from an
empty baseline (`NewsBaseline`). `Check` and `Verify` are step 0 of `Crew.run`;
`Verify` is `get_financials` itself, with its writes. The superinvestor list is
the one stage with two writes, `WriteMeta` and `WriteMoves`, and `Die` comes
between any two steps.

`PageCaches` is the other service: handlers that read, ask and write as threads
of their own. The content of a document is the hour of the provider's last change
to it, so that "fresh" is a comparison. `answer` is what was served last: the
page's contract is stated of it. The agent runner's earnings scan writes two of
these documents as well. Every guarded call of either service is `Spend`, which
counts before it compares, as `track_fmp_call` and `_check_daily_soft_cap` do.
The pull's clock has days; `SharedBudget` adds the hours for the pages.

### The worker loop

`Worker!turn` is the position in `main.py`'s list of workers, the hour the turn
began (`now` is computed once per turn) and the sectors a macro sweep found due.
`FlowTurn`, `BreadthTurn` and `EconomicsTurn` catch their own exceptions and leave
`last_run_at` alone; the macro refresh does not catch FRED's, so `FredRaises` ends
the turn for those after it. `Die` forgets the sweep, which is a module variable,
and loses the scan that runs.

A Treasury session is its day. The provider honours a request up to a width
(`Honoured`); `PullTreasury` asks for the backfill's windows, oldest first, until
one fails, and once the marker is set from the last stored date on. The rows of an
answer are upserted one after another, in the provider's order, and the store may
be cut short between any two (`TreasuryCut`): the process dies, or a yield is no
number and `float` raises past `run_economics_pull`, which catches provider errors
only. So may the calendar's upserts and the indicators (`EconomicsCrash`).
`cutOff` is a history variable: the sessions inside a request that was wider than
honoured, those that the windows of an interrupted backfill no longer reach when a
later turn resumes it (`PassedBy`), and those older than a row that a store cut
short had written.
`CurveOverlay`, `ChangeSince`, `Reported` and `Upcoming` are what the pages make of
the stored rows. In `EarningsScans`, a company's data is the points it is worth
(`Found`), and `Ranked` is the sort with its ties.

### The skills

A bar is a record of integers and a day. Thresholds that the code compares as
ratios are cross-multiplied, and rounding is kept where a comparison follows it
(`DoubleVolume`, `Size`, `Score`). `Resample` groups the daily bars by period; the
newest period is open, as in the code. `Trading!Session` adds a session and manages
the position with the stop the last report named; the other skills are functions
of the series, recomputed after every session, and their properties compare two
successive answers. Gaps and volume get what `get_price_history` hands them, the
last year (`Daily`), so that a session leaves their input as another enters it; a
gap is then compared with itself by its date, not by its place.

Nothing in the repository but its tests calls `position_management.run`, and no
collection keeps positions. That the stop a report names is the stop of the next
session comes from its docstring (`position_management.py:4-5`), so `StopIsHonoured`
is about the function used as it asks to be.

## What is checked

Every run turns deadlock checking off: inputs are bounded and the system rests
when they are used up and nothing is queued.

| Run | Instance | Shows |
|---|---|---|
| `queue_serial` | 1 ticker, 1 thread, 2 jobs, every kind of request, 1 crash, 2 clock values | one active job per ticker; a deleted ticker leaves no job and no pin |
| `queue_concurrent` | 1 ticker, 2 threads (symmetric), 2 jobs, enqueue/analyze/delete, 1 crash | the job being executed cannot be claimed again; a promised full job is full while pending; `StockQueue` implements `JobBoard` |
| `queue_live` | 2 tickers, 2 jobs, Run All/analyze/delete, 1 crash | a pending job is claimed or withdrawn; every job gets an outcome, unless a death interrupted it |
| `price_callers` | a pull or chart beside a sweep, 3 days, widest gap 1, 1 restatement | no gap and no unfinished bar beyond the overlap; a delta writes what a full retrieval would; no refresh loses a stored day |
| `price_undone` | pull and sweep, 1 restatement | **violated**: a full refresh overwritten with old bars |
| `breadth_days` | 3 days of which one without a session, earlier history, a lookback of 2 so that the window moves, 2 kinds of divergence, 1 exchange, 1 outage, 1 crash | divergences do not overlap; events are on record; the call repairs what a dead one left; no hole in the history; follow-through windows are exact and get filled; a death costs at most one event |
| `flow_scans` | 1 ticker, 2 funds in 3 wordings, 1 13F row, 2 days, 2 listed moves, 1 failure, 1 delete | no repeat within the dedup window; a 13F row once; when `last_scan_at` advances no listed move has been left out |
| `pulls` | 4 days, cap 4, 5 articles in pages of 2, 6 filings by 3 insiders, 2 statements; 2 page requests (symmetric), 2 hours a day, 6 hours, 2 changes of the provider | the cap; what is served unmarked is fresh; only a cut-short fetch lets an article slip; a promptly filed transaction is still asked for; a delta keeps the window; the cluster is any window's; no statement is served beyond its window; no false delisting over a confirmed statement; weeks of moves meet, but for moves no scrape found |
| `pull_rebuild` | the same | **violated**: a full refresh that replaces stored news by nothing |
| `worker_turns` | 5 days (the 4th to the 8th) of 2 hours, sessions on 1, 2, 4, 5, 7 and 8, a backfill of 5 days, 3 companies, 2 scans, 1 death | types, with which a scan's list is a ranking; the pages show what the provider has: the stored sessions have no hole but those cut off, an event is shown once; a success has every session but those; FRED data is younger than two windows |
| `worker_live` | pairs of workers in one loop, 2 scans, 1 death, FRED that may fail for ever | a job is taken; a scan ends; a due daily worker runs |
| `trading_sessions` | every series of 6 sessions of 6 kinds over a weekend, in a year of 5 days, favorable or not | what is advised has grounds: continuity read off resampled frames is what the series says, and adding above +40 rests on an extreme; an open bar only widens; a gap's record stays as the year moves on, and so does its fill; the stop never falls and is obeyed; a streak grows by one as far as the year reaches, or ends, and a young one is not called accumulation without a spike or a PEG |

Bounds. Two jobs and two threads are enough for every check-then-act race of one
ticker: each race has one reader and one writer, and a third job would have to
race with one of them in the same way. Two tickers are needed only where one
worker must serve both (`queue_live`). The clock of the queue needs a value
at which a running job is not yet stale and one at which it is. Three days are
the fewest in which a bar lies further than the overlap from the end; four let a
gap wider than `MaxGap` open after that. Breadth needs a day on which a
divergence opens, one on which it is resolved or replaced, and one whose session
is its follow-through; the first of the three days has no session, so that a
divergence may be dated on such a day. One crash and one
outage meet every step; two would only repeat them, each call beginning afresh.
The flow scan needs times exactly a dedup window apart, and a pair of
wordings of one fund that contain one another and one of which contains another
fund's. `MaxJob`, `MaxNow`, `MaxCrash`, `MaxDay`, `MaxRestated`, `MaxFault`,
`MaxDelete`, `MaxPost` are the bounds; `HasRoom` keeps a request from starting
that could pass `MaxJob`.

`pulls` and `worker_turns` look at one concern in a behaviour (`Focus`), because the
stores are independent documents: what they share is the budget, which `pulls`
keeps in every behaviour, and the loop, which `worker_live` keeps. Five articles
are the fewest with a page that is full, one that reaches the first day asked for
and one beyond the most pages; four days let a stored article leave the window
and a delta begin after it. The clock turns at most once under a page request
(`OneTurn`: a request takes seconds and an hour is the unit), and the pages' clock
stops at `LastHour`, by which each age has expired at least once. The macro cache
and its renewals need three windows. Two companies pass the pool's limit of
`MaxCandidates`, a third does not. The year of five days
holds five of these sessions, and the sixth takes the first out of it, so that a streak stops growing because the year is full, and a gap
is found at another place, its fill beside it. The streak that counts as sustained
(three sessions) is shorter than that, and accumulation in a younger one is reached. On the quiet kind of session there is no NYMO reading. `MaxChanges`,
`MaxDay`, `MaxHour`, `MaxScans`, `MaxDeaths`, `LastHour`, `Focus`, `Filings`, `Found`
and `Close` are the bounds.

Fairness of the queue (`StockQueue!Fairness`). The worker's loop polls for ever and
is restarted, and every accepted request is served by its thread, so each of their
steps is weakly fair. One fairness condition covers the alternatives of a step
(finish, fail or delist): the code owes one of them, not any particular one.
Arrivals, crashes and the clock are not fair. `EveryJobSettles` excepts a job that
a death left running (`Interrupted`), because nothing in the code settles that one.

Fairness of the loop (`Worker!Spec`). The loop never stops (weak fairness of
`Turn`: it polls for ever and Docker restarts it). A daily worker that is tried
again and again does not fail every time (strong fairness of its success), which
is what a retry hopes for; nothing of the kind is assumed of FRED, of scans, of
jobs or of the clock.

### What the runs found

* **`price_undone`.** A delta that read before a full refresh wrote puts the old
  bars back with its own `replace_one`.
* **`pull_rebuild`.** A full refresh of the news starts from an empty baseline and
  replaces the stored articles with what was fetched. When the provider answers
  with nothing, or fails after the first page and the rest had been stored, less
  is left than there was; an insider rebuild does the same. FR-030
  (`specs/024-delta-data-pulls/spec.md:351`) rules this out. The price store
  guards against it.

### Where a property stops short

The properties are stated where the code keeps them. Each exception below is a
behaviour of the model, and worth knowing:

* Two concurrent requests for one ticker both find no active job and both insert
  one (`_enqueue` is a check and then an insert, without a unique index), which is
  why `OneActivePerTicker` is claimed for one request at a time;
  `specs/component-specs/backend/routers/queue.md:35` calls enqueueing idempotent.
* The worker may claim a pending delta job between `_enqueue`'s `find_one` and the
  upgrade, whose filter is the `_id` only: the job runs as a delta and the client
  is told `upgraded_to_full` (`specs/024-delta-data-pulls/quickstart.md:221` is
  about this case). `PromiseKeptWhilePending` is about a job as long as it waits.
* The result of a crew is written without looking whether its job was deleted
  meanwhile, so a deleted ticker may keep an analysis (`specs/023-remove-stocks/spec.md:131`).
* A job interrupted less than 30 minutes after it started is not reset by the
  restart, and recovery does not run again in that process (`Interrupted`).
* `_breadth_records` serves the cache when any row was computed the same UTC day:
  after a crew's pull in the morning the evening run, which `settings.py:24` calls
  the sweep after the US close, serves the morning's rows.
* A full refresh answered with nothing keeps the old series but dates it as
  established today.
* A death between the insert of a divergence and its event loses the event, since
  the next call finds the divergence open (`CrashCostsOneEvent`).
* A death in the middle of the row loop leaves old rows stamped with today, so
  that the rest of the day is served without the newest row. When the pause
  before that sweep was longer than the lookback, the rows it has not come to lie
  between older ones and today, and what is served reads across them:
  `ReadingHasNoHole` is about the sessions of the window (`Covered`).
* SPY being unavailable reads as no divergence and resolves the open one.
* A divergence resolved on a day without a session never gets its follow-through
  returns: its date is not among the sessions (`FollowThroughFills` asks for it).
* A scrape failure is swallowed in `get_recent_superinvestor_moves`, so the scan
  succeeds and `last_scan_at` advances past moves nobody read, although
  `institutional_flow_worker.py:136` has a failed scan re-cover its window
  (`scan.missed` in `WindowIsCovered`).
* A manual scan before the scheduled hour counts as the day's scheduled one
  (`StartScheduled` compares days only).
* A fund whose name has no letter or digit has an empty key, which is never the
  same fund as another; such a move repeats. `WindowIsCovered` counts a move as
  surfaced by its own key or by one of the same fund.
* `_fetch_window` stops at a full page that reaches the first day asked for, so
  older articles of that day slip; articles between a failed page and the stored
  ones are not asked for again (`cut` in `SlipsOnlyWhenCut`, a part of
  `DeltaAsksForTheMissing`).
* An insider filing that arrives more than a day after a newer transaction was
  stored is not asked for by a delta (`PromptFilingIsAsked` says "within a day"), nor
  is anything promised of a filing whose transaction has no date. An
  amended filing has another key and is stored beside the first, although
  `transaction_key` is meant to identify a transaction.
* With no confirmed income statement in the cache, an outage of the provider that
  also makes the statements unavailable closes the ticker as delisted; once the
  document has expired, a refetch under a spent budget overwrites confirmed
  statements with empty ones.
* A statement whose request fails otherwise than with 402 or 403 raises, and what
  the same fetch had already got is not stored.
* The superinvestor page is cut at 8000 characters and a model extracts its moves,
  so a successful scrape finds any part of them (`Scrape`), and the date of the last
  pull advances over the rest: `KNOWN_ISSUES.md:130-135` calls coverage partial.
  `MovesWindowsMeet` excepts what no scrape of its page has found (`missed`); what it
  says of the others is that the dates asked for leave no day between two pulls.
* The date of the last superinvestor pull is written before the list: a death in
  between, or a midnight before it, loses moves (`accounted` in `MovesWindowsMeet`).
* Two requests for an expired page both ask the provider, and while it fails every
  request asks again, so headlines may cost more than one call an hour
  (`specs/022-market-news-feed/spec.md:113`). An answer that is not a list is
  cached as a fresh empty page.
* `get_earnings_calendar` is documented to raise only when nothing is cached, but
  raises when the universe fails with a window in the cache.
* A failed earnings history is stored, and served for a day, as an empty one.
  `_fmp_get` in `earnings_data.py` bypasses the counter, so `CapHolds` is about
  guarded calls.
* A failing indicator series is skipped within its sub-pull, and the pull is still
  a success (`SuccessIsComplete` is about the sessions).
* A rescheduled event leaves its old row until it falls out of the window
  (`EventIsShownOnce` excepts `moved`).
* A Treasury outage longer than the provider honours in one request leaves a hole
  that no later pull fills (`cutOff`). So does a backfill that fails between two
  windows and is resumed on a later day: its windows begin later, so that sessions after the ones it had stored and
  before the first day it now asks for are never asked for. The proof of
  `PagesAreTheProviders` found this one.
* A daily Treasury answer that is stored in part, newest rows first, leaves the
  older ones behind `_last_treasury_date`: no later pull asks for them, and the next
  day's success is recorded without them (`TreasuryCut`, and again `cutOff`).
  `economics_worker.py:11` has the pull catch up "whatever a down day missed".
* `run_macro_refresh_if_due` says that it never raises; `get_macro_data` may, and
  the turn then skips economics, scan and queue. Because the throttle is set
  first, it does so once an hour.
* Completing the FRED document renews the date of what it held, so a series may
  be almost two windows old (`FredWithinTwoWindows`).
* An earnings scan whose process dies stays running (`lostScans`).
* The rules of market flow say never to chase adds above +40; the recovery rule
  precedes that one and does (`AdviceHasGrounds` says when).
* A gap at the very start of the year has averages over what is left of the year,
  and its class may change from one analysis to the next (`Reach` in
  `GapsKeepTheirRecord`; with the code's windows the sessions scanned lie well
  beyond it once there is a year of them).
* ACCUMULATION is signalled on the first day of a streak when the score reaches 3
  by the ratio and a spike or a PEG (`accumulation.py:92`); SC-002 of
  `specs/014-accumulation-volume-rules/spec.md:110` never has it under three weeks.
  `StreakGrowsOrEnds` says what the code does keep.
* A stop raised after a session may lie above that session's close; up/down volume
  over sessions without a move reads as a distribution warning; `detect_patterns`
  reads the open period's bar as the latest one; and the second trough of
  `detect_nymo_divergence` may lie in the first half. The crew passes no SPY
  closes, so that rule never applies in `Trading`.

## What is proved

TLAPS checks, for every value of the constants (any tickers, threads, days and
bounds):

`StockQueue_proofs`

* `TypeCorrect`, `HeldJobIsNeverReclaimed`, `PromiseIsKeptWhilePending`,
  `ImplementsBoard`: from the inductive invariant `IInv`, which adds to the types
  that documents at or beyond `nextJob` are not inserted, that a handler only
  holds jobs that were inserted, that the job held is running or deleted, and
  that a promised job is full while it is pending. `HeldJobIsRunning` alone is
  not inductive: an insert must be known not to touch the held job.
* `SerialRequestsNeverDuplicate`: with `Req = {r0}`, from `SerialInv`, which adds that between its check and its
  insert the one thread's ticker has no active job. Recovery keeps it because it
  changes a running job to pending: active either way.
* `SerialDeleteLeavesNothing`: with `Req = {r0}`, from `TrackedInv`: a ticker that is
  not in the registry has no active job and no pin, or the delete that took it out
  has not come to them yet (`Cleared`); a handler that inserts a job or a pin finds
  its ticker registered (`Knows`); and a ticker has at most one pin, so that the
  delete's single `delete_one` is enough.

`PriceStore_proofs`

* `StoredSeriesIsSettled`, `DeltaWritesFullSeries`, `TypeCorrect`: from `Inv`,
  which says that the document, every series a call has read and every series a
  call would write are sound (settled, and without a bar the provider has not
  published), and that only the last two days' bars of the provider move. The
  write of one call is sound whatever the others did, which is why lost updates
  do no lasting harm to the series' shape.
* `RefreshNeverShrinks`: from `FullCovers`, by which a full answer has every day
  that its call had read.

`Breadth_proofs`

* `EpisodesNeverOverlap`, `EventsAreOnRecord`, `TrackingIsRepaired`,
  `TypeCorrect`: for any calendar, lookback, windows and bounds. `EpisodesDisjoint`
  is not inductive: the invariant adds what the call in progress knows at each step
  (at `insert` nothing is open, its date is no earlier than the last resolution and
  no later than today; at `emit` its divergence is on record; from `find` on, `last`
  is the type it read).
* `ReadingsHaveNoHoles`: from `Reads`: rows are written oldest first, so at every
  moment, a death's included, the stored rows of the window are a prefix of it.
* `FollowThroughHolds`: from `Measures`, with a lemma that in an unbroken reading
  the n-th session after a day is the same, whoever counts it.
* `DeathCostsOneEvent`: from `Paid`: divergences without an event are no more than
  the deaths and the one that a call is about to announce.

`FlowScan_proofs`

* `FeedNeverRepeats`, `FilingsSurfaceOnce`, `TypeCorrect`: the invariant says of
  the batch what the feed promises of itself, and that nothing in the batch repeats
  the feed. Because that holds all through the insert, and not only when it begins,
  a scan cut short anywhere leaves a feed that the next scan can be compared with.
* `NoMoveIsLost`: from `Window`: a scan looks back to the last one's time
  (`LooksBack`), each move of its window is in its list, its batch or the feed
  (`NoneIsLost`), and before it stamps `last_scan_at` the batch is empty.

`SharedBudget_proofs`

* `CapIsHeld`: from `Counted`, by which no more was sent than counted. A batch of
  calls keeps it whoever makes it (`SpendIsCounted`), because every call is counted
  before it is compared; the cap alone is not inductive.
* `WeeksMeet`: from `Carried`, which says what a pull holds between its two writes:
  every move since the last date but those its scrape, or an earlier one, has missed.
* `StatementsStayFresh`: from `Dated`: a document is never dated later than anything
  in it. The mutant that dates it again on a partial retry breaks it.
* `ConfirmedIsKept`, `DeltaLosesNothing`, `ClusterIsFound`, `TypeCorrect`: from the
  types; the cluster moves any window to its first purchase.
* `MissingIsAskedFor`: from `Asked`: the provider lists nothing ahead of its day,
  and what a store lacks is at most a day older than anything it holds. Under it are
  lemmas about pages as ranks: every rank is taken, the pages before a full one are
  full, and a window whose pages were read is covered.
* `PagesStayFresh`: from `Upkept`: what a document or a request holds is at least as
  new as every change before the time it is dated (`Seen`). The calendar is a window
  and the universe it was cut to, and both must be said: it is stored an hour at
  most after it was answered, and its universe may be that much older as its age.

`Worker_proofs`

* `SuccessHasEverySession`, and with the rows `PagesAreRight`: from `Stored`: once
  the backfill is done the stored sessions reach from the first to the last without
  a hole but the sessions cut off (`Gapless`), also after a store that was cut short. `Listed` adds that a day has one row and an event one day.
* `NothingIsServedTwiceItsWindow`: from `Fred`: while the document lacks a group, what it
  has is as old as the document (`LacksNothingOld`), so that a completion, which
  renews the date, adds one window to an age and never two.
* `TypesHold`: of the whole loop; a finished earnings scan is a ranking for any data.

`Trading_proofs`

* `StopNeverRetreats`, `GapsAreRecordedOnce`, `StreakIsContinuous`: from the shape
  of the series (`Series`) and what a skill makes of a year of it and of the year
  with a session more and its oldest ones gone: the year moves on by a stretch
  (`YearMovesOn`), a gap's averages and its prior trend read only what lies before
  it, within `Reach` (`RecordIsKept`), and the streak counts back from the end
  (`StreakByASession`), a session further or to the year's first window.
* `AdviceIsGrounded`: `Dates` adds that sessions ascend, so that the series is a
  `Frame`. The n-th bar of a resampled frame is that of the period with the n-th
  rank; since a month lies in one quarter and one year (`MonthLiesIn`), resampling
  the months again opens where resampling the days would (`TwoSteps`), and a cut
  keeps the last bar (`SliceKeepsTheLast`).
* `OpenBarWidens`: a session that adds no period joins the last one
  (`RowJoinsTheLastPeriod`), so the bar before stays and the last reaches further.

`Extrema` has what several of them need of the smallest and the largest of a set.

Sums (`SumIsNatural`) and bounds (`Bounded`) are inductions over data, which the
library's induction theorems cannot be used for here; they are done by hand, from
the least counterexample (`Smallest`).

Assumptions: `MaxJobAssumption`, `OpsAssumption`, the queue's and the loop's
`WorkerAssumption` (the provider has published before the loop first starts),
`StoreAssumption` (the overlap is positive: with 0 the theorem fails, as the
mutant `NoOverlap` shows), `BreadthAssumption`, `FlowAssumption`, `CapAssumption`,
`NewsAssumption` (articles are numbered by time), `InsiderAssumption`,
`StatementAssumption` (finitely many), `PullAssumption` (finitely many filings; a
filing is its merge key, and not before its transaction), `PageAssumption`,
`HoursAssumption`, `EconomicsAssumption` (the last window of a backfill reaches
today, as with 730 days in windows of 90), `MacroAssumption`, `EarningsAssumption`,
`AccumulationAssumption`, `GapsAssumption`, `PositionAssumption`,
`TradingAssumption` (a bar's prices are positive and within its range, sessions
ascend), `StratAssumption` (quarters and years are made of whole months).

Only model-checked: the five liveness properties (`PendingIsClaimed`,
`EveryJobSettles`, `JobIsTaken`, `ScanEnds`, `DueIsRun`), which are out of the prover's
reach, and the two violations, which no theorem can state. `OneActivePerTicker` and
`UntrackedLeavesNoWork` are proved for any one request thread, which is also how
the runs check them.

## Plan

Done: every component with state of its own that decides something, and a theorem
for every safety and action property that a passing run checks. Left are theorems
beyond those properties: what survives of the queue's single-threaded ones when
requests run side by side (a second active job of a ticker needs two handlers
between their check and their insert, a job of a deleted ticker one whose lookup came
before the delete), and the price store's last writer (the document is what one call
read and was given, never a mixture of two).

## Not modelled

Prompts, agents, chunker, LLM client (text, no state), pull metrics (a recorder
nothing reads back), the 13F and sentiment caches (a freshness test and a
replacement, nothing carried over), read-only endpoints, the frontend, scripts,
logging. Admin jobs of the queue (`job_type`) have handlers but nothing in the
repository inserts one. The provider throttle (a rolling minute per process) only
delays a call. Database failures inside a handler are not modelled: the exception
leaves the handler where a crash of its thread would.
