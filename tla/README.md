# Binance trade dashboard: TLA+ models, checks and proofs

This directory models the repository's program, a FastAPI process that ingests
Binance trades and one-minute candles into PostgreSQL and serves them to a
React dashboard. TLC checks the models on small instances, and TLAPS proves every
safety property and every refinement that the runs check for every value of the
constants.
`PROJECT.json` lists the components, the runs, the definition-to-source map, the
mutants that show each property can fail, the findings and the hazards.

    tlc -workers 2 -config MCCandleIngestion.cfg MCCandleIngestion
    tlapm CandleIngestionProofs.tla

## 1. The system

One asyncio process: every `await` is a point where another task, the exchange,
a failure or a cancellation may come between; between two awaits nothing does.

| Component | State it keeps | Operations | Talks to |
|---|---|---|---|
| `binance_rest.fetch_klines` | cursor, pages so far, attempt | page loop, retry on 418/429 | exchange (HTTP) |
| `BackfillService.sync` | `now`, start, batch | query newest, fetch, upsert, `record_backfill` | REST client, database |
| `BinanceWebSocketClient.run` | backoff, stop flag | connect, hooks, dispatch, finally, sleep | exchange (WS), pipeline hooks |
| `IngestionPipeline` | `_connected_once`, buffers | `initial_backfill`, `handle_connected`, `handle_disconnected`, `handle_kline`, `handle_trade` | sync, repository, bus |
| `TradeBuffer` | records, last flush | `add`, `should_flush`, `drain` | pipeline |
| repository / tables | `candles_1m`, `trades`, `pipeline_status` | idempotent upserts, counters, newest-rows queries | database |
| `EventBus` | set of queues | `subscribe`, `unsubscribe`, `publish` | pipeline, `/ws/live` |
| `ws_live` | its queue, the event in hand | accept, get, send, cleanup | bus, browser |
| REST routes | none | candles, stats, health, config | repository |
| `lifespan` | the pipeline task | start, stop and cancel | pipeline |
| `useLiveFeed` + `reduce` | socket, timer, delay, candles, volumes | connect, open, message, close, timeout, unmount | `/ws/live` |
| `App` / `Dashboard` | symbols, loaded history, health rows, warning | fetch config, initial load, health polls | REST routes, reducer |
| settings | `SYMBOLS` and the rest of the environment, read once per process | `symbol_list` | pipeline, stream URL, `/api/config` |
| migration, `entrypoint.sh` | alembic's revision, the schema | upgrade, downgrade, then `exec uvicorn` | database |

What is hard in it, and where the properties aim (all of it is in `hazards`):

- klines that queue up while a reconnection is synced and overwrite its rows;
- a sync whose `now` is older than its answers; holes and half-written candles
  that lie behind the newest one, where no sync looks again;
- status rows committed symbol by symbol, by hooks that a crash or a
  cancellation cuts short; counters kept by different hooks;
- trades drained from memory before their transaction, and flushed only when
  another trade arrives;
- clients that go away unnoticed while their queue is filled;
- a REST load that races the live feed, timers and sockets of a page that comes
  and goes, polls that overtake each other;
- a reconnect loop that connects, fails in its hook and starts over;
- one symbol that is spelled in `SYMBOLS`, in stream names, in payloads, in rows
  and in queries, while containers restart and pages stay open;
- a migration that is interrupted and run again.

## 2. The modules

| Module | Models | Extends / instantiates |
|---|---|---|
| `FetchKlines` | `binance_rest.py` | implements `KlineRange` |
| `KlineRange` | abstract: one atomic fetch of a range | |
| `CandleIngestion` | the pipeline task's candle side: lifespan, backfill, WS client, hooks, klines, status rows | |
| `TradeIngestion` | the trade side: buffers, flushes, failures | implements `TradeLog` |
| `TradeLog` | abstract: write-behind log of bounded loss | |
| `LiveSocket` | `eventbus.py`, `routes_ws.py` | implements `Broadcast` |
| `Broadcast` | abstract: numbered events, one after the other | |
| `Dashboard` | `useLiveFeed.ts`, `liveState.ts`, the load in `App.tsx`, candle and stats routes | |
| `HealthPoll` | the health polls and warning line in `App.tsx`, `get_health` | |
| `Migration` | `entrypoint.sh`, `env.py`, `0001_initial_schema.py` | |
| `Deployment` | settings, stream names, parsing and dispatch, rows by symbol, `/api/config`, the page's tabs, over restarts | extends `Migration` |
| `FetchKlinesProofs`, `CandleIngestionProofs`, `TradeIngestionProofs`, `LiveSocketProofs`, `DashboardProofs`, `HealthPollProofs`, `DeploymentProofs` | theorems and proofs | extend the module and `TLAPS` |
| `MC*` | constants for TLC | extend the module |

How state and actions correspond to the code:

- **FetchKlines.** Times are milliseconds. `LoopTest` is the `while` condition,
  `Throttled`, `Retry` and `RequestFails` the retry loop, `EmptyPage` and
  `ReceivePage` the rest of the body. The list of candles is the set of its open
  times and its length. `ListKline` lets the exchange list more between pages.
- **CandleIngestion.** Time is counted in minutes and a candle is named by its
  minute. Of its values only what makes them right or wrong is kept: `final`
  (taken after the minute ended) and the `is_closed` column. `pc` is what the
  pipeline task awaits next; there is one action per transaction, answer or
  message. `SyncQuery`, `SyncFetch`, `SyncCommit` are `sync` with the commit of
  its caller, `Connected` and `Mark` are `handle_connected`, `Hook` is one commit
  of `handle_disconnected`, `HandlerFails` (also of the connection attempt and of
  `handle_connected`), `SyncFails` and `HookFails` are the exception paths of `run()`, `Shutdown` is `lifespan`'s
  cancellation at each await, `Crash` loses everything but the tables. The link
  is a FIFO that can be read after it was lost. That sync may be given the fetch
  as one step is what `FetchKlines` establishes.
- **TradeIngestion.** A trade is its id. `HandleTrade` is `handle_trade` up to its
  await (add, publish, `should_flush`, `drain`), `FlushCommit` and `FlushFails` are
  the two ends of the transaction, `Stop` is a shutdown or crash. A clock with
  ticks stands for `time.monotonic()`. Connection handling is reduced to "away".
- **LiveSocket.** A client is one connection. `Open`, `Subscribe`, `Get`, `Send`,
  `SendFails`, `Cancel` are `ws_live` from await to await. `Leave` and `Notice`
  separate the moment a browser goes away from the one the server knows.
- **Dashboard.** One symbol, since the reducer keeps symbols apart. A candle is the
  number of the kline message that wrote it, so "newer" and "the same minute" are
  arithmetic; `Price` gives the messages values for the statistics. `UpsertCandle` has
  a branch for the candle that is replaced and one for the candle that comes between
  the earlier and the later ones, which is where `push` and `sort` put it in a chart
  that is in order, as charts are (`ChartInOrder`). The backend is
  what a browser can see of it: rows ahead of their announcement, klines that a
  sync wrote silently, trades announced before they are stored, one FIFO per
  socket, as `LiveSocket` guarantees. `Load` dispatches both REST answers, each of
  which was read at its own time.
  A pipeline that loses its connection says so (`PipelineDisconnects`) unless its hook
  raises first (`HookFails`); the page is compared with the connection, not with what
  was announced.
- **HealthPoll.** Polls are slots, so that they may overlap; the row carries a
  version to tell older answers from newer ones, and `shown` remembers per poll which
  version the panel had when it was sent.
- **Migration.** `Upgrade` lists what the statements of `upgrade()` create. `Launch`,
  `Execute`, `Commit` are the script from alembic's first query to `exec uvicorn`;
  `Stop` and `DatabaseTurns` interrupt it anywhere and roll the transaction back.
- **Deployment.** A symbol is a coin in a spelling; `SYMBOLS` is a set of tokens, blank
  or with blanks around them. `Serve` reads it once and builds buffers, `Connect`
  the stream names, `Dispatch` takes a message through `parse_message` to its
  handler, rows and the reducer. `OpenPage` takes the tabs from `/api/config` or the
  fallback, `Reconfigure` changes `SYMBOLS` while the container is down and pages stay
  open. Sync, flush and delivery are one step each: their own modules have them in
  detail, and `Deployment` composes what they have in common, the symbol.

Mutants stand next to the definition they change, under a comment that begins with
"Mutant". They are not part of any specification: replacing the definition by its
mutant must make the property that names it fail.

## 3. Runs

Every passing run takes under about three minutes with two workers. Deadlock checking
is off where the bounds (clock, events, faults) or a page that was left let a model
stop; `deployment`, which never stops, checks it.

| Run | Instance | What it shows |
|---|---|---|
| `fetch_klines` | 8 instants, 7 klines with one outage, pages of 2, 2 retries | complete, disjoint pages; termination; refinement of `KlineRange` |
| `candles` | 2 symbols, minutes 0-3, window 1, lookback 2, backoff 2 to 3, 2 faults | `ClosedIsFinal`, `CoverageHonest`, `CaughtUp`, `StatsSpanDay`, `NoNewHole`, `StatusHonest`, `ReconnectsExplained`, `LiveNeverGoesBack`, `Converges` |
| `trades` | 2 symbols, 4 trades each, batch 3, interval 2, clock 0-3, 1 fault | loss bound, flush order, `last_trade_at`, refinement of `TradeLog` |
| `live_socket` | 2 clients, 3 events | no gap or repetition, delivery, clients that are gone are dropped, refinement of `Broadcast` |
| `dashboard` | 2 sockets, 4 klines, 1 trade, 1 outage, chart and lookback of 2 | one feed, ordered and complete chart, statistics as the server's, reconnection, a header that settles on the pipeline's state |
| `health` | 2 requests under way, clock 0-3, 3 writes, 1 outage | panel and warning settle; no answer takes the panel behind what it showed when its poll was sent |
| `deployment` | 2 coins, 4 values of `SYMBOLS` (clean, untidy with a coin twice, one lower-case coin, blank), any number of restarts | `SchemaWhole`, `NothingRaised`, `OneSpelling`, `PageFed` |
| `gap_covered`, `only_last_open`, `backoff_grows`, `quiet_flush`, `loaded_then_live` | as above, smaller | the findings of section 5 |

Why the bounds are enough. Pages of two make full, short and empty pages and a
boundary that falls on a kline or between two. Four minutes with two faults hold a
connection, an outage with a minute in it, a failed or crashed sync or hook between
the commits of two symbols, a second connection and klines that end while the sync
is under way. A backoff from 2 to 3 tells a ceiling that is no multiple from a
doubling. The state space of `Deployment` is finite, so that restarts, outages and
drops need no bound. `QueueBound` only holds back messages within a minute, closing klines always
come. `Tick` lets at most one minute pass between the exchange's accepting a
connection and the task's noticing it (an event loop that sleeps for minutes is
left out). A batch of three and an interval of two have a flush by size, by time and
neither. Two klines per minute and a chart of two candles have replacement,
insertion and trimming; the last socket of a page is never lost, so that "in the
end" has a meaning.

Fairness. `CandleIngestion` and `TradeIngestion`: weak fairness of what the
pipeline task does when nothing fails, since every await in it ends (the exchange
accepts or the attempt raises, transactions commit or raise) and faults are
bounded; `Start` is not fair because nothing restarts the process
(`docker-compose.yml` sets no policy). `TradeIngestion` also lets time pass. The
exchange owes nobody a trade. `LiveSocket`: the coroutines run, and the server's
keepalive finds out about absent browsers. `Dashboard`: timers fire, callbacks run
and a socket that is not refused opens; leaving the page, loading and the backend
are not fair; while Binance is away `run()` goes on trying and each attempt ends
(the backoff is at most 30 s). `HealthPoll`: fetches settle and the interval fires.
`Deployment`: as long as a connection lasts, klines of every coin that Binance serves
are dispatched; nothing makes anybody start, connect or open a page, which is why
`PageFed` is conditional on all of it being up.

## 4. Proofs

All proofs are checked by tlapm to the last leaf; the only assumptions are the
`ASSUME`s on the constants, which TLC evaluates in every run, and the one that
`CardsAgree` states. Every strengthening below was an invariant of a TLC run before
it was proved. Steps named by a letter (`<1>a`) are standing facts that the steps
after them use.

`FetchKlinesProofs`, from `FetchAssumption` (finitely many klines, no two on
adjacent milliseconds). `FetchInv` says that the cursor splits the range: every kline
of the first listing before it is collected and nothing at or after it is, it stands
at the start or one millisecond past a kline, `fetched` counts what is collected, and
`done` is reached only with nothing of the first listing left. `PageIsPrefix`, on what an answer of the
exchange is, carries the step of `ReceivePage`.

| Theorem | States |
|---|---|
| `TypeCorrect` | `Spec => []TypeOK` |
| `NothingMissed` | `Spec => []NoKlineMissed` |
| `NothingTwice` | `Spec => []NoKlineTwice` |
| `ImplementsRange` | `Spec => AtomicRange`: refinement of `KlineRange` |

`CandleIngestionProofs`, from `IngestionAssumption`. Each property has its own
strengthening, proved on top of `TypeOK`:

| Theorem | States | Inductive invariant |
|---|---|---|
| `TypeCorrect` | `[]TypeOK` | `TypeOK` itself, with the algebra of tables, queues and the backoff as lemmas |
| `ClosedCandlesAreFinal` | `[]ClosedIsFinal` | `FinalInv`: also of the fetched batch and of the queued messages |
| `CoverageIsHonest` | `[]CoverageHonest` | `CoverageInv`: a fetched batch has the minutes from start to `now`; stored minutes only grow |
| `StatusIsHonest` | `[]StatusHonest` | `StatusInv`: outside `mark`, `stream` and `hook` a row that says connected is an unrecorded end; in the hook, the rows before `sym` are already down |
| `ReconnectsAreExplained` | `[]ReconnectsExplained` | `ReconnectInv`: between a hook and the sync of a symbol its error count (with failed hooks) is strictly ahead: the hook gives one to spare, the sync spends it |
| `LiveIsMonotonic` | `LiveNeverGoesBack` | `LiveInv`: queued klines are ordered, not older than what was announced and not newer than the clock |
| `ResyncLeavesNoHole` | `NoNewHole` | `StreamInv`, see below |
| `ReconnectionCatchesUp` | `[]CaughtUp` | `CatchUpInv`: `StreamInv`, and once a symbol is synced all minutes from the start of the gap to where the stream takes over are stored (`Filled`, `Reaches`), with every past minute closed or its closing kline queued (`Closes`) |
| `StatsAreOfTheWindow` | `[]StatsSpanDay` | `CatchUpInv`: only minutes before the gap can be missing (`Old`), and a row that is too old has, up to the newest one, nothing but newer rows and such minutes behind it, which bounds how old it is by counting them |

`StreamInv` is why a reconnection and a stream that starts before it is synced do not
leave a hole between them. It says when the queue is empty (`Quiet`), that what it
holds is not of the future (`Past`) and not of before the connection (`Recent`), that
every minute that passes while the link is up sends its closing kline (`Closing`),
that the queued minutes of a symbol follow one another (`Chain`), and that between a
symbol's stored rows and the first queued kline nothing is missing once it is
synced (`Gap`).

`TradeIngestionProofs`, from `TradeAssumption`: any batch size and interval.

| Theorem | States | Inductive invariant |
|---|---|---|
| `TypeCorrect` | `[]TypeOK` | `TypeOK`; a buffer is shorter than a batch because `HandleTrade` drains a full one |
| `NothingForgotten` | `[]AccountInv` | `AccountInv`: ids are handled in order (`Ordered`), a drained batch is that of the flush under way (`Draining`), and the announced trades are the disjoint union of stored, lost and in memory (`Accounted`) |
| `LossIsBounded` | `[]LossBounded` | `AccountInv` with the losses counted per failure |
| `FlushIsNotOvertaken` | `[]FlushedByLater` | `Timely`: the trades of a buffer are younger than its last flush by less than the interval |
| `LastTradeAtIsHonest` | `[]LastTradeAtCovers` | itself, on `TypeOK`: both columns are written in one transaction |
| `ImplementsLog` | `WriteBehind`: refinement of `TradeLog` | `AccountInv` |

`LiveSocketProofs`, from `LiveAssumption`: any number of clients and events.

| Theorem | States | Inductive invariant |
|---|---|---|
| `TypeCorrect` | `[]TypeOK` | `LiveInv`: with `Subscribed`, which says where `ws_live` stands when its queue is registered |
| `NothingIsBetween` | `[]NothingBetween` | `LiveInv`, with lemmas on how intervals of event numbers are appended to and taken from (`Sight` is what a client got, has in hand and has queued) |
| `ImplementsBroadcast` | `FeedImplemented`: refinement of `Broadcast` | `NothingBetween`: the event in hand is the client's next |

`HealthPollProofs`, from `HealthAssumption`: `TypeCorrect` (`[]TypeOK`) and
`PanelNeverGoesBack` (`NeverOlder`), the latter from `PollInv`: neither the panel nor
what it showed when a poll was sent is newer than the server's row, so that the rows
read for a poll are not older than what the panel showed then.

`DashboardProofs`, from `DashboardAssumption`: any number of messages, sockets and
outages, any length of a minute, size of the ring and prices. It begins with lemmas on
the operators: what `Trim`, `Replaced` and `Inserted` return (`TrimChart`,
`ReplacedChart`, `InsertedChart`), that `UpsertCandle` keeps the order, shows its
message and loses nothing but what that message takes back (`UpsertChart`), and what
`Rows` returns (`AllRows`, `LoadedChart`). `InOrder` states the order of a chart by
distances (n places apart, at least n minutes apart), so that it can be used without
induction over sequences.

| Theorem | States | Inductive invariant |
|---|---|---|
| `TypeCorrect` | `[]TypeOK` | `PageInv`: only the last socket is in use and a timeout runs exactly when it is closed (`Link`, `SocketLeft`), feeds hold announced klines and newer trades in order (`Feeds`), the chart is in order and its candles were announced or loaded (`Chart`) |
| `OneFeedAtATime`, `ChartIsInOrder`, `TradesCountOnce` | `[]OneFeed`, `[]ChartInOrder`, `TradesOnce` | `PageInv` |
| `NoKlineIsForgotten` | `[]NoKlineForgotten` | `SightInv`: what the open socket was sent is shown or pending (`InSight`); a later kline of a minute is pending behind an earlier one, so that a late message takes nothing back for good (`InTurn`); a load before the socket opens shows all it read (`LoadedEarly`) |
| `CardsAgree` | `[]StatsAgree`, if `MAX_CANDLES = STATS_LOOKBACK_MINUTES` | `SightInv`, and `CompleteChart`: a chart in order that shows all of n klines and none later is exactly the newest rows of n klines |

The condition of `CardsAgree` is one the code meets by two constants in two languages
(1440 in `liveState.ts` and in `routes_rest.py`); nothing but this theorem says that
they belong together. `CompleteChart` needs an induction over the candles. The prover
cannot instantiate the library's induction rule; the lemma takes the least candle that
breaks the claim instead, which exists by `LeastNatural`, from the library's theorem
that < is well founded on the naturals.

`DeploymentProofs`, from `DeploymentAssumption` alone: any coins, any ways to write
`SYMBOLS`.

| Theorem | States | Inductive invariant |
|---|---|---|
| `SchemaIsWhole` | `[]SchemaWhole` | `MigrationInv`: what the open transaction sees is the committed schema and the first `executed` statements |
| `NothingIsRaised`, `OneSpellingHolds` | `[]NothingRaised`, `[]OneSpelling` | `RoutingInv`: symbols of the process and of rows are capitals, every stream is the lower case of a symbol that has a buffer |
| `TypeCorrect` | `[]TypeOK` | `TypeOK`, on `RoutingInv` for what a message names |

Only model-checked: the liveness properties (`Terminates`, `Converges`,
`EventuallyDelivered`, `GoneIsDropped`, `HeaderSettles`, `PanelSettles`, `PageFed`),
which need `ENABLED` and are out of this prover's reach. The findings of section 5
are counterexamples, which need no proof.

## 5. Findings

1. `gap_covered`: a hole opened by a process's first connection is never healed,
   because it does not sync and later syncs start at the newest candle.
2. `only_last_open`: a candle whose closing kline was missed may stay open for good.
3. `backoff_grows`: the backoff is reset by an open socket, so that a hook that keeps
   failing is retried at the shortest delay, not with an exponential one.
4. `quiet_flush`: a buffered trade is stored only when another one arrives.
5. `loaded_then_live`: the REST answer may replace newer live candles, for the
   session if they were closing ones: a kline committed, announced and shown after
   the server had read the rows on an open socket is not on the settled page.

Each is a property written from a document or comment of the repository, and its
run is the counterexample; `PROJECT.json` has the quotations.

## 6. Not modelled

- Rendering, formatting, the selected tab and the age clock: functions of state that
  `Dashboard` and `HealthPoll` hold.
- The numbers in messages and rows (decimal columns, quote volumes, `updated_at`) and
  their serialization. `Dashboard` gives prices to klines for the statistics.
- The order of `SYMBOLS`, which is that of the tabs, and duplicates in it.
- Delays: `Retry-After`, sleeps and backoffs are states, not durations.
- Minutes that the exchange does not list: `FetchKlines` has an outage in its klines,
  but `CandleIngestion` takes it that there is a kline for every minute, in
  `SyncFetch` as in the stream. `CoverageHonest`, `NoNewHole`, `StatsSpanDay` and the
  other properties of the table are about such an exchange: a minute that it never
  listed is no row, and the statistics reach further back for it.
- The last millisecond of a minute: `binance_rest.py:34` calls a kline closed from its
  close time on, which is one millisecond before the next minute. `IsClosed` compares
  minutes and leaves this boundary out; no property depends on it.
- Hazards that no property covers: the seeded taker volumes, klines of a sync in an
  open page, the load's warning that a poll clears, the coverage column that moves
  forward, clock skew. The code does these for certain, and no document says
  otherwise; their notes are in `hazards`.
- Clock skew between the exchange and the server: with a skew `ClosedIsFinal` is false
  by its length, and the code does nothing about it.
- The sum of the taker volumes that the load seeds and live trades add to
  (`Dashboard` follows the count, `TradesOnce` says what holds of it), and their cut
  by time in the database.
- The engine set-up of `db.py`, alembic's offline mode, the image's build, ports and
  volumes.

## 7. Plan

Done: the ingestion core, the trade side, the live socket, the browser, the
deployment that holds them together, and the proofs of section 4: every safety
property and refinement of the runs is a theorem. What is left:

1. The seams between modules. `CandleIngestion` takes a fetch as one step and
   `Dashboard` a feed as a FIFO; that these are what `KlineRange` and `Broadcast`
   promise is argued in the comments and could be stated as theorems.
2. `Dashboard`: an abstract page that holds the set of klines it has seen, implemented
   by the reducer.

All liveness properties stay with TLC.
