----------------------------- MODULE Dashboard ------------------------------
(***************************************************************************)
(* The browser: useLiveFeed (useLiveFeed.ts) keeps a WebSocket to /ws/live *)
(* and reduces its events (liveState.ts), while Dashboard (App.tsx) loads  *)
(* the history over REST and dispatches it to the same reducer.            *)
(*                                                                         *)
(* The reducer keeps the symbols apart, so the module follows one.  Its    *)
(* kline messages are numbered; Updates of them in a row belong to one     *)
(* minute and the last one closes it, so that a candle is the number of the*)
(* message that wrote it.  Trades are numbered too and have quantity one.  *)
(* Of the backend the module has what a browser can see: the rows that are *)
(* stored, which may be ahead of what is announced (klines) or behind it   *)
(* (trades), and one FIFO feed per connection (LiveSocket).                *)
(***************************************************************************)
EXTENDS Integers, Sequences, FiniteSets, FiniteSetsExt

CONSTANTS
  NumKlines, NumTrades,  \* bounds: messages of each kind
  Updates,               \* kline messages per minute, the first is under way
  Price,                 \* per kline message, the close price it has
  MAX_CANDLES,           \* candles kept, and the limit that fetchCandles sends
  STATS_LOOKBACK_MINUTES,  \* rows that /api/stats is computed from
  MIN_RECONNECT_DELAY, MAX_RECONNECT_DELAY,
  MaxSockets,            \* bound: sockets created; the last one stays up
  MaxOutages,            \* bound: times that the pipeline loses Binance
  FeedBound              \* bound: messages on their way to a socket

ASSUME DashboardAssumption ==
  /\ NumKlines \in Nat /\ NumTrades \in Nat
  /\ Updates \in Nat \ {0, 1} /\ Price \in [1..NumKlines -> Nat \ {0}]
  /\ MAX_CANDLES \in Nat \ {0} /\ STATS_LOOKBACK_MINUTES \in Nat \ {0}
  /\ MIN_RECONNECT_DELAY \in Nat \ {0}
  /\ MAX_RECONNECT_DELAY \in Nat /\ MIN_RECONNECT_DELAY <= MAX_RECONNECT_DELAY
  /\ MaxSockets \in Nat \ {0} /\ MaxOutages \in Nat
  /\ FeedBound \in Nat

Sockets == 1..MaxSockets
None == -1

VARIABLES
  \* the backend
  written,       \* klines committed to candles_1m
  published,     \* klines announced on the event bus, or skipped by it
  silent,        \* klines that a sync wrote: they are never announced
  traded,        \* trades announced
  pipeline,      \* connected to Binance, as far as its hooks have got
  outages,       \* history
  feed,          \* per socket, the messages on their way
  \* the browser
  page,          \* "new", "mounted" or "unmounted"
  sock,          \* per socket: "unused", "connecting", "open", "lost" (onclose
                 \*   is due) or "closed"
  socket,        \* the socket created last, 0 before the first
  timers,        \* pending timeouts
  delay,
  wsConnected,   \* DashboardState
  candles,
  takerVolume,
  lastTrade,
  load,          \* the REST load: "none", "asked", "loaded" or "failed"
  candlesReply,  \* its answers, None before they come
  statsReply,
  \* history
  joined,        \* per socket, klines announced before it was subscribed
  overtaken      \* the load replaced candles newer than itself

klines  == <<written, published, silent>>
status  == <<pipeline, outages>>
backend == <<klines, traded, status>>
link    == <<sock, socket, timers, delay>>
trade   == <<takerVolume, lastTrade>>
view    == <<wsConnected, candles, trade>>
replies == <<candlesReply, statsReply>>
rest    == <<load, replies, overtaken>>
browser == <<page, link, view, rest>>
vars    == <<backend, feed, browser, joined>>

-----------------------------------------------------------------------------
OpenTime(k) == k \div Updates

Kline(k) == [type |-> "kline", value |-> k]
Trade(t) == [type |-> "trade", value |-> t]
Status(connected) == [type |-> "status", value |-> IF connected THEN 1 ELSE 0]

Newest(cs, n) == IF Len(cs) > n THEN SubSeq(cs, Len(cs) - n + 1, Len(cs)) ELSE cs

\* trimCandles.
Trim(cs) == Newest(cs, MAX_CANDLES)

\* Mutant: appended, as if messages always were newer than what is shown.
AppendCandle(cs, k) == Trim(Append(cs, k))

\* Mutant: a candle that is already shown is kept.
InsertCandle(cs, k) ==
  IF \E i \in DOMAIN cs : OpenTime(cs[i]) = OpenTime(k) THEN cs ELSE Trim(Append(cs, k))

Replaced(cs, k) == [i \in DOMAIN cs |-> IF OpenTime(cs[i]) = OpenTime(k) THEN k ELSE cs[i]]

\* After the earlier candles and before the later ones.
Inserted(cs, k) ==
  [i \in 1..(Len(cs) + 1) |->
     IF i <= Len(cs) /\ OpenTime(cs[i]) < OpenTime(k) THEN cs[i]
     ELSE IF i > 1 /\ OpenTime(cs[i - 1]) > OpenTime(k) THEN cs[i - 1] ELSE k]

\* upsertCandle: replace the candle of the same minute, or insert by time.
UpsertCandle(cs, k) ==
  Trim(IF \E i \in DOMAIN cs : OpenTime(cs[i]) = OpenTime(k)
       THEN Replaced(cs, k) ELSE Inserted(cs, k))

\* get_candles once n klines are written: the newest rows, oldest first.
Rows(n, limit) ==
  Newest([i \in 1..(IF n = 0 THEN 0 ELSE OpenTime(n) + 1) |->
            IF i * Updates - 1 <= n THEN i * Updates - 1 ELSE n],
         limit)

\* What the candle written by message k says of its minute; a message tells of
\* one unit of volume.
Prices(k) == {j \in 1..k : OpenTime(j) = OpenTime(k)}
OpenPrice(k) == Price[Min(Prices(k))]
High(k) == Max({Price[j] : j \in Prices(k)})
Low(k) == Min({Price[j] : j \in Prices(k)})
Volume(k) == Cardinality(Prices(k))
TotalVolume(cs) == MapThenSumSet(LAMBDA i : Volume(cs[i]), DOMAIN cs)

NoStats == [last_price |-> None, change |-> <<None, None>>, high |-> None,
            low |-> None, volume |-> None]

\* deriveStats, of the candles shown; the change is in units of the first open.
DeriveStats(cs) ==
  LET first == OpenPrice(cs[1])
      last == Price[cs[Len(cs)]]
      shown == DOMAIN cs
  IN IF cs = <<>> THEN NoStats ELSE
     [last_price |-> last,
      change |-> <<last - first, first>>,
      high |-> Max({High(cs[i]) : i \in shown}),
      low |-> Min({Low(cs[i]) : i \in shown}),
      volume |-> TotalVolume(cs)]

\* Mutant: all the rows.
GetStatsOfAll(n) == DeriveStats(Rows(n, n))

\* get_stats once n klines are written.
GetStats(n) ==
  LET rows == Rows(n, STATS_LOOKBACK_MINUTES)
      first_open == OpenPrice(rows[1])
      last_close == Price[rows[Len(rows)]]
  IN IF n = 0 THEN NoStats ELSE
     [last_price |-> last_close,
      change |-> <<last_close - first_open, first_open>>,
      high |-> Max({High(rows[i]) : i \in DOMAIN rows}),
      low |-> Min({Low(rows[i]) : i \in DOMAIN rows}),
      volume |-> TotalVolume(rows)]

Init ==
  /\ written = 0 /\ published = 0 /\ silent = {} /\ traded = 0
  /\ pipeline = FALSE /\ outages = 0
  /\ feed = [i \in Sockets |-> <<>>] /\ joined = [i \in Sockets |-> 0]
  /\ page = "new" /\ sock = [i \in Sockets |-> "unused"] /\ socket = 0
  /\ timers = 0 /\ delay = MIN_RECONNECT_DELAY
  /\ wsConnected = FALSE /\ candles = <<>> /\ takerVolume = 0 /\ lastTrade = 0
  /\ load = "none" /\ candlesReply = None /\ statsReply = None /\ overtaken = FALSE

-----------------------------------------------------------------------------
(* The backend. *)

\* Bound: a page that was left shows nothing more of the backend.
Watched == page # "unmounted"

\* EventBus.publish, to the sockets that are subscribed.
Announce(event) ==
  /\ \A i \in Sockets : Len(feed[i]) < FeedBound
  /\ feed' = [i \in Sockets |-> IF sock[i] = "open" THEN Append(feed[i], event)
                                                    ELSE feed[i]]

\* handle_kline commits the row and then announces it.
CommitKline ==
  /\ Watched /\ pipeline
  /\ written = published /\ written < NumKlines
  /\ written' = written + 1
  /\ UNCHANGED <<published, silent, traded, status, feed, browser, joined>>

AnnounceKline ==
  /\ Watched
  /\ published < written
  /\ published' = written
  /\ Announce(Kline(written))
  /\ UNCHANGED <<written, silent, traded, status, browser, joined>>

\* BackfillService.sync writes what was missed; nothing is announced.
Backfill ==
  /\ Watched /\ ~pipeline
  /\ written = published /\ written < NumKlines
  /\ written' = written + 1
  /\ published' = written'
  /\ silent' = silent \cup {written'}
  /\ UNCHANGED <<traded, status, feed, browser, joined>>

\* handle_trade announces a trade; it is stored later.
AnnounceTrade ==
  /\ Watched /\ pipeline
  /\ traded < NumTrades
  /\ traded' = traded + 1
  /\ Announce(Trade(traded'))
  /\ UNCHANGED <<klines, status, browser, joined>>

\* handle_connected.
PipelineConnects ==
  /\ Watched /\ ~pipeline
  /\ pipeline' = TRUE
  /\ Announce(Status(TRUE))
  /\ UNCHANGED <<klines, traded, outages, browser, joined>>

\* Mutant: only a change is announced.
LostConnection == pipeline /\ outages < MaxOutages /\ outages' = outages + 1

\* The finally clause of run(): a connection is lost, or an attempt has failed.
AttemptEnds ==
  IF pipeline THEN outages < MaxOutages /\ outages' = outages + 1
              ELSE UNCHANGED outages

\* handle_disconnected.
PipelineDisconnects ==
  /\ Watched
  /\ written = published
  /\ AttemptEnds
  /\ pipeline' = FALSE
  /\ Announce(Status(FALSE))
  /\ UNCHANGED <<klines, traded, browser, joined>>

\* handle_disconnected raises at one of its commits: nothing is announced.  After
\* a failed attempt that changes nothing.
HookFails ==
  /\ Watched /\ pipeline
  /\ written = published
  /\ AttemptEnds
  /\ pipeline' = FALSE
  /\ UNCHANGED <<klines, traded, feed, browser, joined>>

-----------------------------------------------------------------------------
(* useLiveFeed. *)

\* Mutant: the effect runs twice, as in StrictMode, without a cleanup.
ConnectTwice ==
  /\ socket' = socket + 2
  /\ sock' = [sock EXCEPT ![socket + 1] = "connecting", ![socket + 2] = "connecting"]

Connect ==
  /\ socket' = socket + 1
  /\ sock' = [sock EXCEPT ![socket'] = "connecting"]

\* Dashboard is mounted: its effects connect and send the two requests.
Mount ==
  /\ page = "new" /\ page' = "mounted"
  /\ Connect
  /\ load' = "asked"
  /\ UNCHANGED <<backend, feed, timers, delay, view, replies, overtaken, joined>>

\* The server has accepted and subscribed the socket; onopen.
Open(i) ==
  /\ sock[i] = "connecting"
  /\ sock' = [sock EXCEPT ![i] = "open"]
  /\ joined' = [joined EXCEPT ![i] = published]
  /\ delay' = MIN_RECONNECT_DELAY
  /\ wsConnected' = TRUE
  /\ UNCHANGED <<backend, feed, page, socket, timers, candles, trade, rest>>

\* The connection is refused or lost; what had arrived is still dispatched.
Lose(i) ==
  /\ sock[i] \in {"connecting", "open"}
  /\ socket < MaxSockets
  /\ sock' = [sock EXCEPT ![i] = "lost"]
  /\ \E n \in 0..Len(feed[i]) : feed' = [feed EXCEPT ![i] = SubSeq(@, 1, n)]
  /\ UNCHANGED <<backend, page, socket, timers, delay, view, rest, joined>>

\* onmessage: reduce.
Message(i) ==
  /\ sock[i] \in {"open", "lost"}
  /\ feed[i] # <<>>
  /\ feed' = [feed EXCEPT ![i] = Tail(@)]
  /\ LET event == Head(feed[i])
     IN \/ /\ event.type = "status"
           /\ wsConnected' = (event.value = 1)
           /\ UNCHANGED <<candles, trade>>
        \/ /\ event.type = "kline"
           /\ candles' = UpsertCandle(candles, event.value)
           /\ UNCHANGED <<wsConnected, trade>>
        \/ /\ event.type = "trade"
           /\ takerVolume' = takerVolume + 1
           /\ lastTrade' = event.value
           /\ UNCHANGED <<wsConnected, candles>>
  /\ UNCHANGED <<backend, page, link, rest, joined>>

\* Mutant: no ceiling.
LongerDelay == delay * 2

NextDelay ==
  IF delay * 2 <= MAX_RECONNECT_DELAY THEN delay * 2 ELSE MAX_RECONNECT_DELAY

ScheduleReconnect == timers' = timers + 1 /\ delay' = NextDelay

\* onclose, which unmounting has removed.
OnClose(i) ==
  /\ sock[i] = "lost" /\ feed[i] = <<>>
  /\ sock' = [sock EXCEPT ![i] = "closed"]
  /\ wsConnected' = FALSE
  /\ ScheduleReconnect
  /\ UNCHANGED <<backend, feed, page, socket, candles, trade, rest, joined>>

\* The timeout calls connect, which does nothing for a page that was left.
Timeout ==
  /\ timers > 0
  /\ timers' = timers - 1
  /\ IF page = "mounted" THEN Connect ELSE UNCHANGED <<sock, socket>>
  /\ UNCHANGED <<backend, feed, page, delay, view, rest, joined>>

\* Mutant: the timeout is not cleared.
KeepTimeout == UNCHANGED timers

ClearTimeout == timers' = IF timers > 0 THEN timers - 1 ELSE 0

\* The effects' cleanups.
Unmount ==
  /\ page = "mounted" /\ page' = "unmounted"
  /\ ClearTimeout
  /\ sock' = [sock EXCEPT ![socket] = "closed"]
  /\ feed' = [feed EXCEPT ![socket] = <<>>]
  /\ UNCHANGED <<backend, socket, delay, view, rest, joined>>

-----------------------------------------------------------------------------
(* The initial load (App.tsx) and the rows it reads (routes_rest.py). *)

AnswerCandles ==
  /\ load = "asked" /\ candlesReply = None
  /\ candlesReply' = written
  /\ UNCHANGED <<backend, feed, page, link, view, load, statsReply, overtaken, joined>>

\* Of the announced trades the last ones may not be stored yet.
AnswerStats ==
  /\ load = "asked" /\ statsReply = None
  /\ \E n \in 0..traded : statsReply' = n
  /\ UNCHANGED <<backend, feed, page, link, view, load, candlesReply, overtaken, joined>>

\* Both answers are there: they are dispatched unless the page was left.
Load ==
  /\ load = "asked" /\ candlesReply # None /\ statsReply # None
  /\ page = "mounted"
  /\ load' = "loaded"
  /\ candles' = Trim(Rows(candlesReply, MAX_CANDLES))
  /\ takerVolume' = statsReply
  /\ overtaken' = \E i \in DOMAIN candles : candles[i] > candlesReply
  /\ UNCHANGED <<backend, feed, page, link, wsConnected, lastTrade, replies, joined>>

\* A request fails: a warning, and the live stream goes on alone.
LoadFails ==
  /\ load = "asked"
  /\ load' = "failed"
  /\ UNCHANGED <<backend, feed, page, link, view, replies, overtaken, joined>>

-----------------------------------------------------------------------------
Backend ==
  \/ CommitKline \/ AnnounceKline \/ Backfill \/ AnnounceTrade
  \/ PipelineConnects \/ PipelineDisconnects \/ HookFails

Browser(i) == Open(i) \/ Message(i) \/ OnClose(i)

Next ==
  \/ Backend \/ Mount \/ Timeout \/ Unmount
  \/ AnswerCandles \/ AnswerStats \/ Load \/ LoadFails
  \/ \E i \in Sockets : Browser(i) \/ Lose(i)

\* The browser runs its callbacks and timers, the server accepts a socket that it
\* does not refuse, and while Binance is away run() tries again and fails.
Spec ==
  /\ Init /\ [][Next]_vars
  /\ WF_vars(Timeout) /\ \A i \in Sockets : WF_vars(Browser(i))
  /\ WF_vars(~pipeline /\ PipelineDisconnects)

-----------------------------------------------------------------------------
(* Properties. *)

TypeOK ==
  /\ written \in 0..NumKlines /\ published \in 0..written
  /\ silent \in SUBSET (1..written)
  /\ traded \in 0..NumTrades
  /\ pipeline \in BOOLEAN /\ outages \in 0..MaxOutages
  /\ feed \in [Sockets -> Seq([type : {"kline", "trade", "status"}, value : Nat])]
  /\ page \in {"new", "mounted", "unmounted"}
  /\ sock \in [Sockets -> {"unused", "connecting", "open", "lost", "closed"}]
  /\ socket \in 0..MaxSockets
  /\ timers \in Nat
  /\ delay \in MIN_RECONNECT_DELAY..MAX_RECONNECT_DELAY
  /\ wsConnected \in BOOLEAN
  /\ candles \in Seq(1..NumKlines)
  /\ takerVolume \in Nat /\ lastTrade \in 0..NumTrades
  /\ load \in {"none", "asked", "loaded", "failed"}
  /\ candlesReply \in 0..NumKlines \cup {None}
  /\ statsReply \in 0..NumTrades \cup {None}
  /\ joined \in [Sockets -> 0..NumKlines] /\ overtaken \in BOOLEAN

\* The chart library needs candles in time order, one for each minute: they are,
\* and no more than MAX_CANDLES, however REST rows and messages are mixed.
ChartInOrder ==
  /\ Len(candles) <= MAX_CANDLES
  /\ \A i, j \in DOMAIN candles : i < j => OpenTime(candles[i]) < OpenTime(candles[j])

Alive == {i \in Sockets : sock[i] \in {"connecting", "open", "lost"}}

\* A mounted page always has exactly one socket or one timeout for the next, so
\* that no message is reduced twice and it never gives up; left, it has neither.
OneFeed ==
  Cardinality(Alive) + timers = IF page = "mounted" THEN 1 ELSE 0

\* The last price never goes back to an older trade, and the taker volume grows
\* by newer trades only, the load aside, over reconnections and late messages.
TradesOnce ==
  [][/\ lastTrade <= lastTrade'
     /\ takerVolume # takerVolume' => load # load' \/ lastTrade < lastTrade']_vars

\* The page has read all that was sent to the socket it holds.
Settled == socket # 0 /\ sock[socket] = "open" /\ feed[socket] = <<>>

\* The kline k is in the chart, or superseded, or older than the full ring.
Shown(k) ==
  \/ \E i \in DOMAIN candles : OpenTime(candles[i]) = OpenTime(k) /\ candles[i] >= k
  \/ /\ Len(candles) = MAX_CANDLES
     /\ OpenTime(k) < OpenTime(candles[1])

\* Rows and feed leave no gap between them: the rows that were loaded have what
\* was announced before the page's first socket, still the only one, was subscribed.
GapFree == socket = 1 /\ load = "loaded" /\ joined[1] <= candlesReply

\* Every kline announced since the socket was subscribed is shown, and with a
\* gap-free load every one before it: rows read ahead of the announcement,
\* messages older than the rows and full rings lose nothing, as long as the load
\* replaced nothing newer.
NoKlineForgotten ==
  Settled /\ ~overtaken =>
    \A k \in 1..published \ silent : GapFree \/ joined[socket] < k => Shown(k)

\* The cards agree with /api/stats, as the comment of deriveStats promises: a page
\* that loaded gap-free and has read its feed shows the statistics that the server
\* would answer now, however load, late messages and full rings were mixed.
StatsAgree ==
  (Settled /\ GapFree /\ ~overtaken /\ written = published /\ silent = {}) =>
    DeriveStats(candles) = GetStats(written)

\* A mounted page is connected in the end, whatever was refused or lost before,
\* and its header tells whether the pipeline is (README.md:155): onopen shows
\* "connected" also while Binance is away, an event of an older outage may still be
\* on its way, a hook may fail before it announces the outage, but the last word is
\* the pipeline's.
HeaderSettles ==
  <>[](page = "mounted" =>
         socket # 0 /\ sock[socket] = "open" /\ wsConnected = pipeline)

-----------------------------------------------------------------------------
(* What the documentation says and the code does not do. *)

\* README.md:41 says that the data is first loaded over REST and that the
\* subscription to /ws/live reflects the updates from then on.  So it should be at
\* least when the first socket is open before the rows are read: as long as that
\* connection lasts a page that is loaded should show every announced kline.
LoadedThenLive ==
  [](sock[1] = "open" /\ candlesReply = None =>
       [](Settled /\ socket = 1 /\ load = "loaded" =>
            \A k \in 1..published \ silent : Shown(k)))
=============================================================================
