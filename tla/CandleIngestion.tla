-------------------------- MODULE CandleIngestion ---------------------------
(***************************************************************************)
(* The candle side of the backend: the pipeline task (pipeline.py) runs the*)
(* initial backfill and then the reconnecting WebSocket client             *)
(* (binance_ws.py); BackfillService.sync (backfill.py) and handle_kline    *)
(* write candles_1m, the connection hooks write pipeline_status            *)
(* (repository.py), and the event bus announces both.                      *)
(*                                                                         *)
(* One action per database transaction, REST answer, stream message or     *)
(* socket event, since any other task, the exchange or a failure may come  *)
(* between two of them.  Time is counted in minutes: a candle is named by  *)
(* its open_time.  Of a candle's content the model keeps what decides      *)
(* whether the row is right: whether the values were taken after the minute*)
(* had ended (final) and the is_closed column.                             *)
(***************************************************************************)
EXTENDS Integers, Sequences, FiniteSets

CONSTANTS
  NumSymbols,      \* length of settings.symbol_list
  MaxMinute,       \* bound: the last minute of the clock
  BackfillWindow,  \* settings.backfill_hours, in minutes
  STATS_LOOKBACK_MINUTES,
  MinBackoff,      \* settings.ws_reconnect_min_seconds
  MaxBackoff,      \* settings.ws_reconnect_max_seconds
  QueueBound,      \* bound: forming events come while fewer are waiting
  MaxFaults        \* bound: failures, drops, shutdowns and crashes

ASSUME IngestionAssumption ==
  /\ NumSymbols \in Nat \ {0}
  /\ BackfillWindow \in Nat \ {0} /\ STATS_LOOKBACK_MINUTES \in Nat \ {0}
  /\ MaxMinute \in Nat /\ BackfillWindow <= MaxMinute
  /\ MinBackoff \in Nat \ {0}
  /\ MaxBackoff \in Nat /\ MinBackoff <= MaxBackoff
  /\ QueueBound \in Nat /\ MaxFaults \in Nat

Symbols == 1..NumSymbols
Minutes == 0..MaxMinute
None == -1                     \* a NULL timestamp

Candle == [final : BOOLEAN, is_closed : BOOLEAN]

\* Rows of candles_1m for one symbol, by open_time.
Table == UNION {[minutes -> Candle] : minutes \in SUBSET Minutes}
NoRows == [m \in {} |-> 0]

KlineEvent == [symbol : Symbols, open_time : Minutes,
               final : BOOLEAN, is_closed : BOOLEAN]

VARIABLES
  \* the exchange and the network
  minute,                 \* the clock, the exchange's and ours
  link,                   \* the WebSocket: "up" or "down"
  queue,                  \* kline messages sent to us and not yet dispatched
  \* the database
  candles,                \* candles_1m: per symbol, open_time -> Candle
  ws_connected,           \* pipeline_status: the columns of each symbol's row,
  backfill_covered_from,  \*   with the server defaults when there is no row
  last_backfill_at,
  reconnect_count,
  error_count,
  \* the pipeline task
  pc,                     \* what the task does next, "down" when there is none
  caller,                 \* who called sync: "initial_backfill" or
                          \*   "handle_connected"
  sym,                    \* the symbol that the loop over symbols has reached
  connected_once,
  backoff,
  stopping,               \* the task is being cancelled
  now, start, batch,      \* sync: the minute of `now', start per symbol, candles
  \* the event bus
  announced,              \* the last status event: "none", "up" or "down"
  live,                   \* per symbol, open_time of the last kline event
  \* history
  faults,                 \* faults so far
  resynced,               \* this connection began with a sync
  unrecorded,             \* a connection ended and no completed hook said so
  hook_failures

exchange == <<minute, link, queue>>
coverage == <<backfill_covered_from, last_backfill_at>>
counters == <<reconnect_count, error_count>>
tables   == <<candles, ws_connected, coverage, counters>>
task     == <<caller, connected_once, backoff, stopping>>
control  == <<sym, task>>
sync     == <<now, start, batch>>
bus      == <<announced, live>>
story    == <<resynced, unrecorded, hook_failures>>
history  == <<faults, story>>
vars == <<exchange, tables, pc, control, sync, bus, history>>

-----------------------------------------------------------------------------
Stored(s) == DOMAIN candles[s]

\* Mutant: ON CONFLICT DO NOTHING, as for trades.
InsertNew(table, rows) ==
  [m \in DOMAIN table \cup DOMAIN rows |->
     IF m \in DOMAIN table THEN table[m] ELSE rows[m]]

\* upsert_candle: ON CONFLICT (symbol, open_time) DO UPDATE.
Upsert(table, rows) ==
  [m \in DOMAIN table \cup DOMAIN rows |->
     IF m \in DOMAIN rows THEN rows[m] ELSE table[m]]

\* get_latest_candle_open_time: m is the newest open_time stored for s.
IsLatest(s, m) == m \in Stored(s) /\ \A k \in Stored(s) : k <= m

\* Mutant: ORDER BY open_time without DESC.
OldestRows(s, n) ==
  {m \in Stored(s) : Cardinality({k \in Stored(s) : k < m}) < n}

\* get_candles: the n newest rows of s.
NewestRows(s, n) ==
  {m \in Stored(s) : Cardinality({k \in Stored(s) : k > m}) < n}

\* Mutant: no ceiling.
Doubled(current) == IF current <= 0 THEN MinBackoff ELSE current * 2

\* next_backoff, of the configured bounds.
NextBackoff(current) ==
  IF current <= 0 THEN MinBackoff
  ELSE IF current * 2 <= MaxBackoff THEN current * 2 ELSE MaxBackoff

Event(s, m, closed) ==
  [symbol |-> s, open_time |-> m, final |-> closed, is_closed |-> closed]

Init ==
  /\ minute = BackfillWindow /\ link = "down" /\ queue = <<>>
  /\ candles = [s \in Symbols |-> NoRows]
  /\ ws_connected = [s \in Symbols |-> FALSE]
  /\ backfill_covered_from = [s \in Symbols |-> None]
  /\ last_backfill_at = [s \in Symbols |-> None]
  /\ reconnect_count = [s \in Symbols |-> 0]
  /\ error_count = [s \in Symbols |-> 0]
  /\ pc = "down" /\ caller = "initial_backfill" /\ sym = 1
  /\ connected_once = FALSE /\ backoff = 0 /\ stopping = FALSE
  /\ now = 0 /\ start = [s \in Symbols |-> 0] /\ batch = NoRows
  /\ announced = "none" /\ live = [s \in Symbols |-> None]
  /\ faults = 0 /\ resynced = FALSE /\ unrecorded = FALSE /\ hook_failures = 0

\* A step that something goes wrong in.
Fault == faults < MaxFaults /\ faults' = faults + 1

-----------------------------------------------------------------------------
(* pipeline_status (repository.py); the rows' server defaults are in Init. *)

\* Mutant: an upsert that keeps a TRUE.
KeepWsConnected(s, connected) ==
  ws_connected' = [ws_connected EXCEPT ![s] = @ \/ connected]

SetWsConnected(s, connected) ==
  ws_connected' = [ws_connected EXCEPT ![s] = connected]

RecordReconnect(s) == reconnect_count' = [reconnect_count EXCEPT ![s] = @ + 1]

RecordError(s) == error_count' = [error_count EXCEPT ![s] = @ + 1]

\* Mutant: stamped with the time of the commit, not with sync's `now'.
RecordBackfillLate(s, covered_from, at) ==
  /\ backfill_covered_from' = [backfill_covered_from EXCEPT ![s] = covered_from]
  /\ last_backfill_at' = [last_backfill_at EXCEPT ![s] = minute]

\* record_backfill.
RecordBackfill(s, covered_from, at) ==
  /\ backfill_covered_from' = [backfill_covered_from EXCEPT ![s] = covered_from]
  /\ last_backfill_at' = [last_backfill_at EXCEPT ![s] = at]

-----------------------------------------------------------------------------
(* The exchange and the network. *)

\* The last kline of minute m, in each symbol's stream.
ClosingKlines(m) == [s \in Symbols |-> Event(s, m, TRUE)]

\* The exchange has accepted us and our task has not run since.
Accepted == pc = "connect" /\ link = "up"

\* A minute ends: the stream sends the closing kline of every symbol.  Bound:
\* our event loop is at most one such minute late in taking up a connection.
Tick ==
  /\ minute < MaxMinute
  /\ Accepted => \A i \in DOMAIN queue : queue[i].open_time = minute
  /\ minute' = minute + 1
  /\ queue' = IF link = "up" THEN queue \o ClosingKlines(minute) ELSE queue
  /\ UNCHANGED <<link, tables, pc, control, sync, bus, history>>

\* The stream sends the kline of the current minute as it stands.
Forming(s) ==
  /\ link = "up"
  /\ Len(queue) < QueueBound
  /\ queue' = Append(queue, Event(s, minute, FALSE))
  /\ UNCHANGED <<minute, link, tables, pc, control, sync, bus, history>>

\* The connection is lost; what we had received stays readable.
Drop ==
  /\ link = "up"
  /\ ~Accepted
  /\ Fault
  /\ link' = "down"
  /\ \E k \in 0..Len(queue) : queue' = SubSeq(queue, 1, k)
  /\ UNCHANGED <<minute, tables, pc, control, sync, bus, story>>

\* Leaving `async with websockets.connect' closes the socket.
CloseSocket == link' = "down" /\ queue' = <<>>

-----------------------------------------------------------------------------
(* The process starts; run() begins with initial_backfill. *)

Start ==
  /\ pc = "down"
  /\ pc' = "sync_query" /\ caller' = "initial_backfill" /\ sym' = 1
  /\ connected_once' = FALSE /\ backoff' = 0 /\ stopping' = FALSE
  /\ announced' = "none"
  /\ UNCHANGED <<exchange, tables, sync, live, history>>

(* BackfillService.sync for symbol sym, in a transaction of its own. *)

\* Mutant: the configured window, whatever is stored.
WindowStart(s, end, m) == m = end - BackfillWindow

\* Where the gap starts: the newest stored candle, or the whole window.
GapStart(s, end, m) ==
  IF Stored(s) = {} THEN m = end - BackfillWindow ELSE IsLatest(s, m)

SyncQuery ==
  /\ pc = "sync_query"
  /\ now' = IF caller = "initial_backfill" THEN minute ELSE now
  /\ \E m \in Minutes :
       /\ GapStart(sym, now', m)
       /\ start' = [start EXCEPT ![sym] = m]
       /\ pc' = IF m >= now' THEN "sync_commit" ELSE "sync_fetch"
  /\ batch' = NoRows
  /\ UNCHANGED <<exchange, tables, control, bus, history>>

\* Mutant: the open time is compared in place of the close time.
IsClosedByOpenTime(m) == m <= now

\* _parse_kline compares with the `now' that sync was given, not with the time
\* of the answer.  (It counts the last millisecond of a minute as its end.)
IsClosed(m) == m < now

\* fetch_klines answers.  The exchange lists every minute; the kline of the current
\* one may not be there yet.
SyncFetch ==
  /\ pc = "sync_fetch"
  /\ \E last \in {now - 1, now} :
       /\ now < minute => last = now
       /\ batch' = [m \in start[sym]..last |->
                      [final |-> m < minute, is_closed |-> IsClosed(m)]]
  /\ pc' = "sync_commit"
  /\ UNCHANGED <<exchange, tables, control, now, start, bus, history>>

\* The loop over the symbols goes on, or its caller does.
NextSymbol ==
  IF sym < NumSymbols
  THEN sym' = sym + 1 /\ pc' = "sync_query"
  ELSE sym' = 1 /\ pc' = IF caller = "initial_backfill" THEN "connect" ELSE "mark"

\* Mutant: sync itself counts a reconnection, whoever calls it.
CountsAlways == TRUE

\* handle_connected calls record_reconnect in the transaction of its sync.
CountsReconnect == caller = "handle_connected"

\* The candles, record_backfill if there was a gap, and the reconnection, in one
\* commit.
SyncCommit ==
  /\ pc = "sync_commit"
  /\ candles' = [candles EXCEPT ![sym] = Upsert(@, batch)]
  /\ IF start[sym] < now
     THEN RecordBackfill(sym, start[sym], now)
     ELSE UNCHANGED coverage
  /\ IF CountsReconnect THEN RecordReconnect(sym) ELSE UNCHANGED reconnect_count
  /\ NextSymbol
  /\ UNCHANGED <<exchange, ws_connected, error_count, task, sync, bus, history>>

\* Mutant: no `except Exception', the task ends and the process goes on.
EndTask == pc' = "dead" /\ sym' = 1

\* However the try block of run() is left, handle_disconnected comes next.
FinallyHook == pc' = "hook" /\ sym' = 1

\* The database or the REST call raises: the transaction is rolled back.
\* initial_backfill goes on with the next symbol, handle_connected does not.
SyncFails ==
  /\ pc \in {"sync_query", "sync_fetch", "sync_commit"}
  /\ Fault
  /\ IF caller = "initial_backfill"
     THEN NextSymbol /\ UNCHANGED <<link, queue>>
     ELSE FinallyHook /\ CloseSocket
  /\ UNCHANGED <<minute, tables, task, sync, bus, story>>

-----------------------------------------------------------------------------
(* BinanceWebSocketClient.run and the pipeline's handlers. *)

\* handle_connected syncs again only in a process that was connected before.
Resyncs == connected_once

\* The exchange accepts the connection that websockets.connect asked for.
Accept ==
  /\ pc = "connect" /\ link = "down"
  /\ link' = "up"
  /\ UNCHANGED <<minute, queue, tables, pc, control, sync, bus, history>>

\* The task runs again, and handle_connected up to its first await.
Connected ==
  /\ Accepted
  /\ backoff' = 0
  /\ now' = minute
  /\ caller' = "handle_connected" /\ sym' = 1
  /\ pc' = IF Resyncs THEN "sync_query" ELSE "mark"
  /\ resynced' = connected_once /\ connected_once' = TRUE
  /\ UNCHANGED <<exchange, tables, stopping, start, batch, bus, faults,
                 unrecorded, hook_failures>>

\* set_ws_connected(symbol, True); after the last symbol the status event.
Mark ==
  /\ pc = "mark"
  /\ SetWsConnected(sym, TRUE)
  /\ IF sym < NumSymbols
     THEN sym' = sym + 1 /\ UNCHANGED <<pc, announced>>
     ELSE sym' = 1 /\ pc' = "stream" /\ announced' = "up"
  /\ UNCHANGED <<exchange, candles, coverage, counters, task, sync, live, history>>

\* upsert_candle of one kline, and the event that announces it.
WriteKline(e) ==
  /\ candles' = [candles EXCEPT ![e.symbol] = Upsert(@,
                   [m \in {e.open_time} |->
                      [final |-> e.final, is_closed |-> e.is_closed]])]
  /\ live' = [live EXCEPT ![e.symbol] = e.open_time]

\* Mutant: the last message received first.
HandleLastKline ==
  /\ pc = "stream" /\ queue # <<>>
  /\ WriteKline(queue[Len(queue)])
  /\ queue' = SubSeq(queue, 1, Len(queue) - 1)
  /\ UNCHANGED <<minute, link, ws_connected, coverage, counters, pc, control,
                 sync, announced, history>>

\* handle_kline of the next message: upsert, commit, then publish.
HandleKline ==
  /\ pc = "stream" /\ queue # <<>>
  /\ WriteKline(Head(queue))
  /\ queue' = Tail(queue)
  /\ UNCHANGED <<minute, link, ws_connected, coverage, counters, pc, control,
                 sync, announced, history>>

\* websockets.connect, the last loop of handle_connected or a handler called by
\* _dispatch raises.
HandlerFails ==
  /\ pc \in {"connect", "mark"} \/ (pc = "stream" /\ queue # <<>>)
  /\ Fault
  /\ FinallyHook /\ CloseSocket
  /\ UNCHANGED <<minute, tables, task, sync, bus, story>>

\* The connection is closed and its last message dispatched.
StreamEnds ==
  /\ pc = "stream" /\ link = "down" /\ queue = <<>>
  /\ FinallyHook
  /\ UNCHANGED <<exchange, tables, task, sync, bus, history>>

\* After the finally clause: a cancelled task ends, the loop sleeps otherwise.
LeaveHook ==
  /\ sym' = 1
  /\ IF stopping
     THEN pc' = "down" /\ UNCHANGED backoff
     ELSE pc' = "sleep" /\ backoff' = NextBackoff(backoff)

\* handle_disconnected: one commit per symbol, then the status event.
Hook ==
  /\ pc = "hook"
  /\ SetWsConnected(sym, FALSE)
  /\ RecordError(sym)
  /\ IF sym < NumSymbols
     THEN sym' = sym + 1 /\ UNCHANGED <<pc, backoff, announced, unrecorded>>
     ELSE LeaveHook /\ announced' = "down" /\ unrecorded' = FALSE
  /\ UNCHANGED <<exchange, candles, coverage, reconnect_count, caller,
                 connected_once, stopping, sync, live, faults, resynced,
                 hook_failures>>

\* The hook raises; the loop logs it and goes on.
HookFails ==
  /\ pc = "hook"
  /\ Fault
  /\ LeaveHook
  /\ unrecorded' = TRUE /\ hook_failures' = hook_failures + 1
  /\ UNCHANGED <<exchange, tables, caller, connected_once, stopping, sync, bus,
                 resynced>>

Wake ==
  /\ pc = "sleep"
  /\ pc' = "connect"
  /\ UNCHANGED <<exchange, tables, control, sync, bus, history>>

-----------------------------------------------------------------------------
(* Shutdown and crash. *)

Backfilling ==
  /\ pc \in {"sync_query", "sync_fetch", "sync_commit"}
  /\ caller = "initial_backfill"

\* lifespan's finally: stop() and cancel().  Inside the try of run() the hook
\* still runs; elsewhere, and in the hook itself, the task ends at once.
Shutdown ==
  /\ pc # "down" /\ ~stopping
  /\ Fault
  /\ stopping' = TRUE /\ sym' = 1
  /\ CloseSocket
  /\ pc' = IF Backfilling \/ pc \in {"sleep", "hook"} THEN "down" ELSE "hook"
  /\ unrecorded' = (unrecorded \/ pc = "hook")
  /\ UNCHANGED <<minute, tables, caller, connected_once, backoff, sync, bus,
                 resynced, hook_failures>>

Crash ==
  /\ pc # "down"
  /\ Fault
  /\ pc' = "down"
  /\ CloseSocket
  /\ unrecorded' = (unrecorded \/ pc \in {"mark", "stream", "hook"})
  /\ UNCHANGED <<minute, tables, control, sync, bus, resynced, hook_failures>>

-----------------------------------------------------------------------------
\* What the pipeline task does when nothing goes wrong.
Pipeline ==
  \/ SyncQuery \/ SyncFetch \/ SyncCommit
  \/ Accept \/ Connected \/ Mark \/ HandleKline
  \/ StreamEnds \/ Hook \/ Wake

Faulty ==
  Drop \/ SyncFails \/ HandlerFails \/ HookFails \/ Shutdown \/ Crash

Next == Pipeline \/ Faulty \/ Start \/ Tick \/ \E s \in Symbols : Forming(s)

\* Every await of the task ends.  Nothing restarts the process: Start is not
\* fair (docker-compose.yml sets no restart policy).
Spec == Init /\ [][Next]_vars /\ WF_vars(Pipeline)

-----------------------------------------------------------------------------
(* Properties. *)

TypeOK ==
  /\ minute \in Minutes /\ link \in {"up", "down"} /\ queue \in Seq(KlineEvent)
  /\ candles \in [Symbols -> Table]
  /\ ws_connected \in [Symbols -> BOOLEAN]
  /\ backfill_covered_from \in [Symbols -> Minutes \cup {None}]
  /\ last_backfill_at \in [Symbols -> Minutes \cup {None}]
  /\ reconnect_count \in [Symbols -> Nat]
  /\ error_count \in [Symbols -> Nat]
  /\ pc \in {"down", "sync_query", "sync_fetch", "sync_commit", "connect",
             "mark", "stream", "hook", "sleep"}
  /\ caller \in {"initial_backfill", "handle_connected"}
  /\ sym \in Symbols
  /\ connected_once \in BOOLEAN /\ stopping \in BOOLEAN
  /\ backoff \in 0..MaxBackoff
  /\ now \in Minutes
  /\ start \in [Symbols -> Minutes]
  /\ batch \in Table
  /\ announced \in {"none", "up", "down"}
  /\ live \in [Symbols -> Minutes \cup {None}]
  /\ faults \in 0..MaxFaults /\ hook_failures \in Nat
  /\ resynced \in BOOLEAN /\ unrecorded \in BOOLEAN

\* A row marked closed holds the values of the ended minute, whether REST or
\* the stream wrote it, however late the answer came and whatever was queued.
ClosedIsFinal ==
  \A s \in Symbols : \A m \in Stored(s) :
    candles[s][m].is_closed => candles[s][m].final

\* What pipeline_status says was backfilled is in candles_1m: every minute from
\* backfill_covered_from up to last_backfill_at, whatever failed since.
CoverageHonest ==
  \A s \in Symbols : \A m \in Minutes :
    (backfill_covered_from[s] <= m /\ m < last_backfill_at[s]) => m \in Stored(s)

\* The minutes between two stored candles of s that have none.
Holes(s) ==
  {m \in Minutes \ Stored(s) : \E a, b \in Stored(s) : a < m /\ m < b}

\* A connection that began with a sync leaves no hole behind, although the
\* stream runs, drops and is read late while the sync is under way: only the
\* kline events of a process's first connection may open one.
NoNewHole ==
  [][\A s \in Symbols :
       ~(Holes(s)' \subseteq Holes(s)) => pc = "stream" /\ ~resynced]_vars

\* A connection that began with a sync has dispatched all that it was sent.
Current == pc = "stream" /\ resynced /\ link = "up" /\ queue = <<>>

\* Once the messages of a connection that began with a sync are dispatched,
\* every minute of the gap it filled and every one since is closed, save the
\* newest, although queued events overwrite what the sync had written.
CaughtUp ==
  Current => \A s \in Symbols : \A m \in Stored(s) :
    (start[s] <= m /\ ~IsLatest(s, m)) => candles[s][m].is_closed

\* get_stats counts rows where it means 24 hours, so that minutes without a row
\* make it reach further back.  Once a reconnection is caught up only holes from
\* before the gap that it filled do so, each by a minute: they alone are missing
\* from the last STATS_LOOKBACK_MINUTES minutes, and a row that is older by some
\* minutes is read only if at least as many of them are newer than it.
StatsSpanDay ==
  Current => \A s \in Symbols :
    LET rows == NewestRows(s, STATS_LOOKBACK_MINUTES)
        since == minute - STATS_LOOKBACK_MINUTES
        old == {h \in Holes(s) : h < start[s]}
    IN /\ \A m \in rows : since - m <= Cardinality({h \in old : m < h})
       /\ \A m \in Minutes :
            (since < m /\ m < minute /\ \E k \in Stored(s) : k <= m) => m \in rows \cup old

\* The task runs and holds no connection.
Offline == pc \in {"connect", "sleep"} \/ Backfilling

\* Rows and subscribers are told "connected" while there is no connection only
\* if its end could not be recorded: a crash, or a hook that did not complete.
StatusHonest ==
  /\ \A s \in Symbols : (pc = "down" \/ Offline) /\ ws_connected[s]
                          => unrecorded
  /\ Offline /\ announced = "up" => unrecorded

\* A reconnection is counted at most once for each disconnection counted as an
\* error, hooks that failed aside, across failed syncs, restarts and retries.
ReconnectsExplained ==
  \A s \in Symbols : reconnect_count[s] <= error_count[s] + hook_failures

\* Subscribers never see the klines of a symbol go back in time, over
\* reconnections and restarts.
LiveNeverGoesBack == [][\A s \in Symbols : live[s] <= live'[s]]_vars

\* The ingest task never dies of a failure and never waits for ever: once
\* nothing fails any more it streams, with every row saying so, unless the
\* process was stopped.
Converges ==
  <>[](\/ pc = "down"
       \/ /\ pc = "stream" /\ link = "up" /\ announced = "up"
          /\ \A s \in Symbols : ws_connected[s])

-----------------------------------------------------------------------------
(* What the documentation says and the code does not do. *)

\* phase2-3-ingestion.tdd.md:10 and :36, README.md:28 and pipeline.py:64 say
\* that what was missed is filled in on reconnection and that the initial
\* backfill covers the first connection: no hole should survive a sync.
GapCovered ==
  pc = "stream" /\ resynced => \A s \in Symbols : Holes(s) = {}

\* The design document (4.1) stores is_closed = true for every candle but the
\* last one: so it should be once a reconnection is synced and caught up.
OnlyLastOpen ==
  Current => \A s \in Symbols : \A m \in Stored(s) :
    IsLatest(s, m) \/ candles[s][m].is_closed

\* README.md:153: the receive loop catches every exception and reconnects with
\* an exponential backoff.  A second failure before the pipeline could announce
\* a connection should not be answered with the shortest delay again.
BackoffGrows ==
  [][pc = "hook" /\ pc' = "sleep" /\ announced = "down"
       => backoff' > MinBackoff]_vars
=============================================================================
