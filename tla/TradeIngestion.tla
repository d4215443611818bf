--------------------------- MODULE TradeIngestion ---------------------------
(***************************************************************************)
(* The trade side of the backend: handle_trade (pipeline.py) puts each     *)
(* trade of the stream in the symbol's TradeBuffer (trade_buffer.py),      *)
(* announces it on the event bus, and when the buffer asks for it drains it*)
(* and awaits one transaction that stores the batch and last_trade_at      *)
(* (repository.py).  The stream waits while the transaction is under way.  *)
(*                                                                         *)
(* A trade is its id, given in the order of execution; time is counted in  *)
(* units of which FlushInterval make trade_flush_interval_seconds.  The    *)
(* connection's hooks and the backfill are in CandleIngestion: here they   *)
(* are the time the task is "away" or connected and not yet reading.       *)
(***************************************************************************)
EXTENDS Integers, Sequences, FiniteSets

CONSTANTS
  Symbols,
  BatchSize,      \* settings.trade_flush_batch_size
  FlushInterval,  \* settings.trade_flush_interval_seconds
  MaxTrades,      \* bound: trades executed per symbol
  MaxClock,       \* bound: the clock
  QueueBound,     \* bound: messages waiting in the socket
  MaxFaults       \* bound: failures, drops, shutdowns and crashes

ASSUME TradeAssumption ==
  /\ BatchSize \in Nat \ {0}
  /\ FlushInterval \in Nat \ {0}
  /\ MaxTrades \in Nat /\ MaxClock \in Nat /\ QueueBound \in Nat
  /\ MaxFaults \in Nat

TradeIds == 1..MaxTrades
None == -1                      \* a NULL timestamp

VARIABLES
  clock,
  executed,       \* exchange: per symbol, the number of trades executed
  link, queue,    \* the WebSocket, and its trade messages not yet dispatched
  pc,             \* "down", "away", "stream" or "flush"
  buffer,         \* TradeBuffer._records
  last_flush,     \* TradeBuffer._last_flush
  flushing,       \* the symbol whose batch is being written
  batch,          \* its drained records
  trades,         \* the trades table: per symbol, the ids stored
  last_trade_at,  \* pipeline_status.last_trade_at
  received,       \* history: per symbol, when each announced trade was handled
  lost,           \* history: per symbol, the ids announced and never stored
  faults          \* history

socket == <<link, queue>>
memory == <<buffer, last_flush, flushing, batch>>
tables == <<trades, last_trade_at>>
vars == <<clock, executed, socket, pc, memory, tables, received, lost, faults>>

Published(s) == DOMAIN received[s]

IdsOf(records) == {records[i] : i \in DOMAIN records}

Init ==
  /\ clock = 0 /\ pc = "down" /\ faults = 0
  /\ link = "down" /\ queue = <<>> /\ executed = [s \in Symbols |-> 0]
  /\ buffer = [s \in Symbols |-> <<>>] /\ last_flush = [s \in Symbols |-> 0]
  /\ flushing \in Symbols /\ batch = <<>>
  /\ trades = [s \in Symbols |-> {}] /\ last_trade_at = [s \in Symbols |-> None]
  /\ received = [s \in Symbols |-> [id \in {} |-> 0]] /\ lost = [s \in Symbols |-> {}]

Fault == faults < MaxFaults /\ faults' = faults + 1

CloseSocket == link' = "down" /\ queue' = <<>>

-----------------------------------------------------------------------------
(* The exchange and the network. *)

Tick ==
  /\ clock < MaxClock
  /\ clock' = clock + 1
  /\ UNCHANGED <<executed, socket, pc, memory, tables, received, lost, faults>>

\* A trade is executed; the stream sends it if we are connected.  Nothing asks
\* for the others later.
Execute(s) ==
  /\ executed[s] < MaxTrades
  /\ Len(queue) < QueueBound
  /\ executed' = [executed EXCEPT ![s] = @ + 1]
  /\ queue' = IF link = "up"
              THEN Append(queue, [symbol |-> s, id |-> executed'[s]])
              ELSE queue
  /\ UNCHANGED <<clock, link, pc, memory, tables, received, lost, faults>>

\* The connection is lost; what we had received stays readable.
Drop ==
  /\ link = "up"
  /\ Fault
  /\ link' = "down"
  /\ \E k \in 0..Len(queue) : queue' = SubSeq(queue, 1, k)
  /\ UNCHANGED <<clock, executed, pc, memory, tables, received, lost>>

-----------------------------------------------------------------------------
(* The pipeline task. *)

\* IngestionPipeline.__init__: empty buffers.
Start ==
  /\ pc = "down"
  /\ pc' = "away"
  /\ buffer' = [s \in Symbols |-> <<>>]
  /\ last_flush' = [s \in Symbols |-> clock]
  /\ UNCHANGED <<clock, executed, socket, flushing, batch, tables, received, lost,
                 faults>>

Connect ==
  /\ pc = "away" /\ pc' = "stream"
  /\ link' = "up" /\ queue' = <<>>
  /\ UNCHANGED <<clock, executed, memory, tables, received, lost, faults>>

\* Mutants: the batch size is exceeded; it is not looked at; the interval is
\* exceeded.
Overfull(records) == Len(records) > BatchSize
NeverFull(records) == FALSE
Overdue(s) == clock - last_flush[s] > FlushInterval

Full(records) == Len(records) >= BatchSize
Due(s) == clock - last_flush[s] >= FlushInterval

\* TradeBuffer.should_flush, of a buffer that holds `records'.
ShouldFlush(s, records) == records # <<>> /\ (Full(records) \/ Due(s))

\* TradeBuffer.drain.
Drain(s) ==
  /\ buffer' = [buffer EXCEPT ![s] = <<>>]
  /\ last_flush' = [last_flush EXCEPT ![s] = clock]

\* Mutant: the record that made the buffer full is left out.
UpsertAllButLast(s, records) ==
  trades' = [trades EXCEPT ![s] = @ \cup IdsOf(SubSeq(records, 1, Len(records) - 1))]

\* upsert_trades: ON CONFLICT DO NOTHING.
UpsertTrades(s, records) == trades' = [trades EXCEPT ![s] = @ \cup IdsOf(records)]

RecordTradeReceived(s, at) == last_trade_at' = [last_trade_at EXCEPT ![s] = at]

\* add and publish, and if the buffer is to be flushed drain it.
HandleTrade ==
  /\ pc = "stream"
  /\ queue # <<>>
  /\ queue' = Tail(queue)
  /\ LET s == Head(queue).symbol
         id == Head(queue).id
         records == Append(buffer[s], id)
     IN /\ received' = [received EXCEPT ![s] =
                          [t \in DOMAIN @ \cup {id} |-> IF t = id THEN clock ELSE @[t]]]
        /\ IF ShouldFlush(s, records)
           THEN /\ Drain(s)
                /\ flushing' = s
                /\ batch' = records
                /\ pc' = "flush"
           ELSE /\ buffer' = [buffer EXCEPT ![s] = records]
                /\ UNCHANGED <<last_flush, flushing, batch, pc>>
  /\ UNCHANGED <<clock, executed, link, tables, lost, faults>>

\* The batch and last_trade_at, in one commit.
FlushCommit ==
  /\ pc = "flush"
  /\ pc' = "stream"
  /\ UpsertTrades(flushing, batch)
  /\ RecordTradeReceived(flushing, clock)
  /\ batch' = <<>>
  /\ UNCHANGED <<clock, executed, socket, buffer, last_flush, flushing, received,
                 lost, faults>>

\* Mutant: record_trade_received has a transaction of its own, which succeeds.
HalfCommitted == RecordTradeReceived(flushing, clock) /\ UNCHANGED trades

\* Both statements are in one transaction.
RolledBack == UNCHANGED tables

\* The database raises: the drained batch is gone, the connection is closed.
FlushFails ==
  /\ pc = "flush"
  /\ Fault
  /\ pc' = "away"
  /\ CloseSocket
  /\ RolledBack
  /\ lost' = [lost EXCEPT ![flushing] = @ \cup IdsOf(batch)]
  /\ batch' = <<>>
  /\ UNCHANGED <<clock, executed, buffer, last_flush, flushing, received>>

\* Another handler raises, and the connection is closed with what it holds.
HandlerFails ==
  /\ pc = "stream"
  /\ Fault
  /\ pc' = "away"
  /\ CloseSocket
  /\ UNCHANGED <<clock, executed, memory, tables, received, lost>>

\* The connection is closed and its last message dispatched.
StreamEnds ==
  /\ pc = "stream" /\ link = "down" /\ queue = <<>>
  /\ pc' = "away"
  /\ UNCHANGED <<clock, executed, socket, memory, tables, received, lost, faults>>

\* The task is cancelled or the process dies: nothing flushes the buffers.
Stop ==
  /\ pc # "down"
  /\ Fault
  /\ pc' = "down"
  /\ CloseSocket
  /\ lost' = [s \in Symbols |-> lost[s] \cup IdsOf(buffer[s])
                                 \cup IF s = flushing THEN IdsOf(batch) ELSE {}]
  /\ buffer' = [s \in Symbols |-> <<>>]
  /\ batch' = <<>>
  /\ UNCHANGED <<clock, executed, last_flush, flushing, tables, received>>

Pipeline == Connect \/ HandleTrade \/ FlushCommit \/ StreamEnds

Next ==
  \/ Pipeline \/ FlushFails \/ HandlerFails \/ Stop \/ Start \/ Drop \/ Tick
  \/ \E s \in Symbols : Execute(s)

\* Time passes and the task's awaits end.  The exchange owes nobody a trade.
Spec == Init /\ [][Next]_vars /\ WF_vars(Pipeline) /\ WF_vars(Tick)

-----------------------------------------------------------------------------
(* Properties. *)

\* When each of some trades was handled.
Receipts == UNION {[ids -> 0..MaxClock] : ids \in SUBSET TradeIds}

TypeOK ==
  /\ clock \in 0..MaxClock
  /\ executed \in [Symbols -> 0..MaxTrades]
  /\ link \in {"up", "down"}
  /\ queue \in Seq([symbol : Symbols, id : TradeIds])
  /\ pc \in {"down", "away", "stream", "flush"}
  /\ buffer \in [Symbols -> Seq(TradeIds)]
  /\ \A s \in Symbols : Len(buffer[s]) < BatchSize
  /\ last_flush \in [Symbols -> 0..MaxClock]
  /\ flushing \in Symbols /\ batch \in Seq(TradeIds)
  /\ trades \in [Symbols -> SUBSET TradeIds]
  /\ last_trade_at \in [Symbols -> 0..MaxClock \cup {None}]
  /\ received \in [Symbols -> Receipts]
  /\ lost \in [Symbols -> SUBSET TradeIds]
  /\ faults \in 0..MaxFaults

\* A failure costs at most a batch of each symbol, wherever it strikes:
\* between drain and commit, while trades wait in the buffer, or in between.
LossBounded ==
  \A s \in Symbols : Cardinality(lost[s]) <= faults * BatchSize

\* No trade waits behind one that was handled a flush interval or more after
\* it, over flushes of other symbols, reconnections and long transactions.
FlushedByLater ==
  \A s \in Symbols : \A early \in IdsOf(buffer[s]), late \in Published(s) :
    received[s][late] < received[s][early] + FlushInterval

\* last_trade_at, on which the health panel's `stale' rests, is never older
\* than a stored trade and never set for a symbol with none stored.
LastTradeAtCovers ==
  \A s \in Symbols :
    /\ \A id \in trades[s] : received[s][id] <= last_trade_at[s]
    /\ last_trade_at[s] # None => trades[s] # {}

\* The buffers, flushes and failures implement the write-behind log.
Log == INSTANCE TradeLog WITH
  Bound    <- BatchSize,
  accepted <- [s \in Symbols |-> Published(s)],
  durable  <- trades

WriteBehind == Log!Spec

-----------------------------------------------------------------------------
(* What the documentation says and the code does not do. *)

\* trade_buffer.py:6 says the buffer is flushed by count or by elapsed time,
\* whichever comes first, so that staleness is bounded in quiet periods: a
\* buffered trade should get stored as time goes by, failures aside.
QuietFlush ==
  \A s \in Symbols, id \in TradeIds :
    id \in IdsOf(buffer[s]) ~> id \in trades[s] \cup lost[s]
=============================================================================
