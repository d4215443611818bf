---------------------------- MODULE FetchKlines -----------------------------
(***************************************************************************)
(* backend/app/ingestion/binance_rest.py: fetch_klines pages through       *)
(* GET /api/v3/klines from start_time to end_time, _get_with_retry repeats *)
(* a request that the exchange throttles (429 or 418).  Times are epoch    *)
(* milliseconds, as in the code.  The exchange keeps listing klines while  *)
(* the pages are fetched.                                                  *)
(*                                                                         *)
(* The list the code returns is the set `results' of its open times and    *)
(* its length `fetched': the order does not matter to the caller, a candle *)
(* fetched twice would.                                                    *)
(***************************************************************************)
EXTENDS Naturals, FiniteSets

CONSTANTS
  Times,                   \* the instants a caller may pass as start or end
  KlineTimes,              \* open times of the klines the exchange ever lists
  MAX_KLINES_PER_REQUEST,  \* page size (1000)
  MAX_RETRIES              \* throttled answers tolerated per page (5)

\* One-minute klines: no two of them open on adjacent milliseconds.
ASSUME FetchAssumption ==
  /\ Times \subseteq Nat
  /\ KlineTimes \subseteq Nat
  /\ IsFiniteSet(KlineTimes)
  /\ \A t \in KlineTimes : t + 1 \notin KlineTimes
  /\ MAX_KLINES_PER_REQUEST \in Nat \ {0}
  /\ MAX_RETRIES \in Nat

VARIABLES
  start_time, end_time,  \* arguments
  pc,                    \* "loop", "get", "backoff", "done" or "failed"
  cursor,                \* cursor_ms
  results,               \* open times of the candles collected
  fetched,               \* len(results) in the code
  attempt,               \* throttled answers to the current page
  head,                  \* exchange: open time of the newest listed kline
  head0                  \* history: head when the call began

args == <<start_time, end_time, head0>>
vars == <<args, pc, cursor, results, fetched, attempt, head>>

-----------------------------------------------------------------------------
(* The exchange. *)

\* The klines that match startTime = c and endTime in a request sent now.
Window(c) == {t \in KlineTimes : c <= t /\ t <= end_time /\ t <= head}

\* The answer to a request: the oldest klines of the window, at most a page.
IsPage(page, window) ==
  /\ page \subseteq window
  /\ \A t \in page, u \in window \ page : t < u
  /\ Cardinality(page) <= MAX_KLINES_PER_REQUEST
  /\ page # window => Cardinality(page) = MAX_KLINES_PER_REQUEST

\* A new kline is listed, in time order.
ListKline ==
  /\ \E t \in KlineTimes :
       /\ t > head
       /\ \A u \in KlineTimes : u > head => t <= u
       /\ head' = t
  /\ UNCHANGED <<args, pc, cursor, results, fetched, attempt>>

-----------------------------------------------------------------------------
Init ==
  /\ start_time \in Times /\ end_time \in Times /\ start_time < end_time
  /\ head \in KlineTimes /\ head0 = head
  /\ pc = "loop" /\ cursor = start_time /\ attempt = 0
  /\ results = {} /\ fetched = 0

\* while cursor_ms < end_ms: ask for the next page, or leave the loop.
LoopTest ==
  /\ pc = "loop"
  /\ pc' = IF cursor < end_time THEN "get" ELSE "done"
  /\ attempt' = 0
  /\ UNCHANGED <<args, cursor, results, fetched, head>>

\* Mutants: when the budget is spent, the pages received so far are returned;
\* the retries are counted after the check.
GiveUp(n) == IF n > MAX_RETRIES THEN "done" ELSE "backoff"
OnceMore(n) == IF n > MAX_RETRIES + 1 THEN "failed" ELSE "backoff"

\* The n-th throttled answer to a page: sleep, or raise once n exceeds MAX_RETRIES.
AfterThrottle(n) == IF n > MAX_RETRIES THEN "failed" ELSE "backoff"

\* 429 or 418.
Throttled ==
  /\ pc = "get"
  /\ attempt' = attempt + 1
  /\ pc' = AfterThrottle(attempt')
  /\ UNCHANGED <<args, cursor, results, fetched, head>>

\* Mutant: attempt = 0 inside the retry loop.
Fresh == 0

\* The retries so far, for the request that is sent again.
Spent == attempt

\* asyncio.sleep(delay) is over.
Retry ==
  /\ pc = "backoff"
  /\ pc' = "get"
  /\ attempt' = Spent
  /\ UNCHANGED <<args, cursor, results, fetched, head>>

\* Any other error status, or a transport error: raised to the caller.
RequestFails ==
  /\ pc = "get"
  /\ pc' = "failed"
  /\ UNCHANGED <<args, cursor, results, fetched, attempt, head>>

\* An empty answer ends the loop.
EmptyPage ==
  /\ pc = "get"
  /\ Window(cursor) = {}
  /\ pc' = "done"
  /\ UNCHANGED <<args, cursor, results, fetched, attempt, head>>

\* Mutant: the next page starts at the last kline of this one.
NextCursorAtLast(last) == last

\* Where the page after one whose last kline opens at `last' starts.
NextCursor(last) == last + 1

\* Mutant: a full page is taken for the last one.
AfterFullPage(last, n) ==
  IF NextCursor(last) <= cursor \/ n <= MAX_KLINES_PER_REQUEST
  THEN "done" ELSE "loop"

\* Whether the loop goes on after a page of n klines.
AfterPage(last, n) ==
  IF NextCursor(last) <= cursor \/ n < MAX_KLINES_PER_REQUEST
  THEN "done" ELSE "loop"

ReceivePage ==
  /\ pc = "get"
  /\ \E page \in SUBSET Window(cursor) :
       /\ page # {}
       /\ IsPage(page, Window(cursor))
       /\ results' = results \cup page
       /\ fetched' = fetched + Cardinality(page)
       /\ \E last \in page :
            /\ \A t \in page : t <= last
            /\ cursor' = IF NextCursor(last) <= cursor THEN cursor
                         ELSE NextCursor(last)
            /\ pc' = AfterPage(last, Cardinality(page))
  /\ UNCHANGED <<args, attempt, head>>

Client ==
  \/ LoopTest \/ Throttled \/ Retry \/ RequestFails \/ EmptyPage \/ ReceivePage

Next == Client \/ ListKline

\* The coroutine runs on: a response or an error always arrives.
Spec == Init /\ [][Next]_vars /\ WF_vars(Client)

-----------------------------------------------------------------------------
(* Properties. *)

TypeOK ==
  /\ start_time \in Times /\ end_time \in Times
  /\ pc \in {"loop", "get", "backoff", "done", "failed"}
  /\ cursor \in Nat
  /\ results \in SUBSET KlineTimes
  /\ fetched \in Nat
  /\ attempt \in 0..(MAX_RETRIES + 1)
  /\ head \in KlineTimes /\ head0 \in KlineTimes

\* Completeness across pages: a call that returns has every kline of
\* [start_time, end_time] that was listed when it began, although the exchange
\* lists more while the pages are fetched, and none outside the range.
NoKlineMissed ==
  pc = "done" =>
    /\ {t \in KlineTimes : start_time <= t /\ t <= end_time /\ t <= head0}
         \subseteq results
    /\ \A t \in results : start_time <= t /\ t <= end_time

\* Pages never overlap: no kline is fetched, and then upserted, twice.
NoKlineTwice == fetched = Cardinality(results)

\* The pagination loop and the retry loop inside it end, whatever mix of pages,
\* throttled answers and errors the exchange gives: sync cannot hang the task
\* that is about to read the socket.
Terminates == <>(pc \in {"done", "failed"})

\* Seen from the caller the pages are one atomic fetch of the range.
Atomic == INSTANCE KlineRange WITH
  outcome  <- IF pc \in {"done", "failed"} THEN pc ELSE "pending",
  returned <- IF pc = "done" THEN results ELSE {}

AtomicRange == Atomic!Spec
=============================================================================
