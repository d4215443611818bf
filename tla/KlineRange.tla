----------------------------- MODULE KlineRange -----------------------------
(***************************************************************************)
(* What fetch_klines (binance_rest.py) promises its caller, with no pages, *)
(* no cursor and no retries: one step that either fails or returns the     *)
(* klines of [start_time, end_time].  A kline that the exchange had listed *)
(* when the call began is in the result; one that it lists during the call *)
(* may be.                                                                 *)
(***************************************************************************)
EXTENDS Naturals

CONSTANTS
  Times,       \* the instants (ms) a caller may pass as start or end
  KlineTimes   \* open times (ms) of the klines the exchange ever lists

VARIABLES
  start_time, end_time,  \* the arguments of the call
  head0,                 \* open time of the newest kline listed at the call
  outcome,               \* "pending", "done" (returned) or "failed" (raised)
  returned               \* open times of the returned candles

vars == <<start_time, end_time, head0, outcome, returned>>

KlinesUpTo(head) ==
  {t \in KlineTimes : start_time <= t /\ t <= end_time /\ t <= head}

Init ==
  /\ start_time \in Times
  /\ end_time \in Times
  /\ start_time < end_time
  /\ head0 \in KlineTimes
  /\ outcome = "pending"
  /\ returned = {}

Fail ==
  /\ outcome = "pending"
  /\ outcome' = "failed"
  /\ UNCHANGED <<start_time, end_time, head0, returned>>

Return ==
  /\ outcome = "pending"
  /\ outcome' = "done"
  /\ KlinesUpTo(head0) \subseteq returned'
  /\ returned' \in SUBSET KlinesUpTo(end_time)
  /\ UNCHANGED <<start_time, end_time, head0>>

Next == Fail \/ Return

Spec == Init /\ [][Next]_vars
=============================================================================
