------------------------------ MODULE TradeLog ------------------------------
(***************************************************************************)
(* What the trade side of the pipeline promises, without a socket, a clock,*)
(* a buffer or transactions: a write-behind log.  Trades are accepted (and *)
(* announced) in order, made durable all at once per symbol, and a failure *)
(* loses no more than what is pending, which is at most Bound per symbol.  *)
(***************************************************************************)
EXTENDS Naturals, FiniteSets

CONSTANTS
  Symbols,
  TradeIds,  \* ids of the trades of a symbol, in the order they are executed
  Bound      \* trades of a symbol that may be pending

VARIABLES
  accepted,  \* per symbol, ids of the trades announced to subscribers
  durable,   \* per symbol, ids of the trades in the database
  lost       \* per symbol, ids of the trades that never will be

vars == <<accepted, durable, lost>>

Pending(s) == accepted[s] \ (durable[s] \cup lost[s])

Init ==
  /\ accepted = [s \in Symbols |-> {}]
  /\ durable = [s \in Symbols |-> {}]
  /\ lost = [s \in Symbols |-> {}]

Accept(s, t) ==
  /\ \A u \in accepted[s] : u < t
  /\ Cardinality(Pending(s)) < Bound
  /\ accepted' = [accepted EXCEPT ![s] = @ \cup {t}]
  /\ UNCHANGED <<durable, lost>>

Persist(s) ==
  /\ durable' = [durable EXCEPT ![s] = @ \cup Pending(s)]
  /\ UNCHANGED <<accepted, lost>>

Lose(S) ==
  /\ lost' = [s \in Symbols |-> IF s \in S THEN lost[s] \cup Pending(s) ELSE lost[s]]
  /\ UNCHANGED <<accepted, durable>>

Next ==
  \/ \E s \in Symbols : Persist(s) \/ \E t \in TradeIds : Accept(s, t)
  \/ \E S \in SUBSET Symbols : Lose(S)

Spec == Init /\ [][Next]_vars
=============================================================================
