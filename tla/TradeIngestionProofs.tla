------------------------ MODULE TradeIngestionProofs ------------------------
(***************************************************************************)
(* Proofs about TradeIngestion for every set of symbols, batch size, flush *)
(* interval and number of trades and faults: what is buffered, being       *)
(* written, stored and lost is at any time exactly what was announced.     *)
(***************************************************************************)
EXTENDS TradeIngestion, FiniteSetTheorems, SequenceTheorems, TLAPS

-----------------------------------------------------------------------------
(* Lemmas about records and receipts. *)

TradeEvent == [symbol : Symbols, id : TradeIds]

\* What the sequences of the model are made of stays of its type.
LEMMA QueueOps ==
  ASSUME NEW S, NEW q \in Seq(S)
  PROVE  /\ \A e \in S : Append(q, e) \in Seq(S)
         /\ \A k \in 0..Len(q) : SubSeq(q, 1, k) \in Seq(S)
         /\ q # <<>> => Head(q) \in S /\ Tail(q) \in Seq(S)
<1>1. \A k \in 0..Len(q) : SubSeq(q, 1, k) \in Seq(S)
  <2> SUFFICES ASSUME NEW k \in 0..Len(q) PROVE SubSeq(q, 1, k) \in Seq(S)
    OBVIOUS
  <2> QED
    BY SubSeqProperties
<1> QED
  BY <1>1, AppendProperties, HeadTailProperties

LEMMA AppendOps ==
  ASSUME NEW S, NEW q \in Seq(S), NEW e \in S
  PROVE  /\ Append(q, e) \in Seq(S) /\ Append(q, e) # <<>>
         /\ Len(Append(q, e)) = Len(q) + 1
<1>1. Append(q, e) \in Seq(S) /\ Len(Append(q, e)) = Len(q) + 1
  BY AppendProperties
<1>2. Append(q, e) # <<>>
  BY AppendProperties, Zenon
<1> QED
  BY <1>1, <1>2

\* The ids of a sequence of records: none, one more, and no more than records.
LEMMA IdsOfEmpty == IdsOf(<<>>) = {}
BY DEF IdsOf

LEMMA IdsOfAppend ==
  ASSUME NEW S, NEW q \in Seq(S), NEW e \in S
  PROVE  IdsOf(Append(q, e)) = IdsOf(q) \cup {e}
<1> DEFINE p == Append(q, e)
<1>1. /\ p \in Seq(S) /\ Len(p) = Len(q) + 1 /\ p[Len(q) + 1] = e
      /\ \A i \in 1..Len(q) : p[i] = q[i]
  BY AppendProperties
<1>2. /\ Len(q) \in Nat /\ DOMAIN q = 1..Len(q) /\ DOMAIN p = 1..(Len(q) + 1)
  BY <1>1, LenProperties
<1> HIDE DEF p
<1>3. IdsOf(p) \subseteq IdsOf(q) \cup {e}
  BY <1>1, <1>2 DEF IdsOf
<1>4. \A i \in DOMAIN q : q[i] \in IdsOf(p)
  BY <1>1, <1>2 DEF IdsOf
<1>5. e \in IdsOf(p)
  BY <1>1, <1>2 DEF IdsOf
<1> QED
  BY <1>3, <1>4, <1>5 DEF IdsOf, p

LEMMA IdsOfBounded ==
  ASSUME NEW S, NEW q \in Seq(S)
  PROVE  /\ IdsOf(q) \subseteq S
         /\ IsFiniteSet(IdsOf(q)) /\ Cardinality(IdsOf(q)) \in Nat
         /\ Cardinality(IdsOf(q)) <= Len(q)
<1>1. Len(q) \in Nat /\ DOMAIN q = 1..Len(q) /\ q \in [1..Len(q) -> S]
  BY LenProperties
<1>2. q \in [1..Len(q) -> IdsOf(q)] /\ IdsOf(q) \subseteq S
  BY <1>1 DEF IdsOf
<1>3. \A t \in IdsOf(q) : \E i \in 1..Len(q) : q[i] = t
  BY <1>1 DEF IdsOf
<1>4. ExistsSurjection(1..Len(q), IdsOf(q))
  BY <1>2, <1>3 DEF ExistsSurjection, Surjection
<1>5. IsFiniteSet(IdsOf(q))
  BY <1>1, <1>4, FS_NatSurjection
<1> QED
  BY <1>1, <1>2, <1>4, <1>5, FS_SurjCardinalityBound, FS_CardinalityType

\* Handling a trade adds its receipt and keeps the others.
WithReceipt(r, id, at) == [t \in DOMAIN r \cup {id} |-> IF t = id THEN at ELSE r[t]]

LEMMA ReceiptAdded ==
  ASSUME NEW r \in Receipts, NEW id \in TradeIds, NEW at \in 0..MaxClock
  PROVE  /\ WithReceipt(r, id, at) \in Receipts
         /\ DOMAIN WithReceipt(r, id, at) = DOMAIN r \cup {id}
         /\ WithReceipt(r, id, at)[id] = at
         /\ \A t \in DOMAIN r : t # id => WithReceipt(r, id, at)[t] = r[t]
<1> DEFINE r2 == WithReceipt(r, id, at)
<1>1. PICK ids \in SUBSET TradeIds : r \in [ids -> 0..MaxClock]
  BY DEF Receipts
<1>2. /\ r2 \in [ids \cup {id} -> 0..MaxClock] /\ DOMAIN r = ids
      /\ r2[id] = at /\ \A t \in DOMAIN r : t # id => r2[t] = r[t]
  BY <1>1 DEF WithReceipt
<1>3. ids \cup {id} \in SUBSET TradeIds
  OBVIOUS
<1> QED
  BY <1>1, <1>2, <1>3 DEF Receipts

LEMMA ReceiptType ==
  ASSUME NEW r \in Receipts
  PROVE  DOMAIN r \subseteq TradeIds /\ \A t \in DOMAIN r : r[t] \in 0..MaxClock
BY DEF Receipts

-----------------------------------------------------------------------------
(* The step of handle_trade, with its IF resolved. *)

HandledTrade(s, id) ==
  LET records == Append(buffer[s], id) IN
  /\ pc = "stream" /\ queue # <<>> /\ Head(queue) = [symbol |-> s, id |-> id]
  /\ queue' = Tail(queue)
  /\ received' = [received EXCEPT ![s] = WithReceipt(@, id, clock)]
  /\ \/ /\ ShouldFlush(s, records)
        /\ buffer' = [buffer EXCEPT ![s] = <<>>]
        /\ last_flush' = [last_flush EXCEPT ![s] = clock]
        /\ flushing' = s /\ batch' = records /\ pc' = "flush"
     \/ /\ ~ShouldFlush(s, records)
        /\ buffer' = [buffer EXCEPT ![s] = records]
        /\ UNCHANGED <<last_flush, flushing, batch, pc>>
  /\ UNCHANGED <<clock, executed, link, trades, last_trade_at, lost, faults>>

LEMMA HandleTradeStep ==
  ASSUME TypeOK, HandleTrade
  PROVE  \E s \in Symbols, id \in TradeIds : HandledTrade(s, id)
<1>1. Head(queue) \in TradeEvent
  BY QueueOps DEF TypeOK, HandleTrade, TradeEvent
<1>2. PICK s \in Symbols, id \in TradeIds : Head(queue) = [symbol |-> s, id |-> id]
  BY <1>1 DEF TradeEvent
<1>3. Head(queue).symbol = s /\ Head(queue).id = id
  BY <1>2
<1>4. CASE ShouldFlush(s, Append(buffer[s], id))
  BY <1>2, <1>3, <1>4 DEF HandleTrade, HandledTrade, WithReceipt, Drain, tables
<1>5. CASE ~ShouldFlush(s, Append(buffer[s], id))
  BY <1>2, <1>3, <1>5 DEF HandleTrade, HandledTrade, WithReceipt, tables
<1> QED
  BY <1>4, <1>5

-----------------------------------------------------------------------------
(* Type correctness. *)

LEMMA InitTypeOK == Init => TypeOK
<1> SUFFICES ASSUME Init PROVE TypeOK
  OBVIOUS
<1>1. <<>> \in Seq(TradeIds) /\ <<>> \in Seq(TradeEvent) /\ Len(<<>>) = 0
  BY EmptySeq
<1>2. [id \in {} |-> 0] \in Receipts
  <2>1. [id \in {} |-> 0] \in [{} -> 0..MaxClock]
    OBVIOUS
  <2> QED
    BY <2>1 DEF Receipts
<1>3. 0 \in 0..MaxClock /\ 0 \in 0..MaxTrades /\ 0 \in 0..MaxFaults /\ 0 < BatchSize
  BY TradeAssumption
<1> QED
  BY <1>1, <1>2, <1>3 DEF Init, TypeOK, TradeEvent

LEMMA NextTypeOK == TypeOK /\ [Next]_vars => TypeOK'
<1> SUFFICES ASSUME TypeOK, [Next]_vars PROVE TypeOK'
  OBVIOUS
<1> USE DEF socket, memory, tables, TypeOK
<1>e. /\ <<>> \in Seq(TradeIds) /\ <<>> \in Seq(TradeEvent) /\ Len(<<>>) = 0
      /\ [symbol : Symbols, id : TradeIds] = TradeEvent
  BY EmptySeq DEF TradeEvent
<1>f. /\ \A f \in 0..MaxFaults : f < MaxFaults => f + 1 \in 0..MaxFaults
      /\ 0 < BatchSize
  BY TradeAssumption
<1>1. CASE Connect
  BY <1>1, <1>e DEF Connect
<1>2. CASE HandleTrade
  <2>1. PICK s \in Symbols, id \in TradeIds : HandledTrade(s, id)
    BY <1>2, HandleTradeStep
  <2>2. /\ queue' \in Seq(TradeEvent)
        /\ Append(buffer[s], id) \in Seq(TradeIds)
        /\ Len(Append(buffer[s], id)) = Len(buffer[s]) + 1
        /\ Append(buffer[s], id) # <<>>
    <3>1. queue \in Seq(TradeEvent) /\ buffer[s] \in Seq(TradeIds)
      BY <1>e
    <3>2. queue' \in Seq(TradeEvent)
      BY <2>1, <3>1, QueueOps DEF HandledTrade
    <3>3. /\ Append(buffer[s], id) \in Seq(TradeIds) /\ Append(buffer[s], id) # <<>>
          /\ Len(Append(buffer[s], id)) = Len(buffer[s]) + 1
      BY <3>1, AppendOps
    <3> QED
      BY <3>2, <3>3
  <2>3. received' \in [Symbols -> Receipts]
    <3>1. received[s] \in Receipts /\ clock \in 0..MaxClock
      OBVIOUS
    <3>2. WithReceipt(received[s], id, clock) \in Receipts
      BY <3>1, ReceiptAdded
    <3> QED
      BY <2>1, <3>2 DEF HandledTrade
  <2>4. CASE ShouldFlush(s, Append(buffer[s], id))
    BY <2>1, <2>2, <2>3, <2>4, <1>e, <1>f DEF HandledTrade
  <2>5. CASE ~ShouldFlush(s, Append(buffer[s], id))
    <3>1. Len(Append(buffer[s], id)) < BatchSize
      BY <2>2, <2>5, LenProperties, TradeAssumption DEF ShouldFlush, Full
    <3> QED
      BY <2>1, <2>2, <2>3, <2>5, <3>1, <1>e DEF HandledTrade
  <2> QED
    BY <2>4, <2>5
<1>3. CASE FlushCommit
  <2>1. IdsOf(batch) \subseteq TradeIds
    BY IdsOfBounded
  <2> QED
    BY <1>3, <1>e, <2>1 DEF FlushCommit, UpsertTrades, RecordTradeReceived
<1>4. CASE StreamEnds
  BY <1>4 DEF StreamEnds
<1>5. CASE FlushFails
  <2>1. IdsOf(batch) \subseteq TradeIds
    BY IdsOfBounded
  <2> QED
    BY <1>5, <1>e, <1>f, <2>1 DEF FlushFails, Fault, CloseSocket, RolledBack
<1>6. CASE HandlerFails
  BY <1>6, <1>e, <1>f DEF HandlerFails, Fault, CloseSocket
<1>7. CASE Stop
  <2>1. IdsOf(batch) \subseteq TradeIds /\ \A s \in Symbols : IdsOf(buffer[s]) \subseteq TradeIds
    BY IdsOfBounded
  <2>2. lost' \in [Symbols -> SUBSET TradeIds]
    BY <1>7, <2>1 DEF Stop
  <2>3. buffer' = [s \in Symbols |-> <<>>] /\ batch' = <<>>
    BY <1>7 DEF Stop
  <2> QED
    BY <1>7, <1>e, <1>f, <2>2, <2>3 DEF Stop, Fault, CloseSocket
<1>8. CASE Start
  <2>1. buffer' = [s \in Symbols |-> <<>>] /\ last_flush' \in [Symbols -> 0..MaxClock]
    BY <1>8 DEF Start
  <2> QED
    BY <1>8, <1>e, <1>f, <2>1 DEF Start
<1>9. CASE Drop
  <2>1. queue' \in Seq(TradeEvent)
    <3>1. queue \in Seq(TradeEvent)
      BY <1>e
    <3>2. PICK k \in 0..Len(queue) : queue' = SubSeq(queue, 1, k)
      BY <1>9 DEF Drop
    <3> QED
      BY <3>1, <3>2, QueueOps
  <2> QED
    BY <1>9, <1>e, <1>f, <2>1 DEF Drop, Fault
<1>10. CASE Tick
  <2>1. clock' \in 0..MaxClock
    BY <1>10, TradeAssumption DEF Tick
  <2> QED
    BY <1>10, <2>1 DEF Tick
<1>11. ASSUME NEW s \in Symbols, Execute(s) PROVE TypeOK'
  <2>1. executed' \in [Symbols -> 0..MaxTrades] /\ executed'[s] \in TradeIds
    BY <1>11, TradeAssumption DEF Execute, TradeIds
  <2>2. queue' \in Seq(TradeEvent)
    <3>1. [symbol |-> s, id |-> executed'[s]] \in TradeEvent
      BY <2>1 DEF TradeEvent
    <3> QED
      BY <1>11, <1>e, <3>1, QueueOps DEF Execute
  <2> QED
    BY <1>11, <1>e, <2>1, <2>2 DEF Execute
<1>12. CASE UNCHANGED vars
  BY <1>12 DEF vars
<1> QED
  BY <1>1, <1>2, <1>3, <1>4, <1>5, <1>6, <1>7, <1>8, <1>9, <1>10, <1>11, <1>12
  DEF Next, Pipeline

\* Type correctness; no buffer ever holds a whole batch between two awaits.
THEOREM TypeCorrect == Spec => []TypeOK
BY InitTypeOK, NextTypeOK, PTL DEF Spec

-----------------------------------------------------------------------------
(* The order of the trades. *)

\* What the socket holds of a symbol comes after what was announced of it, in
\* the order of execution.
Ordered ==
  /\ \A s \in Symbols : Published(s) \subseteq 1..executed[s]
  /\ \A i \in 1..Len(queue) :
       /\ queue[i].id <= executed[queue[i].symbol]
       /\ \A id \in Published(queue[i].symbol) : id < queue[i].id
       /\ \A j \in 1..(i - 1) :
            queue[j].symbol = queue[i].symbol => queue[j].id < queue[i].id

\* Of the trade at the head of the socket's queue.
LEMMA HandledIsNew ==
  ASSUME TypeOK, Ordered, NEW s \in Symbols, NEW id \in TradeIds, HandledTrade(s, id)
  PROVE  /\ queue[1] = [symbol |-> s, id |-> id] /\ id \in 1..executed[s]
         /\ \A t \in Published(s) : t < id
         /\ DOMAIN received'[s] = Published(s) \cup {id} /\ received'[s][id] = clock
         /\ \A t \in Published(s) : received'[s][t] = received[s][t]
         /\ \A t \in Symbols \ {s} : received'[t] = received[t]
<1>1. queue \in Seq(TradeEvent) /\ Len(queue) \in Nat /\ 1 \in 1..Len(queue)
  BY LenProperties, EmptySeq DEF TypeOK, TradeEvent, HandledTrade
<1>2. queue[1] = [symbol |-> s, id |-> id]
  BY <1>1 DEF HandledTrade
<1>3. queue[1].symbol = s /\ queue[1].id = id
  BY <1>2
<1>4. id <= executed[s] /\ executed[s] \in Nat /\ id \in Nat /\ 1 <= id
  <2>1. id <= executed[s]
    BY <1>1, <1>3 DEF Ordered
  <2>2. executed[s] \in Nat /\ id \in Nat /\ 1 <= id
    BY TradeAssumption DEF TypeOK, TradeIds
  <2> QED
    BY <2>1, <2>2
<1>5. \A t \in Published(s) : t < id
  BY <1>1, <1>3 DEF Ordered
<1>6. id \notin Published(s)
  BY <1>4, <1>5
<1>7. /\ received[s] \in Receipts /\ clock \in 0..MaxClock
      /\ received' = [received EXCEPT ![s] = WithReceipt(@, id, clock)]
      /\ DOMAIN received = Symbols
  BY DEF TypeOK, HandledTrade
<1>8. received'[s] = WithReceipt(received[s], id, clock)
  BY <1>7
<1>9. /\ DOMAIN received'[s] = Published(s) \cup {id} /\ received'[s][id] = clock
      /\ \A t \in Published(s) : received'[s][t] = received[s][t]
  <2>1. /\ DOMAIN received'[s] = DOMAIN received[s] \cup {id} /\ received'[s][id] = clock
        /\ \A t \in DOMAIN received[s] : t # id => received'[s][t] = received[s][t]
    BY <1>7, <1>8, ReceiptAdded
  <2> QED
    BY <1>6, <2>1 DEF Published
<1> QED
  BY <1>2, <1>4, <1>5, <1>7, <1>9

LEMMA InitOrdered == Init => Ordered
BY EmptySeq DEF Init, Ordered, Published

LEMMA NextOrdered == TypeOK /\ Ordered /\ [Next]_vars => Ordered'
<1> SUFFICES ASSUME TypeOK, Ordered, [Next]_vars PROVE Ordered'
  OBVIOUS
<1> USE DEF socket, memory, tables, Published
<1>e. queue \in Seq(TradeEvent) /\ Len(queue) \in Nat /\ Len(<<>>) = 0
  BY LenProperties, EmptySeq DEF TypeOK, TradeEvent
<1>t. /\ \A i \in 1..Len(queue) : queue[i] \in TradeEvent
      /\ \A e \in TradeEvent : e.symbol \in Symbols /\ e.id \in Nat
      /\ \A s \in Symbols : executed[s] \in Nat
  <2>1. \A i \in 1..Len(queue) : queue[i] \in TradeEvent
    BY <1>e, LenProperties
  <2>2. \A e \in TradeEvent : e.symbol \in Symbols /\ e.id \in Nat
    BY TradeAssumption DEF TradeEvent, TradeIds
  <2>3. \A s \in Symbols : executed[s] \in Nat
    BY TradeAssumption DEF TypeOK
  <2> QED
    BY <2>1, <2>2, <2>3
<1>1. CASE UNCHANGED <<queue, executed, received>>
  BY <1>1 DEF Ordered
<1>2. CASE queue' = <<>> /\ UNCHANGED <<executed, received>>
  BY <1>2, <1>e DEF Ordered
<1>3. CASE HandleTrade
  <2>1. PICK s \in Symbols, id \in TradeIds : HandledTrade(s, id)
    BY <1>3, HandleTradeStep
  <2>2. executed' = executed /\ queue' = Tail(queue) /\ queue # <<>>
    BY <2>1 DEF HandledTrade
  <2>3. /\ queue[1].symbol = s /\ queue[1].id = id /\ id \in 1..executed[s]
        /\ DOMAIN received'[s] = Published(s) \cup {id}
        /\ \A t \in Symbols \ {s} : DOMAIN received'[t] = Published(t)
    <3>1. /\ queue[1] = [symbol |-> s, id |-> id] /\ id \in 1..executed[s]
          /\ DOMAIN received'[s] = Published(s) \cup {id}
          /\ \A t \in Symbols \ {s} : received'[t] = received[t]
      BY <2>1, HandledIsNew
    <3> QED
      BY <3>1
  <2>4. \A t \in Symbols : DOMAIN received'[t] \subseteq 1..executed'[t]
    BY <2>2, <2>3 DEF Ordered
  <2>5. Len(queue') = Len(queue) - 1 /\ \A i \in 1..Len(queue') : queue'[i] = queue[i + 1]
    BY <1>e, <2>2, HeadTailProperties
  <2>6. ASSUME NEW i \in 1..Len(queue')
        PROVE  /\ queue'[i].id <= executed'[queue'[i].symbol]
               /\ \A p \in DOMAIN received'[queue'[i].symbol] : p < queue'[i].id
               /\ \A j \in 1..(i - 1) :
                    queue'[j].symbol = queue'[i].symbol => queue'[j].id < queue'[i].id
    <3>1. /\ i + 1 \in 1..Len(queue) /\ 1 \in 1..((i + 1) - 1) /\ queue'[i] = queue[i + 1]
          /\ \A j \in 1..(i - 1) : j + 1 \in 1..((i + 1) - 1) /\ queue'[j] = queue[j + 1]
      BY <1>e, <2>5
    <3>2. queue[1].symbol = queue[i + 1].symbol => queue[1].id < queue[i + 1].id
      BY <3>1 DEF Ordered
    <3>3. \A p \in DOMAIN received'[queue'[i].symbol] : p < queue'[i].id
      <4>1. queue[i + 1].symbol \in Symbols
        BY <1>t, <3>1
      <4>2. \A p \in Published(queue[i + 1].symbol) : p < queue[i + 1].id
        BY <3>1 DEF Ordered
      <4>3. CASE queue[i + 1].symbol = s
        BY <2>3, <3>1, <3>2, <4>2, <4>3
      <4>4. CASE queue[i + 1].symbol # s
        BY <2>3, <3>1, <4>1, <4>2, <4>4
      <4> QED
        BY <4>3, <4>4
    <3> QED
      BY <2>2, <3>1, <3>3 DEF Ordered
  <2> QED
    BY <2>4, <2>6 DEF Ordered
<1>4. CASE Drop
  <2>1. PICK k \in 0..Len(queue) : queue' = SubSeq(queue, 1, k)
    BY <1>4 DEF Drop
  <2>2. executed' = executed /\ received' = received
    BY <1>4 DEF Drop
  <2>3. Len(queue') = k /\ \A i \in 1..k : queue'[i] = queue[i] /\ i \in 1..Len(queue)
    BY <1>e, <1>t, <2>1, SubSeqProperties
  <2> QED
    BY <1>e, <2>2, <2>3 DEF Ordered
<1>5. ASSUME NEW s \in Symbols, Execute(s) PROVE Ordered'
  <2>1. /\ executed'[s] = executed[s] + 1 /\ received' = received
        /\ \A t \in Symbols \ {s} : executed'[t] = executed[t]
        /\ executed'[s] \in TradeIds
    BY <1>5, <1>t, TradeAssumption DEF Execute, TypeOK, TradeIds
  <2>2. \A t \in Symbols : executed'[t] \in Nat /\ executed[t] <= executed'[t]
    BY <1>t, <2>1
  <2>3. \A t \in Symbols : DOMAIN received'[t] \subseteq 1..executed'[t]
    BY <1>t, <2>1, <2>2 DEF Ordered
  <2>p. \A i \in 1..Len(queue) :
          /\ queue[i].id <= executed'[queue[i].symbol]
          /\ \A p \in DOMAIN received'[queue[i].symbol] : p < queue[i].id
    <3> TAKE i \in 1..Len(queue)
    <3>1. queue[i].symbol \in Symbols /\ queue[i].id \in Nat
      BY <1>t
    <3>2. queue[i].id <= executed[queue[i].symbol]
      BY DEF Ordered
    <3>3. queue[i].id <= executed'[queue[i].symbol]
      BY <1>t, <2>2, <3>1, <3>2
    <3> QED
      BY <2>1, <3>3 DEF Ordered
  <2>4. CASE queue' = queue
    BY <2>3, <2>p, <2>4 DEF Ordered
  <2>5. CASE queue' = Append(queue, [symbol |-> s, id |-> executed'[s]])
    <3> DEFINE e == [symbol |-> s, id |-> executed'[s]]
    <3>1. e \in TradeEvent /\ e.symbol = s /\ e.id = executed'[s]
      BY <2>1 DEF TradeEvent
    <3>2. /\ Len(queue') = Len(queue) + 1 /\ queue'[Len(queue) + 1] = e
          /\ \A i \in 1..Len(queue) : queue'[i] = queue[i]
      BY <1>e, <2>5, <3>1, AppendProperties
    <3> HIDE DEF e
    <3>3. ASSUME NEW i \in 1..Len(queue')
          PROVE  /\ queue'[i].id <= executed'[queue'[i].symbol]
                 /\ \A p \in DOMAIN received'[queue'[i].symbol] : p < queue'[i].id
                 /\ \A j \in 1..(i - 1) :
                      queue'[j].symbol = queue'[i].symbol => queue'[j].id < queue'[i].id
      <4>1. CASE i \in 1..Len(queue)
        <5>1. queue'[i] = queue[i] /\ \A j \in 1..(i - 1) : queue'[j] = queue[j]
          BY <1>e, <3>2, <4>1
        <5>2. \A j \in 1..(i - 1) :
                queue[j].symbol = queue[i].symbol => queue[j].id < queue[i].id
          BY <4>1 DEF Ordered
        <5> QED
          BY <2>p, <4>1, <5>1, <5>2
      <4>2. CASE i = Len(queue) + 1
        <5>1. queue'[i] = e /\ \A j \in 1..(i - 1) : queue'[j] = queue[j] /\ j \in 1..Len(queue)
          BY <1>e, <3>2, <4>2
        <5>2. \A p \in DOMAIN received'[s] : p < e.id
          BY <1>t, <2>1, <3>1 DEF Ordered
        <5>3. \A j \in 1..(i - 1) : queue[j].symbol = s => queue[j].id < e.id
          BY <1>t, <2>1, <3>1, <5>1 DEF Ordered
        <5> QED
          BY <2>2, <3>1, <5>1, <5>2, <5>3
      <4> QED
        BY <1>e, <3>2, <4>1, <4>2
    <3> QED
      BY <2>3, <3>3 DEF Ordered
  <2> QED
    BY <1>5, <2>4, <2>5 DEF Execute
<1> QED
  BY <1>1, <1>2, <1>3, <1>4, <1>5 DEF Next, Pipeline, vars, Connect, FlushCommit,
     StreamEnds, FlushFails, HandlerFails, Stop, Start, Tick, CloseSocket
-----------------------------------------------------------------------------
(* Where the announced trades are. *)

\* Those in the process: buffered, or drained and not yet committed.
InMemory(s) == IdsOf(buffer[s]) \cup IF s = flushing THEN IdsOf(batch) ELSE {}

\* A batch is under way exactly in the flush, and its symbol's buffer is empty.
Draining ==
  /\ pc # "flush" => batch = <<>>
  /\ pc = "flush" => /\ batch # <<>> /\ Len(batch) <= BatchSize
                     /\ buffer[flushing] = <<>>
  /\ pc = "down" => \A s \in Symbols : buffer[s] = <<>>

\* Every announced trade is in exactly one place: stored, lost or in memory.
Accounted ==
  \A s \in Symbols :
    /\ Published(s) = trades[s] \cup lost[s] \cup InMemory(s)
    /\ InMemory(s) \cap (trades[s] \cup lost[s]) = {}
    /\ trades[s] \cap lost[s] = {}

LEMMA InitAccounted == Init => Draining /\ Accounted
<1>1. \A f : f = [id \in {} |-> 0] => DOMAIN f = {}
  OBVIOUS
<1> QED
  BY <1>1, IdsOfEmpty DEF Init, Draining, Accounted, Published, InMemory

LEMMA NextDraining == TypeOK /\ Draining /\ [Next]_vars => Draining'
<1> SUFFICES ASSUME TypeOK, Draining, [Next]_vars PROVE Draining'
  OBVIOUS
<1> USE DEF socket, memory, tables
<1>1. CASE UNCHANGED <<pc, buffer, flushing, batch>>
  BY <1>1 DEF Draining
<1>2. CASE HandleTrade
  <2>1. PICK s \in Symbols, id \in TradeIds : HandledTrade(s, id)
    BY <1>2, HandleTradeStep
  <2>2. buffer[s] \in Seq(TradeIds) /\ DOMAIN buffer = Symbols /\ pc = "stream"
    BY <2>1 DEF TypeOK, HandledTrade
  <2>3. /\ Append(buffer[s], id) # <<>>
        /\ Len(Append(buffer[s], id)) = Len(buffer[s]) + 1 /\ Len(buffer[s]) \in Nat
    BY <2>2, AppendOps, LenProperties
  <2>4. Len(Append(buffer[s], id)) <= BatchSize
    BY <2>3, TradeAssumption DEF TypeOK
  <2>5. CASE pc' = "flush"
    BY <2>1, <2>2, <2>3, <2>4, <2>5 DEF HandledTrade, Draining
  <2>6. CASE pc' = pc
    BY <2>1, <2>2, <2>6 DEF HandledTrade, Draining
  <2> QED
    BY <2>1, <2>5, <2>6 DEF HandledTrade
<1>3. CASE Connect
  BY <1>3 DEF Connect, Draining
<1>4. CASE FlushCommit
  BY <1>4 DEF FlushCommit, Draining
<1>5. CASE StreamEnds
  BY <1>5 DEF StreamEnds, Draining
<1>6. CASE FlushFails
  BY <1>6 DEF FlushFails, Draining
<1>7. CASE HandlerFails
  BY <1>7 DEF HandlerFails, Draining
<1>8. CASE Stop
  BY <1>8 DEF Stop, Draining
<1>9. CASE Start
  BY <1>9 DEF Start, Draining
<1> QED
  BY <1>1, <1>2, <1>3, <1>4, <1>5, <1>6, <1>7, <1>8, <1>9
  DEF Next, Pipeline, vars, Tick, Drop, Execute

\* What a handled trade adds to what is in memory.
LEMMA HandledInMemory ==
  ASSUME TypeOK, Draining, NEW s \in Symbols, NEW id \in TradeIds, HandledTrade(s, id)
  PROVE  /\ InMemory(s)' = InMemory(s) \cup {id}
         /\ \A t \in Symbols \ {s} : InMemory(t)' = InMemory(t)
<1>1. /\ buffer \in [Symbols -> Seq(TradeIds)] /\ batch = <<>> /\ IdsOf(<<>>) = {}
  BY IdsOfEmpty DEF TypeOK, Draining, HandledTrade
<1>2. IdsOf(Append(buffer[s], id)) = IdsOf(buffer[s]) \cup {id}
  BY <1>1, IdsOfAppend
<1>3. \A t \in Symbols : InMemory(t) = IdsOf(buffer[t])
  BY <1>1 DEF InMemory
<1>4. CASE ShouldFlush(s, Append(buffer[s], id))
  <2>1. /\ buffer' = [buffer EXCEPT ![s] = <<>>] /\ flushing' = s
        /\ batch' = Append(buffer[s], id)
    BY <1>4 DEF HandledTrade
  <2> QED
    BY <1>1, <1>2, <1>3, <2>1 DEF InMemory
<1>5. CASE ~ShouldFlush(s, Append(buffer[s], id))
  <2>1. /\ buffer' = [buffer EXCEPT ![s] = Append(buffer[s], id)]
        /\ flushing' = flushing /\ batch' = batch
    BY <1>5 DEF HandledTrade
  <2> QED
    BY <1>1, <1>2, <1>3, <2>1 DEF InMemory
<1> QED
  BY <1>4, <1>5

LEMMA NextAccounted ==
  TypeOK /\ Ordered /\ Draining /\ Accounted /\ [Next]_vars => Accounted'
<1> SUFFICES ASSUME TypeOK, Ordered, Draining, Accounted, [Next]_vars PROVE Accounted'
  OBVIOUS
<1> USE DEF socket, memory, tables
<1>1. CASE UNCHANGED <<buffer, flushing, batch, trades, received, lost>>
  BY <1>1 DEF Accounted, Published, InMemory
<1>2. CASE HandleTrade
  <2>1. PICK s \in Symbols, id \in TradeIds : HandledTrade(s, id)
    BY <1>2, HandleTradeStep
  <2>2. /\ id \notin Published(s) /\ Published(s)' = Published(s) \cup {id}
        /\ \A t \in Symbols \ {s} : Published(t)' = Published(t)
    <3>1. /\ \A t \in Published(s) : t < id
          /\ DOMAIN received'[s] = Published(s) \cup {id}
          /\ \A t \in Symbols \ {s} : received'[t] = received[t]
      BY <2>1, HandledIsNew
    <3>2. id \notin Published(s)
      BY <3>1 DEF TradeIds
    <3> QED
      BY <3>1, <3>2 DEF Published
  <2>3. /\ InMemory(s)' = InMemory(s) \cup {id}
        /\ \A t \in Symbols \ {s} : InMemory(t)' = InMemory(t)
    BY <2>1, HandledInMemory
  <2>4. trades' = trades /\ lost' = lost
    BY <2>1 DEF HandledTrade
  <2> QED
    BY <2>2, <2>3, <2>4 DEF Accounted
<1>3. CASE FlushCommit
  <2>1. /\ flushing' = flushing /\ buffer' = buffer /\ batch' = <<>>
        /\ trades' = [trades EXCEPT ![flushing] = @ \cup IdsOf(batch)]
        /\ received' = received /\ lost' = lost /\ buffer[flushing] = <<>>
    BY <1>3 DEF FlushCommit, UpsertTrades, Draining
  <2>2. trades \in [Symbols -> SUBSET TradeIds]
    BY DEF TypeOK
  <2> QED
    BY <2>1, <2>2, IdsOfEmpty DEF Accounted, Published, InMemory
<1>4. CASE FlushFails
  <2>1. /\ flushing' = flushing /\ buffer' = buffer /\ batch' = <<>>
        /\ lost' = [lost EXCEPT ![flushing] = @ \cup IdsOf(batch)]
        /\ received' = received /\ trades' = trades /\ buffer[flushing] = <<>>
    BY <1>4 DEF FlushFails, RolledBack, Draining
  <2>2. lost \in [Symbols -> SUBSET TradeIds]
    BY DEF TypeOK
  <2> QED
    BY <2>1, <2>2, IdsOfEmpty DEF Accounted, Published, InMemory
<1>5. CASE Stop
  <2>1. /\ \A s \in Symbols : lost'[s] = lost[s] \cup InMemory(s)
        /\ \A s \in Symbols : buffer'[s] = <<>>
        /\ batch' = <<>> /\ received' = received /\ trades' = trades
    BY <1>5 DEF Stop, InMemory
  <2>2. \A s \in Symbols : InMemory(s)' = {}
    BY <2>1, IdsOfEmpty DEF InMemory
  <2> QED
    BY <2>1, <2>2 DEF Accounted, Published
<1>6. CASE Start
  <2>1. /\ \A s \in Symbols : buffer'[s] = buffer[s]
        /\ UNCHANGED <<flushing, batch, trades, received, lost>>
    BY <1>6 DEF Start, Draining
  <2> QED
    BY <2>1 DEF Accounted, Published, InMemory
<1> QED
  BY <1>1, <1>2, <1>3, <1>4, <1>5, <1>6
  DEF Next, Pipeline, vars, Tick, Drop, Execute, Connect, StreamEnds, HandlerFails

AccountInv == TypeOK /\ Ordered /\ Draining /\ Accounted

\* Nothing announced is forgotten or duplicated: at any time a trade that was
\* announced is stored, lost to a failure or in memory, and in one of them only.
THEOREM NothingForgotten == Spec => []AccountInv
<1>1. Init => AccountInv
  BY InitTypeOK, InitOrdered, InitAccounted DEF AccountInv
<1>2. AccountInv /\ [Next]_vars => AccountInv'
  BY NextTypeOK, NextOrdered, NextDraining, NextAccounted DEF AccountInv
<1> QED
  BY <1>1, <1>2, PTL DEF Spec
-----------------------------------------------------------------------------
(* What failures cost. *)

LEMMA OneBatchMore ==
  ASSUME NEW f \in Nat
  PROVE  /\ f * BatchSize \in Nat
         /\ (f + 1) * BatchSize = f * BatchSize + BatchSize
BY TradeAssumption

\* A union with the ids of at most a batch of records has at most a batch more.
LEMMA LossAdds ==
  ASSUME NEW L \in SUBSET TradeIds, NEW I \in SUBSET TradeIds, NEW n \in Nat,
         Cardinality(L) <= n, Cardinality(I) <= BatchSize
  PROVE  Cardinality(L \cup I) <= n + BatchSize
<1>1. IsFiniteSet(TradeIds)
  BY FS_Interval, TradeAssumption DEF TradeIds
<1>2. IsFiniteSet(L) /\ IsFiniteSet(I) /\ IsFiniteSet(L \cap I)
  BY <1>1, FS_Subset
<1>3. /\ Cardinality(L) \in Nat /\ Cardinality(I) \in Nat /\ Cardinality(L \cap I) \in Nat
  BY <1>2, FS_CardinalityType
<1>4. Cardinality(L \cup I) = Cardinality(L) + Cardinality(I) - Cardinality(L \cap I)
  BY <1>2, FS_Union
<1> QED
  BY <1>3, <1>4, TradeAssumption

\* At any time at most a batch of a symbol is in memory, and less than that when
\* no flush is under way.
LEMMA MemoryBounded ==
  ASSUME TypeOK, Draining, NEW s \in Symbols
  PROVE  /\ InMemory(s) \subseteq TradeIds /\ IsFiniteSet(InMemory(s))
         /\ Cardinality(InMemory(s)) <= BatchSize
         /\ pc # "flush" => Cardinality(InMemory(s)) < BatchSize
<1>1. /\ buffer[s] \in Seq(TradeIds) /\ batch \in Seq(TradeIds)
      /\ Len(buffer[s]) < BatchSize
  BY DEF TypeOK
<1>2. /\ IdsOf(buffer[s]) \subseteq TradeIds /\ IsFiniteSet(IdsOf(buffer[s]))
      /\ Cardinality(IdsOf(buffer[s])) \in Nat
      /\ Cardinality(IdsOf(buffer[s])) <= Len(buffer[s]) /\ Len(buffer[s]) \in Nat
  BY <1>1, IdsOfBounded, LenProperties
<1>3. /\ IdsOf(batch) \subseteq TradeIds /\ IsFiniteSet(IdsOf(batch))
      /\ Cardinality(IdsOf(batch)) \in Nat
      /\ Cardinality(IdsOf(batch)) <= Len(batch) /\ Len(batch) \in Nat
  BY <1>1, IdsOfBounded, LenProperties
<1>4. CASE pc = "flush" /\ s = flushing
  <2>1. InMemory(s) = IdsOf(batch) /\ Len(batch) <= BatchSize
    BY <1>4, IdsOfEmpty DEF InMemory, Draining
  <2> QED
    BY <1>3, <1>4, <2>1, TradeAssumption
<1>5. CASE ~(pc = "flush" /\ s = flushing)
  <2>1. InMemory(s) = IdsOf(buffer[s])
    BY <1>5, IdsOfEmpty DEF InMemory, Draining
  <2> QED
    BY <1>1, <1>2, <2>1, TradeAssumption
<1> QED
  BY <1>4, <1>5

LEMMA NextLossBounded ==
  TypeOK /\ Draining /\ LossBounded /\ [Next]_vars => LossBounded'
<1> SUFFICES ASSUME TypeOK, Draining, LossBounded, [Next]_vars,
                    NEW s \in Symbols
             PROVE  Cardinality(lost'[s]) <= faults' * BatchSize
  BY DEF LossBounded
<1> USE DEF socket, memory, tables
<1>1. /\ Cardinality(lost[s]) <= faults * BatchSize /\ faults \in Nat
      /\ lost \in [Symbols -> SUBSET TradeIds]
  BY TradeAssumption DEF LossBounded, TypeOK
<1>2. IsFiniteSet(lost[s]) /\ Cardinality(lost[s]) \in Nat
  <2>1. IsFiniteSet(TradeIds) /\ lost[s] \in SUBSET TradeIds
    BY <1>1, FS_Interval, TradeAssumption DEF TradeIds
  <2>2. IsFiniteSet(lost[s])
    BY <2>1, FS_Subset
  <2> QED
    BY <2>2, FS_CardinalityType
<1>3. /\ faults * BatchSize \in Nat
      /\ (faults + 1) * BatchSize = faults * BatchSize + BatchSize
  BY <1>1, OneBatchMore
<1>4. CASE UNCHANGED <<lost, faults>>
  BY <1>1, <1>4
<1>5. ASSUME lost'[s] = lost[s], faults' = faults + 1
      PROVE  Cardinality(lost'[s]) <= faults' * BatchSize
  <2>1. Cardinality(lost[s]) <= faults * BatchSize + BatchSize
    BY <1>1, <1>2, <1>3, TradeAssumption
  <2> QED
    BY <1>3, <1>5, <2>1
<1>6. ASSUME lost'[s] = lost[s] \cup InMemory(s), faults' = faults + 1
      PROVE  Cardinality(lost'[s]) <= faults' * BatchSize
  <2>1. /\ InMemory(s) \in SUBSET TradeIds /\ Cardinality(InMemory(s)) <= BatchSize
        /\ lost[s] \in SUBSET TradeIds
    BY <1>1, MemoryBounded
  <2>2. Cardinality(lost[s] \cup InMemory(s)) <= faults * BatchSize + BatchSize
    BY <1>1, <1>3, <2>1, LossAdds
  <2> QED
    BY <1>3, <1>6, <2>2
<1>7. CASE FlushFails
  <2>1. /\ lost' = [lost EXCEPT ![flushing] = @ \cup IdsOf(batch)] /\ pc = "flush"
        /\ faults' = faults + 1
    BY <1>7 DEF FlushFails, Fault
  <2>2. CASE s = flushing
    <3>1. lost'[s] = lost[s] \cup InMemory(s)
      BY <1>1, <2>1, <2>2, IdsOfEmpty DEF InMemory, Draining
    <3> QED
      BY <1>6, <2>1, <3>1
  <2>3. CASE s # flushing
    <3>1. lost'[s] = lost[s]
      BY <1>1, <2>1, <2>3
    <3> QED
      BY <1>5, <2>1, <3>1
  <2> QED
    BY <2>2, <2>3
<1>8. CASE Stop
  <2>1. lost'[s] = lost[s] \cup InMemory(s) /\ faults' = faults + 1
    BY <1>8 DEF Stop, Fault, InMemory
  <2> QED
    BY <1>6, <2>1
<1> QED
  BY <1>4, <1>5, <1>7, <1>8
  DEF Next, Pipeline, vars, Connect, HandleTrade, FlushCommit, StreamEnds, HandlerFails,
      Start, Drop, Tick, Execute, Fault

\* For any batch size, a failure, wherever it strikes, costs at most a batch of
\* each symbol.
THEOREM LossIsBounded == Spec => []LossBounded
<1>1. Init => LossBounded
  BY FS_EmptySet, OneBatchMore DEF Init, LossBounded
<1>2. AccountInv /\ LossBounded /\ [Next]_vars => LossBounded'
  BY NextLossBounded DEF AccountInv
<1> QED
  BY <1>1, <1>2, NothingForgotten, PTL DEF Spec

-----------------------------------------------------------------------------
(* When trades are flushed, and what last_trade_at says. *)

\* A trade is buffered after the last flush, and while one is nothing is
\* handled a flush interval or more after that flush.
Timely ==
  \A s \in Symbols :
    /\ last_flush[s] <= clock
    /\ \A id \in Published(s) : received[s][id] <= clock
    /\ buffer[s] # <<>> =>
         /\ \A late \in Published(s) : received[s][late] < last_flush[s] + FlushInterval
         /\ \A early \in IdsOf(buffer[s]) : last_flush[s] <= received[s][early]

LEMMA NextTimely == AccountInv /\ Timely /\ [Next]_vars => Timely'
<1> SUFFICES ASSUME TypeOK, Ordered, Draining, Accounted, Timely, [Next]_vars
             PROVE  Timely'
  BY DEF AccountInv
<1> USE DEF socket, memory, tables
<1>t. /\ clock \in Nat /\ FlushInterval \in Nat \ {0}
      /\ \A s \in Symbols : last_flush[s] \in Nat
      /\ \A s \in Symbols : \A id \in Published(s) : received[s][id] \in Nat
  BY ReceiptType, TradeAssumption DEF TypeOK, Published
<1>1. CASE UNCHANGED <<clock, received, last_flush, buffer>>
  BY <1>1 DEF Timely, Published
<1>2. CASE HandleTrade
  <2>1. PICK s \in Symbols, id \in TradeIds : HandledTrade(s, id)
    BY <1>2, HandleTradeStep
  <2>2. /\ Published(s)' = Published(s) \cup {id} /\ received'[s][id] = clock
        /\ \A t \in Published(s) : received'[s][t] = received[s][t]
        /\ \A t \in Symbols \ {s} : received'[t] = received[t]
    <3>1. /\ DOMAIN received'[s] = Published(s) \cup {id} /\ received'[s][id] = clock
          /\ \A t \in Published(s) : received'[s][t] = received[s][t]
          /\ \A t \in Symbols \ {s} : received'[t] = received[t]
      BY <2>1, HandledIsNew
    <3> QED
      BY <3>1 DEF Published
  <2>3. /\ clock' = clock /\ buffer \in [Symbols -> Seq(TradeIds)]
        /\ last_flush \in [Symbols -> 0..MaxClock]
    BY <2>1 DEF HandledTrade, TypeOK
  <2>4. \A t \in Published(s)' : received'[s][t] <= clock
    BY <1>t, <2>2 DEF Timely
  <2>5. \A t \in Symbols \ {s} : /\ received'[t] = received[t] /\ buffer'[t] = buffer[t]
                                /\ last_flush'[t] = last_flush[t]
    BY <2>1, <2>2, <2>3 DEF HandledTrade
  <2>6. CASE ShouldFlush(s, Append(buffer[s], id))
    <3>1. buffer'[s] = <<>> /\ last_flush'[s] = clock
      BY <2>1, <2>3, <2>6 DEF HandledTrade
    <3>2. last_flush'[s] <= clock' /\ \A t \in Published(s)' : received'[s][t] <= clock'
      BY <1>t, <2>3, <2>4, <3>1
    <3>3. ASSUME NEW t \in Symbols \ {s}
          PROVE  /\ Published(t)' = Published(t) /\ received'[t] = received[t]
                 /\ buffer'[t] = buffer[t] /\ last_flush'[t] = last_flush[t]
      BY <2>5 DEF Published
    <3> QED
      BY <2>3, <3>1, <3>2, <3>3 DEF Timely
  <2>7. CASE ~ShouldFlush(s, Append(buffer[s], id))
    <3>1. buffer'[s] = Append(buffer[s], id) /\ last_flush'[s] = last_flush[s]
      BY <2>1, <2>3, <2>7 DEF HandledTrade
    <3>2. clock < last_flush[s] + FlushInterval
      <4>1. Append(buffer[s], id) # <<>>
        BY <2>3, AppendOps
      <4>2. ~(clock - last_flush[s] >= FlushInterval)
        BY <2>7, <4>1 DEF ShouldFlush, Due
      <4> QED
        BY <1>t, <4>2
    <3>3. \A t \in Published(s)' : received'[s][t] < last_flush'[s] + FlushInterval
      BY <1>t, <2>2, <2>4, <3>1, <3>2 DEF Timely
    <3>4. IdsOf(buffer'[s]) = IdsOf(buffer[s]) \cup {id}
      BY <2>3, <3>1, IdsOfAppend
    <3>5. IdsOf(buffer[s]) \subseteq Published(s)
      BY DEF Accounted, InMemory
    <3>6. \A t \in IdsOf(buffer[s]) : last_flush[s] <= received[s][t]
      BY IdsOfEmpty DEF Timely
    <3>7. \A t \in IdsOf(buffer'[s]) : last_flush'[s] <= received'[s][t]
      BY <2>2, <3>1, <3>4, <3>5, <3>6 DEF Timely
    <3>8. last_flush[s] <= clock
      BY DEF Timely
    <3> QED
      BY <2>3, <2>4, <2>5, <3>1, <3>3, <3>7, <3>8 DEF Timely, Published
  <2> QED
    BY <2>6, <2>7
<1>3. CASE Start
  <2>1. /\ \A s \in Symbols : buffer'[s] = <<>> /\ last_flush'[s] = clock
        /\ UNCHANGED <<clock, received>>
    BY <1>3 DEF Start
  <2> QED
    BY <1>t, <2>1 DEF Timely, Published
<1>4. CASE Stop
  <2>1. /\ \A s \in Symbols : buffer'[s] = <<>>
        /\ UNCHANGED <<clock, received, last_flush>>
    BY <1>4 DEF Stop
  <2> QED
    BY <2>1 DEF Timely, Published
<1>5. CASE Tick
  BY <1>5, <1>t DEF Tick, Timely, Published
<1> QED
  BY <1>1, <1>2, <1>3, <1>4, <1>5
  DEF Next, Pipeline, vars, Connect, FlushCommit, StreamEnds, FlushFails, HandlerFails,
      Drop, Execute

LEMMA TimelyAlways == Spec => []Timely
<1>1. Init => Timely
  <2>1. \A f : f = [id \in {} |-> 0] => DOMAIN f = {}
    OBVIOUS
  <2> QED
    BY <2>1, IdsOfEmpty DEF Init, Timely, Published
<1> QED
  BY <1>1, NextTimely, NothingForgotten, PTL DEF Spec

\* However flushes of other symbols, reconnections and long transactions fall, no
\* trade waits behind one handled a flush interval or more after it.
THEOREM FlushIsNotOvertaken == Spec => []FlushedByLater
<1>1. TypeOK /\ Accounted /\ Timely => FlushedByLater
  <2> SUFFICES ASSUME TypeOK, Accounted, Timely, NEW s \in Symbols,
                      NEW early \in IdsOf(buffer[s]), NEW late \in Published(s)
               PROVE  received[s][late] < received[s][early] + FlushInterval
    BY DEF FlushedByLater
  <2>1. buffer[s] # <<>>
    BY IdsOfEmpty
  <2>2. received[s][late] < last_flush[s] + FlushInterval /\ last_flush[s] <= received[s][early]
    BY <2>1 DEF Timely
  <2>3. early \in Published(s)
    BY DEF Accounted, InMemory
  <2>4. received[s][late] \in Nat /\ received[s][early] \in Nat /\ last_flush[s] \in Nat
    BY <2>3, ReceiptType, TradeAssumption DEF TypeOK, Published
  <2> QED
    BY <2>2, <2>4, TradeAssumption
<1> QED
  BY <1>1, NothingForgotten, TimelyAlways, PTL DEF AccountInv

LEMMA NextLastTradeAt ==
  AccountInv /\ Timely /\ LastTradeAtCovers /\ [Next]_vars => LastTradeAtCovers'
<1> SUFFICES ASSUME TypeOK, Ordered, Draining, Accounted, Timely, LastTradeAtCovers,
                    [Next]_vars
             PROVE  LastTradeAtCovers'
  BY DEF AccountInv
<1> USE DEF socket, memory, tables
<1>1. CASE UNCHANGED <<trades, last_trade_at, received>>
  BY <1>1 DEF LastTradeAtCovers
<1>2. CASE HandleTrade
  <2>1. PICK s \in Symbols, id \in TradeIds : HandledTrade(s, id)
    BY <1>2, HandleTradeStep
  <2>2. \A t \in Symbols : \A u \in Published(t) : received'[t][u] = received[t][u]
    <3>1. /\ \A u \in Published(s) : received'[s][u] = received[s][u]
          /\ \A t \in Symbols \ {s} : received'[t] = received[t]
      BY <2>1, HandledIsNew
    <3> QED
      BY <3>1
  <2>3. \A t \in Symbols : trades[t] \subseteq Published(t)
    BY DEF Accounted
  <2>4. trades' = trades /\ last_trade_at' = last_trade_at
    BY <2>1 DEF HandledTrade
  <2> QED
    BY <2>2, <2>3, <2>4 DEF LastTradeAtCovers
<1>3. CASE FlushCommit
  <2>1. /\ trades' = [trades EXCEPT ![flushing] = @ \cup IdsOf(batch)]
        /\ last_trade_at' = [last_trade_at EXCEPT ![flushing] = clock]
        /\ received' = received /\ batch # <<>>
    BY <1>3 DEF FlushCommit, UpsertTrades, RecordTradeReceived, Draining
  <2>2. /\ trades \in [Symbols -> SUBSET TradeIds] /\ batch \in Seq(TradeIds)
        /\ last_trade_at \in [Symbols -> 0..MaxClock \cup {None}] /\ flushing \in Symbols
    BY DEF TypeOK
  <2>3. \A id \in trades'[flushing] : id \in Published(flushing)
    BY <2>1, <2>2 DEF Accounted, InMemory
  <2>4. trades'[flushing] # {}
    <3>1. 1 \in DOMAIN batch
      BY <2>1, <2>2, LenProperties, EmptySeq
    <3>2. IdsOf(batch) # {}
      BY <3>1 DEF IdsOf
    <3> QED
      BY <2>1, <2>2, <3>2
  <2>5. \A id \in trades'[flushing] : received[flushing][id] <= last_trade_at'[flushing]
    BY <2>1, <2>2, <2>3 DEF Timely
  <2> QED
    BY <2>1, <2>2, <2>4, <2>5 DEF LastTradeAtCovers
<1> QED
  BY <1>1, <1>2, <1>3
  DEF Next, Pipeline, vars, Connect, StreamEnds, FlushFails, RolledBack, HandlerFails,
      Stop, Start, Tick, Drop, Execute

\* The health panel's last_trade_at is never older than a stored trade, and is
\* never set for a symbol of which none is stored.
THEOREM LastTradeAtIsHonest == Spec => []LastTradeAtCovers
<1>1. Init => LastTradeAtCovers
  BY DEF Init, LastTradeAtCovers
<1> QED
  BY <1>1, NextLastTradeAt, NothingForgotten, TimelyAlways, PTL DEF Spec
-----------------------------------------------------------------------------
(* The refinement of the write-behind log. *)

LEMMA PendingIsInMemory ==
  ASSUME Accounted, NEW s \in Symbols
  PROVE  Log!Pending(s) = InMemory(s)
<1>1. Log!Pending(s) = Published(s) \ (trades[s] \cup lost[s])
  BY DEF Log!Pending
<1> QED
  BY <1>1 DEF Accounted

LEMMA StepImplementsLog == AccountInv /\ [Next]_vars => [Log!Next]_(Log!vars)
<1> SUFFICES ASSUME TypeOK, Ordered, Draining, Accounted, [Next]_vars
             PROVE  [Log!Next]_(Log!vars)
  BY DEF AccountInv
<1> USE DEF socket, memory, tables
<1>t. /\ trades \in [Symbols -> SUBSET TradeIds] /\ lost \in [Symbols -> SUBSET TradeIds]
      /\ flushing \in Symbols
  BY DEF TypeOK
<1>1. CASE UNCHANGED <<received, trades, lost>>
  BY <1>1 DEF Log!vars, Published
<1>2. CASE HandleTrade
  <2>1. PICK s \in Symbols, id \in TradeIds : HandledTrade(s, id)
    BY <1>2, HandleTradeStep
  <2>2. /\ DOMAIN received'[s] = Published(s) \cup {id}
        /\ \A t \in Published(s) : t < id
        /\ \A t \in Symbols \ {s} : received'[t] = received[t]
    BY <2>1, HandledIsNew
  <2>3. [t \in Symbols |-> Published(t)]'
          = [[t \in Symbols |-> Published(t)] EXCEPT ![s] = @ \cup {id}]
    BY <2>2 DEF Published
  <2>4. Cardinality(Log!Pending(s)) < BatchSize
    <3>1. Log!Pending(s) = InMemory(s) /\ pc # "flush"
      BY <2>1, PendingIsInMemory DEF HandledTrade
    <3> QED
      BY <3>1, MemoryBounded
  <2>5. trades' = trades /\ lost' = lost
    BY <2>1 DEF HandledTrade
  <2>6. Log!Accept(s, id)
    <3>1. \A u \in [t \in Symbols |-> Published(t)][s] : u < id
      BY <2>2
    <3>2. Log!Cardinality(Log!Pending(s)) = Cardinality(Log!Pending(s))
      BY DEF Log!Cardinality, Cardinality
    <3> QED
      BY <2>3, <2>4, <2>5, <3>1, <3>2, Zenon DEF Log!Accept
  <2> QED
    BY <2>6 DEF Log!Next
<1>3. CASE FlushCommit
  <2>1. /\ trades' = [trades EXCEPT ![flushing] = @ \cup IdsOf(batch)]
        /\ received' = received /\ lost' = lost /\ buffer[flushing] = <<>>
    BY <1>3 DEF FlushCommit, UpsertTrades, Draining
  <2>2. Log!Pending(flushing) = IdsOf(batch)
    BY <1>t, <2>1, PendingIsInMemory, IdsOfEmpty DEF InMemory
  <2>3. Log!Persist(flushing)
    BY <2>1, <2>2 DEF Log!Persist, Published
  <2> QED
    BY <1>t, <2>3 DEF Log!Next
<1>4. CASE FlushFails
  <2>1. /\ lost' = [lost EXCEPT ![flushing] = @ \cup IdsOf(batch)]
        /\ received' = received /\ trades' = trades /\ buffer[flushing] = <<>>
    BY <1>4 DEF FlushFails, RolledBack, Draining
  <2>2. Log!Pending(flushing) = IdsOf(batch)
    BY <1>t, <2>1, PendingIsInMemory, IdsOfEmpty DEF InMemory
  <2>3. lost' = [s \in Symbols |-> IF s \in {flushing} THEN lost[s] \cup Log!Pending(s)
                                   ELSE lost[s]]
    BY <1>t, <2>1, <2>2
  <2>4. Log!Lose({flushing})
    BY <2>1, <2>3 DEF Log!Lose, Published
  <2> QED
    BY <1>t, <2>4 DEF Log!Next
<1>5. CASE Stop
  <2>1. /\ lost' = [s \in Symbols |-> lost[s] \cup InMemory(s)]
        /\ received' = received /\ trades' = trades
    BY <1>5 DEF Stop, InMemory
  <2>2. \A s \in Symbols : Log!Pending(s) = InMemory(s)
    BY PendingIsInMemory
  <2>3. lost' = [s \in Symbols |-> IF s \in Symbols THEN lost[s] \cup Log!Pending(s)
                                   ELSE lost[s]]
    BY <2>1, <2>2
  <2>4. Log!Lose(Symbols)
    BY <2>1, <2>3 DEF Log!Lose, Published
  <2> QED
    BY <2>4 DEF Log!Next
<1> QED
  BY <1>1, <1>2, <1>3, <1>4, <1>5
  DEF Next, Pipeline, vars, Connect, StreamEnds, HandlerFails, Start, Tick, Drop, Execute

\* The buffers, the flushes and their failures implement the write-behind log:
\* handling a trade accepts it, a commit makes the batch durable, and a failure
\* or a stop loses what is pending and nothing else.
THEOREM ImplementsLog == Spec => WriteBehind
<1>1. Init => Log!Init
  <2>1. \A f : f = [id \in {} |-> 0] => DOMAIN f = {}
    OBVIOUS
  <2> QED
    BY <2>1 DEF Init, Log!Init, Published
<1> QED
  BY <1>1, StepImplementsLog, NothingForgotten, PTL DEF Spec, WriteBehind, Log!Spec
=============================================================================
