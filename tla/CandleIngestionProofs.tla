----------------------- MODULE CandleIngestionProofs ------------------------
(***************************************************************************)
(* Proofs about CandleIngestion for every number of symbols, backfill      *)
(* window, queue bound and number of faults.                               *)
(***************************************************************************)
EXTENDS CandleIngestion, FiniteSetTheorems, SequenceTheorems, TLAPS

-----------------------------------------------------------------------------
(* Lemmas about the operators of the model. *)

\* Upsert keeps a table a table and stores what was stored and what is written.
LEMMA UpsertTable ==
  ASSUME NEW t \in Table, NEW r \in Table
  PROVE  /\ Upsert(t, r) \in Table
         /\ DOMAIN Upsert(t, r) = DOMAIN t \cup DOMAIN r
         /\ \A m \in DOMAIN t \cup DOMAIN r :
              Upsert(t, r)[m] = IF m \in DOMAIN r THEN r[m] ELSE t[m]
<1>1. PICK D \in SUBSET Minutes : t \in [D -> Candle]
  BY DEF Table
<1>2. PICK E \in SUBSET Minutes : r \in [E -> Candle]
  BY DEF Table
<1>3. Upsert(t, r) \in [D \cup E -> Candle]
  BY <1>1, <1>2 DEF Upsert
<1>4. D \cup E \in SUBSET Minutes
  OBVIOUS
<1> QED
  BY <1>1, <1>2, <1>3, <1>4 DEF Table, Upsert

\* A function of minutes to candles is a table.
LEMMA IsTable ==
  ASSUME NEW D \in SUBSET Minutes, NEW f \in [D -> Candle]
  PROVE  f \in Table
BY DEF Table

LEMMA NoRowsTable == NoRows \in Table /\ DOMAIN NoRows = {}
<1>1. NoRows \in [{} -> Candle]
  BY DEF NoRows
<1> QED
  BY <1>1, IsTable DEF NoRows

\* The rows of a table are candles of minutes.
LEMMA TableRows ==
  ASSUME NEW t \in Table
  PROVE  /\ DOMAIN t \subseteq Minutes
         /\ \A m \in DOMAIN t : t[m] \in Candle
BY DEF Table

\* What can be queued: the operations on the queue stay within Seq(S).
LEMMA QueueOps ==
  ASSUME NEW S, NEW q \in Seq(S)
  PROVE  /\ \A e \in S : Append(q, e) \in Seq(S)
         /\ \A r \in Seq(S) : q \o r \in Seq(S)
         /\ \A k \in 0..Len(q) : SubSeq(q, 1, k) \in Seq(S)
         /\ q # <<>> => Head(q) \in S /\ Tail(q) \in Seq(S)
<1>1. \A k \in 0..Len(q) : SubSeq(q, 1, k) \in Seq(S)
  <2> SUFFICES ASSUME NEW k \in 0..Len(q) PROVE SubSeq(q, 1, k) \in Seq(S)
    OBVIOUS
  <2> QED
    BY SubSeqProperties
<1> QED
  BY <1>1, AppendProperties, ConcatProperties, HeadTailProperties

LEMMA ClosingKlinesSeq ==
  ASSUME NEW m \in Minutes
  PROVE  /\ ClosingKlines(m) \in Seq(KlineEvent)
         /\ Len(ClosingKlines(m)) = NumSymbols
         /\ \A s \in Symbols : ClosingKlines(m)[s] = Event(s, m, TRUE)
<1>1. \A s \in Symbols : Event(s, m, TRUE) \in KlineEvent
  BY DEF Event, KlineEvent
<1>2. NumSymbols \in Nat
  BY IngestionAssumption
<1>3. ClosingKlines(m) \in [1..NumSymbols -> KlineEvent]
  BY <1>1 DEF ClosingKlines, Symbols
<1>4. ClosingKlines(m) \in Seq(KlineEvent)
  BY <1>2, <1>3, SeqDef
<1>5. DOMAIN ClosingKlines(m) = 1..Len(ClosingKlines(m))
  BY <1>4, LenProperties
<1>6. Len(ClosingKlines(m)) = NumSymbols
  <2>1. DOMAIN ClosingKlines(m) = 1..NumSymbols
    BY <1>3
  <2>2. Len(ClosingKlines(m)) \in Nat
    BY <1>4, LenProperties
  <2>3. NumSymbols \in 1..Len(ClosingKlines(m))
    BY <1>5, <2>1, IngestionAssumption
  <2>4. Len(ClosingKlines(m)) \in 1..NumSymbols
    BY <1>5, <2>1, <2>2, <2>3, IngestionAssumption
  <2> QED
    BY <1>2, <2>2, <2>3, <2>4
<1> QED
  BY <1>4, <1>6 DEF ClosingKlines

-----------------------------------------------------------------------------
(* Type correctness. *)

LEMMA NextBackoffType ==
  ASSUME NEW b \in 0..MaxBackoff
  PROVE  NextBackoff(b) \in 0..MaxBackoff
BY IngestionAssumption DEF NextBackoff

LEMMA InitTypeOK == Init => TypeOK
<1> SUFFICES ASSUME Init PROVE TypeOK
  OBVIOUS
<1>1. 1 \in Symbols /\ 0 \in Minutes /\ BackfillWindow \in Minutes
  BY IngestionAssumption DEF Symbols, Minutes
<1>2. queue \in Seq(KlineEvent)
  BY EmptySeq DEF Init
<1>3. 0 \in 0..MaxBackoff /\ 0 \in 0..MaxFaults
  BY IngestionAssumption
<1> QED
  BY <1>1, <1>2, <1>3, NoRowsTable DEF Init, TypeOK

\* The steps that touch the tables or the queue; the rest is propositional.
LEMMA NextTypeOK == TypeOK /\ [Next]_vars => TypeOK'
<1> SUFFICES ASSUME TypeOK, [Next]_vars PROVE TypeOK'
  OBVIOUS
<1> USE DEF exchange, tables, coverage, counters, task, control, sync, bus,
            story, history
<1>a. 1 \in Symbols /\ minute \in Minutes /\ (sym < NumSymbols => sym + 1 \in Symbols)
  BY IngestionAssumption DEF TypeOK, Symbols
<1>b. Fault => faults' \in 0..MaxFaults
  BY IngestionAssumption DEF Fault, TypeOK
<1>c. <<>> \in Seq(KlineEvent)
  BY EmptySeq
<1>d. NextBackoff(backoff) \in 0..MaxBackoff
  BY NextBackoffType DEF TypeOK
<1>e. 0 \in 0..MaxBackoff
  BY IngestionAssumption
<1>1. CASE SyncQuery
  <2>1. now' \in Minutes
    BY <1>1 DEF SyncQuery, TypeOK
  <2>2. batch' \in Table
    BY <1>1, NoRowsTable DEF SyncQuery
  <2> QED
    BY <1>1, <2>1, <2>2 DEF SyncQuery, TypeOK
<1>2. CASE SyncFetch
  <2>1. PICK last \in {now - 1, now} :
          batch' = [m \in start[sym]..last |->
                      [final |-> m < minute, is_closed |-> IsClosed(m)]]
    BY <1>2 DEF SyncFetch
  <2>2. start[sym]..last \in SUBSET Minutes
    BY IngestionAssumption DEF TypeOK, Minutes
  <2>3. \A m \in start[sym]..last :
          [final |-> m < minute, is_closed |-> IsClosed(m)] \in Candle
    BY DEF Candle, IsClosed
  <2>4. batch' \in [start[sym]..last -> Candle]
    BY <2>1, <2>3
  <2>5. batch' \in Table
    BY <2>2, <2>4, IsTable
  <2> QED
    BY <1>2, <2>5 DEF SyncFetch, TypeOK
<1>3. CASE SyncCommit
  <2>1. candles' \in [Symbols -> Table]
    <3>1. candles[sym] \in Table /\ batch \in Table
      BY DEF TypeOK
    <3>2. Upsert(candles[sym], batch) \in Table
      BY <3>1, UpsertTable
    <3> QED
      BY <1>3, <3>2 DEF SyncCommit, TypeOK
  <2>2. /\ backfill_covered_from' \in [Symbols -> Minutes \cup {None}]
        /\ last_backfill_at' \in [Symbols -> Minutes \cup {None}]
    BY <1>3 DEF SyncCommit, RecordBackfill, TypeOK
  <2>3. reconnect_count' \in [Symbols -> Nat]
    <3>1. RecordReconnect(sym) \/ UNCHANGED reconnect_count
      BY <1>3 DEF SyncCommit
    <3>2. reconnect_count \in [Symbols -> Nat]
      BY DEF TypeOK
    <3> QED
      BY <3>1, <3>2 DEF RecordReconnect
  <2>4. pc' \in {"sync_query", "connect", "mark"} /\ sym' \in Symbols
    BY <1>3, <1>a DEF SyncCommit, NextSymbol
  <2> QED
    BY <1>3, <2>1, <2>2, <2>3, <2>4 DEF SyncCommit, TypeOK
<1>4. CASE Accept
  BY <1>4 DEF Accept, TypeOK
<1>5. CASE Connected
  BY <1>5, <1>a, <1>e DEF Connected, TypeOK
<1>6. CASE Mark
  BY <1>6, <1>a DEF Mark, SetWsConnected, TypeOK
<1>7. CASE HandleKline
  <2> DEFINE e == Head(queue)
             row == [m \in {e.open_time} |->
                       [final |-> e.final, is_closed |-> e.is_closed]]
  <2>1. e \in KlineEvent /\ queue' \in Seq(KlineEvent)
    BY <1>7, QueueOps DEF HandleKline, WriteKline, TypeOK
  <2>2. row \in Table
    <3>1. [final |-> e.final, is_closed |-> e.is_closed] \in Candle
      BY <2>1 DEF KlineEvent, Candle
    <3>2. row \in [{e.open_time} -> Candle] /\ {e.open_time} \in SUBSET Minutes
      BY <2>1, <3>1 DEF KlineEvent
    <3> QED
      BY <3>2, IsTable
  <2>3. e.symbol \in Symbols /\ e.open_time \in Minutes
    BY <2>1 DEF KlineEvent
  <2>4. Upsert(candles[e.symbol], row) \in Table
    BY <2>2, <2>3, UpsertTable DEF TypeOK
  <2>5. candles' = [candles EXCEPT ![e.symbol] = Upsert(@, row)]
    BY <1>7 DEF HandleKline, WriteKline
  <2>6. candles' \in [Symbols -> Table]
    BY <2>3, <2>4, <2>5 DEF TypeOK
  <2>7. live' \in [Symbols -> Minutes \cup {None}]
    BY <1>7, <2>3 DEF HandleKline, WriteKline, TypeOK
  <2> QED
    BY <1>7, <2>1, <2>6, <2>7 DEF HandleKline, WriteKline, TypeOK
<1>8. CASE StreamEnds
  BY <1>8, <1>a DEF StreamEnds, FinallyHook, TypeOK
<1>9. CASE Hook
  <2>1. /\ ws_connected' \in [Symbols -> BOOLEAN]
        /\ error_count' \in [Symbols -> Nat]
    BY <1>9 DEF Hook, SetWsConnected, RecordError, TypeOK
  <2>2. /\ sym' \in Symbols
        /\ pc' \in {"hook", "down", "sleep"}
        /\ backoff' \in 0..MaxBackoff
    BY <1>9, <1>a, <1>d DEF Hook, LeaveHook, TypeOK
  <2>3. announced' \in {"none", "up", "down"} /\ unrecorded' \in BOOLEAN
    BY <1>9 DEF Hook, TypeOK
  <2> QED
    BY <1>9, <2>1, <2>2, <2>3 DEF Hook, TypeOK
<1>10. CASE Wake
  BY <1>10 DEF Wake, TypeOK
<1>11. CASE Drop
  <2>1. queue' \in Seq(KlineEvent)
    BY <1>11, QueueOps DEF Drop, TypeOK
  <2> QED
    BY <1>11, <1>b, <2>1 DEF Drop, TypeOK
<1>12. CASE SyncFails
  BY <1>12, <1>a, <1>b, <1>c
     DEF SyncFails, NextSymbol, FinallyHook, CloseSocket, TypeOK
<1>13. CASE HandlerFails
  BY <1>13, <1>a, <1>b, <1>c DEF HandlerFails, FinallyHook, CloseSocket, TypeOK
<1>14. CASE HookFails
  BY <1>14, <1>a, <1>b, <1>d DEF HookFails, LeaveHook, TypeOK
<1>15. CASE Shutdown
  BY <1>15, <1>a, <1>b, <1>c DEF Shutdown, CloseSocket, TypeOK
<1>16. CASE Crash
  BY <1>16, <1>b, <1>c DEF Crash, CloseSocket, TypeOK
<1>17. CASE Start
  BY <1>17, <1>a, <1>e DEF Start, TypeOK
<1>18. CASE Tick
  <2>1. minute' \in Minutes
    BY <1>18, IngestionAssumption DEF Tick, TypeOK, Minutes
  <2>2. queue' \in Seq(KlineEvent)
    BY <1>18, <1>a, QueueOps, ClosingKlinesSeq DEF Tick, TypeOK
  <2> QED
    BY <1>18, <2>1, <2>2 DEF Tick, TypeOK
<1>19. ASSUME NEW s \in Symbols, Forming(s) PROVE TypeOK'
  <2>1. Event(s, minute, FALSE) \in KlineEvent
    BY <1>a DEF Event, KlineEvent
  <2>2. queue' \in Seq(KlineEvent)
    BY <1>19, <2>1, QueueOps DEF Forming, TypeOK
  <2> QED
    BY <1>19, <2>2 DEF Forming, TypeOK
<1>20. CASE UNCHANGED vars
  BY <1>20 DEF vars, TypeOK
<1> QED
  BY <1>1, <1>2, <1>3, <1>4, <1>5, <1>6, <1>7, <1>8, <1>9, <1>10, <1>11, <1>12,
     <1>13, <1>14, <1>15, <1>16, <1>17, <1>18, <1>19, <1>20
     DEF Next, Pipeline, Faulty

\* Every column, queue and program counter keeps its type for every number of
\* symbols and every sequence of failures.
THEOREM TypeCorrect == Spec => []TypeOK
BY InitTypeOK, NextTypeOK, PTL DEF Spec

-----------------------------------------------------------------------------
(* ClosedIsFinal.  A closed row comes from the queue or from a batch, so all*)
(* three must be right, and a batch is judged by a `now' that is not ahead  *)
(* of the clock.                                                            *)

FinalRows(rows) == \A m \in DOMAIN rows : rows[m].is_closed => rows[m].final

FinalEvent == {e \in KlineEvent : e.is_closed => e.final}

FinalInv ==
  /\ \A s \in Symbols : FinalRows(candles[s])
  /\ queue \in Seq(FinalEvent)
  /\ FinalRows(batch)
  /\ now <= minute

LEMMA UpsertFinal ==
  ASSUME NEW t \in Table, NEW r \in Table, FinalRows(t), FinalRows(r)
  PROVE  FinalRows(Upsert(t, r))
<1>1. /\ DOMAIN Upsert(t, r) = DOMAIN t \cup DOMAIN r
      /\ \A m \in DOMAIN t \cup DOMAIN r :
           Upsert(t, r)[m] = IF m \in DOMAIN r THEN r[m] ELSE t[m]
  BY UpsertTable
<1> QED
  BY <1>1 DEF FinalRows

LEMMA InitFinal == Init => FinalInv
<1> SUFFICES ASSUME Init PROVE FinalInv
  OBVIOUS
<1>1. FinalRows(NoRows)
  BY NoRowsTable DEF FinalRows
<1>2. queue \in Seq(FinalEvent)
  BY EmptySeq DEF Init
<1> QED
  BY <1>1, <1>2, IngestionAssumption DEF Init, FinalInv

LEMMA NextFinal == TypeOK /\ FinalInv /\ [Next]_vars => FinalInv'
<1> SUFFICES ASSUME TypeOK, FinalInv, [Next]_vars PROVE FinalInv'
  OBVIOUS
<1> USE DEF exchange, tables, coverage, counters, task, control, sync, bus,
            story, history
<1>a. <<>> \in Seq(FinalEvent)
  BY EmptySeq
<1>b. minute \in Int /\ now \in Int /\ minute \in Minutes
  BY DEF TypeOK, Minutes
<1>c. \A s \in Symbols : Event(s, minute, TRUE) \in FinalEvent
                       /\ Event(s, minute, FALSE) \in FinalEvent
  BY <1>b DEF Event, FinalEvent, KlineEvent
<1>1. CASE SyncQuery
  BY <1>1, <1>b, NoRowsTable DEF SyncQuery, FinalInv, FinalRows
<1>2. CASE SyncFetch
  <2>1. FinalRows(batch')
    <3>1. PICK last \in {now - 1, now} :
            batch' = [m \in start[sym]..last |->
                        [final |-> m < minute, is_closed |-> IsClosed(m)]]
      BY <1>2 DEF SyncFetch
    <3>2. start[sym] \in Int /\ last \in Int
      BY <1>b DEF TypeOK, Minutes
    <3>3. \A m \in start[sym]..last : IsClosed(m) => m < minute
      BY <1>b, <3>2 DEF IsClosed, FinalInv
    <3> QED
      BY <3>1, <3>3 DEF FinalRows
  <2> QED
    BY <1>2, <2>1 DEF SyncFetch, FinalInv
<1>3. CASE SyncCommit
  <2>1. FinalRows(Upsert(candles[sym], batch))
    BY UpsertFinal DEF TypeOK, FinalInv
  <2>2. candles' = [candles EXCEPT ![sym] = Upsert(candles[sym], batch)]
    BY <1>3 DEF SyncCommit
  <2>3. \A s \in Symbols : FinalRows(candles'[s])
    BY <2>1, <2>2 DEF TypeOK, FinalInv
  <2> QED
    BY <1>3, <2>3 DEF SyncCommit, FinalInv
<1>4. CASE HandleKline
  <2> DEFINE e == Head(queue)
             row == [m \in {e.open_time} |->
                       [final |-> e.final, is_closed |-> e.is_closed]]
  <2>1. e \in FinalEvent /\ queue' \in Seq(FinalEvent)
    BY <1>4, QueueOps DEF HandleKline, WriteKline, FinalInv
  <2>2. row \in Table /\ e.symbol \in Symbols
    <3>1. [final |-> e.final, is_closed |-> e.is_closed] \in Candle
      BY <2>1 DEF FinalEvent, KlineEvent, Candle
    <3>2. row \in [{e.open_time} -> Candle] /\ {e.open_time} \in SUBSET Minutes
      BY <2>1, <3>1 DEF FinalEvent, KlineEvent
    <3> QED
      BY <2>1, <3>2, IsTable DEF FinalEvent, KlineEvent
  <2>3. FinalRows(row)
    BY <2>1 DEF FinalRows, FinalEvent
  <2>4. FinalRows(Upsert(candles[e.symbol], row))
    BY <2>2, <2>3, UpsertFinal DEF TypeOK, FinalInv
  <2>5. candles' = [candles EXCEPT ![e.symbol] = Upsert(candles[e.symbol], row)]
    BY <1>4 DEF HandleKline, WriteKline
  <2>6. \A s \in Symbols : FinalRows(candles'[s])
    BY <2>2, <2>4, <2>5 DEF TypeOK, FinalInv
  <2> QED
    BY <1>4, <2>1, <2>6 DEF HandleKline, WriteKline, FinalInv
<1>5. CASE Tick
  <2>1. ClosingKlines(minute) \in Seq(FinalEvent)
    <3>1. NumSymbols \in Nat /\ ClosingKlines(minute) \in [1..NumSymbols -> FinalEvent]
      BY <1>c, IngestionAssumption DEF ClosingKlines, Symbols
    <3> QED
      BY <3>1, SeqDef
  <2>2. queue' \in Seq(FinalEvent)
    BY <1>5, <2>1, QueueOps DEF Tick, FinalInv
  <2>3. now' <= minute'
    BY <1>5, <1>b DEF Tick, FinalInv
  <2> QED
    BY <1>5, <2>2, <2>3 DEF Tick, FinalInv
<1>6. ASSUME NEW s \in Symbols, Forming(s) PROVE FinalInv'
  <2>1. queue' \in Seq(FinalEvent)
    BY <1>6, <1>c, QueueOps DEF Forming, FinalInv
  <2> QED
    BY <1>6, <2>1 DEF Forming, FinalInv
<1>7. CASE Drop
  <2>1. queue' \in Seq(FinalEvent)
    BY <1>7, QueueOps DEF Drop, FinalInv
  <2> QED
    BY <1>7, <2>1 DEF Drop, FinalInv
<1>8. CASE Accept \/ Connected \/ Mark \/ StreamEnds \/ Hook \/ Wake \/ Start
           \/ UNCHANGED vars
  <2>1. UNCHANGED <<minute, queue, candles, batch>> /\ now' \in {now, minute}
    BY <1>8 DEF Accept, Connected, Mark, StreamEnds, Hook, Wake, Start, vars
  <2> QED
    BY <2>1, <1>b DEF FinalInv
<1>9. CASE SyncFails \/ HandlerFails \/ HookFails \/ Shutdown \/ Crash
  <2>1. UNCHANGED <<minute, candles, batch, now>> /\ queue' \in {queue, <<>>}
    BY <1>9 DEF SyncFails, HandlerFails, HookFails, Shutdown,
                Crash, CloseSocket
  <2> QED
    BY <2>1, <1>a DEF FinalInv
<1> QED
  BY <1>1, <1>2, <1>3, <1>4, <1>5, <1>6, <1>7, <1>8, <1>9
     DEF Next, Pipeline, Faulty

\* A candle stored as closed has the values of the whole minute, for every
\* number of symbols and however REST answers and stream events interleave.
THEOREM ClosedCandlesAreFinal == Spec => []ClosedIsFinal
<1>1. FinalInv => ClosedIsFinal
  BY DEF FinalInv, FinalRows, ClosedIsFinal, Stored
<1> QED
  BY <1>1, InitTypeOK, NextTypeOK, InitFinal, NextFinal, PTL DEF Spec

-----------------------------------------------------------------------------
(* CoverageHonest.  While sync is between its query and its commit, the     *)
(* batch must hold every minute the commit will claim.                      *)

CoverageInv ==
  /\ CoverageHonest
  /\ pc = "sync_fetch" => start[sym] < now
  /\ pc = "sync_commit" /\ start[sym] < now =>
       start[sym]..(now - 1) \subseteq DOMAIN batch

\* Rows are never deleted.
LEMMA StoredGrows ==
  TypeOK /\ [Next]_vars => \A s \in Symbols : Stored(s) \subseteq Stored(s)'
<1> SUFFICES ASSUME TypeOK, [Next]_vars, NEW s \in Symbols
             PROVE  Stored(s) \subseteq Stored(s)'
  OBVIOUS
<1>1. CASE SyncCommit
  <2>1. DOMAIN candles[sym] \subseteq DOMAIN Upsert(candles[sym], batch)
    BY DEF Upsert
  <2> QED
    BY <1>1, <2>1 DEF SyncCommit, Stored, TypeOK
<1>2. CASE HandleKline
  <2> DEFINE e == Head(queue)
             row == [m \in {e.open_time} |->
                       [final |-> e.final, is_closed |-> e.is_closed]]
  <2>1. DOMAIN candles[s] \subseteq DOMAIN Upsert(candles[s], row)
    BY DEF Upsert
  <2>2. candles' = [candles EXCEPT ![e.symbol] = Upsert(candles[e.symbol], row)]
    BY <1>2 DEF HandleKline, WriteKline
  <2> QED
    BY <2>1, <2>2 DEF Stored, TypeOK
<1>3. CASE candles' = candles
  BY <1>3 DEF Stored
<1> QED
  BY <1>1, <1>2, <1>3
     DEF Next, Pipeline, Faulty, SyncQuery, SyncFetch, Accept, Connected, Mark,
         StreamEnds, Hook, Wake, Drop, SyncFails, HandlerFails,
         HookFails, Shutdown, Crash, Start, Tick, Forming, vars, tables

LEMMA NextCoverage == TypeOK /\ CoverageInv /\ [Next]_vars => CoverageInv'
<1> SUFFICES ASSUME TypeOK, CoverageInv, [Next]_vars PROVE CoverageInv'
  OBVIOUS
<1> USE DEF exchange, tables, coverage, counters, task, control, sync, bus,
            story, history
<1>a. sym \in Symbols /\ now \in Int /\ start[sym] \in Int
  BY DEF TypeOK, Minutes
<1>b. UNCHANGED coverage => CoverageHonest'
  BY StoredGrows DEF CoverageInv, CoverageHonest
<1>1. CASE SyncQuery
  <2>1. pc' = "sync_fetch" => start'[sym'] < now'
    <3>1. PICK m \in Minutes :
            /\ start' = [start EXCEPT ![sym] = m]
            /\ pc' = IF m >= now' THEN "sync_commit" ELSE "sync_fetch"
      BY <1>1 DEF SyncQuery
    <3>2. m \in Int /\ now' \in Int /\ sym' = sym /\ start'[sym] = m
      BY <1>1, <1>a, <3>1 DEF SyncQuery, TypeOK, Minutes
    <3> QED
      BY <3>1, <3>2
  <2>2. pc' = "sync_commit" => ~(start'[sym'] < now')
    <3>1. PICK m \in Minutes :
            /\ start' = [start EXCEPT ![sym] = m]
            /\ pc' = IF m >= now' THEN "sync_commit" ELSE "sync_fetch"
      BY <1>1 DEF SyncQuery
    <3>2. m \in Int /\ now' \in Int /\ sym' = sym /\ start'[sym] = m
      BY <1>1, <1>a, <3>1 DEF SyncQuery, TypeOK, Minutes
    <3> QED
      BY <3>1, <3>2
  <2> QED
    BY <1>1, <1>b, <2>1, <2>2 DEF SyncQuery, CoverageInv
<1>2. CASE SyncFetch
  <2>1. PICK last \in {now - 1, now} :
          batch' = [m \in start[sym]..last |->
                      [final |-> m < minute, is_closed |-> IsClosed(m)]]
    BY <1>2 DEF SyncFetch
  <2>2. start[sym]..(now - 1) \subseteq DOMAIN batch'
    BY <1>a, <2>1
  <2> QED
    BY <1>2, <1>b, <2>2 DEF SyncFetch, CoverageInv
<1>3. CASE SyncCommit
  <2>1. CoverageHonest'
    <3> SUFFICES ASSUME NEW s \in Symbols, NEW m \in Minutes,
                        backfill_covered_from'[s] <= m, m < last_backfill_at'[s]
                 PROVE  m \in Stored(s)'
      BY DEF CoverageHonest
    <3>1. CASE s = sym /\ start[sym] < now
      <4>1. start[sym] <= m /\ m < now
        BY <1>3, <1>a, <3>1 DEF SyncCommit, RecordBackfill, TypeOK
      <4>2. m \in DOMAIN batch
        BY <1>3, <1>a, <3>1, <4>1 DEF SyncCommit, CoverageInv, Minutes
      <4>3. DOMAIN batch \subseteq DOMAIN Upsert(candles[sym], batch)
        BY DEF Upsert
      <4> QED
        BY <1>3, <1>a, <3>1, <4>2, <4>3 DEF SyncCommit, Stored, TypeOK
    <3>2. CASE ~(s = sym /\ start[sym] < now)
      <4>1. /\ backfill_covered_from'[s] = backfill_covered_from[s]
            /\ last_backfill_at'[s] = last_backfill_at[s]
        BY <1>3, <3>2 DEF SyncCommit, RecordBackfill, TypeOK
      <4> QED
        BY <4>1, StoredGrows DEF CoverageInv, CoverageHonest
    <3> QED
      BY <3>1, <3>2
  <2>2. pc' \in {"sync_query", "connect", "mark"}
    BY <1>3 DEF SyncCommit, NextSymbol
  <2> QED
    BY <2>1, <2>2 DEF CoverageInv
<1>4. CASE SyncFails
  BY <1>4, <1>b DEF SyncFails, NextSymbol, FinallyHook, CoverageInv
<1>5. CASE \/ Accept \/ HandleKline \/ Wake \/ Drop \/ Tick
           \/ \E s \in Symbols : Forming(s)
           \/ UNCHANGED vars
  <2>1. UNCHANGED <<coverage, now, start, batch, sym>> /\
        (UNCHANGED pc \/ pc' \notin {"sync_fetch", "sync_commit"})
    BY <1>5 DEF Accept, HandleKline, Wake, Drop, Tick, Forming, vars
  <2> QED
    BY <1>b, <2>1 DEF CoverageInv
<1>6. CASE \/ Connected \/ Mark \/ StreamEnds \/ Hook \/ HandlerFails \/ HookFails
           \/ Shutdown \/ Crash \/ Start
  <2>1. UNCHANGED coverage /\ pc' \notin {"sync_fetch", "sync_commit"}
    <3>1. CASE Connected \/ Mark \/ StreamEnds \/ Start
      BY <3>1 DEF Connected, Mark, StreamEnds, FinallyHook, Start
    <3>2. CASE Hook \/ HookFails
      BY <3>2 DEF Hook, HookFails, LeaveHook
    <3>3. CASE HandlerFails \/ Shutdown \/ Crash
      BY <3>3 DEF HandlerFails, FinallyHook, Shutdown, Crash
    <3> QED
      BY <1>6, <3>1, <3>2, <3>3
  <2> QED
    BY <1>b, <2>1 DEF CoverageInv
<1> QED
  BY <1>1, <1>2, <1>3, <1>4, <1>5, <1>6 DEF Next, Pipeline, Faulty

\* What pipeline_status says was backfilled is stored, for every number of
\* symbols and whichever steps fail.
THEOREM CoverageIsHonest == Spec => []CoverageHonest
<1>1. Init => CoverageInv
  BY DEF Init, CoverageInv, CoverageHonest, Minutes, None
<1>2. CoverageInv => CoverageHonest
  BY DEF CoverageInv
<1> QED
  BY <1>1, <1>2, InitTypeOK, NextTypeOK, NextCoverage, PTL DEF Spec

-----------------------------------------------------------------------------
(* StatusHonest.  Outside the connection's states a row that says connected *)
(* is unrecorded; inside the hook the rows behind the loop say disconnected.*)

StatusInv ==
  /\ pc \notin {"mark", "stream", "hook"} =>
       \A s \in Symbols : ws_connected[s] => unrecorded
  /\ pc \notin {"mark", "stream", "hook", "down"} =>
       (announced = "up" => unrecorded)
  /\ pc = "hook" => \A s \in Symbols : s < sym => ~ws_connected[s]

LEMMA NextStatus == TypeOK /\ StatusInv /\ [Next]_vars => StatusInv'
<1> SUFFICES ASSUME TypeOK, StatusInv, [Next]_vars PROVE StatusInv'
  OBVIOUS
<1> USE DEF exchange, tables, coverage, counters, task, control, sync, bus,
            story, history
<1>a. /\ sym \in Symbols
      /\ ws_connected \in [Symbols -> BOOLEAN]
      /\ \A s \in Symbols : s \in Int /\ 1 <= s /\ s <= NumSymbols
      /\ NumSymbols \in Nat \ {0}
  BY IngestionAssumption DEF TypeOK, Symbols
<1>b. \A s \in Symbols : ~(s < 1)
  BY <1>a
<1>1. CASE Mark
  BY <1>1, <1>a DEF Mark, StatusInv
<1>2. CASE Hook
  <2>1. \A s \in Symbols : s <= sym => ~ws_connected'[s]
    BY <1>2, <1>a DEF Hook, SetWsConnected, StatusInv
  <2>2. CASE sym < NumSymbols
    <3>1. sym' = sym + 1 /\ pc' = "hook"
      BY <1>2, <2>2 DEF Hook
    <3>2. \A s \in Symbols : s < sym' => ~ws_connected'[s]
      BY <1>a, <2>1, <3>1
    <3> QED
      BY <3>1, <3>2 DEF StatusInv
  <2>3. CASE ~(sym < NumSymbols)
    <3>1. \A s \in Symbols : ~ws_connected'[s]
      BY <1>a, <2>1, <2>3
    <3>2. announced' = "down" /\ pc' \in {"down", "sleep"}
      BY <1>2, <2>3 DEF Hook, LeaveHook
    <3> QED
      BY <3>1, <3>2 DEF StatusInv
  <2> QED
    BY <2>2, <2>3
<1>3. CASE HookFails
  <2>1. unrecorded' /\ pc' \in {"down", "sleep"}
    BY <1>3 DEF HookFails, LeaveHook
  <2> QED
    BY <2>1 DEF StatusInv
<1>4. CASE Shutdown
  <2>1. /\ UNCHANGED <<ws_connected, announced>> /\ sym' = 1
        /\ pc' \in {"down", "hook"}
        /\ pc' = "down" => pc \notin {"mark", "stream"}
        /\ unrecorded' = (unrecorded \/ pc = "hook")
    BY <1>4 DEF Shutdown, Backfilling
  <2> QED
    BY <1>b, <2>1 DEF StatusInv
<1>5. CASE Crash
  <2>1. /\ UNCHANGED <<ws_connected, announced>> /\ pc' = "down"
        /\ unrecorded' = (unrecorded \/ pc \in {"mark", "stream", "hook"})
    BY <1>5 DEF Crash
  <2> QED
    BY <2>1 DEF StatusInv
<1>6. CASE Start
  BY <1>6 DEF Start, StatusInv
<1>7. CASE StreamEnds \/ HandlerFails
  <2>1. pc' = "hook" /\ sym' = 1
    BY <1>7 DEF StreamEnds, HandlerFails, FinallyHook
  <2> QED
    BY <1>b, <2>1 DEF StatusInv
<1>8. CASE SyncFails \/ SyncCommit
  <2>1. /\ UNCHANGED <<ws_connected, announced, unrecorded>>
        /\ pc \notin {"mark", "stream", "hook", "down"}
        /\ pc' \in {"sync_query", "connect", "mark", "hook"}
        /\ pc' = "hook" => sym' = 1
    BY <1>8 DEF SyncFails, SyncCommit, NextSymbol, FinallyHook
  <2> QED
    BY <1>b, <2>1 DEF StatusInv
<1>9. CASE \/ SyncQuery \/ SyncFetch \/ Accept \/ Connected \/ Wake
  <2>1. /\ UNCHANGED <<ws_connected, announced, unrecorded>>
        /\ pc \notin {"mark", "stream", "hook", "down"}
        /\ pc' \notin {"hook", "stream", "down"}
    BY <1>9 DEF SyncQuery, SyncFetch, Accept, Connected, Accepted, Wake
  <2> QED
    BY <2>1 DEF StatusInv
<1>10. CASE \/ HandleKline \/ Drop \/ Tick \/ UNCHANGED vars
            \/ \E s \in Symbols : Forming(s)
  <2>1. UNCHANGED <<ws_connected, announced, unrecorded, pc, sym>>
    BY <1>10 DEF HandleKline, Drop, Tick, Forming, vars
  <2> QED
    BY <2>1 DEF StatusInv
<1> QED
  BY <1>1, <1>2, <1>3, <1>4, <1>5, <1>6, <1>7, <1>8, <1>9, <1>10
     DEF Next, Pipeline, Faulty

\* A wrong "connected" is always the trace of a crash or of a failed hook, for
\* every number of symbols: the loop that marks rows never skips one.
THEOREM StatusIsHonest == Spec => []StatusHonest
<1>1. Init => StatusInv
  BY DEF Init, StatusInv
<1>2. StatusInv => StatusHonest
  BY DEF StatusInv, StatusHonest, Offline, Backfilling
<1> QED
  BY <1>1, <1>2, InitTypeOK, NextTypeOK, NextStatus, PTL DEF Spec

-----------------------------------------------------------------------------
(* ReconnectsExplained.  A symbol that is about to have a reconnection      *)
(* counted has an end of connection left to explain it.                     *)

Ended(s) == error_count[s] + hook_failures
Spare(s) == reconnect_count[s] < Ended(s)

ReconnectInv ==
  /\ ReconnectsExplained
  /\ Backfilling => ~connected_once
  /\ pc \in {"connect", "sleep"} /\ connected_once => \A s \in Symbols : Spare(s)
  /\ pc \in {"sync_query", "sync_fetch", "sync_commit"}
       /\ caller = "handle_connected" => \A s \in Symbols : sym <= s => Spare(s)
  /\ pc = "hook" => \A s \in Symbols : s < sym => Spare(s)

LEMMA NextReconnect == TypeOK /\ ReconnectInv /\ [Next]_vars => ReconnectInv'
<1> SUFFICES ASSUME TypeOK, ReconnectInv, [Next]_vars PROVE ReconnectInv'
  OBVIOUS
<1> USE DEF exchange, tables, coverage, counters, task, control, sync, bus,
            story, history
<1>a. /\ sym \in Symbols
      /\ \A s \in Symbols : s \in Int /\ 1 <= s /\ s <= NumSymbols
      /\ NumSymbols \in Nat \ {0}
      /\ reconnect_count \in [Symbols -> Nat] /\ error_count \in [Symbols -> Nat]
      /\ hook_failures \in Nat
  BY IngestionAssumption DEF TypeOK, Symbols
<1>b. \A s \in Symbols : ~(s < 1)
  BY <1>a
<1>c. \A s \in Symbols : /\ reconnect_count[s] \in Nat /\ error_count[s] \in Nat
                        /\ Ended(s) \in Nat /\ reconnect_count[s] <= Ended(s)
  BY <1>a DEF ReconnectInv, ReconnectsExplained, Ended
<1>d. UNCHANGED <<counters, hook_failures>> =>
        /\ ReconnectsExplained'
        /\ \A s \in Symbols : Spare(s)' = Spare(s)
  BY <1>c DEF ReconnectsExplained, Spare, Ended
<1>1. CASE SyncCommit
  <2>1. CASE caller = "initial_backfill"
    <3>1. /\ UNCHANGED <<counters, hook_failures, connected_once, caller>>
          /\ pc' \in {"sync_query", "connect"}
      BY <1>1, <2>1 DEF SyncCommit, CountsReconnect, NextSymbol
    <3>2. ~connected_once
      BY <1>1, <2>1 DEF SyncCommit, ReconnectInv, Backfilling
    <3> QED
      BY <1>d, <2>1, <3>1, <3>2 DEF ReconnectInv, Backfilling
  <2>2. CASE caller = "handle_connected"
    <3>1. /\ reconnect_count' = [reconnect_count EXCEPT ![sym] = @ + 1]
          /\ UNCHANGED <<error_count, hook_failures, connected_once, caller>>
          /\ pc' \in {"sync_query", "mark"}
          /\ pc' = "sync_query" => sym' = sym + 1
      BY <1>1, <2>2 DEF SyncCommit, CountsReconnect, RecordReconnect, NextSymbol
    <3>2. Spare(sym)
      BY <1>1, <1>a, <2>2 DEF SyncCommit, ReconnectInv
    <3>3. \A s \in Symbols : reconnect_count'[s] <= Ended(s)'
      BY <1>a, <1>c, <3>1, <3>2 DEF Spare, Ended
    <3>4. pc' = "sync_query" => \A s \in Symbols : sym' <= s => Spare(s)'
      <4> SUFFICES ASSUME pc' = "sync_query", NEW s \in Symbols, sym' <= s
                   PROVE  Spare(s)'
        OBVIOUS
      <4>1. sym <= s /\ s # sym
        BY <1>a, <3>1
      <4>2. Spare(s) /\ reconnect_count'[s] = reconnect_count[s]
        BY <1>1, <1>a, <2>2, <3>1, <4>1 DEF SyncCommit, ReconnectInv
      <4> QED
        BY <3>1, <4>2 DEF Spare, Ended
    <3> QED
      BY <2>2, <3>1, <3>3, <3>4
         DEF ReconnectInv, ReconnectsExplained, Ended, Backfilling
  <2> QED
    BY <2>1, <2>2 DEF TypeOK
<1>2. CASE Hook
  <2>1. /\ error_count' = [error_count EXCEPT ![sym] = @ + 1]
        /\ UNCHANGED <<reconnect_count, hook_failures>>
        /\ IF sym < NumSymbols THEN sym' = sym + 1 /\ pc' = "hook"
                               ELSE pc' \in {"down", "sleep"}
    BY <1>2 DEF Hook, RecordError, LeaveHook
  <2>2. \A s \in Symbols : s <= sym => Spare(s)'
    <3>1. \A s \in Symbols : s < sym => Spare(s)
      BY <1>2 DEF Hook, ReconnectInv
    <3> QED
      BY <1>a, <1>c, <2>1, <3>1 DEF Spare, Ended
  <2>3. ReconnectsExplained'
    BY <1>a, <1>c, <2>1 DEF ReconnectsExplained, Ended
  <2>4. CASE sym < NumSymbols
    BY <1>a, <2>1, <2>2, <2>3, <2>4 DEF ReconnectInv, Backfilling
  <2>5. CASE ~(sym < NumSymbols)
    <3>1. \A s \in Symbols : Spare(s)'
      BY <1>a, <2>2, <2>5
    <3> QED
      BY <2>1, <2>3, <2>5, <3>1 DEF ReconnectInv, Backfilling
  <2> QED
    BY <2>4, <2>5
<1>3. CASE HookFails
  <2>1. /\ UNCHANGED counters /\ hook_failures' = hook_failures + 1
        /\ pc' \in {"down", "sleep"}
    BY <1>3 DEF HookFails, LeaveHook
  <2>2. ReconnectsExplained' /\ \A s \in Symbols : Spare(s)'
    BY <1>a, <1>c, <2>1 DEF ReconnectsExplained, Spare, Ended
  <2> QED
    BY <2>1, <2>2 DEF ReconnectInv, Backfilling
<1>4. CASE Connected
  <2>1. /\ UNCHANGED <<counters, hook_failures>>
        /\ caller' = "handle_connected" /\ pc = "connect"
        /\ pc' = IF connected_once THEN "sync_query" ELSE "mark"
    BY <1>4 DEF Connected, Accepted, Resyncs
  <2>2. connected_once => \A s \in Symbols : Spare(s)'
    BY <1>d, <2>1 DEF ReconnectInv
  <2> QED
    BY <1>d, <2>1, <2>2 DEF ReconnectInv, Backfilling
<1>5. CASE SyncFails
  <2>1. /\ UNCHANGED <<counters, hook_failures, connected_once, caller>>
        /\ pc \in {"sync_query", "sync_fetch", "sync_commit"}
        /\ IF caller = "initial_backfill" THEN pc' \in {"sync_query", "connect"}
                                         ELSE pc' = "hook" /\ sym' = 1
    BY <1>5 DEF SyncFails, NextSymbol, FinallyHook
  <2>2. caller = "initial_backfill" => ~connected_once
    BY <2>1 DEF ReconnectInv, Backfilling
  <2> QED
    BY <1>b, <1>d, <2>1, <2>2 DEF ReconnectInv, Backfilling
<1>6. CASE StreamEnds \/ HandlerFails \/ Shutdown \/ Crash
  <2>1. /\ UNCHANGED <<counters, hook_failures>>
        /\ pc' \in {"hook", "down"} /\ (pc' = "hook" => sym' = 1)
    BY <1>6 DEF StreamEnds, HandlerFails, FinallyHook, Shutdown, Crash
  <2> QED
    BY <1>b, <1>d, <2>1 DEF ReconnectInv, Backfilling
<1>7. CASE Start
  <2>1. /\ UNCHANGED <<counters, hook_failures>> /\ pc' = "sync_query"
        /\ caller' = "initial_backfill" /\ connected_once' = FALSE
    BY <1>7 DEF Start
  <2> QED
    BY <1>d, <2>1 DEF ReconnectInv, Backfilling
<1>8. CASE SyncQuery \/ SyncFetch
  <2>1. /\ UNCHANGED <<counters, hook_failures, connected_once, caller, sym>>
        /\ pc \in {"sync_query", "sync_fetch"}
        /\ pc' \in {"sync_fetch", "sync_commit"}
    BY <1>8 DEF SyncQuery, SyncFetch
  <2> QED
    BY <1>d, <2>1 DEF ReconnectInv, Backfilling
<1>9. CASE \/ Accept \/ Wake \/ Mark \/ HandleKline \/ Drop \/ Tick
           \/ UNCHANGED vars \/ \E s \in Symbols : Forming(s)
  <2>1. /\ UNCHANGED <<counters, hook_failures, connected_once, caller>>
        /\ \/ UNCHANGED <<pc, sym>>
           \/ pc' \in {"mark", "stream"}
           \/ pc = "sleep" /\ pc' = "connect"
    BY <1>9 DEF Accept, Wake, Mark, HandleKline, Drop, Tick, Forming, vars
  <2> QED
    BY <1>d, <2>1 DEF ReconnectInv, Backfilling
<1> QED
  BY <1>1, <1>2, <1>3, <1>4, <1>5, <1>6, <1>7, <1>8, <1>9
     DEF Next, Pipeline, Faulty

\* reconnect_count never runs ahead of the connections that are known to have
\* ended, for every number of symbols, restarts and failures.
THEOREM ReconnectsAreExplained == Spec => []ReconnectsExplained
<1>1. Init => ReconnectInv
  BY DEF Init, ReconnectInv, ReconnectsExplained, Backfilling
<1>2. ReconnectInv => ReconnectsExplained
  BY DEF ReconnectInv
<1> QED
  BY <1>1, <1>2, InitTypeOK, NextTypeOK, NextReconnect, PTL DEF Spec

-----------------------------------------------------------------------------
(* LiveNeverGoesBack.  The queue is sorted by open_time and never holds     *)
(* anything older than what was published or newer than the clock.          *)

Sorted(q) ==
  \A i, j \in 1..Len(q) : i <= j => q[i].open_time <= q[j].open_time

Within(q, low, high) ==
  \A i \in 1..Len(q) : low <= q[i].open_time /\ q[i].open_time <= high

LiveInv ==
  /\ Sorted(queue)
  /\ \A s \in Symbols : live[s] <= minute /\ Within(queue, live[s], minute)

\* What a drop leaves is the beginning of what was received.
LEMMA DropKeeps ==
  ASSUME TypeOK, Drop
  PROVE  /\ Len(queue') <= Len(queue) /\ Len(queue') \in Nat
         /\ \A i \in 1..Len(queue') : queue'[i] = queue[i] /\ i \in 1..Len(queue)
<1>1. PICK k \in 0..Len(queue) : queue' = SubSeq(queue, 1, k)
  BY DEF Drop
<1>2. queue \in Seq(KlineEvent) /\ Len(queue) \in Nat
  BY LenProperties DEF TypeOK
<1>3. k \in Int /\ 1..k \subseteq 1..Len(queue)
  BY <1>2
<1>4. \A i \in 1..k : queue[i] \in KlineEvent
  BY <1>2, <1>3, ElementOfSeq
<1>5. /\ Len(queue') = IF 1 <= k THEN k - 1 + 1 ELSE 0
      /\ \A i \in 1..(k - 1 + 1) : queue'[i] = queue[1 + i - 1]
  BY <1>1, <1>3, <1>4, SubSeqProperties
<1>6. Len(queue') = k
  BY <1>5
<1> QED
  BY <1>2, <1>3, <1>5, <1>6

LEMMA EventTimes ==
  ASSUME NEW q \in Seq(KlineEvent)
  PROVE  \A i \in 1..Len(q) : q[i].open_time \in Int
<1>1. \A i \in 1..Len(q) : q[i] \in KlineEvent
  BY ElementOfSeq
<1>2. \A i \in 1..Len(q) : q[i].open_time \in Minutes
  BY <1>1 DEF KlineEvent
<1> QED
  BY <1>2 DEF Minutes

\* Any number of events of the current minute may follow a sorted queue.
LEMMA Enqueue ==
  ASSUME NEW q \in Seq(KlineEvent), NEW new \in Seq(KlineEvent), NEW high \in Int,
         \A i \in 1..Len(new) : new[i].open_time = high
  PROVE  \A low \in Int :
           low <= high /\ Sorted(q) /\ Within(q, low, high) =>
             Sorted(q \o new) /\ Within(q \o new, low, high)
<1> SUFFICES ASSUME NEW low \in Int, low <= high, Sorted(q), Within(q, low, high)
             PROVE  Sorted(q \o new) /\ Within(q \o new, low, high)
  OBVIOUS
<1> DEFINE r == q \o new
<1>1. /\ Len(q) \in Nat /\ Len(new) \in Nat /\ Len(r) = Len(q) + Len(new)
      /\ \A i \in 1..Len(r) : r[i] = IF i <= Len(q) THEN q[i] ELSE new[i - Len(q)]
  BY ConcatProperties, LenProperties
<1>2. \A i \in 1..Len(r) :
        \/ i \in 1..Len(q) /\ r[i] = q[i]
        \/ i > Len(q) /\ r[i].open_time = high
  BY <1>1
<1> HIDE DEF r
<1>3. Within(r, low, high)
  BY <1>2 DEF Within
<1>4. Sorted(r)
  <2> SUFFICES ASSUME NEW i \in 1..Len(r), NEW j \in 1..Len(r), i <= j
               PROVE  r[i].open_time <= r[j].open_time
    BY DEF Sorted
  <2>1. CASE j \in 1..Len(q)
    BY <1>1, <1>2, <2>1 DEF Sorted
  <2>2. CASE j > Len(q)
    BY <1>1, <1>2, <1>3, <2>2 DEF Within
  <2> QED
    BY <1>1, <2>1, <2>2
<1> QED
  BY <1>3, <1>4 DEF r

LEMMA InitLive == Init => LiveInv
BY EmptySeq, IngestionAssumption DEF Init, LiveInv, Sorted, Within, None

LEMMA NextLive ==
  TypeOK /\ LiveInv /\ [Next]_vars =>
    LiveInv' /\ \A s \in Symbols : live[s] <= live'[s]
<1> SUFFICES ASSUME TypeOK, LiveInv, [Next]_vars
             PROVE  LiveInv' /\ \A s \in Symbols : live[s] <= live'[s]
  OBVIOUS
<1> USE DEF exchange, tables, coverage, counters, task, control, sync, bus,
            story, history
<1>a. /\ minute \in Int /\ minute \in Minutes
      /\ \A s \in Symbols : live[s] \in Int
      /\ queue \in Seq(KlineEvent) /\ Len(queue) \in Nat
  BY LenProperties DEF TypeOK, Minutes, None
<1>b. UNCHANGED live => \A s \in Symbols : live[s] <= live'[s]
  BY <1>a
<1>c. Len(<<>>) = 0
  BY EmptySeq
<1>d. \A i \in 1..Len(queue) : queue[i].open_time \in Int
  BY <1>a, EventTimes
<1>1. CASE HandleKline
  <2> DEFINE e == Head(queue)
  <2>1. /\ queue # <<>> /\ queue' = Tail(queue) /\ minute' = minute
        /\ live' = [live EXCEPT ![e.symbol] = e.open_time]
    BY <1>1 DEF HandleKline, WriteKline
  <2>2. e \in KlineEvent /\ e = queue[1] /\ Len(queue) > 0
    BY <1>a, <2>1, EmptySeq, HeadTailProperties
  <2>3. /\ Len(queue') = Len(queue) - 1
        /\ \A i \in 1..Len(queue') : queue'[i] = queue[i + 1]
    BY <1>a, <2>1, HeadTailProperties
  <2>4. e.symbol \in Symbols
    BY <2>2 DEF KlineEvent
  <2>5. \A s \in Symbols : live'[s] \in {live[s], e.open_time}
    BY <2>1, <2>4 DEF TypeOK
  <2>6. 1 \in 1..Len(queue) /\ \A i \in 1..Len(queue') : i + 1 \in 1..Len(queue)
    BY <1>a, <2>2, <2>3
  <2>7. /\ e.open_time \in Int /\ e.open_time <= minute
        /\ \A s \in Symbols : live[s] <= e.open_time
    <3>1. queue[1].open_time \in Int
      BY <1>d, <2>6
    <3>2. \A s \in Symbols : live[s] <= queue[1].open_time
      BY <2>6 DEF LiveInv, Within
    <3>3. 1 \in Symbols
      BY IngestionAssumption DEF Symbols
    <3>4. queue[1].open_time <= minute
      BY <2>6, <3>3 DEF LiveInv, Within
    <3> QED
      BY <2>2, <3>1, <3>2, <3>4
  <2>8. \A s \in Symbols : live'[s] <= minute' /\ live[s] <= live'[s]
    BY <1>a, <2>1, <2>5, <2>7 DEF LiveInv
  <2>9. Sorted(queue')
    <3> SUFFICES ASSUME NEW i \in 1..Len(queue'), NEW j \in 1..Len(queue'), i <= j
                 PROVE  queue'[i].open_time <= queue'[j].open_time
      BY DEF Sorted
    <3>1. i + 1 \in 1..Len(queue) /\ j + 1 \in 1..Len(queue) /\ i + 1 <= j + 1
      BY <2>6
    <3> QED
      BY <2>3, <3>1 DEF LiveInv, Sorted
  <2>10. \A s \in Symbols : Within(queue', live'[s], minute')
    <3> SUFFICES ASSUME NEW s \in Symbols, NEW i \in 1..Len(queue')
                 PROVE  /\ live'[s] <= queue'[i].open_time
                        /\ queue'[i].open_time <= minute'
      BY DEF Within
    <3>1. queue'[i] = queue[i + 1] /\ i + 1 \in 1..Len(queue) /\ 1 <= i + 1
      BY <2>3, <2>6
    <3>2. e.open_time <= queue[i + 1].open_time
      BY <2>2, <2>6, <3>1 DEF LiveInv, Sorted
    <3>3. live[s] <= queue[i + 1].open_time /\ queue[i + 1].open_time <= minute
      BY <3>1 DEF LiveInv, Within
    <3> QED
      BY <2>1, <2>5, <3>1, <3>2, <3>3
  <2> QED
    BY <2>8, <2>9, <2>10 DEF LiveInv
<1>2. CASE Tick
  <2>1. /\ UNCHANGED live /\ minute' = minute + 1
        /\ queue' = IF link = "up" THEN queue \o ClosingKlines(minute) ELSE queue
    BY <1>2 DEF Tick
  <2>2. /\ ClosingKlines(minute) \in Seq(KlineEvent)
        /\ \A i \in 1..Len(ClosingKlines(minute)) :
             ClosingKlines(minute)[i].open_time = minute
    <3>1. \A i \in 1..NumSymbols : ClosingKlines(minute)[i].open_time = minute
      <4>1. \A s \in Symbols : ClosingKlines(minute)[s] = Event(s, minute, TRUE)
        BY <1>a, ClosingKlinesSeq
      <4>2. \A s \in Symbols : Event(s, minute, TRUE).open_time = minute
        BY DEF Event
      <4> QED
        BY <4>1, <4>2 DEF Symbols
    <3> QED
      BY <1>a, <3>1, ClosingKlinesSeq
  <2>3. Sorted(queue') /\ \A s \in Symbols : Within(queue', live[s], minute)
    <3>1. CASE link = "up"
      <4>1. queue' = queue \o ClosingKlines(minute)
        BY <2>1, <3>1
      <4>2. 1 \in Symbols
        BY IngestionAssumption DEF Symbols
      <4> QED
        BY <1>a, <2>2, <4>1, <4>2, Enqueue DEF LiveInv
    <3>2. CASE link # "up"
      BY <2>1, <3>2 DEF LiveInv
    <3> QED
      BY <3>1, <3>2
  <2>4. queue' \in Seq(KlineEvent)
    BY NextTypeOK DEF TypeOK
  <2>5. \A s \in Symbols : Within(queue', live'[s], minute')
    <3> SUFFICES ASSUME NEW s \in Symbols, NEW i \in 1..Len(queue')
                 PROVE  live'[s] <= queue'[i].open_time
                        /\ queue'[i].open_time <= minute'
      BY DEF Within
    <3>1. live[s] <= queue'[i].open_time /\ queue'[i].open_time <= minute
      BY <2>3 DEF Within
    <3>2. queue'[i].open_time \in Int
      BY <2>4, EventTimes
    <3> QED
      BY <1>a, <2>1, <3>1, <3>2
  <2>6. \A s \in Symbols : live'[s] <= minute'
    BY <1>a, <2>1 DEF LiveInv
  <2> QED
    BY <1>b, <2>1, <2>3, <2>5, <2>6 DEF LiveInv
<1>3. ASSUME NEW s \in Symbols, Forming(s)
      PROVE  LiveInv' /\ \A r \in Symbols : live[r] <= live'[r]
  <2> DEFINE e == Event(s, minute, FALSE)
  <2>1. UNCHANGED <<live, minute>> /\ queue' = Append(queue, e)
    BY <1>3 DEF Forming
  <2>2. e \in KlineEvent /\ e.open_time = minute
    BY <1>a DEF Event, KlineEvent
  <2> HIDE DEF e
  <2>3. <<e>> \in Seq(KlineEvent) /\ queue' = queue \o <<e>>
    BY <1>a, <2>1, <2>2, AppendIsConcat
  <2>4. \A i \in 1..Len(<<e>>) : <<e>>[i].open_time = minute
    BY <2>2
  <2>5. Sorted(queue') /\ \A r \in Symbols : Within(queue', live[r], minute)
    BY <1>3, <1>a, <2>3, <2>4, Enqueue DEF LiveInv
  <2> QED
    BY <1>b, <2>1, <2>5 DEF LiveInv
<1>4. CASE Drop
  <2>1. UNCHANGED <<live, minute>>
    BY <1>4 DEF Drop
  <2> QED
    BY <1>4, <1>b, <2>1, DropKeeps DEF LiveInv, Sorted, Within
<1>5. CASE \/ SyncFails \/ HandlerFails \/ HookFails
           \/ Shutdown \/ Crash
  <2>1. UNCHANGED <<live, minute>> /\ queue' \in {queue, <<>>}
    BY <1>5 DEF SyncFails, HandlerFails, HookFails, Shutdown, Crash,
                CloseSocket
  <2> QED
    BY <1>b, <1>c, <2>1 DEF LiveInv, Sorted, Within
<1>6. CASE \/ SyncQuery \/ SyncFetch \/ SyncCommit \/ Accept \/ Connected \/ Mark
           \/ StreamEnds \/ Hook \/ Wake \/ Start \/ UNCHANGED vars
  <2>1. UNCHANGED <<live, minute, queue>>
    BY <1>6 DEF SyncQuery, SyncFetch, SyncCommit, Accept, Connected, Mark,
                StreamEnds, Hook, Wake, Start, vars
  <2> QED
    BY <1>b, <2>1 DEF LiveInv
<1> QED
  BY <1>1, <1>2, <1>3, <1>4, <1>5, <1>6 DEF Next, Pipeline, Faulty

\* Subscribers see each symbol's klines in time order over any number of
\* reconnections and restarts, whatever prefix of the stream a drop leaves.
THEOREM LiveIsMonotonic == Spec => LiveNeverGoesBack
<1>1. Init => LiveInv
  BY InitLive
<1>2. TypeOK /\ LiveInv /\ [Next]_vars =>
        [\A s \in Symbols : live[s] <= live'[s]]_vars
  BY NextLive
<1>3. TypeOK /\ LiveInv /\ [Next]_vars => LiveInv'
  BY NextLive
<1> QED
  BY <1>1, <1>2, <1>3, InitTypeOK, NextTypeOK, PTL DEF Spec, LiveNeverGoesBack
-----------------------------------------------------------------------------
(* NoNewHole, CaughtUp and StatsSpanDay.  From the minute of sync's `now' on,*)
(* every minute of a connection is stored or has its closing kline in the queue, so that  *)
(* what the stream adds is next to what the sync has written.                *)

Resyncing ==
  pc \in {"sync_query", "sync_fetch", "sync_commit"} /\ caller = "handle_connected"

\* The task is in handle_connected or reads the stream.
InConnection == Resyncing \/ pc \in {"mark", "stream"}

\* Outside a connection there is no socket.
Quiet == ~InConnection /\ ~Accepted => link = "down" /\ queue = <<>>

\* Nothing stored is newer than the clock, or than the sync that runs.
Past ==
  /\ now <= minute
  /\ \A s \in Symbols : \A m \in Stored(s) : m <= minute /\ (Resyncing => m <= now)

\* A connection was taken up at most one minute after it was accepted.
Recent ==
  \A i \in 1..Len(queue) :
    /\ InConnection => now - 1 <= queue[i].open_time
    /\ Accepted => minute - 1 <= queue[i].open_time

Queued(e) == \E i \in 1..Len(queue) : queue[i] = e

\* A kline of a past minute is followed by the closing one.
Closing ==
  link = "up" => \A i \in 1..Len(queue) :
    queue[i].open_time < minute =>
      \E j \in i..Len(queue) :
        queue[j] = Event(queue[i].symbol, queue[i].open_time, TRUE)

Followed(s, m) == Queued(Event(s, m, TRUE)) \/ (pc = "stream" /\ m \in Stored(s))

\* No minute since `now' is left out of the stream.
Chain ==
  InConnection => \A s \in Symbols : \A m \in now..(minute - 1) :
    /\ link = "up" => Followed(s, m)
    /\ \A i \in 1..Len(queue) :
         queue[i].symbol = s /\ m < queue[i].open_time => Followed(s, m)

\* What the sync of a symbol is about to write.
Gap ==
  /\ pc \in {"sync_fetch", "sync_commit"} => GapStart(sym, now, start[sym])
  /\ pc = "sync_fetch" => start[sym] < now
  /\ pc = "sync_commit" =>
       \/ start[sym] >= now /\ batch = NoRows
       \/ /\ start[sym] < now
          /\ \E last \in {now - 1, now} : DOMAIN batch = start[sym]..last
          /\ \A m \in DOMAIN batch : batch[m].is_closed = (m < now)

\* The connection began with a sync that is done with s.
Synced(s) == resynced /\ (pc \in {"mark", "stream"} \/ (Resyncing /\ s < sym))

\* The stored minutes have all from first to the minute where the stream takes over.
Filled(stored, first, end) ==
  /\ first <= end /\ \E k \in {end - 1, end} : k \in stored
  /\ first..(end - 1) \subseteq stored

Reaches == \A s \in Symbols : Synced(s) => Filled(Stored(s), start[s], now)

\* What is stored of the filled gap is closed, or its closing kline is on its way.
Closes ==
  \A s \in Symbols : Synced(s) /\ link = "up" =>
    \A m \in Stored(s) :
      start[s] <= m /\ m < minute => candles[s][m].is_closed \/ Queued(Event(s, m, TRUE))

StreamInv == TypeOK /\ LiveInv /\ Quiet /\ Past /\ Recent /\ Closing /\ Chain /\ Gap

CatchUpInv == StreamInv /\ Reaches /\ Closes

\* What is true of the integers of a state.
LEMMA Numbers ==
  ASSUME TypeOK
  PROVE  /\ minute \in Int /\ now \in Int /\ sym \in Symbols /\ sym \in Int
         /\ \A s \in Symbols : start[s] \in Int /\ Stored(s) \subseteq Minutes
         /\ Minutes \subseteq Int /\ Symbols \subseteq Int
         /\ queue \in Seq(KlineEvent) /\ Len(queue) \in Nat
         /\ \A i \in 1..Len(queue) : /\ queue[i] \in KlineEvent
                                     /\ queue[i].open_time \in Int
                                     /\ queue[i].symbol \in Symbols
<1>1. /\ minute \in Int /\ now \in Int /\ sym \in Symbols
      /\ Minutes \subseteq Int /\ Symbols \subseteq Int
  BY DEF TypeOK, Minutes, Symbols
<1>2. \A s \in Symbols : start[s] \in Int /\ Stored(s) \subseteq Minutes
  BY <1>1, TableRows DEF TypeOK, Stored
<1>3. queue \in Seq(KlineEvent) /\ Len(queue) \in Nat
  BY LenProperties DEF TypeOK
<1>4. \A i \in 1..Len(queue) : queue[i] \in KlineEvent
  BY <1>3, ElementOfSeq
<1>5. \A e \in KlineEvent : e.open_time \in Int /\ e.symbol \in Symbols
  BY <1>1 DEF KlineEvent
<1> QED
  BY <1>1, <1>2, <1>3, <1>4, <1>5

\* What a commit of sync stores.
LEMMA CommitRows ==
  ASSUME TypeOK, SyncCommit
  PROVE  /\ \A s \in Symbols \ {sym} : candles'[s] = candles[s]
         /\ DOMAIN candles'[sym] = Stored(sym) \cup DOMAIN batch
         /\ \A m \in Stored(sym) \cup DOMAIN batch :
              candles'[sym][m] = IF m \in DOMAIN batch THEN batch[m] ELSE candles[sym][m]
<1>1. /\ candles[sym] \in Table /\ batch \in Table /\ sym \in Symbols
      /\ candles' = [candles EXCEPT ![sym] = Upsert(candles[sym], batch)]
      /\ DOMAIN candles = Symbols
  BY DEF SyncCommit, TypeOK
<1>2. candles'[sym] = Upsert(candles[sym], batch)
  BY <1>1
<1>3. /\ DOMAIN candles'[sym] = DOMAIN candles[sym] \cup DOMAIN batch
      /\ \A m \in DOMAIN candles[sym] \cup DOMAIN batch :
           candles'[sym][m] = IF m \in DOMAIN batch THEN batch[m] ELSE candles[sym][m]
  BY <1>1, <1>2, UpsertTable, Zenon
<1>4. \A s \in Symbols \ {sym} : candles'[s] = candles[s]
  BY <1>1
<1> QED
  BY <1>3, <1>4 DEF Stored

\* What handling a kline stores and leaves in the queue.
LEMMA KlineRows ==
  ASSUME TypeOK, HandleKline
  PROVE  LET e == queue[1] IN
         /\ 1 \in 1..Len(queue) /\ e \in KlineEvent
         /\ \A s \in Symbols \ {e.symbol} : candles'[s] = candles[s]
         /\ DOMAIN candles'[e.symbol] = Stored(e.symbol) \cup {e.open_time}
         /\ candles'[e.symbol][e.open_time].is_closed = e.is_closed
         /\ \A m \in Stored(e.symbol) :
              m # e.open_time => candles'[e.symbol][m] = candles[e.symbol][m]
         /\ Len(queue') = Len(queue) - 1
         /\ \A i \in 1..Len(queue') : queue'[i] = queue[i + 1] /\ i + 1 \in 1..Len(queue)
<1> DEFINE e == queue[1]
           row == [m \in {e.open_time} |-> [final |-> e.final, is_closed |-> e.is_closed]]
<1>1. /\ queue \in Seq(KlineEvent) /\ queue # <<>> /\ queue' = Tail(queue)
      /\ Len(queue) \in Nat /\ 1 \in 1..Len(queue) /\ Head(queue) = e
  BY LenProperties, EmptySeq DEF TypeOK, HandleKline
<1>2. e \in KlineEvent
  BY <1>1, ElementOfSeq
<1>3. e.symbol \in Symbols /\ e.open_time \in Minutes
      /\ [final |-> e.final, is_closed |-> e.is_closed] \in Candle
  BY <1>2 DEF KlineEvent, Candle
<1>4. row \in Table
  <2>1. row \in [{e.open_time} -> Candle] /\ {e.open_time} \in SUBSET Minutes
    BY <1>3
  <2> QED
    BY <2>1, IsTable
<1>5. candles' = [candles EXCEPT ![e.symbol] = Upsert(candles[e.symbol], row)]
  BY <1>1 DEF HandleKline, WriteKline
<1>6. DOMAIN row = {e.open_time} /\ row[e.open_time].is_closed = e.is_closed
  OBVIOUS
<1>7. candles[e.symbol] \in Table /\ DOMAIN candles = Symbols
  BY <1>3 DEF TypeOK
<1>8. /\ Len(queue') = Len(queue) - 1
      /\ \A i \in 1..Len(queue') : queue'[i] = queue[i + 1] /\ i + 1 \in 1..Len(queue)
  BY <1>1, HeadTailProperties
<1> HIDE DEF e, row
<1>9. candles'[e.symbol] = Upsert(candles[e.symbol], row)
  BY <1>3, <1>5, <1>7
<1>10. /\ DOMAIN candles'[e.symbol] = Stored(e.symbol) \cup {e.open_time}
       /\ candles'[e.symbol][e.open_time].is_closed = e.is_closed
       /\ \A m \in Stored(e.symbol) :
            m # e.open_time => candles'[e.symbol][m] = candles[e.symbol][m]
  <2>1. /\ DOMAIN candles'[e.symbol] = DOMAIN candles[e.symbol] \cup DOMAIN row
        /\ \A m \in DOMAIN candles[e.symbol] \cup DOMAIN row :
             candles'[e.symbol][m] = IF m \in DOMAIN row THEN row[m] ELSE candles[e.symbol][m]
    <3> DEFINE t == candles[e.symbol]
               t1 == candles'[e.symbol]
    <3>1. t \in Table /\ t1 = Upsert(t, row)
      BY <1>7, <1>9
    <3> HIDE DEF t, t1
    <3>2. /\ DOMAIN t1 = DOMAIN t \cup DOMAIN row
          /\ \A m \in DOMAIN t \cup DOMAIN row :
               t1[m] = IF m \in DOMAIN row THEN row[m] ELSE t[m]
      BY <1>4, <3>1, UpsertTable, Zenon
    <3> QED
      BY <3>2 DEF t, t1
  <2>2. e.open_time \in DOMAIN row
    BY <1>6
  <2>3. candles'[e.symbol][e.open_time] = row[e.open_time]
    BY <2>1, <2>2, Zenon
  <2>4. \A m \in DOMAIN candles[e.symbol] : m # e.open_time =>
          candles'[e.symbol][m] = candles[e.symbol][m]
    BY <1>6, <2>1
  <2> QED
    BY <1>6, <2>1, <2>3, <2>4 DEF Stored
<1>11. \A s \in Symbols \ {e.symbol} : candles'[s] = candles[s]
  BY <1>5, <1>7
<1> QED
  BY <1>1, <1>2, <1>8, <1>10, <1>11 DEF e

\* What the stream appends: events of the current minute, at the end of a minute
\* the closing one of every symbol.
LEMMA StreamSends ==
  ASSUME TypeOK, Tick \/ \E s \in Symbols : Forming(s)
  PROVE  /\ \A i \in 1..Len(queue) : i \in 1..Len(queue') /\ queue'[i] = queue[i]
         /\ \A i \in 1..Len(queue') :
              i \in 1..Len(queue) \/ (link = "up" /\ queue'[i].open_time = minute)
         /\ link = "down" => queue' = queue
         /\ Tick => \A i \in 1..Len(queue') : i \notin 1..Len(queue) =>
                      \E s \in Symbols : queue'[i] = Event(s, minute, TRUE)
         /\ Tick /\ link = "up" => \A s \in Symbols :
              \E i \in 1..Len(queue') :
                i \notin 1..Len(queue) /\ queue'[i] = Event(s, minute, TRUE)
<1>n. queue \in Seq(KlineEvent) /\ Len(queue) \in Nat /\ minute \in Minutes
  BY LenProperties DEF TypeOK
<1>e. \A s \in Symbols, c \in BOOLEAN : /\ Event(s, minute, c) \in KlineEvent
                                        /\ Event(s, minute, c).open_time = minute
  BY <1>n DEF Event, KlineEvent
<1>1. CASE queue' = queue
  <2>1. ASSUME Tick, link = "up" PROVE FALSE
    <3>1. queue' = queue \o ClosingKlines(minute)
      BY <2>1 DEF Tick
    <3>2. ClosingKlines(minute) \in Seq(KlineEvent) /\ Len(ClosingKlines(minute)) = NumSymbols
      BY <1>n, ClosingKlinesSeq
    <3>3. Len(queue') = Len(queue) + NumSymbols
      BY <1>n, <3>1, <3>2, ConcatProperties
    <3> QED
      BY <1>1, <1>n, <3>3, IngestionAssumption
  <2> QED
    BY <1>1, <2>1
<1>2. ASSUME Tick, link = "up", queue' = queue \o ClosingKlines(minute)
      PROVE  /\ \A i \in 1..Len(queue) : i \in 1..Len(queue') /\ queue'[i] = queue[i]
             /\ \A i \in 1..Len(queue') : i \notin 1..Len(queue) =>
                  \E s \in Symbols : queue'[i] = Event(s, minute, TRUE)
             /\ \A s \in Symbols :
                  \E i \in 1..Len(queue') :
                    i \notin 1..Len(queue) /\ queue'[i] = Event(s, minute, TRUE)
  <2>1. /\ ClosingKlines(minute) \in Seq(KlineEvent)
        /\ Len(ClosingKlines(minute)) = NumSymbols /\ NumSymbols \in Nat
        /\ \A s \in Symbols : ClosingKlines(minute)[s] = Event(s, minute, TRUE)
    BY <1>n, ClosingKlinesSeq, IngestionAssumption
  <2>2. /\ Len(queue') = Len(queue) + NumSymbols
        /\ \A i \in 1..(Len(queue) + NumSymbols) :
             queue'[i] = IF i <= Len(queue) THEN queue[i]
                         ELSE ClosingKlines(minute)[i - Len(queue)]
    BY <1>n, <1>2, <2>1, ConcatProperties
  <2>3. ASSUME NEW i \in 1..Len(queue'), i \notin 1..Len(queue)
        PROVE  \E s \in Symbols : queue'[i] = Event(s, minute, TRUE)
    <3>1. i - Len(queue) \in Symbols /\ ~(i <= Len(queue))
      BY <1>n, <2>1, <2>2, <2>3 DEF Symbols
    <3> QED
      BY <2>1, <2>2, <3>1
  <2>4. ASSUME NEW s \in Symbols
        PROVE  \E i \in 1..Len(queue') :
                 i \notin 1..Len(queue) /\ queue'[i] = Event(s, minute, TRUE)
    <3>1. /\ Len(queue) + s \in 1..Len(queue') /\ ~(Len(queue) + s <= Len(queue))
          /\ Len(queue) + s \notin 1..Len(queue)
          /\ (Len(queue) + s) - Len(queue) = s
      BY <1>n, <2>1, <2>2 DEF Symbols
    <3>2. queue'[Len(queue) + s] = Event(s, minute, TRUE)
      BY <2>1, <2>2, <3>1
    <3> QED
      BY <3>1, <3>2
  <2>5. \A i \in 1..Len(queue) : i \in 1..Len(queue') /\ queue'[i] = queue[i]
    BY <1>n, <2>1, <2>2
  <2> QED
    BY <2>3, <2>4, <2>5
<1>3. ASSUME NEW s \in Symbols, Forming(s)
      PROVE  /\ \A i \in 1..Len(queue) : i \in 1..Len(queue') /\ queue'[i] = queue[i]
             /\ \A i \in 1..Len(queue') :
                  i \in 1..Len(queue) \/ queue'[i] = Event(s, minute, FALSE)
             /\ link = "up"
  <2>1. queue' = Append(queue, Event(s, minute, FALSE)) /\ link = "up"
    BY <1>3 DEF Forming
  <2>2. Event(s, minute, FALSE) \in KlineEvent
    BY <1>e
  <2>3. /\ Len(queue') = Len(queue) + 1
        /\ \A i \in 1..Len(queue) : queue'[i] = queue[i]
        /\ queue'[Len(queue) + 1] = Event(s, minute, FALSE)
    <3> DEFINE e == Event(s, minute, FALSE)
    <3>1. queue \in Seq(KlineEvent) /\ e \in KlineEvent /\ queue' = Append(queue, e)
      BY <1>n, <2>1, <2>2
    <3> HIDE DEF e
    <3>2. /\ Len(queue') = Len(queue) + 1 /\ queue'[Len(queue) + 1] = e
          /\ \A i \in 1..Len(queue) : queue'[i] = queue[i]
      BY <3>1, AppendProperties
    <3> QED
      BY <3>2 DEF e
  <2>4. \A i \in 1..Len(queue') : i \in 1..Len(queue) \/ i = Len(queue) + 1
    BY <1>n, <2>3
  <2>5. \A i \in 1..Len(queue) : i \in 1..Len(queue')
    BY <1>n, <2>3
  <2> QED
    BY <2>1, <2>3, <2>4, <2>5
<1>4. CASE Tick
  <2>1. queue' = IF link = "up" THEN queue \o ClosingKlines(minute) ELSE queue
    BY <1>4 DEF Tick
  <2> QED
    BY <1>1, <1>2, <1>4, <1>e, <2>1
<1>5. CASE \E s \in Symbols : Forming(s)
  <2>1. PICK s \in Symbols : Forming(s)
    BY <1>5
  <2>2. ~Tick
    <3>1. minute' = minute /\ minute \in Int
      BY <1>n, <2>1 DEF Forming, Minutes
    <3> QED
      BY <3>1 DEF Tick
  <2> QED
    BY <1>3, <1>e, <2>1, <2>2
<1> QED
  BY <1>4, <1>5

\* The stream closes every minute that ends while it is connected.
LEMMA StreamClosing ==
  ASSUME TypeOK, Tick, link = "up", NEW s \in Symbols
  PROVE  \E i \in 1..Len(queue') : queue'[i] = Event(s, minute, TRUE)
BY StreamSends

\* The steps after which the task has no connection leave nothing to read.
LEMMA Disconnecting ==
  ASSUME TypeOK, Quiet,
         \/ Accept \/ StreamEnds \/ Hook \/ Wake \/ Start \/ SyncFails
         \/ HandlerFails \/ HookFails \/ Shutdown \/ Crash
  PROVE  /\ ~InConnection' /\ queue' = <<>> /\ (link' = "down" \/ Accepted')
         /\ pc' \notin {"mark", "stream", "sync_fetch", "sync_commit"}
         /\ ~Resyncing'
         /\ UNCHANGED <<minute, candles, now, start, batch>>
<1> USE DEF exchange, tables, control, task, sync, bus, InConnection, Resyncing,
            Accepted, Quiet
<1>1. CASE Accept \/ Wake \/ Start
  BY <1>1 DEF Accept, Wake, Start
<1>2. CASE StreamEnds \/ HandlerFails
  BY <1>2 DEF StreamEnds, HandlerFails, FinallyHook, CloseSocket
<1>3. CASE Hook \/ HookFails
  BY <1>3 DEF Hook, HookFails, LeaveHook, TypeOK
<1>4. CASE SyncFails
  BY <1>4 DEF SyncFails, FinallyHook, NextSymbol, CloseSocket, TypeOK
<1>5. CASE Shutdown \/ Crash
  BY <1>5 DEF Shutdown, Crash, CloseSocket
<1> QED
  BY <1>1, <1>2, <1>3, <1>4, <1>5

LEMMA NextQuiet == TypeOK /\ Quiet /\ [Next]_vars => Quiet'
<1> SUFFICES ASSUME TypeOK, Quiet, [Next]_vars PROVE Quiet'
  OBVIOUS
<1> USE DEF exchange, tables, control, task, sync, InConnection, Resyncing,
            Accepted, Quiet
<1>1. CASE SyncQuery \/ SyncFetch
  BY <1>1 DEF SyncQuery, SyncFetch
<1>2. CASE SyncCommit
  BY <1>2 DEF SyncCommit, NextSymbol, TypeOK
<1>3. CASE Connected \/ Mark \/ HandleKline
  BY <1>3 DEF Connected, Mark, HandleKline
<1>4. CASE Drop \/ Tick \/ UNCHANGED vars
  BY <1>4 DEF Drop, Tick, vars
<1>5. CASE \E s \in Symbols : Forming(s)
  BY <1>5 DEF Forming
<1>6. CASE \/ Accept \/ StreamEnds \/ Hook \/ Wake \/ Start \/ SyncFails
           \/ HandlerFails \/ HookFails \/ Shutdown \/ Crash
  BY <1>6, Disconnecting
<1> QED
  BY <1>1, <1>2, <1>3, <1>4, <1>5, <1>6 DEF Next, Pipeline, Faulty

\* The newest candle of a gap is not newer than the sync's `now'.
LEMMA GapBatch ==
  ASSUME TypeOK, Gap, pc = "sync_commit"
  PROVE  \A m \in DOMAIN batch : m \in Int /\ start[sym] <= m /\ m <= now
<1>1. now \in Int /\ start[sym] \in Int
  BY Numbers
<1>2. CASE batch = NoRows
  BY <1>2, NoRowsTable
<1>3. ASSUME NEW last \in {now - 1, now}, DOMAIN batch = start[sym]..last
      PROVE  \A m \in DOMAIN batch : m \in Int /\ start[sym] <= m /\ m <= now
  BY <1>1, <1>3
<1> QED
  BY <1>2, <1>3 DEF Gap

LEMMA NextPast == StreamInv /\ [Next]_vars => Past'
<1> SUFFICES ASSUME StreamInv, [Next]_vars PROVE Past'
  OBVIOUS
<1> USE DEF exchange, tables, control, task, sync, Resyncing
<1>a. /\ TypeOK /\ minute \in Int /\ now \in Int /\ now <= minute
      /\ \A s \in Symbols : \A m \in Stored(s) :
           m \in Int /\ m <= minute /\ (Resyncing => m <= now)
  BY Numbers DEF StreamInv, Past
<1>1. CASE SyncQuery
  <2>1. /\ UNCHANGED <<minute, candles, caller>> /\ pc = "sync_query"
        /\ now' = IF caller = "initial_backfill" THEN minute ELSE now
    BY <1>1 DEF SyncQuery
  <2> QED
    BY <1>a, <2>1 DEF Past, Stored
<1>2. CASE SyncCommit
  <2>1. /\ UNCHANGED <<minute, now, caller>> /\ pc = "sync_commit"
    BY <1>2 DEF SyncCommit
  <2>2. \A m \in DOMAIN batch : m \in Int /\ m <= now
    BY <1>a, <2>1, GapBatch DEF StreamInv
  <2>3. \A s \in Symbols : \A m \in DOMAIN candles'[s] :
          m \in Stored(s) \/ m \in DOMAIN batch
    BY <1>2, <1>a, CommitRows DEF Stored
  <2>4. \A s \in Symbols : \A m \in DOMAIN candles'[s] :
          m <= minute /\ (Resyncing => m <= now)
    BY <1>a, <2>2, <2>3
  <2>5. Resyncing' => Resyncing
    BY <2>1
  <2> QED
    BY <1>a, <2>1, <2>4, <2>5 DEF Past, Stored
<1>3. CASE HandleKline
  <2>1. UNCHANGED <<minute, now>> /\ pc' = "stream"
    BY <1>3 DEF HandleKline
  <2>2. /\ 1 \in 1..Len(queue) /\ queue[1].symbol \in Symbols
        /\ \A s \in Symbols \ {queue[1].symbol} : candles'[s] = candles[s]
        /\ DOMAIN candles'[queue[1].symbol] =
             Stored(queue[1].symbol) \cup {queue[1].open_time}
    BY <1>3, <1>a, KlineRows DEF KlineEvent
  <2>3. queue[1].open_time <= minute
    BY <2>2 DEF StreamInv, LiveInv, Within
  <2>4. \A s \in Symbols : \A m \in DOMAIN candles'[s] :
          m \in Stored(s) \/ m = queue[1].open_time
    BY <2>2 DEF Stored
  <2>5. \A s \in Symbols : \A m \in DOMAIN candles'[s] : m <= minute
    BY <1>a, <2>3, <2>4
  <2> QED
    BY <1>a, <2>1, <2>5 DEF Past, Stored
<1>4. CASE Connected
  BY <1>4, <1>a DEF Connected, Past, Stored
<1>5. CASE Tick
  BY <1>5, <1>a DEF Tick, Past, Stored
<1>6. CASE SyncFetch \/ Drop \/ UNCHANGED vars
  BY <1>6, <1>a DEF SyncFetch, Drop, vars, Past, Stored
<1>7. CASE \E s \in Symbols : Forming(s)
  BY <1>7, <1>a DEF Forming, Past, Stored
<1>8. CASE Mark
  BY <1>8, <1>a DEF Mark, Past, Stored
<1>9. CASE \/ Accept \/ StreamEnds \/ Hook \/ Wake \/ Start \/ SyncFails
           \/ HandlerFails \/ HookFails \/ Shutdown \/ Crash
  <2>1. ~Resyncing' /\ UNCHANGED <<minute, candles, now>>
    BY <1>9, <1>a, Disconnecting DEF StreamInv
  <2> QED
    BY <1>a, <2>1 DEF Past, Stored
<1> QED
  BY <1>1, <1>2, <1>3, <1>4, <1>5, <1>6, <1>7, <1>8, <1>9 DEF Next, Pipeline, Faulty

LEMMA NextRecent == StreamInv /\ [Next]_vars => Recent'
<1> SUFFICES ASSUME StreamInv, [Next]_vars PROVE Recent'
  OBVIOUS
<1> USE DEF exchange, tables, control, task, sync, InConnection, Resyncing, Accepted
<1>a. /\ TypeOK /\ minute \in Int /\ now \in Int /\ now <= minute
      /\ \A i \in 1..Len(queue) :
           /\ queue[i].open_time \in Int
           /\ InConnection => now - 1 <= queue[i].open_time
           /\ Accepted => minute - 1 <= queue[i].open_time
  BY Numbers DEF StreamInv, Past, Recent
<1>e. queue = <<>> \/ InConnection \/ Accepted
  BY DEF StreamInv, Quiet
<1>n. Len(<<>>) = 0
  BY EmptySeq
<1>1. CASE SyncQuery
  BY <1>1, <1>a DEF SyncQuery, Recent
<1>2. CASE SyncFetch
  BY <1>2, <1>a DEF SyncFetch, Recent
<1>3. CASE SyncCommit
  <2>1. /\ UNCHANGED <<queue, now, minute, caller>> /\ pc = "sync_commit"
        /\ pc' = "connect" => caller = "initial_backfill"
        /\ InConnection' => InConnection
    BY <1>3, <1>a DEF SyncCommit, NextSymbol, TypeOK
  <2>2. pc' = "connect" => queue' = <<>>
    BY <1>e, <2>1
  <2> QED
    BY <1>a, <1>n, <2>1, <2>2 DEF Recent
<1>4. CASE Connected
  BY <1>4, <1>a DEF Connected, Recent
<1>5. CASE Mark
  BY <1>5, <1>a DEF Mark, Recent
<1>6. CASE HandleKline
  <2>1. \A i \in 1..Len(queue') : queue'[i] = queue[i + 1] /\ i + 1 \in 1..Len(queue)
    BY <1>6, <1>a, KlineRows
  <2>2. UNCHANGED <<pc, now, minute>> /\ pc = "stream"
    BY <1>6 DEF HandleKline
  <2> QED
    BY <1>a, <2>1, <2>2 DEF Recent
<1>7. CASE Drop
  <2>1. UNCHANGED <<pc, caller, now, minute>> /\ link' = "down"
    BY <1>7 DEF Drop
  <2>2. \A i \in 1..Len(queue') : queue'[i] = queue[i] /\ i \in 1..Len(queue)
    BY <1>7, <1>a, DropKeeps
  <2> QED
    BY <1>a, <2>1, <2>2 DEF Recent
<1>8. CASE Tick
  <2>1. /\ UNCHANGED <<pc, caller, now, link>> /\ minute' = minute + 1
        /\ Accepted => \A i \in DOMAIN queue : queue[i].open_time = minute
        /\ DOMAIN queue = 1..Len(queue)
    BY <1>8, <1>a, LenProperties DEF Tick, TypeOK
  <2>2. /\ \A i \in 1..Len(queue) : queue'[i] = queue[i]
        /\ \A i \in 1..Len(queue') : i \in 1..Len(queue) \/ queue'[i].open_time = minute
    BY <1>8, <1>a, StreamSends
  <2> QED
    BY <1>a, <2>1, <2>2 DEF Recent
<1>9. CASE \E s \in Symbols : Forming(s)
  <2>1. UNCHANGED <<pc, caller, now, link, minute>>
    BY <1>9 DEF Forming
  <2>2. /\ \A i \in 1..Len(queue) : queue'[i] = queue[i]
        /\ \A i \in 1..Len(queue') : i \in 1..Len(queue) \/ queue'[i].open_time = minute
    BY <1>9, <1>a, StreamSends
  <2> QED
    BY <1>a, <2>1, <2>2 DEF Recent
<1>10. CASE UNCHANGED vars
  BY <1>10, <1>a DEF vars, Recent
<1>11. CASE \/ Accept \/ StreamEnds \/ Hook \/ Wake \/ Start \/ SyncFails
            \/ HandlerFails \/ HookFails \/ Shutdown \/ Crash
  <2>1. queue' = <<>>
    BY <1>11, <1>a, Disconnecting DEF StreamInv
  <2> QED
    BY <1>n, <2>1 DEF Recent
<1> QED
  BY <1>1, <1>2, <1>3, <1>4, <1>5, <1>6, <1>7, <1>8, <1>9, <1>10, <1>11
     DEF Next, Pipeline, Faulty

LEMMA NextClosing == StreamInv /\ [Next]_vars => Closing'
<1> SUFFICES ASSUME StreamInv, [Next]_vars, link' = "up", NEW i \in 1..Len(queue'),
                    queue'[i].open_time < minute'
             PROVE  \E j \in i..Len(queue') :
                      queue'[j] = Event(queue'[i].symbol, queue'[i].open_time, TRUE)
  BY DEF Closing
<1> USE DEF exchange, tables, control, task, sync
<1>a. /\ TypeOK /\ minute \in Int /\ Len(queue) \in Nat
      /\ \A k \in 1..Len(queue) : /\ queue[k].open_time \in Int
                                  /\ queue[k].symbol \in Symbols
  BY Numbers DEF StreamInv
<1>b. link = "up" => \A k \in 1..Len(queue) : queue[k].open_time < minute =>
        \E j \in k..Len(queue) :
          queue[j] = Event(queue[k].symbol, queue[k].open_time, TRUE)
  BY DEF StreamInv, Closing
<1>c. \A k \in 1..Len(queue) : queue[k].open_time <= minute
  <2>1. 1 \in Symbols
    BY IngestionAssumption DEF Symbols
  <2> QED
    BY <2>1 DEF StreamInv, LiveInv, Within
<1>1. CASE UNCHANGED <<minute, link, queue>>
  BY <1>1, <1>b
<1>2. CASE HandleKline
  <2>1. UNCHANGED <<minute, link>>
    BY <1>2 DEF HandleKline
  <2>2. /\ Len(queue') = Len(queue) - 1
        /\ \A k \in 1..Len(queue') : queue'[k] = queue[k + 1] /\ k + 1 \in 1..Len(queue)
    BY <1>2, <1>a, KlineRows
  <2>3. PICK j \in (i + 1)..Len(queue) :
          queue[j] = Event(queue[i + 1].symbol, queue[i + 1].open_time, TRUE)
    BY <1>b, <2>1, <2>2
  <2>4. j - 1 \in i..Len(queue') /\ j - 1 \in 1..Len(queue') /\ (j - 1) + 1 = j
    BY <1>a, <2>2
  <2>5. queue'[j - 1] = queue[j]
    BY <2>2, <2>4
  <2> QED
    BY <2>2, <2>3, <2>4, <2>5
<1>3. CASE Tick
  <2>1. link = "up" /\ minute' = minute + 1
    BY <1>3 DEF Tick
  <2>2. /\ \A k \in 1..Len(queue) : k \in 1..Len(queue') /\ queue'[k] = queue[k]
        /\ i \notin 1..Len(queue) =>
             \E s \in Symbols : queue'[i] = Event(s, minute, TRUE)
        /\ \A s \in Symbols :
             \E k \in 1..Len(queue') :
               k \notin 1..Len(queue) /\ queue'[k] = Event(s, minute, TRUE)
    BY <1>3, <1>a, <2>1, StreamSends
  <2>n. Len(queue') \in Nat /\ i \in Int
    BY <1>a, NextTypeOK, LenProperties DEF TypeOK
  <2>3. CASE i \in 1..Len(queue) /\ queue[i].open_time < minute
    <3>1. PICK j \in i..Len(queue) :
            queue[j] = Event(queue[i].symbol, queue[i].open_time, TRUE)
      BY <1>b, <2>1, <2>3
    <3>2. j \in 1..Len(queue)
      BY <1>a, <2>3
    <3>3. j \in i..Len(queue')
      BY <2>2, <2>n, <3>1, <3>2
    <3> QED
      BY <2>2, <2>3, <3>1, <3>2, <3>3
  <2>4. CASE i \in 1..Len(queue) /\ queue[i].open_time = minute
    <3>1. PICK k \in 1..Len(queue') :
            k \notin 1..Len(queue) /\ queue'[k] = Event(queue[i].symbol, minute, TRUE)
      BY <1>a, <2>2, <2>4
    <3>2. k \in i..Len(queue')
      BY <1>a, <2>n, <2>4, <3>1
    <3> QED
      BY <2>2, <2>4, <3>1, <3>2
  <2>5. CASE i \notin 1..Len(queue)
    <3>1. PICK s \in Symbols : queue'[i] = Event(s, minute, TRUE)
      BY <2>2, <2>5
    <3>2. queue'[i] = Event(queue'[i].symbol, queue'[i].open_time, TRUE)
      BY <3>1 DEF Event
    <3>3. i \in i..Len(queue')
      BY <2>n
    <3> QED
      BY <3>2, <3>3
  <2>6. i \in 1..Len(queue) =>
          queue[i].open_time < minute \/ queue[i].open_time = minute
    <3> SUFFICES ASSUME i \in 1..Len(queue)
                 PROVE  queue[i].open_time < minute \/ queue[i].open_time = minute
      OBVIOUS
    <3>1. queue[i].open_time \in Int /\ queue[i].open_time <= minute
      BY <1>a, <1>c
    <3> QED
      BY <1>a, <3>1
  <2> QED
    BY <2>3, <2>4, <2>5, <2>6
<1>4. CASE \E s \in Symbols : Forming(s)
  <2>1. UNCHANGED <<minute, link>>
    BY <1>4 DEF Forming
  <2>2. /\ \A k \in 1..Len(queue) : k \in 1..Len(queue') /\ queue'[k] = queue[k]
        /\ i \in 1..Len(queue) \/ queue'[i].open_time = minute
    BY <1>4, <1>a, StreamSends
  <2>n. Len(queue') \in Nat /\ i \in Int
    BY <1>a, NextTypeOK, LenProperties DEF TypeOK
  <2>3. i \in 1..Len(queue)
    BY <1>a, <2>1, <2>2
  <2>4. PICK j \in i..Len(queue) :
          queue[j] = Event(queue[i].symbol, queue[i].open_time, TRUE)
    BY <1>b, <2>1, <2>2, <2>3
  <2>5. j \in 1..Len(queue)
    BY <1>a, <2>3
  <2>6. j \in i..Len(queue')
    BY <2>2, <2>n, <2>4, <2>5
  <2> QED
    BY <2>2, <2>3, <2>4, <2>5, <2>6
<1>5. CASE Drop
  BY <1>5 DEF Drop
<1>6. CASE \/ Accept \/ StreamEnds \/ Hook \/ Wake \/ Start \/ SyncFails
           \/ HandlerFails \/ HookFails \/ Shutdown \/ Crash
  <2>1. queue' = <<>>
    BY <1>6, <1>a, Disconnecting DEF StreamInv
  <2> QED
    BY <2>1, EmptySeq
<1>7. CASE \/ SyncQuery \/ SyncFetch \/ SyncCommit \/ Connected \/ Mark
           \/ UNCHANGED vars
  BY <1>1, <1>7 DEF SyncQuery, SyncFetch, SyncCommit, Connected, Mark, vars
<1> QED
  BY <1>2, <1>3, <1>4, <1>5, <1>6, <1>7 DEF Next, Pipeline, Faulty

\* What waits stays in the queue until it is handled.
LEMMA StreamQueued ==
  ASSUME TypeOK, Tick \/ \E s \in Symbols : Forming(s), NEW e, Queued(e)
  PROVE  Queued(e)'
BY StreamSends DEF Queued

LEMMA HandleQueued ==
  ASSUME TypeOK, HandleKline, NEW e, Queued(e), e # queue[1]
  PROVE  Queued(e)'
<1>1. PICK i \in 1..Len(queue) : queue[i] = e
  BY DEF Queued
<1>2. /\ Len(queue') = Len(queue) - 1 /\ Len(queue) \in Nat
      /\ \A k \in 1..Len(queue') : queue'[k] = queue[k + 1]
  BY Numbers, KlineRows
<1>3. i - 1 \in 1..Len(queue') /\ (i - 1) + 1 = i
  BY <1>1, <1>2
<1>4. queue'[i - 1] = e
  BY <1>1, <1>2, <1>3
<1> QED
  BY <1>3, <1>4 DEF Queued

LEMMA NextChain == StreamInv /\ [Next]_vars => Chain'
<1> SUFFICES ASSUME StreamInv, [Next]_vars PROVE Chain'
  OBVIOUS
<1> USE DEF exchange, tables, control, task, sync, InConnection, Resyncing
<1>a. /\ TypeOK /\ minute \in Int /\ now \in Int /\ Len(queue) \in Nat
      /\ \A i \in 1..Len(queue) : /\ queue[i].open_time \in Int
                                  /\ queue[i].symbol \in Symbols
  BY Numbers DEF StreamInv
<1>b. InConnection => \A s \in Symbols : \A m \in now..(minute - 1) :
        /\ link = "up" => Followed(s, m)
        /\ \A i \in 1..Len(queue) :
             queue[i].symbol = s /\ m < queue[i].open_time => Followed(s, m)
  BY DEF StreamInv, Chain
<1>c. \A i \in 1..Len(queue) : queue[i].open_time <= minute
  <2>1. 1 \in Symbols
    BY IngestionAssumption DEF Symbols
  <2> QED
    BY <2>1 DEF StreamInv, LiveInv, Within
<1>1. ASSUME UNCHANGED <<minute, now, link, queue>>, InConnection' => InConnection,
             pc # "stream" \/ (pc' = "stream" /\ UNCHANGED candles)
      PROVE  Chain'
  <2>1. \A s \in Symbols, m \in Int : Followed(s, m) => Followed(s, m)'
    BY <1>1 DEF Followed, Queued, Stored
  <2> QED
    BY <1>1, <1>a, <1>b, <2>1 DEF Chain
<1>2. CASE SyncQuery \/ SyncFetch
  <2>1. InConnection' => InConnection /\ now' = now
    BY <1>2 DEF SyncQuery, SyncFetch
  <2>2. CASE InConnection'
    BY <1>1, <1>2, <2>1, <2>2 DEF SyncQuery, SyncFetch
  <2> QED
    BY <2>2 DEF Chain
<1>3. CASE SyncCommit
  <2>1. InConnection' => InConnection
    BY <1>3, <1>a DEF SyncCommit, NextSymbol, TypeOK
  <2> QED
    BY <1>1, <1>3, <2>1 DEF SyncCommit
<1>4. CASE Connected
  <2>1. now' = minute /\ minute' = minute
    BY <1>4 DEF Connected
  <2>2. now'..(minute' - 1) = {}
    BY <1>a, <2>1
  <2> QED
    BY <2>2 DEF Chain
<1>5. CASE Mark
  BY <1>1, <1>5 DEF Mark
<1>6. CASE HandleKline
  <2>1. UNCHANGED <<minute, now, link, pc>> /\ pc = "stream"
    BY <1>6 DEF HandleKline
  <2>2. /\ 1 \in 1..Len(queue) /\ queue[1].symbol \in Symbols
        /\ DOMAIN candles'[queue[1].symbol] =
             Stored(queue[1].symbol) \cup {queue[1].open_time}
        /\ \A k \in 1..Len(queue') : queue'[k] = queue[k + 1] /\ k + 1 \in 1..Len(queue)
    BY <1>6, <1>a, KlineRows DEF KlineEvent
  <2>3. ASSUME NEW s \in Symbols, NEW m \in now..(minute - 1), Followed(s, m)
        PROVE  Followed(s, m)'
    <3>1. CASE m \in Stored(s)
      BY <1>a, <2>1, <3>1, StoredGrows DEF Followed
    <3>2. CASE Queued(Event(s, m, TRUE)) /\ Event(s, m, TRUE) # queue[1]
      <4>1. Queued(Event(s, m, TRUE))'
        BY <1>6, <1>a, <3>2, HandleQueued
      <4> QED
        BY <4>1 DEF Followed
    <3>3. CASE Event(s, m, TRUE) = queue[1]
      <4>1. queue[1].symbol = s /\ queue[1].open_time = m
        BY <3>3 DEF Event
      <4>2. m \in DOMAIN candles'[s]
        BY <2>2, <4>1
      <4> QED
        BY <2>1, <4>2 DEF Followed, Stored
    <3> QED
      BY <2>3, <3>1, <3>2, <3>3 DEF Followed
  <2>4. ASSUME NEW s \in Symbols, NEW m \in now..(minute - 1)
        PROVE  /\ link = "up" => Followed(s, m)'
               /\ \A i \in 1..Len(queue') :
                    queue'[i].symbol = s /\ m < queue'[i].open_time => Followed(s, m)'
    BY <1>b, <2>1, <2>2, <2>3
  <2> QED
    BY <2>1, <2>4 DEF Chain
<1>7. CASE Drop
  <2>1. UNCHANGED <<minute, now, pc, caller, candles>> /\ link' = "down"
    BY <1>7 DEF Drop
  <2>2. /\ Len(queue') \in Nat
        /\ \A i \in 1..Len(queue') : queue'[i] = queue[i] /\ i \in 1..Len(queue)
    BY <1>7, <1>a, DropKeeps
  <2>3. ASSUME NEW s \in Symbols, NEW m \in now..(minute - 1), NEW i \in 1..Len(queue'),
               queue'[i].symbol = s, m < queue'[i].open_time, InConnection
        PROVE  Followed(s, m)'
    <3>1. Followed(s, m)
      BY <1>b, <2>2, <2>3
    <3>2. CASE Queued(Event(s, m, TRUE))
      <4>1. PICK k \in 1..Len(queue) : queue[k] = Event(s, m, TRUE)
        BY <3>2 DEF Queued
      <4>2. queue[k].open_time = m /\ m \in Int
        BY <1>a, <4>1 DEF Event
      <4>3. m < queue[i].open_time /\ i \in 1..Len(queue) /\ queue[i].open_time \in Int
        BY <1>a, <2>2, <2>3
      <4>4. ~(queue[i].open_time <= queue[k].open_time)
        BY <4>2, <4>3
      <4>5. ~(i <= k)
        BY <4>3, <4>4 DEF StreamInv, LiveInv, Sorted
      <4>6. k \in 1..Len(queue')
        BY <1>a, <2>2, <4>5
      <4>7. queue'[k] = Event(s, m, TRUE)
        BY <2>2, <4>1, <4>6
      <4> QED
        BY <4>6, <4>7 DEF Followed, Queued
    <3>3. CASE pc = "stream" /\ m \in Stored(s)
      BY <2>1, <3>3 DEF Followed, Stored
    <3> QED
      BY <3>1, <3>2, <3>3 DEF Followed
  <2> QED
    BY <2>1, <2>3 DEF Chain
<1>8. CASE Tick
  <2>1. UNCHANGED <<now, pc, caller, candles, link>> /\ minute' = minute + 1
    BY <1>8 DEF Tick
  <2>2. link = "down" => queue' = queue
    BY <1>8, <1>a, StreamSends
  <2>m. ASSUME NEW s \in Symbols, NEW m \in Int, m = minute, link = "up"
        PROVE  Followed(s, m)'
    BY <1>8, <1>a, <2>m, StreamClosing DEF Followed, Queued
  <2>3. ASSUME NEW s \in Symbols, NEW m \in Int, Followed(s, m)
        PROVE  Followed(s, m)'
    <3>1. Queued(Event(s, m, TRUE)) => Queued(Event(s, m, TRUE))'
      BY <1>8, <1>a, StreamQueued
    <3> QED
      BY <2>1, <2>3, <3>1 DEF Followed, Stored
  <2>4. ASSUME NEW s \in Symbols, NEW m \in now..minute, InConnection
        PROVE  /\ link = "up" => Followed(s, m)'
               /\ \A i \in 1..Len(queue') :
                    queue'[i].symbol = s /\ m < queue'[i].open_time => Followed(s, m)'
    <3>1. m \in Int /\ (m = minute \/ m \in now..(minute - 1))
      BY <1>a
    <3>2. link = "up" => Followed(s, m)'
      BY <1>b, <2>3, <2>4, <2>m, <3>1
    <3>3. CASE link = "down"
      BY <1>a, <1>b, <1>c, <2>2, <2>3, <2>4, <3>1, <3>3
    <3>4. link = "up" \/ link = "down"
      BY <1>a DEF TypeOK
    <3> QED
      BY <3>2, <3>3, <3>4
  <2> QED
    BY <1>a, <2>1, <2>4 DEF Chain
<1>9. CASE \E s \in Symbols : Forming(s)
  <2>1. UNCHANGED <<minute, now, pc, caller, candles, link>> /\ link = "up"
    BY <1>9 DEF Forming
  <2>2. ASSUME NEW s \in Symbols, NEW m \in Int, Followed(s, m)
        PROVE  Followed(s, m)'
    <3>1. Queued(Event(s, m, TRUE)) => Queued(Event(s, m, TRUE))'
      BY <1>9, <1>a, StreamQueued
    <3> QED
      BY <2>1, <2>2, <3>1 DEF Followed, Stored
  <2> QED
    BY <1>a, <1>b, <2>1, <2>2 DEF Chain
<1>10. CASE UNCHANGED vars
  BY <1>1, <1>10 DEF vars
<1>11. CASE \/ Accept \/ StreamEnds \/ Hook \/ Wake \/ Start \/ SyncFails
            \/ HandlerFails \/ HookFails \/ Shutdown \/ Crash
  <2>1. ~InConnection'
    BY <1>11, <1>a, Disconnecting DEF StreamInv
  <2> QED
    BY <2>1 DEF Chain
<1> QED
  BY <1>2, <1>3, <1>4, <1>5, <1>6, <1>7, <1>8, <1>9, <1>10, <1>11
     DEF Next, Pipeline, Faulty

LEMMA NextGap == StreamInv /\ [Next]_vars => Gap'
<1> SUFFICES ASSUME StreamInv, [Next]_vars PROVE Gap'
  OBVIOUS
<1> USE DEF exchange, tables, control, task, sync
<1>a. /\ TypeOK /\ Gap /\ sym \in Symbols /\ now \in Int
      /\ start \in [Symbols -> Minutes] /\ start[sym] \in Int
  BY Numbers DEF StreamInv, TypeOK
<1>1. CASE SyncQuery
  <2>1. UNCHANGED <<candles, sym>> /\ batch' = NoRows
    BY <1>1 DEF SyncQuery
  <2>2. PICK m \in Minutes :
          /\ GapStart(sym, now', m)
          /\ start' = [start EXCEPT ![sym] = m]
          /\ pc' = IF m >= now' THEN "sync_commit" ELSE "sync_fetch"
    BY <1>1 DEF SyncQuery
  <2>3. start'[sym] = m
    BY <1>a, <2>2
  <2>4. GapStart(sym, now, start[sym])'
    BY <2>1, <2>2, <2>3 DEF GapStart, Stored, IsLatest
  <2>5. m \in Int /\ now' \in Int
    BY <1>1, <1>a, <2>2 DEF SyncQuery, TypeOK, Minutes
  <2> QED
    BY <2>1, <2>2, <2>3, <2>4, <2>5 DEF Gap
<1>2. CASE SyncFetch
  <2>1. UNCHANGED <<candles, sym, now, start>> /\ pc = "sync_fetch" /\ pc' = "sync_commit"
    BY <1>2 DEF SyncFetch
  <2>2. PICK last \in {now - 1, now} :
          batch' = [m \in start[sym]..last |->
                      [final |-> m < minute, is_closed |-> IsClosed(m)]]
    BY <1>2 DEF SyncFetch
  <2>3. /\ DOMAIN batch' = start[sym]..last
        /\ \A m \in DOMAIN batch' : batch'[m].is_closed = (m < now)
    BY <2>2 DEF IsClosed
  <2>4. GapStart(sym, now, start[sym])' /\ start[sym] < now
    BY <1>a, <2>1 DEF Gap, GapStart, Stored, IsLatest
  <2> QED
    BY <2>1, <2>3, <2>4 DEF Gap
<1>3. CASE SyncCommit
  BY <1>3 DEF SyncCommit, NextSymbol, Gap
<1>4. CASE Connected \/ Mark \/ HandleKline
  <2>1. pc' \notin {"sync_fetch", "sync_commit"}
    BY <1>4 DEF Connected, Mark, HandleKline
  <2> QED
    BY <2>1 DEF Gap
<1>5. CASE Drop \/ Tick \/ (\E s \in Symbols : Forming(s)) \/ UNCHANGED vars
  <2>1. UNCHANGED <<pc, candles, sym, now, start, batch>>
    BY <1>5 DEF Drop, Tick, Forming, vars
  <2> QED
    BY <1>a, <2>1 DEF Gap, GapStart, Stored, IsLatest
<1>6. CASE \/ Accept \/ StreamEnds \/ Hook \/ Wake \/ Start \/ SyncFails
           \/ HandlerFails \/ HookFails \/ Shutdown \/ Crash
  <2>1. pc' \notin {"sync_fetch", "sync_commit"}
    BY <1>6, <1>a, Disconnecting DEF StreamInv
  <2> QED
    BY <2>1 DEF Gap
<1> QED
  BY <1>1, <1>2, <1>3, <1>4, <1>5, <1>6 DEF Next, Pipeline, Faulty

LEMMA InitStream == Init => StreamInv
<1> SUFFICES ASSUME Init PROVE StreamInv
  OBVIOUS
<1>1. TypeOK /\ LiveInv
  BY InitTypeOK, InitLive
<1>2. Quiet /\ Recent /\ Closing /\ Chain /\ Gap
  BY EmptySeq DEF Init, Quiet, Recent, Closing, Chain, Gap, InConnection, Resyncing,
                  Accepted
<1>3. Past
  <2>1. \A s \in Symbols : Stored(s) = {}
    BY NoRowsTable DEF Init, Stored
  <2> QED
    BY <2>1, IngestionAssumption DEF Init, Past
<1> QED
  BY <1>1, <1>2, <1>3 DEF StreamInv

LEMMA NextStream == StreamInv /\ [Next]_vars => StreamInv'
BY NextTypeOK, NextLive, NextQuiet, NextPast, NextRecent, NextClosing, NextChain,
   NextGap DEF StreamInv

LEMMA NextReaches == CatchUpInv /\ [Next]_vars => Reaches'
<1> SUFFICES ASSUME CatchUpInv, [Next]_vars PROVE Reaches'
  OBVIOUS
<1> USE DEF exchange, tables, control, task, sync, bus, history, story, Resyncing,
            Synced
<1>a. /\ TypeOK /\ now \in Int /\ sym \in Symbols
      /\ \A s \in Symbols : s \in Int /\ start[s] \in Int
      /\ NumSymbols \in Int
  BY Numbers, IngestionAssumption DEF CatchUpInv, StreamInv
<1>b. \A s \in Symbols : Synced(s) => Filled(Stored(s), start[s], now)
  BY DEF CatchUpInv, Reaches
<1>c. \A s \in Symbols : Stored(s) \subseteq DOMAIN candles'[s]
  BY <1>a, StoredGrows DEF Stored
<1>1. ASSUME UNCHANGED <<now, start>>,
             \A s \in Symbols : Synced(s)' => Synced(s)
      PROVE  Reaches'
  <2>1. \A s \in Symbols : Synced(s)' => Filled(DOMAIN candles'[s], start'[s], now')
    BY <1>1, <1>b, <1>c DEF Filled
  <2> QED
    BY <2>1 DEF Reaches, Stored
<1>2. CASE SyncQuery
  <2>1. /\ UNCHANGED <<resynced, candles, sym, caller>> /\ pc = "sync_query"
        /\ pc' \in {"sync_fetch", "sync_commit"}
        /\ caller = "handle_connected" => now' = now
        /\ \E m \in Minutes : start' = [start EXCEPT ![sym] = m]
    BY <1>2 DEF SyncQuery
  <2>2. \A s \in Symbols : s # sym => start'[s] = start[s]
    BY <1>a, <2>1 DEF TypeOK
  <2>3. \A s \in Symbols : Synced(s)' =>
          Synced(s) /\ start'[s] = start[s] /\ now' = now
    BY <1>a, <2>1, <2>2
  <2> QED
    BY <1>b, <2>1, <2>3 DEF Reaches, Stored
<1>3. CASE SyncCommit
  <2>1. /\ UNCHANGED <<now, start, resynced, caller>> /\ pc = "sync_commit"
        /\ sym < NumSymbols => sym' = sym + 1 /\ pc' = "sync_query"
        /\ ~(sym < NumSymbols) => sym' = 1 /\ (caller = "handle_connected" => pc' = "mark")
        /\ caller # "handle_connected" => pc' \in {"sync_query", "connect"}
    BY <1>3, <1>a DEF SyncCommit, NextSymbol, TypeOK
  <2>2. \A s \in Symbols : Synced(s)' => Resyncing /\ (Synced(s) \/ s = sym)
    BY <1>a, <2>1 DEF Symbols
  <2>3. ASSUME Resyncing
        PROVE  Filled(DOMAIN candles'[sym], start[sym], now)
    <3>1. DOMAIN candles'[sym] = Stored(sym) \cup DOMAIN batch
      BY <1>3, <1>a, CommitRows
    <3>2. GapStart(sym, now, start[sym])
      BY <2>1 DEF CatchUpInv, StreamInv, Gap
    <3>3. CASE start[sym] >= now
      <4>1. now - BackfillWindow < now
        BY <1>a, IngestionAssumption
      <4>2. start[sym] \in Stored(sym)
        BY <1>a, <3>2, <3>3, <4>1 DEF GapStart, IsLatest
      <4>3. start[sym] <= now
        BY <1>a, <2>3, <4>2 DEF CatchUpInv, StreamInv, Past
      <4>4. now = start[sym] /\ start[sym]..(now - 1) = {}
        BY <1>a, <3>3, <4>3
      <4> QED
        BY <1>a, <3>1, <4>2, <4>4 DEF Filled
    <3>4. CASE ~(start[sym] >= now)
      <4>1. PICK last \in {now - 1, now} : DOMAIN batch = start[sym]..last
        BY <1>a, <2>1, <3>4 DEF CatchUpInv, StreamInv, Gap
      <4>2. last \in DOMAIN batch /\ start[sym]..(now - 1) \subseteq DOMAIN batch
        BY <1>a, <3>4, <4>1
      <4> QED
        BY <1>a, <3>1, <3>4, <4>2 DEF Filled
    <3> QED
      BY <3>3, <3>4
  <2>4. \A s \in Symbols : Synced(s)' => Filled(DOMAIN candles'[s], start'[s], now')
    BY <1>a, <1>b, <1>c, <2>1, <2>2, <2>3 DEF Filled
  <2> QED
    BY <2>4 DEF Reaches, Stored
<1>4. CASE Connected
  <2>1. sym' = 1 /\ pc' = (IF connected_once THEN "sync_query" ELSE "mark")
        /\ resynced' = connected_once
    BY <1>4 DEF Connected, Resyncs
  <2>2. \A s \in Symbols : ~(s < 1)
    BY DEF Symbols
  <2> QED
    BY <2>1, <2>2 DEF Reaches
<1>5. CASE SyncFetch \/ Mark \/ HandleKline \/ Drop \/ Tick \/ UNCHANGED vars
  <2>1. UNCHANGED <<now, start>> /\ \A s \in Symbols : Synced(s)' => Synced(s)
    <3>1. CASE SyncFetch
      BY <3>1 DEF SyncFetch
    <3>2. CASE Mark
      BY <3>2 DEF Mark
    <3>3. CASE HandleKline
      BY <3>3 DEF HandleKline
    <3>4. CASE Drop \/ Tick \/ UNCHANGED vars
      BY <3>4 DEF Drop, Tick, vars
    <3> QED
      BY <1>5, <3>1, <3>2, <3>3, <3>4
  <2> QED
    BY <1>1, <2>1
<1>6. CASE \E s \in Symbols : Forming(s)
  <2>1. UNCHANGED <<now, start>> /\ \A s \in Symbols : Synced(s)' => Synced(s)
    BY <1>6 DEF Forming
  <2> QED
    BY <1>1, <2>1
<1>7. CASE \/ Accept \/ StreamEnds \/ Hook \/ Wake \/ Start \/ SyncFails
           \/ HandlerFails \/ HookFails \/ Shutdown \/ Crash
  <2>1. ~Resyncing' /\ pc' \notin {"mark", "stream"}
    BY <1>7, <1>a, Disconnecting DEF CatchUpInv, StreamInv
  <2> QED
    BY <2>1 DEF Reaches
<1> QED
  BY <1>2, <1>3, <1>4, <1>5, <1>6, <1>7 DEF Next, Pipeline, Faulty

LEMMA NextCloses == CatchUpInv /\ [Next]_vars => Closes'
<1> SUFFICES ASSUME CatchUpInv, [Next]_vars PROVE Closes'
  OBVIOUS
<1> USE DEF exchange, tables, control, task, sync, bus, history, story, Resyncing,
            Synced
<1>a. /\ TypeOK /\ minute \in Int /\ now \in Int /\ sym \in Symbols /\ now <= minute
      /\ \A s \in Symbols : /\ s \in Int /\ start[s] \in Int
                            /\ \A m \in Stored(s) : m \in Int /\ m <= minute
  BY Numbers DEF CatchUpInv, StreamInv, Past
<1>b. link = "up" => \A s \in Symbols : Synced(s) =>
        \A m \in Stored(s) : start[s] <= m /\ m < minute =>
          candles[s][m].is_closed \/ Queued(Event(s, m, TRUE))
  BY DEF CatchUpInv, Closes
<1>1. ASSUME UNCHANGED <<minute, candles>>,
             link' = "up" => link = "up",
             \A s \in Symbols : Synced(s)' => Synced(s) /\ start'[s] = start[s],
             \A s \in Symbols, m \in Int :
               Queued(Event(s, m, TRUE)) => Queued(Event(s, m, TRUE))'
      PROVE  Closes'
  BY <1>1, <1>a, <1>b DEF Closes, Stored
<1>2. CASE SyncQuery
  <2>1. /\ UNCHANGED <<resynced, candles, sym, caller, queue, minute, link>>
        /\ pc = "sync_query" /\ pc' \in {"sync_fetch", "sync_commit"}
        /\ \E m \in Minutes : start' = [start EXCEPT ![sym] = m]
    BY <1>2 DEF SyncQuery
  <2>2. \A s \in Symbols : s # sym => start'[s] = start[s]
    BY <1>a, <2>1 DEF TypeOK
  <2>3. \A s \in Symbols : Synced(s)' => Synced(s) /\ start'[s] = start[s]
    BY <1>a, <2>1, <2>2
  <2> QED
    BY <1>1, <2>1, <2>3 DEF Queued
<1>3. CASE SyncCommit
  <2>1. /\ UNCHANGED <<minute, now, start, resynced, caller, link, queue>>
        /\ pc = "sync_commit"
        /\ sym < NumSymbols => sym' = sym + 1 /\ pc' = "sync_query"
        /\ caller # "handle_connected" => pc' \in {"sync_query", "connect"}
    BY <1>3, <1>a DEF SyncCommit, NextSymbol, TypeOK
  <2>2. \A s \in Symbols : Synced(s)' => Resyncing /\ (Synced(s) \/ s = sym)
    BY <1>a, <2>1, IngestionAssumption DEF Symbols
  <2>3. /\ \A s \in Symbols \ {sym} : candles'[s] = candles[s]
        /\ DOMAIN candles'[sym] = Stored(sym) \cup DOMAIN batch
        /\ \A m \in Stored(sym) \cup DOMAIN batch :
             candles'[sym][m] = IF m \in DOMAIN batch THEN batch[m] ELSE candles[sym][m]
    BY <1>3, <1>a, CommitRows
  <2>4. ASSUME Resyncing, link = "up", NEW m \in DOMAIN candles'[sym],
               start[sym] <= m, m < minute
        PROVE  candles'[sym][m].is_closed \/ Queued(Event(sym, m, TRUE))
    <3>1. m \in Int /\ m <= now
      <4>1. \A k \in DOMAIN batch : k \in Int /\ k <= now
        BY <1>a, <2>1, GapBatch DEF CatchUpInv, StreamInv
      <4>2. \A k \in Stored(sym) : k \in Int /\ k <= now
        BY <1>a, <2>4 DEF CatchUpInv, StreamInv, Past
      <4> QED
        BY <2>3, <4>1, <4>2
    <3>2. CASE m = now
      <4>1. m \in now..(minute - 1)
        BY <1>a, <2>4, <3>2
      <4>2. Followed(sym, m)
        BY <1>a, <2>4, <4>1 DEF CatchUpInv, StreamInv, Chain, InConnection
      <4> QED
        BY <2>1, <4>2 DEF Followed
    <3>3. CASE m < now
      <4>1. start[sym] < now
        BY <1>a, <2>4, <3>1, <3>3
      <4>2. PICK last \in {now - 1, now} : DOMAIN batch = start[sym]..last
        BY <1>a, <2>1, <4>1 DEF CatchUpInv, StreamInv, Gap
      <4>3. m \in DOMAIN batch
        BY <1>a, <2>4, <3>1, <3>3, <4>2
      <4>4. batch[m].is_closed = (m < now)
        BY <1>a, <2>1, <4>1, <4>3 DEF CatchUpInv, StreamInv, Gap
      <4>5. candles'[sym][m] = batch[m]
        BY <2>3, <4>3
      <4> QED
        BY <3>3, <4>4, <4>5
    <3>4. m = now \/ m < now
      BY <1>a, <3>1
    <3> QED
      BY <3>2, <3>3, <3>4
  <2>5. ASSUME NEW s \in Symbols, Synced(s)', link = "up", NEW m \in DOMAIN candles'[s],
               start[s] <= m, m < minute
        PROVE  candles'[s][m].is_closed \/ Queued(Event(s, m, TRUE))
    <3>1. CASE s = sym
      BY <2>2, <2>4, <2>5, <3>1
    <3>2. CASE s # sym
      BY <1>b, <2>2, <2>3, <2>5, <3>2 DEF Stored
    <3> QED
      BY <3>1, <3>2
  <2> QED
    BY <2>1, <2>5 DEF Closes, Stored, Queued
<1>4. CASE Connected
  <2>1. sym' = 1 /\ pc' = (IF connected_once THEN "sync_query" ELSE "mark")
        /\ resynced' = connected_once
    BY <1>4 DEF Connected, Resyncs
  <2>2. \A s \in Symbols : ~(s < 1)
    BY DEF Symbols
  <2> QED
    BY <2>1, <2>2 DEF Closes
<1>5. CASE HandleKline
  <2>1. UNCHANGED <<minute, link, start, pc, resynced>> /\ pc = "stream"
    BY <1>5 DEF HandleKline
  <2>2. /\ 1 \in 1..Len(queue) /\ queue[1] \in KlineEvent /\ queue[1].symbol \in Symbols
        /\ \A s \in Symbols \ {queue[1].symbol} : candles'[s] = candles[s]
        /\ DOMAIN candles'[queue[1].symbol] =
             Stored(queue[1].symbol) \cup {queue[1].open_time}
        /\ candles'[queue[1].symbol][queue[1].open_time].is_closed = queue[1].is_closed
        /\ \A m \in Stored(queue[1].symbol) : m # queue[1].open_time =>
             candles'[queue[1].symbol][m] = candles[queue[1].symbol][m]
    BY <1>5, <1>a, KlineRows DEF KlineEvent
  <2>3. \A s, m : /\ Event(s, m, TRUE).symbol = s
                  /\ Event(s, m, TRUE).open_time = m
                  /\ Event(s, m, TRUE).is_closed
    BY DEF Event
  <2>4. ASSUME NEW s \in Symbols, Synced(s)', link = "up", NEW m \in DOMAIN candles'[s],
               start[s] <= m, m < minute, ~candles'[s][m].is_closed
        PROVE  Queued(Event(s, m, TRUE))'
    <3>1. CASE s = queue[1].symbol /\ m = queue[1].open_time
      <4>1. ~queue[1].is_closed
        BY <2>2, <2>4, <3>1
      <4>2. PICK j \in 1..Len(queue) : queue[j] = Event(s, m, TRUE)
        BY <2>2, <2>4, <3>1 DEF CatchUpInv, StreamInv, Closing
      <4>3. queue[1] # Event(s, m, TRUE)
        BY <2>3, <4>1
      <4> QED
        BY <1>5, <1>a, <4>2, <4>3, HandleQueued DEF Queued
    <3>2. CASE ~(s = queue[1].symbol /\ m = queue[1].open_time)
      <4>1. m \in Stored(s) /\ candles'[s][m] = candles[s][m]
        BY <2>2, <2>4, <3>2 DEF Stored
      <4>2. Queued(Event(s, m, TRUE))
        BY <1>b, <2>1, <2>4, <4>1
      <4>3. queue[1] # Event(s, m, TRUE)
        BY <3>2 DEF Event
      <4> QED
        BY <1>5, <1>a, <4>2, <4>3, HandleQueued
    <3> QED
      BY <3>1, <3>2
  <2> QED
    BY <2>1, <2>4 DEF Closes, Stored
<1>6. CASE Tick
  <2>1. UNCHANGED <<pc, caller, sym, resynced, candles, start, link>> /\ minute' = minute + 1
    BY <1>6 DEF Tick
  <2>2. ASSUME NEW s \in Symbols, Synced(s), link = "up", NEW m \in Stored(s),
               start[s] <= m, m < minute + 1
        PROVE  candles[s][m].is_closed \/ Queued(Event(s, m, TRUE))'
    <3>1. CASE m < minute
      <4>1. candles[s][m].is_closed \/ Queued(Event(s, m, TRUE))
        BY <1>b, <2>2, <3>1
      <4> QED
        BY <1>6, <1>a, <4>1, StreamQueued
    <3>2. CASE m = minute
      BY <1>6, <1>a, <2>2, <3>2, StreamClosing DEF Queued
    <3>3. m < minute \/ m = minute
      <4>1. m \in Int
        BY <1>a
      <4> QED
        BY <1>a, <2>2, <4>1
    <3> QED
      BY <3>1, <3>2, <3>3
  <2> QED
    BY <2>1, <2>2 DEF Closes, Stored
<1>7. CASE \E s \in Symbols : Forming(s)
  <2>1. UNCHANGED <<pc, caller, sym, resynced, candles, start, link, minute>>
    BY <1>7 DEF Forming
  <2>2. \A s \in Symbols, m \in Int :
          Queued(Event(s, m, TRUE)) => Queued(Event(s, m, TRUE))'
    BY <1>7, <1>a, StreamQueued
  <2> QED
    BY <1>1, <2>1, <2>2
<1>8. CASE SyncFetch \/ Mark \/ UNCHANGED vars
  <2>1. /\ UNCHANGED <<queue, minute, link, candles, start>>
        /\ \A s \in Symbols : Synced(s)' => Synced(s)
    <3>1. CASE SyncFetch
      BY <3>1 DEF SyncFetch
    <3>2. CASE Mark
      BY <3>2 DEF Mark
    <3>3. CASE UNCHANGED vars
      BY <3>3 DEF vars
    <3> QED
      BY <1>8, <3>1, <3>2, <3>3
  <2> QED
    BY <1>1, <2>1 DEF Queued
<1>9. CASE Drop
  BY <1>9 DEF Drop, Closes
<1>10. CASE \/ Accept \/ StreamEnds \/ Hook \/ Wake \/ Start \/ SyncFails
            \/ HandlerFails \/ HookFails \/ Shutdown \/ Crash
  <2>1. ~Resyncing' /\ pc' \notin {"mark", "stream"}
    BY <1>10, <1>a, Disconnecting DEF CatchUpInv, StreamInv
  <2> QED
    BY <2>1 DEF Closes
<1> QED
  BY <1>2, <1>3, <1>4, <1>5, <1>6, <1>7, <1>8, <1>9, <1>10 DEF Next, Pipeline, Faulty

LEMMA CatchUp == Spec => []CatchUpInv
<1>1. Init => CatchUpInv
  BY InitStream DEF Init, CatchUpInv, Reaches, Closes, Synced
<1>2. CatchUpInv /\ [Next]_vars => CatchUpInv'
  BY NextStream, NextReaches, NextCloses DEF CatchUpInv
<1> QED
  BY <1>1, <1>2, PTL DEF Spec

\* What the task may still store beside a hole: nothing that widens it.
LEMMA StepOpensNoHole ==
  ASSUME CatchUpInv, [Next]_vars, NEW s \in Symbols, ~(pc = "stream" /\ ~resynced)
  PROVE  Holes(s)' \subseteq Holes(s)
<1> USE DEF exchange, tables, control, task, sync, bus, history, story
<1>a. /\ TypeOK /\ minute \in Int /\ now \in Int /\ now <= minute /\ sym \in Symbols
      /\ start[sym] \in Int /\ Stored(s) \subseteq Minutes /\ Minutes \subseteq Int
      /\ Len(queue) \in Nat
  BY Numbers DEF CatchUpInv, StreamInv, Past
<1>1. CASE candles'[s] = candles[s]
  BY <1>1 DEF Holes, Stored
<1>2. CASE SyncCommit /\ s = sym
  <2>1. pc = "sync_commit" /\ DOMAIN candles'[s] = Stored(s) \cup DOMAIN batch
    BY <1>2, <1>a, CommitRows DEF SyncCommit
  <2>2. CASE DOMAIN batch = {}
    BY <2>1, <2>2 DEF Holes, Stored
  <2>3. CASE DOMAIN batch # {}
    <3>1. GapStart(s, now, start[s])
      BY <1>2, <2>1 DEF CatchUpInv, StreamInv, Gap
    <3>2. PICK last \in {now - 1, now} : start[s] < now /\ DOMAIN batch = start[s]..last
      BY <1>2, <1>a, <2>1, <2>3, NoRowsTable DEF CatchUpInv, StreamInv, Gap
    <3>3. start[s] \in Int /\ last \in Int /\ start[s] <= last
      BY <1>a, <1>2, <3>2
    <3>x. \A x \in Stored(s) \cup DOMAIN batch :
            x \in Int /\ (x \in Stored(s) \/ (start[s] <= x /\ x <= last))
      <4>1. \A x \in Stored(s) : x \in Int
        BY <1>a
      <4>2. \A x \in start[s]..last : x \in Int /\ start[s] <= x /\ x <= last
        BY <3>3
      <4> QED
        BY <3>2, <4>1, <4>2
    <3>4. ASSUME NEW h \in Minutes, h \notin DOMAIN candles'[s],
                 NEW a \in DOMAIN candles'[s], NEW b \in DOMAIN candles'[s], a < h, h < b
          PROVE  \E c, d \in Stored(s) : c < h /\ h < d
      <4>1. h \in Int /\ h \notin Stored(s) /\ ~(start[s] <= h /\ h <= last)
        BY <1>a, <2>1, <3>2, <3>3, <3>4
      <4>2. /\ a \in Int /\ (a \in Stored(s) \/ (start[s] <= a /\ a <= last))
            /\ b \in Int /\ (b \in Stored(s) \/ (start[s] <= b /\ b <= last))
        BY <2>1, <3>x
      <4>3. Stored(s) # {}
        BY <3>3, <3>4, <4>1, <4>2
      <4>4. start[s] \in Stored(s) /\ \A k \in Stored(s) : k <= start[s]
        BY <3>1, <4>3 DEF GapStart, IsLatest
      <4>5. h < start[s]
        BY <3>3, <3>4, <4>1, <4>2, <4>4
      <4>6. a \in Stored(s)
        BY <3>3, <3>4, <4>1, <4>2, <4>5
      <4> QED
        BY <3>4, <4>4, <4>5, <4>6
    <3>5. \A h \in Minutes : h \notin DOMAIN candles'[s] => h \notin Stored(s)
      BY <2>1
    <3> QED
      BY <3>4, <3>5 DEF Holes, Stored
  <2> QED
    BY <2>2, <2>3
<1>3. CASE HandleKline /\ s = queue[1].symbol
  <2> DEFINE m == queue[1].open_time
  <2>1. /\ pc = "stream" /\ resynced /\ 1 \in 1..Len(queue) /\ queue[1] \in KlineEvent
        /\ DOMAIN candles'[s] = Stored(s) \cup {m}
    BY <1>3, <1>a, KlineRows DEF HandleKline
  <2>2. m \in Int /\ now - 1 <= m /\ m <= minute
    <3>1. m \in Int /\ now - 1 <= m
      BY <1>a, <2>1, Numbers DEF CatchUpInv, StreamInv, Recent, InConnection
    <3>2. m <= minute
      BY <2>1 DEF CatchUpInv, StreamInv, LiveInv, Within
    <3> QED
      BY <3>1, <3>2
  <2>3. PICK k \in {now - 1, now} : k \in Stored(s)
    BY <2>1 DEF CatchUpInv, Reaches, Filled, Synced
  <2>4. ASSUME NEW h \in Int, now <= h, h < m
        PROVE  h \in Stored(s)
    <3>1. h \in now..(minute - 1)
      BY <1>a, <2>2, <2>4
    <3>2. Followed(s, h)
      BY <1>3, <2>1, <2>4, <3>1 DEF CatchUpInv, StreamInv, Chain, InConnection
    <3>3. ~Queued(Event(s, h, TRUE))
      <4> SUFFICES ASSUME NEW j \in 1..Len(queue), queue[j] = Event(s, h, TRUE)
                   PROVE  FALSE
        BY DEF Queued
      <4>1. queue[j].open_time = h
        BY DEF Event
      <4>2. 1 <= j
        BY <1>a
      <4>3. m <= h
        BY <2>1, <4>1, <4>2 DEF CatchUpInv, StreamInv, LiveInv, Sorted
      <4> QED
        BY <2>2, <2>4, <4>3
    <3> QED
      BY <3>2, <3>3 DEF Followed
  <2> HIDE DEF m
  <2>5. ASSUME NEW h \in Minutes, h \notin DOMAIN candles'[s],
               NEW a \in DOMAIN candles'[s], NEW b \in DOMAIN candles'[s], a < h, h < b
        PROVE  \E c, d \in Stored(s) : c < h /\ h < d
    <3>1. h \in Int /\ h \notin Stored(s) /\ h # m /\ ~(now <= h /\ h < m) /\ h # k
      BY <1>a, <2>1, <2>3, <2>4, <2>5
    <3>2. CASE a \in Stored(s) /\ b \in Stored(s)
      BY <2>5, <3>2
    <3>3. CASE b = m /\ a \in Stored(s)
      <4>1. h < k
        BY <1>a, <2>2, <2>3, <2>5, <3>1, <3>3
      <4> QED
        BY <2>3, <2>5, <3>3, <4>1
    <3>4. CASE a = m /\ b \in Stored(s)
      <4>1. k < h
        BY <1>a, <2>2, <2>3, <2>5, <3>1, <3>4
      <4> QED
        BY <2>3, <2>5, <3>4, <4>1
    <3>5. ~(a = m /\ b = m)
      BY <2>2, <2>5, <3>1
    <3> QED
      BY <2>1, <3>2, <3>3, <3>4, <3>5
  <2>6. \A h \in Minutes : h \notin DOMAIN candles'[s] => h \notin Stored(s)
    BY <2>1
  <2> QED
    BY <2>5, <2>6 DEF Holes, Stored
<1>4. CASE SyncCommit /\ s # sym
  BY <1>1, <1>4, <1>a, CommitRows
<1>5. CASE HandleKline /\ s # queue[1].symbol
  <2>1. candles'[s] = candles[s]
    BY <1>5, <1>a, KlineRows
  <2> QED
    BY <1>1, <2>1
<1>6. CASE SyncQuery \/ SyncFetch \/ Connected \/ Mark \/ Drop \/ Tick \/ UNCHANGED vars
  BY <1>1, <1>6 DEF SyncQuery, SyncFetch, Connected, Mark, Drop, Tick, vars
<1>7. CASE \E r \in Symbols : Forming(r)
  BY <1>1, <1>7 DEF Forming
<1>8. CASE \/ Accept \/ StreamEnds \/ Hook \/ Wake \/ Start \/ SyncFails
           \/ HandlerFails \/ HookFails \/ Shutdown \/ Crash
  <2>1. candles' = candles
    BY <1>8, <1>a, Disconnecting DEF CatchUpInv, StreamInv
  <2> QED
    BY <1>1, <2>1
<1> QED
  BY <1>2, <1>3, <1>4, <1>5, <1>6, <1>7, <1>8 DEF Next, Pipeline, Faulty

\* A connection that began with a sync leaves no new hole in candles_1m, for every
\* number of symbols and faults: what REST wrote and what the stream adds meet.
THEOREM ResyncLeavesNoHole == Spec => NoNewHole
<1>1. CatchUpInv /\ [Next]_vars =>
        [\A s \in Symbols :
           ~(Holes(s)' \subseteq Holes(s)) => pc = "stream" /\ ~resynced]_vars
  BY StepOpensNoHole
<1> QED
  BY <1>1, CatchUp, PTL DEF Spec, NoNewHole

\* After a reconnection every minute of the gap and since is closed, save the
\* newest, once what the stream sent is dispatched, however the two overlapped.
THEOREM ReconnectionCatchesUp == Spec => []CaughtUp
<1>1. CatchUpInv => CaughtUp
  <2> SUFFICES ASSUME CatchUpInv, Current, NEW s \in Symbols, NEW m \in Stored(s),
                      start[s] <= m, ~IsLatest(s, m)
               PROVE  candles[s][m].is_closed
    BY DEF CaughtUp
  <2>1. PICK k \in Stored(s) : ~(k <= m)
    BY DEF IsLatest
  <2>2. m \in Int /\ k \in Int /\ minute \in Int /\ k <= minute
    BY Numbers DEF CatchUpInv, StreamInv, Past
  <2>3. m < minute
    BY <2>1, <2>2
  <2>4. ~Queued(Event(s, m, TRUE))
    BY EmptySeq DEF Queued, Current
  <2> QED
    BY <2>3, <2>4 DEF CatchUpInv, Closes, Synced, Current
<1> QED
  BY <1>1, CatchUp, PTL

\* After a reconnection only holes from before the gap that was filled are missing
\* from the last STATS_LOOKBACK_MINUTES minutes of what get_stats reads, and it does
\* not reach further back than they make it, for every length of the window.
THEOREM StatsAreOfTheWindow == Spec => []StatsSpanDay
<1>1. CatchUpInv => StatsSpanDay
  <2> SUFFICES ASSUME CatchUpInv, Current, NEW s \in Symbols
               PROVE  /\ \A m \in NewestRows(s, STATS_LOOKBACK_MINUTES) :
                           minute - STATS_LOOKBACK_MINUTES - m
                             <= Cardinality({h \in {g \in Holes(s) : g < start[s]} : m < h})
                      /\ \A m \in Minutes :
                           /\ minute - STATS_LOOKBACK_MINUTES < m /\ m < minute
                           /\ \E k \in Stored(s) : k <= m
                           => m \in NewestRows(s, STATS_LOOKBACK_MINUTES)
                                     \cup {h \in Holes(s) : h < start[s]}
    BY DEF StatsSpanDay
  <2> DEFINE N == STATS_LOOKBACK_MINUTES
             Old == {h \in Holes(s) : h < start[s]}
             Newer(m) == {k \in Stored(s) : k > m}
             Missing(m) == {h \in Old : m < h}
  <2>1. /\ minute \in Int /\ now \in Int /\ now <= minute /\ N \in Int
        /\ \A k \in Stored(s) : k \in Int /\ k \in Minutes /\ k <= minute
        /\ minute \in Minutes
    BY Numbers, IngestionAssumption DEF CatchUpInv, StreamInv, Past, TypeOK
  <2>2. ASSUME NEW m \in now..(minute - 1)
        PROVE  m \in Stored(s)
    <3>1. Followed(s, m)
      BY DEF CatchUpInv, StreamInv, Chain, InConnection, Current
    <3>2. ~Queued(Event(s, m, TRUE))
      BY EmptySeq DEF Queued, Current
    <3> QED
      BY <3>1, <3>2 DEF Followed
  <2>3. PICK newest \in {minute - 1, minute} : newest \in Stored(s)
    <3>1. PICK k \in {now - 1, now} : k \in Stored(s)
      BY DEF CatchUpInv, Reaches, Filled, Synced, Current
    <3>2. CASE now = minute
      BY <3>1, <3>2
    <3>3. CASE now # minute
      <4>1. minute - 1 \in now..(minute - 1)
        BY <2>1, <3>3
      <4> QED
        BY <2>2, <4>1
    <3> QED
      BY <3>2, <3>3
  <2>4. /\ start[s] \in Int
        /\ \A m \in Int : start[s] <= m /\ m < minute => m \in Stored(s)
    <3>1. start[s] \in Int
      BY DEF CatchUpInv, StreamInv, TypeOK, Minutes
    <3>2. start[s]..(now - 1) \subseteq Stored(s)
      BY DEF CatchUpInv, Reaches, Filled, Synced, Current
    <3> QED
      BY <2>1, <2>2, <3>1, <3>2
  <2>5. ASSUME NEW a \in Stored(s), NEW m \in Int, a <= m, m <= newest
        PROVE  m \in Stored(s) \cup Old
    <3>1. CASE m = a \/ m = newest
      BY <2>3, <3>1
    <3>2. CASE m # a /\ m # newest
      <4>1. /\ a \in Int /\ 0 <= a
            /\ newest \in Int /\ newest <= MaxMinute /\ MaxMinute \in Int
        BY <2>1, <2>3, IngestionAssumption DEF Minutes
      <4>2. a < m /\ m < newest /\ m < minute /\ m \in Minutes
        BY <2>1, <2>3, <2>5, <3>2, <4>1 DEF Minutes
      <4>3. m \in Stored(s) \/ m \in Holes(s)
        BY <2>3, <4>2 DEF Holes
      <4>4. m \in Stored(s) \/ m < start[s]
        BY <2>4, <4>2
      <4> QED
        BY <4>3, <4>4
    <3> QED
      BY <3>1, <3>2
  <2>6. ASSUME NEW m \in Stored(s)
        PROVE  /\ IsFiniteSet(Newer(m)) /\ Cardinality(Newer(m)) \in Nat
               /\ IsFiniteSet(Missing(m)) /\ Cardinality(Missing(m)) \in Nat
    <3>1. Newer(m) \subseteq 0..MaxMinute /\ Missing(m) \subseteq 0..MaxMinute
      BY <2>1 DEF Minutes, Holes
    <3>2. IsFiniteSet(0..MaxMinute)
      BY FS_Interval, IngestionAssumption
    <3>3. IsFiniteSet(Newer(m)) /\ IsFiniteSet(Missing(m))
      BY <3>1, <3>2, FS_Subset
    <3> QED
      BY <3>3, FS_CardinalityType
  <2>7. ASSUME NEW m \in NewestRows(s, N)
        PROVE  minute - N - m <= Cardinality(Missing(m))
    <3>1. m \in Stored(s) /\ m \in Int /\ Cardinality(Newer(m)) < N
      BY <2>1 DEF NewestRows
    <3>2. Cardinality(Newer(m)) \in Nat /\ Cardinality(Missing(m)) \in Nat
      BY <2>6, <3>1
    <3>3. CASE newest <= m
      BY <2>1, <2>3, <3>1, <3>2, <3>3, IngestionAssumption
    <3>4. CASE ~(newest <= m)
      <4>1. (m + 1)..newest \subseteq Newer(m) \cup Missing(m)
        BY <2>1, <2>3, <2>5, <3>1
      <4>2. Cardinality((m + 1)..newest) = newest - m /\ newest \in Int
        <5>1. newest \in Int /\ m + 1 \in Int /\ ~(m + 1 > newest)
          BY <2>1, <2>3, <3>1, <3>4
        <5>2. Cardinality((m + 1)..newest) = newest - (m + 1) + 1
          BY <5>1, FS_Interval
        <5> QED
          BY <3>1, <5>1, <5>2
      <4>3. /\ IsFiniteSet(Newer(m) \cup Missing(m))
            /\ Cardinality(Newer(m) \cup Missing(m))
                 <= Cardinality(Newer(m)) + Cardinality(Missing(m))
        <5>1. IsFiniteSet(Newer(m)) /\ IsFiniteSet(Missing(m))
          BY <2>6, <3>1
        <5>2. IsFiniteSet(Newer(m) \cap Missing(m))
          BY <5>1, FS_Subset
        <5>3. Cardinality(Newer(m) \cap Missing(m)) \in Nat
          BY <5>2, FS_CardinalityType
        <5>4. /\ IsFiniteSet(Newer(m) \cup Missing(m))
              /\ Cardinality(Newer(m) \cup Missing(m))
                   = Cardinality(Newer(m)) + Cardinality(Missing(m))
                       - Cardinality(Newer(m) \cap Missing(m))
          BY <5>1, FS_Union
        <5> QED
          BY <3>2, <5>3, <5>4
      <4>4. Cardinality((m + 1)..newest) <= Cardinality(Newer(m) \cup Missing(m))
        BY <4>1, <4>3, FS_Subset
      <4>5. Cardinality(Newer(m) \cup Missing(m)) \in Nat
        BY <4>3, FS_CardinalityType
      <4> HIDE DEF Newer, Missing
      <4> QED
        BY <2>1, <2>3, <3>1, <3>2, <4>2, <4>3, <4>4, <4>5
    <3> QED
      BY <3>3, <3>4
  <2>8. ASSUME NEW m \in Minutes, minute - N < m, m < minute, NEW k \in Stored(s), k <= m
        PROVE  m \in NewestRows(s, N) \cup Old
    <3>1. m \in Int
      BY DEF Minutes
    <3>2. m \in Stored(s) \cup Old
      BY <2>1, <2>3, <2>5, <2>8, <3>1
    <3>3. CASE m \in Stored(s)
      <4>1. Newer(m) \subseteq (m + 1)..minute
        BY <2>1, <3>1
      <4>2. IsFiniteSet((m + 1)..minute) /\ Cardinality((m + 1)..minute) = minute - m
        <5>1. m + 1 \in Int /\ ~(m + 1 > minute)
          BY <2>1, <2>8, <3>1
        <5>2. /\ IsFiniteSet((m + 1)..minute)
              /\ Cardinality((m + 1)..minute) = minute - (m + 1) + 1
          BY <2>1, <5>1, FS_Interval
        <5> QED
          BY <2>1, <3>1, <5>2
      <4>3. Cardinality(Newer(m)) <= minute - m
        BY <4>1, <4>2, FS_Subset
      <4>4. Cardinality(Newer(m)) \in Nat
        BY <2>6, <3>3
      <4>5. Cardinality(Newer(m)) < N
        BY <2>1, <2>8, <3>1, <4>3, <4>4
      <4> QED
        BY <3>3, <4>5 DEF NewestRows
    <3> QED
      BY <3>2, <3>3
  <2> QED
    BY <2>1, <2>7, <2>8
<1> QED
  BY <1>1, CatchUp, PTL
=============================================================================
