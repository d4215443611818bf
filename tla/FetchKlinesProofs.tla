------------------------- MODULE FetchKlinesProofs --------------------------
(***************************************************************************)
(* Proofs about FetchKlines for every page size, retry budget and finite   *)
(* set of klines: the pages add up to one atomic fetch of the range.       *)
(***************************************************************************)
EXTENDS FetchKlines, FiniteSetTheorems, TLAPS

-----------------------------------------------------------------------------
(* Lemmas about pages. *)

LEMMA PageFinite ==
  ASSUME NEW S \in SUBSET KlineTimes
  PROVE  IsFiniteSet(S) /\ Cardinality(S) \in Nat
BY FetchAssumption, FS_Subset, FS_CardinalityType

\* Up to the last kline of a page nothing of the window is left out.
LEMMA PageIsPrefix ==
  ASSUME NEW window \in SUBSET Nat, NEW page, IsPage(page, window),
         NEW last \in page, \A t \in page : t <= last
  PROVE  \A t \in window : t <= last => t \in page
<1> SUFFICES ASSUME NEW t \in window, t <= last, t \notin page PROVE FALSE
  OBVIOUS
<1>1. last < t
  BY DEF IsPage
<1>2. last \in Nat /\ t \in Nat
  BY DEF IsPage
<1> QED
  BY <1>1, <1>2

-----------------------------------------------------------------------------
(* The invariant: the cursor splits the range into what is collected and    *)
(* what is still to be asked for, and stands one past a kline.              *)

Covered(t) == t \in KlineTimes /\ start_time <= t /\ t <= end_time /\ t <= head0

FetchInv ==
  /\ TypeOK
  /\ head0 <= head
  /\ start_time < end_time /\ start_time <= cursor
  /\ cursor = start_time \/ cursor - 1 \in KlineTimes
  /\ \A t \in results : start_time <= t /\ t <= end_time /\ t < cursor
  /\ \A t \in KlineTimes : Covered(t) /\ t < cursor => t \in results
  /\ pc = "done" => \A t \in KlineTimes : Covered(t) => t \in results
  /\ pc \in {"get", "backoff"} => attempt <= MAX_RETRIES
  /\ fetched = Cardinality(results)

LEMMA InitFetch == Init => FetchInv
<1> SUFFICES ASSUME Init PROVE FetchInv
  OBVIOUS
<1>1. start_time \in Nat /\ end_time \in Nat /\ head \in Nat
  BY FetchAssumption DEF Init
<1>2. TypeOK
  BY <1>1, FetchAssumption DEF Init, TypeOK
<1>3. Cardinality({}) = 0
  BY FS_EmptySet
<1> QED
  BY <1>1, <1>2, <1>3 DEF Init, FetchInv, Covered

LEMMA NextFetch == FetchInv /\ [Next]_vars => FetchInv'
<1> SUFFICES ASSUME FetchInv, [Next]_vars PROVE FetchInv'
  OBVIOUS
<1> USE DEF args
<1>a. /\ start_time \in Nat /\ end_time \in Nat /\ cursor \in Nat
      /\ head \in Nat /\ head0 \in Nat
      /\ \A t \in KlineTimes : t \in Nat
  BY FetchAssumption DEF FetchInv, TypeOK
<1>1. CASE LoopTest
  <2>1. CASE cursor < end_time
    BY <1>1, <2>1, FetchAssumption DEF LoopTest, FetchInv, TypeOK, Covered
  <2>2. CASE ~(cursor < end_time)
    <3>1. \A t \in KlineTimes : Covered(t) => t \in results
      <4> SUFFICES ASSUME NEW t \in KlineTimes, Covered(t), ~(t < cursor) PROVE FALSE
        BY DEF FetchInv
      <4>1. t = end_time /\ cursor = end_time
        BY <1>a, <2>2 DEF Covered
      <4>2. cursor - 1 \in KlineTimes
        BY <4>1 DEF FetchInv
      <4>3. t = (cursor - 1) + 1
        BY <1>a, <4>1
      <4> QED
        BY <4>2, <4>3, FetchAssumption
    <3> QED
      BY <1>1, <2>2, <3>1, FetchAssumption DEF LoopTest, FetchInv, TypeOK, Covered
  <2> QED
    BY <2>1, <2>2
<1>2. CASE Throttled
  <2>1. attempt' \in 0..(MAX_RETRIES + 1) /\ (pc' = "backoff" => attempt' <= MAX_RETRIES)
    BY <1>2, FetchAssumption DEF Throttled, AfterThrottle, FetchInv, TypeOK
  <2>2. pc' \in {"failed", "backoff"}
    BY <1>2 DEF Throttled, AfterThrottle
  <2> QED
    BY <1>2, <2>1, <2>2 DEF Throttled, AfterThrottle, FetchInv, TypeOK, Covered
<1>3. CASE Retry
  BY <1>3 DEF Retry, Spent, FetchInv, TypeOK, Covered
<1>4. CASE RequestFails
  BY <1>4 DEF RequestFails, FetchInv, TypeOK, Covered
<1>5. CASE EmptyPage
  <2>1. \A t \in KlineTimes : Covered(t) => t \in results
    <3> SUFFICES ASSUME NEW t \in KlineTimes, Covered(t), ~(t < cursor) PROVE FALSE
      BY DEF FetchInv
    <3>1. cursor <= t /\ t <= head
      BY <1>a DEF Covered, FetchInv
    <3> QED
      BY <1>5, <3>1 DEF EmptyPage, Window, Covered
  <2> QED
    BY <1>5, <2>1 DEF EmptyPage, FetchInv, TypeOK, Covered
<1>6. CASE ReceivePage
  <2>1. PICK page \in SUBSET Window(cursor) :
          /\ page # {}
          /\ IsPage(page, Window(cursor))
          /\ results' = results \cup page
          /\ fetched' = fetched + Cardinality(page)
          /\ \E last \in page :
               /\ \A t \in page : t <= last
               /\ cursor' = IF NextCursor(last) <= cursor THEN cursor
                            ELSE NextCursor(last)
               /\ pc' = AfterPage(last, Cardinality(page))
    BY <1>6 DEF ReceivePage
  <2>2. PICK last \in page :
          /\ \A t \in page : t <= last
          /\ cursor' = IF NextCursor(last) <= cursor THEN cursor ELSE NextCursor(last)
          /\ pc' = AfterPage(last, Cardinality(page))
    BY <2>1
  <2>3. /\ Window(cursor) \subseteq KlineTimes /\ page \subseteq KlineTimes
        /\ Window(cursor) \subseteq Nat
        /\ \A t \in page : cursor <= t /\ t <= end_time
    BY <1>a, <2>1 DEF Window
  <2>4. last \in Nat /\ cursor <= last /\ cursor' = last + 1 /\ last \in KlineTimes
    BY <1>a, <2>2, <2>3 DEF NextCursor
  <2>5. UNCHANGED <<start_time, end_time, head0, head, attempt>>
    BY <1>6 DEF ReceivePage
  <2>6. pc' = IF Cardinality(page) < MAX_KLINES_PER_REQUEST THEN "done" ELSE "loop"
    BY <1>a, <2>2, <2>4 DEF AfterPage, NextCursor
  <2>7. Cardinality(page) \in Nat /\ IsFiniteSet(page) /\ IsFiniteSet(results)
    BY <2>3, PageFinite DEF FetchInv, TypeOK
  <2>8. TypeOK'
    BY <2>1, <2>3, <2>4, <2>5, <2>6, <2>7 DEF FetchInv, TypeOK
  <2>9. \A t \in results' : start_time <= t /\ t <= end_time /\ t < cursor'
    <3> SUFFICES ASSUME NEW t \in results'
                 PROVE  start_time <= t /\ t <= end_time /\ t < cursor'
      OBVIOUS
    <3>1. t \in Nat
      BY <1>a, <2>1, <2>3 DEF FetchInv, TypeOK
    <3>2. CASE t \in results
      BY <1>a, <2>4, <3>1, <3>2 DEF FetchInv
    <3>3. CASE t \in page
      BY <1>a, <2>2, <2>3, <2>4, <3>1, <3>3 DEF FetchInv
    <3> QED
      BY <2>1, <3>2, <3>3
  <2>10. \A t \in KlineTimes : Covered(t) /\ t <= last => t \in results'
    <3> SUFFICES ASSUME NEW t \in KlineTimes, Covered(t), t <= last, ~(t < cursor)
                 PROVE  t \in page
      BY <2>1 DEF FetchInv
    <3>1. t \in Window(cursor)
      BY <1>a DEF Window, Covered, FetchInv
    <3> QED
      BY <2>1, <2>2, <2>3, <3>1, PageIsPrefix
  <2>11. pc' = "done" => \A t \in KlineTimes : Covered(t) => t \in results'
    <3> SUFFICES ASSUME pc' = "done", NEW t \in KlineTimes, Covered(t), ~(t < cursor)
                 PROVE  t \in page
      BY <2>1 DEF FetchInv
    <3>1. page = Window(cursor)
      BY <2>1, <2>6, <2>7, FetchAssumption DEF IsPage
    <3>2. t \in Window(cursor)
      BY <1>a DEF Window, Covered, FetchInv
    <3> QED
      BY <3>1, <3>2
  <2>12. fetched' = Cardinality(results')
    <3>1. results \cap page = {}
      BY <1>a, <2>3 DEF FetchInv
    <3>2. Cardinality(results \cup page)
            = Cardinality(results) + Cardinality(page) - Cardinality({})
      BY <2>7, <3>1, FS_Union
    <3>3. Cardinality(results) \in Nat /\ Cardinality({}) = 0
      BY <2>7, FS_EmptySet, FS_CardinalityType
    <3> QED
      BY <2>1, <2>7, <3>2, <3>3 DEF FetchInv
  <2>13. cursor' - 1 \in KlineTimes /\ start_time <= cursor'
    BY <1>a, <2>4 DEF FetchInv
  <2>14. \A t \in KlineTimes : Covered(t)' <=> Covered(t)
    BY <2>5 DEF Covered
  <2>15. \A t \in KlineTimes : Covered(t)' /\ t < cursor' => t \in results'
    BY <1>a, <2>4, <2>10, <2>14
  <2>16. pc' \notin {"get", "backoff"}
    BY <2>6
  <2> QED
    BY <2>5, <2>8, <2>9, <2>11, <2>12, <2>13, <2>14, <2>15, <2>16 DEF FetchInv
<1>7. CASE ListKline
  <2>1. head' \in KlineTimes /\ head0 <= head'
    BY <1>7, <1>a DEF ListKline, FetchInv
  <2> QED
    BY <1>7, <2>1 DEF ListKline, FetchInv, TypeOK, Covered
<1>8. CASE UNCHANGED vars
  BY <1>8 DEF vars, FetchInv, TypeOK, Covered
<1> QED
  BY <1>1, <1>2, <1>3, <1>4, <1>5, <1>6, <1>7, <1>8 DEF Next, Client

LEMMA FetchInvariant == Spec => []FetchInv
BY InitFetch, NextFetch, PTL DEF Spec

-----------------------------------------------------------------------------
(* Theorems. *)

\* The attempts of a page and the collected klines keep their type.
THEOREM TypeCorrect == Spec => []TypeOK
<1>1. FetchInv => TypeOK
  BY DEF FetchInv
<1> QED
  BY <1>1, FetchInvariant, PTL

\* Pagination misses no kline that was listed when the call began, for every
\* page size and every growth of the exchange's list during the call.
THEOREM NothingMissed == Spec => []NoKlineMissed
<1>1. FetchInv => NoKlineMissed
  BY DEF FetchInv, NoKlineMissed, Covered
<1> QED
  BY <1>1, FetchInvariant, PTL

\* Consecutive pages are disjoint.
THEOREM NothingTwice == Spec => []NoKlineTwice
<1>1. FetchInv => NoKlineTwice
  BY DEF FetchInv, NoKlineTwice
<1> QED
  BY <1>1, FetchInvariant, PTL

\* Every step of the paginated fetch is a step of the atomic one or a stutter.
THEOREM ImplementsRange == Spec => AtomicRange
<1>1. Init => Atomic!Init
  BY DEF Init, Atomic!Init
<1>2. FetchInv /\ FetchInv' /\ [Next]_vars => [Atomic!Next]_(Atomic!vars)
  <2> SUFFICES ASSUME FetchInv, FetchInv', [Next]_vars
               PROVE  [Atomic!Next]_(Atomic!vars)
    OBVIOUS
  <2> USE DEF args
  <2>1. UNCHANGED <<start_time, end_time, head0>>
    BY DEF Next, Client, LoopTest, Throttled, AfterThrottle, Retry, Spent, RequestFails, EmptyPage,
           ReceivePage, ListKline, vars
  <2>2. CASE UNCHANGED <<pc, results>>
    BY <2>1, <2>2 DEF Atomic!vars
  <2>3. CASE pc \notin {"done", "failed"} /\ pc' \notin {"done", "failed"}
    BY <2>1, <2>3 DEF Atomic!vars
  <2>4. CASE pc \notin {"done", "failed"} /\ pc' = "failed"
    BY <2>1, <2>4 DEF Atomic!Next, Atomic!Fail
  <2>5. CASE pc \notin {"done", "failed"} /\ pc' = "done"
    <3>1. Atomic!KlinesUpTo(head0) \subseteq results'
      BY <2>1, <2>5 DEF Atomic!KlinesUpTo, FetchInv, Covered
    <3>2. results' \in SUBSET Atomic!KlinesUpTo(end_time)
      BY <2>1 DEF Atomic!KlinesUpTo, FetchInv, TypeOK
    <3> QED
      BY <2>1, <2>5, <3>1, <3>2 DEF Atomic!Next, Atomic!Return
  <2>6. pc \in {"done", "failed"} => UNCHANGED <<pc, results>>
    BY DEF Next, Client, LoopTest, Throttled, AfterThrottle, Retry, Spent, RequestFails, EmptyPage,
           ReceivePage, ListKline, vars
  <2> QED
    BY <2>2, <2>3, <2>4, <2>5, <2>6
<1> QED
  BY <1>1, <1>2, FetchInvariant, PTL DEF Spec, AtomicRange, Atomic!Spec
=============================================================================
