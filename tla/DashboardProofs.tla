--------------------------- MODULE DashboardProofs ---------------------------
(***************************************************************************)
(* Proofs about Dashboard for every number of messages, sockets and        *)
(* outages, size of the chart, length of a minute and price.               *)
(***************************************************************************)
EXTENDS Dashboard, FiniteSetTheorems, SequenceTheorems, WellFoundedInduction, TLAPS

-----------------------------------------------------------------------------
\* Every set of naturals has a least one.
LEMMA LeastNatural ==
  ASSUME NEW T \in SUBSET Nat, T # {}
  PROVE  \E x \in T : \A y \in T : x <= y
<1> DEFINE R == OpToRel(<, Nat)
<1>1. \A x, y \in Nat : y < x => <<y, x>> \in R
  BY DEF OpToRel
<1>2. IsWellFoundedOn(R, Nat)
  BY NatLessThanWellFounded
<1> HIDE DEF R
<1>3. PICK x \in T : \A y \in T : ~(<<y, x>> \in R)
  BY <1>2, WFMin
<1>4. \A y \in T : ~(y < x)
  BY <1>1, <1>3
<1>5. \A y \in T : x \in Int /\ y \in Int
  OBVIOUS
<1> QED
  BY <1>4, <1>5

-----------------------------------------------------------------------------
(* Minutes. *)

Numbers == 1..NumKlines

\* What div computes.
LEMMA Minute ==
  ASSUME NEW k \in Nat
  PROVE  /\ OpenTime(k) \in Nat
         /\ Updates * OpenTime(k) <= k /\ k < Updates * OpenTime(k) + Updates
BY DashboardAssumption DEF OpenTime

LEMMA MinuteOf ==
  ASSUME NEW k \in Nat, NEW t \in Nat, Updates * t <= k, k < Updates * t + Updates
  PROVE  OpenTime(k) = t
BY DashboardAssumption DEF OpenTime

LEMMA MinuteGrows ==
  ASSUME NEW a \in Nat, NEW b \in Nat, a <= b
  PROVE  OpenTime(a) <= OpenTime(b)
BY DashboardAssumption DEF OpenTime

LEMMA NumberFacts ==
  /\ Numbers \subseteq Nat /\ NumKlines \in Nat
  /\ \A k \in Numbers : k \in Int /\ OpenTime(k) \in Int
  /\ \A a, b \in Numbers : OpenTime(a) < OpenTime(b) => a < b
<1>1. Numbers \subseteq Nat /\ NumKlines \in Nat
  BY DashboardAssumption DEF Numbers
<1>2. \A k \in Numbers : k \in Int /\ OpenTime(k) \in Int
  BY <1>1, Minute
<1>3. ASSUME NEW a \in Numbers, NEW b \in Numbers, OpenTime(a) < OpenTime(b)
      PROVE  a < b
  <2>1. CASE b <= a
    <3>1. OpenTime(b) <= OpenTime(a)
      BY <1>1, <2>1, MinuteGrows
    <3> QED
      BY <1>2, <1>3, <3>1
  <2> QED
    BY <1>2, <2>1
<1> QED
  BY <1>1, <1>2, <1>3

-----------------------------------------------------------------------------
(* Charts: sequences of kline numbers in time order.  The order is stated   *)
(* with distances: between two candles there is room for those in between.  *)

InOrder(cs) ==
  \A i, j \in 1..Len(cs) : i <= j => j - i <= OpenTime(cs[j]) - OpenTime(cs[i])

LEMMA ChartFacts ==
  ASSUME NEW cs \in Seq(Numbers)
  PROVE  /\ Len(cs) \in Nat /\ DOMAIN cs = 1..Len(cs)
         /\ \A i \in 1..Len(cs) : /\ i \in Int /\ cs[i] \in Numbers
                                  /\ cs[i] \in Int /\ OpenTime(cs[i]) \in Int
<1>1. Len(cs) \in Nat /\ DOMAIN cs = 1..Len(cs)
  BY LenProperties
<1>2. \A i \in 1..Len(cs) : cs[i] \in Numbers
  BY ElementOfSeq
<1>3. \A i \in 1..Len(cs) : cs[i] \in Int /\ OpenTime(cs[i]) \in Int
  BY <1>2, NumberFacts
<1> QED
  BY <1>1, <1>2, <1>3

\* A function on 1..n with numbers as values is a chart of n candles.
LEMMA IsChart ==
  ASSUME NEW n \in Nat, NEW f, f = [i \in 1..n |-> f[i]],
         \A i \in 1..n : f[i] \in Numbers
  PROVE  f \in Seq(Numbers) /\ Len(f) = n
<1>1. f \in [1..n -> Numbers]
  OBVIOUS
<1>2. f \in Seq(Numbers)
  BY <1>1, SeqDef
<1>3. Len(f) \in Nat /\ 1..Len(f) = 1..n
  BY <1>1, <1>2, LenProperties
<1>4. Len(f) = n
  <2>1. CASE Len(f) < n
    <3>1. n \in 1..n /\ n \notin 1..Len(f)
      BY <1>3, <2>1
    <3> QED
      BY <1>3, <3>1
  <2>2. CASE n < Len(f)
    <3>1. Len(f) \in 1..Len(f) /\ Len(f) \notin 1..n
      BY <1>3, <2>2
    <3> QED
      BY <1>3, <3>1
  <2> QED
    BY <1>3, <2>1, <2>2
<1> QED
  BY <1>2, <1>4

\* What trimming leaves: the newest candles, in their order.
LEMMA TrimChart ==
  ASSUME NEW cs \in Seq(Numbers)
  PROVE  /\ Trim(cs) \in Seq(Numbers) /\ Len(Trim(cs)) \in Nat
         /\ Len(Trim(cs)) = IF Len(cs) > MAX_CANDLES THEN MAX_CANDLES ELSE Len(cs)
         /\ \A i \in 1..Len(Trim(cs)) :
              /\ i + (Len(cs) - Len(Trim(cs))) \in 1..Len(cs)
              /\ Trim(cs)[i] = cs[i + (Len(cs) - Len(Trim(cs)))]
<1>1. /\ Len(cs) \in Nat /\ MAX_CANDLES \in Nat /\ MAX_CANDLES >= 1
      /\ \A i \in 1..Len(cs) : cs[i] \in Numbers
  BY ChartFacts, DashboardAssumption
<1>2. CASE Len(cs) > MAX_CANDLES
  <2> DEFINE m == Len(cs) - MAX_CANDLES + 1
  <2>1. m \in Int /\ Len(cs) \in Int /\ m <= Len(cs) /\ Len(cs) - m + 1 = MAX_CANDLES
        /\ \A i \in m..Len(cs) : cs[i] \in Numbers
    BY <1>1, <1>2
  <2>2. Trim(cs) = SubSeq(cs, m, Len(cs))
    BY <1>2 DEF Trim, Newest
  <2> HIDE DEF m
  <2>3. /\ SubSeq(cs, m, Len(cs)) \in Seq(Numbers)
        /\ Len(SubSeq(cs, m, Len(cs))) = IF m <= Len(cs) THEN Len(cs) - m + 1 ELSE 0
        /\ \A i \in 1..(Len(cs) - m + 1) : SubSeq(cs, m, Len(cs))[i] = cs[m + i - 1]
    BY <2>1, SubSeqProperties
  <2>4. /\ Trim(cs) \in Seq(Numbers) /\ Len(Trim(cs)) = MAX_CANDLES
        /\ \A i \in 1..MAX_CANDLES : Trim(cs)[i] = cs[m + i - 1]
    BY <2>1, <2>2, <2>3
  <2>5. \A i \in 1..MAX_CANDLES : /\ i + (Len(cs) - MAX_CANDLES) \in 1..Len(cs)
                                  /\ m + i - 1 = i + (Len(cs) - MAX_CANDLES)
    BY <1>1, <1>2 DEF m
  <2> QED
    BY <1>1, <1>2, <2>4, <2>5
<1>3. CASE ~(Len(cs) > MAX_CANDLES)
  <2>1. Trim(cs) = cs
    BY <1>3 DEF Trim, Newest
  <2> QED
    BY <1>1, <1>3, <2>1
<1> QED
  BY <1>2, <1>3

LEMMA TrimInOrder ==
  ASSUME NEW cs \in Seq(Numbers), InOrder(cs)
  PROVE  InOrder(Trim(cs))
<1> DEFINE d == Len(cs) - Len(Trim(cs))
<1>1. /\ d \in Int /\ Len(Trim(cs)) \in Nat
      /\ \A i \in 1..Len(Trim(cs)) : i + d \in 1..Len(cs) /\ Trim(cs)[i] = cs[i + d]
  <2>1. Len(cs) \in Nat /\ Len(Trim(cs)) \in Nat
    BY TrimChart, LenProperties
  <2>2. \A i \in 1..Len(Trim(cs)) : /\ i + (Len(cs) - Len(Trim(cs))) \in 1..Len(cs)
                                  /\ Trim(cs)[i] = cs[i + (Len(cs) - Len(Trim(cs)))]
    BY TrimChart
  <2> QED
    BY <2>1, <2>2
<1> HIDE DEF d
<1>2. ASSUME NEW i \in 1..Len(Trim(cs)), NEW j \in 1..Len(Trim(cs)), i <= j
      PROVE  j - i <= OpenTime(Trim(cs)[j]) - OpenTime(Trim(cs)[i])
  <2>1. /\ i + d \in 1..Len(cs) /\ j + d \in 1..Len(cs) /\ i + d <= j + d
        /\ (j + d) - (i + d) = j - i
    BY <1>1, <1>2
  <2>2. (j + d) - (i + d) <= OpenTime(cs[j + d]) - OpenTime(cs[i + d])
    BY <2>1 DEF InOrder
  <2> QED
    BY <1>1, <2>1, <2>2
<1> QED
  BY <1>2 DEF InOrder

-----------------------------------------------------------------------------
(* upsertCandle. *)

\* The candle of k's minute, if there is one, is replaced.
LEMMA ReplacedChart ==
  ASSUME NEW cs \in Seq(Numbers), InOrder(cs), NEW k \in Numbers
  PROVE  /\ Replaced(cs, k) \in Seq(Numbers) /\ Len(Replaced(cs, k)) = Len(cs)
         /\ \A i \in 1..Len(cs) :
              /\ Replaced(cs, k)[i] = IF OpenTime(cs[i]) = OpenTime(k) THEN k ELSE cs[i]
              /\ OpenTime(Replaced(cs, k)[i]) = OpenTime(cs[i])
         /\ InOrder(Replaced(cs, k))
<1> DEFINE r == Replaced(cs, k)
<1>1. /\ Len(cs) \in Nat /\ DOMAIN cs = 1..Len(cs)
      /\ \A i \in 1..Len(cs) : cs[i] \in Numbers
  BY ChartFacts
<1>2. r = [i \in 1..Len(cs) |-> IF OpenTime(cs[i]) = OpenTime(k) THEN k ELSE cs[i]]
  BY <1>1 DEF Replaced
<1>3. /\ r = [i \in 1..Len(cs) |-> r[i]]
      /\ \A i \in 1..Len(cs) :
           /\ r[i] = IF OpenTime(cs[i]) = OpenTime(k) THEN k ELSE cs[i]
           /\ r[i] \in Numbers
           /\ OpenTime(r[i]) = OpenTime(cs[i])
  BY <1>1, <1>2
<1> HIDE DEF r
<1>4. r \in Seq(Numbers) /\ Len(r) = Len(cs)
  BY <1>1, <1>3, IsChart
<1>5. InOrder(r)
  BY <1>3, <1>4 DEF InOrder
<1> QED
  BY <1>3, <1>4, <1>5 DEF r

\* Otherwise k comes between the earlier and the later candles.
LEMMA InsertedChart ==
  ASSUME NEW cs \in Seq(Numbers), InOrder(cs), NEW k \in Numbers,
         \A i \in 1..Len(cs) : OpenTime(cs[i]) # OpenTime(k)
  PROVE  /\ Inserted(cs, k) \in Seq(Numbers) /\ Len(Inserted(cs, k)) = Len(cs) + 1
         /\ \E p \in 1..(Len(cs) + 1) :
              /\ Inserted(cs, k)[p] = k
              /\ \A i \in 1..Len(cs) :
                   IF i < p THEN /\ OpenTime(cs[i]) < OpenTime(k)
                                 /\ Inserted(cs, k)[i] = cs[i]
                            ELSE /\ OpenTime(cs[i]) > OpenTime(k)
                                 /\ Inserted(cs, k)[i + 1] = cs[i]
         /\ InOrder(Inserted(cs, k))
<1> DEFINE n == Len(cs)
           r == Inserted(cs, k)
           kt == OpenTime(k)
           t == [i \in 1..n |-> OpenTime(cs[i])]
<1>1. /\ n \in Nat /\ kt \in Int
      /\ \A i \in 1..n : cs[i] \in Numbers /\ t[i] \in Int /\ t[i] = OpenTime(cs[i])
      /\ \A i, j \in 1..n : i <= j => j - i <= t[j] - t[i]
      /\ \A i \in 1..n : t[i] # kt
  BY ChartFacts, NumberFacts DEF InOrder
<1>2. /\ r = [i \in 1..(n + 1) |-> r[i]]
      /\ \A i \in 1..(n + 1) :
           r[i] = IF i <= n /\ OpenTime(cs[i]) < kt THEN cs[i]
                  ELSE IF i > 1 /\ OpenTime(cs[i - 1]) > kt THEN cs[i - 1] ELSE k
  BY DEF Inserted
<1> HIDE DEF r, n, t, kt
<1>3. PICK p \in 1..(n + 1) :
        /\ p <= n => t[p] > kt
        /\ \A i \in 1..n : i < p => t[i] < kt
  <2> DEFINE Later == {i \in 1..(n + 1) : i <= n => t[i] > kt}
  <2>1. Later \in SUBSET Nat /\ n + 1 \in Later
    BY <1>1
  <2>2. PICK p \in Later : \A y \in Later : p <= y
    BY <2>1, LeastNatural
  <2>3. ASSUME NEW i \in 1..n, i < p
        PROVE  t[i] < kt
    <3>1. i \notin Later
      BY <1>1, <2>2, <2>3
    <3>2. ~(t[i] > kt)
      BY <1>1, <3>1
    <3> QED
      BY <1>1, <3>2
  <2> QED
    BY <2>2, <2>3
<1>4. \A i \in 1..n : p <= i => t[i] > kt
  <2> SUFFICES ASSUME NEW i \in 1..n, p <= i
               PROVE  t[i] > kt
    OBVIOUS
  <2>1. p \in 1..n /\ t[p] > kt /\ i - p >= 0
    BY <1>1, <1>3
  <2>2. i - p <= t[i] - t[p]
    BY <1>1, <2>1
  <2> QED
    BY <1>1, <2>1, <2>2
<1>5. r[p] = k
  <2>1. ~(p <= n /\ OpenTime(cs[p]) < kt)
    BY <1>1, <1>3
  <2>2. ~(p > 1 /\ OpenTime(cs[p - 1]) > kt)
    <3> SUFFICES ASSUME p > 1 PROVE ~(OpenTime(cs[p - 1]) > kt)
      OBVIOUS
    <3>1. p - 1 \in 1..n /\ p - 1 < p
      BY <1>1
    <3> QED
      BY <1>1, <1>3, <3>1
  <2> QED
    BY <1>2, <2>1, <2>2
<1>6. \A i \in 1..n : i < p => r[i] = cs[i]
  <2> SUFFICES ASSUME NEW i \in 1..n, i < p PROVE r[i] = cs[i]
    OBVIOUS
  <2>1. i \in 1..(n + 1) /\ i <= n /\ OpenTime(cs[i]) < kt
    BY <1>1, <1>3
  <2> QED
    BY <1>2, <2>1
<1>7. \A i \in 1..n : p <= i => r[i + 1] = cs[i]
  <2> SUFFICES ASSUME NEW i \in 1..n, p <= i PROVE r[i + 1] = cs[i]
    OBVIOUS
  <2>1. /\ i + 1 \in 1..(n + 1) /\ i + 1 > 1 /\ (i + 1) - 1 = i
        /\ OpenTime(cs[i]) > kt
    BY <1>1, <1>4
  <2>2. ~(i + 1 <= n /\ OpenTime(cs[i + 1]) < kt)
    <3> SUFFICES ASSUME i + 1 <= n PROVE ~(OpenTime(cs[i + 1]) < kt)
      OBVIOUS
    <3>1. i + 1 \in 1..n /\ p <= i + 1
      BY <1>1
    <3>2. t[i + 1] > kt /\ t[i + 1] \in Int /\ t[i + 1] = OpenTime(cs[i + 1])
      BY <1>1, <1>4, <3>1
    <3> QED
      BY <1>1, <3>2
  <2> QED
    BY <1>2, <2>1, <2>2
<1>8. \A i \in 1..(n + 1) : i = p \/ (i < p /\ i \in 1..n)
                           \/ (i > p /\ i - 1 \in 1..n /\ p <= i - 1 /\ (i - 1) + 1 = i)
  BY <1>1
<1>9. \A i \in 1..(n + 1) : r[i] \in Numbers
  BY <1>1, <1>5, <1>6, <1>7, <1>8
<1>10. r \in Seq(Numbers) /\ Len(r) = n + 1
  <2>1. n + 1 \in Nat
    BY <1>1
  <2> HIDE DEF n, r
  <2> QED
    BY <1>2, <1>9, <2>1, IsChart
<1>11. InOrder(r)
  <2>1. /\ OpenTime(r[p]) = kt
        /\ \A i \in 1..n : i < p => OpenTime(r[i]) = t[i]
        /\ \A i \in 1..(n + 1) : i > p => i - 1 \in 1..n /\ OpenTime(r[i]) = t[i - 1]
    BY <1>1, <1>5, <1>6, <1>7, <1>8 DEF kt
  \* From an earlier candle to k and from k to a later one.
  <2>2. ASSUME NEW i \in 1..n, i < p PROVE p - i <= kt - t[i]
    <3>1. p - 1 \in 1..n /\ i <= p - 1 /\ p - 1 < p
      BY <1>1, <2>2
    <3>2. (p - 1) - i <= t[p - 1] - t[i] /\ t[p - 1] < kt
      BY <1>1, <1>3, <3>1
    <3> QED
      BY <1>1, <3>1, <3>2
  <2>3. ASSUME NEW j \in 1..n, p <= j PROVE (j + 1) - p <= t[j] - kt
    <3>1. p \in 1..n
      BY <1>1, <2>3
    <3>2. j - p <= t[j] - t[p] /\ t[p] > kt
      BY <1>1, <1>4, <2>3, <3>1
    <3> QED
      BY <1>1, <3>1, <3>2
  <2>4. ASSUME NEW i \in 1..(n + 1), NEW j \in 1..(n + 1), i <= j
        PROVE  j - i <= OpenTime(r[j]) - OpenTime(r[i])
    <3>1. CASE i < p /\ j < p
      <4>1. i \in 1..n /\ j \in 1..n
        BY <1>1, <3>1
      <4> QED
        BY <1>1, <2>1, <2>4, <3>1, <4>1
    <3>2. CASE i < p /\ j = p
      <4>1. i \in 1..n
        BY <1>1, <3>2
      <4> QED
        BY <2>1, <2>2, <3>2, <4>1
    <3>3. CASE i < p /\ j > p
      <4>1. i \in 1..n /\ j - 1 \in 1..n /\ p <= j - 1
        BY <1>1, <3>3
      <4>2. p - i <= kt - t[i] /\ ((j - 1) + 1) - p <= t[j - 1] - kt
        BY <2>2, <2>3, <3>3, <4>1
      <4>3. OpenTime(r[i]) = t[i] /\ OpenTime(r[j]) = t[j - 1]
        BY <2>1, <3>3, <4>1
      <4> QED
        BY <1>1, <4>1, <4>2, <4>3
    <3>4. CASE i = p /\ j = p
      BY <1>1, <2>1, <3>4
    <3>5. CASE i = p /\ j > p
      <4>1. j - 1 \in 1..n /\ p <= j - 1
        BY <1>1, <3>5
      <4>2. ((j - 1) + 1) - p <= t[j - 1] - kt
        BY <2>3, <4>1
      <4> QED
        BY <1>1, <2>1, <3>5, <4>1, <4>2
    <3>6. CASE i > p
      <4>1. i - 1 \in 1..n /\ j - 1 \in 1..n /\ i - 1 <= j - 1 /\ j > p
        BY <1>1, <2>4, <3>6
      <4>2. (j - 1) - (i - 1) <= t[j - 1] - t[i - 1]
        BY <1>1, <4>1
      <4>3. OpenTime(r[i]) = t[i - 1] /\ OpenTime(r[j]) = t[j - 1]
        BY <2>1, <3>6, <4>1
      <4> QED
        BY <4>1, <4>2, <4>3
    <3> QED
      BY <1>1, <2>4, <3>1, <3>2, <3>3, <3>4, <3>5, <3>6
  <2> QED
    BY <1>10, <2>4 DEF InOrder
<1>12. \A i \in 1..n : IF i < p THEN OpenTime(cs[i]) < kt /\ r[i] = cs[i]
                              ELSE OpenTime(cs[i]) > kt /\ r[i + 1] = cs[i]
  <2> SUFFICES ASSUME NEW i \in 1..n
               PROVE  IF i < p THEN OpenTime(cs[i]) < kt /\ r[i] = cs[i]
                               ELSE OpenTime(cs[i]) > kt /\ r[i + 1] = cs[i]
    OBVIOUS
  <2>1. CASE i < p
    BY <1>1, <1>3, <1>6, <2>1
  <2>2. CASE ~(i < p)
    <3>1. p <= i
      BY <1>1, <2>2
    <3> QED
      BY <1>1, <1>4, <1>7, <2>2, <3>1
  <2> QED
    BY <2>1, <2>2
<1> QED
  BY <1>5, <1>10, <1>11, <1>12 DEF r, n, kt

-----------------------------------------------------------------------------
(* What a chart shows. *)

Holds(cs, k) == \E i \in 1..Len(cs) : OpenTime(cs[i]) = OpenTime(k) /\ cs[i] >= k

ShownIn(cs, k) ==
  Holds(cs, k) \/ (Len(cs) = MAX_CANDLES /\ OpenTime(k) < OpenTime(cs[1]))

\* What a chart holds is shown when the chart has been trimmed.
LEMMA TrimShows ==
  ASSUME NEW cs \in Seq(Numbers), InOrder(cs), NEW k \in Numbers, Holds(cs, k)
  PROVE  ShownIn(Trim(cs), k)
<1> DEFINE d == Len(cs) - Len(Trim(cs))
           r == Trim(cs)
<1>1. /\ Len(cs) \in Nat /\ Len(r) \in Nat /\ d = Len(cs) - Len(r)
      /\ Len(r) = IF Len(cs) > MAX_CANDLES THEN MAX_CANDLES ELSE Len(cs)
      /\ \A i \in 1..Len(r) : i + d \in 1..Len(cs) /\ r[i] = cs[i + d]
      /\ MAX_CANDLES \in Nat /\ MAX_CANDLES >= 1 /\ d \in Nat
  BY TrimChart, ChartFacts, DashboardAssumption
<1>2. PICK i \in 1..Len(cs) : OpenTime(cs[i]) = OpenTime(k) /\ cs[i] >= k
  BY DEF Holds
<1> HIDE DEF d, r
<1>3. /\ i \in Int /\ d \in Int /\ Len(r) \in Int /\ Len(cs) = Len(r) + d
      /\ 1 <= i /\ i <= Len(cs)
  BY <1>1, <1>2
<1>4. CASE i > d
  <2>1. i - d \in 1..Len(r) /\ (i - d) + d = i
    BY <1>3, <1>4
  <2>2. r[i - d] = cs[i]
    BY <1>1, <2>1
  <2> QED
    BY <1>2, <2>1, <2>2 DEF ShownIn, Holds, r
<1>5. CASE i <= d
  <2>1. Len(r) = MAX_CANDLES /\ 1 \in 1..Len(r) /\ 1 + d \in 1..Len(cs) /\ i <= 1 + d
    <3>1. d >= 1 /\ i <= 1 + d
      BY <1>3, <1>5
    <3>2. Len(r) = MAX_CANDLES /\ Len(r) >= 1
      BY <1>1, <1>3, <3>1
    <3> QED
      BY <1>3, <3>1, <3>2
  <2>2. (1 + d) - i <= OpenTime(cs[1 + d]) - OpenTime(cs[i])
    BY <2>1 DEF InOrder
  <2>3. OpenTime(cs[1 + d]) \in Int /\ OpenTime(cs[i]) \in Int /\ r[1] = cs[1 + d]
    BY <1>1, <2>1, ChartFacts
  <2>4. OpenTime(k) < OpenTime(r[1])
    BY <1>2, <1>3, <1>5, <2>2, <2>3
  <2> QED
    BY <2>1, <2>4 DEF ShownIn, r
<1> QED
  BY <1>3, <1>4, <1>5

\* A chart with the candle of message e instead of that of the same minute, or
\* with one more candle: what it holds, and what is before it.
Revises(r, cs, e) ==
  /\ r \in Seq(Numbers) /\ InOrder(r) /\ Holds(r, e)
  /\ Len(r) \in {Len(cs), Len(cs) + 1}
  /\ \A i \in 1..Len(r) : r[i] = e \/ \E j \in 1..Len(cs) : r[i] = cs[j]
  /\ \A k \in Numbers : Holds(cs, k) /\ (OpenTime(k) # OpenTime(e) \/ k <= e) => Holds(r, k)
  /\ Len(cs) = MAX_CANDLES => OpenTime(cs[1]) <= OpenTime(r[1 + Len(r) - Len(cs)])

LEMMA ReplacedRevises ==
  ASSUME NEW cs \in Seq(Numbers), InOrder(cs), NEW e \in Numbers,
         NEW x \in 1..Len(cs), OpenTime(cs[x]) = OpenTime(e)
  PROVE  Revises(Replaced(cs, e), cs, e)
<1> DEFINE r == Replaced(cs, e)
<1>1. /\ r \in Seq(Numbers) /\ Len(r) = Len(cs) /\ InOrder(r)
      /\ \A i \in 1..Len(cs) : /\ r[i] = IF OpenTime(cs[i]) = OpenTime(e) THEN e ELSE cs[i]
                               /\ OpenTime(r[i]) = OpenTime(cs[i])
  BY ReplacedChart
<1> HIDE DEF r
<1>2. Len(cs) \in Nat /\ e \in Int /\ \A i \in 1..Len(cs) : OpenTime(cs[i]) \in Int
  BY ChartFacts, NumberFacts
<1>3. Holds(r, e)
  <2>1. r[x] = e
    BY <1>1
  <2> QED
    BY <1>1, <1>2, <2>1 DEF Holds
<1>4. \A i \in 1..Len(r) : r[i] = e \/ \E j \in 1..Len(cs) : r[i] = cs[j]
  BY <1>1
<1>5. ASSUME NEW k \in Numbers, Holds(cs, k), OpenTime(k) # OpenTime(e) \/ k <= e
      PROVE  Holds(r, k)
  <2>1. PICK i \in 1..Len(cs) : OpenTime(cs[i]) = OpenTime(k) /\ cs[i] >= k
    BY <1>5 DEF Holds
  <2>2. i \in 1..Len(r) /\ OpenTime(r[i]) = OpenTime(k) /\ r[i] >= k
    <3>1. CASE OpenTime(k) = OpenTime(e)
      <4>1. r[i] = e /\ k <= e /\ k \in Int
        BY <1>1, <1>5, <2>1, <3>1, NumberFacts
      <4> QED
        BY <1>1, <1>2, <2>1, <3>1, <4>1
    <3>2. CASE OpenTime(k) # OpenTime(e)
      BY <1>1, <2>1, <3>2
    <3> QED
      BY <3>1, <3>2
  <2> QED
    BY <2>2 DEF Holds
<1>6. Len(cs) = MAX_CANDLES => OpenTime(cs[1]) <= OpenTime(r[1 + Len(r) - Len(cs)])
  <2>1. 1 \in 1..Len(cs) /\ 1 + Len(r) - Len(cs) = 1
    BY <1>1, <1>2
  <2> QED
    BY <1>1, <1>2, <2>1
<1> QED
  BY <1>1, <1>3, <1>4, <1>5, <1>6 DEF Revises, r

LEMMA InsertedRevises ==
  ASSUME NEW cs \in Seq(Numbers), InOrder(cs), NEW e \in Numbers,
         \A i \in 1..Len(cs) : OpenTime(cs[i]) # OpenTime(e)
  PROVE  Revises(Inserted(cs, e), cs, e)
<1> DEFINE r == Inserted(cs, e)
           n == Len(cs)
<1>1. r \in Seq(Numbers) /\ Len(r) = n + 1 /\ InOrder(r)
  BY InsertedChart
<1>2. PICK p \in 1..(n + 1) :
        /\ r[p] = e
        /\ \A i \in 1..n : IF i < p THEN OpenTime(cs[i]) < OpenTime(e) /\ r[i] = cs[i]
                                    ELSE OpenTime(cs[i]) > OpenTime(e) /\ r[i + 1] = cs[i]
  BY InsertedChart
<1>3. /\ n \in Nat /\ e \in Int /\ OpenTime(e) \in Int
      /\ \A i \in 1..n : OpenTime(cs[i]) \in Int
  BY ChartFacts, NumberFacts
<1> HIDE DEF r, n
<1>4. Holds(r, e)
  BY <1>1, <1>2, <1>3 DEF Holds
<1>5. ASSUME NEW i \in 1..(n + 1)
      PROVE  r[i] = e \/ \E j \in 1..n : r[i] = cs[j]
  <2>1. CASE i < p
    <3>1. i \in 1..n
      BY <1>3, <2>1
    <3> QED
      BY <1>2, <2>1, <3>1
  <2>2. CASE i > p
    <3>1. i - 1 \in 1..n /\ ~(i - 1 < p) /\ (i - 1) + 1 = i
      BY <1>3, <2>2
    <3>2. r[(i - 1) + 1] = cs[i - 1]
      BY <1>2, <3>1
    <3> QED
      BY <3>1, <3>2
  <2> QED
    BY <1>2, <1>3, <2>1, <2>2
<1>6. ASSUME NEW k \in Numbers, Holds(cs, k)
      PROVE  Holds(r, k)
  <2>1. PICK i \in 1..n : OpenTime(cs[i]) = OpenTime(k) /\ cs[i] >= k
    BY <1>6 DEF Holds, n
  <2>2. i \in 1..(n + 1) /\ i + 1 \in 1..(n + 1)
    BY <1>3
  <2>3. r[i] = cs[i] \/ r[i + 1] = cs[i]
    BY <1>2
  <2> QED
    BY <1>1, <2>1, <2>2, <2>3 DEF Holds
<1>7. ASSUME n = MAX_CANDLES
      PROVE  OpenTime(cs[1]) <= OpenTime(r[1 + (n + 1) - n])
  <2>1. 1 \in 1..n /\ 1 + (n + 1) - n = 2 /\ OpenTime(cs[1]) \in Int
    BY <1>3, <1>7, DashboardAssumption
  <2>2. CASE p = 1
    <3>1. r[1 + 1] = cs[1]
      BY <1>2, <2>1, <2>2
    <3> QED
      BY <2>1, <3>1
  <2>3. CASE p = 2
    <3>1. OpenTime(cs[1]) < OpenTime(e)
      BY <1>2, <2>1, <2>3
    <3> QED
      BY <1>2, <1>3, <2>1, <2>3, <3>1
  <2>4. CASE p > 2
    <3>1. 2 \in 1..n
      BY <1>3, <2>4
    <3>2. r[2] = cs[2] /\ 2 - 1 <= OpenTime(cs[2]) - OpenTime(cs[1])
      BY <1>2, <2>1, <2>4, <3>1 DEF InOrder, n
    <3> QED
      BY <1>3, <2>1, <3>1, <3>2
  <2> QED
    BY <1>3, <2>2, <2>3, <2>4
<1> QED
  BY <1>1, <1>4, <1>5, <1>6, <1>7 DEF Revises, r, n

\* A message's candle is shown, and all that was before, unless the message takes
\* back what a later one of the same minute had written.
LEMMA UpsertChart ==
  ASSUME NEW cs \in Seq(Numbers), InOrder(cs), Len(cs) <= MAX_CANDLES, NEW e \in Numbers
  PROVE  /\ UpsertCandle(cs, e) \in Seq(Numbers) /\ InOrder(UpsertCandle(cs, e))
         /\ Len(UpsertCandle(cs, e)) <= MAX_CANDLES
         /\ \A i \in 1..Len(UpsertCandle(cs, e)) :
              \/ UpsertCandle(cs, e)[i] = e
              \/ \E j \in 1..Len(cs) : UpsertCandle(cs, e)[i] = cs[j]
         /\ ShownIn(UpsertCandle(cs, e), e)
         /\ \A k \in Numbers : ShownIn(cs, k) /\ (OpenTime(k) # OpenTime(e) \/ k <= e)
                                 => ShownIn(UpsertCandle(cs, e), k)
<1>1. Len(cs) \in Nat /\ DOMAIN cs = 1..Len(cs) /\ MAX_CANDLES \in Nat /\ MAX_CANDLES >= 1
  BY ChartFacts, DashboardAssumption
<1>2. PICK r : Revises(r, cs, e) /\ UpsertCandle(cs, e) = Trim(r)
  <2>1. CASE \E i \in DOMAIN cs : OpenTime(cs[i]) = OpenTime(e)
    <3>1. Revises(Replaced(cs, e), cs, e)
      BY <1>1, <2>1, ReplacedRevises
    <3> QED
      BY <2>1, <3>1 DEF UpsertCandle
  <2>2. CASE ~(\E i \in DOMAIN cs : OpenTime(cs[i]) = OpenTime(e))
    <3>1. Revises(Inserted(cs, e), cs, e)
      BY <1>1, <2>2, InsertedRevises
    <3> QED
      BY <2>2, <3>1 DEF UpsertCandle
  <2> QED
    BY <2>1, <2>2
<1> DEFINE u == UpsertCandle(cs, e)
<1>3. /\ r \in Seq(Numbers) /\ InOrder(r) /\ Holds(r, e) /\ Len(r) \in Nat
      /\ Len(r) \in {Len(cs), Len(cs) + 1} /\ u = Trim(r)
  BY <1>1, <1>2, LenProperties DEF Revises
<1>4. /\ u \in Seq(Numbers) /\ InOrder(u) /\ Len(u) \in Nat
      /\ Len(u) = IF Len(r) > MAX_CANDLES THEN MAX_CANDLES ELSE Len(r)
      /\ \A i \in 1..Len(u) : /\ i + (Len(r) - Len(u)) \in 1..Len(r)
                              /\ u[i] = r[i + (Len(r) - Len(u))]
  BY <1>3, TrimChart, TrimInOrder
<1> HIDE DEF u
<1>5. \A i \in 1..Len(u) : u[i] = e \/ \E j \in 1..Len(cs) : u[i] = cs[j]
  BY <1>2, <1>4 DEF Revises
<1>6. ShownIn(u, e)
  BY <1>3, TrimShows
<1>7. ASSUME NEW k \in Numbers, ShownIn(cs, k), OpenTime(k) # OpenTime(e) \/ k <= e
      PROVE  ShownIn(u, k)
  <2>1. CASE Holds(cs, k)
    <3>1. Holds(r, k)
      BY <1>2, <1>7, <2>1 DEF Revises
    <3> QED
      BY <1>3, <3>1, TrimShows
  <2>2. CASE Len(cs) = MAX_CANDLES /\ OpenTime(k) < OpenTime(cs[1])
    <3>1. /\ Len(u) = MAX_CANDLES /\ 1 \in 1..Len(u) /\ 1 \in 1..Len(cs)
          /\ 1 + (Len(r) - Len(u)) = 1 + Len(r) - Len(cs)
      <4>1. Len(r) >= MAX_CANDLES
        BY <1>1, <1>3, <2>2
      <4>2. Len(u) = MAX_CANDLES
        BY <1>1, <1>3, <1>4, <4>1
      <4> QED
        BY <1>1, <1>3, <2>2, <4>2
    <3>2. u[1] = r[1 + Len(r) - Len(cs)]
      BY <1>4, <3>1
    <3>3. OpenTime(cs[1]) <= OpenTime(u[1])
      BY <1>2, <2>2, <3>2 DEF Revises
    <3>4. OpenTime(k) \in Int /\ OpenTime(cs[1]) \in Int /\ OpenTime(u[1]) \in Int
      BY <1>4, <3>1, ChartFacts, NumberFacts
    <3> QED
      BY <2>2, <3>1, <3>3, <3>4 DEF ShownIn
  <2> QED
    BY <1>7, <2>1, <2>2 DEF ShownIn
<1> QED
  BY <1>1, <1>3, <1>4, <1>5, <1>6, <1>7 DEF u

-----------------------------------------------------------------------------
(* The rows of the backend. *)

\* All of them, once n klines are written.
All(n) ==
  [i \in 1..(IF n = 0 THEN 0 ELSE OpenTime(n) + 1) |->
     IF i * Updates - 1 <= n THEN i * Updates - 1 ELSE n]

LEMMA AllRows ==
  ASSUME NEW n \in 0..NumKlines
  PROVE  /\ All(n) \in Seq(Numbers) /\ InOrder(All(n)) /\ Len(All(n)) \in Nat
         /\ Len(All(n)) = IF n = 0 THEN 0 ELSE OpenTime(n) + 1
         /\ \A i \in 1..Len(All(n)) : OpenTime(All(n)[i]) = i - 1 /\ All(n)[i] <= n
         /\ \A k \in 1..n : /\ OpenTime(k) + 1 \in 1..Len(All(n))
                            /\ All(n)[OpenTime(k) + 1] >= k
<1> DEFINE m == IF n = 0 THEN 0 ELSE OpenTime(n) + 1
           f == All(n)
<1>1. n \in Nat /\ n <= NumKlines /\ NumKlines \in Nat /\ Updates \in Nat /\ Updates >= 2
  BY DashboardAssumption
<1>2. /\ OpenTime(n) \in Nat
      /\ Updates * OpenTime(n) <= n /\ n < Updates * OpenTime(n) + Updates
  BY <1>1, Minute
<1>3. m \in Nat
  BY <1>2
<1>4. f = [i \in 1..m |-> IF i * Updates - 1 <= n THEN i * Updates - 1 ELSE n]
  BY DEF All
<1> HIDE DEF f
<1>5. ASSUME NEW i \in 1..m
      PROVE  f[i] \in Numbers /\ OpenTime(f[i]) = i - 1 /\ f[i] <= n
  <2>1. /\ n >= 1 /\ i \in Nat /\ i >= 1 /\ i <= OpenTime(n) + 1
        /\ f[i] = IF i * Updates - 1 <= n THEN i * Updates - 1 ELSE n
    BY <1>1, <1>2, <1>4, <1>5
  <2>2. i - 1 \in Nat /\ i - 1 <= OpenTime(n) /\ i * Updates = Updates * (i - 1) + Updates
    BY <1>1, <1>2, <2>1
  <2>3. Updates * (i - 1) \in Nat /\ Updates * (i - 1) <= Updates * OpenTime(n)
    BY <1>1, <1>2, <2>2
  <2> DEFINE b == Updates * (i - 1)
  <2>4. /\ b \in Nat /\ b <= n
        /\ f[i] = IF b + Updates - 1 <= n THEN b + Updates - 1 ELSE n
    BY <1>1, <1>2, <2>1, <2>2, <2>3
  <2> HIDE DEF b
  <2>5. f[i] \in Nat /\ b <= f[i] /\ f[i] < b + Updates /\ f[i] >= 1 /\ f[i] <= n
    BY <1>1, <2>1, <2>4
  <2>6. OpenTime(f[i]) = i - 1
    BY <2>2, <2>5, MinuteOf DEF b
  <2> QED
    BY <1>1, <2>5, <2>6 DEF Numbers
<1>6. f = [i \in 1..m |-> f[i]]
  BY <1>4
<1> HIDE DEF m
<1>7. f \in Seq(Numbers) /\ Len(f) = m
  BY <1>3, <1>5, <1>6, IsChart
<1>8. InOrder(f)
  BY <1>3, <1>5, <1>7 DEF InOrder
<1>9. ASSUME NEW k \in 1..n
      PROVE  OpenTime(k) + 1 \in 1..m /\ f[OpenTime(k) + 1] >= k
  <2> DEFINE t == OpenTime(k)
  <2>1. /\ k \in Nat /\ n # 0 /\ t \in Nat /\ t <= OpenTime(n)
        /\ Updates * t <= k /\ k < Updates * t + Updates
    BY <1>1, <1>9, Minute, MinuteGrows
  <2> HIDE DEF t
  <2>2. t + 1 \in 1..m
    BY <1>2, <2>1 DEF m
  <2>3. (t + 1) * Updates = Updates * t + Updates /\ Updates * t \in Nat
    BY <1>1, <2>1
  <2>4. f[t + 1] = IF (t + 1) * Updates - 1 <= n THEN (t + 1) * Updates - 1 ELSE n
    BY <1>4, <2>2 DEF m
  <2>5. f[t + 1] >= k
    BY <1>1, <1>9, <2>1, <2>3, <2>4
  <2> QED
    BY <2>2, <2>5 DEF t
<1> QED
  BY <1>3, <1>5, <1>7, <1>8, <1>9 DEF f, m

LEMMA TrimTwice ==
  ASSUME NEW cs \in Seq(Numbers)
  PROVE  Trim(Trim(cs)) = Trim(cs)
<1>1. Len(Trim(cs)) \in Nat /\ ~(Len(Trim(cs)) > MAX_CANDLES)
  BY TrimChart, ChartFacts, DashboardAssumption
<1> DEFINE r == Trim(cs)
<1>2. ~(Len(r) > MAX_CANDLES)
  BY <1>1
<1> HIDE DEF r
<1>3. Trim(r) = r
  BY <1>2 DEF Trim, Newest
<1> QED
  BY <1>3 DEF r

\* What the initial load shows: every kline that was written.
LEMMA LoadedChart ==
  ASSUME NEW n \in 0..NumKlines
  PROVE  /\ Trim(Rows(n, MAX_CANDLES)) = Trim(All(n))
         /\ Trim(All(n)) \in Seq(Numbers) /\ InOrder(Trim(All(n)))
         /\ Len(Trim(All(n))) <= MAX_CANDLES
         /\ \A i \in 1..Len(Trim(All(n))) : Trim(All(n))[i] <= n
         /\ \A k \in 1..n : k \in Numbers /\ ShownIn(Trim(All(n)), k)
<1>1. /\ All(n) \in Seq(Numbers) /\ InOrder(All(n)) /\ Len(All(n)) \in Nat
      /\ \A i \in 1..Len(All(n)) : OpenTime(All(n)[i]) = i - 1 /\ All(n)[i] <= n
      /\ \A k \in 1..n : /\ OpenTime(k) + 1 \in 1..Len(All(n))
                         /\ All(n)[OpenTime(k) + 1] >= k
  BY AllRows
<1>2. Rows(n, MAX_CANDLES) = Trim(All(n))
  BY DEF Rows, Trim, All
<1>3. Trim(Rows(n, MAX_CANDLES)) = Trim(All(n))
  BY <1>1, <1>2, TrimTwice
<1>4. Trim(All(n)) \in Seq(Numbers) /\ InOrder(Trim(All(n)))
  BY <1>1, TrimChart, TrimInOrder
<1>5. /\ Len(Trim(All(n))) <= MAX_CANDLES
      /\ \A i \in 1..Len(Trim(All(n))) : Trim(All(n))[i] <= n
  <2> DEFINE a == All(n)
             r == Trim(a)
  <2>1. \A i \in 1..Len(a) : a[i] <= n
    BY <1>1
  <2>2. /\ Len(r) = IF Len(a) > MAX_CANDLES THEN MAX_CANDLES ELSE Len(a)
        /\ \A i \in 1..Len(r) : /\ i + (Len(a) - Len(r)) \in 1..Len(a)
                                /\ r[i] = a[i + (Len(a) - Len(r))]
    BY <1>1, TrimChart
  <2>3. Len(a) \in Nat /\ MAX_CANDLES \in Nat
    BY <1>1, DashboardAssumption
  <2> HIDE DEF a, r
  <2>4. Len(r) <= MAX_CANDLES
    BY <2>2, <2>3
  <2>5. ASSUME NEW i \in 1..Len(r) PROVE r[i] <= n
    BY <2>1, <2>2
  <2> QED
    BY <2>4, <2>5 DEF a, r
<1>6. ASSUME NEW k \in 1..n
      PROVE  k \in Numbers /\ ShownIn(Trim(All(n)), k)
  <2>1. k \in Numbers /\ OpenTime(k) \in Int
    BY Minute, DashboardAssumption DEF Numbers
  <2> DEFINE i == OpenTime(k) + 1
  <2>2. /\ i \in 1..Len(All(n)) /\ All(n)[i] >= k
        /\ OpenTime(All(n)[i]) = OpenTime(k)
    BY <1>1, <2>1
  <2> HIDE DEF i
  <2>3. Holds(All(n), k)
    BY <2>2 DEF Holds
  <2> QED
    BY <1>1, <2>1, <2>3, TrimShows
<1> QED
  BY <1>3, <1>4, <1>5, <1>6

-----------------------------------------------------------------------------
(* What is on its way to a socket. *)

Messages == [type : {"kline", "trade", "status"}, value : Nat]

\* Klines that were announced, and trades that are new, in their order.
Readable(s, klinesSent, tradesSent, lastRead) ==
  \A n \in 1..Len(s) :
    /\ s[n].type = "kline" => s[n].value \in 1..klinesSent
    /\ s[n].type = "trade" => s[n].value \in 1..tradesSent /\ lastRead < s[n].value
    /\ \A m \in 1..Len(s) : m < n /\ s[m].type = "trade" /\ s[n].type = "trade" =>
                              s[m].value < s[n].value

IsKline(e, k) == e.type = "kline" /\ e.value = k

Pending(s, k) == \E n \in 1..Len(s) : IsKline(s[n], k)

\* Of the klines in K, those after a pending one are pending behind it.
KeepsOrder(s, K) ==
  \A n \in 1..Len(s) : s[n].type = "kline" =>
    \A k \in K : s[n].value < k =>
      \E m \in 1..Len(s) : n < m /\ IsKline(s[m], k)

LEMMA MessageTypes ==
  /\ \A k \in Nat : /\ Kline(k) \in Messages /\ IsKline(Kline(k), k)
                    /\ Kline(k).type = "kline" /\ Kline(k).value = k
  /\ \A t \in Nat : Trade(t) \in Messages /\ Trade(t).type = "trade" /\ Trade(t).value = t
  /\ \A b \in BOOLEAN : Status(b) \in Messages /\ Status(b).type = "status"
BY DEF Messages, IsKline, Kline, Trade, Status

LEMMA MessageFacts ==
  ASSUME NEW s \in Seq(Messages)
  PROVE  /\ Len(s) \in Nat
         /\ \A n \in 1..Len(s) : /\ n \in Int /\ s[n] \in Messages /\ s[n].value \in Int
                                 /\ s[n].type \in {"kline", "trade", "status"}
<1>1. \A n \in 1..Len(s) : s[n] \in Messages
  BY ElementOfSeq
<1> QED
  BY <1>1, LenProperties DEF Messages

LEMMA Sent ==
  ASSUME NEW s \in Seq(Messages), NEW e \in Messages
  PROVE  /\ Append(s, e) \in Seq(Messages) /\ Len(Append(s, e)) = Len(s) + 1
         /\ \A n \in 1..Len(s) : Append(s, e)[n] = s[n]
         /\ Append(s, e)[Len(s) + 1] = e
         /\ \A n \in 1..Len(Append(s, e)) : n \in 1..Len(s) \/ n = Len(s) + 1
BY AppendProperties, MessageFacts

LEMMA Received ==
  ASSUME NEW s \in Seq(Messages), s # <<>>
  PROVE  /\ Len(s) \in Nat /\ Len(s) >= 1 /\ Head(s) = s[1] /\ s[1] \in Messages
         /\ Tail(s) \in Seq(Messages) /\ Len(Tail(s)) = Len(s) - 1
         /\ \A n \in 1..Len(Tail(s)) : n + 1 \in 1..Len(s) /\ Tail(s)[n] = s[n + 1]
         /\ \A n \in 1..Len(s) : n = 1 \/ (n > 1 /\ n - 1 \in 1..Len(Tail(s))
                                                 /\ Tail(s)[n - 1] = s[n])
<1>1. Len(s) \in Nat /\ Len(s) >= 1
  BY LenProperties, EmptySeq
<1>2. /\ Tail(s) \in Seq(Messages) /\ Len(Tail(s)) = Len(s) - 1
      /\ Head(s) = s[1] /\ \A n \in 1..Len(Tail(s)) : Tail(s)[n] = s[n + 1]
  BY HeadTailProperties
<1>3. s[1] \in Messages
  BY <1>1, ElementOfSeq
<1>4. ASSUME NEW n \in 1..Len(s), n # 1
      PROVE  n > 1 /\ n - 1 \in 1..Len(Tail(s)) /\ Tail(s)[n - 1] = s[n]
  <2>1. n > 1 /\ n - 1 \in 1..Len(Tail(s)) /\ (n - 1) + 1 = n
    BY <1>1, <1>2, <1>4
  <2>2. Tail(s)[n - 1] = s[(n - 1) + 1]
    BY <1>2, <2>1
  <2> QED
    BY <2>1, <2>2
<1> QED
  BY <1>1, <1>2, <1>3, <1>4

LEMMA Cut ==
  ASSUME NEW s \in Seq(Messages), NEW n \in 0..Len(s)
  PROVE  /\ SubSeq(s, 1, n) \in Seq(Messages) /\ Len(SubSeq(s, 1, n)) = n
         /\ \A m \in 1..n : m \in 1..Len(s) /\ SubSeq(s, 1, n)[m] = s[m]
<1>1. Len(s) \in Nat /\ \A m \in 1..Len(s) : s[m] \in Messages
  BY MessageFacts
<1>2. /\ n \in Int /\ 1 \in Int /\ \A m \in 1..n : m \in 1..Len(s) /\ s[m] \in Messages
      /\ (IF 1 <= n THEN n - 1 + 1 ELSE 0) = n
  BY <1>1
<1>3. /\ SubSeq(s, 1, n) \in Seq(Messages)
      /\ Len(SubSeq(s, 1, n)) = IF 1 <= n THEN n - 1 + 1 ELSE 0
      /\ \A m \in 1..(n - 1 + 1) : SubSeq(s, 1, n)[m] = s[1 + m - 1]
  BY <1>2, SubSeqProperties
<1>4. \A m \in 1..n : m \in 1..(n - 1 + 1) /\ 1 + m - 1 = m
  BY <1>2
<1> QED
  BY <1>2, <1>3, <1>4

LEMMA ReadableSent ==
  ASSUME NEW s \in Seq(Messages), NEW e \in Messages,
         NEW k \in Nat, NEW t \in Nat, NEW k2 \in Nat, NEW t2 \in Nat, NEW last \in Nat,
         Readable(s, k, t, last), k <= k2, t <= t2, last <= t,
         e.type = "kline" => e.value \in 1..k2,
         e.type = "trade" => t < e.value /\ e.value <= t2
  PROVE  Readable(Append(s, e), k2, t2, last)
<1> DEFINE a == Append(s, e)
<1>1. /\ Len(s) \in Nat /\ Len(a) = Len(s) + 1 /\ a[Len(s) + 1] = e
      /\ \A n \in 1..Len(s) : a[n] = s[n] /\ n \in Int /\ s[n].value \in Int
      /\ \A n \in 1..Len(a) : n \in 1..Len(s) \/ n = Len(s) + 1
      /\ e.value \in Int
  BY Sent, MessageFacts DEF Messages
<1> HIDE DEF a
<1>2. ASSUME NEW n \in 1..Len(a), a[n].type = "kline"
      PROVE  a[n].value \in 1..k2
  <2>1. CASE n \in 1..Len(s)
    BY <1>1, <1>2, <2>1 DEF Readable
  <2>2. CASE n = Len(s) + 1
    BY <1>1, <1>2, <2>2
  <2> QED
    BY <1>1, <2>1, <2>2
<1>3. ASSUME NEW n \in 1..Len(a), a[n].type = "trade"
      PROVE  a[n].value \in 1..t2 /\ last < a[n].value
  <2>1. CASE n \in 1..Len(s)
    BY <1>1, <1>3, <2>1 DEF Readable
  <2>2. CASE n = Len(s) + 1
    BY <1>1, <1>3, <2>2
  <2> QED
    BY <1>1, <2>1, <2>2
<1>4. ASSUME NEW n \in 1..Len(a), NEW m \in 1..Len(a),
             m < n, a[m].type = "trade", a[n].type = "trade"
      PROVE  a[m].value < a[n].value
  <2>1. m \in 1..Len(s)
    BY <1>1, <1>4
  <2>2. CASE n \in 1..Len(s)
    BY <1>1, <1>4, <2>1, <2>2 DEF Readable
  <2>3. CASE n = Len(s) + 1
    <3>1. a[m].value \in 1..t /\ a[m].value \in Int
      BY <1>1, <1>4, <2>1 DEF Readable
    <3>2. a[n].value \in Int /\ t < a[n].value
      BY <1>1, <1>4, <2>3
    <3> QED
      BY <3>1, <3>2
  <2> QED
    BY <1>1, <2>2, <2>3
<1> QED
  BY <1>2, <1>3, <1>4 DEF Readable, a

LEMMA ReadableMore ==
  ASSUME NEW s \in Seq(Messages), NEW k \in Nat, NEW k2 \in Nat,
         NEW t \in Nat, NEW t2 \in Nat, NEW last \in Nat,
         Readable(s, k, t, last), k <= k2, t <= t2
  PROVE  Readable(s, k2, t2, last)
BY DEF Readable

LEMMA ReadableEmpty ==
  ASSUME NEW k, NEW t, NEW last
  PROVE  Readable(<<>>, k, t, last)
BY EmptySeq DEF Readable

LEMMA ReadableCut ==
  ASSUME NEW s \in Seq(Messages), NEW n \in 0..Len(s), NEW k, NEW t, NEW last,
         Readable(s, k, t, last)
  PROVE  Readable(SubSeq(s, 1, n), k, t, last)
<1> DEFINE c == SubSeq(s, 1, n)
<1>1. Len(c) = n /\ \A m \in 1..n : m \in 1..Len(s) /\ c[m] = s[m]
  BY Cut
<1> HIDE DEF c
<1>2. Readable(c, k, t, last)
  BY <1>1 DEF Readable
<1> QED
  BY <1>2 DEF c

\* The first message read: the trades behind it are newer.
LEMMA ReadableRead ==
  ASSUME NEW s \in Seq(Messages), s # <<>>, NEW k \in Nat, NEW t \in Nat, NEW last \in Nat,
         Readable(s, k, t, last)
  PROVE  /\ Head(s).type = "kline" => Head(s).value \in 1..k
         /\ Head(s).type = "trade" => Head(s).value \in 1..t /\ last < Head(s).value
         /\ Readable(Tail(s), k, t, last)
         /\ Head(s).type = "trade" => Readable(Tail(s), k, t, Head(s).value)
<1> DEFINE r == Tail(s)
           h == Head(s)
<1>1. /\ Len(s) \in Nat /\ Len(s) >= 1 /\ h = s[1] /\ 1 \in 1..Len(s)
      /\ Len(r) = Len(s) - 1
      /\ \A n \in 1..Len(r) : n + 1 \in 1..Len(s) /\ r[n] = s[n + 1] /\ 1 < n + 1 /\ n \in Int
  <2>1. /\ Len(s) \in Nat /\ Len(s) >= 1 /\ h = s[1] /\ Len(r) = Len(s) - 1
        /\ \A n \in 1..Len(r) : n + 1 \in 1..Len(s) /\ r[n] = s[n + 1]
    BY Received
  <2> HIDE DEF r, h
  <2> QED
    BY <2>1
<1> HIDE DEF r, h
<1>2. /\ h.type = "kline" => h.value \in 1..k
      /\ h.type = "trade" => h.value \in 1..t /\ last < h.value
  BY <1>1 DEF Readable
<1>3. \A n \in 1..Len(r) : /\ r[n].type = "kline" => r[n].value \in 1..k
                           /\ r[n].type = "trade" => r[n].value \in 1..t /\ last < r[n].value
  BY <1>1 DEF Readable
<1>4. \A n, m \in 1..Len(r) : m < n /\ r[m].type = "trade" /\ r[n].type = "trade" =>
                                r[m].value < r[n].value
  <2> SUFFICES ASSUME NEW n \in 1..Len(r), NEW m \in 1..Len(r), m < n,
                      r[m].type = "trade", r[n].type = "trade"
               PROVE  r[m].value < r[n].value
    OBVIOUS
  <2>1. /\ n + 1 \in 1..Len(s) /\ r[n] = s[n + 1] /\ m + 1 \in 1..Len(s) /\ r[m] = s[m + 1]
        /\ m + 1 < n + 1
    BY <1>1
  <2> QED
    BY <2>1 DEF Readable
<1>5. h.type = "trade" => \A n \in 1..Len(r) : r[n].type = "trade" => h.value < r[n].value
  BY <1>1 DEF Readable
<1>6. Readable(r, k, t, last)
  BY <1>3, <1>4 DEF Readable
<1>7. h.type = "trade" => Readable(r, k, t, h.value)
  BY <1>3, <1>4, <1>5 DEF Readable
<1> QED
  BY <1>2, <1>6, <1>7 DEF r, h

LEMMA KeepsOrderSent ==
  ASSUME NEW s \in Seq(Messages), NEW e \in Messages, NEW K, NEW K2 \in SUBSET Int,
         KeepsOrder(s, K),
         e.type = "kline" => K2 \subseteq K \cup {e.value} /\ \A k \in K2 : k <= e.value,
         e.type # "kline" => K2 \subseteq K
  PROVE  /\ KeepsOrder(Append(s, e), K2)
         /\ \A k \in K2 : Pending(s, k) => Pending(Append(s, e), k)
         /\ e.type = "kline" => Pending(Append(s, e), e.value)
<1> DEFINE a == Append(s, e)
<1>1. /\ Len(s) \in Nat /\ Len(a) = Len(s) + 1 /\ a[Len(s) + 1] = e
      /\ \A n \in 1..Len(s) : a[n] = s[n] /\ n \in Int /\ n \in 1..Len(a) /\ n < Len(s) + 1
      /\ \A n \in 1..Len(a) : n \in 1..Len(s) \/ n = Len(s) + 1
      /\ Len(s) + 1 \in 1..Len(a) /\ e.value \in Int
  BY Sent, MessageFacts DEF Messages
<1> HIDE DEF a
<1>2. ASSUME NEW n \in 1..Len(a), a[n].type = "kline", NEW k \in K2, a[n].value < k
      PROVE  \E m \in 1..Len(a) : n < m /\ IsKline(a[m], k)
  <2>1. CASE n \in 1..Len(s)
    <3>1. CASE k \in K
      <4>1. PICK m \in 1..Len(s) : n < m /\ IsKline(s[m], k)
        BY <1>1, <1>2, <2>1, <3>1 DEF KeepsOrder
      <4> QED
        BY <1>1, <4>1
    <3>2. CASE k \notin K
      <4>1. e.type = "kline" /\ k = e.value
        BY <3>2
      <4> QED
        BY <1>1, <2>1, <4>1 DEF IsKline
    <3> QED
      BY <3>1, <3>2
  <2>2. CASE n = Len(s) + 1
    <3>1. e.type = "kline" /\ e.value < k /\ k <= e.value /\ k \in Int
      BY <1>1, <1>2, <2>2
    <3> QED
      BY <1>1, <3>1
  <2> QED
    BY <1>1, <2>1, <2>2
<1>3. ASSUME NEW k \in K2, Pending(s, k)
      PROVE  Pending(a, k)
  BY <1>1, <1>3 DEF Pending
<1>4. e.type = "kline" => Pending(a, e.value)
  BY <1>1 DEF Pending, IsKline
<1> QED
  BY <1>2, <1>3, <1>4 DEF KeepsOrder, a

LEMMA KeepsOrderFewer ==
  ASSUME NEW s, NEW K, NEW K2 \in SUBSET K, KeepsOrder(s, K)
  PROVE  KeepsOrder(s, K2)
BY DEF KeepsOrder

LEMMA KeepsOrderEmpty ==
  ASSUME NEW K
  PROVE  KeepsOrder(<<>>, K)
BY EmptySeq DEF KeepsOrder

LEMMA KeepsOrderRead ==
  ASSUME NEW s \in Seq(Messages), s # <<>>, NEW K, KeepsOrder(s, K)
  PROVE  /\ KeepsOrder(Tail(s), K)
         /\ \A k \in K : Pending(s, k) => IsKline(Head(s), k) \/ Pending(Tail(s), k)
         /\ Head(s).type = "kline" =>
              \A k \in K : Head(s).value < k => Pending(Tail(s), k)
<1> DEFINE r == Tail(s)
           h == Head(s)
<1>1. /\ Len(s) \in Nat /\ Len(s) >= 1 /\ h = s[1] /\ 1 \in 1..Len(s)
      /\ Len(r) = Len(s) - 1
      /\ \A n \in 1..Len(r) : n + 1 \in 1..Len(s) /\ r[n] = s[n + 1] /\ n \in Int
      /\ \A n \in 1..Len(s) : n = 1 \/ (n > 1 /\ n - 1 \in 1..Len(r) /\ r[n - 1] = s[n])
      /\ \A n \in 1..Len(s) : n \in Int
  BY Received
<1> HIDE DEF r, h
<1>2. ASSUME NEW n \in 1..Len(r), r[n].type = "kline", NEW k \in K, r[n].value < k
      PROVE  \E m \in 1..Len(r) : n < m /\ IsKline(r[m], k)
  <2>1. PICK m \in 1..Len(s) : n + 1 < m /\ IsKline(s[m], k)
    BY <1>1, <1>2 DEF KeepsOrder
  <2>2. m - 1 \in 1..Len(r) /\ n < m - 1 /\ r[m - 1] = s[m]
    BY <1>1, <2>1
  <2> QED
    BY <2>1, <2>2
<1>3. ASSUME NEW k \in K, Pending(s, k)
      PROVE  IsKline(h, k) \/ Pending(r, k)
  BY <1>1, <1>3 DEF Pending
<1>4. ASSUME NEW k \in K, h.type = "kline", h.value < k
      PROVE  Pending(r, k)
  <2>1. PICK m \in 1..Len(s) : 1 < m /\ IsKline(s[m], k)
    BY <1>1, <1>4 DEF KeepsOrder
  <2> QED
    BY <1>1, <2>1 DEF Pending
<1> QED
  BY <1>2, <1>3, <1>4 DEF KeepsOrder, r, h

-----------------------------------------------------------------------------
(* The invariant of the page and its connection. *)

\* Of the sockets only the last one is in use; a mounted page waits for a timeout
\* exactly when that one is closed.
Link ==
  /\ \A i \in Sockets : /\ i > socket => sock[i] = "unused"
                        /\ i < socket => sock[i] = "closed"
  /\ page = "new" => socket = 0 /\ timers = 0 /\ load = "none"
  /\ page = "mounted" =>
       /\ socket \in Sockets /\ sock[socket] # "unused"
       /\ timers = IF sock[socket] = "closed" THEN 1 ELSE 0
  /\ page = "unmounted" => socket \in Sockets /\ sock[socket] = "closed" /\ timers = 0

\* Bound: the last socket of all is never lost.
SocketLeft ==
  /\ timers > 0 => socket < MaxSockets
  /\ \A i \in Sockets : sock[i] = "lost" => socket < MaxSockets

Feeds ==
  \A i \in Sockets :
    /\ sock[i] \in {"unused", "connecting", "closed"} => feed[i] = <<>>
    /\ Readable(feed[i], published, traded, lastTrade)

Counters ==
  /\ written \in {published, published + 1}
  /\ lastTrade <= traded
  /\ candlesReply # None => candlesReply <= written
  /\ load = "none" => page = "new"
  /\ load = "loaded" => candlesReply # None
  /\ overtaken => load = "loaded"

\* A candle was announced, or the load has read it.
Chart ==
  /\ InOrder(candles) /\ Len(candles) <= MAX_CANDLES
  /\ \A i \in 1..Len(candles) :
       candles[i] <= published \/ (load = "loaded" /\ candles[i] <= candlesReply)

PageInv == TypeOK /\ Link /\ SocketLeft /\ Feeds /\ Counters /\ Chart

USE DEF klines, status, backend, link, trade, view, replies, rest, browser, vars

LEMMA Announcing ==
  ASSUME TypeOK, NEW e \in Messages, Announce(e)
  PROVE  /\ feed' \in [Sockets -> Seq(Messages)]
         /\ \A i \in Sockets :
              feed'[i] = IF sock[i] = "open" THEN Append(feed[i], e) ELSE feed[i]
<1>1. \A i \in Sockets : feed[i] \in Seq(Messages) /\ Append(feed[i], e) \in Seq(Messages)
  BY Sent DEF TypeOK, Messages
<1>2. feed' = [i \in Sockets |-> IF sock[i] = "open" THEN Append(feed[i], e) ELSE feed[i]]
  BY DEF Announce
<1> HIDE DEF Announce
<1> QED
  BY <1>1, <1>2

\* What the backend announces at a step.
LEMMA Announcements ==
  ASSUME TypeOK, Counters
  PROVE  /\ Kline(written) \in Messages /\ Kline(written).type = "kline"
         /\ Kline(written).value = written /\ IsKline(Kline(written), written)
         /\ Trade(traded + 1) \in Messages /\ Trade(traded + 1).type = "trade"
         /\ Trade(traded + 1).value = traded + 1
         /\ Status(TRUE) \in Messages /\ Status(TRUE).type = "status"
         /\ Status(FALSE) \in Messages /\ Status(FALSE).type = "status"
<1>1. written \in Nat /\ traded + 1 \in Nat
  BY DashboardAssumption DEF TypeOK
<1> QED
  BY <1>1, MessageTypes

\* The message at the head of a feed: what onmessage does with it.
LEMMA Reading ==
  ASSUME PageInv, NEW i \in Sockets, Message(i)
  PROVE  /\ feed[i] \in Seq(Messages) /\ feed[i] # <<>> /\ sock[i] \in {"open", "lost"}
         /\ i = socket
         /\ feed' = [feed EXCEPT ![i] = Tail(feed[i])] /\ Tail(feed[i]) \in Seq(Messages)
         /\ Head(feed[i]) \in Messages
         /\ Head(feed[i]).type = "kline" => Head(feed[i]).value \in 1..published
         /\ Head(feed[i]).type = "trade" => /\ Head(feed[i]).value \in 1..traded
                                            /\ lastTrade < Head(feed[i]).value
         /\ UNCHANGED <<backend, page, link, rest, joined>>
<1>1. /\ feed[i] \in Seq(Messages) /\ feed[i] # <<>> /\ sock[i] \in {"open", "lost"}
      /\ feed' = [feed EXCEPT ![i] = Tail(feed[i])]
      /\ UNCHANGED <<backend, page, link, rest, joined>>
  BY DEF PageInv, TypeOK, Messages, Message
<1>2. i = socket
  BY <1>1, DashboardAssumption DEF PageInv, TypeOK, Link, Sockets
<1>3. /\ published \in Nat /\ traded \in Nat /\ lastTrade \in Nat
      /\ Readable(feed[i], published, traded, lastTrade)
  BY DashboardAssumption DEF PageInv, TypeOK, Feeds
<1> QED
  BY <1>1, <1>2, <1>3, Received, ReadableRead

\* What onmessage does to the chart.
LEMMA ReadingChart ==
  ASSUME PageInv, NEW i \in Sockets, Message(i)
  PROVE  \/ /\ Head(feed[i]).type # "kline" /\ candles' = candles
         \/ /\ Head(feed[i]).type = "kline" /\ Head(feed[i]).value \in Numbers
            /\ candles' = UpsertCandle(candles, Head(feed[i]).value)
<1>1. published \in Nat /\ published <= NumKlines
  BY DashboardAssumption DEF PageInv, TypeOK
<1> DEFINE h == Head(feed[i])
<1>2. h.type = "kline" => h.value \in Numbers
  BY <1>1, Reading, DashboardAssumption DEF Numbers
<1>3. \/ h.type = "status" /\ candles' = candles
      \/ h.type = "kline" /\ candles' = UpsertCandle(candles, h.value)
      \/ h.type = "trade" /\ candles' = candles
  BY DEF Message
<1> HIDE DEF h
<1>4. \/ h.type # "kline" /\ candles' = candles
      \/ /\ h.type = "kline" /\ h.value \in Numbers
         /\ candles' = UpsertCandle(candles, h.value)
  BY <1>2, <1>3
<1> QED
  BY <1>4 DEF h

\* The chart of the load.
LEMMA LoadingChart ==
  ASSUME PageInv, Load
  PROVE  /\ candlesReply \in 0..NumKlines /\ candlesReply <= written
         /\ candles' = Trim(All(candlesReply))
         /\ candles' \in Seq(Numbers) /\ InOrder(candles') /\ Len(candles') <= MAX_CANDLES
         /\ \A i \in 1..Len(candles') : candles'[i] <= candlesReply
         /\ \A k \in 1..candlesReply : k \in Numbers /\ ShownIn(candles', k)
<1>1. /\ candlesReply \in 0..NumKlines /\ candlesReply <= written
      /\ candles' = Trim(Rows(candlesReply, MAX_CANDLES))
  BY DEF Load, PageInv, TypeOK, Counters
<1> QED
  BY <1>1, LoadedChart

LEMMA ChartStep ==
  ASSUME PageInv, [Next]_vars
  PROVE  Chart' /\ candles' \in Seq(Numbers)
<1>1. /\ candles \in Seq(Numbers) /\ InOrder(candles) /\ Len(candles) <= MAX_CANDLES
      /\ \A i \in 1..Len(candles) :
           candles[i] <= published \/ (load = "loaded" /\ candles[i] <= candlesReply)
      /\ published \in Nat /\ written \in Nat /\ published <= written
  BY DashboardAssumption DEF PageInv, TypeOK, Chart, Numbers
<1>2. ASSUME candles' = candles, published' \in Int, published <= published',
             load = "loaded" => load' = "loaded" /\ candlesReply' = candlesReply
      PROVE  Chart' /\ candles' \in Seq(Numbers)
  <2>1. \A i \in 1..Len(candles) :
          candles[i] <= published' \/ (load' = "loaded" /\ candles[i] <= candlesReply')
    <3> SUFFICES ASSUME NEW i \in 1..Len(candles)
                 PROVE  candles[i] <= published'
                          \/ (load' = "loaded" /\ candles[i] <= candlesReply')
      OBVIOUS
    <3>1. candles[i] \in Int
      BY <1>1, ChartFacts
    <3> QED
      BY <1>1, <1>2, <3>1
  <2> QED
    BY <1>1, <1>2, <2>1 DEF Chart
<1>3. CASE Backend
  <2>1. /\ candles' = candles /\ load' = load /\ candlesReply' = candlesReply
        /\ published' \in {published, written, written + 1}
    BY <1>3 DEF Backend, CommitKline, AnnounceKline, Backfill, AnnounceTrade,
                PipelineConnects, PipelineDisconnects, HookFails
  <2> QED
    BY <1>1, <1>2, <2>1
<1>4. CASE Mount \/ Timeout \/ Unmount
  <2>1. /\ candles' = candles /\ published' = published /\ candlesReply' = candlesReply
        /\ load = "loaded" => load' = "loaded"
    BY <1>4 DEF Mount, Timeout, Unmount, PageInv, Link
  <2> QED
    BY <1>1, <1>2, <2>1
<1>5. CASE AnswerCandles \/ AnswerStats \/ LoadFails
  <2>1. candles' = candles /\ published' = published /\ load # "loaded"
    BY <1>5 DEF AnswerCandles, AnswerStats, LoadFails
  <2> QED
    BY <1>1, <1>2, <2>1
<1>6. CASE Load
  <2>1. load' = "loaded" /\ candlesReply' = candlesReply
    BY <1>6 DEF Load
  <2>2. /\ candles' \in Seq(Numbers) /\ InOrder(candles') /\ Len(candles') <= MAX_CANDLES
        /\ \A i \in 1..Len(candles') : candles'[i] <= candlesReply
    BY <1>6, LoadingChart
  <2> QED
    BY <2>1, <2>2 DEF Chart
<1>7. ASSUME NEW i \in Sockets, Open(i) \/ OnClose(i) \/ Lose(i)
      PROVE  Chart' /\ candles' \in Seq(Numbers)
  <2>1. UNCHANGED <<candles, published, load, candlesReply>>
    BY <1>7 DEF Open, OnClose, Lose
  <2> QED
    BY <1>1, <1>2, <2>1
<1>8. ASSUME NEW i \in Sockets, Message(i)
      PROVE  Chart' /\ candles' \in Seq(Numbers)
  <2>1. UNCHANGED <<published, load, candlesReply>>
    BY <1>8 DEF Message
  <2>2. CASE candles' = candles
    BY <1>1, <1>2, <2>1, <2>2
  <2>3. CASE /\ Head(feed[i]).type = "kline" /\ Head(feed[i]).value \in Numbers
             /\ candles' = UpsertCandle(candles, Head(feed[i]).value)
    <3> DEFINE e == Head(feed[i]).value
    <3>1. e \in 1..published /\ e \in Numbers
      BY <1>8, <2>3, Reading
    <3> HIDE DEF e
    <3>2. candles' = UpsertCandle(candles, e)
      BY <2>3 DEF e
    <3>3. /\ candles' \in Seq(Numbers) /\ InOrder(candles') /\ Len(candles') <= MAX_CANDLES
          /\ \A j \in 1..Len(candles') :
               candles'[j] = e \/ \E l \in 1..Len(candles) : candles'[j] = candles[l]
      BY <1>1, <3>1, <3>2, UpsertChart
    <3>4. \A j \in 1..Len(candles') :
            candles'[j] <= published \/ (load = "loaded" /\ candles'[j] <= candlesReply)
      BY <1>1, <3>1, <3>3
    <3> QED
      BY <2>1, <3>3, <3>4 DEF Chart
  <2> QED
    BY <1>8, <2>2, <2>3, ReadingChart
<1>9. CASE UNCHANGED vars
  BY <1>1, <1>2, <1>9
<1> QED
  BY <1>3, <1>4, <1>5, <1>6, <1>7, <1>8, <1>9 DEF Next, Browser

LEMMA CountersStep ==
  ASSUME PageInv, [Next]_vars
  PROVE  Counters'
<1> USE DEF Counters
<1>1. /\ written \in Nat /\ published \in Nat /\ traded \in Nat /\ lastTrade \in Nat
      /\ candlesReply # None => candlesReply \in Nat
      /\ Counters
      /\ page = "new" => load = "none"
      /\ written # None
  BY DashboardAssumption DEF PageInv, TypeOK, Link, None
<1>2. CASE Backend
  <2>1. UNCHANGED <<lastTrade, candlesReply, load, page, overtaken>>
    BY <1>2 DEF Backend, CommitKline, AnnounceKline, Backfill, AnnounceTrade,
                PipelineConnects, PipelineDisconnects, HookFails
  <2>2. /\ written' \in {published', published' + 1} /\ written' \in Nat
        /\ written <= written' /\ traded' \in Nat /\ traded <= traded'
    <3>1. CASE CommitKline \/ AnnounceKline \/ Backfill
      BY <1>1, <3>1 DEF CommitKline, AnnounceKline, Backfill
    <3>2. CASE AnnounceTrade \/ PipelineConnects \/ PipelineDisconnects \/ HookFails
      <4>1. UNCHANGED <<written, published>> /\ traded' \in {traded, traded + 1}
        BY <3>2 DEF AnnounceTrade, PipelineConnects, PipelineDisconnects, HookFails
      <4> QED
        BY <1>1, <4>1
    <3> QED
      BY <1>2, <3>1, <3>2 DEF Backend
  <2>3. /\ (load = "none") => (page = "new")
        /\ (load = "loaded") => (candlesReply # None)
        /\ overtaken => load = "loaded"
    BY <1>1
  <2>4. lastTrade <= traded' /\ (candlesReply # None => candlesReply <= written')
    BY <1>1, <2>2
  <2> QED
    BY <2>1, <2>2, <2>3, <2>4
<1>3. CASE Mount \/ Timeout \/ Unmount
  BY <1>1, <1>3 DEF Mount, Timeout, Unmount, PageInv, Link
<1>4. CASE AnswerCandles \/ AnswerStats \/ LoadFails \/ Load
  <2>1. UNCHANGED <<written, published, traded, lastTrade, page>>
    BY <1>4 DEF AnswerCandles, AnswerStats, LoadFails, Load
  <2>2. CASE AnswerCandles
    BY <1>1, <2>1, <2>2 DEF AnswerCandles
  <2>3. CASE AnswerStats
    BY <1>1, <2>1, <2>3 DEF AnswerStats
  <2>4. CASE LoadFails
    BY <1>1, <2>1, <2>4 DEF LoadFails
  <2>5. CASE Load
    BY <1>1, <2>1, <2>5 DEF Load
  <2> QED
    BY <1>4, <2>2, <2>3, <2>4, <2>5
<1>5. ASSUME NEW i \in Sockets, Open(i) \/ OnClose(i) \/ Lose(i)
      PROVE  Counters'
  BY <1>1, <1>5 DEF Open, OnClose, Lose
<1>6. ASSUME NEW i \in Sockets, Message(i)
      PROVE  Counters'
  <2>1. lastTrade' = lastTrade \/ lastTrade' \in 1..traded
    <3>1. Head(feed[i]).type = "trade" => Head(feed[i]).value \in 1..traded
      BY <1>6, Reading
    <3> QED
      BY <1>6, <3>1 DEF Message
  <2> QED
    BY <1>1, <1>6, <2>1 DEF Message
<1>7. CASE UNCHANGED vars
  BY <1>1, <1>7
<1> QED
  BY <1>2, <1>3, <1>4, <1>5, <1>6, <1>7 DEF Next, Browser

LEMMA LinkStep ==
  ASSUME PageInv, [Next]_vars
  PROVE  Link' /\ SocketLeft'
<1>1. /\ socket \in 0..MaxSockets /\ MaxSockets \in Nat /\ MaxSockets >= 1 /\ timers \in Nat
      /\ sock \in [Sockets -> {"unused", "connecting", "open", "lost", "closed"}]
      /\ page \in {"new", "mounted", "unmounted"}
      /\ \A i \in Sockets : i \in Int /\ 1 <= i /\ i <= MaxSockets
      /\ \A i \in Int : 1 <= i /\ i <= MaxSockets => i \in Sockets
  BY DashboardAssumption DEF PageInv, TypeOK, Sockets
<1>2. Link /\ SocketLeft
  BY DEF PageInv
<1>3. ASSUME UNCHANGED <<link, page>>, page = "new" => load' = "none"
      PROVE  Link' /\ SocketLeft'
  BY <1>2, <1>3 DEF Link, SocketLeft
<1>4. CASE Backend
  <2>1. UNCHANGED <<link, page, load>>
    BY <1>4 DEF Backend, CommitKline, AnnounceKline, Backfill, AnnounceTrade,
                PipelineConnects, PipelineDisconnects, HookFails
  <2> QED
    BY <1>2, <1>3, <2>1 DEF Link
<1>5. CASE AnswerCandles \/ AnswerStats \/ LoadFails \/ Load
  <2>1. UNCHANGED <<link, page>> /\ load # "none"
    BY <1>5 DEF AnswerCandles, AnswerStats, LoadFails, Load
  <2> QED
    BY <1>2, <1>3, <2>1 DEF Link
<1>6. CASE Mount
  <2>1. /\ socket = 0 /\ timers = 0 /\ timers' = 0 /\ socket' = 1 /\ page' = "mounted"
        /\ sock' = [sock EXCEPT ![1] = "connecting"]
    BY <1>2, <1>6 DEF Mount, Connect, Link
  <2>2. \A i \in Sockets : i > 0 /\ sock[i] = "unused"
    BY <1>1, <1>2, <2>1 DEF Link
  <2>3. sock'[1] = "connecting" /\ 1 \in Sockets /\ \A i \in Sockets : i # 1 => sock'[i] = "unused"
    BY <1>1, <2>1, <2>2
  <2> QED
    BY <1>1, <2>1, <2>3 DEF Link, SocketLeft
<1>7. CASE Timeout
  <2>1. timers > 0 /\ timers' = timers - 1 /\ page' = page /\ page = "mounted"
    BY <1>1, <1>2, <1>7 DEF Timeout, Link
  <2>2. /\ socket' = socket + 1 /\ sock' = [sock EXCEPT ![socket + 1] = "connecting"]
    BY <1>7, <2>1 DEF Timeout, Connect
  <2>3. /\ socket \in Sockets /\ sock[socket] = "closed" /\ timers' = 0
        /\ socket + 1 \in Sockets
    BY <1>1, <1>2, <2>1 DEF Link, SocketLeft
  <2>4. \A i \in Sockets : /\ sock'[i] = IF i = socket + 1 THEN "connecting" ELSE sock[i]
                           /\ i < socket + 1 => i = socket \/ i < socket
                           /\ i > socket + 1 => i > socket
    BY <1>1, <2>2, <2>3
  <2>5. \A i \in Sockets : /\ i > socket + 1 => sock'[i] = "unused"
                           /\ i < socket + 1 => sock'[i] = "closed"
                           /\ sock'[i] # "lost"
    <3> SUFFICES ASSUME NEW i \in Sockets
                 PROVE  /\ i > socket + 1 => sock'[i] = "unused"
                        /\ i < socket + 1 => sock'[i] = "closed"
                        /\ sock'[i] # "lost"
      OBVIOUS
    <3>1. i = socket + 1 \/ i > socket + 1 \/ i < socket + 1
      BY <1>1
    <3>2. CASE i = socket + 1
      BY <1>1, <2>4, <3>2
    <3>3. CASE i > socket + 1
      <4>1. sock[i] = "unused" /\ sock'[i] = sock[i] /\ ~(i < socket + 1)
        BY <1>1, <1>2, <2>4, <3>3 DEF Link
      <4> QED
        BY <4>1
    <3>4. CASE i < socket + 1
      <4>1. sock[i] = "closed" /\ sock'[i] = sock[i] /\ ~(i > socket + 1)
        BY <1>1, <1>2, <2>3, <2>4, <3>4 DEF Link
      <4> QED
        BY <4>1
    <3> QED
      BY <3>1, <3>2, <3>3, <3>4
  <2>6. sock'[socket + 1] = "connecting"
    BY <2>3, <2>4
  <2> QED
    BY <1>1, <2>1, <2>2, <2>3, <2>5, <2>6 DEF Link, SocketLeft
<1>8. CASE Unmount
  <2>1. /\ page = "mounted" /\ page' = "unmounted" /\ socket' = socket
        /\ sock' = [sock EXCEPT ![socket] = "closed"] /\ socket \in Sockets
        /\ timers' = 0
    BY <1>1, <1>2, <1>8 DEF Unmount, ClearTimeout, Link
  <2>2. \A i \in Sockets : sock'[i] = IF i = socket THEN "closed" ELSE sock[i]
    BY <1>1, <2>1
  <2>3. \A i \in Sockets : /\ i > socket => sock'[i] = "unused"
                           /\ i < socket => sock'[i] = "closed"
                           /\ sock'[i] # "lost"
    BY <1>1, <1>2, <2>2 DEF Link
  <2> QED
    BY <1>1, <2>1, <2>2, <2>3 DEF Link, SocketLeft
<1>9. ASSUME NEW i \in Sockets, Open(i) \/ OnClose(i) \/ Lose(i)
      PROVE  Link' /\ SocketLeft'
  <2>1. /\ UNCHANGED <<page, socket, load>>
        /\ sock[i] \in {"connecting", "open", "lost"}
        /\ \/ sock' = [sock EXCEPT ![i] = "open"] /\ timers' = timers
           \/ sock' = [sock EXCEPT ![i] = "closed"] /\ timers' = timers + 1 /\ sock[i] = "lost"
           \/ sock' = [sock EXCEPT ![i] = "lost"] /\ timers' = timers /\ socket < MaxSockets
    BY <1>9 DEF Open, OnClose, Lose, ScheduleReconnect
  <2>2. i = socket /\ page = "mounted" /\ timers = 0
    BY <1>1, <1>2, <2>1 DEF Link
  <2>3. /\ \A j \in Sockets : j # i => sock'[j] = sock[j]
        /\ \/ sock'[i] = "open" /\ timers' = 0
           \/ sock'[i] = "closed" /\ timers' = 1 /\ socket < MaxSockets
           \/ sock'[i] = "lost" /\ timers' = 0 /\ socket < MaxSockets
    BY <1>1, <1>2, <2>1, <2>2 DEF SocketLeft
  <2>4. \A j \in Sockets : /\ j > socket => sock'[j] = "unused"
                           /\ j < socket => sock'[j] = "closed"
    BY <1>1, <1>2, <2>2, <2>3 DEF Link
  <2>5. SocketLeft'
    <3>1. timers' > 0 => socket < MaxSockets
      BY <2>3
    <3>2. \A j \in Sockets : sock'[j] = "lost" => socket < MaxSockets
      BY <1>2, <2>3 DEF SocketLeft
    <3> QED
      BY <2>1, <3>1, <3>2 DEF SocketLeft
  <2> QED
    BY <1>1, <2>1, <2>2, <2>3, <2>4, <2>5 DEF Link
<1>10. ASSUME NEW i \in Sockets, Message(i)
       PROVE  Link' /\ SocketLeft'
  <2>1. UNCHANGED <<link, page, load>>
    BY <1>10 DEF Message
  <2> QED
    BY <1>2, <1>3, <2>1 DEF Link
<1>11. CASE UNCHANGED vars
  BY <1>2, <1>3, <1>11 DEF Link
<1> QED
  BY <1>4, <1>5, <1>6, <1>7, <1>8, <1>9, <1>10, <1>11 DEF Next, Browser

LEMMA FeedsStep ==
  ASSUME PageInv, [Next]_vars
  PROVE  Feeds' /\ feed' \in [Sockets -> Seq(Messages)]
<1>1. /\ feed \in [Sockets -> Seq(Messages)] /\ \A i \in Sockets : feed[i] \in Seq(Messages)
      /\ published \in Nat /\ written \in Nat /\ published <= written
      /\ traded \in Nat /\ lastTrade \in Nat /\ lastTrade <= traded
      /\ \A i \in Sockets : sock[i] \in {"unused", "connecting", "open", "lost", "closed"}
      /\ socket \in 0..MaxSockets /\ MaxSockets \in Nat
      /\ sock \in [Sockets -> {"unused", "connecting", "open", "lost", "closed"}]
  BY DashboardAssumption DEF PageInv, TypeOK, Messages, Counters
<1>2. \A i \in Sockets :
        /\ sock[i] \in {"unused", "connecting", "closed"} => feed[i] = <<>>
        /\ Readable(feed[i], published, traded, lastTrade)
  BY DEF PageInv, Feeds
<1>3. TypeOK /\ Counters /\ Link
  BY DEF PageInv
\* An announcement.
<1>4. ASSUME NEW e \in Messages, Announce(e), UNCHANGED <<sock, lastTrade>>,
             NEW p \in Nat, published' = p, published <= p,
             NEW t \in Nat, traded' = t, traded <= t,
             e.type = "kline" => e.value \in 1..p,
             e.type = "trade" => traded < e.value /\ e.value <= t
      PROVE  Feeds' /\ feed' \in [Sockets -> Seq(Messages)]
  <2>1. /\ feed' \in [Sockets -> Seq(Messages)]
        /\ \A i \in Sockets :
             feed'[i] = IF sock[i] = "open" THEN Append(feed[i], e) ELSE feed[i]
    BY <1>3, <1>4, Announcing
  <2>2. ASSUME NEW i \in Sockets
        PROVE  /\ sock[i] \in {"unused", "connecting", "closed"} => feed'[i] = <<>>
               /\ Readable(feed'[i], p, t, lastTrade)
    <3>1. Readable(Append(feed[i], e), p, t, lastTrade)
      BY <1>1, <1>2, <1>4, ReadableSent
    <3>2. CASE sock[i] = "open"
      BY <2>1, <3>1, <3>2
    <3>3. CASE sock[i] # "open"
      <4>1. feed'[i] = feed[i]
        BY <2>1, <3>3
      <4>2. CASE feed[i] = <<>>
        BY <4>1, <4>2, ReadableEmpty
      <4>3. CASE feed[i] # <<>>
        BY <1>1, <1>2, <1>4, <4>1, <4>3, ReadableMore
      <4> QED
        BY <1>2, <4>1, <4>2, <4>3
    <3> QED
      BY <3>2, <3>3
  <2> QED
    BY <1>4, <2>1, <2>2 DEF Feeds
\* Nothing is announced and nothing read.
<1>5. ASSUME NEW p \in Nat, published' = p, published <= p, UNCHANGED <<traded, lastTrade>>,
             NEW f \in [Sockets -> Seq(Messages)], feed' = f,
             \A i \in Sockets : f[i] = feed[i] \/ f[i] = <<>> \/
                                  \E n \in 0..Len(feed[i]) : f[i] = SubSeq(feed[i], 1, n),
             \A i \in Sockets : sock'[i] \in {"unused", "connecting", "closed"} => f[i] = <<>>
      PROVE  Feeds' /\ feed' \in [Sockets -> Seq(Messages)]
  <2>1. ASSUME NEW i \in Sockets
        PROVE  Readable(f[i], p, traded, lastTrade)
    <3>1. Readable(feed[i], p, traded, lastTrade)
      BY <1>1, <1>2, <1>5, ReadableMore
    <3>2. CASE f[i] = feed[i]
      BY <3>1, <3>2
    <3>3. CASE f[i] = <<>>
      BY <3>3, ReadableEmpty
    <3>4. CASE \E n \in 0..Len(feed[i]) : f[i] = SubSeq(feed[i], 1, n)
      BY <1>1, <3>1, <3>4, ReadableCut
    <3> QED
      BY <1>5, <3>2, <3>3, <3>4
  <2> QED
    BY <1>5, <2>1 DEF Feeds
<1>6. CASE CommitKline \/ Backfill \/ HookFails
  <2>1. /\ UNCHANGED <<feed, sock, traded, lastTrade>>
        /\ published' \in {published, written + 1}
    BY <1>6 DEF CommitKline, Backfill, HookFails
  <2>2. published' \in Nat /\ published <= published'
    BY <1>1, <2>1
  <2> QED
    BY <1>1, <1>2, <1>5, <2>1, <2>2
<1>7. CASE AnnounceKline
  <2>1. /\ published' = written /\ Announce(Kline(written)) /\ traded' = traded
        /\ UNCHANGED <<sock, lastTrade>> /\ published < written
    BY <1>7 DEF AnnounceKline
  <2>2. /\ Kline(written) \in Messages /\ Kline(written).type = "kline"
        /\ Kline(written).value = written /\ written \in 1..written
    BY <1>1, <1>3, <2>1, Announcements
  <2> QED
    BY <1>1, <1>4, <2>1, <2>2
<1>8. CASE AnnounceTrade
  <2>1. /\ traded' = traded + 1 /\ Announce(Trade(traded + 1)) /\ published' = published
        /\ UNCHANGED <<sock, lastTrade>>
    BY <1>8 DEF AnnounceTrade
  <2>2. /\ Trade(traded + 1) \in Messages /\ Trade(traded + 1).type = "trade"
        /\ Trade(traded + 1).value = traded + 1 /\ traded + 1 \in Nat /\ traded < traded + 1
    BY <1>1, <1>3, Announcements
  <2> QED
    BY <1>1, <1>4, <2>1, <2>2
<1>9. CASE PipelineConnects \/ PipelineDisconnects
  <2>1. /\ \E b \in BOOLEAN : Announce(Status(b))
        /\ UNCHANGED <<sock, lastTrade, published, traded>>
    BY <1>9 DEF PipelineConnects, PipelineDisconnects
  <2>2. \A b \in BOOLEAN : Status(b) \in Messages /\ Status(b).type = "status"
    BY MessageTypes
  <2> QED
    BY <1>1, <1>4, <2>1, <2>2
<1>10. CASE Mount \/ Timeout \/ Unmount
  <2>1. UNCHANGED <<published, traded, lastTrade>>
    BY <1>10 DEF Mount, Timeout, Unmount
  <2>2. CASE Unmount
    <3>1. /\ sock' = [sock EXCEPT ![socket] = "closed"]
          /\ feed' = [feed EXCEPT ![socket] = <<>>]
      BY <2>2 DEF Unmount
    <3>2. /\ feed' \in [Sockets -> Seq(Messages)]
          /\ \A i \in Sockets : IF i = socket THEN feed'[i] = <<>>
                                ELSE feed'[i] = feed[i] /\ sock'[i] = sock[i]
      BY <1>1, <3>1, EmptySeq
    <3> QED
      BY <1>1, <1>2, <1>5, <2>1, <3>2
  <2>3. CASE Mount \/ Timeout
    <3>1. feed' = feed /\ (sock' = sock \/ sock' = [sock EXCEPT ![socket + 1] = "connecting"])
      BY <2>3 DEF Mount, Timeout, Connect
    <3>2. \A i \in Sockets : sock'[i] = sock[i] \/ (i = socket + 1 /\ sock[i] = "unused")
      BY <1>1, <1>3, <3>1 DEF Link, Sockets
    <3> QED
      BY <1>1, <1>2, <1>5, <2>1, <3>1, <3>2
  <2> QED
    BY <1>10, <2>2, <2>3
<1>11. CASE AnswerCandles \/ AnswerStats \/ LoadFails \/ Load
  <2>1. UNCHANGED <<feed, sock, published, traded, lastTrade>>
    BY <1>11 DEF AnswerCandles, AnswerStats, LoadFails, Load
  <2> QED
    BY <1>1, <1>2, <1>5, <2>1
<1>12. ASSUME NEW i \in Sockets, Open(i) \/ OnClose(i)
       PROVE  Feeds' /\ feed' \in [Sockets -> Seq(Messages)]
  <2>1. UNCHANGED <<feed, published, traded, lastTrade>> /\ feed[i] = <<>>
    BY <1>2, <1>12 DEF Open, OnClose
  <2>2. \A j \in Sockets : j # i => sock'[j] = sock[j]
    BY <1>1, <1>12 DEF Open, OnClose
  <2> QED
    BY <1>1, <1>2, <1>5, <2>1, <2>2
<1>13. ASSUME NEW i \in Sockets, Lose(i)
       PROVE  Feeds' /\ feed' \in [Sockets -> Seq(Messages)]
  <2>1. /\ UNCHANGED <<published, traded, lastTrade>> /\ sock'[i] = "lost"
        /\ \A j \in Sockets : j # i => sock'[j] = sock[j]
    BY <1>1, <1>13 DEF Lose
  <2>2. PICK n \in 0..Len(feed[i]) : feed' = [feed EXCEPT ![i] = SubSeq(feed[i], 1, n)]
    BY <1>13 DEF Lose
  <2>3. SubSeq(feed[i], 1, n) \in Seq(Messages)
    BY <1>1, Cut
  <2>4. /\ feed' \in [Sockets -> Seq(Messages)] /\ feed'[i] = SubSeq(feed[i], 1, n)
        /\ \A j \in Sockets : j # i => feed'[j] = feed[j]
    BY <1>1, <2>2, <2>3
  <2> QED
    BY <1>1, <1>2, <1>5, <2>1, <2>4
<1>14. ASSUME NEW i \in Sockets, Message(i)
       PROVE  Feeds' /\ feed' \in [Sockets -> Seq(Messages)]
  <2> DEFINE h == Head(feed[i])
             r == Tail(feed[i])
  <2>1. /\ feed[i] # <<>> /\ i = socket /\ sock[i] \in {"open", "lost"}
        /\ feed' = [feed EXCEPT ![i] = r] /\ r \in Seq(Messages)
        /\ UNCHANGED <<published, traded, sock>>
        /\ h.type = "trade" => h.value \in 1..traded
    BY <1>14, Reading
  <2>2. \/ h.type = "trade" /\ lastTrade' = h.value
        \/ h.type # "trade" /\ lastTrade' = lastTrade
    BY <1>14 DEF Message
  <2>3. /\ Readable(r, published, traded, lastTrade)
        /\ h.type = "trade" => Readable(r, published, traded, h.value)
    BY <1>1, <1>2, <2>1, ReadableRead
  <2> HIDE DEF r, h
  <2>4. feed' \in [Sockets -> Seq(Messages)] /\ feed'[i] = r
        /\ \A j \in Sockets : j # i => feed'[j] = feed[j]
    BY <1>1, <2>1
  <2>5. lastTrade' \in Nat
    BY <1>1, <2>1, <2>2
  <2>6. ASSUME NEW j \in Sockets
        PROVE  /\ sock[j] \in {"unused", "connecting", "closed"} => feed'[j] = <<>>
               /\ Readable(feed'[j], published, traded, lastTrade')
    <3>1. CASE j = i
      BY <2>1, <2>2, <2>3, <2>4, <3>1
    <3>2. CASE j # i
      <4>1. feed'[j] = feed[j] /\ feed[j] = <<>>
        BY <1>1, <1>2, <1>3, <2>1, <2>4, <3>2 DEF Link, Sockets
      <4> QED
        BY <4>1, ReadableEmpty
    <3> QED
      BY <3>1, <3>2
  <2> QED
    BY <2>1, <2>4, <2>6 DEF Feeds
<1>15. CASE UNCHANGED vars
  BY <1>1, <1>2, <1>5, <1>15
<1> QED
  BY <1>6, <1>7, <1>8, <1>9, <1>10, <1>11, <1>12, <1>13, <1>14, <1>15
  DEF Next, Backend, Browser

LEMMA DelayStep ==
  ASSUME TypeOK
  PROVE  /\ NextDelay \in MIN_RECONNECT_DELAY..MAX_RECONNECT_DELAY
         /\ MIN_RECONNECT_DELAY \in MIN_RECONNECT_DELAY..MAX_RECONNECT_DELAY
BY DashboardAssumption DEF TypeOK, NextDelay

LEMMA TypeStep ==
  ASSUME PageInv, [Next]_vars
  PROVE  TypeOK'
<1>1. TypeOK /\ Counters /\ Link /\ SocketLeft
  BY DEF PageInv
<1>2. feed' \in [Sockets -> Seq(Messages)] /\ candles' \in Seq(Numbers)
  BY FeedsStep, ChartStep
<1>3. /\ NumKlines \in Nat /\ NumTrades \in Nat /\ MaxSockets \in Nat /\ MaxOutages \in Nat
      /\ None = -1
  BY DashboardAssumption DEF None
<1>4. CASE Backend
  <2>1. /\ written' \in 0..NumKlines /\ published' \in 0..written'
        /\ silent' \in SUBSET (1..written')
    <3>1. /\ written \in 0..NumKlines /\ published \in 0..written
          /\ silent \in SUBSET (1..written)
      BY <1>1 DEF TypeOK
    <3>2. CASE CommitKline
      <4>1. written < NumKlines /\ written' = written + 1 /\ UNCHANGED <<published, silent>>
        BY <3>2 DEF CommitKline
      <4> QED
        BY <1>3, <3>1, <4>1
    <3>3. CASE AnnounceKline
      <4>1. published' = written /\ UNCHANGED <<written, silent>>
        BY <3>3 DEF AnnounceKline
      <4> QED
        BY <1>3, <3>1, <4>1
    <3>4. CASE Backfill
      <4>1. /\ written < NumKlines /\ written' = written + 1 /\ published' = written + 1
            /\ silent' = silent \cup {written + 1}
        BY <3>4 DEF Backfill
      <4> QED
        BY <1>3, <3>1, <4>1
    <3>5. CASE AnnounceTrade \/ PipelineConnects \/ PipelineDisconnects \/ HookFails
      BY <3>1, <3>5 DEF AnnounceTrade, PipelineConnects, PipelineDisconnects, HookFails
    <3> QED
      BY <1>4, <3>2, <3>3, <3>4, <3>5 DEF Backend
  <2>2. /\ traded' \in 0..NumTrades /\ pipeline' \in BOOLEAN /\ outages' \in 0..MaxOutages
    <3>1. CASE CommitKline \/ AnnounceKline \/ Backfill
      BY <1>1, <3>1 DEF CommitKline, AnnounceKline, Backfill, TypeOK
    <3>2. traded \in 0..NumTrades /\ pipeline \in BOOLEAN /\ outages \in 0..MaxOutages
      BY <1>1 DEF TypeOK
    <3>3. CASE AnnounceTrade
      <4>1. traded < NumTrades /\ traded' = traded + 1 /\ UNCHANGED <<pipeline, outages>>
        BY <3>3 DEF AnnounceTrade
      <4> QED
        BY <1>3, <3>2, <4>1
    <3>4. CASE PipelineConnects
      BY <3>2, <3>4 DEF PipelineConnects
    <3>5. CASE PipelineDisconnects \/ HookFails
      <4>1. /\ traded' = traded /\ pipeline' = FALSE
            /\ outages' = outages \/ (outages < MaxOutages /\ outages' = outages + 1)
        BY <3>5 DEF PipelineDisconnects, HookFails, AttemptEnds
      <4>2. outages' \in 0..MaxOutages
        BY <1>3, <3>2, <4>1
      <4> QED
        BY <3>2, <4>1, <4>2
    <3> QED
      BY <1>4, <3>1, <3>3, <3>4, <3>5 DEF Backend
  <2>3. UNCHANGED <<browser, joined>>
    BY <1>4 DEF Backend, CommitKline, AnnounceKline, Backfill, AnnounceTrade,
                PipelineConnects, PipelineDisconnects, HookFails
  <2> QED
    BY <1>1, <1>2, <2>1, <2>2, <2>3 DEF TypeOK, Messages, Numbers
<1>5. CASE Mount \/ Timeout \/ Unmount
  <2>1. /\ UNCHANGED <<backend, delay, view, replies, overtaken, joined>>
        /\ load' \in {load, "asked"} /\ page' \in {page, "mounted", "unmounted"}
    BY <1>5 DEF Mount, Timeout, Unmount
  <2>2. socket' \in 0..MaxSockets
    <3>1. socket \in 0..MaxSockets /\ timers \in Nat /\ MaxSockets >= 1
      BY <1>1, DashboardAssumption DEF TypeOK
    <3>2. CASE Mount
      <4>1. socket' = socket + 1 /\ socket = 0
        BY <1>1, <3>2 DEF Mount, Connect, Link
      <4> QED
        BY <1>3, <3>1, <4>1
    <3>3. CASE Timeout
      <4>1. socket' \in {socket, socket + 1} /\ socket < MaxSockets
        BY <1>1, <3>3 DEF Timeout, Connect, SocketLeft
      <4> QED
        BY <1>3, <3>1, <4>1
    <3>4. CASE Unmount
      BY <3>1, <3>4 DEF Unmount
    <3> QED
      BY <1>5, <3>2, <3>3, <3>4
  <2>3. timers' \in Nat
    BY <1>1, <1>5 DEF Mount, Timeout, Unmount, ClearTimeout, TypeOK
  <2>4. sock' \in [Sockets -> {"unused", "connecting", "open", "lost", "closed"}]
    BY <1>1, <1>5 DEF Mount, Timeout, Unmount, Connect, TypeOK
  <2> QED
    BY <1>1, <1>2, <2>1, <2>2, <2>3, <2>4 DEF TypeOK, Messages
<1>6. CASE AnswerCandles \/ AnswerStats
  <2>1. /\ UNCHANGED <<backend, feed, page, link, view, load, overtaken, joined>>
        /\ candlesReply' \in {candlesReply, written}
        /\ statsReply' = statsReply \/ statsReply' \in 0..traded
    BY <1>6 DEF AnswerCandles, AnswerStats
  <2>2. /\ candlesReply' \in 0..NumKlines \cup {None}
        /\ statsReply' \in 0..NumTrades \cup {None}
    BY <1>1, <1>3, <2>1 DEF TypeOK
  <2> QED
    BY <1>1, <2>1, <2>2 DEF TypeOK
<1>7. CASE Load
  <2>1. /\ UNCHANGED <<backend, feed, page, link, wsConnected, lastTrade, replies, joined>>
        /\ load' = "loaded" /\ takerVolume' = statsReply /\ overtaken' \in BOOLEAN
        /\ statsReply # None
    BY <1>7 DEF Load
  <2>2. takerVolume' \in Nat
    BY <1>1, <1>3, <2>1 DEF TypeOK
  <2> QED
    BY <1>1, <1>2, <2>1, <2>2 DEF TypeOK, Numbers
<1>8. CASE LoadFails
  BY <1>1, <1>8 DEF LoadFails, TypeOK
<1>9. ASSUME NEW i \in Sockets, Open(i)
      PROVE  TypeOK'
  <2>1. /\ UNCHANGED <<backend, feed, page, socket, timers, candles, trade, rest>>
        /\ wsConnected' = TRUE /\ delay' = MIN_RECONNECT_DELAY
        /\ sock' = [sock EXCEPT ![i] = "open"] /\ joined' = [joined EXCEPT ![i] = published]
    BY <1>9 DEF Open
  <2>2. /\ delay' \in MIN_RECONNECT_DELAY..MAX_RECONNECT_DELAY
        /\ published \in 0..NumKlines
    BY <1>1, <1>3, <2>1, DelayStep DEF TypeOK
  <2>3. joined' \in [Sockets -> 0..NumKlines]
    BY <1>1, <2>1, <2>2 DEF TypeOK
  <2>4. sock' \in [Sockets -> {"unused", "connecting", "open", "lost", "closed"}]
    BY <1>1, <2>1 DEF TypeOK
  <2> QED
    BY <1>1, <2>1, <2>2, <2>3, <2>4 DEF TypeOK
<1>10. ASSUME NEW i \in Sockets, Lose(i)
       PROVE  TypeOK'
  <2>1. /\ UNCHANGED <<backend, page, socket, timers, delay, view, rest, joined>>
        /\ sock' = [sock EXCEPT ![i] = "lost"]
    BY <1>10 DEF Lose
  <2>2. sock' \in [Sockets -> {"unused", "connecting", "open", "lost", "closed"}]
    BY <1>1, <2>1 DEF TypeOK
  <2> QED
    BY <1>1, <1>2, <2>1, <2>2 DEF TypeOK, Messages
<1>11. ASSUME NEW i \in Sockets, OnClose(i)
       PROVE  TypeOK'
  <2>1. /\ UNCHANGED <<backend, feed, page, socket, candles, trade, rest, joined>>
        /\ sock' = [sock EXCEPT ![i] = "closed"] /\ wsConnected' = FALSE
        /\ timers' = timers + 1 /\ delay' = NextDelay
    BY <1>11 DEF OnClose, ScheduleReconnect
  <2>2. delay' \in MIN_RECONNECT_DELAY..MAX_RECONNECT_DELAY
    BY <1>1, <2>1, DelayStep
  <2>3. sock' \in [Sockets -> {"unused", "connecting", "open", "lost", "closed"}]
    BY <1>1, <2>1 DEF TypeOK
  <2>4. timers' \in Nat
    BY <1>1, <2>1 DEF TypeOK
  <2> QED
    BY <1>1, <2>1, <2>2, <2>3, <2>4 DEF TypeOK
<1>12. ASSUME NEW i \in Sockets, Message(i)
       PROVE  TypeOK'
  <2>1. UNCHANGED <<backend, page, link, rest, joined>>
    BY <1>12 DEF Message
  <2>2. wsConnected' \in BOOLEAN /\ takerVolume' \in {takerVolume, takerVolume + 1}
    BY <1>1, <1>12 DEF Message, TypeOK
  <2>3. lastTrade' \in 0..NumTrades
    <3>1. Head(feed[i]).type = "trade" => Head(feed[i]).value \in 1..traded
      BY <1>12, Reading
    <3>2. lastTrade' = lastTrade \/ lastTrade' \in 1..traded
      BY <1>12, <3>1 DEF Message
    <3> QED
      BY <1>1, <1>3, <3>2 DEF TypeOK
  <2>4. wsConnected' \in BOOLEAN /\ takerVolume' \in Nat
    BY <1>1, <2>2 DEF TypeOK
  <2>5. /\ feed' \in [Sockets -> Seq([type : {"kline", "trade", "status"}, value : Nat])]
        /\ candles' \in Seq(1..NumKlines)
    BY <1>2 DEF Messages, Numbers
  <2> QED
    BY <1>1, <2>1, <2>3, <2>4, <2>5 DEF TypeOK
<1>13. CASE UNCHANGED vars
  BY <1>1, <1>13 DEF TypeOK
<1> QED
  BY <1>4, <1>5, <1>6, <1>7, <1>8, <1>9, <1>10, <1>11, <1>12, <1>13 DEF Next, Browser

LEMMA PageInit == Init => PageInv
<1> SUFFICES ASSUME Init PROVE PageInv
  OBVIOUS
<1>1. /\ <<>> \in Seq(Messages) /\ <<>> \in Seq(Numbers) /\ Len(<<>>) = 0
      /\ \A i \in Sockets : feed[i] = <<>>
  BY EmptySeq DEF Init
<1>2. TypeOK
  <2>1. delay \in MIN_RECONNECT_DELAY..MAX_RECONNECT_DELAY
    BY DashboardAssumption DEF Init
  <2>2. feed \in [Sockets -> Seq(Messages)] /\ candles \in Seq(1..NumKlines)
    BY <1>1 DEF Init, Numbers
  <2>3. /\ written \in 0..NumKlines /\ published \in 0..written
        /\ silent \in SUBSET (1..written) /\ traded \in 0..NumTrades
        /\ outages \in 0..MaxOutages /\ socket \in 0..MaxSockets
        /\ timers \in Nat /\ takerVolume \in Nat /\ lastTrade \in 0..NumTrades
    BY DashboardAssumption DEF Init
  <2>4. joined \in [Sockets -> 0..NumKlines]
    BY DashboardAssumption DEF Init
  <2>5. /\ pipeline \in BOOLEAN /\ wsConnected \in BOOLEAN /\ overtaken \in BOOLEAN
        /\ page \in {"new", "mounted", "unmounted"}
        /\ sock \in [Sockets -> {"unused", "connecting", "open", "lost", "closed"}]
        /\ load \in {"none", "asked", "loaded", "failed"}
        /\ candlesReply = None /\ statsReply = None
    BY DEF Init
  <2> QED
    BY <2>1, <2>2, <2>3, <2>4, <2>5 DEF TypeOK, Messages
<1>3. Link /\ SocketLeft
  BY DashboardAssumption DEF Init, Link, SocketLeft, Sockets
<1>4. Feeds
  BY <1>1, ReadableEmpty DEF Feeds
<1>5. Counters
  BY DEF Init, Counters
<1>6. Chart
  BY <1>1, DashboardAssumption DEF Init, Chart, InOrder
<1> QED
  BY <1>2, <1>3, <1>4, <1>5, <1>6 DEF PageInv

LEMMA PageStep == PageInv /\ [Next]_vars => PageInv'
BY TypeStep, LinkStep, FeedsStep, CountersStep, ChartStep DEF PageInv

LEMMA PageInvariant == Spec => []PageInv
BY PageInit, PageStep, PTL DEF Spec

-----------------------------------------------------------------------------
\* Every variable keeps its type, the candles among them klines that exist.
THEOREM TypeCorrect == Spec => []TypeOK
<1>1. PageInv => TypeOK
  BY DEF PageInv
<1> QED
  BY <1>1, PageInvariant, PTL

\* However load, late messages, reconnections and full rings are mixed: the chart
\* is in time order, has one candle for each minute and no more than it may.
THEOREM ChartIsInOrder == Spec => []ChartInOrder
<1>1. PageInv => ChartInOrder
  <2> SUFFICES ASSUME PageInv PROVE ChartInOrder
    OBVIOUS
  <2>1. candles \in Seq(Numbers) /\ InOrder(candles) /\ Len(candles) <= MAX_CANDLES
    BY DEF PageInv, TypeOK, Chart, Numbers
  <2>2. ASSUME NEW i \in DOMAIN candles, NEW j \in DOMAIN candles, i < j
        PROVE  OpenTime(candles[i]) < OpenTime(candles[j])
    <3>1. /\ i \in 1..Len(candles) /\ j \in 1..Len(candles) /\ i \in Int /\ j \in Int
          /\ OpenTime(candles[i]) \in Int /\ OpenTime(candles[j]) \in Int
      BY <2>1, ChartFacts
    <3>2. j - i <= OpenTime(candles[j]) - OpenTime(candles[i])
      BY <2>1, <2>2, <3>1 DEF InOrder
    <3> QED
      BY <2>2, <3>1, <3>2
  <2> QED
    BY <2>1, <2>2 DEF ChartInOrder
<1> QED
  BY <1>1, PageInvariant, PTL

\* A mounted page has one socket or one timeout for the next, a page that was left
\* has neither, whatever is refused, lost or left at whatever moment.
THEOREM OneFeedAtATime == Spec => []OneFeed
<1>1. PageInv => OneFeed
  <2> SUFFICES ASSUME PageInv PROVE OneFeed
    OBVIOUS
  <2>1. /\ Link /\ socket \in 0..MaxSockets /\ MaxSockets \in Nat
        /\ sock \in [Sockets -> {"unused", "connecting", "open", "lost", "closed"}]
        /\ page \in {"new", "mounted", "unmounted"}
        /\ \A i \in Sockets : i \in Int
    BY DashboardAssumption DEF PageInv, TypeOK, Sockets
  <2>2. \A i \in Alive : i = socket
    BY <2>1 DEF Link, Alive
  <2>3. CASE Alive = {}
    <3>1. Cardinality(Alive) = 0
      BY <2>3, FS_EmptySet
    <3>2. timers = IF page = "mounted" THEN 1 ELSE 0
      BY <2>1, <2>3 DEF Link, Alive
    <3> QED
      BY <3>1, <3>2 DEF OneFeed
  <2>4. CASE Alive # {}
    <3>1. Alive = {socket} /\ socket \in Sockets /\ sock[socket] \notin {"unused", "closed"}
      BY <2>2, <2>4 DEF Alive
    <3>2. Cardinality(Alive) = 1
      BY <3>1, FS_Singleton
    <3>3. page = "mounted" /\ timers = 0
      BY <2>1, <3>1 DEF Link, Sockets
    <3> QED
      BY <3>2, <3>3 DEF OneFeed
  <2> QED
    BY <2>3, <2>4
<1> QED
  BY <1>1, PageInvariant, PTL

\* The last price never goes back to an older trade, and only a newer trade or the
\* load changes the taker volume.
THEOREM TradesCountOnce == Spec => TradesOnce
<1> DEFINE Newer == /\ lastTrade <= lastTrade'
                    /\ takerVolume # takerVolume' => load # load' \/ lastTrade < lastTrade'
<1>1. ASSUME PageInv, [Next]_vars
      PROVE  [Newer]_vars
  <2>1. lastTrade \in Int
    BY <1>1, DashboardAssumption DEF PageInv, TypeOK
  <2>2. CASE Load
    BY <2>1, <2>2 DEF Load
  <2>3. ASSUME NEW i \in Sockets, Message(i)
        PROVE  Newer
    <3>1. Head(feed[i]).type = "trade" => lastTrade < Head(feed[i]).value
      BY <1>1, <2>3, Reading
    <3>2. \/ lastTrade' = lastTrade /\ takerVolume' = takerVolume
          \/ Head(feed[i]).type = "trade" /\ lastTrade' = Head(feed[i]).value
      BY <2>3 DEF Message
    <3>3. Head(feed[i]).value \in Int
      BY <1>1, <2>3, Reading DEF Messages
    <3> QED
      BY <2>1, <3>1, <3>2, <3>3
  <2>4. CASE UNCHANGED <<lastTrade, takerVolume>>
    BY <2>1, <2>4
  <2>5. CASE Backend
    BY <2>4, <2>5 DEF Backend, CommitKline, AnnounceKline, Backfill, AnnounceTrade,
                      PipelineConnects, PipelineDisconnects, HookFails
  <2>6. CASE Mount \/ Timeout \/ Unmount \/ AnswerCandles \/ AnswerStats \/ LoadFails
    BY <2>4, <2>6 DEF Mount, Timeout, Unmount, AnswerCandles, AnswerStats, LoadFails
  <2>7. ASSUME NEW i \in Sockets, Open(i) \/ OnClose(i) \/ Lose(i)
        PROVE  Newer
    <3>1. UNCHANGED <<lastTrade, takerVolume>>
      BY <2>7 DEF Open, OnClose, Lose
    <3> QED
      BY <2>1, <3>1
  <2> QED
    BY <1>1, <2>2, <2>3, <2>4, <2>5, <2>6, <2>7 DEF Next, Browser
<1> QED
  BY <1>1, PageInvariant, PTL DEF Spec, TradesOnce

-----------------------------------------------------------------------------
(* No kline is forgotten. *)

Announced == (1..published) \ silent

\* What the page's open socket was sent is shown or on its way,
InSight ==
  socket # 0 /\ sock[socket] = "open" /\ ~overtaken =>
    \A k \in Announced : GapFree \/ joined[socket] < k =>
                           ShownIn(candles, k) \/ Pending(feed[socket], k)

\* a later kline behind an earlier one, so that the last message of a minute is
\* the last one to be read,
InTurn ==
  socket # 0 /\ sock[socket] = "open" => KeepsOrder(feed[socket], Announced)

\* and a load that comes before the first socket opens shows all that it has read.
LoadedEarly ==
  socket = 1 /\ sock[1] = "connecting" /\ load = "loaded" =>
    \A k \in 1..candlesReply : ShownIn(candles, k)

SightInv == PageInv /\ InSight /\ InTurn /\ LoadedEarly

LEMMA AnnouncedFacts ==
  ASSUME PageInv
  PROVE  /\ Announced \in SUBSET Numbers /\ Announced \in SUBSET Int
         /\ published \in Nat /\ written \in Nat /\ published <= written
         /\ written \in {published, published + 1}
         /\ \A k \in Announced : k \in Int /\ 1 <= k /\ k <= published
<1>1. /\ NumKlines \in Nat /\ written \in 0..NumKlines /\ published \in 0..written
      /\ written \in {published, published + 1}
  BY DashboardAssumption DEF PageInv, TypeOK, Counters
<1> QED
  BY <1>1 DEF Announced, Numbers

LEMMA SightOfBackend ==
  ASSUME SightInv, Backend
  PROVE  InSight' /\ InTurn' /\ LoadedEarly'
<1>1. UNCHANGED <<browser, joined>>
  BY DEF Backend, CommitKline, AnnounceKline, Backfill, AnnounceTrade,
         PipelineConnects, PipelineDisconnects, HookFails
<1>2. /\ TypeOK /\ Counters /\ InSight /\ InTurn /\ LoadedEarly
      /\ socket \in 0..MaxSockets /\ MaxSockets \in Nat
      /\ \A i \in Sockets : feed[i] \in Seq(Messages)
  BY DashboardAssumption DEF SightInv, PageInv, TypeOK, Messages
<1>3. /\ Announced \in SUBSET Int
      /\ published \in Nat /\ written \in Nat /\ published <= written
      /\ written \in {published, published + 1}
      /\ \A k \in Announced : k \in Int /\ 1 <= k /\ k <= published
  BY AnnouncedFacts DEF SightInv
<1>4. LoadedEarly'
  BY <1>1, <1>2 DEF LoadedEarly
<1>5. GapFree' <=> GapFree
  BY <1>1 DEF GapFree
<1>6. ASSUME feed' = feed, Announced' \subseteq Announced
      PROVE  InSight' /\ InTurn'
  <2>1. InSight'
    BY <1>1, <1>2, <1>5, <1>6 DEF InSight
  <2>2. InTurn'
    BY <1>1, <1>2, <1>6, KeepsOrderFewer DEF InTurn
  <2> QED
    BY <2>1, <2>2
<1>7. ASSUME NEW e \in Messages, Announce(e), Announced' \in SUBSET Int,
             e.type = "kline" => /\ Announced' \subseteq Announced \cup {e.value}
                                 /\ \A k \in Announced' : k <= e.value,
             e.type # "kline" => Announced' \subseteq Announced
      PROVE  InSight' /\ InTurn'
  <2> SUFFICES ASSUME socket # 0, sock[socket] = "open"
               PROVE  InSight' /\ InTurn'
    BY <1>1 DEF InSight, InTurn
  <2> DEFINE f == feed[socket]
  <2>1. socket \in Sockets
    BY <1>2 DEF Sockets
  <2>2. feed'[socket] = Append(f, e)
    BY <1>2, <1>7, <2>1, Announcing
  <2>3. f \in Seq(Messages) /\ KeepsOrder(f, Announced)
    BY <1>2, <2>1 DEF InTurn
  <2> HIDE DEF f
  <2>4. /\ KeepsOrder(Append(f, e), Announced')
        /\ \A k \in Announced' : Pending(f, k) => Pending(Append(f, e), k)
        /\ e.type = "kline" => Pending(Append(f, e), e.value)
    BY <1>7, <2>3, KeepsOrderSent
  <2>5. InTurn'
    BY <1>1, <2>2, <2>4 DEF InTurn
  <2>6. ASSUME ~overtaken, NEW k \in Announced', GapFree \/ joined[socket] < k
        PROVE  ShownIn(candles, k) \/ Pending(Append(f, e), k)
    <3>1. CASE k \in Announced
      BY <1>2, <2>4, <2>6, <3>1 DEF InSight, f
    <3>2. CASE k \notin Announced
      BY <1>7, <2>4, <3>2
    <3> QED
      BY <3>1, <3>2
  <2>7. InSight'
    BY <1>1, <1>5, <2>2, <2>6 DEF InSight
  <2> QED
    BY <2>5, <2>7
<1>8. CASE CommitKline
  <2>1. feed' = feed /\ published' = published /\ silent' = silent
    BY <1>8 DEF CommitKline
  <2> QED
    BY <1>4, <1>6, <2>1 DEF Announced
<1>9. CASE Backfill
  <2>1. /\ feed' = feed /\ written = published /\ published' = written + 1
        /\ silent' = silent \cup {written + 1}
    BY <1>9 DEF Backfill
  <2>2. Announced' \subseteq Announced
    BY <1>3, <2>1 DEF Announced
  <2> QED
    BY <1>4, <1>6, <2>1, <2>2
<1>10. CASE AnnounceKline
  <2>1. Announce(Kline(written)) /\ published' = written /\ silent' = silent
    BY <1>10 DEF AnnounceKline
  <2>2. /\ Kline(written) \in Messages /\ Kline(written).type = "kline"
        /\ Kline(written).value = written
    BY <1>2, Announcements
  <2>3. /\ Announced' \in SUBSET Int /\ Announced' \subseteq Announced \cup {written}
        /\ \A k \in Announced' : k <= written
    BY <1>3, <2>1 DEF Announced
  <2> QED
    BY <1>4, <1>7, <2>1, <2>2, <2>3
<1>11. CASE AnnounceTrade
  <2>1. Announce(Trade(traded + 1)) /\ published' = published /\ silent' = silent
    BY <1>11 DEF AnnounceTrade
  <2>2. Trade(traded + 1) \in Messages /\ Trade(traded + 1).type # "kline"
    BY <1>2, Announcements
  <2>3. Announced' = Announced
    BY <2>1 DEF Announced
  <2> QED
    BY <1>3, <1>4, <1>7, <2>1, <2>2, <2>3
<1>12. CASE PipelineConnects \/ PipelineDisconnects
  <2>1. /\ \E b \in BOOLEAN : Announce(Status(b))
        /\ published' = published /\ silent' = silent
    BY <1>12 DEF PipelineConnects, PipelineDisconnects
  <2>2. \A b \in BOOLEAN : Status(b) \in Messages /\ Status(b).type # "kline"
    BY MessageTypes
  <2>3. Announced' = Announced
    BY <2>1 DEF Announced
  <2> QED
    BY <1>3, <1>4, <1>7, <2>1, <2>2, <2>3
<1>13. CASE HookFails
  <2>1. feed' = feed /\ Announced' \subseteq Announced
    BY <1>13 DEF HookFails, Announced
  <2> QED
    BY <1>4, <1>6, <2>1
<1> QED
  BY <1>8, <1>9, <1>10, <1>11, <1>12, <1>13 DEF Backend

LEMMA SightOfLoad ==
  ASSUME SightInv, Load
  PROVE  InSight' /\ InTurn' /\ LoadedEarly'
<1>1. /\ UNCHANGED <<published, silent, feed, link, candlesReply, joined>>
      /\ load = "asked" /\ load' = "loaded"
      /\ overtaken' = \E i \in DOMAIN candles : candles[i] > candlesReply
  BY DEF Load
<1>2. /\ candlesReply \in 0..NumKlines /\ NumKlines \in Nat
      /\ \A k \in 1..candlesReply : ShownIn(candles', k)
  BY LoadingChart, DashboardAssumption DEF SightInv
<1>3. ~overtaken /\ InSight /\ InTurn /\ candles \in Seq(Numbers)
  BY <1>1 DEF SightInv, PageInv, Counters, TypeOK, Numbers
<1>4. InTurn'
  BY <1>1, <1>3 DEF InTurn, Announced
<1>5. LoadedEarly'
  BY <1>1, <1>2 DEF LoadedEarly
<1>6. ASSUME socket # 0, sock[socket] = "open", ~overtaken', NEW k \in Announced,
             GapFree' \/ joined[socket] < k
      PROVE  ShownIn(candles', k) \/ Pending(feed[socket], k)
  <2>1. k \in Int /\ 1 <= k /\ k \in Numbers
    BY AnnouncedFacts DEF SightInv
  <2>2. CASE k <= candlesReply
    BY <1>2, <2>1, <2>2
  \* Read after the load: on its way, for nothing newer than the load was shown.
  <2>3. CASE k > candlesReply
    <3>1. \A i \in 1..Len(candles) : candles[i] < k
      <4>1. /\ DOMAIN candles = 1..Len(candles)
            /\ \A i \in 1..Len(candles) : candles[i] \in Int
        BY <1>3, ChartFacts
      <4>2. \A i \in DOMAIN candles : ~(candles[i] > candlesReply)
        BY <1>1, <1>6
      <4> QED
        BY <1>2, <2>1, <2>3, <4>1, <4>2
    <3>2. ~ShownIn(candles, k)
      <4>1. ~Holds(candles, k)
        <5> SUFFICES ASSUME Holds(candles, k) PROVE FALSE
          OBVIOUS
        <5>1. PICK i \in 1..Len(candles) : candles[i] >= k
          BY DEF Holds
        <5>2. candles[i] < k /\ candles[i] \in Int
          BY <1>3, <3>1, ChartFacts
        <5> QED
          BY <2>1, <5>1, <5>2
      <4>2. ~(Len(candles) = MAX_CANDLES /\ OpenTime(k) < OpenTime(candles[1]))
        <5> SUFFICES ASSUME Len(candles) = MAX_CANDLES, OpenTime(k) < OpenTime(candles[1])
                     PROVE  FALSE
          OBVIOUS
        <5>1. 1 \in 1..Len(candles)
          BY DashboardAssumption
        <5>2. candles[1] < k /\ candles[1] \in Numbers /\ candles[1] \in Int
          BY <1>3, <3>1, <5>1, ChartFacts
        <5>3. k < candles[1]
          BY <2>1, <5>2, NumberFacts
        <5> QED
          BY <2>1, <5>2, <5>3
      <4> QED
        BY <4>1, <4>2 DEF ShownIn
    <3>3. joined[socket] < k
      <4>1. CASE GapFree'
        <5>1. socket = 1 /\ joined[1] <= candlesReply
          BY <1>1, <4>1 DEF GapFree
        <5>2. joined[1] \in Int
          BY <1>6, <5>1, DashboardAssumption DEF SightInv, PageInv, TypeOK, Sockets
        <5> QED
          BY <1>2, <2>1, <2>3, <5>1, <5>2
      <4> QED
        BY <1>6, <4>1
    <3> QED
      BY <1>3, <1>6, <3>2, <3>3 DEF InSight
  <2> QED
    BY <1>2, <2>1, <2>2, <2>3
<1>7. Announced' = Announced
  BY <1>1 DEF Announced
<1>8. InSight'
  BY <1>1, <1>6, <1>7 DEF InSight
<1> QED
  BY <1>4, <1>5, <1>8

LEMMA SightOfMessage ==
  ASSUME SightInv, NEW i \in Sockets, Message(i)
  PROVE  InSight' /\ InTurn' /\ LoadedEarly'
<1> DEFINE s == feed[i]
           h == Head(s)
           r == Tail(s)
<1>1. /\ s \in Seq(Messages) /\ s # <<>> /\ sock[i] \in {"open", "lost"} /\ i = socket
      /\ feed' = [feed EXCEPT ![i] = r]
      /\ UNCHANGED <<published, silent, link, rest, joined>>
  BY Reading DEF SightInv
<1>2. /\ InSight /\ InTurn /\ feed \in [Sockets -> Seq(Messages)]
      /\ candles \in Seq(Numbers) /\ InOrder(candles) /\ Len(candles) <= MAX_CANDLES
  BY DEF SightInv, PageInv, TypeOK, Chart, Messages, Numbers
<1>3. Announced' = Announced /\ (GapFree' <=> GapFree)
  BY <1>1 DEF Announced, GapFree
<1>4. \/ h.type # "kline" /\ candles' = candles
      \/ h.type = "kline" /\ h.value \in Numbers /\ candles' = UpsertCandle(candles, h.value)
  BY ReadingChart DEF SightInv
<1>5. LoadedEarly'
  BY <1>1 DEF LoadedEarly
<1>6. feed'[i] = r
  BY <1>1, <1>2
<1>7. SUFFICES ASSUME socket # 0, sock[socket] = "open"
               PROVE  InSight' /\ InTurn'
  BY <1>1, <1>5 DEF InSight, InTurn
<1>8. KeepsOrder(s, Announced)
  BY <1>1, <1>2, <1>7 DEF InTurn
<1> HIDE DEF s
<1>9. /\ KeepsOrder(r, Announced)
      /\ \A k \in Announced : Pending(s, k) => IsKline(h, k) \/ Pending(r, k)
      /\ h.type = "kline" => \A k \in Announced : h.value < k => Pending(r, k)
  BY <1>1, <1>8, KeepsOrderRead
<1> HIDE DEF h, r
<1>10. InTurn'
  BY <1>1, <1>3, <1>6, <1>9 DEF InTurn
<1>11. ASSUME ~overtaken, NEW k \in Announced, GapFree \/ joined[socket] < k
       PROVE  ShownIn(candles', k) \/ Pending(r, k)
  <2>1. ShownIn(candles, k) \/ Pending(s, k)
    BY <1>1, <1>2, <1>7, <1>11 DEF InSight, s
  <2>2. k \in Numbers /\ k \in Int
    BY AnnouncedFacts DEF SightInv
  <2>3. CASE h.type # "kline" /\ candles' = candles
    BY <1>9, <2>1, <2>3 DEF IsKline
  <2>4. CASE /\ h.type = "kline" /\ h.value \in Numbers
             /\ candles' = UpsertCandle(candles, h.value)
    <3> DEFINE e == h.value
    <3>1. e \in Numbers /\ candles' = UpsertCandle(candles, e)
      BY <2>4
    <3> HIDE DEF e
    <3>2. /\ ShownIn(candles', e)
          /\ \A n \in Numbers :
               ShownIn(candles, n) /\ (OpenTime(n) # OpenTime(e) \/ n <= e)
                 => ShownIn(candles', n)
      BY <1>2, <3>1, UpsertChart
    <3>3. CASE ShownIn(candles, k)
      <4>1. e \in Int
        BY <3>1, NumberFacts
      <4>2. k <= e \/ e < k
        BY <2>2, <4>1
      <4>3. e < k => Pending(r, k)
        BY <1>9, <2>4 DEF e
      <4> QED
        BY <2>2, <3>2, <3>3, <4>2, <4>3
    <3>4. CASE Pending(s, k)
      <4>1. k = e \/ Pending(r, k)
        BY <1>9, <3>4 DEF IsKline, e
      <4> QED
        BY <3>2, <4>1
    <3> QED
      BY <2>1, <3>3, <3>4
  <2> QED
    BY <1>4, <2>3, <2>4
<1>12. InSight'
  BY <1>1, <1>3, <1>6, <1>11 DEF InSight
<1> QED
  BY <1>10, <1>12

LEMMA SightOfSocket ==
  ASSUME SightInv, NEW i \in Sockets, Open(i) \/ OnClose(i) \/ Lose(i)
  PROVE  InSight' /\ InTurn' /\ LoadedEarly'
<1>1. /\ sock \in [Sockets -> {"unused", "connecting", "open", "lost", "closed"}]
      /\ socket \in 0..MaxSockets /\ MaxSockets \in Nat
      /\ joined \in [Sockets -> 0..NumKlines]
      /\ Link /\ Feeds /\ LoadedEarly
  BY DashboardAssumption DEF SightInv, PageInv, TypeOK
<1>2. /\ UNCHANGED <<published, silent, socket, candles, rest>>
      /\ sock[i] \in {"connecting", "open", "lost"}
  BY DEF Open, OnClose, Lose
<1>3. i = socket
  BY <1>1, <1>2 DEF Link, Sockets
<1>4. CASE OnClose(i) \/ Lose(i)
  <2>1. sock'[socket] \notin {"open", "connecting"}
    BY <1>1, <1>3, <1>4 DEF OnClose, Lose
  <2> QED
    BY <1>2, <2>1 DEF InSight, InTurn, LoadedEarly
<1>5. CASE Open(i)
  <2>1. /\ sock[i] = "connecting" /\ sock'[i] = "open" /\ joined'[i] = published
        /\ feed' = feed
    BY <1>1, <1>5 DEF Open
  <2>2. feed[i] = <<>>
    BY <1>1, <2>1 DEF Feeds
  <2>3. InTurn'
    BY <1>2, <1>3, <2>1, <2>2, KeepsOrderEmpty DEF InTurn
  <2>4. LoadedEarly'
    BY <1>2, <1>3, <2>1 DEF LoadedEarly
  <2>5. ASSUME NEW k \in Announced, GapFree' \/ published < k
        PROVE  ShownIn(candles, k)
    <3>1. k \in Int /\ 1 <= k /\ k <= published /\ published \in Int
      BY AnnouncedFacts DEF SightInv
    <3>2. socket = 1 /\ load = "loaded" /\ published <= candlesReply
      BY <1>2, <1>3, <2>1, <2>5, <3>1 DEF GapFree
    <3>3. candlesReply \in Int
      BY <3>2, DashboardAssumption DEF SightInv, PageInv, TypeOK, None
    <3>4. k \in 1..candlesReply
      BY <3>1, <3>2, <3>3
    <3> QED
      BY <1>1, <1>3, <2>1, <3>2, <3>4 DEF LoadedEarly
  <2>6. Announced' = Announced
    BY <1>2 DEF Announced
  <2>7. InSight'
    BY <1>2, <1>3, <2>1, <2>5, <2>6 DEF InSight
  <2> QED
    BY <2>3, <2>4, <2>7
<1> QED
  BY <1>4, <1>5

LEMMA SightStep == SightInv /\ [Next]_vars => SightInv'
<1> SUFFICES ASSUME SightInv, [Next]_vars
             PROVE  InSight' /\ InTurn' /\ LoadedEarly'
  BY PageStep DEF SightInv
<1>1. /\ socket \in 0..MaxSockets /\ MaxSockets \in Nat /\ Link
      /\ sock \in [Sockets -> {"unused", "connecting", "open", "lost", "closed"}]
      /\ page \in {"new", "mounted", "unmounted"}
      /\ InSight /\ InTurn /\ LoadedEarly
  BY DashboardAssumption DEF SightInv, PageInv, TypeOK
\* No socket is open.
<1>2. CASE Mount
  <2>1. /\ socket' = 1 /\ sock' = [sock EXCEPT ![1] = "connecting"] /\ load' = "asked"
    BY <1>1, <1>2 DEF Mount, Connect, Link
  <2>2. sock'[1] = "connecting"
    BY <1>1, <2>1, DashboardAssumption DEF Sockets
  <2> QED
    BY <2>1, <2>2 DEF InSight, InTurn, LoadedEarly
<1>3. CASE Timeout
  <2>1. page = "mounted" /\ socket \in Sockets /\ socket < MaxSockets
    BY <1>1, <1>3 DEF Timeout, Link, SightInv, PageInv, TypeOK, SocketLeft
  <2>2. socket' = socket + 1 /\ sock' = [sock EXCEPT ![socket + 1] = "connecting"]
    BY <1>3, <2>1 DEF Timeout, Connect
  <2>3. socket' # 1 /\ sock'[socket'] = "connecting"
    BY <1>1, <2>1, <2>2 DEF Sockets
  <2> QED
    BY <2>3 DEF InSight, InTurn, LoadedEarly
<1>4. CASE Unmount
  <2>1. sock'[socket'] = "closed"
    BY <1>1, <1>4 DEF Unmount, Link
  <2> QED
    BY <2>1 DEF InSight, InTurn, LoadedEarly
\* The load is not there.
<1>5. CASE AnswerCandles \/ AnswerStats \/ LoadFails
  <2>1. /\ UNCHANGED <<published, silent, feed, sock, socket, candles, overtaken, joined>>
        /\ load # "loaded" /\ load' # "loaded"
    BY <1>5 DEF AnswerCandles, AnswerStats, LoadFails
  <2>2. ~GapFree /\ ~GapFree' /\ Announced' = Announced
    BY <2>1 DEF GapFree, Announced
  <2> QED
    BY <1>1, <2>1, <2>2 DEF InSight, InTurn, LoadedEarly
<1>6. CASE UNCHANGED vars
  BY <1>1, <1>6 DEF InSight, InTurn, LoadedEarly, Announced, GapFree
<1> QED
  BY <1>2, <1>3, <1>4, <1>5, <1>6, SightOfBackend, SightOfLoad, SightOfMessage, SightOfSocket
  DEF Next, Browser

LEMMA SightInvariant == Spec => []SightInv
<1>1. Init => SightInv
  BY PageInit DEF Init, SightInv, InSight, InTurn, LoadedEarly
<1> QED
  BY <1>1, SightStep, PTL DEF Spec

LEMMA ShownInChart ==
  ASSUME PageInv, NEW k
  PROVE  ShownIn(candles, k) <=> Shown(k)
<1>1. DOMAIN candles = 1..Len(candles)
  BY ChartFacts DEF PageInv, TypeOK, Numbers
<1> QED
  BY <1>1 DEF ShownIn, Holds, Shown

\* A page that has read its feed shows, or has superseded, every kline announced
\* since its socket was subscribed, and with a gap-free load every one before it.
THEOREM NoKlineIsForgotten == Spec => []NoKlineForgotten
<1>1. SightInv => NoKlineForgotten
  <2> SUFFICES ASSUME SightInv, Settled, ~overtaken, NEW k \in (1..published) \ silent,
                      GapFree \/ joined[socket] < k
               PROVE  Shown(k)
    BY DEF NoKlineForgotten
  <2>1. ShownIn(candles, k) \/ Pending(feed[socket], k)
    BY DEF SightInv, InSight, Settled, Announced
  <2>2. ~Pending(feed[socket], k)
    BY EmptySeq DEF Settled, Pending
  <2> QED
    BY <2>1, <2>2, ShownInChart DEF SightInv
<1> QED
  BY <1>1, SightInvariant, PTL

-----------------------------------------------------------------------------
(* The statistics. *)

\* The row of k's minute, once n klines are written.
LastOf(k, n) == All(n)[OpenTime(k) + 1]

LEMMA LastOfMinute ==
  ASSUME NEW n \in 0..NumKlines, NEW k \in 1..n
  PROVE  /\ LastOf(k, n) \in 1..n /\ LastOf(k, n) >= k
         /\ OpenTime(LastOf(k, n)) = OpenTime(k)
         /\ \A c \in Nat : c <= n /\ OpenTime(c) = OpenTime(k) => c <= LastOf(k, n)
<1> DEFINE m == LastOf(k, n)
           t == OpenTime(k)
<1>1. /\ n \in Nat /\ n <= NumKlines /\ NumKlines \in Nat /\ k \in Nat /\ k >= 1 /\ n # 0
      /\ Updates \in Nat /\ Updates >= 2 /\ t \in Nat
  <2>1. n \in Nat /\ n <= NumKlines /\ NumKlines \in Nat /\ k \in Nat /\ k >= 1 /\ n # 0
    BY DashboardAssumption
  <2>2. t \in Nat
    BY <2>1, Minute
  <2> QED
    BY <2>1, <2>2, DashboardAssumption
<1>2. /\ t + 1 \in 1..Len(All(n)) /\ m = All(n)[t + 1] /\ m >= k
      /\ All(n) \in Seq(Numbers)
  BY AllRows DEF LastOf
<1>3. OpenTime(m) = (t + 1) - 1 /\ m <= n /\ m \in Numbers
  <2> HIDE DEF m, t
  <2> QED
    BY <1>2, AllRows, ElementOfSeq
<1>4. m \in Nat /\ OpenTime(m) = t
  <2> HIDE DEF m
  <2> QED
    BY <1>1, <1>3 DEF Numbers
<1>5. m = IF (t + 1) * Updates - 1 <= n THEN (t + 1) * Updates - 1 ELSE n
  <2>1. t + 1 \in 1..(OpenTime(n) + 1)
    BY <1>1, <1>2, AllRows
  <2> QED
    BY <1>1, <2>1 DEF All, LastOf
<1>6. ASSUME NEW c \in Nat, c <= n, OpenTime(c) = t
      PROVE  c <= m
  <2>1. c < Updates * t + Updates
    BY <1>6, Minute
  <2>2. (t + 1) * Updates = Updates * t + Updates /\ Updates * t \in Nat
    BY <1>1
  <2> HIDE DEF m, t
  <2> QED
    BY <1>1, <1>5, <1>6, <2>1, <2>2
<1>7. m \in 1..n
  <2> HIDE DEF m
  <2> QED
    BY <1>1, <1>2, <1>3, <1>4
<1> QED
  BY <1>2, <1>4, <1>6, <1>7

\* A chart that shows all of n klines and nothing later is the chart of the rows.
LEMMA CompleteChart ==
  ASSUME NEW n \in 0..NumKlines,
         NEW cs \in Seq(Numbers), InOrder(cs), Len(cs) <= MAX_CANDLES,
         \A i \in 1..Len(cs) : cs[i] <= n,
         \A k \in 1..n : ShownIn(cs, k)
  PROVE  cs = Trim(All(n))
<1> DEFINE l == Len(cs)
           t == [i \in 1..l |-> OpenTime(cs[i])]
           a == All(n)
<1>1. /\ n \in Nat /\ l \in Nat /\ MAX_CANDLES \in Nat /\ MAX_CANDLES >= 1 /\ l <= MAX_CANDLES
      /\ \A i \in 1..l : /\ i \in Int /\ cs[i] \in 1..n /\ cs[i] \in Nat
                         /\ t[i] = OpenTime(cs[i]) /\ t[i] \in Nat
      /\ \A i, j \in 1..l : i <= j => j - i <= t[j] - t[i]
  <2>1. /\ l \in Nat /\ \A i \in 1..l : i \in Int /\ cs[i] \in Numbers
        /\ n \in Nat /\ n <= NumKlines /\ NumKlines \in Nat
        /\ MAX_CANDLES \in Nat /\ MAX_CANDLES >= 1
    BY ChartFacts, DashboardAssumption
  <2>2. \A i \in 1..l : cs[i] \in Nat /\ cs[i] \in 1..n
    BY <2>1 DEF Numbers
  <2>3. \A i \in 1..l : t[i] \in Nat
    BY <2>2, Minute
  <2> QED
    BY <2>1, <2>2, <2>3 DEF InOrder
<1>2. /\ a \in Seq(Numbers) /\ Len(a) \in Nat
      /\ Len(a) = IF n = 0 THEN 0 ELSE OpenTime(n) + 1
      /\ OpenTime(n) \in Nat
  BY <1>1, AllRows, Minute
<1> HIDE DEF l, t, a
\* Each candle is the row of its minute.
<1>3. ASSUME NEW i \in 1..l
      PROVE  t[i] + 1 \in 1..Len(a) /\ cs[i] = a[t[i] + 1]
  <2> DEFINE c == cs[i]
             m == LastOf(c, n)
  <2>1. c \in 1..n /\ c \in Nat /\ t[i] = OpenTime(c)
    BY <1>1
  <2> HIDE DEF c
  <2>2. /\ m \in 1..n /\ m >= c /\ OpenTime(m) = t[i] /\ m = a[t[i] + 1]
        /\ t[i] + 1 \in 1..Len(a)
    BY <2>1, LastOfMinute, AllRows DEF LastOf, a
  <2>3. ShownIn(cs, m)
    BY <2>2
  <2>4. OpenTime(cs[1]) <= t[i]
    <3>1. 1 \in 1..l /\ 1 <= i /\ i \in Int
      BY <1>1
    <3>2. i - 1 <= t[i] - t[1] /\ t[1] = OpenTime(cs[1]) /\ t[1] \in Nat /\ t[i] \in Nat
      BY <1>1, <3>1
    <3> QED
      BY <3>1, <3>2
  <2>5. PICK j \in 1..l : OpenTime(cs[j]) = OpenTime(m) /\ cs[j] >= m
    <3>1. ~(OpenTime(m) < OpenTime(cs[1]))
      <4>1. 1 \in 1..l
        BY <1>1
      <4>2. OpenTime(cs[1]) \in Nat /\ t[i] \in Nat
        BY <1>1, <4>1
      <4> QED
        BY <2>2, <2>4, <4>2
    <3> QED
      BY <2>3, <3>1 DEF ShownIn, Holds, l
  <2>6. j = i
    <3>1. t[j] = t[i] /\ t[i] \in Nat /\ j \in Int /\ i \in Int
      BY <1>1, <2>2, <2>5
    <3>2. (i <= j => j - i <= t[j] - t[i]) /\ (j <= i => i - j <= t[i] - t[j])
      BY <1>1
    <3> QED
      BY <3>1, <3>2
  <2>7. c = m
    <3>1. c >= m /\ m >= c /\ c \in Int /\ m \in Int
      BY <1>1, <2>1, <2>2, <2>5, <2>6 DEF c
    <3> QED
      BY <3>1
  <2> QED
    BY <2>2, <2>7 DEF c
\* The newest kline is shown, as the last candle.
<1>4. ASSUME n # 0
      PROVE  l >= 1 /\ t[l] = OpenTime(n)
  <2>1. ShownIn(cs, n) /\ n \in 1..n
    BY <1>1, <1>4
  <2>2. \A i \in 1..l : t[i] <= OpenTime(n)
    <3> SUFFICES ASSUME NEW i \in 1..l PROVE t[i] <= OpenTime(n)
      OBVIOUS
    <3>1. cs[i] \in Nat /\ cs[i] <= n /\ t[i] = OpenTime(cs[i])
      BY <1>1
    <3> QED
      BY <1>1, <3>1, MinuteGrows
  <2>3. PICK j \in 1..l : t[j] = OpenTime(n)
    <3>1. CASE Holds(cs, n)
      BY <1>1, <3>1 DEF Holds, l
    <3>2. CASE ~Holds(cs, n)
      <4>1. l = MAX_CANDLES /\ OpenTime(n) < OpenTime(cs[1])
        BY <2>1, <3>2 DEF ShownIn, l
      <4>2. 1 \in 1..l
        BY <1>1, <4>1
      <4>3. t[1] <= OpenTime(n) /\ t[1] = OpenTime(cs[1]) /\ t[1] \in Nat
        BY <1>1, <2>2, <4>2
      <4> QED
        BY <1>2, <4>1, <4>3
    <3> QED
      BY <3>1, <3>2
  <2>4. l >= 1 /\ l \in 1..l /\ j <= l /\ j \in Int
    BY <1>1, <2>3
  <2>5. l - j <= t[l] - t[j] /\ t[l] <= OpenTime(n) /\ t[l] \in Nat
    BY <1>1, <2>2, <2>4
  <2>6. t[l] >= OpenTime(n)
    <3>1. l \in Int /\ OpenTime(n) \in Int
      BY <1>1, <1>2
    <3> QED
      BY <2>3, <2>4, <2>5, <3>1
  <2> QED
    BY <1>2, <2>4, <2>5, <2>6
\* No minute is missing between two candles.
<1>5. ASSUME NEW i \in 1..l, NEW k \in 1..n, i < l, t[i] < OpenTime(k)
      PROVE  t[i + 1] <= OpenTime(k)
  <2>1. i + 1 \in 1..l /\ 1 \in 1..l /\ 1 <= i /\ i \in Int /\ OpenTime(k) \in Nat /\ k \in Nat
    <3>1. l \in Nat /\ k \in Nat
      BY <1>1
    <3>2. OpenTime(k) \in Nat
      BY <3>1, Minute
    <3> QED
      BY <1>5, <3>1, <3>2
  <2>2. i - 1 <= t[i] - t[1] /\ t[1] \in Nat /\ t[i] \in Nat
    BY <1>1, <2>1
  <2>3. ~(OpenTime(k) < OpenTime(cs[1]))
    <3>1. t[1] <= t[i] /\ t[1] = OpenTime(cs[1])
      BY <1>1, <2>1, <2>2
    <3> QED
      BY <1>5, <2>1, <2>2, <3>1
  <2>4. PICK j \in 1..l : t[j] = OpenTime(k)
    BY <1>1, <2>3 DEF ShownIn, Holds, l
  <2>5. j \in Int /\ t[j] \in Nat /\ j > i
    <3>1. j \in Int /\ t[j] \in Nat /\ (j <= i => i - j <= t[i] - t[j])
      BY <1>1
    <3> QED
      BY <1>5, <2>1, <2>2, <2>4, <3>1
  <2>6. j - (i + 1) <= t[j] - t[i + 1] /\ i + 1 <= j /\ t[i + 1] \in Nat
    BY <1>1, <2>1, <2>5
  <2> QED
    BY <2>1, <2>4, <2>5, <2>6
\* So that the candles' minutes follow one another.
<1>6. ASSUME NEW i \in 1..l
      PROVE  t[i] = t[1] + (i - 1)
  <2> DEFINE Gaps == {x \in 1..l : t[x] # t[1] + (x - 1)}
  <2> SUFFICES ASSUME Gaps # {} PROVE FALSE
    BY <1>6
  <2>1. PICK x \in Gaps : \A y \in Gaps : x <= y
    <3>1. Gaps \in SUBSET Nat
      BY <1>1
    <3> HIDE DEF Gaps
    <3> QED
      BY <3>1, LeastNatural
  <2>2. x \in 1..l /\ x \in Int /\ 1 \in 1..l /\ t[1] \in Nat /\ t[x] \in Nat
    BY <1>1, <2>1
  <2>3. x # 1
    BY <2>1, <2>2
  <2>4. x - 1 \in 1..l /\ x - 1 < l /\ (x - 1) + 1 = x
    BY <1>1, <2>2, <2>3
  <2>5. t[x - 1] = t[1] + (x - 2)
    <3>1. x - 1 \notin Gaps
      BY <2>1, <2>2
    <3> QED
      BY <2>2, <2>4, <3>1
  <2>6. x - 1 <= t[x] - t[1] /\ t[x] # t[1] + (x - 1)
    BY <1>1, <2>1, <2>2
  <2>7. t[x] > t[x - 1] + 1
    <3> HIDE DEF Gaps
    <3>1. t[x] >= t[1] + (x - 1)
      BY <2>2, <2>6
    <3> QED
      BY <2>2, <2>5, <2>6, <3>1
  \* The minute after the candle x - 1 has a row: it is before the last candle's.
  <2> DEFINE m == t[x - 1] + 1
             k == a[m + 1]
  <2>8. /\ t[x] + 1 \in 1..Len(a) /\ m \in Nat /\ m + 1 \in 1..Len(a)
    <3> HIDE DEF Gaps
    <3>1. t[x] + 1 \in 1..Len(a) /\ t[x - 1] \in Nat
      BY <1>1, <1>3, <2>2, <2>4
    <3>2. Len(a) \in Nat
      BY <1>2, LenProperties
    <3>3. t[x - 1] + 2 <= t[x] + 1 /\ t[x] + 1 <= Len(a)
      BY <2>2, <2>7, <3>1, <3>2
    <3> HIDE DEF a, t
    <3> QED
      BY <3>1, <3>2, <3>3
  <2>9. k \in 1..n /\ OpenTime(k) = m
    <3>1. k \in Numbers /\ OpenTime(k) = (m + 1) - 1 /\ k <= n
      BY <1>2, <2>8, AllRows, ElementOfSeq DEF a
    <3>2. k \in Nat /\ k >= 1
      BY <3>1, DashboardAssumption DEF Numbers
    <3> QED
      BY <1>1, <2>8, <3>1, <3>2
  <2> HIDE DEF Gaps, k
  <2>10. t[x] <= m
    <3>1. t[x - 1] \in Nat
      BY <1>1, <2>4
    <3>2. t[x - 1] < m
      BY <3>1
    <3> HIDE DEF m
    <3>3. t[(x - 1) + 1] <= OpenTime(k)
      BY <1>5, <2>4, <2>9, <3>2
    <3> QED
      BY <2>4, <2>9, <3>3
  <2> QED
    BY <2>2, <2>5, <2>7, <2>10
<1> DEFINE r == Trim(a)
<1>7. /\ r \in Seq(Numbers)
      /\ Len(r) = IF Len(a) > MAX_CANDLES THEN MAX_CANDLES ELSE Len(a)
      /\ \A i \in 1..Len(r) : r[i] = a[i + (Len(a) - Len(r))]
  BY <1>2, TrimChart
<1> HIDE DEF r
<1>8. l = Len(r) /\ \A i \in 1..l : cs[i] = r[i]
  <2>1. CASE n = 0
    <3>1. Len(r) = 0
      BY <1>1, <1>2, <1>7, <2>1
    <3>2. l = 0
      <4>1. 1 \notin 1..l
        BY <1>1, <2>1
      <4> QED
        BY <1>1, <4>1
    <3> QED
      BY <3>1, <3>2
  <2>2. CASE n # 0
    <3>1. /\ 1 \in 1..l /\ l \in 1..l /\ t[1] \in Nat /\ t[l] = OpenTime(n)
          /\ t[l] = t[1] + (l - 1) /\ Len(a) = OpenTime(n) + 1
      BY <1>1, <1>2, <1>4, <1>6, <2>2
    <3>2. t[1] = Len(a) - l /\ l <= Len(a)
      BY <1>1, <1>2, <3>1
    \* A chart that is not full goes back to the first minute.
    <3>3. ASSUME l < MAX_CANDLES
          PROVE  l = Len(a)
      <4> DEFINE k == a[1]
      <4>1. 1 \in 1..Len(a)
        BY <1>1, <1>2, <3>1
      <4>2. k \in 1..n /\ OpenTime(k) = 0
        <5>1. k \in Numbers /\ OpenTime(k) = 1 - 1 /\ k <= n
          BY <1>2, <4>1, AllRows, ElementOfSeq DEF a
        <5>2. k \in Nat /\ k >= 1
          BY <5>1, DashboardAssumption DEF Numbers
        <5> QED
          BY <1>1, <5>1, <5>2
      <4> HIDE DEF k
      <4>3. PICK j \in 1..l : t[j] = 0
        <5>1. ShownIn(cs, k) /\ ~(Len(cs) = MAX_CANDLES)
          BY <1>1, <3>3, <4>2 DEF l
        <5>2. PICK j \in 1..l : OpenTime(cs[j]) = OpenTime(k)
          BY <5>1 DEF ShownIn, Holds, l
        <5> QED
          BY <1>1, <4>2, <5>2
      <4>4. t[j] = t[1] + (j - 1) /\ j \in Int /\ j >= 1
        BY <1>1, <1>6
      <4>5. t[1] = 0
        BY <3>1, <4>3, <4>4
      <4> QED
        BY <1>1, <1>2, <3>2, <4>5
    <3>4. l = Len(r)
      BY <1>1, <1>2, <1>7, <3>2, <3>3
    <3>5. ASSUME NEW i \in 1..l
          PROVE  cs[i] = r[i]
      <4>1. t[i] = t[1] + (i - 1) /\ i \in Int
        BY <1>1, <1>6
      <4>2. t[i] + 1 = i + (Len(a) - Len(r))
        BY <1>1, <1>2, <3>1, <3>2, <3>4, <4>1
      <4>3. r[i] = a[i + (Len(a) - Len(r))]
        BY <1>7, <3>4
      <4> QED
        BY <1>3, <4>2, <4>3
    <3> QED
      BY <3>4, <3>5
  <2> QED
    BY <2>1, <2>2
<1>9. cs = r
  <2>1. cs = [i \in 1..Len(cs) |-> cs[i]] /\ r = [i \in 1..Len(r) |-> r[i]]
    BY <1>7, LenProperties
  <2> QED
    BY <1>8, <2>1 DEF l
<1> QED
  BY <1>9 DEF r, a

\* The cards and /api/stats are computed in the same way.
LEMMA SameStats ==
  ASSUME NEW n \in 1..NumKlines, NEW cs, cs = Rows(n, STATS_LOOKBACK_MINUTES), cs # <<>>
  PROVE  DeriveStats(cs) = GetStats(n)
<1>1. n # 0
  BY DashboardAssumption
<1> QED
  BY <1>1 DEF DeriveStats, GetStats

\* With a ring as long as the window of the statistics, as in the code (both are
\* 1440): what a page shows that loaded gap-free and has read its feed is what
\* /api/stats would answer, and the chart is the one a reload would draw.
THEOREM CardsAgree ==
  ASSUME MAX_CANDLES = STATS_LOOKBACK_MINUTES
  PROVE  Spec => []StatsAgree
<1>1. SightInv => StatsAgree
  <2> SUFFICES ASSUME SightInv, Settled, GapFree, ~overtaken, written = published, silent = {}
               PROVE  DeriveStats(candles) = GetStats(written)
    BY DEF StatsAgree
  <2>1. /\ written \in 0..NumKlines /\ candles \in Seq(Numbers) /\ InOrder(candles)
        /\ Len(candles) <= MAX_CANDLES /\ candlesReply <= written
    <3>1. candlesReply # None
      BY DEF SightInv, PageInv, Counters, GapFree
    <3> QED
      BY <3>1 DEF SightInv, PageInv, TypeOK, Chart, Counters, Numbers
  <2>2. \A k \in 1..written : ShownIn(candles, k)
    <3>1. ~(\E k : Pending(feed[socket], k))
      BY EmptySeq DEF Settled, Pending
    <3>2. Announced = 1..written
      BY DEF Announced
    <3> QED
      BY <3>1, <3>2 DEF SightInv, InSight, Settled
  <2>3. \A i \in 1..Len(candles) : candles[i] <= written
    <3> SUFFICES ASSUME NEW i \in 1..Len(candles) PROVE candles[i] <= written
      OBVIOUS
    <3>1. candles[i] \in Int /\ candlesReply \in Int /\ written \in Int
      BY <2>1, ChartFacts, DashboardAssumption DEF SightInv, PageInv, TypeOK, None
    <3>2. candles[i] <= published \/ candles[i] <= candlesReply
      BY DEF SightInv, PageInv, Chart
    <3> QED
      BY <2>1, <3>1, <3>2
  <2>4. candles = Trim(All(written))
    BY <2>1, <2>2, <2>3, CompleteChart
  <2>5. candles = Rows(written, STATS_LOOKBACK_MINUTES)
    BY <2>4 DEF Rows, Trim, All
  <2>6. CASE written = 0
    <3>1. candles = <<>>
      <4>1. Len(All(0)) = 0 /\ All(0) \in Seq(Numbers)
        BY <2>1, <2>6, AllRows
      <4>2. Len(candles) = 0
        BY <2>4, <2>6, <4>1, TrimChart, DashboardAssumption
      <4> QED
        BY <2>1, <4>2, EmptySeq
    <3> QED
      BY <2>6, <3>1 DEF DeriveStats, GetStats
  <2>7. CASE written # 0
    <3>1. written \in 1..written /\ written \in 1..NumKlines
      BY <2>1, <2>7, DashboardAssumption
    <3>2. candles # <<>>
      <4>1. ShownIn(candles, written)
        BY <2>2, <3>1
      <4>2. Len(<<>>) = 0 /\ MAX_CANDLES # 0
        BY EmptySeq, DashboardAssumption
      <4> QED
        BY <4>1, <4>2 DEF ShownIn, Holds
    <3> QED
      BY <2>5, <3>1, <3>2, SameStats
  <2> QED
    BY <2>6, <2>7
<1> QED
  BY <1>1, SightInvariant, PTL
=============================================================================
