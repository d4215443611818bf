-------------------------- MODULE LiveSocketProofs --------------------------
(***************************************************************************)
(* Proofs about LiveSocket for any number of dashboards and events: what   *)
(* the bus, the queues and the coroutines deliver is the broadcast.        *)
(***************************************************************************)
EXTENDS LiveSocket, SequenceTheorems, TLAPS

-----------------------------------------------------------------------------
(* Lemmas about sequences. *)

\* The events j + 1, ..., j + n, which is what a client should have in sight.
Numbers(j, n) == [i \in 1..n |-> j + i]

LEMMA NumbersProperties ==
  ASSUME NEW j \in Nat, NEW n \in Nat
  PROVE  /\ Numbers(j, n) \in Seq(Nat) /\ Len(Numbers(j, n)) = n
         /\ \A i \in 1..n : Numbers(j, n)[i] = j + i
<1>1. Numbers(j, n) \in [1..n -> Nat]
  BY DEF Numbers
<1>2. Numbers(j, n) \in Seq(Nat)
  BY <1>1, SeqDef
<1>3. DOMAIN Numbers(j, n) = 1..Len(Numbers(j, n)) /\ Len(Numbers(j, n)) \in Nat
  BY <1>2, LenProperties
<1>4. Len(Numbers(j, n)) = n
  BY <1>1, <1>3
<1> QED
  BY <1>2, <1>4 DEF Numbers

LEMMA NumbersNone == \A j \in Nat : Numbers(j, 0) = <<>>
<1> TAKE j \in Nat
<1>1. Numbers(j, 0) \in Seq(Nat) /\ Len(Numbers(j, 0)) = 0
  BY NumbersProperties
<1> QED
  BY <1>1, EmptySeq

LEMMA NumbersNext ==
  ASSUME NEW j \in Nat, NEW n \in Nat
  PROVE  Append(Numbers(j, n), j + n + 1) = Numbers(j, n + 1)
<1> DEFINE s == Append(Numbers(j, n), j + n + 1)
           t == Numbers(j, n + 1)
<1>1. /\ Numbers(j, n) \in Seq(Nat) /\ Len(Numbers(j, n)) = n
      /\ \A i \in 1..n : Numbers(j, n)[i] = j + i
  BY NumbersProperties
<1>2. /\ s \in Seq(Nat) /\ Len(s) = n + 1 /\ s[n + 1] = j + n + 1
      /\ \A i \in 1..n : s[i] = j + i
  BY <1>1, AppendProperties
<1>3. t \in Seq(Nat) /\ Len(t) = n + 1 /\ \A i \in 1..(n + 1) : t[i] = j + i
  BY NumbersProperties
<1> HIDE DEF s, t
<1>4. \A i \in 1..Len(s) : s[i] = t[i]
  BY <1>2, <1>3
<1>5. s = t
  BY <1>2, <1>3, <1>4, SeqEqual
<1> QED
  BY <1>5 DEF s, t

LEMMA HeadAndTail ==
  ASSUME NEW S, NEW q \in Seq(S), q # <<>>
  PROVE  /\ Head(q) \in S /\ Tail(q) \in Seq(S) /\ Len(Tail(q)) = Len(q) - 1
         /\ <<Head(q)>> \o Tail(q) = q
<1> DEFINE h == <<Head(q)>>
           p == h \o Tail(q)
<1>1. /\ Head(q) \in S /\ Tail(q) \in Seq(S) /\ Len(Tail(q)) = Len(q) - 1
      /\ \A i \in 1..Len(Tail(q)) : Tail(q)[i] = q[i + 1]
      /\ Len(q) \in Nat \ {0}
  BY HeadTailProperties, EmptySeq
<1>2. h \in Seq(S) /\ Len(h) = 1 /\ h[1] = q[1]
  BY <1>1
<1>3. /\ p \in Seq(S) /\ Len(p) = Len(q)
      /\ \A i \in 1..Len(q) : p[i] = IF i <= 1 THEN h[i] ELSE Tail(q)[i - 1]
  BY <1>1, <1>2, ConcatProperties
<1> HIDE DEF h, p
<1>4. ASSUME NEW i \in 1..Len(p) PROVE p[i] = q[i]
  <2>1. CASE i = 1
    BY <1>2, <1>3, <2>1
  <2>2. CASE i # 1
    <3>1. i - 1 \in 1..Len(Tail(q)) /\ ~(i <= 1) /\ (i - 1) + 1 = i
      BY <1>1, <1>3, <2>2
    <3> QED
      BY <1>1, <1>3, <3>1
  <2> QED
    BY <2>1, <2>2
<1>5. p = q
  BY <1>3, <1>4, SeqEqual
<1> QED
  BY <1>1, <1>5 DEF h, p

-----------------------------------------------------------------------------
(* Type correctness. *)

Events == 1..MaxEvents

\* Who is subscribed, and what a client has before it is and while it is sent to.
Subscribed ==
  \A c \in Clients :
    /\ c \in subscribers <=> state[c] \in {"get", "send"}
    /\ state[c] \in {"none", "accept"} => delivered[c] = <<>> /\ queue[c] = <<>>
    /\ state[c] = "send" => event[c] \in Events
    /\ joined[c] <= published

LiveInv == TypeOK /\ Subscribed

LEMMA InitLiveInv == Init => LiveInv
<1>1. <<>> \in Seq(Events) /\ Len(<<>>) = 0
  BY EmptySeq
<1> QED
  BY <1>1, LiveAssumption DEF Init, LiveInv, TypeOK, Subscribed, Events

LEMMA NextLiveInv == LiveInv /\ [Next]_vars => LiveInv'
<1> SUFFICES ASSUME TypeOK, Subscribed, [Next]_vars PROVE TypeOK' /\ Subscribed'
  BY DEF LiveInv
<1> USE DEF coroutine
<1>t. /\ published \in Nat /\ \A c \in Clients : joined[c] \in Nat
      /\ \A c \in Clients : queue[c] \in Seq(Events) /\ Len(queue[c]) \in Nat
      /\ \A c \in Clients : delivered[c] \in Seq(Events)
      /\ 1..MaxEvents = Events
  BY LiveAssumption, LenProperties DEF TypeOK, Events
<1>e. <<>> \in Seq(Events) /\ Len(<<>>) = 0
  BY EmptySeq
<1>1. CASE Publish
  <2>1. published' = published + 1 /\ published + 1 \in Events /\ published' \in 0..MaxEvents
    BY <1>1, <1>t, LiveAssumption DEF Publish, Events, TypeOK
  <2>2. \A c \in Clients :
          queue'[c] = IF c \in subscribers THEN Append(queue[c], published + 1)
                      ELSE queue[c]
    BY <1>1 DEF Publish, Put
  <2>3. ASSUME NEW c \in Clients
        PROVE  queue'[c] \in Seq(Events) /\ Len(queue'[c]) <= published' - joined[c]
    <3>1. Len(queue[c]) <= published - joined[c] /\ joined[c] <= published
      BY DEF TypeOK, Subscribed
    <3>2. CASE c \in subscribers
      <4>1. /\ Append(queue[c], published + 1) \in Seq(Events)
            /\ Len(Append(queue[c], published + 1)) = Len(queue[c]) + 1
        BY <1>t, <2>1, AppendProperties
      <4>2. queue'[c] = Append(queue[c], published + 1)
        BY <2>2, <3>2
      <4> QED
        BY <1>t, <2>1, <3>1, <4>1, <4>2
    <3>3. CASE c \notin subscribers
      BY <1>t, <2>1, <2>2, <3>1, <3>3
    <3> QED
      BY <3>2, <3>3
  <2>4. queue' \in [Clients -> Seq(Events)]
    BY <1>1, <2>3 DEF Publish
  <2>5. TypeOK'
    BY <1>1, <1>t, <2>1, <2>3, <2>4 DEF Publish, TypeOK
  <2>6. Subscribed'
    BY <1>1, <1>t, <2>1, <2>2 DEF Publish, Subscribed
  <2> QED
    BY <2>5, <2>6
<1>2. ASSUME NEW c \in Clients, Open(c) PROVE TypeOK' /\ Subscribed'
  BY <1>2 DEF Open, TypeOK, Subscribed
<1>3. ASSUME NEW c \in Clients, Subscribe(c) PROVE TypeOK' /\ Subscribed'
  <2>1. /\ queue' = [queue EXCEPT ![c] = <<>>] /\ joined' = [joined EXCEPT ![c] = published]
        /\ published' = published
    BY <1>3 DEF Subscribe
  <2>2. \A d \in Clients : Len(queue'[d]) <= published - joined'[d] /\ joined'[d] <= published
    BY <1>t, <1>e, <2>1 DEF TypeOK, Subscribed
  <2>3. TypeOK'
    BY <1>3, <1>t, <1>e, <2>1, <2>2 DEF Subscribe, TypeOK
  <2>4. Subscribed'
    BY <1>3, <2>1, <2>2 DEF Subscribe, TypeOK, Subscribed
  <2> QED
    BY <2>3, <2>4
<1>4. ASSUME NEW c \in Clients, AcceptFails(c) PROVE TypeOK' /\ Subscribed'
  BY <1>4 DEF AcceptFails, TypeOK, Subscribed
<1>5. ASSUME NEW c \in Clients, Get(c) PROVE TypeOK' /\ Subscribed'
  <2>1. /\ event' = [event EXCEPT ![c] = Head(queue[c])]
        /\ queue' = [queue EXCEPT ![c] = Tail(queue[c])] /\ queue[c] # <<>>
    BY <1>5 DEF Get, Take
  <2>2. /\ Head(queue[c]) \in Events /\ Tail(queue[c]) \in Seq(Events)
        /\ Len(Tail(queue[c])) = Len(queue[c]) - 1
    BY <1>t, <2>1, HeadAndTail
  <2>3. TypeOK'
    <3>1. \A d \in Clients : Len(queue'[d]) <= published - joined[d]
      BY <1>t, <2>1, <2>2 DEF TypeOK
    <3>2. queue' \in [Clients -> Seq(1..MaxEvents)] /\ event' \in [Clients -> 0..MaxEvents]
      BY <1>t, <2>1, <2>2, LiveAssumption DEF TypeOK, Events
    <3> QED
      BY <1>5, <3>1, <3>2 DEF Get, TypeOK
  <2>4. Subscribed'
    BY <1>5, <2>1, <2>2 DEF Get, TypeOK, Subscribed
  <2> QED
    BY <2>3, <2>4
<1>6. ASSUME NEW c \in Clients, Send(c) PROVE TypeOK' /\ Subscribed'
  <2>1. event[c] \in Events
    BY <1>6 DEF Send, Subscribed
  <2>2. Append(delivered[c], event[c]) \in Seq(Events)
    BY <1>t, <2>1, AppendProperties
  <2>3. delivered' \in [Clients -> Seq(Events)]
    BY <1>6, <1>t, <2>2 DEF Send, TypeOK
  <2>4. /\ state' = [state EXCEPT ![c] = "get"] /\ state[c] = "send"
        /\ \A d \in Clients \ {c} : delivered'[d] = delivered[d]
        /\ UNCHANGED <<published, subscribers, queue, event, peer, joined>>
    BY <1>6 DEF Send, TypeOK
  <2>5. TypeOK'
    BY <1>t, <2>3, <2>4 DEF TypeOK
  <2>6. Subscribed'
    BY <2>4 DEF TypeOK, Subscribed
  <2> QED
    BY <2>5, <2>6
<1>7. ASSUME NEW c \in Clients, SendFails(c) PROVE TypeOK' /\ Subscribed'
  BY <1>7 DEF SendFails, Unsubscribe, TypeOK, Subscribed
<1>8. ASSUME NEW c \in Clients, Cancel(c) PROVE TypeOK' /\ Subscribed'
  BY <1>8 DEF Cancel, Unsubscribe, TypeOK, Subscribed
<1>9. ASSUME NEW c \in Clients, Leave(c) PROVE TypeOK' /\ Subscribed'
  BY <1>9 DEF Leave, TypeOK, Subscribed
<1>10. ASSUME NEW c \in Clients, Notice(c) PROVE TypeOK' /\ Subscribed'
  BY <1>10 DEF Notice, TypeOK, Subscribed
<1>11. CASE UNCHANGED vars
  BY <1>11 DEF vars, TypeOK, Subscribed
<1> QED
  BY <1>1, <1>2, <1>3, <1>4, <1>5, <1>6, <1>7, <1>8, <1>9, <1>10, <1>11
  DEF Next, Coroutine

\* Type correctness; no queue ever holds more than what was published since its
\* client subscribed.
THEOREM TypeCorrect == Spec => []TypeOK
BY InitLiveInv, NextLiveInv, PTL DEF Spec, LiveInv

-----------------------------------------------------------------------------
(* Nothing is lost between the bus and a browser. *)

\* What is delivered, in hand and queued: when the queue grows,
LEMMA Queued ==
  ASSUME NEW d \in Seq(Events), NEW h \in Seq(Events), NEW q \in Seq(Events),
         NEW e \in Events
  PROVE  d \o h \o Append(q, e) = Append(d \o h \o q, e)
<1>1. <<e>> \in Seq(Events) /\ d \o h \in Seq(Events) /\ (d \o h) \o q \in Seq(Events)
  BY ConcatProperties
<1>2. Append(q, e) = q \o <<e>>
  BY AppendIsConcat
<1>3. (d \o h) \o (q \o <<e>>) = ((d \o h) \o q) \o <<e>>
  BY <1>1, ConcatAssociative
<1>4. ((d \o h) \o q) \o <<e>> = Append((d \o h) \o q, e)
  BY <1>1, AppendIsConcat
<1> QED
  BY <1>2, <1>3, <1>4

\* when an event is taken in hand,
LEMMA Taken ==
  ASSUME NEW d \in Seq(Events), NEW q \in Seq(Events), q # <<>>
  PROVE  d \o <<Head(q)>> \o Tail(q) = d \o <<>> \o q
<1>1. /\ Head(q) \in Events /\ Tail(q) \in Seq(Events) /\ <<Head(q)>> \o Tail(q) = q
  BY HeadAndTail
<1>2. <<Head(q)>> \in Seq(Events)
  BY <1>1
<1>3. (d \o <<Head(q)>>) \o Tail(q) = d \o q
  BY <1>1, <1>2, ConcatAssociative
<1> QED
  BY <1>3, ConcatEmptySeq

\* and when it is handed over; until then it comes right after the delivered ones.
LEMMA HandedOver ==
  ASSUME NEW d \in Seq(Events), NEW q \in Seq(Events), NEW e \in Events
  PROVE  /\ Append(d, e) \o <<>> \o q = d \o <<e>> \o q
         /\ (d \o <<e>> \o q)[Len(d) + 1] = e
         /\ Len(d \o <<e>> \o q) = Len(d) + 1 + Len(q)
<1>1. Append(d, e) \o <<>> \o q = d \o <<e>> \o q
  BY AppendIsConcat, AppendProperties, ConcatEmptySeq
<1>2. /\ (d \o <<e>>) \in Seq(Events) /\ Len(d \o <<e>>) = Len(d) + 1
      /\ (d \o <<e>>)[Len(d) + 1] = e
  <2>1. d \o <<e>> = Append(d, e)
    BY AppendIsConcat
  <2> QED
    BY <2>1, AppendProperties
<1>3. Len(d) \in Nat /\ Len(q) \in Nat
  BY LenProperties
<1> QED
  BY <1>1, <1>2, <1>3, ConcatProperties

\* What a client got, has in hand and has queued.
Sight(c) == delivered[c] \o InHand(c) \o queue[c]

LEMMA SightTypes ==
  ASSUME LiveInv, NEW c \in Clients
  PROVE  /\ delivered[c] \in Seq(Events) /\ InHand(c) \in Seq(Events)
         /\ queue[c] \in Seq(Events)
         /\ joined[c] \in Nat /\ published \in Nat /\ published - joined[c] \in Nat
<1>1. delivered[c] \in Seq(Events) /\ queue[c] \in Seq(Events)
  BY DEF LiveInv, TypeOK, Events
<1>2. InHand(c) \in Seq(Events)
  BY EmptySeq DEF InHand, LiveInv, Subscribed
<1>3. joined[c] \in Nat /\ published \in Nat /\ joined[c] <= published
  BY LiveAssumption DEF LiveInv, TypeOK, Subscribed
<1> QED
  BY <1>1, <1>2, <1>3

LEMMA NextNothingBetween == LiveInv /\ NothingBetween /\ [Next]_vars => NothingBetween'
<1> SUFFICES ASSUME LiveInv, LiveInv', NothingBetween, [Next]_vars,
                    NEW c \in Clients, c \in subscribers', peer'[c] = "here"
             PROVE  Sight(c)' = Numbers(joined'[c], published' - joined'[c])
  BY NextLiveInv DEF NothingBetween, Sight, Numbers, LiveInv, TypeOK
<1> USE DEF coroutine
<1>q. /\ delivered[c] \in Seq(Events) /\ InHand(c) \in Seq(Events)
      /\ queue[c] \in Seq(Events)
  BY SightTypes
<1>t. /\ TypeOK /\ Subscribed
      /\ joined[c] \in Nat /\ published \in Nat /\ published - joined[c] \in Nat
  BY SightTypes DEF LiveInv
<1>s. c \in subscribers /\ peer[c] = "here"
        => Sight(c) = Numbers(joined[c], published - joined[c])
  BY DEF NothingBetween, Sight, Numbers
<1>1. ASSUME UNCHANGED <<published, queue[c], event[c], joined[c], delivered[c], state[c]>>,
             c \in subscribers, peer[c] = "here"
      PROVE  Sight(c)' = Numbers(joined'[c], published' - joined'[c])
  BY <1>1, <1>s DEF Sight, InHand
<1>2. CASE Publish
  <2>1. /\ subscribers' = subscribers /\ state' = state /\ event' = event
        /\ peer' = peer /\ joined' = joined /\ delivered' = delivered
        /\ published' = published + 1
        /\ queue'[c] = Append(queue[c], published + 1)
    BY <1>2 DEF Publish, Put
  <2>2. Sight(c)' = Append(Sight(c), published + 1)
    <3>1. delivered[c] \o InHand(c) \o Append(queue[c], published + 1)
            = Append(delivered[c] \o InHand(c) \o queue[c], published + 1)
      <4>1. published + 1 \in Events
        BY <1>2, <1>t, LiveAssumption DEF Publish, Events
      <4> QED
        BY <1>q, <4>1, Queued, Zenon
    <3> QED
      BY <2>1, <3>1 DEF Sight, InHand
  <2>3. Append(Numbers(joined[c], published - joined[c]), published + 1)
          = Numbers(joined[c], published' - joined[c])
    <3>1. /\ joined[c] + (published - joined[c]) + 1 = published + 1
          /\ (published - joined[c]) + 1 = published' - joined[c]
      BY <1>t, <2>1
    <3> QED
      BY <1>t, <3>1, NumbersNext
  <2> QED
    BY <1>s, <2>1, <2>2, <2>3
<1>3. ASSUME NEW d \in Clients, Subscribe(d)
      PROVE  Sight(c)' = Numbers(joined'[c], published' - joined'[c])
  <2>1. /\ state' = [state EXCEPT ![d] = "get"] /\ subscribers' = subscribers \cup {d}
        /\ queue' = [queue EXCEPT ![d] = <<>>]
        /\ joined' = [joined EXCEPT ![d] = published]
        /\ UNCHANGED <<published, event, peer, delivered>> /\ state[d] = "accept"
    BY <1>3 DEF Subscribe
  <2>2. CASE c = d
    <3>1. /\ delivered'[c] = <<>> /\ state'[c] = "get" /\ queue'[c] = <<>>
          /\ joined'[c] = published
      BY <1>t, <2>1, <2>2 DEF TypeOK, Subscribed
    <3>2. Sight(c)' = <<>>
      <4>1. InHand(c)' = <<>>
        BY <3>1 DEF InHand
      <4>2. <<>> \o <<>> = <<>>
        BY EmptySeq, ConcatEmptySeq
      <4> QED
        BY <3>1, <4>1, <4>2 DEF Sight
    <3>3. published' - joined'[c] = 0
      BY <1>t, <2>1, <3>1
    <3> QED
      BY <1>t, <3>1, <3>2, <3>3, NumbersNone
  <2>3. CASE c # d
    BY <1>1, <1>t, <2>1, <2>3 DEF TypeOK
  <2> QED
    BY <2>2, <2>3
<1>4. ASSUME NEW d \in Clients, Get(d)
      PROVE  Sight(c)' = Numbers(joined'[c], published' - joined'[c])
  <2>1. /\ event' = [event EXCEPT ![d] = Head(queue[d])]
        /\ queue' = [queue EXCEPT ![d] = Tail(queue[d])] /\ queue[d] # <<>>
        /\ state' = [state EXCEPT ![d] = "send"] /\ state[d] = "get"
        /\ UNCHANGED <<published, subscribers, peer, joined, delivered>>
    BY <1>4 DEF Get, Take
  <2>2. CASE c = d
    <3>1. InHand(c) = <<>> /\ InHand(c)' = <<Head(queue[c])>> /\ queue'[c] = Tail(queue[c])
      BY <1>t, <2>1, <2>2 DEF InHand, TypeOK
    <3>2. delivered[c] \o <<Head(queue[c])>> \o Tail(queue[c])
            = delivered[c] \o <<>> \o queue[c]
      BY <1>q, <2>1, <2>2, Taken
    <3>3. Sight(c)' = Sight(c)
      BY <2>1, <3>1, <3>2 DEF Sight
    <3> QED
      BY <1>s, <2>1, <3>3
  <2>3. CASE c # d
    BY <1>1, <1>t, <2>1, <2>3 DEF TypeOK
  <2> QED
    BY <2>2, <2>3
<1>5. ASSUME NEW d \in Clients, Send(d)
      PROVE  Sight(c)' = Numbers(joined'[c], published' - joined'[c])
  <2>1. /\ state' = [state EXCEPT ![d] = "get"] /\ state[d] = "send"
        /\ UNCHANGED <<published, subscribers, queue, event, peer, joined>>
    BY <1>5 DEF Send
  <2>2. CASE c = d
    <3>1. /\ InHand(c) = <<event[c]>> /\ InHand(c)' = <<>> /\ event[c] \in Events
          /\ delivered'[c] = Append(delivered[c], event[c])
      BY <1>5, <1>t, <2>1, <2>2 DEF Send, InHand, TypeOK, Subscribed
    <3>2. Append(delivered[c], event[c]) \o <<>> \o queue[c]
            = delivered[c] \o <<event[c]>> \o queue[c]
      BY <1>q, <3>1, HandedOver, Zenon
    <3>3. Sight(c)' = Sight(c)
      BY <2>1, <3>1, <3>2 DEF Sight
    <3> QED
      BY <1>s, <2>1, <3>3
  <2>3. CASE c # d
    <3>1. delivered'[c] = delivered[c]
      BY <1>5, <2>3 DEF Send, TypeOK
    <3> QED
      BY <1>1, <1>t, <2>1, <2>3, <3>1 DEF TypeOK
  <2> QED
    BY <2>2, <2>3
<1>6. ASSUME NEW d \in Clients, Open(d) \/ AcceptFails(d)
      PROVE  Sight(c)' = Numbers(joined'[c], published' - joined'[c])
  <2>1. /\ state[d] \in {"none", "accept"}
        /\ \E st \in {"accept", "ended"} : state' = [state EXCEPT ![d] = st]
        /\ UNCHANGED <<published, subscribers, queue, coroutine>>
    BY <1>6 DEF Open, AcceptFails
  <2>2. c # d
    BY <1>t, <2>1 DEF Subscribed
  <2> QED
    BY <1>1, <1>t, <2>1, <2>2 DEF TypeOK
<1>7. ASSUME NEW d \in Clients, SendFails(d) \/ Cancel(d)
      PROVE  Sight(c)' = Numbers(joined'[c], published' - joined'[c])
  <2>1. /\ state' = [state EXCEPT ![d] = "ended"] /\ subscribers' = subscribers \ {d}
        /\ UNCHANGED <<published, queue, coroutine>>
    BY <1>7 DEF SendFails, Cancel, Unsubscribe
  <2> QED
    BY <1>1, <1>t, <2>1 DEF TypeOK
<1>8. ASSUME NEW d \in Clients, Leave(d) \/ Notice(d)
      PROVE  Sight(c)' = Numbers(joined'[c], published' - joined'[c])
  <2>1. /\ \E p \in {"gone", "noticed"} : peer' = [peer EXCEPT ![d] = p]
        /\ UNCHANGED <<published, subscribers, queue, state, event, joined, delivered>>
    BY <1>8 DEF Leave, Notice
  <2>2. peer[c] = "here"
    BY <1>t, <2>1 DEF TypeOK
  <2> QED
    BY <1>1, <2>1, <2>2
<1>9. CASE UNCHANGED vars
  BY <1>1, <1>9 DEF vars
<1> QED
  BY <1>2, <1>3, <1>4, <1>5, <1>6, <1>7, <1>8, <1>9 DEF Next, Coroutine

\* For any number of dashboards and events: what a browser that is there got, is
\* being sent and has queued are the events published since it subscribed.
THEOREM NothingIsBetween == Spec => []NothingBetween
<1>1. Init => NothingBetween
  BY DEF Init, NothingBetween
<1> QED
  BY <1>1, InitLiveInv, NextLiveInv, NextNothingBetween, PTL DEF Spec
-----------------------------------------------------------------------------
(* The refinement of the broadcast. *)

\* The event in hand is the one that comes after those delivered.
LEMMA NextInLine ==
  ASSUME NEW d \in Seq(Events), NEW q \in Seq(Events), NEW e \in Events,
         NEW j \in Nat, NEW p \in Nat, p - j \in Nat,
         d \o <<e>> \o q = Numbers(j, p - j)
  PROVE  e = j + Len(d) + 1 /\ e <= p
<1> DEFINE n == p - j
<1>1. /\ (d \o <<e>> \o q)[Len(d) + 1] = e
      /\ Len(d \o <<e>> \o q) = Len(d) + 1 + Len(q)
  BY HandedOver
<1>2. Len(d) \in Nat /\ Len(q) \in Nat
  BY LenProperties
<1>3. n \in Nat /\ j + n = p
  OBVIOUS
<1>4. d \o <<e>> \o q = Numbers(j, n)
  OBVIOUS
<1> HIDE DEF n
<1>5. Len(Numbers(j, n)) = n /\ \A i \in 1..n : Numbers(j, n)[i] = j + i
  BY <1>3, NumbersProperties
<1>6. Len(d) + 1 + Len(q) = n /\ Numbers(j, n)[Len(d) + 1] = e
  BY <1>1, <1>4, <1>5
<1>7. Len(d) + 1 \in 1..n
  BY <1>2, <1>3, <1>6
<1>8. e = j + (Len(d) + 1)
  BY <1>5, <1>6, <1>7
<1> QED
  BY <1>2, <1>3, <1>6, <1>8

LEMMA StepImplementsFeed ==
  LiveInv /\ NothingBetween /\ [Next]_vars => [Feed!Next]_(Feed!vars)
<1> SUFFICES ASSUME LiveInv, NothingBetween, [Next]_vars
             PROVE  [Feed!Next]_(Feed!vars)
  OBVIOUS
<1> USE DEF coroutine
<1>1. CASE UNCHANGED <<published, joined, delivered>>
  BY <1>1 DEF Feed!vars
<1>2. CASE Publish
  BY <1>2 DEF Publish, Feed!Next, Feed!Publish
<1>3. ASSUME NEW c \in Clients, Subscribe(c) PROVE Feed!Next
  <2>1. delivered[c] = <<>>
    BY <1>3 DEF Subscribe, LiveInv, Subscribed
  <2>2. Feed!Join(c)
    BY <1>3, <2>1 DEF Subscribe, Feed!Join
  <2> QED
    BY <2>2 DEF Feed!Next
<1>4. ASSUME NEW c \in Clients, Send(c), peer[c] = "here" PROVE Feed!Next
  <2> DEFINE next == joined[c] + Len(delivered[c]) + 1
  <2>1. /\ state[c] = "send" /\ c \in subscribers /\ InHand(c) = <<event[c]>>
        /\ event[c] \in Events
    BY <1>4 DEF Send, LiveInv, Subscribed, InHand, Events
  <2>2. Sight(c) = Numbers(joined[c], published - joined[c])
    BY <1>4, <2>1 DEF NothingBetween, Sight, Numbers
  <2>3. delivered[c] \in Seq(Events) /\ queue[c] \in Seq(Events)
    BY SightTypes
  <2>4. /\ joined[c] \in Nat /\ published \in Nat /\ published - joined[c] \in Nat
    BY SightTypes
  <2>5. delivered[c] \o <<event[c]>> \o queue[c] = Numbers(joined[c], published - joined[c])
    BY <2>1, <2>2 DEF Sight
  <2>6. event[c] = next /\ next <= published
    <3>1. /\ event[c] = joined[c] + Len(delivered[c]) + 1
          /\ event[c] <= published
      BY <2>1, <2>3, <2>4, <2>5, NextInLine, ZenonT(30)
    <3> QED
      BY <3>1
  <2>7. /\ delivered' = [delivered EXCEPT ![c] = Append(@, event[c])]
        /\ published' = published /\ joined' = joined
    BY <1>4 DEF Send
  <2>8. Feed!Deliver(c)
    BY <2>6, <2>7 DEF Feed!Deliver
  <2> QED
    BY <2>8 DEF Feed!Next
<1>5. ASSUME NEW c \in Clients, Send(c), peer[c] # "here"
      PROVE  UNCHANGED <<published, joined, delivered>>
  BY <1>5 DEF Send
<1> QED
  BY <1>1, <1>2, <1>3, <1>4, <1>5
  DEF Next, Coroutine, vars, Open, AcceptFails, Get, SendFails, Cancel, Leave, Notice

\* The bus, the queues and the ws_live coroutines implement the broadcast: a send
\* to a browser that is there delivers the next event to it, in order.
THEOREM ImplementsBroadcast == Spec => FeedImplemented
<1>1. Init => Feed!Init
  BY DEF Init, Feed!Init
<1>2. Init => NothingBetween
  BY DEF Init, NothingBetween
<1> QED
  BY <1>1, <1>2, InitLiveInv, NextLiveInv, NextNothingBetween, StepImplementsFeed, PTL
  DEF Spec, FeedImplemented, Feed!Spec
=============================================================================
