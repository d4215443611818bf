----------------------------- MODULE LiveSocket -----------------------------
(***************************************************************************)
(* backend/app/api: the in-process EventBus (eventbus.py) and the ws_live  *)
(* coroutine of each dashboard connection (routes_ws.py), which drains its *)
(* own unbounded queue into its WebSocket.                                 *)
(*                                                                         *)
(* An event is its number in the order of publication.  A client is one    *)
(* connection; a browser that reconnects is another client.  The server    *)
(* learns that a browser has gone away some time after it did, from a close*)
(* frame or a missed ping; until then send_text succeeds and the event is  *)
(* lost with the connection.                                               *)
(***************************************************************************)
EXTENDS Naturals, Sequences

CONSTANTS
  Clients,
  MaxEvents   \* bound: events published

ASSUME LiveAssumption == MaxEvents \in Nat

VARIABLES
  published,    \* number of the last event published
  subscribers,  \* EventBus._subscribers, a queue being named by its client
  queue,        \* per client, the queue that subscribe returned
  state,        \* per client, where its ws_live stands
  event,        \* per client, the event that ws_live is sending
  peer,         \* per client, the browser: "here", "gone" or "noticed"
  joined,       \* history: the last event before the client subscribed
  delivered     \* history: the events that reached the browser

coroutine == <<event, peer, joined, delivered>>
vars == <<published, subscribers, queue, state, coroutine>>

Init ==
  /\ published = 0 /\ subscribers = {}
  /\ queue = [c \in Clients |-> <<>>]
  /\ state = [c \in Clients |-> "none"] /\ peer = [c \in Clients |-> "here"]
  /\ event = [c \in Clients |-> 0] /\ joined = [c \in Clients |-> 0]
  /\ delivered = [c \in Clients |-> <<>>]

-----------------------------------------------------------------------------
(* EventBus. *)

\* Mutants: a bounded queue whose QueueFull is ignored; a queue added twice.
PutUnlessFull(q) == IF Len(q) < 2 THEN Append(q, published + 1) ELSE q
PutTwice(q) == q \o <<published + 1, published + 1>>

\* queue.put_nowait of the event that is published.
Put(q) == Append(q, published + 1)

\* publish: no await, so no subscriber comes or goes meanwhile.
Publish ==
  /\ published < MaxEvents
  /\ published' = published + 1
  /\ queue' = [c \in Clients |-> IF c \in subscribers THEN Put(queue[c]) ELSE queue[c]]
  /\ UNCHANGED <<subscribers, state, coroutine>>

\* Mutant: discard of something that is not the queue.
UnsubscribeNothing(c) == UNCHANGED subscribers

Unsubscribe(c) == subscribers' = subscribers \ {c}

-----------------------------------------------------------------------------
(* ws_live. *)

\* A browser connects: ws_live awaits accept().
Open(c) ==
  /\ state[c] = "none"
  /\ state' = [state EXCEPT ![c] = "accept"]
  /\ UNCHANGED <<published, subscribers, queue, coroutine>>

\* accept() returns; subscribe() with a new queue.
Subscribe(c) ==
  /\ state[c] = "accept"
  /\ state' = [state EXCEPT ![c] = "get"]
  /\ subscribers' = subscribers \cup {c}
  /\ queue' = [queue EXCEPT ![c] = <<>>]
  /\ joined' = [joined EXCEPT ![c] = published]
  /\ UNCHANGED <<published, event, peer, delivered>>

\* accept() raises: nothing was subscribed yet.
AcceptFails(c) ==
  /\ state[c] = "accept"
  /\ peer[c] = "noticed"
  /\ state' = [state EXCEPT ![c] = "ended"]
  /\ UNCHANGED <<published, subscribers, queue, coroutine>>

\* Mutant: a LifoQueue.
TakeNewest(q) == <<q[Len(q)], SubSeq(q, 1, Len(q) - 1)>>

\* What asyncio.Queue.get returns, and what it leaves.
Take(q) == <<Head(q), Tail(q)>>

\* queue.get() returns.
Get(c) ==
  /\ state[c] = "get"
  /\ queue[c] # <<>>
  /\ event' = [event EXCEPT ![c] = Take(queue[c])[1]]
  /\ queue' = [queue EXCEPT ![c] = Take(queue[c])[2]]
  /\ state' = [state EXCEPT ![c] = "send"]
  /\ UNCHANGED <<published, subscribers, peer, joined, delivered>>

\* send_text returns, whether or not the browser is still there.
Send(c) ==
  /\ state[c] = "send"
  /\ peer[c] # "noticed"
  /\ delivered' = IF peer[c] = "here"
                  THEN [delivered EXCEPT ![c] = Append(@, event[c])]
                  ELSE delivered
  /\ state' = [state EXCEPT ![c] = "get"]
  /\ UNCHANGED <<published, subscribers, queue, event, peer, joined>>

\* send_text raises WebSocketDisconnect; the finally clause unsubscribes.
SendFails(c) ==
  /\ state[c] = "send"
  /\ peer[c] = "noticed"
  /\ state' = [state EXCEPT ![c] = "ended"]
  /\ Unsubscribe(c)
  /\ UNCHANGED <<published, queue, coroutine>>

\* The server shuts down and cancels the coroutine in one of its awaits; in
\* accept() there is no queue yet to unsubscribe.
Cancel(c) ==
  /\ state[c] \in {"accept", "get", "send"}
  /\ state' = [state EXCEPT ![c] = "ended"]
  /\ Unsubscribe(c)
  /\ UNCHANGED <<published, queue, coroutine>>

-----------------------------------------------------------------------------
(* The browser goes away, and the server finds out. *)

Leave(c) ==
  /\ peer[c] = "here" /\ state[c] # "none"
  /\ peer' = [peer EXCEPT ![c] = "gone"]
  /\ UNCHANGED <<published, subscribers, queue, state, event, joined, delivered>>

Notice(c) ==
  /\ peer[c] = "gone"
  /\ peer' = [peer EXCEPT ![c] = "noticed"]
  /\ UNCHANGED <<published, subscribers, queue, state, event, joined, delivered>>

-----------------------------------------------------------------------------
Coroutine(c) == Subscribe(c) \/ AcceptFails(c) \/ Get(c) \/ Send(c) \/ SendFails(c)

Next ==
  \/ Publish
  \/ \E c \in Clients : \/ Open(c) \/ Coroutine(c) \/ Cancel(c)
                        \/ Leave(c) \/ Notice(c)

\* The event loop runs every coroutine that is ready, a send ends or raises,
\* and the server's keepalive finds out about every browser that is gone.
Spec ==
  /\ Init /\ [][Next]_vars
  /\ \A c \in Clients : WF_vars(Coroutine(c)) /\ WF_vars(Notice(c))

-----------------------------------------------------------------------------
(* Properties. *)

TypeOK ==
  /\ published \in 0..MaxEvents
  /\ subscribers \in SUBSET Clients
  /\ queue \in [Clients -> Seq(1..MaxEvents)]
  /\ \A c \in Clients : Len(queue[c]) <= published - joined[c]
  /\ state \in [Clients -> {"none", "accept", "get", "send", "ended"}]
  /\ event \in [Clients -> 0..MaxEvents]
  /\ peer \in [Clients -> {"here", "gone", "noticed"}]
  /\ joined \in [Clients -> 0..MaxEvents]
  /\ delivered \in [Clients -> Seq(1..MaxEvents)]

InHand(c) == IF state[c] = "send" THEN <<event[c]>> ELSE <<>>

\* Between the bus and a browser that is there nothing is lost, repeated or
\* reordered: what it got, what is being sent and what is queued are together
\* the events published since it subscribed, whatever other clients do.
NothingBetween ==
  \A c \in subscribers : peer[c] = "here" =>
    delivered[c] \o InHand(c) \o queue[c]
      = [i \in 1..(published - joined[c]) |-> joined[c] + i]

\* A client that stays gets every event published since it subscribed, also
\* when another one is slow or gone.
EventuallyDelivered ==
  \A c \in Clients, n \in 1..MaxEvents :
    (c \in subscribers /\ joined[c] < n /\ n <= published)
      ~> (n \in {delivered[c][i] : i \in DOMAIN delivered[c]}
            \/ peer[c] # "here" \/ state[c] = "ended")

\* A client that is gone is dropped once there is something to send to it.
GoneIsDropped ==
  \A c \in Clients :
    (peer[c] = "noticed" /\ queue[c] # <<>>) ~> c \notin subscribers

\* The bus, the queues and the coroutines implement the broadcast.
Feed == INSTANCE Broadcast WITH received <- delivered

FeedImplemented == Feed!Spec
=============================================================================
