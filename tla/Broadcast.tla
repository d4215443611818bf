----------------------------- MODULE Broadcast ------------------------------
(***************************************************************************)
(* What the event bus promises a dashboard that opens /ws/live: from the   *)
(* moment it joins, the events published since, one after the other, none  *)
(* skipped, none repeated.  Events are numbered in the order they are      *)
(* published.                                                              *)
(***************************************************************************)
EXTENDS Naturals, Sequences

CONSTANT Clients

VARIABLES
  published,  \* number of the last event
  joined,     \* per client, the last event it came too late for
  received    \* per client, the events it got

vars == <<published, joined, received>>

Init ==
  /\ published = 0
  /\ joined = [c \in Clients |-> 0]
  /\ received = [c \in Clients |-> <<>>]

Publish ==
  /\ published' = published + 1
  /\ UNCHANGED <<joined, received>>

Join(c) ==
  /\ received[c] = <<>>
  /\ joined' = [joined EXCEPT ![c] = published]
  /\ UNCHANGED <<published, received>>

Deliver(c) ==
  LET next == joined[c] + Len(received[c]) + 1
  IN /\ next <= published
     /\ received' = [received EXCEPT ![c] = Append(@, next)]
     /\ UNCHANGED <<published, joined>>

Next == Publish \/ \E c \in Clients : Join(c) \/ Deliver(c)

Spec == Init /\ [][Next]_vars
=============================================================================
