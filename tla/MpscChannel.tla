----------------------------- MODULE MpscChannel -----------------------------
(***************************************************************************)
(* What the inbox of a coordinator promises the dispatchers that send to   *)
(* it and the one that reads it: a FIFO channel of at most Capacity        *)
(* messages.  A sender first reserves its place and then completes its     *)
(* message; the reader takes messages in the order of their places and     *)
(* none before it is complete.  UBMPSCRingBuffer implements it.            *)
(***************************************************************************)
EXTENDS Naturals, Sequences

CONSTANTS Message,   \* what a sender may pass
          NoMessage, \* "the last poll returned nothing"
          Capacity   \* the number of places

VARIABLES queue,     \* the places in use: [msg, ready]
          accepted,  \* outcome of the last attempt to send
          returned   \* what the last poll returned

channelVars == <<queue, accepted, returned>>

Init ==
  /\ queue = <<>>
  /\ accepted = "none"
  /\ returned = NoMessage

Reserve(m) ==
  /\ Len(queue) < Capacity
  /\ queue' = Append(queue, [msg |-> m, ready |-> FALSE])
  /\ accepted' = "ok"
  /\ UNCHANGED returned

Refuse ==
  /\ Len(queue) = Capacity
  /\ accepted' = "full"
  /\ UNCHANGED <<queue, returned>>

Complete(i) ==
  /\ i \in 1..Len(queue)
  /\ ~queue[i].ready
  /\ queue' = [queue EXCEPT ![i] = [msg |-> queue[i].msg, ready |-> TRUE]]
  /\ UNCHANGED <<accepted, returned>>

Take ==
  /\ queue # <<>>
  /\ Head(queue).ready
  /\ returned' = Head(queue).msg
  /\ queue' = Tail(queue)
  /\ UNCHANGED accepted

TakeNone ==
  /\ queue # <<>> => ~Head(queue).ready
  /\ returned' = NoMessage
  /\ UNCHANGED <<queue, accepted>>

Next ==
  \/ \E m \in Message : Reserve(m)
  \/ Refuse
  \/ \E i \in 1..Capacity : Complete(i)
  \/ Take
  \/ TakeNone

Spec == Init /\ [][Next]_channelVars
=============================================================================
