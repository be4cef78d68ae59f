----------------------------- MODULE BoundedFifo -----------------------------
(***************************************************************************)
(* What one queue of an endpoint inbox promises its two users: a FIFO      *)
(* channel of at most Depth descriptors, in which an attempt to enqueue    *)
(* fails only when the channel is full and an attempt to dequeue fails     *)
(* only when it is empty.  UBSpscQueue implements it.                      *)
(***************************************************************************)
EXTENDS Naturals, Sequences

CONSTANTS Desc,     \* the descriptors a sender may pass
          NoDesc,   \* "no descriptor has been returned yet"
          Depth     \* the number of descriptors the channel holds

VARIABLES queue,    \* the descriptors accepted and not yet returned
          accepted, \* outcome of the last enqueue: "none", "ok" or "full"
          returned  \* the descriptor of the last dequeue, or NoDesc

fifoVars == <<queue, accepted, returned>>

Init ==
  /\ queue = <<>>
  /\ accepted = "none"
  /\ returned = NoDesc

Put(d) ==
  /\ Len(queue) < Depth
  /\ queue' = Append(queue, d)
  /\ accepted' = "ok"
  /\ UNCHANGED returned

PutFull ==
  /\ Len(queue) >= Depth
  /\ accepted' = "full"
  /\ UNCHANGED <<queue, returned>>

Get ==
  /\ queue # <<>>
  /\ returned' = Head(queue)
  /\ queue' = Tail(queue)
  /\ UNCHANGED accepted

GetEmpty ==
  /\ queue = <<>>
  /\ returned' = NoDesc
  /\ UNCHANGED <<queue, accepted>>

Next ==
  \/ \E d \in Desc : Put(d)
  \/ PutFull
  \/ Get
  \/ GetEmpty

Spec == Init /\ [][Next]_fifoVars
=============================================================================
