----------------------------- MODULE UBMPSCRing -----------------------------
(***************************************************************************)
(* tigon's inbox of a coordinator (common/UBMPSCRingBuffer): a ring in the *)
(* owner's region that the outgoing dispatchers of all coordinators write  *)
(* and the owner's incoming dispatcher reads (core/Dispatcher.h).  Every   *)
(* step is one access to shared memory.                                    *)
(*                                                                         *)
(* Positions are 64-bit in the code and do not wrap in the life of a       *)
(* system; here they are natural numbers.  A message is written as two     *)
(* pieces, payload and length, each represented by the message itself, so  *)
(* a torn read gives pieces of different messages.  sendMessage refuses a  *)
(* message longer than a slot, so lengths always fit.                      *)
(***************************************************************************)
EXTENDS Naturals, Sequences, FiniteSets

CONSTANTS Producer,   \* the outgoing dispatchers
          Message,
          NoMessage,
          Capacity,
          MaxTail     \* bound: how many messages are ever sent

\* create refuses a capacity of 0 only, but a ring of 1 is none: the sequence
\* that publishes a message in its slot is the one that frees it.
ASSUME RingAssumption ==
  /\ Capacity \in Nat /\ Capacity > 1
  /\ MaxTail \in Nat
  /\ NoMessage \notin Message

VARIABLES
  \* SharedState and the slots, in the owner's region
  root,       \* is the ring published in root slot 9?
  head, tail,
  sequence, payload, length,
  \* a producer in enqueue
  ppc,        \* where it is
  attached,   \* does it have the ring in ub_queues?
  position,   \* its local position
  message,    \* the message it sends
  \* the consumer in try_dequeue
  cpc, clength, cpayload,
  \* results of the last calls
  accepted, received,
  \* history: the message for which each slot was last claimed
  claimed

ringVars == <<head, tail, sequence, payload, length>>
producerVars == <<ppc, attached, position, message>>
consumerVars == <<cpc, clength, cpayload>>
vars == <<root, ringVars, producerVars, consumerVars, accepted, received, claimed>>

Slot == 0..(Capacity - 1)
slot(i) == i % Capacity

PieceOrNone == Message \cup {NoMessage}
Choosing == {"load", "read", "claim"}
Filling == {"copy", "length", "publish"}

TypeOK ==
  /\ root \in BOOLEAN
  /\ head \in Nat /\ tail \in Nat
  /\ sequence \in [Slot -> Nat]
  /\ payload \in [Slot -> PieceOrNone]
  /\ length \in [Slot -> PieceOrNone]
  /\ ppc \in [Producer -> {"idle"} \cup Choosing \cup Filling]
  /\ attached \in [Producer -> BOOLEAN]
  /\ position \in [Producer -> Nat]
  /\ message \in [Producer -> PieceOrNone]
  /\ cpc \in {"idle", "length", "copy", "advance", "free"}
  /\ clength \in PieceOrNone
  /\ cpayload \in PieceOrNone
  /\ accepted \in {"none", "ok", "full"}
  /\ received \in PieceOrNone
  /\ claimed \in [Slot -> PieceOrNone]
-----------------------------------------------------------------------------
(* UBMPSCRingBuffer::create, before the root is published. *)
Init ==
  /\ root = FALSE
  /\ head = 0 /\ tail = 0
  /\ sequence = [s \in Slot |-> s]
  /\ payload = [s \in Slot |-> NoMessage]
  /\ length = [s \in Slot |-> NoMessage]
  /\ ppc = [p \in Producer |-> "idle"]
  /\ attached = [p \in Producer |-> FALSE]
  /\ position = [p \in Producer |-> 0]
  /\ message = [p \in Producer |-> NoMessage]
  /\ cpc = "idle" /\ clength = NoMessage /\ cpayload = NoMessage
  /\ accepted = "none" /\ received = NoMessage
  /\ claimed = [s \in Slot |-> NoMessage]

PublishRoot ==
  /\ ~root
  /\ root' = TRUE
  /\ UNCHANGED <<ringVars, producerVars, consumerVars, accepted, received, claimed>>
-----------------------------------------------------------------------------
(* sendMessage: the first message to a peer waits for its root, all others  *)
(* use the ring found then. *)
Attach(p) ==
  /\ root /\ ~attached[p]
  /\ attached' = [attached EXCEPT ![p] = TRUE]
  /\ UNCHANGED <<root, ringVars, ppc, position, message, consumerVars,
                 accepted, received, claimed>>

Sending == {p \in Producer : ppc[p] \in Choosing}

Send(p, m) ==
  /\ attached[p] /\ ppc[p] = "idle"
  /\ tail + Cardinality(Sending) < MaxTail
  /\ message' = [message EXCEPT ![p] = m]
  /\ ppc' = [ppc EXCEPT ![p] = "load"]
  /\ UNCHANGED <<root, ringVars, attached, position, consumerVars,
                 accepted, received, claimed>>

LoadTail(p) ==
  /\ ppc[p] = "load"
  /\ position' = [position EXCEPT ![p] = tail]
  /\ ppc' = [ppc EXCEPT ![p] = "read"]
  /\ UNCHANGED <<root, ringVars, attached, message, consumerVars,
                 accepted, received, claimed>>

(* difference == 0 *)
SlotFree(p) ==
  /\ ppc[p] = "read"
  /\ sequence[slot(position[p])] = position[p]
  /\ ppc' = [ppc EXCEPT ![p] = "claim"]
  /\ UNCHANGED <<root, ringVars, attached, position, message, consumerVars,
                 accepted, received, claimed>>

(* difference < 0: try_enqueue returns false and enqueue calls it again. *)
RingFull(p) ==
  /\ ppc[p] = "read"
  /\ sequence[slot(position[p])] < position[p]
  /\ ppc' = [ppc EXCEPT ![p] = "load"]
  /\ accepted' = "full"
  /\ UNCHANGED <<root, ringVars, attached, position, message, consumerVars,
                 received, claimed>>

(* difference > 0: another producer has taken this position. *)
SlotTaken(p) ==
  /\ ppc[p] = "read"
  /\ sequence[slot(position[p])] > position[p]
  /\ ppc' = [ppc EXCEPT ![p] = "load"]
  /\ UNCHANGED <<root, ringVars, attached, position, message, consumerVars,
                 accepted, received, claimed>>

(* Mutant of Claim: a store of the tail instead of a compare-and-swap. *)
ClaimByStore(p) ==
  /\ ppc[p] = "claim"
  /\ tail' = position[p] + 1
  /\ claimed' = [claimed EXCEPT ![slot(position[p])] = message[p]]
  /\ ppc' = [ppc EXCEPT ![p] = "copy"]
  /\ accepted' = "ok"
  /\ UNCHANGED <<root, head, sequence, payload, length, attached, position,
                 message, consumerVars, received>>

Claim(p) ==
  /\ ppc[p] = "claim"
  /\ tail = position[p]
  /\ tail' = tail + 1
  /\ claimed' = [claimed EXCEPT ![slot(position[p])] = message[p]]
  /\ ppc' = [ppc EXCEPT ![p] = "copy"]
  /\ accepted' = "ok"
  /\ UNCHANGED <<root, head, sequence, payload, length, attached, position,
                 message, consumerVars, received>>

(* compare_exchange_weak fails, perhaps for no reason, and loads the tail. *)
ClaimFails(p) ==
  /\ ppc[p] = "claim"
  /\ position' = [position EXCEPT ![p] = tail]
  /\ ppc' = [ppc EXCEPT ![p] = "read"]
  /\ UNCHANGED <<root, ringVars, attached, message, consumerVars,
                 accepted, received, claimed>>

CopyPayload(p) ==
  /\ ppc[p] = "copy"
  /\ payload' = [payload EXCEPT ![slot(position[p])] = message[p]]
  /\ ppc' = [ppc EXCEPT ![p] = "length"]
  /\ UNCHANGED <<root, head, tail, sequence, length, attached, position,
                 message, consumerVars, accepted, received, claimed>>

StoreLength(p) ==
  /\ ppc[p] = "length"
  /\ length' = [length EXCEPT ![slot(position[p])] = message[p]]
  /\ ppc' = [ppc EXCEPT ![p] = "publish"]
  /\ UNCHANGED <<root, head, tail, sequence, payload, attached, position,
                 message, consumerVars, accepted, received, claimed>>

(* Mutant of Publish: the sequence of a free slot, not that of a full one. *)
PublishAsFree(p) ==
  /\ ppc[p] = "publish"
  /\ sequence' = [sequence EXCEPT ![slot(position[p])] = position[p]]
  /\ ppc' = [ppc EXCEPT ![p] = "idle"]
  /\ UNCHANGED <<root, head, tail, payload, length, attached, position,
                 message, consumerVars, accepted, received, claimed>>

Publish(p) ==
  /\ ppc[p] = "publish"
  /\ sequence' = [sequence EXCEPT ![slot(position[p])] = position[p] + 1]
  /\ ppc' = [ppc EXCEPT ![p] = "idle"]
  /\ UNCHANGED <<root, head, tail, payload, length, attached, position,
                 message, consumerVars, accepted, received, claimed>>
-----------------------------------------------------------------------------
(* fetchMessageFromCoordinator: the single reader polls all the time. *)
PollEmpty ==
  /\ cpc = "idle"
  /\ sequence[slot(head)] # head + 1
  /\ received' = NoMessage
  /\ UNCHANGED <<root, ringVars, producerVars, consumerVars, accepted, claimed>>

(* Mutant of PollReady: the slot is given back before it is copied. *)
PollFreesSlot ==
  /\ cpc = "idle"
  /\ sequence[slot(head)] = head + 1
  /\ sequence' = [sequence EXCEPT ![slot(head)] = head + Capacity]
  /\ cpc' = "length"
  /\ UNCHANGED <<root, head, tail, payload, length, producerVars, clength,
                 cpayload, accepted, received, claimed>>

PollReady ==
  /\ cpc = "idle"
  /\ sequence[slot(head)] = head + 1
  /\ cpc' = "length"
  /\ UNCHANGED <<root, ringVars, producerVars, clength, cpayload, accepted,
                 received, claimed>>

ReadLength ==
  /\ cpc = "length"
  /\ clength' = length[slot(head)]
  /\ cpc' = "copy"
  /\ UNCHANGED <<root, ringVars, producerVars, cpayload, accepted, received, claimed>>

CopyOut ==
  /\ cpc = "copy"
  /\ cpayload' = payload[slot(head)]
  /\ cpc' = "advance"
  /\ UNCHANGED <<root, ringVars, producerVars, clength, accepted, received, claimed>>

AdvanceHead ==
  /\ cpc = "advance"
  /\ head' = head + 1
  /\ cpc' = "free"
  /\ UNCHANGED <<root, tail, sequence, payload, length, producerVars, clength,
                 cpayload, accepted, received, claimed>>

(* Mutant of FreeSlot: the capacity is left out of the sequence. *)
FreeSamePosition ==
  /\ cpc = "free"
  /\ sequence' = [sequence EXCEPT ![slot(head - 1)] = head - 1]
  /\ received' = cpayload
  /\ cpc' = "idle"
  /\ UNCHANGED <<root, head, tail, payload, length, producerVars, clength,
                 cpayload, accepted, claimed>>

FreeSlot ==
  /\ cpc = "free"
  /\ sequence' = [sequence EXCEPT ![slot(head - 1)] = head - 1 + Capacity]
  /\ received' = cpayload
  /\ cpc' = "idle"
  /\ UNCHANGED <<root, head, tail, payload, length, producerVars, clength,
                 cpayload, accepted, claimed>>
-----------------------------------------------------------------------------
EnqueueStep(p) ==
  \/ LoadTail(p) \/ SlotFree(p) \/ RingFull(p) \/ SlotTaken(p)
  \/ Claim(p) \/ ClaimFails(p)
  \/ CopyPayload(p) \/ StoreLength(p) \/ Publish(p)

DequeueStep ==
  PollEmpty \/ PollReady \/ ReadLength \/ CopyOut \/ AdvanceHead \/ FreeSlot

Next ==
  \/ PublishRoot
  \/ \E p \in Producer : Attach(p) \/ EnqueueStep(p)
  \/ \E p \in Producer, m \in Message : Send(p, m)
  \/ DequeueStep

Spec == Init /\ [][Next]_vars

(* Dispatcher threads run; a compare-and-swap that can succeed again and   *)
(* again does in the end.  Nobody has to send. *)
FairSpec ==
  /\ Spec
  /\ WF_vars(DequeueStep)
  /\ \A p \in Producer : WF_vars(EnqueueStep(p)) /\ SF_vars(Claim(p))
-----------------------------------------------------------------------------
(***************************************************************************)
(* Properties.                                                             *)
(***************************************************************************)
\* The number of slots given back so far: try_dequeue advances head first.
Freed == IF cpc = "free" THEN head - 1 ELSE head

\* The positions a slot stands for at this moment.
Window == Freed..(Freed + Capacity - 1)

\* try_dequeue returns the length and the payload of the same message: no
\* producer writes a slot between the sequence that publishes it and the one
\* that frees it, however long that producer's view of the tail is out of date.
NoTornMessage == cpc = "free" => clength = cpayload

\* The ring is the FIFO channel of MpscChannel: a message is delivered once, in
\* the order in which the compare-and-swap on tail placed it, to one reader;
\* try_enqueue returns false only if all slots are in use at the moment it reads
\* the sequence; try_dequeue returns 0 only if the oldest message is incomplete.
queue ==
  [i \in 1..(tail - Freed) |->
     [msg |-> claimed[slot(Freed + i - 1)],
      ready |-> sequence[slot(Freed + i - 1)] = Freed + i]]

Channel == INSTANCE MpscChannel WITH returned <- received

ImplementsChannel == Channel!Spec

\* Every message that was given a place is delivered, although the places before
\* it may be completed later: no producer stops between its compare-and-swap on
\* tail and its store of the sequence.
ClaimedIsConsumed == \A n \in 1..MaxTail : (tail >= n) ~> (Freed >= n)

\* enqueue returns: a full ring is emptied, and a compare-and-swap lost to others
\* succeeds once they have sent theirs.
SendReturns == \A p \in Producer : (ppc[p] = "load") ~> (ppc[p] = "idle")
-----------------------------------------------------------------------------
(***************************************************************************)
(* The inductive invariant.                                                *)
(***************************************************************************)
WindowInv ==
  /\ Freed \in Nat /\ head <= tail
  /\ tail <= Freed + Capacity

Whole(i) ==
  /\ sequence[slot(i)] = i + 1
  /\ payload[slot(i)] = claimed[slot(i)]
  /\ length[slot(i)] = claimed[slot(i)]

BeingFilled(i) ==
  /\ sequence[slot(i)] = i
  /\ \E p \in Producer : ppc[p] \in Filling /\ position[p] = i

SlotsInv ==
  \A i \in Window :
    /\ i >= tail => sequence[slot(i)] = i
    /\ i < tail => Whole(i) \/ BeingFilled(i)

FillersInv ==
  \A p \in Producer : ppc[p] \in Filling =>
    /\ Freed <= position[p] /\ position[p] < tail
    /\ sequence[slot(position[p])] = position[p]
    /\ claimed[slot(position[p])] = message[p]
    /\ ppc[p] # "copy" => payload[slot(position[p])] = message[p]
    /\ ppc[p] = "publish" => length[slot(position[p])] = message[p]
    /\ \A q \in Producer \ {p} : ppc[q] \in Filling => position[q] # position[p]

ChoosersInv ==
  \A p \in Producer :
    /\ ppc[p] # "idle" => message[p] \in Message
    /\ ppc[p] \in {"read", "claim"} => position[p] <= tail
    /\ ppc[p] = "claim" /\ position[p] = tail => tail < Freed + Capacity

ConsumerInv ==
  /\ cpc # "idle" => Freed < tail /\ sequence[slot(Freed)] = Freed + 1
  /\ cpc \in {"copy", "advance", "free"} => clength = claimed[slot(Freed)]
  /\ cpc \in {"advance", "free"} => cpayload = claimed[slot(Freed)]

\* Slots before the tail are whole or belong to the one producer that fills
\* them, slots from the tail on are free, and a producer about to claim with the
\* current tail has seen its slot free: what makes the ring of UBMPSCRingBuffer
\* safe for every capacity above 1 and any number of producers.
IInv == TypeOK /\ WindowInv /\ SlotsInv /\ FillersInv /\ ChoosersInv /\ ConsumerInv
=============================================================================
