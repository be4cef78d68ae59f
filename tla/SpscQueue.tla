------------------------------ MODULE SpscQueue ------------------------------
(***************************************************************************)
(* UBSpscQueue: the single-producer single-consumer ring of descriptors    *)
(* one endpoint's inbox holds for one sender.  The ring lives in shared    *)
(* memory; the producer and the consumer run on different machines.        *)
(*                                                                         *)
(* The grain is one access to shared memory: loads and stores of head and  *)
(* tail are steps of their own, and the copy of a 64-byte descriptor into  *)
(* or out of a slot takes two steps (its two halves), so that a slot       *)
(* overwritten while it is read shows as a descriptor whose halves differ. *)
(* The fences and the release stores order each side's steps as written.   *)
(*                                                                         *)
(* The counters are machine words: they wrap at Modulus (2^64 in the       *)
(* code), and a slot index is the counter's low bits.                      *)
(***************************************************************************)
EXTENDS Integers, Sequences

CONSTANTS Desc, NoDesc,
          Depth,        \* kSpscQueueDepth
          Modulus       \* the counters count modulo this

ASSUME DepthAssumption == Depth \in Nat \ {0}
ASSUME ModulusAssumption ==
  Modulus \in Nat /\ \E k \in 2 .. Modulus : Modulus = k * Depth
ASSUME NoDescAssumption == NoDesc \notin Desc

VARIABLES
  head, tail, slots,                   \* the shared structure
  producer_tail, cached_consumer_head, \* kept by the sender
  pdesc, ppc, accepted,                \* its call of try_enqueue
  consumer_head, cdesc, cpc, returned  \* the receiver and its try_dequeue

shared == <<head, tail, slots>>
producer == <<producer_tail, cached_consumer_head, pdesc, ppc, accepted>>
consumer == <<consumer_head, cdesc, cpc, returned>>
vars == <<shared, producer, consumer>>

Counter == 0 .. Modulus - 1
Half == Desc \cup {NoDesc}
Copy == [lo : Half, hi : Half]
Empty == [lo |-> NoDesc, hi |-> NoDesc]
Ready(d) == [lo |-> d, hi |-> d]

Plus(a, n) == (a + n) % Modulus
Minus(a, b) == (a - b) % Modulus
SlotOf(a) == a % Depth

\* ub_initialize_inbox has zeroed the queue before the endpoint is active.
Init ==
  /\ head = 0
  /\ tail = 0
  /\ slots = [i \in 0 .. Depth - 1 |-> Empty]
  /\ producer_tail = 0
  /\ cached_consumer_head = 0
  /\ pdesc = NoDesc
  /\ ppc = "idle"
  /\ accepted = "none"
  /\ consumer_head = 0
  /\ cdesc = Empty
  /\ cpc = "idle"
  /\ returned = Empty

-----------------------------------------------------------------------------
\* try_enqueue

\* Mutant of LooksFull: one descriptor too many fits.
LooksFullOffByOne(cached) == Minus(producer_tail, cached) > Depth

LooksFull(cached) == Minus(producer_tail, cached) >= Depth

\* The cached head still proves that a slot is free: no load of head.
BeginEnqueue(d) ==
  /\ ppc = "idle"
  /\ ~LooksFull(cached_consumer_head)
  /\ pdesc' = d
  /\ ppc' = "lo"
  /\ UNCHANGED <<shared, producer_tail, cached_consumer_head, accepted, consumer>>

\* The cached head makes the ring look full: load head and decide again.
RefreshHead(d) ==
  /\ ppc = "idle"
  /\ LooksFull(cached_consumer_head)
  /\ cached_consumer_head' = head
  /\ IF LooksFull(head)
       THEN accepted' = "full" /\ UNCHANGED <<pdesc, ppc>>
       ELSE pdesc' = d /\ ppc' = "lo" /\ UNCHANGED accepted
  /\ UNCHANGED <<shared, producer_tail, consumer>>

WriteLo ==
  /\ ppc = "lo"
  /\ slots' = [slots EXCEPT ![SlotOf(producer_tail)].lo = pdesc]
  /\ ppc' = "hi"
  /\ UNCHANGED <<head, tail, producer_tail, cached_consumer_head, pdesc, accepted, consumer>>

WriteHi ==
  /\ ppc = "hi"
  /\ slots' = [slots EXCEPT ![SlotOf(producer_tail)].hi = pdesc]
  /\ ppc' = "publish"
  /\ UNCHANGED <<head, tail, producer_tail, cached_consumer_head, pdesc, accepted, consumer>>

PublishTail ==
  /\ ppc = "publish"
  /\ producer_tail' = Plus(producer_tail, 1)
  /\ tail' = producer_tail'
  /\ accepted' = "ok"
  /\ ppc' = "idle"
  /\ UNCHANGED <<head, slots, cached_consumer_head, pdesc, consumer>>

\* ensure_remote_endpoint: a sender that (re)connects to the endpoint takes
\* its position from the shared counters.
Attach ==
  /\ ppc = "idle"
  /\ producer_tail' = tail
  /\ cached_consumer_head' = head
  /\ UNCHANGED <<shared, pdesc, ppc, accepted, consumer>>

-----------------------------------------------------------------------------
\* try_dequeue

BeginDequeue ==
  /\ cpc = "idle"
  /\ IF consumer_head = tail
       THEN returned' = Empty /\ UNCHANGED cpc
       ELSE cpc' = "lo" /\ UNCHANGED returned
  /\ UNCHANGED <<shared, producer, consumer_head, cdesc>>

CopyLo ==
  /\ cpc = "lo"
  /\ cdesc' = [cdesc EXCEPT !.lo = slots[SlotOf(consumer_head)].lo]
  /\ cpc' = "hi"
  /\ UNCHANGED <<shared, producer, consumer_head, returned>>

\* Mutant of CopyHi: the descriptor is returned and the head is not advanced.
CopyHiNoAdvance ==
  /\ cpc = "hi"
  /\ cdesc' = [cdesc EXCEPT !.hi = slots[SlotOf(consumer_head)].hi]
  /\ returned' = cdesc'
  /\ cpc' = "idle"
  /\ UNCHANGED <<shared, producer, consumer_head>>

CopyHi ==
  /\ cpc = "hi"
  /\ cdesc' = [cdesc EXCEPT !.hi = slots[SlotOf(consumer_head)].hi]
  /\ cpc' = "publish"
  /\ UNCHANGED <<shared, producer, consumer_head, returned>>

\* Mutant of PublishHead: the head skips a descriptor.
PublishHeadSkips ==
  /\ cpc = "publish"
  /\ consumer_head' = IF Plus(consumer_head, 1) = tail THEN tail ELSE Plus(consumer_head, 2)
  /\ head' = consumer_head'
  /\ returned' = cdesc
  /\ cpc' = "idle"
  /\ UNCHANGED <<tail, slots, producer, cdesc>>

PublishHead ==
  /\ cpc = "publish"
  /\ consumer_head' = Plus(consumer_head, 1)
  /\ head' = consumer_head'
  /\ returned' = cdesc
  /\ cpc' = "idle"
  /\ UNCHANGED <<tail, slots, producer, cdesc>>

-----------------------------------------------------------------------------
ProducerStep ==
  \/ \E d \in Desc : BeginEnqueue(d) \/ RefreshHead(d)
  \/ WriteLo
  \/ WriteHi
  \/ PublishTail
  \/ Attach

ConsumerStep ==
  \/ BeginDequeue
  \/ CopyLo
  \/ CopyHi
  \/ PublishHead

Next == ProducerStep \/ ConsumerStep

Spec == Init /\ [][Next]_vars

\* Both event loops keep running: a call that has begun is finished, and the
\* receiver keeps polling.  Nothing makes the sender begin a call.
Fairness ==
  /\ WF_vars(WriteLo \/ WriteHi \/ PublishTail)
  /\ WF_vars(ConsumerStep)

FairSpec == Spec /\ Fairness

-----------------------------------------------------------------------------
\* Properties

\* Counters stay within their width, the two ends within their program counters, and a
\* slot holds halves of descriptors.
TypeOK ==
  /\ head \in Counter /\ tail \in Counter
  /\ slots \in [0 .. Depth - 1 -> Copy]
  /\ producer_tail \in Counter /\ cached_consumer_head \in Counter
  /\ pdesc \in Half
  /\ ppc \in {"idle", "lo", "hi", "publish"}
  /\ accepted \in {"none", "ok", "full"}
  /\ consumer_head \in Counter
  /\ cdesc \in Copy /\ returned \in Copy
  /\ cpc \in {"idle", "lo", "hi", "publish"}

\* The number of published descriptors, and the slot of the i-th of them.
Used == Minus(tail, head)
Published(i) == slots[SlotOf(Plus(head, i))]

\* Each side's private counter is the shared one between its calls, and the
\* ring never holds more than Depth descriptors.
CountersAgree ==
  /\ producer_tail = tail
  /\ consumer_head = head
  /\ Used <= Depth

\* The head the producer remembers is one the consumer really passed through
\* since: what it proves about free slots is still true.
CachedHeadIsOld ==
  /\ Minus(tail, cached_consumer_head) <= Depth
  /\ Minus(head, cached_consumer_head) + Used = Minus(tail, cached_consumer_head)

\* A call that has begun owns the slot after the last published one, and what
\* it has written there is its own descriptor.
WriterOwnsSlot ==
  ppc # "idle" =>
    /\ pdesc \in Desc
    /\ Minus(tail, cached_consumer_head) < Depth
    /\ ppc \in {"hi", "publish"} => slots[SlotOf(tail)].lo = pdesc
    /\ ppc = "publish" => slots[SlotOf(tail)].hi = pdesc

\* A receiver that has begun reads the oldest published slot, and what it has
\* copied is still what the slot holds.
ReaderSeesOldest ==
  cpc # "idle" =>
    /\ Used > 0
    /\ cpc \in {"hi", "publish"} => cdesc.lo = Published(0).lo
    /\ cpc = "publish" => cdesc.hi = Published(0).hi

\* Every published slot holds one whole descriptor.
PublishedWhole ==
  \A i \in 0 .. Used - 1 : \E d \in Desc : Published(i) = Ready(d)

\* All of it: what try_enqueue and try_dequeue keep true of the ring between any two
\* accesses to it; inductive.
IInv ==
  /\ TypeOK
  /\ CountersAgree
  /\ CachedHeadIsOld
  /\ WriterOwnsSlot
  /\ ReaderSeesOldest
  /\ PublishedWhole

\* try_enqueue and try_dequeue never touch the same slot at the same time,
\* across any number of wraps of the ring and of the counters: the sender of
\* one machine does not overwrite what the other machine is reading.
NoSlotRace ==
  ~ /\ ppc \in {"lo", "hi"}
    /\ cpc \in {"lo", "hi"}
    /\ SlotOf(producer_tail) = SlotOf(consumer_head)

\* try_dequeue returns a descriptor some try_enqueue was given, whole: never
\* the two halves of two messages, never an unwritten slot.
NoTornDescriptor ==
  returned = Empty \/ \E d \in Desc : returned = Ready(d)

\* The abstract channel: what lies between head and tail.
Whole(c) == IF c.lo = c.hi THEN c.lo ELSE c
fifo == [i \in 1 .. Used |-> Whole(Published(i - 1))]
Fifo == INSTANCE BoundedFifo WITH queue <- fifo, returned <- Whole(returned)

\* try_enqueue and try_dequeue are a bounded FIFO channel: descriptors come
\* out in the order they went in, none lost and none twice; "full" is
\* answered only when Depth descriptors are really waiting and "empty" only
\* when none is.
ImplementsFifo == Fifo!Spec

\* A published descriptor is consumed, however often the ring wraps.
EveryDescriptorConsumed ==
  \A c \in Counter : (Minus(c, head) < Used) ~> ~(Minus(c, head) < Used)
=============================================================================
