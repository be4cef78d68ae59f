--------------------------- MODULE TransportTraffic ---------------------------
(***************************************************************************)
(* Endpoints that use UBTransport in every way its callers may: sessions   *)
(* are opened and closed on either side at any time, messages with and     *)
(* without payload are sent on open sessions, received payloads are kept   *)
(* for a while, and the sender may free its buffer while a message is      *)
(* under way.  The orders are more than eRPC's (module ErpcSession), with  *)
(* two exceptions: what was received on a session is released before the   *)
(* session is closed, and an endpoint that left does not come back.        *)
(***************************************************************************)
EXTENDS UBTransport

CONSTANTS
  Workload,      \* who talks to whom: one of these
  MaxSessions    \* bound: sessions of an endpoint with one peer

\* client: the endpoints that create sessions, the others accept them; link: the pairs
\* <<sender, receiver>> that exchange messages; buffers: the blocks the applications
\* allocate; sends: bound on the messages of one link; refusing: the endpoints that may
\* have no memory for another session.
ASSUME TrafficAssumption ==
  /\ \A u \in Workload :
       /\ u.client \subseteq Endpoint /\ u.link \subseteq Endpoint \X Endpoint
       /\ u.buffers \subseteq Block /\ u.sends \in Nat /\ u.refusing \subseteq Endpoint
  /\ MaxSessions \in Nat

VARIABLES
  load,         \* the workload, which does not change
  sess,         \* pairs of a peer and its generation, Connecting or Closing
  owned,        \* the blocks of the application's MsgBuffers
  held,         \* held[e][p][b]: references that e received and has not released
  sent, last    \* history: messages sent, last message received

callers == <<load, sess, owned, held, sent, last>>
vars == <<transport, callers>>

Connecting == 0
Closing == -1

Init ==
  /\ TransportInit
  /\ load \in Workload
  /\ sess = [e \in Endpoint |-> {}]
  /\ owned = [e \in Endpoint |-> {}]
  /\ held = [e \in Endpoint |-> [p \in Endpoint |-> [b \in Block |-> 0]]]
  /\ sent = [e \in Endpoint |-> [p \in Endpoint |-> 0]]
  /\ last = [e \in Endpoint |-> [p \in Endpoint |-> 0]]

SessionsWith(e, p) == {s \in sess[e] : s[1] = p}
NothingHeld(e, p) == \A b \in Block : held[e][p][b] = 0

-----------------------------------------------------------------------------
\* Sessions

CreateSession(e, p) ==
  /\ At(e, "idle")
  /\ <<p, Connecting>> \notin sess[e] /\ Cardinality(SessionsWith(e, p)) < MaxSessions
  /\ sess' = [sess EXCEPT ![e] = @ \cup {<<p, Connecting>>}]
  /\ RegisterRxPeer(e, p)
  /\ UNCHANGED <<shared, up, failed, remote, pend, call, owned, held, sent, last, load>>

\* The server's routing info is resolved.
SessionConnected(e, p, gen) ==
  /\ At(e, "idle")
  /\ <<p, Connecting>> \in sess[e] /\ <<p, gen>> \notin sess[e]
  /\ CanEnsure(e, p, gen)
  /\ Resolve(e, p, gen)
  /\ sess' = [sess EXCEPT ![e] = (@ \ {<<p, Connecting>>}) \cup {<<p, gen>>}]
  /\ UNCHANGED <<shared, up, failed, pend, rx, call, owned, held, sent, last, load>>

\* The client's routing info is resolved and the session created.
AcceptSession(e, p, gen) ==
  /\ At(e, "idle")
  /\ <<p, gen>> \notin sess[e] /\ Cardinality(SessionsWith(e, p)) < MaxSessions
  /\ CanEnsure(e, p, gen)
  /\ Resolve(e, p, gen)
  /\ sess' = [sess EXCEPT ![e] = @ \cup {<<p, gen>>}]
  /\ RegisterRxPeer(e, p)
  /\ UNCHANGED <<shared, up, failed, pend, call, owned, held, sent, last, load>>

\* The client's routing info is resolved, but there is no memory left for the session's
\* buffers: the session is refused and the mapping stays.
RefuseSession(e, p, gen) ==
  /\ At(e, "idle") /\ e \in load.refusing
  /\ CanEnsure(e, p, gen)
  /\ Resolve(e, p, gen)
  /\ UNCHANGED <<shared, up, failed, pend, rx, call, callers>>

\* A session's payloads have been released before it is closed.
CloseSession(e, p, gen) ==
  /\ At(e, "idle")
  /\ <<p, gen>> \in sess[e] /\ <<p, Closing>> \notin sess[e]
  /\ NothingHeld(e, p)
  /\ sess' = [sess EXCEPT ![e] = (@ \ {<<p, gen>>}) \cup {<<p, Closing>>}]
  /\ PrepareDisconnect(e, p)
  /\ UNCHANGED <<entry, queue, up, failed, rx, call, owned, held, sent, last, load>>

BurySession(e, p, gen) ==
  /\ At(e, "idle")
  /\ <<p, gen>> \in sess[e] /\ NothingHeld(e, p)
  /\ sess' = [sess EXCEPT ![e] = @ \ {<<p, gen>>}]
  /\ UnregisterRxPeer(e, p, block)
  /\ UNCHANGED <<entry, queue, up, failed, call, owned, held, sent, last, load>>

-----------------------------------------------------------------------------
\* Buffers

AllocBuffer(e, b) ==
  /\ At(e, "idle") /\ CanAlloc(e, b)
  /\ block' = Alloc(e, b)
  /\ owned' = [owned EXCEPT ![e] = @ \cup {b}]
  /\ UNCHANGED <<entry, queue, up, failed, remote, pend, rx, call, sess, held, sent, last, load>>

FreeBuffer(e, b) ==
  /\ At(e, "idle") /\ b \in owned[e]
  /\ block' = Free(block, e, b)
  /\ owned' = [owned EXCEPT ![e] = @ \ {b}]
  /\ UNCHANGED <<entry, queue, up, failed, remote, pend, rx, call, sess, held, sent, last, load>>

ReleaseReceived(e, p, b) ==
  /\ At(e, "idle") /\ held[e][p][b] > 0
  /\ block' = Free(block, p, b)
  /\ held' = [held EXCEPT ![e][p][b] = @ - 1]
  /\ UNCHANGED <<entry, queue, up, failed, remote, pend, rx, call, sess, owned, sent, last, load>>

-----------------------------------------------------------------------------
\* Messages

Send(e, p, gen, b) ==
  /\ sent[e][p] < load.sends
  /\ <<p, gen>> \in sess[e]
  /\ TxBurst(e, p, gen, b, sent[e][p] + 1, block)
  /\ sent' = [sent EXCEPT ![e][p] = @ + 1]
  /\ UNCHANGED <<sess, owned, held, last, load>>

SendFails(e, p, gen) ==
  /\ sent[e][p] < load.sends
  /\ <<p, gen>> \in sess[e]
  /\ TxUnavailable(e, p, gen, block)
  /\ UNCHANGED callers

Receive(e, s) ==
  /\ RxDequeue(e, s)
  /\ LET d == RxHead(e, s) IN
       IF RxAccepts(e, s)
         THEN /\ held' = IF d.block = NoBlock THEN held
                         ELSE [held EXCEPT ![e][s][d.block] = @ + 1]
              /\ last' = [last EXCEPT ![e][s] = d.hdr]
         ELSE UNCHANGED <<held, last>>
  /\ UNCHANGED <<sess, owned, sent, load>>

\* The sessions are closed and the buffers freed before.
Leave(e) ==
  /\ sess[e] = {} /\ owned[e] = {}
  /\ \A p \in Endpoint : NothingHeld(e, p)
  /\ Destroy(e, block)
  /\ UNCHANGED callers

-----------------------------------------------------------------------------
Generation == 1 .. MaxGeneration
Peers(e) == {p \in Endpoint : {<<e, p>>, <<p, e>>} \cap load.link # {}}

Begin(e) == Peers(e) # {} /\ Construct(e) /\ UNCHANGED callers
Drain(e) == (BeginDrain(e) \/ DrainCheck(e) \/ DrainPush(e) \/ TxFlush(e)) /\ UNCHANGED callers
Poll(e) == (RxEmpty(e) /\ UNCHANGED callers) \/ (\E s \in Endpoint : Receive(e, s))

\* An endpoint to which nobody sends would find nothing, and TxFlush does the rest.
BeginPoll(e) == (\E l \in load.link : l[2] = e) /\ RxBegin(e) /\ UNCHANGED callers

ClientStep(e, p) ==
  \/ CreateSession(e, p)
  \/ \E gen \in Generation : SessionConnected(e, p, gen) \/ CloseSession(e, p, gen)

ServerStep(e, p) ==
  \E gen \in Generation : AcceptSession(e, p, gen) \/ RefuseSession(e, p, gen)

Next ==
  \E e \in Endpoint :
    \/ Begin(e) \/ Leave(e) \/ Drain(e) \/ BeginPoll(e) \/ Poll(e)
    \/ \E b \in load.buffers : AllocBuffer(e, b) \/ FreeBuffer(e, b)
    \/ \E p \in Peers(e) :
         \/ e \in load.client /\ ClientStep(e, p)
         \/ e \notin load.client /\ ServerStep(e, p)
         \/ \E gen \in Generation \cup {Connecting, Closing} : BurySession(e, p, gen)
         \/ \E b \in Block : ReleaseReceived(e, p, b)
    \/ \E p \in {q \in Endpoint : <<e, q>> \in load.link}, gen \in Generation :
         \/ SendFails(e, p, gen)
         \/ \E b \in owned[e] \cup {NoBlock} : Send(e, p, gen, b)

Spec == Init /\ [][Next]_vars

\* The event loop of a receiver keeps running: a call that has begun ends, and
\* rx_burst is called again and again, whatever else the loop does in between.
EventLoop(e) == WF_vars(Drain(e) \/ Poll(e)) /\ SF_vars(BeginPoll(e))
Link == UNION {u.link : u \in Workload}
FairSpec == Spec /\ \A e \in {l[2] : l \in Link} : EventLoop(e)

-----------------------------------------------------------------------------
\* Properties

Descriptor ==
  [src : Endpoint \cup {NoEndpoint}, block : Block \cup {NoBlock}, gen : 0 .. MaxAllocs,
   hdr : 0 .. load.sends, to : 0 .. MaxGeneration, waited : BOOLEAN]

\* The state stays within its types: in particular no reference count is taken
\* below zero (the allocator would throw "refcount underflow"), and no peer has
\* more than kMaxPendingTxPerEndpoint pending descriptors.
TypeOK ==
  /\ \A e \in Endpoint :
       /\ entry[e] \in [active : BOOLEAN, generation : 0 .. MaxGeneration]
       /\ \A b \in Block : block[e][b].refs \in Nat /\ block[e][b].gen \in 0 .. MaxAllocs
       /\ \A p \in Endpoint :
            /\ queue[e][p].head \in Nat /\ queue[e][p].tail \in Nat
            /\ queue[e][p].slot \in [0 .. Depth - 1 -> Descriptor]
            /\ Len(remote[e][p].pending) <= MaxPending
            /\ \A i \in DOMAIN remote[e][p].pending :
                 remote[e][p].pending[i] \in Descriptor
       /\ call[e].pc \in {"idle", "drain", "push", "rx"}
       /\ owned[e] \subseteq Block
  /\ failed \subseteq up /\ up \subseteq Endpoint

\* The sources that rx_burst polls are exactly the peers of the open sessions,
\* each once, however the sessions of a peer were opened and closed, and the next
\* one to poll is one of them.  As long as a session with a peer is connected the
\* peer's machine is mapped, whichever other session with it is refused or closed:
\* what the peer sends is not dropped as coming from an unmapped machine.
SourcesAreSessions ==
  \A e \in Endpoint :
    /\ \A p \in Endpoint :
         /\ rx[e].refs[p] = Cardinality(SessionsWith(e, p))
         /\ Cardinality({i \in DOMAIN rx[e].sources : rx[e].sources[i] = p}) =
              (IF rx[e].refs[p] = 0 THEN 0 ELSE 1)
         /\ (\E gen \in Generation : <<p, gen>> \in sess[e]) => remote[e][p].mapped
    /\ rx[e].sources = <<>> \/ rx[e].next < Len(rx[e].sources)

HeldOf(e, b) == UNION {{<<"held", p, i>> : i \in 1 .. held[p][e][b]} : p \in Endpoint}

References(e, b) ==
  PendingOf(e, b) \cup PublishedOf(e, b) \cup HeldOf(e, b) \cup
  {<<"owned", e, 1>> : x \in owned[e] \cap {b}}

\* A block's reference count covers everyone who still uses it: its MsgBuffer, each
\* descriptor that is pending or in a queue, and each receiver.  So a payload is not
\* freed, and reused, before the last of them is done with it, and never released
\* below zero.
ReferencesCovered ==
  /\ TypeOK
  /\ \A e \in Endpoint, b \in Block : block[e][b].refs >= Cardinality(References(e, b))

\* The payload that rx_burst hands up is the allocation that the descriptor was sent
\* with: a stale descriptor never names a block that was freed or allocated again.
ReceivesWhatWasSent ==
  [][\A e, s \in Endpoint, b \in Block : held'[e][s][b] > held[e][s][b] =>
       block[s][b].refs > 0 /\ block[s][b].gen = RxHead(e, s).gen]_vars

\* Messages of one sender are received in the order of tx_burst, each at most
\* once, although some went straight to the queue and others waited.
OrderKept ==
  [][\A e, p \in Endpoint : last'[e][p] # last[e][p] => last'[e][p] > last[e][p]]_vars

Polls(e, p) == e \in up \ failed /\ rx[e].refs[p] > 0

\* What is in the queue of a source that is polled is taken out, whatever the other
\* sources do: the round robin passes over no source.
PublishedIsReceived ==
  \A l \in Link : LET p == l[1] e == l[2] IN
    (Polls(e, p) /\ rx[e].heads[p] # queue[e][p].tail)
      ~> (~Polls(e, p) \/ rx[e].heads[p] = queue[e][p].tail)
=============================================================================
