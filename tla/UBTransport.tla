----------------------------- MODULE UBTransport -----------------------------
(***************************************************************************)
(* UBTransport: endpoints that send message descriptors through each       *)
(* other's inboxes, keep what does not fit in local pending queues, poll   *)
(* their own inbox, and hand a reference to the sender's payload block     *)
(* over with every descriptor.                                             *)
(*                                                                         *)
(* Each endpoint is on a machine of its own and has one thread, which runs *)
(* one transport call at a time.  A call is atomic up to the points where  *)
(* another endpoint's steps can change what it has read: the validation of *)
(* a pending peer, each attempt to enqueue, and each poll of a queue.  The *)
(* queues are used through their two calls (module SpscQueue), the blocks  *)
(* through their reference counts (SharedArena), and the registry through  *)
(* the entry of each endpoint (EndpointRegistry): an endpoint that is      *)
(* destroyed and created again gets the same entry and the same inbox, in  *)
(* a new generation.                                                       *)
(*                                                                         *)
(* The module has the transport's state and its calls.  Its callers are in *)
(* TransportTraffic (any legal traffic) and ErpcSession (eRPC's sessions   *)
(* and RPCs), which extend it; a call leaves the callers' variables alone. *)
(***************************************************************************)
EXTENDS Integers, Sequences, FiniteSets

CONSTANTS
  Endpoint,       \* the rpc_ids
  Block,          \* the blocks of an endpoint's arena
  NoBlock,        \* the block of a message without payload
  NoEndpoint,     \* the sender of a descriptor that is all zero
  Depth,          \* kSpscQueueDepth
  MaxPending,     \* kMaxPendingTxPerEndpoint
  Postlist,       \* kPostlist
  MaxAllocs,      \* bound: allocations of one block
  MaxGeneration   \* bound: incarnations of one endpoint

ASSUME NoneAssumption == NoBlock \notin Block /\ NoEndpoint \notin Endpoint
ASSUME SizeAssumption ==
  /\ Depth \in Nat \ {0} /\ MaxPending \in Nat \ {0} /\ Postlist \in Nat \ {0}
  /\ MaxAllocs \in Nat /\ MaxGeneration \in Nat \ {0}

VARIABLES
  entry,     \* registry entries
  queue,     \* queue[e][s]: the queue of source s in e's inbox
  block,     \* block[e][b]: the blocks of e's arena
  up,        \* the endpoints whose transport exists
  failed,    \* the endpoints whose thread died of an exception
  remote,    \* remote[e][p]: remote_endpoints_
  pend,      \* the compact array of peers with pending descriptors
  rx,        \* the compact array of polled sources
  call       \* the call in progress

shared == <<entry, queue, block>>
transport == <<shared, up, failed, remote, pend, rx, call>>

NoPosition == 0

\* A descriptor; `to' and `waited' are history: the incarnation it is meant for,
\* and whether it was pending.
Zero == [src |-> NoEndpoint, block |-> NoBlock, gen |-> 0, hdr |-> 0,
         to |-> 0, waited |-> FALSE]
EmptyQueue == [head |-> 0, tail |-> 0, slot |-> [i \in 0 .. Depth - 1 |-> Zero]]
NoRemote == [mapped |-> FALSE, inbox |-> FALSE, gen |-> 0,
             tail |-> 0, head |-> 0, pending |-> <<>>]
NoPend == [list |-> <<>>, pos |-> [p \in Endpoint |-> NoPosition]]
NoRx == [heads |-> [p \in Endpoint |-> 0], refs |-> [p \in Endpoint |-> 0],
         sources |-> <<>>, next |-> 0]
Idle == [pc |-> "idle", i |-> 0, got |-> 0]

TransportInit ==
  /\ entry = [e \in Endpoint |-> [active |-> FALSE, generation |-> 0]]
  /\ queue = [e \in Endpoint |-> [s \in Endpoint |-> EmptyQueue]]
  /\ block = [e \in Endpoint |-> [b \in Block |-> [refs |-> 0, gen |-> 0]]]
  /\ up = {}
  /\ failed = {}
  /\ remote = [e \in Endpoint |-> [p \in Endpoint |-> NoRemote]]
  /\ pend = [e \in Endpoint |-> NoPend]
  /\ rx = [e \in Endpoint |-> NoRx]
  /\ call = [e \in Endpoint |-> Idle]

At(e, pc) == e \in up \ failed /\ call[e].pc = pc
Validated(p, gen) == entry[p].active /\ entry[p].generation = gen

-----------------------------------------------------------------------------
\* Construction and destruction of the transport

\* register_endpoint: a new incarnation, with an empty inbox.
Construct(e) ==
  /\ e \notin up /\ ~entry[e].active
  /\ entry[e].generation < MaxGeneration
  /\ up' = up \cup {e}
  /\ entry' = [entry EXCEPT ![e] = [active |-> TRUE, generation |-> @.generation + 1]]
  /\ queue' = [queue EXCEPT ![e] = [s \in Endpoint |-> EmptyQueue]]
  /\ UNCHANGED <<block, failed, remote, pend, rx, call>>

-----------------------------------------------------------------------------
\* Local tables

\* Mutant of WithoutPending: the entry moved into the gap keeps its position.
WithoutPendingStale(t, p) ==
  IF t.pos[p] = NoPosition THEN t
  ELSE LET moved == t.list[Len(t.list)]
           list == [t.list EXCEPT ![t.pos[p]] = moved]
       IN [list |-> SubSeq(list, 1, Len(list) - 1),
           pos |-> [t.pos EXCEPT ![p] = NoPosition]]

\* add_pending_endpoint and remove_pending_endpoint: the last entry fills the
\* gap.
WithPending(t, p) ==
  IF t.pos[p] # NoPosition THEN t
  ELSE [list |-> Append(t.list, p), pos |-> [t.pos EXCEPT ![p] = Len(t.list) + 1]]

WithoutPending(t, p) ==
  IF t.pos[p] = NoPosition THEN t
  ELSE LET moved == t.list[Len(t.list)]
           list == [t.list EXCEPT ![t.pos[p]] = moved]
       IN [list |-> SubSeq(list, 1, Len(list) - 1),
           pos |-> [t.pos EXCEPT ![moved] = t.pos[p], ![p] = NoPosition]]

WithSource(t, p) ==
  [t EXCEPT !.refs[p] = @ + 1,
            !.sources = IF t.refs[p] = 0 THEN Append(@, p) ELSE @]

\* Mutant of WithoutSource: the source is removed with its first session.
WithoutSourceEarly(t, p) ==
  LET n == Len(t.sources)
      i == CHOOSE j \in 1 .. n : t.sources[j] = p
  IN IF \E j \in 1 .. n : t.sources[j] = p
       THEN [t EXCEPT !.refs[p] = @ - 1,
               !.sources = SubSeq([t.sources EXCEPT ![i] = t.sources[n]], 1, n - 1),
               !.next = IF n = 1 THEN 0 ELSE @ % (n - 1)]
       ELSE [t EXCEPT !.refs[p] = @ - 1]

\* unregister_rx_peer on the compact array of sources.
WithoutSource(t, p) ==
  LET n == Len(t.sources)
      i == CHOOSE j \in 1 .. n : t.sources[j] = p
  IN IF t.refs[p] # 1
       THEN [t EXCEPT !.refs[p] = @ - 1]
       ELSE [t EXCEPT !.refs[p] = 0,
               !.sources = SubSeq([t.sources EXCEPT ![i] = t.sources[n]], 1, n - 1),
               !.next = IF n = 1 THEN 0 ELSE @ % (n - 1)]

-----------------------------------------------------------------------------
\* Blocks

\* The pending descriptors that have a reference to block b.
PendingOf(e, b) ==
  UNION {{<<"pending", p, i>> : i \in {j \in DOMAIN remote[e][p].pending :
            remote[e][p].pending[j].block = b}} : p \in Endpoint}

\* The descriptors' own references, given back.
ReleaseAll(blocks, ds) ==
  [b \in Block |-> [blocks[b] EXCEPT !.refs =
     @ - Cardinality({i \in DOMAIN ds : ds[i].block = b})]]

\* Mutant of AddRef: the descriptor has no reference of its own.
NoAddRef(blocks, e, b) == blocks

AddRef(blocks, e, b) == IF b = NoBlock THEN blocks ELSE [blocks EXCEPT ![e][b].refs = @ + 1]

\* alloc_shared_buffer, and free_shared_buffer for a block of any arena: the blocks
\* afterwards.
CanAlloc(e, b) == block[e][b].refs = 0 /\ block[e][b].gen < MaxAllocs
Alloc(e, b) == [block EXCEPT ![e][b] = [refs |-> 1, gen |-> @.gen + 1]]
Free(blocks, p, b) == IF b = NoBlock THEN blocks ELSE [blocks EXCEPT ![p][b].refs = @ - 1]

-----------------------------------------------------------------------------
\* ensure_remote_endpoint

Cached(e, p, gen) == remote[e][p].inbox /\ remote[e][p].gen = gen

CanEnsure(e, p, gen) ==
  Cached(e, p, gen) \/ (remote[e][p].pending = <<>> /\ Validated(p, gen))

Ensured(e, p, gen) ==
  IF Cached(e, p, gen) THEN remote[e][p]
  ELSE [mapped |-> TRUE, inbox |-> TRUE, gen |-> gen, pending |-> <<>>,
        tail |-> queue[p][e].tail, head |-> queue[p][e].head]

\* release_remote_endpoint_noexcept, with the references of what is pending.  `blocks'
\* is the blocks as the caller leaves them before.
ReleaseRemote(e, p, blocks) ==
  /\ block' = [blocks EXCEPT ![e] = ReleaseAll(@, remote[e][p].pending)]
  /\ remote' = [remote EXCEPT ![e][p] = NoRemote]
  /\ pend' = [pend EXCEPT ![e] = WithoutPending(@, p)]

-----------------------------------------------------------------------------
\* resolve_remote_routing_info, register_rx_peer, prepare_disconnect and
\* unregister_rx_peer

Resolve(e, p, gen) == remote' = [remote EXCEPT ![e][p] = Ensured(e, p, gen)]

RegisterRxPeer(e, p) == rx' = [rx EXCEPT ![e] = WithSource(@, p)]

\* Mutant of ReleaseIfLast: the count is compared as if it were decremented already.
ReleaseIfNone(e, p, blocks) ==
  IF rx[e].refs[p] = 0 THEN ReleaseRemote(e, p, blocks)
  ELSE block' = blocks /\ UNCHANGED <<remote, pend>>

\* Only the last session of a peer gives up the mapping.
ReleaseIfLast(e, p, blocks) ==
  IF rx[e].refs[p] = 1 THEN ReleaseRemote(e, p, blocks)
  ELSE block' = blocks /\ UNCHANGED <<remote, pend>>

PrepareDisconnect(e, p) == ReleaseIfLast(e, p, block)

UnregisterRxPeer(e, p, blocks) ==
  /\ rx' = [rx EXCEPT ![e] = WithoutSource(@, p)]
  /\ ReleaseIfLast(e, p, blocks)

-----------------------------------------------------------------------------
\* try_enqueue, by the producer e to the inbox of p

\* Mutant of Refreshed: the sender never looks again.
NotRefreshed(r, q) == r

\* The sender's state after it has looked at the consumer's head again.
Refreshed(r, q) == IF r.tail - r.head >= Depth THEN [r EXCEPT !.head = q.head] ELSE r
HasRoom(r) == r.tail - r.head < Depth
Put(q, r, d) == [q EXCEPT !.slot[r.tail % Depth] = d, !.tail = r.tail + 1]

-----------------------------------------------------------------------------
\* drain_all_pending, at the beginning of tx_burst, tx_flush, rx_burst and of
\* the destructor

BeginDrain(e) ==
  /\ At(e, "idle")
  /\ pend[e].list # <<>>
  /\ call' = [call EXCEPT ![e] = [Idle EXCEPT !.pc = "drain", !.i = 1]]
  /\ UNCHANGED <<shared, up, failed, remote, pend, rx>>

\* drain_pending validates the peer.  The descriptors of a peer that is gone are
\* dropped, with their references.
DrainCheck(e) ==
  /\ At(e, "drain")
  /\ call[e].i <= Len(pend[e].list)
  /\ LET p == pend[e].list[call[e].i] IN
       IF Validated(p, remote[e][p].gen)
         THEN /\ call' = [call EXCEPT ![e].pc = "push"]
              /\ UNCHANGED <<block, remote, pend>>
         ELSE /\ block' = [block EXCEPT ![e] = ReleaseAll(@, remote[e][p].pending)]
              /\ remote' = [remote EXCEPT ![e][p].pending = <<>>, ![e][p].inbox = FALSE]
              /\ pend' = [pend EXCEPT ![e] = WithoutPending(@, p)]
              /\ UNCHANGED call
  /\ UNCHANGED <<entry, queue, up, failed, rx>>

\* Mutant of PendingSent: the sender gives the reference back.
PendingSentReleased(e, d) == block' = Free(block, e, d.block)

\* The reference of a pending descriptor goes to the receiver with it.
PendingSent(e, d) == UNCHANGED block

\* One attempt of drain_pending to enqueue the oldest pending descriptor.
DrainPush(e) ==
  /\ At(e, "push")
  /\ LET p == pend[e].list[call[e].i]
         r == Refreshed(remote[e][p], queue[p][e])
     IN IF HasRoom(r)
          THEN /\ queue' = [queue EXCEPT ![p][e] = Put(@, r, Head(r.pending))]
               /\ remote' = [remote EXCEPT ![e][p] =
                               [r EXCEPT !.tail = r.tail + 1, !.pending = Tail(r.pending)]]
               /\ PendingSent(e, Head(r.pending))
               /\ IF Len(r.pending) = 1
                    THEN /\ pend' = [pend EXCEPT ![e] = WithoutPending(@, p)]
                         /\ call' = [call EXCEPT ![e].pc = "drain"]
                    ELSE UNCHANGED <<pend, call>>
          ELSE /\ remote' = [remote EXCEPT ![e][p] = r]
               /\ call' = [call EXCEPT ![e].pc = "drain", ![e].i = @ + 1]
               /\ UNCHANGED <<queue, block, pend>>
  /\ UNCHANGED <<entry, up, failed, rx>>

\* Nothing was pending, or every pending peer has been tried.
Drained(e) ==
  \/ At(e, "idle") /\ pend[e].list = <<>>
  \/ At(e, "drain") /\ call[e].i > Len(pend[e].list)

Return(e) == call' = [call EXCEPT ![e] = Idle]

TxFlush(e) ==
  /\ At(e, "drain") /\ Drained(e)
  /\ Return(e)
  /\ UNCHANGED <<shared, up, failed, remote, pend, rx>>

-----------------------------------------------------------------------------
\* tx_burst, with one message

\* ensure_remote_endpoint fails: rt_assert throws, and nobody catches it.
TxUnavailable(e, p, gen, blocks) ==
  /\ Drained(e)
  /\ ~CanEnsure(e, p, gen)
  /\ failed' = failed \cup {e}
  /\ block' = blocks
  /\ UNCHANGED <<entry, queue, up, remote, pend, rx, call>>

\* Mutant of TxMustWait: a message overtakes the ones that are pending.
TxMustWaitIfFull(r, q) == ~HasRoom(Refreshed(r, q))

\* try_enqueue is called only when nothing is pending.
TxMustWait(r, q) == r.pending # <<>> \/ ~HasRoom(Refreshed(r, q))

TxDropped(r) == Len(r.pending) >= MaxPending

\* The payload's reference for the receiver is taken before the descriptor is
\* published or kept; a message over the pending limit is dropped.
TxBurst(e, p, gen, b, hdr, blocks) ==
  /\ Drained(e)
  /\ CanEnsure(e, p, gen)
  /\ LET r == Ensured(e, p, gen)
         f == Refreshed(r, queue[p][e])
         kept == IF r.pending = <<>> THEN f ELSE r
         waits == TxMustWait(r, queue[p][e])
         d == [src |-> e, block |-> b, hdr |-> hdr,
               gen |-> IF b = NoBlock THEN 0 ELSE block[e][b].gen,
               to |-> gen, waited |-> waits]
     IN IF TxDropped(r)
          THEN /\ remote' = [remote EXCEPT ![e][p] = r]
               /\ block' = blocks
               /\ UNCHANGED <<queue, pend>>
          ELSE /\ block' = AddRef(blocks, e, b)
               /\ IF waits
                    THEN /\ remote' = [remote EXCEPT ![e][p] =
                           [kept EXCEPT !.pending = Append(r.pending, d)]]
                         /\ pend' = [pend EXCEPT ![e] = WithPending(@, p)]
                         /\ UNCHANGED queue
                    ELSE /\ queue' = [queue EXCEPT ![p][e] = Put(@, f, d)]
                         /\ remote' = [remote EXCEPT ![e][p] = [f EXCEPT !.tail = f.tail + 1]]
                         /\ UNCHANGED pend
  /\ Return(e)
  /\ UNCHANGED <<entry, up, failed, rx>>

-----------------------------------------------------------------------------
\* rx_burst

RxBegin(e) ==
  /\ Drained(e)
  /\ rx[e].sources # <<>>
  /\ call' = [call EXCEPT ![e] = [Idle EXCEPT !.pc = "rx"]]
  /\ UNCHANGED <<shared, up, failed, remote, pend, rx>>

RxSource(e) == (rx[e].next + call[e].i) % Len(rx[e].sources)

\* Mutant of RxNextSource: an empty source ends the burst.
RxStop(e) == call' = [call EXCEPT ![e] = Idle]

\* A source has nothing to deliver: on to the next one, or the burst is over.
RxNextSource(e) ==
  LET burst == call[e] IN
    call' = [call EXCEPT ![e] = IF burst.i + 1 = Len(rx[e].sources) THEN Idle
                                ELSE [burst EXCEPT !.i = burst.i + 1]]

\* A message was delivered: poll from the source after it, up to kPostlist.
RxDelivered(e) ==
  LET burst == call[e] IN
    call' = [call EXCEPT ![e] = IF burst.got + 1 = Postlist THEN Idle
                                ELSE [burst EXCEPT !.i = 0, !.got = burst.got + 1]]

RxEmpty(e) ==
  /\ At(e, "rx")
  /\ LET s == rx[e].sources[RxSource(e) + 1] IN rx[e].heads[s] = queue[e][s].tail
  /\ RxNextSource(e)
  /\ UNCHANGED <<shared, up, failed, remote, pend, rx>>

\* The descriptor that try_dequeue takes, and whether it is handed up: it is dropped
\* when the source is not mapped, or is not the sender.
RxHead(e, s) == queue[e][s].slot[rx[e].heads[s] % Depth]
RxAccepts(e, s) == remote[e][s].mapped /\ RxHead(e, s).src = s

RxDequeue(e, s) ==
  /\ At(e, "rx")
  /\ s = rx[e].sources[RxSource(e) + 1]
  /\ rx[e].heads[s] # queue[e][s].tail
  /\ queue' = [queue EXCEPT ![e][s].head = rx[e].heads[s] + 1]
  /\ IF RxAccepts(e, s)
       THEN /\ rx' = [rx EXCEPT ![e].heads[s] = @ + 1,
                               ![e].next = (RxSource(e) + 1) % Len(rx[e].sources)]
            /\ RxDelivered(e)
       ELSE /\ rx' = [rx EXCEPT ![e].heads[s] = @ + 1]
            /\ RxNextSource(e)
  /\ UNCHANGED <<entry, block, up, failed, remote, pend>>

-----------------------------------------------------------------------------
\* cleanup_noexcept: the endpoint is unregistered if nobody holds a block of it.  ~Rpc
\* has unregistered every peer before, so there is nothing left to drain.
Destroy(e, blocks) ==
  /\ At(e, "idle")
  /\ up' = up \ {e}
  /\ block' = [blocks EXCEPT ![e] = [b \in Block |->
                 [@[b] EXCEPT !.refs = blocks[e][b].refs - Cardinality(PendingOf(e, b))]]]
  /\ entry' = [entry EXCEPT ![e].active = \E b \in Block : block'[e][b].refs > 0]
  /\ remote' = [remote EXCEPT ![e] = [p \in Endpoint |-> NoRemote]]
  /\ pend' = [pend EXCEPT ![e] = NoPend]
  /\ rx' = [rx EXCEPT ![e] = NoRx]
  /\ UNCHANGED <<queue, failed, call>>

-----------------------------------------------------------------------------
\* What the transport keeps true by itself, whatever its callers do

\* The compact array of peers with pending descriptors and its position index
\* agree, whatever was added, swapped into a gap and removed: a peer is in the
\* array, once, exactly when it has pending descriptors, and then its inbox is
\* known.  A peer that fell out of it would never be drained again.
PendingPeersListed ==
  \A e \in Endpoint :
    /\ \A p \in Endpoint :
         /\ (remote[e][p].pending # <<>>) <=> (pend[e].pos[p] # NoPosition)
         /\ remote[e][p].pending # <<>> => remote[e][p].inbox /\ remote[e][p].mapped
    /\ \A i \in DOMAIN pend[e].list : pend[e].pos[pend[e].list[i]] = i
    /\ \A p \in Endpoint : pend[e].pos[p] # NoPosition =>
         pend[e].pos[p] \in DOMAIN pend[e].list /\ pend[e].list[pend[e].pos[p]] = p

\* The descriptors in queues that name block b of e.
PublishedOf(e, b) ==
  UNION {{<<"published", p, i>> : i \in {j \in queue[p][e].head .. queue[p][e].tail - 1 :
            queue[p][e].slot[j % Depth].block = b}} : p \in Endpoint}

\* A descriptor that was queued locally for one incarnation of a peer does not end
\* in the inbox of another one.
PendingStaysWithIncarnation ==
  \A e, s \in Endpoint : \A i \in queue[e][s].head .. queue[e][s].tail - 1 :
    LET d == queue[e][s].slot[i % Depth] IN d.waited => d.to = entry[e].generation
=============================================================================
