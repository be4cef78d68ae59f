# Verification of the UB transport of eRPC and of tigon on UB memory

The repository runs RPCs, LRPC domains and a database over *UB shared memory*
(UBSM): memory of one machine that processes of other machines map and access
with loads and stores. This directory holds TLA+ specifications of its core: the
UBSM transport of eRPC with the sessions and RPCs on top of it, and what tigon (the
database) keeps in UB memory, its message rings, its index and its transactions. With
them are the TLC models that check them and TLAPS proofs about four of them.
Paths below are relative to the repository.

## 1. The system

### 1.1 What is in the repository

| Part | Source | Here |
|---|---|---|
| SPSC descriptor queue | `src/eRPC/src/transport_impl/ub/ub_spsc_queue.h` | modelled, proved |
| Shared arena allocator | `.../ub/ub_shared_allocator.{h,cc}` | modelled, proved |
| Endpoint registry, `ub_manager` | `.../ub/ub_machine.cc` 85-373, 465-535, 588-618, `ub_manager.cc` | modelled, proved |
| Process context, remote mappings, owner's shutdown | `.../ub/ub_machine.cc` 232-283, 375-586 | no (section 6) |
| UB transport | `.../ub/ub_transport.{h,cc}` | modelled, without shared objects |
| eRPC sessions and RPCs | `src/eRPC/src/rpc_impl/*.cc`, `rpc.h` | the paths UB takes |
| Nexus, background threads | `src/eRPC/src/nexus_impl/` | no (section 6) |
| Congestion control, timing wheel | `src/eRPC/src/cc/` | no: real time and floating point; they only delay packets |
| CXL transport | `src/eRPC/src/transport_impl/cxl/` | no: predecessor of the UB transport |
| Other eRPC transports | `src/eRPC/src/transport_impl/{dpdk,infiniband,raw,fake}` | no: upstream drivers |
| LRPC domains over UB | `src/eRPC-LRPC-UB/kernel/ub-domain`, `src/eRPC-LRPC-UB/lib` | no (section 6) |
| Earlier LRPC | `src/eRPC-LRPC`, `src/eRPC-LRPC-UB-el1-prev` | no: superseded |
| tigon: message ring | `src/tigon/common/UBMPSCRingBuffer.*` | modelled, proved |
| tigon: B+ tree | `src/tigon/core/UBBPlusTree.h` | modelled, without `erase` |
| tigon: transactions, tuples, replicas | `src/tigon/protocol/TwoPLPasha/`, `common/UBTuple.h`, `common/UBReplicatedTuple.h` | the paths UB takes |
| tigon: regions, hash table, lookup caches | `src/tigon/common/UBMemory.*`, `core/UBTable.*`, `common/UBTupleOffsetCache.h`, `common/UBReplicaLookupDirectory.h` | no (section 6) |
| tigon: other protocols, CXL backend | `src/tigon/protocol/`, `src/tigon/common/CXL*` | no: upstream, not used with UB |
| Applications, tests | `src/eRPC/apps`, `src/eRPC/hello_world_ub`, `src/tests` | no: no protocol of their own |

`PROJECT.json` lists the same parts with the reason for each that is left out.

### 1.2 How the modelled parts of eRPC interact

Each machine has one shared *region*: a header, a registry of endpoints, and for
each endpoint an inbox and an arena. `ub_manager` (or, in single-process mode,
the process itself) owns the region. A worker that creates an `Rpc` asks the
manager, over a local socket, for an endpoint. The endpoint's inbox has one SPSC
queue for each possible sender; its arena holds reference-counted blocks for the
payloads of its messages.

To send, `tx_burst` takes a reference to the payload's block and puts a 64-byte
descriptor into its queue in the receiver's inbox. If the queue is full, or if
older descriptors wait, the descriptor waits in a local pending queue. The
receiver's `rx_burst` polls the queues of the peers it has sessions with and
hands the payload up, in place; whoever is done with it drops the reference, from
another machine, and whoever drops the last one puts the block on the arena's
free list. Sessions are set up and torn down by UDP packets; each session maps
the peer's region, and the last one unmaps it, because an owner cannot delete a
region that others have mapped.

### 1.3 How the modelled parts of tigon interact

Each coordinator has a region that all others map. In it are a ring through which
the outgoing dispatchers of all coordinators send messages to its incoming
dispatcher, and the tables of its partitions: a B+ tree whose leaves
point to tuples with a lock word, a visibility state and a value. With UB, a
transaction does not send its requests to the partition's coordinator: the worker
walks the tree and locks, reads and writes the tuples itself, by loads, stores and
compare-and-swap. The protocol is two-phase locking in which a lock that is taken
aborts the transaction; a scan also locks the row behind its range, and an insert
locks the row behind its key. With `ub_replicated_rmw` a table has a copy in each of
two regions, which a write keeps equal.

### 1.4 Where it is hard

Machines work on the same words with nothing but atomics and fences between
them; counters and generations wrap; entries, inboxes, blocks and slots are reused
while late readers still have their addresses; processes die and leave state
behind; requests and session packets are repeated and reordered; a commit is many
stores, between which others look. `PROJECT.json` has the hazards, each at its line,
with the property that would catch it or the reason why none does.

## 2. The modules

| Module | Models | Grain of a step |
|---|---|---|
| `BoundedFifo` | what the queue promises: a bounded FIFO channel | a call |
| `SpscQueue` | `try_enqueue`, `try_dequeue`, `ensure_remote_endpoint`'s attach | one access to shared memory |
| `SpscQueueProofs` | proofs about `SpscQueue` | |
| `SharedArena` | `alloc`, `add_ref`, `free`, `release_remote_ref`, re-initialisation | one access to shared memory |
| `SharedArenaProofs` | proofs about `SharedArena` | |
| `EndpointRegistry` | manager loop, `register_endpoint`, `unregister_endpoint`, `validate_endpoint`, workers | one message, or one publication of an entry |
| `EndpointRegistryProofs` | proofs about `EndpointRegistry` | |
| `UBTransport` | the transport's state and calls | a call, cut where a peer can interfere |
| `TransportTraffic` | any legal use of the transport | as `UBTransport` |
| `ErpcSession` | eRPC's session management, requests, responses, retransmission | one handler, or one packet |
| `MpscChannel` | what the message ring promises: a bounded FIFO channel in which a sender reserves a place and completes it later | a call |
| `UBMPSCRing` | tigon's `UBMPSCRingBuffer` and its use by the dispatchers | one access to shared memory |
| `UBMPSCRingProofs` | proofs about `UBMPSCRing`: its invariant | |
| `UBMPSCRingRefinement` | and that it implements `MpscChannel` | |
| `UBBPlusTree` | the tree as a value: lookup, insertion, splits | |
| `TwoPLPasha` | tigon's transactions on a table, with and without replicas | one access to a shared word |
| `SerialStore` | what transactions promise: one after the other | a transaction |
| `MC*` | the instances that TLC checks | |

`UBTransport` has no specification of its own: `TransportTraffic` and
`ErpcSession` extend it with the callers. `TransportTraffic` is the most liberal
caller, `ErpcSession` is the real one. Each level uses the interface of the one
below it as that level's own module justifies it: `UBTransport` uses the queue
as a FIFO (`SpscQueue`), blocks as reference counts (`SharedArena`), and an
endpoint as an entry with a generation (`EndpointRegistry`). `TwoPLPasha` extends
`UBBPlusTree` in the same way, with the tree's lock and the tuples.

### 2.1 SpscQueue

`head`, `tail` and `slots` are the shared ring; `producer_tail`,
`cached_consumer_head` and `consumer_head` are what the two sides keep for
themselves in `RemoteEndpoint` and `consumer_heads_`. A 64-byte descriptor is
copied in two halves, so a slot that is overwritten while it is read gives a
descriptor whose halves differ. Counters wrap at `Modulus` (2^64 in the code);
as there, the modulus is a multiple of the ring's size. Fences and
release/acquire order the steps of a side as they are written. `Attach` is a
sender that maps the inbox again and takes the tail it finds there.

### 2.2 SharedArena

The header (`bump_offset`, `active_blocks`, `free_heads`, `class_locks`) and the
metadata of each block (`state`, `generation`, `ref_count`, `size_class`,
`next_free_offset`) are variables; `alloc` and `release_metadata` are program
counters over their shared accesses. Offsets count units of the metadata's size
and class c holds 2^c units. `place` is the callers: which block each reference
is to. A reference may be dropped by any thread of any machine.
`freelist` and `carved` are history: what the links and the bump pointer stand
for. `Unregister` and `Register` are the part of the registry that
re-initialises the arena.

### 2.3 EndpointRegistry

The registry's columns are functions over its slots. The manager serves one
connection at a time: `Accept`, then `DropClient` (five-second timeout, or the
client is gone) or a request. `register_endpoint` takes two steps, `FillEntry`
and `Activate`, because a remote `validate_endpoint` can read in between; this
reads the state and the rest of the entry in two steps (`BeginValidate`,
`CompareEntry`). A worker connects, sends, and takes the answer (`Registered`,
`Mismatch`, `Finished`), and may die anywhere (`Crash`), which loses its request
or its answer. Blocks are only counted (`UseBlock`, `ReleaseBlock`).

An entry's generation is a 32-bit counter in the code and wraps after 2^32
registrations of one slot. The model stops at `MaxGeneration` instead (`WornOut`),
so it says nothing about a handle that is 2^32 incarnations old.

### 2.4 UBTransport, TransportTraffic

`remote`, `pend` and `rx` are `remote_endpoints_`, the array of peers with
pending descriptors and the array of polled sources, both with their swap-remove.
`tx_burst` is atomic (one message), `drain_all_pending` is cut before each
validation and each push, `rx_burst` before each poll: at these points another
machine's steps change what the call does next. A descriptor carries as history
the incarnation it is meant for and whether it was pending.

`TransportTraffic` is the transport with callers in more orders than eRPC's. A server
resolves a client and registers it as a source in one step, or resolves it and then
refuses the session for lack of memory (`RefuseSession`), which leaves the client's
machine mapped. Which endpoints refuse is part of a workload. An endpoint to which nobody
sends in a workload does not poll: it would find nothing, and what else `rx_burst` does,
the drain, it does in `tx_flush`.

### 2.5 ErpcSession

Clients and servers with the states of `handle_connect_req_st`,
`handle_connect_resp_st`, `handle_disconnect_req_st`, `handle_disconnect_resp_st`,
`bury_session_st`, `enqueue_request_st`, `process_req_one_st`,
`enqueue_response_st`, `process_resp_one_st` and `pkt_loss_scan_st`. `udp` is the set
of all session-management packets ever sent: each may be lost, late or repeated.
`pending` is a session's membership in `sm_pending_reqs_`. Every response takes the
session out of it before the handler looks at the packet, a duplicate connect response
that is then ignored too (`IgnoreConnectResp`).
Under UB a message is one packet whatever its size (`data_size_to_num_pkts`), so
the multi-packet paths are never taken, and the server-failure branch of
`pkt_loss_scan_st` is switched off in the code. A response of the server's
pre-allocated buffer can be adopted by the client without a copy.

### 2.6 UBMPSCRing

`head`, `tail` and, for each slot, `sequence`, `payload` and `length` are the ring in the
owner's region. A slot's sequence tells whose turn it is: i for the producer of
position i, i + 1 for the consumer, i + Capacity for the producer of the next round. A
producer reads the tail, reads the sequence, claims with a compare-and-swap, and fills
the slot (payload, length, sequence). The consumer reads the sequence, copies, advances
the head and frees the slot. Payload and length are two pieces, each represented by the
message, so that a torn read shows. `PublishRoot` and `Attach` are the ring's
publication in root slot 9 and the dispatchers' late binding to it. `claimed` is history:
the message that each slot was claimed for. `Capacity` is at least 2: with one slot
the sequence that publishes a message is also the one that frees it.

### 2.7 UBBPlusTree, TwoPLPasha

The tree is a value, a map from nodes to keys, children and neighbours. `InsertEntry`
is `insert_impl`'s change of it: the leaf, a split of the leaf, splits of inner nodes
up the path, a new root. `TwoPLPasha` says when it is read and changed under the
tree's lock (`writer`, `readers`).

A worker begins a transaction of `Program`: point requests, a scan, inserts, a delete,
in the order in which `process_requests` serves them. `Search` finds a tuple,
`TryLock` and `CheckValid` are `UBTuple`'s try-lock and the look at the visibility state
behind it. `ScanBegin` and `Walk` go along the leaves under the shared tree
lock to the row that ends the scan; `InsertBegin`, `Walk` and `Place` lock the next row
and put a placeholder under the exclusive one. A failed lock sends the transaction
to abort. Commit and abort are lists of what is left to do (`CommitSteps`,
`AbortSteps`), one shared store at a time and in the code's order: publish or discard
the placeholders, write, unlock.

With replicas (`replicated`, chosen at `Start`) each key has two tuples; `home` is the
region of a worker's coordinator. A read locks the worker's own copy, an update both,
that of region 0 first (`TrySecond`, `CheckPair`). Commit writes and versions both copies
and reads the peer's back (`Complete`). The read-back may fail, and a CHECK then ends the
process: all workers of that coordinator stop where they are, with their locks taken.
A worker takes its versions from the versions it read and its own last one
(`generate_tid`).

A delete asks for a row whose write lock its own scan has taken. The locks have no
owner, so the request fails and the transaction aborts; the part of commit that deletes
rows is never reached and has no action (section 5).

The results of a scan point into the tuples, which the transaction reads when it likes.
`seen` is history: what the scan found. A commit is compared with that, so `Serializable`
also says that the rows a scan returned do not change before the commit. Commit copies
each row of a scan for update onto itself (`SCAN_FOR_UPDATE` in `TwoPLPasha.h`), under the
row's write lock and with no effect on UB; the model has no step for it.

## 3. The runs

All numbers are distinct states. Deadlock is checked for the queue, the arena, the
registry and the message ring. Traffic, sessions and transactions may end (everybody
left, or a bound is reached), so it is not checked there; `NeverStuck` takes its place
for transactions.

| Run | States | Instance | Shows |
|---|---|---|---|
| `spsc` | 4 371 | ring of 2, counters modulo 6, any number of messages | no slot is read and written at once, the ring implements `BoundedFifo`, every descriptor is consumed |
| `arena` | 854 204 | 3 threads (1 remote), 2 references, 2 classes, room for two blocks at most | exact counts and no exception, disjoint payloads, linked free lists, no lost block, `active_blocks = 0` means quiet, held blocks are left alone |
| `registry` | 327 453 | 2 workers that stall and die, 2 rpc_ids, 3 entries, room for 2 endpoints, 2 registrations, 1 remote validation | endpoints distinct, owners keep theirs, no refusal while an entry could be reused, validation is sound, old handles stay dead, every request is answered |
| `traffic` | 308 694 | queue of 1, pending queue of 2; 1 block and 4 messages to one peer, or 2 messages to each of two | references cover all users, messages arrive in order, with the payload they were sent with; the array of pending peers lists each that has something pending, once |
| `fan_in` | 33 285 | 2 senders, up to 2 sessions with each, refused ones | the polled sources are those of the sessions, the peer of a connected session is mapped, and every source is polled |
| `session` | 43 247 | 1 client, 1 server, 2 sessions, 2 requests, 1 retransmission, failing mappings | references cover all users, handlers run once, answers are the request's own, sessions are paired, a disconnected client is unmapped, requests are answered, disconnects complete while their request is pending |
| `ring` | 69 209 | 2 producers, ring of 2, 4 messages | no torn message, the ring implements `MpscChannel`, what is claimed is consumed, every send returns |
| `txn` | 113 218 | 3 workers with one transaction each, out of 8 kinds without replicas and 3 with; 3 loaded rows, nodes of 3 entries | locks and placeholders are accounted for, the tree is well formed and its search exact, nobody waits for ever, copies agree, versions grow, and transactions implement `SerialStore` |
| `dropped_reference`, `response_overwritten`, `pending_crosses_incarnation`, `phantom` | | | the four findings of section 5 |

Bounds. The rings and queues have the smallest size at which "full", "empty" and a
wrap all occur: one or two slots. Pending queues of two have a head, a tail
and an overflow. Two workers are enough for one to find the other's entry or
storage, two senders and two receivers for every case of a swap-remove (last,
first, only). Generations of 2 give one reuse. Two sessions of a client let packets of
the first meet the second. Four messages take the message ring through two rounds, with
both producers in either. Three transactions let two conflict while a third sees the
states in between; they are interchangeable, so TLC uses their symmetry. The loaded rows
leave holes before, between and behind them, and inserts split the leaf they
fill. The bounds `MaxGeneration`, `MaxHandles`, `MaxBlocks`, `MaxAllocs`, the number of
sends of a workload, `MaxSessions`, `MaxRequests`, `MaxRetries`, `MaxTail`, `MaxTxns` and
`Database` are guards of the models only. The counters of `SpscQueue` and the block
generations of `SharedArena` need no bound: they wrap, as in the code.

Fairness. Event loops keep running: a call that has begun ends, and the loop polls
again (weak fairness of the steps inside a call, strong fairness of `BeginPoll`, which
the application's own calls disable in between). The manager's loop runs, and the
listen queue of its socket is served in order, hence strong fairness of `Accept` for
each worker. `pkt_loss_scan_st` sends a disconnect request again and again while its
session is pending, and the server answers every copy, so one request and one answer get
through (`DisconnectDelivered`, `AnswerDelivered`); for a session that is no longer
pending nothing is assumed to arrive. A dispatcher's thread runs. The
ring's `compare_exchange_weak` may fail for no reason, but not for ever if it is tried
again and again with the current tail: strong fairness of `Claim`.
Nothing obliges an application to send, a worker to connect, or a caller to release. In
`session` a request is answered without its retransmission being fair: no UB queue
loses a descriptor that was published.

Each property has a mutant in `PROJECT.json`: a variant of one definition
(`... Mutant of X ...` in the modules), as a plausible mistake in the code would
make it, under which TLC finds the property violated. The type invariants are conjuncts
of the first property of a run (`RefCountExact`, `ReferencesCovered`) or of a proved
invariant.

## 4. The proofs

### 4.1 SpscQueue, for every ring size and counter width

Assumptions: `Depth` is a positive integer, `Modulus` is k * Depth with k >= 2,
and `NoDesc` is not a descriptor. In the code the depth is a power of two and the
modulus 2^64.

`Invariance` proves `Spec => []IInv`. `IInv` says: the private counters agree with
the shared ones; the cached head is a head the consumer passed at most
`Depth` descriptors ago; a writer that has begun owns the slot after the last
published one; a reader that has begun copies the oldest; every published slot is
whole. `NoSlotRace` alone is not inductive: that the slot is free follows from a
cached, possibly old head, so what the old head still proves has to be part
of the invariant. From it follow `SlotsAreRaceFree`, `DescriptorsAreWhole` and
`Refinement` (`Spec => ImplementsFifo`: the steps that publish map to steps of
`BoundedFifo`, all others stutter). The lemmas before it are the arithmetic of
counters that wrap: differences, slot indices, and when two counters share a slot.

### 4.2 EndpointRegistry, for any number of workers, entries, endpoints and validators

Assumptions: at least one slot, `NoWorker` and `NoRpcId` are no worker and no rpc_id,
the bounds are natural numbers.

`Invariance` proves `Spec => []IInv`, with one lemma for each conjunct:

* `EntriesApart`: storage belongs to one entry for ever, all of it lies below
  `next_free`; active entries have storage and differ in rpc_id; free arenas are
  quiet.
* `StorageInOrder`: first-fit gives entry s the s-th inbox and arena. So as long as a
  free entry has storage it is also the one that first-fit finds, which is what
  `RefusedOnlyWhenFull` rests on.
* `ManagerWaitedFor`: the manager works for a worker that waits or died waiting, and
  between `FillEntry` and `Activate` the entry is complete, free, and no duplicate.
  Without it, `Activate` could make a second endpoint of the same rpc_id.
* `WorkersOwn`: what a worker holds or was granted is live and in its name, and
  while it gives it back its request names it. This is why only the owner can free an
  entry, also when a worker dies between grant and use.
* `PublishedIsPast`: a handle that was given out is not newer than its entry; if the
  generations agree, the entry is the handle. This is why the two reads of
  `validate_endpoint` need not be atomic.

From it follow `DistinctEndpoints`, `OwnersKeepEndpoints`, `FreeArenasAreQuiet`,
`ValidationIsSound`, `RefusedWhenFull` and, as an action property, `OldHandlesStayDead`.

### 4.3 UBMPSCRing, for any number of producers and every capacity from two on

Assumptions: `Capacity` is a natural number greater than 1, and `NoMessage` is not a
message.

`Invariance` proves `Spec => []IInv`. At any moment each slot stands for one position
of a *window* of `Capacity` positions that begins at the oldest one not yet freed.
`IInv` says:

* `WindowInv`: the tail is in the window or just behind it.
* `SlotsInv`: the sequence of a position's slot is the position if it is not claimed or
  not yet published, and one more if it is published; then both pieces are those of the
  message it was claimed for.
* `FillersInv`: the producers that fill have different positions, claimed and not published,
  and have written the pieces that they have passed.
* `ChoosersInv`: what a producer that has not claimed yet keeps is a tail of now or
  earlier; if it saw the slot free for a position that is still the tail, it still is.
* `ConsumerInv`: what the consumer has copied is of the slot it will free.

`NoTornMessage` alone is not inductive: that a slow producer whose compare-and-swap
succeeds has not been overtaken by a full round of the ring is `ChoosersInv`, and
that two producers never fill one slot is `FillersInv` with the window. `MessagesAreWhole`
follows, and so does `Refinement` (`Spec => ImplementsChannel`): a claim reserves the next
place of `MpscChannel`, the store of the sequence completes it, the store that frees the slot
takes the oldest; a poll that finds nothing finds the oldest place incomplete or the
channel empty, and a send that finds the ring full finds the channel full.

### 4.4 SharedArena, for any number of threads and references, and any arena

Assumptions: the owner's threads are among the threads, there are finitely many
references and at least one class, the sizes are natural numbers, and the modulus of the
generations is at least 2. That a power of two is a positive number is an assumption
too (`CapacityAssumption`), as the provers know nothing of exponentiation.

`Invariance` proves `Spec => []IInv`. `IInv` says where a carved block can be, and what
the threads that are inside a call may rely on:

* `BlocksApart`: carved blocks do not overlap and lie below the bump pointer.
* `ListsOK`: the links spell out the free list of each class, and its blocks were
  carved with that class.
* `HeldIsCounted`: a block that callers hold was carved, its count is exact, and it is
  on no list.
* `HandIsAlone`: a block that a thread is allocating or releasing is in no other place
  and in no other hand.
* `Somewhere`: each carved block is in one of these places.
* `LocksExclude`: one thread at a time has a class lock, and the list's head stays what
  that thread has read.
* `ActiveIsCounted`: `active_blocks` counts the held blocks and the threads that
  have counted a block that is not yet, or no longer, held.
* `OwnersAllocate`: only the owner's threads allocate, and none while the endpoint
  is not registered.

`RefCountExact` alone is not inductive: that a popped block is not held is `ListsOK` with
`HandIsAlone`, and that the pop takes the head it has read is `LocksExclude`.
That the last release is seen before the arena is re-initialised is `ActiveIsCounted`:
`active_blocks` goes down only after the push. From `IInv` follow `CountsAreExact`,
`PayloadsAreDisjoint`, `FreeListsAreLinked`, `NoBlockIsLost`, `ZeroIsQuiet` and, as an
action property, `HeldBlocksStay`.

### 4.5 Only model-checked

Liveness (`EveryDescriptorConsumed`, `RequestAnswered`, `PublishedIsReceived`,
`RequestIsAnswered`, `DisconnectCompletes`, `ClaimedIsConsumed`, `SendReturns`) and
`NeverStuck`, which says ENABLED, are out of the prover's reach. So is `UBBPlusTree`, whose
operators are recursive, and with it `TwoPLPasha`. The safety properties of the
transport and of the sessions are checked on the instances of section 3 only.

## 5. Findings

Four runs show the code doing something else than a text of the repository says.

* `dropped_reference`. The transport's README says that a packet dropped on an error
  path gives its reference back. `rx_burst` drops a descriptor from a machine that
  is no longer mapped without doing so (it cannot). A duplicate response that arrives
  after the client destroyed the session is such a packet; the server's block is
  never free again, so its endpoint cannot be unregistered.
* `response_overwritten`. `rpc_types.h` says that the continuation returns ownership of
  the response buffer to the application. A zero-copy response is the server's
  pre-allocated buffer, which the server writes again for the next request of the
  slot, while the application may still own it.
* `pending_crosses_incarnation`. A comment in `ensure_remote_endpoint` says not to move
  descriptors queued for an old incarnation to a new inbox. `drain_pending` validates
  the endpoint once and then pushes in a loop; if the client is destroyed and
  created again in between, the rest lands in the new inbox.
* `phantom`. `docs/ub_tigon.md` says that an insert locks the same successor as a scan,
  which keeps phantoms out of a scanned range. A commit makes a placeholder visible
  without the tree's lock. A scan that has passed over the placeholder then locks the row
  behind it, while the next insert takes the new row for its successor: the two lock
  different rows, and a row appears in a range that is still protected. `SerialStore`
  therefore promises nothing about rows that a scan did not return.

Three more texts promise more than the code does.

`rpc.h` says of `destroy_session` that the disconnect callback will be invoked later.
`DisconnectCompletes` shows it for as long as the session is in `sm_pending_reqs_`, and
needs that condition. A late duplicate of the connect response is ignored by
`handle_connect_resp_st`, but `handle_sm_rx_st` has by then erased the session from the
pending ones. If the disconnect request or its answer was lost, nobody sends it again,
and the session is in `kDisconnectInProgress` for ever. Without the condition TLC finds
this in seven steps.

`docs/ub_tigon.md` lists `delete` among the supported queries and says that its commit
publishes state 0. A delete aborts at every attempt, alone as well as among others: its
scan holds the write lock that the delete request then tries to take (a comment in
`TwoPLPashaTransaction.h` says that repeated access to a row is not handled). `txn` has
deletes in its workload; they abort and give back what they locked, and the part of
commit that would publish a delete is never reached, so `TwoPLPasha` leaves it out.

A comment in `handle_disconnect_req_st` says that the disconnect response guarantees that
the client can delete its region. `DisconnectedIsUnmapped` shows it for a server that never
refused a connect request of this client, and needs that condition. Refused requests are
not remembered. If the server could not map the client at first, the client connects
again, and a late duplicate of the first request is then accepted, the server has a
session that nobody will close. It keeps the mapping when the client's real session is
disconnected. With `Unmappable = {a, server}` and without the condition TLC finds this in
eleven steps.

Some behaviour is noted as a hazard without a property, as no text promises otherwise:
sends through a cached endpoint of an old incarnation, connect responses that reach a
restarted client, and a producer of the message ring that dies between its claim and
its publication, which stops the ring. Met while modelling, and outside of what the
properties say: `tx_burst` throws when its destination is gone; the mapping of a client
stays when its connect request is refused for lack of memory; a worker that loses the
manager's answer leaves an active entry that nobody frees; `create` accepts a message
ring of one slot, which does not work (the sequence number that says that the slot is
full is also the one that says that it is free for the next message, so a producer
overwrites what was not consumed; the models and proofs of the ring take two slots and
more); an allocation that fails in `insert_impl` leaves the next row locked;
the commit of an insert may set the next row's version back, where nothing depends on it.

## 6. What is not modelled

* *Weak memory* beyond the order that the code's fences and release/acquire
  accesses give: each module takes them as an order on one side's steps. The root
  slots of `UBMemory` (a sequence lock with relaxed stores) would need more; their
  publication is one step here.
* *Bounds checks* of addresses in descriptors (`resolve_payload`, the range checks of
  `validate_endpoint`), sizes and alignment: data that the properties do not tell apart.
* *Recovery* of what a dead process leaves behind: the transport's README excludes it
  ("当前边界"). In `EndpointRegistry` a dead worker's entry stays active, in `TwoPLPasha` a
  dead coordinator's locks stay taken, as in the code. The threads of `SharedArena` and
  the producers of `UBMPSCRing` do not die; one that did would leave a class lock or a
  slot taken for ever.
* *Machine context*: the table of remote mappings and the owner's shutdown in
  `ub_machine.cc`. What matters there is the behaviour of the ubs-mem library (which
  unmaps and deletions fail, and when) and deadlines in real time; the code says
  too little of either to model it. The sessions' part, when a peer is mapped and
  unmapped, is in `UBTransport` and `ErpcSession`.
* *Several sslots* for a session, *credits*, and *Nexus* with its background threads: they
  multiply instances of the same slot protocol or only delay it. UDP packets already
  arrive at any time and in any order.
* *Shared objects* (`describe_shared_object`, `import_shared_object`), profiling, logging.
* *LRPC domains*: a kernel module whose state is page tables and whose switches are
  assembly; nothing in a model of it would be a translation.
* *tigon's* regions (`UBMemory`: calls to ubs-mem and a bump allocator), the hash table
  (`UBTable`: no database of the repository creates it), the catalogue (filled before the
  workers start), and the lookup caches (a tuple never moves and is never reused for
  another key, so a hit gives what the index gives). `erase` of the tree, which no
  transaction on UB calls. Logging, group commit, and everything that belongs to the CXL
  backend: row migration, software cache coherence, epoch-based reclamation.
* *Upstream code* (eRPC's other transports, tigon's other protocols and benchmarks, the
  applications), by far the larger part of the repository: it has no UB code in it.

## 7. Running

    tlc -workers 2 -config MCSpscQueue.cfg MCSpscQueue
    tlapm SpscQueueProofs.tla
    tlapm EndpointRegistryProofs.tla
    tlapm UBMPSCRingProofs.tla
    tlapm UBMPSCRingRefinement.tla
    tlapm SharedArenaProofs.tla

`PROJECT.json` gives module and configuration of each run, and maps each
definition to the lines it models.
