--------------------------- MODULE EndpointRegistry ---------------------------
(***************************************************************************)
(* The endpoint registry of one machine region: ub_manager, which owns it, *)
(* the worker processes that register and unregister their endpoints over  *)
(* the manager's socket, and the remote processes that validate an         *)
(* endpoint by reading its registry entry through their own mapping.       *)
(*                                                                         *)
(* The manager serves one connection at a time.  A worker may stop or die  *)
(* anywhere, so a request may never be sent and a response may be lost.    *)
(*                                                                         *)
(* An endpoint's storage (its inbox and arena, adjacent in the region) is  *)
(* one unit; the region has room for Capacity of them, and unit 0 is none. *)
(* active_blocks abstracts the arena: the module SharedArena has the rest. *)
(***************************************************************************)
EXTENDS Integers, FiniteSets

CONSTANTS
  Worker,         \* processes that create an Rpc
  RpcId,          \* the rpc_ids they ask for
  Slots,          \* kMaxRpcEndpoints, the number of registry entries
  Capacity,       \* how many endpoints' storage fits in the region
  NoWorker, NoRpcId,
  Validator,      \* threads of other machines inside validate_endpoint
  MaxGeneration,  \* bound: a registry entry is not reused more often than this
  MaxHandles,     \* bound: endpoints registered altogether
  MaxBlocks       \* bound: blocks of one arena in use at a time

ASSUME SlotsAssumption == Slots \in Nat \ {0} /\ Capacity \in Nat
ASSUME NoneAssumption == NoWorker \notin Worker /\ NoRpcId \notin RpcId
ASSUME BoundAssumption ==
  MaxGeneration \in Nat /\ MaxHandles \in Nat /\ MaxBlocks \in Nat

VARIABLES
  state, rpc_id, process_id, generation, storage,  \* the entries, by slot
  next_free,       \* the first unit of storage not yet assigned
  active_blocks,   \* by unit of storage
  manager,         \* what the manager does, for whom, on which slot
  conn,            \* each worker's connection to the manager
  request,         \* the message a worker sends over it
  handle,          \* the endpoint each worker's transport has
  published,       \* every handle that was given to a worker
  vpc, vhandle,    \* validate_endpoint: what it has read, of which handle
  was_active       \* (history) the handle was active when the call began

entries == <<state, rpc_id, process_id, generation, storage>>
arenas == <<next_free, active_blocks>>
workers == <<conn, request, handle>>
validators == <<vpc, vhandle, was_active>>
vars == <<entries, arenas, manager, workers, published, validators>>

Slot == 1 .. Slots
Unit == 1 .. Capacity
NoUnit == 0
NoHandle == [slot |-> 0, rpc_id |-> NoRpcId, generation |-> 0, storage |-> NoUnit]
Handle == [slot : Slot, rpc_id : RpcId, generation : 1 .. MaxGeneration, storage : Unit]
Accepting == [phase |-> "accept", who |-> NoWorker, slot |-> 0]
Request == [op : {"none", "register", "unregister"}, rpc_id : RpcId \cup {NoRpcId},
            handle : Handle \cup {NoHandle}]
Conn == {"none", "connected", "sent", "granted", "refused", "done", "closed", "orphan", "dead"}
Nothing == [op |-> "none", rpc_id |-> NoRpcId, handle |-> NoHandle]

\* The owner has zeroed the metadata of the region.
Init ==
  /\ state = [s \in Slot |-> "free"]
  /\ rpc_id = [s \in Slot |-> NoRpcId]
  /\ process_id = [s \in Slot |-> NoWorker]
  /\ generation = [s \in Slot |-> 0]
  /\ storage = [s \in Slot |-> NoUnit]
  /\ next_free = 1
  /\ active_blocks = [u \in Unit |-> 0]
  /\ manager = Accepting
  /\ conn = [w \in Worker |-> "none"]
  /\ request = [w \in Worker |-> Nothing]
  /\ handle = [w \in Worker |-> NoHandle]
  /\ published = {}
  /\ vpc = [v \in Validator |-> "idle"]
  /\ vhandle = [v \in Validator |-> NoHandle]
  /\ was_active = [v \in Validator |-> FALSE]

HandleOf(s) == [slot |-> s, rpc_id |-> rpc_id[s],
                generation |-> generation[s], storage |-> storage[s]]
IsActive(h) == state[h.slot] = "active" /\ HandleOf(h.slot) = h

-----------------------------------------------------------------------------
\* The workers

\* manager_request: connect, then send.  A worker without an endpoint asks
\* for one, a worker that destroys its transport gives its own back.
Connect(w) ==
  /\ conn[w] = "none"
  /\ \/ /\ handle[w] = NoHandle
        /\ \E r \in RpcId :
             request' = [request EXCEPT ![w] = [Nothing EXCEPT !.op = "register", !.rpc_id = r]]
     \/ /\ handle[w] # NoHandle
        /\ request' = [request EXCEPT ![w] = [op |-> "unregister",
                         rpc_id |-> handle[w].rpc_id, handle |-> handle[w]]]
  /\ conn' = [conn EXCEPT ![w] = "connected"]
  /\ UNCHANGED <<entries, arenas, manager, handle, published, validators>>

SendRequest(w) ==
  /\ conn[w] = "connected"
  /\ conn' = [conn EXCEPT ![w] = "sent"]
  /\ UNCHANGED <<entries, arenas, manager, request, handle, published, validators>>

Forget(w) ==
  /\ conn' = [conn EXCEPT ![w] = "none"]
  /\ request' = [request EXCEPT ![w] = Nothing]

\* manager_register returns the endpoint of a good response.
Registered(w) ==
  /\ conn[w] = "granted"
  /\ handle' = [handle EXCEPT ![w] = request[w].handle]
  /\ Forget(w)
  /\ UNCHANGED <<entries, arenas, manager, published, validators>>

\* The manager's configuration is not the worker's: give the endpoint back.
Mismatch(w) ==
  /\ conn[w] = "granted"
  /\ conn' = [conn EXCEPT ![w] = "connected"]
  /\ request' = [request EXCEPT ![w].op = "unregister"]
  /\ UNCHANGED <<entries, arenas, manager, handle, published, validators>>

\* A refusal, or a connection the manager closed: registration throws, and
\* unregistration is only logged; the transport is gone either way.
Finished(w) ==
  /\ conn[w] \in {"refused", "done", "closed"}
  /\ handle' = [handle EXCEPT ![w] = NoHandle]
  /\ Forget(w)
  /\ UNCHANGED <<entries, arenas, manager, published, validators>>

\* The process dies; the blocks of its arena stay as they are.  What it has
\* sent can still be received.  Another process takes its place, but not before
\* the manager is done with the old connection.
Crash(w) ==
  /\ conn[w] \notin {"orphan", "dead"}
  /\ handle' = [handle EXCEPT ![w] = NoHandle]
  /\ IF conn[w] \in {"connected", "sent"}
       THEN /\ conn' = [conn EXCEPT ![w] = IF @ = "sent" THEN "orphan" ELSE "dead"]
            /\ UNCHANGED request
       ELSE Forget(w)
  /\ UNCHANGED <<entries, arenas, manager, published, validators>>

\* The worker allocates only while its transport exists; anybody may drop the
\* last reference to a block, at any time.
UseBlock(w) ==
  /\ handle[w] # NoHandle
  /\ conn[w] = "none"
  /\ active_blocks[handle[w].storage] < MaxBlocks
  /\ active_blocks' = [active_blocks EXCEPT ![handle[w].storage] = @ + 1]
  /\ UNCHANGED <<entries, next_free, manager, workers, published, validators>>

ReleaseBlock(u) ==
  /\ active_blocks[u] > 0
  /\ active_blocks' = [active_blocks EXCEPT ![u] = @ - 1]
  /\ UNCHANGED <<entries, next_free, manager, workers, published, validators>>

-----------------------------------------------------------------------------
\* The manager

Accept(w) ==
  /\ manager.phase = "accept"
  /\ conn[w] \in {"connected", "sent", "orphan", "dead"}
  /\ manager' = [phase |-> "receive", who |-> w, slot |-> 0]
  /\ UNCHANGED <<entries, arenas, workers, published, validators>>

\* Mutant of DropClient: only a client that is gone is given up, the receive
\* timeout is missing.
DropDeadClient ==
  /\ manager.phase = "receive"
  /\ conn[manager.who] = "dead"
  /\ Forget(manager.who)
  /\ manager' = Accepting
  /\ UNCHANGED <<entries, arenas, handle, published, validators>>

\* receive_all fails: the client is gone, or sent nothing for five seconds.
DropClient ==
  /\ manager.phase = "receive"
  /\ \/ conn[manager.who] = "dead" /\ Forget(manager.who)
     \/ /\ conn[manager.who] = "connected"
        /\ conn' = [conn EXCEPT ![manager.who] = "closed"]
        /\ UNCHANGED request
  /\ manager' = Accepting
  /\ UNCHANGED <<entries, arenas, handle, published, validators>>

\* The response is lost if the worker died meanwhile.
Respond(w, answer, h) ==
  IF conn[w] = "sent"
    THEN /\ conn' = [conn EXCEPT ![w] = answer]
         /\ request' = [request EXCEPT ![w].handle = h]
    ELSE Forget(w)

Receiving(op) ==
  /\ manager.phase = "receive"
  /\ conn[manager.who] \in {"sent", "orphan"}
  /\ request[manager.who].op = op

\* Mutant of Free: an entry whose arena is quiet is taken for free.
FreeOrQuiet ==
  {s \in Slot : state[s] = "free" \/ active_blocks[storage[s]] = 0}

Free == {s \in Slot : state[s] = "free"}

\* Mutant of FirstFree: an entry without storage is preferred.
FreshFree(s) ==
  LET fresh == {t \in Free : storage[t] = NoUnit}
  IN s \in Free /\ (fresh = {} \/ s \in fresh)

FirstFree(s) == s \in Free /\ \A t \in Free : s <= t

\* Mutant of Duplicate: only the entries of the worker's own process are searched.
DuplicateInProcess(r) ==
  \E s \in Slot : state[s] = "active" /\ rpc_id[s] = r /\ process_id[s] = manager.who

Duplicate(r) == \E s \in Slot : state[s] = "active" /\ rpc_id[s] = r

NoSpace(s) == storage[s] = NoUnit /\ next_free > Capacity
WornOut(s) == generation[s] = MaxGeneration \/ Cardinality(published) = MaxHandles

\* register_endpoint throws: the rpc_id is registered, the registry is full, or
\* a new entry finds no room in the region.  (At the bounds MaxGeneration and
\* MaxHandles the model refuses, not the code.)
RejectRegistration ==
  /\ Receiving("register")
  /\ \/ Duplicate(request[manager.who].rpc_id)
     \/ Free = {}
     \/ \E s \in Slot : FirstFree(s) /\ (NoSpace(s) \/ WornOut(s))
  /\ Respond(manager.who, "refused", NoHandle)
  /\ manager' = Accepting
  /\ UNCHANGED <<entries, arenas, handle, published, validators>>

\* Mutant of FillSlot: an entry that is reused keeps its generation.
FillSlotSameGeneration(w, s) ==
  /\ ~Duplicate(request[w].rpc_id)
  /\ FirstFree(s) /\ ~NoSpace(s) /\ ~WornOut(s)
  /\ storage' = [storage EXCEPT ![s] = IF @ = NoUnit THEN next_free ELSE @]
  /\ next_free' = IF storage[s] = NoUnit THEN next_free + 1 ELSE next_free
  /\ active_blocks' = [active_blocks EXCEPT ![storage'[s]] = 0]
  /\ generation' = [generation EXCEPT ![s] = IF @ = 0 THEN 1 ELSE @]
  /\ process_id' = [process_id EXCEPT ![s] = w]
  /\ rpc_id' = [rpc_id EXCEPT ![s] = request[w].rpc_id]
  /\ manager' = [phase |-> "activate", who |-> w, slot |-> s]

\* register_endpoint up to the fence: find an entry, give it storage if it has
\* none, initialise inbox and arena, fill the entry in.
FillSlot(w, s) ==
  /\ ~Duplicate(request[w].rpc_id)
  /\ FirstFree(s) /\ ~NoSpace(s) /\ ~WornOut(s)
  /\ storage' = [storage EXCEPT ![s] = IF @ = NoUnit THEN next_free ELSE @]
  /\ next_free' = IF storage[s] = NoUnit THEN next_free + 1 ELSE next_free
  /\ active_blocks' = [active_blocks EXCEPT ![storage'[s]] = 0]
  /\ generation' = [generation EXCEPT ![s] = @ + 1]
  /\ process_id' = [process_id EXCEPT ![s] = w]
  /\ rpc_id' = [rpc_id EXCEPT ![s] = request[w].rpc_id]
  /\ manager' = [phase |-> "activate", who |-> w, slot |-> s]

FillEntry ==
  /\ Receiving("register")
  /\ \E s \in Slot : FillSlot(manager.who, s)
  /\ UNCHANGED <<state, workers, published, validators>>

\* The store that makes the entry active, and the response.
Activate ==
  /\ manager.phase = "activate"
  /\ state' = [state EXCEPT ![manager.slot] = "active"]
  /\ Respond(manager.who, "granted", HandleOf(manager.slot))
  /\ published' = published \cup {HandleOf(manager.slot)}
  /\ manager' = Accepting
  /\ UNCHANGED <<rpc_id, process_id, generation, storage, arenas, handle, validators>>

MayUnregister(w, h) ==
  /\ process_id[h.slot] = w
  /\ generation[h.slot] = h.generation
  /\ storage[h.slot] = h.storage
  /\ active_blocks[h.storage] = 0

\* unregister_endpoint, and the response.
Unregister ==
  /\ Receiving("unregister")
  /\ LET w == manager.who
         h == request[w].handle
     IN /\ state' = IF MayUnregister(w, h) THEN [state EXCEPT ![h.slot] = "free"] ELSE state
        /\ Respond(w, IF MayUnregister(w, h) THEN "done" ELSE "refused", h)
  /\ manager' = Accepting
  /\ UNCHANGED <<rpc_id, process_id, generation, storage, arenas, handle,
                 published, validators>>

-----------------------------------------------------------------------------
\* validate_endpoint on another machine, of a handle it learned from its owner

\* The entry is active (otherwise the call returns false, and nothing has changed).
BeginValidate(v) ==
  /\ vpc[v] = "idle"
  /\ \E h \in published :
       /\ state[h.slot] = "active"
       /\ vhandle' = [vhandle EXCEPT ![v] = h]
       /\ was_active' = [was_active EXCEPT ![v] = IsActive(h)]
  /\ vpc' = [vpc EXCEPT ![v] = "active"]
  /\ UNCHANGED <<entries, arenas, manager, workers, published>>

Returned(v) ==
  /\ vpc' = [vpc EXCEPT ![v] = "idle"]
  /\ vhandle' = [vhandle EXCEPT ![v] = NoHandle]
  /\ was_active' = [was_active EXCEPT ![v] = FALSE]

\* Mutant of CompareEntry: the generation is not compared.
CompareEntryNoGeneration(v) ==
  /\ vpc[v] = "active"
  /\ IF [HandleOf(vhandle[v].slot) EXCEPT !.generation = vhandle[v].generation] = vhandle[v]
       THEN vpc' = [vpc EXCEPT ![v] = "valid"] /\ UNCHANGED <<vhandle, was_active>>
       ELSE Returned(v)
  /\ UNCHANGED <<entries, arenas, manager, workers, published>>

\* The plain loads after the acquire load of the state, as one step: an entry that is
\* being filled in has a generation nobody was given yet, so a half-written one
\* compares unequal like a whole one.
CompareEntry(v) ==
  /\ vpc[v] = "active"
  /\ IF HandleOf(vhandle[v].slot) = vhandle[v]
       THEN vpc' = [vpc EXCEPT ![v] = "valid"] /\ UNCHANGED <<vhandle, was_active>>
       ELSE Returned(v)
  /\ UNCHANGED <<entries, arenas, manager, workers, published>>

EndValidate(v) ==
  /\ vpc[v] = "valid"
  /\ Returned(v)
  /\ UNCHANGED <<entries, arenas, manager, workers, published>>

ManagerStep ==
  DropClient \/ RejectRegistration \/ FillEntry \/ Activate \/ Unregister

WorkerStep(w) ==
  Connect(w) \/ SendRequest(w) \/ Registered(w) \/ Mismatch(w) \/ Finished(w)

Next ==
  \/ ManagerStep
  \/ \E w \in Worker : WorkerStep(w) \/ Crash(w) \/ UseBlock(w) \/ Accept(w)
  \/ \E u \in Unit : ReleaseBlock(u)
  \/ \E v \in Validator : BeginValidate(v) \/ CompareEntry(v) \/ EndValidate(v)

Spec == Init /\ [][Next]_vars

\* The manager's loop runs; the listen queue is served in order, so a worker
\* that waits is accepted.  Every such step changes what the manager does.
FairSpec ==
  Spec /\ WF_manager(ManagerStep) /\ \A w \in Worker : SF_manager(Accept(w))

-----------------------------------------------------------------------------
\* Properties

\* The registry, the manager and the workers stay within their types; in particular
\* no endpoint is given storage beyond the end of the region.
TypeOK ==
  /\ state \in [Slot -> {"free", "active"}]
  /\ rpc_id \in [Slot -> RpcId \cup {NoRpcId}]
  /\ process_id \in [Slot -> Worker \cup {NoWorker}]
  /\ generation \in [Slot -> 0 .. MaxGeneration]
  /\ storage \in [Slot -> Unit \cup {NoUnit}]
  /\ next_free \in 1 .. Capacity + 1
  /\ active_blocks \in [Unit -> 0 .. MaxBlocks]
  /\ manager \in [phase : {"accept", "receive", "activate"},
                  who : Worker \cup {NoWorker}, slot : Slot \cup {0}]
  /\ conn \in [Worker -> Conn]
  /\ request \in [Worker -> Request]
  /\ handle \in [Worker -> Handle \cup {NoHandle}]
  /\ published \subseteq Handle
  /\ vpc \in [Validator -> {"idle", "active", "valid"}]
  /\ vhandle \in [Validator -> Handle \cup {NoHandle}]
  /\ was_active \in [Validator -> BOOLEAN]

\* Two active entries never have the same rpc_id or the same storage: an inbox
\* and an arena belong to one endpoint, whoever died or was refused before.
EndpointsDistinct ==
  \A s, t \in Slot : s # t /\ state[s] = "active" =>
    /\ storage[s] # NoUnit /\ storage[s] # storage[t]
    /\ state[t] = "active" => rpc_id[s] # rpc_id[t]

\* A worker's transport runs on an entry that is active in its own
\* incarnation, until the worker itself asks to unregister it.
HandleIsLive ==
  \A w \in Worker :
    handle[w] # NoHandle /\ conn[w] # "done" =>
      IsActive(handle[w]) /\ process_id[handle[w].slot] = w

\* register_endpoint re-initialises the arena of an entry only when no block of
\* it is in use: an entry that is free has a quiet arena.
FreeArenaIsQuiet ==
  \A s \in Slot : state[s] = "free" /\ storage[s] # NoUnit =>
    active_blocks[storage[s]] = 0

\* "No space for another endpoint" is only said when every endpoint whose
\* storage was ever assigned is active: first-fit never passes over an entry
\* that could be reused.
RefusedOnlyWhenFull ==
  (\E s \in Slot : FirstFree(s) /\ NoSpace(s)) =>
    Cardinality({s \in Slot : state[s] = "active"}) = Capacity

\* validate_endpoint, although it reads the state and the rest of the entry at
\* different times, says yes only if the endpoint was active, in the incarnation
\* of the handle, while it was called.
ValidateIsSound ==
  \A v \in Validator : vpc[v] = "valid" => was_active[v]

\* An endpoint that is not active any more never becomes active again: the
\* handle of an old incarnation stays dead when its entry is reused.
NeverRevived ==
  [][\A h \in published : ~IsActive(h) => ~IsActive(h)']_vars

\* A worker that sent its request is answered (or dies): the manager's timeout
\* keeps a client that sends nothing from blocking the others.
RequestAnswered ==
  \A w \in Worker : (conn[w] = "sent") ~> (conn[w] # "sent")

-----------------------------------------------------------------------------
\* The inductive invariant

\* h is worker w's, and its entry is active in the incarnation of h.
Live(h, w) == h \in Handle /\ IsActive(h) /\ process_id[h.slot] = w

\* Storage that was assigned belongs to one entry for ever, active entries have storage
\* and differ in their rpc_ids, and free ones are quiet.
EntriesApart ==
  /\ \A s \in Slot :
       /\ storage[s] < next_free
       /\ state[s] = "active" => storage[s] # NoUnit
  /\ EndpointsDistinct
  /\ \A s, t \in Slot : s # t /\ storage[s] # NoUnit => storage[s] # storage[t]
  /\ FreeArenaIsQuiet

\* First-fit assigns the storage in the order of the entries.
StorageInOrder == \A s \in Slot : storage[s] = IF s < next_free THEN s ELSE NoUnit

\* The manager works for a worker that waits for it, or waited and died; between the
\* two halves of register_endpoint the entry is complete and still free.
ManagerWaitedFor ==
  LET w == manager.who
      s == manager.slot
  IN /\ manager.phase # "accept" => w \in Worker
     /\ manager.phase = "receive" => conn[w] \in {"connected", "sent", "orphan", "dead"}
     /\ manager.phase = "activate" =>
          /\ conn[w] \in {"sent", "orphan"}
          /\ request[w].op = "register"
          /\ s \in Free /\ HandleOf(s) \in Handle /\ process_id[s] = w
          /\ ~Duplicate(rpc_id[s])

\* What a worker holds, or was granted and has not taken yet, is live; while it asks to
\* give it back, the request names it.
OwnsEndpoint(w) ==
  /\ conn[w] # "none" => request[w].op # "none"
  /\ request[w].op = "register" => request[w].rpc_id \in RpcId
  /\ request[w].op = "unregister" => request[w].handle \in Handle
  /\ conn[w] = "granted" => request[w].op = "register" /\ Live(request[w].handle, w)
  /\ handle[w] # NoHandle =>
       /\ conn[w] \in {"none", "connected", "sent", "refused", "done", "closed"}
       /\ conn[w] # "none" => request[w].op = "unregister" /\ request[w].handle = handle[w]
       /\ conn[w] # "done" => Live(handle[w], w)
WorkersOwn == \A w \in Worker : OwnsEndpoint(w)

\* A handle that was given out is the current incarnation of its entry or older than it,
\* and a validation that began with an old one can only find a still newer entry.
PublishedIsPast ==
  /\ \A h \in published :
       /\ h.generation <= generation[h.slot]
       /\ h.generation = generation[h.slot] =>
            HandleOf(h.slot) = h /\ ~(manager.phase = "activate" /\ manager.slot = h.slot)
  /\ \A v \in Validator : vpc[v] # "idle" => vhandle[v] \in published
  /\ \A v \in Validator : vpc[v] = "active" /\ ~was_active[v] =>
       vhandle[v].generation < generation[vhandle[v].slot]
  /\ ValidateIsSound

\* All of it together: what register_endpoint, unregister_endpoint, the manager's loop
\* and its clients keep true of the registry between any two steps.
IInv ==
  /\ TypeOK /\ EntriesApart /\ StorageInOrder
  /\ ManagerWaitedFor /\ WorkersOwn /\ PublishedIsPast
=============================================================================
