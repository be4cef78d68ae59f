------------------------ MODULE EndpointRegistryProofs ------------------------
(***************************************************************************)
(* Proofs about EndpointRegistry, for any number of workers, rpc_ids,      *)
(* entries, units of storage and validating threads: the invariant IInv is *)
(* inductive (first types, entries and storage, then the manager at work   *)
(* and what the workers own, then the handles given out), and with it the  *)
(* endpoints are distinct, a worker's endpoint stays its own, a free arena *)
(* is quiet, no space is refused that could be reused, validate_endpoint   *)
(* is sound and no old handle comes back to life.                          *)
(***************************************************************************)
EXTENDS FiniteSetTheorems, EndpointRegistry, TLAPS

USE ZenonT(30)

-----------------------------------------------------------------------------
\* Types, entries and storage

\* The handles a worker can be given have the fields of a registry entry, and none of
\* them is the handle of a worker without an endpoint.
LEMMA HandleFacts ==
  /\ NoHandle \notin Handle
  /\ \A h \in Handle :
       /\ h.slot \in Slot /\ h.rpc_id \in RpcId
       /\ h.generation \in 1 .. MaxGeneration /\ h.storage \in Unit
  /\ NoUnit \notin Unit
BY SlotsAssumption, SMTT(20) DEF Handle, NoHandle, Slot, Unit, NoUnit

\* The entry of a live handle, field by field.
LEMMA LiveFacts ==
  ASSUME NEW h, NEW w, Live(h, w)
  PROVE  /\ h \in Handle /\ h.slot \in Slot /\ h.rpc_id \in RpcId
         /\ h.generation \in 1 .. MaxGeneration /\ h.storage \in Unit
         /\ state[h.slot] = "active" /\ process_id[h.slot] = w
         /\ rpc_id[h.slot] = h.rpc_id /\ generation[h.slot] = h.generation
         /\ storage[h.slot] = h.storage
<1>1. h \in Handle /\ HandleOf(h.slot) = h
  BY DEF Live, IsActive
<1>2. /\ rpc_id[h.slot] = h.rpc_id /\ generation[h.slot] = h.generation
      /\ storage[h.slot] = h.storage
  BY <1>1, SMTT(20) DEF HandleOf
<1>3. QED
  BY <1>1, <1>2, HandleFacts DEF Live, IsActive

\* What register_endpoint does to the entries: it fills in a free one, with storage of
\* its own and a new generation, and leaves all others alone.
LEMMA FillFacts ==
  ASSUME TypeOK, NEW s \in Slot, NEW w, FillSlot(w, s)
  PROVE  /\ state[s] = "free"
         /\ storage'[s] = IF storage[s] = NoUnit THEN next_free ELSE storage[s]
         /\ storage'[s] \in Unit
         /\ next_free' = IF storage[s] = NoUnit THEN next_free + 1 ELSE next_free
         /\ next_free' \in 1 .. Capacity + 1
         /\ generation'[s] = generation[s] + 1 /\ generation'[s] \in 1 .. MaxGeneration
         /\ process_id'[s] = w /\ rpc_id'[s] = request[w].rpc_id
         /\ \A t \in Slot \ {s} : storage'[t] = storage[t] /\ generation'[t] = generation[t]
         /\ \A t \in Slot \ {s} : process_id'[t] = process_id[t] /\ rpc_id'[t] = rpc_id[t]
         /\ manager'.phase = "activate" /\ manager'.who = w /\ manager'.slot = s
<1> USE SlotsAssumption, BoundAssumption
<1>1. state[s] = "free" /\ ~NoSpace(s) /\ ~WornOut(s)
  BY DEF FillSlot, FirstFree, Free
<1>2. /\ storage' = [storage EXCEPT ![s] = IF @ = NoUnit THEN next_free ELSE @]
      /\ next_free' = IF storage[s] = NoUnit THEN next_free + 1 ELSE next_free
      /\ generation' = [generation EXCEPT ![s] = @ + 1]
      /\ process_id' = [process_id EXCEPT ![s] = w]
      /\ rpc_id' = [rpc_id EXCEPT ![s] = request[w].rpc_id]
      /\ manager' = [phase |-> "activate", who |-> w, slot |-> s]
  BY DEF FillSlot
<1>3. /\ storage \in [Slot -> Unit \cup {NoUnit}] /\ next_free \in 1 .. Capacity + 1
      /\ generation \in [Slot -> 0 .. MaxGeneration]
      /\ process_id \in [Slot -> Worker \cup {NoWorker}]
      /\ rpc_id \in [Slot -> RpcId \cup {NoRpcId}]
  BY DEF TypeOK
<1>4. storage'[s] = IF storage[s] = NoUnit THEN next_free ELSE storage[s]
  BY <1>2, <1>3
<1>5. storage'[s] \in Unit /\ next_free' \in 1 .. Capacity + 1
  BY <1>1, <1>2, <1>3, <1>4, SMTT(20) DEF NoSpace, Unit
<1>6. generation'[s] = generation[s] + 1 /\ generation'[s] \in 1 .. MaxGeneration
  BY <1>1, <1>2, <1>3, SMTT(20) DEF WornOut
<1>7. process_id'[s] = w /\ rpc_id'[s] = request[w].rpc_id
  BY <1>2, <1>3
<1>8. \A t \in Slot \ {s} : storage'[t] = storage[t] /\ generation'[t] = generation[t]
  BY <1>2, <1>3
<1>9. \A t \in Slot \ {s} : process_id'[t] = process_id[t] /\ rpc_id'[t] = rpc_id[t]
  BY <1>2, <1>3
<1>10. QED
  BY <1>1, <1>2, <1>4, <1>5, <1>6, <1>7, <1>8, <1>9

\* The freshly initialised region satisfies the invariant.
LEMMA InitIInv == Init => IInv
<1> SUFFICES ASSUME Init PROVE IInv
  OBVIOUS
<1> USE SlotsAssumption, NoneAssumption, BoundAssumption
<1>1. TypeOK
  BY SMTT(20) DEF Init, TypeOK, Slot, Unit, NoUnit, Nothing, NoHandle, Accepting, Request, Conn
<1>2. EntriesApart
  BY SMTT(20) DEF Init, EntriesApart, EndpointsDistinct, FreeArenaIsQuiet, NoUnit, Slot
<1>3. ManagerWaitedFor
  BY DEF Init, ManagerWaitedFor, Accepting
<1>4. WorkersOwn
  BY DEF Init, WorkersOwn, OwnsEndpoint, Nothing
<1>5. PublishedIsPast
  BY DEF Init, PublishedIsPast, ValidateIsSound
<1>6. StorageInOrder
  BY SMTT(20) DEF Init, StorageInOrder, Slot, NoUnit
<1>7. QED
  BY <1>1, <1>2, <1>3, <1>4, <1>5, <1>6 DEF IInv

-----------------------------------------------------------------------------

\* A request keeps its type when the worker or the manager changes one field of it.
LEMMA RequestFacts ==
  /\ Nothing \in Request
  /\ \A rpc \in RpcId : [Nothing EXCEPT !.op = "register", !.rpc_id = rpc] \in Request
  /\ \A h \in Handle :
       [op |-> "unregister", rpc_id |-> h.rpc_id, handle |-> h] \in Request
  /\ \A r \in Request : [r EXCEPT !.op = "unregister"] \in Request
  /\ \A r \in Request, h \in Handle \cup {NoHandle} : [r EXCEPT !.handle = h] \in Request
BY HandleFacts DEF Request, Nothing

\* The manager's answer, and the end of a connection, keep the types of both ends.
LEMMA ConnectionTypes ==
  ASSUME conn \in [Worker -> Conn], request \in [Worker -> Request], NEW w \in Worker,
         NEW answer \in Conn, NEW h \in Handle \cup {NoHandle},
         Forget(w) \/ Respond(w, answer, h)
  PROVE  conn' \in [Worker -> Conn] /\ request' \in [Worker -> Request]
<1>1. CASE Forget(w)
  BY <1>1, RequestFacts DEF Forget, Conn
<1>2. CASE Respond(w, answer, h)
  <2>1. [request[w] EXCEPT !.handle = h] \in Request
    BY RequestFacts
  <2>2. QED
    BY <1>1, <1>2, <2>1 DEF Respond
<1>3. QED
  BY <1>1, <1>2

\* Every step of a worker, the manager or a validating thread keeps the variables in
\* their types.
LEMMA TypeStep == IInv /\ [Next]_vars => TypeOK'
<1> SUFFICES ASSUME IInv, [Next]_vars PROVE TypeOK'
  OBVIOUS
<1> USE SlotsAssumption, NoneAssumption, BoundAssumption, HandleFacts
<1>1. TypeOK /\ ManagerWaitedFor /\ WorkersOwn /\ PublishedIsPast
  BY DEF IInv
<1>a. Accepting \in [phase : {"accept", "receive", "activate"},
                      who : Worker \cup {NoWorker}, slot : Slot \cup {0}]
  BY DEF Accepting
<1> USE DEF TypeOK
<1>2. CASE UNCHANGED vars
  BY <1>1, <1>2 DEF vars, entries, arenas, workers, validators
<1>3. ASSUME NEW w \in Worker, Connect(w) PROVE TypeOK'
  <2>1. request' \in [Worker -> Request]
    <3>1. CASE handle[w] = NoHandle
      <4>1. PICK r \in RpcId : request' = [request EXCEPT ![w] =
                                 [Nothing EXCEPT !.op = "register", !.rpc_id = r]]
        BY <1>3, <3>1 DEF Connect
      <4>2. [Nothing EXCEPT !.op = "register", !.rpc_id = r] \in Request
        BY RequestFacts
      <4>3. QED
        BY <1>1, <4>1, <4>2
    <3>2. CASE handle[w] # NoHandle
      <4>1. [op |-> "unregister", rpc_id |-> handle[w].rpc_id, handle |-> handle[w]] \in Request
        BY <1>1, <3>2, RequestFacts
      <4>2. QED
        BY <1>1, <1>3, <3>2, <4>1 DEF Connect
    <3>3. QED
      BY <3>1, <3>2
  <2>2. QED
    BY <1>1, <1>3, <2>1 DEF Connect, Conn, entries, arenas, validators
<1>4. ASSUME NEW w \in Worker, SendRequest(w) PROVE TypeOK'
  BY <1>1, <1>4 DEF SendRequest, Conn, entries, arenas, validators
<1>5. ASSUME NEW w \in Worker, Registered(w) PROVE TypeOK'
  <2>1. request[w].handle \in Handle
    BY <1>1, <1>5 DEF Registered, WorkersOwn, OwnsEndpoint, Live
  <2>2. QED
    BY <1>1, <1>5, <2>1, ConnectionTypes DEF Registered, Conn, entries, arenas, validators
<1>6. ASSUME NEW w \in Worker, Mismatch(w) PROVE TypeOK'
  <2>1. request' \in [Worker -> Request]
    BY <1>1, <1>6, RequestFacts DEF Mismatch
  <2>2. QED
    BY <1>1, <1>6, <2>1 DEF Mismatch, Conn, entries, arenas, validators
<1>7. ASSUME NEW w \in Worker, Finished(w) PROVE TypeOK'
  BY <1>1, <1>7, ConnectionTypes DEF Finished, Conn, entries, arenas, validators
<1>8. ASSUME NEW w \in Worker, Crash(w) PROVE TypeOK'
  <2>1. conn' \in [Worker -> Conn] /\ request' \in [Worker -> Request]
    BY <1>1, <1>8, ConnectionTypes DEF Crash, Conn
  <2>2. QED
    BY <1>1, <1>8, <2>1 DEF Crash, entries, arenas, validators
<1>9. ASSUME NEW w \in Worker, UseBlock(w) PROVE TypeOK'
  BY <1>1, <1>9, SMTT(20) DEF UseBlock, entries, workers, validators
<1>10. ASSUME NEW u \in Unit, ReleaseBlock(u) PROVE TypeOK'
  BY <1>1, <1>10, SMTT(20) DEF ReleaseBlock, entries, workers, validators
<1>11. ASSUME NEW w \in Worker, Accept(w) PROVE TypeOK'
  BY <1>1, <1>11 DEF Accept, entries, arenas, workers, validators
<1>12. CASE DropClient
  <2>1. manager.who \in Worker
    BY <1>1, <1>12 DEF DropClient, ManagerWaitedFor
  <2>2. conn' \in [Worker -> Conn] /\ request' \in [Worker -> Request]
    BY <1>1, <1>12, <2>1, ConnectionTypes, SMTT(20) DEF DropClient, Conn
  <2>3. QED
    BY <1>1, <1>a, <1>12, <2>2 DEF DropClient, entries, arenas, validators
<1>13. CASE RejectRegistration
  <2>1. manager.who \in Worker
    BY <1>1, <1>13 DEF RejectRegistration, Receiving, ManagerWaitedFor
  <2>2. conn' \in [Worker -> Conn] /\ request' \in [Worker -> Request]
    <3>1. Respond(manager.who, "refused", NoHandle)
      BY <1>13 DEF RejectRegistration
    <3>2. "refused" \in Conn
      BY DEF Conn
    <3>3. QED
      BY <1>1, <2>1, <3>1, <3>2, ConnectionTypes
  <2>3. QED
    BY <1>1, <1>a, <1>13, <2>2 DEF RejectRegistration, entries, arenas, validators
<1>14. CASE FillEntry
  <2>1. PICK s \in Slot : FillSlot(manager.who, s)
    BY <1>14 DEF FillEntry
  <2> DEFINE w == manager.who
  <2>2. w \in Worker /\ request[w].rpc_id \in RpcId
    BY <1>1, <1>14 DEF FillEntry, Receiving, ManagerWaitedFor, WorkersOwn, OwnsEndpoint
  <2>3. storage' \in [Slot -> Unit \cup {NoUnit}] /\ storage'[s] \in Unit
    <3>1. storage'[s] \in Unit
      BY <1>1, <2>1, FillFacts
    <3>2. \E u : storage' = [storage EXCEPT ![s] = u]
      BY <2>1 DEF FillSlot
    <3>3. storage \in [Slot -> Unit \cup {NoUnit}]
      BY <1>1
    <3>4. QED
      BY <3>1, <3>2, <3>3
  <2>4. next_free' \in 1 .. Capacity + 1
    BY <1>1, <2>1, FillFacts
  <2>5. active_blocks' \in [Unit -> 0 .. MaxBlocks]
    <3>1. active_blocks' = [active_blocks EXCEPT ![storage'[s]] = 0]
      BY <2>1 DEF FillSlot
    <3>2. active_blocks \in [Unit -> 0 .. MaxBlocks] /\ 0 \in 0 .. MaxBlocks
      BY <1>1, SMTT(20)
    <3>3. QED
      BY <2>3, <3>1, <3>2
  <2>6. generation' \in [Slot -> 0 .. MaxGeneration]
    <3>1. generation' = [generation EXCEPT ![s] = generation[s] + 1]
      BY <2>1 DEF FillSlot
    <3>2. generation \in [Slot -> 0 .. MaxGeneration]
      BY <1>1
    <3>3. generation[s] + 1 \in 0 .. MaxGeneration
      BY <1>1, <2>1, FillFacts, SMTT(20)
    <3>4. QED
      BY <3>1, <3>2, <3>3
  <2>7. /\ process_id' \in [Slot -> Worker \cup {NoWorker}]
        /\ rpc_id' \in [Slot -> RpcId \cup {NoRpcId}]
    BY <1>1, <2>1, <2>2 DEF FillSlot
  <2>8. manager' \in [phase : {"accept", "receive", "activate"},
                      who : Worker \cup {NoWorker}, slot : Slot \cup {0}]
    BY <2>1, <2>2 DEF FillSlot
  <2>9. QED
    BY <1>1, <1>14, <2>3, <2>4, <2>5, <2>6, <2>7, <2>8 DEF FillEntry, workers, validators
<1>15. CASE Activate
  <2>1. manager.who \in Worker /\ manager.slot \in Slot /\ HandleOf(manager.slot) \in Handle
    BY <1>1, <1>15 DEF Activate, ManagerWaitedFor, Free
  <2>2. conn' \in [Worker -> Conn] /\ request' \in [Worker -> Request]
    <3>1. Respond(manager.who, "granted", HandleOf(manager.slot))
      BY <1>15 DEF Activate
    <3>2. "granted" \in Conn
      BY DEF Conn
    <3>3. QED
      BY <1>1, <2>1, <3>1, <3>2, ConnectionTypes
  <2>3. QED
    BY <1>1, <1>a, <1>15, <2>1, <2>2 DEF Activate, arenas, validators
<1>16. CASE Unregister
  <2> DEFINE h == request[manager.who].handle
  <2>1. manager.who \in Worker /\ h \in Handle
    BY <1>1, <1>16 DEF Unregister, Receiving, ManagerWaitedFor, WorkersOwn, OwnsEndpoint
  <2>2. conn' \in [Worker -> Conn] /\ request' \in [Worker -> Request]
    <3>1. PICK answer \in {"done", "refused"} : Respond(manager.who, answer, h)
      BY <1>16 DEF Unregister
    <3>2. answer \in Conn
      BY DEF Conn
    <3>3. QED
      BY <1>1, <2>1, <3>1, <3>2, ConnectionTypes
  <2>3. state' \in [Slot -> {"free", "active"}]
    BY <1>1, <1>16, <2>1, HandleFacts DEF Unregister
  <2>4. QED
    BY <1>1, <1>a, <1>16, <2>2, <2>3 DEF Unregister, arenas, validators
<1>17. ASSUME NEW v \in Validator, BeginValidate(v) PROVE TypeOK'
  BY <1>1, <1>17, SMTT(20) DEF BeginValidate, IsActive, entries, arenas, workers
<1>18. ASSUME NEW v \in Validator, CompareEntry(v) PROVE TypeOK'
  BY <1>1, <1>18 DEF CompareEntry, Returned, entries, arenas, workers
<1>19. ASSUME NEW v \in Validator, EndValidate(v) PROVE TypeOK'
  BY <1>1, <1>19 DEF EndValidate, Returned, entries, arenas, workers
<1>20. QED
  BY <1>2, <1>3, <1>4, <1>5, <1>6, <1>7, <1>8, <1>9, <1>10, <1>11, <1>12, <1>13, <1>14, <1>15,
     <1>16, <1>17, <1>18, <1>19 DEF Next, ManagerStep, WorkerStep

-----------------------------------------------------------------------------

\* Only FillEntry, Activate and Unregister change an entry, and only UseBlock and
\* ReleaseBlock the blocks of an arena that has one; everything else leaves them alone.
LEMMA EntriesStep == IInv /\ [Next]_vars => EntriesApart'
<1> SUFFICES ASSUME IInv, [Next]_vars PROVE EntriesApart'
  OBVIOUS
<1> USE SlotsAssumption, NoneAssumption, BoundAssumption
<1>1. TypeOK /\ EntriesApart /\ ManagerWaitedFor /\ WorkersOwn
  BY DEF IInv
<1>2. CASE UNCHANGED <<entries, arenas>>
  BY <1>1, <1>2 DEF EntriesApart, EndpointsDistinct, FreeArenaIsQuiet, entries, arenas
<1>3. ASSUME NEW w \in Worker, UseBlock(w) PROVE EntriesApart'
  <2>1. /\ handle[w] \in Handle /\ handle[w].slot \in Slot
        /\ state[handle[w].slot] = "active" /\ storage[handle[w].slot] = handle[w].storage
    <3>1. Live(handle[w], w)
      BY <1>1, <1>3 DEF UseBlock, WorkersOwn, OwnsEndpoint
    <3>2. QED
      BY <3>1, LiveFacts
  <2>2. FreeArenaIsQuiet'
    BY <1>1, <1>3, <2>1, SMTT(20) DEF UseBlock, TypeOK, EntriesApart, EndpointsDistinct,
       FreeArenaIsQuiet, entries
  <2>3. QED
    BY <1>1, <1>3, <2>2 DEF UseBlock, EntriesApart, EndpointsDistinct, entries
<1>4. ASSUME NEW u \in Unit, ReleaseBlock(u) PROVE EntriesApart'
  <2>1. FreeArenaIsQuiet'
    BY <1>1, <1>4, SMTT(20) DEF ReleaseBlock, TypeOK, EntriesApart, FreeArenaIsQuiet, entries
  <2>2. QED
    BY <1>1, <1>4, <2>1 DEF ReleaseBlock, EntriesApart, EndpointsDistinct, entries
<1>5. CASE FillEntry
  <2>1. PICK s \in Slot : FillSlot(manager.who, s)
    BY <1>5 DEF FillEntry
  <2>2. state' = state /\ state[s] = "free"
    BY <1>5, <2>1 DEF FillEntry, FillSlot, FirstFree, Free
  <2>3. /\ \A t \in Slot \ {s} : storage'[t] = storage[t] /\ rpc_id'[t] = rpc_id[t]
        /\ storage'[s] = IF storage[s] = NoUnit THEN next_free ELSE storage[s]
        /\ storage'[s] \in Unit
        /\ next_free' = IF storage[s] = NoUnit THEN next_free + 1 ELSE next_free
    BY <1>1, <2>1, FillFacts
  <2>4. \A t \in Slot : storage[t] \in Nat /\ storage[t] < next_free /\ next_free \in Nat
    BY <1>1, SMTT(20) DEF EntriesApart, TypeOK, Unit, NoUnit
  <2>5. \A t \in Slot : storage'[t] < next_free'
    BY <2>3, <2>4, SMTT(20)
  <2>6. \A t \in Slot \ {s} : storage[t] # NoUnit => storage[t] # storage'[s]
    BY <1>1, <2>3, <2>4, SMTT(20) DEF EntriesApart
  <2>7. \A t1, t2 \in Slot : t1 # t2 /\ storage'[t1] # NoUnit => storage'[t1] # storage'[t2]
    BY <1>1, <2>3, <2>6, HandleFacts DEF EntriesApart
  <2>8. EndpointsDistinct'
    BY <1>1, <2>2, <2>3, <2>7, SMTT(20) DEF EntriesApart, EndpointsDistinct
  <2>9. FreeArenaIsQuiet'
    <3>1. active_blocks' = [active_blocks EXCEPT ![storage'[s]] = 0]
      BY <2>1 DEF FillSlot
    <3>2. \A u \in Unit : active_blocks'[u] = IF u = storage'[s] THEN 0 ELSE active_blocks[u]
      BY <1>1, <2>3, <3>1 DEF TypeOK
    <3>3. \A t \in Slot : storage'[t] = NoUnit \/ storage'[t] \in Unit
      BY <1>1, <2>3 DEF TypeOK
    <3>4. \A t \in Slot : state[t] = "free" /\ storage[t] # NoUnit => active_blocks[storage[t]] = 0
      BY <1>1 DEF EntriesApart, FreeArenaIsQuiet
    <3>5. QED
      BY <2>2, <2>3, <3>2, <3>3, <3>4 DEF FreeArenaIsQuiet
  <2>10. QED
    BY <1>1, <2>2, <2>3, <2>5, <2>7, <2>8, <2>9 DEF EntriesApart
<1>6. CASE Activate
  <2>1. /\ manager.slot \in Slot /\ storage[manager.slot] \in Unit
        /\ ~Duplicate(rpc_id[manager.slot])
    BY <1>1, <1>6, HandleFacts DEF Activate, ManagerWaitedFor, Free, HandleOf
  <2>2. \A t \in Slot : state'[t] = IF t = manager.slot THEN "active" ELSE state[t]
    BY <1>1, <1>6 DEF Activate, TypeOK
  <2>3. UNCHANGED <<rpc_id, storage, next_free, active_blocks>>
    BY <1>6 DEF Activate, arenas
  <2>4. EndpointsDistinct'
    BY <1>1, <2>1, <2>2, <2>3, HandleFacts, SMTT(20) DEF EntriesApart, EndpointsDistinct, Duplicate
  <2>5. FreeArenaIsQuiet'
    BY <1>1, <2>2, <2>3 DEF EntriesApart, FreeArenaIsQuiet
  <2>6. QED
    BY <1>1, <2>1, <2>2, <2>3, <2>4, <2>5, HandleFacts DEF EntriesApart
<1>7. CASE Unregister
  <2> DEFINE h == request[manager.who].handle
  <2>1. h \in Handle /\ h.slot \in Slot
    BY <1>1, <1>7, HandleFacts DEF Unregister, Receiving, ManagerWaitedFor, WorkersOwn, OwnsEndpoint
  <2>2. UNCHANGED <<rpc_id, storage, next_free, active_blocks>>
    BY <1>7 DEF Unregister, arenas
  <2>3. \A t \in Slot : \/ state'[t] = state[t]
                        \/ /\ state'[t] = "free" /\ storage[t] = h.storage
                           /\ active_blocks[h.storage] = 0
    BY <1>1, <1>7, <2>1 DEF Unregister, MayUnregister, TypeOK
  <2>4. EndpointsDistinct'
    BY <1>1, <2>2, <2>3, SMTT(20) DEF EntriesApart, EndpointsDistinct
  <2>5. FreeArenaIsQuiet'
    BY <1>1, <2>2, <2>3 DEF EntriesApart, FreeArenaIsQuiet
  <2>6. QED
    BY <1>1, <2>2, <2>3, <2>4, <2>5 DEF EntriesApart
<1>8. CASE \/ DropClient \/ RejectRegistration
           \/ \E w \in Worker : WorkerStep(w) \/ Crash(w) \/ Accept(w)
           \/ \E v \in Validator : BeginValidate(v) \/ CompareEntry(v) \/ EndValidate(v)
  BY <1>2, <1>8 DEF DropClient, RejectRegistration, WorkerStep, Connect, SendRequest,
     Registered, Mismatch, Finished, Crash, Accept, BeginValidate, CompareEntry, EndValidate
<1>9. QED
  BY <1>2, <1>3, <1>4, <1>5, <1>6, <1>7, <1>8 DEF Next, ManagerStep, vars

\* register_endpoint gives new storage only to the first entry that has none: all
\* entries before it are active, so they have theirs.
LEMMA OrderStep == IInv /\ [Next]_vars => StorageInOrder'
<1> SUFFICES ASSUME IInv, [Next]_vars PROVE StorageInOrder'
  OBVIOUS
<1> USE SlotsAssumption
<1>1. TypeOK /\ EntriesApart /\ StorageInOrder
  BY DEF IInv
<1>2. CASE UNCHANGED <<storage, next_free>>
  BY <1>1, <1>2 DEF StorageInOrder
<1>3. CASE FillEntry
  <2>1. PICK s \in Slot : FillSlot(manager.who, s)
    BY <1>3 DEF FillEntry
  <2>2. /\ \A t \in Slot \ {s} : storage'[t] = storage[t]
        /\ storage'[s] = IF storage[s] = NoUnit THEN next_free ELSE storage[s]
        /\ next_free' = IF storage[s] = NoUnit THEN next_free + 1 ELSE next_free
    BY <1>1, <2>1, FillFacts
  <2>3. next_free \in Nat \ {0} /\ s \in Nat \ {0} /\ s <= Slots
    BY <1>1, SMTT(20) DEF TypeOK, Slot
  <2>4. storage[s] = NoUnit => s = next_free
    <3>1. SUFFICES ASSUME storage[s] = NoUnit, s # next_free PROVE FALSE
      OBVIOUS
    <3>2. s > next_free
      BY <1>1, <2>3, <3>1, SMTT(20) DEF StorageInOrder, NoUnit
    <3>3. next_free \in Slot /\ storage[next_free] = NoUnit
      BY <1>1, <2>3, <3>2, SMTT(20) DEF StorageInOrder, Slot
    <3>4. next_free \in Free
      BY <1>1, <3>3 DEF EntriesApart, Free, TypeOK
    <3>5. s <= next_free
      BY <2>1, <3>4 DEF FillSlot, FirstFree
    <3>6. QED
      BY <2>3, <3>2, <3>5, SMTT(20)
  <2>5. CASE storage[s] = NoUnit
    <3>1. \A t \in Slot : t \in Nat
      BY SMTT(20) DEF Slot
    <3>2. QED
      BY <1>1, <2>2, <2>3, <2>4, <2>5, <3>1, SMTT(20) DEF StorageInOrder
  <2>6. CASE storage[s] # NoUnit
    BY <1>1, <2>2, <2>6 DEF StorageInOrder
  <2>7. QED
    BY <2>5, <2>6
<1>4. FillEntry \/ UNCHANGED <<storage, next_free>>
  BY DEF Next, ManagerStep, WorkerStep, vars, entries, arenas, Activate, Unregister, DropClient,
     RejectRegistration, Connect, SendRequest, Registered, Mismatch, Finished, Crash, UseBlock,
     ReleaseBlock, Accept, BeginValidate, CompareEntry, EndValidate
<1>5. QED
  BY <1>2, <1>3, <1>4

-----------------------------------------------------------------------------
\* The manager at work, and what the workers own

\* While the manager works for a worker, that worker can only send its request or die,
\* and nobody but the manager touches the entry that is being filled in.
LEMMA ManagerStepOK == IInv /\ [Next]_vars => ManagerWaitedFor'
<1> SUFFICES ASSUME IInv, [Next]_vars PROVE ManagerWaitedFor'
  OBVIOUS
<1> USE SlotsAssumption, NoneAssumption, BoundAssumption
<1>1. TypeOK /\ EntriesApart /\ ManagerWaitedFor /\ WorkersOwn
  BY DEF IInv
<1>2. CASE UNCHANGED <<entries, manager, workers>>
  BY <1>1, <1>2 DEF ManagerWaitedFor, Free, Duplicate, HandleOf, entries, workers
<1>3. CASE manager' = Accepting
  BY <1>3 DEF ManagerWaitedFor, Accepting
<1>4. ASSUME UNCHANGED <<entries, manager>>, NEW w \in Worker,
             \A x \in Worker \ {w} : conn'[x] = conn[x] /\ request'[x] = request[x],
             manager.phase = "accept" \/ manager.who # w \/
               /\ request'[w] = request[w]
               /\ \/ conn[w] = "connected" /\ conn'[w] \in {"sent", "dead"}
                  \/ conn[w] = "sent" /\ conn'[w] = "orphan"
      PROVE  ManagerWaitedFor'
  BY <1>1, <1>4 DEF ManagerWaitedFor, Free, Duplicate, HandleOf, entries
<1>5. ASSUME NEW w \in Worker, WorkerStep(w) \/ Crash(w) PROVE ManagerWaitedFor'
  <2>1. UNCHANGED <<entries, manager>>
    BY <1>5 DEF WorkerStep, Connect, SendRequest, Registered, Mismatch, Finished, Crash
  <2>2. \A x \in Worker \ {w} : conn'[x] = conn[x] /\ request'[x] = request[x]
    <3>1. SUFFICES ASSUME NEW x \in Worker \ {w}
                   PROVE  conn'[x] = conn[x] /\ request'[x] = request[x]
      OBVIOUS
    <3>2. CASE Connect(w)
      BY <1>1, <3>2 DEF Connect, TypeOK
    <3>3. CASE SendRequest(w)
      BY <1>1, <3>3 DEF SendRequest, TypeOK
    <3>4. CASE Registered(w)
      BY <1>1, <3>4 DEF Registered, Forget, TypeOK
    <3>5. CASE Mismatch(w)
      BY <1>1, <3>5 DEF Mismatch, Forget, TypeOK
    <3>6. CASE Finished(w)
      BY <1>1, <3>6 DEF Finished, Forget, TypeOK
    <3>7. CASE Crash(w)
      BY <1>1, <3>7 DEF Crash, Forget, TypeOK
    <3>8. QED
      BY <1>5, <3>2, <3>3, <3>4, <3>5, <3>6, <3>7 DEF WorkerStep
  <2>3. manager.phase # "accept" /\ manager.who = w =>
          conn[w] \in {"connected", "sent", "orphan", "dead"}
    BY <1>1 DEF ManagerWaitedFor, TypeOK
  <2>4. ASSUME conn[w] \in {"connected", "sent", "orphan", "dead"}
        PROVE  /\ request'[w] = request[w]
               /\ \/ conn[w] = "connected" /\ conn'[w] \in {"sent", "dead"}
                  \/ conn[w] = "sent" /\ conn'[w] = "orphan"
    BY <1>1, <1>5, <2>4 DEF WorkerStep, Connect, SendRequest, Registered, Mismatch, Finished,
       Crash, TypeOK
  <2>5. QED
    BY <1>4, <2>1, <2>2, <2>3, <2>4
<1>6. ASSUME NEW w \in Worker, Accept(w) PROVE ManagerWaitedFor'
  BY <1>1, <1>6 DEF Accept, ManagerWaitedFor, workers
<1>7. CASE FillEntry
  <2>1. PICK s \in Slot : FillSlot(manager.who, s)
    BY <1>7 DEF FillEntry
  <2> DEFINE w == manager.who
  <2>2. w \in Worker /\ request[w].rpc_id \in RpcId /\ conn[w] \in {"sent", "orphan"}
        /\ request[w].op = "register"
    BY <1>1, <1>7 DEF FillEntry, Receiving, ManagerWaitedFor, WorkersOwn, OwnsEndpoint
  <2>3. /\ UNCHANGED <<conn, request, state>>
        /\ manager'.phase = "activate" /\ manager'.who = w /\ manager'.slot = s
        /\ process_id'[s] = w /\ state[s] = "free"
    BY <1>1, <1>7, <2>1, FillFacts, SMTT(20) DEF FillEntry, workers
  <2>4. /\ rpc_id'[s] = request[w].rpc_id
        /\ generation'[s] \in 1 .. MaxGeneration
        /\ storage'[s] \in Unit
    BY <1>1, <2>1, FillFacts, SMTT(20)
  <2>5. HandleOf(s)' \in Handle
    BY <2>2, <2>4 DEF HandleOf, Handle
  <2>6. ~Duplicate(rpc_id[s])'
    <3>1. ~Duplicate(request[w].rpc_id)
      BY <2>1 DEF FillSlot
    <3>2. \A t \in Slot \ {s} : rpc_id'[t] = rpc_id[t]
      BY <1>1, <2>1, FillFacts
    <3>3. QED
      BY <2>3, <2>4, <3>1, <3>2 DEF Duplicate
  <2>7. QED
    BY <2>2, <2>3, <2>5, <2>6 DEF ManagerWaitedFor, Free
<1>8. CASE \/ \E w \in Worker : UseBlock(w)
           \/ \E u \in Unit : ReleaseBlock(u)
           \/ \E v \in Validator : BeginValidate(v) \/ CompareEntry(v) \/ EndValidate(v)
  BY <1>2, <1>8 DEF UseBlock, ReleaseBlock, BeginValidate, CompareEntry, EndValidate
<1>9. CASE DropClient \/ RejectRegistration \/ Activate \/ Unregister
  BY <1>3, <1>9 DEF DropClient, RejectRegistration, Activate, Unregister
<1>10. QED
  BY <1>2, <1>5, <1>6, <1>7, <1>8, <1>9 DEF Next, ManagerStep, vars

-----------------------------------------------------------------------------

\* A live handle stays live while the state and the contents of its entry do.
LEMMA LiveKept ==
  ASSUME NEW h, NEW w, Live(h, w),
         state'[h.slot] = state[h.slot], rpc_id'[h.slot] = rpc_id[h.slot],
         process_id'[h.slot] = process_id[h.slot],
         generation'[h.slot] = generation[h.slot], storage'[h.slot] = storage[h.slot]
  PROVE  Live(h, w)'
BY DEF Live, IsActive, HandleOf

\* The manager takes the endpoint of one worker from it only at that worker's request;
\* the entry it fills in for another is free, so nobody's.
LEMMA OthersKeep ==
  ASSUME IInv, NEW x \in Worker, NEW h, Live(h, x),
         FillEntry \/ Activate \/ (Unregister /\ manager.who # x)
  PROVE  Live(h, x)'
<1>1. TypeOK /\ ManagerWaitedFor /\ WorkersOwn
  BY DEF IInv
<1>2. CASE FillEntry
  <2>1. PICK s \in Slot : FillSlot(manager.who, s)
    BY <1>2 DEF FillEntry
  <2>2. h.slot \in Slot /\ h.slot # s
    BY <2>1, LiveFacts DEF FillSlot, FirstFree, Free
  <2>3. QED
    <3>1. state' = state
      BY <1>2 DEF FillEntry
    <3>2. /\ rpc_id'[h.slot] = rpc_id[h.slot] /\ process_id'[h.slot] = process_id[h.slot]
          /\ generation'[h.slot] = generation[h.slot] /\ storage'[h.slot] = storage[h.slot]
      BY <1>1, <2>1, <2>2, FillFacts
    <3>3. QED
      BY <3>1, <3>2, LiveKept
<1>3. CASE Activate
  <2>1. h.slot \in Slot /\ h.slot # manager.slot
    BY <1>1, <1>3, LiveFacts DEF Activate, ManagerWaitedFor, Free
  <2>2. QED
    BY <1>1, <1>3, <2>1, LiveKept DEF Activate, TypeOK
<1>4. CASE Unregister /\ manager.who # x
  <2> DEFINE g == request[manager.who].handle
  <2>1. g \in Handle /\ g.slot \in Slot
    BY <1>1, <1>4, HandleFacts DEF Unregister, Receiving, ManagerWaitedFor, WorkersOwn, OwnsEndpoint
  <2>2. h.slot \in Slot /\ process_id[h.slot] = x
    BY LiveFacts
  <2>3. state'[h.slot] = state[h.slot]
    BY <1>1, <1>4, <2>1, <2>2 DEF Unregister, MayUnregister, TypeOK
  <2>4. QED
    BY <1>4, <2>3, LiveKept DEF Unregister
<1>5. QED
  BY <1>2, <1>3, <1>4

\* What a worker holds changes only when the worker itself, or the manager on its
\* behalf, takes a step.
LEMMA WorkersStep == IInv /\ [Next]_vars => WorkersOwn'
<1> SUFFICES ASSUME IInv, [Next]_vars, NEW x \in Worker PROVE OwnsEndpoint(x)'
  BY DEF WorkersOwn
<1> USE SlotsAssumption, NoneAssumption, BoundAssumption
<1>1. TypeOK /\ ManagerWaitedFor /\ WorkersOwn /\ OwnsEndpoint(x)
  BY DEF IInv, WorkersOwn
\* The frame: x has no part in the step.
<1>2. ASSUME conn'[x] = conn[x], request'[x] = request[x], handle'[x] = handle[x],
             \A h : Live(h, x) => Live(h, x)'
      PROVE  OwnsEndpoint(x)'
  BY <1>1, <1>2 DEF OwnsEndpoint
<1>3. UNCHANGED entries => \A h, w : Live(h, w) => Live(h, w)'
  BY LiveKept DEF entries
<1>4. CASE UNCHANGED <<entries, workers>>
  BY <1>2, <1>3, <1>4 DEF workers
<1>5. ASSUME NEW w \in Worker, w # x, WorkerStep(w) \/ Crash(w) PROVE OwnsEndpoint(x)'
  <2>1. UNCHANGED entries
    BY <1>5 DEF WorkerStep, Connect, SendRequest, Registered, Mismatch, Finished, Crash
  <2>2. conn'[x] = conn[x] /\ request'[x] = request[x] /\ handle'[x] = handle[x]
    BY <1>1, <1>5 DEF WorkerStep, Connect, SendRequest, Registered, Mismatch, Finished,
       Crash, Forget, TypeOK
  <2>3. QED
    BY <1>2, <1>3, <2>1, <2>2
<1>6. CASE Connect(x)
  <2>1. UNCHANGED entries /\ conn'[x] = "connected" /\ handle'[x] = handle[x]
    BY <1>1, <1>6 DEF Connect, TypeOK
  <2>2. CASE handle[x] = NoHandle
    <3>1. request'[x].op = "register" /\ request'[x].rpc_id \in RpcId
      <4>1. PICK r \in RpcId : request' = [request EXCEPT ![x] =
                                 [Nothing EXCEPT !.op = "register", !.rpc_id = r]]
        BY <1>6, <2>2 DEF Connect
      <4>2. request'[x] = [Nothing EXCEPT !.op = "register", !.rpc_id = r]
        BY <1>1, <4>1 DEF TypeOK
      <4>3. QED
        BY <4>2 DEF Nothing
    <3>2. QED
      BY <2>1, <2>2, <3>1 DEF OwnsEndpoint
  <2>3. CASE handle[x] # NoHandle
    <3>1. request'[x].op = "unregister" /\ request'[x].handle = handle[x]
      <4>1. request'[x] = [op |-> "unregister", rpc_id |-> handle[x].rpc_id,
                           handle |-> handle[x]]
        BY <1>1, <1>6, <2>3 DEF Connect, TypeOK
      <4>2. QED
        BY <4>1, SMTT(20)
    <3>2. Live(handle[x], x) /\ handle[x] \in Handle
      BY <1>1, <1>6, <2>3 DEF Connect, OwnsEndpoint, Live
    <3>3. QED
      BY <1>3, <2>1, <3>1, <3>2 DEF OwnsEndpoint
  <2>4. QED
    BY <2>2, <2>3
<1>7. CASE SendRequest(x)
  <2>1. UNCHANGED <<entries, request, handle>> /\ conn[x] = "connected" /\ conn'[x] = "sent"
    BY <1>1, <1>7 DEF SendRequest, TypeOK
  <2>2. QED
    BY <1>1, <1>3, <2>1 DEF OwnsEndpoint
<1>8. CASE Registered(x)
  <2>1. /\ UNCHANGED entries /\ conn[x] = "granted" /\ conn'[x] = "none"
        /\ request'[x] = Nothing /\ handle'[x] = request[x].handle
    BY <1>1, <1>8 DEF Registered, Forget, TypeOK
  <2>2. Live(request[x].handle, x)
    BY <1>1, <2>1 DEF OwnsEndpoint
  <2>3. Live(handle[x], x)'
    BY <1>3, <2>1, <2>2
  <2>4. request'[x].op = "none"
    BY <2>1, SMTT(20) DEF Nothing
  <2>5. QED
    BY <2>1, <2>3, <2>4 DEF OwnsEndpoint
<1>9. CASE Mismatch(x)
  <2>1. /\ UNCHANGED <<entries, handle>> /\ conn[x] = "granted" /\ conn'[x] = "connected"
        /\ request'[x] = [request[x] EXCEPT !.op = "unregister"]
    BY <1>1, <1>9 DEF Mismatch, TypeOK
  <2>2. request[x] \in Request /\ request[x].handle \in Handle /\ handle[x] = NoHandle
    BY <1>1, <2>1 DEF OwnsEndpoint, Live, TypeOK
  <2>3. request'[x].op = "unregister" /\ request'[x].handle \in Handle
    BY <2>1, <2>2 DEF Request
  <2>4. QED
    BY <2>1, <2>2, <2>3 DEF OwnsEndpoint
<1>10. CASE Finished(x)
  <2>1. conn'[x] = "none" /\ request'[x].op = "none" /\ handle'[x] = NoHandle
    BY <1>1, <1>10 DEF Finished, Forget, Nothing, TypeOK
  <2>2. QED
    BY <2>1 DEF OwnsEndpoint
<1>11. CASE Crash(x)
  <2>1. handle'[x] = NoHandle
    BY <1>1, <1>11 DEF Crash, TypeOK
  <2>2. CASE conn[x] \in {"connected", "sent"}
    <3>1. conn'[x] \in {"orphan", "dead"} /\ request'[x] = request[x]
      BY <1>1, <1>11, <2>2 DEF Crash, TypeOK
    <3>2. QED
      BY <1>1, <2>1, <2>2, <3>1 DEF OwnsEndpoint
  <2>3. CASE conn[x] \notin {"connected", "sent"}
    <3>1. conn'[x] = "none" /\ request'[x].op = "none"
      BY <1>1, <1>11, <2>3, SMTT(20) DEF Crash, Forget, Nothing, TypeOK
    <3>2. QED
      BY <2>1, <3>1 DEF OwnsEndpoint
  <2>4. QED
    BY <2>2, <2>3
<1>12. ASSUME NEW w \in Worker, UseBlock(w) \/ Accept(w) PROVE OwnsEndpoint(x)'
  BY <1>4, <1>12 DEF UseBlock, Accept
<1>13. ASSUME NEW u \in Unit, ReleaseBlock(u) PROVE OwnsEndpoint(x)'
  BY <1>4, <1>13 DEF ReleaseBlock
<1>14. CASE DropClient
  <2>1. UNCHANGED <<entries, handle>> /\ manager.who \in Worker
    BY <1>1, <1>14 DEF DropClient, ManagerWaitedFor
  <2>2. CASE manager.who # x
    <3>1. conn'[x] = conn[x] /\ request'[x] = request[x]
      BY <1>1, <1>14, <2>1, <2>2 DEF DropClient, Forget, TypeOK
    <3>2. QED
      BY <1>2, <1>3, <2>1, <3>1
  <2>3. CASE manager.who = x /\ conn[x] = "dead"
    <3>1. conn'[x] = "none" /\ request'[x].op = "none"
      BY <1>1, <1>14, <2>3, SMTT(20) DEF DropClient, Forget, Nothing, TypeOK
    <3>2. handle'[x] = NoHandle
      BY <1>1, <2>1, <2>3 DEF OwnsEndpoint
    <3>3. QED
      BY <3>1, <3>2 DEF OwnsEndpoint
  <2>4. CASE manager.who = x /\ conn[x] # "dead"
    <3>1. conn[x] = "connected" /\ conn'[x] = "closed" /\ request' = request
      BY <1>1, <1>14, <2>4 DEF DropClient, TypeOK
    <3>2. QED
      BY <1>1, <1>3, <2>1, <3>1 DEF OwnsEndpoint
  <2>5. QED
    BY <2>2, <2>3, <2>4
<1>15. CASE RejectRegistration
  <2>1. /\ UNCHANGED <<entries, handle>> /\ manager.who \in Worker
        /\ Respond(manager.who, "refused", NoHandle)
        /\ conn[manager.who] \in {"sent", "orphan"} /\ request[manager.who].op = "register"
    BY <1>1, <1>15 DEF RejectRegistration, Receiving, ManagerWaitedFor
  <2>2. CASE manager.who # x
    BY <1>1, <1>2, <1>3, <2>1, <2>2 DEF Respond, Forget, TypeOK
  <2>3. CASE manager.who = x /\ conn[x] = "orphan"
    BY <1>1, <2>1, <2>3, SMTT(20) DEF Respond, Forget, Nothing, OwnsEndpoint, TypeOK
  <2>4. CASE manager.who = x /\ conn[x] = "sent"
    <3>1. conn'[x] = "refused" /\ request'[x] = [request[x] EXCEPT !.handle = NoHandle]
      BY <1>1, <2>1, <2>4 DEF Respond, TypeOK
    <3>2. request'[x].op = "register" /\ request'[x].rpc_id = request[x].rpc_id
      BY <1>1, <2>1, <2>4, <3>1 DEF Request, TypeOK
    <3>3. handle[x] = NoHandle
      BY <1>1, <2>1, <2>4 DEF OwnsEndpoint
    <3>4. QED
      BY <1>1, <2>1, <2>4, <3>1, <3>2, <3>3 DEF OwnsEndpoint
  <2>5. QED
    BY <2>1, <2>2, <2>3, <2>4
<1>16. CASE FillEntry
  <2>1. UNCHANGED workers
    BY <1>16 DEF FillEntry
  <2>2. \A h : Live(h, x) => Live(h, x)'
    BY <1>16, OthersKeep
  <2>3. QED
    BY <1>2, <2>1, <2>2 DEF workers
<1>17. CASE Activate
  <2>0. PICK g : g = HandleOf(manager.slot)
    OBVIOUS
  <2>1. /\ handle' = handle /\ manager.who \in Worker /\ Respond(manager.who, "granted", g)
        /\ conn[manager.who] \in {"sent", "orphan"} /\ request[manager.who].op = "register"
        /\ manager.slot \in Slot /\ g \in Handle /\ process_id[manager.slot] = manager.who
    BY <1>1, <1>17, <2>0 DEF Activate, ManagerWaitedFor, Free
  <2>2. \A h : Live(h, x) => Live(h, x)'
    BY <1>17, OthersKeep
  <2>3. CASE manager.who # x
    BY <1>1, <1>2, <2>1, <2>2, <2>3 DEF Respond, Forget, TypeOK
  <2>4. CASE manager.who = x /\ conn[x] = "orphan"
    BY <1>1, <2>1, <2>4, SMTT(20) DEF Respond, Forget, Nothing, OwnsEndpoint, TypeOK
  <2>5. CASE manager.who = x /\ conn[x] = "sent"
    <3>1. conn'[x] = "granted" /\ request'[x] = [request[x] EXCEPT !.handle = g]
      BY <1>1, <2>1, <2>5 DEF Respond, TypeOK
    <3>2. /\ request'[x].op = "register" /\ request'[x].rpc_id = request[x].rpc_id
          /\ request'[x].handle = g
      BY <1>1, <2>1, <2>5, <3>1 DEF Request, TypeOK
    <3>3. handle[x] = NoHandle
      BY <1>1, <2>1, <2>5 DEF OwnsEndpoint
    <3>4. g.slot = manager.slot
      BY <2>0 DEF HandleOf
    <3>5. Live(g, x)'
      <4>1. /\ state'[g.slot] = "active"
            /\ UNCHANGED <<rpc_id, process_id, generation, storage>>
        BY <1>1, <1>17, <2>1, <3>4 DEF Activate, TypeOK
      <4>2. HandleOf(g.slot)' = g
        BY <2>0, <3>4, <4>1 DEF HandleOf
      <4>3. QED
        BY <2>1, <2>5, <3>4, <4>1, <4>2 DEF Live, IsActive
    <3>6. QED
      BY <1>1, <2>1, <2>5, <3>1, <3>2, <3>3, <3>5 DEF OwnsEndpoint
  <2>6. QED
    BY <2>1, <2>3, <2>4, <2>5
<1>18. CASE Unregister
  <2> DEFINE g == request[manager.who].handle
             answer == IF MayUnregister(manager.who, g) THEN "done" ELSE "refused"
  <2>1. /\ handle' = handle /\ manager.who \in Worker /\ Respond(manager.who, answer, g)
        /\ conn[manager.who] \in {"sent", "orphan"} /\ request[manager.who].op = "unregister"
    BY <1>1, <1>18 DEF Unregister, Receiving, ManagerWaitedFor
  <2>2. CASE manager.who # x
    <3>1. \A h : Live(h, x) => Live(h, x)'
      BY <1>18, <2>2, OthersKeep
    <3>2. QED
      BY <1>1, <1>2, <2>1, <2>2, <3>1 DEF Respond, Forget, TypeOK
  <2>3. CASE manager.who = x /\ conn[x] = "orphan"
    BY <1>1, <2>1, <2>3, SMTT(20) DEF Respond, Forget, Nothing, OwnsEndpoint, TypeOK
  <2>4. CASE manager.who = x /\ conn[x] = "sent"
    <3>1. conn'[x] = answer /\ request'[x] = [request[x] EXCEPT !.handle = g]
      BY <1>1, <2>1, <2>4 DEF Respond, TypeOK
    <3>2. request'[x].op = "unregister" /\ request'[x].handle = request[x].handle
      BY <1>1, <2>1, <2>4, <3>1, SMTT(20) DEF Request, TypeOK
    <3>3. request[x].handle \in Handle
      BY <1>1, <2>1, <2>4 DEF OwnsEndpoint
    <3>4. CASE MayUnregister(manager.who, g)
      BY <1>1, <2>1, <2>4, <3>1, <3>2, <3>3, <3>4 DEF OwnsEndpoint
    <3>5. CASE ~MayUnregister(manager.who, g)
      <4>1. UNCHANGED entries
        BY <1>18, <3>5 DEF Unregister, entries
      <4>2. QED
        BY <1>1, <1>3, <2>1, <2>4, <3>1, <3>2, <3>3, <3>5, <4>1 DEF OwnsEndpoint
    <3>6. QED
      BY <3>4, <3>5
  <2>5. QED
    BY <2>1, <2>2, <2>3, <2>4
<1>19. ASSUME NEW v \in Validator, BeginValidate(v) \/ CompareEntry(v) \/ EndValidate(v)
       PROVE  OwnsEndpoint(x)'
  BY <1>4, <1>19 DEF BeginValidate, CompareEntry, EndValidate
<1>20. CASE UNCHANGED vars
  BY <1>4, <1>20 DEF vars
<1>21. CASE \E w \in Worker : WorkerStep(w) \/ Crash(w)
  BY <1>5, <1>6, <1>7, <1>8, <1>9, <1>10, <1>11, <1>21 DEF WorkerStep
<1>22. QED
  BY <1>12, <1>13, <1>14, <1>15, <1>16, <1>17, <1>18, <1>19, <1>20, <1>21 DEF Next, ManagerStep

-----------------------------------------------------------------------------
\* The handles given out, and the theorems

\* Only FillEntry raises a generation, only Activate gives out a handle, and it gives out
\* the one FillEntry made.
LEMMA PublishedStep == IInv /\ [Next]_vars => PublishedIsPast'
<1> SUFFICES ASSUME IInv, [Next]_vars PROVE PublishedIsPast'
  OBVIOUS
<1> USE SlotsAssumption, NoneAssumption, BoundAssumption
<1>1. TypeOK /\ ManagerWaitedFor /\ PublishedIsPast
  BY DEF IInv
<1> DEFINE Contents == <<rpc_id, generation, storage>>
<1>2. ASSUME UNCHANGED <<Contents, published, validators>>,
             manager' = manager \/ manager'.phase # "activate"
      PROVE  PublishedIsPast'
  BY <1>1, <1>2 DEF PublishedIsPast, ValidateIsSound, HandleOf, validators
<1>3. CASE DropClient \/ RejectRegistration \/ Unregister
  <2>1. UNCHANGED <<Contents, published, validators>> /\ manager' = Accepting
    BY <1>3 DEF DropClient, RejectRegistration, Unregister, entries
  <2>2. manager'.phase = "accept"
    BY <2>1 DEF Accepting
  <2>3. QED
    BY <1>2, <2>1, <2>2
<1>4. CASE \/ \E w \in Worker : WorkerStep(w) \/ Crash(w) \/ UseBlock(w) \/ Accept(w)
           \/ \E u \in Unit : ReleaseBlock(u)
  <2>1. UNCHANGED <<Contents, published, validators>>
    BY <1>4 DEF WorkerStep, Connect, SendRequest, Registered, Mismatch, Finished, Crash,
       UseBlock, Accept, ReleaseBlock, entries
  <2>2. manager' = manager \/ manager'.phase = "receive"
    <3>1. ASSUME NEW w \in Worker, Accept(w) PROVE manager'.phase = "receive"
      BY <3>1 DEF Accept
    <3>2. ASSUME NEW w \in Worker, WorkerStep(w) \/ Crash(w) \/ UseBlock(w)
          PROVE  manager' = manager
      BY <3>2 DEF WorkerStep, Connect, SendRequest, Registered, Mismatch, Finished, Crash,
         UseBlock
    <3>3. ASSUME NEW u \in Unit, ReleaseBlock(u) PROVE manager' = manager
      BY <3>3 DEF ReleaseBlock
    <3>4. QED
      BY <1>4, <3>1, <3>2, <3>3
  <2>3. QED
    BY <1>2, <2>1, <2>2
<1>5. CASE FillEntry
  <2>1. PICK s \in Slot : FillSlot(manager.who, s)
    BY <1>5 DEF FillEntry
  <2>2. UNCHANGED <<published, validators>>
    BY <1>5 DEF FillEntry
  <2>a. \A t \in Slot : generation[t] \in Nat
    BY <1>1, SMTT(20) DEF TypeOK
  <2>b. manager'.slot = s /\ generation'[s] = generation[s] + 1
    BY <1>1, <2>1, FillFacts
  <2>c. \A t \in Slot \ {s} : /\ generation'[t] = generation[t] /\ rpc_id'[t] = rpc_id[t]
                              /\ storage'[t] = storage[t]
    BY <1>1, <2>1, FillFacts, SMTT(20)
  <2>3. \A h \in published : h.slot \in Slot /\ h.generation \in Nat
    BY <1>1, HandleFacts, SMTT(20) DEF TypeOK
  <2>4. ASSUME NEW h \in published
        PROVE  /\ h.generation <= generation'[h.slot]
               /\ h.generation = generation'[h.slot] => HandleOf(h.slot)' = h /\ h.slot # s
    BY <1>1, <2>a, <2>b, <2>c, <2>3, SMTT(20) DEF PublishedIsPast, HandleOf
  <2>5. ASSUME NEW v \in Validator, vpc[v] = "active", ~was_active[v]
        PROVE  vhandle[v].generation < generation'[vhandle[v].slot]
    <3>1. vhandle[v] \in published /\ vhandle[v].generation < generation[vhandle[v].slot]
      BY <1>1, <2>5 DEF PublishedIsPast
    <3>2. QED
      BY <2>a, <2>b, <2>c, <2>3, <3>1, SMTT(20)
  <2>6. QED
    BY <1>1, <2>2, <2>b, <2>4, <2>5 DEF PublishedIsPast, ValidateIsSound, validators
<1>6. CASE Activate
  <2>1. PICK g : g = HandleOf(manager.slot)
    OBVIOUS
  <2>2. /\ UNCHANGED <<Contents, validators>> /\ published' = published \cup {g}
        /\ manager'.phase = "accept"
        /\ g.slot = manager.slot /\ g.generation = generation[g.slot] /\ g \in Handle
    BY <1>1, <1>6, <2>1 DEF Activate, Accepting, HandleOf, ManagerWaitedFor
  <2>3. HandleOf(g.slot)' = g
    BY <2>1, <2>2 DEF HandleOf
  <2>4. g.generation <= generation[g.slot]
    BY <2>2, HandleFacts, SMTT(20)
  <2>5. QED
    BY <1>1, <2>2, <2>3, <2>4 DEF PublishedIsPast, ValidateIsSound, HandleOf, validators
<1>7. ASSUME NEW v \in Validator, BeginValidate(v) PROVE PublishedIsPast'
  <2>1. PICK h \in published :
          /\ state[h.slot] = "active"
          /\ vhandle' = [vhandle EXCEPT ![v] = h]
          /\ was_active' = [was_active EXCEPT ![v] = IsActive(h)]
    BY <1>7 DEF BeginValidate
  <2>2. UNCHANGED <<Contents, published, manager>>
    BY <1>7 DEF BeginValidate, entries
  <2>3. /\ vhandle'[v] = h /\ was_active'[v] = IsActive(h) /\ vpc'[v] = "active"
        /\ \A x \in Validator \ {v} : vhandle'[x] = vhandle[x] /\ was_active'[x] = was_active[x]
                                       /\ vpc'[x] = vpc[x]
    BY <1>1, <1>7, <2>1 DEF BeginValidate, TypeOK
  <2>4. h.slot \in Slot /\ h.generation \in Nat /\ generation[h.slot] \in Nat
    <3>1. h \in Handle
      BY <1>1 DEF TypeOK
    <3>2. h.slot \in Slot /\ h.generation \in Nat
      BY <3>1, HandleFacts, SMTT(20)
    <3>3. QED
      BY <1>1, <3>2, SMTT(20) DEF TypeOK
  <2>5. ~IsActive(h) => h.generation < generation[h.slot]
    BY <1>1, <2>1, <2>4, SMTT(20) DEF PublishedIsPast, IsActive
  <2>6. QED
    BY <1>1, <2>2, <2>3, <2>5 DEF PublishedIsPast, ValidateIsSound, HandleOf
<1>8. ASSUME NEW v \in Validator, CompareEntry(v) PROVE PublishedIsPast'
  <2>1. UNCHANGED <<Contents, published, manager>> /\ vpc[v] = "active"
    BY <1>8 DEF CompareEntry, entries
  <2>2. /\ \/ vpc'[v] = "idle"
           \/ /\ HandleOf(vhandle[v].slot) = vhandle[v] /\ vpc'[v] = "valid"
              /\ vhandle'[v] = vhandle[v] /\ was_active'[v] = was_active[v]
        /\ \A x \in Validator \ {v} : vhandle'[x] = vhandle[x] /\ was_active'[x] = was_active[x]
                                       /\ vpc'[x] = vpc[x]
    BY <1>1, <1>8 DEF CompareEntry, Returned, TypeOK
  <2>3. vhandle[v] \in published /\ vhandle[v].slot \in Slot /\ vhandle[v].generation \in Nat
    <3>1. vhandle[v] \in published
      BY <1>1, <2>1 DEF PublishedIsPast
    <3>2. vhandle[v] \in Handle
      BY <1>1, <3>1 DEF TypeOK
    <3>3. QED
      BY <3>1, <3>2, HandleFacts, SMTT(20)
  <2>4. HandleOf(vhandle[v].slot) = vhandle[v] =>
          generation[vhandle[v].slot] = vhandle[v].generation
    BY SMTT(20) DEF HandleOf
  <2>5. vpc'[v] = "valid" => was_active[v]
    <3>1. ~was_active[v] => vhandle[v].generation < generation[vhandle[v].slot]
      BY <1>1, <2>1 DEF PublishedIsPast
    <3>2. generation[vhandle[v].slot] \in Nat
      BY <1>1, <2>3, SMTT(20) DEF TypeOK
    <3>3. QED
      BY <2>2, <2>3, <2>4, <3>1, <3>2, SMTT(20)
  <2>6. QED
    BY <1>1, <2>1, <2>2, <2>3, <2>5 DEF PublishedIsPast, ValidateIsSound, HandleOf
<1>9. ASSUME NEW v \in Validator, EndValidate(v) PROVE PublishedIsPast'
  <2>1. /\ UNCHANGED <<Contents, published, manager>> /\ vpc'[v] = "idle"
        /\ \A x \in Validator \ {v} : vhandle'[x] = vhandle[x] /\ was_active'[x] = was_active[x]
                                       /\ vpc'[x] = vpc[x]
    BY <1>1, <1>9 DEF EndValidate, Returned, entries, TypeOK
  <2>2. QED
    BY <1>1, <2>1 DEF PublishedIsPast, ValidateIsSound, HandleOf
<1>10. CASE UNCHANGED vars
  BY <1>2, <1>10 DEF vars, entries
<1>11. QED
  BY <1>3, <1>4, <1>5, <1>6, <1>7, <1>8, <1>9, <1>10 DEF Next, ManagerStep

-----------------------------------------------------------------------------

\* IInv holds in every reachable state: of ub_manager's registration, its workers and
\* the remote validators, whatever their number.
THEOREM Invariance == Spec => []IInv
<1>1. IInv /\ [Next]_vars => IInv'
  BY TypeStep, EntriesStep, OrderStep, ManagerStepOK, WorkersStep, PublishedStep DEF IInv
<1>2. QED
  BY InitIInv, <1>1, PTL DEF Spec

\* No two active entries of the registry have the same rpc_id or share an inbox or an
\* arena, however workers registered, died and were refused.
THEOREM DistinctEndpoints == Spec => []EndpointsDistinct
<1>1. IInv => EndpointsDistinct
  BY DEF IInv, EntriesApart
<1>2. QED
  BY <1>1, Invariance, PTL

\* A transport's endpoint stays active, in its own incarnation and in its process's
\* name, until that process asks the manager to unregister it.
THEOREM OwnersKeepEndpoints == Spec => []HandleIsLive
<1>1. IInv => HandleIsLive
  <2> SUFFICES ASSUME IInv, NEW w \in Worker, handle[w] # NoHandle, conn[w] # "done"
               PROVE  IsActive(handle[w]) /\ process_id[handle[w].slot] = w
    BY DEF HandleIsLive
  <2>1. QED
    BY DEF IInv, WorkersOwn, OwnsEndpoint, Live
<1>2. QED
  BY <1>1, Invariance, PTL

\* register_endpoint initialises the arena of an entry it reuses only when no block of
\* it is in use.
THEOREM FreeArenasAreQuiet == Spec => []FreeArenaIsQuiet
<1>1. IInv => FreeArenaIsQuiet
  BY DEF IInv, EntriesApart
<1>2. QED
  BY <1>1, Invariance, PTL

\* register_endpoint finds no room for another endpoint only when every endpoint that
\* fits into the region is active.
THEOREM RefusedWhenFull == Spec => []RefusedOnlyWhenFull
<1>1. IInv => RefusedOnlyWhenFull
  <2>1. SUFFICES ASSUME IInv, NEW s \in Slot, FirstFree(s), NoSpace(s)
                 PROVE  Cardinality({t \in Slot : state[t] = "active"}) = Capacity
    BY DEF RefusedOnlyWhenFull
  <2>2. TypeOK /\ EntriesApart /\ StorageInOrder
    BY <2>1 DEF IInv
  <2>3. Capacity \in Nat /\ s \in Nat /\ s <= Slots /\ Slots \in Nat /\ next_free = Capacity + 1
    BY <2>1, <2>2, SlotsAssumption, SMTT(20) DEF NoSpace, TypeOK, Slot
  <2>4. s >= next_free
    BY <2>1, <2>2, <2>3, SMTT(20) DEF NoSpace, StorageInOrder, Slot, NoUnit
  <2>5. \A t \in Slot : t < s => state[t] = "active"
    BY <2>1, <2>2, <2>3, SMTT(20) DEF FirstFree, Free, TypeOK, Slot
  <2>6. \A t \in Slot : t >= next_free => state[t] # "active"
    BY <2>2, <2>3, SMTT(20) DEF EntriesApart, StorageInOrder, Slot
  <2>7. {t \in Slot : state[t] = "active"} = 1 .. Capacity
    BY <2>3, <2>4, <2>5, <2>6, SMTT(20) DEF Slot
  <2>8. Cardinality(1 .. Capacity) = Capacity
    <3>1. 1 \in Int /\ Capacity \in Int
      BY <2>3, SMTT(20)
    <3>2. Cardinality(1 .. Capacity) = IF 1 > Capacity THEN 0 ELSE Capacity - 1 + 1
      BY <3>1, FS_Interval, Zenon
    <3>3. QED
      BY <2>3, <3>2, SMTT(20)
  <2>9. QED
    BY <2>7, <2>8
<1>2. QED
  BY <1>1, Invariance, PTL

\* validate_endpoint reads the state and the rest of the entry at different times, and
\* still says yes only for an endpoint that was active while it ran.
THEOREM ValidationIsSound == Spec => []ValidateIsSound
<1>1. IInv => ValidateIsSound
  BY DEF IInv, PublishedIsPast
<1>2. QED
  BY <1>1, Invariance, PTL

\* A handle whose endpoint was unregistered stays dead: the generation tells it from
\* every later endpoint in the same entry.
THEOREM OldHandlesStayDead == Spec => NeverRevived
<1>1. ASSUME IInv, [Next]_vars, NEW h \in published, IsActive(h)' PROVE IsActive(h)
  <2>1. TypeOK /\ ManagerWaitedFor /\ WorkersOwn /\ PublishedIsPast
    BY <1>1 DEF IInv
  <2>2. h.slot \in Slot
    BY <2>1, HandleFacts DEF TypeOK
  <2>3. state'[h.slot] = "active" /\ HandleOf(h.slot)' = h
    BY <1>1 DEF IsActive
  <2>4. CASE UNCHANGED entries
    BY <1>1, <2>4 DEF IsActive, HandleOf, entries
  <2>5. CASE FillEntry
    <3>1. PICK s \in Slot : FillSlot(manager.who, s)
      BY <2>5 DEF FillEntry
    <3>2. h.slot # s /\ state' = state
      BY <2>3, <2>5, <3>1 DEF FillEntry, FillSlot, FirstFree, Free
    <3>3. /\ rpc_id'[h.slot] = rpc_id[h.slot] /\ generation'[h.slot] = generation[h.slot]
          /\ storage'[h.slot] = storage[h.slot]
      BY <2>1, <2>2, <3>1, <3>2 DEF FillSlot, TypeOK
    <3>4. QED
      BY <2>3, <3>2, <3>3 DEF IsActive, HandleOf
  <2>6. CASE Activate
    <3>1. UNCHANGED <<rpc_id, generation, storage>> /\ manager.phase = "activate"
      BY <2>6 DEF Activate
    <3>2. HandleOf(h.slot) = h
      BY <2>3, <3>1 DEF HandleOf
    <3>3. h.generation = generation[h.slot]
      BY <3>2, SMTT(20) DEF HandleOf
    <3>4. manager.slot # h.slot
      BY <2>1, <3>1, <3>3 DEF PublishedIsPast
    <3>5. state'[h.slot] = state[h.slot]
      BY <2>1, <2>2, <2>6, <3>4 DEF Activate, TypeOK
    <3>6. QED
      BY <2>3, <3>2, <3>5 DEF IsActive
  <2>7. CASE Unregister
    <3>1. UNCHANGED <<rpc_id, generation, storage>>
      BY <2>7 DEF Unregister
    <3>2. state[h.slot] = "active"
      BY <2>1, <2>2, <2>3, <2>7 DEF Unregister, TypeOK
    <3>3. QED
      BY <2>3, <3>1, <3>2 DEF IsActive, HandleOf
  <2>8. \/ UNCHANGED entries \/ FillEntry \/ Activate \/ Unregister
    BY <1>1 DEF Next, ManagerStep, WorkerStep, vars, DropClient, RejectRegistration, Connect,
       SendRequest, Registered, Mismatch, Finished, Crash, UseBlock, ReleaseBlock, Accept,
       BeginValidate, CompareEntry, EndValidate
  <2>9. QED
    BY <2>4, <2>5, <2>6, <2>7, <2>8
<1>2. IInv /\ [Next]_vars => [\A h \in published : ~IsActive(h) => ~IsActive(h)']_vars
  BY <1>1
<1>3. QED
  BY <1>2, Invariance, PTL DEF Spec, NeverRevived
=============================================================================
