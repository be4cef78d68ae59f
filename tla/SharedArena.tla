----------------------------- MODULE SharedArena -----------------------------
(***************************************************************************)
(* UBSharedAllocator: the reference-counted blocks of one endpoint's arena *)
(* in shared memory.  Threads of the endpoint's process allocate; threads  *)
(* of any machine add references, and whoever drops the last reference     *)
(* puts the block on the free list of its size class.                      *)
(*                                                                         *)
(* The grain is one access to a shared word, except that a store made      *)
(* while a class lock is held is joined with the unlock that follows it.   *)
(* An offset is a position in the arena, in units of the metadata size; 0  *)
(* is no offset.                                                           *)
(*                                                                         *)
(* `place' stands for the callers: it tells which block each reference (a  *)
(* MsgBuffer, or the descriptor a message travels in) refers to.  Any      *)
(* thread may be the one that drops a reference, since a descriptor moves  *)
(* it to the machine that receives it.  `freelist' (each class's free      *)
(* blocks, the top of the stack last) and `carved' (the blocks taken from  *)
(* the arena, with their class) record what the linked lists and the bump  *)
(* pointer are meant to represent; no step depends on them.                *)
(***************************************************************************)
EXTENDS Integers, Sequences, FiniteSets

CONSTANTS
  Thread,      \* all threads that can reach the arena
  Owner,       \* those of the process that registered the endpoint
  Ref,         \* the references callers can have at one time
  Classes,     \* kUBAllocatorClassCount
  ArenaEnd,    \* the arena holds the offsets 1 .. ArenaEnd
  MaxSize,     \* alloc is asked for 0 .. MaxSize
  GenModulus   \* block generations count modulo this (2^32)

ASSUME ThreadAssumption == Owner \subseteq Thread
ASSUME ClassAssumption == Classes \in Nat \ {0}
ASSUME ArenaAssumption == ArenaEnd \in Nat /\ MaxSize \in Nat
ASSUME GenAssumption == GenModulus \in Nat /\ GenModulus > 1
ASSUME RefAssumption == IsFiniteSet(Ref)

VARIABLES
  registered,                          \* the endpoint's registry entry
  bump_offset, active_blocks,          \* the arena header
  free_heads, class_locks,
  state, generation, ref_count,        \* the block metadata, by offset
  size_class, next_free_offset,
  pc, block, class, expected,          \* a thread's call and its locals
  place,                               \* the block each reference is to
  carved, freelist,                    \* what the header represents
  thrown                               \* the exception raised, if any

header == <<bump_offset, active_blocks, free_heads, class_locks>>
metadata == <<state, generation, ref_count, size_class, next_free_offset>>
locals == <<pc, block, class, expected>>
vars == <<registered, header, metadata, locals, place, carved, freelist, thrown>>

Class == 0 .. Classes - 1
Offset == 1 .. ArenaEnd
None == 0

-----------------------------------------------------------------------------
\* class_capacity and class_for: powers of two from the smallest class up.
class_capacity(c) == 2 ^ c

ASSUME CapacityAssumption == \A c \in Class : class_capacity(c) \in Nat \ {0}

class_for(size) ==
  LET walk[i \in Class] ==
        IF class_capacity(i) < size /\ i + 1 < Classes THEN walk[i + 1]
        ELSE IF class_capacity(i) >= size THEN i ELSE Classes
  IN walk[0]

\* One unit of metadata, then the payload.
BlockUnits(c) == 1 + class_capacity(c)

NextGeneration(g) == IF g + 1 = GenModulus THEN 1 ELSE g + 1

Held(o) == {r \in Ref : place[r] = o}

\* The region owner has zeroed the new arena and initialised its header.
Init ==
  /\ registered = TRUE
  /\ bump_offset = 1
  /\ active_blocks = 0
  /\ free_heads = [c \in Class |-> None]
  /\ class_locks = [c \in Class |-> 0]
  /\ state = [o \in Offset |-> "free"]
  /\ generation = [o \in Offset |-> 0]
  /\ ref_count = [o \in Offset |-> 0]
  /\ size_class = [o \in Offset |-> 0]
  /\ next_free_offset = [o \in Offset |-> None]
  /\ pc = [t \in Thread |-> "idle"]
  /\ block = [t \in Thread |-> None]
  /\ class = [t \in Thread |-> 0]
  /\ expected = [t \in Thread |-> 0]
  /\ place = [r \in Ref |-> None]
  /\ carved = {}
  /\ freelist = [c \in Class |-> <<>>]
  /\ thrown = "none"

Goto(t, from, to) == pc[t] = from /\ pc' = [pc EXCEPT ![t] = to]

-----------------------------------------------------------------------------
\* alloc

\* A size of zero, or above the largest class, is refused before any access.
BeginAlloc(t) ==
  /\ registered
  /\ Goto(t, "idle", "lock")
  /\ \E size \in 1 .. MaxSize, c \in Class :
       c = class_for(size) /\ class' = [class EXCEPT ![t] = c]
  /\ UNCHANGED <<registered, header, metadata, block, expected, place, carved,
                 freelist, thrown>>

\* Mutant of lock_class: the exchange does not look at the old value.
lock_class_blind(t, c) == class_locks' = [class_locks EXCEPT ![c] = 1]

lock_class(t, c) ==
  /\ class_locks[c] = 0
  /\ class_locks' = [class_locks EXCEPT ![c] = 1]

AllocLock(t) ==
  /\ Goto(t, "lock", "load")
  /\ lock_class(t, class[t])
  /\ UNCHANGED <<registered, bump_offset, active_blocks, free_heads, metadata,
                 block, class, expected, place, carved, freelist, thrown>>

LoadHead(t) ==
  /\ Goto(t, "load", "pop")
  /\ block' = [block EXCEPT ![t] = free_heads[class[t]]]
  /\ UNCHANGED <<registered, header, metadata, class, expected, place, carved,
                 freelist, thrown>>

\* Store the new head and unlock.
PopHead(t) ==
  /\ block[t] # None
  /\ Goto(t, "pop", "fill")
  /\ free_heads' = [free_heads EXCEPT ![class[t]] = next_free_offset[block[t]]]
  /\ class_locks' = [class_locks EXCEPT ![class[t]] = 0]
  /\ freelist' = [freelist EXCEPT ![class[t]] = SubSeq(@, 1, Len(@) - 1)]
  /\ UNCHANGED <<registered, bump_offset, active_blocks, metadata, block, class,
                 expected, place, carved, thrown>>

\* The free list is empty: unlock, then read the bump pointer.
ListEmpty(t) ==
  /\ block[t] = None
  /\ Goto(t, "pop", "bump")
  /\ class_locks' = [class_locks EXCEPT ![class[t]] = 0]
  /\ UNCHANGED <<registered, bump_offset, active_blocks, free_heads, metadata,
                 block, class, expected, place, carved, freelist, thrown>>

LoadBump(t) ==
  /\ Goto(t, "bump", "cas")
  /\ expected' = [expected EXCEPT ![t] = bump_offset]
  /\ UNCHANGED <<registered, header, metadata, block, class, place, carved,
                 freelist, thrown>>

NoRoom(t) == expected[t] + BlockUnits(class[t]) > ArenaEnd + 1

\* alloc returns an empty Buffer.
ArenaFull(t) ==
  /\ NoRoom(t)
  /\ Goto(t, "cas", "idle")
  /\ class' = [class EXCEPT ![t] = 0]
  /\ expected' = [expected EXCEPT ![t] = 0]
  /\ UNCHANGED <<registered, header, metadata, block, place, carved, freelist,
                 thrown>>

\* Mutant of CasBump: the metadata's own space is not counted.
CasBumpPayloadOnly(t) ==
  /\ ~NoRoom(t)
  /\ IF bump_offset = expected[t]
       THEN /\ Goto(t, "cas", "fill")
            /\ bump_offset' = expected[t] + class_capacity(class[t])
            /\ block' = [block EXCEPT ![t] = expected[t]]
            /\ carved' = carved \cup {<<expected[t], class[t]>>}
            /\ expected' = [expected EXCEPT ![t] = 0]
       ELSE /\ pc[t] = "cas"
            /\ expected' = [expected EXCEPT ![t] = bump_offset]
            /\ UNCHANGED <<pc, bump_offset, block, carved>>
  /\ UNCHANGED <<registered, active_blocks, free_heads, class_locks, metadata,
                 class, place, freelist, thrown>>

\* A CAS that fails has loaded the pointer it found.
CasBump(t) ==
  /\ ~NoRoom(t)
  /\ IF bump_offset = expected[t]
       THEN /\ Goto(t, "cas", "fill")
            /\ bump_offset' = expected[t] + BlockUnits(class[t])
            /\ block' = [block EXCEPT ![t] = expected[t]]
            /\ carved' = carved \cup {<<expected[t], class[t]>>}
            /\ expected' = [expected EXCEPT ![t] = 0]
       ELSE /\ pc[t] = "cas"
            /\ expected' = [expected EXCEPT ![t] = bump_offset]
            /\ UNCHANGED <<pc, bump_offset, block, carved>>
  /\ UNCHANGED <<registered, active_blocks, free_heads, class_locks, metadata,
                 class, place, freelist, thrown>>

\* The plain stores to the block's metadata.
FillMetadata(t) ==
  /\ Goto(t, "fill", "count")
  /\ generation' = [generation EXCEPT ![block[t]] = NextGeneration(@)]
  /\ ref_count' = [ref_count EXCEPT ![block[t]] = 1]
  /\ size_class' = [size_class EXCEPT ![block[t]] = class[t]]
  /\ next_free_offset' = [next_free_offset EXCEPT ![block[t]] = None]
  /\ UNCHANGED <<registered, header, state, block, class, expected, place,
                 carved, freelist, thrown>>

CountActive(t) ==
  /\ Goto(t, "count", "publish")
  /\ active_blocks' = active_blocks + 1
  /\ UNCHANGED <<registered, bump_offset, free_heads, class_locks, metadata,
                 block, class, expected, place, carved, freelist, thrown>>

\* The caller has the block's first reference.
PublishBlock(t) ==
  /\ Goto(t, "publish", "idle")
  /\ state' = [state EXCEPT ![block[t]] = "allocated"]
  /\ \E r \in Held(None) : place' = [place EXCEPT ![r] = block[t]]
  /\ block' = [block EXCEPT ![t] = None]
  /\ class' = [class EXCEPT ![t] = 0]
  /\ UNCHANGED <<registered, header, generation, ref_count, size_class,
                 next_free_offset, expected, carved, freelist, thrown>>

-----------------------------------------------------------------------------
\* add_ref, by a caller that holds a reference.
AddRef(t, r) ==
  /\ pc[t] = "idle"
  /\ place[r] # None
  /\ \E s \in Held(None) :
       IF state[place[r]] = "allocated"
         THEN /\ ref_count' = [ref_count EXCEPT ![place[r]] = @ + 1]
              /\ place' = [place EXCEPT ![s] = place[r]]
              /\ UNCHANGED thrown
         ELSE thrown' = "add_ref on invalid block" /\ UNCHANGED <<ref_count, place>>
  /\ UNCHANGED <<registered, header, state, generation, size_class,
                 next_free_offset, locals, carved, freelist>>

-----------------------------------------------------------------------------
\* release_metadata, called by free and release_remote_ref

FetchSub(t, r) ==
  /\ pc[t] = "idle"
  /\ place[r] # None
  /\ LET o == place[r] IN
       /\ ref_count' = [ref_count EXCEPT ![o] = @ - 1]
       /\ place' = [place EXCEPT ![r] = None]
       /\ IF ref_count[o] = 1
            THEN /\ pc' = [pc EXCEPT ![t] = "mark"]
                 /\ block' = [block EXCEPT ![t] = o]
            ELSE UNCHANGED <<pc, block>>
       /\ thrown' = IF ref_count[o] = 0 THEN "reference underflow" ELSE thrown
  /\ UNCHANGED <<registered, header, state, generation, size_class,
                 next_free_offset, class, expected, carved, freelist>>

\* Mutant of MarkFree: the block is not put on a free list.
MarkFreeUnlisted(t) ==
  /\ Goto(t, "mark", "uncount")
  /\ state' = [state EXCEPT ![block[t]] = "free"]
  /\ block' = [block EXCEPT ![t] = None]
  /\ UNCHANGED <<registered, header, generation, ref_count, size_class,
                 next_free_offset, class, expected, place, carved,
                 freelist, thrown>>

\* Mutant of MarkFree: the block stops counting before it is on the free list.
MarkFreeUncounts(t) ==
  /\ Goto(t, "mark", "relock")
  /\ state' = [state EXCEPT ![block[t]] = "free"]
  /\ active_blocks' = active_blocks - 1
  /\ UNCHANGED <<registered, bump_offset, free_heads, class_locks, generation,
                 ref_count, size_class, next_free_offset, block, class,
                 expected, place, carved, freelist, thrown>>

MarkFree(t) ==
  /\ Goto(t, "mark", "relock")
  /\ state' = [state EXCEPT ![block[t]] = "free"]
  /\ UNCHANGED <<registered, header, generation, ref_count, size_class,
                 next_free_offset, block, class, expected, place, carved,
                 freelist, thrown>>

FreeLock(t) ==
  /\ Goto(t, "relock", "link")
  /\ lock_class(t, size_class[block[t]])
  /\ UNCHANGED <<registered, bump_offset, active_blocks, free_heads, metadata,
                 block, class, expected, place, carved, freelist, thrown>>

\* Mutant of LinkNext: the rest of the list is not linked behind the block.
LinkNextForgotten(t) ==
  /\ Goto(t, "link", "push")
  /\ UNCHANGED <<registered, header, metadata, block, class, expected, place,
                 carved, freelist, thrown>>

LinkNext(t) ==
  /\ Goto(t, "link", "push")
  /\ next_free_offset' = [next_free_offset EXCEPT ![block[t]] =
                            free_heads[size_class[block[t]]]]
  /\ UNCHANGED <<registered, header, state, generation, ref_count, size_class,
                 block, class, expected, place, carved, freelist, thrown>>

\* Store the new head and unlock.
PushHead(t) ==
  /\ Goto(t, "push", "uncount")
  /\ free_heads' = [free_heads EXCEPT ![size_class[block[t]]] = block[t]]
  /\ class_locks' = [class_locks EXCEPT ![size_class[block[t]]] = 0]
  /\ freelist' = [freelist EXCEPT ![size_class[block[t]]] = Append(@, block[t])]
  /\ block' = [block EXCEPT ![t] = None]
  /\ UNCHANGED <<registered, bump_offset, active_blocks, metadata, class,
                 expected, place, carved, thrown>>

UncountActive(t) ==
  /\ Goto(t, "uncount", "idle")
  /\ active_blocks' = active_blocks - 1
  /\ thrown' = IF active_blocks = 0 THEN "active block underflow" ELSE thrown
  /\ UNCHANGED <<registered, bump_offset, free_heads, class_locks, metadata,
                 block, class, expected, place, carved, freelist>>

-----------------------------------------------------------------------------
\* Mutant of Unregister: active blocks do not keep the endpoint registered.
UnregisterAnyway ==
  /\ registered
  /\ \A t \in Owner : pc[t] = "idle"
  /\ registered' = FALSE
  /\ UNCHANGED <<header, metadata, locals, place, carved, freelist, thrown>>

\* unregister_endpoint, called by the destructor of the endpoint's transport
\* when its process makes no call any more; refused while a block is active.
Unregister ==
  /\ registered
  /\ \A t \in Owner : pc[t] = "idle"
  /\ active_blocks = 0
  /\ registered' = FALSE
  /\ UNCHANGED <<header, metadata, locals, place, carved, freelist, thrown>>

\* register_endpoint on the same registry entry: ub_initialize_arena resets
\* the header; the metadata of the old blocks is left as it is.
Register ==
  /\ ~registered
  /\ registered' = TRUE
  /\ bump_offset' = 1
  /\ active_blocks' = 0
  /\ free_heads' = [c \in Class |-> None]
  /\ class_locks' = [c \in Class |-> 0]
  /\ carved' = {}
  /\ freelist' = [c \in Class |-> <<>>]
  /\ UNCHANGED <<metadata, locals, place, thrown>>

AllocStep(t) ==
  \/ BeginAlloc(t) \/ AllocLock(t) \/ LoadHead(t) \/ PopHead(t) \/ ListEmpty(t)
  \/ LoadBump(t) \/ ArenaFull(t) \/ CasBump(t)
  \/ FillMetadata(t) \/ CountActive(t) \/ PublishBlock(t)

ReleaseStep(t) ==
  \/ MarkFree(t) \/ FreeLock(t) \/ LinkNext(t) \/ PushHead(t) \/ UncountActive(t)

Next ==
  \/ \E t \in Owner : AllocStep(t)
  \/ \E t \in Thread : ReleaseStep(t) \/ \E r \in Ref : AddRef(t, r) \/ FetchSub(t, r)
  \/ Unregister
  \/ Register

Spec == Init /\ [][Next]_vars

-----------------------------------------------------------------------------
\* Properties

AllocPc == {"lock", "load", "pop", "bump", "cas", "fill", "count", "publish"}
ReleasePc == {"mark", "relock", "link", "push", "uncount"}

\* The block metadata, the free lists and the arena header stay within their types; in
\* particular the bump pointer stays within the arena.
TypeOK ==
  /\ registered \in BOOLEAN
  /\ bump_offset \in 1 .. ArenaEnd + 1
  /\ active_blocks \in Nat
  /\ free_heads \in [Class -> Offset \cup {None}]
  /\ class_locks \in [Class -> {0, 1}]
  /\ state \in [Offset -> {"free", "allocated"}]
  /\ generation \in [Offset -> 0 .. GenModulus - 1]
  /\ ref_count \in [Offset -> Nat]
  /\ size_class \in [Offset -> Class]
  /\ next_free_offset \in [Offset -> Offset \cup {None}]
  /\ pc \in [Thread -> {"idle"} \cup AllocPc \cup ReleasePc]
  /\ block \in [Thread -> Offset \cup {None}]
  /\ class \in [Thread -> Class]
  /\ expected \in [Thread -> 0 .. ArenaEnd + 1]
  /\ place \in [Ref -> Offset \cup {None}]
  /\ carved \subseteq Offset \X Class
  /\ freelist \in [Class -> Seq(Offset)]
  /\ thrown \in {"none", "add_ref on invalid block", "reference underflow",
                 "active block underflow"}

\* A thread that has taken a block for itself: popped or carved it, or dropped
\* its last reference.
InHand(t) ==
  pc[t] \in {"fill", "count", "publish", "mark", "relock", "link", "push"}

Listed(o) == \E c \in Class : \E i \in 1 .. Len(freelist[c]) : freelist[c][i] = o

\* A block's count is the number of references callers have to it, and a
\* block with references is marked allocated: the thread that sees the count
\* reach zero is the only one left.  So add_ref, free and release_remote_ref
\* never throw for callers that release each reference once.
RefCountExact ==
  /\ TypeOK /\ thrown = "none"
  /\ \A o \in Offset : Held(o) # {} =>
       /\ state[o] = "allocated"
       /\ ref_count[o] = Cardinality(Held(o))
       /\ ~Listed(o)
       /\ \A t \in Thread : InHand(t) => block[t] # o

\* Two blocks that callers hold references to do not overlap, and both lie
\* below the bump pointer: alloc never hands out the same memory twice.
Extent(o) == o .. o + BlockUnits(size_class[o]) - 1
PayloadsDisjoint ==
  \A o, q \in Offset : Held(o) # {} /\ Held(q) # {} =>
    /\ Extent(o) \subseteq 1 .. bump_offset - 1
    /\ o # q => Extent(o) \cap Extent(q) = {}

\* The links that start at a class's free head lead through the free blocks of
\* that class, each once, and end: no block is lost or listed twice.
FreeListsLinked ==
  \A c \in Class :
    LET At(i) == IF i = 0 THEN None ELSE freelist[c][i]
    IN /\ free_heads[c] = At(Len(freelist[c]))
       /\ \A i \in 1 .. Len(freelist[c]) :
            /\ next_free_offset[freelist[c][i]] = At(i - 1)
            /\ size_class[freelist[c][i]] = c
            /\ \A j \in 1 .. Len(freelist[c]) : freelist[c][i] = freelist[c][j] => i = j

\* Every block carved from the arena is free, referenced, or in the hands of
\* the one thread that is allocating or releasing it: no block leaks.
NoBlockLost ==
  \A b \in carved :
    \/ Listed(b[1])
    \/ Held(b[1]) # {}
    \/ \E t \in Thread : InHand(t) /\ block[t] = b[1]

\* active_blocks = 0 means what unregister_endpoint takes it to mean: nobody
\* has a reference and no thread, local or remote, is still inside a release.
\* The header can be overwritten by the next incarnation.
ZeroActiveIsQuiet ==
  (active_blocks = 0 /\ \A t \in Owner : pc[t] = "idle") =>
    /\ \A r \in Ref : place[r] = None
    /\ \A t \in Thread : pc[t] = "idle"

\* While somebody holds a reference to a block, the block keeps its generation
\* and size class: no allocation, in this or a later incarnation of the arena,
\* takes it from under the holder.
HeldBlockStable ==
  [][\A o \in Offset : Held(o) # {} /\ Held(o)' # {} =>
       generation'[o] = generation[o] /\ size_class'[o] = size_class[o]]_vars
=============================================================================
