-------------------------- MODULE SharedArenaProofs --------------------------
(***************************************************************************)
(* The shared arena, proved for any number of threads, references and size *)
(* classes, any arena and any generation modulus: the inductive invariant, *)
(* that Init and every step of every thread keep it, and the properties    *)
(* that it gives.                                                          *)
(*                                                                         *)
(* The invariant says where a carved block can be: on the free list of its *)
(* class, held by callers, or in the hand of one thread, and never in two  *)
(* of these places; what the thread that has a class lock may rely on; and *)
(* what active_blocks counts.                                              *)
(***************************************************************************)
EXTENDS SharedArena, TLAPS

-----------------------------------------------------------------------------
\* Sequences

\* A function on 1 .. n is a sequence of length n.
LEMMA FunctionIsSeq ==
  ASSUME NEW S, NEW n \in Nat, NEW f \in [1 .. n -> S]
  PROVE  f \in Seq(S) /\ Len(f) = n
OBVIOUS

\* A sequence without its last element.
LEMMA FrontIs ==
  ASSUME NEW S, NEW s \in Seq(S), Len(s) > 0
  PROVE  /\ SubSeq(s, 1, Len(s) - 1) \in Seq(S)
         /\ Len(SubSeq(s, 1, Len(s) - 1)) = Len(s) - 1
         /\ \A i \in 1 .. Len(s) - 1 : SubSeq(s, 1, Len(s) - 1)[i] = s[i]
<1> DEFINE n == Len(s) - 1
<1>1. n \in Nat /\ \A i \in 1 .. n : s[i] \in S
  OBVIOUS
<1>2. SubSeq(s, 1, n) = [i \in 1 .. n |-> s[i]]
  OBVIOUS
<1> HIDE DEF n
<1>3. [i \in 1 .. n |-> s[i]] \in [1 .. n -> S]
  BY <1>1
<1>4. SubSeq(s, 1, n) \in Seq(S) /\ Len(SubSeq(s, 1, n)) = n
  BY <1>1, <1>2, <1>3, FunctionIsSeq
<1>5. \A i \in 1 .. n : SubSeq(s, 1, n)[i] = s[i]
  BY <1>2
<1>6. QED
  BY <1>4, <1>5 DEF n

\* A sequence with one element more at its end.
LEMMA AppendFacts ==
  ASSUME NEW S, NEW s \in Seq(S), NEW e \in S
  PROVE  /\ Append(s, e) \in Seq(S)
         /\ Len(Append(s, e)) = Len(s) + 1
         /\ \A i \in 1 .. Len(s) : Append(s, e)[i] = s[i]
         /\ Append(s, e)[Len(s) + 1] = e
OBVIOUS

-----------------------------------------------------------------------------
USE ZenonT(30)

\* Held, Listed and the links of a free list, as operators of the state they are about.
HeldBy(pl, o) == {r \in Ref : pl[r] = o}

OnList(lists, o) == \E c \in Class : \E i \in 1 .. Len(lists[c]) : lists[c][i] = o

ListOK(s, head, next, sc, c) ==
  /\ head = IF Len(s) = 0 THEN None ELSE s[Len(s)]
  /\ \A i \in 1 .. Len(s) :
       /\ next[s[i]] = IF i = 1 THEN None ELSE s[i - 1]
       /\ sc[s[i]] = c
       /\ \A j \in 1 .. Len(s) : s[i] = s[j] => i = j

\* The blocks lie below the bump pointer and do not overlap.
BlocksApart ==
  \A o, q \in Offset, c, d \in Class : <<o, c>> \in carved /\ <<q, d>> \in carved =>
    /\ o + BlockUnits(c) <= bump_offset
    /\ (o = q /\ c = d) \/ o + BlockUnits(c) <= q \/ q + BlockUnits(d) <= o

\* A free list is linked, and its blocks were carved with its class.
ListsOK ==
  \A c \in Class :
    /\ ListOK(freelist[c], free_heads[c], next_free_offset, size_class, c)
    /\ \A i \in 1 .. Len(freelist[c]) : <<freelist[c][i], c>> \in carved

\* A block that callers hold is not on a list, and its count is exact.
HeldIsCounted ==
  \A o \in Offset : HeldBy(place, o) # {} =>
    /\ <<o, size_class[o]>> \in carved
    /\ state[o] = "allocated"
    /\ ref_count[o] = Cardinality(HeldBy(place, o))
    /\ ~OnList(freelist, o)

\* A block in a thread's hand is in no other place.  Its class is in its metadata
\* once the thread has filled that in.
HandIsAlone ==
  \A t \in Thread : InHand(t) =>
    /\ block[t] \in Offset
    /\ <<block[t], IF pc[t] = "fill" THEN class[t] ELSE size_class[block[t]]>> \in carved
    /\ HeldBy(place, block[t]) = {}
    /\ ~OnList(freelist, block[t])
    /\ \A u \in Thread : InHand(u) /\ block[u] = block[t] => u = t
    /\ pc[t] \in {"count", "publish"} => ref_count[block[t]] = 1

\* Every carved block is somewhere.
Somewhere ==
  \A o \in Offset, c \in Class : <<o, c>> \in carved =>
    \/ OnList(freelist, o)
    \/ HeldBy(place, o) # {}
    \/ \E t \in Thread : InHand(t) /\ block[t] = o

\* The thread that has taken the lock of class c.
Holds(t, c) ==
  \/ pc[t] \in {"load", "pop"} /\ class[t] = c
  \/ pc[t] \in {"link", "push"} /\ size_class[block[t]] = c

\* A class lock is taken by one thread at a time, and the list's head stays what that
\* thread has seen.
LocksExclude ==
  /\ \A c \in Class, t \in Thread : Holds(t, c) =>
       class_locks[c] = 1 /\ \A u \in Thread : Holds(u, c) => u = t
  /\ \A t \in Thread :
       /\ pc[t] = "pop" => block[t] = free_heads[class[t]]
       /\ pc[t] = "push" => next_free_offset[block[t]] = free_heads[size_class[block[t]]]

\* What active_blocks counts: the blocks that callers hold, and the threads that have
\* counted a block which is not yet, or no longer, held.
HeldBlocks(pl) == {o \in Offset : HeldBy(pl, o) # {}}
CountPc == {"publish", "mark", "relock", "link", "push", "uncount"}
Counting(p) == {t \in Thread : p[t] \in CountPc}

ActiveIsCounted ==
  /\ IsFiniteSet(Counting(pc))
  /\ active_blocks = Cardinality(HeldBlocks(place)) + Cardinality(Counting(pc))

\* Only the endpoint's own threads allocate, none while it is not registered.
OwnersAllocate ==
  /\ \A t \in Thread : pc[t] \in AllocPc => t \in Owner
  /\ \A t \in Thread : pc[t] = "cas" => expected[t] >= 1
  /\ ~registered => active_blocks = 0 /\ \A t \in Owner : pc[t] = "idle"

IInv ==
  /\ TypeOK
  /\ thrown = "none"
  /\ BlocksApart
  /\ ListsOK
  /\ HeldIsCounted
  /\ HandIsAlone
  /\ Somewhere
  /\ LocksExclude
  /\ ActiveIsCounted
  /\ OwnersAllocate

-----------------------------------------------------------------------------
\* Cardinalities.  The lemmas take the laws of finite sets that they use as one
\* hypothesis, which Laws discharges.
CardLaws ==
  /\ \A S : IsFiniteSet(S) => Cardinality(S) \in Nat /\ (Cardinality(S) = 0 <=> S = {})
  /\ \A S, x : IsFiniteSet(S) /\ x \notin S =>
       IsFiniteSet(S \cup {x}) /\ Cardinality(S \cup {x}) = Cardinality(S) + 1
  /\ \A S, x : IsFiniteSet(S) /\ x \in S =>
       /\ IsFiniteSet(S \ {x}) /\ Cardinality(S \ {x}) = Cardinality(S) - 1
       /\ Cardinality(S) = 1 <=> S = {x}
  /\ \A S, T : IsFiniteSet(S) /\ T \subseteq S => IsFiniteSet(T)
  /\ \A n \in Nat : IsFiniteSet(1 .. n)

\* A finite set has a natural number of elements, zero if it is empty.
LEMMA CardFacts ==
  ASSUME CardLaws, NEW S, IsFiniteSet(S)
  PROVE  Cardinality(S) \in Nat /\ (Cardinality(S) = 0 <=> S = {})
BY DEF CardLaws

\* One element more, one element less, and the only element.
LEMMA CardAdd ==
  ASSUME CardLaws, NEW S, IsFiniteSet(S), NEW x, x \notin S
  PROVE  IsFiniteSet(S \cup {x}) /\ Cardinality(S \cup {x}) = Cardinality(S) + 1
BY DEF CardLaws

\* One member less.
LEMMA CardRemove ==
  ASSUME CardLaws, NEW S, IsFiniteSet(S), NEW x, x \in S
  PROVE  IsFiniteSet(S \ {x}) /\ Cardinality(S \ {x}) = Cardinality(S) - 1
BY DEF CardLaws

\* A set of one member.
LEMMA CardOne ==
  ASSUME CardLaws, NEW S, IsFiniteSet(S), NEW x, x \in S
  PROVE  Cardinality(S) = 1 <=> S = {x}
BY DEF CardLaws

\* A part of a finite set, and an interval, are finite.
LEMMA CardPart ==
  ASSUME CardLaws, NEW S, IsFiniteSet(S), NEW T, T \subseteq S
  PROVE  IsFiniteSet(T)
BY DEF CardLaws

\* The numbers 1 .. n are finitely many.
LEMMA CardInterval ==
  ASSUME CardLaws, NEW n \in Nat
  PROVE  IsFiniteSet(1 .. n)
BY DEF CardLaws

-----------------------------------------------------------------------------
\* What the operators of the state compute

\* A block takes at least two units.
LEMMA UnitFacts ==
  \A c \in Class : BlockUnits(c) \in Nat /\ BlockUnits(c) >= 2
BY CapacityAssumption, SMTT(20) DEF BlockUnits

\* The references to a block are finitely many.
LEMMA HeldFacts ==
  ASSUME CardLaws, NEW pl, NEW o
  PROVE  /\ IsFiniteSet(HeldBy(pl, o))
         /\ Cardinality(HeldBy(pl, o)) \in Nat
         /\ Cardinality(HeldBy(pl, o)) = 0 <=> HeldBy(pl, o) = {}
<1>1. HeldBy(pl, o) \subseteq Ref
  BY DEF HeldBy
<1>2. IsFiniteSet(HeldBy(pl, o))
  BY <1>1, RefAssumption, CardPart
<1>3. QED
  BY <1>2, CardFacts

\* Who is in HeldBy.
LEMMA HeldMember ==
  ASSUME NEW pl, NEW o, NEW r
  PROVE  r \in HeldBy(pl, o) <=> r \in Ref /\ pl[r] = o
BY DEF HeldBy

\* So are the blocks that callers hold.
LEMMA HeldBlocksFacts ==
  ASSUME CardLaws, NEW pl
  PROVE  IsFiniteSet(HeldBlocks(pl)) /\ Cardinality(HeldBlocks(pl)) \in Nat
<1>1. HeldBlocks(pl) \subseteq 1 .. ArenaEnd /\ IsFiniteSet(1 .. ArenaEnd)
  BY ArenaAssumption, CardInterval DEF HeldBlocks, Offset
<1>2. QED
  BY <1>1, CardPart, CardFacts

\* PushHead puts one block on a list.
LEMMA ListedPush ==
  ASSUME NEW lists \in [Class -> Seq(Offset)], NEW c \in Class, NEW o \in Offset
  PROVE  \A q : OnList([lists EXCEPT ![c] = Append(@, o)], q) <=> OnList(lists, q) \/ q = o
<1> DEFINE new == [lists EXCEPT ![c] = Append(@, o)]
<1>1. /\ lists[c] \in Seq(Offset) /\ Len(lists[c]) \in Nat
      /\ new[c] = Append(lists[c], o) /\ \A d \in Class \ {c} : new[d] = lists[d]
  BY SMTT(20)
<1>2. /\ Len(new[c]) = Len(lists[c]) + 1
      /\ \A i \in 1 .. Len(lists[c]) : new[c][i] = lists[c][i]
      /\ new[c][Len(lists[c]) + 1] = o
  BY <1>1, AppendFacts, SMTT(20)
<1> HIDE DEF new
<1>3. ASSUME NEW q, OnList(lists, q) PROVE OnList(new, q)
  BY <1>1, <1>2, <1>3, SMTT(20) DEF OnList
<1>4. OnList(new, o)
  BY <1>1, <1>2, SMTT(20) DEF OnList
<1>5. ASSUME NEW q, OnList(new, q), q # o PROVE OnList(lists, q)
  <2>1. PICK d \in Class : \E i \in 1 .. Len(new[d]) : new[d][i] = q
    BY <1>5 DEF OnList
  <2>2. PICK i \in 1 .. Len(new[d]) : new[d][i] = q
    BY <2>1
  <2>3. CASE d = c
    <3>1. i \in 1 .. Len(lists[c])
      BY <1>1, <1>2, <1>5, <2>2, <2>3, SMTT(20)
    <3>2. QED
      BY <1>2, <2>2, <2>3, <3>1 DEF OnList
  <2>4. CASE d # c
    BY <1>1, <2>2, <2>4 DEF OnList
  <2>5. QED
    BY <2>3, <2>4
<1>6. QED
  BY <1>3, <1>4, <1>5 DEF new

\* PopHead takes the last block off a list that has each block once.
LEMMA ListedPop ==
  ASSUME NEW lists \in [Class -> Seq(Offset)], NEW c \in Class, Len(lists[c]) > 0,
         \A d, e \in Class : \A i \in 1 .. Len(lists[d]), j \in 1 .. Len(lists[e]) :
           lists[d][i] = lists[e][j] => d = e /\ i = j
  PROVE  \A q : OnList([lists EXCEPT ![c] = SubSeq(@, 1, Len(@) - 1)], q)
                  <=> OnList(lists, q) /\ q # lists[c][Len(lists[c])]
<1> DEFINE new == [lists EXCEPT ![c] = SubSeq(@, 1, Len(@) - 1)]
           o == lists[c][Len(lists[c])]
<1>1. /\ lists[c] \in Seq(Offset) /\ Len(lists[c]) \in Nat
      /\ new[c] = SubSeq(lists[c], 1, Len(lists[c]) - 1)
      /\ \A d \in Class \ {c} : new[d] = lists[d]
  BY SMTT(20)
<1>2. /\ Len(new[c]) = Len(lists[c]) - 1
      /\ \A i \in 1 .. Len(lists[c]) - 1 : new[c][i] = lists[c][i]
  BY <1>1, FrontIs
<1> HIDE DEF new
<1>3. ASSUME NEW q, OnList(new, q) PROVE OnList(lists, q) /\ q # o
  <2>1. PICK d \in Class : \E i \in 1 .. Len(new[d]) : new[d][i] = q
    BY <1>3 DEF OnList
  <2>2. PICK i \in 1 .. Len(new[d]) : new[d][i] = q
    BY <2>1
  <2>3. i \in 1 .. Len(lists[d]) /\ lists[d][i] = q /\ (d = c => i # Len(lists[c]))
    BY <1>1, <1>2, <2>2, SMTT(20)
  <2>4. Len(lists[c]) \in 1 .. Len(lists[c])
    BY <1>1, SMTT(20)
  <2>5. QED
    BY <2>3, <2>4 DEF OnList
<1>4. ASSUME NEW q, OnList(lists, q), q # o PROVE OnList(new, q)
  <2>1. PICK d \in Class : \E i \in 1 .. Len(lists[d]) : lists[d][i] = q
    BY <1>4 DEF OnList
  <2>2. PICK i \in 1 .. Len(lists[d]) : lists[d][i] = q
    BY <2>1
  <2>3. i \in 1 .. Len(new[d]) /\ new[d][i] = q
    BY <1>1, <1>2, <1>4, <2>2, SMTT(20)
  <2>4. QED
    BY <2>3 DEF OnList
<1>5. QED
  BY <1>3, <1>4 DEF new

\* A list is linked after PushHead, if the block was linked in front of it.
LEMMA ListPush ==
  ASSUME NEW s \in Seq(Offset), NEW head, NEW next, NEW sc, NEW c, NEW o \in Offset,
         ListOK(s, head, next, sc, c), next[o] = head, sc[o] = c,
         \A i \in 1 .. Len(s) : s[i] # o
  PROVE  ListOK(Append(s, o), o, next, sc, c)
<1> DEFINE n == Append(s, o)
<1>1. /\ Len(s) \in Nat /\ Len(n) = Len(s) + 1 /\ n[Len(s) + 1] = o
      /\ \A i \in 1 .. Len(s) : n[i] = s[i]
  BY AppendFacts, SMTT(20)
<1> HIDE DEF n
<1>2. o = IF Len(n) = 0 THEN None ELSE n[Len(n)]
  BY <1>1, SMTT(20)
<1>3. ASSUME NEW i \in 1 .. Len(n)
      PROVE  next[n[i]] = IF i = 1 THEN None ELSE n[i - 1]
  <2>1. CASE i = Len(s) + 1
    BY <1>1, <2>1, SMTT(20) DEF ListOK
  <2>2. CASE i \in 1 .. Len(s)
    BY <1>1, <2>2, SMTT(20) DEF ListOK
  <2>3. QED
    BY <1>1, <2>1, <2>2, SMTT(20)
<1>4. ASSUME NEW i \in 1 .. Len(n) PROVE sc[n[i]] = c
  BY <1>1, SMTT(20) DEF ListOK
<1>5. ASSUME NEW i \in 1 .. Len(n), NEW j \in 1 .. Len(n), n[i] = n[j] PROVE i = j
  BY <1>1, <1>5, SMTT(20) DEF ListOK
<1>6. QED
  BY <1>2, <1>3, <1>4, <1>5 DEF ListOK, n

\* A list is linked after PopHead, which makes the next block the head.
LEMMA ListPop ==
  ASSUME NEW s \in Seq(Offset), NEW head, NEW next, NEW sc, NEW c,
         ListOK(s, head, next, sc, c), Len(s) > 0
  PROVE  ListOK(SubSeq(s, 1, Len(s) - 1), next[head], next, sc, c)
<1> DEFINE n == SubSeq(s, 1, Len(s) - 1)
<1>1. /\ Len(s) \in Nat /\ Len(n) = Len(s) - 1
      /\ \A i \in 1 .. Len(s) - 1 : n[i] = s[i]
  BY FrontIs, SMTT(20)
<1> HIDE DEF n
<1>2. head = s[Len(s)] /\ Len(s) \in 1 .. Len(s)
  BY <1>1, SMTT(20) DEF ListOK
<1>3. next[head] = IF Len(n) = 0 THEN None ELSE n[Len(n)]
  BY <1>1, <1>2, SMTT(20) DEF ListOK
<1>4. ASSUME NEW i \in 1 .. Len(n)
      PROVE  next[n[i]] = (IF i = 1 THEN None ELSE n[i - 1]) /\ sc[n[i]] = c
  <2>1. i \in 1 .. Len(s) /\ n[i] = s[i] /\ (i # 1 => n[i - 1] = s[i - 1])
    BY <1>1, SMTT(20)
  <2>2. QED
    BY <2>1 DEF ListOK
<1>5. ASSUME NEW i \in 1 .. Len(n), NEW j \in 1 .. Len(n), n[i] = n[j] PROVE i = j
  BY <1>1, <1>5, SMTT(20) DEF ListOK
<1>6. QED
  BY <1>3, <1>4, <1>5 DEF ListOK, n

\* A list does not depend on the metadata of a block that is not on it.
LEMMA ListOther ==
  ASSUME NEW s, NEW head, NEW next, NEW sc, NEW next2, NEW sc2, NEW c,
         ListOK(s, head, next, sc, c),
         \A i \in 1 .. Len(s) : next2[s[i]] = next[s[i]] /\ sc2[s[i]] = sc[s[i]]
  PROVE  ListOK(s, head, next2, sc2, c)
BY DEF ListOK

-----------------------------------------------------------------------------
\* What a step leaves alone

\* The functions of the state, without their ranges.
Shape ==
  /\ pc \in [Thread -> {"idle"} \cup AllocPc \cup ReleasePc]
  /\ block \in [Thread -> Offset \cup {None}] /\ class \in [Thread -> Class]
  /\ expected \in [Thread -> 0 .. ArenaEnd + 1]
  /\ size_class \in [Offset -> Class]
  /\ ref_count \in [Offset -> Nat]
  /\ state \in [Offset -> {"free", "allocated"}]
  /\ next_free_offset \in [Offset -> Offset \cup {None}]
  /\ free_heads \in [Class -> Offset \cup {None}]
  /\ class_locks \in [Class -> {0, 1}]
  /\ place \in [Ref -> Offset \cup {None}]
  /\ freelist \in [Class -> Seq(Offset)]

\* The invariant gives the types.
LEMMA ShapeFacts == IInv => Shape
BY DEF IInv, TypeOK, Shape

\* Blocks stay apart where nothing is carved.
LEMMA ApartFrame ==
  ASSUME IInv, UNCHANGED <<carved, bump_offset>>
  PROVE  BlocksApart'
BY DEF IInv, BlocksApart

\* The free lists stay linked where no list and no link changes.
LEMMA ListsFrame ==
  ASSUME IInv, UNCHANGED <<carved, freelist, free_heads, next_free_offset, size_class>>
  PROVE  ListsOK'
BY DEF IInv, ListsOK

\* A step that moves no block, by a thread that has none in its hand.
LEMMA EmptyHandStep ==
  ASSUME IInv, NEW t \in Thread,
         ~InHand(t), ~InHand(t)',
         \A u \in Thread \ {t} : pc'[u] = pc[u] /\ block'[u] = block[u] /\ class'[u] = class[u],
         UNCHANGED <<place, carved, freelist, state, ref_count, size_class>>
  PROVE  HeldIsCounted' /\ HandIsAlone' /\ Somewhere'
<1>1. HeldIsCounted'
  BY DEF IInv, HeldIsCounted
<1>2. \A u \in Thread : InHand(u)' => u # t /\ InHand(u)
  BY DEF InHand
<1>3. \A u \in Thread : InHand(u) => u # t /\ InHand(u)'
  BY DEF InHand
<1>4. HandIsAlone'
  BY <1>2 DEF IInv, HandIsAlone
<1>5. Somewhere'
  BY <1>3 DEF IInv, Somewhere
<1>6. QED
  BY <1>1, <1>4, <1>5

\* A step in which a thread keeps its block in its hand.
LEMMA FullHandStep ==
  ASSUME IInv, NEW t \in Thread,
         InHand(t), InHand(t)', block'[t] = block[t],
         pc[t] # "fill", pc'[t] # "fill",
         pc'[t] \in {"count", "publish"} => pc[t] \in {"count", "publish"},
         \A u \in Thread \ {t} : pc'[u] = pc[u] /\ block'[u] = block[u] /\ class'[u] = class[u],
         \A o \in Offset \ {block[t]} : state'[o] = state[o],
         UNCHANGED <<place, carved, freelist, ref_count, size_class>>
  PROVE  HeldIsCounted' /\ HandIsAlone' /\ Somewhere'
<1>1. HeldIsCounted'
  BY DEF IInv, HeldIsCounted, HandIsAlone
<1>2. \A u \in Thread : InHand(u)' <=> InHand(u)
  BY DEF InHand
<1>3. HandIsAlone'
  BY <1>2, SMTT(20) DEF IInv, HandIsAlone
<1>4. Somewhere'
  BY <1>2 DEF IInv, Somewhere
<1>5. QED
  BY <1>1, <1>3, <1>4

\* A step that changes neither what callers hold nor who counts.
LEMMA ActiveFrame ==
  ASSUME IInv, NEW t \in Thread, NEW x,
         pc' = [pc EXCEPT ![t] = x], x \in CountPc <=> pc[t] \in CountPc,
         UNCHANGED <<place, active_blocks>>
  PROVE  ActiveIsCounted'
<1>1. Counting(pc') = Counting(pc)
  BY ShapeFacts DEF Counting, Shape
<1>2. QED
  BY <1>1 DEF IInv, ActiveIsCounted

\* A thread that holds no class lock before or after leaves the locks alone.
LEMMA LocksFrame ==
  ASSUME IInv, NEW t \in Thread,
         pc[t] \notin {"load", "pop", "link", "push"},
         pc'[t] \notin {"load", "pop", "link", "push"},
         \A u \in Thread \ {t} : pc'[u] = pc[u] /\ block'[u] = block[u] /\ class'[u] = class[u],
         UNCHANGED <<class_locks, free_heads, next_free_offset, size_class>>
  PROVE  LocksExclude'
<1>1. \A u \in Thread, c \in Class : Holds(u, c)' => u # t /\ Holds(u, c)
  BY DEF Holds
<1>2. \A c \in Class, u \in Thread : Holds(u, c)' =>
        class_locks'[c] = 1 /\ \A v \in Thread : Holds(v, c)' => v = u
  BY <1>1 DEF IInv, LocksExclude
<1>3. ASSUME NEW u \in Thread
      PROVE  /\ pc'[u] = "pop" => block'[u] = free_heads'[class'[u]]
             /\ pc'[u] = "push" => next_free_offset'[block'[u]] = free_heads'[size_class'[block'[u]]]
  BY DEF IInv, LocksExclude
<1>4. QED
  BY <1>2, <1>3 DEF LocksExclude

\* Mutual exclusion, as a property of one step.
Exclusion ==
  \A c \in Class, u \in Thread : Holds(u, c) =>
    class_locks[c] = 1 /\ \A v \in Thread : Holds(v, c) => v = u

\* lock_class gives the lock to a thread that finds it free.
LEMMA LockTaken ==
  ASSUME IInv, NEW t \in Thread, NEW c \in Class,
         class_locks[c] = 0, class_locks' = [class_locks EXCEPT ![c] = 1],
         \A u \in Thread \ {t}, d \in Class : Holds(u, d)' => Holds(u, d),
         \A d \in Class : Holds(t, d)' => d = c
  PROVE  Exclusion'
<1>1. \A u \in Thread : ~Holds(u, c)
  BY SMTT(20) DEF IInv, LocksExclude
<1>2. class_locks'[c] = 1 /\ \A d \in Class \ {c} : class_locks'[d] = class_locks[d]
  BY ShapeFacts DEF Shape
<1>3. ASSUME NEW d \in Class, NEW u \in Thread, Holds(u, d)'
      PROVE  class_locks'[d] = 1 /\ \A v \in Thread : Holds(v, d)' => v = u
  <2>1. CASE d = c
    BY <1>1, <1>2, <1>3, <2>1
  <2>2. CASE d # c
    BY <1>2, <1>3, <2>2, SMTT(20) DEF IInv, LocksExclude
  <2>3. QED
    BY <2>1, <2>2
<1>4. QED
  BY <1>3 DEF Exclusion

\* The unlock takes it from the thread that had it.
LEMMA LockDropped ==
  ASSUME IInv, NEW t \in Thread, NEW c \in Class,
         Holds(t, c), class_locks' = [class_locks EXCEPT ![c] = 0],
         \A u \in Thread \ {t}, d \in Class : Holds(u, d)' => Holds(u, d),
         \A d \in Class : ~Holds(t, d)'
  PROVE  Exclusion'
<1>1. \A u \in Thread \ {t} : ~Holds(u, c)
  BY DEF IInv, LocksExclude
<1>2. \A d \in Class \ {c} : class_locks'[d] = class_locks[d]
  BY ShapeFacts DEF Shape
<1>3. ASSUME NEW d \in Class, NEW u \in Thread, Holds(u, d)'
      PROVE  class_locks'[d] = 1 /\ \A v \in Thread : Holds(v, d)' => v = u
  BY <1>1, <1>2, <1>3, SMTT(20) DEF IInv, LocksExclude
<1>4. QED
  BY <1>3 DEF Exclusion

-----------------------------------------------------------------------------
\* alloc

\* The steps of a thread that has no block: it looks at the class and the bump pointer.
LEMMA BeginAllocOK ==
  ASSUME IInv, NEW t \in Owner, BeginAlloc(t)
  PROVE  IInv'
<1>0. t \in Thread /\ Shape /\ pc[t] = "idle" /\ pc' = [pc EXCEPT ![t] = "lock"]
  BY ThreadAssumption, ShapeFacts DEF BeginAlloc, Goto
<1>1. PICK c \in Class : class' = [class EXCEPT ![t] = c]
  BY DEF BeginAlloc
<1>2. TypeOK' /\ thrown' = "none"
  BY <1>0, <1>1 DEF IInv, TypeOK, BeginAlloc, header, metadata, AllocPc
<1>3. BlocksApart' /\ ListsOK'
  BY ApartFrame, ListsFrame DEF BeginAlloc, header, metadata
<1>4. HeldIsCounted' /\ HandIsAlone' /\ Somewhere'
  BY <1>0, <1>1, EmptyHandStep DEF BeginAlloc, metadata, InHand, Shape
<1>5. LocksExclude'
  BY <1>0, <1>1, LocksFrame DEF BeginAlloc, header, metadata, Shape
<1>6. ActiveIsCounted'
  BY <1>0, ActiveFrame DEF BeginAlloc, header, CountPc
<1>7. OwnersAllocate'
  BY <1>0 DEF IInv, OwnersAllocate, BeginAlloc, header, Shape
<1>8. QED
  BY <1>2, <1>3, <1>4, <1>5, <1>6, <1>7 DEF IInv

\* alloc takes the lock of a size class.
LEMMA AllocLockOK ==
  ASSUME IInv, NEW t \in Owner, AllocLock(t)
  PROVE  IInv'
<1>0. /\ t \in Thread /\ Shape /\ pc[t] = "lock" /\ pc' = [pc EXCEPT ![t] = "load"]
      /\ class[t] \in Class /\ class_locks[class[t]] = 0
      /\ class_locks' = [class_locks EXCEPT ![class[t]] = 1]
  BY ThreadAssumption, ShapeFacts DEF AllocLock, Goto, lock_class, Shape
<1>1. TypeOK' /\ thrown' = "none"
  BY <1>0 DEF IInv, TypeOK, AllocLock, metadata, AllocPc
<1>2. BlocksApart' /\ ListsOK'
  BY ApartFrame, ListsFrame DEF AllocLock, metadata
<1>3. HeldIsCounted' /\ HandIsAlone' /\ Somewhere'
  BY <1>0, EmptyHandStep DEF AllocLock, metadata, InHand, Shape
<1>4. LocksExclude'
  <2>1. \A u \in Thread \ {t}, c \in Class : Holds(u, c)' => Holds(u, c)
    BY <1>0 DEF AllocLock, metadata, Holds, Shape
  <2>2. \A c \in Class : Holds(t, c)' => c = class[t]
    BY <1>0 DEF AllocLock, metadata, Holds, Shape
  <2>3. Exclusion'
    BY <1>0, <2>1, <2>2, LockTaken
  <2>4. ASSUME NEW u \in Thread
        PROVE  /\ pc'[u] = "pop" => block'[u] = free_heads'[class'[u]]
               /\ pc'[u] = "push" => next_free_offset'[block'[u]] = free_heads'[size_class'[block'[u]]]
    BY <1>0 DEF IInv, LocksExclude, AllocLock, metadata, Shape
  <2>5. QED
    BY <2>3, <2>4 DEF LocksExclude, Exclusion
<1>5. ActiveIsCounted'
  BY <1>0, ActiveFrame DEF AllocLock, CountPc
<1>6. OwnersAllocate'
  BY <1>0 DEF IInv, OwnersAllocate, AllocLock, Shape, AllocPc
<1>7. QED
  BY <1>1, <1>2, <1>3, <1>4, <1>5, <1>6 DEF IInv

\* alloc reads the head of the free list.
LEMMA LoadHeadOK ==
  ASSUME IInv, NEW t \in Owner, LoadHead(t)
  PROVE  IInv'
<1>0. /\ t \in Thread /\ Shape /\ pc[t] = "load" /\ pc' = [pc EXCEPT ![t] = "pop"]
      /\ class[t] \in Class /\ block' = [block EXCEPT ![t] = free_heads[class[t]]]
  BY ThreadAssumption, ShapeFacts DEF LoadHead, Goto, Shape
<1>1. TypeOK' /\ thrown' = "none"
  BY <1>0 DEF IInv, TypeOK, LoadHead, header, metadata, AllocPc
<1>2. BlocksApart' /\ ListsOK'
  BY ApartFrame, ListsFrame DEF LoadHead, header, metadata
<1>3. HeldIsCounted' /\ HandIsAlone' /\ Somewhere'
  BY <1>0, EmptyHandStep DEF LoadHead, metadata, InHand, Shape
<1>4. LocksExclude'
  <2>1. \A u \in Thread, c \in Class : Holds(u, c)' <=> Holds(u, c)
    BY <1>0 DEF LoadHead, metadata, Holds, Shape
  <2>2. \A c \in Class, u \in Thread : Holds(u, c)' =>
          class_locks'[c] = 1 /\ \A v \in Thread : Holds(v, c)' => v = u
    BY <2>1 DEF IInv, LocksExclude, LoadHead, header
  <2>3. ASSUME NEW u \in Thread
        PROVE  /\ pc'[u] = "pop" => block'[u] = free_heads'[class'[u]]
               /\ pc'[u] = "push" => next_free_offset'[block'[u]] = free_heads'[size_class'[block'[u]]]
    BY <1>0 DEF IInv, LocksExclude, LoadHead, header, metadata, Shape
  <2>4. QED
    BY <2>2, <2>3 DEF LocksExclude
<1>5. ActiveIsCounted'
  BY <1>0, ActiveFrame DEF LoadHead, header, CountPc
<1>6. OwnersAllocate'
  BY <1>0 DEF IInv, OwnersAllocate, LoadHead, header, Shape, AllocPc
<1>7. QED
  BY <1>1, <1>2, <1>3, <1>4, <1>5, <1>6 DEF IInv

\* Each block is on one list at one place.
LEMMA ListedOnce ==
  ASSUME IInv
  PROVE  \A c, d \in Class : \A i \in 1 .. Len(freelist[c]), j \in 1 .. Len(freelist[d]) :
           freelist[c][i] = freelist[d][j] => c = d /\ i = j
BY SMTT(20) DEF IInv, ListsOK, ListOK

\* alloc unlinks the first block of the list: the block moves from the list to its hand.
LEMMA PopHeadOK ==
  ASSUME IInv, NEW t \in Owner, PopHead(t)
  PROVE  IInv'
<1> DEFINE c == class[t]
           o == block[t]
<1>0. /\ t \in Thread /\ Shape /\ pc[t] = "pop" /\ pc' = [pc EXCEPT ![t] = "fill"]
      /\ c \in Class /\ o \in Offset
      /\ free_heads' = [free_heads EXCEPT ![c] = next_free_offset[o]]
      /\ class_locks' = [class_locks EXCEPT ![c] = 0]
      /\ freelist' = [freelist EXCEPT ![c] = SubSeq(@, 1, Len(@) - 1)]
      /\ freelist[c] \in Seq(Offset) /\ Len(freelist[c]) \in Nat
  BY ThreadAssumption, ShapeFacts, SMTT(20) DEF PopHead, Goto, Shape
<1>u. UNCHANGED <<registered, bump_offset, active_blocks, state, generation, ref_count,
                  size_class, next_free_offset, block, class, expected, place, carved, thrown>>
  BY DEF PopHead, metadata
<1>1. o = free_heads[c]
  BY <1>0 DEF IInv, LocksExclude
<1>2. Len(freelist[c]) > 0 /\ o = freelist[c][Len(freelist[c])] /\ OnList(freelist, o)
  <2>1. ListOK(freelist[c], o, next_free_offset, size_class, c)
    BY <1>0, <1>1 DEF IInv, ListsOK
  <2>2. Len(freelist[c]) # 0 /\ o = freelist[c][Len(freelist[c])]
    BY <1>0, <2>1, SMTT(20) DEF ListOK, Offset, None
  <2>3. Len(freelist[c]) \in 1 .. Len(freelist[c])
    BY <1>0, <2>2, SMTT(20)
  <2>4. QED
    BY <1>0, <2>2, <2>3, SMTT(20) DEF OnList
<1>3. <<o, c>> \in carved
  BY <1>0, <1>2, SMTT(20) DEF IInv, ListsOK
<1> HIDE DEF c, o
<1>4. \A q : OnList(freelist', q) <=> OnList(freelist, q) /\ q # o
  <2>1. freelist \in [Class -> Seq(Offset)]
    BY <1>0 DEF Shape
  <2>2. \A q : OnList([freelist EXCEPT ![c] = SubSeq(@, 1, Len(@) - 1)], q)
                <=> OnList(freelist, q) /\ q # freelist[c][Len(freelist[c])]
    BY <1>0, <1>2, <2>1, ListedOnce, ListedPop
  <2>3. QED
    BY <1>0, <1>2, <2>2
<1>5. /\ freelist'[c] \in Seq(Offset) /\ Len(freelist'[c]) = Len(freelist[c]) - 1
      /\ \A i \in 1 .. Len(freelist'[c]) : freelist'[c][i] = freelist[c][i]
      /\ \A d \in Class \ {c} : freelist'[d] = freelist[d]
  BY <1>0, <1>2, FrontIs, SMTT(20) DEF Shape
<1>6. TypeOK' /\ thrown' = "none"
  <2>1. freelist' \in [Class -> Seq(Offset)]
    BY <1>0, <1>5 DEF Shape
  <2>2. pc' \in [Thread -> {"idle"} \cup AllocPc \cup ReleasePc]
    BY <1>0 DEF Shape, AllocPc
  <2>3. free_heads' \in [Class -> Offset \cup {None}] /\ class_locks' \in [Class -> {0, 1}]
    BY <1>0 DEF Shape
  <2>4. QED
    BY <1>u, <2>1, <2>2, <2>3 DEF IInv, TypeOK
<1>7. BlocksApart'
  BY <1>u, ApartFrame
<1>8. ListsOK'
  <2>1. ASSUME NEW d \in Class
        PROVE  ListOK(freelist'[d], free_heads'[d], next_free_offset, size_class, d)
    <3>1. CASE d = c
      <4>1. ListOK(freelist[c], o, next_free_offset, size_class, c)
        BY <1>0, <1>1 DEF IInv, ListsOK, o, c
      <4>2. freelist'[c] = SubSeq(freelist[c], 1, Len(freelist[c]) - 1)
        BY <1>0 DEF Shape
      <4>3. free_heads'[c] = next_free_offset[o]
        BY <1>0 DEF Shape
      <4>4. QED
        BY <1>0, <1>2, <3>1, <4>1, <4>2, <4>3, ListPop, SMTT(20)
    <3>2. CASE d # c
      BY <1>0, <1>5, <3>2 DEF IInv, ListsOK, Shape
    <3>3. QED
      BY <3>1, <3>2
  <2>2. ASSUME NEW d \in Class, NEW i \in 1 .. Len(freelist'[d])
        PROVE  <<freelist'[d][i], d>> \in carved
    BY <1>0, <1>5, SMTT(20) DEF IInv, ListsOK
  <2>3. QED
    BY <1>u, <2>1, <2>2 DEF ListsOK
<1>9. HeldIsCounted'
  BY <1>u, <1>4 DEF IInv, HeldIsCounted
<1>10. HandIsAlone'
  <2>1. \A u \in Thread \ {t} : InHand(u)' <=> InHand(u)
    BY <1>0 DEF InHand, Shape
  <2>2. HeldBy(place, o) = {}
    BY <1>0, <1>2 DEF IInv, HeldIsCounted
  <2>3. \A u \in Thread : InHand(u) => block[u] # o
    BY <1>2 DEF IInv, HandIsAlone
  <2>4. pc'[t] = "fill" /\ block'[t] = o /\ class'[t] = c
    BY <1>0, <1>u DEF Shape, o, c
  <2>5. ASSUME NEW u \in Thread \ {t}, InHand(u)'
        PROVE  /\ block'[u] \in Offset
               /\ <<block'[u], IF pc'[u] = "fill" THEN class'[u] ELSE size_class'[block'[u]]>> \in carved'
               /\ HeldBy(place', block'[u]) = {}
               /\ ~OnList(freelist', block'[u])
               /\ \A v \in Thread : InHand(v)' /\ block'[v] = block'[u] => v = u
               /\ pc'[u] \in {"count", "publish"} => ref_count'[block'[u]] = 1
    <3>1. InHand(u) /\ pc'[u] = pc[u]
      BY <1>0, <2>1, <2>5 DEF Shape
    <3>2. QED
      BY <1>u, <1>4, <2>1, <2>3, <2>4, <3>1 DEF IInv, HandIsAlone
  <2>6. QED
    BY <1>0, <1>u, <1>3, <1>4, <2>1, <2>2, <2>3, <2>4, <2>5 DEF HandIsAlone
<1>11. Somewhere'
  <2>1. InHand(t)' /\ block'[t] = o
    BY <1>0, <1>u DEF Shape, InHand, o
  <2>2. \A u \in Thread : InHand(u) => InHand(u)'
    BY <1>0 DEF Shape, InHand
  <2>3. QED
    BY <1>0, <1>u, <1>4, <2>1, <2>2 DEF IInv, Somewhere
<1>12. LocksExclude'
  <2>1. \A u \in Thread \ {t}, d \in Class : Holds(u, d)' => Holds(u, d)
    BY <1>0, <1>u DEF Holds, Shape
  <2>2. Holds(t, c) /\ \A d \in Class : ~Holds(t, d)'
    BY <1>0 DEF Holds, Shape, c
  <2>3. Exclusion'
    BY <1>0, <2>1, <2>2, LockDropped
  <2>4. ASSUME NEW u \in Thread
        PROVE  /\ pc'[u] = "pop" => block'[u] = free_heads'[class'[u]]
               /\ pc'[u] = "push" => next_free_offset'[block'[u]] = free_heads'[size_class'[block'[u]]]
    <3>1. CASE u = t
      BY <1>0, <3>1 DEF Shape
    <3>2. CASE u # t
      <4>1. pc'[u] = pc[u] /\ ~Holds(u, c)
        BY <1>0, <2>2, <3>2 DEF IInv, LocksExclude, Shape
      <4>2. \A d \in Class \ {c} : free_heads'[d] = free_heads[d]
        BY <1>0 DEF Shape
      <4>3. pc[u] = "push" => block[u] \in Offset
        BY DEF IInv, HandIsAlone, InHand
      <4>4. QED
        BY <1>0, <1>u, <4>1, <4>2, <4>3 DEF IInv, LocksExclude, Holds, Shape
    <3>3. QED
      BY <3>1, <3>2
  <2>5. QED
    BY <2>3, <2>4 DEF LocksExclude, Exclusion
<1>13. ActiveIsCounted'
  BY <1>0, <1>u, ActiveFrame DEF CountPc
<1>14. OwnersAllocate'
  BY <1>0, <1>u DEF IInv, OwnersAllocate, Shape, AllocPc
<1>15. QED
  BY <1>6, <1>7, <1>8, <1>9, <1>10, <1>11, <1>12, <1>13, <1>14 DEF IInv

\* alloc finds the list empty and turns to the rest of the arena.
LEMMA ListEmptyOK ==
  ASSUME IInv, NEW t \in Owner, ListEmpty(t)
  PROVE  IInv'
<1>0. /\ t \in Thread /\ Shape /\ pc[t] = "pop" /\ pc' = [pc EXCEPT ![t] = "bump"]
      /\ class[t] \in Class /\ class_locks' = [class_locks EXCEPT ![class[t]] = 0]
  BY ThreadAssumption, ShapeFacts DEF ListEmpty, Goto, Shape
<1>1. TypeOK' /\ thrown' = "none"
  BY <1>0 DEF IInv, TypeOK, ListEmpty, metadata, AllocPc
<1>2. BlocksApart' /\ ListsOK'
  BY ApartFrame, ListsFrame DEF ListEmpty, metadata
<1>3. HeldIsCounted' /\ HandIsAlone' /\ Somewhere'
  BY <1>0, EmptyHandStep DEF ListEmpty, metadata, InHand, Shape
<1>4. LocksExclude'
  <2>1. \A u \in Thread \ {t}, c \in Class : Holds(u, c)' => Holds(u, c)
    BY <1>0 DEF ListEmpty, metadata, Holds, Shape
  <2>2. Holds(t, class[t]) /\ \A c \in Class : ~Holds(t, c)'
    BY <1>0 DEF Holds, Shape
  <2>3. Exclusion'
    BY <1>0, <2>1, <2>2, LockDropped
  <2>4. ASSUME NEW u \in Thread
        PROVE  /\ pc'[u] = "pop" => block'[u] = free_heads'[class'[u]]
               /\ pc'[u] = "push" => next_free_offset'[block'[u]] = free_heads'[size_class'[block'[u]]]
    BY <1>0 DEF IInv, LocksExclude, ListEmpty, metadata, Shape
  <2>5. QED
    BY <2>3, <2>4 DEF LocksExclude, Exclusion
<1>5. ActiveIsCounted'
  BY <1>0, ActiveFrame DEF ListEmpty, CountPc
<1>6. OwnersAllocate'
  BY <1>0 DEF IInv, OwnersAllocate, ListEmpty, Shape, AllocPc
<1>7. QED
  BY <1>1, <1>2, <1>3, <1>4, <1>5, <1>6 DEF IInv

\* alloc reads where the rest of the arena begins.
LEMMA LoadBumpOK ==
  ASSUME IInv, NEW t \in Owner, LoadBump(t)
  PROVE  IInv'
<1>0. /\ t \in Thread /\ Shape /\ pc[t] = "bump" /\ pc' = [pc EXCEPT ![t] = "cas"]
      /\ expected' = [expected EXCEPT ![t] = bump_offset]
      /\ bump_offset \in 1 .. ArenaEnd + 1 /\ bump_offset \in 0 .. ArenaEnd + 1
  BY ThreadAssumption, ShapeFacts, ArenaAssumption, SMTT(20) DEF LoadBump, Goto, IInv, TypeOK
<1>1. TypeOK' /\ thrown' = "none"
  BY <1>0 DEF IInv, TypeOK, LoadBump, header, metadata, AllocPc
<1>2. BlocksApart' /\ ListsOK'
  BY ApartFrame, ListsFrame DEF LoadBump, header, metadata
<1>3. HeldIsCounted' /\ HandIsAlone' /\ Somewhere'
  BY <1>0, EmptyHandStep DEF LoadBump, metadata, InHand, Shape
<1>4. LocksExclude'
  BY <1>0, LocksFrame DEF LoadBump, header, metadata, Shape
<1>5. ActiveIsCounted'
  BY <1>0, ActiveFrame DEF LoadBump, header, CountPc
<1>6. OwnersAllocate'
  BY <1>0, SMTT(20) DEF IInv, OwnersAllocate, LoadBump, header, Shape, AllocPc
<1>7. QED
  BY <1>1, <1>2, <1>3, <1>4, <1>5, <1>6 DEF IInv

\* alloc gives up: the arena is full.
LEMMA ArenaFullOK ==
  ASSUME IInv, NEW t \in Owner, ArenaFull(t)
  PROVE  IInv'
<1>0. /\ t \in Thread /\ Shape /\ pc[t] = "cas" /\ pc' = [pc EXCEPT ![t] = "idle"]
      /\ class' = [class EXCEPT ![t] = 0] /\ expected' = [expected EXCEPT ![t] = 0]
      /\ 0 \in Class /\ 0 \in 0 .. ArenaEnd + 1
  BY ThreadAssumption, ShapeFacts, ClassAssumption, ArenaAssumption, SMTT(20) DEF ArenaFull, Goto, Class
<1>1. TypeOK' /\ thrown' = "none"
  BY <1>0 DEF IInv, TypeOK, ArenaFull, header, metadata
<1>2. BlocksApart' /\ ListsOK'
  BY ApartFrame, ListsFrame DEF ArenaFull, header, metadata
<1>3. HeldIsCounted' /\ HandIsAlone' /\ Somewhere'
  BY <1>0, EmptyHandStep DEF ArenaFull, metadata, InHand, Shape
<1>4. LocksExclude'
  BY <1>0, LocksFrame DEF ArenaFull, header, metadata, Shape
<1>5. ActiveIsCounted'
  BY <1>0, ActiveFrame DEF ArenaFull, header, CountPc
<1>6. OwnersAllocate'
  BY <1>0 DEF IInv, OwnersAllocate, ArenaFull, header, Shape, AllocPc
<1>7. QED
  BY <1>1, <1>2, <1>3, <1>4, <1>5, <1>6 DEF IInv

\* The CAS carves a block above all others, or has found a newer bump pointer.
LEMMA CasBumpOK ==
  ASSUME IInv, NEW t \in Owner, CasBump(t)
  PROVE  IInv'
<1> DEFINE o == expected[t]
           c == class[t]
<1>0. /\ t \in Thread /\ Shape /\ pc[t] = "cas" /\ c \in Class
      /\ o \in Nat /\ o >= 1 /\ o + BlockUnits(c) <= ArenaEnd + 1
      /\ BlockUnits(c) \in Nat /\ BlockUnits(c) >= 2
      /\ bump_offset \in 1 .. ArenaEnd + 1 /\ bump_offset \in 0 .. ArenaEnd + 1
      /\ UNCHANGED <<registered, active_blocks, free_heads, class_locks, metadata,
                     class, place, freelist, thrown>>
  <2>1. t \in Thread /\ Shape /\ pc[t] = "cas" /\ c \in Class /\ o \in 0 .. ArenaEnd + 1
    BY ThreadAssumption, ShapeFacts DEF CasBump, Goto, Shape
  <2>2. BlockUnits(c) \in Nat /\ BlockUnits(c) >= 2
    BY <2>1, UnitFacts
  <2>3. o >= 1
    BY <2>1 DEF IInv, OwnersAllocate
  <2>4. bump_offset \in 1 .. ArenaEnd + 1
    BY DEF IInv, TypeOK
  <2>5. ~(o + BlockUnits(c) > ArenaEnd + 1)
    BY DEF CasBump, NoRoom
  <2>6. UNCHANGED <<registered, active_blocks, free_heads, class_locks, metadata,
                     class, place, freelist, thrown>>
    BY DEF CasBump
  <2> HIDE DEF o, c
  <2>7. QED
    BY <2>1, <2>2, <2>3, <2>4, <2>5, <2>6, ArenaAssumption, SMTT(20)
<1>1. CASE bump_offset # o
  <2>1. UNCHANGED <<pc, bump_offset, block, carved>> /\ expected' = [expected EXCEPT ![t] = bump_offset]
    BY <1>1 DEF CasBump
  <2>2. TypeOK' /\ thrown' = "none"
    BY <1>0, <2>1 DEF IInv, TypeOK, metadata
  <2>3. BlocksApart' /\ ListsOK'
    BY <1>0, <2>1, ApartFrame, ListsFrame DEF metadata
  <2>4. HeldIsCounted' /\ HandIsAlone' /\ Somewhere'
    BY <1>0, <2>1, EmptyHandStep DEF metadata, InHand
  <2>5. LocksExclude'
    BY <1>0, <2>1, LocksFrame DEF metadata
  <2>6. ActiveIsCounted'
    BY <1>0, <2>1 DEF IInv, ActiveIsCounted
  <2>7. OwnersAllocate'
    BY <1>0, <2>1, SMTT(20) DEF IInv, OwnersAllocate, Shape
  <2>8. QED
    BY <2>2, <2>3, <2>4, <2>5, <2>6, <2>7 DEF IInv
<1>2. CASE bump_offset = o
  <2>1. /\ pc' = [pc EXCEPT ![t] = "fill"] /\ bump_offset' = o + BlockUnits(c)
        /\ block' = [block EXCEPT ![t] = o] /\ carved' = carved \cup {<<o, c>>}
        /\ expected' = [expected EXCEPT ![t] = 0]
    BY <1>2 DEF CasBump, Goto
  <2>u. UNCHANGED <<registered, active_blocks, free_heads, class_locks, state, generation,
                    ref_count, size_class, next_free_offset, class, place, freelist, thrown>>
    BY <1>0 DEF metadata
  <2>2. o \in Offset /\ bump_offset' \in 1 .. ArenaEnd + 1 /\ 0 \in 0 .. ArenaEnd + 1
    BY <1>0, <2>1, ArenaAssumption, SMTT(20) DEF Offset
  <2>3. pc'[t] = "fill" /\ block'[t] = o /\ class'[t] = c
    BY <1>0, <2>1, <2>u DEF Shape, c
  <2> HIDE DEF o, c
  <2>4. TypeOK' /\ thrown' = "none"
    <3>1. carved' \subseteq Offset \X Class
      BY <1>0, <2>1, <2>2, SMTT(20) DEF IInv, TypeOK
    <3>2. pc' \in [Thread -> {"idle"} \cup AllocPc \cup ReleasePc]
      BY <1>0, <2>1 DEF Shape, AllocPc
    <3>3. block' \in [Thread -> Offset \cup {None}] /\ expected' \in [Thread -> 0 .. ArenaEnd + 1]
      BY <1>0, <2>1, <2>2 DEF Shape
    <3>4. QED
      BY <2>2, <2>u, <3>1, <3>2, <3>3 DEF IInv, TypeOK
  <2>5. \A d \in Class : <<o, d>> \notin carved
    <3>1. ASSUME NEW d \in Class, <<o, d>> \in carved PROVE FALSE
      <4>1. o + BlockUnits(d) <= o
        BY <1>2, <2>2, <3>1 DEF IInv, BlocksApart
      <4>2. BlockUnits(d) \in Nat /\ BlockUnits(d) >= 2
        BY UnitFacts
      <4>3. QED
        BY <1>0, <4>1, <4>2, SMTT(20)
    <3>2. QED
      BY <3>1
  <2>6. BlocksApart'
    <3>1. ASSUME NEW p \in Offset, NEW a \in Class, <<p, a>> \in carved
          PROVE  p \in Nat /\ BlockUnits(a) \in Nat /\ p + BlockUnits(a) <= o
      BY <1>2, <3>1, UnitFacts, ArenaAssumption, SMTT(20) DEF IInv, BlocksApart, Offset
    <3>2. ASSUME NEW p \in Offset, NEW q \in Offset, NEW a \in Class, NEW b \in Class,
                 <<p, a>> \in carved', <<q, b>> \in carved'
          PROVE  /\ p + BlockUnits(a) <= bump_offset'
                 /\ (p = q /\ a = b) \/ p + BlockUnits(a) <= q \/ q + BlockUnits(b) <= p
      <4>1. (p = o /\ a = c) \/ <<p, a>> \in carved
        BY <2>1, <3>2
      <4>2. (q = o /\ b = c) \/ <<q, b>> \in carved
        BY <2>1, <3>2
      <4>3. <<p, a>> \in carved /\ <<q, b>> \in carved =>
              (p = q /\ a = b) \/ p + BlockUnits(a) <= q \/ q + BlockUnits(b) <= p
        BY DEF IInv, BlocksApart
      <4>4. QED
        BY <1>0, <2>1, <3>1, <4>1, <4>2, <4>3, SMTT(20)
    <3>3. QED
      BY <3>2 DEF BlocksApart
  <2>7. ListsOK'
    BY <2>1, <2>u DEF IInv, ListsOK
  <2>8. HeldIsCounted'
    BY <2>1, <2>u DEF IInv, HeldIsCounted
  <2>9. ~OnList(freelist, o) /\ HeldBy(place, o) = {}
    <3>1. ~OnList(freelist, o)
      BY <2>5 DEF IInv, ListsOK, OnList
    <3>2. size_class[o] \in Class
      BY <1>0, <2>2 DEF Shape
    <3>3. QED
      BY <2>2, <2>5, <3>1, <3>2 DEF IInv, HeldIsCounted
  <2>10. \A u \in Thread : InHand(u) => u # t /\ InHand(u)' /\ block'[u] = block[u] /\ block[u] # o
    <3>1. ASSUME NEW u \in Thread, InHand(u)
          PROVE  u # t /\ InHand(u)' /\ block'[u] = block[u]
      BY <1>0, <2>1, <3>1 DEF InHand, Shape
    <3>2. ASSUME NEW u \in Thread, InHand(u), block[u] = o PROVE FALSE
      <4>1. class[u] \in Class /\ size_class[o] \in Class
        BY <1>0, <2>2 DEF Shape
      <4>2. QED
        BY <2>5, <3>2, <4>1 DEF IInv, HandIsAlone
    <3>3. QED
      BY <3>1, <3>2
  <2>11. \A u \in Thread : InHand(u)' => u = t \/ (InHand(u) /\ pc'[u] = pc[u])
    BY <1>0, <2>1 DEF InHand, Shape
  <2>12. HandIsAlone'
    <3>1. ASSUME NEW u \in Thread, InHand(u)'
          PROVE  /\ block'[u] \in Offset
                 /\ <<block'[u], IF pc'[u] = "fill" THEN class'[u] ELSE size_class'[block'[u]]>> \in carved'
                 /\ HeldBy(place', block'[u]) = {}
                 /\ ~OnList(freelist', block'[u])
                 /\ \A v \in Thread : InHand(v)' /\ block'[v] = block'[u] => v = u
                 /\ pc'[u] \in {"count", "publish"} => ref_count'[block'[u]] = 1
      <4>1. CASE u = t
        BY <2>1, <2>2, <2>3, <2>u, <2>9, <2>10, <2>11, <4>1, SMTT(20)
      <4>2. CASE u # t
        BY <2>1, <2>3, <2>u, <2>10, <2>11, <3>1, <4>2, SMTT(20) DEF IInv, HandIsAlone
      <4>3. QED
        BY <4>1, <4>2
    <3>2. QED
      BY <3>1 DEF HandIsAlone
  <2>13. Somewhere'
    <3>1. InHand(t)'
      BY <2>3 DEF InHand
    <3>2. ASSUME NEW p \in Offset, NEW a \in Class, <<p, a>> \in carved'
          PROVE  \/ OnList(freelist', p) \/ HeldBy(place', p) # {}
                 \/ \E u \in Thread : InHand(u)' /\ block'[u] = p
      <4>1. p = o \/ <<p, a>> \in carved
        BY <2>1, <3>2
      <4>2. QED
        BY <1>0, <2>3, <2>u, <2>10, <3>1, <4>1 DEF IInv, Somewhere
    <3>3. QED
      BY <3>2 DEF Somewhere
  <2>14. LocksExclude'
    BY <1>0, <2>1, <2>u, LocksFrame DEF Shape
  <2>15. ActiveIsCounted'
    BY <1>0, <2>1, <2>u, ActiveFrame DEF CountPc
  <2>16. OwnersAllocate'
    BY <1>0, <2>1, <2>u, SMTT(20) DEF IInv, OwnersAllocate, Shape, AllocPc
  <2>17. QED
    BY <2>4, <2>6, <2>7, <2>8, <2>12, <2>13, <2>14, <2>15, <2>16 DEF IInv
<1>3. QED
  BY <1>1, <1>2

\* The metadata of a block in a thread's hand is on no list and under no lock.
LEMMA FillMetadataOK ==
  ASSUME IInv, NEW t \in Owner, FillMetadata(t)
  PROVE  IInv'
<1> DEFINE o == block[t]
           c == class[t]
<1>0. /\ t \in Thread /\ Shape /\ pc[t] = "fill" /\ pc' = [pc EXCEPT ![t] = "count"]
      /\ c \in Class /\ InHand(t)
      /\ generation' = [generation EXCEPT ![o] = NextGeneration(@)]
      /\ ref_count' = [ref_count EXCEPT ![o] = 1]
      /\ size_class' = [size_class EXCEPT ![o] = c]
      /\ next_free_offset' = [next_free_offset EXCEPT ![o] = None]
  BY ThreadAssumption, ShapeFacts DEF FillMetadata, Goto, Shape, InHand
<1>u. UNCHANGED <<registered, bump_offset, active_blocks, free_heads, class_locks, state, block,
                  class, expected, place, carved, freelist, thrown>>
  BY DEF FillMetadata, header
<1>1. /\ o \in Offset /\ <<o, c>> \in carved /\ HeldBy(place, o) = {} /\ ~OnList(freelist, o)
      /\ \A u \in Thread : InHand(u) /\ block[u] = o => u = t
  BY <1>0 DEF IInv, HandIsAlone
<1>2. block'[t] = o /\ pc'[t] = "count"
  BY <1>0, <1>u DEF Shape, o
<1> HIDE DEF o, c
<1>3. /\ size_class'[o] = c /\ ref_count'[o] = 1
      /\ \A q \in Offset \ {o} : /\ size_class'[q] = size_class[q] /\ ref_count'[q] = ref_count[q]
                                /\ next_free_offset'[q] = next_free_offset[q]
  BY <1>0, <1>1 DEF Shape
<1>4. TypeOK' /\ thrown' = "none"
  <2>1. generation' \in [Offset -> 0 .. GenModulus - 1]
    <3>1. generation \in [Offset -> 0 .. GenModulus - 1]
      BY DEF IInv, TypeOK
    <3>2. \A g \in 0 .. GenModulus - 1 : NextGeneration(g) \in 0 .. GenModulus - 1
      BY GenAssumption, SMTT(20) DEF NextGeneration
    <3>3. QED
      BY <1>0, <1>1, <3>1, <3>2
  <2>2. pc' \in [Thread -> {"idle"} \cup AllocPc \cup ReleasePc]
    BY <1>0 DEF Shape, AllocPc
  <2>3. /\ ref_count' \in [Offset -> Nat] /\ size_class' \in [Offset -> Class]
        /\ next_free_offset' \in [Offset -> Offset \cup {None}]
    BY <1>0 DEF Shape
  <2>4. QED
    BY <1>u, <2>1, <2>2, <2>3 DEF IInv, TypeOK
<1>5. BlocksApart'
  BY <1>u, ApartFrame
<1>6. ListsOK'
  <2>1. ASSUME NEW d \in Class
        PROVE  ListOK(freelist[d], free_heads[d], next_free_offset', size_class', d)
    <3>1. \A i \in 1 .. Len(freelist[d]) : freelist[d][i] # o
      BY <1>1 DEF OnList
    <3>2. \A i \in 1 .. Len(freelist[d]) : freelist[d][i] \in Offset
      BY <1>0, SMTT(60) DEF Shape
    <3>3. ListOK(freelist[d], free_heads[d], next_free_offset, size_class, d)
      BY DEF IInv, ListsOK
    <3>4. \A i \in 1 .. Len(freelist[d]) :
            /\ next_free_offset'[freelist[d][i]] = next_free_offset[freelist[d][i]]
            /\ size_class'[freelist[d][i]] = size_class[freelist[d][i]]
      BY <1>3, <3>1, <3>2
    <3>5. QED
      BY <3>3, <3>4, ListOther
  <2>2. QED
    BY <1>u, <2>1 DEF IInv, ListsOK
<1>7. HeldIsCounted'
  BY <1>u, <1>1, <1>3 DEF IInv, HeldIsCounted
<1>8. \A u \in Thread : InHand(u)' <=> InHand(u)
  BY <1>0 DEF InHand, Shape
<1>9. \A u \in Thread \ {t} : pc'[u] = pc[u] /\ (InHand(u) => block[u] # o /\ block[u] \in Offset)
  BY <1>0, <1>1 DEF Shape, IInv, HandIsAlone
<1>10. HandIsAlone'
  <2>1. ASSUME NEW u \in Thread, InHand(u)'
        PROVE  /\ block'[u] \in Offset
               /\ <<block'[u], IF pc'[u] = "fill" THEN class'[u] ELSE size_class'[block'[u]]>> \in carved'
               /\ HeldBy(place', block'[u]) = {}
               /\ ~OnList(freelist', block'[u])
               /\ \A v \in Thread : InHand(v)' /\ block'[v] = block'[u] => v = u
               /\ pc'[u] \in {"count", "publish"} => ref_count'[block'[u]] = 1
    <3>1. CASE u = t
      BY <1>u, <1>1, <1>2, <1>3, <1>8, <3>1
    <3>2. CASE u # t
      BY <1>u, <1>3, <1>8, <1>9, <2>1, <3>2 DEF IInv, HandIsAlone
    <3>3. QED
      BY <3>1, <3>2
  <2>2. QED
    BY <2>1 DEF HandIsAlone
<1>11. Somewhere'
  BY <1>u, <1>8 DEF IInv, Somewhere
<1>12. LocksExclude'
  <2>1. \A u \in Thread, d \in Class : Holds(u, d)' => Holds(u, d)
    <3>1. ASSUME NEW u \in Thread, NEW d \in Class, Holds(u, d)' PROVE Holds(u, d)
      <4>1. u # t
        BY <1>2, <3>1 DEF Holds
      <4>2. pc[u] \in {"link", "push"} => size_class'[block[u]] = size_class[block[u]]
        BY <1>3, <1>9, <4>1 DEF InHand
      <4>3. QED
        BY <1>u, <1>9, <3>1, <4>1, <4>2 DEF Holds
    <3>2. QED
      BY <3>1
  <2>2. \A d \in Class, u \in Thread : Holds(u, d)' =>
          class_locks'[d] = 1 /\ \A v \in Thread : Holds(v, d)' => v = u
    BY <1>u, <2>1 DEF IInv, LocksExclude
  <2>3. ASSUME NEW u \in Thread
        PROVE  /\ pc'[u] = "pop" => block'[u] = free_heads'[class'[u]]
               /\ pc'[u] = "push" => next_free_offset'[block'[u]] = free_heads'[size_class'[block'[u]]]
    <3>1. CASE u = t
      BY <1>2, <3>1
    <3>2. CASE u # t
      BY <1>u, <1>3, <1>9, <3>2, SMTT(20) DEF IInv, LocksExclude, InHand
    <3>3. QED
      BY <3>1, <3>2
  <2>4. QED
    BY <2>2, <2>3 DEF LocksExclude
<1>13. ActiveIsCounted'
  BY <1>0, <1>u, ActiveFrame DEF CountPc
<1>14. OwnersAllocate'
  BY <1>0, <1>u DEF IInv, OwnersAllocate, Shape, AllocPc
<1>15. QED
  BY <1>4, <1>5, <1>6, <1>7, <1>10, <1>11, <1>12, <1>13, <1>14 DEF IInv

\* alloc counts the block in active_blocks.
LEMMA CountActiveOK ==
  ASSUME CardLaws, IInv, NEW t \in Owner, CountActive(t)
  PROVE  IInv'
<1>0. /\ t \in Thread /\ Shape /\ pc[t] = "count" /\ pc' = [pc EXCEPT ![t] = "publish"]
      /\ active_blocks' = active_blocks + 1 /\ active_blocks \in Nat
  BY ThreadAssumption, ShapeFacts DEF CountActive, Goto, IInv, TypeOK
<1>u. UNCHANGED <<registered, bump_offset, free_heads, class_locks, state, generation, ref_count,
                  size_class, next_free_offset, block, class, expected, place, carved,
                  freelist, thrown>>
  BY DEF CountActive, metadata
<1>1. TypeOK' /\ thrown' = "none"
  BY <1>0, <1>u, SMTT(20) DEF IInv, TypeOK, AllocPc
<1>2. BlocksApart' /\ ListsOK'
  BY <1>u, ApartFrame, ListsFrame
<1>3. HeldIsCounted' /\ HandIsAlone' /\ Somewhere'
  BY <1>0, <1>u, FullHandStep DEF InHand, Shape
<1>4. LocksExclude'
  BY <1>0, <1>u, LocksFrame DEF Shape
<1>5. ActiveIsCounted'
  <2>1. Counting(pc') = Counting(pc) \cup {t} /\ t \notin Counting(pc)
    BY <1>0 DEF Counting, CountPc, Shape
  <2>2. IsFiniteSet(Counting(pc)) /\ active_blocks = Cardinality(HeldBlocks(place)) + Cardinality(Counting(pc))
    BY DEF IInv, ActiveIsCounted
  <2>3. IsFiniteSet(Counting(pc')) /\ Cardinality(Counting(pc')) = Cardinality(Counting(pc)) + 1
    BY <2>1, <2>2, CardAdd
  <2>4. Cardinality(HeldBlocks(place)) \in Nat /\ Cardinality(Counting(pc)) \in Nat
    BY <2>2, HeldBlocksFacts, CardFacts
  <2>5. QED
    BY <1>0, <1>u, <2>2, <2>3, <2>4, SMTT(20) DEF ActiveIsCounted
<1>6. OwnersAllocate'
  <2>1. registered
    BY <1>0 DEF IInv, OwnersAllocate
  <2>2. QED
    BY <1>0, <1>u, <2>1 DEF IInv, OwnersAllocate, Shape, AllocPc
<1>7. QED
  BY <1>1, <1>2, <1>3, <1>4, <1>5, <1>6 DEF IInv

\* The caller's first reference takes the block from the thread's hand.
LEMMA PublishBlockOK ==
  ASSUME CardLaws, IInv, NEW t \in Owner, PublishBlock(t)
  PROVE  IInv'
<1> DEFINE o == block[t]
<1>0. /\ t \in Thread /\ Shape /\ pc[t] = "publish" /\ pc' = [pc EXCEPT ![t] = "idle"] /\ InHand(t)
      /\ state' = [state EXCEPT ![o] = "allocated"]
      /\ block' = [block EXCEPT ![t] = None] /\ class' = [class EXCEPT ![t] = 0]
      /\ 0 \in Class
  BY ThreadAssumption, ShapeFacts, ClassAssumption, SMTT(20) DEF PublishBlock, Goto, InHand, Class
<1>u. UNCHANGED <<registered, bump_offset, active_blocks, free_heads, class_locks, generation,
                  ref_count, size_class, next_free_offset, expected, carved, freelist, thrown>>
  BY DEF PublishBlock, header
<1>1. /\ o \in Offset /\ <<o, size_class[o]>> \in carved /\ HeldBy(place, o) = {}
      /\ ~OnList(freelist, o) /\ ref_count[o] = 1
      /\ \A u \in Thread : InHand(u) /\ block[u] = o => u = t
  BY <1>0 DEF IInv, HandIsAlone
<1>2. PICK r \in Ref : place[r] = None /\ place' = [place EXCEPT ![r] = o]
  BY DEF PublishBlock, Held
<1> HIDE DEF o
<1>3. /\ HeldBy(place', o) = {r}
      /\ \A q \in Offset \ {o} : HeldBy(place', q) = HeldBy(place, q)
  <2>1. \A q : HeldBy(place', q) = IF q = o THEN HeldBy(place, q) \cup {r} ELSE HeldBy(place, q) \ {r}
    <3>1. \A s \in Ref : place'[s] = IF s = r THEN o ELSE place[s]
      BY <1>0, <1>2 DEF Shape
    <3>2. QED
      BY <1>2, <3>1 DEF HeldBy
  <2>2. \A q \in Offset : r \notin HeldBy(place, q)
    BY <1>2, HeldMember, SMTT(20) DEF Offset, None
  <2>3. QED
    BY <1>1, <2>1, <2>2
<1>4. TypeOK' /\ thrown' = "none"
  <2>1. pc' \in [Thread -> {"idle"} \cup AllocPc \cup ReleasePc]
    BY <1>0 DEF Shape
  <2>2. /\ state' \in [Offset -> {"free", "allocated"}]
        /\ block' \in [Thread -> Offset \cup {None}] /\ class' \in [Thread -> Class]
        /\ place' \in [Ref -> Offset \cup {None}]
    BY <1>0, <1>1, <1>2 DEF Shape
  <2>3. QED
    BY <1>u, <2>1, <2>2 DEF IInv, TypeOK
<1>5. BlocksApart' /\ ListsOK'
  BY <1>u, ApartFrame, ListsFrame
<1>6. HeldIsCounted'
  <2>1. Cardinality({r}) = 1
    BY <1>3, HeldFacts, CardOne
  <2>2. state'[o] = "allocated" /\ \A q \in Offset \ {o} : state'[q] = state[q]
    BY <1>0, <1>1 DEF Shape
  <2>3. QED
    BY <1>u, <1>1, <1>3, <2>1, <2>2 DEF IInv, HeldIsCounted
<1>7. \A u \in Thread : InHand(u)' <=> InHand(u) /\ u # t
  BY <1>0 DEF InHand, Shape
<1>8. \A u \in Thread \ {t} : pc'[u] = pc[u] /\ block'[u] = block[u] /\ class'[u] = class[u]
  BY <1>0 DEF Shape
<1>9. HandIsAlone'
  BY <1>u, <1>1, <1>3, <1>7, <1>8 DEF IInv, HandIsAlone
<1>10. Somewhere'
  <2>1. \A u \in Thread : InHand(u) /\ block[u] # o => InHand(u)' /\ block'[u] = block[u]
    BY <1>7, <1>8 DEF o
  <2>2. QED
    BY <1>u, <1>3, <2>1 DEF IInv, Somewhere
<1>11. LocksExclude'
  BY <1>0, <1>u, <1>8, LocksFrame DEF Shape
<1>12. ActiveIsCounted'
  <2>1. Counting(pc') = Counting(pc) \ {t} /\ t \in Counting(pc)
    BY <1>0 DEF Counting, CountPc, Shape
  <2>2. IsFiniteSet(Counting(pc)) /\ active_blocks = Cardinality(HeldBlocks(place)) + Cardinality(Counting(pc))
    BY DEF IInv, ActiveIsCounted
  <2>3. IsFiniteSet(Counting(pc')) /\ Cardinality(Counting(pc')) = Cardinality(Counting(pc)) - 1
    BY <2>1, <2>2, CardRemove
  <2>4. HeldBlocks(place') = HeldBlocks(place) \cup {o} /\ o \notin HeldBlocks(place)
    BY <1>1, <1>3 DEF HeldBlocks
  <2>5. Cardinality(HeldBlocks(place')) = Cardinality(HeldBlocks(place)) + 1
    BY <2>4, HeldBlocksFacts, CardAdd
  <2>6. Cardinality(HeldBlocks(place)) \in Nat /\ Cardinality(Counting(pc)) \in Nat
    BY <2>2, HeldBlocksFacts, CardFacts
  <2>7. QED
    BY <1>u, <2>2, <2>3, <2>5, <2>6, SMTT(20) DEF ActiveIsCounted
<1>13. OwnersAllocate'
  BY <1>0, <1>u DEF IInv, OwnersAllocate, Shape, AllocPc
<1>14. QED
  BY <1>4, <1>5, <1>6, <1>9, <1>10, <1>11, <1>12, <1>13 DEF IInv

-----------------------------------------------------------------------------
\* add_ref and release_metadata

\* The count follows the references; a block that has one is allocated.
LEMMA AddRefOK ==
  ASSUME CardLaws, IInv, NEW t \in Thread, NEW r \in Ref, AddRef(t, r)
  PROVE  IInv'
<1> DEFINE o == place[r]
<1>0. Shape /\ o \in Offset
  BY ShapeFacts DEF AddRef, Shape
<1>u. UNCHANGED <<registered, bump_offset, active_blocks, free_heads, class_locks, state, generation,
                  size_class, next_free_offset, pc, block, class, expected, carved, freelist>>
  BY DEF AddRef, header, locals
<1>1. r \in HeldBy(place, o)
  BY HeldMember
<1>2. state[o] = "allocated" /\ ref_count[o] = Cardinality(HeldBy(place, o))
  BY <1>0, <1>1 DEF IInv, HeldIsCounted
<1>3. PICK s \in Ref : /\ place[s] = None /\ place' = [place EXCEPT ![s] = o]
                       /\ ref_count' = [ref_count EXCEPT ![o] = @ + 1] /\ thrown' = thrown
  BY <1>2 DEF AddRef, Held
<1> HIDE DEF o
<1>4. s \notin HeldBy(place, o)
  BY <1>0, <1>3, HeldMember, SMTT(20) DEF Offset, None
<1>5. \A q \in Offset : HeldBy(place', q) = IF q = o THEN HeldBy(place, q) \cup {s} ELSE HeldBy(place, q)
  <2>1. \A x \in Ref : place'[x] = IF x = s THEN o ELSE place[x]
    BY <1>0, <1>3 DEF Shape
  <2>2. QED
    BY <1>3, <2>1, SMTT(20) DEF HeldBy, Offset, None
<1>6. TypeOK' /\ thrown' = "none"
  <2>1. ref_count' \in [Offset -> Nat] /\ place' \in [Ref -> Offset \cup {None}]
    BY <1>0, <1>3, SMTT(20) DEF Shape
  <2>2. QED
    BY <1>u, <1>3, <2>1 DEF IInv, TypeOK
<1>7. BlocksApart' /\ ListsOK'
  BY <1>u, ApartFrame, ListsFrame
<1>8. \A q \in Offset : HeldBy(place', q) = {} <=> HeldBy(place, q) = {}
  BY <1>1, <1>5
<1>9. HeldIsCounted'
  <2>1. Cardinality(HeldBy(place', o)) = Cardinality(HeldBy(place, o)) + 1
    BY <1>0, <1>4, <1>5, HeldFacts, CardAdd
  <2>2. ref_count'[o] = Cardinality(HeldBy(place', o))
    BY <1>0, <1>2, <1>3, <2>1 DEF Shape
  <2>3. \A q \in Offset \ {o} : ref_count'[q] = ref_count[q] /\ HeldBy(place', q) = HeldBy(place, q)
    BY <1>0, <1>3, <1>5 DEF Shape
  <2>4. QED
    BY <1>u, <1>8, <2>2, <2>3 DEF IInv, HeldIsCounted
<1>10. HandIsAlone'
  <2>1. \A u \in Thread : InHand(u)' <=> InHand(u)
    BY <1>u DEF InHand
  <2>2. \A u \in Thread : InHand(u) => block[u] \in Offset /\ block[u] # o
    BY <1>1 DEF IInv, HandIsAlone
  <2>3. \A q \in Offset \ {o} : ref_count'[q] = ref_count[q]
    BY <1>0, <1>3 DEF Shape
  <2>4. QED
    BY <1>u, <1>8, <2>1, <2>2, <2>3 DEF IInv, HandIsAlone
<1>11. Somewhere'
  BY <1>u, <1>8 DEF IInv, Somewhere, InHand
<1>12. LocksExclude'
  BY <1>u, SMTT(20) DEF IInv, LocksExclude, Holds
<1>13. ActiveIsCounted'
  <2>1. HeldBlocks(place') = HeldBlocks(place)
    BY <1>8 DEF HeldBlocks
  <2>2. QED
    BY <1>u, <2>1 DEF IInv, ActiveIsCounted
<1>14. OwnersAllocate'
  BY <1>u DEF IInv, OwnersAllocate
<1>15. QED
  BY <1>6, <1>7, <1>9, <1>10, <1>11, <1>12, <1>13, <1>14 DEF IInv

\* The thread that drops the last reference has the block in its hand.
LEMMA FetchSubOK ==
  ASSUME CardLaws, IInv, NEW t \in Thread, NEW r \in Ref, FetchSub(t, r)
  PROVE  IInv'
<1> DEFINE o == place[r]
<1>0. /\ Shape /\ pc[t] = "idle" /\ o \in Offset
      /\ ref_count' = [ref_count EXCEPT ![o] = @ - 1]
      /\ place' = [place EXCEPT ![r] = None]
      /\ thrown' = IF ref_count[o] = 0 THEN "reference underflow" ELSE thrown
  BY ShapeFacts DEF FetchSub, Shape
<1>u. UNCHANGED <<registered, bump_offset, active_blocks, free_heads, class_locks, state, generation,
                  size_class, next_free_offset, class, expected, carved, freelist>>
  BY DEF FetchSub, header
<1>p. /\ ref_count[o] = 1 => pc' = [pc EXCEPT ![t] = "mark"] /\ block' = [block EXCEPT ![t] = o]
      /\ ref_count[o] # 1 => UNCHANGED <<pc, block>>
  BY DEF FetchSub
<1>1. r \in HeldBy(place, o)
  BY HeldMember
<1>2. /\ ref_count[o] = Cardinality(HeldBy(place, o)) /\ ~OnList(freelist, o)
      /\ <<o, size_class[o]>> \in carved /\ state[o] = "allocated"
  BY <1>0, <1>1 DEF IInv, HeldIsCounted
<1> HIDE DEF o
<1>3. ref_count[o] \in Nat /\ ref_count[o] # 0
  BY <1>1, <1>2, HeldFacts
<1>4. \A q \in Offset : HeldBy(place', q) = IF q = o THEN HeldBy(place, q) \ {r} ELSE HeldBy(place, q)
  <2>1. \A x \in Ref : place'[x] = IF x = r THEN None ELSE place[x]
    BY <1>0 DEF Shape
  <2>2. place[r] = o
    BY DEF o
  <2>3. QED
    BY <2>1, <2>2, SMTT(20) DEF HeldBy, Offset, None
<1>5. Cardinality(HeldBy(place', o)) = ref_count[o] - 1
  BY <1>0, <1>1, <1>2, <1>4, HeldFacts, CardRemove
<1>6. \A q \in Offset \ {o} : ref_count'[q] = ref_count[q] /\ HeldBy(place', q) = HeldBy(place, q)
  BY <1>0, <1>4 DEF Shape
<1>7. /\ ref_count' \in [Offset -> Nat] /\ place' \in [Ref -> Offset \cup {None}]
      /\ ref_count'[o] = ref_count[o] - 1
  BY <1>0, <1>3, SMTT(20) DEF Shape
<1>8. HeldBy(place', o) = {} <=> ref_count[o] = 1
  BY <1>3, <1>5, HeldFacts, SMTT(20)
<1>9. BlocksApart' /\ ListsOK'
  BY <1>u, ApartFrame, ListsFrame
<1>10. HeldIsCounted'
  BY <1>u, <1>2, <1>5, <1>6, <1>7 DEF IInv, HeldIsCounted
<1>11. \A u \in Thread : InHand(u) => u # t /\ block[u] # o /\ block[u] \in Offset
  BY <1>0, <1>1 DEF IInv, HandIsAlone, InHand
<1>12. CASE ref_count[o] # 1
  <2>1. UNCHANGED <<pc, block, thrown>>
    BY <1>0, <1>p, <1>3, <1>12
  <2>2. TypeOK' /\ thrown' = "none"
    BY <1>u, <1>7, <2>1 DEF IInv, TypeOK
  <2>3. \A u \in Thread : InHand(u)' <=> InHand(u)
    BY <2>1 DEF InHand
  <2>4. HandIsAlone'
    BY <1>u, <1>6, <1>11, <2>1, <2>3 DEF IInv, HandIsAlone
  <2>5. \A q \in Offset : HeldBy(place', q) = {} <=> HeldBy(place, q) = {}
    BY <1>1, <1>6, <1>8, <1>12
  <2>6. Somewhere'
    BY <1>u, <2>1, <2>3, <2>5 DEF IInv, Somewhere
  <2>7. LocksExclude'
    BY <1>u, <2>1, SMTT(20) DEF IInv, LocksExclude, Holds
  <2>8. HeldBlocks(place') = HeldBlocks(place)
    BY <2>5 DEF HeldBlocks
  <2>9. ActiveIsCounted'
    BY <1>u, <2>1, <2>8 DEF IInv, ActiveIsCounted
  <2>10. OwnersAllocate'
    BY <1>u, <2>1 DEF IInv, OwnersAllocate
  <2>11. QED
    BY <1>9, <1>10, <2>2, <2>4, <2>6, <2>7, <2>9, <2>10 DEF IInv
<1>13. CASE ref_count[o] = 1
  <2>1. /\ pc' = [pc EXCEPT ![t] = "mark"] /\ block' = [block EXCEPT ![t] = o] /\ thrown' = thrown
        /\ pc'[t] = "mark" /\ block'[t] = o
        /\ \A u \in Thread \ {t} : pc'[u] = pc[u] /\ block'[u] = block[u] /\ class'[u] = class[u]
    BY <1>0, <1>u, <1>p, <1>13, SMTT(20) DEF Shape
  <2>2. TypeOK' /\ thrown' = "none"
    <3>1. pc' \in [Thread -> {"idle"} \cup AllocPc \cup ReleasePc]
      BY <1>0, <2>1 DEF Shape, ReleasePc
    <3>2. block' \in [Thread -> Offset \cup {None}]
      BY <1>0, <2>1 DEF Shape
    <3>3. QED
      BY <1>u, <1>7, <2>1, <3>1, <3>2 DEF IInv, TypeOK
  <2>3. \A u \in Thread : InHand(u)' <=> InHand(u) \/ u = t
    BY <2>1 DEF InHand
  <2>4. HandIsAlone'
    <3>1. ASSUME NEW u \in Thread, InHand(u)'
          PROVE  /\ block'[u] \in Offset
                 /\ <<block'[u], IF pc'[u] = "fill" THEN class'[u] ELSE size_class'[block'[u]]>> \in carved'
                 /\ HeldBy(place', block'[u]) = {}
                 /\ ~OnList(freelist', block'[u])
                 /\ \A v \in Thread : InHand(v)' /\ block'[v] = block'[u] => v = u
                 /\ pc'[u] \in {"count", "publish"} => ref_count'[block'[u]] = 1
      <4>1. CASE u = t
        <5>1. \A v \in Thread : InHand(v)' /\ block'[v] = o => v = t
          BY <1>11, <2>1, <2>3
        <5>2. o \in Offset /\ pc'[u] = "mark" /\ block'[u] = o
          BY <1>0, <2>1, <4>1
        <5>3. <<o, size_class'[o]>> \in carved' /\ HeldBy(place', o) = {} /\ ~OnList(freelist', o)
          BY <1>u, <1>2, <1>8, <1>13
        <5>4. QED
          BY <4>1, <5>1, <5>2, <5>3
      <4>2. CASE u # t
        BY <1>u, <1>6, <1>11, <2>1, <2>3, <3>1, <4>2, SMTT(60) DEF IInv, HandIsAlone
      <4>3. QED
        BY <4>1, <4>2
    <3>2. QED
      BY <3>1 DEF HandIsAlone
  <2>5. Somewhere'
    BY <1>u, <1>6, <1>11, <2>1, <2>3, SMTT(20) DEF IInv, Somewhere
  <2>6. LocksExclude'
    BY <1>0, <1>u, <2>1, LocksFrame
  <2>7. ActiveIsCounted'
    <3>1. Counting(pc') = Counting(pc) \cup {t} /\ t \notin Counting(pc)
      BY <1>0, <2>1 DEF Counting, CountPc, Shape
    <3>2. IsFiniteSet(Counting(pc)) /\ active_blocks = Cardinality(HeldBlocks(place)) + Cardinality(Counting(pc))
      BY DEF IInv, ActiveIsCounted
    <3>3. IsFiniteSet(Counting(pc')) /\ Cardinality(Counting(pc')) = Cardinality(Counting(pc)) + 1
      BY <3>1, <3>2, CardAdd
    <3>4. HeldBlocks(place') = HeldBlocks(place) \ {o} /\ o \in HeldBlocks(place)
      BY <1>0, <1>1, <1>6, <1>8, <1>13 DEF HeldBlocks
    <3>5. Cardinality(HeldBlocks(place')) = Cardinality(HeldBlocks(place)) - 1
      BY <3>4, HeldBlocksFacts, CardRemove
    <3>6. Cardinality(HeldBlocks(place)) \in Nat /\ Cardinality(Counting(pc)) \in Nat
      BY <3>2, HeldBlocksFacts, CardFacts
    <3>7. QED
      BY <1>u, <3>2, <3>3, <3>5, <3>6, SMTT(20) DEF ActiveIsCounted
  <2>8. OwnersAllocate'
    <3>1. registered
      <4>1. o \in HeldBlocks(place)
        BY <1>0, <1>1 DEF HeldBlocks
      <4>2. IsFiniteSet(Counting(pc)) /\ active_blocks = Cardinality(HeldBlocks(place)) + Cardinality(Counting(pc))
        BY DEF IInv, ActiveIsCounted
      <4>3. active_blocks # 0
        BY <4>1, <4>2, HeldBlocksFacts, CardFacts, SMTT(20)
      <4>4. QED
        BY <4>3 DEF IInv, OwnersAllocate
    <3>2. QED
      BY <1>0, <1>u, <2>1, <3>1 DEF IInv, OwnersAllocate, AllocPc
  <2>9. QED
    BY <1>9, <1>10, <2>2, <2>4, <2>5, <2>6, <2>7, <2>8 DEF IInv
<1>14. QED
  BY <1>12, <1>13

\* free marks the block whose count reached zero.
LEMMA MarkFreeOK ==
  ASSUME IInv, NEW t \in Thread, MarkFree(t)
  PROVE  IInv'
<1>0. /\ Shape /\ pc[t] = "mark" /\ pc' = [pc EXCEPT ![t] = "relock"]
      /\ state' = [state EXCEPT ![block[t]] = "free"]
  BY ShapeFacts DEF MarkFree, Goto
<1>u. UNCHANGED <<registered, bump_offset, active_blocks, free_heads, class_locks, generation, ref_count,
                  size_class, next_free_offset, block, class, expected, place, carved,
                  freelist, thrown>>
  BY DEF MarkFree, header
<1>1. TypeOK' /\ thrown' = "none"
  BY <1>0, <1>u DEF IInv, TypeOK, ReleasePc
<1>2. BlocksApart' /\ ListsOK'
  BY <1>u, ApartFrame, ListsFrame
<1>3. HeldIsCounted' /\ HandIsAlone' /\ Somewhere'
  BY <1>0, <1>u, FullHandStep DEF InHand, Shape
<1>4. LocksExclude'
  BY <1>0, <1>u, LocksFrame DEF Shape
<1>5. ActiveIsCounted'
  BY <1>0, <1>u, ActiveFrame DEF CountPc
<1>6. OwnersAllocate'
  BY <1>0, <1>u, SMTT(20) DEF IInv, OwnersAllocate, Shape, AllocPc
<1>7. QED
  BY <1>1, <1>2, <1>3, <1>4, <1>5, <1>6 DEF IInv

\* free takes the lock of the block's size class.
LEMMA FreeLockOK ==
  ASSUME IInv, NEW t \in Thread, FreeLock(t)
  PROVE  IInv'
<1> DEFINE c == size_class[block[t]]
<1>0. /\ Shape /\ pc[t] = "relock" /\ pc' = [pc EXCEPT ![t] = "link"]
      /\ class_locks[c] = 0 /\ class_locks' = [class_locks EXCEPT ![c] = 1]
  BY ShapeFacts DEF FreeLock, Goto, lock_class
<1>u. UNCHANGED <<registered, bump_offset, active_blocks, free_heads, state, generation, ref_count,
                  size_class, next_free_offset, block, class, expected, place, carved,
                  freelist, thrown>>
  BY DEF FreeLock, metadata
<1>1. block[t] \in Offset /\ c \in Class
  BY <1>0 DEF IInv, HandIsAlone, InHand, Shape
<1>2. TypeOK' /\ thrown' = "none"
  BY <1>0, <1>u DEF IInv, TypeOK, ReleasePc
<1>3. BlocksApart' /\ ListsOK'
  BY <1>u, ApartFrame, ListsFrame
<1>4. HeldIsCounted' /\ HandIsAlone' /\ Somewhere'
  BY <1>0, <1>u, FullHandStep DEF InHand, Shape
<1>5. LocksExclude'
  <2>1. \A u \in Thread \ {t}, d \in Class : Holds(u, d)' => Holds(u, d)
    BY <1>0, <1>u DEF Holds, Shape
  <2>2. \A d \in Class : Holds(t, d)' => d = c
    BY <1>0, <1>u DEF Holds, Shape
  <2>3. Exclusion'
    BY <1>0, <1>1, <2>1, <2>2, LockTaken
  <2>4. ASSUME NEW u \in Thread
        PROVE  /\ pc'[u] = "pop" => block'[u] = free_heads'[class'[u]]
               /\ pc'[u] = "push" => next_free_offset'[block'[u]] = free_heads'[size_class'[block'[u]]]
    BY <1>0, <1>u DEF IInv, LocksExclude, Shape
  <2>5. QED
    BY <2>3, <2>4 DEF LocksExclude, Exclusion
<1>6. ActiveIsCounted'
  BY <1>0, <1>u, ActiveFrame DEF CountPc
<1>7. OwnersAllocate'
  BY <1>0, <1>u, SMTT(20) DEF IInv, OwnersAllocate, Shape, AllocPc
<1>8. QED
  BY <1>2, <1>3, <1>4, <1>5, <1>6, <1>7 DEF IInv

\* free links its block in front of the head it read.
LEMMA LinkNextOK ==
  ASSUME IInv, NEW t \in Thread, LinkNext(t)
  PROVE  IInv'
<1> DEFINE o == block[t]
<1>0. /\ Shape /\ pc[t] = "link" /\ pc' = [pc EXCEPT ![t] = "push"] /\ InHand(t)
      /\ next_free_offset' = [next_free_offset EXCEPT ![o] = free_heads[size_class[o]]]
  BY ShapeFacts DEF LinkNext, Goto, InHand
<1>u. UNCHANGED <<registered, bump_offset, active_blocks, free_heads, class_locks, state, generation,
                  ref_count, size_class, block, class, expected, place, carved, freelist, thrown>>
  BY DEF LinkNext, header
<1>1. /\ o \in Offset /\ ~OnList(freelist, o)
      /\ \A u \in Thread : InHand(u) /\ block[u] = o => u = t
  BY <1>0 DEF IInv, HandIsAlone
<1>2. HeldIsCounted' /\ HandIsAlone' /\ Somewhere'
  BY <1>0, <1>u, FullHandStep DEF InHand, Shape
<1>3. block'[t] = o /\ pc'[t] = "push" /\ \A u \in Thread \ {t} : pc'[u] = pc[u]
  BY <1>0, <1>u DEF Shape
<1>4. \A u \in Thread, d \in Class : Holds(u, d)' <=> Holds(u, d)
  BY <1>0, <1>u DEF Shape, Holds
<1> HIDE DEF o
<1>5. /\ next_free_offset'[o] = free_heads[size_class[o]]
      /\ \A q \in Offset \ {o} : next_free_offset'[q] = next_free_offset[q]
  BY <1>0, <1>1 DEF Shape
<1>6. TypeOK' /\ thrown' = "none"
  <2>1. pc' \in [Thread -> {"idle"} \cup AllocPc \cup ReleasePc]
    BY <1>0 DEF Shape, ReleasePc
  <2>2. next_free_offset' \in [Offset -> Offset \cup {None}]
    BY <1>0, <1>1 DEF Shape
  <2>3. QED
    BY <1>u, <2>1, <2>2 DEF IInv, TypeOK
<1>7. BlocksApart'
  BY <1>u, ApartFrame
<1>8. ListsOK'
  <2>1. ASSUME NEW d \in Class
        PROVE  ListOK(freelist[d], free_heads[d], next_free_offset', size_class, d)
    <3>1. \A i \in 1 .. Len(freelist[d]) : freelist[d][i] # o
      BY <1>1 DEF OnList
    <3>2. \A i \in 1 .. Len(freelist[d]) : freelist[d][i] \in Offset
      BY <1>0, SMTT(20) DEF Shape
    <3>3. ListOK(freelist[d], free_heads[d], next_free_offset, size_class, d)
      BY DEF IInv, ListsOK
    <3>4. \A i \in 1 .. Len(freelist[d]) :
            next_free_offset'[freelist[d][i]] = next_free_offset[freelist[d][i]]
      BY <1>5, <3>1, <3>2
    <3>5. QED
      BY <3>3, <3>4, ListOther
  <2>2. QED
    BY <1>u, <2>1 DEF IInv, ListsOK
<1>9. LocksExclude'
  <2>1. \A d \in Class, u \in Thread : Holds(u, d)' =>
          class_locks'[d] = 1 /\ \A v \in Thread : Holds(v, d)' => v = u
    BY <1>u, <1>4 DEF IInv, LocksExclude
  <2>2. ASSUME NEW u \in Thread
        PROVE  /\ pc'[u] = "pop" => block'[u] = free_heads'[class'[u]]
               /\ pc'[u] = "push" => next_free_offset'[block'[u]] = free_heads'[size_class'[block'[u]]]
    <3>1. CASE u = t
      BY <1>u, <1>3, <1>5, <3>1
    <3>2. CASE u # t
      <4>1. pc[u] = "push" => block[u] \in Offset \ {o}
        BY <1>1, <3>2 DEF IInv, HandIsAlone, InHand
      <4>2. QED
        BY <1>u, <1>3, <1>5, <3>2, <4>1 DEF IInv, LocksExclude
    <3>3. QED
      BY <3>1, <3>2
  <2>3. QED
    BY <2>1, <2>2 DEF LocksExclude
<1>10. ActiveIsCounted'
  BY <1>0, <1>u, ActiveFrame DEF CountPc
<1>11. OwnersAllocate'
  BY <1>0, <1>u, SMTT(20) DEF IInv, OwnersAllocate, Shape, AllocPc
<1>12. QED
  BY <1>2, <1>6, <1>7, <1>8, <1>9, <1>10, <1>11 DEF IInv

\* The block goes from the thread's hand to the top of its list.
LEMMA PushHeadOK ==
  ASSUME IInv, NEW t \in Thread, PushHead(t)
  PROVE  IInv'
<1> DEFINE o == block[t]
           c == size_class[o]
<1>0. /\ Shape /\ pc[t] = "push" /\ pc' = [pc EXCEPT ![t] = "uncount"] /\ InHand(t)
      /\ free_heads' = [free_heads EXCEPT ![c] = o]
      /\ class_locks' = [class_locks EXCEPT ![c] = 0]
      /\ freelist' = [freelist EXCEPT ![c] = Append(@, o)]
      /\ block' = [block EXCEPT ![t] = None]
  BY ShapeFacts DEF PushHead, Goto, InHand
<1>u. UNCHANGED <<registered, bump_offset, active_blocks, state, generation, ref_count, size_class,
                  next_free_offset, class, expected, place, carved, thrown>>
  BY DEF PushHead, metadata
<1>1. /\ o \in Offset /\ <<o, c>> \in carved /\ HeldBy(place, o) = {} /\ ~OnList(freelist, o)
      /\ \A u \in Thread : InHand(u) /\ block[u] = o => u = t
  BY <1>0 DEF IInv, HandIsAlone
<1>2. c \in Class /\ next_free_offset[o] = free_heads[c] /\ Holds(t, c)
  BY <1>0, <1>1 DEF IInv, LocksExclude, Shape, Holds
<1>3. /\ pc'[t] = "uncount" /\ block'[t] = None
      /\ \A u \in Thread \ {t} : pc'[u] = pc[u] /\ block'[u] = block[u] /\ class'[u] = class[u]
  BY <1>0, <1>u DEF Shape
<1>4. block[t] = o /\ size_class[o] = c
  OBVIOUS
<1> HIDE DEF o, c
<1>5. /\ freelist'[c] = Append(freelist[c], o) /\ freelist'[c] \in Seq(Offset)
      /\ freelist[c] \in Seq(Offset) /\ \A d \in Class \ {c} : freelist'[d] = freelist[d]
      /\ free_heads'[c] = o /\ \A d \in Class \ {c} : free_heads'[d] = free_heads[d]
  BY <1>0, <1>1, <1>2, AppendFacts DEF Shape
<1>6. \A q : OnList(freelist', q) <=> OnList(freelist, q) \/ q = o
  <2>1. freelist \in [Class -> Seq(Offset)]
    BY <1>0 DEF Shape
  <2>2. \A q : OnList([freelist EXCEPT ![c] = Append(@, o)], q) <=> OnList(freelist, q) \/ q = o
    BY <1>1, <1>2, <2>1, ListedPush
  <2>3. QED
    BY <1>0, <2>2
<1>7. TypeOK' /\ thrown' = "none"
  <2>1. freelist' \in [Class -> Seq(Offset)]
    BY <1>0, <1>5 DEF Shape
  <2>2. pc' \in [Thread -> {"idle"} \cup AllocPc \cup ReleasePc]
    BY <1>0 DEF Shape, ReleasePc
  <2>3. /\ free_heads' \in [Class -> Offset \cup {None}] /\ class_locks' \in [Class -> {0, 1}]
        /\ block' \in [Thread -> Offset \cup {None}]
    BY <1>0, <1>1 DEF Shape
  <2>4. QED
    BY <1>u, <2>1, <2>2, <2>3 DEF IInv, TypeOK
<1>8. BlocksApart'
  BY <1>u, ApartFrame
<1>9. ListsOK'
  <2>1. ASSUME NEW d \in Class
        PROVE  ListOK(freelist'[d], free_heads'[d], next_free_offset, size_class, d)
    <3>1. CASE d = c
      <4>1. ListOK(freelist[c], free_heads[c], next_free_offset, size_class, c)
        BY <1>2 DEF IInv, ListsOK
      <4>2. \A i \in 1 .. Len(freelist[c]) : freelist[c][i] # o
        BY <1>1, <1>2 DEF OnList
      <4>3. ListOK(Append(freelist[c], o), o, next_free_offset, size_class, c)
        BY <1>1, <1>2, <1>4, <1>5, <4>1, <4>2, ListPush
      <4>4. QED
        BY <1>5, <3>1, <4>3
    <3>2. CASE d # c
      BY <1>5, <3>2 DEF IInv, ListsOK
    <3>3. QED
      BY <3>1, <3>2
  <2>2. ASSUME NEW d \in Class, NEW i \in 1 .. Len(freelist'[d])
        PROVE  <<freelist'[d][i], d>> \in carved
    <3>1. CASE d = c
      <4>1. Len(freelist'[c]) = Len(freelist[c]) + 1 /\ Len(freelist[c]) \in Nat
            /\ (\A j \in 1 .. Len(freelist[c]) : freelist'[c][j] = freelist[c][j])
            /\ freelist'[c][Len(freelist[c]) + 1] = o
        BY <1>1, <1>5, AppendFacts, SMTT(60)
      <4>2. i \in 1 .. Len(freelist[c]) \/ i = Len(freelist[c]) + 1
        BY <3>1, <4>1, SMTT(20)
      <4>3. QED
        BY <1>1, <1>2, <3>1, <4>1, <4>2 DEF IInv, ListsOK
    <3>2. CASE d # c
      BY <1>5, <3>2 DEF IInv, ListsOK
    <3>3. QED
      BY <3>1, <3>2
  <2>3. QED
    BY <1>u, <2>1, <2>2 DEF ListsOK
<1>10. HeldIsCounted'
  BY <1>u, <1>1, <1>6 DEF IInv, HeldIsCounted
<1>11. \A u \in Thread : InHand(u)' <=> InHand(u) /\ u # t
  BY <1>3 DEF InHand
<1>12. HandIsAlone'
  BY <1>u, <1>1, <1>3, <1>6, <1>11 DEF IInv, HandIsAlone
<1>13. Somewhere'
  BY <1>u, <1>3, <1>4, <1>6, <1>11 DEF IInv, Somewhere
<1>14. LocksExclude'
  <2>1. \A u \in Thread \ {t}, d \in Class : Holds(u, d)' => Holds(u, d)
    BY <1>3, <1>u DEF Holds
  <2>2. \A d \in Class : ~Holds(t, d)'
    BY <1>3 DEF Holds
  <2>3. Exclusion'
    BY <1>0, <1>2, <2>1, <2>2, LockDropped
  <2>4. ASSUME NEW u \in Thread
        PROVE  /\ pc'[u] = "pop" => block'[u] = free_heads'[class'[u]]
               /\ pc'[u] = "push" => next_free_offset'[block'[u]] = free_heads'[size_class'[block'[u]]]
    <3>1. CASE u = t
      BY <1>3, <3>1
    <3>2. CASE u # t
      <4>1. ~Holds(u, c)
        BY <1>2, <3>2 DEF IInv, LocksExclude
      <4>2. pc[u] = "push" => block[u] \in Offset
        BY DEF IInv, HandIsAlone, InHand
      <4>3. class[u] \in Class /\ (pc[u] = "push" => size_class[block[u]] \in Class)
        BY <1>0, <4>2 DEF Shape
      <4>4. QED
        BY <1>u, <1>3, <1>5, <3>2, <4>1, <4>3, SMTT(20) DEF IInv, LocksExclude, Holds
    <3>3. QED
      BY <3>1, <3>2
  <2>5. QED
    BY <2>3, <2>4 DEF LocksExclude, Exclusion
<1>15. ActiveIsCounted'
  BY <1>0, <1>u, ActiveFrame DEF CountPc
<1>16. OwnersAllocate'
  BY <1>0, <1>u, SMTT(20) DEF IInv, OwnersAllocate, Shape, AllocPc
<1>17. QED
  BY <1>7, <1>8, <1>9, <1>10, <1>12, <1>13, <1>14, <1>15, <1>16 DEF IInv

\* free takes the block off active_blocks.
LEMMA UncountActiveOK ==
  ASSUME CardLaws, IInv, NEW t \in Thread, UncountActive(t)
  PROVE  IInv'
<1>0. /\ Shape /\ pc[t] = "uncount" /\ pc' = [pc EXCEPT ![t] = "idle"]
      /\ active_blocks' = active_blocks - 1 /\ active_blocks \in Nat
      /\ thrown' = IF active_blocks = 0 THEN "active block underflow" ELSE thrown
  BY ShapeFacts DEF UncountActive, Goto, IInv, TypeOK
<1>u. UNCHANGED <<registered, bump_offset, free_heads, class_locks, state, generation, ref_count,
                  size_class, next_free_offset, block, class, expected, place, carved, freelist>>
  BY DEF UncountActive, metadata
<1>1. Counting(pc') = Counting(pc) \ {t} /\ t \in Counting(pc)
  BY <1>0 DEF Counting, CountPc, Shape
<1>2. IsFiniteSet(Counting(pc)) /\ active_blocks = Cardinality(HeldBlocks(place)) + Cardinality(Counting(pc))
  BY DEF IInv, ActiveIsCounted
<1>3. IsFiniteSet(Counting(pc')) /\ Cardinality(Counting(pc')) = Cardinality(Counting(pc)) - 1
  BY <1>1, <1>2, CardRemove
<1>4. /\ Cardinality(HeldBlocks(place)) \in Nat /\ Cardinality(Counting(pc)) \in Nat
      /\ Cardinality(Counting(pc)) # 0
  BY <1>1, <1>2, HeldBlocksFacts, CardFacts
<1>a. active_blocks' = active_blocks - 1 /\ active_blocks \in Nat /\ place' = place
  BY <1>0, <1>u
<1>5. ActiveIsCounted'
  <2>1. active_blocks' = Cardinality(HeldBlocks(place)) + Cardinality(Counting(pc'))
    BY <1>a, <1>2, <1>3, <1>4, SMTT(20)
  <2>2. QED
    BY <1>a, <1>3, <2>1 DEF ActiveIsCounted
<1>b. active_blocks # 0 /\ active_blocks' \in Nat
  BY <1>a, <1>2, <1>4, SMTT(20)
<1>6. active_blocks # 0 /\ active_blocks' \in Nat /\ thrown' = thrown
  BY <1>0, <1>b
<1>7. TypeOK' /\ thrown' = "none"
  BY <1>0, <1>u, <1>6 DEF IInv, TypeOK
<1>8. BlocksApart' /\ ListsOK'
  BY <1>u, ApartFrame, ListsFrame
<1>9. HeldIsCounted' /\ HandIsAlone' /\ Somewhere'
  BY <1>0, <1>u, EmptyHandStep DEF InHand, Shape
<1>10. LocksExclude'
  BY <1>0, <1>u, LocksFrame DEF Shape
<1>11. OwnersAllocate'
  BY <1>0, <1>u, <1>6 DEF IInv, OwnersAllocate, Shape, AllocPc
<1>12. QED
  BY <1>5, <1>7, <1>8, <1>9, <1>10, <1>11 DEF IInv

-----------------------------------------------------------------------------
\* unregister_endpoint and register_endpoint

\* A state that differs in registered only.
LEMMA UnregisterOK ==
  ASSUME IInv, Unregister
  PROVE  IInv'
<1>u. UNCHANGED <<bump_offset, active_blocks, free_heads, class_locks, state, generation, ref_count,
                  size_class, next_free_offset, pc, block, class, expected, place, carved,
                  freelist, thrown>>
  BY DEF Unregister, header, metadata, locals
<1>1. registered' = FALSE /\ active_blocks = 0 /\ \A t \in Owner : pc[t] = "idle"
  BY DEF Unregister
<1>2. TypeOK' /\ thrown' = "none"
  BY <1>u, <1>1 DEF IInv, TypeOK
<1>3. BlocksApart' /\ ListsOK'
  BY <1>u, ApartFrame, ListsFrame
<1>4. HeldIsCounted' /\ HandIsAlone' /\ Somewhere'
  BY <1>u DEF IInv, HeldIsCounted, HandIsAlone, Somewhere, InHand
<1>5. LocksExclude'
  BY <1>u, SMTT(20) DEF IInv, LocksExclude, Holds
<1>6. ActiveIsCounted'
  BY <1>u DEF IInv, ActiveIsCounted
<1>7. OwnersAllocate'
  BY <1>u, <1>1 DEF IInv, OwnersAllocate
<1>8. QED
  BY <1>2, <1>3, <1>4, <1>5, <1>6, <1>7 DEF IInv

\* No active block: no block is held and no thread is inside a call.
LEMMA Quiet ==
  ASSUME CardLaws, IInv, active_blocks = 0, \A t \in Owner : pc[t] = "idle"
  PROVE  /\ \A o \in Offset : HeldBy(place, o) = {}
         /\ \A t \in Thread : pc[t] = "idle"
<1>1. IsFiniteSet(Counting(pc)) /\ active_blocks = Cardinality(HeldBlocks(place)) + Cardinality(Counting(pc))
  BY DEF IInv, ActiveIsCounted
<1>2. Cardinality(HeldBlocks(place)) \in Nat /\ Cardinality(Counting(pc)) \in Nat
  BY <1>1, HeldBlocksFacts, CardFacts
<1>3. Cardinality(HeldBlocks(place)) = 0 /\ Cardinality(Counting(pc)) = 0
  BY <1>1, <1>2, SMTT(20)
<1>4. HeldBlocks(place) = {} /\ Counting(pc) = {}
  BY <1>1, <1>3, HeldBlocksFacts, CardFacts
<1>5. \A o \in Offset : HeldBy(place, o) = {}
  BY <1>4 DEF HeldBlocks
<1>6. \A t \in Thread : pc[t] \notin CountPc /\ pc[t] \in {"idle"} \cup AllocPc \cup ReleasePc
  BY <1>4, ShapeFacts DEF Counting, Shape
<1>7. \A t \in Thread : pc[t] \in AllocPc => FALSE
  BY DEF IInv, OwnersAllocate, AllocPc
<1>8. \A t \in Thread : pc[t] = "idle"
  BY <1>6, <1>7 DEF CountPc, ReleasePc
<1>9. QED
  BY <1>5, <1>8

\* A new endpoint takes the arena over.
LEMMA RegisterOK ==
  ASSUME CardLaws, IInv, Register
  PROVE  IInv'
<1>u. UNCHANGED <<state, generation, ref_count, size_class, next_free_offset, pc, block, class,
                  expected, place, thrown>>
  BY DEF Register, metadata, locals
<1>0. /\ registered' = TRUE /\ bump_offset' = 1 /\ active_blocks' = 0
      /\ free_heads' = [c \in Class |-> None] /\ class_locks' = [c \in Class |-> 0]
      /\ carved' = {} /\ freelist' = [c \in Class |-> <<>>]
  BY DEF Register
<1>1. active_blocks = 0 /\ \A t \in Owner : pc[t] = "idle"
  BY DEF Register, IInv, OwnersAllocate
<1>2. (\A o \in Offset : HeldBy(place, o) = {}) /\ \A t \in Thread : pc[t] = "idle"
  BY <1>1, Quiet
<1>3. TypeOK' /\ thrown' = "none"
  <2>1. bump_offset' \in 1 .. ArenaEnd + 1 /\ active_blocks' \in Nat /\ registered' \in BOOLEAN
    BY <1>0, ArenaAssumption, SMTT(20)
  <2>2. /\ free_heads' \in [Class -> Offset \cup {None}] /\ class_locks' \in [Class -> {0, 1}]
        /\ carved' \subseteq Offset \X Class
    BY <1>0
  <2>3. freelist' \in [Class -> Seq(Offset)]
    BY <1>0, SMTT(20)
  <2>4. QED
    BY <1>u, <2>1, <2>2, <2>3 DEF IInv, TypeOK
<1>4. BlocksApart'
  BY <1>0 DEF BlocksApart
<1>5. ListsOK'
  BY <1>0, SMTT(20) DEF ListsOK, ListOK
<1>6. \A t \in Thread : ~InHand(t)'
  BY <1>u, <1>2 DEF InHand
<1>7. HeldIsCounted' /\ HandIsAlone' /\ Somewhere'
  BY <1>0, <1>u, <1>2, <1>6 DEF HeldIsCounted, HandIsAlone, Somewhere
<1>8. LocksExclude'
  BY <1>u, <1>2 DEF LocksExclude, Holds
<1>9. ActiveIsCounted'
  BY <1>0, <1>u, <1>1 DEF IInv, ActiveIsCounted
<1>10. OwnersAllocate'
  BY <1>0, <1>u DEF IInv, OwnersAllocate
<1>11. QED
  BY <1>3, <1>4, <1>5, <1>7, <1>8, <1>9, <1>10 DEF IInv

-----------------------------------------------------------------------------
\* The invariant

\* The zeroed arena satisfies it: nothing is carved, held or counted.
LEMMA InitOK == CardLaws /\ Init => IInv
<1> SUFFICES ASSUME CardLaws, Init PROVE IInv
  OBVIOUS
<1>1. 0 \in Class /\ 0 \in 0 .. GenModulus - 1 /\ 0 \in 0 .. ArenaEnd + 1 /\ 1 \in 1 .. ArenaEnd + 1
  BY ClassAssumption, GenAssumption, ArenaAssumption, SMTT(20) DEF Class
<1>2. TypeOK /\ thrown = "none"
  BY <1>1, SMTT(20) DEF Init, TypeOK
<1>3. BlocksApart
  BY DEF Init, BlocksApart
<1>4. ListsOK
  BY SMTT(20) DEF Init, ListsOK, ListOK
<1>5. (\A o \in Offset : HeldBy(place, o) = {}) /\ \A t \in Thread : pc[t] = "idle"
  BY SMTT(20) DEF Init, HeldBy, Offset, None
<1>6. \A t \in Thread : ~InHand(t)
  BY <1>5 DEF InHand
<1>7. HeldIsCounted /\ HandIsAlone /\ Somewhere
  BY <1>5, <1>6 DEF Init, HeldIsCounted, HandIsAlone, Somewhere
<1>8. LocksExclude
  BY <1>5 DEF LocksExclude, Holds
<1>9. ActiveIsCounted
  <2>1. HeldBlocks(place) = {} /\ Counting(pc) = {}
    BY <1>5 DEF HeldBlocks, Counting, CountPc
  <2>2. IsFiniteSet({}) /\ Cardinality({}) = 0
    BY <2>1, HeldBlocksFacts, CardFacts
  <2>3. active_blocks = 0 /\ 0 + 0 = 0
    BY SMTT(20) DEF Init
  <2>4. QED
    BY <2>1, <2>2, <2>3 DEF ActiveIsCounted
<1>10. OwnersAllocate
  BY <1>5 DEF Init, OwnersAllocate, AllocPc
<1>11. QED
  BY <1>2, <1>3, <1>4, <1>7, <1>8, <1>9, <1>10 DEF IInv

\* Every step keeps it.
LEMMA NextOK == CardLaws /\ IInv /\ [Next]_vars => IInv'
<1> SUFFICES ASSUME CardLaws, IInv, [Next]_vars PROVE IInv'
  OBVIOUS
<1>1. ASSUME NEW t \in Owner, AllocStep(t) PROVE IInv'
  BY <1>1, BeginAllocOK, AllocLockOK, LoadHeadOK, PopHeadOK, ListEmptyOK, LoadBumpOK, ArenaFullOK,
     CasBumpOK, FillMetadataOK, CountActiveOK, PublishBlockOK DEF AllocStep
<1>2. ASSUME NEW t \in Thread, ReleaseStep(t) PROVE IInv'
  BY <1>2, MarkFreeOK, FreeLockOK, LinkNextOK, PushHeadOK, UncountActiveOK DEF ReleaseStep
<1>3. ASSUME NEW t \in Thread, NEW r \in Ref, AddRef(t, r) \/ FetchSub(t, r) PROVE IInv'
  BY <1>3, AddRefOK, FetchSubOK
<1>4. CASE UNCHANGED vars
  <2>u. UNCHANGED <<registered, bump_offset, active_blocks, free_heads, class_locks, state,
                    generation, ref_count, size_class, next_free_offset, pc, block, class,
                    expected, place, carved, freelist, thrown>>
    BY <1>4 DEF vars, header, metadata, locals
  <2>1. TypeOK' /\ thrown' = "none"
    BY <2>u DEF IInv, TypeOK
  <2>2. BlocksApart' /\ ListsOK'
    BY <2>u, ApartFrame, ListsFrame
  <2>3. HeldIsCounted' /\ HandIsAlone' /\ Somewhere'
    BY <2>u DEF IInv, HeldIsCounted, HandIsAlone, Somewhere, InHand
  <2>4. LocksExclude' /\ ActiveIsCounted' /\ OwnersAllocate'
    BY <2>u, SMTT(20) DEF IInv, LocksExclude, Holds, ActiveIsCounted, OwnersAllocate
  <2>5. QED
    BY <2>1, <2>2, <2>3, <2>4 DEF IInv
<1>5. QED
  BY <1>1, <1>2, <1>3, <1>4, UnregisterOK, RegisterOK DEF Next

-----------------------------------------------------------------------------
INSTANCE FiniteSetTheorems

\* The laws of cardinality that the steps use.
LEMMA Laws == CardLaws
<1>1. \A S : IsFiniteSet(S) => Cardinality(S) \in Nat /\ (Cardinality(S) = 0 <=> S = {})
  BY FS_CardinalityType, FS_EmptySet
<1>2. \A S, x : IsFiniteSet(S) /\ x \notin S =>
        IsFiniteSet(S \cup {x}) /\ Cardinality(S \cup {x}) = Cardinality(S) + 1
  BY FS_AddElement
<1>3. \A S, x : IsFiniteSet(S) /\ x \in S =>
        IsFiniteSet(S \ {x}) /\ Cardinality(S \ {x}) = Cardinality(S) - 1
  BY FS_RemoveElement
<1>4. \A S, x : IsFiniteSet(S) /\ x \in S => (Cardinality(S) = 1 <=> S = {x})
  BY SMTT(20), FS_Singleton
<1>5. \A S, T : IsFiniteSet(S) /\ T \subseteq S => IsFiniteSet(T)
  BY FS_Subset
<1>6. \A n \in Nat : IsFiniteSet(1 .. n)
  BY SMTT(20), FS_Interval
<1>7. QED
  BY <1>1, <1>2, <1>3, <1>4, <1>5, <1>6 DEF CardLaws

\* The invariant holds throughout, whatever the threads of any machine do between
\* the atomic steps of alloc, add_ref, free and release_remote_ref.
THEOREM Invariance == Spec => []IInv
BY Laws, InitOK, NextOK, PTL DEF Spec

-----------------------------------------------------------------------------
\* What the invariant says to the callers

\* Held and Listed are the operators of the invariant, at the current state.
LEMMA SameOperators ==
  \A o : Held(o) = HeldBy(place, o) /\ (Listed(o) <=> OnList(freelist, o))
BY DEF Held, HeldBy, Listed, OnList

\* A block's count is the number of references to it, so add_ref, free and
\* release_remote_ref never throw for callers that drop each reference once.
THEOREM CountsAreExact == Spec => []RefCountExact
<1>1. ASSUME IInv PROVE RefCountExact
  <2>1. ASSUME NEW o \in Offset, Held(o) # {}
        PROVE  /\ state[o] = "allocated" /\ ref_count[o] = Cardinality(Held(o)) /\ ~Listed(o)
               /\ \A t \in Thread : InHand(t) => block[t] # o
    BY <1>1, <2>1, SameOperators DEF IInv, HeldIsCounted, HandIsAlone
  <2>2. QED
    BY <1>1, <2>1 DEF RefCountExact, IInv
<1>2. QED
  BY <1>1, Invariance, PTL

\* alloc never hands out memory that a caller still holds.
THEOREM PayloadsAreDisjoint == Spec => []PayloadsDisjoint
<1>1. ASSUME IInv PROVE PayloadsDisjoint
  <2>1. ASSUME NEW o \in Offset, NEW q \in Offset, Held(o) # {}, Held(q) # {}
        PROVE  /\ Extent(o) \subseteq 1 .. bump_offset - 1
               /\ o # q => Extent(o) \cap Extent(q) = {}
    <3>1. /\ <<o, size_class[o]>> \in carved /\ size_class[o] \in Class
          /\ <<q, size_class[q]>> \in carved /\ size_class[q] \in Class
      BY <1>1, <2>1, SameOperators, ShapeFacts DEF IInv, HeldIsCounted, Shape
    <3>2. /\ BlockUnits(size_class[o]) \in Nat /\ BlockUnits(size_class[q]) \in Nat
          /\ o \in Nat /\ o >= 1 /\ q \in Nat /\ bump_offset \in Int
      BY SMTT(20), <1>1, <3>1, UnitFacts, ArenaAssumption DEF Offset, IInv, TypeOK
    <3>3. /\ o + BlockUnits(size_class[o]) <= bump_offset
          /\ o = q \/ o + BlockUnits(size_class[o]) <= q \/ q + BlockUnits(size_class[q]) <= o
      BY <1>1, <3>1 DEF IInv, BlocksApart
    <3>4. QED
      BY SMTT(20), <3>2, <3>3 DEF Extent
  <2>2. QED
    BY <2>1 DEF PayloadsDisjoint
<1>2. QED
  BY <1>1, Invariance, PTL

\* The links of every free list lead through its blocks, each once: push and pop of
\* a class list under its lock never lose or cycle the chain.
THEOREM FreeListsAreLinked == Spec => []FreeListsLinked
<1>1. ASSUME IInv PROVE FreeListsLinked
  <2>1. ASSUME NEW c \in Class
        PROVE  ListOK(freelist[c], free_heads[c], next_free_offset, size_class, c)
               /\ Len(freelist[c]) \in Nat
    BY SMTT(20), <1>1, ShapeFacts DEF IInv, ListsOK, Shape
  <2>2. QED
    BY SMTT(20), <2>1 DEF FreeListsLinked, ListOK
<1>2. QED
  BY <1>1, Invariance, PTL

\* No block that carve made leaks: each is free, held, or in the hand of one thread
\* that is inside alloc or a release.
THEOREM NoBlockIsLost == Spec => []NoBlockLost
<1>1. ASSUME IInv PROVE NoBlockLost
  <2>1. ASSUME NEW b \in carved
        PROVE  Listed(b[1]) \/ Held(b[1]) # {} \/ \E t \in Thread : InHand(t) /\ block[t] = b[1]
    <3>1. b[1] \in Offset /\ b[2] \in Class /\ b = <<b[1], b[2]>>
      BY SMTT(20), <1>1 DEF IInv, TypeOK
    <3>2. QED
      BY <1>1, <3>1, SameOperators DEF IInv, Somewhere
  <2>2. QED
    BY <2>1 DEF NoBlockLost
<1>2. QED
  BY <1>1, Invariance, PTL

\* What unregister_endpoint reads from active_blocks = 0 is true.
THEOREM ZeroIsQuiet == Spec => []ZeroActiveIsQuiet
<1>1. ASSUME IInv PROVE ZeroActiveIsQuiet
  <2>1. ASSUME active_blocks = 0, \A t \in Owner : pc[t] = "idle"
        PROVE  (\A r \in Ref : place[r] = None) /\ \A t \in Thread : pc[t] = "idle"
    <3>1. (\A o \in Offset : HeldBy(place, o) = {}) /\ \A t \in Thread : pc[t] = "idle"
      BY Laws, <1>1, <2>1, Quiet
    <3>2. \A r \in Ref : place[r] \in Offset \cup {None}
      BY <1>1, ShapeFacts DEF Shape
    <3>3. QED
      BY <3>1, <3>2, HeldMember
  <2>2. QED
    BY <2>1 DEF ZeroActiveIsQuiet
<1>2. QED
  BY <1>1, Invariance, PTL

\* No allocation rewrites the metadata of a block from under a caller that holds it:
\* its generation and class stay while a reference to it exists.
THEOREM HeldBlocksStay == Spec => HeldBlockStable
<1> DEFINE Stays == \A o \in Offset : Held(o) # {} /\ Held(o)' # {} =>
                      generation'[o] = generation[o] /\ size_class'[o] = size_class[o]
<1>1. ASSUME IInv, [Next]_vars PROVE [Stays]_vars
  <2>1. ASSUME NEW t \in Owner, FillMetadata(t) PROVE Stays
    <3>1. t \in Thread /\ InHand(t)
      BY <2>1, ThreadAssumption DEF FillMetadata, Goto, InHand
    <3>2. HeldBy(place, block[t]) = {}
      BY <1>1, <3>1 DEF IInv, HandIsAlone
    <3>3. ASSUME NEW o \in Offset, Held(o) # {}
          PROVE  generation'[o] = generation[o] /\ size_class'[o] = size_class[o]
      <4>1. o # block[t]
        BY <3>2, <3>3, SameOperators
      <4>2. generation \in [Offset -> 0 .. GenModulus - 1] /\ size_class \in [Offset -> Class]
        BY <1>1 DEF IInv, TypeOK
      <4>3. QED
        BY <2>1, <4>1, <4>2 DEF FillMetadata
    <3>4. QED
      BY <3>3
  <2>2. \/ UNCHANGED <<generation, size_class>>
        \/ \E t \in Owner : FillMetadata(t)
    BY <1>1 DEF Next, AllocStep, ReleaseStep, vars, metadata, BeginAlloc, AllocLock, LoadHead, PopHead,
       ListEmpty, LoadBump, ArenaFull, CasBump, CountActive, PublishBlock, AddRef, FetchSub, MarkFree,
       FreeLock, LinkNext, PushHead, UncountActive, Unregister, Register
  <2>3. QED
    BY <2>1, <2>2
<1>2. QED
  BY <1>1, Invariance, PTL DEF Spec, HeldBlockStable
=============================================================================
