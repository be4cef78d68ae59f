--------------------------- MODULE UBMPSCRingProofs ---------------------------
(***************************************************************************)
(* Proofs about UBMPSCRingBuffer, for any number of producers and every    *)
(* capacity above 1.  First what the slots of consecutive positions have   *)
(* to do with each other, then the inductive invariant IInv, action by     *)
(* action, and from it that messages are whole.                            *)
(***************************************************************************)
EXTENDS UBMPSCRing, Integers, TLAPS

-----------------------------------------------------------------------------
\* Division with remainder

\* Division with remainder, as try_enqueue and try_dequeue use it for slot
\* indices and counters.
LEMMA DivMod ==
  ASSUME NEW a \in Int, NEW m \in Nat \ {0}
  PROVE  /\ a % m \in 0 .. m - 1
         /\ a \div m \in Int
         /\ a = m * (a \div m) + (a % m)
OBVIOUS

\* Multiples of m are at least m apart.
LEMMA MulGap ==
  ASSUME NEW m \in Nat \ {0}, NEW p \in Int, NEW q \in Int, p > q
  PROVE  m * p >= m * q + m
OBVIOUS

\* The remainder is unique: it can be read off any decomposition.
LEMMA ModUnique ==
  ASSUME NEW m \in Nat \ {0}, NEW a \in Int, NEW q \in Int,
         NEW r \in 0 .. m - 1, a = m * q + r
  PROVE  a % m = r
<1> DEFINE p == a \div m
           s == a % m
<1>1. p \in Int /\ s \in 0 .. m - 1 /\ a = m * p + s
  BY DivMod
<1>2. CASE p = q
  BY <1>1, <1>2
<1>3. CASE p > q
  BY <1>1, <1>3, MulGap
<1>4. CASE q > p
  BY <1>1, <1>4, MulGap
<1>5. QED
  BY <1>1, <1>2, <1>3, <1>4

\* Multiplication distributes over subtraction.
LEMMA MulMinus ==
  ASSUME NEW m \in Nat, NEW q \in Int, NEW k \in Int
  PROVE  m * (q - k) = m * q - k * m
OBVIOUS

\* Subtracting a multiple of m does not change the remainder.
LEMMA ModShift ==
  ASSUME NEW m \in Nat \ {0}, NEW a \in Int, NEW k \in Int
  PROVE  (a - k * m) % m = a % m
<1> DEFINE q == a \div m
           r == a % m
<1>1. q \in Int /\ r \in 0 .. m - 1 /\ a = m * q + r
  BY DivMod
<1>2. m * q \in Int /\ k * m \in Int /\ q - k \in Int
  BY <1>1
<1>3. m * (q - k) = m * q - k * m
  BY <1>1, MulMinus
<1>4. a - k * m = m * (q - k) + r
  BY <1>1, <1>2, <1>3
<1>5. a - k * m \in Int
  BY <1>2
<1> HIDE DEF q, r
<1>6. (a - k * m) % m = r
  BY <1>1, <1>2, <1>4, <1>5, ModUnique
<1>7. QED
  BY <1>6 DEF r

\* Two numbers less than m apart have different remainders.
LEMMA ModDistinct ==
  ASSUME NEW m \in Nat \ {0}, NEW a \in Int, NEW b \in Int,
         a < b, b - a < m
  PROVE  a % m # b % m
<1> SUFFICES ASSUME a % m = b % m PROVE FALSE
  OBVIOUS
<1> DEFINE p == a \div m
           q == b \div m
           r == a % m
<1>1. p \in Int /\ q \in Int /\ r \in Int /\ a = m * p + r /\ b = m * q + r
  BY DivMod
<1>2. CASE q > p
  BY <1>1, <1>2, MulGap
<1>3. CASE p >= q
  <2>1. p = q \/ p > q
    BY <1>1, <1>3
  <2>2. QED
    BY <1>1, <2>1, MulGap
<1>4. QED
  BY <1>1, <1>2, <1>3

-----------------------------------------------------------------------------
\* Positions less than a capacity apart have different slots, and a position
\* shares its slot with the one a capacity later.
LEMMA SlotFacts ==
  /\ Capacity \in Nat /\ Capacity > 1
  /\ \A i \in Nat : slot(i) \in Slot
  /\ \A i, j \in Nat : i < j /\ j < i + Capacity => slot(i) # slot(j)
  /\ \A i \in Nat : slot(i + Capacity) = slot(i)
<1>1. Capacity \in Nat /\ Capacity > 1
  BY RingAssumption
<1>2. ASSUME NEW i \in Nat PROVE slot(i) \in Slot
  BY <1>1, DivMod DEF slot, Slot
<1>3. ASSUME NEW i \in Nat, NEW j \in Nat, i < j, j < i + Capacity
      PROVE  slot(i) # slot(j)
  <2>1. Capacity \in Nat \ {0} /\ i \in Int /\ j \in Int /\ j - i < Capacity
    BY <1>1, <1>3
  <2>2. i % Capacity # j % Capacity
    BY Zenon, <1>3, <2>1, ModDistinct
  <2>3. QED
    BY <2>2 DEF slot
<1>4. ASSUME NEW i \in Nat PROVE slot(i + Capacity) = slot(i)
  <2> DEFINE a == i + Capacity
  <2>1. a \in Int /\ i = a - 1 * Capacity /\ 1 \in Int /\ Capacity \in Nat \ {0}
    BY <1>1
  <2> HIDE DEF a
  <2>2. (a - 1 * Capacity) % Capacity = a % Capacity
    BY Zenon, <2>1, ModShift
  <2>3. QED
    BY <2>1, <2>2 DEF slot, a
<1>5. QED
  BY <1>1, <1>2, <1>3, <1>4

\* A claimed position that is not freed yet is in the window.
LEMMA InWindow ==
  ASSUME NEW i \in Nat, Freed \in Nat, tail \in Nat, tail <= Freed + Capacity,
         Freed <= i, i < tail
  PROVE  i \in Window
<1>1. Capacity \in Nat
  BY RingAssumption
<1>2. i \in Freed .. (Freed + Capacity - 1)
  BY <1>1
<1>3. QED
  BY <1>2 DEF Window

\* The same for any two positions of the window.
LEMMA WindowApart ==
  ASSUME TypeOK, WindowInv
  PROVE  /\ Freed \in Nat /\ Freed < Freed + Capacity
         /\ \A i \in Window : i \in Nat /\ slot(i) \in Slot
         /\ \A i, j \in Window : i # j => slot(i) # slot(j)
<1>1. Freed \in Nat
  BY DEF WindowInv
<1>2. \A i \in Window : i \in Nat /\ i >= Freed /\ i < Freed + Capacity
  BY <1>1, SlotFacts DEF Window
<1>3. ASSUME NEW i \in Window, NEW j \in Window, i # j PROVE slot(i) # slot(j)
  <2>1. i \in Nat /\ j \in Nat /\ (i < j \/ j < i)
    BY <1>2, <1>3
  <2>2. CASE i < j
    BY <1>1, <1>2, <2>1, <2>2, SlotFacts
  <2>3. CASE j < i
    BY <1>1, <1>2, <2>1, <2>3, SlotFacts
  <2>4. QED
    BY <2>1, <2>2, <2>3
<1>4. QED
  BY <1>1, <1>2, <1>3, SlotFacts

\* create leaves a ring in which every slot is free.
LEMMA InitIInv == Init => IInv
<1> SUFFICES ASSUME Init PROVE IInv
  OBVIOUS
<1>1. Freed = 0 /\ head = 0 /\ tail = 0 /\ cpc = "idle"
  BY DEF Init, Freed
<1>2. TypeOK
  <2>1. \A s \in Slot : s \in Nat
    BY SlotFacts DEF Slot
  <2>2. QED
    BY Zenon, <2>1 DEF Init, TypeOK, PieceOrNone
<1>3. WindowInv
  BY <1>1, SlotFacts DEF WindowInv
<1>4. SlotsInv
  <2> SUFFICES ASSUME NEW i \in Window PROVE sequence[slot(i)] = i /\ ~(i < tail)
    BY DEF SlotsInv
  <2>1. i \in 0 .. Capacity - 1
    BY <1>1, SlotFacts DEF Window
  <2>2. slot(i) = i
    <3>1. /\ Capacity \in Nat \ {0} /\ 0 \in Int /\ i \in Int
          /\ i = Capacity * 0 + i
      BY <2>1, SlotFacts
    <3>2. QED
      BY <2>1, <3>1, ModUnique DEF slot
  <2>3. QED
    BY <1>1, <2>1, <2>2 DEF Init, Slot
<1>5. FillersInv /\ ChoosersInv
  BY DEF Init, FillersInv, ChoosersInv, Filling
<1>6. ConsumerInv
  BY <1>1 DEF ConsumerInv
<1>7. QED
  BY <1>2, <1>3, <1>4, <1>5, <1>6 DEF IInv

\* The types of the next state, action by action.
LEMMA NextTypeOK == IInv /\ [Next]_vars => TypeOK'
<1> SUFFICES ASSUME IInv, [Next]_vars PROVE TypeOK'
  OBVIOUS
<1>t. TypeOK /\ Capacity \in Nat /\ \A i \in Nat : slot(i) \in Slot
  BY SlotFacts DEF IInv
<1>m. \A p \in Producer : ppc[p] # "idle" => message[p] \in Message
  BY DEF IInv, ChoosersInv
<1>1. CASE PublishRoot \/ \E p \in Producer : Attach(p)
  BY Zenon, <1>1, <1>t
  DEF PublishRoot, Attach, TypeOK, ringVars, producerVars, consumerVars
<1>2. ASSUME NEW p \in Producer, NEW m \in Message, Send(p, m) PROVE TypeOK'
  BY <1>2, <1>t DEF Send, TypeOK, PieceOrNone, Choosing, ringVars, consumerVars
<1>3. ASSUME NEW p \in Producer,
             LoadTail(p) \/ SlotFree(p) \/ RingFull(p) \/ SlotTaken(p) \/ ClaimFails(p)
      PROVE  TypeOK'
  BY <1>3, <1>t
  DEF LoadTail, SlotFree, RingFull, SlotTaken, ClaimFails, TypeOK, Choosing,
      ringVars, consumerVars
<1>4. ASSUME NEW p \in Producer, Claim(p) PROVE TypeOK'
  BY <1>4, <1>t DEF Claim, TypeOK, Filling, consumerVars
<1>5. ASSUME NEW p \in Producer, CopyPayload(p) \/ StoreLength(p) \/ Publish(p)
      PROVE  TypeOK'
  BY <1>5, <1>t DEF CopyPayload, StoreLength, Publish, TypeOK, Filling, consumerVars
<1>6. CASE PollEmpty \/ PollReady \/ ReadLength \/ CopyOut \/ AdvanceHead
  <2>1. slot(head) \in Slot /\ NoMessage \in PieceOrNone
    BY <1>t DEF TypeOK, PieceOrNone
  <2>2. QED
    BY <1>6, <1>t, <2>1
    DEF PollEmpty, PollReady, ReadLength, CopyOut, AdvanceHead, TypeOK,
        ringVars, producerVars, consumerVars
<1>7. CASE FreeSlot
  <2>1. head - 1 \in Nat /\ head - 1 + Capacity \in Nat
    BY <1>7, <1>t DEF FreeSlot, IInv, WindowInv, Freed, TypeOK
  <2>2. QED
    BY <1>7, <1>t, <2>1 DEF FreeSlot, TypeOK, producerVars
<1>8. CASE UNCHANGED vars
  BY <1>8, <1>t DEF TypeOK, vars, ringVars, producerVars, consumerVars
<1>9. QED
  BY <1>1, <1>2, <1>3, <1>4, <1>5, <1>6, <1>7, <1>8
  DEF Next, EnqueueStep, DequeueStep

\* Steps that touch neither the slots nor a producer keep the conjuncts about
\* them.
LEMMA RingUntouched ==
  ASSUME IInv, Freed' = Freed,
         UNCHANGED <<tail, sequence, payload, length, ppc, position, message, claimed>>
  PROVE  SlotsInv' /\ FillersInv' /\ ChoosersInv'
<1>1. SlotsInv'
  BY DEF IInv, SlotsInv, Window, Whole, BeingFilled
<1>2. FillersInv'
  BY DEF IInv, FillersInv
<1>3. ChoosersInv'
  BY DEF IInv, ChoosersInv
<1>4. QED
  BY <1>1, <1>2, <1>3

\* The reader's steps before it frees the slot, and steps outside the ring.
LEMMA ReaderKeeps ==
  ASSUME IInv,
         \/ PublishRoot \/ \E p \in Producer : Attach(p)
         \/ PollEmpty \/ PollReady \/ ReadLength \/ CopyOut \/ AdvanceHead
  PROVE  WindowInv' /\ SlotsInv' /\ FillersInv' /\ ChoosersInv' /\ ConsumerInv'
<1>t. TypeOK /\ WindowInv /\ SlotsInv /\ ConsumerInv /\ Capacity \in Nat /\ Capacity > 1
  BY SlotFacts DEF IInv
<1>1. UNCHANGED <<tail, sequence, payload, length, ppc, position, message, claimed>>
  BY DEF PublishRoot, Attach, PollEmpty, PollReady, ReadLength, CopyOut, AdvanceHead,
         ringVars, producerVars
<1>2. Freed' = Freed
  BY <1>t DEF PublishRoot, Attach, PollEmpty, PollReady, ReadLength, CopyOut, AdvanceHead,
         ringVars, consumerVars, Freed, TypeOK
<1>3. SlotsInv' /\ FillersInv' /\ ChoosersInv'
  BY <1>1, <1>2, RingUntouched
<1>4. WindowInv'
  <2>1. CASE AdvanceHead
    BY <1>t, <1>1, <1>2, <2>1 DEF AdvanceHead, WindowInv, ConsumerInv, Freed, TypeOK
  <2>2. CASE head' = head
    BY <1>t, <1>1, <1>2, <2>2 DEF WindowInv
  <2>3. QED
    BY <2>1, <2>2 DEF PublishRoot, Attach, PollEmpty, PollReady, ReadLength, CopyOut, ringVars
<1>5. ConsumerInv'
  <2>1. CASE PollReady
    <3>1. cpc = "idle" /\ cpc' = "length" /\ Freed = head /\ sequence[slot(head)] = head + 1
      BY <2>1 DEF PollReady, Freed
    <3>2. head \in Window /\ head \in Nat /\ tail \in Nat
      BY <1>t, <3>1 DEF Window, TypeOK
    <3>3. head < tail
      BY <1>t, <3>1, <3>2 DEF SlotsInv
    <3>4. QED
      BY <1>1, <1>2, <3>1, <3>3 DEF ConsumerInv
  <2>2. CASE ReadLength
    <3>1. Freed = head /\ Freed < tail /\ sequence[slot(Freed)] = Freed + 1
      BY <1>t, <2>2 DEF ReadLength, Freed, ConsumerInv
    <3>2. Freed \in Window /\ Freed \in Nat
      BY <1>t, <3>1 DEF Window, TypeOK
    <3>3. Whole(Freed)
      BY <1>t, <3>1, <3>2 DEF SlotsInv, BeingFilled
    <3>4. QED
      BY <1>1, <1>2, <2>2, <3>1, <3>3 DEF ReadLength, ConsumerInv, Whole
  <2>3. CASE CopyOut
    <3>1. Freed = head /\ Freed < tail /\ sequence[slot(Freed)] = Freed + 1
          /\ clength = claimed[slot(Freed)]
      BY <1>t, <2>3 DEF CopyOut, Freed, ConsumerInv
    <3>2. Freed \in Window /\ Freed \in Nat
      BY <1>t, <3>1 DEF Window, TypeOK
    <3>3. Whole(Freed)
      BY <1>t, <3>1, <3>2 DEF SlotsInv, BeingFilled
    <3>4. QED
      BY <1>1, <1>2, <2>3, <3>1, <3>3 DEF CopyOut, ConsumerInv, Whole
  <2>4. CASE AdvanceHead
    BY <1>t, <1>1, <1>2, <2>4 DEF AdvanceHead, ConsumerInv
  <2>5. CASE UNCHANGED <<cpc, clength, cpayload>>
    BY <1>t, <1>1, <1>2, <2>5 DEF ConsumerInv
  <2>6. QED
    BY <2>1, <2>2, <2>3, <2>4, <2>5 DEF PublishRoot, Attach, PollEmpty, consumerVars
<1>6. QED
  BY <1>3, <1>4, <1>5

\* A producer that chooses a position only changes what it keeps for itself.
LEMMA ChoosingKeeps ==
  ASSUME IInv, NEW p \in Producer,
         \/ \E m \in Message : Send(p, m)
         \/ LoadTail(p) \/ SlotFree(p) \/ RingFull(p) \/ SlotTaken(p) \/ ClaimFails(p)
  PROVE  WindowInv' /\ SlotsInv' /\ FillersInv' /\ ChoosersInv' /\ ConsumerInv'
<1>t. /\ TypeOK /\ WindowInv /\ SlotsInv /\ FillersInv /\ ChoosersInv /\ ConsumerInv
      /\ Capacity \in Nat /\ Capacity > 1
  BY SlotFacts DEF IInv
<1>1. /\ UNCHANGED <<head, tail, sequence, payload, length, claimed, cpc, clength, cpayload>>
      /\ ppc[p] \notin Filling /\ ppc'[p] \notin Filling
      /\ \A q \in Producer \ {p} : /\ ppc'[q] = ppc[q]
                                   /\ position'[q] = position[q]
                                   /\ message'[q] = message[q]
  BY <1>t DEF Send, LoadTail, SlotFree, RingFull, SlotTaken, ClaimFails, ringVars,
              consumerVars, Filling, TypeOK
<1>2. Freed' = Freed
  BY <1>1 DEF Freed
<1>3. WindowInv' /\ ConsumerInv'
  BY <1>t, <1>1, <1>2 DEF WindowInv, ConsumerInv
<1>4. SlotsInv'
  <2>1. \A i \in Window : Whole(i) => Whole(i)'
    BY <1>1 DEF Whole
  <2>2. \A i \in Window : BeingFilled(i) => BeingFilled(i)'
    BY <1>1 DEF BeingFilled
  <2>3. QED
    BY <1>t, <1>1, <1>2, <2>1, <2>2 DEF SlotsInv, Window
<1>5. FillersInv'
  BY <1>t, <1>1, <1>2 DEF FillersInv
<1>6. ChoosersInv'
  <2> SUFFICES ASSUME NEW q \in Producer
               PROVE  /\ ppc'[q] # "idle" => message'[q] \in Message
                      /\ ppc'[q] \in {"read", "claim"} => position'[q] <= tail
                      /\ ppc'[q] = "claim" /\ position'[q] = tail => tail < Freed + Capacity
    BY <1>1, <1>2 DEF ChoosersInv
  <2>1. CASE q # p
    BY <1>t, <1>1, <2>1 DEF ChoosersInv
  <2>2. CASE q = p
    <3>1. CASE \E m \in Message : Send(p, m)
      BY <1>t, <2>2, <3>1 DEF Send, TypeOK
    <3>2. CASE LoadTail(p) \/ ClaimFails(p)
      BY <1>t, <2>2, <3>2 DEF LoadTail, ClaimFails, TypeOK, ChoosersInv
    <3>3. CASE RingFull(p) \/ SlotTaken(p)
      BY <1>t, <2>2, <3>3 DEF RingFull, SlotTaken, TypeOK, ChoosersInv
    <3>4. CASE SlotFree(p)
      <4>1. /\ ppc'[p] = "claim" /\ position' = position /\ message' = message
            /\ position[p] <= tail /\ message[p] \in Message
            /\ sequence[slot(position[p])] = position[p]
        BY <1>t, <3>4 DEF SlotFree, TypeOK, ChoosersInv
      <4>2. ASSUME position[p] = tail PROVE tail < Freed + Capacity
        <5>1. SUFFICES ASSUME tail = Freed + Capacity PROVE FALSE
          BY <1>t DEF WindowInv, TypeOK
        <5>2. slot(tail) = slot(Freed) /\ Freed \in Nat /\ Freed < tail /\ Freed \in Window
          BY <1>t, <5>1, SlotFacts DEF WindowInv, Window
        <5>3. sequence[slot(Freed)] \in {Freed, Freed + 1}
          BY <1>t, <5>2 DEF SlotsInv, Whole, BeingFilled
        <5>4. sequence[slot(Freed)] = Freed + Capacity
          BY <4>1, <4>2, <5>1, <5>2
        <5>5. QED
          BY <1>t, <5>2, <5>3, <5>4
      <4>3. QED
        BY <2>2, <4>1, <4>2
    <3>5. QED
      BY <3>1, <3>2, <3>3, <3>4
  <2>3. QED
    BY <2>1, <2>2
<1>7. QED
  BY <1>3, <1>4, <1>5, <1>6

\* The compare-and-swap on tail gives the producer a slot that nobody else has.
LEMMA ClaimKeeps ==
  ASSUME IInv, NEW p \in Producer, Claim(p)
  PROVE  WindowInv' /\ SlotsInv' /\ FillersInv' /\ ChoosersInv' /\ ConsumerInv'
<1>t. /\ TypeOK /\ WindowInv /\ SlotsInv /\ FillersInv /\ ChoosersInv /\ ConsumerInv
      /\ Capacity \in Nat /\ Capacity > 1
  BY SlotFacts DEF IInv
<1>1. /\ UNCHANGED <<head, sequence, payload, length, cpc, clength, cpayload, position, message>>
      /\ tail' = tail + 1 /\ position[p] = tail /\ ppc[p] = "claim" /\ ppc'[p] = "copy"
      /\ \A q \in Producer \ {p} : ppc'[q] = ppc[q]
  BY <1>t DEF Claim, TypeOK, consumerVars
<1>2. Freed' = Freed /\ Freed \in Nat /\ tail \in Nat /\ tail < Freed + Capacity
      /\ Freed <= tail
  BY <1>t, <1>1 DEF Freed, WindowInv, TypeOK, ChoosersInv
<1>3. WindowInv'
  BY <1>t, <1>1, <1>2 DEF WindowInv, TypeOK
<1>w. tail \in Window /\ Window' = Window
  BY <1>t, <1>2 DEF WindowInv, Window, TypeOK, Freed
<1>s. /\ claimed'[slot(tail)] = message[p]
      /\ \A i \in Window : i # tail => claimed'[slot(i)] = claimed[slot(i)]
  BY <1>t, <1>1, <1>w, WindowApart DEF Claim, TypeOK
<1>f. sequence[slot(tail)] = tail
  BY <1>t, <1>2, <1>w DEF SlotsInv
<1>4. SlotsInv'
  <2> SUFFICES ASSUME NEW i \in Window
               PROVE  /\ i >= tail + 1 => sequence[slot(i)] = i
                      /\ i < tail + 1 => Whole(i)' \/ BeingFilled(i)'
    BY <1>1, <1>w DEF SlotsInv
  <2>0. i \in Nat
    BY <1>t, WindowApart
  <2>1. CASE i > tail
    BY <1>t, <1>2, <2>0, <2>1 DEF SlotsInv
  <2>2. CASE i = tail
    BY <1>1, <1>2, <1>f, <2>2 DEF BeingFilled, Filling
  <2>3. CASE i < tail
    <3>1. Whole(i) \/ BeingFilled(i)
      BY <1>t, <2>3 DEF SlotsInv
    <3>2. Whole(i) => Whole(i)'
      BY <1>1, <1>2, <1>s, <2>0, <2>3 DEF Whole
    <3>3. BeingFilled(i) => BeingFilled(i)'
      BY <1>1, <1>2, <2>0, <2>3 DEF BeingFilled, Filling
    <3>4. QED
      BY <1>2, <2>0, <2>3, <3>1, <3>2, <3>3
  <2>4. QED
    BY <1>2, <2>0, <2>1, <2>2, <2>3
<1>5. FillersInv'
  <2> SUFFICES ASSUME NEW q \in Producer, ppc'[q] \in Filling
               PROVE  /\ Freed <= position[q] /\ position[q] < tail + 1
                      /\ sequence[slot(position[q])] = position[q]
                      /\ claimed'[slot(position[q])] = message[q]
                      /\ ppc'[q] # "copy" => payload[slot(position[q])] = message[q]
                      /\ ppc'[q] = "publish" => length[slot(position[q])] = message[q]
                      /\ \A r \in Producer \ {q} : ppc'[r] \in Filling => position[r] # position[q]
    BY <1>1, <1>2 DEF FillersInv
  <2>o. \A r \in Producer \ {p} : ppc'[r] \in Filling => ppc[r] \in Filling /\ position[r] \in Nat
        /\ Freed <= position[r] /\ position[r] < tail
    BY <1>t, <1>1 DEF FillersInv, TypeOK
  <2>1. CASE q = p
    <3>1. \A r \in Producer \ {q} : ppc'[r] \in Filling => position[r] # position[q]
      BY <1>1, <1>2, <2>1, <2>o
    <3>2. QED
      BY <1>1, <1>2, <1>s, <1>f, <2>1, <3>1
  <2>2. CASE q # p
    <3>1. ppc[q] \in Filling /\ position[q] \in Window /\ position[q] # tail /\ position[q] \in Nat
          /\ Freed <= position[q] /\ position[q] < tail
      BY <1>t, <1>2, <2>2, <2>o DEF Window, WindowInv
    <3>2. claimed'[slot(position[q])] = message[q]
      BY <1>t, <1>s, <3>1 DEF FillersInv
    <3>3. \A r \in Producer \ {q} : ppc'[r] \in Filling => position[r] # position[q]
      BY <1>t, <1>1, <2>o, <3>1 DEF FillersInv
    <3>4. QED
      BY <1>t, <1>1, <1>2, <2>2, <3>1, <3>2, <3>3 DEF FillersInv
  <2>3. QED
    BY <2>1, <2>2
<1>6. ChoosersInv'
  <2> SUFFICES ASSUME NEW q \in Producer
               PROVE  /\ ppc'[q] # "idle" => message[q] \in Message
                      /\ ppc'[q] \in {"read", "claim"} => position[q] <= tail + 1
                      /\ ppc'[q] = "claim" /\ position[q] = tail + 1 => tail + 1 < Freed + Capacity
    BY <1>1, <1>2 DEF ChoosersInv
  <2>1. position[q] \in Nat
    BY <1>t DEF TypeOK
  <2>2. QED
    BY <1>t, <1>1, <1>2, <2>1 DEF ChoosersInv
<1>7. ConsumerInv'
  <2>1. cpc # "idle" => Freed < tail /\ claimed'[slot(Freed)] = claimed[slot(Freed)]
    BY <1>t, <1>2, <1>s DEF ConsumerInv, Window
  <2>2. cpc \in {"copy", "advance", "free"} => cpc # "idle"
    OBVIOUS
  <2>3. QED
    BY <1>t, <1>1, <1>2, <2>1, <2>2 DEF ConsumerInv
<1>8. QED
  BY <1>3, <1>4, <1>5, <1>6, <1>7

\* A producer writes into its own slot only.
LEMMA FillKeeps ==
  ASSUME IInv, NEW p \in Producer, CopyPayload(p) \/ StoreLength(p)
  PROVE  WindowInv' /\ SlotsInv' /\ FillersInv' /\ ChoosersInv' /\ ConsumerInv'
<1>t. /\ TypeOK /\ WindowInv /\ SlotsInv /\ FillersInv /\ ChoosersInv /\ ConsumerInv
      /\ Capacity \in Nat /\ Capacity > 1
  BY SlotFacts DEF IInv
<1>1. /\ UNCHANGED <<head, tail, sequence, claimed, cpc, clength, cpayload, position, message>>
      /\ ppc[p] \in {"copy", "length"} /\ ppc'[p] \in {"length", "publish"}
      /\ \A q \in Producer \ {p} : ppc'[q] = ppc[q]
      /\ \A q \in Producer : ppc'[q] \in Filling <=> ppc[q] \in Filling
  BY <1>t DEF CopyPayload, StoreLength, TypeOK, consumerVars, Filling
<1>2. Freed' = Freed /\ Window' = Window
  BY <1>1 DEF Freed, Window
<1>p. /\ position[p] \in Window /\ position[p] < tail /\ position[p] \in Nat
      /\ sequence[slot(position[p])] = position[p]
  BY <1>t, <1>1 DEF FillersInv, Filling, Window, WindowInv, TypeOK
<1>s. \A i \in Window : i # position[p] =>
        payload'[slot(i)] = payload[slot(i)] /\ length'[slot(i)] = length[slot(i)]
  <2>1. \A i \in Window : i # position[p] => slot(i) # slot(position[p]) /\ slot(i) \in Slot
    BY <1>t, <1>p, WindowApart
  <2>2. QED
    BY <1>t, <2>1 DEF CopyPayload, StoreLength, TypeOK
<1>3. WindowInv' /\ ConsumerInv' /\ ChoosersInv'
  <2>1. WindowInv' /\ ConsumerInv'
    BY <1>t, <1>1, <1>2 DEF WindowInv, ConsumerInv
  <2>2. ChoosersInv'
    BY <1>t, <1>1, <1>2 DEF ChoosersInv
  <2>3. QED
    BY <2>1, <2>2
<1>4. SlotsInv'
  <2> SUFFICES ASSUME NEW i \in Window
               PROVE  /\ i >= tail => sequence[slot(i)] = i
                      /\ i < tail => Whole(i)' \/ BeingFilled(i)'
    BY <1>1, <1>2 DEF SlotsInv
  <2>1. BeingFilled(i) => BeingFilled(i)'
    BY <1>1 DEF BeingFilled
  <2>2. ASSUME Whole(i) PROVE Whole(i)'
    <3>1. i # position[p]
      BY <1>p, <2>2 DEF Whole
    <3>2. sequence' = sequence /\ claimed' = claimed
      BY <1>1
    <3>3. payload'[slot(i)] = payload[slot(i)] /\ length'[slot(i)] = length[slot(i)]
      BY <1>s, <3>1
    <3>4. QED
      BY <2>2, <3>2, <3>3 DEF Whole
  <2>3. QED
    BY <1>t, <2>1, <2>2 DEF SlotsInv
<1>5. FillersInv'
  <2> SUFFICES ASSUME NEW q \in Producer, ppc[q] \in Filling
               PROVE  /\ Freed <= position[q] /\ position[q] < tail
                      /\ sequence[slot(position[q])] = position[q]
                      /\ claimed[slot(position[q])] = message[q]
                      /\ ppc'[q] # "copy" => payload'[slot(position[q])] = message[q]
                      /\ ppc'[q] = "publish" => length'[slot(position[q])] = message[q]
                      /\ \A r \in Producer \ {q} : ppc[r] \in Filling => position[r] # position[q]
    BY <1>1, <1>2 DEF FillersInv
  <2>1. CASE q # p
    <3>1. position[q] \in Window /\ position[q] # position[p]
      BY <1>t, <1>1, <2>1 DEF FillersInv, Filling, Window, WindowInv, TypeOK
    <3>2. QED
      BY <1>t, <1>1, <1>s, <2>1, <3>1 DEF FillersInv
  <2>2. CASE q = p
    <3>1. slot(position[p]) \in Slot
      BY <1>p, SlotFacts
    <3>2. CASE CopyPayload(p)
      BY <1>t, <1>1, <2>2, <3>1, <3>2 DEF CopyPayload, FillersInv, TypeOK
    <3>3. CASE StoreLength(p)
      BY <1>t, <1>1, <2>2, <3>1, <3>3 DEF StoreLength, FillersInv, TypeOK
    <3>4. QED
      BY <3>2, <3>3
  <2>3. QED
    BY <2>1, <2>2
<1>6. QED
  BY <1>3, <1>4, <1>5

\* The store of the sequence completes the slot.
LEMMA PublishKeeps ==
  ASSUME IInv, NEW p \in Producer, Publish(p)
  PROVE  WindowInv' /\ SlotsInv' /\ FillersInv' /\ ChoosersInv' /\ ConsumerInv'
<1>t. /\ TypeOK /\ WindowInv /\ SlotsInv /\ FillersInv /\ ChoosersInv /\ ConsumerInv
      /\ Capacity \in Nat /\ Capacity > 1
  BY SlotFacts DEF IInv
<1>1. /\ UNCHANGED <<head, tail, payload, length, claimed, cpc, clength, cpayload, position, message>>
      /\ ppc[p] = "publish" /\ ppc'[p] = "idle"
      /\ \A q \in Producer \ {p} : ppc'[q] = ppc[q]
  BY <1>t DEF Publish, TypeOK, consumerVars
<1>2. Freed' = Freed /\ Window' = Window
  BY <1>1 DEF Freed, Window
<1>p. /\ position[p] \in Window /\ position[p] < tail /\ position[p] \in Nat
      /\ sequence[slot(position[p])] = position[p]
      /\ claimed[slot(position[p])] = message[p]
      /\ payload[slot(position[p])] = message[p]
      /\ length[slot(position[p])] = message[p]
      /\ \A q \in Producer \ {p} : ppc[q] \in Filling => position[q] # position[p]
  BY <1>t, <1>1 DEF FillersInv, Filling, Window, WindowInv, TypeOK
<1>s. /\ sequence'[slot(position[p])] = position[p] + 1
      /\ \A i \in Window : i # position[p] => sequence'[slot(i)] = sequence[slot(i)]
  <2>1. \A i \in Window : /\ slot(i) \in Slot
                          /\ i # position[p] => slot(i) # slot(position[p])
    BY <1>t, <1>p, WindowApart
  <2>2. QED
    BY <1>t, <1>p, <2>1 DEF Publish, TypeOK
<1>3. WindowInv' /\ ChoosersInv'
  <2>1. WindowInv'
    BY <1>t, <1>1, <1>2 DEF WindowInv
  <2>2. ChoosersInv'
    BY <1>t, <1>1, <1>2 DEF ChoosersInv
  <2>3. QED
    BY <2>1, <2>2
<1>4. SlotsInv'
  <2> SUFFICES ASSUME NEW i \in Window
               PROVE  /\ i >= tail => sequence'[slot(i)] = i
                      /\ i < tail => Whole(i)' \/ BeingFilled(i)'
    BY <1>1, <1>2 DEF SlotsInv
  <2>0. i \in Nat /\ tail \in Nat
    BY <1>t, WindowApart DEF TypeOK
  <2>1. CASE i = position[p]
    BY <1>1, <1>p, <1>s, <2>0, <2>1 DEF Whole
  <2>2. CASE i # position[p]
    <3>1. Whole(i) => Whole(i)'
      BY <1>1, <1>s, <2>2 DEF Whole
    <3>2. BeingFilled(i) => BeingFilled(i)'
      BY <1>1, <1>s, <2>2 DEF BeingFilled
    <3>3. QED
      BY <1>t, <1>s, <2>2, <3>1, <3>2 DEF SlotsInv
  <2>3. QED
    BY <2>1, <2>2
<1>5. FillersInv'
  <2> SUFFICES ASSUME NEW q \in Producer, ppc'[q] \in Filling
               PROVE  /\ Freed <= position[q] /\ position[q] < tail
                      /\ sequence'[slot(position[q])] = position[q]
                      /\ claimed[slot(position[q])] = message[q]
                      /\ ppc'[q] # "copy" => payload[slot(position[q])] = message[q]
                      /\ ppc'[q] = "publish" => length[slot(position[q])] = message[q]
                      /\ \A r \in Producer \ {q} : ppc'[r] \in Filling => position[r] # position[q]
    BY <1>1, <1>2 DEF FillersInv
  <2>1. q # p /\ ppc[q] \in Filling
    BY <1>1 DEF Filling
  <2>2. position[q] \in Window /\ position[q] # position[p]
    BY <1>t, <1>p, <2>1 DEF FillersInv, Window, WindowInv, TypeOK
  <2>3. \A r \in Producer \ {q} : ppc'[r] \in Filling => position[r] # position[q]
    BY <1>t, <1>1, <1>p, <2>1, <2>2 DEF FillersInv
  <2>4. QED
    BY <1>t, <1>1, <1>s, <2>1, <2>2, <2>3 DEF FillersInv
<1>6. ConsumerInv'
  <2>1. cpc # "idle" => Freed < tail /\ sequence'[slot(Freed)] = Freed + 1
    <3> SUFFICES ASSUME cpc # "idle" PROVE Freed < tail /\ sequence'[slot(Freed)] = Freed + 1
      OBVIOUS
    <3>1. Freed \in Window /\ Freed \in Nat /\ Freed < tail /\ sequence[slot(Freed)] = Freed + 1
      BY <1>t DEF ConsumerInv, Window, WindowInv
    <3>2. Freed # position[p]
      BY <1>p, <3>1
    <3>3. QED
      BY <1>s, <3>1, <3>2
  <2>2. QED
    BY <1>t, <1>1, <1>2, <2>1 DEF ConsumerInv
<1>7. QED
  BY <1>3, <1>4, <1>5, <1>6

\* The reader's last store turns its slot into the free slot of a position one
\* capacity later.
LEMMA FreeKeeps ==
  ASSUME IInv, FreeSlot
  PROVE  /\ Freed' = Freed + 1 /\ Freed < tail
         /\ WindowInv' /\ SlotsInv' /\ FillersInv' /\ ChoosersInv' /\ ConsumerInv'
<1>t. /\ TypeOK /\ WindowInv /\ SlotsInv /\ FillersInv /\ ChoosersInv /\ ConsumerInv
      /\ Capacity \in Nat /\ Capacity > 1
  BY SlotFacts DEF IInv
<1>1. /\ UNCHANGED <<head, tail, payload, length, claimed, ppc, position, message>>
      /\ cpc = "free" /\ cpc' = "idle"
      /\ Freed = head - 1 /\ Freed' = head /\ Freed \in Nat /\ head \in Nat /\ tail \in Nat
  BY <1>t DEF FreeSlot, producerVars, Freed, WindowInv, TypeOK
<1>2. Freed < tail /\ sequence[slot(Freed)] = Freed + 1 /\ Freed \in Window
  BY <1>t, <1>1 DEF ConsumerInv, Window
<1>3. Freed' = Freed + 1
  BY <1>1
<1>4. WindowInv'
  BY <1>t, <1>1 DEF WindowInv, TypeOK
<1>s. /\ sequence'[slot(Freed)] = Freed + Capacity
      /\ \A i \in Window : i # Freed => sequence'[slot(i)] = sequence[slot(i)]
  <2>1. \A i \in Window : slot(i) \in Slot /\ (i # Freed => slot(i) # slot(Freed))
    BY <1>t, <1>2, WindowApart
  <2>2. sequence' = [sequence EXCEPT ![slot(Freed)] = Freed + Capacity]
    BY <1>1 DEF FreeSlot
  <2>3. QED
    BY <1>t, <1>2, <2>1, <2>2 DEF TypeOK
<1>w. \A i \in Window' : \/ i \in Window /\ i # Freed /\ i \in Nat
                         \/ i = Freed + Capacity /\ slot(i) = slot(Freed)
  <2>1. Window' = (Freed + 1) .. (Freed + Capacity)
    BY <1>t, <1>1, <1>3 DEF Window
  <2>2. slot(Freed + Capacity) = slot(Freed)
    BY <1>1, SlotFacts
  <2>3. QED
    BY <1>t, <1>1, <2>1, <2>2 DEF Window
<1>5. SlotsInv'
  <2> SUFFICES ASSUME NEW i \in Window'
               PROVE  /\ i >= tail => sequence'[slot(i)] = i
                      /\ i < tail => Whole(i)' \/ BeingFilled(i)'
    BY <1>1 DEF SlotsInv
  <2>1. CASE i \in Window /\ i # Freed
    <3>1. Whole(i) => Whole(i)'
      BY <1>1, <1>s, <2>1 DEF Whole
    <3>2. BeingFilled(i) => BeingFilled(i)'
      BY <1>1, <1>s, <2>1 DEF BeingFilled
    <3>3. QED
      BY <1>t, <1>s, <2>1, <3>1, <3>2 DEF SlotsInv
  <2>2. CASE i = Freed + Capacity /\ slot(i) = slot(Freed)
    <3>1. ~(i < tail)
      BY <1>t, <1>1, <2>2 DEF WindowInv
    <3>2. QED
      BY <1>s, <2>2, <3>1
  <2>3. QED
    BY <1>w, <2>1, <2>2
<1>6. FillersInv'
  <2> SUFFICES ASSUME NEW q \in Producer, ppc[q] \in Filling
               PROVE  /\ Freed + 1 <= position[q] /\ position[q] < tail
                      /\ sequence'[slot(position[q])] = position[q]
    BY <1>t, <1>1, <1>3 DEF FillersInv
  <2>1. /\ Freed <= position[q] /\ position[q] < tail /\ position[q] \in Nat
        /\ sequence[slot(position[q])] = position[q]
    BY <1>t DEF FillersInv, TypeOK
  <2>2. position[q] # Freed /\ position[q] \in Window
    <3>1. Freed \in Nat /\ tail \in Nat /\ Capacity \in Nat /\ tail <= Freed + Capacity
      BY <1>t, <1>1 DEF WindowInv
    <3>2. position[q] \in Window
      BY <2>1, <3>1, InWindow
    <3>3. position[q] # Freed
      BY <1>2, <2>1, <3>1
    <3>4. QED
      BY <3>2, <3>3
  <2>3. QED
    BY <1>1, <1>s, <2>1, <2>2
<1>7. ChoosersInv'
  <2>1. ASSUME NEW q \in Producer, ppc[q] = "claim", position[q] = tail
        PROVE  tail < (Freed + 1) + Capacity
    <3>1. tail < Freed + Capacity
      BY <1>t, <2>1 DEF ChoosersInv
    <3>2. tail \in Nat /\ Freed \in Nat /\ Capacity \in Nat
      BY <1>t, <1>1
    <3>3. QED
      BY <3>1, <3>2
  <2>2. QED
    BY <1>t, <1>1, <1>3, <2>1 DEF ChoosersInv
<1>8. ConsumerInv'
  BY <1>1 DEF ConsumerInv
<1>9. QED
  BY <1>2, <1>3, <1>4, <1>5, <1>6, <1>7, <1>8

\* Every step keeps the invariant.
LEMMA NextIInv == IInv /\ [Next]_vars => IInv'
<1> SUFFICES ASSUME IInv, [Next]_vars PROVE IInv'
  OBVIOUS
<1>0. TypeOK'
  BY NextTypeOK
<1>1. ASSUME NEW p \in Producer, EnqueueStep(p) \/ \E m \in Message : Send(p, m)
      PROVE  WindowInv' /\ SlotsInv' /\ FillersInv' /\ ChoosersInv' /\ ConsumerInv'
  BY <1>1, ChoosingKeeps, ClaimKeeps, FillKeeps, PublishKeeps DEF EnqueueStep
<1>2. CASE \/ PublishRoot \/ \E p \in Producer : Attach(p)
           \/ PollEmpty \/ PollReady \/ ReadLength \/ CopyOut \/ AdvanceHead
  BY <1>0, <1>2, ReaderKeeps DEF IInv
<1>3. CASE FreeSlot
  BY <1>0, <1>3, FreeKeeps DEF IInv
<1>4. CASE UNCHANGED vars
  <2>1. /\ UNCHANGED <<tail, sequence, payload, length, ppc, position, message, claimed>>
        /\ UNCHANGED <<head, cpc, clength, cpayload>> /\ Freed' = Freed
    BY <1>4 DEF vars, ringVars, producerVars, consumerVars, Freed
  <2>2. SlotsInv' /\ FillersInv' /\ ChoosersInv'
    BY <2>1, RingUntouched
  <2>3. WindowInv' /\ ConsumerInv'
    BY <2>1 DEF IInv, WindowInv, ConsumerInv
  <2>4. QED
    BY <1>0, <2>2, <2>3 DEF IInv
<1>5. QED
  BY <1>0, <1>1, <1>2, <1>3, <1>4 DEF Next, DequeueStep, IInv

\* The inductive invariant of the ring holds in every reachable state, for every
\* capacity of UBMPSCRingBuffer::create above 1 and any number of producers.
THEOREM Invariance == Spec => []IInv
BY InitIInv, NextIInv, PTL DEF Spec

\* The two pieces try_dequeue copies are of the same message.
THEOREM MessagesAreWhole == Spec => []NoTornMessage
<1>1. IInv => NoTornMessage
  BY DEF IInv, ConsumerInv, NoTornMessage
<1>2. QED
  BY <1>1, Invariance, PTL
===============================================================================
