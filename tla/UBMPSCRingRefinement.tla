------------------------- MODULE UBMPSCRingRefinement -------------------------
(***************************************************************************)
(* That UBMPSCRingBuffer implements the abstract channel MpscChannel, for  *)
(* any number of producers and every capacity above 1.  The positions that *)
(* are claimed and not freed are the channel's places; IInv says what is   *)
(* in their slots.                                                         *)
(***************************************************************************)
EXTENDS UBMPSCRingProofs

-----------------------------------------------------------------------------
\* Sequences

\* A sequence that extends s by e is Append(s, e).
LEMMA AppendIs ==
  ASSUME NEW S, NEW s \in Seq(S), NEW e \in S, NEW t \in Seq(S),
         Len(t) = Len(s) + 1,
         \A i \in 1 .. Len(s) : t[i] = s[i],
         t[Len(s) + 1] = e
  PROVE  t = Append(s, e)
OBVIOUS

\* A sequence that is s without its first element is Tail(s).
LEMMA TailIs ==
  ASSUME NEW S, NEW s \in Seq(S), NEW t \in Seq(S),
         Len(s) = Len(t) + 1,
         \A i \in 1 .. Len(t) : t[i] = s[i + 1]
  PROVE  /\ s # <<>>
         /\ t = Tail(s)
         /\ Head(s) = s[1]
OBVIOUS

-----------------------------------------------------------------------------
\* The channel's queue: an entry is a message and whether it can be read.
Entry == [msg : PieceOrNone, ready : BOOLEAN]

\* The abstract channel as a sequence.
LEMMA QueueFacts ==
  IInv => /\ queue \in Seq(Entry)
          /\ Len(queue) = tail - Freed /\ tail - Freed \in 0 .. Capacity
          /\ \A i \in 1 .. (tail - Freed) :
               /\ Freed + i - 1 \in Window
               /\ queue[i] = [msg |-> claimed[slot(Freed + i - 1)],
                              ready |-> sequence[slot(Freed + i - 1)] = Freed + i]
<1> SUFFICES ASSUME IInv
             PROVE  /\ queue \in Seq(Entry)
                    /\ Len(queue) = tail - Freed /\ tail - Freed \in 0 .. Capacity
                    /\ \A i \in 1 .. (tail - Freed) :
                         /\ Freed + i - 1 \in Window
                         /\ queue[i] = [msg |-> claimed[slot(Freed + i - 1)],
                                        ready |-> sequence[slot(Freed + i - 1)] = Freed + i]
  OBVIOUS
<1> DEFINE n == tail - Freed
<1>1. TypeOK /\ WindowInv /\ Capacity \in Nat /\ Freed \in Nat /\ tail \in Nat /\ head \in Nat
  BY SlotFacts DEF IInv, TypeOK, WindowInv
<1>2. Freed <= head
  BY <1>1 DEF Freed
<1>3. n \in 0 .. Capacity /\ n \in Nat
  BY <1>1, <1>2 DEF WindowInv
<1>4. \A i \in 1 .. n : Freed + i - 1 \in Window
  BY <1>1, <1>3 DEF Window
<1>5. \A i \in 1 .. n : claimed[slot(Freed + i - 1)] \in PieceOrNone
  BY Zenon, <1>1, <1>4, WindowApart DEF TypeOK
<1>6. \A i \in 1 .. n :
        [msg |-> claimed[slot(Freed + i - 1)],
         ready |-> sequence[slot(Freed + i - 1)] = Freed + i] \in Entry
  BY <1>5 DEF Entry
<1>7. queue \in [1 .. n -> Entry]
  BY <1>6 DEF queue
<1>8. queue \in Seq(Entry) /\ Len(queue) = n
  BY <1>3, <1>7
<1>9. QED
  BY <1>3, <1>4, <1>8 DEF queue

\* A step that leaves the ring's counters and the sequences and owners of the used
\* slots alone leaves the abstract channel alone.
LEMMA QueueStutter ==
  ASSUME IInv, Freed' = Freed, UNCHANGED <<tail, sequence, claimed>>
  PROVE  queue' = queue
BY DEF queue

\* Every position, however old, shares its slot with one position of the window.
LEMMA SlotInWindow ==
  ASSUME TypeOK, WindowInv, NEW i \in Nat
  PROVE  \E j \in Window : slot(j) = slot(i)
<1> DEFINE r == (i - Freed) % Capacity
           q == (i - Freed) \div Capacity
<1>1. Freed \in Nat /\ Capacity \in Nat \ {0} /\ i - Freed \in Int /\ i \in Int
  BY SlotFacts DEF WindowInv
<1>2. r \in 0 .. Capacity - 1 /\ q \in Int /\ i - Freed = Capacity * q + r
  BY Zenon, <1>1, DivMod
<1> HIDE DEF r, q
<1>3. Capacity * q = q * Capacity /\ Capacity * q \in Int
  BY <1>1, <1>2
<1>4. Freed + r = i - q * Capacity
  BY <1>1, <1>2, <1>3
<1>5. (i - q * Capacity) % Capacity = i % Capacity
  BY Zenon, <1>1, <1>2, ModShift
<1>6. Freed + r \in Window
  BY <1>1, <1>2 DEF Window
<1>7. QED
  BY <1>4, <1>5, <1>6 DEF slot

\* A producer that finds its slot behind its position looks at a full ring: the
\* position cannot be out of date.
LEMMA FullMeansFull ==
  ASSUME IInv, NEW p \in Producer, RingFull(p)
  PROVE  tail - Freed = Capacity
<1>t. /\ TypeOK /\ WindowInv /\ SlotsInv /\ ChoosersInv
      /\ Capacity \in Nat /\ Freed \in Nat /\ tail \in Nat
  BY SlotFacts DEF IInv, TypeOK, WindowInv
<1>1. /\ position[p] \in Nat /\ position[p] <= tail
      /\ sequence[slot(position[p])] < position[p]
  BY <1>t DEF RingFull, ChoosersInv, TypeOK
<1>2. PICK j \in Window : slot(j) = slot(position[p])
  BY <1>t, <1>1, SlotInWindow
<1>3. j \in Nat /\ j >= Freed /\ j < Freed + Capacity
  BY <1>t, <1>2 DEF Window
<1>4. sequence[slot(j)] = j \/ sequence[slot(j)] = j + 1
  <2>1. sequence[slot(j)] = j \/ Whole(j) \/ BeingFilled(j)
    BY <1>t, <1>2, <1>3 DEF SlotsInv
  <2>2. QED
    BY <2>1 DEF Whole, BeingFilled
<1>5. j < position[p]
  BY <1>1, <1>2, <1>3, <1>4
<1>6. position[p] \notin Window
  BY <1>t, <1>1, <1>2, <1>5, WindowApart
<1>7. position[p] >= Freed + Capacity
  BY <1>t, <1>1, <1>3, <1>5, <1>6 DEF Window
<1>8. QED
  BY <1>t, <1>1, <1>7 DEF WindowInv

\* The compare-and-swap on tail reserves the next place.
LEMMA ClaimRefines ==
  ASSUME IInv, IInv', NEW p \in Producer, Claim(p)
  PROVE  Channel!Reserve(message[p]) /\ message[p] \in Message
<1>t. /\ TypeOK /\ WindowInv /\ ChoosersInv
      /\ Capacity \in Nat /\ Freed \in Nat /\ tail \in Nat
  BY SlotFacts DEF IInv, TypeOK, WindowInv
<1>1. /\ Freed' = Freed /\ tail' = tail + 1 /\ sequence' = sequence
      /\ position[p] = tail /\ accepted' = "ok" /\ received' = received
      /\ claimed' = [claimed EXCEPT ![slot(tail)] = message[p]]
  BY DEF Claim, Freed, consumerVars
<1>2. message[p] \in Message /\ tail < Freed + Capacity
  BY <1>t, <1>1 DEF Claim, ChoosersInv
<1>3. tail \in Window
  BY <1>t, <1>2, QueueFacts DEF Window
<1>q. /\ queue \in Seq(Entry) /\ Len(queue) = tail - Freed /\ tail - Freed \in Nat
      /\ \A i \in 1 .. (tail - Freed) :
           /\ Freed + i - 1 \in Window
           /\ queue[i] = [msg |-> claimed[slot(Freed + i - 1)],
                          ready |-> sequence[slot(Freed + i - 1)] = Freed + i]
  BY QueueFacts
<1>r. (/\ queue \in Seq(Entry)
       /\ Len(queue) = tail - Freed /\ tail - Freed \in 0 .. Capacity
       /\ \A i \in 1 .. (tail - Freed) :
            /\ Freed + i - 1 \in Window
            /\ queue[i] = [msg |-> claimed[slot(Freed + i - 1)],
                           ready |-> sequence[slot(Freed + i - 1)] = Freed + i])'
  BY QueueFacts, PTL
<1>n. /\ Freed \in Nat /\ tail \in Nat /\ tail - Freed \in Nat
      /\ tail' = tail + 1 /\ Freed' = Freed
  BY <1>t, <1>1, <1>q
<1>4. ASSUME NEW i \in 1 .. (tail - Freed) PROVE queue'[i] = queue[i]
  <2>0. Freed + i - 1 # tail /\ i \in 1 .. (tail' - Freed')
    BY <1>n, <1>4
  <2>1. Freed + i - 1 \in Window
    BY <1>q, <1>4
  <2>2. claimed'[slot(Freed + i - 1)] = claimed[slot(Freed + i - 1)]
    BY <1>t, <1>1, <1>3, <2>0, <2>1, WindowApart DEF TypeOK
  <2>3. QED
    BY <1>1, <1>q, <1>r, <1>4, <2>0, <2>2
<1>5. queue'[tail - Freed + 1] = [msg |-> message[p], ready |-> FALSE]
  <2> DEFINE k == tail - Freed + 1
  <2>1. k \in 1 .. (tail' - Freed') /\ Freed + k - 1 = tail /\ Freed + k = tail + 1
    BY <1>n
  <2>2. claimed'[slot(tail)] = message[p]
    BY <1>t, <1>1, <1>3, WindowApart DEF TypeOK
  <2>3. sequence[slot(tail)] = tail
    <3>1. SlotsInv /\ tail >= tail
      BY <1>n DEF IInv
    <3>2. QED
      BY <1>3, <3>1 DEF SlotsInv
  <2>4. (sequence[slot(tail)] = tail + 1) = FALSE
    BY <1>t, <2>3
  <2> HIDE DEF k
  <2>5. queue'[k] = [msg |-> claimed'[slot(tail)], ready |-> sequence[slot(tail)] = tail + 1]
    BY <1>1, <1>r, <2>1
  <2>6. QED
    BY Zenon, <2>2, <2>4, <2>5 DEF k
<1>6. [msg |-> message[p], ready |-> FALSE] \in Entry
  BY <1>2 DEF Entry, PieceOrNone
<1>7. Len(queue') = Len(queue) + 1 /\ queue' \in Seq(Entry)
  BY <1>t, <1>1, <1>q, <1>r
<1>8. queue' = Append(queue, [msg |-> message[p], ready |-> FALSE])
  BY <1>q, <1>4, <1>5, <1>6, <1>7, AppendIs
<1>9. QED
  BY <1>t, <1>1, <1>2, <1>q, <1>8 DEF Channel!Reserve

\* The store of the sequence completes the place claimed before.
LEMMA PublishRefines ==
  ASSUME IInv, IInv', NEW p \in Producer, Publish(p)
  PROVE  \E i \in 1 .. Capacity : Channel!Complete(i)
<1>t. /\ TypeOK /\ WindowInv /\ FillersInv
      /\ Capacity \in Nat /\ Freed \in Nat /\ tail \in Nat
  BY SlotFacts DEF IInv, TypeOK, WindowInv
<1>1. /\ Freed' = Freed /\ tail' = tail /\ claimed' = claimed
      /\ accepted' = accepted /\ received' = received
      /\ sequence' = [sequence EXCEPT ![slot(position[p])] = position[p] + 1]
  BY DEF Publish, Freed, consumerVars
<1>2. /\ position[p] \in Nat /\ Freed <= position[p] /\ position[p] < tail
      /\ sequence[slot(position[p])] = position[p]
  BY <1>t DEF Publish, FillersInv, TypeOK, Filling
<1> DEFINE k == position[p] - Freed + 1
<1>3. /\ k \in 1 .. (tail - Freed) /\ Freed + k - 1 = position[p]
      /\ Freed + k = position[p] + 1
  BY <1>t, <1>2
<1> HIDE DEF k
<1>q. /\ queue \in Seq(Entry) /\ Len(queue) = tail - Freed /\ tail - Freed \in 0 .. Capacity
      /\ \A i \in 1 .. (tail - Freed) :
           /\ Freed + i - 1 \in Window
           /\ queue[i] = [msg |-> claimed[slot(Freed + i - 1)],
                          ready |-> sequence[slot(Freed + i - 1)] = Freed + i]
  BY QueueFacts
<1>4. position[p] \in Window /\ slot(position[p]) \in Slot
  BY Zenon, <1>t, <1>q, <1>3, WindowApart
<1>5. ~queue[k].ready
  <2>1. queue[k].ready = (sequence[slot(position[p])] = position[p] + 1)
    BY <1>q, <1>3
  <2>2. (sequence[slot(position[p])] = position[p] + 1) = FALSE
    BY <1>2
  <2>3. QED
    BY Zenon, <2>1, <2>2
<1>6. queue' = [queue EXCEPT ![k] = [msg |-> queue[k].msg, ready |-> TRUE]]
  <2>1. queue' = [i \in 1 .. (tail - Freed) |->
                    [msg |-> claimed[slot(Freed + i - 1)],
                     ready |-> sequence'[slot(Freed + i - 1)] = Freed + i]]
    BY <1>1 DEF queue
  <2>2. ASSUME NEW i \in 1 .. (tail - Freed), i # k
        PROVE  sequence'[slot(Freed + i - 1)] = sequence[slot(Freed + i - 1)]
    <3>1. Freed + i - 1 \in Window
      BY <1>q, <2>2
    <3>2. Freed \in Nat /\ position[p] \in Nat /\ i \in Int /\ k \in Int
      BY <1>t, <1>2, <1>3
    <3>3. Freed + i - 1 # position[p]
      BY <1>3, <2>2, <3>2
    <3>4. QED
      BY <1>t, <1>1, <1>4, <3>1, <3>3, WindowApart DEF TypeOK
  <2>3. sequence'[slot(position[p])] = position[p] + 1
    BY <1>t, <1>1, <1>4 DEF TypeOK
  <2>4. queue = [i \in 1 .. (tail - Freed) |->
                   [msg |-> claimed[slot(Freed + i - 1)],
                    ready |-> sequence[slot(Freed + i - 1)] = Freed + i]]
    BY DEF queue
  <2>5. [queue EXCEPT ![k] = [msg |-> queue[k].msg, ready |-> TRUE]]
          = [i \in 1 .. (tail - Freed) |->
               IF i = k THEN [msg |-> queue[k].msg, ready |-> TRUE] ELSE queue[i]]
    BY Zenon, <2>4, <1>3
  <2>6. queue[k].msg = claimed[slot(position[p])]
    BY <1>q, <1>3
  <2>7. ASSUME NEW i \in 1 .. (tail - Freed)
        PROVE  [msg |-> claimed[slot(Freed + i - 1)],
                ready |-> sequence'[slot(Freed + i - 1)] = Freed + i]
               = IF i = k THEN [msg |-> queue[k].msg, ready |-> TRUE] ELSE queue[i]
    <3>1. CASE i = k
      <4>1. (sequence'[slot(Freed + i - 1)] = Freed + i) = TRUE
        BY <1>3, <2>3, <3>1
      <4>2. QED
        BY Zenon, <1>3, <2>6, <3>1, <4>1
    <3>2. CASE i # k
      BY <1>q, <2>2, <3>2
    <3>3. QED
      BY <3>1, <3>2
  <2>8. QED
    BY Zenon, <2>1, <2>5, <2>7
<1>7. Channel!Complete(k) /\ k \in 1 .. Capacity
  BY <1>t, <1>1, <1>3, <1>q, <1>5, <1>6 DEF Channel!Complete
<1>8. QED
  BY <1>7

\* The store that frees the slot takes the oldest message.
LEMMA FreeRefines ==
  ASSUME IInv, IInv', FreeSlot
  PROVE  Channel!Take
<1>t. /\ TypeOK /\ WindowInv /\ ConsumerInv
      /\ Capacity \in Nat /\ Freed \in Nat /\ tail \in Nat
  BY SlotFacts DEF IInv, TypeOK, WindowInv
<1>1. /\ Freed' = Freed + 1 /\ Freed < tail /\ Freed = head - 1
      /\ tail' = tail /\ claimed' = claimed /\ cpc = "free"
      /\ accepted' = accepted /\ received' = cpayload
  BY FreeKeeps DEF FreeSlot, producerVars, Freed
<1>2. sequence[slot(Freed)] = Freed + 1 /\ cpayload = claimed[slot(Freed)]
  BY <1>t, <1>1 DEF ConsumerInv
<1>q. /\ queue \in Seq(Entry) /\ Len(queue) = tail - Freed /\ tail - Freed \in 0 .. Capacity
      /\ \A i \in 1 .. (tail - Freed) :
           /\ Freed + i - 1 \in Window
           /\ queue[i] = [msg |-> claimed[slot(Freed + i - 1)],
                          ready |-> sequence[slot(Freed + i - 1)] = Freed + i]
  BY QueueFacts
<1>r. (/\ queue \in Seq(Entry)
       /\ Len(queue) = tail - Freed /\ tail - Freed \in 0 .. Capacity
       /\ \A i \in 1 .. (tail - Freed) :
            /\ Freed + i - 1 \in Window
            /\ queue[i] = [msg |-> claimed[slot(Freed + i - 1)],
                           ready |-> sequence[slot(Freed + i - 1)] = Freed + i])'
  BY QueueFacts, PTL
<1>3. tail' - Freed' = tail - Freed - 1 /\ tail - Freed \in Nat
  BY <1>t, <1>1
<1>4. ASSUME NEW i \in 1 .. (tail' - Freed') PROVE queue'[i] = queue[i + 1]
  <2>1. /\ i \in Nat /\ i + 1 \in 1 .. (tail - Freed) /\ Freed + i \in Nat
        /\ Freed' + i - 1 = Freed + i /\ Freed' + i = Freed + (i + 1)
        /\ Freed + (i + 1) - 1 = Freed + i /\ Freed + i # Freed
    BY <1>t, <1>1, <1>3, <1>4
  <2>2. Freed + i \in Window /\ Freed \in Window
    <3>1. Freed + i \in Window
      BY <1>q, <2>1
    <3>2. Freed \in Window
      BY <1>t, SlotFacts DEF Window
    <3>3. QED
      BY <3>1, <3>2
  <2>3. sequence'[slot(Freed + i)] = sequence[slot(Freed + i)]
    <3>1. slot(Freed + i) # slot(Freed) /\ slot(Freed + i) \in Slot
      BY <1>t, <2>1, <2>2, WindowApart
    <3>2. sequence' = [sequence EXCEPT ![slot(Freed)] = Freed + Capacity]
      BY <1>1 DEF FreeSlot
    <3>3. QED
      BY <1>t, <3>1, <3>2 DEF TypeOK
  <2>4. queue'[i] = [msg |-> claimed[slot(Freed + i)],
                     ready |-> sequence'[slot(Freed + i)] = Freed + (i + 1)]
    BY <1>1, <1>r, <1>4, <2>1
  <2>5. queue[i + 1] = [msg |-> claimed[slot(Freed + i)],
                        ready |-> sequence[slot(Freed + i)] = Freed + (i + 1)]
    BY <1>q, <2>1
  <2>6. QED
    BY <2>3, <2>4, <2>5
<1>5. /\ queue' \in Seq(Entry) /\ Len(queue') = tail' - Freed'
      /\ Len(queue) = Len(queue') + 1
  BY <1>q, <1>r, <1>3
<1>6. queue # <<>> /\ queue' = Tail(queue) /\ Head(queue) = queue[1]
  BY <1>q, <1>4, <1>5, TailIs
<1>7. queue[1] = [msg |-> cpayload, ready |-> TRUE]
  <2>1. 1 \in 1 .. (tail - Freed) /\ Freed + 1 - 1 = Freed
    BY <1>t, <1>1
  <2>2. queue[1] = [msg |-> claimed[slot(Freed)], ready |-> sequence[slot(Freed)] = Freed + 1]
    BY <1>q, <2>1
  <2>3. (sequence[slot(Freed)] = Freed + 1) = TRUE
    BY <1>2
  <2>4. QED
    BY Zenon, <1>2, <2>2, <2>3
<1>8. QED
  BY <1>1, <1>6, <1>7 DEF Channel!Take

\* A poll that finds nothing finds no complete message at the oldest place.
LEMMA PollRefines ==
  ASSUME IInv, PollEmpty
  PROVE  Channel!TakeNone
<1>1. /\ Freed = head /\ sequence[slot(Freed)] # Freed + 1 /\ cpc' = cpc /\ head' = head
      /\ UNCHANGED <<tail, sequence, claimed, accepted>> /\ received' = NoMessage
  BY DEF PollEmpty, Freed, ringVars, consumerVars
<1>2. queue' = queue
  BY <1>1, QueueStutter DEF Freed
<1>3. ASSUME queue # <<>> PROVE ~Head(queue).ready
  <2>1. /\ queue \in Seq(Entry) /\ Len(queue) = tail - Freed /\ Freed \in Nat
        /\ \A i \in 1 .. (tail - Freed) :
             queue[i] = [msg |-> claimed[slot(Freed + i - 1)],
                         ready |-> sequence[slot(Freed + i - 1)] = Freed + i]
    BY QueueFacts DEF IInv, WindowInv
  <2>0. queue \in Seq(Entry)
    BY <2>1
  <2>2. Len(queue) \in Nat \ {0} /\ Head(queue) = queue[1]
    BY <1>3, <2>0
  <2>3. 1 \in 1 .. (tail - Freed) /\ Freed + 1 - 1 = Freed
    BY <2>1, <2>2
  <2>4. queue[1].ready = (sequence[slot(Freed)] = Freed + 1)
    BY <2>1, <2>3
  <2>5. (sequence[slot(Freed)] = Freed + 1) = FALSE
    BY <1>1
  <2>6. QED
    BY Zenon, <2>2, <2>4, <2>5
<1>4. QED
  BY <1>1, <1>2, <1>3 DEF Channel!TakeNone

\* Every access to the ring is a step of the channel or leaves it unchanged.
LEMMA StepRefines ==
  IInv /\ [Next]_vars => [Channel!Next]_Channel!channelVars
<1> SUFFICES ASSUME IInv, [Next]_vars
             PROVE  Channel!Next \/ UNCHANGED <<queue, accepted, received>>
  BY DEF Channel!channelVars
<1>i. IInv'
  BY NextIInv
<1>q. ASSUME UNCHANGED <<tail, sequence, claimed, accepted, received>>, Freed' = Freed
      PROVE  UNCHANGED <<queue, accepted, received>>
  BY <1>q, QueueStutter
<1>1. ASSUME NEW p \in Producer,
             \/ Attach(p) \/ \E m \in Message : Send(p, m)
             \/ LoadTail(p) \/ SlotFree(p) \/ SlotTaken(p) \/ ClaimFails(p)
             \/ CopyPayload(p) \/ StoreLength(p)
      PROVE  UNCHANGED <<queue, accepted, received>>
  <2>1. UNCHANGED <<tail, sequence, claimed, accepted, received, head, cpc>>
    BY <1>1
    DEF Attach, Send, LoadTail, SlotFree, SlotTaken, ClaimFails, CopyPayload,
        StoreLength, ringVars, consumerVars
  <2>2. QED
    BY <1>q, <2>1 DEF Freed
<1>2. CASE PublishRoot \/ PollReady \/ ReadLength \/ CopyOut \/ AdvanceHead \/ UNCHANGED vars
  <2>1. UNCHANGED <<tail, sequence, claimed, accepted, received>>
    BY <1>2
    DEF PublishRoot, PollReady, ReadLength, CopyOut, AdvanceHead, vars, ringVars
  <2>2. Freed' = Freed
    <3>1. head \in Nat
      BY DEF IInv, TypeOK
    <3>2. CASE AdvanceHead
      BY <3>1, <3>2 DEF AdvanceHead, Freed
    <3>3. CASE PublishRoot \/ UNCHANGED vars
      BY <3>3 DEF PublishRoot, vars, ringVars, consumerVars, Freed
    <3>4. CASE PollReady \/ ReadLength \/ CopyOut
      BY <3>4 DEF PollReady, ReadLength, CopyOut, ringVars, Freed
    <3>5. QED
      BY <1>2, <3>2, <3>3, <3>4
  <2>3. QED
    BY <1>q, <2>1, <2>2
<1>3. ASSUME NEW p \in Producer, RingFull(p) PROVE Channel!Refuse
  <2>1. queue' = queue /\ accepted' = "full" /\ received' = received
    BY <1>3, QueueStutter DEF RingFull, ringVars, consumerVars, Freed
  <2>2. QED
    BY <1>3, <2>1, FullMeansFull, QueueFacts DEF Channel!Refuse
<1>4. ASSUME NEW p \in Producer, Claim(p) PROVE Channel!Next
  BY <1>4, <1>i, ClaimRefines DEF Channel!Next
<1>5. ASSUME NEW p \in Producer, Publish(p) PROVE Channel!Next
  BY <1>5, <1>i, PublishRefines DEF Channel!Next
<1>6. CASE FreeSlot
  BY <1>6, <1>i, FreeRefines DEF Channel!Next
<1>7. CASE PollEmpty
  BY <1>7, PollRefines DEF Channel!Next
<1>8. QED
  BY <1>1, <1>2, <1>3, <1>4, <1>5, <1>6, <1>7
  DEF Next, EnqueueStep, DequeueStep, Channel!Next

\* UBMPSCRingBuffer implements the FIFO channel MpscChannel for every capacity
\* above 1 and any number of producers: messages are delivered once, whole and in
\* the order in which they were given their places.
THEOREM Refinement == Spec => ImplementsChannel
<1>1. Init => Channel!Init
  <2> SUFFICES ASSUME Init PROVE Channel!Init
    OBVIOUS
  <2>1. tail - Freed = 0
    BY DEF Init, Freed
  <2>2. queue = <<>>
    BY InitIInv, <2>1, QueueFacts
  <2>3. QED
    BY <2>2 DEF Init, Channel!Init
<1>2. QED
  BY <1>1, Invariance, StepRefines, PTL DEF Spec, ImplementsChannel, Channel!Spec
=============================================================================
