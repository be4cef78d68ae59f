--------------------------- MODULE SpscQueueProofs ---------------------------
(***************************************************************************)
(* Proofs about UBSpscQueue.  First the arithmetic of counters that wrap   *)
(* at a multiple of the ring size, then the inductive invariant IInv       *)
(* action by action, and from it that no slot is read and written at once. *)
(***************************************************************************)
EXTENDS SpscQueue, FiniteSets, TLAPS

-----------------------------------------------------------------------------
\* Division with remainder, and sequences

\* Division with remainder, as try_enqueue and try_dequeue use it for slot
\* indices and counters.
LEMMA DivMod ==
  ASSUME NEW a \in Int, NEW m \in Nat \ {0}
  PROVE  /\ a % m \in 0 .. m - 1
         /\ a \div m \in Int
         /\ a = m * (a \div m) + (a % m)
OBVIOUS

\* Multiples of m are at least m apart.
LEMMA MulGap ==
  ASSUME NEW m \in Nat \ {0}, NEW p \in Int, NEW q \in Int, p > q
  PROVE  m * p >= m * q + m
OBVIOUS

\* The remainder is unique: it can be read off any decomposition.
LEMMA ModUnique ==
  ASSUME NEW m \in Nat \ {0}, NEW a \in Int, NEW q \in Int,
         NEW r \in 0 .. m - 1, a = m * q + r
  PROVE  a % m = r
<1> DEFINE p == a \div m
           s == a % m
<1>1. p \in Int /\ s \in 0 .. m - 1 /\ a = m * p + s
  BY DivMod
<1>2. CASE p = q
  BY <1>1, <1>2
<1>3. CASE p > q
  BY <1>1, <1>3, MulGap
<1>4. CASE q > p
  BY <1>1, <1>4, MulGap
<1>5. QED
  BY <1>1, <1>2, <1>3, <1>4

\* Multiplication distributes over subtraction.
LEMMA MulMinus ==
  ASSUME NEW m \in Nat, NEW q \in Int, NEW k \in Int
  PROVE  m * (q - k) = m * q - k * m
OBVIOUS

\* Subtracting a multiple of m does not change the remainder.
LEMMA ModShift ==
  ASSUME NEW m \in Nat \ {0}, NEW a \in Int, NEW k \in Int
  PROVE  (a - k * m) % m = a % m
<1> DEFINE q == a \div m
           r == a % m
<1>1. q \in Int /\ r \in 0 .. m - 1 /\ a = m * q + r
  BY DivMod
<1>2. m * q \in Int /\ k * m \in Int /\ q - k \in Int
  BY <1>1
<1>3. m * (q - k) = m * q - k * m
  BY <1>1, MulMinus
<1>4. a - k * m = m * (q - k) + r
  BY <1>1, <1>2, <1>3
<1>5. a - k * m \in Int
  BY <1>2
<1> HIDE DEF q, r
<1>6. (a - k * m) % m = r
  BY <1>1, <1>2, <1>4, <1>5, ModUnique
<1>7. QED
  BY <1>6 DEF r

\* Two numbers less than m apart have different remainders.
LEMMA ModDistinct ==
  ASSUME NEW m \in Nat \ {0}, NEW a \in Int, NEW b \in Int,
         a < b, b - a < m
  PROVE  a % m # b % m
<1> SUFFICES ASSUME a % m = b % m PROVE FALSE
  OBVIOUS
<1> DEFINE p == a \div m
           q == b \div m
           r == a % m
<1>1. p \in Int /\ q \in Int /\ r \in Int /\ a = m * p + r /\ b = m * q + r
  BY DivMod
<1>2. CASE q > p
  BY <1>1, <1>2, MulGap
<1>3. CASE p >= q
  <2>1. p = q \/ p > q
    BY <1>1, <1>3
  <2>2. QED
    BY <1>1, <2>1, MulGap
<1>4. QED
  BY <1>1, <1>2, <1>3

\* A sequence that extends s by e is Append(s, e).
LEMMA AppendIs ==
  ASSUME NEW S, NEW s \in Seq(S), NEW e \in S, NEW t \in Seq(S),
         Len(t) = Len(s) + 1,
         \A i \in 1 .. Len(s) : t[i] = s[i],
         t[Len(s) + 1] = e
  PROVE  t = Append(s, e)
OBVIOUS

\* A sequence that is s without its first element is Tail(s).
LEMMA TailIs ==
  ASSUME NEW S, NEW s \in Seq(S), NEW t \in Seq(S),
         Len(s) = Len(t) + 1,
         \A i \in 1 .. Len(t) : t[i] = s[i + 1]
  PROVE  /\ s # <<>>
         /\ t = Tail(s)
         /\ Head(s) = s[1]
OBVIOUS

\* A function on 1 .. n is a sequence of length n.
LEMMA FunctionIsSeq ==
  ASSUME NEW S, NEW n \in Nat, NEW f \in [1 .. n -> S]
  PROVE  f \in Seq(S) /\ Len(f) = n
OBVIOUS

-----------------------------------------------------------------------------
\* What the assumptions say of the two sizes: the counters count through the
\* ring at least twice before they wrap.
LEMMA ModulusFacts ==
  /\ Depth \in Nat \ {0}
  /\ Modulus \in Nat \ {0}
  /\ Modulus >= 2 * Depth
<1>1. PICK k \in 2 .. Modulus : Modulus = k * Depth
  BY ModulusAssumption
<1>2. Depth \in Nat \ {0} /\ Modulus \in Nat
  BY DepthAssumption, ModulusAssumption
<1>3. Depth * k >= Depth * 1 + Depth
  BY <1>1, <1>2, MulGap
<1>4. QED
  BY <1>1, <1>2, <1>3

\* Subtraction of two counters, as the 64-bit subtraction of the code does it.
LEMMA MinusDef ==
  ASSUME NEW a \in Counter, NEW b \in Counter
  PROVE  Minus(a, b) = IF a >= b THEN a - b ELSE a - b + Modulus
<1> USE ModulusFacts DEF Counter, Minus
<1>1. CASE a >= b
  <2>1. a - b = Modulus * 0 + (a - b) /\ a - b \in 0 .. Modulus - 1
    BY <1>1
  <2>2. QED
    BY <1>1, <2>1, ModUnique
<1>2. CASE a < b
  <2>1. a - b = Modulus * (-1) + (a - b + Modulus) /\ a - b + Modulus \in 0 .. Modulus - 1
    BY <1>2
  <2>2. QED
    BY <1>2, <2>1, ModUnique
<1>3. QED
  BY <1>1, <1>2

\* Addition of two counters, as the 64-bit addition of the code does it.
LEMMA PlusDef ==
  ASSUME NEW a \in Counter, NEW n \in Counter
  PROVE  Plus(a, n) = IF a + n < Modulus THEN a + n ELSE a + n - Modulus
<1> USE ModulusFacts DEF Counter, Plus
<1>1. CASE a + n < Modulus
  <2>1. a + n = Modulus * 0 + (a + n) /\ a + n \in 0 .. Modulus - 1
    BY <1>1
  <2>2. QED
    BY <1>1, <2>1, ModUnique
<1>2. CASE a + n >= Modulus
  <2>1. a + n = Modulus * 1 + (a + n - Modulus) /\ a + n - Modulus \in 0 .. Modulus - 1
    BY <1>2
  <2>2. QED
    BY <1>2, <2>1, ModUnique
<1>3. QED
  BY <1>1, <1>2

\* A counter that wraps at Modulus still selects the slot its unwrapped value
\* would: Depth divides Modulus.
LEMMA SlotOfPlus ==
  ASSUME NEW a \in Counter, NEW n \in Counter
  PROVE  SlotOf(Plus(a, n)) = (a + n) % Depth
<1>1. PICK k \in 2 .. Modulus : Modulus = k * Depth
  BY ModulusAssumption
<1>2. a + n \in Int /\ k \in Int
  BY ModulusFacts DEF Counter
<1>3. CASE a + n < Modulus
  BY <1>3, PlusDef DEF SlotOf
<1>4. CASE a + n >= Modulus
  <2> DEFINE c == a + n
  <2>1. Plus(a, n) = c - k * Depth
    BY <1>1, <1>4, PlusDef, ModulusFacts DEF Counter
  <2> HIDE DEF c
  <2>2. (c - k * Depth) % Depth = c % Depth
    <3>1. c \in Int
      BY <1>2 DEF c
    <3>2. QED
      BY <1>2, <3>1, ModShift, ModulusFacts
  <2>3. QED
    <3>1. SlotOf(Plus(a, n)) = c % Depth
      BY <2>1, <2>2 DEF SlotOf
    <3>2. QED
      BY <3>1 DEF c
<1>5. QED
  BY <1>2, <1>3, <1>4, ModulusFacts

\* The Depth consecutive counter values from a on select different slots.
LEMMA SlotsDistinct ==
  ASSUME NEW a \in Counter, NEW i \in 0 .. Depth - 1, NEW j \in 0 .. Depth - 1,
         i # j
  PROVE  SlotOf(Plus(a, i)) # SlotOf(Plus(a, j))
<1>1. i \in Counter /\ j \in Counter
  BY ModulusFacts DEF Counter
<1>2. (a + i) % Depth # (a + j) % Depth
  <2> DEFINE c == a + i
             d == a + j
  <2>1. /\ c \in Int /\ d \in Int
        /\ \/ c < d /\ d - c < Depth
           \/ d < c /\ c - d < Depth
    BY ModulusFacts DEF Counter
  <2> HIDE DEF c, d
  <2>2. c % Depth # d % Depth
    BY <2>1, ModDistinct, ModulusFacts
  <2>3. QED
    BY <2>2 DEF c, d
<1>3. QED
  BY <1>1, <1>2, SlotOfPlus

\* A counter selects a slot of the ring.
LEMMA SlotRange ==
  ASSUME NEW a \in Counter
  PROVE  SlotOf(a) \in 0 .. Depth - 1
BY DivMod, ModulusFacts DEF Counter, SlotOf

-----------------------------------------------------------------------------

\* The algebra of wrapping counters the proofs below need.
LEMMA RingFacts ==
  ASSUME NEW a \in Counter, NEW b \in Counter
  PROVE  /\ Minus(a, b) \in Counter
         /\ Plus(a, 1) \in Counter
         /\ Plus(a, b) \in Counter
         /\ Plus(b, Minus(a, b)) = a
         /\ Plus(a, 0) = a
         /\ Minus(a, a) = 0
         /\ Minus(a, b) = 0 => a = b
<1>1. 0 \in Counter /\ 1 \in Counter
  BY ModulusFacts DEF Counter
<1>2. Minus(a, b) \in Counter
  BY MinusDef, ModulusFacts DEF Counter
<1>3. Plus(a, 1) \in Counter /\ Plus(a, 0) = a
  BY <1>1, PlusDef, ModulusFacts DEF Counter
<1>4. Plus(b, Minus(a, b)) = a
  <2> DEFINE n == Minus(a, b)
  <2>1. n = IF a >= b THEN a - b ELSE a - b + Modulus
    BY MinusDef
  <2>2. n \in Counter
    BY <1>2
  <2> HIDE DEF n
  <2>3. Plus(b, n) = IF b + n < Modulus THEN b + n ELSE b + n - Modulus
    BY <2>2, PlusDef
  <2>4. Plus(b, n) = a
    BY <2>1, <2>2, <2>3, ModulusFacts DEF Counter
  <2>5. QED
    BY <2>4 DEF n
<1>5. Minus(a, a) = 0 /\ (Minus(a, b) = 0 => a = b)
  BY MinusDef, ModulusFacts DEF Counter
<1>6. Plus(a, b) \in Counter
  BY PlusDef, ModulusFacts DEF Counter
<1>7. QED
  BY <1>2, <1>3, <1>4, <1>5, <1>6

\* Publishing a tail one further makes the distance to the head one larger.
LEMMA AdvanceTail ==
  ASSUME NEW t \in Counter, NEW h \in Counter, Minus(t, h) < Modulus - 1
  PROVE  Minus(Plus(t, 1), h) = Minus(t, h) + 1
<1>1. 1 \in Counter /\ Plus(t, 1) \in Counter
  BY RingFacts, ModulusFacts DEF Counter
<1> DEFINE u == Plus(t, 1)
<1>2. u = IF t + 1 < Modulus THEN t + 1 ELSE t + 1 - Modulus
  BY <1>1, PlusDef
<1>3. u \in Counter
  BY <1>1
<1>4. Minus(t, h) = IF t >= h THEN t - h ELSE t - h + Modulus
  BY MinusDef
<1> HIDE DEF u
<1>5. Minus(u, h) = IF u >= h THEN u - h ELSE u - h + Modulus
  BY <1>3, MinusDef
<1>6. Minus(u, h) = Minus(t, h) + 1
  BY <1>2, <1>3, <1>4, <1>5, ModulusFacts DEF Counter
<1>7. QED
  BY <1>6 DEF u

\* Publishing a head one further makes the distance to the tail one smaller.
LEMMA AdvanceHead ==
  ASSUME NEW t \in Counter, NEW h \in Counter, Minus(t, h) > 0
  PROVE  Minus(t, Plus(h, 1)) = Minus(t, h) - 1
<1>1. 1 \in Counter /\ Plus(h, 1) \in Counter
  BY RingFacts, ModulusFacts DEF Counter
<1> DEFINE u == Plus(h, 1)
<1>2. u = IF h + 1 < Modulus THEN h + 1 ELSE h + 1 - Modulus
  BY <1>1, PlusDef
<1>3. u \in Counter
  BY <1>1
<1>4. Minus(t, h) = IF t >= h THEN t - h ELSE t - h + Modulus
  BY MinusDef
<1> HIDE DEF u
<1>5. Minus(t, u) = IF t >= u THEN t - u ELSE t - u + Modulus
  BY <1>3, MinusDef
<1>6. Minus(t, u) = Minus(t, h) - 1
  BY <1>2, <1>3, <1>4, <1>5, ModulusFacts DEF Counter
<1>7. QED
  BY <1>6 DEF u

\* The i-th position after head + 1 is the (i+1)-th after head.
LEMMA PlusShift ==
  ASSUME NEW h \in Counter, NEW i \in Counter, i + 1 \in Counter
  PROVE  Plus(Plus(h, 1), i) = Plus(h, i + 1)
<1>1. 1 \in Counter /\ Plus(h, 1) \in Counter
  BY RingFacts, ModulusFacts DEF Counter
<1>2. QED
  BY <1>1, PlusDef, ModulusFacts DEF Counter

-----------------------------------------------------------------------------

\* The freshly initialised queue satisfies the inductive invariant.
LEMMA InitIInv == Init => IInv
<1> SUFFICES ASSUME Init PROVE IInv
  OBVIOUS
<1>1. 0 \in Counter
  BY ModulusFacts DEF Counter
<1>2. Minus(0, 0) = 0
  BY <1>1, RingFacts
<1>3. TypeOK
  BY <1>1 DEF Init, TypeOK, Empty, Copy, Half
<1>4. Used = 0 /\ Minus(tail, cached_consumer_head) = 0 /\ Minus(head, cached_consumer_head) = 0
  BY <1>2 DEF Init, Used
<1>5. CountersAgree /\ CachedHeadIsOld
  BY <1>4, ModulusFacts DEF Init, CountersAgree, CachedHeadIsOld
<1>6. WriterOwnsSlot /\ ReaderSeesOldest
  BY DEF Init, WriterOwnsSlot, ReaderSeesOldest
<1>7. PublishedWhole
  BY <1>4 DEF PublishedWhole
<1>8. QED
  BY <1>3, <1>5, <1>6, <1>7 DEF IInv

\* Every access of try_enqueue, try_dequeue and ensure_remote_endpoint keeps
\* the variables in their types.
LEMMA TypeStep == TypeOK /\ [Next]_vars => TypeOK'
<1> SUFFICES ASSUME TypeOK, [Next]_vars PROVE TypeOK'
  OBVIOUS
<1>1. Plus(producer_tail, 1) \in Counter /\ Plus(consumer_head, 1) \in Counter
  BY RingFacts DEF TypeOK
<1>2. SlotOf(producer_tail) \in 0 .. Depth - 1 /\ SlotOf(consumer_head) \in 0 .. Depth - 1
  BY SlotRange DEF TypeOK
<1> USE DEF TypeOK, shared, producer, consumer
<1>3. ASSUME NEW d \in Desc, BeginEnqueue(d) \/ RefreshHead(d) PROVE TypeOK'
  BY <1>3 DEF BeginEnqueue, RefreshHead, Half
<1>4. CASE WriteLo
  BY <1>4, <1>2 DEF WriteLo, Copy
<1>5. CASE WriteHi
  BY <1>5, <1>2 DEF WriteHi, Copy
<1>6. CASE PublishTail
  BY <1>6, <1>1 DEF PublishTail
<1>7. CASE Attach
  BY <1>7 DEF Attach
<1>8. CASE BeginDequeue
  BY <1>8 DEF BeginDequeue, Empty, Copy, Half
<1>9. CASE CopyLo
  BY <1>9, <1>2 DEF CopyLo, Copy
<1>10. CASE CopyHi
  BY <1>10, <1>2 DEF CopyHi, Copy
<1>11. CASE PublishHead
  BY <1>11, <1>1 DEF PublishHead
<1>12. CASE UNCHANGED vars
  BY <1>12 DEF vars
<1>13. QED
  BY <1>3, <1>4, <1>5, <1>6, <1>7, <1>8, <1>9, <1>10, <1>11, <1>12
     DEF Next, ProducerStep, ConsumerStep

\* What the invariant says of the published window: the slot a running
\* try_enqueue writes is none of the published ones.
LEMMA WindowFacts ==
  ASSUME IInv
  PROVE  /\ Used \in 0 .. Depth
         /\ Minus(tail, cached_consumer_head) \in Nat
         /\ Minus(head, cached_consumer_head) \in Nat
         /\ Published(0) = slots[SlotOf(head)]
         /\ \A i \in 0 .. Used - 1 :
               Used < Depth => SlotOf(Plus(head, i)) # SlotOf(tail)
         /\ ppc # "idle" => Used < Depth
<1> USE DEF IInv, TypeOK
<1>1. Used \in 0 .. Depth
  BY RingFacts, ModulusFacts DEF CountersAgree, Used, Counter
<1>2. Minus(tail, cached_consumer_head) \in Nat /\ Minus(head, cached_consumer_head) \in Nat
  <2>1. Minus(tail, cached_consumer_head) \in Counter /\ Minus(head, cached_consumer_head) \in Counter
    BY RingFacts
  <2>2. QED
    BY <2>1, ModulusFacts DEF Counter
<1>3. Published(0) = slots[SlotOf(head)]
  BY RingFacts DEF Published
<1>4. ASSUME NEW i \in 0 .. Used - 1, Used < Depth
      PROVE  SlotOf(Plus(head, i)) # SlotOf(tail)
  <2>1. tail = Plus(head, Used)
    BY RingFacts DEF Used
  <2>2. i \in 0 .. Depth - 1 /\ Used \in 0 .. Depth - 1 /\ i # Used
    BY <1>1, <1>4, ModulusFacts
  <2>3. SlotOf(Plus(head, i)) # SlotOf(Plus(head, Used))
    BY <2>2, SlotsDistinct
  <2>4. QED
    BY <2>1, <2>3
<1>5. ppc # "idle" => Used < Depth
  BY <1>1, <1>2, ModulusFacts DEF WriterOwnsSlot, CachedHeadIsOld
<1>6. QED
  BY <1>1, <1>2, <1>3, <1>4, <1>5

\* Every access of try_enqueue, try_dequeue and ensure_remote_endpoint keeps
\* the inductive invariant.
LEMMA NextIInv == IInv /\ [Next]_vars => IInv'
<1> SUFFICES ASSUME IInv, [Next]_vars PROVE IInv'
  OBVIOUS
<1>t. TypeOK /\ TypeOK'
  BY TypeStep DEF IInv
<1> DEFINE Rest == /\ CountersAgree /\ CachedHeadIsOld /\ WriterOwnsSlot
                   /\ ReaderSeesOldest /\ PublishedWhole
<1>r. Rest
  BY DEF IInv
<1> USE DEF shared, producer, consumer
<1>1. ASSUME NEW d \in Desc, BeginEnqueue(d) PROVE Rest'
  <2>1. Used' = Used /\ \A i : Published(i)' = Published(i)
    BY <1>1 DEF BeginEnqueue, Used, Published
  <2>2. Minus(tail, cached_consumer_head) < Depth
    BY <1>1, <1>r, <1>t, WindowFacts, ModulusFacts DEF BeginEnqueue, LooksFull, CountersAgree
  <2>3. (CountersAgree /\ CachedHeadIsOld)'
    BY <1>1, <1>r, <2>1 DEF BeginEnqueue, CountersAgree, CachedHeadIsOld
  <2>4. WriterOwnsSlot'
    BY <1>1, <2>1, <2>2 DEF BeginEnqueue, WriterOwnsSlot
  <2>5. (ReaderSeesOldest /\ PublishedWhole)'
    BY <1>1, <1>r, <2>1 DEF BeginEnqueue, ReaderSeesOldest, PublishedWhole
  <2>6. QED
    BY <2>3, <2>4, <2>5
<1>2. ASSUME NEW d \in Desc, RefreshHead(d) PROVE Rest'
  <2>1. Used' = Used /\ \A i : Published(i)' = Published(i)
    BY <1>2 DEF RefreshHead, Used, Published
  <2>2. Minus(head, head) = 0 /\ Used \in 0 .. Depth
    BY <1>t, RingFacts, WindowFacts DEF TypeOK
  <2>3. (CountersAgree /\ CachedHeadIsOld)'
    BY <1>2, <1>r, <2>1, <2>2 DEF RefreshHead, CountersAgree, CachedHeadIsOld, Used
  <2>4. WriterOwnsSlot'
    BY <1>2, <1>r, <2>2, ModulusFacts DEF RefreshHead, WriterOwnsSlot, LooksFull, CountersAgree, Used
  <2>5. (ReaderSeesOldest /\ PublishedWhole)'
    BY <1>2, <1>r, <2>1 DEF RefreshHead, ReaderSeesOldest, PublishedWhole
  <2>6. QED
    BY <2>3, <2>4, <2>5
<1>3. ASSUME WriteLo \/ WriteHi PROVE Rest'
  <2>1. /\ Used' = Used
        /\ UNCHANGED <<head, tail, producer_tail, cached_consumer_head, pdesc, consumer>>
        /\ ppc # "idle"
    BY <1>3 DEF WriteLo, WriteHi, Used
  <2>2. Used \in 0 .. Depth /\ Used < Depth
    BY <2>1, WindowFacts
  <2>3. producer_tail = tail /\ SlotOf(tail) \in 0 .. Depth - 1
    BY <1>r, <1>t, SlotRange DEF CountersAgree, TypeOK
  <2>4. \A i \in 0 .. Used - 1 : Published(i)' = Published(i)
    <3> SUFFICES ASSUME NEW i \in 0 .. Used - 1 PROVE Published(i)' = Published(i)
      OBVIOUS
    <3>1. SlotOf(Plus(head, i)) # SlotOf(tail)
      BY <2>2, WindowFacts
    <3>2. SlotOf(Plus(head, i)) \in 0 .. Depth - 1
      <4>1. i \in Counter
        BY <2>2, ModulusFacts DEF Counter
      <4>2. QED
        BY <4>1, <1>t, RingFacts, SlotRange DEF TypeOK
    <3>3. QED
      BY <1>3, <1>t, <2>1, <2>3, <3>1, <3>2 DEF WriteLo, WriteHi, Published, TypeOK
  <2>5. (CountersAgree /\ CachedHeadIsOld)'
    BY <1>r, <2>1 DEF CountersAgree, CachedHeadIsOld
  <2>6. WriterOwnsSlot'
    BY <1>3, <1>r, <1>t, <2>1, <2>3 DEF WriteLo, WriteHi, WriterOwnsSlot, TypeOK, Copy
  <2>7. ReaderSeesOldest'
    BY <1>r, <2>1, <2>2, <2>4 DEF ReaderSeesOldest
  <2>8. PublishedWhole'
    BY <1>r, <2>1, <2>4 DEF PublishedWhole
  <2>9. QED
    BY <2>5, <2>6, <2>7, <2>8
<1>4. ASSUME PublishTail PROVE Rest'
  <2>1. /\ UNCHANGED <<head, slots, cached_consumer_head, pdesc, consumer>>
        /\ tail' = Plus(tail, 1) /\ producer_tail' = tail'
        /\ ppc = "publish" /\ ppc' = "idle"
    BY <1>4, <1>r DEF PublishTail, CountersAgree
  <2>2. Minus(tail, cached_consumer_head) < Depth /\ Used < Depth /\ Used \in 0 .. Depth
    BY <1>r, <2>1, WindowFacts DEF WriterOwnsSlot
  <2>3. Used' = Used + 1
    BY <1>t, <2>1, <2>2, AdvanceTail, ModulusFacts DEF Used, TypeOK
  <2>4. Minus(tail, cached_consumer_head)' = Minus(tail, cached_consumer_head) + 1
    <3>1. Minus(tail, cached_consumer_head) < Modulus - 1
      BY <2>2, WindowFacts, ModulusFacts
    <3>2. QED
      BY <1>t, <2>1, <3>1, AdvanceTail DEF TypeOK
  <2>5. \A i : Published(i)' = Published(i)
    BY <2>1 DEF Published
  <2>6. Published(Used) = Ready(pdesc) /\ pdesc \in Desc
    <3>1. Published(Used) = slots[SlotOf(tail)]
      BY <1>t, RingFacts DEF Published, Used, TypeOK
    <3>2. slots[SlotOf(tail)] \in Copy
      BY <1>t, SlotRange DEF TypeOK
    <3>3. QED
      BY <1>r, <2>1, <3>1, <3>2 DEF WriterOwnsSlot, Ready, Copy
  <2>7. CountersAgree' /\ CachedHeadIsOld'
    BY <1>r, <2>1, <2>2, <2>3, <2>4, WindowFacts, ModulusFacts DEF CountersAgree, CachedHeadIsOld
  <2>8. WriterOwnsSlot'
    BY <2>1 DEF WriterOwnsSlot
  <2>9. ReaderSeesOldest'
    BY <1>r, <2>1, <2>2, <2>3, <2>5 DEF ReaderSeesOldest
  <2>10. PublishedWhole'
    BY <1>r, <2>2, <2>3, <2>5, <2>6 DEF PublishedWhole
  <2>11. QED
    BY <2>7, <2>8, <2>9, <2>10
<1>5. ASSUME Attach PROVE Rest'
  <2>1. Used' = Used /\ \A i : Published(i)' = Published(i)
    BY <1>5 DEF Attach, Used, Published
  <2>2. Minus(head, head) = 0 /\ Used \in 0 .. Depth
    BY <1>t, RingFacts, WindowFacts DEF TypeOK
  <2>3. (CountersAgree /\ CachedHeadIsOld)'
    BY <1>5, <1>r, <2>1, <2>2 DEF Attach, CountersAgree, CachedHeadIsOld, Used
  <2>4. WriterOwnsSlot'
    BY <1>5 DEF Attach, WriterOwnsSlot
  <2>5. (ReaderSeesOldest /\ PublishedWhole)'
    BY <1>5, <1>r, <2>1 DEF Attach, ReaderSeesOldest, PublishedWhole
  <2>6. QED
    BY <2>3, <2>4, <2>5
<1>6. ASSUME BeginDequeue PROVE Rest'
  <2>1. Used' = Used /\ \A i : Published(i)' = Published(i)
    BY <1>6 DEF BeginDequeue, Used, Published
  <2>2. consumer_head # tail => Used > 0
    <3>1. consumer_head = head
      BY <1>r DEF CountersAgree
    <3>2. Used = 0 => tail = head
      BY <1>t, RingFacts DEF Used, TypeOK
    <3>3. Used \in 0 .. Depth /\ Depth \in Nat
      BY WindowFacts, ModulusFacts
    <3>4. QED
      BY <3>1, <3>2, <3>3
  <2>3. ReaderSeesOldest'
    BY <1>6, <2>1, <2>2 DEF BeginDequeue, ReaderSeesOldest
  <2>4. (CountersAgree /\ CachedHeadIsOld /\ WriterOwnsSlot /\ PublishedWhole)'
    BY <1>6, <1>r, <2>1 DEF BeginDequeue, CountersAgree, CachedHeadIsOld, WriterOwnsSlot, PublishedWhole
  <2>5. QED
    BY <2>3, <2>4
<1>7. ASSUME CopyLo \/ CopyHi PROVE Rest'
  <2>1. Used' = Used /\ \A i : Published(i)' = Published(i)
    BY <1>7 DEF CopyLo, CopyHi, Used, Published
  <2>2. Published(0) = slots[SlotOf(consumer_head)]
    BY <1>r, WindowFacts DEF CountersAgree
  <2>3. ReaderSeesOldest'
    BY <1>7, <1>r, <1>t, <2>1, <2>2 DEF CopyLo, CopyHi, ReaderSeesOldest, TypeOK, Copy
  <2>4. (CountersAgree /\ CachedHeadIsOld /\ WriterOwnsSlot /\ PublishedWhole)'
    BY <1>7, <1>r, <2>1 DEF CopyLo, CopyHi, CountersAgree, CachedHeadIsOld, WriterOwnsSlot, PublishedWhole
  <2>5. QED
    BY <2>3, <2>4
<1>8. ASSUME PublishHead PROVE Rest'
  <2>1. /\ UNCHANGED <<tail, slots, producer, cdesc>>
        /\ head' = Plus(head, 1) /\ consumer_head' = head'
        /\ cpc = "publish" /\ cpc' = "idle"
    BY <1>8, <1>r DEF PublishHead, CountersAgree
  <2>2. Used > 0 /\ Used \in 0 .. Depth
    BY <1>r, <2>1, WindowFacts DEF ReaderSeesOldest
  <2>3. Used' = Used - 1
    BY <1>t, <2>1, <2>2, AdvanceHead DEF Used, TypeOK
  <2>4. Minus(head, cached_consumer_head)' = Minus(head, cached_consumer_head) + 1
    <3>1. Minus(head, cached_consumer_head) < Modulus - 1
      BY <1>r, <2>2, WindowFacts, ModulusFacts DEF CachedHeadIsOld
    <3>2. QED
      BY <1>t, <2>1, <3>1, AdvanceTail DEF TypeOK
  <2>5. \A i \in 0 .. Used' - 1 : Published(i)' = Published(i + 1)
    <3> SUFFICES ASSUME NEW i \in 0 .. Used' - 1 PROVE Published(i)' = Published(i + 1)
      OBVIOUS
    <3>1. i \in Counter /\ i + 1 \in Counter
      BY <2>2, <2>3, ModulusFacts DEF Counter
    <3>2. Plus(Plus(head, 1), i) = Plus(head, i + 1)
      BY <1>t, <3>1, PlusShift DEF TypeOK
    <3>3. QED
      BY <2>1, <3>2 DEF Published
  <2>6. CountersAgree' /\ CachedHeadIsOld'
    BY <1>r, <2>1, <2>2, <2>3, <2>4, WindowFacts, ModulusFacts DEF CountersAgree, CachedHeadIsOld
  <2>7. WriterOwnsSlot' /\ ReaderSeesOldest'
    BY <1>r, <2>1 DEF WriterOwnsSlot, ReaderSeesOldest
  <2>8. PublishedWhole'
    BY <1>r, <2>2, <2>3, <2>5 DEF PublishedWhole
  <2>9. QED
    BY <2>6, <2>7, <2>8
<1>9. ASSUME UNCHANGED vars PROVE Rest'
  BY <1>9, <1>r DEF vars, CountersAgree, CachedHeadIsOld, WriterOwnsSlot,
     ReaderSeesOldest, PublishedWhole, Used, Published
<1>10. Rest'
  BY <1>1, <1>2, <1>3, <1>4, <1>5, <1>6, <1>7, <1>8, <1>9 DEF Next, ProducerStep, ConsumerStep
<1>11. QED
  BY <1>t, <1>10 DEF IInv

-----------------------------------------------------------------------------

\* The inductive invariant of UBSpscQueue holds in every reachable state, for
\* every ring size and every counter width the ring size divides.
THEOREM Invariance == Spec => []IInv
<1>1. QED
  BY InitIInv, NextIInv, PTL DEF Spec

\* try_enqueue never writes the slot a concurrent try_dequeue is copying, for
\* every ring size and across every wrap of the counters.
THEOREM SlotsAreRaceFree == Spec => []NoSlotRace
<1>1. IInv => NoSlotRace
  <2> SUFFICES ASSUME IInv, ppc \in {"lo", "hi"}, cpc \in {"lo", "hi"}
               PROVE  SlotOf(producer_tail) # SlotOf(consumer_head)
    BY DEF NoSlotRace
  <2>1. Used \in 0 .. Depth /\ Used > 0 /\ Used < Depth
    BY WindowFacts DEF IInv, ReaderSeesOldest
  <2>2. SlotOf(Plus(head, 0)) # SlotOf(tail)
    BY <2>1, WindowFacts
  <2>3. Plus(head, 0) = head
    BY RingFacts DEF IInv, TypeOK
  <2>4. QED
    BY <2>2, <2>3 DEF IInv, CountersAgree
<1>2. QED
  BY <1>1, Invariance, PTL


\* What lies between head and tail is a sequence of Used descriptors.
LEMMA FifoIsSeq ==
  ASSUME IInv
  PROVE  /\ fifo \in Seq(Desc)
         /\ Len(fifo) = Used
         /\ \A i \in 1 .. Used : fifo[i] = Whole(Published(i - 1))
<1>1. Used \in Nat
  BY WindowFacts, ModulusFacts
<1>2. \A i \in 1 .. Used : Whole(Published(i - 1)) \in Desc
  <2> SUFFICES ASSUME NEW i \in 1 .. Used PROVE Whole(Published(i - 1)) \in Desc
    OBVIOUS
  <2>1. i - 1 \in 0 .. Used - 1
    BY <1>1
  <2>2. PICK d \in Desc : Published(i - 1) = Ready(d)
    BY <2>1 DEF IInv, PublishedWhole
  <2>3. QED
    BY <2>2 DEF Whole, Ready
<1>3. fifo \in [1 .. Used -> Desc]
  BY <1>2 DEF fifo
<1>4. fifo \in Seq(Desc)
  BY <1>1, <1>3, FunctionIsSeq
<1>5. Len(fifo) = Used
  BY <1>1, <1>3, FunctionIsSeq
<1>6. QED
  BY <1>4, <1>5 DEF fifo

\* FifoIsSeq as an implication, to be used in the next state too.
LEMMA FifoFacts ==
  IInv => /\ fifo \in Seq(Desc)
          /\ Len(fifo) = Used
          /\ \A i \in 1 .. Used : fifo[i] = Whole(Published(i - 1))
BY FifoIsSeq

\* What try_dequeue hands out is whole at first and stays whole in every step.
LEMMA WholeReturned ==
  /\ Init => NoTornDescriptor
  /\ IInv /\ NoTornDescriptor /\ [Next]_vars => NoTornDescriptor'
<1>1. Init => NoTornDescriptor
  BY DEF Init, NoTornDescriptor
<1>2. ASSUME IInv, NoTornDescriptor, [Next]_vars
      PROVE  NoTornDescriptor'
  <2>1. CASE PublishHead
    <3>1. cdesc.lo = Published(0).lo /\ cdesc.hi = Published(0).hi /\ Used > 0
      BY <1>2, <2>1 DEF IInv, ReaderSeesOldest, PublishHead
    <3>2. 0 \in 0 .. Used - 1
      BY <1>2, <3>1, WindowFacts
    <3>3. PICK d \in Desc : Published(0) = Ready(d)
      BY <1>2, <3>2 DEF IInv, PublishedWhole
    <3>4. cdesc = Ready(d)
      BY <1>2, <3>1, <3>3 DEF IInv, TypeOK, Copy, Ready
    <3>5. QED
      BY <2>1, <3>4 DEF PublishHead, NoTornDescriptor
  <2>2. CASE BeginDequeue
    BY <1>2, <2>2 DEF BeginDequeue, NoTornDescriptor
  <2>3. CASE returned' = returned
    BY <1>2, <2>3 DEF NoTornDescriptor, Ready, Empty
  <2>4. QED
    BY <1>2, <2>1, <2>2, <2>3
    DEF Next, ProducerStep, ConsumerStep, BeginEnqueue, RefreshHead, WriteLo, WriteHi,
        PublishTail, Attach, CopyLo, CopyHi, vars, consumer
<1>3. QED
  BY <1>1, <1>2

\* try_dequeue returns only descriptors that one try_enqueue wrote in full.
THEOREM DescriptorsAreWhole == Spec => []NoTornDescriptor
BY Invariance, WholeReturned, PTL DEF Spec

\* A step that leaves the counters and the published slots alone leaves the
\* abstract channel alone.
LEMMA FifoStutter ==
  ASSUME IInv, UNCHANGED <<head, tail>>,
         \A i \in 0 .. Used - 1 : Published(i)' = Published(i)
  PROVE  fifo' = fifo
<1>1. Used' = Used /\ Used \in Nat
  BY WindowFacts, ModulusFacts DEF Used
<1>2. \A i \in 1 .. Used : Published(i - 1)' = Published(i - 1)
  BY <1>1
<1>3. QED
  BY <1>1, <1>2 DEF fifo, Whole

\* Every access of the code is a step of the abstract channel or leaves it
\* unchanged: a published tail is Put, a published head is Get.
LEMMA StepRefines ==
  IInv /\ NoTornDescriptor /\ [Next]_vars => [Fifo!Next]_Fifo!fifoVars
<1> SUFFICES ASSUME IInv, NoTornDescriptor, [Next]_vars
             PROVE  Fifo!Next \/ UNCHANGED <<fifo, accepted, Whole(returned)>>
  BY DEF Fifo!fifoVars
<1>i. IInv'
  BY NextIInv
<1>f. /\ fifo \in Seq(Desc)
      /\ Len(fifo) = Used
      /\ \A i \in 1 .. Used : fifo[i] = Whole(Published(i - 1))
  BY FifoIsSeq
<1>g. (/\ fifo \in Seq(Desc)
       /\ Len(fifo) = Used
       /\ \A i \in 1 .. Used : fifo[i] = Whole(Published(i - 1)))'
  BY <1>i, FifoFacts, PTL
<1>t. TypeOK /\ Used \in 0 .. Depth /\ Depth \in Nat \ {0} /\ Used \in Nat
  BY WindowFacts, ModulusFacts DEF IInv
<1>c. producer_tail = tail /\ consumer_head = head
  BY DEF IInv, CountersAgree
<1>q. ASSUME UNCHANGED <<head, tail, slots, accepted, returned>>
      PROVE  UNCHANGED <<fifo, accepted, Whole(returned)>>
  BY <1>q DEF fifo, Used, Published, Whole
<1>1. ASSUME NEW d \in Desc, BeginEnqueue(d)
      PROVE  UNCHANGED <<fifo, accepted, Whole(returned)>>
  BY <1>1, <1>q DEF BeginEnqueue, shared, consumer
<1>2. ASSUME NEW d \in Desc, RefreshHead(d)
      PROVE  Fifo!PutFull \/ UNCHANGED <<fifo, accepted, Whole(returned)>>
  <2>1. CASE LooksFull(head)
    <3>1. Used >= Depth
      BY <2>1, <1>c DEF LooksFull, Used
    <3>2. UNCHANGED <<fifo, Whole(returned)>>
      BY <1>2 DEF RefreshHead, shared, consumer, fifo, Used, Published, Whole
    <3>3. QED
      BY <1>2, <2>1, <3>1, <3>2, <1>f DEF RefreshHead, Fifo!PutFull
  <2>2. CASE ~LooksFull(head)
    BY <1>2, <2>2, <1>q DEF RefreshHead, shared, consumer
  <2>3. QED
    BY <2>1, <2>2
<1>3. ASSUME WriteLo \/ WriteHi
      PROVE  UNCHANGED <<fifo, accepted, Whole(returned)>>
  <2>1. UNCHANGED <<head, tail, accepted, returned>> /\ ppc # "idle"
    BY <1>3 DEF WriteLo, WriteHi, consumer
  <2>2. ASSUME NEW i \in 0 .. Used - 1
        PROVE  Published(i)' = Published(i)
    <3>1. Used < Depth /\ SlotOf(Plus(head, i)) # SlotOf(tail)
      BY <2>1, WindowFacts
    <3>2. \A j \in 0 .. Depth - 1 : j # SlotOf(tail) => slots'[j] = slots[j]
      BY <1>3, <1>c, <1>t DEF WriteLo, WriteHi, TypeOK
    <3>3. SlotOf(Plus(head, i)) \in 0 .. Depth - 1
      <4>1. i \in Counter
        BY <1>t, ModulusFacts DEF Counter
      <4>2. Plus(head, i) \in Counter
        BY <1>t, <4>1, RingFacts DEF TypeOK
      <4>3. QED
        BY <4>2, SlotRange
    <3>4. QED
      BY <2>1, <3>1, <3>2, <3>3 DEF Published
  <2>3. fifo' = fifo
    BY <2>1, <2>2, FifoStutter
  <2>4. QED
    BY <2>1, <2>3 DEF Whole
<1>4. ASSUME PublishTail
      PROVE  Fifo!Put(pdesc) /\ pdesc \in Desc
  <2>1. Used < Depth /\ pdesc \in Desc
    BY <1>4, WindowFacts DEF PublishTail, IInv, WriterOwnsSlot
  <2>2. Used' = Used + 1
    BY <1>4, <1>c, <1>t, <2>1, AdvanceTail, ModulusFacts DEF PublishTail, TypeOK, Used
  <2>3. \A i \in 1 .. Used : fifo'[i] = fifo[i]
    BY <1>4, <1>f, <1>g, <1>t, <2>2 DEF PublishTail, Published, Whole
  <2>4. fifo'[Used + 1] = pdesc
    <3>1. Plus(head, Used) = tail
      BY <1>t, RingFacts DEF TypeOK, Used
    <3>2. fifo'[Used + 1] = Whole(Published(Used))
      <4>1. \A i \in 1 .. Used + 1 : fifo'[i] = Whole(Published(i - 1))
        BY <1>4, <1>g, <2>2 DEF PublishTail, Published, Whole
      <4>2. (Used + 1) - 1 = Used /\ Used + 1 \in 1 .. Used + 1
        BY <1>t
      <4>3. QED
        BY <4>1, <4>2
    <3>3. slots[SlotOf(tail)].lo = pdesc /\ slots[SlotOf(tail)].hi = pdesc
      BY <1>4 DEF PublishTail, IInv, WriterOwnsSlot
    <3>4. QED
      BY <3>1, <3>2, <3>3 DEF Published, Whole
  <2>5. fifo' = Append(fifo, pdesc)
    BY <1>f, <1>g, <2>1, <2>2, <2>3, <2>4, AppendIs
  <2>6. QED
    BY <1>4, <1>f, <2>1, <2>5 DEF PublishTail, consumer, Fifo!Put, Whole
<1>5. ASSUME Attach \/ CopyLo \/ CopyHi
      PROVE  UNCHANGED <<fifo, accepted, Whole(returned)>>
  BY <1>5, <1>q DEF Attach, CopyLo, CopyHi, shared, producer, consumer
<1>6. ASSUME BeginDequeue
      PROVE  Fifo!GetEmpty \/ UNCHANGED <<fifo, accepted, Whole(returned)>>
  <2>1. CASE consumer_head = tail
    <3>1. Used = 0
      BY <2>1, <1>c, <1>t, RingFacts DEF Used, TypeOK
    <3>2. fifo = <<>>
      BY <3>1, <1>f
    <3>3. UNCHANGED <<fifo, accepted>>
      BY <1>6 DEF BeginDequeue, shared, producer, fifo, Used, Published, Whole
    <3>4. QED
      BY <1>6, <2>1, <3>2, <3>3 DEF BeginDequeue, Fifo!GetEmpty, Whole, Empty
  <2>2. CASE consumer_head # tail
    BY <1>6, <2>2, <1>q DEF BeginDequeue, shared, producer
  <2>3. QED
    BY <2>1, <2>2
<1>7. ASSUME PublishHead
      PROVE  Fifo!Get
  <2>1. Used > 0 /\ cdesc.lo = Published(0).lo /\ cdesc.hi = Published(0).hi
    BY <1>7 DEF PublishHead, IInv, ReaderSeesOldest
  <2>2. Used' = Used - 1
    BY <1>7, <1>c, <1>t, <2>1, AdvanceHead DEF PublishHead, TypeOK, Used
  <2>3. ASSUME NEW i \in 1 .. Used - 1
        PROVE  fifo'[i] = fifo[i + 1]
    <3>1. i - 1 \in Counter /\ (i - 1) + 1 \in Counter /\ (i - 1) + 1 = i
      BY <1>t, ModulusFacts DEF Counter
    <3>2. Plus(Plus(head, 1), i - 1) = Plus(head, i)
      BY <1>t, <3>1, PlusShift DEF TypeOK
    <3>3. fifo'[i] = Whole(Published(i - 1))'
      BY <1>g, <2>2
    <3>4. Published(i - 1)' = Published(i)
      BY <1>7, <1>c, <3>2 DEF PublishHead, Published
    <3>5. fifo[i + 1] = Whole(Published(i))
      BY <1>f, <1>t
    <3>6. QED
      BY <3>3, <3>4, <3>5 DEF Whole
  <2>4. fifo # <<>> /\ fifo' = Tail(fifo) /\ Head(fifo) = fifo[1]
    <3>1. Len(fifo) = Len(fifo') + 1 /\ \A i \in 1 .. Len(fifo') : fifo'[i] = fifo[i + 1]
      BY <1>f, <1>g, <1>t, <2>1, <2>2, <2>3
    <3>2. QED
      BY <1>f, <1>g, <3>1, TailIs
  <2>5. Whole(cdesc) = fifo[1]
    <3>1. fifo[1] = Whole(Published(0))
      BY <1>f, <1>t, <2>1
    <3>2. cdesc = Published(0)
      <4>1. 0 \in 0 .. Used - 1
        BY <1>t, <2>1
      <4>2. PICK d \in Desc : Published(0) = Ready(d)
        BY <4>1 DEF IInv, PublishedWhole
      <4>3. QED
        BY <1>t, <2>1, <4>2 DEF TypeOK, Copy, Ready
    <3>3. QED
      BY <3>1, <3>2
  <2>6. QED
    BY <1>7, <2>4, <2>5 DEF PublishHead, producer, Fifo!Get, Whole
<1>8. CASE UNCHANGED vars
  BY <1>8, <1>q DEF vars, shared, producer, consumer
<1>9. QED
  BY <1>1, <1>2, <1>3, <1>4, <1>5, <1>6, <1>7, <1>8
  DEF Next, ProducerStep, ConsumerStep, Fifo!Next

\* UBSpscQueue implements the bounded FIFO channel: nothing lost, nothing
\* twice, in order, "full" and "empty" only when true.
THEOREM Refinement == Spec => ImplementsFifo
<1>1. Init => Fifo!Init
  <2> SUFFICES ASSUME Init PROVE Fifo!Init
    OBVIOUS
  <2>1. Used = 0
    BY ModulusFacts, RingFacts DEF Init, Used, Counter
  <2>2. fifo = <<>>
    BY InitIInv, <2>1, FifoIsSeq
  <2>3. QED
    BY <2>2 DEF Init, Fifo!Init, Whole, Empty
<1>2. QED
  BY <1>1, Invariance, DescriptorsAreWhole, StepRefines, PTL
  DEF Spec, ImplementsFifo, Fifo!Spec
=============================================================================
