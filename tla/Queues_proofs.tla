---------------------------- MODULE Queues_proofs ---------------------------
(***************************************************************************)
(* For every number of senders, receivers and values and every capacity:   *)
(* in the ring of fast-queue no two threads touch a slot together and the  *)
(* values come out in the order in which they went in; the buffered        *)
(* channel loses neither values nor wake-ups and reports its end only when *)
(* drained; and with one consumer the timer queue is early only out of     *)
(* patience.                                                               *)
(***************************************************************************)
EXTENDS MCQueues, FiniteSetTheorems, SequenceTheorems, WellFoundedInduction, TLAPS

\* Multiples of the size are at least the size apart.
LEMMA Multiples ==
  ASSUME NEW n \in Nat, NEW a \in Int, NEW b \in Int, a < b
  PROVE  n * a \in Int /\ n * b \in Int /\ n * a + n <= n * b
<1>1. n * a \in Int /\ n * b \in Int /\ n * (b - a - 1) \in Int
      OBVIOUS
<1>2. n * (b - a - 1) = n * b - n * a - n
      OBVIOUS
<1>3. n * (b - a - 1) >= 0
      OBVIOUS
<1> QED BY <1>1, <1>2, <1>3

\* Positions that share a slot are a whole lap apart, and one lap on is the same
\* slot.  Everything the proofs need to know about the index arithmetic.
LEMMA SameSlot ==
  /\ Size \in Nat /\ Size >= 2
  /\ \A p \in Nat : Slot(p) \in Slots /\ Slot(p + Size) = Slot(p)
  /\ \A p, q \in Nat : Slot(p) = Slot(q) /\ p > q => p >= q + Size
  /\ Slots \subseteq Nat /\ \A p \in Slots : p < Size /\ Slot(p) = p
<1>1. Size \in Nat /\ Size >= 2
      BY QueueConstants
<1>2. ASSUME NEW p \in Nat
      PROVE  /\ p \div Size \in Int /\ p % Size \in 0..Size - 1
             /\ p = Size * (p \div Size) + (p % Size)
      BY <1>1
<1>3. ASSUME NEW p \in Nat  PROVE Slot(p) \in Slots
      BY <1>1, <1>2 DEF Slot, Slots, bit_mask_
<1>4. ASSUME NEW p \in Nat  PROVE Slot(p + Size) = Slot(p)
  <2> DEFINE a == (p + Size) \div Size  r == (p + Size) % Size
             b == (p \div Size) + 1     u == p % Size
  <2>1. a \in Int /\ r \in 0..Size - 1 /\ p + Size = Size * a + r
        BY <1>1, <1>2
  <2>2. b \in Int /\ u \in 0..Size - 1 /\ p + Size = Size * b + u
    <3>1. Size * b = Size * (p \div Size) + Size
          BY <1>1, <1>2
    <3> QED BY <1>1, <1>2, <3>1
  <2>3. r = Slot(p + Size) /\ u = Slot(p)
        BY DEF Slot
  <2> HIDE DEF a, b, r, u
  <2>4. CASE a < b
        BY <2>1, <2>2, <2>4, <1>1, Multiples
  <2>5. CASE b < a
        BY <2>1, <2>2, <2>5, <1>1, Multiples
  <2>6. CASE a = b
        BY <2>1, <2>2, <2>3, <2>6, <1>1
  <2> QED BY <2>1, <2>2, <2>4, <2>5, <2>6
<1>5. ASSUME NEW p \in Nat, NEW q \in Nat, Slot(p) = Slot(q), p > q
      PROVE  p >= q + Size
  <2> DEFINE k == p \div Size  m == q \div Size
  <2>1. k \in Int /\ m \in Int /\ p = Size * k + Slot(p) /\ q = Size * m + Slot(q)
        BY <1>2 DEF Slot
  <2>2. Slot(p) \in Nat
        BY <1>1, <1>2 DEF Slot
  <2> HIDE DEF k, m
  <2>3. CASE k <= m
    <3>1. Size * k <= Size * m /\ Size * k \in Int /\ Size * m \in Int
          BY <2>1, <2>3, <1>1, Multiples
    <3> QED BY <3>1, <2>1, <2>2, <1>5
  <2>4. CASE m < k
    <3>1. Size * m + Size <= Size * k /\ Size * k \in Int /\ Size * m \in Int
          BY <2>1, <2>4, <1>1, Multiples
    <3> QED BY <3>1, <2>1, <2>2, <1>1, <1>5
  <2> QED BY <2>1, <2>3, <2>4
<1>6. Slots \subseteq Nat /\ \A p \in Slots : p < Size
      BY <1>1 DEF Slots, bit_mask_
<1>7. ASSUME NEW p \in Slots  PROVE Slot(p) = p
  <2> DEFINE k == p \div Size
  <2>1. k \in Int /\ p \in Nat /\ p < Size /\ Slot(p) \in 0..Size - 1 /\ p = Size * k + Slot(p)
        BY <1>1, <1>2, <1>6 DEF Slot
  <2> HIDE DEF k
  <2>2. Size * 0 = 0
        BY <1>1
  <2>3. CASE k < 0
        BY <2>1, <2>2, <2>3, <1>1, Multiples
  <2>4. CASE k > 0
        BY <2>1, <2>2, <2>4, <1>1, Multiples
  <2> QED BY <2>1, <2>2, <2>3, <2>4
<1> QED BY <1>1, <1>3, <1>4, <1>5, <1>6, <1>7

-----------------------------------------------------------------------------
\* The part of the type invariant the index protocol needs.
RingType ==
    /\ head_ \in Nat /\ tail_ \in Nat
    /\ generation \in [Slots -> Nat]
    /\ pc \in [Thread -> {"idle", "gen", "cas", "access", "publish"}]
    /\ pos \in [Thread -> Nat]

\* A generation is a position of its slot, free, or the one after, filled ...
Shape == \A i \in Slots : \/ Slot(generation[i]) = i
                          \/ generation[i] > 0 /\ Slot(generation[i] - 1) = i

\* ... and never ahead of the positions that are still to be claimed.
Behind == /\ head_ <= tail_
          /\ \A p \in Nat : p >= tail_ => generation[Slot(p)] <= p
          /\ \A p \in Nat : p >= head_ => generation[Slot(p)] <= p + 1

\* A thread's local index may be stale, and never runs ahead.
Stale == /\ \A t \in Producer : pos[t] <= tail_
         /\ \A t \in Consumer : pos[t] <= head_

\* A thread that is about to claim the present position has found its slot ready,
\* and nobody can have changed the slot since.
Ready == /\ \A t \in Producer : pc[t] = "cas" /\ pos[t] = tail_
                                   => generation[Slot(tail_)] = tail_
         /\ \A t \in Consumer : pc[t] = "cas" /\ pos[t] = head_
                                   => generation[Slot(head_)] = head_ + 1

\* A position is claimed once, and its slot keeps its generation meanwhile.
Claimed ==
    /\ \A t \in Producer : Owns(t) => pos[t] < tail_ /\ generation[Slot(pos[t])] = pos[t]
    /\ \A t \in Consumer : Owns(t) => pos[t] < head_ /\ generation[Slot(pos[t])] = pos[t] + 1
    /\ \A t, u \in Producer : Owns(t) /\ Owns(u) /\ pos[t] = pos[u] => t = u
    /\ \A t, u \in Consumer : Owns(t) /\ Owns(u) /\ pos[t] = pos[u] => t = u

IInv == RingType /\ Shape /\ Behind /\ Stale /\ Ready /\ Claimed

\* Slots in use are in use by one thread: the conclusion the invariant is for.
LEMMA ClaimedExclusive == IInv => SlotExclusive
  BY SameSlot DEF IInv, RingType, Claimed, SlotExclusive, Thread, Owns

\* The empty ring satisfies the invariant.
LEMMA InitIInv == Init => IInv
<1> SUFFICES ASSUME Init PROVE IInv
    OBVIOUS
<1>1. head_ = 0 /\ tail_ = 0
      BY DEF Init
<1>3. RingType
      BY SameSlot DEF RingType, Init
<1>4. ASSUME NEW p \in Nat  PROVE Slot(p) \in Nat /\ generation[Slot(p)] = Slot(p) /\ Slot(p) <= p
  <2>1. Slot(p) \in Nat /\ Slot(p) < Size /\ Slot(Slot(p)) = Slot(p) /\ Slot(p) \in Slots
        BY SameSlot
  <2> QED BY <2>1, SameSlot DEF Init
<1>5. Shape /\ Behind /\ Stale /\ Ready /\ Claimed
  <2>1. Shape
        BY SameSlot DEF Shape, Init
  <2>2. Behind
        BY <1>1, <1>4 DEF Behind
  <2> QED BY <2>1, <2>2 DEF Init, Stale, Ready, Claimed, Thread, Owns
<1> QED BY <1>3, <1>5 DEF IInv

\* The steps of Enqueue.
LEMMA EnqueueKeeps ==
  ASSUME IInv, NEW t \in Producer, Enqueue(t)
  PROVE  IInv'
<1> USE DEF IInv, RingType, Goto
<1>0. t \in Thread /\ t \notin Consumer
      BY QueueConstants DEF Thread
<1>1. CASE BeginEnqueue(t)
      BY <1>0, <1>1 DEF BeginEnqueue, Shape, Behind, Stale, Ready, Claimed, Owns, Thread
<1>2. CASE CheckFull(t)
  <2>1. ASSUME pos[t] = tail_, ~IsFull(pos[t])  PROVE generation[Slot(tail_)] = tail_
    <3> DEFINE g == generation[Slot(tail_)]
    <3>1. Slot(tail_) \in Slots /\ g \in Nat /\ g <= tail_
      <4>1. Slot(tail_) \in Slots
            BY SameSlot
      <4>2. g \in Nat
            BY <4>1
      <4>3. g <= tail_
            BY DEF Behind
      <4> QED BY <4>1, <4>2, <4>3
    <3>2. g + Size - 1 > tail_
          BY <2>1, <3>1, SameSlot DEF IsFull, bit_mask_
    <3>3. Slot(g) = Slot(tail_) \/ (g > 0 /\ Slot(g - 1) = Slot(tail_))
          BY <3>1 DEF Shape
    <3> HIDE DEF g
    <3>4. g = tail_
          BY <3>1, <3>2, <3>3, SameSlot
    <3> QED BY <3>4 DEF g
  <2> QED BY <1>0, <1>2, <2>1 DEF CheckFull, Shape, Behind, Stale, Ready, Claimed, Owns, Thread
<1>3. CASE ClaimTail(t)
  <2>1. CASE pos[t] = tail_ /\ tail_' = tail_ + 1 /\ pc' = [pc EXCEPT ![t] = "access"]
              /\ UNCHANGED <<head_, generation, pos>>
    <3>1. RingType'
          BY <1>0, <2>1
    <3>2. Shape' /\ Behind'
          BY <2>1, SameSlot DEF Shape, Behind
    <3>6. Stale'
          BY <2>1 DEF Stale, Thread
    <3>3. generation[Slot(pos[t])] = pos[t]
          BY <1>3, <2>1 DEF ClaimTail, Ready
    <3>4. Ready'
          BY <1>0, <2>1 DEF Ready, Stale, Thread
    <3>5. Claimed'
          BY <1>0, <2>1, <3>3 DEF Claimed, Stale, Thread, Owns
    <3> QED BY <3>1, <3>2, <3>4, <3>5, <3>6
  <2>2. CASE pos' = [pos EXCEPT ![t] = tail_] /\ pc' = [pc EXCEPT ![t] = "gen"]
              /\ UNCHANGED <<head_, generation, tail_>>
        BY <1>0, <2>2 DEF Shape, Behind, Stale, Ready, Claimed, Owns, Thread
  <2> QED BY <1>3, <2>1, <2>2 DEF ClaimTail
<1>4. CASE WriteValue(t)
      BY <1>0, <1>4 DEF WriteValue, Shape, Behind, Stale, Ready, Claimed, Owns, Thread
<1>5. CASE PublishValue(t)
  <2> DEFINE i == Slot(pos[t])
  <2>1. /\ i \in Slots /\ generation[i] = pos[t] /\ pos[t] < tail_ /\ pos[t] \in Nat
        /\ generation' = [generation EXCEPT ![i] = pos[t] + 1]
        /\ pc' = [pc EXCEPT ![t] = "idle"] /\ UNCHANGED <<head_, tail_, pos>>
        BY <1>0, <1>5, SameSlot DEF PublishValue, Claimed, Owns
  <2>2. RingType'
        BY <1>0, <2>1
  <2>3. Shape'
        BY <2>1 DEF Shape
  <2>4. Behind'
    <3>1. ASSUME NEW p \in Nat, p >= tail_, Slot(p) = i  PROVE pos[t] + 1 <= p
          BY <2>1, <3>1
    <3>2. ASSUME NEW p \in Nat, p >= head_, Slot(p) = i  PROVE pos[t] <= p
          BY <2>1, <3>2, SameSlot DEF Behind
    <3> QED BY <2>1, <3>1, <3>2, SameSlot DEF Behind
  <2>5. Stale'
        BY <2>1 DEF Stale
  <2>6. Slot(tail_) = i => generation[i] # tail_
        BY <2>1
  <2>7. Slot(head_) = i => generation[i] # head_ + 1
        BY <2>1, SameSlot
  <2>8. Ready'
        BY <1>0, <2>1, <2>6, <2>7, SameSlot DEF Ready, Thread
  <2>9. ASSUME NEW u \in Thread, u # t, Owns(u)  PROVE Slot(pos[u]) # i
        BY <1>0, <1>5, <2>9, ClaimedExclusive DEF PublishValue, SlotExclusive, Owns
  <2>10. Claimed'
        BY <1>0, <2>1, <2>9, SameSlot DEF Claimed, Owns, Thread
  <2> QED BY <2>2, <2>3, <2>4, <2>5, <2>8, <2>10
<1> QED BY <1>1, <1>2, <1>3, <1>4, <1>5 DEF Enqueue

\* The steps of Dequeue.
LEMMA DequeueKeeps ==
  ASSUME IInv, NEW t \in Consumer, Dequeue(t)
  PROVE  IInv'
<1> USE DEF IInv, RingType, Goto
<1>0. t \in Thread /\ t \notin Producer
      BY QueueConstants DEF Thread
<1>1. CASE BeginDequeue(t)
      BY <1>0, <1>1 DEF BeginDequeue, Shape, Behind, Stale, Ready, Claimed, Owns, Thread
<1>2. CASE CheckEmpty(t)
  <2>1. ASSUME pos[t] = head_, ~IsEmpty(pos[t])  PROVE generation[Slot(head_)] = head_ + 1
    <3>1. Slot(head_) \in Slots /\ generation[Slot(head_)] \in Nat
          BY SameSlot
    <3> QED BY <2>1, <3>1 DEF IsEmpty, Behind
  <2> QED BY <1>0, <1>2, <2>1 DEF CheckEmpty, Shape, Behind, Stale, Ready, Claimed, Owns, Thread
<1>3. CASE ClaimHead(t)
  <2>1. CASE pos[t] = head_ /\ head_' = head_ + 1 /\ pc' = [pc EXCEPT ![t] = "access"]
              /\ UNCHANGED <<tail_, generation, pos>>
    <3>1. RingType'
          BY <1>0, <2>1
    <3>2. generation[Slot(pos[t])] = pos[t] + 1
          BY <1>3, <2>1 DEF ClaimHead, Ready
    <3>3. head_ < tail_
          BY <2>1, <3>2 DEF Behind
    <3>4. Shape' /\ Behind'
          BY <2>1, <3>3, SameSlot DEF Shape, Behind
    <3>5. Stale'
          BY <2>1 DEF Stale, Thread
    <3>6. Ready'
          BY <1>0, <2>1 DEF Ready, Stale, Thread
    <3>7. Claimed'
          BY <1>0, <2>1, <3>2 DEF Claimed, Stale, Thread, Owns
    <3> QED BY <3>1, <3>4, <3>5, <3>6, <3>7
  <2>2. CASE pos' = [pos EXCEPT ![t] = head_] /\ pc' = [pc EXCEPT ![t] = "gen"]
              /\ UNCHANGED <<head_, generation, tail_>>
        BY <1>0, <2>2 DEF Shape, Behind, Stale, Ready, Claimed, Owns, Thread
  <2> QED BY <1>3, <2>1, <2>2 DEF ClaimHead
<1>4. CASE ReadValue(t)
      BY <1>0, <1>4 DEF ReadValue, Shape, Behind, Stale, Ready, Claimed, Owns, Thread
<1>5. CASE ReleaseSlot(t)
  <2> DEFINE i == Slot(pos[t])
  <2>1. /\ i \in Slots /\ generation[i] = pos[t] + 1 /\ pos[t] < head_ /\ pos[t] \in Nat
        /\ generation' = [generation EXCEPT ![i] = pos[t] + Size]
        /\ pc' = [pc EXCEPT ![t] = "idle"] /\ UNCHANGED <<head_, tail_, pos>>
    <3>1. i \in Slots /\ generation[i] = pos[t] + 1 /\ pos[t] < head_ /\ pos[t] \in Nat
          BY <1>0, <1>5, SameSlot DEF ReleaseSlot, Claimed, Owns
    <3>2. generation[i] + bit_mask_ = pos[t] + Size
          BY <3>1, SameSlot DEF bit_mask_
    <3> QED BY <1>5, <3>1, <3>2 DEF ReleaseSlot
  <2>2. RingType'
        BY <1>0, <2>1, SameSlot
  <2>3. Slot(pos[t] + Size) = i
        BY <2>1, SameSlot
  <2>4. Shape'
        BY <2>1, <2>3 DEF Shape
  <2>5. ASSUME NEW p \in Nat, p >= head_, Slot(p) = i  PROVE pos[t] + Size <= p
        BY <2>1, <2>5, SameSlot
  <2>6. Behind'
        BY <2>1, <2>5, SameSlot DEF Behind
  <2>7. Stale'
        BY <2>1 DEF Stale
  <2>8. Slot(tail_) = i => generation[i] # tail_
        BY <2>1, SameSlot DEF Behind
  <2>9. Slot(head_) = i => generation[i] # head_ + 1
        BY <2>1
  <2>10. Ready'
        BY <1>0, <2>1, <2>8, <2>9, SameSlot DEF Ready, Thread
  <2>11. ASSUME NEW u \in Thread, u # t, Owns(u)  PROVE Slot(pos[u]) # i
        BY <1>0, <1>5, <2>11, ClaimedExclusive DEF ReleaseSlot, SlotExclusive, Owns
  <2>12. Claimed'
        BY <1>0, <2>1, <2>11, SameSlot DEF Claimed, Owns, Thread
  <2> QED BY <2>2, <2>4, <2>6, <2>7, <2>10, <2>12
<1> QED BY <1>1, <1>2, <1>3, <1>4, <1>5 DEF Dequeue

\* The index protocol of the ring, whatever its size and whoever uses it.
THEOREM Invariance == Spec => []IInv
<1>1. ASSUME IInv, [Next]_vars  PROVE IInv'
  <2>1. CASE Next
        BY <1>1, <2>1, EnqueueKeeps, DequeueKeeps DEF Next
  <2>2. CASE UNCHANGED vars
        BY <1>1, <2>2 DEF vars, IInv, RingType, Shape, Behind, Stale, Ready, Claimed, Owns
  <2> QED BY <1>1, <2>1, <2>2
<1> QED BY <1>1, InitIInv, PTL DEF Spec

\* No two threads ever access the value of one slot together: the accesses that
\* mpmc.h leaves without synchronisation do not race.
THEOREM NoSharedSlot == Spec => []SlotExclusive
  BY Invariance, ClaimedExclusive, PTL
-----------------------------------------------------------------------------
\* Every position of the present lap is filled, free, or in somebody's hands.
Window == tail_ <= head_ + Size
Filled == \A p \in Nat : head_ <= p /\ p < tail_ =>
             generation[Slot(p)] = p + 1 \/ \E t \in Producer : Owns(t) /\ pos[t] = p
Free == \A p \in Nat : tail_ <= p /\ p < head_ + Size =>
             generation[Slot(p)] = p \/ \E t \in Consumer : Owns(t) /\ pos[t] + Size = p

Occupancy == IInv /\ Window /\ Filled /\ Free

\* The steps of Enqueue keep account of every position.
LEMMA EnqueueAccounts ==
  ASSUME Occupancy, NEW t \in Producer, Enqueue(t)
  PROVE  Occupancy'
<1> USE DEF Occupancy, IInv, RingType, Goto
<1>0. t \in Thread /\ t \notin Consumer /\ IInv'
      BY QueueConstants, EnqueueKeeps DEF Thread
<1>1. CASE /\ UNCHANGED <<head_, tail_, generation>> /\ ~Owns(t) /\ ~Owns(t)'
           /\ \A u \in Thread : u # t => pc'[u] = pc[u] /\ pos'[u] = pos[u]
      BY <1>0, <1>1 DEF Window, Filled, Free, Owns, Thread
<1>2. CASE WriteValue(t)
      BY <1>0, <1>2 DEF WriteValue, Window, Filled, Free, Owns, Thread
<1>3. CASE pc[t] = "cas" /\ pos[t] = tail_ /\ tail_' = tail_ + 1 /\ pc' = [pc EXCEPT ![t] = "access"]
            /\ UNCHANGED <<head_, generation, pos>>
  <2>1. generation[Slot(tail_)] = tail_
        BY <1>3 DEF Ready
  <2>2. Window'
    <3>1. ASSUME tail_ = head_ + Size  PROVE FALSE
      <4>1. Slot(tail_) = Slot(head_) /\ Size \in Nat /\ Size >= 2
            BY <3>1, SameSlot
      <4>2. generation[Slot(head_)] <= head_ + 1
            BY DEF Behind
      <4> QED BY <2>1, <3>1, <4>1, <4>2
    <3> QED BY <1>3, <3>1, SameSlot DEF Window
  <2>3. Filled'
        BY <1>0, <1>3 DEF Filled, Owns, Thread
  <2>4. Free'
        BY <1>0, <1>3, SameSlot DEF Free, Owns, Thread
  <2> QED BY <1>0, <2>2, <2>3, <2>4
<1>4. CASE PublishValue(t)
  <2> DEFINE i == Slot(pos[t])
  <2>1. /\ i \in Slots /\ generation[i] = pos[t] /\ pos[t] < tail_ /\ pos[t] \in Nat
        /\ generation' = [generation EXCEPT ![i] = pos[t] + 1]
        /\ pc' = [pc EXCEPT ![t] = "idle"] /\ UNCHANGED <<head_, tail_, pos>>
        BY <1>0, <1>4, SameSlot DEF PublishValue, Claimed, Owns
  <2>2. ASSUME NEW p \in Nat, head_ <= p, p < tail_
        PROVE  generation'[Slot(p)] = p + 1 \/ \E u \in Producer : Owns(u)' /\ pos'[u] = p
    <3>1. CASE p = pos[t]
          BY <2>1, <3>1
    <3>2. CASE p # pos[t] /\ generation[Slot(p)] = p + 1
      <4>1. Slot(p) # i
            BY <2>1, <3>2, SameSlot
      <4> QED BY <2>1, <3>2, <4>1, SameSlot
    <3>3. CASE p # pos[t] /\ \E u \in Producer : Owns(u) /\ pos[u] = p
          BY <1>0, <2>1, <3>3 DEF Owns, Thread
    <3> QED BY <2>2, <3>1, <3>2, <3>3 DEF Filled
  <2>3. ASSUME NEW p \in Nat, tail_ <= p, p < head_ + Size
        PROVE  generation'[Slot(p)] = p \/ \E u \in Consumer : Owns(u)' /\ pos'[u] + Size = p
    <3>1. CASE generation[Slot(p)] = p
      <4>1. Slot(p) # i
            BY <2>1, <2>3, <3>1
      <4> QED BY <2>1, <3>1, <4>1, SameSlot
    <3>2. CASE \E u \in Consumer : Owns(u) /\ pos[u] + Size = p
          BY <1>0, <2>1, <3>2 DEF Owns, Thread
    <3> QED BY <2>3, <3>1, <3>2 DEF Free
  <2>4. Filled' /\ Free'
        BY <2>1, <2>2, <2>3 DEF Filled, Free
  <2>5. Window'
        BY <2>1 DEF Window
  <2> QED BY <1>0, <2>4, <2>5
<1>5. CASE BeginEnqueue(t) \/ CheckFull(t)
      BY <1>0, <1>1, <1>5 DEF BeginEnqueue, CheckFull, Owns
<1>6. CASE ClaimTail(t)
      BY <1>0, <1>1, <1>3, <1>6 DEF ClaimTail, Owns
<1> QED BY <1>2, <1>4, <1>5, <1>6 DEF Enqueue

\* The steps of Dequeue keep account of every position.
LEMMA DequeueAccounts ==
  ASSUME Occupancy, NEW t \in Consumer, Dequeue(t)
  PROVE  Occupancy'
<1> USE DEF Occupancy, IInv, RingType, Goto
<1>0. t \in Thread /\ t \notin Producer /\ IInv'
      BY QueueConstants, DequeueKeeps DEF Thread
<1>1. CASE /\ UNCHANGED <<head_, tail_, generation>> /\ ~Owns(t) /\ ~Owns(t)'
           /\ \A u \in Thread : u # t => pc'[u] = pc[u] /\ pos'[u] = pos[u]
      BY <1>0, <1>1 DEF Window, Filled, Free, Owns, Thread
<1>2. CASE ReadValue(t)
      BY <1>0, <1>2 DEF ReadValue, Window, Filled, Free, Owns, Thread
<1>3. CASE pc[t] = "cas" /\ pos[t] = head_ /\ head_' = head_ + 1 /\ pc' = [pc EXCEPT ![t] = "access"]
            /\ UNCHANGED <<tail_, generation, pos>>
  <2>1. Window'
        BY <1>3, SameSlot DEF Window
  <2>2. Filled'
        BY <1>0, <1>3 DEF Filled, Owns, Thread
  <2>3. Owns(t)' /\ pos'[t] = head_ /\ t \in Consumer
        BY <1>0, <1>3 DEF Owns
  <2>4. ASSUME NEW p \in Nat, tail_ <= p, p < head_ + 1 + Size
        PROVE  generation[Slot(p)] = p \/ \E u \in Consumer : Owns(u)' /\ pos'[u] + Size = p
    <3>1. CASE p = head_ + Size
          BY <2>3, <3>1
    <3>2. CASE p < head_ + Size
          BY <1>0, <1>3, <2>4, <3>2 DEF Free, Owns, Thread
    <3> QED BY <2>4, <3>1, <3>2, SameSlot
  <2>5. Free'
        BY <1>3, <2>4 DEF Free
  <2> QED BY <1>0, <2>1, <2>2, <2>5
<1>4. CASE ReleaseSlot(t)
  <2> DEFINE i == Slot(pos[t])
  <2>1. /\ i \in Slots /\ generation[i] = pos[t] + 1 /\ pos[t] < head_ /\ pos[t] \in Nat
        /\ generation' = [generation EXCEPT ![i] = pos[t] + Size]
        /\ pc' = [pc EXCEPT ![t] = "idle"] /\ UNCHANGED <<head_, tail_, pos>>
    <3>1. i \in Slots /\ generation[i] = pos[t] + 1 /\ pos[t] < head_ /\ pos[t] \in Nat
          BY <1>0, <1>4, SameSlot DEF ReleaseSlot, Claimed, Owns
    <3>2. generation[i] + bit_mask_ = pos[t] + Size
          BY <3>1, SameSlot DEF bit_mask_
    <3> QED BY <1>4, <3>1, <3>2 DEF ReleaseSlot
  <2>2. ASSUME NEW p \in Nat, head_ <= p, p < tail_
        PROVE  generation'[Slot(p)] = p + 1 \/ \E u \in Producer : Owns(u)' /\ pos'[u] = p
    <3>1. CASE generation[Slot(p)] = p + 1
      <4>1. Slot(p) # i
            BY <2>1, <2>2, <3>1
      <4> QED BY <2>1, <3>1, <4>1, SameSlot
    <3>2. CASE \E u \in Producer : Owns(u) /\ pos[u] = p
          BY <1>0, <2>1, <3>2 DEF Owns, Thread
    <3> QED BY <2>2, <3>1, <3>2 DEF Filled
  <2>3. ASSUME NEW p \in Nat, tail_ <= p, p < head_ + Size
        PROVE  generation'[Slot(p)] = p \/ \E u \in Consumer : Owns(u)' /\ pos'[u] + Size = p
    <3>1. CASE p = pos[t] + Size
          BY <2>1, <3>1, SameSlot
    <3>2. CASE p # pos[t] + Size /\ generation[Slot(p)] = p
      <4>1. Slot(p) # i
            BY <2>1, <3>2, SameSlot
      <4> QED BY <2>1, <3>2, <4>1, SameSlot
    <3>3. CASE p # pos[t] + Size /\ \E u \in Consumer : Owns(u) /\ pos[u] + Size = p
          BY <1>0, <2>1, <3>3 DEF Owns, Thread
    <3> QED BY <2>3, <3>1, <3>2, <3>3 DEF Free
  <2>4. Filled' /\ Free'
        BY <2>1, <2>2, <2>3 DEF Filled, Free
  <2>5. Window'
        BY <2>1 DEF Window
  <2> QED BY <1>0, <2>4, <2>5
<1>5. CASE BeginDequeue(t) \/ CheckEmpty(t)
      BY <1>0, <1>1, <1>5 DEF BeginDequeue, CheckEmpty, Owns
<1>6. CASE ClaimHead(t)
      BY <1>0, <1>1, <1>3, <1>6 DEF ClaimHead, Owns
<1> QED BY <1>2, <1>4, <1>5, <1>6 DEF Dequeue

\* When no operation is under way, Enqueue fails exactly on a full ring and
\* Dequeue exactly on an empty one, whatever happened before.
THEOREM FullAndEmptyExact == Spec => []QuiescentExact
<1>1. Init => Occupancy
  <2> SUFFICES ASSUME Init PROVE Occupancy
      OBVIOUS
  <2>1. head_ = 0 /\ tail_ = 0 /\ \A i \in Slots : generation[i] = i
        BY DEF Init
  <2>2. \A p \in Nat : p < Size => p \in Slots /\ Slot(p) = p
        BY SameSlot DEF Slots, bit_mask_
  <2> QED BY <2>1, <2>2, InitIInv, SameSlot DEF Occupancy, Window, Filled, Free
<1>2. ASSUME Occupancy, [Next]_vars  PROVE Occupancy'
  <2>1. CASE Next
        BY <1>2, <2>1, EnqueueAccounts, DequeueAccounts DEF Next
  <2>2. CASE UNCHANGED vars
        BY <1>2, <2>2 DEF vars, Occupancy, Window, Filled, Free, IInv, RingType, Shape, Behind,
                          Stale, Ready, Claimed, Owns
  <2> QED BY <1>2, <2>1, <2>2
<1>3. ASSUME Occupancy, \A t \in Thread : ~Owns(t)
      PROVE  (IsFull(tail_) <=> tail_ = head_ + Size) /\ (IsEmpty(head_) <=> tail_ = head_)
  <2> USE <1>3 DEF Occupancy, IInv, RingType
  <2>1. Slot(head_) \in Slots /\ Slot(tail_) \in Slots
        BY SameSlot
  <2>2. head_ < tail_ => generation[Slot(head_)] = head_ + 1
        BY DEF Filled, Thread
  <2>3. tail_ < head_ + Size => generation[Slot(tail_)] = tail_
        BY SameSlot DEF Free, Thread
  <2>4. tail_ = head_ => generation[Slot(head_)] <= head_
        BY DEF Behind
  <2>5. tail_ = head_ + Size => Slot(tail_) = Slot(head_)
        BY SameSlot
  <2>6. IsEmpty(head_) <=> tail_ = head_
        BY <2>1, <2>2, <2>4 DEF IsEmpty, Behind
  <2>7. IsFull(tail_) <=> tail_ = head_ + Size
        BY <2>1, <2>2, <2>3, <2>5, SameSlot DEF IsFull, Window, bit_mask_
  <2> QED BY <2>6, <2>7
<1>4. Occupancy => QuiescentExact
      BY <1>3 DEF QuiescentExact
<1> QED BY <1>1, <1>2, <1>4, PTL DEF Spec
-----------------------------------------------------------------------------
\* What was put at a position is on its way to the slot, or in it, until it is got.
DataType == /\ calls \in [Producer -> Nat]
            /\ value \in [Slots -> Value \cup {NoValue}]
            /\ put \in Seq(Value \cup {NoValue}) /\ Len(put) = tail_
            /\ got \in Seq(Value \cup {NoValue}) /\ Len(got) = head_
            /\ seen \in [Consumer -> SUBSET Nat]
InHand == \A t \in Producer :
            /\ Owns(t) => put[pos[t] + 1] = <<t, calls[t]>>
            /\ pc[t] = "publish" => value[Slot(pos[t])] = put[pos[t] + 1]
Stored == \A p \in Nat : p < tail_ /\ generation[Slot(p)] = p + 1
                           => value[Slot(p)] = put[p + 1]

Data == IInv /\ DataType /\ InHand /\ Stored /\ FirstInFirstOut

\* The steps of Enqueue put the value into its slot.
LEMMA EnqueueStores ==
  ASSUME Data, NEW t \in Producer, Enqueue(t)
  PROVE  Data'
<1> USE DEF Data, IInv, RingType, DataType, Goto
<1>0. t \in Thread /\ t \notin Consumer /\ IInv'
      BY QueueConstants, EnqueueKeeps DEF Thread
<1>1. CASE /\ UNCHANGED <<head_, tail_, generation, value, calls, put, got, seen>>
           /\ ~Owns(t) /\ ~Owns(t)'
           /\ \A u \in Thread : u # t => pc'[u] = pc[u] /\ pos'[u] = pos[u]
      BY <1>0, <1>1 DEF InHand, Stored, FirstInFirstOut, Owns, Thread
<1>2. CASE /\ pc[t] = "cas" /\ pos[t] = tail_ /\ tail_' = tail_ + 1
           /\ put' = Append(put, <<t, calls[t]>>) /\ pc' = [pc EXCEPT ![t] = "access"]
           /\ UNCHANGED <<head_, generation, pos, value, calls, got, seen>>
  <2>1. <<t, calls[t]>> \in Value \cup {NoValue}
        BY DEF Value
  <2>2. DataType'
        BY <1>2, <2>1
  <2>3. /\ \A p \in 1..tail_ : put'[p] = put[p]
        /\ put'[tail_ + 1] = <<t, calls[t]>>
        /\ Len(put') = tail_ + 1
        BY <1>2, <2>1
  <2>4. InHand'
        BY <1>0, <1>2, <2>3 DEF InHand, Owns, Claimed, Thread
  <2>5. generation[Slot(tail_)] = tail_
        BY <1>2 DEF Ready
  <2>6. Stored'
    <3>1. ASSUME NEW p \in Nat, p < tail_ + 1, generation[Slot(p)] = p + 1
          PROVE  value[Slot(p)] = put'[p + 1]
      <4>1. p < tail_ /\ p + 1 \in 1..tail_
            BY <2>5, <3>1
      <4> QED BY <2>3, <3>1, <4>1 DEF Stored
    <3> QED BY <1>2, <3>1 DEF Stored
  <2>7. FirstInFirstOut'
        BY <1>2, <2>3 DEF FirstInFirstOut
  <2> QED BY <1>0, <2>2, <2>4, <2>6, <2>7
<1>3. CASE WriteValue(t)
  <2> DEFINE i == Slot(pos[t])
  <2>1. /\ i \in Slots /\ generation[i] = pos[t] /\ put[pos[t] + 1] = <<t, calls[t]>>
        /\ value' = [value EXCEPT ![i] = put[pos[t] + 1]] /\ pc' = [pc EXCEPT ![t] = "publish"]
        /\ Owns(t) /\ UNCHANGED <<head_, tail_, generation, pos, calls, put, got, seen>>
        BY <1>0, <1>3, SameSlot DEF WriteValue, Claimed, InHand, Owns
  <2>2. <<t, calls[t]>> \in Value
        BY DEF Value
  <2>3. DataType'
        BY <2>1, <2>2
  <2>4. ASSUME NEW u \in Thread, u # t, Owns(u)  PROVE Slot(pos[u]) # i
        BY <1>0, <2>1, <2>4, ClaimedExclusive DEF SlotExclusive
  <2>5. InHand'
        BY <1>0, <2>1, <2>4, SameSlot DEF InHand, Owns, Thread
  <2>6. ASSUME NEW p \in Nat, generation[Slot(p)] = p + 1  PROVE Slot(p) # i
        BY <1>0, <2>1, <2>6, SameSlot
  <2>7. Stored'
        BY <2>1, <2>6, SameSlot DEF Stored
  <2>8. FirstInFirstOut'
        BY <2>1 DEF FirstInFirstOut
  <2> QED BY <1>0, <2>3, <2>5, <2>7, <2>8
<1>4. CASE PublishValue(t)
  <2> DEFINE i == Slot(pos[t])
  <2>1. /\ i \in Slots /\ pos[t] \in Nat /\ value[i] = put[pos[t] + 1]
        /\ generation' = [generation EXCEPT ![i] = pos[t] + 1]
        /\ calls' = [calls EXCEPT ![t] = @ + 1] /\ pc' = [pc EXCEPT ![t] = "idle"]
        /\ UNCHANGED <<head_, tail_, pos, value, put, got, seen>>
        BY <1>0, <1>4, SameSlot DEF PublishValue, Claimed, InHand, Owns
  <2>2. generation[i] = pos[t]
        BY <1>4 DEF PublishValue, Claimed, Owns
  <2>3. DataType'
        BY <2>1
  <2>4. InHand'
        BY <1>0, <2>1 DEF InHand, Owns, Thread
  <2>5. Stored'
        BY <2>1, <2>2, SameSlot DEF Stored
  <2>6. FirstInFirstOut'
        BY <2>1 DEF FirstInFirstOut
  <2> QED BY <1>0, <2>3, <2>4, <2>5, <2>6
<1>5. CASE BeginEnqueue(t) \/ CheckFull(t)
      BY <1>0, <1>1, <1>5 DEF BeginEnqueue, CheckFull, Owns
<1>6. CASE ClaimTail(t)
      BY <1>0, <1>1, <1>2, <1>6 DEF ClaimTail, Owns
<1> QED BY <1>3, <1>4, <1>5, <1>6 DEF Enqueue

\* The steps of Dequeue get the value that was put.
LEMMA DequeueFetches ==
  ASSUME Data, NEW t \in Consumer, Dequeue(t)
  PROVE  Data'
<1> USE DEF Data, IInv, RingType, DataType, Goto
<1>0. t \in Thread /\ t \notin Producer /\ IInv'
      BY QueueConstants, DequeueKeeps DEF Thread
<1>1. CASE /\ UNCHANGED <<head_, tail_, generation, value, calls, put, got>>
           /\ seen' \in [Consumer -> SUBSET Nat]
           /\ \A u \in Thread : u # t => pc'[u] = pc[u] /\ pos'[u] = pos[u]
      BY <1>0, <1>1 DEF InHand, Stored, FirstInFirstOut, Owns, Thread
<1>2. CASE /\ pc[t] = "cas" /\ head_' = head_ + 1 /\ got' = Append(got, NoValue)
           /\ pc' = [pc EXCEPT ![t] = "access"]
           /\ UNCHANGED <<tail_, generation, pos, value, calls, put, seen>>
  <2>1. DataType'
        BY <1>2
  <2>2. /\ \A p \in 1..Len(got) : got'[p] = got[p]
        /\ got'[Len(got) + 1] = NoValue /\ Len(got') = Len(got) + 1
        BY <1>2
  <2>3. InHand' /\ Stored'
        BY <1>0, <1>2 DEF InHand, Stored, Owns, Thread
  <2>4. FirstInFirstOut'
        BY <1>2, <2>2 DEF FirstInFirstOut
  <2> QED BY <1>0, <2>1, <2>3, <2>4
<1>3. CASE ReadValue(t)
  <2> DEFINE v == value[Slot(pos[t])]
  <2>1. /\ pos[t] \in Nat /\ pos[t] < head_ /\ Slot(pos[t]) \in Slots
        /\ generation[Slot(pos[t])] = pos[t] + 1
        /\ got' = [got EXCEPT ![pos[t] + 1] = v] /\ pc' = [pc EXCEPT ![t] = "publish"]
        /\ UNCHANGED <<head_, tail_, generation, pos, value, calls, put, seen>>
        BY <1>0, <1>3, SameSlot DEF ReadValue, Claimed, Owns
  <2>2. v = put[pos[t] + 1] /\ v \in Value \cup {NoValue} /\ pos[t] < tail_
    <3>1. pos[t] < tail_
      <4>1. head_ \in Nat /\ tail_ \in Nat /\ head_ <= tail_ /\ pos[t] \in Nat /\ pos[t] < head_
            BY <2>1 DEF Behind
      <4> HIDE DEF Data, IInv, RingType, DataType
      <4> QED BY <4>1
    <3>2. v = put[pos[t] + 1]
      <4> HIDE DEF Data, IInv, RingType, DataType
      <4>1. Stored
            BY DEF Data
      <4> QED BY <2>1, <3>1, <4>1 DEF Stored
    <3>3. v \in Value \cup {NoValue}
          BY <2>1
    <3> QED BY <3>1, <3>2, <3>3
  <2> HIDE DEF v
  <2>3. got' \in Seq(Value \cup {NoValue}) /\ Len(got') = Len(got)
        BY <2>1, <2>2
  <2>4. \A p \in 1..Len(got) : got'[p] = IF p = pos[t] + 1 THEN v ELSE got[p]
        BY <2>1
  <2>5. FirstInFirstOut'
        BY <2>1, <2>2, <2>3, <2>4 DEF FirstInFirstOut
  <2>6. InHand' /\ Stored'
        BY <1>0, <2>1 DEF InHand, Stored, Owns, Thread
  <2>7. DataType'
        BY <2>1, <2>3
  <2> QED BY <1>0, <2>5, <2>6, <2>7
<1>4. CASE ReleaseSlot(t)
  <2> DEFINE i == Slot(pos[t])
  <2>1. /\ i \in Slots /\ pos[t] \in Nat
        /\ generation' = [generation EXCEPT ![i] = pos[t] + Size]
        /\ pc' = [pc EXCEPT ![t] = "idle"] /\ seen' = [seen EXCEPT ![t] = {}]
        /\ UNCHANGED <<head_, tail_, pos, value, calls, put, got>>
    <3>1. i \in Slots /\ generation[i] = pos[t] + 1 /\ pos[t] \in Nat
          BY <1>0, <1>4, SameSlot DEF ReleaseSlot, Claimed, Owns
    <3>2. generation[i] + bit_mask_ = pos[t] + Size
      <4> HIDE DEF Data, IInv, RingType, DataType, i
      <4> QED BY <3>1, SameSlot DEF bit_mask_
    <3> QED BY <1>4, <3>1, <3>2 DEF ReleaseSlot
  <2>2. DataType'
        BY <2>1
  <2>3. ASSUME NEW p \in Nat, Slot(p) = i  PROVE p + 1 # pos[t] + Size
    <3> HIDE DEF Data, IInv, RingType, DataType
    <3> QED BY <2>1, <2>3, SameSlot
  <2>4. Stored'
        BY <2>1, <2>3, SameSlot DEF Stored
  <2>5. InHand' /\ FirstInFirstOut'
        BY <1>0, <2>1 DEF InHand, FirstInFirstOut, Owns, Thread
  <2> QED BY <1>0, <2>2, <2>4, <2>5
<1>5. CASE BeginDequeue(t)
  <2>1. Present \subseteq Nat
        BY DEF Present
  <2>2. seen' \in [Consumer -> SUBSET Nat]
        BY <1>5, <2>1 DEF BeginDequeue
  <2> QED BY <1>0, <1>1, <1>5, <2>2 DEF BeginDequeue
<1>6. CASE CheckEmpty(t)
  <2>1. seen' \in [Consumer -> SUBSET Nat]
        BY <1>6 DEF CheckEmpty
  <2> QED BY <1>0, <1>1, <1>6, <2>1 DEF CheckEmpty
<1>7. CASE ClaimHead(t)
      BY <1>0, <1>1, <1>2, <1>7 DEF ClaimHead
<1> QED BY <1>3, <1>4, <1>5, <1>6, <1>7 DEF Dequeue

\* The data invariant of the ring.
THEOREM DataInvariance == Spec => []Data
<1>1. Init => Data
  <2> SUFFICES ASSUME Init PROVE Data
      OBVIOUS
  <2>1. DataType
        BY DEF Init, DataType
  <2>2. InHand /\ Stored /\ FirstInFirstOut
        BY DEF Init, InHand, Stored, FirstInFirstOut, Owns, Thread
  <2> QED BY <2>1, <2>2, InitIInv DEF Data
<1>2. ASSUME Data, [Next]_vars  PROVE Data'
  <2>1. CASE Next
        BY <1>2, <2>1, EnqueueStores, DequeueFetches DEF Next
  <2>2. CASE UNCHANGED vars
        BY <1>2, <2>2 DEF vars, Data, DataType, InHand, Stored, FirstInFirstOut, IInv, RingType,
                          Shape, Behind, Stale, Ready, Claimed, Owns
  <2> QED BY <1>2, <2>1, <2>2
<1> QED BY <1>1, <1>2, PTL DEF Spec

\* The k-th value Dequeue returns is the k-th value Enqueue was given.
THEOREM KeepsOrder == Spec => []FirstInFirstOut
<1>1. Data => FirstInFirstOut
      BY DEF Data
<1> QED BY <1>1, DataInvariance, PTL

\* Type correctness.
THEOREM TypeCorrect == Spec => []TypeOK
<1>1. Data => TypeOK
      BY DEF Data, DataType, IInv, RingType, TypeOK
<1> QED BY <1>1, DataInvariance, PTL
-----------------------------------------------------------------------------
\* The pairs of naturals in increasing order.
Increasing == {p \in Nat \X Nat : p[1] < p[2]}

\* A set of naturals that is not empty has a least element.
LEMMA LeastNat ==
  ASSUME NEW T \in SUBSET Nat, T # {}
  PROVE  \E n \in T : \A m \in T : n <= m
<1>1. IsWellFoundedOn(Increasing, Nat)
      BY SMT, NatLessThanWellFounded DEF OpToRel, Increasing
<1>2. PICK n \in T : \A m \in T : ~(<<m, n>> \in Increasing)
      BY <1>1, WFMin
<1>3. ASSUME NEW m \in T PROVE n <= m
  <2>1. n \in Nat /\ m \in Nat
        OBVIOUS
  <2>2. <<m, n>> \in Nat \X Nat /\ <<m, n>>[1] = m /\ <<m, n>>[2] = n
        BY <2>1
  <2>3. ~(m < n)
        BY <1>2, <1>3, <2>2 DEF Increasing
  <2> QED BY <2>1, <2>3
<1> QED BY <1>3

-----------------------------------------------------------------------------
\* The buffered channel.  The threads of S at place l.
AtPlace(S, l) == {t \in S : chanPc[t] = l}

\* A thread between its predicate and its sleep has the mutex, and what it saw still
\* holds: nobody else can have changed the queue.
Handover ==
    /\ \A r \in Receiver : chanPc[r] = "tosleep" => lock = r /\ buffer = <<>>
    /\ \A s \in Sender : chanPc[s] = "tosleep" => lock = s /\ Len(buffer) >= Capacity

\* The wake-up promises to the receivers and to the senders.
ReceiversWoken ==
    (\E r \in Receiver : chanPc[r] = "asleep") /\ ~is_closed_
       => Len(buffer) <= Cardinality(AtPlace(Receiver, "call"))
SendersWoken ==
    (\E s \in Sender : chanPc[s] = "asleep") /\ ~is_closed_
       => Capacity - Len(buffer) <= Cardinality(AtPlace(Sender, "call"))

\* The promises alone are not inductive: a thread that goes to sleep must not have
\* missed a value or a place, which is what the mutex is for (Handover).
ChanInv ==
    /\ BC!TypeOK /\ Handover /\ ReceiversWoken /\ SendersWoken
    /\ BC!DeliversInOrder /\ BC!ClosedMeansDrained

\* What is assumed of the channel's constants.
LEMMA ChanConstants ==
  /\ Capacity \in Nat \ {0} /\ MaxSend \in Nat
  /\ IsFiniteSet(Sender) /\ IsFiniteSet(Receiver)
  /\ Sender \cap Receiver = {} /\ NoThread \notin BC!Thread
  BY InstanceConstants DEF BC!ChannelConstants, BC!IsFiniteSet, IsFiniteSet

\* The same counting in the channel's module and here.
LEMMA SameCardinality == \A S : BC!Cardinality(S) = Cardinality(S)
  BY DEF BC!Cardinality, Cardinality

\* Counting the senders or the receivers at a place.
LEMMA Counting ==
  ASSUME NEW S \in {Sender, Receiver}, NEW T \in SUBSET S
  PROVE  /\ Cardinality(T) \in Nat
         /\ Cardinality(T) = 0 <=> T = {}
         /\ \A t : t \notin T => Cardinality(T \cup {t}) = Cardinality(T) + 1
         /\ \A t : t \in T => Cardinality(T \ {t}) = Cardinality(T) - 1
<1>1. IsFiniteSet(T)
      BY ChanConstants, FS_Subset
<1> QED BY <1>1, FS_CardinalityType, FS_EmptySet, FS_AddElement, FS_RemoveElement

\* notify_one moves the caller and at most one sleeper of S; the others stay.
LEMMA Notified ==
  ASSUME BC!TypeOK, NEW t \in BC!Thread, NEW S \in {Sender, Receiver}, t \notin S,
         BC!LeaveAndNotify(t, "idle", S)
  PROVE  /\ chanPc' \in [BC!Thread -> {"idle", "call", "tosleep", "asleep", "failed"}]
         /\ chanPc'[t] = "idle"
         /\ \A u \in BC!Thread \ S : u # t => chanPc'[u] = chanPc[u]
         /\ \/ /\ \A u \in S : chanPc[u] # "asleep"
               /\ \A u \in S : chanPc'[u] = chanPc[u]
            \/ \E w \in S : /\ chanPc[w] = "asleep" /\ chanPc'[w] = "call"
                            /\ \A u \in S \ {w} : chanPc'[u] = chanPc[u]
<1> USE DEF BC!TypeOK, BC!Thread
<1>1. CASE \A u \in S : chanPc[u] # "asleep"
  <2>1. chanPc' = [chanPc EXCEPT ![t] = "idle"]
        BY <1>1 DEF BC!LeaveAndNotify
  <2> QED BY <1>1, <2>1
<1>2. CASE \E u \in S : chanPc[u] = "asleep"
  <2>1. PICK w \in S : chanPc[w] = "asleep" /\ chanPc' = [chanPc EXCEPT ![t] = "idle", ![w] = "call"]
        BY <1>2 DEF BC!LeaveAndNotify
  <2>2. S \subseteq BC!Thread /\ w \in BC!Thread /\ w # t
        BY DEF BC!Thread
  <2>3. /\ chanPc' \in [BC!Thread -> {"idle", "call", "tosleep", "asleep", "failed"}]
        /\ chanPc'[t] = "idle" /\ chanPc'[w] = "call"
        /\ \A u \in BC!Thread : u # t /\ u # w => chanPc'[u] = chanPc[u]
        BY <2>1, <2>2
  <2>4. \A u \in S \ {w} : chanPc'[u] = chanPc[u]
        BY <2>2, <2>3
  <2>5. \A u \in BC!Thread \ S : u # t => chanPc'[u] = chanPc[u]
        BY <2>3
  <2> QED BY <2>1, <2>3, <2>4, <2>5
<1> QED BY <1>1, <1>2

\* Every step keeps the types and what the mutex stands for.
LEMMA StepHandover == ChanInv /\ [BC!Next]_BC!vars => BC!TypeOK' /\ Handover'
<1> SUFFICES ASSUME ChanInv, [BC!Next]_BC!vars PROVE BC!TypeOK' /\ Handover'
    OBVIOUS
<1>t. BC!TypeOK /\ Handover
      BY DEF ChanInv
<1>c. Sender \cap Receiver = {} /\ NoThread \notin BC!Thread
      BY ChanConstants
<1> USE DEF BC!Thread
<1>1. ASSUME NEW t \in BC!Thread, BC!Call(t) PROVE BC!TypeOK' /\ Handover'
      BY <1>1, <1>t DEF BC!Call, BC!TypeOK, Handover
<1>2. ASSUME NEW t \in BC!Thread, BC!SpuriousWakeup(t) PROVE BC!TypeOK' /\ Handover'
      BY <1>2, <1>t DEF BC!SpuriousWakeup, BC!TypeOK, Handover
<1>3. ASSUME NEW t \in BC!Thread, BC!Sleep(t) PROVE BC!TypeOK' /\ Handover'
  <2>1. BC!TypeOK'
        BY <1>3, <1>t DEF BC!Sleep, BC!TypeOK
  <2>2. \A u \in BC!Thread : chanPc'[u] # "tosleep"
        BY <1>3, <1>t DEF BC!Sleep, BC!TypeOK, Handover
  <2> QED BY <2>1, <2>2 DEF Handover
<1>4. ASSUME NEW s \in Sender, BC!Send(s) PROVE BC!TypeOK' /\ Handover'
  <2>0. \A u \in BC!Thread : chanPc[u] # "tosleep"
        BY <1>4, <1>t, <1>c DEF BC!Send, Handover
  <2>1. CASE Len(buffer) >= Capacity /\ ~is_closed_ /\ BC!Block(s)
        BY <1>t, <1>c, <2>0, <2>1 DEF BC!Block, BC!TypeOK, Handover
  <2>2. CASE /\ is_closed_ /\ chanPc' = [chanPc EXCEPT ![s] = "failed"]
             /\ UNCHANGED <<buffer, is_closed_, lock, closer, sent, received>>
        BY <1>t, <2>0, <2>2 DEF BC!TypeOK, Handover
  <2>3. CASE /\ buffer' = Append(buffer, <<s, sent[s]>>)
             /\ sent' = [sent EXCEPT ![s] = @ + 1]
             /\ BC!LeaveAndNotify(s, "idle", Receiver)
             /\ UNCHANGED <<is_closed_, lock, closer, received>>
    <3>1. chanPc' \in [BC!Thread -> {"idle", "call", "tosleep", "asleep", "failed"}]
          BY <1>t, <1>c, <2>3, Notified
    <3>2. \A u \in BC!Thread : chanPc'[u] # "tosleep"
          BY <1>t, <1>c, <2>0, <2>3, Notified
    <3>3. <<s, sent[s]>> \in Sender \X Nat /\ sent' \in [Sender -> Nat]
          BY <1>t, <2>3 DEF BC!TypeOK
    <3>4. buffer' \in Seq(Sender \X Nat)
          BY <1>t, <2>3, <3>3 DEF BC!TypeOK
    <3> QED BY <1>t, <2>3, <3>1, <3>2, <3>3, <3>4 DEF BC!TypeOK, Handover
  <2> QED BY <1>4, <2>1, <2>2, <2>3 DEF BC!Send
<1>5. ASSUME NEW r \in Receiver, BC!Recv(r) PROVE BC!TypeOK' /\ Handover'
  <2>0. \A u \in BC!Thread : chanPc[u] # "tosleep"
        BY <1>5, <1>t, <1>c DEF BC!Recv, Handover
  <2>1. CASE buffer = <<>> /\ ~is_closed_ /\ BC!Block(r)
        BY <1>t, <1>c, <2>0, <2>1 DEF BC!Block, BC!TypeOK, Handover
  <2>2. CASE /\ chanPc' = [chanPc EXCEPT ![r] = "failed"]
             /\ UNCHANGED <<buffer, is_closed_, lock, closer, sent, received>>
        BY <1>t, <2>0, <2>2 DEF BC!TypeOK, Handover
  <2>3. CASE /\ buffer # <<>> /\ received' = Append(received, Head(buffer))
             /\ buffer' = Tail(buffer)
             /\ BC!LeaveAndNotify(r, "idle", Sender)
             /\ UNCHANGED <<is_closed_, lock, closer, sent>>
    <3>1. chanPc' \in [BC!Thread -> {"idle", "call", "tosleep", "asleep", "failed"}]
          BY <1>t, <1>c, <2>3, Notified
    <3>2. \A u \in BC!Thread : chanPc'[u] # "tosleep"
          BY <1>t, <1>c, <2>0, <2>3, Notified
    <3> QED BY <1>t, <2>3, <3>1, <3>2 DEF BC!TypeOK, Handover
  <2> QED BY <1>5, <2>1, <2>2, <2>3 DEF BC!Recv
<1>6. ASSUME BC!CloseSet PROVE BC!TypeOK' /\ Handover'
      BY <1>6, <1>t DEF BC!CloseSet, BC!TypeOK, Handover
<1>7. ASSUME BC!CloseStep PROVE BC!TypeOK' /\ Handover'
      BY <1>7, <1>t DEF BC!CloseStep, BC!CloseNotifyRead, BC!CloseNotifyWrite, BC!WakeAll,
                        BC!TypeOK, Handover
<1>8. CASE UNCHANGED BC!vars
      BY <1>8, <1>t DEF BC!vars, BC!TypeOK, Handover
<1> QED BY <1>1, <1>2, <1>3, <1>4, <1>5, <1>6, <1>7, <1>8 DEF BC!Next, BC!Step

\* Every step keeps the promise to the receivers.
LEMMA StepReceivers == ChanInv /\ [BC!Next]_BC!vars => ReceiversWoken'
<1> SUFFICES ASSUME ChanInv, [BC!Next]_BC!vars,
                    \E r \in Receiver : chanPc'[r] = "asleep", ~is_closed_'
             PROVE  Len(buffer') <= Cardinality(AtPlace(Receiver, "call")')
    BY DEF ReceiversWoken
<1> DEFINE C == AtPlace(Receiver, "call")
           Goal == Len(buffer') <= Cardinality(C')
<1>t. BC!TypeOK /\ Handover /\ ReceiversWoken
      BY DEF ChanInv
<1>c. Sender \cap Receiver = {}
      BY ChanConstants
<1>n. /\ C \in SUBSET Receiver /\ C' \in SUBSET Receiver /\ Len(buffer) \in Nat
      /\ Cardinality(C) \in Nat /\ Cardinality(C') \in Nat
  <2>1. C \in SUBSET Receiver /\ C' \in SUBSET Receiver
        BY DEF AtPlace
  <2> QED BY <1>t, <2>1, Counting DEF BC!TypeOK
<1> USE DEF BC!Thread
\* A step that only leaves or adds receivers that are about to look.
<1>0. ASSUME UNCHANGED buffer, ~is_closed_,
             \A r \in Receiver : chanPc'[r] = "asleep" => chanPc[r] = "asleep",
             \/ C' = C
             \/ \E t \in Receiver \ C : C' = C \cup {t}
      PROVE  Goal
  <2>1. Len(buffer) <= Cardinality(C)
        BY <1>t, <1>0 DEF ReceiversWoken
  <2>2. Cardinality(C') = Cardinality(C) \/ Cardinality(C') = Cardinality(C) + 1
        BY <1>0, <1>n, Counting
  <2> QED BY <1>0, <1>n, <2>1, <2>2
<1>1. ASSUME NEW t \in BC!Thread, BC!Call(t) \/ BC!SpuriousWakeup(t) PROVE Goal
  <2>1. CASE t \in Receiver
    <3>1. C' = C \cup {t} /\ t \notin C
          BY <1>1, <1>t, <2>1 DEF BC!Call, BC!SpuriousWakeup, BC!TypeOK, AtPlace
    <3> QED BY <1>0, <1>1, <1>t, <2>1, <3>1 DEF BC!Call, BC!SpuriousWakeup, BC!TypeOK
  <2>2. CASE t \notin Receiver
    <3>1. C' = C
          BY <1>1, <1>t, <2>2 DEF BC!Call, BC!SpuriousWakeup, BC!TypeOK, AtPlace
    <3> QED BY <1>0, <1>1, <1>t, <2>2, <3>1 DEF BC!Call, BC!SpuriousWakeup, BC!TypeOK
  <2> QED BY <2>1, <2>2
<1>2. ASSUME NEW t \in BC!Thread, BC!Sleep(t) PROVE Goal
  <2>1. CASE t \in Receiver
        BY <1>2, <1>t, <1>n, <2>1 DEF BC!Sleep, Handover
  <2>2. CASE t \notin Receiver
    <3>1. C' = C
          BY <1>2, <1>t, <2>2 DEF BC!Sleep, BC!TypeOK, AtPlace
    <3> QED BY <1>0, <1>2, <1>t, <2>2, <3>1 DEF BC!Sleep, BC!TypeOK
  <2> QED BY <2>1, <2>2
<1>3. ASSUME NEW s \in Sender, BC!Send(s) PROVE Goal
  <2>1. CASE BC!Block(s)
    <3>1. C' = C
          BY <1>t, <1>c, <2>1 DEF BC!Block, BC!TypeOK, AtPlace
    <3> QED BY <1>0, <1>t, <1>c, <2>1, <3>1 DEF BC!Block, BC!TypeOK
  <2>2. CASE is_closed_ /\ UNCHANGED is_closed_
        BY <2>2
  <2>3. CASE /\ ~is_closed_ /\ buffer' = Append(buffer, <<s, sent[s]>>)
             /\ BC!LeaveAndNotify(s, "idle", Receiver)
    <3>1. PICK w \in Receiver : /\ chanPc[w] = "asleep" /\ chanPc'[w] = "call"
                                /\ \A u \in Receiver \ {w} : chanPc'[u] = chanPc[u]
          BY <1>t, <1>c, <2>3, Notified
    <3>2. C' = C \cup {w} /\ w \notin C
          BY <3>1 DEF AtPlace
    <3>3. Cardinality(C') = Cardinality(C) + 1
          BY <1>n, <3>2, Counting
    <3>4. Len(buffer) <= Cardinality(C) /\ Len(buffer') = Len(buffer) + 1
          BY <1>t, <2>3, <3>1 DEF ReceiversWoken, BC!TypeOK
    <3> QED BY <1>n, <3>3, <3>4
  <2> QED BY <1>3, <2>1, <2>2, <2>3 DEF BC!Send
<1>4. ASSUME NEW r \in Receiver, BC!Recv(r) PROVE Goal
  <2>1. CASE buffer = <<>> /\ BC!Block(r)
        BY <1>n, <2>1 DEF BC!Block
  <2>2. CASE is_closed_ /\ UNCHANGED is_closed_
        BY <2>2
  <2>3. CASE /\ ~is_closed_ /\ buffer # <<>> /\ buffer' = Tail(buffer)
             /\ BC!LeaveAndNotify(r, "idle", Sender)
    <3>1. chanPc'[r] = "idle" /\ \A u \in Receiver \ {r} : chanPc'[u] = chanPc[u]
          BY <1>t, <1>c, <2>3, Notified
    <3>2. C' = C \ {r} /\ r \in C
          BY <1>4, <3>1 DEF BC!Recv, AtPlace
    <3>3. Cardinality(C') = Cardinality(C) - 1
          BY <1>n, <3>2, Counting
    <3>4. Len(buffer) <= Cardinality(C) /\ Len(buffer') = Len(buffer) - 1
          BY <1>t, <2>3, <3>1 DEF ReceiversWoken, BC!TypeOK
    <3> QED BY <1>n, <3>3, <3>4
  <2> QED BY <1>4, <2>1, <2>2, <2>3 DEF BC!Recv
<1>5. ASSUME BC!CloseSet PROVE Goal
      BY <1>5 DEF BC!CloseSet
<1>6. ASSUME BC!CloseNotifyRead PROVE Goal
      BY <1>6, <1>t DEF BC!CloseNotifyRead, BC!WakeAll, BC!TypeOK
<1>7. ASSUME BC!CloseNotifyWrite PROVE Goal
  <2>1. \A r \in Receiver : chanPc'[r] = chanPc[r]
        BY <1>7, <1>c DEF BC!CloseNotifyWrite, BC!WakeAll
  <2>2. C' = C
        BY <2>1 DEF AtPlace
  <2> QED BY <1>0, <1>7, <2>1, <2>2 DEF BC!CloseNotifyWrite, BC!WakeAll
<1>8. CASE UNCHANGED BC!vars
      BY <1>8, <1>t DEF BC!vars, ReceiversWoken, AtPlace
<1> QED BY <1>1, <1>2, <1>3, <1>4, <1>5, <1>6, <1>7, <1>8 DEF BC!Next, BC!Step, BC!CloseStep

\* Every step keeps the promise to the senders.
LEMMA StepSenders == ChanInv /\ [BC!Next]_BC!vars => SendersWoken'
<1> SUFFICES ASSUME ChanInv, [BC!Next]_BC!vars,
                    \E s \in Sender : chanPc'[s] = "asleep", ~is_closed_'
             PROVE  Capacity - Len(buffer') <= Cardinality(AtPlace(Sender, "call")')
    BY DEF SendersWoken
<1> DEFINE C == AtPlace(Sender, "call")
           Goal == Capacity - Len(buffer') <= Cardinality(C')
<1>t. BC!TypeOK /\ Handover /\ SendersWoken
      BY DEF ChanInv
<1>c. Sender \cap Receiver = {} /\ Capacity \in Nat
      BY ChanConstants
<1>n. /\ C \in SUBSET Sender /\ C' \in SUBSET Sender /\ Len(buffer) \in Nat
      /\ Cardinality(C) \in Nat /\ Cardinality(C') \in Nat
  <2>1. C \in SUBSET Sender /\ C' \in SUBSET Sender
        BY DEF AtPlace
  <2> QED BY <1>t, <2>1, Counting DEF BC!TypeOK
<1> USE DEF BC!Thread
\* A step that only leaves or adds senders that are about to look.
<1>0. ASSUME UNCHANGED buffer, ~is_closed_,
             \A s \in Sender : chanPc'[s] = "asleep" => chanPc[s] = "asleep",
             \/ C' = C
             \/ \E t \in Sender \ C : C' = C \cup {t}
      PROVE  Goal
  <2>1. Capacity - Len(buffer) <= Cardinality(C)
        BY <1>t, <1>0 DEF SendersWoken
  <2>2. Cardinality(C') = Cardinality(C) \/ Cardinality(C') = Cardinality(C) + 1
        BY <1>0, <1>n, Counting
  <2> QED BY <1>0, <1>c, <1>n, <2>1, <2>2
<1>1. ASSUME NEW t \in BC!Thread, BC!Call(t) \/ BC!SpuriousWakeup(t) PROVE Goal
  <2>1. CASE t \in Sender
    <3>1. C' = C \cup {t} /\ t \notin C
          BY <1>1, <1>t, <2>1 DEF BC!Call, BC!SpuriousWakeup, BC!TypeOK, AtPlace
    <3> QED BY <1>0, <1>1, <1>t, <2>1, <3>1 DEF BC!Call, BC!SpuriousWakeup, BC!TypeOK
  <2>2. CASE t \notin Sender
    <3>1. C' = C
          BY <1>1, <1>t, <2>2 DEF BC!Call, BC!SpuriousWakeup, BC!TypeOK, AtPlace
    <3> QED BY <1>0, <1>1, <1>t, <2>2, <3>1 DEF BC!Call, BC!SpuriousWakeup, BC!TypeOK
  <2> QED BY <2>1, <2>2
<1>2. ASSUME NEW t \in BC!Thread, BC!Sleep(t) PROVE Goal
  <2>1. CASE t \in Sender
        BY <1>2, <1>t, <1>c, <1>n, <2>1 DEF BC!Sleep, Handover
  <2>2. CASE t \notin Sender
    <3>1. C' = C
          BY <1>2, <1>t, <2>2 DEF BC!Sleep, BC!TypeOK, AtPlace
    <3> QED BY <1>0, <1>2, <1>t, <2>2, <3>1 DEF BC!Sleep, BC!TypeOK
  <2> QED BY <2>1, <2>2
<1>3. ASSUME NEW r \in Receiver, BC!Recv(r) PROVE Goal
  <2>1. CASE BC!Block(r)
    <3>1. C' = C
          BY <1>t, <1>c, <2>1 DEF BC!Block, BC!TypeOK, AtPlace
    <3> QED BY <1>0, <1>t, <1>c, <2>1, <3>1 DEF BC!Block, BC!TypeOK
  <2>2. CASE is_closed_ /\ UNCHANGED is_closed_
        BY <2>2
  <2>3. CASE /\ ~is_closed_ /\ buffer # <<>> /\ buffer' = Tail(buffer)
             /\ BC!LeaveAndNotify(r, "idle", Sender)
    <3>1. PICK w \in Sender : /\ chanPc[w] = "asleep" /\ chanPc'[w] = "call"
                              /\ \A u \in Sender \ {w} : chanPc'[u] = chanPc[u]
          BY <1>t, <1>c, <2>3, Notified
    <3>2. C' = C \cup {w} /\ w \notin C
          BY <3>1 DEF AtPlace
    <3>3. Cardinality(C') = Cardinality(C) + 1
          BY <1>n, <3>2, Counting
    <3>4. Capacity - Len(buffer) <= Cardinality(C) /\ Len(buffer') = Len(buffer) - 1
          BY <1>t, <2>3, <3>1 DEF SendersWoken, BC!TypeOK
    <3> QED BY <1>c, <1>n, <3>3, <3>4
  <2> QED BY <1>3, <2>1, <2>2, <2>3 DEF BC!Recv
<1>4. ASSUME NEW s \in Sender, BC!Send(s) PROVE Goal
  <2>1. CASE Len(buffer) >= Capacity /\ BC!Block(s)
        BY <1>c, <1>n, <2>1 DEF BC!Block
  <2>2. CASE is_closed_ /\ UNCHANGED is_closed_
        BY <2>2
  <2>3. CASE /\ ~is_closed_ /\ buffer' = Append(buffer, <<s, sent[s]>>)
             /\ BC!LeaveAndNotify(s, "idle", Receiver)
    <3>1. chanPc'[s] = "idle" /\ \A u \in Sender \ {s} : chanPc'[u] = chanPc[u]
          BY <1>t, <1>c, <2>3, Notified
    <3>2. C' = C \ {s} /\ s \in C
          BY <1>4, <3>1 DEF BC!Send, AtPlace
    <3>3. Cardinality(C') = Cardinality(C) - 1
          BY <1>n, <3>2, Counting
    <3>4. Capacity - Len(buffer) <= Cardinality(C) /\ Len(buffer') = Len(buffer) + 1
          BY <1>t, <2>3, <3>1 DEF SendersWoken, BC!TypeOK
    <3> QED BY <1>c, <1>n, <3>3, <3>4
  <2> QED BY <1>4, <2>1, <2>2, <2>3 DEF BC!Send
<1>5. ASSUME BC!CloseSet PROVE Goal
      BY <1>5 DEF BC!CloseSet
<1>6. ASSUME BC!CloseNotifyWrite PROVE Goal
      BY <1>6, <1>t DEF BC!CloseNotifyWrite, BC!WakeAll, BC!TypeOK
<1>7. ASSUME BC!CloseNotifyRead PROVE Goal
  <2>1. \A s \in Sender : chanPc'[s] = chanPc[s]
        BY <1>7, <1>c DEF BC!CloseNotifyRead, BC!WakeAll
  <2>2. C' = C
        BY <2>1 DEF AtPlace
  <2> QED BY <1>0, <1>7, <2>1, <2>2 DEF BC!CloseNotifyRead, BC!WakeAll
<1>8. CASE UNCHANGED BC!vars
      BY <1>8, <1>t DEF BC!vars, SendersWoken, AtPlace
<1> QED BY <1>1, <1>2, <1>3, <1>4, <1>5, <1>6, <1>7, <1>8 DEF BC!Next, BC!Step, BC!CloseStep

\* Appending to the second of two sequences, and moving its head to the first.
LEMMA Concatenations ==
  ASSUME NEW S, NEW p \in Seq(S), NEW q \in Seq(S)
  PROVE  /\ p \o q \in Seq(S) /\ Len(p \o q) \in Nat
         /\ \A e \in S : p \o Append(q, e) = Append(p \o q, e)
         /\ q # <<>> => Append(p, Head(q)) \o Tail(q) = p \o q
<1>1. p \o q \in Seq(S) /\ Len(p \o q) = Len(p) + Len(q) /\ Len(p) \in Nat /\ Len(q) \in Nat
      BY ConcatProperties
<1>2. ASSUME NEW e \in S PROVE p \o Append(q, e) = Append(p \o q, e)
      BY <1>1
<1>3. ASSUME q # <<>> PROVE Append(p, Head(q)) \o Tail(q) = p \o q
      BY <1>1, <1>3
<1>4. Len(p \o q) \in Nat
      BY <1>1
<1> QED BY <1>1, <1>2, <1>3, <1>4

\* Every step keeps the order of the values: Send appends the sender's next value to
\* those accepted, Recv and all the others leave them as they are.
LEMMA StepDelivery == ChanInv /\ [BC!Next]_BC!vars => BC!DeliversInOrder'
<1> SUFFICES ASSUME ChanInv, [BC!Next]_BC!vars PROVE BC!DeliversInOrder'
    OBVIOUS
<1>t. BC!TypeOK /\ BC!DeliversInOrder
      BY DEF ChanInv
<1> DEFINE A == BC!Accepted
<1>a. /\ A \in Seq(Sender \X Nat) /\ Len(A) \in Nat
      /\ \A i \in 1..Len(A) : A[i] \in Sender \X Nat /\ A[i][1] \in Sender /\ A[i][2] \in Nat
  <2>1. A \in Seq(Sender \X Nat) /\ Len(A) \in Nat
        BY <1>t, Concatenations DEF BC!TypeOK, BC!Accepted
  <2> QED BY <2>1, ElementOfSeq
<1>0. ASSUME A' = A, UNCHANGED sent PROVE BC!DeliversInOrder'
      BY <1>0, <1>t DEF BC!DeliversInOrder
<1>1. ASSUME NEW s \in Sender, buffer' = Append(buffer, <<s, sent[s]>>),
             sent' = [sent EXCEPT ![s] = @ + 1], UNCHANGED received
      PROVE  BC!DeliversInOrder'
  <2> DEFINE e == <<s, sent[s]>>
  <2>1. e \in Sender \X Nat /\ e[1] = s /\ e[2] = sent[s] /\ sent[s] \in Nat
        BY <1>t DEF BC!TypeOK
  <2>2. A' = Append(A, e)
        BY <1>1, <1>t, <2>1, Concatenations DEF BC!TypeOK, BC!Accepted
  <2>3. /\ Len(A') = Len(A) + 1 /\ A'[Len(A) + 1] = e
        /\ \A i \in 1..Len(A) : A'[i] = A[i]
        BY <1>a, <2>1, <2>2
  <2>4. /\ sent'[s] = sent[s] + 1
        /\ \A u \in Sender : u # s => sent'[u] = sent[u]
        /\ \A u \in Sender : sent[u] \in Nat /\ sent'[u] \in Nat /\ sent[u] <= sent'[u]
        BY <1>1, <1>t DEF BC!TypeOK
  <2> HIDE DEF A, e
  <2>5. ASSUME NEW u \in Sender, NEW n \in 0..(sent'[u] - 1)
        PROVE  \E i \in 1..Len(A') : A'[i] = <<u, n>>
    <3>1. CASE n \in 0..(sent[u] - 1)
      <4>1. PICK i \in 1..Len(A) : A[i] = <<u, n>>
            BY <1>t, <3>1 DEF BC!DeliversInOrder, A
      <4> QED BY <1>a, <2>3, <4>1
    <3>2. CASE n \notin 0..(sent[u] - 1)
      <4>1. u = s /\ n = sent[s]
            BY <2>1, <2>4, <2>5, <3>2
      <4> QED BY <1>a, <2>3, <4>1 DEF e
    <3> QED BY <3>1, <3>2
  <2>6. ASSUME NEW i \in 1..Len(A'), NEW j \in 1..Len(A'), i < j, A'[i][1] = A'[j][1]
        PROVE  A'[i][2] < A'[j][2]
    <3>1. i \in 1..Len(A) /\ A'[i] = A[i]
          BY <1>a, <2>3, <2>6
    <3>2. CASE j \in 1..Len(A)
          BY <1>t, <2>3, <2>6, <3>1, <3>2 DEF BC!DeliversInOrder, A
    <3>3. CASE j \notin 1..Len(A)
      <4>1. A'[j] = e
            BY <1>a, <2>3, <3>3
      <4>2. A[i][1] = s
            BY <2>1, <2>6, <3>1, <4>1
      <4>3. A[i][2] < sent[s]
            BY <1>t, <3>1, <4>2 DEF BC!DeliversInOrder, A
      <4> QED BY <2>1, <3>1, <4>1, <4>3
    <3> QED BY <3>2, <3>3
  <2>7. ASSUME NEW i \in 1..Len(A') PROVE A'[i][2] < sent'[A'[i][1]]
    <3>1. CASE i \in 1..Len(A)
      <4>1. A[i][2] < sent[A[i][1]] /\ A[i][1] \in Sender /\ A[i][2] \in Nat
            BY <1>a, <1>t, <3>1 DEF BC!DeliversInOrder, A
      <4> QED BY <2>3, <2>4, <3>1, <4>1
    <3>2. CASE i \notin 1..Len(A)
      <4>1. A'[i] = e
            BY <1>a, <2>3, <3>2
      <4> QED BY <2>1, <2>4, <4>1
    <3> QED BY <3>1, <3>2
  <2> QED BY <2>5, <2>6, <2>7 DEF BC!DeliversInOrder, A
<1>2. ASSUME NEW s \in Sender, BC!Send(s) PROVE BC!DeliversInOrder'
      BY <1>0, <1>1, <1>2 DEF BC!Send, BC!Block, BC!Accepted
<1>3. ASSUME NEW r \in Receiver, BC!Recv(r) PROVE BC!DeliversInOrder'
  <2>1. CASE UNCHANGED <<buffer, received, sent>>
        BY <1>0, <2>1 DEF BC!Accepted
  <2>2. CASE /\ buffer # <<>> /\ received' = Append(received, Head(buffer))
             /\ buffer' = Tail(buffer) /\ UNCHANGED sent
        BY <1>0, <1>t, <2>2, Concatenations DEF BC!TypeOK, BC!Accepted
  <2> QED BY <1>3, <2>1, <2>2 DEF BC!Recv, BC!Block
<1>4. CASE UNCHANGED <<buffer, received, sent>>
      BY <1>0, <1>4 DEF BC!Accepted
<1> QED BY <1>2, <1>3, <1>4
        DEF BC!Next, BC!Step, BC!CloseStep, BC!Call, BC!SpuriousWakeup, BC!Sleep,
            BC!CloseSet, BC!CloseNotifyRead, BC!CloseNotifyWrite, BC!WakeAll, BC!vars

\* Every step keeps a closed channel, once a Recv has reported its end, empty.
LEMMA StepDrained == ChanInv /\ [BC!Next]_BC!vars => BC!ClosedMeansDrained'
<1> SUFFICES ASSUME ChanInv, [BC!Next]_BC!vars PROVE BC!ClosedMeansDrained'
    OBVIOUS
<1>t. BC!TypeOK /\ BC!ClosedMeansDrained
      BY DEF ChanInv
<1>c. Sender \cap Receiver = {}
      BY ChanConstants
<1> USE DEF BC!Thread
<1>0. ASSUME UNCHANGED buffer, is_closed_ => is_closed_',
             \A r \in Receiver : chanPc'[r] = "failed" => chanPc[r] = "failed"
      PROVE  BC!ClosedMeansDrained'
      BY <1>0, <1>t DEF BC!ClosedMeansDrained
<1>1. ASSUME NEW t \in BC!Thread, BC!Call(t) \/ BC!SpuriousWakeup(t) \/ BC!Sleep(t)
      PROVE  BC!ClosedMeansDrained'
      BY <1>0, <1>1, <1>t DEF BC!Call, BC!SpuriousWakeup, BC!Sleep, BC!TypeOK
<1>2. ASSUME NEW s \in Sender, BC!Send(s) PROVE BC!ClosedMeansDrained'
  <2>1. CASE UNCHANGED <<buffer, is_closed_>> /\ \E l \in {"tosleep", "failed"} : chanPc' = [chanPc EXCEPT ![s] = l]
        BY <1>0, <1>c, <1>t, <2>1 DEF BC!TypeOK
  <2>2. CASE ~is_closed_ /\ BC!LeaveAndNotify(s, "idle", Receiver)
    <3>1. \A r \in Receiver : chanPc[r] # "failed"
          BY <1>t, <2>2 DEF BC!ClosedMeansDrained
    <3>2. \A r \in Receiver : chanPc'[r] # "failed"
          BY <1>c, <1>t, <2>2, <3>1, Notified
    <3> QED BY <3>2 DEF BC!ClosedMeansDrained
  <2> QED BY <1>2, <2>1, <2>2 DEF BC!Send, BC!Block
<1>3. ASSUME NEW r \in Receiver, BC!Recv(r) PROVE BC!ClosedMeansDrained'
  <2>1. CASE BC!Block(r)
        BY <1>0, <1>t, <2>1 DEF BC!Block, BC!TypeOK
  <2>2. CASE buffer = <<>> /\ is_closed_ /\ UNCHANGED <<buffer, is_closed_>>
        BY <2>2 DEF BC!ClosedMeansDrained
  <2>3. CASE buffer # <<>> /\ BC!LeaveAndNotify(r, "idle", Sender)
    <3>1. \A u \in Receiver : chanPc[u] # "failed"
          BY <1>t, <2>3 DEF BC!ClosedMeansDrained
    <3>2. \A u \in Receiver : chanPc'[u] # "failed"
          BY <1>c, <1>t, <2>3, <3>1, Notified
    <3> QED BY <3>2 DEF BC!ClosedMeansDrained
  <2> QED BY <1>3, <2>1, <2>2, <2>3 DEF BC!Recv
<1>4. ASSUME BC!CloseSet PROVE BC!ClosedMeansDrained'
      BY <1>0, <1>4 DEF BC!CloseSet
<1>5. ASSUME BC!CloseStep PROVE BC!ClosedMeansDrained'
      BY <1>0, <1>5 DEF BC!CloseStep, BC!CloseNotifyRead, BC!CloseNotifyWrite, BC!WakeAll
<1>6. CASE UNCHANGED BC!vars
      BY <1>0, <1>6 DEF BC!vars
<1> QED BY <1>1, <1>2, <1>3, <1>4, <1>5, <1>6 DEF BC!Next, BC!Step

\* The invariant of the buffered channel holds in all its behaviours.
LEMMA ChanInvariance == BC!Spec => []ChanInv
<1>1. BC!Init => ChanInv
  <2> SUFFICES ASSUME BC!Init PROVE ChanInv
      OBVIOUS
  <2>1. buffer \in Seq(Sender \X Nat) /\ received \in Seq(Sender \X Nat)
        BY DEF BC!Init
  <2>2. BC!TypeOK /\ \A t \in BC!Thread : chanPc[t] = "idle"
        BY <2>1 DEF BC!Init, BC!TypeOK, BC!Thread
  <2>3. Handover /\ ReceiversWoken /\ SendersWoken /\ BC!ClosedMeansDrained
        BY <2>2 DEF Handover, ReceiversWoken, SendersWoken, BC!ClosedMeansDrained, BC!Thread
  <2>4. Len(BC!Accepted) = 0
        BY DEF BC!Init, BC!Accepted
  <2>5. BC!DeliversInOrder
        BY <2>4 DEF BC!Init, BC!DeliversInOrder
  <2> QED BY <2>2, <2>3, <2>5 DEF ChanInv
<1>2. ChanInv /\ [BC!Next]_BC!vars => ChanInv'
      BY StepHandover, StepReceivers, StepSenders, StepDelivery, StepDrained DEF ChanInv
<1> QED BY <1>1, <1>2, PTL DEF BC!Spec

-----------------------------------------------------------------------------
\* The timer queue.  The element whose time is the timeout of p's Pop was not due at
\* the call; it still is in the queue, or another consumer has taken it since.
Awaits(p) ==
    /\ since[p] < deadline[p]
    /\ \/ \E e \in timers : e[1] = deadline[p]
       \/ \E s \in popped : s.by # p /\ s.time >= since[p] /\ s.at = deadline[p]

\* A Pop that waits has a timeout of the whole Patience, or such an element.
WaitsForSomething ==
    /\ \A p \in Popper : since[p] <= now
    /\ \A p \in Popper : popPc[p] \in {"asleep", "woken"} =>
          deadline[p] >= since[p] + Patience \/ Awaits(p)

\* The invariant of the timer queue.
TimerInv == TQ!TypeOK /\ WaitsForSomething /\ TQ!OnTimeOrOutOfPatience

\* What is assumed of the timer queue's constants.
LEMMA TimerConstants == Times \subseteq Nat /\ Patience \in Nat /\ MaxTime \in Nat
  BY InstanceConstants DEF TQ!TimerQueueConstants

\* begin() of a map that is not empty is an element with the least time.
LEMMA FrontIsLeast ==
  ASSUME TQ!TypeOK, timers # {}
  PROVE  /\ TQ!Front \in timers /\ TQ!Front \in Times \X Item
         /\ TQ!Front[1] \in Times /\ TQ!Front[1] \in Nat /\ TQ!Front[2] \in Item
         /\ \A e \in timers : TQ!Front[1] <= e[1]
<1> DEFINE T == {e[1] : e \in timers}
<1>1. \A e \in timers : e \in Times \X Item /\ e[1] \in Times /\ e[1] \in Nat /\ e[2] \in Item
      BY TimerConstants DEF TQ!TypeOK
<1>2. T \in SUBSET Nat /\ T # {}
      BY <1>1
<1>3. PICK n \in T : \A m \in T : n <= m
      BY <1>2, LeastNat
<1>4. \E e \in timers : \A f \in timers : e[1] <= f[1]
      BY <1>3
<1>5. TQ!Front \in timers /\ \A e \in timers : TQ!Front[1] <= e[1]
      BY <1>4 DEF TQ!Front
<1> QED BY <1>1, <1>5

\* TQ!TakenMeanwhile as a relation of the set of records.
Taken(S, p, from, to) == \E s \in S : s.by # p /\ s.time >= from /\ from < s.at /\ s.at <= to

\* The two halves of the property, over the records S, the time t and the calls c.
Excused(S, r) == r.time >= r.at \/ r.time >= r.since + Patience \/ Taken(S, r.by, r.since, r.time)
CrashExcused(S, p, c, t) == t >= c + Patience \/ Taken(S, p, c, t)

\* The property in these words.
LEMMA OnTimeParts ==
  TQ!OnTimeOrOutOfPatience
    <=> /\ \A r \in popped : Excused(popped, r)
        /\ \A p \in Popper : popPc[p] = "crashed" => CrashExcused(popped, p, since[p], now)
  BY DEF TQ!OnTimeOrOutOfPatience, TQ!TakenMeanwhile, Excused, CrashExcused, Taken

\* And of the next state.
LEMMA PrimedParts ==
  TQ!OnTimeOrOutOfPatience'
    <=> /\ \A r \in popped' : Excused(popped', r)
        /\ \A p \in Popper : popPc'[p] = "crashed" => CrashExcused(popped', p, since'[p], now')
  BY DEF TQ!OnTimeOrOutOfPatience, TQ!TakenMeanwhile, Excused, CrashExcused, Taken

\* What excuses a call stays when time passes and more is taken.
LEMMA ExcusesStay ==
  ASSUME TQ!TypeOK, NEW S, popped \subseteq S
  PROVE  /\ \A r \in popped : Excused(popped, r) => Excused(S, r)
         /\ \A p \in Popper, c \in Nat, t \in Nat :
               now <= t /\ CrashExcused(popped, p, c, now) => CrashExcused(S, p, c, t)
<1>1. ASSUME NEW p, NEW c, NEW t, Taken(popped, p, c, t) PROVE Taken(S, p, c, t)
      BY <1>1 DEF Taken
<1>2. ASSUME NEW p \in Popper, NEW c \in Nat, NEW t \in Nat, now <= t, Taken(popped, p, c, now)
      PROVE  Taken(S, p, c, t)
  <2>1. PICK s \in popped : s.by # p /\ s.time >= c /\ c < s.at /\ s.at <= now
        BY <1>2 DEF Taken
  <2>2. s.at \in Nat /\ now \in Nat
        BY <2>1, TimerConstants DEF TQ!TypeOK
  <2>3. s \in S /\ s.at <= t
        BY <1>2, <2>1, <2>2
  <2> QED BY <2>1, <2>3 DEF Taken
<1>3. now \in Nat /\ Patience \in Nat
      BY TimerConstants DEF TQ!TypeOK
<1> QED BY <1>1, <1>2, <1>3 DEF Excused, CrashExcused

\* What Pop does when its wait is over.
LEMMA StepTakeFront ==
  ASSUME TimerInv,
         NEW p \in Popper, NEW called \in Nat, TQ!TakeFront(p, called),
         UNCHANGED <<now, deadline, added>>,
         since' = [since EXCEPT ![p] = called], called <= now,
         \/ TQ!Ready
         \/ /\ now >= deadline[p] /\ called = since[p]
            /\ deadline[p] >= called + Patience \/ Awaits(p)
  PROVE  TimerInv'
<1>t. TQ!TypeOK /\ TQ!OnTimeOrOutOfPatience /\ WaitsForSomething
      BY DEF TimerInv
<1>n. now \in Nat /\ deadline[p] \in Nat /\ Patience \in Nat /\ since \in [Popper -> Nat]
      BY <1>t, TimerConstants DEF TQ!TypeOK
<1>s. since' \in [Popper -> Nat] /\ since'[p] = called /\ \A q \in Popper : since'[q] <= now
      BY <1>t, <1>n DEF WaitsForSomething
<1>a. ASSUME ~TQ!Ready
      PROVE  CrashExcused(popped, p, called, now)
  <2>1. CASE deadline[p] >= called + Patience
        BY <1>a, <1>n, <2>1 DEF CrashExcused
  <2>2. CASE Awaits(p)
    <3>1. \A e \in timers : e[1] # deadline[p]
      <4> SUFFICES ASSUME NEW e \in timers, e[1] = deadline[p] PROVE FALSE
          OBVIOUS
      <4>1. timers # {} /\ TQ!Front[1] <= e[1] /\ TQ!Front[1] \in Nat
            BY <1>t, FrontIsLeast
      <4> QED BY <1>a, <1>n, <4>1 DEF TQ!Ready
    <3>2. PICK s \in popped : s.by # p /\ s.time >= since[p] /\ s.at = deadline[p]
          BY <2>2, <3>1 DEF Awaits
    <3> QED BY <1>a, <2>2, <3>2 DEF Awaits, Taken, CrashExcused
  <2> QED BY <1>a, <2>1, <2>2
<1>1. CASE timers = {}
  <2>1. popPc' = [popPc EXCEPT ![p] = "crashed"] /\ UNCHANGED <<timers, popped>>
        BY <1>1 DEF TQ!TakeFront
  <2>2. CrashExcused(popped, p, called, now)
        BY <1>a, <1>1 DEF TQ!Ready
  <2>3. TQ!TypeOK'
        BY <1>t, <1>s, <2>1 DEF TQ!TypeOK
  <2>4. WaitsForSomething'
        BY <1>t, <1>s, <2>1 DEF TQ!TypeOK, WaitsForSomething, Awaits
  <2>5. TQ!OnTimeOrOutOfPatience'
    <3>1. \A q \in Popper : q # p => popPc'[q] = popPc[q] /\ since'[q] = since[q]
          BY <1>t, <1>n, <2>1 DEF TQ!TypeOK
    <3>2. \A q \in Popper : popPc'[q] = "crashed" => CrashExcused(popped', q, since'[q], now')
          BY <1>t, <1>s, <2>1, <2>2, <3>1, OnTimeParts
    <3> QED BY <1>t, <2>1, <3>2, OnTimeParts, PrimedParts
  <2> QED BY <2>3, <2>4, <2>5 DEF TimerInv
<1>2. CASE timers # {}
  <2> DEFINE r == [by |-> p, at |-> TQ!Front[1], item |-> TQ!Front[2], time |-> now, since |-> called]
  <2>1. /\ timers' = timers \ {TQ!Front} /\ popped' = popped \cup {r}
        /\ popPc' = [popPc EXCEPT ![p] = "idle"]
        BY <1>2 DEF TQ!TakeFront
  <2>f. TQ!Front[1] \in Nat /\ TQ!Front[1] \in Times /\ TQ!Front[2] \in Item
        BY <1>2, <1>t, FrontIsLeast
  <2>2. now >= TQ!Front[1] \/ CrashExcused(popped, p, called, now)
        BY <1>a, <1>n, <2>f DEF TQ!Ready
  <2>3. TQ!TypeOK'
    <3>1. r \in [by : Popper, at : Times, item : Item, time : Nat, since : Nat]
          BY <1>n, <2>f
    <3> QED BY <1>t, <1>s, <2>1, <3>1 DEF TQ!TypeOK
  <2>4. WaitsForSomething'
    <3>1. ASSUME NEW q \in Popper, popPc'[q] \in {"asleep", "woken"}
          PROVE  deadline'[q] >= since'[q] + Patience \/ Awaits(q)'
      <4>1. q # p /\ popPc[q] \in {"asleep", "woken"} /\ since'[q] = since[q] /\ deadline'[q] = deadline[q]
            BY <1>t, <1>n, <2>1, <3>1 DEF TQ!TypeOK
      <4>2. CASE deadline[q] >= since[q] + Patience
            BY <4>1, <4>2
      <4>3. CASE Awaits(q)
        <5>1. CASE \E e \in timers : e[1] = deadline[q] /\ e # TQ!Front
              BY <2>1, <4>1, <4>3, <5>1 DEF Awaits
        <5>2. CASE TQ!Front[1] = deadline[q]
          <6>1. r \in popped' /\ r.by = p /\ r.time = now /\ r.at = deadline[q]
                BY <2>1, <5>2
          <6>2. since[q] <= now
                BY <1>t DEF WaitsForSomething
          <6>3. r.time >= since'[q]
                BY <1>n, <4>1, <6>1, <6>2
          <6> QED BY <4>1, <4>3, <6>1, <6>3 DEF Awaits
        <5>3. CASE \E s \in popped : s.by # q /\ s.time >= since[q] /\ s.at = deadline[q]
          <6>1. PICK s \in popped : s.by # q /\ s.time >= since[q] /\ s.at = deadline[q]
                BY <5>3
          <6>2. s \in popped'
                BY <2>1
          <6> QED BY <4>1, <4>3, <6>1, <6>2 DEF Awaits
        <5> QED BY <4>3, <5>1, <5>2, <5>3 DEF Awaits
      <4> QED BY <1>t, <4>1, <4>2, <4>3 DEF WaitsForSomething
    <3> QED BY <1>s, <3>1 DEF WaitsForSomething
  <2>5. TQ!OnTimeOrOutOfPatience'
    <3>1. popped \subseteq popped' /\ now' = now /\ now <= now' /\ now' \in Nat
          BY <1>n, <2>1
    <3>2. CrashExcused(popped, p, called, now) => CrashExcused(popped', p, called, now)
          BY <1>t, <1>n, <3>1, ExcusesStay
    <3>3. Excused(popped', r)
          BY <2>2, <3>2 DEF Excused, CrashExcused
    <3> HIDE DEF r
    <3>4. \A q \in Popper : popPc'[q] = "crashed" => popPc[q] = "crashed" /\ since'[q] = since[q]
          BY <1>t, <1>n, <2>1 DEF TQ!TypeOK
    <3>5. \A x \in popped' : Excused(popped', x)
          BY <1>t, <2>1, <3>1, <3>3, ExcusesStay, OnTimeParts
    <3>6. \A q \in Popper : popPc'[q] = "crashed" => CrashExcused(popped', q, since'[q], now')
          BY <1>t, <1>n, <3>1, <3>4, ExcusesStay, OnTimeParts
    <3> QED BY <3>5, <3>6, PrimedParts
  <2> QED BY <2>3, <2>4, <2>5 DEF TimerInv
<1> QED BY <1>1, <1>2

\* Every step keeps the invariant of the timer queue.
LEMMA TimerStep == TimerInv /\ [TQ!Next]_TQ!vars => TimerInv'
<1> SUFFICES ASSUME TimerInv, [TQ!Next]_TQ!vars PROVE TimerInv'
    OBVIOUS
<1>t. TQ!TypeOK /\ WaitsForSomething /\ TQ!OnTimeOrOutOfPatience
      BY DEF TimerInv
<1>c. Times \subseteq Nat /\ Patience \in Nat /\ now \in Nat
      BY <1>t, TimerConstants DEF TQ!TypeOK
<1>1. ASSUME NEW at \in Times, NEW i \in Item, TQ!Add(at, i) PROVE TimerInv'
  <2>1. timers \subseteq timers' /\ timers' \subseteq Times \X Item /\ added' \subseteq Times \X Item
        BY <1>1, <1>t DEF TQ!Add, TQ!TypeOK
  <2>2. /\ popPc' \in [Popper -> {"idle", "asleep", "woken", "crashed"}]
        /\ \A p \in Popper : /\ popPc'[p] \in {"asleep", "woken"} => popPc[p] \in {"asleep", "woken"}
                             /\ popPc'[p] = "crashed" => popPc[p] = "crashed"
        BY <1>1, <1>t DEF TQ!Add, TQ!Notify, TQ!TypeOK
  <2>3. UNCHANGED <<now, deadline, since, popped>>
        BY <1>1 DEF TQ!Add
  <2>4. TQ!TypeOK'
        BY <1>t, <2>1, <2>2, <2>3 DEF TQ!TypeOK
  <2>5. WaitsForSomething'
        BY <1>t, <2>1, <2>2, <2>3 DEF WaitsForSomething, Awaits
  <2>6. TQ!OnTimeOrOutOfPatience'
        BY <1>t, <2>2, <2>3, OnTimeParts, PrimedParts
  <2> QED BY <2>4, <2>5, <2>6 DEF TimerInv
<1>2. ASSUME NEW p \in Popper, TQ!Pop(p) PROVE TimerInv'
  <2>0. since' = [since EXCEPT ![p] = now] /\ since' \in [Popper -> Nat] /\ since'[p] = now
        BY <1>2, <1>c, <1>t DEF TQ!Pop, TQ!TypeOK
  <2>1. CASE TQ!Ready
    <3>1. TQ!TakeFront(p, now) /\ UNCHANGED <<now, deadline, added>>
          BY <1>2, <2>1 DEF TQ!Pop
    <3>2. now \in Nat /\ now <= now
          BY <1>c
    <3> HIDE DEF TimerInv
    <3> QED BY <2>0, <2>1, <3>1, <3>2, StepTakeFront
  <2>2. CASE ~TQ!Ready
    <3> DEFINE d == IF timers = {} THEN now + Patience ELSE TQ!Front[1]
    <3>1. /\ popPc' = [popPc EXCEPT ![p] = "asleep"]
          /\ deadline' = [deadline EXCEPT ![p] = d]
          /\ UNCHANGED <<timers, popped, now, added>>
          BY <1>2, <2>2 DEF TQ!Pop
    <3>2. d \in Nat
          BY <1>c, <1>t, FrontIsLeast
    <3>3. TQ!TypeOK'
          BY <1>t, <2>0, <3>1, <3>2 DEF TQ!TypeOK
    <3>4. d >= now + Patience \/ (now < d /\ \E e \in timers : e[1] = d)
      <4>1. CASE timers = {}
            BY <1>c, <4>1
      <4>2. CASE timers # {}
            BY <1>c, <1>t, <2>2, <4>2, FrontIsLeast DEF TQ!Ready
      <4> QED BY <4>1, <4>2
    <3>5. deadline'[p] = d
          BY <1>t, <3>1 DEF TQ!TypeOK
    <3> HIDE DEF d
    <3>6. WaitsForSomething'
      <4>1. ASSUME NEW q \in Popper, q # p
            PROVE  popPc'[q] = popPc[q] /\ deadline'[q] = deadline[q] /\ since'[q] = since[q]
            BY <1>t, <2>0, <3>1, <4>1 DEF TQ!TypeOK
      <4>2. deadline'[p] >= since'[p] + Patience \/ Awaits(p)'
            BY <2>0, <3>1, <3>4, <3>5 DEF Awaits
      <4>3. ASSUME NEW q \in Popper, q # p, popPc'[q] \in {"asleep", "woken"}
            PROVE  deadline'[q] >= since'[q] + Patience \/ Awaits(q)'
            BY <1>t, <3>1, <4>1, <4>3 DEF WaitsForSomething, Awaits
      <4>4. \A q \in Popper : since'[q] <= now'
            BY <1>c, <1>t, <2>0, <3>1, <4>1 DEF WaitsForSomething
      <4> QED BY <4>2, <4>3, <4>4 DEF WaitsForSomething
    <3>7. TQ!OnTimeOrOutOfPatience'
      <4>1. \A q \in Popper : popPc'[q] = "crashed" => popPc[q] = "crashed" /\ since'[q] = since[q]
            BY <1>t, <2>0, <3>1 DEF TQ!TypeOK
      <4> QED BY <1>t, <3>1, <4>1, OnTimeParts, PrimedParts
    <3> QED BY <3>3, <3>6, <3>7 DEF TimerInv
  <2> QED BY <2>1, <2>2
<1>3. ASSUME NEW p \in Popper, TQ!Wake(p) PROVE TimerInv'
  <2>0. since[p] \in Nat /\ UNCHANGED <<now, deadline, since, added>>
        BY <1>3, <1>t DEF TQ!Wake, TQ!TypeOK
  <2>1. CASE TQ!Ready \/ now >= deadline[p]
    <3>1. TQ!TakeFront(p, since[p])
          BY <1>3, <2>1 DEF TQ!Wake
    <3>2. deadline[p] >= since[p] + Patience \/ Awaits(p)
          BY <1>3, <1>t DEF TQ!Wake, WaitsForSomething
    <3>3. since' = [since EXCEPT ![p] = since[p]] /\ since[p] <= now
          BY <1>t, <2>0 DEF TQ!TypeOK, WaitsForSomething
    <3> QED BY <2>0, <2>1, <3>1, <3>2, <3>3, StepTakeFront
  <2>2. CASE ~(TQ!Ready \/ now >= deadline[p])
        BY <1>3, <1>t, <2>0, <2>2
        DEF TQ!Wake, TQ!TypeOK, WaitsForSomething, Awaits, TQ!OnTimeOrOutOfPatience,
            TQ!TakenMeanwhile, TimerInv
  <2> QED BY <2>1, <2>2
<1>4. ASSUME NEW p \in Popper, TQ!SpuriousWakeup(p) PROVE TimerInv'
      BY <1>4, <1>t
      DEF TQ!SpuriousWakeup, TQ!TypeOK, WaitsForSomething, Awaits, TQ!OnTimeOrOutOfPatience,
          TQ!TakenMeanwhile, TimerInv
<1>5. ASSUME NEW p \in Popper, TQ!Timeout(p) PROVE TimerInv'
  <2>0. /\ since[p] \in Nat /\ UNCHANGED <<now, deadline, since, added>>
        /\ TQ!TakeFront(p, since[p]) /\ now >= deadline[p]
        BY <1>5, <1>t DEF TQ!Timeout, TQ!TypeOK
  <2>1. deadline[p] >= since[p] + Patience \/ Awaits(p)
        BY <1>5, <1>t DEF TQ!Timeout, WaitsForSomething
  <2>2. since' = [since EXCEPT ![p] = since[p]] /\ since[p] <= now
        BY <1>t, <2>0 DEF TQ!TypeOK, WaitsForSomething
  <2> QED BY <2>0, <2>1, <2>2, StepTakeFront
<1>6. ASSUME TQ!Tick PROVE TimerInv'
  <2>1. now' = now + 1 /\ UNCHANGED <<timers, popPc, deadline, since, added, popped>>
        BY <1>6 DEF TQ!Tick
  <2>2. \A p \in Popper : since[p] \in Nat
        BY <1>t DEF TQ!TypeOK
  <2>3. TQ!TypeOK'
        BY <1>c, <1>t, <2>1 DEF TQ!TypeOK
  <2>4. WaitsForSomething'
        BY <1>c, <1>t, <2>1, <2>2 DEF WaitsForSomething, Awaits
  <2>5. TQ!OnTimeOrOutOfPatience'
    <3>1. now' \in Nat /\ now <= now' /\ popped \subseteq popped'
          BY <1>c, <2>1
    <3> QED BY <1>t, <2>1, <2>2, <3>1, ExcusesStay, OnTimeParts, PrimedParts
  <2> QED BY <2>3, <2>4, <2>5 DEF TimerInv
<1>7. CASE UNCHANGED TQ!vars
      BY <1>7, <1>t DEF TQ!vars, TQ!TypeOK, WaitsForSomething, Awaits, TQ!OnTimeOrOutOfPatience,
                        TQ!TakenMeanwhile, TimerInv
<1> QED BY <1>1, <1>2, <1>3, <1>4, <1>5, <1>6, <1>7 DEF TQ!Next

-----------------------------------------------------------------------------
\* A behaviour of the suite is, seen through the variables of one queue, a behaviour
\* of that queue.
LEMMA SuiteIsEach == SuiteSpec => BC!Spec /\ TQ!Spec
<1> USE DEF bc, tq, all, RingNext, ChanNext, TimerNext, SuiteNext
<1>1. SuiteInit => BC!Init /\ TQ!Init
      BY DEF SuiteInit
<1>2. [SuiteNext]_all => [BC!Next]_BC!vars
      BY DEF BC!vars
<1>3. [SuiteNext]_all => [TQ!Next]_TQ!vars
      BY DEF TQ!vars
<1> QED BY <1>1, <1>2, <1>3, PTL DEF SuiteSpec, BC!Spec, TQ!Spec

\* buffered_channel.h: no receiver sleeps on values and no sender on room unless a woken
\* thread is on its way for each, although notify_one wakes any, newcomers overtake the
\* woken and Close works without the mutex.
THEOREM ChannelWakes == SuiteSpec => []NoIdleSleeper
<1>1. ChanInv => BC!NoLostWakeup
  <2> SUFFICES ASSUME ChanInv PROVE BC!NoLostWakeup
      OBVIOUS
  <2>1. \A S \in {Sender, Receiver} : \A l \in {"asleep", "call"} :
           /\ BC!In(S, l) = Cardinality(AtPlace(S, l))
           /\ Cardinality(AtPlace(S, l)) > 0 <=> \E t \in S : chanPc[t] = l
    <3> SUFFICES ASSUME NEW S \in {Sender, Receiver}, NEW l \in {"asleep", "call"}
                 PROVE  /\ BC!In(S, l) = Cardinality(AtPlace(S, l))
                        /\ Cardinality(AtPlace(S, l)) > 0 <=> \E t \in S : chanPc[t] = l
        OBVIOUS
    <3>1. BC!In(S, l) = Cardinality(AtPlace(S, l))
          BY SameCardinality DEF BC!In, AtPlace
    <3>2. AtPlace(S, l) \in SUBSET S /\ (AtPlace(S, l) # {} <=> \E t \in S : chanPc[t] = l)
          BY DEF AtPlace
    <3>3. Cardinality(AtPlace(S, l)) \in Nat /\ (Cardinality(AtPlace(S, l)) = 0 <=> AtPlace(S, l) = {})
          BY <3>2, Counting
    <3> QED BY <3>1, <3>2, <3>3
  <2> QED BY <2>1 DEF ChanInv, ReceiversWoken, SendersWoken, BC!NoLostWakeup
<1> QED BY <1>1, SuiteIsEach, ChanInvariance, PTL DEF NoIdleSleeper

\* buffered_channel.h: for any number of senders and receivers and any capacity, no
\* value is lost, repeated or made up, and each sender's values keep their order.
THEOREM ChannelDelivers == SuiteSpec => []DeliversInOrder
<1>1. ChanInv => BC!DeliversInOrder
      BY DEF ChanInv
<1> QED BY <1>1, SuiteIsEach, ChanInvariance, PTL DEF DeliversInOrder

\* buffered_channel.h: a Recv that reports the end has seen the last value.
THEOREM ChannelDrains == SuiteSpec => []ClosedMeansDrained
<1>1. ChanInv => BC!ClosedMeansDrained
      BY DEF ChanInv
<1> QED BY <1>1, SuiteIsEach, ChanInvariance, PTL DEF ClosedMeansDrained

\* timerqueue.h: for any number of consumers, an element is returned too early, or the
\* front of an empty map taken, only by a Pop that has waited the whole Patience or whose
\* awaited element another consumer took while it slept, whatever is added meanwhile.
THEOREM TimerOnTime == SuiteSpec => []OnTimeOrOutOfPatience
<1>1. TQ!Init => TimerInv
  <2> SUFFICES ASSUME TQ!Init PROVE TimerInv
      OBVIOUS
  <2> QED BY DEF TQ!Init, TimerInv, TQ!TypeOK, WaitsForSomething, TQ!OnTimeOrOutOfPatience
<1>2. TimerInv /\ [TQ!Next]_TQ!vars => TimerInv'
      BY TimerStep
<1>3. TimerInv => TQ!OnTimeOrOutOfPatience
      BY DEF TimerInv
<1> QED BY <1>1, <1>2, <1>3, SuiteIsEach, PTL DEF TQ!Spec, OnTimeOrOutOfPatience
=============================================================================
