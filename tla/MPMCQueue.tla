----------------------------- MODULE MPMCQueue ------------------------------
(***************************************************************************)
(* fast-queue/mpmc.h: a bounded multi-producer multi-consumer ring.  Slot  *)
(* index i carries a generation: p while it is free for the enqueue at     *)
(* position p, p + 1 while it holds that value, p + Size once the value    *)
(* has been taken.  A thread claims a position by compare-and-swap on      *)
(* tail_ or head_, then touches the slot without further synchronisation,  *)
(* then publishes by advancing the generation.  Every atomic access is a   *)
(* step, and so is the plain access to the value.                          *)
(***************************************************************************)
EXTENDS Integers, Sequences, FiniteSets

CONSTANTS Producer, Consumer,
          Size,         \* max_size_, a power of two
          MaxPos,       \* bound on the positions used
          NoValue

ASSUME QueueConstants ==
    /\ Size \in Nat /\ Size >= 2 /\ \E k \in 1..Size : Size = 2^k
    /\ MaxPos \in Nat
    /\ Producer \cap Consumer = {}

Thread == Producer \cup Consumer
bit_mask_ == Size - 1
Slot(p) == p % Size         \* p & bit_mask_
Slots == 0..bit_mask_

\* A value is identified by its producer and the number of values it sent before.
Value == Producer \X Nat

VARIABLES head_, tail_,
          generation,   \* generation[i] of slot i
          value,        \* value[i] of slot i
          pc,           \* "idle", "gen", "cas", "access", "publish"
          pos,          \* the thread's local tail or head
          calls,        \* calls[t]: how many Enqueue calls of t have succeeded
          put, got,     \* history: the value enqueued, dequeued at a position
          seen          \* history: the positions in the queue when the Dequeue began

vars == <<head_, tail_, generation, value, pc, pos, calls, put, got, seen>>

TypeOK ==
    /\ head_ \in Nat /\ tail_ \in Nat
    /\ generation \in [Slots -> Nat]
    /\ value \in [Slots -> Value \cup {NoValue}]
    /\ pc \in [Thread -> {"idle", "gen", "cas", "access", "publish"}]
    /\ pos \in [Thread -> Nat]
    /\ calls \in [Producer -> Nat]
    /\ put \in Seq(Value \cup {NoValue}) /\ got \in Seq(Value \cup {NoValue})
    /\ seen \in [Consumer -> SUBSET Nat]

Init ==
    /\ head_ = 0 /\ tail_ = 0
    /\ generation = [i \in Slots |-> i]
    /\ value = [i \in Slots |-> NoValue]
    /\ pc = [t \in Thread |-> "idle"]
    /\ pos = [t \in Thread |-> 0]
    /\ calls = [t \in Producer |-> 0]
    /\ put = <<>> /\ got = <<>>
    /\ seen = [t \in Consumer |-> {}]

Goto(t, l) == pc' = [pc EXCEPT ![t] = l]

\* Positions whose Enqueue has returned and which no Dequeue has claimed.
Present == {p \in head_..tail_ - 1 : generation[Slot(p)] = p + 1}

\* size_t tail = tail_
BeginEnqueue(t) ==
    /\ pc[t] = "idle" /\ tail_ < MaxPos
    /\ pos' = [pos EXCEPT ![t] = tail_]
    /\ Goto(t, "gen")
    /\ UNCHANGED <<head_, tail_, generation, value, calls, put, got, seen>>

\* Faulty: off by one.
FullOffByOne(p) == generation[Slot(p)] + bit_mask_ < p

\* The test for a full queue.
IsFull(p) == generation[Slot(p)] + bit_mask_ <= p

CheckFull(t) ==
    /\ pc[t] = "gen"
    /\ Goto(t, IF IsFull(pos[t]) THEN "idle" ELSE "cas")
    /\ UNCHANGED <<head_, tail_, generation, value, pos, calls, put, got, seen>>

\* tail_.compare_exchange_weak(tail, tail + 1): on success the position is ours,
\* on failure (it may be spurious) tail is the current value and is checked again.
ClaimTail(t) ==
    /\ pc[t] = "cas"
    /\ \/ /\ pos[t] = tail_
          /\ tail_' = tail_ + 1
          /\ put' = Append(put, <<t, calls[t]>>)
          /\ Goto(t, "access")
          /\ UNCHANGED pos
       \/ /\ pos' = [pos EXCEPT ![t] = tail_]
          /\ Goto(t, "gen")
          /\ UNCHANGED <<tail_, put>>
    /\ UNCHANGED <<head_, generation, value, calls, got, seen>>

\* elem.value = value
WriteValue(t) ==
    /\ pc[t] = "access"
    /\ value' = [value EXCEPT ![Slot(pos[t])] = <<t, calls[t]>>]
    /\ Goto(t, "publish")
    /\ UNCHANGED <<head_, tail_, generation, pos, calls, put, got, seen>>

\* elem.generation.fetch_add(1)
PublishValue(t) ==
    /\ pc[t] = "publish"
    /\ generation' = [generation EXCEPT ![Slot(pos[t])] = @ + 1]
    /\ calls' = [calls EXCEPT ![t] = @ + 1]
    /\ Goto(t, "idle")
    /\ UNCHANGED <<head_, tail_, value, pos, put, got, seen>>

Enqueue(t) == BeginEnqueue(t) \/ CheckFull(t) \/ ClaimTail(t) \/ WriteValue(t) \/ PublishValue(t)

\* size_t head = head_
BeginDequeue(t) ==
    /\ pc[t] = "idle"
    /\ pos' = [pos EXCEPT ![t] = head_]
    /\ seen' = [seen EXCEPT ![t] = Present]
    /\ Goto(t, "gen")
    /\ UNCHANGED <<head_, tail_, generation, value, calls, put, got>>

\* Faulty: off by one.
EmptyOffByOne(p) == generation[Slot(p)] < p

\* The test for an empty queue.
IsEmpty(p) == generation[Slot(p)] < p + 1

CheckEmpty(t) ==
    /\ pc[t] = "gen"
    /\ Goto(t, IF IsEmpty(pos[t]) THEN "idle" ELSE "cas")
    /\ seen' = [seen EXCEPT ![t] = IF IsEmpty(pos[t]) THEN {} ELSE @]
    /\ UNCHANGED <<head_, tail_, generation, value, pos, calls, put, got>>

ClaimHead(t) ==
    /\ pc[t] = "cas"
    /\ \/ /\ pos[t] = head_
          /\ head_' = head_ + 1
          /\ got' = Append(got, NoValue)
          /\ Goto(t, "access")
          /\ UNCHANGED pos
       \/ /\ pos' = [pos EXCEPT ![t] = head_]
          /\ Goto(t, "gen")
          /\ UNCHANGED <<head_, got>>
    /\ UNCHANGED <<tail_, generation, value, calls, put, seen>>

\* data = std::move(elem.value)
ReadValue(t) ==
    /\ pc[t] = "access"
    /\ got' = [got EXCEPT ![pos[t] + 1] = value[Slot(pos[t])]]
    /\ Goto(t, "publish")
    /\ UNCHANGED <<head_, tail_, generation, value, pos, calls, put, seen>>

\* Faulty: advances by the size instead of the mask.
ReleaseBySize(t) ==
    /\ pc[t] = "publish"
    /\ generation' = [generation EXCEPT ![Slot(pos[t])] = @ + Size]
    /\ seen' = [seen EXCEPT ![t] = {}]
    /\ Goto(t, "idle")
    /\ UNCHANGED <<head_, tail_, value, pos, calls, put, got>>

\* elem.generation.fetch_add(bit_mask_)
ReleaseSlot(t) ==
    /\ pc[t] = "publish"
    /\ generation' = [generation EXCEPT ![Slot(pos[t])] = @ + bit_mask_]
    /\ seen' = [seen EXCEPT ![t] = {}]
    /\ Goto(t, "idle")
    /\ UNCHANGED <<head_, tail_, value, pos, calls, put, got>>

Dequeue(t) == BeginDequeue(t) \/ CheckEmpty(t) \/ ClaimHead(t) \/ ReadValue(t) \/ ReleaseSlot(t)

Next == (\E t \in Producer : Enqueue(t)) \/ (\E t \in Consumer : Dequeue(t))

Spec == Init /\ [][Next]_vars
-----------------------------------------------------------------------------
Owns(t) == pc[t] \in {"access", "publish"}

\* The plain accesses to a slot's value never race: a slot is owned by at most
\* one thread, whichever operation and whichever lap of the ring it is in.
SlotExclusive ==
    \A t, u \in Thread :
        Owns(t) /\ Owns(u) /\ Slot(pos[t]) = Slot(pos[u]) => t = u

\* The k-th value taken is the k-th value put: nothing is lost, duplicated,
\* overwritten before it was read, or read before it was written.
FirstInFirstOut ==
    \A p \in 1..Len(got) : got[p] # NoValue => p <= Len(put) /\ got[p] = put[p]

\* When no operation is under way, Enqueue fails exactly on a full ring and
\* Dequeue exactly on an empty one.
QuiescentExact ==
    (\A t \in Thread : ~Owns(t))
       => /\ IsFull(tail_) <=> tail_ = head_ + Size
          /\ IsEmpty(head_) <=> tail_ = head_

\* readme.md: Dequeue returns false if the queue is empty and otherwise takes an
\* element.  A Dequeue does not fail when a value was there from its beginning.
FailsOnlyIfEmpty ==
    [][\A t \in Consumer : pc[t] = "gen" /\ pc'[t] = "idle"
          => \A p \in seen[t] : p < head_]_vars
=============================================================================
