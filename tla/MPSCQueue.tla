----------------------------- MODULE MPSCQueue ------------------------------
(***************************************************************************)
(* mpsc-queue/mpsc_queue.h: a list pushed by many threads and emptied by   *)
(* one, without any protection of the nodes: only the consumer deletes.    *)
(* Each atomic access is a step, and the read of old_head->next is one of  *)
(* its own.  A weak exchange that fails without a reason reloads.          *)
(***************************************************************************)
EXTENDS Naturals, Sequences, FiniteSets

CONSTANTS Producer, Consumer,   \* the threads that push; the one that pops
          Node, Null,           \* addresses: a deleted one may be allocated again
          MaxPush               \* bound on the calls of Push

QueueConstants == Null \notin Node /\ IsFiniteSet(Node) /\ Consumer \notin Producer

VARIABLES head_, next, live,
          pc, old_head,         \* of each thread
          other,                \* new_head of a producer, old_head->next in Pop
          pushed                \* how many pushes have begun

vars == <<head_, next, live, pc, old_head, other, pushed>>

Party == Producer \cup {Consumer}

Init == /\ head_ = Null /\ next = [n \in Node |-> Null] /\ live = {}
        /\ pc = [t \in Party |-> "idle"] /\ old_head = [t \in Party |-> Null]
        /\ other = [t \in Party |-> Null] /\ pushed = 0

Go(t, from, to) == pc[t] = from /\ pc' = [pc EXCEPT ![t] = to]
Load(t) == old_head' = [old_head EXCEPT ![t] = head_]

Push(t) ==
    /\ Go(t, "idle", "push") /\ Load(t)
    /\ pushed < MaxPush /\ pushed' = pushed + 1
    /\ \E n \in Node \ live : /\ live' = live \cup {n} /\ next' = [next EXCEPT ![n] = head_]
                              /\ other' = [other EXCEPT ![t] = n]
    /\ UNCHANGED head_

PushExchange(t) ==
    /\ \/ /\ head_ = old_head[t] /\ Go(t, "push", "idle")
          /\ head_' = other[t] /\ UNCHANGED old_head
       \/ Go(t, "push", "push reload") /\ UNCHANGED <<head_, old_head>>
    /\ UNCHANGED <<next, live, other, pushed>>

PushStale(t) ==                 \* mutant: new_head->next keeps the head read first
    /\ Go(t, "push reload", "push") /\ Load(t)
    /\ UNCHANGED <<head_, next, live, other, pushed>>

PushReload(t) ==
    /\ Go(t, "push reload", "push") /\ Load(t)
    /\ next' = [next EXCEPT ![other[t]] = head_]
    /\ UNCHANGED <<head_, live, other, pushed>>

Pop == /\ Go(Consumer, "idle", IF head_ = Null THEN "idle" ELSE "pop next") /\ Load(Consumer)
       /\ UNCHANGED <<head_, next, live, other, pushed>>

PopNext == /\ Go(Consumer, "pop next", "pop")
           /\ other' = [other EXCEPT ![Consumer] = next[old_head[Consumer]]]
           /\ UNCHANGED <<head_, next, live, old_head, pushed>>

PopExchange ==
    /\ \/ /\ head_ = old_head[Consumer] /\ Go(Consumer, "pop", "delete")
          /\ head_' = other[Consumer]
       \/ Go(Consumer, "pop", "pop reload") /\ UNCHANGED head_
    /\ UNCHANGED <<next, live, old_head, other, pushed>>

PopReload == /\ Go(Consumer, "pop reload", "pop next") /\ Load(Consumer)
             /\ UNCHANGED <<head_, next, live, other, pushed>>

\* The value is taken and the node deleted.
PopDelete == /\ Go(Consumer, "delete", "idle")
             /\ live' = live \ {old_head[Consumer]}
             /\ UNCHANGED <<head_, next, old_head, other, pushed>>

\* DequeueAll; the destructor is one whose callback does nothing.
DequeueAll == /\ Go(Consumer, "idle", "take") /\ Load(Consumer)
              /\ UNCHANGED <<head_, next, live, other, pushed>>

DequeueAllExchange ==
    /\ \/ /\ head_ = old_head[Consumer] /\ Go(Consumer, "take", "walk")
          /\ head_' = Null /\ UNCHANGED old_head
       \/ Go(Consumer, "take", "take") /\ Load(Consumer) /\ UNCHANGED head_
    /\ UNCHANGED <<next, live, other, pushed>>

DequeueAllWalk ==
    LET node == old_head[Consumer] IN
    /\ \/ Go(Consumer, "walk", "idle") /\ node = Null /\ UNCHANGED <<live, old_head>>
       \/ /\ Go(Consumer, "walk", "walk") /\ node # Null
          /\ live' = live \ {node}
          /\ old_head' = [old_head EXCEPT ![Consumer] = next[node]]
    /\ UNCHANGED <<head_, next, other, pushed>>

Next == \/ \E t \in Producer : Push(t) \/ PushExchange(t) \/ PushReload(t)
        \/ Pop \/ PopNext \/ PopExchange \/ PopReload \/ PopDelete
        \/ DequeueAll \/ DequeueAllExchange \/ DequeueAllWalk

Spec == Init /\ [][Next]_vars
-----------------------------------------------------------------------------
\* The addresses met on the way down, then Null for ever, and the list they make.
Chain == LET down[k \in 0..Cardinality(Node)] ==
                IF k = 0 THEN head_ ELSE IF down[k - 1] = Null THEN Null ELSE next[down[k - 1]]
             nodes == {k \in 1..Cardinality(Node) : down[k - 1] # Null}
         IN  [i \in 1..Cardinality(nodes) |-> down[i - 1]]

AS == INSTANCE AbstractStack WITH stack <- Chain

\* Producers that push onto the node the consumer is removing never make its
\* exchange install a stale next, though nodes are reused: the list is a stack,
\* and the consumer never follows a null or deleted pointer, though Pop tests for
\* null only before its first exchange.
QueueIsLinearizable ==
    /\ AS!Spec
    /\ [](pc[Consumer] \in {"pop next", "delete"} => old_head[Consumer] \in live)
=============================================================================
