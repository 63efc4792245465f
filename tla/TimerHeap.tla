----------------------------- MODULE TimerHeap -----------------------------
(***************************************************************************)
(* tools/cactus/core/timer.cpp: the binary heap of timers the scheduler    *)
(* takes the earliest deadline from.  A timer knows its place in the heap, *)
(* so that it can be removed from the middle.  Places count from 0.        *)
(***************************************************************************)
EXTENDS Integers, FiniteSets

CONSTANTS Timer, Deadlines

HeapConstants == Deadlines \subseteq Int

VARIABLES heap_,                \* [0..size-1 -> [deadline, timer]]
          heap_position_        \* per timer, -1 if it is not active

vars == <<heap_, heap_position_>>

Init == heap_ = [i \in {} |-> i] /\ heap_position_ = [t \in Timer |-> -1]

size == Cardinality(DOMAIN heap_)

\* An entry is stored at a place and its timer told so; h is [heap, pos].
Put(h, i, entry) == [heap |-> [h.heap EXCEPT ![i] = entry], pos |-> [h.pos EXCEPT ![entry.timer] = i]]
Swap(h, i, j) == Put(Put(h, i, h.heap[j]), j, h.heap[i])

\* A turn of the loop in SiftUp and in SiftDown; g is [h, index].  At the end of the
\* loop a turn changes nothing.
Rise(g) ==
    LET parent == (g.index - 1) \div 2 IN
    IF g.index = 0 \/ g.h.heap[g.index].deadline > g.h.heap[parent].deadline THEN g
    ELSE [h |-> Swap(g.h, g.index, parent), index |-> parent]

Fall(g) ==
    LET heap == g.h.heap
        Smaller(i, child) == IF child \in DOMAIN heap /\ heap[i].deadline > heap[child].deadline
                             THEN child ELSE i
        smaller == Smaller(Smaller(g.index, g.index * 2 + 1), g.index * 2 + 2)
    IN IF smaller = g.index THEN g ELSE [h |-> Swap(g.h, g.index, smaller), index |-> smaller]

SiftUp(h, index) ==
    LET after[n \in 0..index] == IF n = 0 THEN [h |-> h, index |-> index] ELSE Rise(after[n - 1])
    IN after[index].h

SiftDown(h, index) ==
    LET turns == Cardinality(DOMAIN h.heap)
        after[n \in 0..turns] == IF n = 0 THEN [h |-> h, index |-> index] ELSE Fall(after[n - 1])
    IN after[turns].h

\* push_back
Pushed(entry) == [i \in 0..size |-> IF i = size THEN entry ELSE heap_[i]]

Activate(t, d) ==
    /\ heap_position_[t] = -1
    /\ LET entry == [deadline |-> d, timer |-> t]
           h == SiftUp(Put([heap |-> Pushed(entry), pos |-> heap_position_], size, entry), size)
       IN heap_' = h.heap /\ heap_position_' = h.pos

SiftOnlyDown(h, i) == SiftDown(h, i)    \* mutant: the last entry may be too early there
SiftBoth(h, i) == SiftUp(SiftDown(h, i), i)

Deactivate(t) ==
    LET i == heap_position_[t]
        shorter == [heap |-> [j \in 0..size - 2 |-> heap_[j]], pos |-> [heap_position_ EXCEPT ![t] = -1]]
        h == IF i = size - 1 THEN shorter ELSE SiftBoth(Put(shorter, i, heap_[size - 1]), i)
    IN i # -1 /\ heap_' = h.heap /\ heap_position_' = h.pos

Next == \E t \in Timer : Deactivate(t) \/ \E d \in Deadlines : Activate(t, d)

Spec == Init /\ [][Next]_vars
-----------------------------------------------------------------------------
\* GetMin returns the earliest of the active timers, and every subtree of the heap
\* keeps that order, whatever was removed from its middle before; the place a timer
\* remembers is where its entry is.
EarliestFirst ==
    /\ \A i \in DOMAIN heap_ \ {0} : heap_[(i - 1) \div 2].deadline <= heap_[i].deadline
    /\ \A i \in DOMAIN heap_ : heap_position_[heap_[i].timer] = i
    /\ Cardinality({t \in Timer : heap_position_[t] # -1}) = size
=============================================================================
