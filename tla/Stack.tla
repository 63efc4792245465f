------------------------------- MODULE Stack --------------------------------
(***************************************************************************)
(* lock-free-stack/stack.h over the hazard pointers: a list of nodes whose *)
(* head_ (the ptr of HazardPtr) changes by compare-exchange.  A weak       *)
(* exchange may fail without a reason: Push and Clear then reload the same *)
(* head, Pop acquires again.  Values stay with their nodes.                *)
(***************************************************************************)
EXTENDS HazardPtr, Sequences

CONSTANT MaxCalls               \* bound on the calls of all threads together

ASSUME StackConstants == HazardConstants /\ IsFiniteSet(Node) /\ MaxCalls \in Nat

VARIABLES next,                 \* next[n] of a node
          loc,                  \* the second local pointer: new_head, old_head->next
          op,                   \* the call a thread is in
          calls

vars == <<hpVars, next, loc, op, calls>>
local == <<next, loc, op, calls>>

Init == /\ HazardInit(Null)
        /\ next = [n \in Node |-> Null] /\ loc = [t \in Thread |-> Null]
        /\ op = [t \in Thread |-> "none"] /\ calls = 0

Call(t, name) == /\ calls < MaxCalls /\ calls' = calls + 1
                 /\ op' = [op EXCEPT ![t] = name]

Push(t) ==
    /\ Call(t, "Push") /\ At(t, "idle", "push")
    /\ \E n \in Node \ live :
          /\ live' = live \cup {n} /\ next' = [next EXCEPT ![n] = ptr]
          /\ loc' = [loc EXCEPT ![t] = n]
    /\ Local(t, ptr) /\ UNCHANGED <<ptr, hazard_ptr, retireVars>>

PushExchange(t) ==
    /\ \/ /\ ptr = val[t] /\ At(t, "push", "idle") /\ ptr' = loc[t] /\ UNCHANGED <<next, val>>
       \/ /\ ptr # val[t] /\ At(t, "push", "push")
          /\ Local(t, ptr) /\ next' = [next EXCEPT ![loc[t]] = ptr] /\ UNCHANGED ptr
    /\ UNCHANGED <<live, hazard_ptr, retireVars, loc, op, calls>>

Pop(t) == /\ Call(t, "Pop") /\ At(t, "idle", "acquire")
          /\ UNCHANGED <<ptr, live, hazard_ptr, val, retireVars, next, loc>>

PopHead(t) ==
    /\ op[t] = "Pop" /\ At(t, "acquired", IF val[t] = Null THEN "idle" ELSE "pop next")
    /\ UNCHANGED <<ptr, live, hazard_ptr, val, retireVars, local>>

PopNext(t) ==
    /\ At(t, "pop next", "pop") /\ loc' = [loc EXCEPT ![t] = next[val[t]]]
    /\ UNCHANGED <<ptr, live, hazard_ptr, val, retireVars, next, op, calls>>

PopExchange(t) ==
    /\ \/ ptr = val[t] /\ At(t, "pop", "pop value") /\ ptr' = loc[t]
       \/ At(t, "pop", "acquire") /\ UNCHANGED ptr
    /\ UNCHANGED <<live, hazard_ptr, val, retireVars, local>>

PopRelease(t) ==
    /\ At(t, "pop value", "retire") /\ hazard_ptr' = [hazard_ptr EXCEPT ![t] = Null]
    /\ UNCHANGED <<ptr, live, val, retireVars, local>>

Clear(t) == /\ Call(t, "Clear") /\ At(t, "idle", "clear") /\ Local(t, ptr)
            /\ UNCHANGED <<ptr, live, hazard_ptr, retireVars, next, loc>>

ClearExchange(t) ==
    /\ \/ ptr = val[t] /\ At(t, "clear", "walk") /\ ptr' = Null /\ UNCHANGED val
       \/ ptr # val[t] /\ At(t, "clear", "clear") /\ Local(t, ptr) /\ UNCHANGED ptr
    /\ UNCHANGED <<live, hazard_ptr, retireVars, local>>

ClearWalk(t) ==
    /\ At(t, "walk", IF val[t] = Null THEN "idle" ELSE "retire")
    /\ loc' = [loc EXCEPT ![t] = IF val[t] = Null THEN Null ELSE next[val[t]]]
    /\ UNCHANGED <<ptr, live, hazard_ptr, val, retireVars, next, op, calls>>

\* Retire has returned.
Resume(t) ==
    /\ \/ op[t] = "Pop" /\ At(t, "retired", "idle") /\ UNCHANGED val
       \/ op[t] = "Clear" /\ At(t, "retired", "walk") /\ Local(t, loc[t])
    /\ UNCHANGED <<ptr, live, hazard_ptr, retireVars, local>>

StackStep(t) ==
    \/ Push(t) \/ PushExchange(t)
    \/ Pop(t) \/ PopHead(t) \/ PopNext(t) \/ PopExchange(t) \/ PopRelease(t)
    \/ Clear(t) \/ ClearExchange(t) \/ ClearWalk(t) \/ Resume(t)

Next == \E t \in Thread : StackStep(t) \/ (HazardStep(t) /\ UNCHANGED local)

Spec == Init /\ [][Next]_vars
-----------------------------------------------------------------------------
\* The addresses met on the way down from a, then Null for ever (cut after as many as
\* there are nodes), and the list they make.
Down(a) ==
    LET down[k \in 0..Cardinality(Node)] ==
            IF k = 0 THEN a ELSE IF down[k - 1] = Null THEN Null ELSE next[down[k - 1]]
    IN  down

Chain(a) ==
    LET down == Down(a)
    IN  [i \in 1..Cardinality({k \in 1..Cardinality(Node) : down[k - 1] # Null}) |-> down[i - 1]]

AS == INSTANCE AbstractStack WITH stack <- Chain(ptr)

\* No thread reads a node that ScanFreeList has deleted (and that may have been
\* allocated again): not Pop through old_head, nor Clear on its way down the list.
NoUseAfterFree ==
    \A t \in Thread : pc[t] \in {"pop next", "pop value", "walk", "retire"} /\ val[t] # Null
                         => val[t] \in live

\* A node that was deleted and pushed again never makes an exchange succeed with a
\* stale next: the list changes exactly as a stack does.
StackIsLinearizable == AS!Spec

\* When every thread has unregistered and none of them found scan_lock taken in
\* doing so, every node that was retired is deleted: what a scan puts back, or a
\* Retire leaves because the counter was just reset, is found by the last scan.
NothingLeaked ==
    (\A t \in Thread : pc[t] = "done") => live = {Chain(ptr)[i] : i \in 1..Len(Chain(ptr))}
=============================================================================
