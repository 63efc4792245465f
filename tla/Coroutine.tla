----------------------------- MODULE Coroutine -----------------------------
(***************************************************************************)
(* coroutine/coroutine.h: a scheduler that keeps its coroutines in a heap  *)
(* ordered by Compare and resumes the one on top.  A coroutine waits for a *)
(* moment, of the future or of the past; it is resumed first and sleeps    *)
(* then, in await_resume.  Its body may add tasks.                         *)
(***************************************************************************)
EXTENDS Integers, FiniteSets

CONSTANTS Task, MaxTime         \* coroutines; bound on the clock

CoroutineConstants == MaxTime \in Nat

VARIABLES coroutines_,          \* the set of records of the coroutines in the heap
          running,              \* the one that Step has taken out, or {}
          state,                \* per task: "new", "added" or "destroyed"
          now,                  \* the clock
          promise,              \* per task: next_time of its Promise, the last co_await
          passed                \* history, per task in the heap: whom Step preferred to it

vars == <<coroutines_, running, state, now, promise, passed>>

Init == /\ coroutines_ = {} /\ running = {} /\ now = 0
        /\ state = [t \in Task |-> "new"]
        /\ promise = [t \in Task |-> 0] /\ passed = [t \in Task |-> {}]

\* The constructor of Coroutine; the body itself has not begun (initial_suspend).
AddTask(t) ==
    /\ state[t] = "new" /\ state' = [state EXCEPT ![t] = "added"]
    /\ coroutines_' = coroutines_ \cup {[task |-> t, is_started |-> FALSE,
                                         added_time |-> now, next_time |-> now]}
    /\ UNCHANGED <<running, now, promise, passed>>

\* l comes after r.
Compare(l, r) == \/ l.is_started /\ ~r.is_started
                 \/ /\ l.is_started = r.is_started
                    /\ \/ l.next_time > r.next_time
                       \/ l.next_time = r.next_time /\ l.added_time > r.added_time

\* What the scheduler is to go by: a coroutine that has begun waits for the moment of its
\* last co_await, one that has not for nothing.
Due(c) == [c EXCEPT !.next_time = IF c.is_started THEN promise[c.task] ELSE c.added_time]

\* Step up to await_resume: one that nothing precedes leaves the heap, and the moment
\* its Awaiter holds is slept through.
Step == /\ running = {}
        /\ \E c \in coroutines_ :
              /\ \A d \in coroutines_ : ~Compare(c, d)
              /\ coroutines_' = coroutines_ \ {c} /\ running' = {[c EXCEPT !.is_started = TRUE]}
              /\ now' = IF c.is_started /\ promise[c.task] > now THEN promise[c.task] ELSE now
              /\ passed' = [t \in Task |-> IF \E d \in coroutines_ \ {c} : d.task = t
                                          THEN passed[t] \cup {Due(c)} ELSE {}]
        /\ UNCHANGED <<state, promise>>

\* The body waits again, for any moment: await_transform leaves it in the promise, and
\* Resume copies it from there before the coroutine goes back to the heap.
Await == \E c \in running, at \in 0..MaxTime :
            /\ promise' = [promise EXCEPT ![c.task] = at]
            /\ coroutines_' = coroutines_ \cup {[c EXCEPT !.next_time = at]} /\ running' = {}
            /\ UNCHANGED <<state, now, passed>>

\* The body returns, or throws what unhandled_exception drops.
Return == \E c \in running :
            /\ running' = {} /\ state' = [state EXCEPT ![c.task] = "destroyed"]
            /\ UNCHANGED <<coroutines_, now, promise, passed>>

Tick == /\ now < MaxTime /\ now' = now + 1
        /\ UNCHANGED <<coroutines_, running, state, promise, passed>>

Next == Step \/ Await \/ Return \/ Tick \/ \E t \in Task : AddTask(t)

Spec == Init /\ [][Next]_vars
-----------------------------------------------------------------------------
\* readme.md: one that has not begun comes first, else the least moment, else the one
\* added first.  Since a coroutine came to the heap Step has preferred to it nobody
\* whom these rules put after it, with the moment its own last co_await asked for;
\* and everyone added is once in the heap or running until its body ends.
WakesInOrder == /\ \A c \in coroutines_ : \A d \in passed[c.task] : ~Compare(d, Due(c))
                /\ \A t \in Task : state[t] = "added" <=>
                      Cardinality({c \in coroutines_ \cup running : c.task = t}) = 1
=============================================================================
