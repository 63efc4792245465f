----------------------------- MODULE Semaphore ------------------------------
(***************************************************************************)
(* semaphore/semaphore.h: a counting semaphore that admits threads in the  *)
(* order in which they called Acquire.  Each call takes a ticket; a thread *)
(* passes when the counter is positive and its ticket is due.  The mutex   *)
(* is held from the call to the wait and from the wake-up to the next wait *)
(* or the return, so each of these pieces is one step.                     *)
(***************************************************************************)
EXTENDS Integers, FiniteSets

CONSTANTS Thread, N,        \* N: the initial count
          MaxTickets        \* bound on the calls of Acquire

SemaphoreConstants == IsFiniteSet(Thread) /\ N \in Nat \ {0} /\ MaxTickets \in Nat

VARIABLES count_, jobs_cnt_, executing_pos_,
          pc,               \* "out", "asleep" (in cv_.wait), "woken", "in"
          query_pos         \* the ticket of the thread's last Acquire

vars == <<count_, jobs_cnt_, executing_pos_, pc, query_pos>>

TypeOK == /\ count_ \in 0..N /\ jobs_cnt_ \in Nat /\ executing_pos_ \in Nat
          /\ pc \in [Thread -> {"out", "asleep", "woken", "in"}]
          /\ query_pos \in [Thread -> Nat]

Init == /\ count_ = N /\ jobs_cnt_ = 0 /\ executing_pos_ = 0
        /\ pc = [t \in Thread |-> "out"]
        /\ query_pos = [t \in Thread |-> 0]

\* Faulty: the ticket is not looked at.
PassAnyone(t, ticket) ==
    IF count_ # 0
      THEN /\ count_' = count_ - 1
           /\ executing_pos_' = executing_pos_ + 1
           /\ pc' = [pc EXCEPT ![t] = "in"]
      ELSE /\ pc' = [pc EXCEPT ![t] = "asleep"]
           /\ UNCHANGED <<count_, executing_pos_>>

\* The predicate of cv_.wait, then either the callback of Acquire(), --count_,
\* and ++executing_pos_, or (again) to sleep.
PassOrSleep(t, ticket) ==
    IF count_ # 0 /\ ticket = executing_pos_
      THEN /\ count_' = count_ - 1
           /\ executing_pos_' = executing_pos_ + 1
           /\ pc' = [pc EXCEPT ![t] = "in"]
      ELSE /\ pc' = [pc EXCEPT ![t] = "asleep"]
           /\ UNCHANGED <<count_, executing_pos_>>

Acquire(t) ==
    /\ pc[t] = "out" /\ jobs_cnt_ < MaxTickets
    /\ jobs_cnt_' = jobs_cnt_ + 1
    /\ query_pos' = [query_pos EXCEPT ![t] = jobs_cnt_]
    /\ PassOrSleep(t, jobs_cnt_)

WakeUp(t) ==
    /\ pc[t] = "woken"
    /\ PassOrSleep(t, query_pos[t])
    /\ UNCHANGED <<jobs_cnt_, query_pos>>

\* A condition variable may wake up without a notification.
SpuriousWakeup(t) ==
    /\ pc[t] = "asleep"
    /\ pc' = [pc EXCEPT ![t] = "woken"]
    /\ UNCHANGED <<count_, jobs_cnt_, executing_pos_, query_pos>>

\* ++count_, notify_all.
Release(t) ==
    /\ pc[t] = "in"
    /\ count_' = count_ + 1
    /\ pc' = [u \in Thread |-> IF u = t THEN "out"
                               ELSE IF pc[u] = "asleep" THEN "woken" ELSE pc[u]]
    /\ UNCHANGED <<jobs_cnt_, executing_pos_, query_pos>>

Next == \E t \in Thread : Acquire(t) \/ WakeUp(t) \/ SpuriousWakeup(t) \/ Release(t)

Spec == Init /\ [][Next]_vars

\* Woken threads run, and whoever is in comes out.
FairSpec == Spec /\ \A t \in Thread : WF_vars(WakeUp(t)) /\ WF_vars(Release(t))
-----------------------------------------------------------------------------
Waiting(t) == pc[t] \in {"asleep", "woken"}

\* Threads pass in the order of their calls: whoever still waits has a later
\* ticket than everybody who passed, no two waiters share one, and the ticket
\* that is due belongs to a waiter whenever there is one.
FirstComeFirstServed ==
    /\ \A t \in Thread : Waiting(t) => query_pos[t] >= executing_pos_
    /\ \A t, u \in Thread :
          Waiting(t) /\ Waiting(u) /\ query_pos[t] = query_pos[u] => t = u
    /\ (\E t \in Thread : Waiting(t))
          => \E t \in Thread : Waiting(t) /\ query_pos[t] = executing_pos_

\* Nobody waits for ever while the threads inside come out.
EveryoneEnters == \A t \in Thread : Waiting(t) ~> (pc[t] = "in")

\* readme.md: Acquire blocks only until the counter becomes positive.  A thread
\* whose turn it is does not sleep while there is room.
NoSleepWithRoom ==
    \A t \in Thread : pc[t] = "asleep" /\ query_pos[t] = executing_pos_ => count_ = 0
=============================================================================
