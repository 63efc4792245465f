----------------------------- MODULE FutexMutex -----------------------------
(***************************************************************************)
(* futex/mutex.h: a mutex over one futex word.  state_ is 0 (free), 1      *)
(* (taken) or 2 (taken, somebody may sleep).  Every atomic operation and   *)
(* every futex call is one step, so all interleavings of the instructions  *)
(* of Lock and Unlock are covered.  The kernel's FUTEX_WAIT compares the   *)
(* word and goes to sleep atomically, and may return early (a signal).     *)
(***************************************************************************)
EXTENDS Integers

CONSTANT Thread

VARIABLES state_,   \* the futex word
          pc        \* pc[t]: the next instruction of thread t

vars == <<state_, pc>>

PCs == {"idle", "cas", "xchg", "wait", "asleep", "cs", "store", "wake"}

TypeOK == /\ state_ \in 0..2
          /\ pc \in [Thread -> PCs]

Init == /\ state_ = 0
        /\ pc = [t \in Thread |-> "idle"]

Goto(t, l) == pc' = [pc EXCEPT ![t] = l]

\* Faulty variants of the instructions below, used to test the properties.
\* A waiter that gets the word at 0 takes it with 1, forgetting the sleepers.
MarkTaken(t) ==
    /\ pc[t] = "xchg"
    /\ state_' = IF state_ = 0 THEN 1 ELSE 2
    /\ Goto(t, IF state_ = 0 THEN "cs" ELSE "wait")

\* A waiter that was woken believes that it owns the lock.
WaitAndOwn(t) ==
    /\ pc[t] = "wait"
    /\ Goto(t, IF state_ = 2 THEN "asleep" ELSE "cs")
    /\ UNCHANGED state_

\* Lock() is called.
CallLock(t) == /\ pc[t] = "idle"
               /\ Goto(t, "cas")
               /\ UNCHANGED state_

\* compare_exchange_strong(0 -> 1).  A loser that saw 1 marks the word
\* contended with an exchange; one that saw 2 enters the wait loop at once.
TryAcquire(t) ==
    /\ pc[t] = "cas"
    /\ IF state_ = 0
         THEN state_' = 1 /\ Goto(t, "cs")
         ELSE /\ UNCHANGED state_
              /\ Goto(t, IF state_ = 1 THEN "xchg" ELSE "wait")

\* state = exchange(2): whoever gets 0 back owns the lock, with the word at 2.
MarkContended(t) ==
    /\ pc[t] = "xchg"
    /\ state_' = 2
    /\ Goto(t, IF state_ = 0 THEN "cs" ELSE "wait")

\* FutexWait(&state_, 2): sleep if the word still is 2, else go round the loop.
FutexWait(t) ==
    /\ pc[t] = "wait"
    /\ Goto(t, IF state_ = 2 THEN "asleep" ELSE "xchg")
    /\ UNCHANGED state_

\* FUTEX_WAIT returns without a wake (a signal); the loop tries again.
SpuriousWake(t) ==
    /\ pc[t] = "asleep"
    /\ Goto(t, "xchg")
    /\ UNCHANGED state_

\* Unlock(), first instruction: fetch_sub(1).  If the word was 1 nobody sleeps.
Unlock(t) ==
    /\ pc[t] = "cs"
    /\ state_' = state_ - 1
    /\ Goto(t, IF state_ = 1 THEN "idle" ELSE "store")

\* Unlock(), contended: store(0) ...
StoreFree(t) ==
    /\ pc[t] = "store"
    /\ state_' = 0
    /\ Goto(t, "wake")

\* ... then FutexWake(1): one of the sleepers, any, runs again.
FutexWake(t) ==
    /\ pc[t] = "wake"
    /\ UNCHANGED state_
    /\ \/ /\ \A u \in Thread : pc[u] # "asleep"
          /\ Goto(t, "idle")
       \/ \E u \in Thread :
             /\ pc[u] = "asleep"
             /\ pc' = [pc EXCEPT ![t] = "idle", ![u] = "xchg"]

\* The instructions a running thread takes by itself: all but the call of Lock
\* (a thread may stay away for good) and the spurious return of the futex.
Step(t) == \/ TryAcquire(t) \/ MarkContended(t) \/ FutexWait(t)
           \/ Unlock(t) \/ StoreFree(t) \/ FutexWake(t)

Next == \E t \in Thread : CallLock(t) \/ Step(t) \/ SpuriousWake(t)

Spec == Init /\ [][Next]_vars

\* The scheduler lets every runnable thread go on.
FairSpec == Spec /\ \A t \in Thread : WF_vars(Step(t))
-----------------------------------------------------------------------------
\* A thread owns the lock from the instruction that takes it until the word is
\* written back to 0: by fetch_sub when it was 1, else by store(0).
Owns(t) == pc[t] \in {"cs", "store"}

\* Two threads are never between Lock() and the end of Unlock() together, also
\* while a contended Unlock has left the word at 1 for a moment.
MutualExclusion == \A t, u \in Thread : Owns(t) /\ Owns(u) => t = u

\* While somebody sleeps in FutexWait, the wake-up is not lost: the word says
\* "contended", or an unlocker has yet to wake one, or a thread is about to
\* write 2 again.
NoLostWakeup ==
    (\E t \in Thread : pc[t] = "asleep")
      => \/ state_ = 2
         \/ \E t \in Thread : pc[t] \in {"store", "wake", "xchg"}

\* The abstract lock this mutex implements.
Status == [t \in Thread |->
             IF pc[t] \in {"idle", "wake"} THEN "idle"
             ELSE IF Owns(t) THEN "hold" ELSE "want"]

A == INSTANCE AbstractLock WITH status <- Status

\* Every behaviour of the mutex is one of the abstract lock.
ImplementsLock == A!LockSpec

\* While threads are inside Lock(), the mutex does get taken.
Progress == A!LockProgress

\* Newcomers may overtake a waiter for as long as they come; when the calls stop,
\* every thread that called Lock has got it and has left again.
DrainsWhenCallsStop ==
    <>[][\A t \in Thread : ~CallLock(t)]_vars => <>[](\A t \in Thread : pc[t] = "idle")
=============================================================================
