------------------------------ MODULE SpinLock ------------------------------
(***************************************************************************)
(* spinlock/spinlock.h: Lock spins on test_and_set of one atomic flag,     *)
(* Unlock clears it.                                                       *)
(***************************************************************************)
CONSTANT Thread

VARIABLES atomic_lock_, pc      \* pc[t]: "idle", "spin", "cs"

vars == <<atomic_lock_, pc>>

TypeOK == atomic_lock_ \in BOOLEAN /\ pc \in [Thread -> {"idle", "spin", "cs"}]

Init == atomic_lock_ = FALSE /\ pc = [t \in Thread |-> "idle"]

CallLock(t) == /\ pc[t] = "idle"
               /\ pc' = [pc EXCEPT ![t] = "spin"]
               /\ UNCHANGED atomic_lock_

\* test_and_set, until it returns false; the failing ones change nothing.
TestAndSet(t) == /\ pc[t] = "spin" /\ ~atomic_lock_
                 /\ atomic_lock_' = TRUE
                 /\ pc' = [pc EXCEPT ![t] = "cs"]

Unlock(t) == /\ pc[t] = "cs"
             /\ atomic_lock_' = FALSE
             /\ pc' = [pc EXCEPT ![t] = "idle"]

Next == \E t \in Thread : CallLock(t) \/ TestAndSet(t) \/ Unlock(t)

Spec == Init /\ [][Next]_vars

FairSpec == Spec /\ \A t \in Thread : WF_vars(TestAndSet(t)) /\ WF_vars(Unlock(t))
-----------------------------------------------------------------------------
Status == [t \in Thread |-> IF pc[t] = "spin" THEN "want"
                            ELSE IF pc[t] = "cs" THEN "hold" ELSE "idle"]

A == INSTANCE AbstractLock WITH status <- Status

\* The spin lock is a lock.
ImplementsLock == A!LockSpec
=============================================================================
