---------------------------- MODULE AbstractLock ----------------------------
(***************************************************************************)
(* What a mutual-exclusion lock promises to the threads that use it: a     *)
(* thread asks for the lock, is given it only while nobody holds it, and   *)
(* gives it back.  FutexMutex (futex/mutex.h) and SpinLock                 *)
(* (spinlock/spinlock.h) are shown to implement this specification.        *)
(***************************************************************************)
CONSTANT Thread

VARIABLE status     \* status[t]: "idle", "want" or "hold"

LockTypeOK == status \in [Thread -> {"idle", "want", "hold"}]

LockInit == status = [t \in Thread |-> "idle"]

Request(t) == /\ status[t] = "idle"
              /\ status' = [status EXCEPT ![t] = "want"]

Grant(t) == /\ status[t] = "want"
            /\ \A u \in Thread : status[u] # "hold"
            /\ status' = [status EXCEPT ![t] = "hold"]

GiveBack(t) == /\ status[t] = "hold"
               /\ status' = [status EXCEPT ![t] = "idle"]

LockNext == \E t \in Thread : Request(t) \/ Grant(t) \/ GiveBack(t)

LockSpec == LockInit /\ [][LockNext]_status

\* A lock that never stays free while somebody wants it.
LockProgress == (\E t \in Thread : status[t] = "want")
                  ~> (\E t \in Thread : status[t] = "hold")
=============================================================================
