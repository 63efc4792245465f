------------------------------- MODULE RWLock -------------------------------
(***************************************************************************)
(* rw-lock/rw_lock.h: Read(func) and Write(func) over four counters and    *)
(* two condition variables.  The counters change only under check_cnt_, so *)
(* the entry, the return from a wait and EndRead/EndWrite are one step     *)
(* each.  EndRead and EndWrite run whether func returns or throws.         *)
(***************************************************************************)
EXTENDS Integers, FiniteSets

CONSTANTS Reader, Writer     \* the threads that may read, that may write; some do both

Caller == Reader \cup Writer

VARIABLES readers_cnt_, writers_cnt_, blocked_readers_cnt_, blocked_writers_cnt_,
          pc        \* "idle", "read", "write" (in func),
                    \* "rsleep", "wsleep" (in a wait), "rwoken", "wwoken"

cnts == <<readers_cnt_, writers_cnt_, blocked_readers_cnt_, blocked_writers_cnt_>>
vars == <<cnts, pc>>

PCs == {"idle", "read", "write", "rsleep", "wsleep", "rwoken", "wwoken"}

TypeOK == /\ readers_cnt_ \in Nat /\ writers_cnt_ \in Nat
          /\ blocked_readers_cnt_ \in Nat /\ blocked_writers_cnt_ \in Nat
          /\ pc \in [Caller -> PCs]

Init == /\ readers_cnt_ = 0 /\ writers_cnt_ = 0
        /\ blocked_readers_cnt_ = 0 /\ blocked_writers_cnt_ = 0
        /\ pc = [t \in Caller |-> "idle"]

\* Read(): the predicate of can_read_.wait, after ++blocked_readers_cnt_ by a new
\* call (b = 1) or from a wake-up (b = 0).
ReadOrSleep(t, b) ==
    /\ UNCHANGED <<writers_cnt_, blocked_writers_cnt_>>
    /\ IF writers_cnt_ = 0
         THEN /\ readers_cnt_' = readers_cnt_ + 1
              /\ blocked_readers_cnt_' = blocked_readers_cnt_ + b - 1
              /\ pc' = [pc EXCEPT ![t] = "read"]
         ELSE /\ blocked_readers_cnt_' = blocked_readers_cnt_ + b
              /\ pc' = [pc EXCEPT ![t] = "rsleep"]
              /\ UNCHANGED readers_cnt_

Read(t) == pc[t] = "idle" /\ ReadOrSleep(t, 1)
ReadWoken(t) == pc[t] = "rwoken" /\ ReadOrSleep(t, 0)

\* Write(), likewise.
WriteOrSleep(t, b) ==
    /\ UNCHANGED <<readers_cnt_, blocked_readers_cnt_>>
    /\ IF readers_cnt_ = 0 /\ writers_cnt_ = 0
         THEN /\ writers_cnt_' = writers_cnt_ + 1
              /\ blocked_writers_cnt_' = blocked_writers_cnt_ + b - 1
              /\ pc' = [pc EXCEPT ![t] = "write"]
         ELSE /\ blocked_writers_cnt_' = blocked_writers_cnt_ + b
              /\ pc' = [pc EXCEPT ![t] = "wsleep"]
              /\ UNCHANGED writers_cnt_

Write(t) == pc[t] = "idle" /\ WriteOrSleep(t, 1)
WriteWoken(t) == pc[t] = "wwoken" /\ WriteOrSleep(t, 0)

\* A condition variable may wake up without a notification.
SpuriousWakeup(t) ==
    /\ \/ pc[t] = "rsleep" /\ pc' = [pc EXCEPT ![t] = "rwoken"]
       \/ pc[t] = "wsleep" /\ pc' = [pc EXCEPT ![t] = "wwoken"]
    /\ UNCHANGED cnts

Leave(t) == pc' = [pc EXCEPT ![t] = "idle"]

\* t leaves and can_write_.notify_one() wakes a sleeping writer, if there is one.
LeaveNotifyWriter(t) ==
    \/ (\A u \in Caller : pc[u] # "wsleep") /\ Leave(t)
    \/ \E u \in Caller : /\ pc[u] = "wsleep"
                         /\ pc' = [pc EXCEPT ![t] = "idle", ![u] = "wwoken"]

\* t leaves and can_read_.notify_all() wakes every sleeping reader.
LeaveNotifyReaders(t) ==
    pc' = [u \in Caller |-> IF u = t THEN "idle"
                            ELSE IF pc[u] = "rsleep" THEN "rwoken" ELSE pc[u]]

EndRead(t) ==
    /\ pc[t] = "read"
    /\ readers_cnt_' = readers_cnt_ - 1
    /\ IF readers_cnt_ = 1 /\ blocked_writers_cnt_ > 0 THEN LeaveNotifyWriter(t) ELSE Leave(t)
    /\ UNCHANGED <<writers_cnt_, blocked_readers_cnt_, blocked_writers_cnt_>>

\* Faulty: prefers readers only when no writer is blocked, and then wakes none.
EndWriteForWriters(t) ==
    /\ pc[t] = "write"
    /\ writers_cnt_' = writers_cnt_ - 1
    /\ IF blocked_writers_cnt_ > 0 THEN LeaveNotifyWriter(t) ELSE Leave(t)
    /\ UNCHANGED <<readers_cnt_, blocked_readers_cnt_, blocked_writers_cnt_>>

\* Readers first when they are more than three times the blocked writers.
EndWrite(t) ==
    /\ pc[t] = "write"
    /\ writers_cnt_' = writers_cnt_ - 1
    /\ IF blocked_readers_cnt_ > 3 * blocked_writers_cnt_ THEN LeaveNotifyReaders(t)
       ELSE IF blocked_writers_cnt_ > 0 THEN LeaveNotifyWriter(t)
       ELSE Leave(t)
    /\ UNCHANGED <<readers_cnt_, blocked_readers_cnt_, blocked_writers_cnt_>>

\* What a thread inside Read or Write does without being asked.
Step(t) == ReadWoken(t) \/ WriteWoken(t) \/ EndRead(t) \/ EndWrite(t)

Next == \/ \E t \in Reader : Read(t)
        \/ \E t \in Writer : Write(t)
        \/ \E t \in Caller : SpuriousWakeup(t) \/ Step(t)

Spec == Init /\ [][Next]_vars

\* func returns or throws, woken threads run.
FairSpec == Spec /\ \A t \in Caller : WF_vars(Step(t))
-----------------------------------------------------------------------------
At(l) == {t \in Caller : pc[t] = l}

\* Many readers or one writer.
Abs == INSTANCE AbstractRWLock WITH Thread <- Caller, readers <- At("read"), writers <- At("write")
ImplementsRWLock == Abs!RWSpec

\* When the calls stop, every thread gets through and out again: neither wake-up
\* rule leaves a reader or a writer behind.
DrainsWhenCallsStop ==
    <>[][\A t \in Caller : ~Read(t) /\ ~Write(t)]_vars => <>[](At("idle") = Caller)
=============================================================================
