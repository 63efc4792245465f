----------------------------- MODULE RWSpinLock -----------------------------
(***************************************************************************)
(* rw-spinlock/rw_spinlock.h: a readers-writer spin lock in one atomic     *)
(* word.  Bit 0 is the writer's flag, the other bits count the readers.    *)
(* Load and compare-and-swap are separate steps: a thread works with the   *)
(* word it saw last, which may be out of date.  compare_exchange_weak may  *)
(* also fail without a reason.                                             *)
(***************************************************************************)
EXTENDS Integers, FiniteSets

CONSTANT Thread

VARIABLES rw_lock_,
          pc,       \* "idle", "rlock", "reading", "runlock", "wlock", "writing"
          lock      \* the local variable of the same name

vars == <<rw_lock_, pc, lock>>

PCs == {"idle", "rlock", "reading", "runlock", "wlock", "writing"}

TypeOK == /\ rw_lock_ \in Nat
          /\ pc \in [Thread -> PCs]
          /\ lock \in [Thread -> Nat]

Init == /\ rw_lock_ = 0
        /\ pc = [t \in Thread |-> "idle"]
        /\ lock = [t \in Thread |-> 0]

Goto(t, l) == pc' = [pc EXCEPT ![t] = l]
Saw(t, v) == lock' = [lock EXCEPT ![t] = v]

\* Faulty: keeps the writer's bit.
WithWriterBit(v) == v

\* (lock >> 1) << 1: what the word would be without a writer.
NoWriterBit(v) == 2 * (v \div 2)

\* LockRead: uint lock = (rw_lock_.load() >> 1) << 1
LockRead(t) ==
    /\ pc[t] = "idle"
    /\ Saw(t, NoWriterBit(rw_lock_))
    /\ Goto(t, "rlock")
    /\ UNCHANGED rw_lock_

\* The swap to one reader more; on failure the word just seen, without its bit 0.
LockReadSwap(t) ==
    /\ pc[t] = "rlock"
    /\ \/ /\ rw_lock_ = lock[t]
          /\ rw_lock_' = 2 * (lock[t] \div 2 + 1)
          /\ Goto(t, "reading")
          /\ Saw(t, 0)
       \/ /\ Saw(t, NoWriterBit(rw_lock_))
          /\ UNCHANGED <<rw_lock_, pc>>

\* UnlockRead: uint lock = rw_lock_.load()
UnlockRead(t) ==
    /\ pc[t] = "reading"
    /\ Saw(t, rw_lock_)
    /\ Goto(t, "runlock")
    /\ UNCHANGED rw_lock_

\* The swap to one reader less.
UnlockReadSwap(t) ==
    /\ pc[t] = "runlock"
    /\ \/ /\ rw_lock_ = lock[t]
          /\ rw_lock_' = 2 * (lock[t] \div 2 - 1)
          /\ Goto(t, "idle")
          /\ Saw(t, 0)
       \/ /\ Saw(t, rw_lock_)
          /\ UNCHANGED <<rw_lock_, pc>>

LockWrite(t) ==
    /\ pc[t] = "idle"
    /\ Goto(t, "wlock")
    /\ UNCHANGED <<rw_lock_, lock>>

\* compare_exchange_weak(0 -> 1) until it succeeds.
LockWriteSwap(t) ==
    /\ pc[t] = "wlock"
    /\ rw_lock_ = 0
    /\ rw_lock_' = 1
    /\ Goto(t, "writing")
    /\ UNCHANGED lock

\* rw_lock_.store(0)
UnlockWrite(t) ==
    /\ pc[t] = "writing"
    /\ rw_lock_' = 0
    /\ Goto(t, "idle")
    /\ UNCHANGED lock

\* Steps of a thread that is inside the lock's members or holds it.
Step(t) == \/ LockReadSwap(t) \/ UnlockRead(t) \/ UnlockReadSwap(t)
           \/ LockWriteSwap(t) \/ UnlockWrite(t)

Next == \E t \in Thread : LockRead(t) \/ LockWrite(t) \/ Step(t)

Spec == Init /\ [][Next]_vars
-----------------------------------------------------------------------------
At(l) == {t \in Thread : pc[t] = l}
Readers == At("reading") \cup At("runlock")
Writers == At("writing")

\* The word says exactly who holds the lock: twice the readers, plus the writer.
WordExact == rw_lock_ = 2 * Cardinality(Readers) + Cardinality(Writers)

\* Many readers or one writer.
Abs == INSTANCE AbstractRWLock WITH readers <- Readers, writers <- Writers
ImplementsRWLock == Abs!RWSpec

\* Never a writer together with anybody else.
WritersAlone ==
    \A w \in Writers : Readers = {} /\ Writers = {w}
=============================================================================
