---------------------------- MODULE Locks_proofs ----------------------------
(***************************************************************************)
(* For every set of threads, every count and every number of calls: the    *)
(* futex mutex excludes, loses no wake-up and implements the abstract      *)
(* lock; the spin lock is a lock, the two readers-writer locks admit many  *)
(* readers or one writer, the semaphore admits in the order of the calls   *)
(* and never more than its count, and the unbuffered channel keeps its     *)
(* rendezvous.  Each primitive has an inductive invariant of its own; that *)
(* the suite's behaviours are behaviours of each is the last part.         *)
(***************************************************************************)
EXTENDS MCLocks, Sequences, FiniteSetTheorems, TLAPS

\* The word is free exactly when no thread owns the lock.
WordMatchesOwner == (state_ = 0) <=> (\A t \in Thread : ~Owns(t))

\* Mutual exclusion alone is not inductive: that a thread may take the lock when
\* it reads 0 needs that the word is never 0 while somebody owns the lock.
IInv == TypeOK /\ MutualExclusion /\ WordMatchesOwner /\ NoLostWakeup

\* The initial state satisfies the inductive invariant.
LEMMA InitIInv == Init => IInv
  BY DEF Init, IInv, TypeOK, PCs, MutualExclusion, WordMatchesOwner, NoLostWakeup, Owns

\* Each instruction of Lock and Unlock keeps the type invariant, the exclusion
\* and the meaning of the word.
LEMMA StepOwner ==
  TypeOK /\ MutualExclusion /\ WordMatchesOwner /\ [Next]_vars
    => TypeOK' /\ MutualExclusion' /\ WordMatchesOwner'
<1> SUFFICES ASSUME TypeOK, MutualExclusion, WordMatchesOwner, [Next]_vars
             PROVE  TypeOK' /\ MutualExclusion' /\ WordMatchesOwner'
    OBVIOUS
<1> USE DEF TypeOK, PCs, MutualExclusion, WordMatchesOwner, Owns, Goto
<1>1. ASSUME NEW t \in Thread, CallLock(t)
      PROVE  TypeOK' /\ MutualExclusion' /\ WordMatchesOwner'
      BY <1>1 DEF CallLock
<1>2. ASSUME NEW t \in Thread, TryAcquire(t)
      PROVE  TypeOK' /\ MutualExclusion' /\ WordMatchesOwner'
      BY <1>2 DEF TryAcquire
<1>3. ASSUME NEW t \in Thread, MarkContended(t)
      PROVE  TypeOK' /\ MutualExclusion' /\ WordMatchesOwner'
      BY <1>3 DEF MarkContended
<1>4. ASSUME NEW t \in Thread, FutexWait(t)
      PROVE  TypeOK' /\ MutualExclusion' /\ WordMatchesOwner'
      BY <1>4 DEF FutexWait
<1>5. ASSUME NEW t \in Thread, SpuriousWake(t)
      PROVE  TypeOK' /\ MutualExclusion' /\ WordMatchesOwner'
      BY <1>5 DEF SpuriousWake
<1>6. ASSUME NEW t \in Thread, Unlock(t)
      PROVE  TypeOK' /\ MutualExclusion' /\ WordMatchesOwner'
      BY <1>6 DEF Unlock
<1>7. ASSUME NEW t \in Thread, StoreFree(t)
      PROVE  TypeOK' /\ MutualExclusion' /\ WordMatchesOwner'
      BY <1>7 DEF StoreFree
<1>8. ASSUME NEW t \in Thread, FutexWake(t)
      PROVE  TypeOK' /\ MutualExclusion' /\ WordMatchesOwner'
      BY <1>8 DEF FutexWake
<1>9. CASE UNCHANGED vars
      BY <1>9 DEF vars
<1> QED BY <1>1, <1>2, <1>3, <1>4, <1>5, <1>6, <1>7, <1>8, <1>9 DEF Next, Step

\* Each instruction keeps the promise to the sleepers.
LEMMA StepWakeup == IInv /\ [Next]_vars => NoLostWakeup'
<1> SUFFICES ASSUME IInv, [Next]_vars PROVE NoLostWakeup'
    OBVIOUS
<1> USE DEF IInv, TypeOK, PCs, NoLostWakeup, Goto
<1>1. ASSUME NEW t \in Thread, CallLock(t) PROVE NoLostWakeup'
      BY <1>1 DEF CallLock
<1>2. ASSUME NEW t \in Thread, TryAcquire(t) PROVE NoLostWakeup'
      BY <1>2 DEF TryAcquire
<1>3. ASSUME NEW t \in Thread, MarkContended(t) PROVE NoLostWakeup'
      BY <1>3 DEF MarkContended
<1>4. ASSUME NEW t \in Thread, FutexWait(t) PROVE NoLostWakeup'
      BY <1>4 DEF FutexWait
<1>5. ASSUME NEW t \in Thread, SpuriousWake(t) PROVE NoLostWakeup'
      BY <1>5 DEF SpuriousWake
<1>6. ASSUME NEW t \in Thread, Unlock(t) PROVE NoLostWakeup'
      BY <1>6 DEF Unlock, MutualExclusion, WordMatchesOwner, Owns
<1>7. ASSUME NEW t \in Thread, StoreFree(t) PROVE NoLostWakeup'
      BY <1>7 DEF StoreFree
<1>8. ASSUME NEW t \in Thread, FutexWake(t) PROVE NoLostWakeup'
      BY <1>8 DEF FutexWake
<1>9. CASE UNCHANGED vars
      BY <1>9 DEF vars
<1> QED BY <1>1, <1>2, <1>3, <1>4, <1>5, <1>6, <1>7, <1>8, <1>9 DEF Next, Step

\* The inductive invariant holds in every behaviour of the mutex.
THEOREM Invariance == Spec => []IInv
<1>1. IInv /\ [Next]_vars => IInv'
      BY StepOwner, StepWakeup DEF IInv
<1> QED BY InitIInv, <1>1, PTL DEF Spec

\* The variables of Lock and Unlock keep their ranges; in particular the futex
\* word never leaves 0..2, whatever fetch_sub, exchange and store interleave.
THEOREM TypeCorrect == Spec => []TypeOK
  BY Invariance, PTL DEF IInv

\* No two threads own the mutex together.
THEOREM Exclusion == Spec => []MutualExclusion
  BY Invariance, PTL DEF IInv

\* A sleeper in FutexWait always has a wake-up coming.
THEOREM WakeupsAreKept == Spec => []NoLostWakeup
  BY Invariance, PTL DEF IInv

\* The mutex implements the abstract lock, with Status as refinement mapping.
THEOREM Refinement == Spec => ImplementsLock
<1>1. Init => A!LockInit
      BY DEF Init, A!LockInit, Status, Owns
<1>2. IInv /\ [Next]_vars => [A!LockNext]_Status
  <2> SUFFICES ASSUME IInv, [Next]_vars PROVE [A!LockNext]_Status
      OBVIOUS
  <2> USE DEF IInv, TypeOK, PCs, Status, Owns, Goto
  <2>1. ASSUME NEW t \in Thread, CallLock(t) PROVE A!Request(t)
        BY <2>1 DEF CallLock, A!Request
  <2>2. ASSUME NEW t \in Thread, TryAcquire(t) PROVE A!Grant(t) \/ UNCHANGED Status
        BY <2>2 DEF TryAcquire, A!Grant, WordMatchesOwner
  <2>3. ASSUME NEW t \in Thread, MarkContended(t) PROVE A!Grant(t) \/ UNCHANGED Status
        BY <2>3 DEF MarkContended, A!Grant, WordMatchesOwner
  <2>4. ASSUME NEW t \in Thread, FutexWait(t) PROVE UNCHANGED Status
        BY <2>4 DEF FutexWait
  <2>5. ASSUME NEW t \in Thread, SpuriousWake(t) PROVE UNCHANGED Status
        BY <2>5 DEF SpuriousWake
  <2>6. ASSUME NEW t \in Thread, Unlock(t) PROVE A!GiveBack(t) \/ UNCHANGED Status
        BY <2>6 DEF Unlock, A!GiveBack
  <2>7. ASSUME NEW t \in Thread, StoreFree(t) PROVE A!GiveBack(t)
        BY <2>7 DEF StoreFree, A!GiveBack
  <2>8. ASSUME NEW t \in Thread, FutexWake(t) PROVE UNCHANGED Status
        BY <2>8 DEF FutexWake
  <2>9. CASE UNCHANGED vars
        BY <2>9 DEF vars
  <2> QED BY <2>1, <2>2, <2>3, <2>4, <2>5, <2>6, <2>7, <2>8, <2>9
          DEF Next, Step, A!LockNext
<1> QED BY <1>1, <1>2, Invariance, PTL DEF Spec, ImplementsLock, A!LockSpec
-----------------------------------------------------------------------------
-----------------------------------------------------------------------------
\* The spin lock: its flag is set exactly while a thread holds the lock, and two
\* never do.
SpinInv ==
    /\ SL!TypeOK
    /\ atomic_lock_ = (\E t \in Thread : spinPc[t] = "cs")
    /\ \A t, u \in Thread : spinPc[t] = "cs" /\ spinPc[u] = "cs" => t = u

\* The invariant of the spin lock holds at the start and is kept by every step.
LEMMA SpinInvariance == SL!Spec => []SpinInv
<1>1. SL!Init => SpinInv
      BY DEF SL!Init, SpinInv, SL!TypeOK
<1>2. SpinInv /\ [SL!Next]_SL!vars => SpinInv'
  <2> SUFFICES ASSUME SpinInv, [SL!Next]_SL!vars PROVE SpinInv'
      OBVIOUS
  <2> USE DEF SpinInv, SL!TypeOK
  <2>1. ASSUME NEW t \in Thread, SL!CallLock(t) PROVE SpinInv'
        BY <2>1 DEF SL!CallLock
  <2>2. ASSUME NEW t \in Thread, SL!TestAndSet(t) PROVE SpinInv'
        BY <2>2 DEF SL!TestAndSet
  <2>3. ASSUME NEW t \in Thread, SL!Unlock(t) PROVE SpinInv'
        BY <2>3 DEF SL!Unlock
  <2>4. CASE UNCHANGED SL!vars
        BY <2>4 DEF SL!vars
  <2> QED BY <2>1, <2>2, <2>3, <2>4 DEF SL!Next
<1> QED BY <1>1, <1>2, PTL DEF SL!Spec

\* The spin lock implements the abstract lock: test_and_set grants it.
LEMMA SpinRefinement == SL!Spec => SL!ImplementsLock
<1>1. SL!Init => SL!A!LockInit
      BY DEF SL!Init, SL!A!LockInit, SL!Status
<1>2. SpinInv /\ [SL!Next]_SL!vars => [SL!A!LockNext]_SL!Status
  <2> SUFFICES ASSUME SpinInv, [SL!Next]_SL!vars PROVE [SL!A!LockNext]_SL!Status
      OBVIOUS
  <2> USE DEF SpinInv, SL!TypeOK, SL!Status
  <2>1. ASSUME NEW t \in Thread, SL!CallLock(t) PROVE SL!A!Request(t)
        BY <2>1 DEF SL!CallLock, SL!A!Request
  <2>2. ASSUME NEW t \in Thread, SL!TestAndSet(t) PROVE SL!A!Grant(t)
        BY <2>2 DEF SL!TestAndSet, SL!A!Grant
  <2>3. ASSUME NEW t \in Thread, SL!Unlock(t) PROVE SL!A!GiveBack(t)
        BY <2>3 DEF SL!Unlock, SL!A!GiveBack
  <2>4. CASE UNCHANGED SL!vars
        BY <2>4 DEF SL!vars
  <2> QED BY <2>1, <2>2, <2>3, <2>4 DEF SL!Next, SL!A!LockNext
<1> QED BY <1>1, <1>2, SpinInvariance, PTL DEF SL!Spec, SL!ImplementsLock, SL!A!LockSpec

-----------------------------------------------------------------------------
\* The semaphore.  The threads that have come in and not yet gone out.
Inside == {t \in Thread : semPc[t] = "in"}

\* Every place is free or taken by a thread inside.
PlacesExact == count_ + Cardinality(Inside) = N

\* A waiter's ticket has been given out and has not passed.
TicketsAhead ==
    \A t \in Thread : SE!Waiting(t) => query_pos[t] \in executing_pos_ .. (jobs_cnt_ - 1)

\* No two waiters have the same ticket.
TicketsDiffer ==
    \A t, u \in Thread :
        SE!Waiting(t) /\ SE!Waiting(u) /\ query_pos[t] = query_pos[u] => t = u

\* Every ticket that was given out and has not passed is in the hands of a waiter:
\* the turn never comes to a ticket nobody holds.
TicketsHeld ==
    /\ executing_pos_ <= jobs_cnt_
    /\ \A k \in executing_pos_ .. (jobs_cnt_ - 1) :
          \E t \in Thread : SE!Waiting(t) /\ query_pos[t] = k

\* The order of admission alone is not inductive: that the ticket due next belongs
\* to a waiter needs that all the tickets up to the last one do.
SemInv == SE!TypeOK /\ PlacesExact /\ TicketsAhead /\ TicketsDiffer /\ TicketsHeld

\* What is assumed of the semaphore's constants.
LEMMA SemConstants == IsFiniteSet(Thread) /\ N \in Nat \ {0} /\ MaxTickets \in Nat
  BY InstanceConstants DEF SE!SemaphoreConstants, SE!IsFiniteSet, IsFiniteSet

\* The same counting in the channel's module and here.
LEMMA SameCardinality == \A S : UC!Cardinality(S) = Cardinality(S)
  BY DEF UC!Cardinality, Cardinality

\* Whoever leaves a state of its own for another moves in or out of the threads
\* inside, and changes their number by one.
LEMMA InsideMoves ==
  ASSUME NEW t \in Thread, SE!TypeOK, IsFiniteSet(Thread)
  PROVE  /\ IsFiniteSet(Inside) /\ Cardinality(Inside) \in Nat
         /\ Inside' = Inside \cup {t} /\ t \notin Inside
               => Cardinality(Inside') = Cardinality(Inside) + 1
         /\ Inside' = Inside \ {t} /\ t \in Inside
               => Cardinality(Inside') = Cardinality(Inside) - 1
<1>1. IsFiniteSet(Inside)
      BY FS_Subset DEF Inside
<1> QED BY <1>1, FS_CardinalityType, FS_AddElement, FS_RemoveElement

\* Passing or going to sleep, with the ticket in hand.
LEMMA StepPassOrSleep ==
  ASSUME NEW t \in Thread, NEW ticket \in Nat, SE!TypeOK, PlacesExact,
         semPc[t] # "in", SE!PassOrSleep(t, ticket), IsFiniteSet(Thread)
  PROVE  /\ count_' \in 0..N /\ executing_pos_' \in Nat
         /\ semPc' \in [Thread -> {"out", "asleep", "woken", "in"}]
         /\ PlacesExact'
<1> USE DEF SE!TypeOK, SE!PassOrSleep
<1>1. CASE count_ # 0 /\ ticket = executing_pos_
  <2>1. Inside' = Inside \cup {t} /\ t \notin Inside
        BY <1>1 DEF Inside
  <2>2. Cardinality(Inside') = Cardinality(Inside) + 1 /\ Cardinality(Inside) \in Nat
        BY <2>1, InsideMoves
  <2> QED BY <1>1, <2>2, SemConstants DEF PlacesExact
<1>2. CASE ~(count_ # 0 /\ ticket = executing_pos_)
  <2>1. Inside' = Inside
        BY <1>2 DEF Inside
  <2> QED BY <1>2, <2>1 DEF PlacesExact
<1> QED BY <1>1, <1>2

\* Every step of the semaphore keeps its invariant.
LEMMA SemStep == SemInv /\ [SE!Next]_SE!vars => SemInv'
<1> SUFFICES ASSUME SemInv, [SE!Next]_SE!vars PROVE SemInv'
    OBVIOUS
<1>0. IsFiniteSet(Thread) /\ N \in Nat \ {0} /\ MaxTickets \in Nat
      BY SemConstants
<1> USE DEF SemInv
<1>1. ASSUME NEW t \in Thread, SE!Acquire(t) PROVE SemInv'
  <2>1. SE!TypeOK' /\ PlacesExact'
        BY <1>0, <1>1, StepPassOrSleep DEF SE!Acquire, SE!TypeOK
  <2>2. TicketsAhead' /\ TicketsDiffer'
    <3>1. \A u \in Thread : u # t => query_pos'[u] = query_pos[u] /\ semPc'[u] = semPc[u]
          BY <1>1 DEF SE!Acquire, SE!PassOrSleep, SE!TypeOK
    <3>2. SE!Waiting(t)' => executing_pos_' = executing_pos_ /\ query_pos'[t] = jobs_cnt_
          BY <1>1 DEF SE!Acquire, SE!PassOrSleep, SE!TypeOK, SE!Waiting
    <3>3. ~SE!Waiting(t)' => \A u \in Thread : ~SE!Waiting(u)
          BY <1>1 DEF SE!Acquire, SE!PassOrSleep, SE!TypeOK, SE!Waiting, TicketsAhead
    <3>4. jobs_cnt_' = jobs_cnt_ + 1 /\ executing_pos_ <= jobs_cnt_
          BY <1>1 DEF SE!Acquire, TicketsHeld
    <3> QED BY <3>1, <3>2, <3>3, <3>4 DEF SE!TypeOK, SE!Waiting, TicketsAhead, TicketsDiffer
  <2>3. TicketsHeld'
    <3>1. executing_pos_' <= jobs_cnt_'
          BY <1>1 DEF SE!Acquire, SE!PassOrSleep, SE!TypeOK, TicketsHeld
    <3>2. ASSUME NEW k \in executing_pos_' .. (jobs_cnt_' - 1)
          PROVE  \E u \in Thread : SE!Waiting(u)' /\ query_pos'[u] = k
      <4>1. executing_pos_' = executing_pos_ /\ semPc' = [semPc EXCEPT ![t] = "asleep"]
            BY <1>1, <3>2 DEF SE!Acquire, SE!PassOrSleep, SE!TypeOK
      <4>2. CASE k = jobs_cnt_
            BY <1>1, <4>1, <4>2 DEF SE!Acquire, SE!TypeOK, SE!Waiting
      <4>3. CASE k # jobs_cnt_
        <5>1. k \in executing_pos_ .. (jobs_cnt_ - 1)
              BY <1>1, <3>2, <4>1, <4>3 DEF SE!Acquire, SE!TypeOK
        <5>2. PICK u \in Thread : SE!Waiting(u) /\ query_pos[u] = k
              BY <5>1 DEF TicketsHeld
        <5>3. u # t
              BY <1>1, <5>2 DEF SE!Acquire, SE!Waiting
        <5> QED BY <1>1, <4>1, <5>2, <5>3 DEF SE!Acquire, SE!TypeOK, SE!Waiting
      <4> QED BY <4>2, <4>3
    <3> QED BY <3>1, <3>2 DEF TicketsHeld
  <2> QED BY <2>1, <2>2, <2>3
<1>2. ASSUME NEW t \in Thread, SE!WakeUp(t) PROVE SemInv'
  <2>1. SE!TypeOK' /\ PlacesExact'
        BY <1>0, <1>2, StepPassOrSleep DEF SE!WakeUp, SE!TypeOK
  <2>2. TicketsAhead' /\ TicketsDiffer'
        BY <1>2 DEF SE!WakeUp, SE!PassOrSleep, SE!TypeOK, SE!Waiting, TicketsAhead, TicketsDiffer
  <2>3. TicketsHeld'
    <3>1. executing_pos_' <= jobs_cnt_'
          BY <1>2 DEF SE!WakeUp, SE!PassOrSleep, SE!TypeOK, TicketsHeld, TicketsAhead, SE!Waiting
    <3>2. ASSUME NEW k \in executing_pos_' .. (jobs_cnt_' - 1)
          PROVE  \E u \in Thread : SE!Waiting(u)' /\ query_pos'[u] = k
      <4>1. k \in executing_pos_ .. (jobs_cnt_ - 1)
            BY <1>2, <3>2 DEF SE!WakeUp, SE!PassOrSleep, SE!TypeOK
      <4>2. PICK u \in Thread : SE!Waiting(u) /\ query_pos[u] = k
            BY <4>1 DEF TicketsHeld
      <4> QED BY <1>2, <3>2, <4>2 DEF SE!WakeUp, SE!PassOrSleep, SE!TypeOK, SE!Waiting
    <3> QED BY <3>1, <3>2 DEF TicketsHeld
  <2> QED BY <2>1, <2>2, <2>3
<1>3. ASSUME NEW t \in Thread, SE!SpuriousWakeup(t) PROVE SemInv'
  <2>1. Inside' = Inside
        BY <1>3 DEF SE!SpuriousWakeup, SE!TypeOK, Inside
  <2>2. \A u \in Thread : SE!Waiting(u)' <=> SE!Waiting(u)
        BY <1>3 DEF SE!SpuriousWakeup, SE!TypeOK, SE!Waiting
  <2> QED BY <1>3, <2>1, <2>2
          DEF SE!SpuriousWakeup, SE!TypeOK, PlacesExact, TicketsAhead, TicketsDiffer, TicketsHeld
<1>4. ASSUME NEW t \in Thread, SE!Release(t) PROVE SemInv'
  <2>1. Inside' = Inside \ {t} /\ t \in Inside
        BY <1>4 DEF SE!Release, SE!TypeOK, Inside
  <2>2. Cardinality(Inside') = Cardinality(Inside) - 1 /\ Cardinality(Inside) \in Nat
        BY <1>0, <2>1, InsideMoves
  <2>3. Cardinality(Inside') \in Nat
        BY <1>0, <2>1, FS_Subset, FS_CardinalityType DEF Inside
  <2>4. \A u \in Thread : SE!Waiting(u)' <=> SE!Waiting(u)
        BY <1>4 DEF SE!Release, SE!TypeOK, SE!Waiting
  <2>5. SE!TypeOK' /\ PlacesExact'
        BY <1>0, <1>4, <2>2, <2>3 DEF SE!Release, SE!TypeOK, PlacesExact
  <2> QED BY <1>4, <2>4, <2>5 DEF SE!Release, TicketsAhead, TicketsDiffer, TicketsHeld
<1>5. CASE UNCHANGED SE!vars
      BY <1>5 DEF SE!vars, SE!TypeOK, SE!Waiting, Inside,
                  PlacesExact, TicketsAhead, TicketsDiffer, TicketsHeld
<1> QED BY <1>1, <1>2, <1>3, <1>4, <1>5 DEF SE!Next

\* The invariant of the semaphore holds in all its behaviours.
LEMMA SemInvariance == SE!Spec => []SemInv
<1>1. SE!Init => SemInv
  <2> SUFFICES ASSUME SE!Init PROVE SemInv
      OBVIOUS
  <2>1. Inside = {}
        BY DEF SE!Init, Inside
  <2>2. Cardinality(Inside) = 0
        BY <2>1, FS_EmptySet
  <2> QED BY <2>2, SemConstants
          DEF SE!Init, SemInv, SE!TypeOK, SE!Waiting,
              PlacesExact, TicketsAhead, TicketsDiffer, TicketsHeld
<1> QED BY <1>1, SemStep, PTL DEF SE!Spec

\* Threads pass the semaphore in the order of their calls.
LEMMA SemOrder == SemInv => SE!FirstComeFirstServed
<1> SUFFICES ASSUME SemInv PROVE SE!FirstComeFirstServed
    OBVIOUS
<1> USE DEF SemInv, SE!TypeOK
<1>1. \A t \in Thread : SE!Waiting(t) => query_pos[t] >= executing_pos_
      BY DEF TicketsAhead
<1>2. ASSUME NEW t \in Thread, SE!Waiting(t)
      PROVE  \E u \in Thread : SE!Waiting(u) /\ query_pos[u] = executing_pos_
  <2>1. executing_pos_ \in executing_pos_ .. (jobs_cnt_ - 1)
        BY <1>2 DEF TicketsAhead
  <2> QED BY <2>1 DEF TicketsHeld
<1> QED BY <1>1, <1>2 DEF TicketsDiffer, SE!FirstComeFirstServed

-----------------------------------------------------------------------------
\* The readers-writer spin lock: the word is exact, a writer is alone, and a thread
\* in LockRead compares with a word that has no writer's bit.
RWSpinInv ==
    /\ RS!TypeOK
    /\ rw_lock_ = 2 * Cardinality(RS!Readers) + Cardinality(RS!Writers)
    /\ RS!WritersAlone
    /\ \A t \in Thread : rwsPc[t] = "rlock" => rwsLock[t] % 2 = 0

\* What the word says of the threads: even without a writer, 1 with one, and 0 only
\* when nobody holds the lock.
LEMMA WordMeans ==
  ASSUME RWSpinInv
  PROVE  /\ IsFiniteSet(RS!Readers) /\ Cardinality(RS!Readers) \in Nat
         /\ RS!Writers = {} => rw_lock_ = 2 * Cardinality(RS!Readers)
         /\ RS!Writers # {} => rw_lock_ = 1
         /\ rw_lock_ = 0 => RS!Readers = {} /\ RS!Writers = {}
<1> USE DEF RWSpinInv
<1>1. IsFiniteSet(RS!Readers)
      BY SemConstants, FS_Subset DEF RS!Readers, RS!At
<1>2. Cardinality(RS!Readers) \in Nat /\ (Cardinality(RS!Readers) = 0 <=> RS!Readers = {})
      BY <1>1, FS_CardinalityType, FS_EmptySet
<1>3. ASSUME RS!Writers = {} PROVE rw_lock_ = 2 * Cardinality(RS!Readers)
      BY <1>2, <1>3, FS_EmptySet
<1>4. ASSUME RS!Writers # {} PROVE rw_lock_ = 1
  <2>1. PICK w \in RS!Writers : RS!Readers = {} /\ RS!Writers = {w}
        BY <1>4 DEF RS!WritersAlone
  <2>2. Cardinality({w}) = 1 /\ Cardinality({}) = 0
        BY FS_Singleton, FS_EmptySet
  <2> QED BY <2>1, <2>2
<1> QED BY <1>1, <1>2, <1>3, <1>4

\* Bit 0 of the word is cleared by shifting it out and back.
LEMMA NoWriterBitEven == \A v \in Nat : RS!NoWriterBit(v) \in Nat /\ RS!NoWriterBit(v) % 2 = 0
  BY DEF RS!NoWriterBit

\* Every step of the spin lock keeps its invariant, and is a step of the abstract
\* readers-writer lock or changes neither the readers nor the writers.
LEMMA RWSpinStep ==
  ASSUME RWSpinInv, [RS!Next]_RS!vars
  PROVE  RWSpinInv' /\ [RS!Abs!RWNext]_<<RS!Readers, RS!Writers>>
<1> DEFINE Goal == RWSpinInv' /\ [RS!Abs!RWNext]_<<RS!Readers, RS!Writers>>
<1> USE DEF RS!Goto, RS!Saw, RS!PCs
<1>0. RS!TypeOK
      BY DEF RWSpinInv
\* Steps that move t between places outside the lock, or inside it.
<1>1. ASSUME RS!TypeOK', UNCHANGED rw_lock_,
             UNCHANGED <<RS!Readers, RS!Writers>>,
             \A t \in Thread : rwsPc'[t] = "rlock" => rwsLock'[t] % 2 = 0
      PROVE  Goal
      BY <1>1 DEF RWSpinInv, RS!WritersAlone
<1>2. ASSUME NEW t \in Thread, RS!LockRead(t) PROVE Goal
  <2>1. UNCHANGED <<RS!Readers, RS!Writers>>
        BY <1>0, <1>2 DEF RS!LockRead, RS!Readers, RS!Writers, RS!At, RS!TypeOK
  <2> QED BY <1>0, <1>1, <1>2, <2>1, NoWriterBitEven DEF RS!LockRead, RWSpinInv, RS!TypeOK
<1>3. ASSUME NEW t \in Thread, RS!LockWrite(t) PROVE Goal
  <2>1. UNCHANGED <<RS!Readers, RS!Writers>>
        BY <1>0, <1>3 DEF RS!LockWrite, RS!Readers, RS!Writers, RS!At, RS!TypeOK
  <2> QED BY <1>0, <1>1, <1>3, <2>1 DEF RS!LockWrite, RWSpinInv, RS!TypeOK
<1>4. ASSUME NEW t \in Thread, RS!LockReadSwap(t) PROVE Goal
  <2>1. CASE /\ rw_lock_ = rwsLock[t] /\ rw_lock_' = 2 * (rwsLock[t] \div 2 + 1)
             /\ rwsPc' = [rwsPc EXCEPT ![t] = "reading"]
             /\ rwsLock' = [rwsLock EXCEPT ![t] = 0]
    <3>1. rw_lock_ % 2 = 0 /\ rw_lock_ \in Nat
          BY <1>4, <2>1 DEF RWSpinInv, RS!LockReadSwap, RS!TypeOK
    <3>2. RS!Writers = {}
          BY <3>1, WordMeans
    <3>3. RS!Writers' = RS!Writers /\ RS!Readers' = RS!Readers \cup {t} /\ t \notin RS!Readers
          BY <1>0, <1>4, <2>1 DEF RS!LockReadSwap, RS!Readers, RS!Writers, RS!At, RS!TypeOK
    <3>4. Cardinality(RS!Readers') = Cardinality(RS!Readers) + 1
          BY <3>3, WordMeans, FS_AddElement
    <3>5. rw_lock_' = rw_lock_ + 2
          BY <2>1, <3>1
    <3>6. rw_lock_' = 2 * Cardinality(RS!Readers') + Cardinality(RS!Writers')
          BY <3>2, <3>3, <3>4, <3>5, WordMeans, FS_EmptySet
    <3>7. RWSpinInv'
          BY <1>0, <2>1, <3>1, <3>2, <3>3, <3>5, <3>6 DEF RWSpinInv, RS!WritersAlone, RS!TypeOK
    <3>8. RS!Abs!EnterRead(t)
          BY <3>2, <3>3 DEF RS!Abs!EnterRead
    <3> QED BY <3>7, <3>8 DEF RS!Abs!RWNext
  <2>2. CASE rwsLock' = [rwsLock EXCEPT ![t] = RS!NoWriterBit(rw_lock_)] /\ UNCHANGED <<rw_lock_, rwsPc>>
    <3>1. UNCHANGED <<RS!Readers, RS!Writers>>
          BY <2>2 DEF RS!Readers, RS!Writers, RS!At
    <3> QED BY <1>0, <1>1, <2>2, <3>1, NoWriterBitEven DEF RWSpinInv, RS!TypeOK
  <2> QED BY <1>4, <2>1, <2>2 DEF RS!LockReadSwap
<1>5. ASSUME NEW t \in Thread, RS!UnlockRead(t) PROVE Goal
  <2>1. UNCHANGED <<RS!Readers, RS!Writers>>
        BY <1>0, <1>5 DEF RS!UnlockRead, RS!Readers, RS!Writers, RS!At, RS!TypeOK
  <2> QED BY <1>0, <1>1, <1>5, <2>1 DEF RS!UnlockRead, RWSpinInv, RS!TypeOK
<1>6. ASSUME NEW t \in Thread, RS!UnlockReadSwap(t) PROVE Goal
  <2>1. CASE /\ rw_lock_ = rwsLock[t] /\ rw_lock_' = 2 * (rwsLock[t] \div 2 - 1)
             /\ rwsPc' = [rwsPc EXCEPT ![t] = "idle"]
             /\ rwsLock' = [rwsLock EXCEPT ![t] = 0]
    <3>1. t \in RS!Readers
          BY <1>6 DEF RS!UnlockReadSwap, RS!Readers, RS!At
    <3>2. RS!Writers = {}
          BY <3>1 DEF RWSpinInv, RS!WritersAlone
    <3>3. RS!Writers' = RS!Writers /\ RS!Readers' = RS!Readers \ {t}
          BY <1>0, <1>6, <2>1 DEF RS!UnlockReadSwap, RS!Readers, RS!Writers, RS!At, RS!TypeOK
    <3>4. /\ Cardinality(RS!Readers') = Cardinality(RS!Readers) - 1
          /\ IsFiniteSet(RS!Readers')
          BY <3>1, <3>3, WordMeans, FS_RemoveElement
    <3>5. rw_lock_' = 2 * Cardinality(RS!Readers')
          BY <2>1, <3>2, <3>4, WordMeans
    <3>6. rw_lock_' = 2 * Cardinality(RS!Readers') + Cardinality(RS!Writers') /\ rw_lock_' \in Nat
          BY <3>2, <3>3, <3>4, <3>5, FS_EmptySet, FS_CardinalityType
    <3>7. RWSpinInv'
          BY <1>0, <2>1, <3>2, <3>3, <3>6 DEF RWSpinInv, RS!WritersAlone, RS!TypeOK
    <3>8. RS!Abs!LeaveRead(t)
          BY <3>1, <3>3 DEF RS!Abs!LeaveRead
    <3> QED BY <3>7, <3>8 DEF RS!Abs!RWNext
  <2>2. CASE rwsLock' = [rwsLock EXCEPT ![t] = rw_lock_] /\ UNCHANGED <<rw_lock_, rwsPc>>
    <3>1. UNCHANGED <<RS!Readers, RS!Writers>>
          BY <2>2 DEF RS!Readers, RS!Writers, RS!At
    <3> QED BY <1>0, <1>1, <1>6, <2>2, <3>1 DEF RS!UnlockReadSwap, RWSpinInv, RS!TypeOK
  <2> QED BY <1>6, <2>1, <2>2 DEF RS!UnlockReadSwap
<1>7. ASSUME NEW t \in Thread, RS!LockWriteSwap(t) PROVE Goal
  <2>1. RS!Readers = {} /\ RS!Writers = {}
        BY <1>7, WordMeans DEF RS!LockWriteSwap
  <2>2. RS!Readers' = {} /\ RS!Writers' = {t}
        BY <1>0, <1>7, <2>1 DEF RS!LockWriteSwap, RS!Readers, RS!Writers, RS!At, RS!TypeOK
  <2>5. Cardinality({t}) = 1 /\ Cardinality({}) = 0
        BY FS_Singleton, FS_EmptySet
  <2>3. RWSpinInv'
        BY <1>0, <1>7, <2>2, <2>5
        DEF RS!LockWriteSwap, RWSpinInv, RS!WritersAlone, RS!TypeOK
  <2>4. RS!Abs!EnterWrite(t)
        BY <2>1, <2>2 DEF RS!Abs!EnterWrite
  <2> QED BY <2>3, <2>4 DEF RS!Abs!RWNext
<1>8. ASSUME NEW t \in Thread, RS!UnlockWrite(t) PROVE Goal
  <2>1. RS!Readers = {} /\ RS!Writers = {t}
        BY <1>8 DEF RS!UnlockWrite, RWSpinInv, RS!WritersAlone, RS!Writers, RS!At
  <2>2. RS!Readers' = {} /\ RS!Writers' = {}
        BY <1>0, <1>8, <2>1 DEF RS!UnlockWrite, RS!Readers, RS!Writers, RS!At, RS!TypeOK
  <2>3. RWSpinInv'
        BY <1>0, <1>8, <2>2, FS_EmptySet
        DEF RS!UnlockWrite, RWSpinInv, RS!WritersAlone, RS!TypeOK
  <2>4. RS!Abs!LeaveWrite(t)
        BY <2>1, <2>2 DEF RS!Abs!LeaveWrite
  <2> QED BY <2>3, <2>4 DEF RS!Abs!RWNext
<1>9. CASE UNCHANGED RS!vars
  <2>1. UNCHANGED <<RS!Readers, RS!Writers>>
        BY <1>9 DEF RS!vars, RS!Readers, RS!Writers, RS!At
  <2> QED BY <1>0, <1>1, <1>9, <2>1 DEF RS!vars, RWSpinInv, RS!TypeOK
<1> QED BY <1>2, <1>3, <1>4, <1>5, <1>6, <1>7, <1>8, <1>9 DEF RS!Next, RS!Step

\* The readers-writer spin lock admits many readers or one writer.
LEMMA RWSpinRefinement == RS!Spec => RS!ImplementsRWLock
<1>1. RS!Init => RWSpinInv /\ RS!Abs!RWInit
  <2> SUFFICES ASSUME RS!Init PROVE RWSpinInv /\ RS!Abs!RWInit
      OBVIOUS
  <2>1. RS!Readers = {} /\ RS!Writers = {}
        BY DEF RS!Init, RS!Readers, RS!Writers, RS!At
  <2> QED BY <2>1, FS_EmptySet
          DEF RS!Init, RWSpinInv, RS!TypeOK, RS!PCs, RS!WritersAlone, RS!Abs!RWInit
<1>2. RWSpinInv /\ [RS!Next]_RS!vars => RWSpinInv' /\ [RS!Abs!RWNext]_<<RS!Readers, RS!Writers>>
      BY RWSpinStep
<1> QED BY <1>1, <1>2, PTL DEF RS!Spec, RS!ImplementsRWLock, RS!Abs!RWSpec

-----------------------------------------------------------------------------
\* The blocking readers-writer lock.  The threads inside Read or Write that have
\* not been let in.
BlockedReaders == RW!At("rsleep") \cup RW!At("rwoken")
BlockedWriters == RW!At("wsleep") \cup RW!At("wwoken")

\* Each of the four counters counts its threads, and a writer is alone.
RWInv ==
    /\ RW!TypeOK
    /\ readers_cnt_ = Cardinality(RW!At("read"))
    /\ writers_cnt_ = Cardinality(RW!At("write"))
    /\ blocked_readers_cnt_ = Cardinality(BlockedReaders)
    /\ blocked_writers_cnt_ = Cardinality(BlockedWriters)
    /\ writers_cnt_ = 0 \/ (writers_cnt_ = 1 /\ readers_cnt_ = 0)

\* Counting threads: one more, one less, none.
LEMMA Counting ==
  ASSUME NEW S \in SUBSET RW!Caller
  PROVE  /\ Cardinality(S) \in Nat
         /\ Cardinality(S) = 0 <=> S = {}
         /\ \A t : t \notin S => Cardinality(S \cup {t}) = Cardinality(S) + 1
         /\ \A t : t \in S => Cardinality(S \ {t}) = Cardinality(S) - 1
<1>1. IsFiniteSet(RW!Caller)
      BY RWThreads, FS_Union DEF RW!Caller
<1>2. IsFiniteSet(S)
      BY <1>1, FS_Subset
<1> QED BY <1>2, FS_CardinalityType, FS_EmptySet, FS_AddElement, FS_RemoveElement

\* The four groups are sets of threads.
LEMMA Groups ==
  /\ RW!At("read") \in SUBSET RW!Caller /\ RW!At("write") \in SUBSET RW!Caller
  /\ BlockedReaders \in SUBSET RW!Caller /\ BlockedWriters \in SUBSET RW!Caller
  BY DEF RW!At, BlockedReaders, BlockedWriters

\* Every step of Read and Write keeps the counters exact, and is a step of the
\* abstract readers-writer lock or changes neither the readers nor the writers.
LEMMA RWStep ==
  ASSUME RWInv, [RW!Next]_RW!vars
  PROVE  RWInv' /\ [RW!Abs!RWNext]_<<RW!At("read"), RW!At("write")>>
<1> DEFINE R == RW!At("read")
           W == RW!At("write")
           Goal == RWInv' /\ [RW!Abs!RWNext]_<<RW!At("read"), RW!At("write")>>
<1>0. RW!TypeOK
      BY DEF RWInv
<1>c. /\ readers_cnt_ \in Nat /\ writers_cnt_ \in Nat
      /\ blocked_readers_cnt_ \in Nat /\ blocked_writers_cnt_ \in Nat
      /\ readers_cnt_ = Cardinality(R) /\ writers_cnt_ = Cardinality(W)
      /\ blocked_readers_cnt_ = Cardinality(BlockedReaders)
      /\ blocked_writers_cnt_ = Cardinality(BlockedWriters)
      /\ writers_cnt_ = 0 \/ (writers_cnt_ = 1 /\ readers_cnt_ = 0)
      /\ readers_cnt_ = 0 <=> R = {}
      /\ writers_cnt_ = 0 <=> W = {}
      BY Groups, Counting DEF RWInv, RW!TypeOK
\* A thread that starts to wait, to be woken, or to wait again.
<1>1. ASSUME NEW t \in RW!Caller, RW!Read(t) PROVE Goal
  <2>1. CASE writers_cnt_ = 0
    <3>1. /\ R' = R \cup {t} /\ t \notin R /\ W' = W
          /\ BlockedReaders' = BlockedReaders /\ BlockedWriters' = BlockedWriters
          /\ rwPc' \in [RW!Caller -> RW!PCs]
          BY <1>0, <1>1, <2>1
          DEF RW!Read, RW!ReadOrSleep, RW!At, RW!TypeOK, RW!PCs, BlockedReaders, BlockedWriters
    <3>2. Cardinality(R') = Cardinality(R) + 1
          BY <3>1, Groups, Counting
    <3>3. /\ readers_cnt_' = readers_cnt_ + 1 /\ blocked_readers_cnt_' = blocked_readers_cnt_
          /\ UNCHANGED <<writers_cnt_, blocked_writers_cnt_>>
          BY <1>1, <1>c, <2>1 DEF RW!Read, RW!ReadOrSleep
    <3>4. RWInv'
          BY <1>c, <2>1, <3>1, <3>2, <3>3 DEF RWInv, RW!TypeOK
    <3>5. RW!Abs!EnterRead(t)
          BY <1>c, <2>1, <3>1 DEF RW!Abs!EnterRead
    <3> QED BY <3>4, <3>5 DEF RW!Abs!RWNext
  <2>2. CASE writers_cnt_ # 0
    <3>1. /\ R' = R /\ W' = W
          /\ BlockedReaders' = BlockedReaders \cup {t} /\ t \notin BlockedReaders
          /\ BlockedWriters' = BlockedWriters
          /\ rwPc' \in [RW!Caller -> RW!PCs]
          BY <1>0, <1>1, <2>2
          DEF RW!Read, RW!ReadOrSleep, RW!At, RW!TypeOK, RW!PCs, BlockedReaders, BlockedWriters
    <3>2. Cardinality(BlockedReaders') = Cardinality(BlockedReaders) + 1
          BY <3>1, Groups, Counting
    <3>3. /\ blocked_readers_cnt_' = blocked_readers_cnt_ + 1
          /\ UNCHANGED <<readers_cnt_, writers_cnt_, blocked_writers_cnt_>>
          BY <1>1, <2>2 DEF RW!Read, RW!ReadOrSleep
    <3> QED BY <1>c, <3>1, <3>2, <3>3 DEF RWInv, RW!TypeOK
  <2> QED BY <2>1, <2>2
<1>2. ASSUME NEW t \in RW!Caller, RW!ReadWoken(t) PROVE Goal
  <2>1. CASE writers_cnt_ = 0
    <3>1. /\ R' = R \cup {t} /\ t \notin R /\ W' = W
          /\ BlockedReaders' = BlockedReaders \ {t} /\ t \in BlockedReaders
          /\ BlockedWriters' = BlockedWriters
          /\ rwPc' \in [RW!Caller -> RW!PCs]
          BY <1>0, <1>2, <2>1
          DEF RW!ReadWoken, RW!ReadOrSleep, RW!At, RW!TypeOK, RW!PCs, BlockedReaders, BlockedWriters
    <3>2. /\ Cardinality(R') = Cardinality(R) + 1
          /\ Cardinality(BlockedReaders') = Cardinality(BlockedReaders) - 1
          /\ Cardinality(BlockedReaders \ {t}) \in Nat
          BY <3>1, Groups, Counting
    <3>3. /\ readers_cnt_' = readers_cnt_ + 1 /\ blocked_readers_cnt_' = blocked_readers_cnt_ - 1
          /\ UNCHANGED <<writers_cnt_, blocked_writers_cnt_>>
          BY <1>2, <1>c, <2>1 DEF RW!ReadWoken, RW!ReadOrSleep
    <3>4. RWInv'
          BY <1>c, <2>1, <3>1, <3>2, <3>3 DEF RWInv, RW!TypeOK
    <3>5. RW!Abs!EnterRead(t)
          BY <1>c, <2>1, <3>1 DEF RW!Abs!EnterRead
    <3> QED BY <3>4, <3>5 DEF RW!Abs!RWNext
  <2>2. CASE writers_cnt_ # 0
    <3>1. /\ R' = R /\ W' = W
          /\ BlockedReaders' = BlockedReaders /\ BlockedWriters' = BlockedWriters
          /\ rwPc' \in [RW!Caller -> RW!PCs]
          BY <1>0, <1>2, <2>2
          DEF RW!ReadWoken, RW!ReadOrSleep, RW!At, RW!TypeOK, RW!PCs, BlockedReaders, BlockedWriters
    <3>2. /\ blocked_readers_cnt_' = blocked_readers_cnt_
          /\ UNCHANGED <<readers_cnt_, writers_cnt_, blocked_writers_cnt_>>
          BY <1>2, <1>c, <2>2 DEF RW!ReadWoken, RW!ReadOrSleep
    <3> QED BY <1>c, <3>1, <3>2 DEF RWInv, RW!TypeOK
  <2> QED BY <2>1, <2>2
<1>3. ASSUME NEW t \in RW!Caller, RW!Write(t) PROVE Goal
  <2>1. CASE readers_cnt_ = 0 /\ writers_cnt_ = 0
    <3>1. /\ W' = W \cup {t} /\ t \notin W /\ R' = R
          /\ BlockedReaders' = BlockedReaders /\ BlockedWriters' = BlockedWriters
          /\ rwPc' \in [RW!Caller -> RW!PCs]
          BY <1>0, <1>3, <2>1
          DEF RW!Write, RW!WriteOrSleep, RW!At, RW!TypeOK, RW!PCs, BlockedReaders, BlockedWriters
    <3>2. Cardinality(W') = Cardinality(W) + 1
          BY <3>1, Groups, Counting
    <3>3. /\ writers_cnt_' = writers_cnt_ + 1 /\ blocked_writers_cnt_' = blocked_writers_cnt_
          /\ UNCHANGED <<readers_cnt_, blocked_readers_cnt_>>
          BY <1>3, <1>c, <2>1 DEF RW!Write, RW!WriteOrSleep
    <3>4. RWInv'
          BY <1>c, <2>1, <3>1, <3>2, <3>3 DEF RWInv, RW!TypeOK
    <3>5. RW!Abs!EnterWrite(t)
          BY <1>c, <2>1, <3>1 DEF RW!Abs!EnterWrite
    <3> QED BY <3>4, <3>5 DEF RW!Abs!RWNext
  <2>2. CASE ~(readers_cnt_ = 0 /\ writers_cnt_ = 0)
    <3>1. /\ R' = R /\ W' = W
          /\ BlockedWriters' = BlockedWriters \cup {t} /\ t \notin BlockedWriters
          /\ BlockedReaders' = BlockedReaders
          /\ rwPc' \in [RW!Caller -> RW!PCs]
          BY <1>0, <1>3, <2>2
          DEF RW!Write, RW!WriteOrSleep, RW!At, RW!TypeOK, RW!PCs, BlockedReaders, BlockedWriters
    <3>2. Cardinality(BlockedWriters') = Cardinality(BlockedWriters) + 1
          BY <3>1, Groups, Counting
    <3>3. /\ blocked_writers_cnt_' = blocked_writers_cnt_ + 1
          /\ UNCHANGED <<readers_cnt_, writers_cnt_, blocked_readers_cnt_>>
          BY <1>3, <2>2 DEF RW!Write, RW!WriteOrSleep
    <3> QED BY <1>c, <3>1, <3>2, <3>3 DEF RWInv, RW!TypeOK
  <2> QED BY <2>1, <2>2
<1>4. ASSUME NEW t \in RW!Caller, RW!WriteWoken(t) PROVE Goal
  <2>1. CASE readers_cnt_ = 0 /\ writers_cnt_ = 0
    <3>1. /\ W' = W \cup {t} /\ t \notin W /\ R' = R
          /\ BlockedWriters' = BlockedWriters \ {t} /\ t \in BlockedWriters
          /\ BlockedReaders' = BlockedReaders
          /\ rwPc' \in [RW!Caller -> RW!PCs]
          BY <1>0, <1>4, <2>1
          DEF RW!WriteWoken, RW!WriteOrSleep, RW!At, RW!TypeOK, RW!PCs, BlockedReaders, BlockedWriters
    <3>2. /\ Cardinality(W') = Cardinality(W) + 1
          /\ Cardinality(BlockedWriters') = Cardinality(BlockedWriters) - 1
          /\ Cardinality(BlockedWriters \ {t}) \in Nat
          BY <3>1, Groups, Counting
    <3>3. /\ writers_cnt_' = writers_cnt_ + 1 /\ blocked_writers_cnt_' = blocked_writers_cnt_ - 1
          /\ UNCHANGED <<readers_cnt_, blocked_readers_cnt_>>
          BY <1>4, <1>c, <2>1 DEF RW!WriteWoken, RW!WriteOrSleep
    <3>4. RWInv'
          BY <1>c, <2>1, <3>1, <3>2, <3>3 DEF RWInv, RW!TypeOK
    <3>5. RW!Abs!EnterWrite(t)
          BY <1>c, <2>1, <3>1 DEF RW!Abs!EnterWrite
    <3> QED BY <3>4, <3>5 DEF RW!Abs!RWNext
  <2>2. CASE ~(readers_cnt_ = 0 /\ writers_cnt_ = 0)
    <3>1. /\ R' = R /\ W' = W
          /\ BlockedReaders' = BlockedReaders /\ BlockedWriters' = BlockedWriters
          /\ rwPc' \in [RW!Caller -> RW!PCs]
          BY <1>0, <1>4, <2>2
          DEF RW!WriteWoken, RW!WriteOrSleep, RW!At, RW!TypeOK, RW!PCs, BlockedReaders, BlockedWriters
    <3>2. /\ blocked_writers_cnt_' = blocked_writers_cnt_
          /\ UNCHANGED <<readers_cnt_, writers_cnt_, blocked_readers_cnt_>>
          BY <1>4, <1>c, <2>2 DEF RW!WriteWoken, RW!WriteOrSleep
    <3> QED BY <1>c, <3>1, <3>2 DEF RWInv, RW!TypeOK
  <2> QED BY <2>1, <2>2
<1>5. ASSUME NEW t \in RW!Caller, RW!SpuriousWakeup(t) PROVE Goal
  <2>1. /\ R' = R /\ W' = W
        /\ BlockedReaders' = BlockedReaders /\ BlockedWriters' = BlockedWriters
        /\ rwPc' \in [RW!Caller -> RW!PCs]
        BY <1>0, <1>5
        DEF RW!SpuriousWakeup, RW!At, RW!TypeOK, RW!PCs, BlockedReaders, BlockedWriters
  <2> QED BY <1>5, <1>c, <2>1 DEF RW!SpuriousWakeup, RW!cnts, RWInv, RW!TypeOK
<1>6. ASSUME NEW t \in RW!Caller, RW!EndRead(t) PROVE Goal
  <2>1. /\ R' = R \ {t} /\ t \in R /\ W' = W
        /\ BlockedReaders' = BlockedReaders /\ BlockedWriters' = BlockedWriters
        /\ rwPc' \in [RW!Caller -> RW!PCs]
        BY <1>0, <1>6
        DEF RW!EndRead, RW!LeaveNotifyWriter, RW!Leave, RW!At, RW!TypeOK, RW!PCs,
            BlockedReaders, BlockedWriters
  <2>2. Cardinality(R') = Cardinality(R) - 1 /\ Cardinality(R \ {t}) \in Nat
        BY <2>1, Groups, Counting
  <2>3. RWInv'
        BY <1>6, <1>c, <2>1, <2>2 DEF RW!EndRead, RWInv, RW!TypeOK
  <2>4. RW!Abs!LeaveRead(t)
        BY <2>1 DEF RW!Abs!LeaveRead
  <2> QED BY <2>3, <2>4 DEF RW!Abs!RWNext
<1>7. ASSUME NEW t \in RW!Caller, RW!EndWrite(t) PROVE Goal
  <2>1. /\ W' = W \ {t} /\ t \in W /\ R' = R
        /\ BlockedReaders' = BlockedReaders /\ BlockedWriters' = BlockedWriters
        /\ rwPc' \in [RW!Caller -> RW!PCs]
        BY <1>0, <1>7
        DEF RW!EndWrite, RW!LeaveNotifyWriter, RW!LeaveNotifyReaders, RW!Leave, RW!At, RW!TypeOK,
            RW!PCs, BlockedReaders, BlockedWriters
  <2>2. Cardinality(W') = Cardinality(W) - 1 /\ Cardinality(W \ {t}) \in Nat
        BY <2>1, Groups, Counting
  <2>3. RWInv'
        BY <1>7, <1>c, <2>1, <2>2 DEF RW!EndWrite, RWInv, RW!TypeOK
  <2>4. RW!Abs!LeaveWrite(t)
        BY <2>1 DEF RW!Abs!LeaveWrite
  <2> QED BY <2>3, <2>4 DEF RW!Abs!RWNext
<1>8. CASE UNCHANGED RW!vars
      BY <1>8 DEF RW!vars, RW!cnts, RWInv, RW!TypeOK, RW!At, BlockedReaders, BlockedWriters
<1> QED BY <1>1, <1>2, <1>3, <1>4, <1>5, <1>6, <1>7, <1>8 DEF RW!Next, RW!Step, RW!Caller

\* The blocking readers-writer lock admits many readers or one writer.
LEMMA RWRefinement == RW!Spec => RW!ImplementsRWLock
<1>1. RW!Init => RWInv /\ RW!Abs!RWInit
  <2> SUFFICES ASSUME RW!Init PROVE RWInv /\ RW!Abs!RWInit
      OBVIOUS
  <2>1. /\ RW!At("read") = {} /\ RW!At("write") = {}
        /\ BlockedReaders = {} /\ BlockedWriters = {}
        BY DEF RW!Init, RW!At, BlockedReaders, BlockedWriters
  <2> QED BY <2>1, FS_EmptySet DEF RW!Init, RWInv, RW!TypeOK, RW!PCs, RW!Abs!RWInit
<1>2. RWInv /\ [RW!Next]_RW!vars => RWInv' /\ [RW!Abs!RWNext]_<<RW!At("read"), RW!At("write")>>
      BY RWStep
<1> QED BY <1>1, <1>2, PTL DEF RW!Spec, RW!ImplementsRWLock, RW!Abs!RWSpec

-----------------------------------------------------------------------------
\* The unbuffered channel.  A sender inside Send that has not been let out.
Offering(s) == chanPc[s] \in {"asleep", "woken"}

\* Elements are numbered by the calls that were made.
NumbersGiven == \A e \in taken : e[2] < calls[e[1]]

\* e is what its sender waits with, and has not been received.
Offered(e) == /\ Offering(e[1]) /\ is_received[e[1]] = FALSE
              /\ e[2] = calls[e[1]] - 1

\* While the channel is open, an element in the queue is the one its sender waits
\* with, it has not been received, and no sender is queued twice.
QueuedOffers ==
    ~is_closed_ =>
       /\ \A i \in 1..Len(queue_) : Offered(queue_[i])
       /\ \A i, j \in 1..Len(queue_) : queue_[i][1] = queue_[j][1] => i = j

\* The flag of a call says whether its value was taken; a call that throws left its
\* value untaken; and Send throws only in a closed channel.
FlagsTrue ==
    \A s \in Sender :
       /\ Offering(s) => calls[s] > 0 /\ (is_received[s] <=> <<s, calls[s] - 1>> \in taken)
       /\ chanPc[s] = "failed" => is_closed_ /\ <<s, calls[s] - 1>> \notin taken

\* The rendezvous needs to know, besides what has been returned, what the flags of
\* the waiting senders mean and which elements are still in the queue.
ChanInv == UC!TypeOK /\ NumbersGiven /\ QueuedOffers /\ FlagsTrue /\ UC!Rendezvous

\* What is in the queue has a sender and a number.
LEMMA Elements ==
  ASSUME UC!TypeOK
  PROVE  /\ Len(queue_) \in Nat
         /\ \A i \in 1..Len(queue_) :
               /\ queue_[i] \in Sender \X Nat /\ queue_[i][1] \in Sender /\ queue_[i][2] \in Nat
               /\ queue_[i] = <<queue_[i][1], queue_[i][2]>>
  BY DEF UC!TypeOK, UC!Element

\* What notify_one and the step of the thread that calls it leave in the senders'
\* program counters.
LEMMA NotifyKeepsSenders ==
  ASSUME UC!TypeOK, NEW s \in Sender, NEW l \in {"idle", "asleep", "woken", "failed"},
         UC!LeaveAndNotifyReceiver(s, l)
  PROVE  /\ chanPc' \in [UC!Party -> {"idle", "asleep", "woken", "failed"}]
         /\ chanPc'[s] = l
         /\ \A u \in Sender : u # s => chanPc'[u] = chanPc[u]
  BY InstanceConstants DEF UC!ChannelConstants, UC!TypeOK, UC!Party, UC!LeaveAndNotifyReceiver

\* Every step of the channel keeps the invariant of the rendezvous.
LEMMA ChanStep == ChanInv /\ [UC!Next]_UC!vars => ChanInv'
<1> SUFFICES ASSUME ChanInv, [UC!Next]_UC!vars PROVE ChanInv'
    OBVIOUS
<1>0. Sender \cap Receiver = {} /\ MaxSend \in Nat
      BY InstanceConstants DEF UC!ChannelConstants
<1>t. UC!TypeOK
      BY DEF ChanInv
<1> USE DEF UC!Party, UC!Element
<1>1. ASSUME NEW s \in Sender, UC!Send(s) PROVE ChanInv'
  <2> DEFINE l == IF is_closed_ THEN "failed" ELSE "asleep"
             e == <<s, calls[s]>>
  <2>1. /\ chanPc' \in [UC!Party -> {"idle", "asleep", "woken", "failed"}]
        /\ chanPc'[s] = l
        /\ \A u \in Sender : u # s => chanPc'[u] = chanPc[u]
        BY <1>1, <1>t, NotifyKeepsSenders DEF UC!Send
  <2>2. /\ chanPc[s] = "idle" /\ queue_' = Append(queue_, e)
        /\ calls' = [calls EXCEPT ![s] = @ + 1]
        /\ is_received' = [is_received EXCEPT ![s] = FALSE]
        /\ UNCHANGED <<is_closed_, taken, sentOK>>
        BY <1>1 DEF UC!Send
  <2>3. UC!TypeOK'
        BY <1>t, <2>1, <2>2 DEF UC!TypeOK
  <2>4. e \notin taken
        BY DEF ChanInv, NumbersGiven, UC!TypeOK
  <2>5. NumbersGiven'
    <3> SUFFICES ASSUME NEW x \in taken PROVE x[2] < calls'[x[1]]
        BY <2>2 DEF NumbersGiven
    <3>1. x[1] \in Sender /\ x[2] \in Nat /\ x[2] < calls[x[1]]
          BY DEF ChanInv, NumbersGiven, UC!TypeOK
    <3> QED BY <1>t, <2>2, <3>1 DEF UC!TypeOK
  <2>6. QueuedOffers'
    <3> SUFFICES ASSUME ~is_closed_ PROVE QueuedOffers'
        BY <2>2 DEF QueuedOffers
    <3>1. \A i \in 1..Len(queue_) : queue_[i][1] \in Sender /\ queue_[i][1] # s
          BY <1>t, <2>2, Elements DEF ChanInv, QueuedOffers, Offered, Offering
    <3>2. /\ Len(queue_') = Len(queue_) + 1 /\ Len(queue_) \in Nat
          /\ queue_'[Len(queue_) + 1] = e
          /\ \A i \in 1..Len(queue_) : queue_'[i] = queue_[i]
          BY <1>t, <2>2 DEF UC!TypeOK
    <3>3. ASSUME NEW i \in 1..Len(queue_')
          PROVE  Offered(queue_[i])'
      <4>1. CASE i = Len(queue_) + 1
        <5>1. e[1] = s /\ e[2] = calls[s] /\ queue_'[i] = e
              BY <3>2, <4>1
        <5>2. calls'[s] - 1 = calls[s] /\ is_received'[s] = FALSE /\ chanPc'[s] = "asleep"
              BY <1>t, <2>1, <2>2 DEF UC!TypeOK
        <5> QED BY <5>1, <5>2 DEF Offered, Offering
      <4>2. CASE i # Len(queue_) + 1
        <5>1. i \in 1..Len(queue_)
              BY <3>2, <3>3, <4>2
        <5>2. Offered(queue_[i]) /\ queue_'[i] = queue_[i] /\ queue_[i][1] \in Sender \ {s}
              BY <3>1, <3>2, <5>1 DEF ChanInv, QueuedOffers
        <5> QED BY <1>t, <2>1, <2>2, <5>2 DEF Offered, Offering, UC!TypeOK
      <4> QED BY <4>1, <4>2
    <3>4. ASSUME NEW i \in 1..Len(queue_'), NEW j \in 1..Len(queue_'),
                 queue_'[i][1] = queue_'[j][1]
          PROVE  i = j
          BY <3>1, <3>2, <3>4 DEF ChanInv, QueuedOffers
    <3> QED BY <3>3, <3>4 DEF QueuedOffers
  <2>7. FlagsTrue'
    <3> SUFFICES ASSUME NEW u \in Sender
                 PROVE  /\ Offering(u)' => calls'[u] > 0 /\ (is_received'[u] <=> <<u, calls'[u] - 1>> \in taken')
                        /\ chanPc'[u] = "failed" => is_closed_' /\ <<u, calls'[u] - 1>> \notin taken'
        BY DEF FlagsTrue
    <3>1. CASE u = s
      <4>1. calls'[s] = calls[s] + 1 /\ calls[s] \in Nat /\ calls'[s] - 1 = calls[s] /\ ~is_received'[s]
            BY <1>t, <2>2 DEF UC!TypeOK
      <4> QED BY <2>1, <2>2, <2>4, <3>1, <4>1
    <3>2. CASE u # s
          BY <1>t, <2>1, <2>2, <3>2 DEF ChanInv, FlagsTrue, Offering, UC!TypeOK
    <3> QED BY <3>1, <3>2
  <2>8. UC!Rendezvous'
        BY <2>2, <2>7 DEF ChanInv, UC!Rendezvous, FlagsTrue
  <2> QED BY <2>3, <2>5, <2>6, <2>7, <2>8 DEF ChanInv
<1>2. ASSUME NEW s \in Sender, UC!SendWoken(s) PROVE ChanInv'
  <2>1. /\ chanPc[s] = "woken" /\ calls[s] > 0 /\ calls[s] \in Nat
        /\ UNCHANGED <<queue_, is_closed_, is_received, calls, taken>>
        BY <1>2 DEF UC!SendWoken, ChanInv, FlagsTrue, Offering, UC!TypeOK
  <2>2. \E l \in {"idle", "asleep", "failed"} :
           /\ chanPc' = [chanPc EXCEPT ![s] = l]
           /\ l = "idle" => is_received[s]
           /\ l # "idle" => ~is_received[s]
           /\ l = "failed" => is_closed_
        BY <1>2 DEF UC!SendWoken
  <2>3. UC!TypeOK'
        BY <1>2, <1>t, <2>1, <2>2 DEF UC!SendWoken, UC!TypeOK
  <2>4. NumbersGiven'
        BY <2>1 DEF ChanInv, NumbersGiven
  <2>5. QueuedOffers'
        BY <1>t, <2>1, <2>2 DEF ChanInv, QueuedOffers, Offered, Offering, UC!TypeOK
  <2>6. FlagsTrue'
        BY <1>t, <2>1, <2>2 DEF ChanInv, FlagsTrue, Offering, UC!TypeOK
  <2>7. sentOK' \subseteq taken'
        BY <1>2, <2>1 DEF UC!SendWoken, ChanInv, UC!Rendezvous, FlagsTrue, Offering
  <2> QED BY <2>3, <2>4, <2>5, <2>6, <2>7 DEF ChanInv, UC!Rendezvous, FlagsTrue
<1>3. ASSUME NEW r \in Receiver, UC!Recv(r) PROVE ChanInv'
  <2>1. CASE /\ UNCHANGED <<queue_, is_received, taken, is_closed_, calls, sentOK>>
             /\ \E l \in {"failed", "asleep"} : chanPc' = [chanPc EXCEPT ![r] = l]
    <3>1. \A u \in Sender : chanPc'[u] = chanPc[u]
          BY <1>0, <1>t, <2>1 DEF UC!TypeOK
    <3>2. \A i \in 1..Len(queue_) : queue_[i][1] \in Sender
          BY <1>t DEF UC!TypeOK
    <3>3. UC!TypeOK'
          BY <1>t, <2>1 DEF UC!TypeOK
    <3> QED BY <2>1, <3>1, <3>2, <3>3
            DEF ChanInv, NumbersGiven, QueuedOffers, Offered, FlagsTrue, UC!Rendezvous, Offering
  <2>2. CASE ~is_closed_ /\ queue_ # <<>>
    <3> DEFINE h == Head(queue_)
               s == h[1]
    <3>1. /\ taken' = taken \cup {h} /\ queue_' = Tail(queue_)
          /\ is_received' = [is_received EXCEPT ![s] = TRUE]
          /\ chanPc' = [chanPc EXCEPT ![r] = "idle",
                                      ![s] = IF @ = "asleep" THEN "woken" ELSE @]
          /\ UNCHANGED <<is_closed_, calls, sentOK>>
          BY <1>3, <2>2 DEF UC!Recv
    <3>2. /\ h = queue_[1] /\ s \in Sender /\ s # r /\ Len(queue_) \in Nat \ {0}
          /\ Len(queue_') = Len(queue_) - 1 /\ queue_' \in Seq(Sender \X Nat)
          /\ \A i \in 1..Len(queue_') : i + 1 \in 1..Len(queue_) /\ queue_'[i] = queue_[i + 1]
          BY <1>0, <1>t, <2>2, <3>1 DEF UC!TypeOK
    <3>3. Offering(s) /\ is_received[s] = FALSE /\ h = <<s, calls[s] - 1>> /\ calls[s] > 0
      <4>1. Offered(queue_[1])
            BY <2>2, <3>2 DEF ChanInv, QueuedOffers
      <4> QED BY <1>t, <3>2, <4>1, Elements DEF Offered, ChanInv, FlagsTrue
    <3>4. /\ chanPc' \in [UC!Party -> {"idle", "asleep", "woken", "failed"}]
          /\ chanPc'[s] = "woken"
          /\ \A u \in Sender : u # s => chanPc'[u] = chanPc[u]
          BY <1>0, <1>t, <3>1, <3>2, <3>3 DEF UC!TypeOK, Offering
    <3>5. UC!TypeOK'
      <4>1. h \in Sender \X Nat
            BY <1>t, <3>2, Elements
      <4> QED BY <1>t, <3>1, <3>2, <3>4, <4>1 DEF UC!TypeOK
    <3>6. NumbersGiven'
          BY <1>t, <3>1, <3>2, <3>3 DEF ChanInv, NumbersGiven, UC!TypeOK
    <3>7. QueuedOffers'
      <4>0. \A i, j \in 1..Len(queue_) : queue_[i][1] = queue_[j][1] => i = j
            BY <2>2 DEF ChanInv, QueuedOffers
      <4>1. ASSUME NEW i \in 1..Len(queue_')
            PROVE  queue_'[i][1] \in Sender /\ queue_'[i][1] # s
        <5>1. 1 \in 1..Len(queue_) /\ i + 1 \in 1..Len(queue_) /\ i + 1 # 1
              BY <3>2
        <5>2. queue_[i + 1][1] # queue_[1][1] /\ queue_[i + 1][1] \in Sender
              BY <1>t, <4>0, <5>1, Elements
        <5> QED BY <3>2, <5>2
      <4>2. ASSUME NEW i \in 1..Len(queue_')
            PROVE  Offered(queue_[i])'
        <5>1. Offered(queue_[i + 1]) /\ queue_'[i] = queue_[i + 1] /\ queue_[i + 1][1] \in Sender \ {s}
              BY <2>2, <3>2, <4>1, <4>2 DEF ChanInv, QueuedOffers
        <5> QED BY <1>t, <3>1, <3>4, <5>1 DEF Offered, Offering, UC!TypeOK
      <4>3. ASSUME NEW i \in 1..Len(queue_'), NEW j \in 1..Len(queue_'),
                   queue_'[i][1] = queue_'[j][1]
            PROVE  i = j
        <5>1. /\ i + 1 \in 1..Len(queue_) /\ j + 1 \in 1..Len(queue_)
              /\ queue_[i + 1][1] = queue_[j + 1][1]
              BY <3>2, <4>3
        <5>2. i + 1 = j + 1
              BY <4>0, <5>1
        <5> QED BY <3>2, <5>2
      <4> QED BY <4>2, <4>3 DEF QueuedOffers
    <3>8. FlagsTrue'
      <4> SUFFICES ASSUME NEW u \in Sender
                   PROVE  /\ Offering(u)' => calls'[u] > 0 /\ (is_received'[u] <=> <<u, calls'[u] - 1>> \in taken')
                          /\ chanPc'[u] = "failed" => is_closed_' /\ <<u, calls'[u] - 1>> \notin taken'
          BY DEF FlagsTrue
      <4>1. CASE u = s
            BY <1>t, <3>1, <3>3, <3>4, <4>1 DEF UC!TypeOK
      <4>2. CASE u # s
        <5>1. is_received'[u] = is_received[u] /\ chanPc'[u] = chanPc[u]
              BY <1>t, <3>1, <3>4, <4>2 DEF UC!TypeOK
        <5>2. <<u, calls[u] - 1>> # h
              BY <3>3, <4>2
        <5> QED BY <3>1, <5>1, <5>2 DEF ChanInv, FlagsTrue, Offering
      <4> QED BY <4>1, <4>2
    <3>9. UC!Rendezvous'
          BY <3>1, <3>8 DEF ChanInv, UC!Rendezvous, FlagsTrue
    <3> QED BY <3>5, <3>6, <3>7, <3>8, <3>9 DEF ChanInv
  <2> QED BY <1>3, <2>1, <2>2 DEF UC!Recv
<1>4. ASSUME NEW t \in UC!Party, UC!SpuriousWakeup(t) PROVE ChanInv'
  <2>1. \A s \in Sender : Offering(s)' = Offering(s) /\ (chanPc'[s] = "failed" <=> chanPc[s] = "failed")
        BY <1>4, <1>t DEF UC!SpuriousWakeup, UC!TypeOK, Offering
  <2>2. \A i \in 1..Len(queue_) : queue_[i][1] \in Sender
        BY <1>t DEF UC!TypeOK
  <2>3. UC!TypeOK'
        BY <1>4, <1>t DEF UC!SpuriousWakeup, UC!TypeOK
  <2> QED BY <1>4, <2>1, <2>2, <2>3
          DEF UC!SpuriousWakeup, ChanInv, NumbersGiven, QueuedOffers, Offered, FlagsTrue, UC!Rendezvous
<1>5. ASSUME UC!Close PROVE ChanInv'
  <2>1. \A s \in Sender : Offering(s)' = Offering(s) /\ (chanPc'[s] = "failed" <=> chanPc[s] = "failed")
        BY <1>5, <1>t DEF UC!Close, UC!TypeOK, Offering
  <2>2. UC!TypeOK'
        BY <1>5, <1>t DEF UC!Close, UC!TypeOK
  <2> QED BY <1>5, <2>1, <2>2
          DEF UC!Close, ChanInv, NumbersGiven, QueuedOffers, Offered, FlagsTrue, UC!Rendezvous
<1>6. CASE UNCHANGED UC!vars
      BY <1>6 DEF UC!vars, UC!TypeOK, Offering,
                  ChanInv, NumbersGiven, QueuedOffers, Offered, FlagsTrue, UC!Rendezvous
<1> QED BY <1>1, <1>2, <1>3, <1>4, <1>5, <1>6 DEF UC!Next

\* The receivers that were woken and have not looked at the queue yet.
WokenReceivers == {r \in Receiver : chanPc[r] = "woken"}

\* The promise to the queued senders in terms of the set of woken receivers.
Served ==
    (\E r \in Receiver : chanPc[r] = "asleep") /\ ~is_closed_
       => Len(queue_) <= Cardinality(WokenReceivers)

\* Counting receivers.
LEMMA CountingReceivers ==
  ASSUME NEW S \in SUBSET Receiver
  PROVE  /\ Cardinality(S) \in Nat
         /\ \A r : r \notin S => Cardinality(S \cup {r}) = Cardinality(S) + 1
         /\ \A r : r \in S => Cardinality(S \ {r}) = Cardinality(S) - 1
<1>1. IsFiniteSet(Receiver)
      BY InstanceConstants DEF UC!ChannelConstants, UC!IsFiniteSet, IsFiniteSet
<1>2. IsFiniteSet(S)
      BY <1>1, FS_Subset
<1> QED BY <1>2, FS_CardinalityType, FS_AddElement, FS_RemoveElement

\* Every step keeps a woken receiver for each queued sender while receivers sleep.
LEMMA ServedStep == UC!TypeOK /\ Served /\ [UC!Next]_UC!vars => Served'
<1> SUFFICES ASSUME UC!TypeOK, Served, [UC!Next]_UC!vars,
                    \E r \in Receiver : chanPc'[r] = "asleep", ~is_closed_'
             PROVE  Len(queue_') <= Cardinality(WokenReceivers')
    BY DEF Served
<1> DEFINE Goal == Len(queue_') <= Cardinality(WokenReceivers')
<1>0. Sender \cap Receiver = {}
      BY InstanceConstants DEF UC!ChannelConstants
<1>t. UC!TypeOK
      OBVIOUS
<1>w. /\ WokenReceivers \in SUBSET Receiver /\ WokenReceivers' \in SUBSET Receiver
      /\ Cardinality(WokenReceivers) \in Nat /\ Cardinality(WokenReceivers') \in Nat
  <2>1. WokenReceivers \in SUBSET Receiver /\ WokenReceivers' \in SUBSET Receiver
        BY DEF WokenReceivers
  <2> QED BY <2>1, CountingReceivers
<1>l. Len(queue_) \in Nat
      BY Elements
<1> USE DEF UC!Party, UC!Element
<1>1. ASSUME NEW s \in Sender, UC!Send(s) PROVE Goal
  <2>1. ~is_closed_ /\ Len(queue_') = Len(queue_) + 1
        BY <1>1 DEF UC!Send, UC!TypeOK
  <2>2. PICK r \in Receiver : chanPc[r] = "asleep" /\ chanPc' = [chanPc EXCEPT ![s] = "asleep", ![r] = "woken"]
        BY <1>0, <1>1, <2>1 DEF UC!Send, UC!LeaveAndNotifyReceiver, UC!TypeOK
  <2>3. WokenReceivers' = WokenReceivers \cup {r} /\ r \notin WokenReceivers
        BY <1>0, <2>2 DEF WokenReceivers, UC!TypeOK
  <2>4. Cardinality(WokenReceivers') = Cardinality(WokenReceivers) + 1
        BY <1>w, <2>3, CountingReceivers
  <2>5. Len(queue_) <= Cardinality(WokenReceivers)
        BY <2>1, <2>2 DEF Served
  <2> QED BY <1>w, <1>l, <2>1, <2>4, <2>5
<1>2. ASSUME NEW s \in Sender, UC!SendWoken(s) PROVE Goal
  <2>1. \A r \in Receiver : chanPc'[r] = chanPc[r]
        BY <1>0, <1>2 DEF UC!SendWoken, UC!TypeOK
  <2>2. WokenReceivers' = WokenReceivers
        BY <2>1 DEF WokenReceivers
  <2> QED BY <1>2, <2>1, <2>2 DEF UC!SendWoken, Served
<1>3. ASSUME NEW r \in Receiver, UC!Recv(r) PROVE Goal
  <2>1. CASE queue_ = <<>> /\ UNCHANGED queue_
        BY <1>w, <2>1
  <2>2. CASE ~is_closed_ /\ queue_ # <<>>
    <3>1. /\ Head(queue_)[1] \in Sender /\ queue_' = Tail(queue_)
          /\ chanPc' = [chanPc EXCEPT ![r] = "idle",
                          ![Head(queue_)[1]] = IF @ = "asleep" THEN "woken" ELSE @]
          /\ Len(queue_') = Len(queue_) - 1
          BY <1>3, <2>2 DEF UC!Recv, UC!TypeOK
    <3>2. \A u \in Receiver : chanPc'[u] = IF u = r THEN "idle" ELSE chanPc[u]
          BY <1>0, <3>1 DEF UC!TypeOK
    <3>3. Len(queue_) <= Cardinality(WokenReceivers)
          BY <2>2, <3>2 DEF Served
    <3>4. WokenReceivers' = WokenReceivers \ {r}
          BY <3>2 DEF WokenReceivers
    <3>5. CASE r \in WokenReceivers
      <4>1. Cardinality(WokenReceivers') = Cardinality(WokenReceivers) - 1
            BY <1>w, <3>4, <3>5, CountingReceivers
      <4> QED BY <1>l, <1>w, <3>1, <3>3, <4>1
    <3>6. CASE r \notin WokenReceivers
      <4>1. WokenReceivers' = WokenReceivers
            BY <3>4, <3>6
      <4> QED BY <1>l, <1>w, <3>1, <3>3, <4>1
    <3> QED BY <3>5, <3>6
  <2> QED BY <1>3, <2>1, <2>2 DEF UC!Recv
<1>4. ASSUME NEW t \in UC!Party, UC!SpuriousWakeup(t) PROVE Goal
  <2>1. Len(queue_) <= Cardinality(WokenReceivers) /\ UNCHANGED queue_
        BY <1>4 DEF UC!SpuriousWakeup, UC!TypeOK, Served
  <2>2. CASE t \in Receiver
    <3>1. WokenReceivers' = WokenReceivers \cup {t} /\ t \notin WokenReceivers
          BY <1>4, <2>2 DEF UC!SpuriousWakeup, UC!TypeOK, WokenReceivers
    <3>2. Cardinality(WokenReceivers') = Cardinality(WokenReceivers) + 1
          BY <1>w, <3>1, CountingReceivers
    <3> QED BY <1>l, <1>w, <2>1, <3>2
  <2>3. CASE t \notin Receiver
    <3>1. WokenReceivers' = WokenReceivers
          BY <1>4, <2>3 DEF UC!SpuriousWakeup, UC!TypeOK, WokenReceivers
    <3> QED BY <2>1, <3>1
  <2> QED BY <2>2, <2>3
<1>5. ASSUME UC!Close PROVE Goal
      BY <1>5 DEF UC!Close
<1>6. CASE UNCHANGED UC!vars
      BY <1>6 DEF UC!vars, Served, WokenReceivers
<1> QED BY <1>1, <1>2, <1>3, <1>4, <1>5, <1>6 DEF UC!Next

\* Both invariants of the channel hold in all its behaviours.
LEMMA ChanInvariance == UC!Spec => [](ChanInv /\ Served)
<1>1. UC!Init => ChanInv /\ Served
  <2> SUFFICES ASSUME UC!Init PROVE ChanInv /\ Served
      OBVIOUS
  <2>1. UC!TypeOK /\ (\A t \in UC!Party : chanPc[t] = "idle")
    <3>1. queue_ \in Seq(UC!Element)
          BY DEF UC!Init
    <3> QED BY <3>1 DEF UC!Init, UC!TypeOK
  <2>2. NumbersGiven /\ QueuedOffers /\ FlagsTrue /\ UC!Rendezvous
        BY <2>1 DEF UC!Init, UC!Party, NumbersGiven, QueuedOffers, FlagsTrue, Offering, UC!Rendezvous
  <2>3. Served
        BY <2>1 DEF Served, UC!Party
  <2> QED BY <2>1, <2>2, <2>3 DEF ChanInv
<1>2. (ChanInv /\ Served) /\ [UC!Next]_UC!vars => (ChanInv /\ Served)'
      BY ChanStep, ServedStep DEF ChanInv
<1> QED BY <1>1, <1>2, PTL DEF UC!Spec

-----------------------------------------------------------------------------
\* A behaviour of the suite is, seen through the variables of one primitive, a
\* behaviour of that primitive: the others never touch them.
LEMMA SuiteIsEach ==
  SuiteSpec => SL!Spec /\ RS!Spec /\ RW!Spec /\ SE!Spec /\ UC!Spec
<1> USE DEF Futex, Spin, RWSpin, RWBlock, Sem, Chan, sl, rs, rw, se, uc, all,
            FutexNext, SpinNext, RWSpinNext, RWBlockNext, SemNext, ChanNext, SuiteNext
<1>1. SuiteInit => SL!Init /\ RS!Init /\ RW!Init /\ SE!Init /\ UC!Init
      BY DEF SuiteInit
<1>2. [SuiteNext]_all => [SL!Next]_SL!vars
      BY DEF SL!vars
<1>3. [SuiteNext]_all => [RS!Next]_RS!vars
      BY DEF RS!vars
<1>4. [SuiteNext]_all => [RW!Next]_RW!vars
      BY DEF RW!vars, RW!cnts
<1>5. [SuiteNext]_all => [SE!Next]_SE!vars
      BY DEF SE!vars
<1>6. [SuiteNext]_all => [UC!Next]_UC!vars
      BY DEF UC!vars
<1> QED BY <1>1, <1>2, <1>3, <1>4, <1>5, <1>6, PTL
        DEF SuiteSpec, SL!Spec, RS!Spec, RW!Spec, SE!Spec, UC!Spec

\* spinlock.h, rw_spinlock.h and rw_lock.h: nobody enters the spin lock while another
\* holds it, and both readers-writer locks admit many readers or one writer, whatever
\* the threads interleave.
THEOREM LocksAreLocks == SuiteSpec => LocksImplementTheirSpecs
  BY SuiteIsEach, SpinRefinement, RWSpinRefinement, RWRefinement, PTL
  DEF LocksImplementTheirSpecs

\* semaphore.h: threads pass in the order of their calls of Acquire, also those that
\* are woken together by notify_all or for no reason.
THEOREM SemaphoreInOrder == SuiteSpec => []FirstComeFirstServed
  BY SuiteIsEach, SemInvariance, SemOrder, PTL DEF FirstComeFirstServed

\* semaphore.h: the counter and the threads inside always add up to the initial count,
\* so never more than that many are inside.
THEOREM SemaphoreBounds == SuiteSpec => [](PlacesExact /\ Cardinality(Inside) <= N)
<1>1. SemInv => PlacesExact /\ Cardinality(Inside) <= N
  <2> SUFFICES ASSUME SemInv PROVE PlacesExact /\ Cardinality(Inside) <= N
      OBVIOUS
  <2>1. Cardinality(Inside) \in Nat
        BY SemConstants, FS_Subset, FS_CardinalityType DEF Inside
  <2> QED BY <2>1, SemConstants DEF SemInv, SE!TypeOK, PlacesExact
<1> QED BY <1>1, SuiteIsEach, SemInvariance, PTL

\* unbuffered_channel.h: a Send that returns was received, and one that throws was not
\* and will not be, also when Close comes between the receiver and the sender's wake-up.
THEOREM ChannelRendezvous == SuiteSpec => []Rendezvous
<1>1. ChanInv => UC!Rendezvous
      BY DEF ChanInv
<1> QED BY <1>1, SuiteIsEach, ChanInvariance, PTL DEF Rendezvous

\* unbuffered_channel.h: while receivers sleep, a woken one is on its way for every
\* sender in the queue: notify_one loses none.
THEOREM ChannelServes == SuiteSpec => []SendersAreServed
<1>1. Served => UC!NoLostWakeup
      BY SameCardinality DEF Served, WokenReceivers, UC!NoLostWakeup
<1> QED BY <1>1, SuiteIsEach, ChanInvariance, PTL DEF SendersAreServed
=============================================================================
