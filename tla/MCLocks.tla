------------------------------ MODULE MCLocks ------------------------------
(***************************************************************************)
(* The blocking primitives, model-checked side by side.  They share no     *)
(* state: `which`, chosen at the start, says which of them a behaviour is  *)
(* about, and the others keep their initial state.  The futex mutex is     *)
(* extended, the others are instantiated with variables of their own.      *)
(***************************************************************************)
EXTENDS FutexMutex, FiniteSets

CONSTANTS Reader, Writer,               \* of the blocking readers-writer lock
          N, MaxTickets,                \* of the semaphore
          Sender, Receiver, MaxSend     \* of the unbuffered channel

VARIABLES which,
          atomic_lock_, spinPc,
          rw_lock_, rwsPc, rwsLock,
          readers_cnt_, writers_cnt_, blocked_readers_cnt_, blocked_writers_cnt_, rwPc,
          count_, jobs_cnt_, executing_pos_, semPc, query_pos,
          queue_, is_closed_, is_received, chanPc, calls, taken, sentOK

SL == INSTANCE SpinLock WITH pc <- spinPc
RS == INSTANCE RWSpinLock WITH pc <- rwsPc, lock <- rwsLock
RW == INSTANCE RWLock WITH pc <- rwPc
SE == INSTANCE Semaphore WITH pc <- semPc
UC == INSTANCE UnbufferedChannel WITH pc <- chanPc

ASSUME InstanceConstants == SE!SemaphoreConstants /\ UC!ChannelConstants
ASSUME RWThreads == IsFiniteSet(Reader) /\ IsFiniteSet(Writer)

sl == <<atomic_lock_, spinPc>>
rs == <<rw_lock_, rwsPc, rwsLock>>
rw == <<readers_cnt_, writers_cnt_, blocked_readers_cnt_, blocked_writers_cnt_, rwPc>>
se == <<count_, jobs_cnt_, executing_pos_, semPc, query_pos>>
uc == <<queue_, is_closed_, is_received, chanPc, calls, taken, sentOK>>
all == <<which, vars, sl, rs, rw, se, uc>>

SuiteInit ==
    /\ which \in {"futex", "spinlock", "rw-spinlock", "rw-lock", "semaphore", "channel"}
    /\ Init /\ SL!Init /\ RS!Init /\ RW!Init /\ SE!Init /\ UC!Init

\* Only one primitive moves; the others stand still.
Futex == which = "futex" /\ UNCHANGED <<which, sl, rs, rw, se, uc>>
Spin == which = "spinlock" /\ UNCHANGED <<which, vars, rs, rw, se, uc>>
RWSpin == which = "rw-spinlock" /\ UNCHANGED <<which, vars, sl, rw, se, uc>>
RWBlock == which = "rw-lock" /\ UNCHANGED <<which, vars, sl, rs, se, uc>>
Sem == which = "semaphore" /\ UNCHANGED <<which, vars, sl, rs, rw, uc>>
Chan == which = "channel" /\ UNCHANGED <<which, vars, sl, rs, rw, se>>

FutexNext == Futex /\ Next
SpinNext == Spin /\ SL!Next
RWSpinNext == RWSpin /\ RS!Next
RWBlockNext == RWBlock /\ RW!Next
SemNext == Sem /\ SE!Next
ChanNext == Chan /\ UC!Next

SuiteNext == FutexNext \/ SpinNext \/ RWSpinNext \/ RWBlockNext \/ SemNext \/ ChanNext

\* Each primitive's own fairness: threads that can go on do, critical sections end.
SuiteSpec ==
    /\ SuiteInit /\ [][SuiteNext]_all
    /\ \A t \in Thread :
          /\ WF_all(Futex /\ Step(t))
          /\ WF_all(Spin /\ SL!TestAndSet(t)) /\ WF_all(Spin /\ SL!Unlock(t))
          /\ WF_all(Sem /\ SE!WakeUp(t)) /\ WF_all(Sem /\ SE!Release(t))
    /\ \A t \in RW!Caller : WF_all(RWBlock /\ RW!Step(t))
    /\ \A t \in Sender \cup Receiver : WF_all(Chan /\ UC!Resume(t))
-----------------------------------------------------------------------------
\* The spin lock lets nobody in while another holds it, and both readers-writer
\* locks, the spinning word and the blocking one, admit many readers or one writer:
\* each implements its abstract specification.
LocksImplementTheirSpecs == SL!ImplementsLock /\ RS!ImplementsRWLock /\ RW!ImplementsRWLock

\* The semaphore admits threads in the order of their calls.
FirstComeFirstServed == SE!FirstComeFirstServed

\* Send on the unbuffered channel returns exactly when its value was received.
Rendezvous == UC!Rendezvous

\* For each queued sender a receiver has been woken, if any sleeps.
SendersAreServed == UC!NoLostWakeup

\* While threads want the futex mutex somebody gets it, and when the calls stop every
\* caller has got through; the wake-up rules of the blocking readers-writer lock leave
\* no reader and no writer behind, also when EndWrite wakes the readers while a writer
\* sleeps; everyone who waits at the semaphore enters while those inside come out; and
\* Close lets everybody out of the unbuffered channel.
NobodyWaitsForEver ==
    /\ Progress /\ DrainsWhenCallsStop
    /\ RW!DrainsWhenCallsStop
    /\ SE!EveryoneEnters
    /\ UC!CloseReleasesAll
=============================================================================
