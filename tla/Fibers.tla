------------------------------- MODULE Fibers -------------------------------
(***************************************************************************)
(* tools/cactus core, internal/wait_queue and sync: fibers that run one at *)
(* a time until they Park, timers, groups, a mutex and a condition         *)
(* variable.  While this_fiber is set nothing else runs, so an operation   *)
(* may take several steps; the interleaving is in the run queue, in the    *)
(* timers, and in what reaches a parked fiber before it runs again.        *)
(*                                                                         *)
(* The fibers are arbitrary users of the library: Main owns a WaitGroup    *)
(* and at most one Fiber object, any fiber may sleep, lock, wait on the    *)
(* condition variable, open a TimeoutGuard or a FiberCancelGuard, throw or *)
(* return.  A member of the group may spawn another one.                   *)
(***************************************************************************)
EXTENDS Integers, Sequences, SequencesExt, FiniteSets

CONSTANTS Fiber, Main, Nobody,
          MaxOps,               \* bound on the operations of all fibers together
          MaxTime               \* bound on the clock

FiberConstants == Main \in Fiber /\ Nobody \notin Fiber

VARIABLES run_queue_, this_fiber, now_,
          timers,               \* records [fiber, kind, deadline]; TimerHeap orders them
          state_,               \* "none", "Ready", "Running", "Dead", "deleted"
          at, phase,            \* where a fiber is, and how far it is into that Park
          exc,                  \* the exception in flight, or "none"
          timedout_, canceled_, cancel_guarded_,
          expired,              \* history: a time-out came while the fiber was guarded
          fibers_, joiner_, waiter_, first_error_,      \* the WaitGroup
          object, joining,      \* the Fiber object Main owns; its FiberImpl::waiter_
          holder,               \* who holds the mutex: Mutex::locked_, MutexGuard::locked_
          waiters_, wakeup,     \* per queue the waiting fibers; Waiter::wakeup
          ops

core == <<run_queue_, this_fiber, now_, timers, state_, at, phase, exc>>
flags == <<timedout_, canceled_, cancel_guarded_, expired>>
group == <<fibers_, joiner_, waiter_, first_error_, object, joining>>
sync == <<holder, waiters_, wakeup>>
vars == <<core, flags, group, sync, ops>>


Init ==
    /\ run_queue_ = <<Main>> /\ this_fiber = Nobody /\ now_ = 0 /\ timers = {}
    /\ state_ = [f \in Fiber |-> IF f = Main THEN "Ready" ELSE "none"]
    /\ at = [f \in Fiber |-> "user"] /\ phase = [f \in Fiber |-> "start"]
    /\ exc = [f \in Fiber |-> "none"]
    /\ timedout_ = [f \in Fiber |-> FALSE] /\ canceled_ = [f \in Fiber |-> FALSE]
    /\ cancel_guarded_ = [f \in Fiber |-> FALSE] /\ expired = [f \in Fiber |-> FALSE]
    /\ fibers_ = {} /\ joiner_ = Nobody /\ waiter_ = Nobody /\ first_error_ = "none"
    /\ object = Nobody /\ joining = Nobody
    /\ holder = Nobody /\ waiters_ = [q \in {"lockers", "cond"} |-> <<>>]
    /\ wakeup = [f \in Fiber |-> FALSE] /\ ops = 0

Linked(f) == f \in ToSet(run_queue_)

\* The list s when f has left it.
Unlinked(s, f) == IF \E i \in DOMAIN s : s[i] = f
                  THEN RemoveAt(s, CHOOSE i \in DOMAIN s : s[i] = f) ELSE s

Unparked(queue, f) == IF f = Nobody \/ f \in ToSet(queue) THEN queue ELSE Append(queue, f)
Unpark(f) == run_queue_' = Unparked(run_queue_, f)

Goto(f, where, ph) == at' = [at EXCEPT ![f] = where] /\ phase' = [phase EXCEPT ![f] = ph]
In(f, where) == this_fiber = f /\ at[f] = where /\ phase[f] = "run"
Op(f) == In(f, "user") /\ exc[f] = "none" /\ ops < MaxOps /\ ops' = ops + 1
-----------------------------------------------------------------------------
\* The scheduler.  Tick is the clock read of RunLoop, or AdvanceTime.
Tick == /\ now_ < MaxTime /\ now_' = now_ + 1 /\ state_[Main] # "Dead"
        /\ UNCHANGED <<run_queue_, this_fiber, timers, state_, at, phase, exc, flags, group, sync, ops>>

Due == {t \in timers : t.deadline < now_}

NotifyTimeout(f) ==
    /\ timedout_' = [timedout_ EXCEPT ![f] = TRUE]
    /\ expired' = [expired EXCEPT ![f] = cancel_guarded_[f]]
    /\ IF cancel_guarded_[f] THEN UNCHANGED run_queue_ ELSE Unpark(f)

\* A timer that is due and earliest: OnExpired of a SleepTimer or a TimeoutGuard.
Expire ==
    /\ this_fiber = Nobody
    /\ \E t \in Due :
          /\ \A u \in timers : t.deadline <= u.deadline
          /\ timers' = timers \ {t}
          /\ \/ t.kind = "sleep" /\ Unpark(t.fiber) /\ UNCHANGED <<timedout_, expired>>
             \/ t.kind = "timeout" /\ NotifyTimeout(t.fiber)
    /\ UNCHANGED <<this_fiber, now_, state_, at, phase, exc, canceled_, cancel_guarded_, group, sync, ops>>

\* RunFiber of the first in the run queue, once no timer is due.
RunFiber ==
    /\ this_fiber = Nobody /\ Due = {} /\ run_queue_ # <<>> /\ state_[Main] # "Dead"
    /\ LET f == Head(run_queue_) IN
          /\ this_fiber' = f /\ state_' = [state_ EXCEPT ![f] = "Running"]
          /\ phase' = [phase EXCEPT ![f] = IF @ = "start" THEN "run" ELSE "back"]
    /\ run_queue_' = Tail(run_queue_)
    /\ UNCHANGED <<now_, timers, at, exc, flags, group, sync, ops>>

\* The check of Park, before it switches away and after it comes back.
Check(f) == IF cancel_guarded_[f] THEN "none" ELSE IF canceled_[f] THEN "canceled"
            ELSE IF timedout_[f] THEN "timeout" ELSE "none"

StaysPending(f, e) == timedout_[f]      \* mutant: the flag is not reset
Pending(f, e) == timedout_[f] /\ e # "timeout"

Park(f) ==
    /\ this_fiber = f /\ phase[f] \in {"enter", "back"}
    /\ LET e == Check(f) IN
          /\ exc' = [exc EXCEPT ![f] = e]
          /\ run_queue_' = IF e = "none" THEN run_queue_ ELSE Unlinked(run_queue_, f)
          /\ timedout_' = [timedout_ EXCEPT ![f] = Pending(f, e)]
          /\ IF e = "none" /\ phase[f] = "enter"
             THEN this_fiber' = Nobody /\ phase' = [phase EXCEPT ![f] = "parked"]
             ELSE phase' = [phase EXCEPT ![f] = "run"] /\ UNCHANGED this_fiber
    /\ UNCHANGED <<now_, timers, state_, at, canceled_, cancel_guarded_, expired, group, sync, ops>>
-----------------------------------------------------------------------------
\* Yield, SleepFor, and the two guards.
Yield(f) == /\ Op(f) /\ Unpark(f) /\ Goto(f, "yield", "enter")
            /\ UNCHANGED <<this_fiber, now_, timers, state_, exc, flags, group, sync>>

Sleep(f) == /\ Op(f) /\ Goto(f, "sleep", "enter")
            /\ \E d \in 0..1 : timers' = timers \cup {[fiber |-> f, kind |-> "sleep", deadline |-> now_ + d]}
            /\ UNCHANGED <<run_queue_, this_fiber, now_, state_, exc, flags, group, sync>>

Outcome(f) == IF exc[f] = "none" THEN "user" ELSE "unwind"

YieldReturn(f) == /\ In(f, "yield") /\ Goto(f, Outcome(f), "run")
                  /\ UNCHANGED <<run_queue_, this_fiber, now_, timers, state_, exc, flags, group, sync, ops>>

SleepReturn(f) ==               \* ~SleepTimer
    /\ In(f, "sleep") /\ Goto(f, Outcome(f), "run")
    /\ timers' = {t \in timers : t.fiber # f \/ t.kind # "sleep"}
    /\ UNCHANGED <<run_queue_, this_fiber, now_, state_, exc, flags, group, sync, ops>>

HasTimeout(f) == \E t \in timers : t.fiber = f /\ t.kind = "timeout"
DropTimeout(f) == timers' = {t \in timers : t.fiber # f \/ t.kind # "timeout"}

OpenTimeout(f) == /\ Op(f) /\ ~HasTimeout(f)
                  /\ timers' = timers \cup {[fiber |-> f, kind |-> "timeout", deadline |-> now_]}
                  /\ UNCHANGED <<run_queue_, this_fiber, now_, state_, at, phase, exc, flags, group, sync>>

CloseTimeout(f) == /\ Op(f) /\ DropTimeout(f)
                   /\ UNCHANGED <<run_queue_, this_fiber, now_, state_, at, phase, exc, flags, group, sync>>

ToggleCancelGuard(f) ==
    /\ Op(f) /\ cancel_guarded_' = [cancel_guarded_ EXCEPT ![f] = ~@]
    /\ UNCHANGED <<core, timedout_, canceled_, expired, group, sync>>
-----------------------------------------------------------------------------
\* WaitQueue, Mutex, CondVar.
NotifyOne(q) ==
    IF waiters_[q] = <<>> THEN UNCHANGED <<run_queue_, waiters_, wakeup>>
    ELSE LET f == Head(waiters_[q]) IN
         /\ waiters_' = [waiters_ EXCEPT ![q] = Tail(@)]
         /\ wakeup' = [wakeup EXCEPT ![f] = TRUE] /\ Unpark(f)

\* ~Waiter unlinks it.
Without(f) == [q \in DOMAIN waiters_ |-> Unlinked(waiters_[q], f)]

Enqueue(f, q, where) ==         \* WaitQueue::Wait up to its Park
    /\ waiters_' = [Without(f) EXCEPT ![q] = Append(@, f)]
    /\ wakeup' = [wakeup EXCEPT ![f] = FALSE] /\ Goto(f, where, "enter")

\* The loop of Mutex::Lock: take the mutex, or wait in lockers_ at the given place.
LockLoop(f, where) ==
    \/ /\ holder = Nobody /\ holder' = f /\ Goto(f, "user", "run")
       /\ waiters_' = Without(f)
       /\ UNCHANGED wakeup
    \/ holder # Nobody /\ Enqueue(f, "lockers", where) /\ UNCHANGED holder

Lock(f) == /\ Op(f) /\ holder # f /\ LockLoop(f, "lock")
           /\ UNCHANGED <<run_queue_, this_fiber, now_, timers, state_, exc, flags, group>>

LockForgets(f) ==               \* mutant: WaitQueue::Wait without pass_wakeup
    /\ (In(f, "lock") \/ In(f, "relock"))
    /\ \/ exc[f] = "none" /\ LockLoop(f, at[f])
       \/ /\ exc[f] # "none" /\ Goto(f, IF at[f] = "relock" THEN "pass" ELSE "unwind", "run")
          /\ waiters_' = Without(f)
          /\ UNCHANGED <<holder, wakeup>>
    /\ UNCHANGED <<run_queue_, this_fiber, now_, timers, state_, exc, flags, group, ops>>

\* Back from lockers_.Wait(): try again; an exception passes the wake-up on, and
\* from inside CondVar::Wait passes the notification on as well.
LockReturn(f) ==
    /\ (In(f, "lock") \/ In(f, "relock"))
    /\ \/ exc[f] = "none" /\ LockLoop(f, at[f]) /\ UNCHANGED run_queue_
       \/ /\ exc[f] # "none" /\ UNCHANGED holder
          /\ Goto(f, IF at[f] = "relock" THEN "pass" ELSE "unwind", "run")
          /\ IF wakeup[f] THEN NotifyOne("lockers")
             ELSE /\ waiters_' = Without(f)
                  /\ UNCHANGED <<run_queue_, wakeup>>
    /\ UNCHANGED <<this_fiber, now_, timers, state_, exc, flags, group, ops>>

Unlock(f) == /\ Op(f) /\ holder = f /\ holder' = Nobody /\ NotifyOne("lockers")
             /\ UNCHANGED <<this_fiber, now_, timers, state_, at, phase, exc, flags, group>>

CondWait(f) == /\ Op(f) /\ holder = f /\ holder' = Nobody
               /\ NotifyOne("lockers") /\ Goto(f, "cond enqueue", "run")
               /\ UNCHANGED <<this_fiber, now_, timers, state_, exc, flags, group>>

CondEnqueue(f) == /\ In(f, "cond enqueue") /\ Enqueue(f, "cond", "cond")
                  /\ UNCHANGED <<run_queue_, this_fiber, now_, timers, state_, exc, flags, group, holder, ops>>

\* Back from waiters_.Wait(): lock the mutex again, or pass the wake-up on.
CondReturn(f) ==
    /\ In(f, "cond")
    /\ \/ /\ exc[f] = "none" /\ LockLoop(f, "relock") /\ UNCHANGED run_queue_
       \/ /\ exc[f] # "none" /\ Goto(f, "unwind", "run") /\ UNCHANGED holder
          /\ IF wakeup[f] THEN NotifyOne("cond")
             ELSE /\ waiters_' = Without(f)
                  /\ UNCHANGED <<run_queue_, wakeup>>
    /\ UNCHANGED <<this_fiber, now_, timers, state_, exc, flags, group, ops>>

CondPass(f) == /\ In(f, "pass") /\ Goto(f, "unwind", "run") /\ NotifyOne("cond")
               /\ UNCHANGED <<this_fiber, now_, timers, state_, exc, flags, group, holder, ops>>

CondNotifyOne(f) == /\ Op(f) /\ waiters_["cond"] # <<>> /\ NotifyOne("cond")
                    /\ UNCHANGED <<this_fiber, now_, timers, state_, at, phase, exc, flags, group, holder>>

CondNotifyAll(f) ==             \* a turn of its loop
    /\ Op(f) \/ (In(f, "notify all") /\ UNCHANGED ops)
    /\ waiters_["cond"] # <<>> /\ NotifyOne("cond")
    /\ Goto(f, IF Tail(waiters_["cond"]) = <<>> THEN "user" ELSE "notify all", "run")
    /\ UNCHANGED <<this_fiber, now_, timers, state_, exc, flags, group, holder>>
-----------------------------------------------------------------------------
\* Groups and Fiber objects.
Create(c) == /\ state_[c] = "none" /\ state_' = [state_ EXCEPT ![c] = "Ready"] /\ Unpark(c)

Spawn(f) ==                     \* WaitGroup::Spawn, ServerGroup::Spawn: Group::DoSpawn
    /\ Op(f) /\ f \in fibers_ \cup {Main}
    /\ \E c \in Fiber : Create(c) /\ fibers_' = fibers_ \cup {c}
    /\ UNCHANGED <<this_fiber, now_, timers, at, phase, exc, flags, joiner_, waiter_, first_error_,
                   object, joining, sync>>

NewFiber ==                     \* Fiber::Fiber
    /\ Op(Main) /\ object = Nobody /\ \E c \in Fiber : Create(c) /\ object' = c
    /\ UNCHANGED <<this_fiber, now_, timers, at, phase, exc, flags, fibers_, joiner_, waiter_, first_error_,
                   joining, sync>>

\* WaitGroup::Wait
Wait ==
    /\ Op(Main)
    /\ \/ /\ first_error_ # "none" /\ exc' = [exc EXCEPT ![Main] = first_error_]
          /\ Goto(Main, "unwind", "run") /\ UNCHANGED waiter_
       \/ first_error_ = "none" /\ fibers_ = {} /\ UNCHANGED <<exc, at, phase, waiter_>>
       \/ /\ first_error_ = "none" /\ fibers_ # {}
          /\ waiter_' = Main /\ Goto(Main, "wait_group", "enter") /\ UNCHANGED exc
    /\ UNCHANGED <<run_queue_, this_fiber, now_, timers, state_, flags, fibers_, joiner_, first_error_,
                   object, joining, sync>>

WaitReturn ==
    LET e == IF exc[Main] # "none" THEN exc[Main] ELSE first_error_ IN
    /\ In(Main, "wait_group") /\ waiter_' = Nobody /\ exc' = [exc EXCEPT ![Main] = e]
    /\ Goto(Main, IF e = "none" THEN "user" ELSE "unwind", "run")
    /\ UNCHANGED <<run_queue_, this_fiber, now_, timers, state_, flags, fibers_, joiner_, first_error_,
                   object, joining, sync, ops>>

\* FiberImpl::Cancel
Cancel(f) == /\ canceled_' = [canceled_ EXCEPT ![f] = TRUE]
             /\ IF cancel_guarded_[f] THEN UNCHANGED run_queue_ ELSE Unpark(f)

\* The FiberCancelGuard of a destructor.
Unguarded == UNCHANGED cancel_guarded_  \* mutant: the destructors without it
Guarded == cancel_guarded_' = [cancel_guarded_ EXCEPT ![Main] = TRUE]

\* ~Fiber: cancel it and join, unless it is dead.  Main does this at the end of a
\* scope, so no guard of its own is open (Leave).
DestroyFiber ==
    /\ In(Main, "~Fiber")
    /\ \/ /\ object # Nobody /\ state_[object] # "Dead" /\ Cancel(object) /\ Guarded
          /\ joining' = Main /\ Goto(Main, "join", "enter") /\ UNCHANGED <<object, state_>>
       \/ /\ object # Nobody => state_[object] = "Dead"
          /\ state_' = [f \in Fiber |-> IF f = object THEN "deleted" ELSE state_[f]]
          /\ object' = Nobody /\ Goto(Main, "~Group", "run")
          /\ UNCHANGED <<joining, canceled_, cancel_guarded_, run_queue_>>
    /\ UNCHANGED <<this_fiber, now_, timers, exc, timedout_, expired, fibers_, joiner_, waiter_, first_error_,
                   sync, ops>>

JoinReturn ==
    /\ In(Main, "join") /\ joining' = Nobody
    /\ state_' = [state_ EXCEPT ![object] = "deleted"] /\ object' = Nobody
    /\ cancel_guarded_' = [cancel_guarded_ EXCEPT ![Main] = FALSE] /\ Goto(Main, "~Group", "run")
    /\ UNCHANGED <<run_queue_, this_fiber, now_, timers, exc, timedout_, canceled_, expired, fibers_, joiner_,
                   waiter_, first_error_, sync, ops>>

DestroyGroup ==                 \* ~Group: a fiber is canceled, or all have been
    /\ In(Main, "~Group")
    /\ \/ /\ fibers_ = {} /\ Goto(Main, "return", "run")
          /\ UNCHANGED <<joiner_, canceled_, cancel_guarded_, run_queue_>>
       \/ \E f \in fibers_ : ~canceled_[f] /\ Cancel(f) /\ UNCHANGED <<at, phase, joiner_, cancel_guarded_>>
       \/ /\ fibers_ # {} /\ \A f \in fibers_ : canceled_[f]
          /\ Guarded /\ joiner_' = Main /\ Goto(Main, "group", "enter")
          /\ UNCHANGED <<canceled_, run_queue_>>
    /\ UNCHANGED <<this_fiber, now_, timers, state_, exc, timedout_, expired, fibers_, waiter_, first_error_,
                   object, joining, sync, ops>>

GroupReturn ==
    /\ In(Main, "group") /\ joiner_' = Nobody /\ Goto(Main, "return", "run")
    /\ cancel_guarded_' = [cancel_guarded_ EXCEPT ![Main] = FALSE]
    /\ UNCHANGED <<run_queue_, this_fiber, now_, timers, state_, exc, timedout_, canceled_, expired, fibers_,
                   waiter_, first_error_, object, joining, sync, ops>>
-----------------------------------------------------------------------------
\* A fiber returns or throws: its guards are destroyed on the way.
Return(f) == /\ In(f, "user") /\ exc[f] = "none" /\ Goto(f, "unwind", "run")
             /\ exc' = [exc EXCEPT ![f] = "return"]
             /\ UNCHANGED <<run_queue_, this_fiber, now_, timers, state_, flags, group, sync, ops>>

Throw(f) == /\ Op(f) /\ f # object /\ Goto(f, "unwind", "run")
            /\ exc' = [exc EXCEPT ![f] = "error"]
            /\ UNCHANGED <<run_queue_, this_fiber, now_, timers, state_, flags, group, sync>>

\* ~MutexGuard, ~TimeoutGuard, ~FiberCancelGuard; a time-out may be caught there.
Leave(f) ==
    /\ In(f, "unwind")
    /\ IF holder = f THEN holder' = Nobody /\ NotifyOne("lockers")
                     ELSE UNCHANGED <<sync, run_queue_>>
    /\ DropTimeout(f) /\ cancel_guarded_' = [cancel_guarded_ EXCEPT ![f] = FALSE]
    /\ \/ exc[f] = "timeout" /\ exc' = [exc EXCEPT ![f] = "none"] /\ Goto(f, "user", "run")
       \/ /\ f = object => exc[f] # "timeout"       \* a Fiber may not let it out
          /\ Goto(f, IF f = Main THEN "~Fiber" ELSE "return", "run") /\ UNCHANGED exc
    /\ UNCHANGED <<this_fiber, now_, state_, timedout_, canceled_, expired, group, ops>>

\* The end of FiberImpl::Run, and RunLoop's Cleanup: WaitGroup::OnFinished deletes
\* a fiber of the group.
Finish(f) ==
    LET error == IF exc[f] \in {"timeout", "error"} THEN exc[f] ELSE "none"
        first == f \in fibers_ /\ first_error_ = "none" /\ error # "none"
        left == fibers_ \ {f}
        joined == Unparked(run_queue_, IF f = object THEN joining ELSE Nobody)
        failed == Unparked(joined, IF first THEN waiter_ ELSE Nobody)
        emptied == f \in fibers_ /\ left = {}
    IN /\ In(f, "return") /\ this_fiber' = Nobody /\ phase' = [phase EXCEPT ![f] = "over"]
       /\ state_' = [state_ EXCEPT ![f] = IF f \in fibers_ THEN "deleted" ELSE "Dead"]
       /\ fibers_' = left /\ first_error_' = IF first THEN error ELSE first_error_
       /\ run_queue_' = IF emptied THEN Unparked(Unparked(failed, joiner_), waiter_) ELSE failed
       /\ UNCHANGED <<now_, timers, at, exc, flags, joiner_, waiter_, object, joining, sync, ops>>

FiberStep(f) ==
    \/ Park(f) \/ Yield(f) \/ YieldReturn(f) \/ Sleep(f) \/ SleepReturn(f)
    \/ OpenTimeout(f) \/ CloseTimeout(f) \/ ToggleCancelGuard(f)
    \/ Lock(f) \/ LockReturn(f) \/ Unlock(f)
    \/ CondWait(f) \/ CondEnqueue(f) \/ CondReturn(f) \/ CondPass(f) \/ CondNotifyOne(f) \/ CondNotifyAll(f)
    \/ Spawn(f) \/ Return(f) \/ Throw(f) \/ Leave(f) \/ Finish(f)

Next == \/ Tick \/ Expire \/ RunFiber
        \/ \E f \in Fiber : FiberStep(f)
        \/ NewFiber \/ Wait \/ WaitReturn \/ DestroyFiber \/ JoinReturn \/ DestroyGroup \/ GroupReturn

Spec == Init /\ [][Next]_vars
-----------------------------------------------------------------------------
Alive(f) == state_[f] \in {"Ready", "Running"}

\* Whoever will wake a parked fiber: a timer, the fiber or the group it waits for,
\* or the queue it stands in.
HasWaker(f) ==
    CASE at[f] = "sleep" -> \E t \in timers : t.fiber = f /\ t.kind = "sleep"
      [] at[f] = "join" -> joining = f /\ Alive(object)
      [] at[f] = "group" -> joiner_ = f /\ fibers_ # {}
      [] at[f] = "wait_group" -> waiter_ = f /\ fibers_ # {} /\ first_error_ = "none"
      [] at[f] = "cond" -> f \in ToSet(waiters_["cond"])
      [] at[f] \in {"lock", "relock"} ->
            /\ f \in ToSet(waiters_["lockers"])
            /\ \/ holder # Nobody
               \/ \E g \in ToSet(run_queue_) : at[g] \in {"lock", "relock"} /\ wakeup[g]
      [] OTHER -> FALSE

\* No fiber is forgotten: one that is parked and not in the run queue has a waker.
\* In particular a free mutex never has only sleeping lockers, though the fiber its
\* wake-up was meant for was canceled or timed out on the way.
NobodyForgotten ==
    this_fiber = Nobody =>
        \A f \in Fiber : Alive(f) /\ ~Linked(f) => HasWaker(f)

\* Nothing refers to a fiber that is dead or deleted, the group outlives its fibers,
\* and Wait ends without an exception only when every fiber of the group is done.
FiberLifetimes ==
    /\ \A f \in ToSet(run_queue_) \cup ({this_fiber, joiner_, waiter_, joining} \ {Nobody}) : Alive(f)
    /\ \A f \in ToSet(waiters_["lockers"]) \cup ToSet(waiters_["cond"]) : Alive(f)
    /\ \A t \in timers : Alive(t.fiber)
    /\ at[Main] = "return" => fibers_ = {} /\ object = Nobody
    /\ In(Main, "wait_group") /\ exc[Main] = "none" /\ first_error_ = "none" => fibers_ = {}

\* No pending time-out outlives its TimeoutGuard to strike a later, unrelated Park:
\* a fiber that runs has none pending, unless it came while the fiber was under a
\* FiberCancelGuard, or lost against a cancellation (which every Park then reports).
TimeoutBelongs ==
    \A f \in Fiber :
        timedout_[f] /\ this_fiber = f /\ phase[f] = "run" => expired[f] \/ canceled_[f]
=============================================================================
