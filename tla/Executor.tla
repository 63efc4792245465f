------------------------------ MODULE Executor ------------------------------
(***************************************************************************)
(* executor/executor: tasks, the queue the worker threads pop, the timer   *)
(* queue and its thread, and the client threads that build, submit, cancel *)
(* and wait for tasks and shut the executor down.                          *)
(*                                                                         *)
(* A step is one atomic access to shared state, or one critical section    *)
(* that contains no call out of it.  Locks that are kept over calls are    *)
(* explicit: stk[x] is the stack of tasks whose edit_task_ thread x holds, *)
(* one per OnFinished it is executing; qlock and tlock are the holders of  *)
(* the two edit_queue_ mutexes while Close cancels what is queued.         *)
(* A wait on a condition variable ends only by a notification.             *)
(***************************************************************************)
EXTENDS Integers, Sequences, FiniteSets

CONSTANTS Task, Worker, Client,
          Timer,        \* the timer thread
          NoThread,     \* holder of a free mutex
          Dep, Trig,    \* pairs <<t, d>>: t may be given d as dependency, trigger
          Timed,        \* the tasks that may be given a time trigger
          StartAt,      \* StartAt[t]: that time
          Owner,        \* Owner[t]: the threads that build and submit t
          Canceller,    \* threads that call Cancel
          Closer,       \* threads that call StartShutdown and (clients) WaitShutdown
          Waiter,       \* clients that call Wait
          NoTask,       \* value of an unused task register
          MaxTime,      \* bound of the clock
          MaxTimerQueue \* bound of the timer queue

Thread == Worker \cup Client \cup {Timer}

ASSUME ExecutorConstants ==
    /\ IsFiniteSet(Task)
    /\ Dep \subseteq Task \X Task
    /\ Trig \subseteq Task \X Task
    /\ Timed \subseteq Task
    /\ StartAt \in [Task -> Nat]
    /\ Owner \in [Task -> SUBSET (Client \cup Worker)]
    /\ Canceller \subseteq Client \cup Worker /\ Closer \subseteq Client \cup Worker
    /\ Waiter \subseteq Client
    /\ MaxTime \in Nat /\ MaxTimerQueue \in Nat
    /\ Timer \notin Worker \cup Client
    /\ Worker \cap Client = {}
    /\ NoThread \notin Thread /\ NoTask \notin Task

VARIABLES
    state,      \* Task::state_
    deps,       \* dependencies given to the task; has_dependencies_ is deps # {}
    cnt,        \* Task::dependecies_cnt_
    trigs,      \* triggers given to the task; has_triggers_ is trigs # {}
    activated,  \* Task::triggers_activated_
    timed,      \* Task::has_time_trigger_
    depended,   \* Task::depended_
    triggered,  \* Task::triggered_
    queue, qclosed, qlock,      \* TasksQueue
    tqueue, tclosed, tlock,     \* TimerQueue
    alive,      \* the Executor object has not been destroyed
    now,        \* system_clock
    pc,         \* next step of a thread
    cur,        \* the task a worker or the timer thread has popped
    op,         \* the task of the thread's Submit or Wait call
    arg,        \* the task of the Task or TasksQueue member it is in
    stk,        \* tasks whose OnFinished it is in, innermost first
    ret,        \* where it goes on when these calls have returned
    pos,        \* how far Close has got in the queue
    runs,       \* history: how often Run() of a task was started
    late        \* history: the tasks submitted after the shutdown of both queues

taskVars == <<state, deps, cnt, trigs, activated, timed, depended, triggered>>
queueVars == <<queue, qclosed, qlock>>
timerVars == <<tqueue, tclosed, tlock>>
callVars == <<cur, op, arg, stk, ret, pos>>
vars == <<taskVars, queueVars, timerVars, alive, now, pc, callVars, runs, late>>

States == {"Created", "Submitted", "Enqueued", "Completed", "Failed", "Canceled"}
Finished == {"Completed", "Failed", "Canceled"}

IsFinished(t) == state[t] \in Finished

CallPCs == {"try", "enque", "push", "append", "cancel", "lock", "loop"}
WorkerPCs == {"pop", "asleep", "got", "start", "run", "exit"}
TimerPCs == {"tpop", "tasleep", "tuntil", "tgot", "exit"}
ClientPCs == {"idle", "submitted", "tpush", "tappend", "qlock", "closing",
              "tclose", "tlock", "tclosing", "join", "wait", "blocked"}

PCs == CallPCs \cup WorkerPCs \cup TimerPCs \cup ClientPCs

TypeOK ==
    /\ state \in [Task -> States]
    /\ deps \in [Task -> SUBSET Task] /\ trigs \in [Task -> SUBSET Task]
    /\ cnt \in [Task -> Nat]
    /\ activated \in [Task -> BOOLEAN] /\ timed \in [Task -> BOOLEAN]
    /\ depended \in [Task -> Seq(Task)] /\ triggered \in [Task -> Seq(Task)]
    /\ queue \in Seq(Task) /\ qclosed \in BOOLEAN /\ qlock \in Thread \cup {NoThread}
    /\ tqueue \in Seq(Task) /\ tclosed \in BOOLEAN /\ tlock \in Thread \cup {NoThread}
    /\ alive \in BOOLEAN /\ now \in Nat
    /\ pc \in [Thread -> PCs]
    /\ cur \in [Thread -> Task \cup {NoTask}]
    /\ op \in [Thread -> Task \cup {NoTask}]
    /\ arg \in [Thread -> Task \cup {NoTask}]
    /\ stk \in [Thread -> Seq(Task)]
    /\ ret \in [Thread -> PCs]
    /\ pos \in [Thread -> Nat]
    /\ runs \in [Task -> Nat] /\ late \subseteq Task

\* Where a thread is between two operations.
Home(x) == IF x \in Worker THEN "pop" ELSE IF x = Timer THEN "tpop" ELSE "idle"

\* Where a thread calls the executor from: a client any time, a worker from Run().
CallSite(x) == IF x \in Worker THEN "run" ELSE "idle"

Init ==
    /\ state = [t \in Task |-> "Created"]
    /\ deps = [t \in Task |-> {}] /\ trigs = [t \in Task |-> {}]
    /\ cnt = [t \in Task |-> 0]
    /\ activated = [t \in Task |-> FALSE] /\ timed = [t \in Task |-> FALSE]
    /\ depended = [t \in Task |-> <<>>] /\ triggered = [t \in Task |-> <<>>]
    /\ queue = <<>> /\ qclosed = FALSE /\ qlock = NoThread
    /\ tqueue = <<>> /\ tclosed = FALSE /\ tlock = NoThread
    /\ alive = TRUE /\ now = 0
    /\ pc = [x \in Thread |-> Home(x)] /\ ret = [x \in Thread |-> Home(x)]
    /\ cur = [x \in Thread |-> NoTask] /\ op = [x \in Thread |-> NoTask]
    /\ arg = [x \in Thread |-> NoTask]
    /\ stk = [x \in Thread |-> <<>>]
    /\ pos = [x \in Thread |-> 0]
    /\ runs = [t \in Task |-> 0] /\ late = {}
-----------------------------------------------------------------------------
(* Calls and locks.                                                        *)

Goto(x, l) == pc' = [pc EXCEPT ![x] = l]

\* x calls a member of task t and goes on at l when that has returned.
Call(x, t, entry, l) == /\ Goto(x, entry)
                        /\ arg' = [arg EXCEPT ![x] = t]
                        /\ ret' = [ret EXCEPT ![x] = l]

\* The call x is in returns: into the loop of the OnFinished it was made from,
\* or, with no OnFinished left on the stack s, to the caller.
Return(x, s) ==
    /\ arg' = [arg EXCEPT ![x] = NoTask]
    /\ IF s = <<>> THEN /\ Goto(x, ret[x])
                        /\ ret' = [ret EXCEPT ![x] = Home(x)]
                   ELSE /\ Goto(x, "loop")
                        /\ UNCHANGED ret

\* edit_task_ of t is free.
TaskFree(t) == \A x \in Thread : \A i \in 1..Len(stk[x]) : stk[x][i] # t
-----------------------------------------------------------------------------
(* Building a task, by one of its owners, before it is submitted.          *)

Builds(x, t) == pc[x] = CallSite(x) /\ x \in Owner[t] /\ state[t] = "Created"

\* AddDependency: under d's lock, count and register if d is not finished.
AddDependency(x, t, d) ==
    /\ Builds(x, t) /\ <<t, d>> \in Dep /\ d \notin deps[t]
    /\ TaskFree(d)
    /\ deps' = [deps EXCEPT ![t] = @ \cup {d}]
    /\ IF IsFinished(d)
         THEN UNCHANGED <<cnt, depended>>
         ELSE /\ cnt' = [cnt EXCEPT ![t] = @ + 1]
              /\ depended' = [depended EXCEPT ![d] = Append(@, t)]
    /\ UNCHANGED <<state, trigs, activated, timed, triggered, queueVars, timerVars,
                   alive, now, pc, callVars, runs, late>>

\* AddTrigger: under d's lock, register, or activate if d is finished.
AddTrigger(x, t, d) ==
    /\ Builds(x, t) /\ <<t, d>> \in Trig /\ d \notin trigs[t]
    /\ TaskFree(d)
    /\ trigs' = [trigs EXCEPT ![t] = @ \cup {d}]
    /\ IF IsFinished(d)
         THEN activated' = [activated EXCEPT ![t] = TRUE] /\ UNCHANGED triggered
         ELSE triggered' = [triggered EXCEPT ![d] = Append(@, t)] /\ UNCHANGED activated
    /\ UNCHANGED <<state, deps, cnt, timed, depended, queueVars, timerVars,
                   alive, now, pc, callVars, runs, late>>

SetTimeTrigger(x, t) ==
    /\ Builds(x, t) /\ t \in Timed /\ ~timed[t]
    /\ timed' = [timed EXCEPT ![t] = TRUE]
    /\ UNCHANGED <<state, deps, cnt, trigs, activated, depended, triggered, queueVars,
                   timerVars, alive, now, pc, callVars, runs, late>>
-----------------------------------------------------------------------------
(* Enqueueing a task.                                                      *)

\* Faulty: does not wait for the last dependency.
ReadyOneEarly(t) ==
    \/ trigs[t] # {} /\ activated[t]
    \/ deps[t] # {} /\ cnt[t] <= 1
    \/ trigs[t] = {} /\ deps[t] = {} /\ ~timed[t]

\* Task::IsReadyToEnque
IsReadyToEnque(t) ==
    \/ trigs[t] # {} /\ activated[t]
    \/ deps[t] # {} /\ cnt[t] = 0
    \/ trigs[t] = {} /\ deps[t] = {} /\ ~timed[t]

\* Faulty: tests and stores instead of the compare-and-swap, so that two threads
\* may both find the task not yet enqueued.
EnqueTwice(x, t) ==
    IF alive /\ state[t] \in {"Submitted", "Enqueued"}
      THEN /\ state' = [state EXCEPT ![t] = "Enqueued"]
           /\ Goto(x, "push")
           /\ UNCHANGED <<arg, ret>>
      ELSE Return(x, stk[x]) /\ UNCHANGED state

\* Task::Enque: the compare-and-swap Submitted -> Enqueued decides who pushes.
\* queue_ has expired once the Executor is gone.
Enque(x, t) ==
    IF alive /\ state[t] = "Submitted"
      THEN /\ state' = [state EXCEPT ![t] = "Enqueued"]
           /\ Goto(x, "push")
           /\ UNCHANGED <<arg, ret>>
      ELSE Return(x, stk[x]) /\ UNCHANGED state

\* Task::TryToEnque.  State and readiness are read before the swap.  A submitted
\* task that is ready stays ready, and the swap tests the state again, so the
\* three reads and the swap have the effect of one step.
TryToEnque(x) ==
    /\ pc[x] = "try"
    /\ IF IsReadyToEnque(arg[x]) THEN Enque(x, arg[x])
                                 ELSE Return(x, stk[x]) /\ UNCHANGED state
    /\ UNCHANGED <<deps, cnt, trigs, activated, timed, depended, triggered, queueVars,
                   timerVars, alive, now, cur, op, stk, pos, runs, late>>

\* The timer thread calls Enque itself.
TimerEnque(x) ==
    /\ pc[x] = "enque"
    /\ Enque(x, arg[x])
    /\ UNCHANGED <<deps, cnt, trigs, activated, timed, depended, triggered, queueVars,
                   timerVars, alive, now, cur, op, stk, pos, runs, late>>

\* Faulty: forgets that the queue may be closed.
PushUntested(x) ==
    /\ pc[x] = "push"
    /\ Goto(x, "append")
    /\ UNCHANGED <<taskVars, queueVars, timerVars, alive, now, callVars, runs, late>>

\* TasksQueue::Push, first the test of closed_, outside the lock ...
PushTest(x) ==
    /\ pc[x] = "push"
    /\ Goto(x, IF qclosed THEN "cancel" ELSE "append")
    /\ UNCHANGED <<taskVars, queueVars, timerVars, alive, now, callVars, runs, late>>

\* ... then, under edit_queue_, emplace_back and notify_one.
PushAppend(x) ==
    /\ pc[x] = "append"
    /\ qlock = NoThread
    /\ queue' = Append(queue, arg[x])
    /\ arg' = [arg EXCEPT ![x] = NoTask]
    /\ LET back == IF stk[x] = <<>> THEN ret[x] ELSE "loop"
           sleepers == {w \in Worker : pc[w] = "asleep"}
       IN  IF sleepers = {}
             THEN Goto(x, back)
             ELSE \E w \in sleepers : pc' = [pc EXCEPT ![x] = back, ![w] = "pop"]
    /\ ret' = [ret EXCEPT ![x] = IF stk[x] = <<>> THEN Home(x) ELSE @]
    /\ UNCHANGED <<taskVars, qclosed, qlock, timerVars, alive, now, cur, op, stk, pos, runs, late>>
-----------------------------------------------------------------------------
(* Finishing a task: Complete, Fail and Cancel store the state, OnFinished *)
(* then walks the lists under edit_task_.                                  *)

\* Task::Cancel
CancelStore(x) ==
    /\ pc[x] = "cancel"
    /\ state' = [state EXCEPT ![arg[x]] = "Canceled"]
    /\ Goto(x, "lock")
    /\ UNCHANGED <<deps, cnt, trigs, activated, timed, depended, triggered, queueVars,
                   timerVars, alive, now, callVars, runs, late>>

OnFinishedLock(x) ==
    /\ pc[x] = "lock"
    /\ TaskFree(arg[x])
    /\ stk' = [stk EXCEPT ![x] = <<arg[x]>> \o @]
    /\ arg' = [arg EXCEPT ![x] = NoTask]
    /\ Goto(x, "loop")
    /\ UNCHANGED <<taskVars, queueVars, timerVars, alive, now, cur, op, ret, pos, runs, late>>

\* Faulty: counts down without TryToEnque.
DependedNotTried(x) ==
    LET t == Head(stk[x])
        d == Head(depended[t])
    IN  /\ pc[x] = "loop" /\ depended[t] # <<>>
        /\ cnt' = [cnt EXCEPT ![d] = @ - 1]
        /\ depended' = [depended EXCEPT ![t] = Tail(@)]
        /\ UNCHANGED <<state, deps, trigs, activated, timed, triggered, queueVars,
                       timerVars, alive, now, pc, callVars, runs, late>>

\* One dependent: --dependecies_cnt_, then TryToEnque.  The code clears the list
\* after the loop; nobody else can look at it in between.  The list holds weak
\* pointers and skips the expired ones: a task that nobody holds any more, and
\* that nobody can miss.  The tasks of this model are held by those who built them.
OnFinishedDepended(x) ==
    LET t == Head(stk[x])
        d == Head(depended[t])
    IN  /\ pc[x] = "loop" /\ depended[t] # <<>>
        /\ cnt' = [cnt EXCEPT ![d] = @ - 1]
        /\ depended' = [depended EXCEPT ![t] = Tail(@)]
        /\ Goto(x, "try") /\ arg' = [arg EXCEPT ![x] = d]
        /\ UNCHANGED <<state, deps, trigs, activated, timed, triggered, queueVars,
                       timerVars, alive, now, cur, op, stk, ret, pos, runs, late>>

\* Faulty: a trigger only sets the flag.
TriggeredNotTried(x) ==
    LET t == Head(stk[x])
        d == Head(triggered[t])
    IN  /\ pc[x] = "loop" /\ depended[t] = <<>> /\ triggered[t] # <<>>
        /\ activated' = [activated EXCEPT ![d] = TRUE]
        /\ triggered' = [triggered EXCEPT ![t] = Tail(@)]
        /\ UNCHANGED <<state, deps, cnt, trigs, timed, depended, queueVars,
                       timerVars, alive, now, pc, callVars, runs, late>>

\* One triggered task: set triggers_activated_, then TryToEnque.
OnFinishedTriggered(x) ==
    LET t == Head(stk[x])
        d == Head(triggered[t])
    IN  /\ pc[x] = "loop" /\ depended[t] = <<>> /\ triggered[t] # <<>>
        /\ activated' = [activated EXCEPT ![d] = TRUE]
        /\ triggered' = [triggered EXCEPT ![t] = Tail(@)]
        /\ Goto(x, "try") /\ arg' = [arg EXCEPT ![x] = d]
        /\ UNCHANGED <<state, deps, cnt, trigs, timed, depended, queueVars,
                       timerVars, alive, now, cur, op, stk, ret, pos, runs, late>>

\* Faulty: no notify_all.
OnFinishedSilently(x) ==
    LET t == Head(stk[x])
    IN  /\ pc[x] = "loop" /\ depended[t] = <<>> /\ triggered[t] = <<>>
        /\ stk' = [stk EXCEPT ![x] = Tail(@)]
        /\ Goto(x, IF Len(stk[x]) = 1 THEN ret[x] ELSE "loop")
        /\ ret' = [ret EXCEPT ![x] = IF Len(stk[x]) = 1 THEN Home(x) ELSE @]
        /\ UNCHANGED <<taskVars, queueVars, timerVars, alive, now, cur, op, arg, pos, runs, late>>

\* state_.notify_all() and the end of OnFinished.
OnFinishedEnd(x) ==
    LET t == Head(stk[x])
        back == IF Len(stk[x]) = 1 THEN ret[x] ELSE "loop"
    IN  /\ pc[x] = "loop" /\ depended[t] = <<>> /\ triggered[t] = <<>>
        /\ stk' = [stk EXCEPT ![x] = Tail(@)]
        /\ pc' = [y \in Thread |-> IF y = x THEN back
                                   ELSE IF pc[y] = "blocked" /\ op[y] = t THEN "wait"
                                   ELSE pc[y]]
        /\ ret' = [ret EXCEPT ![x] = IF Len(stk[x]) = 1 THEN Home(x) ELSE @]
        /\ UNCHANGED <<taskVars, queueVars, timerVars, alive, now, cur, op, arg, pos, runs, late>>
-----------------------------------------------------------------------------
(* A worker thread: Pop, IsCanceled, Run, Complete or Fail.                *)

\* TasksQueue::Pop: sleep while open and empty, leave when closed and empty.
Pop(x) ==
    /\ x \in Worker /\ pc[x] = "pop"
    /\ qlock = NoThread
    /\ IF queue = <<>>
         THEN /\ Goto(x, IF qclosed THEN "exit" ELSE "asleep")
              /\ UNCHANGED <<queue, cur>>
         ELSE /\ cur' = [cur EXCEPT ![x] = Head(queue)]
              /\ queue' = Tail(queue)
              /\ Goto(x, "got")
    /\ UNCHANGED <<taskVars, qclosed, qlock, timerVars, alive, now, op, arg, stk, ret, pos, runs, late>>

CheckCanceled(x) ==
    /\ pc[x] = "got"
    /\ IF state[cur[x]] = "Canceled"
         THEN Goto(x, "pop") /\ cur' = [cur EXCEPT ![x] = NoTask]
         ELSE Goto(x, "start") /\ UNCHANGED cur
    /\ UNCHANGED <<taskVars, queueVars, timerVars, alive, now, op, arg, stk, ret, pos, runs, late>>

StartRun(x) ==
    /\ pc[x] = "start"
    /\ runs' = [runs EXCEPT ![cur[x]] = @ + 1]
    /\ Goto(x, "run")
    /\ UNCHANGED <<taskVars, queueVars, timerVars, alive, now, callVars, late>>

\* Run() returns or throws; Complete() or Fail() stores the state whatever it is.
FinishRun(x, result) ==
    /\ pc[x] = "run"
    /\ state' = [state EXCEPT ![cur[x]] = result]
    /\ Call(x, cur[x], "lock", "pop")
    /\ cur' = [cur EXCEPT ![x] = NoTask]
    /\ UNCHANGED <<deps, cnt, trigs, activated, timed, depended, triggered, queueVars,
                   timerVars, alive, now, op, stk, pos, runs, late>>
-----------------------------------------------------------------------------
(* The timer thread: TimerQueue::Pop, IsCanceled, Enque.                   *)

\* Positions of the heap's possible fronts: the tasks with the least start time.
Fronts == {i \in 1..Len(tqueue) :
             \A j \in 1..Len(tqueue) : StartAt[tqueue[i]] <= StartAt[tqueue[j]]}

\* Faulty: off by one tick.
DueEarly == \E i \in Fronts : StartAt[tqueue[i]] <= now + 1

Due == \E i \in Fronts : StartAt[tqueue[i]] <= now

\* The first wait ignores the time, the second (wait_until) ignores closed_.
TimerPop(x) ==
    /\ pc[x] = "tpop"
    /\ tlock = NoThread
    /\ \/ /\ tqueue = <<>>
          /\ Goto(x, IF tclosed THEN "exit" ELSE "tasleep")
          /\ UNCHANGED <<tqueue, cur>>
       \/ /\ tqueue # <<>> /\ ~Due
          /\ Goto(x, "tuntil")
          /\ UNCHANGED <<tqueue, cur>>
       \/ \E i \in Fronts :
             /\ Due
             /\ cur' = [cur EXCEPT ![x] = tqueue[i]]
             /\ tqueue' = SubSeq(tqueue, 1, i - 1) \o SubSeq(tqueue, i + 1, Len(tqueue))
             /\ Goto(x, "tgot")
    /\ UNCHANGED <<taskVars, queueVars, tclosed, tlock, alive, now, op, arg, stk, ret, pos, runs, late>>

\* wait_until times out.
TimerTimeout(x) ==
    /\ pc[x] = "tuntil" /\ Due
    /\ Goto(x, "tpop")
    /\ UNCHANGED <<taskVars, queueVars, timerVars, alive, now, callVars, runs, late>>

TimerCheckCanceled(x) ==
    /\ pc[x] = "tgot"
    /\ IF state[cur[x]] = "Canceled"
         THEN Goto(x, "tpop") /\ UNCHANGED <<arg, ret>>
         ELSE Call(x, cur[x], "enque", "tpop")
    /\ cur' = [cur EXCEPT ![x] = NoTask]
    /\ UNCHANGED <<taskVars, queueVars, timerVars, alive, now, op, stk, pos, runs, late>>

Tick ==
    /\ now < MaxTime
    /\ now' = now + 1
    /\ UNCHANGED <<taskVars, queueVars, timerVars, alive, pc, callVars, runs, late>>
-----------------------------------------------------------------------------
(* Calls from outside: Submit, Cancel, Wait, the shutdown.                 *)

\* Faulty: stores Submitted without looking at the state.
SubmitAgain(x, t) ==
    /\ pc[x] = CallSite(x) /\ x \in Owner[t] /\ alive
    /\ state[t] \in {"Created", "Submitted", "Canceled"}
    /\ op' = [op EXCEPT ![x] = t]
    /\ state' = [state EXCEPT ![t] = "Submitted"]
    /\ Call(x, t, "try", "submitted")
    /\ UNCHANGED <<deps, cnt, trigs, activated, timed, depended, triggered, queueVars,
                   timerVars, alive, now, cur, stk, pos, runs, late>>

\* Executor::Submit -> Task::Submit: Created -> Submitted, then TryToEnque; any
\* other state is left alone.  A task may be submitted again, after a Cancel or
\* while it waits; MaxTimerQueue bounds how often the latter is tried.
Submit(x, t) ==
    /\ pc[x] = CallSite(x) /\ x \in Owner[t] /\ alive
    /\ state[t] \in {"Created", "Submitted", "Canceled"}
    /\ state[t] = "Submitted" => Len(tqueue) < MaxTimerQueue
    /\ op' = [op EXCEPT ![x] = t]
    /\ IF state[t] = "Created"
         THEN /\ state' = [state EXCEPT ![t] = "Submitted"]
              /\ Call(x, t, "try", "submitted")
              /\ late' = IF qclosed /\ tclosed THEN late \cup {t} ELSE late
         ELSE /\ Goto(x, "submitted")
              /\ UNCHANGED <<state, arg, ret, late>>
    /\ UNCHANGED <<deps, cnt, trigs, activated, timed, depended, triggered, queueVars,
                   timerVars, alive, now, cur, stk, pos, runs>>

\* The rest of Executor::Submit: a task with a time trigger that is neither
\* enqueued nor finished goes to the timer queue.
SubmitTimer(x) ==
    /\ pc[x] = "submitted"
    /\ IF timed[op[x]] /\ state[op[x]] \in {"Created", "Submitted"}
         THEN Goto(x, "tpush") /\ UNCHANGED op
         ELSE Goto(x, CallSite(x)) /\ op' = [op EXCEPT ![x] = NoTask]
    /\ UNCHANGED <<taskVars, queueVars, timerVars, alive, now, cur, arg, stk, ret, pos, runs, late>>

\* TimerQueue::Push: test of closed_ outside the lock ...
TimerPushTest(x) ==
    /\ pc[x] = "tpush"
    /\ IF tclosed
         THEN /\ Call(x, op[x], "cancel", CallSite(x))
              /\ op' = [op EXCEPT ![x] = NoTask]
         ELSE Goto(x, "tappend") /\ UNCHANGED <<arg, ret, op>>
    /\ UNCHANGED <<taskVars, queueVars, timerVars, alive, now, cur, stk, pos, runs, late>>

\* Both waits of TimerQueue::Pop end when waiting_pop_ is notified.
NotifyTimer(rest) ==
    [y \in Thread |-> IF y = Timer /\ rest[y] \in {"tasleep", "tuntil"} THEN "tpop" ELSE rest[y]]

\* ... then push_heap and notify_one under the lock.
TimerPushAppend(x) ==
    /\ pc[x] = "tappend"
    /\ tlock = NoThread
    /\ tqueue' = Append(tqueue, op[x])
    /\ op' = [op EXCEPT ![x] = NoTask]
    /\ pc' = NotifyTimer([pc EXCEPT ![x] = CallSite(x)])
    /\ UNCHANGED <<taskVars, queueVars, tclosed, tlock, alive, now, cur, arg, stk, ret, pos, runs, late>>

\* Task::Cancel, in any state.
Cancel(x, t) ==
    /\ pc[x] = CallSite(x) /\ x \in Canceller
    /\ Call(x, t, "cancel", CallSite(x))
    /\ UNCHANGED <<taskVars, queueVars, timerVars, alive, now, cur, op, stk, pos, runs, late>>

\* Task::Wait: state_.wait blocks until the notify_all of OnFinished.
Wait(x, t) ==
    /\ x \in Waiter /\ pc[x] = "idle"
    /\ op' = [op EXCEPT ![x] = t]
    /\ Goto(x, "wait")
    /\ UNCHANGED <<taskVars, queueVars, timerVars, alive, now, cur, arg, stk, ret, pos, runs, late>>

WaitTest(x) ==
    /\ pc[x] = "wait"
    /\ IF IsFinished(op[x])
         THEN Goto(x, "idle") /\ op' = [op EXCEPT ![x] = NoTask]
         ELSE Goto(x, "blocked") /\ UNCHANGED op
    /\ UNCHANGED <<taskVars, queueVars, timerVars, alive, now, cur, arg, stk, ret, pos, runs, late>>

\* Executor::StartShutdown -> TasksQueue::Close: closed_.test_and_set().
StartShutdown(x) ==
    /\ pc[x] = CallSite(x) /\ x \in Closer /\ alive
    /\ Goto(x, IF qclosed THEN "tclose" ELSE "qlock")
    /\ qclosed' = TRUE
    /\ UNCHANGED <<taskVars, queue, qlock, timerVars, alive, now, callVars, runs, late>>

CloseLock(x) ==
    /\ pc[x] = "qlock"
    /\ qlock = NoThread
    /\ qlock' = x
    /\ pos' = [pos EXCEPT ![x] = 1]
    /\ Goto(x, "closing")
    /\ UNCHANGED <<taskVars, queue, qclosed, timerVars, alive, now, cur, op, arg, stk, ret, runs, late>>

\* Cancel every queued task, holding edit_queue_; then notify_all.
CloseCancel(x) ==
    /\ pc[x] = "closing" /\ pos[x] <= Len(queue)
    /\ Call(x, queue[pos[x]], "cancel", "closing")
    /\ pos' = [pos EXCEPT ![x] = @ + 1]
    /\ UNCHANGED <<taskVars, queueVars, timerVars, alive, now, cur, op, stk, runs, late>>

\* Faulty: no notify_all.
CloseSilently(x) ==
    /\ pc[x] = "closing" /\ pos[x] > Len(queue)
    /\ qlock' = NoThread
    /\ pos' = [pos EXCEPT ![x] = 0]
    /\ Goto(x, "tclose")
    /\ UNCHANGED <<taskVars, queue, qclosed, timerVars, alive, now, cur, op, arg, stk, ret,
                   runs, late>>

CloseEnd(x) ==
    /\ pc[x] = "closing" /\ pos[x] > Len(queue)
    /\ qlock' = NoThread
    /\ pos' = [pos EXCEPT ![x] = 0]
    /\ pc' = [y \in Thread |-> IF y = x THEN "tclose"
                               ELSE IF y \in Worker /\ pc[y] = "asleep" THEN "pop"
                               ELSE pc[y]]
    /\ UNCHANGED <<taskVars, queue, qclosed, timerVars, alive, now, cur, op, arg, stk, ret, runs, late>>

\* TimerQueue::Close, likewise.
TimerClose(x) ==
    /\ pc[x] = "tclose"
    /\ Goto(x, IF tclosed THEN CallSite(x) ELSE "tlock")
    /\ tclosed' = TRUE
    /\ UNCHANGED <<taskVars, queueVars, tqueue, tlock, alive, now, callVars, runs, late>>

TimerCloseLock(x) ==
    /\ pc[x] = "tlock"
    /\ tlock = NoThread
    /\ tlock' = x
    /\ pos' = [pos EXCEPT ![x] = 1]
    /\ Goto(x, "tclosing")
    /\ UNCHANGED <<taskVars, queueVars, tqueue, tclosed, alive, now, cur, op, arg, stk, ret, runs, late>>

TimerCloseCancel(x) ==
    /\ pc[x] = "tclosing" /\ pos[x] <= Len(tqueue)
    /\ Call(x, tqueue[pos[x]], "cancel", "tclosing")
    /\ pos' = [pos EXCEPT ![x] = @ + 1]
    /\ UNCHANGED <<taskVars, queueVars, timerVars, alive, now, cur, op, stk, runs, late>>

TimerCloseEnd(x) ==
    /\ pc[x] = "tclosing" /\ pos[x] > Len(tqueue)
    /\ tlock' = NoThread
    /\ pos' = [pos EXCEPT ![x] = 0]
    /\ pc' = NotifyTimer([pc EXCEPT ![x] = CallSite(x)])
    /\ UNCHANGED <<taskVars, queueVars, tqueue, tclosed, alive, now, cur, op, arg, stk, ret, runs, late>>

AllExited == \A x \in Worker \cup {Timer} : pc[x] = "exit"

\* WaitShutdown: join every thread.
WaitShutdown(x) ==
    /\ x \in Client \cap Closer /\ pc[x] = "idle" /\ alive
    /\ Goto(x, "join")
    /\ UNCHANGED <<taskVars, queueVars, timerVars, alive, now, callVars, runs, late>>

Joined(x) ==
    /\ pc[x] = "join" /\ AllExited
    /\ Goto(x, "idle")
    /\ UNCHANGED <<taskVars, queueVars, timerVars, alive, now, callVars, runs, late>>

\* x is inside Task::Cancel, which uses no Executor, on its own account.
InCancel(x) == pc[x] \in CallPCs /\ ret[x] = "idle"

\* ~Executor is StartShutdown, WaitShutdown and the release of the queue, which
\* the tasks know only by a weak pointer.  Nobody is inside a member of Executor
\* by then; a client may be inside Cancel.  One that has passed queue_.expired()
\* but not yet queue_.lock(), two lines on, would go on with a null pointer: Enque
\* is one step here, so the Executor is not destroyed between the two.
Destroy ==
    /\ alive /\ qclosed /\ tclosed /\ AllExited
    /\ \A x \in Client : pc[x] \in {"idle", "wait", "blocked"} \/ InCancel(x)
    /\ alive' = FALSE
    /\ UNCHANGED <<taskVars, queueVars, timerVars, now, pc, callVars, runs, late>>
-----------------------------------------------------------------------------
\* What a thread does on its own once it is in an operation.
Advance(x) ==
    \/ TryToEnque(x) \/ TimerEnque(x) \/ PushTest(x) \/ PushAppend(x)
    \/ CancelStore(x) \/ OnFinishedLock(x)
    \/ OnFinishedDepended(x) \/ OnFinishedTriggered(x) \/ OnFinishedEnd(x)
    \/ SubmitTimer(x) \/ TimerPushTest(x) \/ TimerPushAppend(x) \/ WaitTest(x)
    \/ CloseLock(x) \/ CloseCancel(x) \/ CloseEnd(x)
    \/ TimerClose(x) \/ TimerCloseLock(x) \/ TimerCloseCancel(x) \/ TimerCloseEnd(x)
    \/ Joined(x)

WorkerStep(x) ==
    \/ Pop(x) \/ CheckCanceled(x) \/ StartRun(x)
    \/ \E result \in {"Completed", "Failed"} : FinishRun(x, result)

TimerStep(x) == TimerPop(x) \/ TimerTimeout(x) \/ TimerCheckCanceled(x)

\* What a client, or the body of a task, may decide to do.
Request(x) ==
    \/ \E t \in Task : \/ Submit(x, t) \/ Cancel(x, t) \/ Wait(x, t) \/ SetTimeTrigger(x, t)
                      \/ \E d \in Task : AddDependency(x, t, d) \/ AddTrigger(x, t, d)
    \/ StartShutdown(x) \/ WaitShutdown(x)

Next == \/ \E x \in Thread : Advance(x) \/ WorkerStep(x) \/ TimerStep(x) \/ Request(x)
        \/ Tick \/ Destroy

Spec == Init /\ [][Next]_vars

\* Every thread that can go on does, tasks' bodies return, and time passes.
\* No fairness for what clients decide.
FairSpec ==
    /\ Spec
    /\ \A x \in Thread : WF_vars(Advance(x)) /\ WF_vars(WorkerStep(x)) /\ WF_vars(TimerStep(x))
    /\ WF_vars(Tick)
-----------------------------------------------------------------------------
(* Properties.                                                             *)

\* The body of a task is run at most once, however Submit, OnFinished of several
\* dependencies and triggers, and the timer race to enqueue it.
RunsAtMostOnce == \A t \in Task : runs[t] <= 1

\* The condition under which readme.md lets a submitted task start.
MayStart(t) ==
    \/ deps[t] # {} /\ \A d \in deps[t] : IsFinished(d)
    \/ \E d \in trigs[t] : IsFinished(d)
    \/ timed[t] /\ now >= StartAt[t]
    \/ deps[t] = {} /\ trigs[t] = {} /\ ~timed[t]

\* A task is enqueued or run only when its condition really holds: the counter
\* and the flag that stand for it are not ahead of the tasks they count.
StartsOnlyWhenDue ==
    \A t \in Task : state[t] = "Enqueued" \/ runs[t] > 0 => MayStart(t)

\* A submitted task that has become ready is about to be enqueued by somebody:
\* Submit and the OnFinished of its last dependency cannot both miss it.
NoLostEnqueue ==
    \A t \in Task : alive /\ state[t] = "Submitted" /\ IsReadyToEnque(t)
        => \E x \in Thread : pc[x] \in {"try", "enque"} /\ arg[x] = t

\* A finished task never becomes unfinished again (Wait has told its clients).
FinishedForGood == [][\A t \in Task : IsFinished(t) => IsFinished(t)']_vars

\* x cannot go on before y has released a mutex.
WaitsFor(x, y) ==
    \/ pc[x] = "lock" /\ \E i \in 1..Len(stk[y]) : stk[y][i] = arg[x]
    \/ pc[x] \in {"append", "pop", "qlock"} /\ qlock = y
    \/ pc[x] \in {"tappend", "tpop", "tlock"} /\ tlock = y

\* No threads wait for each other's mutexes in a circle.
NoLockCycle ==
    \A S \in SUBSET Thread \ {{}} : \E x \in S : \A y \in S : ~WaitsFor(x, y)

\* No thread is inside a call about t.
Settled(t) == \A x \in Thread : op[x] # t /\ arg[x] # t

\* A task submitted after the shutdown whose start does not hang on other tasks
\* is canceled by the time Submit returns; one that hangs on others is canceled
\* as soon as these have let it go.
LateSubmitNeverWaits ==
    \A t \in late : Settled(t) /\ (IsReadyToEnque(t) \/ timed[t]) /\ alive
                      => state[t] = "Canceled"

\* readme.md: tasks submitted after StartShutdown must at once become Canceled.
LateSubmitCanceled == \A t \in late : Settled(t) => state[t] = "Canceled"

\* readme.md: Cancel of a task that has not started keeps it from starting.
CancelPreventsRun ==
    [][\A t \in Task : runs'[t] > runs[t] => state[t] # "Canceled"]_vars

\* readme.md: after Submit the user can wait until the task is finished.  When all
\* threads of the executor have left, no unfinished task sits in a queue.
NothingStranded ==
    AllExited => /\ \A i \in 1..Len(queue) : IsFinished(queue[i]) \/ ~Settled(queue[i])
                 /\ \A i \in 1..Len(tqueue) : IsFinished(tqueue[i]) \/ ~Settled(tqueue[i])

\* A submitted task whose condition has come true is finished some day.
DueTasksFinish ==
    \A t \in Task : (state[t] \in {"Submitted", "Enqueued"} /\ MayStart(t)) ~> IsFinished(t)

\* Wait returns once the task is finished: its wake-up is not lost between the
\* store of the state and notify_all at the end of OnFinished.
WaitReturns ==
    \A x \in Waiter, t \in Task :
        (pc[x] \in {"wait", "blocked"} /\ op[x] = t /\ IsFinished(t)) ~> (pc[x] = "idle")

\* After StartShutdown every thread of the executor leaves (WaitShutdown returns):
\* workers asleep in Pop, and the timer thread asleep until a deadline.
ShutdownCompletes == qclosed ~> AllExited
=============================================================================
