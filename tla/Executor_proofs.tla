-------------------------- MODULE Executor_proofs ---------------------------
(***************************************************************************)
(* For every set of tasks, workers and clients, every graph of             *)
(* dependencies and triggers and every choice of who submits, cancels and  *)
(* shuts down: no task is run twice or before its condition holds, none    *)
(* that is ready is forgotten, none that is finished is revived, and none  *)
(* submitted after the shutdown waits for a thread that has left.          *)
(***************************************************************************)
EXTENDS Executor, FiniteSetTheorems, SequenceTheorems, TLAPS

\* e occurs in s; it does not occur twice.
In(s, e) == \E i \in 1..Len(s) : s[i] = e
Once(s, e) == \A i, j \in 1..Len(s) : s[i] = e /\ s[j] = e => i = j

TaskType ==
    /\ state \in [Task -> States]
    /\ deps \in [Task -> SUBSET Task] /\ trigs \in [Task -> SUBSET Task]
    /\ cnt \in [Task -> Int]
    /\ activated \in [Task -> BOOLEAN] /\ timed \in [Task -> BOOLEAN]
    /\ depended \in [Task -> Seq(Task)] /\ triggered \in [Task -> Seq(Task)]
    /\ runs \in [Task -> Nat] /\ late \in SUBSET Task

QueueType ==
    /\ queue \in Seq(Task) /\ qclosed \in BOOLEAN /\ qlock \in Thread \cup {NoThread}
    /\ tqueue \in Seq(Task) /\ tclosed \in BOOLEAN /\ tlock \in Thread \cup {NoThread}
    /\ alive \in BOOLEAN /\ now \in Nat

\* Where members of Task and TasksQueue are called from.
ReturnPCs == {"pop", "tpop", "idle", "run", "submitted", "closing", "tclosing"}

ThreadType ==
    /\ pc \in [Thread -> PCs] /\ ret \in [Thread -> ReturnPCs]
    /\ cur \in [Thread -> Task \cup {NoTask}]
    /\ op \in [Thread -> Task \cup {NoTask}]
    /\ arg \in [Thread -> Task \cup {NoTask}]
    /\ stk \in [Thread -> Seq(Task)]
    /\ pos \in [Thread -> Nat]

\* Where a thread is, apart from the members of Task and TasksQueue it has called.
Where(x) == IF pc[x] \in CallPCs THEN ret[x] ELSE pc[x]

SubmitPCs == {"submitted", "tpush", "tappend"}
ClosePCs == {"qlock", "closing", "tclose", "tlock", "tclosing"}

\* A register that will be read holds a task: the argument of a member, the popped
\* task, the task of Submit or Wait; and OnFinished is on the stack until it ends.
RegistersOf(x) ==
    /\ pc[x] \in CallPCs \ {"loop"} => arg[x] \in Task
    /\ pc[x] = "loop" => stk[x] # <<>>
    /\ pc[x] \notin CallPCs => stk[x] = <<>>
    /\ Where(x) \in {"got", "start", "run", "tgot"} => cur[x] \in Task
    /\ x \in Worker /\ Where(x) \in SubmitPCs \cup ClosePCs => cur[x] \in Task
    /\ Where(x) \in SubmitPCs \cup {"wait", "blocked"} => op[x] \in Task
    /\ Where(x) \in {"closing", "tclosing"} => pos[x] > 0

Registers == \A x \in Thread : RegistersOf(x)

Typing == TaskType /\ QueueType /\ ThreadType /\ Registers

\* The one permission to run a task: somebody is about to push it, it is queued, a
\* worker is about to start it, or it has been used.
Pushing(x, t) == pc[x] \in {"push", "append"} /\ arg[x] = t
Holding(x, t) == pc[x] \in {"got", "start"} /\ cur[x] = t

Unused(t) ==
    /\ ~In(queue, t) /\ runs[t] = 0
    /\ \A x \in Thread : ~Pushing(x, t) /\ ~Holding(x, t)

\* The permission is given when the task is enqueued and is never doubled.
OnePermission ==
    \A t \in Task :
        /\ state[t] \in {"Created", "Submitted"} => Unused(t)
        /\ runs[t] <= 1
        /\ Once(queue, t)
        /\ In(queue, t) => runs[t] = 0
        /\ \A x \in Thread :
             /\ Pushing(x, t) => ~In(queue, t) /\ runs[t] = 0
             /\ Holding(x, t) => ~In(queue, t) /\ runs[t] = 0
             /\ \A y \in Thread : /\ Pushing(x, t) => ~Holding(y, t)
                                  /\ Pushing(x, t) /\ Pushing(y, t) => x = y
                                  /\ Holding(x, t) /\ Holding(y, t) => x = y

\* The lists of a task agree with what was asked of it, and miss nobody while it is
\* not finished.
Lists ==
    \A t, d \in Task :
        /\ In(depended[d], t) => d \in deps[t]
        /\ Once(depended[d], t)
        /\ d \in deps[t] /\ ~IsFinished(d) => In(depended[d], t)
        /\ In(triggered[d], t) => d \in trigs[t]

\* The counter counts the lists that hold the task.
Blockers(t) == {d \in Task : In(depended[d], t)}
Counted == \A t \in Task : cnt[t] = Cardinality(Blockers(t))

\* The lists are walked, and the flag is set, only after the task is finished.
WalkedBy(x) == /\ \A t \in Task : In(stk[x], t) => IsFinished(t)
               /\ pc[x] = "lock" => IsFinished(arg[x])
Walked == /\ \A x \in Thread : WalkedBy(x)
          /\ \A t \in Task : activated[t] => \E d \in trigs[t] : IsFinished(d)

\* The timer thread has only tasks with a time, and enqueues them when it has come.
OnTimeBy(x) == /\ pc[x] \in {"tpush", "tappend"} => timed[op[x]]
               /\ pc[x] = "tgot" => timed[cur[x]] /\ StartAt[cur[x]] <= now
               /\ pc[x] = "enque" => timed[arg[x]] /\ StartAt[arg[x]] <= now
OnTime ==
    /\ \A t \in Task : In(tqueue, t) => timed[t]
    /\ \A x \in Thread : OnTimeBy(x)

\* Who has the permission, or is about to get it, may start.
Justified == \A t \in Task : state[t] = "Enqueued" \/ ~Unused(t) => MayStart(t)

\* A task nobody has submitted is in no queue and in no hands.
Fresh ==
    \A t \in Task : state[t] = "Created" =>
        /\ ~In(tqueue, t)
        /\ \A x \in Thread : /\ cur[x] # t
                             /\ Where(x) \in SubmitPCs => op[x] # t

\* A late task stays out of the queues and out of the workers' hands.
LateOut(t) ==
    /\ qclosed /\ tclosed
    /\ state[t] \in {"Submitted", "Enqueued", "Canceled"}
    /\ ~In(queue, t) /\ ~In(tqueue, t)
    /\ \A x \in Thread : /\ cur[x] # t
                         /\ pc[x] = "append" => arg[x] # t
                         /\ pc[x] = "tappend" => op[x] # t

\* Somebody is on the way to cancel a late task that is enqueued or waits for its time.
LateCare(t) ==
    /\ state[t] = "Enqueued" => \E x \in Thread : pc[x] \in {"push", "cancel"} /\ arg[x] = t
    /\ state[t] = "Submitted" /\ timed[t] =>
         \E x \in Thread : \/ Where(x) \in {"submitted", "tpush"} /\ op[x] = t
                           \/ pc[x] = "cancel" /\ arg[x] = t

LateOnes == \A t \in late : LateOut(t) /\ LateCare(t)

IInv == /\ Typing /\ OnePermission /\ Lists /\ Counted /\ Walked /\ OnTime /\ Justified
        /\ NoLostEnqueue /\ Fresh /\ LateOnes

\* What Append does to the members of a list.
LEMMA Appended ==
  ASSUME NEW s \in Seq(Task), NEW e \in Task
  PROVE  /\ Append(s, e) \in Seq(Task)
         /\ \A f \in Task : In(Append(s, e), f) <=> In(s, f) \/ f = e
         /\ \A f \in Task : Once(s, f) /\ (f = e => ~In(s, f)) => Once(Append(s, e), f)
<1>1. /\ Append(s, e) \in Seq(Task)
      /\ Len(Append(s, e)) = Len(s) + 1
      /\ \A i \in 1..Len(s) : Append(s, e)[i] = s[i]
      /\ Append(s, e)[Len(s) + 1] = e
      BY AppendProperties
<1>2. Len(s) \in Nat
      BY LenProperties
<1> QED BY <1>1, <1>2 DEF In, Once

\* What Head and Tail do.
LEMMA HeadRemoved ==
  ASSUME NEW s \in Seq(Task), s # <<>>
  PROVE  /\ Head(s) \in Task /\ In(s, Head(s))
         /\ Tail(s) \in Seq(Task)
         /\ Tail(s) = <<>> <=> Len(s) = 1
         /\ \A f \in Task : In(Tail(s), f) => In(s, f)
         /\ \A f \in Task : In(s, f) => f = Head(s) \/ In(Tail(s), f)
         /\ \A f \in Task : Once(s, f) => Once(Tail(s), f)
         /\ Once(s, Head(s)) => ~In(Tail(s), Head(s))
<1>1. /\ Head(s) \in Task
      /\ Tail(s) \in Seq(Task)
      /\ Len(Tail(s)) = Len(s) - 1
      /\ \A i \in 1..Len(Tail(s)) : Tail(s)[i] = s[i + 1]
      BY HeadTailProperties
<1>2. Len(s) \in Nat /\ Len(s) > 0 /\ Head(s) = s[1]
      BY LenProperties, EmptySeq
<1>3. Tail(s) = <<>> <=> Len(s) = 1
  <2>1. Tail(s) # <<>> => Len(Tail(s)) \in Nat \ {0}
        BY <1>1, EmptySeq
  <2>2. Tail(s) = <<>> => Len(Tail(s)) = 0
        BY EmptySeq
  <2> QED BY <1>1, <1>2, <2>1, <2>2
<1>4. In(s, Head(s))
      BY <1>2 DEF In
<1>5. \A f \in Task : In(Tail(s), f) => In(s, f)
      BY <1>1, <1>2 DEF In
<1>6. ASSUME NEW f \in Task, In(s, f), f # Head(s) PROVE In(Tail(s), f)
  <2>1. PICK i \in 1..Len(s) : s[i] = f
        BY <1>6 DEF In
  <2>2. i - 1 \in 1..Len(Tail(s)) /\ Tail(s)[i - 1] = f
        BY <1>1, <1>2, <1>6, <2>1
  <2> QED BY <2>2 DEF In
<1>7. \A f \in Task : Once(s, f) => Once(Tail(s), f)
      BY <1>1, <1>2 DEF Once
<1>8. Once(s, Head(s)) => ~In(Tail(s), Head(s))
      BY <1>1, <1>2 DEF In, Once
<1> QED BY <1>1, <1>3, <1>4, <1>5, <1>6, <1>7, <1>8

\* What putting an element in front does.
LEMMA Prepended ==
  ASSUME NEW s \in Seq(Task), NEW e \in Task
  PROVE  /\ <<e>> \o s \in Seq(Task) /\ <<e>> \o s # <<>>
         /\ \A f \in Task : In(<<e>> \o s, f) => f = e \/ In(s, f)
<1>1. <<e>> \in Seq(Task) /\ Len(<<e>>) = 1 /\ <<e>>[1] = e
      OBVIOUS
<1>2. /\ <<e>> \o s \in Seq(Task)
      /\ Len(<<e>> \o s) = 1 + Len(s)
      /\ \A i \in 1..Len(<<e>> \o s) :
            (<<e>> \o s)[i] = IF i <= 1 THEN <<e>>[i] ELSE s[i - 1]
      BY <1>1, ConcatProperties
<1>3. Len(s) \in Nat
      BY LenProperties
<1> QED BY <1>1, <1>2, <1>3, EmptySeq DEF In

\* What taking out the element at i does.
LEMMA Removed ==
  ASSUME NEW s \in Seq(Task), NEW i \in 1..Len(s)
  PROVE  /\ SubSeq(s, 1, i - 1) \o SubSeq(s, i + 1, Len(s)) \in Seq(Task)
         /\ \A f \in Task :
              In(SubSeq(s, 1, i - 1) \o SubSeq(s, i + 1, Len(s)), f) => In(s, f)
<1> DEFINE l == SubSeq(s, 1, i - 1)
           r == SubSeq(s, i + 1, Len(s))
<1>1. Len(s) \in Nat
      BY LenProperties
<1>2. l \in Seq(Task) /\ Len(l) = i - 1 /\ \A k \in 1..Len(l) : l[k] = s[k]
      BY <1>1, SubSeqProperties
<1>3. r \in Seq(Task) /\ Len(r) = Len(s) - i /\ \A k \in 1..Len(r) : r[k] = s[i + k]
      BY <1>1, SubSeqProperties
<1> HIDE DEF l, r
<1>4. /\ l \o r \in Seq(Task) /\ Len(l \o r) = Len(l) + Len(r)
      /\ \A k \in 1..Len(l) + Len(r) : (l \o r)[k] = IF k <= Len(l) THEN l[k] ELSE r[k - Len(l)]
      BY <1>2, <1>3, ConcatProperties
<1>5. ASSUME NEW f \in Task, In(l \o r, f) PROVE In(s, f)
  <2>1. PICK k \in 1..Len(l) + Len(r) : (l \o r)[k] = f
        BY <1>4, <1>5 DEF In
  <2>2. CASE k <= Len(l)
    <3>1. k \in 1..Len(s) /\ s[k] = f
          BY <1>1, <1>2, <1>4, <2>1, <2>2
    <3> QED BY <3>1 DEF In
  <2>3. CASE ~(k <= Len(l))
    <3>1. k - Len(l) \in 1..Len(r)
          BY <1>1, <1>2, <1>3, <1>4, <2>1, <2>3
    <3>2. i + (k - Len(l)) \in 1..Len(s) /\ s[i + (k - Len(l))] = f
          BY <1>1, <1>2, <1>3, <1>4, <2>1, <2>3, <3>1
    <3> QED BY <3>2 DEF In
  <2> QED BY <2>2, <2>3
<1> QED BY <1>4, <1>5 DEF l, r

\* Nothing is in an empty list.
LEMMA EmptyList == \A f : ~In(<<>>, f) /\ Once(<<>>, f)
BY DEF In, Once
-----------------------------------------------------------------------------
(* Types.                                                                  *)

\* A step of thread x.
Step(x) == Advance(x) \/ WorkerStep(x) \/ TimerStep(x) \/ Request(x)

\* All that other steps change is the clock, or that the Executor is gone.
Still == UNCHANGED <<taskVars, queueVars, timerVars, pc, callVars, runs, late>>

\* A step is one of a thread or changes nothing of the tasks, queues and threads.
LEMMA Steps ==
  ASSUME [Next]_vars
  PROVE  \/ \E x \in Thread : Step(x)
         \/ Still /\ (alive' => alive) /\ (now' = now \/ Tick)
<1>1. CASE Tick \/ Destroy \/ UNCHANGED vars
      BY <1>1 DEF Tick, Destroy, vars, Still
<1> QED BY <1>1 DEF Next, Step

\* The steps that change what is known of a task.
TaskStep(x) ==
    \/ TryToEnque(x) \/ TimerEnque(x) \/ CancelStore(x)
    \/ OnFinishedDepended(x) \/ OnFinishedTriggered(x)
    \/ StartRun(x) \/ \E r \in {"Completed", "Failed"} : FinishRun(x, r)
    \/ \E t \in Task : \/ Submit(x, t) \/ SetTimeTrigger(x, t)
                      \/ \E d \in Task : AddDependency(x, t, d) \/ AddTrigger(x, t, d)

\* Only these steps change the tasks and the queues, and a closed queue stays closed.
LEMMA Frame ==
  ASSUME NEW x \in Thread, Step(x)
  PROVE  /\ TaskStep(x) \/ UNCHANGED <<taskVars, runs, late>>
         /\ PushAppend(x) \/ Pop(x) \/ UNCHANGED queue
         /\ TimerPushAppend(x) \/ TimerPop(x) \/ UNCHANGED tqueue
         /\ (qclosed => qclosed') /\ (tclosed => tclosed')
         /\ UNCHANGED <<alive, now>>
<1> DEFINE G == /\ TaskStep(x) \/ UNCHANGED <<taskVars, runs, late>>
                /\ PushAppend(x) \/ Pop(x) \/ UNCHANGED queue
                /\ TimerPushAppend(x) \/ TimerPop(x) \/ UNCHANGED tqueue
                /\ (qclosed => qclosed') /\ (tclosed => tclosed')
                /\ UNCHANGED <<alive, now>>
<1> USE DEF queueVars, timerVars
<1>1. ASSUME    TryToEnque(x) \/ TimerEnque(x) \/ CancelStore(x)
             \/ OnFinishedDepended(x) \/ OnFinishedTriggered(x)
      PROVE  G
      BY <1>1 DEF TryToEnque, TimerEnque, CancelStore, OnFinishedDepended,
             OnFinishedTriggered, TaskStep
<1>2. ASSUME \/ StartRun(x) \/ (\E r \in {"Completed", "Failed"} : FinishRun(x, r))
             \/ (\E t \in Task : Submit(x, t)) \/ (\E t \in Task : SetTimeTrigger(x, t))
             \/ (\E t, d \in Task : AddDependency(x, t, d) \/ AddTrigger(x, t, d))
      PROVE  G
  <2>1. TaskStep(x)
        BY <1>2 DEF TaskStep
  <2>2. UNCHANGED <<queueVars, timerVars, alive, now>>
        BY <1>2 DEF StartRun, FinishRun, Submit, SetTimeTrigger, AddDependency, AddTrigger
  <2> QED BY <2>1, <2>2
<1>3. ASSUME PushAppend(x) \/ Pop(x) \/ TimerPushAppend(x) \/ TimerPop(x) PROVE G
  <2>1. CASE PushAppend(x) \/ Pop(x)
        BY <2>1 DEF PushAppend, Pop
  <2>2. CASE TimerPushAppend(x) \/ TimerPop(x)
    <3>1. UNCHANGED <<taskVars, queueVars, tclosed, alive, now, runs, late>>
          BY <2>2 DEF TimerPushAppend, TimerPop
    <3> QED BY <2>2, <3>1
  <2> QED BY <1>3, <2>1, <2>2
<1>4. ASSUME    PushTest(x) \/ OnFinishedLock(x) \/ OnFinishedEnd(x) \/ SubmitTimer(x)
             \/ TimerPushTest(x) \/ WaitTest(x) \/ CloseLock(x) \/ CloseCancel(x)
             \/ CloseEnd(x) \/ TimerClose(x) \/ TimerCloseLock(x)
             \/ TimerCloseCancel(x) \/ TimerCloseEnd(x) \/ Joined(x)
      PROVE  G
      BY <1>4 DEF PushTest, OnFinishedLock, OnFinishedEnd, SubmitTimer, TimerPushTest,
             WaitTest, CloseLock, CloseCancel, CloseEnd, TimerClose, TimerCloseLock,
             TimerCloseCancel, TimerCloseEnd, Joined
<1>5. ASSUME    CheckCanceled(x) \/ TimerTimeout(x) \/ TimerCheckCanceled(x)
             \/ (\E t \in Task : Cancel(x, t)) \/ (\E t \in Task : Wait(x, t))
             \/ StartShutdown(x) \/ WaitShutdown(x)
      PROVE  G
      BY <1>5 DEF CheckCanceled, TimerTimeout, TimerCheckCanceled, Cancel, Wait,
             StartShutdown, WaitShutdown
<1> HIDE DEF G
<1>6. CASE Advance(x)
      BY <1>1, <1>3, <1>4, <1>6 DEF Advance, G
<1>7. CASE WorkerStep(x) \/ TimerStep(x)
      BY <1>2, <1>3, <1>5, <1>7 DEF WorkerStep, TimerStep, G
<1>8. CASE Request(x)
      BY <1>2, <1>5, <1>8 DEF Request, G
<1> QED BY <1>6, <1>7, <1>8 DEF Step

\* The same of any step.
LEMMA TaskSteps ==
  ASSUME [Next]_vars
  PROVE  (\E x \in Thread : TaskStep(x)) \/ UNCHANGED <<taskVars, runs, late>>
BY Steps, Frame DEF Still

\* Every step keeps the types of the tasks.
LEMMA StepTaskType ==
  ASSUME Typing, [Next]_vars
  PROVE  TaskType'
<1> USE DEF Typing, TaskType, ThreadType, Registers, RegistersOf, States, CallPCs
<1>1. ASSUME NEW x \in Thread, TryToEnque(x) PROVE TaskType'
      BY <1>1 DEF TryToEnque, Enque
<1>2. ASSUME NEW x \in Thread, TimerEnque(x) PROVE TaskType'
      BY <1>2 DEF TimerEnque, Enque
<1>3. ASSUME NEW x \in Thread, CancelStore(x) PROVE TaskType'
      BY <1>3 DEF CancelStore
<1>4. ASSUME NEW x \in Thread, OnFinishedDepended(x) PROVE TaskType'
  <2> DEFINE t == Head(stk[x])
             d == Head(depended[t])
  <2>1. stk[x] \in Seq(Task) /\ stk[x] # <<>>
        BY <1>4 DEF OnFinishedDepended
  <2>2. t \in Task
        BY <2>1, HeadRemoved
  <2>3. depended[t] \in Seq(Task) /\ depended[t] # <<>>
        BY <1>4, <2>2 DEF OnFinishedDepended
  <2>4. d \in Task /\ Tail(depended[t]) \in Seq(Task)
        BY <2>3, HeadRemoved
  <2>5. /\ cnt' = [cnt EXCEPT ![d] = @ - 1]
        /\ depended' = [depended EXCEPT ![t] = Tail(@)]
        /\ UNCHANGED <<state, deps, trigs, activated, timed, triggered, runs, late>>
        BY <1>4 DEF OnFinishedDepended
  <2> HIDE DEF t, d
  <2>6. cnt' \in [Task -> Int]
    <3>1. cnt' = [cnt EXCEPT ![d] = cnt[d] - 1] /\ cnt \in [Task -> Int] /\ cnt[d] \in Int
          BY <2>4, <2>5
    <3>2. cnt[d] - 1 \in Int
          BY <3>1
    <3> QED BY <2>4, <3>1, <3>2
  <2>7. depended' \in [Task -> Seq(Task)]
        BY <2>2, <2>4, <2>5
  <2> QED BY <2>5, <2>6, <2>7
<1>5. ASSUME NEW x \in Thread, OnFinishedTriggered(x) PROVE TaskType'
  <2> DEFINE t == Head(stk[x])
             d == Head(triggered[t])
  <2>1. stk[x] \in Seq(Task) /\ stk[x] # <<>>
        BY <1>5 DEF OnFinishedTriggered
  <2>2. t \in Task
        BY <2>1, HeadRemoved
  <2>3. triggered[t] \in Seq(Task) /\ triggered[t] # <<>>
        BY <1>5, <2>2 DEF OnFinishedTriggered
  <2>4. d \in Task /\ Tail(triggered[t]) \in Seq(Task)
        BY <2>3, HeadRemoved
  <2>5. /\ activated' = [activated EXCEPT ![d] = TRUE]
        /\ triggered' = [triggered EXCEPT ![t] = Tail(@)]
        /\ UNCHANGED <<state, deps, cnt, trigs, timed, depended, runs, late>>
        BY <1>5 DEF OnFinishedTriggered
  <2> HIDE DEF t, d
  <2> QED BY <2>2, <2>4, <2>5
<1>6. ASSUME NEW x \in Thread, StartRun(x) PROVE TaskType'
  <2>1. cur[x] \in Task
        BY <1>6 DEF StartRun, Where
  <2> QED BY <1>6, <2>1 DEF StartRun, taskVars
<1>7. ASSUME NEW x \in Thread, NEW r \in {"Completed", "Failed"}, FinishRun(x, r)
      PROVE  TaskType'
      BY <1>7 DEF FinishRun
<1>8. ASSUME NEW x \in Thread, NEW t \in Task, Submit(x, t) PROVE TaskType'
  <2> HIDE DEF ThreadType, Registers, RegistersOf
  <2>1. state' = state \/ state' = [state EXCEPT ![t] = "Submitted"]
        BY <1>8 DEF Submit
  <2>2. late' = late \/ late' = late \cup {t}
        BY <1>8 DEF Submit
  <2>3. state' \in [Task -> States] /\ late' \in SUBSET Task
        BY <2>1, <2>2
  <2> QED BY <1>8, <2>3 DEF Submit
<1>9. ASSUME NEW x \in Thread, NEW t \in Task, SetTimeTrigger(x, t) PROVE TaskType'
      BY <1>9 DEF SetTimeTrigger
<1>10. ASSUME NEW x \in Thread, NEW t \in Task, NEW d \in Task, AddDependency(x, t, d)
       PROVE  TaskType'
  <2>1. Append(depended[d], t) \in Seq(Task)
        BY Appended
  <2>2. depended' \in [Task -> Seq(Task)]
        BY <1>10, <2>1 DEF AddDependency
  <2>3. cnt' \in [Task -> Int] /\ deps' \in [Task -> SUBSET Task]
        BY <1>10 DEF AddDependency
  <2> QED BY <1>10, <2>2, <2>3 DEF AddDependency
<1>11. ASSUME NEW x \in Thread, NEW t \in Task, NEW d \in Task, AddTrigger(x, t, d)
       PROVE  TaskType'
  <2>1. Append(triggered[d], t) \in Seq(Task)
        BY Appended
  <2>2. triggered' \in [Task -> Seq(Task)]
        BY <1>11, <2>1 DEF AddTrigger
  <2>3. activated' \in [Task -> BOOLEAN] /\ trigs' \in [Task -> SUBSET Task]
        BY <1>11 DEF AddTrigger
  <2> QED BY <1>11, <2>2, <2>3 DEF AddTrigger
<1>12. CASE UNCHANGED <<taskVars, runs, late>>
       BY <1>12 DEF taskVars
<1> QED BY <1>1, <1>2, <1>3, <1>4, <1>5, <1>6, <1>7, <1>8, <1>9, <1>10, <1>11, <1>12,
           TaskSteps DEF TaskStep

\* Every step keeps the types of the queues.
LEMMA StepQueueType ==
  ASSUME Typing, [Next]_vars
  PROVE  QueueType'
<1> USE DEF Typing, QueueType
<1>1. ASSUME NEW x \in Thread, PushAppend(x) PROVE queue' \in Seq(Task)
  <2>1. arg[x] \in Task
        BY <1>1 DEF PushAppend, Registers, RegistersOf, CallPCs
  <2>2. Append(queue, arg[x]) \in Seq(Task)
        BY <2>1, Appended
  <2> QED BY <1>1, <2>2 DEF PushAppend
<1>2. ASSUME NEW x \in Thread, Pop(x) PROVE queue' \in Seq(Task)
  <2>1. queue # <<>> => Tail(queue) \in Seq(Task)
        BY HeadRemoved
  <2> QED BY <1>2, <2>1 DEF Pop
<1>3. ASSUME NEW x \in Thread, TimerPushAppend(x) PROVE tqueue' \in Seq(Task)
  <2>1. op[x] \in Task
        BY <1>3 DEF TimerPushAppend, Registers, RegistersOf, Where, CallPCs, SubmitPCs
  <2>2. Append(tqueue, op[x]) \in Seq(Task)
        BY <2>1, Appended
  <2> QED BY <1>3, <2>2 DEF TimerPushAppend
<1>4. ASSUME NEW x \in Thread, TimerPop(x) PROVE tqueue' \in Seq(Task)
  <2>1. ASSUME NEW i \in Fronts
        PROVE  SubSeq(tqueue, 1, i - 1) \o SubSeq(tqueue, i + 1, Len(tqueue)) \in Seq(Task)
        BY Removed DEF Fronts
  <2> QED BY <1>4, <2>1 DEF TimerPop
<1>5. ASSUME NEW x \in Thread, Step(x) PROVE QueueType'
  <2>1. queue' \in Seq(Task) /\ tqueue' \in Seq(Task) /\ alive' \in BOOLEAN /\ now' \in Nat
        BY <1>1, <1>2, <1>3, <1>4, <1>5, Frame
  <2>2. /\ qclosed' \in BOOLEAN /\ qlock' \in Thread \cup {NoThread}
        /\ tclosed' \in BOOLEAN /\ tlock' \in Thread \cup {NoThread}
    <3> USE DEF queueVars, timerVars
    <3>1. CASE Advance(x)
          BY <3>1 DEF Advance, TryToEnque, TimerEnque, PushTest, PushAppend,
             CancelStore, OnFinishedLock, OnFinishedDepended, OnFinishedTriggered,
             OnFinishedEnd, SubmitTimer, TimerPushTest, TimerPushAppend, WaitTest,
             CloseLock, CloseCancel, CloseEnd, TimerClose, TimerCloseLock,
             TimerCloseCancel, TimerCloseEnd, Joined
    <3>2. CASE WorkerStep(x) \/ TimerStep(x)
          BY <3>2 DEF WorkerStep, TimerStep, Pop, CheckCanceled, StartRun, FinishRun,
             TimerPop, TimerTimeout, TimerCheckCanceled
    <3>3. ASSUME NEW t \in Task, Submit(x, t) \/ Cancel(x, t) \/ Wait(x, t) \/ SetTimeTrigger(x, t)
          PROVE  UNCHANGED <<queueVars, timerVars>>
          BY <3>3 DEF Submit, Cancel, Wait, SetTimeTrigger
    <3>4. ASSUME NEW t \in Task, NEW d \in Task, AddDependency(x, t, d) \/ AddTrigger(x, t, d)
          PROVE  UNCHANGED <<queueVars, timerVars>>
          BY <3>4 DEF AddDependency, AddTrigger
    <3>5. ASSUME StartShutdown(x) \/ WaitShutdown(x)
          PROVE  UNCHANGED <<qlock, timerVars>> /\ qclosed' \in BOOLEAN
          BY <3>5 DEF StartShutdown, WaitShutdown
    <3>6. CASE Request(x)
          BY <3>3, <3>4, <3>5, <3>6 DEF Request
    <3> QED BY <1>5, <3>1, <3>2, <3>6 DEF Step
  <2> QED BY <2>1, <2>2
<1>6. CASE Tick
      BY <1>6 DEF Tick, queueVars, timerVars
<1>7. CASE Destroy \/ UNCHANGED vars
      BY <1>7 DEF Destroy, vars, queueVars, timerVars
<1> QED BY <1>5, <1>6, <1>7 DEF Next, Step

\* The places a thread returns to are not inside a call.
LEMMA Places ==
  ASSUME NEW x \in Thread
  PROVE  /\ Home(x) \in {"pop", "tpop", "idle"}
         /\ CallSite(x) \in {"run", "idle"} /\ (CallSite(x) = "run" <=> x \in Worker)
BY DEF Home, CallSite

\* A step of x does not touch the registers of another thread, but may wake it up.
WokenUp(l, m) ==
    \/ l = m
    \/ l = "asleep" /\ m = "pop"
    \/ l = "blocked" /\ m = "wait"
    \/ l \in {"tasleep", "tuntil"} /\ m = "tpop"
Aside(x) ==
    /\ cur' = [cur EXCEPT ![x] = cur'[x]] /\ op' = [op EXCEPT ![x] = op'[x]]
    /\ arg' = [arg EXCEPT ![x] = arg'[x]] /\ stk' = [stk EXCEPT ![x] = stk'[x]]
    /\ ret' = [ret EXCEPT ![x] = ret'[x]] /\ pos' = [pos EXCEPT ![x] = pos'[x]]
    /\ pc' = [y \in Thread |-> pc'[y]]
    /\ \A y \in Thread : y # x => WokenUp(pc[y], pc'[y])

\* What every step of x does to the registers.
LEMMA StepAside ==
  ASSUME ThreadType, NEW x \in Thread, Step(x)
  PROVE  Aside(x)
<1> USE DEF ThreadType, Aside, WokenUp, Goto, Call, Return, callVars
<1>1. ASSUME TryToEnque(x) PROVE Aside(x)
      BY <1>1 DEF TryToEnque, Enque
<1>2. ASSUME TimerEnque(x) PROVE Aside(x)
      BY <1>2 DEF TimerEnque, Enque
<1>3. ASSUME PushTest(x) PROVE Aside(x)
      BY <1>3 DEF PushTest
<1>4. ASSUME PushAppend(x) PROVE Aside(x)
      BY <1>4 DEF PushAppend
<1>5. ASSUME CancelStore(x) PROVE Aside(x)
      BY <1>5 DEF CancelStore
<1>6. ASSUME OnFinishedLock(x) PROVE Aside(x)
      BY <1>6 DEF OnFinishedLock
<1>7. ASSUME OnFinishedDepended(x) PROVE Aside(x)
      BY <1>7 DEF OnFinishedDepended
<1>8. ASSUME OnFinishedTriggered(x) PROVE Aside(x)
      BY <1>8 DEF OnFinishedTriggered
<1>9. ASSUME OnFinishedEnd(x) PROVE Aside(x)
      BY <1>9 DEF OnFinishedEnd
<1>10. ASSUME SubmitTimer(x) PROVE Aside(x)
      BY <1>10 DEF SubmitTimer
<1>11. ASSUME TimerPushTest(x) PROVE Aside(x)
      BY <1>11 DEF TimerPushTest
<1>12. ASSUME TimerPushAppend(x) PROVE Aside(x)
      BY <1>12 DEF TimerPushAppend, NotifyTimer
<1>13. ASSUME WaitTest(x) PROVE Aside(x)
      BY <1>13 DEF WaitTest
<1>14. ASSUME CloseLock(x) PROVE Aside(x)
      BY <1>14 DEF CloseLock
<1>15. ASSUME CloseCancel(x) PROVE Aside(x)
      BY <1>15 DEF CloseCancel
<1>16. ASSUME CloseEnd(x) PROVE Aside(x)
      BY <1>16 DEF CloseEnd
<1>17. ASSUME TimerClose(x) PROVE Aside(x)
      BY <1>17 DEF TimerClose
<1>18. ASSUME TimerCloseLock(x) PROVE Aside(x)
      BY <1>18 DEF TimerCloseLock
<1>19. ASSUME TimerCloseCancel(x) PROVE Aside(x)
      BY <1>19 DEF TimerCloseCancel
<1>20. ASSUME TimerCloseEnd(x) PROVE Aside(x)
      BY <1>20 DEF TimerCloseEnd, NotifyTimer
<1>21. ASSUME Joined(x) PROVE Aside(x)
      BY <1>21 DEF Joined
<1>22. ASSUME Pop(x) PROVE Aside(x)
      BY <1>22 DEF Pop
<1>23. ASSUME CheckCanceled(x) PROVE Aside(x)
      BY <1>23 DEF CheckCanceled
<1>24. ASSUME StartRun(x) PROVE Aside(x)
      BY <1>24 DEF StartRun
<1>25. ASSUME NEW r \in {"Completed", "Failed"}, FinishRun(x, r) PROVE Aside(x)
      BY <1>25 DEF FinishRun
<1>26. ASSUME TimerPop(x) PROVE Aside(x)
      BY <1>26 DEF TimerPop
<1>27. ASSUME TimerTimeout(x) PROVE Aside(x)
      BY <1>27 DEF TimerTimeout
<1>28. ASSUME TimerCheckCanceled(x) PROVE Aside(x)
      BY <1>28 DEF TimerCheckCanceled
<1>29. ASSUME NEW t \in Task, Submit(x, t) PROVE Aside(x)
      BY <1>29 DEF Submit
<1>30. ASSUME NEW t \in Task, Cancel(x, t) PROVE Aside(x)
      BY <1>30 DEF Cancel
<1>31. ASSUME NEW t \in Task, Wait(x, t) PROVE Aside(x)
      BY <1>31 DEF Wait
<1>32. ASSUME NEW t \in Task, SetTimeTrigger(x, t) PROVE Aside(x)
      BY <1>32 DEF SetTimeTrigger
<1>33. ASSUME NEW t \in Task, NEW d \in Task, AddDependency(x, t, d) PROVE Aside(x)
      BY <1>33 DEF AddDependency
<1>34. ASSUME NEW t \in Task, NEW d \in Task, AddTrigger(x, t, d) PROVE Aside(x)
      BY <1>34 DEF AddTrigger
<1>35. ASSUME StartShutdown(x) PROVE Aside(x)
      BY <1>35 DEF StartShutdown
<1>36. ASSUME WaitShutdown(x) PROVE Aside(x)
      BY <1>36 DEF WaitShutdown
<1> QED BY <1>1, <1>2, <1>3, <1>4, <1>5, <1>6, <1>7, <1>8, <1>9, <1>10, <1>11, <1>12,
           <1>13, <1>14, <1>15, <1>16, <1>17, <1>18, <1>19, <1>20, <1>21, <1>22, <1>23,
           <1>24, <1>25, <1>26, <1>27, <1>28, <1>29, <1>30, <1>31, <1>32, <1>33, <1>34,
           <1>35, <1>36
       DEF Step, Advance, WorkerStep, TimerStep, Request

\* The types of the registers of one thread.
TypeOf(x) ==
    /\ pc[x] \in PCs /\ ret[x] \in ReturnPCs
    /\ cur[x] \in Task \cup {NoTask} /\ op[x] \in Task \cup {NoTask}
    /\ arg[x] \in Task \cup {NoTask} /\ stk[x] \in Seq(Task) /\ pos[x] \in Nat

\* Every step keeps the types of the registers and what they will be read for.
LEMMA StepRegisters ==
  ASSUME Typing, NEW x \in Thread, Step(x)
  PROVE  TypeOf(x)' /\ RegistersOf(x)'
<1> DEFINE G == TypeOf(x)' /\ RegistersOf(x)'
<1>0. TypeOf(x) /\ RegistersOf(x) /\ x \in DOMAIN pc /\ x \in DOMAIN ret /\ x \in DOMAIN cur
      /\ x \in DOMAIN op /\ x \in DOMAIN arg /\ x \in DOMAIN stk /\ x \in DOMAIN pos
      BY DEF Typing, ThreadType, TypeOf, Registers
<1> USE Places DEF TypeOf, RegistersOf, Where, Goto, Call,
        Return, callVars, PCs, CallPCs, WorkerPCs, TimerPCs, ClientPCs, SubmitPCs, ClosePCs, ReturnPCs
<1>1. ASSUME TryToEnque(x) PROVE G
      BY <1>0, <1>1 DEF TryToEnque, Enque
<1>2. ASSUME TimerEnque(x) PROVE G
      BY <1>0, <1>2 DEF TimerEnque, Enque
<1>3. ASSUME PushTest(x) PROVE G
      BY <1>0, <1>3 DEF PushTest
<1>4. ASSUME PushAppend(x) PROVE G
      BY <1>0, <1>4 DEF PushAppend
<1>5. ASSUME CancelStore(x) PROVE G
      BY <1>0, <1>5 DEF CancelStore
<1>6. ASSUME OnFinishedLock(x) PROVE G
      BY <1>0, <1>6 DEF OnFinishedLock
<1>7. ASSUME OnFinishedDepended(x) PROVE G
  <2>1. stk[x] # <<>> /\ stk[x] \in Seq(Task)
        BY <1>0, <1>7 DEF OnFinishedDepended
  <2>2. Head(stk[x]) \in Task
        BY <2>1, HeadRemoved
  <2>3. depended[Head(stk[x])] \in Seq(Task) /\ depended[Head(stk[x])] # <<>>
        BY <2>2, <1>7 DEF OnFinishedDepended, Typing, TaskType
  <2>4. Head(depended[Head(stk[x])]) \in Task
        BY <2>3, HeadRemoved
  <2> QED BY <1>0, <1>7, <2>4 DEF OnFinishedDepended
<1>8. ASSUME OnFinishedTriggered(x) PROVE G
  <2>1. stk[x] # <<>> /\ stk[x] \in Seq(Task)
        BY <1>0, <1>8 DEF OnFinishedTriggered
  <2>2. Head(stk[x]) \in Task
        BY <2>1, HeadRemoved
  <2>3. triggered[Head(stk[x])] \in Seq(Task) /\ triggered[Head(stk[x])] # <<>>
        BY <2>2, <1>8 DEF OnFinishedTriggered, Typing, TaskType
  <2>4. Head(triggered[Head(stk[x])]) \in Task
        BY <2>3, HeadRemoved
  <2> QED BY <1>0, <1>8, <2>4 DEF OnFinishedTriggered
<1>9. ASSUME OnFinishedEnd(x) PROVE G
  <2>1. stk[x] # <<>> /\ stk[x] \in Seq(Task)
        BY <1>0, <1>9 DEF OnFinishedEnd
  <2>2. Tail(stk[x]) \in Seq(Task) /\ (Tail(stk[x]) = <<>> <=> Len(stk[x]) = 1)
        BY <2>1, HeadRemoved
  <2> QED BY <1>0, <1>9, <2>2 DEF OnFinishedEnd
<1>10. ASSUME SubmitTimer(x) PROVE G
      BY <1>0, <1>10 DEF SubmitTimer
<1>11. ASSUME TimerPushTest(x) PROVE G
      BY <1>0, <1>11 DEF TimerPushTest
<1>12. ASSUME TimerPushAppend(x) PROVE G
      BY <1>0, <1>12 DEF TimerPushAppend, NotifyTimer
<1>13. ASSUME WaitTest(x) PROVE G
      BY <1>0, <1>13 DEF WaitTest
<1>14. ASSUME CloseLock(x) PROVE G
      BY <1>0, <1>14 DEF CloseLock
<1>15. ASSUME CloseCancel(x) PROVE G
  <2>1. pos[x] \in 1..Len(queue)
        BY <1>0, <1>15 DEF CloseCancel
  <2>2. queue[pos[x]] \in Task
        BY <2>1, ElementOfSeq DEF Typing, QueueType
  <2> QED BY <1>0, <1>15, <2>2 DEF CloseCancel
<1>16. ASSUME CloseEnd(x) PROVE G
      BY <1>0, <1>16 DEF CloseEnd
<1>17. ASSUME TimerClose(x) PROVE G
      BY <1>0, <1>17 DEF TimerClose
<1>18. ASSUME TimerCloseLock(x) PROVE G
      BY <1>0, <1>18 DEF TimerCloseLock
<1>19. ASSUME TimerCloseCancel(x) PROVE G
  <2>1. pos[x] \in 1..Len(tqueue)
        BY <1>0, <1>19 DEF TimerCloseCancel
  <2>2. tqueue[pos[x]] \in Task
        BY <2>1, ElementOfSeq DEF Typing, QueueType
  <2> QED BY <1>0, <1>19, <2>2 DEF TimerCloseCancel
<1>20. ASSUME TimerCloseEnd(x) PROVE G
      BY <1>0, <1>20 DEF TimerCloseEnd, NotifyTimer
<1>21. ASSUME Joined(x) PROVE G
      BY <1>0, <1>21 DEF Joined
<1>22. ASSUME Pop(x) PROVE G
  <2>1. queue # <<>> => Head(queue) \in Task
        BY HeadRemoved DEF Typing, QueueType
  <2> QED BY <1>0, <1>22, <2>1 DEF Pop
<1>23. ASSUME CheckCanceled(x) PROVE G
      BY <1>0, <1>23 DEF CheckCanceled
<1>24. ASSUME StartRun(x) PROVE G
      BY <1>0, <1>24 DEF StartRun
<1>25. ASSUME NEW r \in {"Completed", "Failed"}, FinishRun(x, r) PROVE G
      BY <1>0, <1>25 DEF FinishRun
<1>26. ASSUME TimerPop(x) PROVE G
  <2>1. \A i \in Fronts : tqueue[i] \in Task
        BY ElementOfSeq DEF Fronts, Typing, QueueType
  <2>2. CASE UNCHANGED cur /\ pc'[x] \in {"exit", "tasleep", "tuntil"}
        BY <1>0, <1>26, <2>2 DEF TimerPop
  <2>3. CASE cur'[x] \in Task /\ pc'[x] = "tgot"
        BY <1>0, <1>26, <2>3 DEF TimerPop
  <2> QED BY <1>0, <1>26, <2>1, <2>2, <2>3 DEF TimerPop
<1>27. ASSUME TimerTimeout(x) PROVE G
      BY <1>0, <1>27 DEF TimerTimeout
<1>28. ASSUME TimerCheckCanceled(x) PROVE G
      BY <1>0, <1>28 DEF TimerCheckCanceled
<1>29. ASSUME NEW t \in Task, Submit(x, t) PROVE G
      BY <1>0, <1>29 DEF Submit
<1>30. ASSUME NEW t \in Task, Cancel(x, t) PROVE G
      BY <1>0, <1>30 DEF Cancel
<1>31. ASSUME NEW t \in Task, Wait(x, t) PROVE G
      BY <1>0, <1>31 DEF Wait
<1>32. ASSUME NEW t \in Task, SetTimeTrigger(x, t) PROVE G
      BY <1>0, <1>32 DEF SetTimeTrigger
<1>33. ASSUME NEW t \in Task, NEW d \in Task, AddDependency(x, t, d) PROVE G
      BY <1>0, <1>33 DEF AddDependency
<1>34. ASSUME NEW t \in Task, NEW d \in Task, AddTrigger(x, t, d) PROVE G
      BY <1>0, <1>34 DEF AddTrigger
<1>35. ASSUME StartShutdown(x) PROVE G
      BY <1>0, <1>35 DEF StartShutdown
<1>36. ASSUME WaitShutdown(x) PROVE G
      BY <1>0, <1>36 DEF WaitShutdown
<1> QED BY <1>1, <1>2, <1>3, <1>4, <1>5, <1>6, <1>7, <1>8, <1>9, <1>10, <1>11, <1>12,
           <1>13, <1>14, <1>15, <1>16, <1>17, <1>18, <1>19, <1>20, <1>21, <1>22, <1>23,
           <1>24, <1>25, <1>26, <1>27, <1>28, <1>29, <1>30, <1>31, <1>32, <1>33, <1>34,
           <1>35, <1>36
       DEF Step, Advance, WorkerStep, TimerStep, Request

\* Every step keeps the types.
LEMMA StepTyping ==
  ASSUME Typing, [Next]_vars
  PROVE  Typing'
<1>1. ASSUME NEW x \in Thread, Step(x)
      PROVE  ThreadType' /\ Registers'
  <2>1. Aside(x) /\ TypeOf(x)' /\ RegistersOf(x)'
        BY <1>1, StepAside, StepRegisters DEF Typing
  <2>2. ThreadType'
    <3>1. \A y \in Thread : pc'[y] \in PCs
          BY <2>1 DEF Typing, ThreadType, Aside, TypeOf, WokenUp, PCs, WorkerPCs, TimerPCs, ClientPCs
    <3>2. pc' \in [Thread -> PCs]
          BY <2>1, <3>1 DEF Aside
    <3> QED BY <2>1, <3>2 DEF Typing, ThreadType, Aside, TypeOf
  <2>3. ASSUME NEW y \in Thread, y # x PROVE RegistersOf(y)'
        BY <2>1, <2>3 DEF Typing, ThreadType, Registers, RegistersOf, Where, Aside, WokenUp,
           CallPCs, SubmitPCs, ClosePCs
  <2> QED BY <2>1, <2>2, <2>3 DEF Registers
<1>2. ASSUME Still PROVE ThreadType' /\ Registers'
      BY <1>2 DEF Still, callVars, Typing, ThreadType, Registers, RegistersOf, Where
<1> QED BY <1>1, <1>2, Steps, StepTaskType, StepQueueType DEF Typing
-----------------------------------------------------------------------------
(* What is known of a task.                                                *)

\* A finished task stays so, and what a task was given is final once it is submitted.
LEMMA StepStates ==
  ASSUME Typing, [Next]_vars, NEW t \in Task
  PROVE  /\ IsFinished(t) => IsFinished(t)'
         /\ state[t] # "Created" => /\ state'[t] # "Created" /\ deps'[t] = deps[t]
                                    /\ trigs'[t] = trigs[t] /\ timed'[t] = timed[t]
         /\ timed[t] => timed'[t]
         /\ trigs[t] \subseteq trigs'[t]
<1> DEFINE G == /\ IsFinished(t) => IsFinished(t)'
                /\ state[t] # "Created" => /\ state'[t] # "Created" /\ deps'[t] = deps[t]
                                           /\ trigs'[t] = trigs[t] /\ timed'[t] = timed[t]
                /\ timed[t] => timed'[t]
                /\ trigs[t] \subseteq trigs'[t]
<1> USE DEF Typing, TaskType, ThreadType, Registers, RegistersOf, IsFinished, Finished, CallPCs
<1>1. ASSUME NEW x \in Thread, TryToEnque(x) \/ TimerEnque(x) PROVE G
      BY <1>1 DEF TryToEnque, TimerEnque, Enque
<1>2. ASSUME NEW x \in Thread, CancelStore(x) PROVE G
      BY <1>2 DEF CancelStore
<1>3. ASSUME NEW x \in Thread, OnFinishedDepended(x) \/ OnFinishedTriggered(x) \/ StartRun(x)
      PROVE  G
      BY <1>3 DEF OnFinishedDepended, OnFinishedTriggered, StartRun, taskVars
<1>4. ASSUME NEW x \in Thread, NEW r \in {"Completed", "Failed"}, FinishRun(x, r) PROVE G
      BY <1>4 DEF FinishRun
<1>5. ASSUME NEW x \in Thread, NEW s \in Task, Submit(x, s) PROVE G
      BY <1>5 DEF Submit
<1>6. ASSUME NEW x \in Thread, NEW s \in Task, SetTimeTrigger(x, s) PROVE G
      BY <1>6 DEF SetTimeTrigger, Builds
<1>7. ASSUME NEW x \in Thread, NEW s \in Task, NEW d \in Task,
             AddDependency(x, s, d) \/ AddTrigger(x, s, d)
      PROVE  G
  <2>1. CASE AddDependency(x, s, d)
        BY <2>1 DEF AddDependency, Builds
  <2>2. CASE AddTrigger(x, s, d)
        BY <2>2 DEF AddTrigger, Builds
  <2> QED BY <1>7, <2>1, <2>2
<1>8. CASE UNCHANGED <<taskVars, runs, late>>
      BY <1>8 DEF taskVars
<1> QED BY <1>1, <1>2, <1>3, <1>4, <1>5, <1>6, <1>7, <1>8, TaskSteps DEF TaskStep

\* The task an OnFinished is at, and the one it calls next.
LEMMA Loop ==
  ASSUME Typing, Walked, NEW x \in Thread, pc[x] = "loop"
  PROVE  /\ stk[x] \in Seq(Task) /\ stk[x] # <<>>
         /\ Head(stk[x]) \in Task /\ IsFinished(Head(stk[x]))
         /\ depended[Head(stk[x])] \in Seq(Task) /\ triggered[Head(stk[x])] \in Seq(Task)
<1>1. stk[x] \in Seq(Task) /\ stk[x] # <<>>
      BY DEF Typing, ThreadType, Registers, RegistersOf
<1>2. Head(stk[x]) \in Task /\ In(stk[x], Head(stk[x]))
      BY <1>1, HeadRemoved
<1> QED BY <1>1, <1>2 DEF Walked, WalkedBy, Typing, TaskType

\* Every step keeps the lists in agreement with what was asked for.
LEMMA StepLists ==
  ASSUME Typing, Walked, Lists, [Next]_vars
  PROVE  Lists'
<1>0. \A t \in Task : IsFinished(t) => IsFinished(t)'
      BY StepStates
<1> USE DEF Typing, TaskType
<1>1. ASSUME UNCHANGED <<deps, trigs, depended, triggered>> PROVE Lists'
      BY <1>0, <1>1 DEF Lists
<1>2. ASSUME NEW x \in Thread,
                \/ TryToEnque(x) \/ TimerEnque(x) \/ CancelStore(x) \/ StartRun(x)
                \/ (\E r \in {"Completed", "Failed"} : FinishRun(x, r))
                \/ (\E t \in Task : Submit(x, t) \/ SetTimeTrigger(x, t))
      PROVE  UNCHANGED <<deps, trigs, depended, triggered>>
      BY <1>2 DEF TryToEnque, TimerEnque, CancelStore, StartRun, FinishRun, Submit,
             SetTimeTrigger, taskVars
<1>3. ASSUME NEW x \in Thread, OnFinishedDepended(x) PROVE Lists'
  <2> DEFINE t == Head(stk[x])
  <2>1. t \in Task /\ IsFinished(t) /\ depended[t] \in Seq(Task) /\ depended[t] # <<>>
        BY <1>3, Loop DEF OnFinishedDepended
  <2>2. /\ \A e \in Task : In(Tail(depended[t]), e) => In(depended[t], e)
        /\ \A e \in Task : Once(depended[t], e) => Once(Tail(depended[t]), e)
        BY <2>1, HeadRemoved
  <2>3. /\ depended' = [depended EXCEPT ![t] = Tail(depended[t])]
        /\ UNCHANGED <<deps, trigs, triggered>>
        BY <1>3 DEF OnFinishedDepended
  <2> HIDE DEF t
  <2>4. \A e \in Task : depended'[e] = IF e = t THEN Tail(depended[t]) ELSE depended[e]
        BY <2>1, <2>3
  <2> QED BY <1>0, <2>1, <2>2, <2>3, <2>4 DEF Lists
<1>4. ASSUME NEW x \in Thread, OnFinishedTriggered(x) PROVE Lists'
  <2> DEFINE t == Head(stk[x])
  <2>1. t \in Task /\ triggered[t] \in Seq(Task) /\ triggered[t] # <<>>
        BY <1>4, Loop DEF OnFinishedTriggered
  <2>2. \A e \in Task : In(Tail(triggered[t]), e) => In(triggered[t], e)
        BY <2>1, HeadRemoved
  <2>3. /\ triggered' = [triggered EXCEPT ![t] = Tail(triggered[t])]
        /\ UNCHANGED <<deps, trigs, depended>>
        BY <1>4 DEF OnFinishedTriggered
  <2> HIDE DEF t
  <2>4. \A e \in Task : triggered'[e] = IF e = t THEN Tail(triggered[t]) ELSE triggered[e]
        BY <2>1, <2>3
  <2> QED BY <1>0, <2>1, <2>2, <2>3, <2>4 DEF Lists
<1>5. ASSUME NEW x \in Thread, NEW t \in Task, NEW d \in Task, AddDependency(x, t, d)
      PROVE  Lists'
  <2>1. /\ \A e \in Task : In(Append(depended[d], t), e) <=> In(depended[d], e) \/ e = t
        /\ \A e \in Task : Once(depended[d], e) /\ (e = t => ~In(depended[d], e))
                              => Once(Append(depended[d], t), e)
        BY Appended
  <2>2. /\ \A e \in Task : deps'[e] = IF e = t THEN deps[t] \cup {d} ELSE deps[e]
        /\ UNCHANGED <<trigs, triggered, state>> /\ d \notin deps[t]
        BY <1>5 DEF AddDependency
  <2>3. CASE IsFinished(d)
    <3>1. UNCHANGED depended
          BY <1>5, <2>3 DEF AddDependency
    <3> QED BY <1>0, <2>2, <2>3, <3>1 DEF Lists
  <2>4. CASE ~IsFinished(d)
    <3>1. \A e \in Task : depended'[e] = IF e = d THEN Append(depended[d], t) ELSE depended[e]
          BY <1>5, <2>4 DEF AddDependency
    <3>2. ~In(depended[d], t)
          BY <2>2 DEF Lists
    <3>3. ASSUME NEW e \in Task, NEW f \in Task
          PROVE  /\ In(depended'[f], e) => f \in deps'[e]
                 /\ Once(depended'[f], e)
                 /\ f \in deps'[e] /\ ~IsFinished(f)' => In(depended'[f], e)
      <4>1. CASE f = d
            BY <1>0, <2>1, <2>2, <3>1, <3>2, <4>1 DEF Lists
      <4>2. CASE f # d
        <5>1. depended'[f] = depended[f] /\ (f \in deps'[e] <=> f \in deps[e])
              BY <2>2, <3>1, <4>2
        <5> QED BY <1>0, <5>1 DEF Lists
      <4> QED BY <4>1, <4>2
    <3> QED BY <2>2, <3>3 DEF Lists
  <2> QED BY <2>3, <2>4
<1>6. ASSUME NEW x \in Thread, NEW t \in Task, NEW d \in Task, AddTrigger(x, t, d)
      PROVE  Lists'
  <2>1. \A e \in Task : In(Append(triggered[d], t), e) <=> In(triggered[d], e) \/ e = t
        BY Appended
  <2>2. /\ \A e \in Task : trigs'[e] = IF e = t THEN trigs[t] \cup {d} ELSE trigs[e]
        /\ \A e \in Task : \/ triggered'[e] = triggered[e]
                           \/ e = d /\ triggered'[e] = Append(triggered[d], t)
        /\ UNCHANGED <<deps, depended>>
        BY <1>6 DEF AddTrigger
  <2> QED BY <1>0, <2>1, <2>2 DEF Lists
<1>7. CASE UNCHANGED <<taskVars, runs, late>>
      BY <1>1, <1>7 DEF taskVars
<1> QED BY <1>1, <1>2, <1>3, <1>4, <1>5, <1>6, <1>7, TaskSteps DEF TaskStep

\* Every step keeps the counter: it changes with the lists.
LEMMA StepCounted ==
  ASSUME Typing, Walked, Lists, Counted, [Next]_vars
  PROVE  Counted'
<1> USE DEF Typing, TaskType
<1>0. \A t \in Task : IsFiniteSet(Blockers(t))
      BY FS_Subset, ExecutorConstants DEF Blockers
<1>1. ASSUME UNCHANGED <<cnt, depended>> PROVE Counted'
      BY <1>1 DEF Counted, Blockers
<1>2. ASSUME NEW x \in Thread,
                \/ TryToEnque(x) \/ TimerEnque(x) \/ CancelStore(x) \/ StartRun(x)
                \/ OnFinishedTriggered(x)
                \/ (\E r \in {"Completed", "Failed"} : FinishRun(x, r))
                \/ (\E t \in Task : Submit(x, t) \/ SetTimeTrigger(x, t))
                \/ (\E t, d \in Task : AddTrigger(x, t, d))
      PROVE  UNCHANGED <<cnt, depended>>
      BY <1>2 DEF TryToEnque, TimerEnque, CancelStore, StartRun, OnFinishedTriggered, FinishRun,
             Submit, SetTimeTrigger, AddTrigger, taskVars
<1>3. ASSUME NEW x \in Thread, OnFinishedDepended(x) PROVE Counted'
  <2>1. PICK t \in Task : t = Head(stk[x]) /\ depended[t] \in Seq(Task) /\ depended[t] # <<>>
        BY <1>3, Loop DEF OnFinishedDepended
  <2>2. PICK d \in Task :
          /\ d = Head(depended[t])
          /\ In(depended[t], d) /\ (Once(depended[t], d) => ~In(Tail(depended[t]), d))
          /\ \A e \in Task : In(Tail(depended[t]), e) => In(depended[t], e)
          /\ \A e \in Task : In(depended[t], e) => e = d \/ In(Tail(depended[t]), e)
        BY <2>1, HeadRemoved
  <2>3. /\ depended' = [depended EXCEPT ![t] = Tail(depended[t])]
        /\ cnt' = [cnt EXCEPT ![d] = cnt[d] - 1]
        BY <1>3, <2>1, <2>2 DEF OnFinishedDepended
  <2>4. \A e \in Task : depended'[e] = IF e = t THEN Tail(depended[t]) ELSE depended[e]
        BY <2>1, <2>3
  <2>5. Blockers(d)' = Blockers(d) \ {t} /\ t \in Blockers(d)
        BY <2>1, <2>2, <2>4 DEF Blockers, Lists
  <2>6. \A e \in Task : e # d => Blockers(e)' = Blockers(e)
        BY <2>1, <2>2, <2>4 DEF Blockers
  <2>7. Cardinality(Blockers(d) \ {t}) = Cardinality(Blockers(d)) - 1
    <3>1. IsFiniteSet(Blockers(d))
          BY <1>0
    <3> HIDE DEF Typing, TaskType
    <3> QED BY <2>5, <3>1, FS_RemoveElement
  <2> QED BY <2>2, <2>3, <2>5, <2>6, <2>7 DEF Counted
<1>4. ASSUME NEW x \in Thread, NEW t \in Task, NEW d \in Task, AddDependency(x, t, d)
      PROVE  Counted'
  <2>1. CASE IsFinished(d)
        BY <1>1, <1>4, <2>1 DEF AddDependency
  <2>2. CASE ~IsFinished(d)
    <3>1. \A e \in Task : In(Append(depended[d], t), e) <=> In(depended[d], e) \/ e = t
          BY Appended
    <3>2. /\ \A e \in Task : depended'[e] = IF e = d THEN Append(depended[d], t) ELSE depended[e]
          /\ cnt' = [cnt EXCEPT ![t] = cnt[t] + 1]
          /\ d \notin deps[t]
          BY <1>4, <2>2 DEF AddDependency
    <3>3. Blockers(t)' = Blockers(t) \cup {d} /\ d \notin Blockers(t)
          BY <3>1, <3>2 DEF Blockers, Lists
    <3>4. \A e \in Task : e # t => Blockers(e)' = Blockers(e)
          BY <3>1, <3>2 DEF Blockers
    <3>5. Cardinality(Blockers(t) \cup {d}) = Cardinality(Blockers(t)) + 1
          BY <1>0, <3>3, FS_AddElement
    <3> QED BY <3>2, <3>3, <3>4, <3>5 DEF Counted
  <2> QED BY <2>1, <2>2
<1>5. CASE UNCHANGED <<taskVars, runs, late>>
      BY <1>1, <1>5 DEF taskVars
<1> QED BY <1>1, <1>2, <1>3, <1>4, <1>5, TaskSteps DEF TaskStep

\* Every step keeps that lists are walked, and flags set, for finished tasks only.
LEMMA StepWalked ==
  ASSUME Typing, Walked, Lists, [Next]_vars
  PROVE  Walked'
<1>0. \A t \in Task : (IsFinished(t) => IsFinished(t)') /\ trigs[t] \subseteq trigs'[t]
      BY StepStates
<1>1. ASSUME NEW t \in Task, activated'[t]
      PROVE  \E d \in trigs'[t] : IsFinished(d)'
  <2> USE DEF Typing, TaskType
  <2>1. CASE activated[t]
        BY <1>0, <2>1 DEF Walked
  <2>2. ASSUME NEW x \in Thread, OnFinishedTriggered(x), ~activated[t]
        PROVE  \E d \in trigs'[t] : IsFinished(d)'
    <3>1. PICK d \in Task : /\ d = Head(stk[x]) /\ IsFinished(d)
                            /\ triggered[d] \in Seq(Task) /\ triggered[d] # <<>>
          BY <2>2, Loop DEF OnFinishedTriggered
    <3>2. Head(triggered[d]) \in Task /\ In(triggered[d], Head(triggered[d]))
          BY <3>1, HeadRemoved
    <3>3. t = Head(triggered[d])
          BY <1>1, <2>2, <3>1, <3>2 DEF OnFinishedTriggered
    <3> QED BY <1>0, <3>1, <3>2, <3>3 DEF Lists
  <2>3. ASSUME NEW x \in Thread, NEW s \in Task, NEW d \in Task, AddTrigger(x, s, d), ~activated[t]
        PROVE  \E e \in trigs'[t] : IsFinished(e)'
        BY <1>0, <1>1, <2>3 DEF AddTrigger
  <2>4. ASSUME NEW x \in Thread, ~activated[t],
                  \/ TryToEnque(x) \/ TimerEnque(x) \/ CancelStore(x) \/ StartRun(x)
                  \/ OnFinishedDepended(x)
                  \/ (\E r \in {"Completed", "Failed"} : FinishRun(x, r))
                  \/ (\E s \in Task : Submit(x, s) \/ SetTimeTrigger(x, s))
                  \/ (\E s, d \in Task : AddDependency(x, s, d))
        PROVE  FALSE
        BY <1>1, <2>4 DEF TryToEnque, TimerEnque, CancelStore, StartRun, OnFinishedDepended,
               FinishRun, Submit, SetTimeTrigger, AddDependency, taskVars
  <2>5. ASSUME UNCHANGED <<taskVars, runs, late>>, ~activated[t] PROVE FALSE
        BY <1>1, <2>5 DEF taskVars
  <2> QED BY <2>1, <2>2, <2>3, <2>4, <2>5, TaskSteps DEF TaskStep
<1>2. ASSUME NEW y \in Thread, WalkedBy(y), stk'[y] = stk[y], arg'[y] = arg[y],
             pc'[y] = "lock" => pc[y] = "lock" /\ arg[y] \in Task
      PROVE  WalkedBy(y)'
      BY <1>0, <1>2 DEF WalkedBy
<1>3. ASSUME NEW x \in Thread, WalkedBy(x), CancelStore(x) PROVE WalkedBy(x)'
      BY <1>0, <1>3 DEF WalkedBy, CancelStore, callVars, Typing, TaskType, ThreadType,
             Registers, RegistersOf, CallPCs, IsFinished, Finished
<1>4. ASSUME NEW x \in Thread, WalkedBy(x), NEW r \in {"Completed", "Failed"}, FinishRun(x, r)
      PROVE  WalkedBy(x)'
  <2>1. cur[x] \in Task
        BY <1>4 DEF FinishRun, Typing, Registers, RegistersOf, Where, CallPCs
  <2>2. stk'[x] = stk[x] /\ arg'[x] = cur[x] /\ state'[cur[x]] \in Finished
        BY <1>4, <2>1 DEF FinishRun, Call, Typing, TaskType, ThreadType, Finished
  <2> QED BY <1>0, <1>4, <2>1, <2>2 DEF WalkedBy, IsFinished
<1>5. ASSUME NEW x \in Thread, WalkedBy(x), OnFinishedLock(x) PROVE WalkedBy(x)'
  <2>1. stk[x] \in Seq(Task) /\ arg[x] \in Task
        BY <1>5 DEF OnFinishedLock, Typing, ThreadType, Registers, RegistersOf, CallPCs
  <2>2. \A t \in Task : In(<<arg[x]>> \o stk[x], t) => t = arg[x] \/ In(stk[x], t)
        BY <2>1, Prepended
  <2> QED BY <1>0, <1>5, <2>1, <2>2 DEF OnFinishedLock, Goto, WalkedBy, Typing, ThreadType
<1>6. ASSUME NEW x \in Thread, WalkedBy(x), OnFinishedEnd(x) PROVE WalkedBy(x)'
  <2>1. stk[x] \in Seq(Task) /\ stk[x] # <<>>
        BY <1>6 DEF OnFinishedEnd, Typing, ThreadType, Registers, RegistersOf
  <2>2. \A t \in Task : In(Tail(stk[x]), t) => In(stk[x], t)
        BY <2>1, HeadRemoved
  <2>3. pc'[x] # "lock" /\ stk'[x] = Tail(stk[x])
        BY <1>6 DEF OnFinishedEnd, Typing, ThreadType, ReturnPCs
  <2> QED BY <1>0, <2>2, <2>3, <1>6 DEF WalkedBy
<1>7. ASSUME NEW x \in Thread,    TryToEnque(x) \/ TimerEnque(x) \/ PushTest(x)
                               \/ PushAppend(x) \/ OnFinishedDepended(x)
                               \/ OnFinishedTriggered(x) \/ SubmitTimer(x)
                               \/ TimerPushTest(x) \/ TimerPushAppend(x) \/ WaitTest(x)
                               \/ CloseLock(x) \/ CloseCancel(x) \/ CloseEnd(x)
                               \/ TimerClose(x) \/ TimerCloseLock(x)
                               \/ TimerCloseCancel(x) \/ TimerCloseEnd(x) \/ Joined(x)
      PROVE  stk'[x] = stk[x] /\ pc'[x] # "lock"
      BY <1>7, Places DEF TryToEnque, TimerEnque, PushTest, PushAppend,
             OnFinishedDepended, OnFinishedTriggered, SubmitTimer, TimerPushTest,
             TimerPushAppend, WaitTest, CloseLock, CloseCancel, CloseEnd, TimerClose,
             TimerCloseLock, TimerCloseCancel, TimerCloseEnd, Joined, Goto, Call,
             Return, Enque, NotifyTimer, callVars, Typing, ThreadType, ReturnPCs
<1>8. ASSUME NEW x \in Thread,    Pop(x) \/ CheckCanceled(x) \/ StartRun(x)
                               \/ TimerPop(x) \/ TimerTimeout(x)
                               \/ TimerCheckCanceled(x)
      PROVE  stk'[x] = stk[x] /\ pc'[x] # "lock"
      BY <1>8, Places DEF Pop, CheckCanceled, StartRun, TimerPop, TimerTimeout,
             TimerCheckCanceled, Goto, Call, callVars, Typing, ThreadType
<1>9. ASSUME NEW x \in Thread,    (\E t \in Task : Submit(x, t))
                               \/ (\E t \in Task : Cancel(x, t))
                               \/ (\E t \in Task : Wait(x, t))
                               \/ (\E t \in Task : SetTimeTrigger(x, t))
                               \/ (\E t, d \in Task : AddDependency(x, t, d))
                               \/ (\E t, d \in Task : AddTrigger(x, t, d))
                               \/ StartShutdown(x) \/ WaitShutdown(x)
      PROVE  stk'[x] = stk[x] /\ pc'[x] # "lock"
      BY <1>9, Places DEF Submit, Cancel, Wait, SetTimeTrigger, AddDependency,
             AddTrigger, StartShutdown, WaitShutdown, Builds, Goto, Call, callVars,
             Typing, ThreadType
<1>10. ASSUME NEW x \in Thread, Step(x)
      PROVE  \A y \in Thread : WalkedBy(y)'
  <2>1. \A y \in Thread : WalkedBy(y)
        BY DEF Walked
  <2>2. ASSUME NEW y \in Thread, y # x PROVE WalkedBy(y)'
    <3>1. Aside(x)
          BY <1>10, StepAside DEF Typing
    <3>2. stk'[y] = stk[y] /\ arg'[y] = arg[y] /\ (pc'[y] = "lock" => pc[y] = "lock")
          BY <2>2, <3>1 DEF Aside, WokenUp, Typing, ThreadType
    <3>3. pc[y] = "lock" => arg[y] \in Task
          BY DEF Typing, Registers, RegistersOf, CallPCs
    <3> QED BY <1>2, <2>1, <3>2, <3>3
  <2>3. ASSUME stk'[x] = stk[x] /\ pc'[x] # "lock" PROVE WalkedBy(x)'
        BY <1>0, <2>1, <2>3 DEF WalkedBy
  <2>4. CASE Advance(x)
        BY <1>3, <1>5, <1>6, <1>7, <2>1, <2>2, <2>3, <2>4 DEF Advance
  <2>5. CASE WorkerStep(x) \/ TimerStep(x)
        BY <1>4, <1>8, <2>1, <2>2, <2>3, <2>5 DEF WorkerStep, TimerStep
  <2>6. CASE Request(x)
        BY <1>9, <2>2, <2>3, <2>6 DEF Request
  <2> QED BY <1>10, <2>4, <2>5, <2>6 DEF Step
<1>11. ASSUME Still PROVE \A y \in Thread : WalkedBy(y)'
       BY <1>11 DEF Still, taskVars, callVars, Walked, WalkedBy, IsFinished
<1> QED BY <1>1, <1>10, <1>11, Steps DEF Walked
-----------------------------------------------------------------------------
(* What only certain steps do.                                             *)

\* Which step leads to which place.
LEMMA Entries ==
  ASSUME Typing, NEW x \in Thread, Step(x)
  PROVE  /\ pc'[x] = "push" => TryToEnque(x) \/ TimerEnque(x)
         /\ pc'[x] = "append" => PushTest(x)
         /\ pc'[x] = "enque" => TimerCheckCanceled(x)
         /\ pc'[x] = "got" => Pop(x)
         /\ pc'[x] = "start" => CheckCanceled(x)
         /\ pc'[x] = "tpush" => SubmitTimer(x)
         /\ pc'[x] = "tappend" => TimerPushTest(x)
         /\ pc'[x] = "tgot" => TimerPop(x)
<1> USE Places DEF Typing, ThreadType, ReturnPCs, Goto, Call, Return
<1> DEFINE Q == pc'[x] \notin {"enque", "push", "append", "got", "start", "tpush", "tappend", "tgot"}
<1>1. ASSUME    PushAppend(x) \/ CancelStore(x) \/ OnFinishedLock(x)
             \/ OnFinishedDepended(x) \/ OnFinishedTriggered(x) \/ OnFinishedEnd(x)
      PROVE  Q
      BY <1>1 DEF PushAppend, CancelStore, OnFinishedLock, OnFinishedDepended,
             OnFinishedTriggered, OnFinishedEnd
<1>2. ASSUME    TimerPushAppend(x) \/ WaitTest(x) \/ CloseLock(x) \/ CloseCancel(x)
             \/ CloseEnd(x)
      PROVE  Q
      BY <1>2 DEF TimerPushAppend, WaitTest, CloseLock, CloseCancel, CloseEnd,
             NotifyTimer
<1>3. ASSUME    TimerClose(x) \/ TimerCloseLock(x) \/ TimerCloseCancel(x)
             \/ TimerCloseEnd(x) \/ Joined(x)
      PROVE  Q
      BY <1>3 DEF TimerClose, TimerCloseLock, TimerCloseCancel, TimerCloseEnd, Joined,
             NotifyTimer
<1>4. ASSUME    StartRun(x) \/ (\E r \in {"Completed", "Failed"} : FinishRun(x, r))
             \/ TimerTimeout(x) \/ (\E t \in Task : Submit(x, t))
             \/ (\E t \in Task : Cancel(x, t))
      PROVE  Q
      BY <1>4 DEF StartRun, FinishRun, TimerTimeout, Submit, Cancel
<1>5. ASSUME    (\E t \in Task : Wait(x, t)) \/ (\E t \in Task : SetTimeTrigger(x, t))
             \/ (\E t, d \in Task : AddDependency(x, t, d))
             \/ (\E t, d \in Task : AddTrigger(x, t, d)) \/ StartShutdown(x)
             \/ WaitShutdown(x)
      PROVE  Q
      BY <1>5 DEF Wait, SetTimeTrigger, AddDependency, AddTrigger, StartShutdown,
             WaitShutdown, Builds
<1>6. ASSUME TryToEnque(x) \/ TimerEnque(x) PROVE Q \/ pc'[x] = "push"
      BY <1>6 DEF TryToEnque, TimerEnque, Enque
<1>7. ASSUME PushTest(x) PROVE Q \/ pc'[x] = "append"
      BY <1>7 DEF PushTest
<1>8. ASSUME TimerCheckCanceled(x) PROVE Q \/ pc'[x] = "enque"
      BY <1>8 DEF TimerCheckCanceled
<1>9. ASSUME Pop(x) PROVE Q \/ pc'[x] = "got"
      BY <1>9 DEF Pop
<1>10. ASSUME CheckCanceled(x) PROVE Q \/ pc'[x] = "start"
       BY <1>10 DEF CheckCanceled
<1>11. ASSUME SubmitTimer(x) PROVE Q \/ pc'[x] = "tpush"
       BY <1>11 DEF SubmitTimer
<1>12. ASSUME TimerPushTest(x) PROVE Q \/ pc'[x] = "tappend"
       BY <1>12 DEF TimerPushTest
<1>13. ASSUME TimerPop(x) PROVE Q \/ pc'[x] = "tgot"
       BY <1>13 DEF TimerPop
<1> QED BY <1>1, <1>2, <1>3, <1>4, <1>5, <1>6, <1>7, <1>8, <1>9, <1>10, <1>11, <1>12, <1>13
       DEF Step, Advance, WorkerStep, TimerStep, Request

\* How the queues change.
LEMMA QueueContents ==
  ASSUME Typing, NEW x \in Thread, Step(x), NEW t \in Task
  PROVE  /\ In(queue', t) => In(queue, t) \/ (PushAppend(x) /\ arg[x] = t)
         /\ In(tqueue', t) => In(tqueue, t) \/ (TimerPushAppend(x) /\ op[x] = t)
         /\ Once(queue, t) /\ ~(PushAppend(x) /\ arg[x] = t /\ In(queue, t)) => Once(queue', t)
<1> USE DEF Typing, QueueType
<1>1. ASSUME PushAppend(x)
      PROVE  /\ In(queue', t) => In(queue, t) \/ arg[x] = t
             /\ Once(queue, t) /\ ~(arg[x] = t /\ In(queue, t)) => Once(queue', t)
  <2>1. arg[x] \in Task
        BY <1>1 DEF PushAppend, Registers, RegistersOf, CallPCs
  <2>2. /\ In(Append(queue, arg[x]), t) <=> In(queue, t) \/ t = arg[x]
        /\ Once(queue, t) /\ (t = arg[x] => ~In(queue, t)) => Once(Append(queue, arg[x]), t)
        BY <2>1, Appended
  <2> QED BY <1>1, <2>2 DEF PushAppend
<1>2. ASSUME Pop(x)
      PROVE  (In(queue', t) => In(queue, t)) /\ (Once(queue, t) => Once(queue', t))
  <2>1. queue # <<>> => /\ In(Tail(queue), t) => In(queue, t)
                        /\ Once(queue, t) => Once(Tail(queue), t)
        BY HeadRemoved
  <2> QED BY <1>2, <2>1 DEF Pop
<1>3. ASSUME TimerPushAppend(x)
      PROVE  In(tqueue', t) => In(tqueue, t) \/ op[x] = t
  <2>1. op[x] \in Task
        BY <1>3 DEF TimerPushAppend, Registers, RegistersOf, Where, CallPCs, SubmitPCs
  <2>2. In(Append(tqueue, op[x]), t) <=> In(tqueue, t) \/ t = op[x]
        BY <2>1, Appended
  <2> QED BY <1>3, <2>2 DEF TimerPushAppend
<1>4. ASSUME TimerPop(x)
      PROVE  In(tqueue', t) => In(tqueue, t)
  <2>1. ASSUME NEW i \in Fronts
        PROVE  In(SubSeq(tqueue, 1, i - 1) \o SubSeq(tqueue, i + 1, Len(tqueue)), t)
                  => In(tqueue, t)
        BY Removed DEF Fronts
  <2> QED BY <1>4, <2>1 DEF TimerPop
<1>5. PushAppend(x) \/ Pop(x) \/ UNCHANGED queue
      BY Frame
<1>6. TimerPushAppend(x) \/ TimerPop(x) \/ UNCHANGED tqueue
      BY Frame
<1>7. /\ In(queue', t) => In(queue, t) \/ (PushAppend(x) /\ arg[x] = t)
      /\ Once(queue, t) /\ ~(PushAppend(x) /\ arg[x] = t /\ In(queue, t)) => Once(queue', t)
      BY <1>1, <1>2, <1>5
<1>8. In(tqueue', t) => In(tqueue, t) \/ (TimerPushAppend(x) /\ op[x] = t)
      BY <1>3, <1>4, <1>6
<1> QED BY <1>7, <1>8

\* Every step keeps the timer thread on time.
LEMMA StepOnTime ==
  ASSUME Typing, OnTime, [Next]_vars
  PROVE  OnTime'
<1>0. Typing'
      BY StepTyping
<1>1. \A t \in Task : timed[t] => timed'[t]
      BY StepStates
<1>2. ASSUME NEW t \in Task, In(tqueue, t)' PROVE timed'[t]
  <2>1. CASE In(tqueue, t)
        BY <1>1, <2>1 DEF OnTime
  <2>2. ASSUME NEW x \in Thread, Step(x), ~In(tqueue, t) PROVE timed'[t]
    <3>1. TimerPushAppend(x) /\ op[x] = t
          BY <1>2, <2>2, QueueContents
    <3> QED BY <1>1, <3>1 DEF OnTime, OnTimeBy, TimerPushAppend
  <2> QED BY <1>2, <2>1, <2>2, Steps DEF Still, timerVars
<1>3. now \in Nat /\ now' \in Nat /\ now <= now'
      BY <1>0, Steps, Frame DEF Tick, Typing, QueueType
<1>4. ASSUME NEW y \in Thread, pc'[y] = pc[y], op'[y] = op[y], cur'[y] = cur[y], arg'[y] = arg[y]
      PROVE  OnTimeBy(y)'
  <2>1. OnTimeBy(y) /\ RegistersOf(y)
        BY DEF OnTime, Typing, Registers
  <2>2. StartAt \in [Task -> Nat]
        BY ExecutorConstants
  <2> QED BY <1>1, <1>3, <1>4, <2>1, <2>2
          DEF OnTimeBy, RegistersOf, Where, CallPCs, SubmitPCs
<1>5. ASSUME NEW x \in Thread, Step(x),
             NEW y \in Thread
      PROVE  OnTimeBy(y)'
  <2>1. CASE y # x
    <3>1. Aside(x)
          BY <1>5, StepAside DEF Typing
    <3>2. /\ op'[y] = op[y] /\ cur'[y] = cur[y] /\ arg'[y] = arg[y]
          /\ pc'[y] = pc[y] \/ pc'[y] \in {"pop", "wait", "tpop"}
          BY <2>1, <3>1 DEF Aside, WokenUp, Typing, ThreadType
    <3> QED BY <1>4, <3>2 DEF OnTimeBy
  <2>2. CASE y = x
    <3>1. ASSUME SubmitTimer(x), pc'[x] = "tpush" PROVE timed'[op'[x]]
          BY <1>1, <3>1, Places DEF SubmitTimer, Goto, Typing, TaskType, ThreadType, Registers,
             RegistersOf, Where, CallPCs, SubmitPCs
    <3>2. ASSUME TimerPushTest(x), pc'[x] = "tappend" PROVE timed'[op'[x]]
          BY <1>1, <3>2 DEF TimerPushTest, Goto, Call, OnTime, OnTimeBy, Typing, ThreadType,
             Registers, RegistersOf, Where, CallPCs, SubmitPCs
    <3>3. ASSUME TimerPop(x), pc'[x] = "tgot"
          PROVE  timed'[cur'[x]] /\ StartAt[cur'[x]] <= now'
      <4>1. PICK i \in Fronts : Due /\ cur'[x] = tqueue[i]
            BY <3>3 DEF TimerPop, Goto, Typing, ThreadType
      <4>2. i \in 1..Len(tqueue) /\ tqueue[i] \in Task /\ In(tqueue, tqueue[i])
            BY ElementOfSeq DEF Fronts, In, Typing, QueueType
      <4>3. PICK j \in Fronts : StartAt[tqueue[j]] <= now
            BY <4>1 DEF Due
      <4>4. tqueue[j] \in Task /\ StartAt[tqueue[i]] <= StartAt[tqueue[j]]
            BY ElementOfSeq DEF Fronts, Typing, QueueType
      <4>5. StartAt[tqueue[i]] <= now
            BY <1>3, <4>2, <4>3, <4>4, ExecutorConstants
      <4> QED BY <1>1, <1>3, <4>1, <4>2, <4>5, ExecutorConstants DEF OnTime
    <3>4. ASSUME TimerCheckCanceled(x), pc'[x] = "enque"
          PROVE  timed'[arg'[x]] /\ StartAt[arg'[x]] <= now'
      <4>1. arg'[x] = cur[x] /\ pc[x] = "tgot" /\ cur[x] \in Task
            BY <3>4 DEF TimerCheckCanceled, Goto, Call, Typing, ThreadType, Registers, RegistersOf,
               Where, CallPCs
      <4> QED BY <1>1, <1>3, <4>1, ExecutorConstants DEF OnTime, OnTimeBy
    <3> QED BY <1>5, <2>2, <3>1, <3>2, <3>3, <3>4, Entries DEF OnTimeBy
  <2> QED BY <2>1, <2>2
<1>6. ASSUME Still, NEW y \in Thread PROVE OnTimeBy(y)'
      BY <1>4, <1>6 DEF Still, callVars
<1> QED BY <1>2, <1>5, <1>6, Steps DEF OnTime
-----------------------------------------------------------------------------
(* The permission to run a task.                                           *)

\* What gets a thread to push a task: it has moved it from Submitted to Enqueued.
LEMMA EnqueStep ==
  ASSUME Typing, NEW x \in Thread, TryToEnque(x) \/ TimerEnque(x), pc'[x] = "push"
  PROVE  /\ arg[x] \in Task /\ arg'[x] = arg[x] /\ pc[x] \in {"try", "enque"}
         /\ alive /\ state[arg[x]] = "Submitted"
         /\ state' = [state EXCEPT ![arg[x]] = "Enqueued"]
         /\ pc[x] = "try" => IsReadyToEnque(arg[x])
<1>1. arg[x] \in Task
      BY DEF TryToEnque, TimerEnque, Typing, Registers, RegistersOf, CallPCs
<1>2. ~Return(x, stk[x])
      BY DEF Return, Goto, Typing, ThreadType, ReturnPCs
<1> QED BY <1>1, <1>2 DEF TryToEnque, TimerEnque, Enque, Goto, Typing, ThreadType

\* How the state of a task changes.
LEMMA StateSteps ==
  ASSUME Typing, NEW x \in Thread, Step(x), NEW t \in Task, state'[t] # state[t]
  PROVE  \/ Submit(x, t) /\ state[t] = "Created" /\ state'[t] = "Submitted"
         \/ /\ TryToEnque(x) \/ TimerEnque(x)
            /\ pc'[x] = "push" /\ arg[x] = t /\ state[t] = "Submitted" /\ state'[t] = "Enqueued"
         \/ CancelStore(x) /\ arg[x] = t /\ state'[t] = "Canceled"
         \/ pc[x] = "run" /\ cur[x] = t /\ state'[t] \in {"Completed", "Failed"}
<1> USE DEF Typing, TaskType
<1>1. CASE TryToEnque(x) \/ TimerEnque(x)
      BY <1>1 DEF TryToEnque, TimerEnque, Enque, Goto, ThreadType
<1>2. CASE CancelStore(x)
      BY <1>2 DEF CancelStore
<1>3. ASSUME NEW r \in {"Completed", "Failed"}, FinishRun(x, r)
      PROVE  pc[x] = "run" /\ cur[x] = t /\ state'[t] \in {"Completed", "Failed"}
      BY <1>3 DEF FinishRun
<1>4. ASSUME NEW s \in Task, Submit(x, s)
      PROVE  Submit(x, t) /\ state[t] = "Created" /\ state'[t] = "Submitted"
  <2>1. s = t /\ state[t] = "Created" /\ state'[t] = "Submitted"
        BY <1>4 DEF Submit
  <2> QED BY <1>4, <2>1
<1>5. ASSUME \/ OnFinishedDepended(x) \/ OnFinishedTriggered(x) \/ StartRun(x)
             \/ \E s \in Task : SetTimeTrigger(x, s)
             \/ \E s, d \in Task : AddDependency(x, s, d) \/ AddTrigger(x, s, d)
             \/ UNCHANGED <<taskVars, runs, late>>
      PROVE  FALSE
      BY <1>5 DEF OnFinishedDepended, OnFinishedTriggered, StartRun, SetTimeTrigger,
             AddDependency, AddTrigger, taskVars
<1>6. TaskStep(x) \/ UNCHANGED <<taskVars, runs, late>>
      BY Frame
<1> QED BY <1>1, <1>2, <1>3, <1>4, <1>5, <1>6 DEF TaskStep

\* Only StartRun counts a run.
LEMMA RunSteps ==
  ASSUME NEW x \in Thread, Step(x)
  PROVE  StartRun(x) \/ UNCHANGED runs
<1>1. ASSUME TaskStep(x) PROVE StartRun(x) \/ UNCHANGED runs
      BY <1>1 DEF TaskStep, TryToEnque, TimerEnque, CancelStore, OnFinishedDepended,
             OnFinishedTriggered, FinishRun, Submit, SetTimeTrigger, AddDependency, AddTrigger
<1> QED BY <1>1, Frame

\* How the permission of a task t moves when thread x makes a step.
Moves(x, t) ==
    /\ \A y \in Thread : Pushing(y, t)' /\ ~Pushing(y, t) =>
          y = x /\ pc[x] \in {"try", "enque"} /\ state[t] = "Submitted" /\ state'[t] = "Enqueued"
    /\ In(queue', t) /\ ~In(queue, t) => pc[x] = "append" /\ arg[x] = t /\ ~Pushing(x, t)'
    /\ Once(queue, t) /\ ~(pc[x] = "append" /\ arg[x] = t /\ In(queue, t)) => Once(queue', t)
    /\ \A y \in Thread : Holding(y, t)' /\ ~Holding(y, t) =>
          y = x /\ pc[x] = "pop" /\ In(queue, t) /\ (Once(queue, t) => ~In(queue', t))
    /\ runs'[t] # runs[t] =>
          pc[x] = "start" /\ cur[x] = t /\ runs'[t] = runs[t] + 1 /\ ~Holding(x, t)'
    /\ state'[t] \in {"Created", "Submitted"} => state[t] \in {"Created", "Submitted"}

\* The permission moves like this in every step.
LEMMA StepMoves ==
  ASSUME Typing, NEW x \in Thread, Step(x), NEW t \in Task
  PROVE  Moves(x, t)
<1>0. Aside(x)
      BY StepAside DEF Typing
<1>1. ASSUME NEW y \in Thread, Pushing(y, t)', ~Pushing(y, t)
      PROVE  y = x /\ pc[x] \in {"try", "enque"} /\ state[t] = "Submitted" /\ state'[t] = "Enqueued"
  <2>1. y = x
        BY <1>0, <1>1 DEF Aside, WokenUp, Pushing, Typing, ThreadType
  <2>2. CASE pc'[x] = "push"
    <3>1. TryToEnque(x) \/ TimerEnque(x)
          BY <2>2, Entries
    <3>2. arg[x] = t /\ pc[x] \in {"try", "enque"} /\ state[t] = "Submitted" /\ state'[t] = "Enqueued"
          BY <1>1, <2>1, <2>2, <3>1, EnqueStep DEF Pushing, Typing, TaskType
    <3> QED BY <2>1, <3>2
  <2>3. CASE pc'[x] = "append"
    <3>1. PushTest(x)
          BY <2>3, Entries
    <3>2. pc[x] = "push" /\ arg'[x] = arg[x]
          BY <3>1 DEF PushTest, callVars
    <3> QED BY <1>1, <2>1, <3>2 DEF Pushing
  <2> QED BY <1>1, <2>1, <2>2, <2>3 DEF Pushing
<1>2. PushAppend(x) => /\ pc[x] = "append" /\ ~Pushing(x, t)'
  <2>1. ASSUME PushAppend(x) PROVE arg'[x] = NoTask
        BY <2>1 DEF PushAppend, Typing, ThreadType
  <2>2. NoTask # t
        BY ExecutorConstants
  <2> QED BY <2>1, <2>2 DEF PushAppend, Pushing
<1>3. /\ In(queue', t) /\ ~In(queue, t) => pc[x] = "append" /\ arg[x] = t /\ ~Pushing(x, t)'
      /\ Once(queue, t) /\ ~(pc[x] = "append" /\ arg[x] = t /\ In(queue, t)) => Once(queue', t)
      BY <1>2, QueueContents
<1>4. ASSUME NEW y \in Thread, Holding(y, t)', ~Holding(y, t)
      PROVE  y = x /\ pc[x] = "pop" /\ In(queue, t) /\ (Once(queue, t) => ~In(queue', t))
  <2>1. y = x
        BY <1>0, <1>4 DEF Aside, WokenUp, Holding, Typing, ThreadType
  <2>2. CASE pc'[x] = "got"
    <3>1. Pop(x)
          BY <2>2, Entries
    <3>2. queue # <<>> /\ queue \in Seq(Task) /\ queue' = Tail(queue) /\ cur'[x] = Head(queue)
          BY <2>2, <3>1 DEF Pop, Goto, Typing, QueueType, ThreadType
    <3>3. In(queue, Head(queue)) /\ (Once(queue, Head(queue)) => ~In(Tail(queue), Head(queue)))
          BY <3>2, HeadRemoved
    <3> QED BY <1>4, <2>1, <3>1, <3>2, <3>3 DEF Pop, Holding
  <2>3. CASE pc'[x] = "start"
    <3>1. CheckCanceled(x)
          BY <2>3, Entries
    <3>2. pc[x] = "got" /\ cur'[x] = cur[x]
          BY <2>3, <3>1 DEF CheckCanceled, Goto, Typing, ThreadType
    <3> QED BY <1>4, <2>1, <3>2 DEF Holding
  <2> QED BY <1>4, <2>1, <2>2, <2>3 DEF Holding
<1>5. ASSUME runs'[t] # runs[t]
      PROVE  pc[x] = "start" /\ cur[x] = t /\ runs'[t] = runs[t] + 1 /\ ~Holding(x, t)'
  <2>1. StartRun(x)
        BY <1>5, RunSteps
  <2> QED BY <1>5, <2>1 DEF StartRun, Goto, Holding, Typing, TaskType, ThreadType
<1>6. state'[t] \in {"Created", "Submitted"} => state[t] \in {"Created", "Submitted"}
      BY StateSteps
<1> QED BY <1>1, <1>3, <1>4, <1>5, <1>6 DEF Moves

\* Every step keeps that there is one permission.
LEMMA StepOnePermission ==
  ASSUME Typing, OnePermission, [Next]_vars
  PROVE  OnePermission'
<1>1. ASSUME NEW x \in Thread, Step(x), NEW t \in Task
      PROVE  /\ (state[t] \in {"Created", "Submitted"} => Unused(t))'
             /\ runs'[t] <= 1
             /\ Once(queue', t)
             /\ In(queue', t) => runs'[t] = 0
             /\ \A y \in Thread :
                  /\ Pushing(y, t)' => ~In(queue', t) /\ runs'[t] = 0
                  /\ Holding(y, t)' => ~In(queue', t) /\ runs'[t] = 0
                  /\ \A z \in Thread : /\ Pushing(y, t)' => ~Holding(z, t)'
                                       /\ Pushing(y, t)' /\ Pushing(z, t)' => y = z
                                       /\ Holding(y, t)' /\ Holding(z, t)' => y = z
  <2>1. Moves(x, t)
        BY <1>1, StepMoves
  <2>2. runs[t] \in Nat
        BY DEF Typing, TaskType
  <2>3. /\ state[t] \in {"Created", "Submitted"} => Unused(t)
        /\ runs[t] <= 1
        /\ Once(queue, t)
        /\ In(queue, t) => runs[t] = 0
        /\ \A y \in Thread :
             /\ Pushing(y, t) => ~In(queue, t) /\ runs[t] = 0
             /\ Holding(y, t) => ~In(queue, t) /\ runs[t] = 0
             /\ \A z \in Thread : /\ Pushing(y, t) => ~Holding(z, t)
                                  /\ Pushing(y, t) /\ Pushing(z, t) => y = z
                                  /\ Holding(y, t) /\ Holding(z, t) => y = z
        BY DEF OnePermission
  <2>4. /\ pc[x] = "append" /\ arg[x] = t => Pushing(x, t)
        /\ pc[x] = "start" /\ cur[x] = t => Holding(x, t)
        BY DEF Pushing, Holding
  <2> QED BY <2>1, <2>2, <2>3, <2>4 DEF Moves, Unused
<1>2. ASSUME Still PROVE OnePermission'
      BY <1>2 DEF Still, taskVars, queueVars, callVars, OnePermission, Unused, Pushing, Holding
<1> QED BY <1>1, <1>2, Steps DEF OnePermission
-----------------------------------------------------------------------------
(* Starting a task.                                                        *)

\* Which step a thread makes at which place.
LEMMA Exits ==
  ASSUME NEW x \in Thread, Step(x)
  PROVE  /\ pc[x] = "try" => TryToEnque(x)
         /\ pc[x] = "enque" => TimerEnque(x)
         /\ pc[x] = "push" => PushTest(x)
         /\ pc[x] = "cancel" => CancelStore(x)
         /\ pc[x] = "submitted" => SubmitTimer(x)
         /\ pc[x] = "tpush" => TimerPushTest(x)
<1> USE Places
<1>1. ASSUME    PushAppend(x) \/ OnFinishedLock(x) \/ OnFinishedDepended(x)
             \/ OnFinishedTriggered(x) \/ OnFinishedEnd(x) \/ TimerPushAppend(x)
             \/ WaitTest(x) \/ CloseLock(x) \/ CloseCancel(x) \/ CloseEnd(x)
      PROVE  pc[x] \notin {"try", "enque", "push", "cancel", "submitted", "tpush"}
      BY <1>1 DEF PushAppend, OnFinishedLock, OnFinishedDepended, OnFinishedTriggered,
             OnFinishedEnd, TimerPushAppend, WaitTest, CloseLock, CloseCancel, CloseEnd
<1>2. ASSUME    TimerClose(x) \/ TimerCloseLock(x) \/ TimerCloseCancel(x)
             \/ TimerCloseEnd(x) \/ Joined(x) \/ Pop(x) \/ CheckCanceled(x)
             \/ StartRun(x) \/ (\E r \in {"Completed", "Failed"} : FinishRun(x, r))
             \/ TimerPop(x) \/ TimerTimeout(x) \/ TimerCheckCanceled(x)
      PROVE  pc[x] \notin {"try", "enque", "push", "cancel", "submitted", "tpush"}
      BY <1>2 DEF TimerClose, TimerCloseLock, TimerCloseCancel, TimerCloseEnd, Joined,
             Pop, CheckCanceled, StartRun, FinishRun, TimerPop, TimerTimeout,
             TimerCheckCanceled
<1>3. ASSUME    (\E t \in Task : Submit(x, t)) \/ (\E t \in Task : Cancel(x, t))
             \/ (\E t \in Task : Wait(x, t)) \/ (\E t \in Task : SetTimeTrigger(x, t))
             \/ (\E t, d \in Task : AddDependency(x, t, d))
             \/ (\E t, d \in Task : AddTrigger(x, t, d)) \/ StartShutdown(x)
             \/ WaitShutdown(x)
      PROVE  pc[x] \notin {"try", "enque", "push", "cancel", "submitted", "tpush"}
      BY <1>3 DEF Submit, Cancel, Wait, SetTimeTrigger, AddDependency, AddTrigger,
             StartShutdown, WaitShutdown, Builds
<1>4. (TryToEnque(x) => pc[x] = "try") /\ (TimerEnque(x) => pc[x] = "enque")
      BY DEF TryToEnque, TimerEnque
<1>5. (PushTest(x) => pc[x] = "push") /\ (CancelStore(x) => pc[x] = "cancel")
      BY DEF PushTest, CancelStore
<1>6. (SubmitTimer(x) => pc[x] = "submitted") /\ (TimerPushTest(x) => pc[x] = "tpush")
      BY DEF SubmitTimer, TimerPushTest
<1> QED BY <1>1, <1>2, <1>3, <1>4, <1>5, <1>6 DEF Step, Advance, WorkerStep, TimerStep, Request

\* The counter and the flag are not ahead of the tasks they stand for.
LEMMA ReadyMayStart ==
  ASSUME Typing, Lists, Counted, Walked, NEW t \in Task, IsReadyToEnque(t)
  PROVE  MayStart(t)
<1>1. CASE deps[t] # {} /\ cnt[t] = 0
  <2>1. IsFiniteSet(Blockers(t))
        BY FS_Subset, ExecutorConstants DEF Blockers
  <2>2. Blockers(t) = {}
        BY <1>1, <2>1, FS_EmptySet DEF Counted
  <2>3. \A d \in deps[t] : IsFinished(d)
        BY <2>2 DEF Blockers, Lists, Typing, TaskType
  <2> QED BY <1>1, <2>3 DEF MayStart
<1>2. CASE trigs[t] # {} /\ activated[t]
      BY <1>2 DEF Walked, MayStart
<1>3. CASE trigs[t] = {} /\ deps[t] = {} /\ ~timed[t]
      BY <1>3 DEF MayStart
<1> QED BY <1>1, <1>2, <1>3 DEF IsReadyToEnque

\* What lets a submitted task start goes on to hold.
LEMMA MayStartStays ==
  ASSUME Typing, [Next]_vars, NEW t \in Task, state[t] # "Created", MayStart(t)
  PROVE  MayStart(t)'
<1>1. /\ \A d \in Task : IsFinished(d) => IsFinished(d)'
      /\ deps'[t] = deps[t] /\ trigs'[t] = trigs[t] /\ timed'[t] = timed[t]
      BY StepStates
<1>2. deps[t] \subseteq Task /\ trigs[t] \subseteq Task
      BY DEF Typing, TaskType
<1>3. now \in Nat /\ now' \in Nat /\ now <= now'
      BY StepTyping, Steps, Frame DEF Tick, Typing, QueueType
<1>4. StartAt[t] \in Nat
      BY ExecutorConstants
<1> QED BY <1>1, <1>2, <1>3, <1>4 DEF MayStart

\* Every step keeps the permissions justified.
LEMMA StepJustified ==
  ASSUME Typing, OnePermission, Lists, Counted, Walked, OnTime, Justified, [Next]_vars
  PROVE  Justified'
<1>1. ASSUME NEW x \in Thread, Step(x), NEW t \in Task, (state[t] = "Enqueued" \/ ~Unused(t))'
      PROVE  MayStart(t)'
  <2>1. CASE state[t] = "Enqueued" \/ ~Unused(t)
    <3>1. MayStart(t) /\ state[t] # "Created"
          BY <2>1 DEF Justified, OnePermission
    <3> QED BY <3>1, MayStartStays
  <2>2. CASE state[t] # "Enqueued" /\ Unused(t)
    <3>1. Moves(x, t)
          BY <1>1, StepMoves
    <3>2. state'[t] = "Enqueued"
          BY <1>1, <2>2, <3>1 DEF Moves, Unused, Pushing, Holding
    <3>3. /\ TryToEnque(x) \/ TimerEnque(x)
          /\ pc'[x] = "push" /\ arg[x] = t /\ state[t] = "Submitted"
          BY <1>1, <2>2, <3>2, StateSteps
    <3>4. (pc[x] = "try" /\ IsReadyToEnque(t)) \/ pc[x] = "enque"
          BY <3>3, EnqueStep
    <3>5. MayStart(t)
          BY <3>3, <3>4, ReadyMayStart DEF MayStart, OnTime, OnTimeBy, Typing, QueueType
    <3> QED BY <3>3, <3>5, MayStartStays
  <2> QED BY <2>1, <2>2
<1>2. ASSUME Still, NEW t \in Task, (state[t] = "Enqueued" \/ ~Unused(t))' PROVE MayStart(t)'
  <2>1. state[t] = "Enqueued" \/ ~Unused(t)
        BY <1>2 DEF Still, taskVars, queueVars, callVars, Unused, Pushing, Holding
  <2>2. MayStart(t) /\ state[t] # "Created"
        BY <2>1 DEF Justified, OnePermission
  <2> QED BY <2>2, MayStartStays
<1> QED BY <1>1, <1>2, Steps DEF Justified

\* A task becomes ready only in a step that goes on to enqueue it.
LEMMA BecomesReady ==
  ASSUME Typing, Walked, NEW x \in Thread, Step(x), NEW t \in Task,
         state[t] = "Submitted", ~IsReadyToEnque(t), IsReadyToEnque(t)'
  PROVE  pc'[x] = "try" /\ arg'[x] = t
<1>1. deps'[t] = deps[t] /\ trigs'[t] = trigs[t] /\ timed'[t] = timed[t]
      BY StepStates DEF Next, Step
<1>2. cnt'[t] # cnt[t] \/ activated'[t] # activated[t]
      BY <1>1 DEF IsReadyToEnque
<1> USE DEF Typing, TaskType
<1>3. CASE OnFinishedDepended(x)
  <2>1. PICK s \in Task : s = Head(stk[x]) /\ depended[s] \in Seq(Task) /\ depended[s] # <<>>
        BY <1>3, Loop DEF OnFinishedDepended
  <2>2. Head(depended[s]) \in Task
        BY <2>1, HeadRemoved
  <2>3. Head(depended[s]) = t
        BY <1>2, <1>3, <2>1, <2>2 DEF OnFinishedDepended
  <2> QED BY <1>3, <2>1, <2>3 DEF OnFinishedDepended, Goto, ThreadType
<1>4. CASE OnFinishedTriggered(x)
  <2>1. PICK s \in Task : s = Head(stk[x]) /\ triggered[s] \in Seq(Task) /\ triggered[s] # <<>>
        BY <1>4, Loop DEF OnFinishedTriggered
  <2>2. Head(triggered[s]) \in Task
        BY <2>1, HeadRemoved
  <2>3. Head(triggered[s]) = t
        BY <1>2, <1>4, <2>1, <2>2 DEF OnFinishedTriggered
  <2> QED BY <1>4, <2>1, <2>3 DEF OnFinishedTriggered, Goto, ThreadType
<1>5. ASSUME NEW s \in Task, NEW d \in Task, AddDependency(x, s, d) \/ AddTrigger(x, s, d)
      PROVE  FALSE
  <2>1. s # t
        BY <1>5 DEF AddDependency, AddTrigger, Builds
  <2>2. cnt'[t] = cnt[t] /\ activated'[t] = activated[t]
        BY <1>5, <2>1 DEF AddDependency, AddTrigger
  <2> QED BY <1>2, <2>2
<1>6. ASSUME \/ TryToEnque(x) \/ TimerEnque(x) \/ CancelStore(x) \/ StartRun(x)
             \/ (\E r \in {"Completed", "Failed"} : FinishRun(x, r))
             \/ (\E s \in Task : Submit(x, s) \/ SetTimeTrigger(x, s))
             \/ UNCHANGED <<taskVars, runs, late>>
      PROVE  FALSE
      BY <1>2, <1>6 DEF TryToEnque, TimerEnque, CancelStore, StartRun, FinishRun, Submit,
             SetTimeTrigger, taskVars
<1>7. TaskStep(x) \/ UNCHANGED <<taskVars, runs, late>>
      BY Frame
<1> QED BY <1>3, <1>4, <1>5, <1>6, <1>7 DEF TaskStep

\* Every step keeps that no ready task is forgotten.
LEMMA StepNoLostEnqueue ==
  ASSUME Typing, Walked, NoLostEnqueue, [Next]_vars
  PROVE  NoLostEnqueue'
<1>1. ASSUME NEW x \in Thread, Step(x), NEW t \in Task,
             alive', state'[t] = "Submitted", IsReadyToEnque(t)'
      PROVE  \E y \in Thread : pc'[y] \in {"try", "enque"} /\ arg'[y] = t
  <2>0. alive /\ Aside(x)
        BY <1>1, Frame, StepAside DEF Typing
  <2>1. CASE state[t] # "Submitted"
    <3>1. Submit(x, t) /\ state[t] = "Created"
          BY <1>1, <2>1, StateSteps
    <3> QED BY <1>1, <3>1 DEF Submit, Call, Goto, Typing, ThreadType
  <2>2. CASE state[t] = "Submitted" /\ ~IsReadyToEnque(t)
        BY <1>1, <2>2, BecomesReady
  <2>3. CASE state[t] = "Submitted" /\ IsReadyToEnque(t)
    <3>1. PICK y \in Thread : pc[y] \in {"try", "enque"} /\ arg[y] = t
          BY <2>0, <2>3 DEF NoLostEnqueue
    <3>2. CASE y # x
          BY <2>0, <3>1, <3>2 DEF Aside, WokenUp, Typing, ThreadType
    <3>3. CASE y = x
      <4>1. TryToEnque(x) \/ TimerEnque(x)
            BY <1>1, <3>1, <3>3, Exits
      <4>2. state'[t] = "Enqueued"
            BY <2>0, <2>3, <3>1, <3>3, <4>1 DEF TryToEnque, TimerEnque, Enque, Typing, TaskType
      <4> QED BY <1>1, <4>2
    <3> QED BY <3>2, <3>3
  <2> QED BY <2>1, <2>2, <2>3
<1>2. ASSUME Still, alive' => alive PROVE NoLostEnqueue'
      BY <1>2 DEF Still, taskVars, callVars, NoLostEnqueue, IsReadyToEnque
<1> QED BY <1>1, <1>2, Steps DEF NoLostEnqueue
-----------------------------------------------------------------------------
(* Tasks submitted after the shutdown.                                     *)

\* A popped task comes from a queue.
LEMMA CurSteps ==
  ASSUME Typing, NEW x \in Thread, Step(x), NEW t \in Task, cur'[x] = t
  PROVE  cur[x] = t \/ In(queue, t) \/ In(tqueue, t)
<1> USE DEF Typing, ThreadType
<1>0. t # NoTask
      BY ExecutorConstants
<1>1. CASE Pop(x)
  <2>1. queue # <<>> => In(queue, Head(queue))
        BY HeadRemoved DEF QueueType
  <2> QED BY <1>1, <2>1 DEF Pop
<1>2. CASE TimerPop(x)
  <2>1. \A i \in Fronts : In(tqueue, tqueue[i])
        BY DEF Fronts, In
  <2> QED BY <1>2, <2>1 DEF TimerPop
<1>3. ASSUME    TryToEnque(x) \/ TimerEnque(x) \/ PushTest(x) \/ PushAppend(x)
             \/ CancelStore(x) \/ OnFinishedLock(x) \/ OnFinishedDepended(x)
             \/ OnFinishedTriggered(x) \/ OnFinishedEnd(x) \/ SubmitTimer(x)
             \/ TimerPushTest(x) \/ TimerPushAppend(x)
      PROVE  cur[x] = t
      BY <1>3, <1>0 DEF TryToEnque, TimerEnque, PushTest, PushAppend, CancelStore,
             OnFinishedLock, OnFinishedDepended, OnFinishedTriggered, OnFinishedEnd,
             SubmitTimer, TimerPushTest, TimerPushAppend, callVars
<1>4. ASSUME    WaitTest(x) \/ CloseLock(x) \/ CloseCancel(x) \/ CloseEnd(x)
             \/ TimerClose(x) \/ TimerCloseLock(x) \/ TimerCloseCancel(x)
             \/ TimerCloseEnd(x) \/ Joined(x) \/ CheckCanceled(x) \/ StartRun(x)
             \/ (\E r \in {"Completed", "Failed"} : FinishRun(x, r))
      PROVE  cur[x] = t
      BY <1>4, <1>0 DEF WaitTest, CloseLock, CloseCancel, CloseEnd, TimerClose,
             TimerCloseLock, TimerCloseCancel, TimerCloseEnd, Joined, CheckCanceled,
             StartRun, FinishRun, callVars
<1>5. ASSUME    TimerTimeout(x) \/ TimerCheckCanceled(x)
             \/ (\E u \in Task : Submit(x, u)) \/ (\E u \in Task : Cancel(x, u))
             \/ (\E u \in Task : Wait(x, u)) \/ (\E u \in Task : SetTimeTrigger(x, u))
             \/ (\E u, d \in Task : AddDependency(x, u, d))
             \/ (\E u, d \in Task : AddTrigger(x, u, d)) \/ StartShutdown(x)
             \/ WaitShutdown(x)
      PROVE  cur[x] = t
      BY <1>5, <1>0 DEF TimerTimeout, TimerCheckCanceled, Submit, Cancel, Wait,
             SetTimeTrigger, AddDependency, AddTrigger, StartShutdown, WaitShutdown,
             callVars
<1> QED BY <1>1, <1>2, <1>3, <1>4, <1>5 DEF Step, Advance, WorkerStep, TimerStep, Request

\* A thread gets into the second half of Submit by Submit, with the task of the call.
LEMMA SubmitSteps ==
  ASSUME Typing, NEW x \in Thread, Step(x), Where(x)' \in SubmitPCs
  PROVE  \/ Where(x) \in SubmitPCs /\ op'[x] = op[x]
         \/ \E t \in Task : Submit(x, t) /\ op'[x] = t
<1> USE Places DEF Typing, ThreadType, ReturnPCs, Where, CallPCs, SubmitPCs, Goto, Call, Return, callVars
<1>1. ASSUME    TryToEnque(x) \/ TimerEnque(x)
      PROVE  Where(x) \in SubmitPCs /\ op'[x] = op[x]
      BY <1>1 DEF TryToEnque, TimerEnque, Enque
<1>2. ASSUME    PushTest(x) \/ PushAppend(x)
      PROVE  Where(x) \in SubmitPCs /\ op'[x] = op[x]
      BY <1>2 DEF PushTest, PushAppend
<1>3. ASSUME    CancelStore(x) \/ OnFinishedLock(x)
      PROVE  Where(x) \in SubmitPCs /\ op'[x] = op[x]
      BY <1>3 DEF CancelStore, OnFinishedLock
<1>4. ASSUME    OnFinishedDepended(x) \/ OnFinishedTriggered(x) \/ OnFinishedEnd(x)
      PROVE  Where(x) \in SubmitPCs /\ op'[x] = op[x]
      BY <1>4 DEF OnFinishedDepended, OnFinishedTriggered, OnFinishedEnd
<1>5. ASSUME    SubmitTimer(x)
      PROVE  Where(x) \in SubmitPCs /\ op'[x] = op[x]
      BY <1>5 DEF SubmitTimer
<1>6. ASSUME    TimerPushTest(x)
      PROVE  Where(x) \in SubmitPCs /\ op'[x] = op[x]
      BY <1>6 DEF TimerPushTest
<1>7. ASSUME    TimerPushAppend(x) \/ TimerCloseEnd(x)
      PROVE  Where(x) \in SubmitPCs /\ op'[x] = op[x]
      BY <1>7 DEF TimerPushAppend, TimerCloseEnd, NotifyTimer
<1>8. ASSUME    WaitTest(x) \/ CloseLock(x) \/ CloseCancel(x) \/ CloseEnd(x)
      PROVE  Where(x) \in SubmitPCs /\ op'[x] = op[x]
      BY <1>8 DEF WaitTest, CloseLock, CloseCancel, CloseEnd
<1>9. ASSUME    TimerClose(x) \/ TimerCloseLock(x) \/ TimerCloseCancel(x) \/ Joined(x)
      PROVE  Where(x) \in SubmitPCs /\ op'[x] = op[x]
      BY <1>9 DEF TimerClose, TimerCloseLock, TimerCloseCancel, Joined
<1>10. ASSUME    Pop(x) \/ CheckCanceled(x) \/ StartRun(x)
              \/ (\E r \in {"Completed", "Failed"} : FinishRun(x, r))
      PROVE  Where(x) \in SubmitPCs /\ op'[x] = op[x]
      BY <1>10 DEF Pop, CheckCanceled, StartRun, FinishRun
<1>11. ASSUME    TimerPop(x) \/ TimerTimeout(x) \/ TimerCheckCanceled(x)
      PROVE  Where(x) \in SubmitPCs /\ op'[x] = op[x]
      BY <1>11 DEF TimerPop, TimerTimeout, TimerCheckCanceled
<1>12. ASSUME    (\E t \in Task : Cancel(x, t)) \/ (\E t \in Task : Wait(x, t))
              \/ StartShutdown(x) \/ WaitShutdown(x)
      PROVE  Where(x) \in SubmitPCs /\ op'[x] = op[x]
      BY <1>12 DEF Cancel, Wait, StartShutdown, WaitShutdown
<1>13. ASSUME    (\E t \in Task : SetTimeTrigger(x, t))
              \/ (\E t, d \in Task : AddDependency(x, t, d))
              \/ (\E t, d \in Task : AddTrigger(x, t, d))
      PROVE  Where(x) \in SubmitPCs /\ op'[x] = op[x]
      BY <1>13 DEF SetTimeTrigger, AddDependency, AddTrigger, Builds
<1>14. ASSUME NEW t \in Task, Submit(x, t) PROVE op'[x] = t
       BY <1>14 DEF Submit
<1> QED BY <1>1, <1>2, <1>3, <1>4, <1>5, <1>6, <1>7, <1>8, <1>9, <1>10, <1>11, <1>12,
           <1>13, <1>14
       DEF Step, Advance, WorkerStep, TimerStep, Request

\* Every step keeps that a task nobody has submitted is in no hands.
LEMMA StepFresh ==
  ASSUME Typing, OnePermission, Fresh, [Next]_vars
  PROVE  Fresh'
<1>1. ASSUME NEW x \in Thread, Step(x), NEW t \in Task, state'[t] = "Created"
      PROVE  /\ ~In(tqueue', t)
             /\ \A y \in Thread : cur'[y] # t /\ (Where(y)' \in SubmitPCs => op'[y] # t)
  <2>0. Aside(x)
        BY <1>1, StepAside DEF Typing
  <2>1. state[t] = "Created"
        BY <1>1, StateSteps
  <2>2. /\ ~In(tqueue, t) /\ ~In(queue, t)
        /\ \A y \in Thread : cur[y] # t /\ (Where(y) \in SubmitPCs => op[y] # t)
        BY <2>1 DEF Fresh, OnePermission, Unused
  <2>3. ~In(tqueue', t)
    <3>1. TimerPushAppend(x) => op[x] # t
          BY <2>2 DEF TimerPushAppend, Where, CallPCs, SubmitPCs
    <3> QED BY <1>1, <2>2, <3>1, QueueContents
  <2>4. cur'[x] # t
        BY <1>1, <2>2, CurSteps
  <2>5. ASSUME Where(x)' \in SubmitPCs PROVE op'[x] # t
    <3>1. ASSUME NEW s \in Task, Submit(x, s) PROVE s # t
          BY <1>1, <3>1 DEF Submit, Typing, TaskType
    <3> QED BY <1>1, <2>2, <2>5, <3>1, SubmitSteps
  <2>6. ASSUME NEW y \in Thread, y # x
        PROVE  cur'[y] # t /\ (Where(y)' \in SubmitPCs => op'[y] # t)
    <3>1. /\ cur'[y] = cur[y] /\ op'[y] = op[y] /\ ret'[y] = ret[y]
          /\ pc'[y] = pc[y] \/ pc'[y] \in {"pop", "wait", "tpop"}
          BY <2>0, <2>6 DEF Aside, WokenUp, Typing, ThreadType
    <3> QED BY <2>2, <3>1 DEF Where, CallPCs, SubmitPCs
  <2> QED BY <2>3, <2>4, <2>5, <2>6
<1>2. ASSUME Still PROVE Fresh'
      BY <1>2 DEF Still, taskVars, timerVars, callVars, Fresh, Where
<1> QED BY <1>1, <1>2, Steps DEF Fresh

\* While a thread is in a call, what it goes on to do and for which task is settled.
LEMMA CallKeeps ==
  ASSUME Typing, NEW x \in Thread, Step(x), pc[x] \in CallPCs
  PROVE  Where(x)' = Where(x) /\ op'[x] = op[x]
<1> USE Places DEF Typing, ThreadType, ReturnPCs, Where, CallPCs, Goto, Call, Return, callVars
<1>1. ASSUME    TryToEnque(x) \/ TimerEnque(x)
      PROVE  Where(x)' = Where(x) /\ op'[x] = op[x]
      BY <1>1 DEF TryToEnque, TimerEnque, Enque
<1>2. ASSUME    PushTest(x) \/ CancelStore(x) \/ OnFinishedLock(x)
      PROVE  Where(x)' = Where(x) /\ op'[x] = op[x]
      BY <1>2 DEF PushTest, CancelStore, OnFinishedLock
<1>3. ASSUME    PushAppend(x)
      PROVE  Where(x)' = Where(x) /\ op'[x] = op[x]
      BY <1>3 DEF PushAppend
<1>4. ASSUME    OnFinishedDepended(x) \/ OnFinishedTriggered(x)
      PROVE  Where(x)' = Where(x) /\ op'[x] = op[x]
      BY <1>4 DEF OnFinishedDepended, OnFinishedTriggered
<1>5. ASSUME    OnFinishedEnd(x)
      PROVE  Where(x)' = Where(x) /\ op'[x] = op[x]
      BY <1>5 DEF OnFinishedEnd
<1>6. ASSUME    SubmitTimer(x) \/ TimerPushTest(x) \/ TimerPushAppend(x) \/ WaitTest(x)
             \/ CloseLock(x) \/ CloseCancel(x) \/ CloseEnd(x) \/ TimerClose(x)
             \/ TimerCloseLock(x) \/ TimerCloseCancel(x) \/ TimerCloseEnd(x)
             \/ Joined(x)
      PROVE  FALSE
      BY <1>6 DEF SubmitTimer, TimerPushTest, TimerPushAppend, WaitTest, CloseLock,
             CloseCancel, CloseEnd, TimerClose, TimerCloseLock, TimerCloseCancel,
             TimerCloseEnd, Joined
<1>7. ASSUME    Pop(x) \/ CheckCanceled(x) \/ StartRun(x)
             \/ (\E r \in {"Completed", "Failed"} : FinishRun(x, r)) \/ TimerPop(x)
             \/ TimerTimeout(x) \/ TimerCheckCanceled(x)
             \/ (\E t \in Task : Submit(x, t)) \/ (\E t \in Task : Cancel(x, t))
             \/ (\E t \in Task : Wait(x, t)) \/ (\E t \in Task : SetTimeTrigger(x, t))
             \/ (\E t, d \in Task : AddDependency(x, t, d))
             \/ (\E t, d \in Task : AddTrigger(x, t, d)) \/ StartShutdown(x)
             \/ WaitShutdown(x)
      PROVE  FALSE
      BY <1>7 DEF Pop, CheckCanceled, StartRun, FinishRun, TimerPop, TimerTimeout,
             TimerCheckCanceled, Submit, Cancel, Wait, SetTimeTrigger, AddDependency,
             AddTrigger, StartShutdown, WaitShutdown, Builds
<1> QED BY <1>1, <1>2, <1>3, <1>4, <1>5, <1>6, <1>7
       DEF Step, Advance, WorkerStep, TimerStep, Request

\* Submit is the only step that adds to the tasks submitted after the shutdown.
LEMMA LateSteps ==
  ASSUME NEW x \in Thread, Step(x), NEW t \in late', t \notin late
  PROVE  t \in Task => Submit(x, t) /\ state[t] = "Created" /\ qclosed /\ tclosed
<1>1. ASSUME NEW s \in Task, Submit(x, s)
      PROVE  Submit(x, t) /\ state[t] = "Created" /\ qclosed /\ tclosed
  <2>1. s = t /\ state[s] = "Created" /\ qclosed /\ tclosed
        BY <1>1 DEF Submit
  <2> QED BY <1>1, <2>1
<1>2. ASSUME \/ TryToEnque(x) \/ TimerEnque(x) \/ CancelStore(x) \/ StartRun(x)
             \/ OnFinishedDepended(x) \/ OnFinishedTriggered(x)
             \/ (\E r \in {"Completed", "Failed"} : FinishRun(x, r))
             \/ (\E s \in Task : SetTimeTrigger(x, s))
             \/ (\E s, d \in Task : AddDependency(x, s, d) \/ AddTrigger(x, s, d))
             \/ UNCHANGED <<taskVars, runs, late>>
      PROVE  FALSE
      BY <1>2 DEF TryToEnque, TimerEnque, CancelStore, StartRun, OnFinishedDepended,
             OnFinishedTriggered, FinishRun, SetTimeTrigger, AddDependency, AddTrigger
<1>3. TaskStep(x) \/ UNCHANGED <<taskVars, runs, late>>
      BY Frame
<1> QED BY <1>1, <1>2, <1>3 DEF TaskStep

\* Submit after the shutdown begins this way.
LEMMA LateBegins ==
  ASSUME Typing, OnePermission, Fresh, NEW x \in Thread, NEW t \in Task, Step(x),
         Submit(x, t), state[t] = "Created", qclosed, tclosed
  PROVE  LateOut(t)' /\ LateCare(t)'
<1>0. Aside(x)
      BY StepAside DEF Typing
<1>1. /\ ~In(queue, t) /\ ~In(tqueue, t)
      /\ \A y \in Thread : /\ cur[y] # t /\ ~Pushing(y, t)
                           /\ Where(y) \in SubmitPCs => op[y] # t
      BY DEF Fresh, OnePermission, Unused
<1>2. /\ UNCHANGED <<queue, tqueue, qclosed, tclosed, cur>> /\ state'[t] = "Submitted"
      /\ pc'[x] = "try" /\ ret'[x] = "submitted" /\ op'[x] = t
      BY DEF Submit, Call, Goto, queueVars, timerVars, Typing, TaskType, ThreadType
<1>3. ASSUME NEW y \in Thread
      PROVE  (pc'[y] = "append" => arg'[y] # t) /\ (pc'[y] = "tappend" => op'[y] # t)
  <2>1. CASE y = x
        BY <1>2, <2>1
  <2>2. CASE y # x
    <3>1. /\ op'[y] = op[y] /\ arg'[y] = arg[y]
          /\ pc'[y] = pc[y] \/ pc'[y] \in {"pop", "wait", "tpop"}
          BY <1>0, <2>2 DEF Aside, WokenUp, Typing, ThreadType
    <3> QED BY <1>1, <3>1 DEF Pushing, Where, CallPCs, SubmitPCs
  <2> QED BY <2>1, <2>2
<1>4. Where(x)' = "submitted"
      BY <1>2 DEF Where, CallPCs
<1> QED BY <1>1, <1>2, <1>3, <1>4 DEF LateOut, LateCare

\* Every step keeps a late task out of the queues.
LEMMA LateStaysOut ==
  ASSUME Typing, NEW x \in Thread, NEW t \in Task, Step(x), LateOut(t)
  PROVE  LateOut(t)'
<1>0. Aside(x)
      BY StepAside DEF Typing
<1>1. qclosed' /\ tclosed'
      BY Frame DEF LateOut
<1>2. state'[t] \in {"Submitted", "Enqueued", "Canceled"}
      BY StateSteps DEF LateOut
<1>3. ~In(queue', t) /\ ~In(tqueue', t)
      BY QueueContents DEF LateOut, PushAppend, TimerPushAppend
<1>4. ASSUME NEW y \in Thread, y # x
      PROVE  /\ cur'[y] # t
             /\ pc'[y] = "append" => arg'[y] # t
             /\ pc'[y] = "tappend" => op'[y] # t
      BY <1>0, <1>4 DEF LateOut, Aside, WokenUp, Typing, ThreadType
<1>5. cur'[x] # t
      BY CurSteps DEF LateOut
<1>6. pc'[x] # "append"
  <2>1. ASSUME PushTest(x) PROVE pc'[x] = "cancel"
        BY <2>1 DEF PushTest, Goto, LateOut, Typing, ThreadType
  <2> QED BY <2>1, Entries
<1>7. pc'[x] # "tappend"
  <2>1. ASSUME TimerPushTest(x) PROVE pc'[x] = "cancel"
        BY <2>1 DEF TimerPushTest, Call, Goto, LateOut, Typing, ThreadType
  <2> QED BY <2>1, Entries
<1> QED BY <1>1, <1>2, <1>3, <1>4, <1>5, <1>6, <1>7 DEF LateOut

\* Every step keeps somebody caring for a late task.
LEMMA LateStaysCared ==
  ASSUME Typing, NEW x \in Thread, NEW t \in Task, Step(x), LateOut(t), LateCare(t)
  PROVE  LateCare(t)'
<1>0. Aside(x)
      BY StepAside DEF Typing
<1>1. ASSUME NEW y \in Thread, y # x
      PROVE  /\ op'[y] = op[y] /\ arg'[y] = arg[y] /\ ret'[y] = ret[y]
             /\ pc'[y] = pc[y] \/ pc[y] \in {"asleep", "blocked", "tasleep", "tuntil"}
      BY <1>0, <1>1 DEF Aside, WokenUp, Typing, ThreadType
<1>2. CancelStore(x) /\ arg[x] = t => state'[t] = "Canceled"
      BY DEF CancelStore, Typing, TaskType
<1>3. ASSUME state'[t] = "Enqueued"
      PROVE  \E y \in Thread : pc'[y] \in {"push", "cancel"} /\ arg'[y] = t
  <2>1. CASE state[t] = "Enqueued"
    <3>1. PICK y \in Thread : pc[y] \in {"push", "cancel"} /\ arg[y] = t
          BY <2>1 DEF LateCare
    <3>2. CASE y # x
          BY <1>1, <3>1, <3>2
    <3>3. CASE y = x
      <4>1. PushTest(x)
            BY <1>2, <1>3, <3>1, <3>3, Exits
      <4>2. pc'[x] = "cancel" /\ arg'[x] = t
            BY <3>1, <3>3, <4>1 DEF PushTest, Goto, callVars, LateOut, Typing, ThreadType
      <4> QED BY <4>2
    <3> QED BY <3>2, <3>3
  <2>2. CASE state[t] # "Enqueued"
    <3>1. (TryToEnque(x) \/ TimerEnque(x)) /\ pc'[x] = "push" /\ arg[x] = t
          BY <1>3, <2>2, StateSteps
    <3>2. arg'[x] = t
          BY <3>1, EnqueStep
    <3> QED BY <3>1, <3>2
  <2> QED BY <2>1, <2>2
<1>4. ASSUME state'[t] = "Submitted", timed'[t]
      PROVE  \E y \in Thread : \/ Where(y)' \in {"submitted", "tpush"} /\ op'[y] = t
                               \/ pc'[y] = "cancel" /\ arg'[y] = t
  <2>1. state[t] = "Submitted"
        BY <1>4, StateSteps DEF LateOut
  <2>2. timed[t]
        BY <1>4, <2>1, StepStates DEF Next, Step
  <2>3. PICK y \in Thread : \/ Where(y) \in {"submitted", "tpush"} /\ op[y] = t
                            \/ pc[y] = "cancel" /\ arg[y] = t
        BY <2>1, <2>2 DEF LateCare
  <2>4. CASE y # x
    <3>1. pc'[y] = pc[y] /\ Where(y)' = Where(y)
          BY <1>1, <2>3, <2>4 DEF Where, CallPCs
    <3> QED BY <1>1, <2>3, <2>4, <3>1
  <2>5. CASE y = x
    <3>1. ~(pc[x] = "cancel" /\ arg[x] = t)
          BY <1>2, <1>4, Exits
    <3>2. CASE pc[x] \in CallPCs
          BY <2>3, <2>5, <3>1, <3>2, CallKeeps
    <3>3. CASE pc[x] = "submitted"
      <4>1. SubmitTimer(x) /\ op[x] = t
            BY <2>3, <2>5, <3>1, <3>3, Exits
      <4>2. pc'[x] = "tpush" /\ op'[x] = t
            BY <2>1, <2>2, <4>1 DEF SubmitTimer, Goto, Typing, ThreadType
      <4> QED BY <4>2 DEF Where, CallPCs
    <3>4. CASE pc[x] = "tpush"
      <4>1. TimerPushTest(x) /\ op[x] = t
            BY <2>3, <2>5, <3>1, <3>4, Exits
      <4>2. pc'[x] = "cancel" /\ arg'[x] = t
            BY <4>1 DEF TimerPushTest, Call, Goto, LateOut, Typing, ThreadType
      <4> QED BY <4>2
    <3> QED BY <2>3, <2>5, <3>1, <3>2, <3>3, <3>4 DEF Where
  <2> QED BY <2>4, <2>5
<1> QED BY <1>3, <1>4 DEF LateCare

\* Every step keeps the tasks submitted after the shutdown out of the queues and cared for.
LEMMA StepLateOnes ==
  ASSUME Typing, OnePermission, Fresh, LateOnes, [Next]_vars
  PROVE  LateOnes'
<1>0. \A t \in late : LateOut(t) /\ LateCare(t)
      BY DEF LateOnes
<1>1. ASSUME NEW x \in Thread, Step(x), NEW t \in late'
      PROVE  LateOut(t)' /\ LateCare(t)'
  <2>1. t \in Task
        BY StepTyping DEF Typing, TaskType
  <2>2. CASE t \in late
        BY <1>0, <1>1, <2>1, <2>2, LateStaysOut, LateStaysCared
  <2>3. CASE t \notin late
    <3>1. Submit(x, t) /\ state[t] = "Created" /\ qclosed /\ tclosed
          BY <1>1, <2>1, <2>3, LateSteps
    <3> QED BY <1>1, <2>1, <3>1, LateBegins
  <2> QED BY <2>2, <2>3
<1>2. ASSUME NEW x \in Thread, Step(x) PROVE LateOnes'
      BY <1>1, <1>2 DEF LateOnes
<1>3. ASSUME Still PROVE LateOnes'
      BY <1>3 DEF Still, taskVars, queueVars, timerVars, callVars, LateOnes, LateOut, LateCare, Where
<1> QED BY <1>2, <1>3, Steps
-----------------------------------------------------------------------------
(* The theorems.                                                           *)

\* The invariant holds initially.
LEMMA InitIInv == Init => IInv
<1> SUFFICES ASSUME Init PROVE IInv
    OBVIOUS
<1> USE DEF Init
<1>0. /\ \A f : ~In(<<>>, f) /\ Once(<<>>, f)
      /\ <<>> \in Seq(Task)
      BY EmptyList, EmptySeq
<1>1. TaskType
      BY <1>0 DEF TaskType, States
<1>2. QueueType
      BY <1>0 DEF QueueType
<1>3. \A x \in Thread : pc[x] \in {"pop", "tpop", "idle"} /\ ret[x] \in {"pop", "tpop", "idle"}
      BY Places
<1>4. ThreadType
      BY <1>0, <1>3 DEF ThreadType, PCs, WorkerPCs, TimerPCs, ClientPCs, ReturnPCs
<1>5. Registers
      BY <1>3 DEF Registers, RegistersOf, Where, CallPCs, SubmitPCs, ClosePCs
<1>6. OnePermission
      BY <1>0, <1>3 DEF OnePermission, Unused, Pushing, Holding
<1>7. Lists
      BY <1>0 DEF Lists
<1>8. Counted
  <2>1. \A t \in Task : Blockers(t) = {}
        BY <1>0 DEF Blockers
  <2> QED BY <2>1, FS_EmptySet DEF Counted
<1>9. Walked
      BY <1>0, <1>3 DEF Walked, WalkedBy
<1>10. OnTime
      BY <1>0, <1>3 DEF OnTime, OnTimeBy
<1>11. Justified
      BY <1>0, <1>3 DEF Justified, Unused, Pushing, Holding
<1>12. NoLostEnqueue
      BY DEF NoLostEnqueue
<1>13. Fresh
      BY <1>0, <1>3, ExecutorConstants DEF Fresh, Where, CallPCs, SubmitPCs
<1>14. LateOnes
      BY DEF LateOnes
<1> QED BY <1>1, <1>2, <1>4, <1>5, <1>6, <1>7, <1>8, <1>9, <1>10, <1>11, <1>12, <1>13, <1>14
        DEF IInv, Typing

\* The invariant holds in every state of every executor.
THEOREM Invariance == Spec => []IInv
<1>1. ASSUME IInv, [Next]_vars PROVE IInv'
      BY <1>1, StepTyping, StepOnePermission, StepLists, StepCounted, StepWalked, StepOnTime,
         StepJustified, StepNoLostEnqueue, StepFresh, StepLateOnes DEF IInv
<1> QED BY InitIInv, <1>1, PTL DEF Spec

\* The body of a task is run at most once, however many threads race to enqueue it:
\* Enque's compare-and-swap gives out one permission, and the queue keeps it one.
THEOREM AtMostOneRun == Spec => []RunsAtMostOnce
<1>1. IInv => RunsAtMostOnce
      BY DEF IInv, OnePermission, RunsAtMostOnce
<1> QED BY <1>1, Invariance, PTL

\* A task is enqueued or run only when its dependencies are finished, one of its
\* triggers is, its time has come, or it has none of these.
THEOREM OnlyWhenDue == Spec => []StartsOnlyWhenDue
<1>1. IInv => StartsOnlyWhenDue
      BY DEF IInv, Justified, Unused, StartsOnlyWhenDue, Typing, TaskType
<1> QED BY <1>1, Invariance, PTL

\* A submitted task that has become ready is in the hands of a thread that will
\* enqueue it.
THEOREM NoneForgotten == Spec => []NoLostEnqueue
<1>1. IInv => NoLostEnqueue
      BY DEF IInv
<1> QED BY <1>1, Invariance, PTL

\* A task submitted after the shutdown, whose start does not hang on other tasks, is
\* canceled by the time Submit has returned.
THEOREM LateOnesCanceled == Spec => []LateSubmitNeverWaits
<1>1. ASSUME IInv, NEW t \in late, Settled(t), IsReadyToEnque(t) \/ timed[t], alive
      PROVE  state[t] = "Canceled"
  <2>1. t \in Task /\ LateOut(t) /\ LateCare(t)
        BY <1>1 DEF IInv, Typing, TaskType, LateOnes
  <2>2. state[t] # "Enqueued"
        BY <1>1, <2>1 DEF LateCare, Settled
  <2>3. ~(state[t] = "Submitted" /\ timed[t])
        BY <1>1, <2>1 DEF LateCare, Settled
  <2>4. ~(state[t] = "Submitted" /\ IsReadyToEnque(t))
        BY <1>1, <2>1 DEF IInv, NoLostEnqueue, Settled
  <2> QED BY <1>1, <2>1, <2>2, <2>3, <2>4 DEF LateOut
<1>2. IInv => LateSubmitNeverWaits
      BY <1>1 DEF LateSubmitNeverWaits
<1> QED BY <1>2, Invariance, PTL

\* A finished task is never unfinished again, whatever else is stored into its state.
THEOREM FinishedStays == Spec => FinishedForGood
<1>1. IInv /\ [Next]_vars => [\A t \in Task : IsFinished(t) => IsFinished(t)']_vars
      BY StepStates DEF IInv
<1> QED BY <1>1, Invariance, PTL DEF Spec, FinishedForGood

\* The counter of unfinished dependencies never goes below zero, nor do the other
\* variables leave their types.
THEOREM Types == Spec => []TypeOK
<1>1. ASSUME IInv PROVE cnt \in [Task -> Nat]
  <2>1. \A t \in Task : IsFiniteSet(Blockers(t))
        BY FS_Subset, ExecutorConstants DEF Blockers
  <2>2. \A t \in Task : cnt[t] \in Nat
        BY <1>1, <2>1, FS_CardinalityType DEF IInv, Counted
  <2> QED BY <1>1, <2>2 DEF IInv, Typing, TaskType
<1>2. ReturnPCs \subseteq PCs
      BY DEF ReturnPCs, PCs, WorkerPCs, TimerPCs, ClientPCs
<1>3. IInv => TypeOK
      BY <1>1, <1>2 DEF IInv, Typing, TaskType, QueueType, ThreadType, TypeOK
<1> QED BY <1>3, Invariance, PTL
=============================================================================
