SPECIFICATION Spec
CONSTANTS
  a = a  b = b  c = c  c1 = c1  c2 = c2
  Timer = timer  NoThread = NoThread  NoTask = NoTask
  StartAt <- Start
  Task = {a, b, c}
  Worker = {w1}
  Client = {c1, c2}
  Dep <- Join
  Trig <- Chain
  Timed = {}
  Owner <- Mixed
  Canceller = {c1}
  Waiter = {}
  Closer = {}
  MaxTime = 0
  MaxTimerQueue = 1
INVARIANTS RunsAtMostOnce StartsOnlyWhenDue NoLostEnqueue
PROPERTIES FinishedForGood
CHECK_DEADLOCK FALSE
