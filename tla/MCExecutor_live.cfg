SPECIFICATION FairSpec
CONSTANTS
  a = a  b = b  c = c  c1 = c1  c2 = c2
  Timer = timer  NoThread = NoThread  NoTask = NoTask
  StartAt <- Start
  Task = {a, b}
  Worker = {w1}
  Client = {c1, c2}
  Dep <- Chain
  Trig <- None
  Timed = {b}
  Owner <- ByClient1
  Canceller = {}
  Waiter = {c2}
  Closer = {}
  MaxTime = 2
  MaxTimerQueue = 0
PROPERTIES DueTasksFinish WaitReturns
CHECK_DEADLOCK FALSE
