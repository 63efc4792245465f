SPECIFICATION Spec
CONSTANTS
  a = a  b = b  c = c  c1 = c1  c2 = c2
  Timer = timer  NoThread = NoThread  NoTask = NoTask
  StartAt <- Start
  Task = {a}
  Worker = {w1}
  Client = {c1}
  Dep <- None
  Trig <- None
  Timed = {}
  Owner <- ByClient1
  Canceller = {c1}
  Waiter = {}
  Closer = {}
  MaxTime = 0
  MaxTimerQueue = 1
PROPERTIES CancelPreventsRun
CHECK_DEADLOCK FALSE
