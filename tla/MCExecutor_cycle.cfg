SPECIFICATION Spec
CONSTANTS
  a = a  b = b  c = c  c1 = c1  c2 = c2
  Timer = timer  NoThread = NoThread  NoTask = NoTask
  StartAt <- Start
  Task = {a, b}
  Worker = {w1}
  Client = {c1, c2}
  Dep <- Chain
  Trig <- None
  Timed = {}
  Owner <- ByClient1
  Canceller = {c1}
  Waiter = {}
  Closer = {c2}
  MaxTime = 0
  MaxTimerQueue = 1
INVARIANTS NoLockCycle
CHECK_DEADLOCK FALSE
