SPECIFICATION SuiteSpec
CONSTANTS
  Conn = {c1, c2, c3}  Backend = {b1, b2}  Nobody = Nobody  MaxConfigs = 2
  Fiber = {m, f1, f2}  Main = m  MaxOps = 6  MaxTime = 1
  MaxBytes = 5  Delims = {2, 4}  cap_ = 4  buffer_size_ = 2  kInitialSize = 2  MaxCalls = 3
  Timer = {1, 2, 3, 4, 5, 6}  Deadlines = {1, 2, 3}
  Sockets = {listener, socket}  Bound = {listener}  Desc = {d1, d2}  Null = Null
  MaxData = 1  MaxOpen = 4
  Client = {x, y}  Key = {k1}  Word = Word  None = None  kIntMax = 1  MaxCommands = 2
  Chain = 2  Tokens = 3  Ports = 3
  Task = {a, b, c}  Horizon = 2
INVARIANTS NobodyForgotten FiberLifetimes TimeoutBelongs EventsReachWaiters BytesInOrder
  EarliestFirst BalancesLoad AnswersMatch
CHECK_DEADLOCK FALSE
