SPECIFICATION SuiteSpec
CONSTANTS
  Thread = {t1, t2}  Node = {n1, n2}  Null = Null  kFreeListMaxSize = 0  MaxCalls = 5
  Key = {k1, k2}  None = None  kMaxOperationsCnt = 1  MapCalls = 4  Snapshots = {s1, s2, s3}
  Producer = {p1, p2}  Consumer = c  MaxPush = 4
  Keys = {0, 1, 2, 3}  NoThread = NoThread  kLoadFactor = 1
  expected_size = 1  expected_threads_count = 2  HashCalls = 6
  Writer = {w1, w2, w3}  MaxIncrements = 2  MaxReads = 1  Undefined = Undefined
  kThreadCnt = 2  kMinShare = 1  Numbers = {0, 1, 2, 9, 12, 49, 53}  MaxSize = 4  Lengths = {0, 3, 5}  MaxRuns = 2
  Summand <- SmallIntegers
  Var = {"a", "b"}  Mod = 8  Literal = 3  Counts = {0, 3}  MaxExpr = 4  MaxLines = 3  MaxName = 5
SYMMETRY Symmetry
INVARIANTS NoUseAfterFree NothingLeaked EveryKeyIsFound NobodyStuck ThreadsAgree ComputationsAgree
PROPERTIES ActsAtomically SumIsCurrent
CHECK_DEADLOCK FALSE
