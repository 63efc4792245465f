SPECIFICATION SuiteSpec
CONSTANTS
  Producer = {p1, p2}  Consumer = {c1, c2}  Size = 2  MaxPos = 4  NoValue = NoValue
  Sender = {s1, s2, s3}  Receiver = {r1, r2}  NoThread = NoThread  Capacity = 2  MaxSend = 2
  Popper = {o1, o2}  Item = {i1, i2, i3}  Times = {1, 3}  Patience = 2  MaxTime = 3
INVARIANTS SlotExclusive FirstInFirstOut QuiescentExact
  NoIdleSleeper DeliversInOrder ClosedMeansDrained OnTimeOrOutOfPatience
CHECK_DEADLOCK FALSE
