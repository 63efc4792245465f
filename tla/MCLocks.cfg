SPECIFICATION SuiteSpec
CONSTANTS
  Thread = {t1, t2, t3, t4}
  Reader = {x1, x2, x3, x4, x5}  Writer = {x5, x6}
  N = 2  MaxTickets = 5
  Sender = {s1, s2, s3}  Receiver = {r1, r2}  MaxSend = 2
INVARIANTS NoLostWakeup FirstComeFirstServed Rendezvous SendersAreServed
PROPERTIES ImplementsLock LocksImplementTheirSpecs NobodyWaitsForEver
CHECK_DEADLOCK FALSE
