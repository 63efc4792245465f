SPECIFICATION Spec
CONSTANTS Thread = {t1, t2, t3, t4}  N = 2  MaxTickets = 5
INVARIANTS NoSleepWithRoom
CHECK_DEADLOCK FALSE
