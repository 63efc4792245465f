SPECIFICATION Spec
CONSTANTS Popper = {p1, p2}  Item = {i1, i2}  Times = {1, 3}  Patience = 5  MaxTime = 4
INVARIANTS EmptyPopWaits
CHECK_DEADLOCK FALSE
