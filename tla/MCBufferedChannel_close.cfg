SPECIFICATION Spec
CONSTANTS Sender = {s1}  Receiver = {r1}  NoThread = NoThread
          Capacity = 1  MaxSend = 2
INVARIANTS CloseWakesAll
CHECK_DEADLOCK FALSE
