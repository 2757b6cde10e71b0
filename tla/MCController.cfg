SPECIFICATION WCFairSpec
CONSTANTS
  u1 = u1  w1 = w1  w2 = w2
  User = {u1}
  Waiter = {w1}
  ControlCap = 1
  StatusCap = 1
  CtrlCap = 1
  PersistMayFail = FALSE
  MaxSignals = 1
INVARIANTS
  WCTypeOK
  WaitEndsOnlyAtTheEnd
PROPERTIES
  WaitReturnsUnlessUntold
CHECK_DEADLOCK FALSE
