SPECIFICATION EngineSpec
CONSTANTS
  w1 = w1
  w2 = w2
  w3 = w3
  a = a
  b = b
  c1 = c1
  user = user
  None = None
  NameOf <- MCNameOf
  DepsOf <- MCDepsOf
  TasksOf <- MCTasksOf
  UserWf = {w1}
  CopyWf = {w3}
  Caller = {user}
  MaxInstances = 2
  MaxManagers = 4
  MaxLives = 2
  MaxArrivals = 4
  ControlCap = 1
INVARIANTS
  UnfinishedIsRestored
CHECK_DEADLOCK FALSE
