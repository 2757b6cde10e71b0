SPECIFICATION V3FairSpec
CONSTANTS
  a = a  b = b  c = c  d = d  s1 = s1  s2 = s2
  None = None
  Main = {a, b}
  Sub = {s1}
  Deps <- ChainDeps
  Template = {a}
  HasHandler = {a}
  JobBatch <- ChainJobs
  HandlerBatch <- NoBatch
  MayLackParams = {s1}
  MaxConc = 1
  InboxCap = 2
  ControlCap = 1
  StatusCap = 1
  PersistMayFail = FALSE
  MaxSignals = 1
INVARIANTS
  StoredStatusLag
PROPERTIES
  
  
  EndsUnlessAbandoned
  
CHECK_DEADLOCK FALSE
