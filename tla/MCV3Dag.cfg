SPECIFICATION V3Spec
CONSTANTS
  a = a  b = b  c = c  d = d  s1 = s1  s2 = s2
  None = None
  Main = {a, b, c, d}
  Sub = {s1, s2}
  Deps <- JoinDeps
  Template = {a, b}
  HasHandler = {b, s2}
  JobBatch <- JoinJobs
  HandlerBatch <- JoinHandlers
  MayLackParams = {d, s1}
  MaxConc = 2
  InboxCap = 3
  ControlCap = 1
  StatusCap = 1
  PersistMayFail = TRUE
  MaxSignals = 0
INVARIANTS
  V3TypeOK
  PickedWhenReady
  AccountsBalance
  NoResultLost
PROPERTIES
  SuccessIsSound
  ImplementsDag
CHECK_DEADLOCK FALSE
