SPECIFICATION V2FairSpec
CONSTANTS
  a = a  b = b  c = c  s1 = s1  s2 = s2
  None = None
  Main = {a, c}
  Sub = {s1, s2}
  Deps <- JoinDeps
  Template = {a}
  JobBatch <- JobOfC
  HandlerBatch <- OneSub
  RetryCount <- RetryA
  Compensable = {a}
  MayLackParams = {c}
  MayBeRefused = {c}
  MaxConc = 2
  EventCap = 1
  StatsCap = 4
  Breakpoints <- Restored
  Signals = {"Pause", "Resume", "Terminate"}
  MaxSignals = 1

  
  
PROPERTIES
  ImplementsLevels
  
CHECK_DEADLOCK FALSE
