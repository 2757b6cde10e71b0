SPECIFICATION V1FairSpec
CONSTANTS
  a = a  b = b  c = c  s1 = s1  s2 = s2
  Main = {a, b, c}
  Sub = {s1}
  Deps <- StepDeps
  Needs <- NeedsA
  Template = {b}
  JobBatch <- NoBatch
  HandlerBatch <- HandlerOfC
  Tolerance = 0
  MayBeRefused = {a, c}
  Breakpoints <- Restored
  MaxLoops = 1
  MaxRecoveries <- TwoRestored
  Signals = {"Pause", "Resume", "Terminate"}
  MaxSignals <- OneFresh
INVARIANTS
  
  RunsAfterSuccess
  NoWakeupLost
PROPERTIES
  V1Ends
CHECK_DEADLOCK FALSE
