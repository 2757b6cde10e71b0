SPECIFICATION DefSpec
CONSTANTS
  a = a  b = b  c = c  a2 = a2  c2 = c2  a3 = a3  e = e
  None = None
  Goroutine = {g1, g2}
  Object = {a, b, c, a2, c2, a3, e}
  IdOf <- MCIdOf
  TaskNameOf <- MCNameOf
  NamesOf <- MCNamesOf
  Starts <- MCStarts
  MaxCalls = 3
INVARIANTS IndexIsInverse DependenciesAreWhole ValidatedIsWhole DagAgrees
CHECK_DEADLOCK FALSE
