SPECIFICATION ExecFairSpec
CONSTANTS
  x = x  y = y  z = z  dom = dom
  None = None
  Task = {x, y}
  Domain = {dom}
  DomainOf <- Mixed
  QueueCap = 1
  MaxRetries = 1
  Workers = 2
  Sizes = {1, 3}
  MaxResizes = 1
INVARIANTS
  ExecTypeOK
  ReportedOnce
  TokensHeld

  
CHECK_DEADLOCK FALSE
