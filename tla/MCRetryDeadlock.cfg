SPECIFICATION ExecFairSpec
CONSTANTS
  x = x  y = y  z = z  dom = dom
  None = None
  Task = {x, y, z}
  Domain = {}
  DomainOf <- NoDomain
  QueueCap = 1
  MaxRetries = 1
  Workers = 1
  Sizes = {}
  MaxResizes = 0
PROPERTIES
  QueuedIsExecuted
CHECK_DEADLOCK FALSE
