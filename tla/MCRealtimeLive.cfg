SPECIFICATION RTFairSpec
CONSTANTS
  db = db ui = ui col = col pdb = pdb pui = pui late = late
  Collectors = {col}
  Processors = {pdb}
  LateTasks = {}
  Reconnecting = {}
  Subs = {db, ui}
  SubOf <- SubOfP
  Blocking = {db}
  Capacity <- OneEach
  MaxRetries = 1
  Broadcast = TRUE
  WalEnabled = TRUE
  FirstFilter <- DbNotLast
  NextFilter <- All
  MaxData = 2
  MaxLives = 2
  MaxCalls = 1
  MaxDrops = 0
PROPERTIES
  
  BufferDrains
CHECK_DEADLOCK FALSE
