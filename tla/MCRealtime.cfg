SPECIFICATION RTSpec
CONSTANTS
  db = db ui = ui col = col pdb = pdb pui = pui late = late
  Collectors = {col}
  Processors = {pdb, pui}
  LateTasks = {pui}
  Reconnecting = {col, pdb}
  Subs = {db, ui}
  SubOf <- SubOfP
  Blocking = {db}
  Capacity <- OneEach
  MaxRetries = 1
  Broadcast = TRUE
  WalEnabled = TRUE
  FirstFilter <- All
  NextFilter <- UiOnlyOne
  MaxData = 2
  MaxLives = 2
  MaxCalls = 1
  MaxDrops = 1
INVARIANTS
  RTInv
  
  AnswersBeforeClose
CHECK_DEADLOCK FALSE
