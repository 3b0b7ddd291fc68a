SPECIFICATION Spec
CONSTANTS
  t1 = t1
  t2 = t2
  t3 = t3
  h1 = h1
  h2 = h2
  h3 = h3
  Threads = {t1, t2, t3}
  NoThread = NoThread
  MaxCount = 2
  Handles <- OneHandle
  Origin <- HeapOrigin
  HandleOf <- AllOnOne
  Configs <- RobustConfig
  Calls <- ByTryLock
  Misuse = FALSE
CHECK_DEADLOCK FALSE
INVARIANTS
  OwnerKnows
