SPECIFICATION Spec
CONSTANTS
  t1 = t1
  t2 = t2
  t3 = t3
  h1 = h1
  h2 = h2
  Threads = {t1, t2, t3}
  NoThread = NoThread
  MaxCount = 1
  Handles <- OneHandle
  Origin <- HeapOrigin
  HandleOf <- AllOnOne
  Configs <- HeapConfig
  Waits = {"pred"}
  Robust = FALSE
  MaxCalls = 3
CHECK_DEADLOCK FALSE
INVARIANTS
  FalseMeansNotReady
