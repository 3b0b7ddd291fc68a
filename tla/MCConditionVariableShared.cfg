SPECIFICATION Spec
CONSTANTS
  t1 = t1
  t2 = t2
  t3 = t3
  h1 = h1
  h2 = h2
  Threads = {t1, t2, t3}
  NoThread = NoThread
  MaxCount = 1
  Handles <- TwoHandles
  Origin <- PairOrigin
  HandleOf <- TwoAndOne
  Configs <- KeepConfig
  Waits = {"pred"}
  Robust = FALSE
  MaxCalls = 4
CHECK_DEADLOCK FALSE
SYMMETRY PairSymmetry
INVARIANTS
  TypeOK
  TrueMeansReady
  NoLostWakeup
