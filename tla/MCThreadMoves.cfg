SPECIFICATION Spec
CONSTANTS
  u1 = u1
  u2 = u2
  o1 = o1
  o2 = o2
  o3 = o3
  Main = Main
  None = None
  Objects = {o1, o2, o3}
  Tids = {Main, u1, u2}
  Configs <- MoveConfigs
  Operations = {"move", "assign", "join", "detach", "update"}
  Levels <- OneLevel
  Privileged = TRUE
CHECK_DEADLOCK FALSE
SYMMETRY ObjectSymmetry
INVARIANTS
  OneJoiner
  JoinerLogs
PROPERTIES
  JoinWaits
