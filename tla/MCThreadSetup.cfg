SPECIFICATION FairSpec
CONSTANTS
  u1 = u1
  u2 = u2
  o1 = o1
  o2 = o2
  o3 = o3
  Main = Main
  None = None
  Objects = {o1, o2, o3}
  Tids = {Main, u1, u2}
  Configs <- SchedConfigs
  Operations = {"join"}
  Levels <- OneLevel
  Privileged = FALSE
CHECK_DEADLOCK FALSE
INVARIANTS
  TypeOK
  EntryReadsLive
  PriorityApplied
PROPERTIES
  CallsReturn
