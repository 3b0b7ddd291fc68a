SPECIFICATION FairSpec
CONSTANTS
  t1 = t1
  t2 = t2
  std = std
  no = no
  Threads = {t1, t2}
  Logs = {std, no}
  NoLogs = {no}
  Levels <- SomeLevels
  Messages <- SomeMessages
  MaxEntries = 2
  Build = "throw"
  Environs = {"null", "logandabort"}
  MaxThrows = 2
CHECK_DEADLOCK FALSE
INVARIANTS
  TypeOK
  DrainKeeps
  LoggedFirst
  OneAnswer
PROPERTIES
  ThrowsEnd
