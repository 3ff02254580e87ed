SPECIFICATION FairSpec
CONSTANTS
  Threads = {t1, t2}
  Tags = {a}
  Default = Default
  NoThread = NoThread
  MayThrow = FALSE
  EarlyAdd = TRUE
  MaxLoggers = 3
PROPERTIES CallsReturn
CHECK_DEADLOCK FALSE
