SPECIFICATION FairSpec
CONSTANTS
  Threads = {t1, t2}
  Tags = {a, b}
  Default = Default
  NoThread = NoThread
  MayThrow = TRUE
  EarlyAdd = FALSE
  MaxLoggers = 3
INVARIANTS TypeOK StableReferences MapIsReady NoCircularWait
PROPERTIES ContractSpec CallsReturn
