SPECIFICATION FairSpec
CONSTANTS
  Threads = {t1, t2}
  MayThrow = TRUE
  MaxListeners = 3
  MaxStates = 2
INVARIANTS TypeOK RegisteredStay Converges SameLatestState
PROPERTIES NeverBackwards ToldOnReturn DispatchReturns
