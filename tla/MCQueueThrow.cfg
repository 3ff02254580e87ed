SPECIFICATION FairSpec
CONSTANTS
  Threads = {t1, t2, t3}
  Events = {e1}
  NoThread = NoThread
  MayThrow = TRUE
  MaxAccepted = 2
PROPERTIES WaiterIsServed
