SPECIFICATION FairSpec
CONSTANTS
  Threads = {t1, t2, t3}
  Events = {e1}
  NoThread = NoThread
  MayThrow = FALSE
  MaxAccepted = 2
INVARIANTS NoLostWakeup
PROPERTIES WaiterIsServed TerminateReleases
