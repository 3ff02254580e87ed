SPECIFICATION Spec
CONSTANTS
  Threads = {t1, t2, t3}
  Events = {e1, e2}
  NoThread = NoThread
  MayThrow = TRUE
  MaxAccepted = 2
SYMMETRY Symmetry
INVARIANTS TypeOK Fifo WaitersAreLive RefusedSeesTerminated
PROPERTIES ContractSpec
