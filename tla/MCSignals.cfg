SPECIFICATION FairSpec
CONSTANTS
  Kinds = {SIGINT, SIGTERM}
  Timeout = 2
  MaxArrivals = 4
  MaxInterrupts = 2
INVARIANTS TypeOK OneAnswerEach
PROPERTIES NoneMissed WaitEnds
\* A signal may end the program.
CHECK_DEADLOCK FALSE
