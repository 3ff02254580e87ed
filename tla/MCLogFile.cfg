SPECIFICATION Spec
CONSTANTS
  Threads = {t1, t2}
  Paths = {p, q}
  NoPath = NoPath
  Modes = {TRUE, FALSE}
  MaxRetry = 0
  MayFail = TRUE
  Resumes = TRUE
  MaxDay = 2
  MaxLines = 2
  MaxRestarts = 1
SYMMETRY Symmetry
INVARIANTS TypeOK Conserved
PROPERTIES ContractSpec BackupsAreFinal
