SPECIFICATION Spec
CONSTANTS
  Threads = {t1, t2}
  Paths = {p}
  NoPath = NoPath
  Modes = {FALSE}
  MaxRetry = 0
  MayFail = FALSE
  Resumes = FALSE
  MaxDay = 2
  MaxLines = 2
  MaxRestarts = 0
SYMMETRY Symmetry
INVARIANTS SingleFileIsKept
