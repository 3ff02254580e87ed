SPECIFICATION Spec
CONSTANTS
  Threads = {t1, t2}
  Paths = {p}
  NoPath = NoPath
  Modes = {TRUE}
  MaxRetry = 3
  MayFail = FALSE
  Resumes = FALSE
  MaxDay = 3
  MaxLines = 5
  MaxRestarts = 0
SYMMETRY Symmetry
INVARIANTS BackupIsOfItsDay NeverStuck
