SPECIFICATION Spec
CONSTANTS
  MaxRows = 2
  MaxRuns = 4
INVARIANTS TypeOK EachRowOnce NothingUnasked AllOrNothing
\* The program may end.
CHECK_DEADLOCK FALSE
