CONSTANTS
  LastPage = 4
  MaxEntries = 3
  MaxTrail = 6
SPECIFICATION Spec
INVARIANTS PreviousIsPrevious
CHECK_DEADLOCK FALSE
