CONSTANTS
  MaxId = 3
  MaxCalls = 2
  Value = {v1, v2}
  MaxSaves = 2
  MaxTests = 2
  MaxRequests = 2
SPECIFICATION PagesSpec
INVARIANTS OldSuccessGone
SYMMETRY Contents
CHECK_DEADLOCK FALSE
