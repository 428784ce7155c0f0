CONSTANTS
  MaxId = 3
  MaxCalls = 2
  Value = {v1, v2}
  MaxSaves = 2
  MaxTests = 2
  MaxRequests = 2
SPECIFICATION PagesSpec
INVARIANTS PagesTypeOK BadgeHonest
PROPERTIES CodesStay CancelsComeFirst EditsKept
SYMMETRY Contents
CHECK_DEADLOCK FALSE
