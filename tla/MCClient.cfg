CONSTANTS
  t1 = t1
  c1 = c1
  c2 = c2
  Tab = {t1}
  Call = {c1, c2}
  NoCall = NoCall
  TabOf <- OneTab
  KindsOf <- FormsAndPage
  Token = {1, 2, 3, 4, 5}
  NoToken = 0
  MaxExpiries = 1
SPECIFICATION FairSpec
INVARIANTS ClientTypeOK AppliedOnce
PROPERTIES CallsEnd NobodyShutOut
