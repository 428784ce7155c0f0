CONSTANTS
  Password = {p1}
  Seed = {k1, k2}
  NoSeed = NoSeed
  NoAdmin = NoAdmin
  Otp = {0, 1, 2, 3}
  CodeAt <- CodesShown
  RecoveryCode = {r1, r2}
  Period = 2
  ShortWindow = 2
  ShortLimit = 1
  LongWindow = 5
  LongLimit = 2
  MaxUsed = 6
  RecoveryCount = 1
  ClockSteps = {1}
  MaxTime = 9
  MaxVersion = 2
SPECIFICATION FactorSpec
SYMMETRY Symmetric
INVARIANTS FactorTypeOK NeverLockedOut SpentProofsStayDead GuessesBounded RetryAfterIsExact
CHECK_DEADLOCK FALSE
