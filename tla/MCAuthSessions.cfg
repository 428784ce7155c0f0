CONSTANTS
  Password = {p1, p2}
  Seed = {k1}
  NoSeed = NoSeed
  NoAdmin = NoAdmin
  NoCookie = NoCookie
  Otp = {0, 1, 2}
  CodeAt <- CodeCycle
  RecoveryCode = {r1, r2}
  Period = 1
  ShortWindow = 1
  ShortLimit = 1
  LongWindow = 2
  LongLimit = 2
  MaxUsed = 6
  RecoveryCount = 1
  Token = {t1, t2, t3}
  ChallengeToken = {h1, h2}
  MaxSessions = 2
  MaxChallenges = 2
  ChallengeTTL = 1
  ChallengeTries = 1
  EnrollTTL = 1
  SessionTTLs = {2}
  ClockSteps = {1}
  MaxTime = 2
  MaxVersion = 2
SPECIFICATION Spec
SYMMETRY Symmetric
INVARIANTS TypeOK RowsSound
PROPERTIES FactorSpec RotationRevokes SessionsNeedFreshProof
CHECK_DEADLOCK FALSE
