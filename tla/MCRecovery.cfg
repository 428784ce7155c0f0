CONSTANTS
  Password = {p1}
  Seed = {k1}
  NoSeed = NoSeed
  NoAdmin = NoAdmin
  NoCookie = NoCookie
  NoArchive = NoArchive
  Otp = {0, 1, 2}
  CodeAt <- CodeCycle
  RecoveryCode = {r1, r2}
  Period = 1
  ShortWindow = 1
  ShortLimit = 1
  LongWindow = 1
  LongLimit = 1
  MaxUsed = 6
  RecoveryCount = 1
  Token = {t1, t2}
  ChallengeToken = {h1, h2}
  MaxSessions = 1
  MaxChallenges = 1
  ChallengeTTL = 1
  ChallengeTries = 1
  EnrollTTL = 1
  SessionTTLs = {2}
  ClockSteps = {1}
  MaxTime = 2
  MaxVersion = 2
SPECIFICATION RecoverySpec
SYMMETRY Symmetric
INVARIANTS AlwaysRecoverable RestoreRevivesNoProof
PROPERTIES RestoreReopens
CHECK_DEADLOCK FALSE
