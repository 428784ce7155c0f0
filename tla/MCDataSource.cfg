CONSTANTS
  Name = {postgresql}
  Optional = {}
  PostgreSQL = postgresql
  Fields <- SomeFields
  DefaultFields <- Off
  Secret = {x1, x2}
  NoSecret = NoSecret
  RangeBasis = {rated}
  DefaultBasis = rated
  Currency = {}
  NoCurrency = NoCurrency
  Omitted = Omitted
  Onboarding = {o1}
  FirstStep = o1
  Session = {s1}
  Request = {r1, r2}
  NoRequest = NoRequest
  NoPool = NoPool
  Slots = 1
  NoResult = NoResult
  MaxVersion = 3
SPECIFICATION SourceSpec
INVARIANTS SourceTypeOK UsesWhatItRead
PROPERTIES EveryoneIsAnswered
CHECK_DEADLOCK FALSE
