CONSTANTS
  Name = {mqtt}
  Optional = {mqtt}
  Fields <- SomeFields
  DefaultFields <- Off
  Secret = {x1}
  NoSecret = NoSecret
  RangeBasis = {rated, ideal}
  DefaultBasis = rated
  Currency = {eur}
  NoCurrency = NoCurrency
  Omitted = Omitted
  Onboarding = {o1, o2}
  FirstStep = o1
  Session = {s1}
  Request = {r1, r2}
  Slots = 1
  NoResult = NoResult
  MaxVersion = 3
SPECIFICATION SettingsSpec
INVARIANTS SettingsTypeOK ResultIsHonest NothingLost
PROPERTIES SignedOutWritesNothing SlotsComeBack
CHECK_DEADLOCK FALSE
