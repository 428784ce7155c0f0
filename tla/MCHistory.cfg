CONSTANTS
  v1 = v1
  v2 = v2
  r1 = r1
  Vehicle = {v1, v2}
  Lowest = v1
  NoHistory = {v1}
  Unknown = Unknown
  None = None
  DefaultPreset = default
  AllHistory = all
  Preset = {default, all}
  Record = {r1}
  OwnerOf <- Owners
  KindOf <- Kinds
  Page = {"trips", "overview"}
  Start <- Addresses
  Recent = Recent
  MaxEntries = 2
SPECIFICATION FairSpec
INVARIANTS HistoryTypeOK AddressesFit OfflineHoldsNothing
PROPERTIES SelectionSpec PageSettles
CHECK_DEADLOCK FALSE
