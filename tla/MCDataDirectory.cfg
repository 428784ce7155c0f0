CONSTANTS
  Server = {s1, s2}
  Key = {k1, k2, k3}
  NoKey = NoKey
  NoFile = NoFile
  EmptyFile = EmptyFile
  TornFile = TornFile
  NoArchive = NoArchive
  MaxCrashes = 3
SPECIFICATION DirSpec
INVARIANTS DirTypeOK RunningIsWhole KeyFitsDatabase ArchiveWhole
PROPERTIES ComesUp
CHECK_DEADLOCK FALSE
