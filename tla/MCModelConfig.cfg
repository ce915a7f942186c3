\* Two changes of the files, two syncs and one fault, at any place.
SPECIFICATION FairSpec
CONSTANTS
  default = default
  work = work
  NULL = NULL
  Invalid = Invalid
  NoDirectory = NoDirectory
  NotInteger = NotInteger
  Profiles <- MCProfiles
  Default = default
  Text <- MCText
  Configs <- MCConfigs
  MaxEdits = 2
  MaxSyncs = 2
  MaxFaults = 1
INVARIANTS
  TypeOK
  SnapshotIsRecent
PROPERTIES
  CatchesUp
CHECK_DEADLOCK FALSE
