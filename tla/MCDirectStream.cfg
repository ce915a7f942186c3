\* Three chats, two of them on the App's Profile, a window of two events, one
\* broken connection and one restart; another Profile comes and goes, so that the
\* connections cover different sets.
SPECIFICATION FairSpec
CONSTANTS
  NULL = NULL
  Publishers <- MCPublishers
  Event <- MCEvent
  Retention = 0
  MaxEvents = 2
  MaxTime = 1
  MaxCrashes = 1
  Allowed = {}
  FirstVisible = {"work"}
  Stable = {"work"}
  BatchLimit = 2
  MaxDrops = 1
INVARIANTS
  StreamTypeOK
  NoSkip
PROPERTIES
  SteadyDelivered
  RevokedStreamEnds
CHECK_DEADLOCK FALSE
