\* A device paired with every Profile, while a Profile is created.
SPECIFICATION FairSpec
CONSTANTS
  NULL = NULL
  Publishers <- MCPublishers
  Event <- MCEvent
  Retention = 1
  MaxEvents = 2
  MaxTime = 0
  MaxCrashes = 0
  Allowed = {}
  FirstVisible = {"work"}
  Stable = {"work"}
  BatchLimit = 2
  MaxDrops = 0
PROPERTIES
  Delivered
CHECK_DEADLOCK FALSE
