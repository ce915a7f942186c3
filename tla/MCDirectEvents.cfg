\* Safety of the store: five publishers, two of them retries of a third one's
\* event, a window of two rows and a retention of one tick.
SPECIFICATION StoreSpec
CONSTANTS
  NULL = NULL
  Publishers <- MCPublishers
  Event <- MCEvent
  Retention = 1
  MaxEvents = 2
  MaxTime = 2
  MaxCrashes = 1
INVARIANTS
  StoreTypeOK
  WindowBounded
  LostOnlyByPolicy
  LastIsRetained
  RetriesAgree
\* Publishers call once, so the instance comes to an end.
CHECK_DEADLOCK FALSE
