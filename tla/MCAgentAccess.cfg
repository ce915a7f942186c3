\* One request, two deployments, one crash of either process or of the host;
\* a chat of up to two content blocks.
SPECIFICATION AccessFairSpec
CONSTANTS
  c1 = c1
  default = default
  work = work
  Unprefixed = Unprefixed
  Malformed = Malformed
  Chats = {c1}
  MaxContent = 2
  MaxCrashes = 1
  Profiles <- MCProfiles
  Default = default
  Requests <- MCRequests
  Scopes <- MCScopes
  MaxDeploys = 2
INVARIANTS
  AccessTypeOK
  NotifiedAfterEnd
  ForwardedIsAuthorised
PROPERTIES
  CompletedIsPublished
  EveryThreadEnds
  RotationTakesEffect
  KeepsChatContract
CHECK_DEADLOCK FALSE
