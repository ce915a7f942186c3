\* Two exchanges race for one code, one authentication races two revocations,
\* the clock passes the expiry, the process dies once, any statement may fail.
SPECIFICATION MeetingSpec
CONSTANTS
  c1 = c1
  e1 = e1
  e2 = e2
  a1 = a1
  r1 = r1
  r2 = r2
  NULL = NULL
  Issues = {c1}
  Exchanges = {e1, e2}
  Auths = {a1}
  Revokes = {r1, r2}
  Names = {"work", "home", "no name"}
  ValidNames = {"work", "home"}
  Ttls = {1}
  MaxTime = 1
  MaxCrashes = 1
INVARIANTS
  TypeOK
  SingleUse
  TicketMatchesDevice
  TokenBackedByRow
  RevokedIsDenied
  ScopeKept
  OneRevokeWins
  LastUseInRange
PROPERTIES
  HistoryIsFinal
  KeepsContract
  EveryCallEnds
\* Calls run once, so the instance comes to an end.
CHECK_DEADLOCK FALSE
