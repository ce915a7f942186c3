\* Violation: a device asks for the model configuration of a Profile outside its
\* scope, in the query of a path that names none.
SPECIFICATION AccessSpec
CONSTANTS
  c1 = c1
  default = default
  work = work
  Unprefixed = Unprefixed
  Malformed = Malformed
  Chats = {c1}
  MaxContent = 0
  MaxCrashes = 0
  Profiles <- MCProfiles
  Default = default
  Requests <- MCQuery
  Scopes <- MCScopes
  MaxDeploys = 0
INVARIANTS
  ToldIsAuthorised
CHECK_DEADLOCK FALSE
