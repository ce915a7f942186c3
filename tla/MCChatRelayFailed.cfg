\* One chat that ends with an error.
SPECIFICATION Spec
CONSTANTS
  c1 = c1
  Chats = {c1}
  MaxContent = 1
  MaxCrashes = 0
INVARIANTS
  FailedIsSilent
CHECK_DEADLOCK FALSE
