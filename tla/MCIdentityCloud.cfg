\* A request, two configurations and a delivery race for a fresh identity
\* or use an installed one; the configuration is cleared, the process dies.
SPECIFICATION Spec
CONSTANTS
  a1 = a1
  k1 = k1
  k2 = k2
  x1 = x1
  d1 = d1
  Installed = Installed
  Foreign = Foreign
  NULL = NULL
  Asks = {a1}
  Configures = {k1, k2}
  Clears = {x1}
  Deliveries = {d1}
  MaxCrashes = 1
SYMMETRY Symmetry
INVARIANTS
  TypeOK
  KeysAreDurable
  DropsOnlyAfterRace
  ClearStopsDelivery
PROPERTIES
  SettledForGood
CHECK_DEADLOCK FALSE
