SPECIFICATION ClientSpec
CONSTANTS
  Clients = {c1, c2, c3}
  Processes = {c1}
  Limit = 1
INVARIANTS TypeOK ReferencesExact NubOutlivesClients ClientTypeOK
  ConnectionOwned SampleObjectLives SampleLeavesNothing
PROPERTIES NubDetaches ProcessGone ImplementsNub
\* The nub is done with once it is detached, and a panic stops everything.
CHECK_DEADLOCK FALSE
