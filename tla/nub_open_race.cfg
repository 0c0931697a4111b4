SPECIFICATION Spec
CONSTANTS
  Clients = {c1, c2, c3}
  Limit = 1
INVARIANT StartHasProvider
CHECK_DEADLOCK FALSE
