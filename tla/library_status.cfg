SPECIFICATION ClientSpec
CONSTANTS
  Clients = {c1, c2, c3}
  Processes = {c1}
  Limit = 1
INVARIANT NoUseAfterFree
CHECK_DEADLOCK FALSE
