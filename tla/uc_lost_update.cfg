\* Two calls whose updates of fOutstandingCommands overlap.
SPECIFICATION FairSpec
CONSTANTS
  Callers = {c1, c2}
  CounterMod = 3
PROPERTY DeviceIsLetGo
CHECK_DEADLOCK FALSE
