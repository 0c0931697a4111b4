\* Two concurrent calls against both threads that tear the client down.
SPECIFICATION FairSpec
CONSTANTS
  Callers = {c1, c2}
  CounterMod = 3
CONSTRAINT NothingLost
INVARIANTS
  TypeOK
  CallKeepsConnection
  CounterExact
  ReferencesBalanced
PROPERTIES
  ImplementsConnection
  CallReturns
  TerminationCompletes
\* A task may close its connection and call no more.
CHECK_DEADLOCK FALSE
