\* A thread of the task closes the connection while another one enters a call.
SPECIFICATION Spec
CONSTANTS
  Callers = {c1, c2}
  CounterMod = 3
INVARIANT CountKeepsConnection
CHECK_DEADLOCK FALSE
