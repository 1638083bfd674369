CONSTANTS
  Requests = {r1}
  Servers = {s1}
  MaxCalls = 2
SPECIFICATION Spec
INVARIANTS EndCompletesDispatch
CHECK_DEADLOCK FALSE
