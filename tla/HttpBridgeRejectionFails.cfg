CONSTANTS
  Requests = {r1}
  Servers = {s1}
  MaxCalls = 2
SPECIFICATION Spec
PROPERTIES RejectionFails
CHECK_DEADLOCK FALSE
