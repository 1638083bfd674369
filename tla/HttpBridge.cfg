CONSTANTS
  Requests = {r1, r2}
  Servers = {s1, s2}
  MaxCalls = 3
SPECIFICATION Spec
INVARIANTS ViewsAgree AnswerIsWhole
PROPERTIES RejectionSettles
CHECK_DEADLOCK FALSE
