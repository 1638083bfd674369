CONSTANTS
  Requests = {r1, r2, r3}
  MailboxCapacity = 2
  BatchCap = 2
  MaxAwaits = 1
SPECIFICATION Spec
INVARIANTS NoLostWakeup Accounted
PROPERTIES InOrder ImplementsLifecycle ClosedWorkerStops
CHECK_DEADLOCK FALSE
