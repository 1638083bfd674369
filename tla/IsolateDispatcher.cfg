CONSTANTS
  Requests = {r1, r2}
  MailboxCapacity = 2
  BatchCap = 0
  MaxAwaits = 1
SPECIFICATION DispatcherSpec
PROPERTIES CompletionsDrained
CHECK_DEADLOCK FALSE
