CONSTANTS
  Requests = {r1, r2}
  MailboxCapacity = 2
  HeapRatio = 80
  RequestLimit = 2
  HeapCap = 0
  RssCap = 5
  HeapLimit = 10
  HeapSizes = {1, 9}
  RssSamples = {4}
SPECIFICATION Spec
PROPERTIES FailedRecycleKeepsIsolate
CHECK_DEADLOCK FALSE
