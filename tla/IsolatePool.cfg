CONSTANTS
  Requests = {r1, r2}
  PoolSize = 2
  Ticks = {tick}
  MaxBuilds = 1
  MaxPanics = 1
  HeapRatio = 80
  RequestLimit = 1
  HeapCap = 0
  RssCap = 0
  HeapLimit = 10
  HeapSizes = {1}
  RssSamples = {4}
SPECIFICATION Spec
INVARIANTS Singleflight InflightExact NoRecycleLoss
PROPERTIES ImplementsLifecycle NoWorkerLeaks
CHECK_DEADLOCK FALSE
