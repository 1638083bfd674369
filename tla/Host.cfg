SPECIFICATION HostSpec
CONSTANTS
  t1 = t1
  t2 = t2
  t3 = t3
  Menus <- MCMenus
  PropNames = {"p"}
  MaxDepth = 2
  MaxRefs = 1
  MaxCount = 1
  MaxIsolates = 2
  Works = {"w"}
  Threads <- MCThreads
  Initial <- MCInitial
  MaxCalls = 2
  Loads <- MCLoads
  IdMax = 2
  WriteLen = 2
  CjsDisks <- MCCjsDisks
  Roots <- MCRoots
  Builtins <- MCBuiltins
  TimerIdMax = 2
  MaxTimers = 3
  MaxTicks = 2
INVARIANTS
  ExceptionsSurface
  TsfnSafe
  NoEarlyReuse
  StreamOrder
  OneInstance
  ResolutionStands
  TimersObey
PROPERTIES
  RefusalsConsumeNothing
CHECK_DEADLOCK FALSE
