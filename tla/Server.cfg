SPECIFICATION ServerSpec
CONSTANTS
  WorkerCount = 2
  MailboxCapacity = 1
  MaxPanics = 1
  c1 = c1
  c2 = c2
  c3 = c3
  Conns <- MCConns
  Disks <- MCDisks
  PoolSizes <- MCPoolSizes
  Budgets <- MCBudgets
  PerIsolate <- MCPerIsolate
  Cgroups <- MCCgroups
  Cpus <- MCCpus
INVARIANTS
  ReturnMeansDrained
  BudgetHonoured
  OneBuild
PROPERTIES
  DropNeedsTwoFull
  FleetStops
CHECK_DEADLOCK FALSE
