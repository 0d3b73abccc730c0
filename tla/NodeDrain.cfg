SPECIFICATION Spec
CONSTANTS
  n1 = n1
  n2 = n2
  web = web
  db = db
  cache = cache
  Nodes = {n1, n2}
  Pods = {web, db, cache}
  Evictable = {web, db}
  Awaited = {web, db, cache}
  Stable = {db}
  Cpu <- CpuRequests
  Memory <- MemoryRequests
  MaxCpu = 25
  MaxMemory = 15
  Specs <- SpecChoices
  Ticks = {1, 3}
  Horizon = 4
  MaxChanges = 1
  MaxFaults = 2
SYMMETRY Symmetry
INVARIANT IInv
PROPERTIES KeepsMinReady EvictsFromCordoned TicksAreRun
CHECK_DEADLOCK FALSE
