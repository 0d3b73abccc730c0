SPECIFICATION MCSpec
CONSTANTS
  web = web
  web1 = web1
  web2 = web2
  Workloads = {web}
  Pods = {web1, web2}
  WorkloadOf <- WebOf
  NumContainers = 1
  Requests <- OneContainer
  Usages = {4, 70}
  Threshold = 50
  BufferPercent = 25
  MinRequest = 10
  MaxEdits = 1
  MaxFlips = 1
  MaxFaults = 1
  MaxChanges = 1
INVARIANT IInv
PROPERTIES BusyIsRestored DeletionEnds
CHECK_DEADLOCK FALSE
