SPECIFICATION Spec
CONSTANTS
  web = web
  web1 = web1
  web2 = web2
  Workloads = {web}
  Pods = {web1, web2}
  WorkloadOf <- WebOf
  NumContainers = 2
  Requests <- Sidecar
  Usages = {4, 38, 70}
  Threshold = 50
  BufferPercent = 25
  MinRequest = 10
  MaxEdits = 1
  MaxFlips = 1
  MaxFaults = 1
  MaxChanges = 2
INVARIANT CapAtOriginal
CHECK_DEADLOCK FALSE
