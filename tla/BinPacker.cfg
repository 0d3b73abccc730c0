SPECIFICATION Spec
CONSTANTS
  n1 = n1
  n2 = n2
  web1 = web1
  web2 = web2
  db1 = db1
  dns = dns
  web = web
  db = db
  system = system
  Nodes = {n1, n2}
  Pods = {web1, web2, db1, dns}
  Workloads = {web, db, system}
  WorkloadOf <- WorkloadOfPod
  Evictable = {web1, web2, db1}
  Stable = {db1}
  Cpu <- CpuRequests
  Memory <- MemoryRequests
  Admits <- AdmittingNodes
  Budgets <- DatabaseBudget
  MaxCpu = 95
  MaxMemory = 65
  Modes <- ModeChoices
  Placements <- InitialPlacements
  Bounds <- BoundChoices
SYMMETRY Symmetry
INVARIANT IInv
PROPERTIES PlanIsSound SparesTheLast
CHECK_DEADLOCK FALSE
