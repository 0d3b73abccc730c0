SPECIFICATION Spec
CONSTANTS
  NodeSets = {"hot", "warm"}
  Schedules = {"s1"}
  Workloads = {"Deployment"}
  KindOf <- KindByName
  UserSettings <- AlwaysRunning
  Selector <- Everything
  MaxEdits = 0
  MaxFlips = 3
  MaxAborts = 0
  MaxMisses = 0
  MaxChanges = 0
PROPERTY SleepCovers
CHECK_DEADLOCK FALSE
