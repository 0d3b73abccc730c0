SPECIFICATION FairSpec
CONSTANTS
  NodeSets = {"hot", "warm"}
  Schedules = {"s1"}
  Workloads = {"Deployment", "StatefulSet"}
  KindOf <- KindByName
  UserSettings <- AlwaysRunning
  Selector <- Everything
  MaxEdits = 1
  MaxFlips = 1
  MaxAborts = 0
  MaxMisses = 0
  MaxChanges = 1
PROPERTY SuspendWakes
CHECK_DEADLOCK FALSE
