SPECIFICATION Spec
CONSTANTS
  NodeSets = {"hot", "warm"}
  Schedules = {s1, s2}
  Workloads = {"Deployment"}
  KindOf <- KindByName
  UserSettings <- TwoAndOff
  Selector <- Everything
  MaxEdits = 1
  MaxFlips = 2
  MaxAborts = 0
  MaxMisses = 0
  MaxChanges = 0
SYMMETRY Symmetry
INVARIANT IInv
PROPERTIES RestoresExactly WakeCompletes Implements
CHECK_DEADLOCK FALSE
