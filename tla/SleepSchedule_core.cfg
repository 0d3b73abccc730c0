SPECIFICATION FairSpec
CONSTANTS
  NodeSets = {"hot", "warm"}
  Schedules = {"s1"}
  Workloads = {"HelmRelease", "Deployment"}
  KindOf <- KindByName
  UserSettings <- OneWay
  Selector <- Everything
  MaxEdits = 1
  MaxFlips = 2
  MaxAborts = 1
  MaxMisses = 1
  MaxChanges = 1
INVARIANT IInv
PROPERTIES RestoresExactly WakeCompletes OperatorsStopFirst OperatorsResumeLast EventuallySleeps EventuallyWakes
CHECK_DEADLOCK FALSE
