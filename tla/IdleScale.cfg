SPECIFICATION FairSpec
CONSTANTS
  web = web
  NodeSets = {}
  Workloads = {web}
  KindOf <- WebKind
  UserSettings <- Replicas
  IdleDuration = 2
  MaxEdits = 1
  MaxFlips = 2
  MaxAborts = 1
  MaxMisses = 1
  MaxChanges = 1
INVARIANT IInv
PROPERTIES IdleLongEnough RestoresExactly DeletionEnds ScalesIdle
