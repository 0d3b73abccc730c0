SPECIFICATION RulesSpec
CONSTANTS
  NodeSets = {"hot", "warm"}
  MaxReplicas = 2
  Pods = {1, 2, 3}
  Requests <- PodRequests
  InitRequests <- PodInitRequests
  Loads <- PodLoads
  Thresholds <- ThresholdChoices
INVARIANTS RoundTrip DesyncIsDetected QuietPodsAreIdle BusyPodsAreBusy NoDataIsNotIdle
CHECK_DEADLOCK FALSE
