---------------------------- MODULE MCRules ----------------------------
(***************************************************************************)
(* The rules for one workload: an instance of IdleUsage for TLC, or one of *)
(* MCWorkload.  A behaviour is of one of them; the other is at rest.       *)
(***************************************************************************)
EXTENDS IdleUsage, Workload

CONSTANT MaxReplicas

ASSUME ReplicasAssumption == MaxReplicas \in Nat

VARIABLES kind, original, current, phase

workload == <<kind, original, current, phase>>

W == INSTANCE MCWorkload

AtRest ==
  /\ kind = "none"
  /\ original = "none"
  /\ current = "none"
  /\ phase = "at rest"

UsageAtRest ==
  /\ threshold = [r \in Resources |-> NotSet]
  /\ running = {}
  /\ usage = [p \in Pods |-> [r \in Resources |-> 0]]
  /\ metrics = [p \in {} |-> 0]

RulesInit == (UsageInit /\ AtRest) \/ (UsageAtRest /\ W!Init)

RulesNext ==
  \/ phase = "at rest" /\ UsageNext /\ UNCHANGED workload
  \/ W!Next /\ UNCHANGED usageVars

RulesSpec == RulesInit /\ [][RulesNext]_<<usageVars, workload>>

(* MCWorkload's properties.                                                *)
RoundTrip == W!RoundTrip

DesyncIsDetected == W!DesyncIsDetected

Amount(cpu, mem) == [cpu |-> cpu, mem |-> mem]

(* A large pod, a small one that needs more to start than to run, and one  *)
(* that requests no CPU.                                                   *)
PodRequests == <<Amount(8, 4), Amount(2, 4), Amount(0, 2)>>

PodInitRequests == <<Amount(2, 6), Amount(4, 0), Amount(0, 0)>>

PodLoads == {Amount(0, 0), Amount(1, 1), Amount(1, 4), Amount(5, 2)}

ThresholdChoices ==
  {Amount(NotSet, NotSet), Amount(25, NotSet), Amount(NotSet, 60), Amount(40, 60), Amount(60, 100),
   Amount(0, 50)}
=============================================================================
