------------------------------ MODULE Workload ------------------------------
(***************************************************************************)
(* What the sleep schedule controller does to one workload of each of the  *)
(* thirteen kinds it manages: when there is something to put to sleep,     *)
(* what it writes to stop the workload, what it writes to restore it, and  *)
(* when the verification after a wake calls the workload desynced.         *)
(*                                                                         *)
(* A "setting" is the part of a workload's spec the controller touches: a  *)
(* replica (or Kibana) count, a suspend flag, the CNPG hibernation         *)
(* annotation ("" when absent), or the count of each Elasticsearch nodeSet *)
(* by the nodeSet's name.  A suspend flag that is absent means FALSE to    *)
(* the code and is FALSE here; a replica count absent from a custom        *)
(* resource is Unset, and so is the count of a nodeSet the resource does   *)
(* not have.  The int64-to-int32 conversion of counts is not modelled.     *)
(***************************************************************************)
EXTENDS Integers

CONSTANT NodeSets          \* the names an Elasticsearch nodeSet may have

(* The operators that would undo a scale-down, so they sleep first and     *)
(* wake last.                                                              *)
OperatorKinds == {"HelmRelease", "Kustomization", "MariaDB", "MaxScale"}

SuspendKinds == OperatorKinds \cup {"CronJob"}

(* Typed objects, whose replica count the API server always defaults.      *)
AppsKinds == {"Deployment", "StatefulSet"}

(* Custom resources with spec.replicas, and Kibana with spec.count.        *)
CountKinds == {"ThanosRuler", "Alertmanager", "Prometheus", "Kibana"}

ReplicaKinds == AppsKinds \cup CountKinds

Kinds == SuspendKinds \cup ReplicaKinds \cup {"Cluster", "Elasticsearch"}

Unset == -1

Counts == Nat \cup {Unset}

Settings(k) ==
  CASE k \in AppsKinds       -> [replicas : Nat]
    [] k \in CountKinds      -> [replicas : Counts]
    [] k \in SuspendKinds    -> [suspend : BOOLEAN]
    [] k = "Cluster"         -> [hibernation : {"", "on", "off"}]
    [] k = "Elasticsearch"   -> [counts : [NodeSets -> Counts]]

AnySetting ==
  [replicas : Counts] \cup [suspend : BOOLEAN]
    \cup [hibernation : {"", "on", "off"}] \cup [counts : [NodeSets -> Counts]]

(* There is something to put to sleep: the guard of the body of each loop  *)
(* of sleepWorkloads.                                                      *)
Running(k, st) ==
  \/ k \in ReplicaKinds /\ st.replicas > 0
  \/ k \in SuspendKinds /\ ~st.suspend
  \/ k = "Cluster" /\ st.hibernation # "on"
  \/ k = "Elasticsearch" /\ \E n \in NodeSets : st.counts[n] > 0

(* What sleepWorkloads writes to the workload.                             *)
Quiesce(k, st) ==
  CASE k \in ReplicaKinds    -> [replicas |-> 0]
    [] k \in SuspendKinds    -> [suspend |-> TRUE]
    [] k = "Cluster"         -> [hibernation |-> "on"]
    [] k = "Elasticsearch"   ->
         [counts |-> [n \in NodeSets |-> IF st.counts[n] = Unset THEN Unset ELSE 0]]

(* A plausible slip: a Cluster recorded without the annotation gets it set *)
(* to "off" instead of removed.                                            *)
RestoreSwitchedOff(k, current, original) ==
  CASE k = "Elasticsearch" ->
         [counts |-> [n \in NodeSets |->
                        IF Unset \in {current.counts[n], original.counts[n]}
                        THEN current.counts[n] ELSE original.counts[n]]]
    [] k = "Cluster" /\ original.hibernation = "" -> [hibernation |-> "off"]
    [] OTHER -> original

(* What wakeWorkloads writes to a workload that now reads current and was  *)
(* recorded as original.  Only the counts of the nodeSets that are still   *)
(* there under their recorded name are restored; everything else is        *)
(* overwritten with the recorded value.                                    *)
Restore(k, current, original) ==
  IF k = "Elasticsearch"
  THEN [counts |-> [n \in NodeSets |->
                      IF Unset \in {current.counts[n], original.counts[n]}
                      THEN current.counts[n] ELSE original.counts[n]]]
  ELSE original

(* A plausible slip: a suspended resource is expected to be suspended.     *)
DesyncedUnlessOperator(k, current, original) ==
  \/ k \in ReplicaKinds /\ current.replicas = 0 /\ original.replicas > 0
  \/ k = "Cluster"      /\ current.hibernation = "on"
  \/ k = "Elasticsearch" /\ \E n \in NodeSets : current.counts[n] = 0

(* The verification after a wake takes the workload to be still asleep.    *)
Desynced(k, current, original) ==
  \/ k \in AppsKinds    /\ current.replicas = 0 /\ original.replicas > 0
  \/ k \in CountKinds   /\ current.replicas \in {0, Unset} /\ original.replicas > 0
  \/ k \in SuspendKinds /\ current.suspend /\ ~original.suspend
  \/ k = "Cluster"      /\ current.hibernation = "on"
  \/ k = "Elasticsearch" /\ \E n \in NodeSets : current.counts[n] = 0
=============================================================================
