-------------------------- MODULE MCSleepSchedule --------------------------
(***************************************************************************)
(* Instances of SleepSchedule for TLC: the workloads, by the name of their *)
(* kind, what their users may set, and the selectors.                      *)
(***************************************************************************)
EXTENDS SleepCustody, TLC

(* Each workload is called after its kind.                                 *)
KindByName == [w \in Workloads |-> w]

(* Two ways to run, so that an original can be told from another one, and  *)
(* one way to be stopped by hand.                                          *)
TwoAndOff ==
  [w \in Workloads |->
     CASE w \in ReplicaKinds   -> {[replicas |-> n] : n \in {0, 1, 2}}
       [] w \in SuspendKinds   -> {[suspend |-> b] : b \in BOOLEAN}
       [] w = "Cluster"        -> {[hibernation |-> a] : a \in {"", "off"}}
       [] w = "Elasticsearch"  -> {[counts |-> ("hot" :> 1 @@ "warm" :> n)] : n \in {0, 2}}]

(* Users only ever run their workloads.                                    *)
AlwaysRunning == [w \in Workloads |-> {st \in TwoAndOff[w] : Running(w, st)}]

(* They run each in one way, which is not what a forgotten replica count   *)
(* falls back to.                                                          *)
OneWay == [w \in Workloads |-> AlwaysRunning[w] \ {[replicas |-> 1]}]

Everything ==
  [s \in Schedules |-> [labels |-> Workloads, types |-> {}]]

(* Schedules that select alike are alike.                                  *)
Symmetry == Permutations(Schedules)
=============================================================================
