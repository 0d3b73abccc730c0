----------------------------- MODULE MCWorkload -----------------------------
(***************************************************************************)
(* One workload of any kind, put to sleep, possibly given other nodeSets   *)
(* while it sleeps, and woken: an instance that checks the rules of module *)
(* Workload against what the controller promises about them.               *)
(***************************************************************************)
EXTENDS Workload

CONSTANT MaxReplicas       \* bounds every count

VARIABLES kind,            \* the workload's kind
          original,        \* its setting when the schedule found it
          current,         \* its setting now
          phase            \* "awake" -> "asleep" (-> "edited") -> "woken"

vars == <<kind, original, current, phase>>

SmallSettings(k) ==
  CASE k \in AppsKinds     -> [replicas : 0..MaxReplicas]
    [] k \in CountKinds    -> [replicas : {Unset} \cup 0..MaxReplicas]
    [] k \in SuspendKinds  -> [suspend : BOOLEAN]
    [] k = "Cluster"       -> [hibernation : {"", "on", "off"}]
    [] k = "Elasticsearch" -> [counts : [NodeSets -> {Unset} \cup 0..MaxReplicas]]

Init ==
  /\ kind \in Kinds
  /\ original \in SmallSettings(kind)
  /\ current = original
  /\ phase = "awake"

Sleep ==
  /\ phase = "awake"
  /\ Running(kind, current)
  /\ current' = Quiesce(kind, current)
  /\ phase' = "asleep"
  /\ UNCHANGED <<kind, original>>

(* The user renames, adds, removes or resizes nodeSets of a sleeping       *)
(* Elasticsearch.                                                          *)
EditNodeSets ==
  /\ phase = "asleep"
  /\ kind = "Elasticsearch"
  /\ current' \in SmallSettings(kind)
  /\ phase' = "edited"
  /\ UNCHANGED <<kind, original>>

Wake ==
  /\ phase \in {"asleep", "edited"}
  /\ current' = Restore(kind, current, original)
  /\ phase' = IF phase = "asleep" THEN "woken" ELSE "woken after edit"
  /\ UNCHANGED <<kind, original>>

(* The verification found the woken workload desynced and wakes it again.  *)
WakeAgain ==
  /\ phase \in {"woken", "woken after edit"}
  /\ Desynced(kind, current, original)
  /\ current' = Restore(kind, current, original)
  /\ UNCHANGED <<kind, original, phase>>

Next == Sleep \/ EditNodeSets \/ Wake \/ WakeAgain

Spec == Init /\ [][Next]_vars

-----------------------------------------------------------------------------
(* A workload nobody touched while it slept is restored to exactly the     *)
(* setting it had, for every kind: sleepWorkloads records enough and       *)
(* wakeWorkloads uses all of it.                                           *)
RoundTrip == phase = "woken" => current = original

(* The verification after a wake never overlooks a workload that is still  *)
(* asleep exactly as sleepWorkloads left it.                               *)
DesyncIsDetected == phase = "asleep" => Desynced(kind, current, original)
=============================================================================
