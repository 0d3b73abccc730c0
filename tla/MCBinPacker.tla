---------------------------- MODULE MCBinPacker ----------------------------
EXTENDS BinPacker

CONSTANTS n1, n2, web1, web2, db1, dns, web, db, system

WorkloadOfPod ==
  [p \in Pods |-> IF p = db1 THEN db ELSE IF p = dns THEN system ELSE web]

CpuRequests == [p \in Pods |-> IF p = dns THEN 40 ELSE 30]

MemoryRequests == [p \in Pods |-> IF p = dns THEN 70 ELSE IF p = db1 THEN 20 ELSE 10]

(* dns is bound to its node.                                               *)
AdmittingNodes == [p \in Pods |-> IF p = dns THEN {n2} ELSE Nodes]

DatabaseBudget == {[covers |-> {db}, minAvailable |-> 0]}

ModeChoices ==
  {[action |-> "consolidate", maxEvictions |-> 0], [action |-> "consolidate", maxEvictions |-> 1],
   [action |-> "dryRun", maxEvictions |-> 0]}

(* All that can move begins on one node.                                   *)
InitialPlacements == {[p \in Pods |-> IF p = dns THEN n2 ELSE n1]}

(* Two evictions with nobody in the way, and one with one trouble.         *)
BoundChoices == {[evictions |-> 2, troubles |-> 0], [evictions |-> 1, troubles |-> 1]}

(* The replicas of web are alike.                                          *)
Symmetry == Permutations({web1, web2})
=============================================================================
