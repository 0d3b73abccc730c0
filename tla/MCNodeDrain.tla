---------------------------- MODULE MCNodeDrain ----------------------------
EXTENDS NodeDrain

CONSTANTS n1, n2, web, db, cache

CpuRequests == [p \in Pods |-> IF p = web THEN 10 ELSE 20]
MemoryRequests == [p \in Pods |-> IF p = cache THEN 40 ELSE 10]

(* Policies that delete or keep what they drain, one of them suspended,    *)
(* one dry.                                                                *)
Chosen(suspend, dryRun, deleteNode, maxNodes, minReady) ==
  [suspend |-> suspend, dryRun |-> dryRun, deleteNode |-> deleteNode,
   maxNodes |-> maxNodes, minReady |-> minReady]

SpecChoices ==
  {Chosen(FALSE, FALSE, FALSE, 2, 0), Chosen(FALSE, FALSE, TRUE, 2, 1),
   Chosen(TRUE, FALSE, FALSE, 1, 1), Chosen(FALSE, TRUE, FALSE, 2, 1)}

Symmetry == Permutations(Nodes)
=============================================================================
