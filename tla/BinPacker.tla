----------------------------- MODULE BinPacker -----------------------------
(***************************************************************************)
(* The BinPacker controller and one packer: it plans which pods of little  *)
(* used nodes would fit elsewhere and evicts them, in the hope that the    *)
(* scheduler agrees.                                                       *)
(*                                                                         *)
(* Each write of the packer's status is an event of the packer, so a pass  *)
(* may begin as soon as the last has ended: the interval only bounds how   *)
(* long it may take.  Outside its window it does nothing, which is a pass  *)
(* that has not begun yet.  Pods and the status of workloads are read from *)
(* the informers' copies.                                                  *)
(***************************************************************************)
EXTENDS Naturals, Integers, FiniteSetsExt, Sequences, SequencesExt

CONSTANTS
  Nodes,              \* the nodes of the packer's selector that take pods
  Pods, Workloads,
  WorkloadOf,         \* the Deployment or StatefulSet of each pod
  Evictable,          \* pods isEvictable has nothing against, but that they
                      \* may be terminating
  Stable,             \* pods recreated under the name they had
  Cpu, Memory,        \* requests of each pod, in percent of any node
  Admits,             \* the nodes whose labels and taints suit each pod
  Budgets,            \* PodDisruptionBudgets: [covers, minAvailable]
  MaxCpu, MaxMemory,  \* the thresholds: a percentage, 0 where unset
  Modes,              \* the specs users give the packer
  Placements,         \* where the pods run at first
  Bounds              \* of evictions, and of changes by users, failed calls
                      \* and crashes (troubles): a behaviour keeps to one

ASSUME ConstantsAssumption ==
  /\ \A S \in {Nodes, Pods, Workloads} : IsFiniteSet(S)
  /\ {MaxCpu, MaxMemory} \subseteq Nat
  /\ WorkloadOf \in [Pods -> Workloads]
  /\ Evictable \subseteq Pods
  /\ Stable \subseteq Pods
  /\ Cpu \in [Pods -> 0..100]
  /\ Memory \in [Pods -> 0..100]
  /\ Admits \in [Pods -> SUBSET Nodes]
  /\ \A b \in Budgets : b.covers \subseteq Workloads /\ b.minAvailable \in Nat
  /\ \A place \in Placements :
       /\ \A p \in Pods : place[p] \in Admits[p]
       /\ \A n \in Nodes : \A amount \in {Cpu, Memory} :
            MapThenSumSet(LAMBDA p : amount[p], {p \in Pods : place[p] = n}) <= 100
  /\ Modes # {}
  /\ Modes \subseteq [action : {"report", "dryRun", "consolidate"}, maxEvictions : Nat]
  /\ Bounds \subseteq [evictions : Nat, troubles : Nat]

VARIABLES
  pod,                \* where each pod is and what it does
  seenPod,            \* the informer's copy of it
  seenReady,          \* the ready replicas each workload's status showed
  packer,             \* the packer in the API server
  seen,               \* the informer's copy of it
  pc, copy, fresh,    \* the pass, its copy, whether that is current
  plan,               \* the evictions still to make
  gone,               \* planned pods whose name there is no more
  evicted,            \* evictions of the pass
  ever, lost,         \* history: evictions made, those not reported
  upset,              \*   workloads the pass has a wrong idea of
  left                \* what is left of each bound

cluster == <<pod, seenPod, seenReady>>
pass == <<pc, copy, fresh, plan, gone, evicted>>
history == <<ever, lost, upset>>
vars == <<cluster, packer, seen, pass, history, left>>

-----------------------------------------------------------------------------
Nowhere == "nowhere"

Spend(bound) ==
  /\ left[bound] > 0
  /\ left' = [left EXCEPT ![bound] = @ - 1]

ReadyPods(w) == {p \in Pods : WorkloadOf[p] = w /\ pod[p].phase = "running"}

BudgetsOf(w) == {b \in Budgets : w \in b.covers}

(* A budget's DisruptionsAllowed, when its workloads have that many ready  *)
(* replicas.                                                               *)
Allowed(b, ready) ==
  LET healthy == MapThenSumSet(LAMBDA w : ready[w], b.covers)
  IN  IF healthy > b.minAvailable THEN healthy - b.minAvailable ELSE 0

(* The API server refuses an eviction that a budget does not allow.        *)
Permitted(p) ==
  pod[p].phase = "running" =>
    \A b \in BudgetsOf(WorkloadOf[p]) :
      Allowed(b, [w \in Workloads |-> Cardinality(ReadyPods(w))]) > 0

-----------------------------------------------------------------------------
(* analyzeNodes: the pods the informer shows Running.                      *)
SeenOn(n) == {p \in Pods : seenPod[p].on = n /\ seenPod[p].phase \in {"running", "terminating"}}

Requests(amount, n) == MapThenSumSet(LAMBDA p : amount[p], SeenOn(n))

EvictableOn(n) == {p \in SeenOn(n) \cap Evictable : seenPod[p].phase = "running"}

(* findCandidateNodes: both thresholds, where both are set.                *)
Candidates ==
  {n \in Nodes :
     /\ EvictableOn(n) # {}
     /\ MaxCpu + MaxMemory > 0
     /\ MaxCpu > 0 => Requests(Cpu, n) < MaxCpu
     /\ MaxMemory > 0 => Requests(Memory, n) < MaxMemory}

Usage(n) == Requests(Cpu, n) + Requests(Memory, n)

(* A plausible slip: the last ready replica counts as well.                *)
BudgetOfAll(w) ==
  IF BudgetsOf(w) = {} THEN seenReady[w]
  ELSE Min({Allowed(b, seenReady) : b \in BudgetsOf(w)})

(* buildSafetyContext: the least a budget allows, or, with no budget, all  *)
(* ready replicas but one.                                                 *)
DisruptionBudget(w) ==
  IF BudgetsOf(w) = {} THEN seenReady[w] - 1
  ELSE Min({Allowed(b, seenReady) : b \in BudgetsOf(w)})

(* The pods a plan moves to a node, and what they request.                 *)
MovedTo(evictions, n) == {e.pod : e \in {e \in Range(evictions) : e.target = n}}

Sum(amount, evictions, n) == MapThenSumSet(LAMBDA p : amount[p], MovedTo(evictions, n))

(* A plausible slip: what is planned already takes no room.                *)
CanFitAlone(p, n, evictions) ==
  /\ n \in Admits[p]
  /\ Requests(Cpu, n) + Cpu[p] <= 100
  /\ Requests(Memory, n) + Memory[p] <= 100

(* canFitOnNode, with what is planned for the node already.                *)
CanFitOnNode(p, n, evictions) ==
  /\ n \in Admits[p]
  /\ Requests(Cpu, n) + Sum(Cpu, evictions, n) + Cpu[p] <= 100
  /\ Requests(Memory, n) + Sum(Memory, evictions, n) + Memory[p] <= 100

(* One pod of buildConsolidationPlan: it goes to the first of the targets  *)
(* it fits on, if the cycle and its workload have evictions left.          *)
PlanPod(max, targets, evictions, p) ==
  LET fitting == {i \in DOMAIN targets : CanFitOnNode(p, targets[i], evictions)}
      planned == {e \in Range(evictions) : WorkloadOf[e.pod] = WorkloadOf[p]}
  IN  IF \/ max > 0 /\ Len(evictions) >= max
         \/ Cardinality(planned) >= DisruptionBudget(WorkloadOf[p])
         \/ fitting = {}
      THEN evictions
      ELSE Append(evictions, [pod |-> p, target |-> targets[Min(fitting)]])

(* Candidates come by their use, the least used first; lists are in        *)
(* whatever order the informer has them.                                   *)
PodOrders ==
  {s \in SetToSeqs(UNION {EvictableOn(n) : n \in Candidates}) :
     \A i, j \in 1..Len(s) : i < j =>
       LET m == seenPod[s[i]].on
           n == seenPod[s[j]].on
       IN  /\ Usage(m) <= Usage(n)
           /\ m = n => \A k \in i..j : seenPod[s[k]].on = n}

PlanOf(max, targets, s) ==
  FoldLeft(LAMBDA evictions, p : PlanPod(max, targets, evictions, p), <<>>, s)

Plans(max) ==
  {PlanOf(max, targets, s) : s \in PodOrders, targets \in SetToSeqs(Nodes \ Candidates)}

-----------------------------------------------------------------------------
NoPacker ==
  [phase |-> "gone", mode |-> CHOOSE mode \in Modes : TRUE, thisCycle |-> 0, total |-> 0]

EndPass ==
  /\ pc' = "idle"
  /\ fresh' = FALSE
  /\ plan' = <<>>
  /\ gone' = {}
  /\ evicted' = 0
  /\ copy' = NoPacker
  /\ upset' = {}

(* Reconcile writes the finalizer; what it does next it does as if it      *)
(* began again.                                                            *)
AddFinalizer ==
  /\ pc = "idle"
  /\ seen = packer
  /\ packer.phase = "new"
  /\ packer' = [packer EXCEPT !.phase = "live"]
  /\ UNCHANGED <<cluster, seen, pass, history, left>>

RemoveFinalizer ==
  /\ pc = "idle"
  /\ seen = packer
  /\ packer.phase = "deleting"
  /\ packer' = [packer EXCEPT !.phase = "gone"]
  /\ UNCHANGED <<cluster, seen, pass, history, left>>

(* Report and dry run: no more than the status.                            *)
Report ==
  /\ pc = "idle"
  /\ seen = packer
  /\ packer.phase = "live"
  /\ packer.mode.action \in {"report", "dryRun"}
  /\ packer' = [packer EXCEPT !.thisCycle = 0]
  /\ UNCHANGED <<cluster, seen, pass, history, left>>

(* The analysis and the plan.                                              *)
Plan ==
  /\ pc = "idle"
  /\ seen.phase = "live"
  /\ seen.mode.action = "consolidate"
  /\ plan' \in Plans(seen.mode.maxEvictions)
  /\ pc' = "execute"
  /\ copy' = seen
  /\ fresh' = (seen = packer)
  /\ gone' = {e.pod : e \in {e \in Range(plan') : e.pod \notin Stable /\ pod[e.pod] # seenPod[e.pod]
                                                  /\ pod[e.pod].phase # "terminating"}}
  /\ upset' = {w \in Workloads :
                 \/ seenReady[w] # Cardinality(ReadyPods(w))
                 \/ \E p \in Pods : WorkloadOf[p] = w /\ seenPod[p] # pod[p]}
  /\ UNCHANGED <<cluster, packer, seen, evicted, ever, lost, left>>

Planned == Head(plan).pod

(* evictPod: the API server, which keeps the budgets, deletes whatever has *)
(* the pod's name by now.                                                  *)
EvictPod ==
  /\ pc = "execute"
  /\ plan # <<>>
  /\ Planned \notin gone
  /\ Permitted(Planned)
  /\ pod' = IF pod[Planned].phase = "running"
            THEN [pod EXCEPT ![Planned].phase = "terminating"] ELSE pod
  /\ ever' = ever + 1

Evict ==
  /\ EvictPod
  /\ Spend("evictions")
  /\ evicted' = evicted + 1
  /\ plan' = Tail(plan)
  /\ UNCHANGED <<seenPod, seenReady, packer, seen, pc, copy, fresh, gone, lost, upset>>

NotFound ==
  /\ pc = "execute"
  /\ plan # <<>>
  /\ Planned \in gone
  /\ plan' = Tail(plan)
  /\ UNCHANGED <<cluster, packer, seen, pc, copy, fresh, gone, evicted, history, left>>

(* A plausible slip: what the caller counts is counted here too.           *)
PersistTotal(status) ==
  [status EXCEPT !.thisCycle = evicted, !.total = copy.total + evicted]

(* The status executePlan writes after an error: the caller sees to the    *)
(* total.                                                                  *)
PersistProgress(status) == [status EXCEPT !.thisCycle = evicted, !.total = copy.total]

(* It is written, with or without an answer, or it is not, for one because *)
(* the copy is old; the error is only logged.                              *)
WriteProgress ==
  \/ /\ fresh
     /\ packer' = PersistProgress(packer)
     /\ \/ copy' = packer' /\ UNCHANGED fresh
        \/ fresh' = FALSE /\ UNCHANGED copy
  \/ UNCHANGED <<packer, copy, fresh>>

(* Any other answer ends the plan, and so does none.                       *)
EvictionFails ==
  /\ pc = "execute"
  /\ plan # <<>>
  /\ \/ Planned \notin gone /\ ~Permitted(Planned) /\ UNCHANGED left
     \/ Spend("troubles")
  /\ plan' = <<>>
  /\ WriteProgress
  /\ UNCHANGED <<cluster, seen, pc, gone, evicted, history>>

(* The pod is evicted and the answer lost: nobody counts it.               *)
EvictionUnanswered ==
  /\ EvictPod
  /\ Spend("troubles")
  /\ lost' = lost + 1
  /\ plan' = <<>>
  /\ WriteProgress
  /\ UNCHANGED <<seenPod, seenReady, seen, pc, gone, evicted, upset>>

(* The caller writes the status, the total included.                       *)
Finish ==
  /\ pc = "execute"
  /\ plan = <<>>
  /\ fresh
  /\ packer' = [packer EXCEPT !.thisCycle = evicted, !.total = copy.total + evicted]
  /\ EndPass
  /\ UNCHANGED <<cluster, seen, ever, lost, left>>

(* The write fails, or the operator crashes: what the pass did is not      *)
(* known any more, and the next pass begins at once.                       *)
Abandon ==
  /\ pc = "execute"
  /\ \/ plan = <<>> /\ ~fresh /\ UNCHANGED left
     \/ Spend("troubles")
  /\ lost' = lost + evicted
  /\ EndPass
  /\ UNCHANGED <<cluster, packer, seen, ever>>

Pass ==
  AddFinalizer \/ RemoveFinalizer \/ Report \/ Plan \/ Evict \/ NotFound \/ EvictionFails
  \/ EvictionUnanswered \/ Finish \/ Abandon

-----------------------------------------------------------------------------
(* The environment.                                                        *)
Outside == <<packer, seen, pc, copy, fresh, plan, evicted, ever, lost>>

(* The informer of the pods shows them as they were at one moment.         *)
SyncPods ==
  /\ seenPod # pod
  /\ seenPod' = pod
  /\ UNCHANGED <<Outside, pod, seenReady, gone, upset, left>>

SyncReady(w) ==
  /\ seenReady[w] # Cardinality(ReadyPods(w))
  /\ seenReady' = [seenReady EXCEPT ![w] = Cardinality(ReadyPods(w))]
  /\ UNCHANGED <<Outside, pod, seenPod, gone, upset, left>>

SyncPacker ==
  /\ seen # packer
  /\ seen' = packer
  /\ UNCHANGED <<cluster, packer, pass, history, left>>

(* A pod that was evicted ends, its controller makes another one, which    *)
(* the scheduler binds where it fits and its kubelet runs.                 *)
Ends(p) ==
  /\ pod[p].phase = "terminating"
  /\ pod' = [pod EXCEPT ![p] = [on |-> Nowhere, phase |-> "unbound"]]
  /\ gone' = IF p \in {e.pod : e \in Range(plan)} \ Stable THEN gone \cup {p} ELSE gone
  /\ UNCHANGED <<Outside, seenPod, seenReady, upset, left>>

Bind(p, n) ==
  /\ pod[p].phase = "unbound"
  /\ n \in Admits[p]
  /\ \A amount \in {Cpu, Memory} :
       amount[p] + MapThenSumSet(LAMBDA q : amount[q], {q \in Pods : pod[q].on = n}) <= 100
  /\ pod' = [pod EXCEPT ![p] = [on |-> n, phase |-> "running"]]
  /\ UNCHANGED <<Outside, seenPod, seenReady, gone, upset, left>>

UserDeletesPod(p) ==
  /\ Spend("troubles")
  /\ p \in Evictable
  /\ pod[p].phase = "running"
  /\ pod' = [pod EXCEPT ![p].phase = "terminating"]
  /\ upset' = IF pc = "idle" THEN {} ELSE upset \cup {WorkloadOf[p]}
  /\ UNCHANGED <<Outside, seenPod, seenReady, gone>>

PackerChange(changed) ==
  /\ Spend("troubles")
  /\ packer.phase \in {"new", "live"}
  /\ packer' = changed
  /\ fresh' = FALSE
  /\ UNCHANGED <<cluster, seen, pc, copy, plan, gone, evicted, history>>

UserChanges == \E mode \in Modes \ {packer.mode} : PackerChange([packer EXCEPT !.mode = mode])

UserDeletes ==
  PackerChange([packer EXCEPT !.phase = IF packer.phase = "new" THEN "gone" ELSE "deleting"])

Environment ==
  \/ \E p \in Pods : Ends(p) \/ UserDeletesPod(p) \/ \E n \in Nodes : Bind(p, n)
  \/ \E w \in Workloads : SyncReady(w)
  \/ SyncPods \/ SyncPacker \/ UserChanges \/ UserDeletes

-----------------------------------------------------------------------------
(* Pods run, and the informers show it.                                    *)
Init ==
  /\ \E place \in Placements : pod = [p \in Pods |-> [on |-> place[p], phase |-> "running"]]
  /\ seenPod = pod
  /\ seenReady = [w \in Workloads |-> Cardinality(ReadyPods(w))]
  /\ packer \in [phase : {"new"}, mode : Modes, thisCycle : {0}, total : {0}]
  /\ seen = packer
  /\ pc = "idle"
  /\ copy = NoPacker
  /\ fresh = FALSE
  /\ plan = <<>>
  /\ gone = {}
  /\ evicted = 0
  /\ ever = 0 /\ lost = 0 /\ upset = {}
  /\ left \in Bounds

Next == Pass \/ Environment

Spec == Init /\ [][Next]_vars

-----------------------------------------------------------------------------
Pod == [on : Nodes \cup {Nowhere}, phase : {"unbound", "running", "terminating"}]

Packer ==
  [phase : {"new", "live", "deleting", "gone"}, mode : Modes,
   thisCycle : Nat, total : Nat]

TypeOK ==
  /\ pod \in [Pods -> Pod]
  /\ seenPod \in [Pods -> Pod]
  /\ seenReady \in [Workloads -> 0..Cardinality(Pods)]
  /\ packer \in Packer
  /\ seen \in Packer
  /\ pc \in {"idle", "execute"}
  /\ copy \in Packer
  /\ fresh \in BOOLEAN
  /\ plan \in Seq([pod : Pods, target : Nodes])
  /\ gone \subseteq Pods
  /\ evicted \in Nat
  /\ ever \in Nat
  /\ lost \in Nat
  /\ upset \subseteq Workloads
  /\ left \in [evictions : Nat, troubles : Nat]

(* status.totalPodsEvicted counts each eviction once, whether the plan was *)
(* carried out or stopped at an error that wrote a status of its own; what *)
(* it misses (lost) are the evictions of passes that could not write their *)
(* last status and those that were not answered.                           *)
CountsAreExact == packer.total + lost + evicted = ever

(* status.podsEvictedThisCycle, and the pass, keep to maxEvictionsPerCycle,*)
(* with all that is still planned.                                         *)
CycleIsBounded ==
  pc = "execute" /\ copy.mode.maxEvictions > 0 => evicted + Len(plan) <= copy.mode.maxEvictions

(* Why they hold: a pass that has ended, and a copy at the API server's    *)
(* version.                                                                *)
IdleIsEmpty == pc = "idle" => ~fresh /\ plan = <<>> /\ gone = {} /\ evicted = 0 /\ upset = {}

FreshCopy == fresh => copy = packer

PlannedPods == {e.pod : e \in Range(plan)}

(* Of a workload with pods to evict one that is ready is to stay.          *)
OneIsSpared ==
  \A w \in Workloads \ upset :
    BudgetsOf(w) = {} /\ (\E p \in PlannedPods : WorkloadOf[p] = w) => ~(ReadyPods(w) \subseteq PlannedPods)

IInv ==
  /\ TypeOK
  /\ CountsAreExact
  /\ CycleIsBounded
  /\ IdleIsEmpty
  /\ FreshCopy
  /\ OneIsSpared

(* A plan could be carried out: what it moves fits on its targets together *)
(* with what is there, its pods and targets are not on the same nodes, and *)
(* it takes no more of a workload than a budget allows, or all ready       *)
(* replicas but one.                                                       *)
PlanIsSound ==
  [][Plan =>
       LET moved == {e.pod : e \in Range(plan')}
           sources == {seenPod[p].on : p \in moved}
           targets == {e.target : e \in Range(plan')}
       IN  /\ sources \cap targets = {}
           /\ \A n \in targets : \A amount \in {Cpu, Memory} :
                MapThenSumSet(LAMBDA p : amount[p], SeenOn(n) \cup MovedTo(plan', n)) <= 100
           /\ \A w \in Workloads :
                LET taken == Cardinality({p \in moved : WorkloadOf[p] = w})
                IN  taken > 0 => /\ \A b \in BudgetsOf(w) : taken <= Allowed(b, seenReady)
                                 /\ BudgetsOf(w) = {} => taken < seenReady[w]]_vars

LosesLast(w) == ReadyPods(w) # {} /\ {p \in ReadyPods(w) : pod'[p].phase = "running"} = {}

(* A workload without a budget keeps a ready replica throughout a pass     *)
(* that had the right idea of it, as long as nobody else deletes its pods. *)
SparesTheLast ==
  [][EvictPod => \A w \in Workloads : BudgetsOf(w) = {} /\ LosesLast(w) => w \in upset]_vars

(* "No PDB: allow eviction only if at least 2 replicas are ready".         *)
EvictsOfTwo ==
  [][EvictPod => \A w \in Workloads : BudgetsOf(w) = {} => ~LosesLast(w)]_vars
=============================================================================
