----------------------------- MODULE NodeDrain -----------------------------
(***************************************************************************)
(* The NodeDrainPolicy controller and one policy: at the ticks of a cron   *)
(* schedule it cordons the least used nodes, evicts their pods, waits      *)
(* until they are gone and deletes the node or leaves it cordoned.         *)
(*                                                                         *)
(* One pass is many API calls and, in the wait, many minutes long; users,  *)
(* the scheduler, the kubelets and the informers go on between any two of  *)
(* them.  Time is counted in minutes: clock = c is any moment after minute *)
(* c begins and before the next does.                                      *)
(***************************************************************************)
EXTENDS Naturals, FiniteSetsExt, Sequences, SequencesExt

CONSTANTS
  Nodes, Pods,
  Evictable,          \* pods isDrainable lets the policy evict
  Awaited,            \* pods waitForDrain waits for: all but those of
                      \* DaemonSets and mirror pods
  Stable,             \* pods recreated under the name they had
  Cpu, Memory,        \* requests of each pod, in percent of any node
  MaxCpu, MaxMemory,  \* the thresholds: a percentage, 0 where unset
  Specs,              \* the specs users give the policy
  Ticks,              \* the minutes the cron expression names
  Horizon,            \* bounds: the last minute,
  MaxChanges,         \*         changes by users and of nodes,
  MaxFaults           \*         failed calls and crashes

Nowhere == "nowhere"

ASSUME ConstantsAssumption ==
  /\ IsFiniteSet(Nodes)
  /\ Nowhere \notin Nodes
  /\ IsFiniteSet(Pods)
  /\ Evictable \subseteq Pods
  /\ Awaited \subseteq Pods
  /\ Stable \subseteq Pods
  /\ Cpu \in [Pods -> Nat]
  /\ Memory \in [Pods -> Nat]
  /\ {MaxCpu, MaxMemory, Horizon, MaxChanges, MaxFaults} \subseteq Nat
  /\ Ticks \subseteq 1..Horizon
  /\ Specs # {}
  /\ Specs \subseteq [suspend : BOOLEAN, dryRun : BOOLEAN, deleteNode : BOOLEAN,
                      maxNodes : Nat, minReady : Nat]

VARIABLES
  nodes, ready, cordoned,   \* the nodes there are, in the API server
  seenCordoned,       \* the informer's copy of the last
  pod,                \* where each pod is and what it does
  late,               \* pods the informer does not show on their node yet
  policy,             \* the policy in the API server
  seen,               \* the informer's copy of it
  clock,              \* the minute
  wake,               \* the minute the work queue hands the policy out
  pc,                 \* where the pass stands
  copy,               \* its copy of the policy
  fresh,              \* whether that copy is at the API server's version
  start,              \* the minute the run began
  queue,              \* the candidates still to drain, the current one first
  home,               \* the node on which the analysis saw each pod the run
                      \* has still to evict
  mine,               \* history: nodes that are cordoned by the policy,
  drained,            \*   those of them it drained,
  stranded,           \*   those it gave up without uncordoning them,
  missed,             \*   pods the wait for their node did not see,
  disturbed,          \*   others changed nodes since the analysis
  left                \* what is left of each bound

cluster == <<nodes, ready, cordoned, pod, late>>
history == <<mine, drained, stranded, missed, disturbed>>
run == <<start, queue, home>>
vars == <<cluster, seenCordoned, policy, seen, clock, wake, pc, copy, fresh, run, history, left>>

-----------------------------------------------------------------------------
Never == 0
Later == Horizon + 1

NoHome == [p \in Pods |-> Nowhere]

On(n) == {p \in Pods : pod[p].on = n}

Alive(p) == pod[p].phase \in {"starting", "running"}

Unbound == [on |-> Nowhere, phase |-> "unbound"]

Spend(bound) ==
  /\ left[bound] > 0
  /\ left' = [left EXCEPT ![bound] = @ - 1]

(* schedule.Next(now): the first tick of a later minute.                   *)
NextTick == Min({t \in Ticks : t > clock} \cup {Later})

(* schedule.Next of two minutes ago, if that is not after now: the first   *)
(* tick of this minute and the last, none the first of a later one.        *)
DueTicks == {t \in Ticks : clock <= t + 1 /\ t <= clock}

ShouldRun(p) == DueTicks # {} /\ Min(DueTicks) > p.lastRun

-----------------------------------------------------------------------------
(* analyzeNodes: pods where they are Running, nodes that the informer does *)
(* not show cordoned.                                                      *)
Analysed == nodes \ seenCordoned

RunningOn(n) == {p \in On(n) : pod[p].phase = "running" \/ pod[p].phase = "terminating"}

Requests(amount, n) == MapThenSumSet(LAMBDA p : amount[p], RunningOn(n))

Usage(n) == Requests(Cpu, n) + Requests(Memory, n)

(* isDrainable                                                             *)
Drainable(n) == {p \in On(n) \cap Evictable : pod[p].phase = "running"}

(* findDrainCandidates: either threshold will do.                          *)
Candidates ==
  {n \in Analysed : Requests(Cpu, n) < MaxCpu \/ Requests(Memory, n) < MaxMemory}

(* A plausible slip: minReadyNodes is not counted.                         *)
MaxDrainableOfReady(spec) ==
  LET readyCount == Cardinality(Analysed \cap ready)
  IN  IF spec.maxNodes < readyCount THEN spec.maxNodes ELSE readyCount

(* The safety constraints.                                                 *)
MaxDrainable(spec) ==
  LET readyCount == Cardinality(Analysed \cap ready)
      spare == IF readyCount > spec.minReady THEN readyCount - spec.minReady ELSE 0
  IN  IF spec.maxNodes < spare THEN spec.maxNodes ELSE spare

(* The least used candidates first, as many as the constraints allow.      *)
Queues(spec) ==
  {SubSeq(q, 1, IF Len(q) < MaxDrainable(spec) THEN Len(q) ELSE MaxDrainable(spec)) :
     q \in {q \in SetToSeqs(Candidates) :
              \A i, j \in 1..Len(q) : i < j => Usage(q[i]) <= Usage(q[j])}}

-----------------------------------------------------------------------------
NoPolicy == [phase |-> "gone", spec |-> CHOOSE spec \in Specs : TRUE, lastRun |-> Never]

(* The pass ends and the policy comes back at that minute, or before if    *)
(* something has happened to it meanwhile.                                 *)
End(minute) ==
  /\ pc' = "idle"
  /\ copy' = NoPolicy
  /\ fresh' = FALSE
  /\ disturbed' = FALSE
  /\ start' = Never
  /\ queue' = <<>>
  /\ home' = NoHome
  /\ wake' = IF minute < wake THEN minute ELSE wake

Begin ==
  /\ pc = "idle"
  /\ wake <= clock

(* Reconcile writes the finalizer; what it does next it does as if it      *)
(* began again.                                                            *)
AddFinalizer ==
  /\ Begin
  /\ seen = policy
  /\ policy.phase = "new"
  /\ policy' = [policy EXCEPT !.phase = "live"]
  /\ UNCHANGED <<cluster, seenCordoned, seen, clock, wake, pc, copy, fresh, run, history, left>>

(* A policy being deleted is let go.                                       *)
RemoveFinalizer ==
  /\ Begin
  /\ seen = policy
  /\ policy.phase = "deleting"
  /\ policy' = [policy EXCEPT !.phase = "gone"]
  /\ wake' = Later
  /\ UNCHANGED <<cluster, seenCordoned, seen, clock, pc, copy, fresh, run, history, left>>

(* There is no policy, it is suspended, or there is nothing to run: the    *)
(* status is written, which an old copy cannot, and the policy requeued.   *)
(* A suspended one finds itself suspended each time.                       *)
Skip ==
  /\ Begin
  /\ seen = policy
  /\ \/ policy.phase = "gone" /\ wake' = Later
     \/ policy.phase = "live" /\ policy.spec.suspend /\ wake' = Later
     \/ policy.phase = "live" /\ ~policy.spec.suspend /\ ~ShouldRun(policy) /\ wake' = NextTick
  /\ UNCHANGED <<cluster, seenCordoned, policy, seen, clock, pc, copy, fresh, run, history, left>>

(* The run begins with the analysis.  A dry run does no more than report   *)
(* and goes on to the last status write.                                   *)
StartRun ==
  /\ Begin
  /\ seen.phase = "live"
  /\ ~seen.spec.suspend
  /\ ShouldRun(seen)
  /\ copy' = seen
  /\ fresh' = (seen = policy)
  /\ start' = clock
  /\ queue' \in IF seen.spec.dryRun THEN {<<>>} ELSE Queues(seen.spec)
  /\ home' = [p \in Pods |-> IF \E n \in Range(queue') : p \in Drainable(n)
                             THEN pod[p].on ELSE Nowhere]
  /\ pc' = IF queue' = <<>> THEN "final" ELSE "cordon"
  /\ wake' = Later
  /\ disturbed' = (seenCordoned # cordoned)
  /\ UNCHANGED <<cluster, seenCordoned, policy, seen, clock, mine, drained, stranded, missed, left>>

-----------------------------------------------------------------------------
(* One candidate.                                                          *)
Current == Head(queue)

ToEvict == {p \in Pods : home[p] = Current}

(* On to the next candidate, or to the last status write.                  *)
NextCandidate ==
  /\ queue' = Tail(queue)
  /\ home' = [p \in Pods |-> IF home[p] = Current THEN Nowhere ELSE home[p]]
  /\ pc' = IF Len(queue) = 1 THEN "final" ELSE "cordon"

(* cordonNode: the patch says unschedulable whatever the node is by now.   *)
CordonNode ==
  /\ pc = "cordon"
  /\ cordoned' = cordoned \cup {Current}
  /\ mine' = IF Current \in cordoned THEN mine ELSE mine \cup {Current}

Cordon ==
  /\ CordonNode
  /\ pc' = "evict"
  /\ UNCHANGED <<nodes, ready, pod, late, seenCordoned, policy, seen, clock, wake, copy, fresh, run,
                 drained, stranded, missed, disturbed, left>>

(* The node is cordoned and the answer lost: it is passed over and stays   *)
(* so.                                                                     *)
CordonUnanswered ==
  /\ CordonNode
  /\ Spend("faults")
  /\ stranded' = stranded \cup {Current}
  /\ NextCandidate
  /\ UNCHANGED <<nodes, ready, pod, late, seenCordoned, policy, seen, clock, wake, copy, fresh, start,
                 drained, missed, disturbed>>

(* A plausible slip: the pods are evicted from a node that was not         *)
(* cordoned.                                                               *)
CordonFailsOn ==
  /\ pc = "cordon"
  /\ Spend("faults")
  /\ pc' = "evict"
  /\ UNCHANGED <<cluster, seenCordoned, policy, seen, clock, wake, copy, fresh, run, history>>

(* The patch is refused.                                                   *)
CordonFails ==
  /\ pc = "cordon"
  /\ Spend("faults")
  /\ NextCandidate
  /\ UNCHANGED <<cluster, seenCordoned, policy, seen, clock, wake, copy, fresh, start, history>>

(* evictPodForDrain: whatever has the pod's name by now is deleted.        *)
Evict(p) ==
  /\ pc = "evict"
  /\ p \in ToEvict
  /\ home' = [home EXCEPT ![p] = Nowhere]
  /\ pod' = IF Alive(p) THEN [pod EXCEPT ![p].phase = "terminating"] ELSE pod
  /\ UNCHANGED <<nodes, ready, cordoned, late, seenCordoned, policy, seen, clock, wake, pc, copy, fresh,
                 start, queue, history, left>>

(* The API server refuses, for the sake of a budget or for want of a pod.  *)
EvictionRefused(p) ==
  /\ pc = "evict"
  /\ p \in ToEvict
  /\ home' = [home EXCEPT ![p] = Nowhere]
  /\ UNCHANGED <<cluster, seenCordoned, policy, seen, clock, wake, pc, copy, fresh, start, queue,
                 history, left>>

Evicted ==
  /\ pc = "evict"
  /\ ToEvict = {}
  /\ pc' = "wait"
  /\ UNCHANGED <<cluster, seenCordoned, policy, seen, clock, wake, copy, fresh, run, history, left>>

(* A plausible slip: only Running pods are waited for.                     *)
RemainingRunning(n) == {p \in On(n) \cap Awaited : pod[p].phase = "running"} \ late

(* waitForDrain counts what the informer shows on the node, but for pods   *)
(* that are terminating.                                                   *)
Remaining(n) == {p \in On(n) \cap Awaited : Alive(p)} \ late

WaitDone ==
  /\ pc = "wait"
  /\ Remaining(Current) = {}
  /\ drained' = drained \cup ({Current} \cap cordoned)
  /\ missed' = missed \cup (On(Current) \cap late)
  /\ pc' = IF copy.spec.deleteNode THEN "delete" ELSE "persist"
  /\ UNCHANGED <<cluster, seenCordoned, policy, seen, clock, wake, copy, fresh, run,
                 mine, stranded, disturbed, left>>

(* uncordonNode reads the informer's copy of the node: where that does not *)
(* show the cordon yet, the patch is empty.                                *)
Uncordon ==
  IF Current \in seenCordoned
  THEN /\ cordoned' = cordoned \ {Current}
       /\ mine' = mine \ {Current}
       /\ drained' = drained \ {Current}
       /\ stranded' = stranded \ {Current}
  ELSE /\ stranded' = stranded \cup ({Current} \cap cordoned)
       /\ UNCHANGED <<cordoned, mine, drained>>

(* The wait times out, long after the informers have caught up.            *)
WaitTimesOut ==
  /\ pc = "wait"
  /\ Remaining(Current) # {}
  /\ seenCordoned = cordoned
  /\ Uncordon
  /\ NextCandidate
  /\ UNCHANGED <<nodes, ready, pod, late, seenCordoned, policy, seen, clock, wake, copy, fresh, start,
                 missed, disturbed, left>>

(* A list of the wait fails, at any time.                                  *)
WaitFails ==
  /\ pc = "wait"
  /\ Spend("faults")
  /\ Uncordon
  /\ NextCandidate
  /\ UNCHANGED <<nodes, ready, pod, late, seenCordoned, policy, seen, clock, wake, copy, fresh, start,
                 missed, disturbed>>

(* The wait times out and the uncordon fails, which is only logged.        *)
UncordonFails ==
  /\ pc = "wait"
  /\ Remaining(Current) # {}
  /\ Spend("faults")
  /\ stranded' = stranded \cup ({Current} \cap cordoned)
  /\ NextCandidate
  /\ UNCHANGED <<cluster, seenCordoned, policy, seen, clock, wake, copy, fresh, start,
                 mine, drained, missed, disturbed>>

(* deleteNode: what is still on the node is lost; the pods' controllers    *)
(* make them anew.                                                         *)
DeleteNode ==
  /\ pc = "delete"
  /\ nodes' = nodes \ {Current}
  /\ ready' = ready \ {Current}
  /\ cordoned' = cordoned \ {Current}
  /\ seenCordoned' = seenCordoned \ {Current}
  /\ pod' = [p \in Pods |-> IF p \in On(Current) THEN Unbound ELSE pod[p]]
  /\ home' = [p \in Pods |-> IF p \in On(Current) \ Stable THEN Nowhere ELSE home[p]]
  /\ late' = late \ On(Current)
  /\ missed' = missed \ On(Current)
  /\ mine' = mine \ {Current}
  /\ drained' = drained \ {Current}
  /\ stranded' = stranded \ {Current}
  /\ pc' = "persist"
  /\ UNCHANGED <<policy, seen, clock, wake, copy, fresh, start, queue, disturbed, left>>

DeleteFails ==
  /\ pc = "delete"
  /\ Spend("faults")
  /\ pc' = "persist"
  /\ UNCHANGED <<cluster, seenCordoned, policy, seen, clock, wake, copy, fresh, run, history>>

(* The status with the run in it, at the version read.                     *)
WriteRun ==
  /\ fresh
  /\ policy' = [policy EXCEPT !.lastRun = start]

(* The status write after each drained node, whose failure is only logged: *)
(* it is refused, or it is written and the answer lost, which makes the    *)
(* copy an old one.                                                        *)
Persist ==
  /\ pc = "persist"
  /\ \/ WriteRun /\ UNCHANGED <<fresh, left>>
     \/ ~fresh /\ UNCHANGED <<policy, fresh, left>>
     \/ Spend("faults") /\ UNCHANGED <<policy, fresh>>
     \/ Spend("faults") /\ WriteRun /\ fresh' = FALSE
  /\ NextCandidate
  /\ UNCHANGED <<cluster, seenCordoned, seen, clock, wake, copy, start, history>>

(* The last status write, and the requeue.                                 *)
Finalize ==
  /\ pc = "final"
  /\ WriteRun
  /\ End(NextTick)
  /\ UNCHANGED <<cluster, seenCordoned, seen, clock, mine, drained, stranded, missed, left>>

(* It fails or is not answered, and the policy is retried.                 *)
FinalizeFails ==
  /\ pc = "final"
  /\ \/ ~fresh /\ UNCHANGED <<policy, left>>
     \/ Spend("faults") /\ UNCHANGED policy
     \/ Spend("faults") /\ WriteRun
  /\ End(clock)
  /\ UNCHANGED <<cluster, seenCordoned, seen, clock, mine, drained, stranded, missed>>

(* The operator crashes; when it is back it looks at every policy.  The    *)
(* node it was about stays as it is.                                       *)
Crash ==
  /\ pc # "idle"
  /\ Spend("faults")
  /\ stranded' = IF pc \in {"evict", "wait"} THEN stranded \cup ({Current} \cap cordoned)
                 ELSE stranded
  /\ End(clock)
  /\ UNCHANGED <<cluster, seenCordoned, policy, seen, clock, mine, drained, missed>>

Pass ==
  \/ AddFinalizer \/ RemoveFinalizer \/ Skip \/ StartRun
  \/ Cordon \/ CordonUnanswered \/ CordonFails \/ Evicted
  \/ WaitDone \/ WaitTimesOut \/ WaitFails \/ UncordonFails
  \/ DeleteNode \/ DeleteFails \/ Persist \/ Finalize \/ FinalizeFails \/ Crash
  \/ \E p \in Pods : Evict(p) \/ EvictionRefused(p)

-----------------------------------------------------------------------------
(* The environment.  The scheduler binds a pod to a node that takes pods;  *)
(* the informer shows it there, its kubelet runs it and ends it, and its   *)
(* controller makes it anew.                                               *)
SetPod(p, on, phase) == pod' = [pod EXCEPT ![p] = [on |-> on, phase |-> phase]]

Untouched == <<nodes, ready, cordoned, seenCordoned, policy, seen, clock, wake, pc, copy, fresh,
               start, queue, mine, drained, stranded, disturbed, left>>

Bind(p, n) ==
  /\ pod[p].phase = "unbound"
  /\ n \in ready \ cordoned
  /\ SetPod(p, n, "starting")
  /\ late' = late \cup {p}
  /\ UNCHANGED <<Untouched, home, missed>>

Show(p) ==
  /\ p \in late
  /\ late' = late \ {p}
  /\ UNCHANGED <<Untouched, pod, home, missed>>

Runs(p) ==
  /\ pod[p].phase = "starting"
  /\ p \notin late
  /\ SetPod(p, pod[p].on, "running")
  /\ UNCHANGED <<Untouched, late, home, missed>>

Ends(p) ==
  /\ pod[p].phase = "terminating"
  /\ SetPod(p, Nowhere, "unbound")
  /\ late' = late \ {p}
  /\ missed' = missed \ {p}
  /\ home' = IF p \in Stable THEN home ELSE [home EXCEPT ![p] = Nowhere]
  /\ UNCHANGED Untouched

(* A user cordons or uncordons a node, or its readiness changes.           *)
NodeChange ==
  /\ Spend("changes")
  /\ disturbed' = (pc # "idle")
  /\ UNCHANGED <<nodes, pod, late, seenCordoned, policy, seen, clock, wake, pc, copy, fresh, run, missed>>

UserCordons(n) ==
  /\ NodeChange
  /\ n \in nodes \ cordoned
  /\ cordoned' = cordoned \cup {n}
  /\ UNCHANGED <<ready, mine, drained, stranded>>

UserUncordons(n) ==
  /\ NodeChange
  /\ n \in cordoned
  /\ cordoned' = cordoned \ {n}
  /\ mine' = mine \ {n}
  /\ drained' = drained \ {n}
  /\ stranded' = stranded \ {n}
  /\ UNCHANGED ready

Readiness(n) ==
  /\ NodeChange
  /\ n \in nodes
  /\ ready' = IF n \in ready THEN ready \ {n} ELSE ready \cup {n}
  /\ UNCHANGED <<cordoned, mine, drained, stranded>>

(* A user changes or deletes the policy.                                   *)
PolicyChange(changed) ==
  /\ Spend("changes")
  /\ policy.phase \in {"new", "live"}
  /\ policy' = changed
  /\ fresh' = FALSE
  /\ UNCHANGED <<cluster, seenCordoned, seen, clock, wake, pc, copy, run, history>>

UserChanges == \E spec \in Specs \ {policy.spec} : PolicyChange([policy EXCEPT !.spec = spec])

UserDeletes ==
  PolicyChange([policy EXCEPT !.phase = IF policy.phase = "new" THEN "gone" ELSE "deleting"])

(* A plausible slip: a predicate hides changes of the status.              *)
SyncGeneration ==
  /\ seen # policy
  /\ seen' = policy
  /\ wake' = IF [policy EXCEPT !.lastRun = seen.lastRun] = seen THEN wake ELSE clock
  /\ UNCHANGED <<cluster, seenCordoned, policy, clock, pc, copy, fresh, run, history, left>>

(* The informer shows the policy, which hands it to the work queue: what   *)
(* the controller itself wrote does so too.                                *)
SyncPolicy ==
  /\ seen # policy
  /\ seen' = policy
  /\ wake' = clock
  /\ UNCHANGED <<cluster, seenCordoned, policy, clock, pc, copy, fresh, run, history, left>>

SyncNodes ==
  /\ seenCordoned # cordoned
  /\ seenCordoned' = cordoned
  /\ UNCHANGED <<cluster, policy, seen, clock, wake, pc, copy, fresh, run, history, left>>

(* A minute passes.  No informer is a minute late.  What the work queue    *)
(* has to hand out may wait for any time: one worker serves all policies,  *)
(* and a pass of another one, a restart or a backoff takes minutes.        *)
Minute ==
  /\ clock < Horizon
  /\ seen = policy
  /\ seenCordoned = cordoned
  /\ late = {}
  /\ clock' = clock + 1
  /\ UNCHANGED <<cluster, seenCordoned, policy, seen, wake, pc, copy, fresh, run, history, left>>

Environment ==
  \/ \E p \in Pods : Show(p) \/ Runs(p) \/ Ends(p) \/ \E n \in Nodes : Bind(p, n)
  \/ \E n \in Nodes : UserCordons(n) \/ UserUncordons(n) \/ Readiness(n)
  \/ UserChanges \/ UserDeletes \/ SyncPolicy \/ SyncNodes \/ Minute

-----------------------------------------------------------------------------
(* The operator starts in a cluster with a policy and pods that run.       *)
Init ==
  /\ nodes = Nodes
  /\ ready = Nodes
  /\ cordoned = {}
  /\ seenCordoned = {}
  /\ pod \in [Pods -> [on : Nodes, phase : {"running"}]]
  /\ late = {}
  /\ policy \in [phase : {"new"}, spec : Specs, lastRun : {Never}]
  /\ seen = policy
  /\ clock = 0
  /\ wake = 0
  /\ pc = "idle"
  /\ copy = NoPolicy
  /\ fresh = FALSE
  /\ start = Never
  /\ queue = <<>>
  /\ home = NoHome
  /\ mine = {} /\ drained = {} /\ stranded = {} /\ missed = {}
  /\ disturbed = FALSE
  /\ left = [changes |-> MaxChanges, faults |-> MaxFaults]

Next == Pass \/ Environment

Spec == Init /\ [][Next]_vars

-----------------------------------------------------------------------------
Policy == [phase : {"new", "live", "deleting", "gone"}, spec : Specs, lastRun : 0..Horizon]

Phases == {"unbound", "starting", "running", "terminating"}

TypeOK ==
  /\ nodes \subseteq Nodes
  /\ ready \subseteq nodes
  /\ cordoned \subseteq nodes
  /\ seenCordoned \subseteq nodes
  /\ pod \in [Pods -> [on : nodes \cup {Nowhere}, phase : Phases]]
  /\ late \subseteq Pods
  /\ policy \in Policy
  /\ seen \in Policy
  /\ clock \in 0..Horizon
  /\ wake \in 0..Later
  /\ pc \in {"idle", "cordon", "evict", "wait", "delete", "persist", "final"}
  /\ copy \in Policy
  /\ fresh \in BOOLEAN
  /\ start \in 0..Horizon
  /\ queue \in Seq(Nodes)
  /\ home \in [Pods -> Nodes \cup {Nowhere}]
  /\ mine \subseteq cordoned
  /\ drained \subseteq cordoned
  /\ stranded \subseteq cordoned
  /\ missed \subseteq Pods
  /\ disturbed \in BOOLEAN
  /\ left \in [changes : Nat, faults : Nat]

(* Between runs, every node the policy cordoned is one it drained, or one  *)
(* it left behind when it crashed, could not uncordon it, uncordoned it    *)
(* before the informer showed the cordon, or cordoned it without getting   *)
(* an answer: a cordon that is refused, a drain that times out and a       *)
(* delete that fails leave no node out of use.                             *)
CordonedMeansDrained == pc = "idle" => mine \subseteq drained \cup stranded

(* A node reported as drained has no pod that waitForDrain waits for, and  *)
(* gets none while it stays cordoned, but for pods that had been bound to  *)
(* it and were not shown on it when the wait ended.                        *)
DrainedIsQuiet ==
  \A n \in drained : \A p \in On(n) \cap Awaited : Alive(p) => p \in missed

(* The run drains each node once, and none that is not there but for the   *)
(* one it has just deleted.                                                *)
QueueIsSound ==
  /\ queue = <<>> <=> pc \in {"idle", "final"}
  /\ \A i, j \in 1..Len(queue) : queue[i] = queue[j] => i = j
  /\ \A i \in 1..Len(queue) : i > 1 \/ pc # "persist" => queue[i] \in nodes

(* What the policy cordoned is drained or left behind, but for the node it *)
(* is about.                                                               *)
CordonedIsCurrent ==
  \A n \in mine \ (drained \cup stranded) : pc \in {"evict", "wait"} /\ n = Current

(* The node that is being drained takes no pods.                           *)
CurrentIsCordoned ==
  pc \in {"evict", "wait", "delete"} /\ ~disturbed => Current \in cordoned

(* A pod still to evict is where the analysis saw it, unless its name came *)
(* back elsewhere.                                                         *)
HomeIsHere ==
  \A p \in Pods :
    /\ home[p] # Nowhere /\ p \notin Stable => pod[p].on = home[p]
    /\ pod[p].phase = "unbound" <=> pod[p].on = Nowhere

(* Of the nodes that take pods there are enough for the candidates still   *)
(* to cordon.                                                              *)
ToCordon == IF pc = "cordon" THEN Len(queue) ELSE Len(queue) - 1

ReadyIsLeft ==
  queue # <<>> /\ ~disturbed => Cardinality(ready \ cordoned) >= copy.spec.minReady + ToCordon

(* What the controller has yet to see of its run will hand the policy out  *)
(* again; when the informer shows all of it, the policy comes back no      *)
(* later than the next tick, and at once if it missed one.                 *)
RunIsShown == pc # "idle" /\ seen.lastRun = start => wake <= clock

ComesBack ==
  pc = "idle" /\ seen.lastRun = policy.lastRun /\ seen.phase = "live" /\ ~seen.spec.suspend =>
    /\ \A t \in DueTicks : t - 1 \notin Ticks => seen.lastRun >= t \/ wake <= clock
    /\ \A t \in Ticks : t > clock => wake <= t

IInv ==
  /\ TypeOK /\ CordonedMeansDrained /\ DrainedIsQuiet
  /\ QueueIsSound /\ CordonedIsCurrent /\ CurrentIsCordoned /\ HomeIsHere /\ ReadyIsLeft
  /\ RunIsShown /\ ComesBack

(* minReadyNodes: the cordons of a run leave that many ready nodes that    *)
(* take pods, unless somebody else changed nodes since the analysis or the *)
(* informer was behind it, whatever failed in between.                     *)
KeepsMinReady ==
  [][CordonNode /\ ~disturbed => Cardinality(ready \ cordoned') >= copy.spec.minReady]_vars

(* A pod is evicted from a node that takes no pods, so that it does not    *)
(* come back to it, unless it has moved under its name or somebody else    *)
(* uncordoned the node.                                                    *)
EvictsFromCordoned ==
  [][\A p \in Pods :
       Alive(p) /\ pod'[p].phase = "terminating" =>
         pod[p].on \in cordoned \/ p \in Stable \/ disturbed]_vars

(* A policy that is there and not suspended and at the end of a minute is  *)
(* neither in a run nor waiting for the worker has run for each tick of    *)
(* that minute and the last, but for a tick one minute after another: a    *)
(* run that lasted into the minute after a tick, a status write that       *)
(* failed and a crash have been made up for by then.  A tick is lost only  *)
(* if the policy is in a run or in the queue at the end of its minute and  *)
(* of the next one, when the code no longer looks back to it.              *)
TicksAreRun ==
  [][clock' # clock /\ pc = "idle" /\ clock < wake /\ policy.phase = "live" /\ ~policy.spec.suspend =>
       \A t \in DueTicks : t - 1 \notin Ticks => policy.lastRun >= t]_vars

(* "waitForDrain polls until all non-DaemonSet pods are gone from the node *)
(* or timeout": a node that is deleted had none left.                      *)
DrainedIsEmpty ==
  [][\A n \in nodes \ nodes' : On(n) \cap Awaited = {}]_vars
=============================================================================
