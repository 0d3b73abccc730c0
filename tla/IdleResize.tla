----------------------------- MODULE IdleResize -----------------------------
(***************************************************************************)
(* The IdleDetector controller with the actions "alert" and "resize": it   *)
(* lowers the requests of the pods of workloads that are idle, records     *)
(* what they were in its status, and writes them back when the workload is *)
(* busy again or the detector is deleted.                                  *)
(*                                                                         *)
(* One resource is modelled, for CPU and memory are treated alike.  One    *)
(* action is one call that matters: the check of all workloads, the patch  *)
(* of a pod, a write of the detector.  Pods are read from the informer and *)
(* a patch is the difference to the informer's copy, without a version.    *)
(* How old an idle entry is, which IdleScale keeps, is left to chance: an  *)
(* entry that an earlier check made may be old enough.                     *)
(***************************************************************************)
EXTENDS Integers, Functions, FiniteSetsExt

CONSTANTS
  Workloads,          \* the Deployments and StatefulSets that are watched
  Pods,               \* their pods,
  WorkloadOf,         \*   and the workload of each
  NumContainers,      \* the containers of every pod
  Requests,           \* what the template of a workload may request:
                      \*   a value for each container
  Usages,             \* what a pod may use
  Threshold,          \* spec.thresholds, a percentage of the requests
  BufferPercent,      \* spec.resize.bufferPercent
  MinRequest,         \* spec.resize.minRequests
  MaxEdits,           \* bounds: edits and deletions of workloads, new pods,
  MaxFlips,           \*         changes of the usage of workloads,
  MaxFaults,          \*         calls that fail and crashes,
  MaxChanges          \*         changes of the detector by users

Containers == 1..NumContainers

ASSUME ConstantsAssumption ==
  /\ WorkloadOf \in [Pods -> Workloads]
  /\ NumContainers \in Nat \ {0}
  /\ Requests \subseteq [Containers -> Nat \ {0}]
  /\ Usages \subseteq Nat
  /\ {Threshold, BufferPercent, MinRequest} \subseteq Nat
  /\ {MaxEdits, MaxFlips, MaxFaults, MaxChanges} \subseteq Nat

VARIABLES
  template,           \* the requests in the template of each workload
  request,            \* the requests of each pod
  seen,               \* the informer's copy of them
  usage,              \* what each pod of a workload uses
  present,            \* the workloads that have not been deleted
  detector,           \* the detector in the API server
  cache,              \* the operator's (informer's) copy of it
  pc,                 \* where the reconcile loop stands
  obj,                \* the loop's own copy of the detector
  fresh,              \* the loop's copy is at the API server's version
  todo,               \* the workloads the current phase has still to visit
  job,                \* the workload whose pods are being patched
  lost,               \* history: the workloads resized without a record or
                      \*   with one of an old copy, edited while there was
                      \*   one, or whose record was dropped with a pod
  overlooked,         \*   that the pass took for restored and was not
  left                \* what is left of each bound

cluster == <<template, request, seen, usage, present>>
history == <<lost, overlooked>>
vars == <<cluster, detector, cache, pc, obj, fresh, todo, job, history, left>>

-----------------------------------------------------------------------------
PodsOf(w) == {p \in Pods : WorkloadOf[p] = w}

All(value) == [c \in Containers |-> value]

(* An entry of status.resizedWorkloads.                                    *)
Resized(w, value) == [name |-> w, original |-> value]

Names(entries) == {e.name : e \in entries}

NewDetector == [exists |-> TRUE, deleting |-> FALSE, finalizer |-> FALSE,
                action |-> "resize", idle |-> {}, resized |-> {}]

Gone == [NewDetector EXCEPT !.exists = FALSE]

(* What is to be written to the pods of a workload, the pods still to be   *)
(* patched, and whether one has been; history: whether one may have been   *)
(* that did not answer, and whether the entry is from an old copy.         *)
Job(entry, target, pods) ==
  [entry |-> entry, target |-> target, pods |-> pods, patched |-> FALSE,
   unsure |-> FALSE, old |-> FALSE]

NoJob == Job(Resized("none", 0), 0, {})

Spend(bound) ==
  /\ left[bound] > 0
  /\ left' = [left EXCEPT ![bound] = @ - 1]

(* A workload whose pods were patched and whose entry is yet to be written.*)
Patched == IF pc = "resize" /\ (job.patched \/ job.unsure) THEN {job.entry.name} ELSE {}

Unrecorded == Patched \ Names(detector.resized)

(* The loop ends; what it has not written is lost, and so is what it has   *)
(* dropped.                                                                *)
End(dropped) ==
  /\ pc' = "idle"
  /\ obj' = NewDetector
  /\ fresh' = FALSE
  /\ todo' = {}
  /\ job' = NoJob
  /\ lost' = lost \cup Unrecorded \cup dropped
  /\ overlooked' = {}

-----------------------------------------------------------------------------
(* Usage below the threshold, a percentage of what the pods are seen to    *)
(* request (IdleUsage has the rule for two resources).                     *)
IsIdle(w) ==
  Cardinality(PodsOf(w)) * usage[w] * 100
    < Threshold * SumFunction([p \in PodsOf(w) |-> SumFunction(seen[p])])

(* What is recorded of the first pod: every container overwrites the value *)
(* of the one before, so it is that of the last.                           *)
Captured(p) == seen[p][NumContainers]

(* The usage with its headroom, not below the floor and capped at the      *)
(* original.                                                               *)
Target(w, original) ==
  Min({original, Max({MinRequest, (usage[w] * (100 + BufferPercent)) \div 100})})

-----------------------------------------------------------------------------
(* Reconcile: the read of the detector and the choice of a branch.         *)
Begin(at, names) ==
  /\ pc = "idle"
  /\ cache.exists
  /\ pc' = at
  /\ obj' = cache
  /\ fresh' = (cache = detector)
  /\ todo' = names
  /\ UNCHANGED <<cluster, detector, cache, job, history, left>>

StartDeletion == cache.deleting /\ Begin("undo", Names(cache.resized))

StartCheck == ~cache.deleting /\ Begin("check", {})

(* The finalizer is written before anything is looked at.                  *)
AddFinalizer ==
  /\ pc = "check"
  /\ ~obj.finalizer
  /\ fresh
  /\ obj' = [obj EXCEPT !.finalizer = TRUE]
  /\ detector' = obj'
  /\ UNCHANGED <<cluster, cache, pc, fresh, todo, job, history, left>>

(* detectIdleWorkloads: the workloads that are idle, and of those the ones *)
(* (ripe) that have been so for spec.idleDuration.  The pods or metrics of *)
(* a workload (missed) cannot be read, which counts as busy.               *)
Detect ==
  /\ pc = "check"
  /\ obj.finalizer
  /\ \E missed \in {{}} \cup {{w} : w \in Workloads} :
       LET idle == {w \in present \ missed : IsIdle(w)}
       IN  /\ IF missed = {} THEN UNCHANGED left ELSE Spend("faults")
           /\ obj' = [obj EXCEPT !.idle = idle]
           /\ IF obj.action = "resize"
                THEN /\ pc' = "resize"
                     /\ \E ripe \in SUBSET (idle \cap obj.idle) :
                          todo' = ripe \ Names(obj.resized)
                ELSE pc' = "report" /\ UNCHANGED todo
  /\ UNCHANGED <<cluster, detector, cache, fresh, job, history>>

-----------------------------------------------------------------------------
(* resizeIdleWorkloads, of one workload: the original is read from one of  *)
(* its pods, the first of the list, and the target computed from the usage *)
(* there is now.                                                           *)
ResizeWorkload(w) ==
  /\ pc = "resize"
  /\ job = NoJob
  /\ w \in todo
  /\ w \in present
  /\ todo' = todo \ {w}
  /\ \E first \in PodsOf(w) :
       LET original == Captured(first)
           target == Target(w, original)
           pods == {p \in PodsOf(w) : \E c \in Containers : target < seen[p][c]}
           new == Job(Resized(w, original), target, pods)
       IN  job' = IF pods = {} THEN NoJob ELSE [new EXCEPT !.old = seen[first] # request[first]]
  /\ UNCHANGED <<cluster, detector, cache, pc, obj, fresh, history, left>>

(* It is gone, or its pods or metrics cannot be read.                      *)
ResizeFails(w) ==
  /\ pc = "resize"
  /\ job = NoJob
  /\ w \in todo
  /\ IF w \in present THEN Spend("faults") ELSE UNCHANGED left
  /\ todo' = todo \ {w}
  /\ UNCHANGED <<cluster, detector, cache, pc, obj, fresh, job, history>>

(* Every container is given the target.                                    *)
ResizePod(p) ==
  /\ pc = "resize"
  /\ p \in job.pods
  /\ request' = [request EXCEPT ![p] = All(job.target)]
  /\ job' = [job EXCEPT !.pods = @ \ {p}, !.patched = TRUE]
  /\ UNCHANGED <<template, seen, usage, present, detector, cache, pc, obj, fresh, todo, history, left>>

(* The patch is refused: the error is logged.                              *)
ResizePodFails(p) ==
  /\ pc = "resize"
  /\ p \in job.pods
  /\ Spend("faults")
  /\ job' = [job EXCEPT !.pods = @ \ {p}]
  /\ UNCHANGED <<cluster, detector, cache, pc, obj, fresh, todo, history>>

(* It is applied and the answer lost, which is logged as well: the pod is  *)
(* not counted.                                                            *)
ResizePodUnanswered(p) ==
  /\ pc = "resize"
  /\ p \in job.pods
  /\ Spend("faults")
  /\ request' = [request EXCEPT ![p] = All(job.target)]
  /\ job' = [job EXCEPT !.pods = @ \ {p}, !.unsure = TRUE]
  /\ UNCHANGED <<template, seen, usage, present, detector, cache, pc, obj, fresh, todo, history>>

(* No pod is known to be patched: nothing is recorded.                     *)
NothingResized ==
  /\ pc = "resize"
  /\ job # NoJob /\ job.pods = {} /\ ~job.patched
  /\ job' = NoJob
  /\ lost' = lost \cup Unrecorded
  /\ UNCHANGED <<cluster, detector, cache, pc, obj, fresh, todo, overlooked, left>>

(* A plausible slip: recorded only if all pods were patched.               *)
RecordWhole ==
  IF \A p \in PodsOf(job.entry.name) : request[p] = All(job.target)
    THEN obj.resized \cup {job.entry} ELSE obj.resized

(* The status with the new entry, which may then be appended.              *)
Recorded == obj.resized \cup {job.entry}

(* The status is written after every workload that was resized.            *)
PersistResize ==
  /\ pc = "resize"
  /\ job.patched /\ job.pods = {}
  /\ fresh
  /\ obj' = [obj EXCEPT !.resized = Recorded]
  /\ detector' = obj'
  /\ job' = NoJob
  /\ lost' = IF job.old THEN lost \cup {job.entry.name} ELSE lost
  /\ UNCHANGED <<cluster, cache, pc, fresh, todo, overlooked, left>>

-----------------------------------------------------------------------------
(* restoreNoLongerIdleResizedWorkloads: the entries that are not idle.     *)
StartRestore ==
  /\ pc = "resize"
  /\ job = NoJob
  /\ todo = {}
  /\ pc' = "restore"
  /\ todo' = Names(obj.resized) \ obj.idle
  /\ UNCHANGED <<cluster, detector, cache, obj, fresh, job, history, left>>

(* restorePodRequests, in both phases that call it.  Without pods there is *)
(* nothing to do, and the entry is dropped.                                *)
RestoreWorkload(e) ==
  /\ pc \in {"restore", "undo"}
  /\ job = NoJob
  /\ e \in obj.resized /\ e.name \in todo
  /\ e.name \in present
  /\ todo' = todo \ {e.name}
  /\ IF PodsOf(e.name) = {}
       THEN obj' = [obj EXCEPT !.resized = @ \ {e}] /\ UNCHANGED job
       ELSE job' = Job(e, e.original, PodsOf(e.name)) /\ UNCHANGED obj
  /\ UNCHANGED <<cluster, detector, cache, pc, fresh, history, left>>

(* It cannot be read, for one because it is gone: the entry stays.         *)
RestoreFails(e) ==
  /\ pc \in {"restore", "undo"}
  /\ job = NoJob
  /\ e \in obj.resized /\ e.name \in todo
  /\ IF e.name \in present THEN Spend("faults") ELSE UNCHANGED left
  /\ todo' = todo \ {e.name}
  /\ UNCHANGED <<cluster, detector, cache, pc, obj, fresh, job, history>>

(* Every container is given the recorded request.  Where the informer's    *)
(* copy of the pod shows that, the patch is empty.                         *)
PatchPod(p) ==
  request' = IF seen[p] = All(job.target) THEN request
             ELSE [request EXCEPT ![p] = All(job.target)]

(* The pod counts as restored, without a look at it.                       *)
RestoredPod(p) ==
  /\ pc \in {"restore", "undo"}
  /\ p \in job.pods
  /\ PatchPod(p)
  /\ overlooked' = IF request'[p] = All(job.target) THEN overlooked ELSE overlooked \cup {p}
  /\ job' = IF job.pods = {p} THEN NoJob ELSE [job EXCEPT !.pods = @ \ {p}]
  /\ UNCHANGED <<template, seen, usage, present, detector, cache, pc, fresh, todo, lost, left>>

(* A plausible slip: a restored entry counts as one that remains.          *)
RestorePodAndKeep(p) == RestoredPod(p) /\ UNCHANGED obj

(* With the last pod the entry is dropped.                                 *)
RestorePod(p) ==
  /\ RestoredPod(p)
  /\ obj' = IF job.pods = {p} THEN [obj EXCEPT !.resized = @ \ {job.entry}] ELSE obj

(* A plausible slip: the error is logged and the entry dropped.            *)
RestorePodSkips(p) ==
  /\ pc \in {"restore", "undo"}
  /\ p \in job.pods
  /\ Spend("faults")
  /\ job' = IF job.pods = {p} THEN NoJob ELSE [job EXCEPT !.pods = @ \ {p}]
  /\ obj' = IF job.pods = {p} THEN [obj EXCEPT !.resized = @ \ {job.entry}] ELSE obj
  /\ UNCHANGED <<cluster, detector, cache, pc, fresh, todo, history>>

(* A patch is refused, or applied and the answer lost: the other pods are  *)
(* passed over, the entry stays.                                           *)
RestorePodFails(p) ==
  /\ pc \in {"restore", "undo"}
  /\ p \in job.pods
  /\ Spend("faults")
  /\ UNCHANGED request \/ PatchPod(p)
  /\ job' = NoJob
  /\ UNCHANGED <<template, seen, usage, present, detector, cache, pc, obj, fresh, todo, history>>

-----------------------------------------------------------------------------
(* The workloads with a pod that was not restored and no entry any more.   *)
Dropped == {WorkloadOf[p] : p \in overlooked} \ Names(obj.resized)

(* All workloads have been visited and a write of the detector is next.    *)
AtWrite ==
  \/ pc = "check" /\ ~obj.finalizer
  \/ pc = "resize" /\ job.patched /\ job.pods = {}
  \/ pc = "report"
  \/ pc \in {"restore", "undo"} /\ todo = {} /\ job = NoJob

(* The status write at the end, and of a deletion that is not complete.    *)
(* (After "resize" it is written twice, the second time unchanged.)        *)
Report ==
  /\ pc \in {"restore", "report", "undo"}
  /\ AtWrite
  /\ fresh
  /\ pc = "undo" => obj.resized # {}
  /\ detector' = obj
  /\ End(Dropped)
  /\ UNCHANGED <<cluster, cache, left>>

(* The finalizer is removed, and the detector with it.                     *)
Release ==
  /\ pc = "undo"
  /\ AtWrite
  /\ fresh
  /\ obj.resized = {}
  /\ detector' = Gone
  /\ End(Dropped)
  /\ UNCHANGED <<cluster, cache, left>>

(* A write at an old version is refused; a second attempt, which the error *)
(* paths make, is too.                                                     *)
WriteRefused ==
  /\ AtWrite
  /\ ~fresh
  /\ End({})
  /\ UNCHANGED <<cluster, detector, cache, left>>

(* Any error that ends the loop, or a crash; a write that is applied and   *)
(* not answered is that write, and then this.                              *)
Abort ==
  /\ pc # "idle"
  /\ Spend("faults")
  /\ End({})
  /\ UNCHANGED <<cluster, detector, cache>>

-----------------------------------------------------------------------------
(* The environment.  A new template is rolled out to all pods at once.     *)
Held(w) ==
  w \in Names(detector.resized) \cup Names(cache.resized) \cup Names(obj.resized)
        \cup {job.entry.name}

Environment == <<detector, cache, pc, obj, fresh, todo, job>>

EditWorkload(w) ==
  /\ Spend("edits")
  /\ w \in present
  /\ \E r \in Requests \ {template[w]} :
       /\ template' = [template EXCEPT ![w] = r]
       /\ request' = [p \in Pods |-> IF p \in PodsOf(w) THEN r ELSE request[p]]
  /\ lost' = IF Held(w) THEN lost \cup {w} ELSE lost
  /\ UNCHANGED <<seen, usage, present, overlooked, Environment>>

(* A pod is replaced: the new one has the requests of the template.        *)
ReplacePod(p) ==
  /\ Spend("edits")
  /\ request[p] # template[WorkloadOf[p]]
  /\ request' = [request EXCEPT ![p] = template[WorkloadOf[p]]]
  /\ overlooked' = overlooked \ {p}
  /\ UNCHANGED <<template, seen, usage, present, lost, Environment>>

DeleteWorkload(w) ==
  /\ Spend("edits")
  /\ w \in present
  /\ present' = present \ {w}
  /\ UNCHANGED <<template, request, seen, usage, history, Environment>>

ChangeUsage(w) ==
  /\ Spend("flips")
  /\ \E u \in Usages \ {usage[w]} : usage' = [usage EXCEPT ![w] = u]
  /\ UNCHANGED <<template, request, seen, present, history, Environment>>

ChangeAction ==
  /\ Spend("changes")
  /\ detector.exists
  /\ detector' = [detector EXCEPT !.action = IF @ = "resize" THEN "alert" ELSE "resize"]
  /\ fresh' = FALSE
  /\ UNCHANGED <<cluster, cache, pc, obj, todo, job, history>>

DeleteDetector ==
  /\ Spend("changes")
  /\ detector.exists /\ ~detector.deleting
  /\ detector' = IF detector.finalizer THEN [detector EXCEPT !.deleting = TRUE] ELSE Gone
  /\ fresh' = FALSE
  /\ UNCHANGED <<cluster, cache, pc, obj, todo, job, history>>

SyncPod(p) ==
  /\ seen[p] # request[p]
  /\ seen' = [seen EXCEPT ![p] = request[p]]
  /\ UNCHANGED <<template, request, usage, present, detector, cache, pc, obj, fresh, todo, job,
                 history, left>>

Sync ==
  /\ cache # detector
  /\ cache' = detector
  /\ UNCHANGED <<cluster, detector, pc, obj, fresh, todo, job, history, left>>

-----------------------------------------------------------------------------
Init ==
  /\ template \in [Workloads -> Requests]
  /\ request = [p \in Pods |-> template[WorkloadOf[p]]]
  /\ seen = request
  /\ usage \in [Workloads -> Usages]
  /\ present = Workloads
  /\ detector = NewDetector
  /\ cache = NewDetector
  /\ pc = "idle"
  /\ obj = NewDetector
  /\ fresh = FALSE
  /\ todo = {}
  /\ job = NoJob
  /\ lost = {} /\ overlooked = {}
  /\ left = [edits |-> MaxEdits, flips |-> MaxFlips, faults |-> MaxFaults,
             changes |-> MaxChanges]

Start == StartDeletion \/ StartCheck

Step ==
  \/ AddFinalizer \/ Detect \/ NothingResized \/ PersistResize \/ StartRestore
  \/ Report \/ Release \/ WriteRefused
  \/ \E w \in Workloads : ResizeWorkload(w) \/ ResizeFails(w)
  \/ \E p \in Pods : ResizePod(p) \/ RestorePod(p)
  \/ \E e \in obj.resized : RestoreWorkload(e) \/ RestoreFails(e)

Fault ==
  \/ Abort
  \/ \E p \in Pods : ResizePodFails(p) \/ ResizePodUnanswered(p) \/ RestorePodFails(p)

User ==
  \/ ChangeAction \/ DeleteDetector
  \/ \E w \in Workloads : EditWorkload(w) \/ DeleteWorkload(w) \/ ChangeUsage(w)
  \/ \E p \in Pods : ReplacePod(p)

Informer == Sync \/ \E p \in Pods : SyncPod(p)

Next == Start \/ Step \/ Fault \/ User \/ Informer

Spec == Init /\ [][Next]_vars

(* The informer delivers each object, a key that failed or whose interval  *)
(* has passed is reconciled again, and a loop that runs goes on.           *)
Fairness ==
  /\ WF_vars(Sync) /\ WF_vars(Start) /\ WF_vars(Step)
  /\ \A p \in Pods : WF_vars(SyncPod(p))

FairSpec == Spec /\ Fairness

-----------------------------------------------------------------------------
Entries == [name : Workloads, original : Nat]

Detectors == [exists : BOOLEAN, deleting : BOOLEAN, finalizer : BOOLEAN,
              action : {"alert", "resize"}, idle : SUBSET Workloads,
              resized : SUBSET Entries]

TypeOK ==
  /\ template \in [Workloads -> Requests]
  /\ request \in [Pods -> [Containers -> Nat]]
  /\ seen \in [Pods -> [Containers -> Nat]]
  /\ usage \in [Workloads -> Usages]
  /\ present \subseteq Workloads
  /\ detector \in Detectors
  /\ cache \in Detectors
  /\ pc \in {"idle", "check", "resize", "restore", "undo", "report"}
  /\ obj \in Detectors
  /\ fresh \in BOOLEAN
  /\ todo \subseteq Workloads
  /\ job = NoJob \/ job \in [entry : Entries, target : Nat, pods : SUBSET Pods,
                             patched : BOOLEAN, unsure : BOOLEAN, old : BOOLEAN]
  /\ lost \subseteq Workloads
  /\ overlooked \subseteq Pods
  /\ left \in [{"edits", "flips", "faults", "changes"} -> Nat]

(* A pod is off its template only while the status in the API server or    *)
(* the job in hand holds what it requested before, unless the record was   *)
(* lost; so a detector that is gone leaves no pod behind.  It is lost when *)
(* the pods are patched and the status cannot be written, when no patch of *)
(* a workload is answered, when the template changes, and when a record is *)
(* made or a pod taken for restored from an old copy of the pod, and in no *)
(* other way.                                                              *)
ReducedIsRecorded ==
  \A p \in Pods :
    LET w == WorkloadOf[p]
    IN  request[p] # template[w] => w \in lost \cup Names(detector.resized) \cup Patched

(* What is recorded of a workload, in any copy of the status, is what its  *)
(* template requests, also when it was recorded again after a conflict or  *)
(* from an old copy.                                                       *)
EntriesAreExact ==
  \A d \in {detector, cache, obj} : \A e \in d.resized :
    e.name \notin lost => All(e.original) = template[e.name]

(* Why they hold.  The loop's copy is the detector, but for what is being  *)
(* restored, as long as its version is.                                    *)
FreshCopy ==
  /\ pc = "idle" => ~fresh /\ obj.resized = {}
  /\ fresh => obj.resized \subseteq detector.resized
  /\ fresh /\ pc \in {"check", "resize", "report"} => obj.resized = detector.resized
  /\ pc = "resize" => todo \cap Names(obj.resized) = {}

(* The detector cannot go while there are entries.                         *)
FinalizerHolds ==
  /\ \A d \in {detector, cache, obj} : d.resized # {} => d.finalizer
  /\ pc \in {"resize", "restore", "report"} => obj.finalizer

(* What is about to be recorded is as exact as what is.                    *)
JobIsExact ==
  /\ pc \notin {"resize", "restore", "undo"} => job = NoJob
  /\ job # NoJob =>
       /\ job.entry \in Entries
       /\ job.entry.name \notin todo
       /\ job.pods \subseteq PodsOf(job.entry.name)
       /\ fresh /\ ~job.old /\ job.entry.name \notin lost => All(job.entry.original) = template[job.entry.name]

(* A pod that has been visited has its requests back, unless the informer  *)
(* showed them too early; so have all pods of a workload whose entry was   *)
(* dropped.                                                                *)
RestoredIsWhole ==
  pc \in {"restore", "undo"} =>
    /\ job # NoJob =>
         /\ job.entry \in obj.resized
         /\ job.target = job.entry.original
         /\ job.pods # {}
         /\ job.entry.name \notin lost =>
              \A p \in PodsOf(job.entry.name) \ (job.pods \cup overlooked) : request[p] = template[job.entry.name]
    /\ fresh =>
         \A w \in Names(detector.resized) \ (Names(obj.resized) \cup lost) :
           \A p \in PodsOf(w) \ overlooked : request[p] = template[w]

IInv ==
  /\ TypeOK
  /\ ReducedIsRecorded
  /\ EntriesAreExact
  /\ FreshCopy
  /\ FinalizerHolds
  /\ JobIsExact
  /\ RestoredIsWhole

(* All containers of a pod request the same.  If not, the entry holds what *)
(* the last of them requests, and CapAtOriginal shows what comes of it.    *)
Uniform == \A r \in Requests : r = All(r[NumContainers])

(* The comment in resizeIdleWorkloads: "Cap: never increase beyond         *)
(* original requests".                                                     *)
CapAtOriginal ==
  \A p \in Pods, c \in Containers :
    WorkloadOf[p] \notin lost => request[p][c] <= template[WorkloadOf[p]][c]

Watched == detector.exists /\ ~detector.deleting /\ detector.action = "resize"

Busy(w) == IF w \in present THEN ~IsIdle(w) ELSE FALSE

(* The pods of a workload that is busy from some time on get their         *)
(* requests back, whatever failed before, unless its record was lost.      *)
BusyIsRestored ==
  \A w \in Workloads :
    <>[](Watched /\ Busy(w)) =>
      <>[](\/ w \in lost
           \/ \A p \in PodsOf(w) : request[p] = template[w])

(* A detector that is deleted goes, unless a workload it has resized went  *)
(* before it: its entry can never be restored.                             *)
DeletionEnds ==
  detector.deleting ~> \/ ~detector.exists
                       \/ \E w \in Names(detector.resized) : w \notin present

=============================================================================
