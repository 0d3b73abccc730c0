-------------------------- MODULE IdleResizeProofs --------------------------
(***************************************************************************)
(* IdleResize, for any workloads, pods, requests, thresholds and bounds:   *)
(* IInv, provided the containers of a pod request the same.                *)
(***************************************************************************)
EXTENDS IdleResize, TLAPS

Detail == [entry : Entries, target : Nat, pods : SUBSET Pods,
           patched : BOOLEAN, unsure : BOOLEAN, old : BOOLEAN]

Bounds == {"edits", "flips", "faults", "changes"}

LEMMA NewDetectorFacts ==
  /\ NewDetector \in Detectors /\ NewDetector.resized = {} /\ ~NewDetector.deleting
  /\ Gone \in Detectors /\ Gone.resized = {}
  BY DEF NewDetector, Gone, Detectors

LEMMA NoJobFacts ==
  ~NoJob.patched /\ ~NoJob.unsure /\ NoJob.pods = {}
  BY DEF NoJob, Job

LEMMA PodFacts ==
  ASSUME NEW w \in Workloads
  PROVE  PodsOf(w) \subseteq Pods /\ \A p \in PodsOf(w) : WorkloadOf[p] = w
  BY DEF PodsOf

LEMMA TargetType ==
  ASSUME TypeOK, NEW w \in Workloads, NEW original \in Nat
  PROVE  Target(w, original) \in Nat
  <1> DEFINE headroom == (usage[w] * (100 + BufferPercent)) \div 100
             low == Max({MinRequest, headroom})
  <1>1. usage[w] \in Nat /\ BufferPercent \in Nat /\ MinRequest \in Nat
    BY ConstantsAssumption DEF TypeOK
  <1>2. headroom \in Nat
    <2>1. usage[w] * (100 + BufferPercent) \in Nat
      BY <1>1
    <2> DEFINE product == usage[w] * (100 + BufferPercent)
    <2> HIDE DEF product
    <2>2. product \in Nat => product \div 100 \in Nat
      OBVIOUS
    <2>3. QED
      BY <2>1, <2>2 DEF product
  <1> HIDE DEF headroom
  <1>3. \A a, b \in Nat : Max({a, b}) \in Nat /\ Min({a, b}) \in Nat
    <2> TAKE a, b \in Nat
    <2>1. CASE a <= b
      <3>1. Max({a, b}) \in {a, b} /\ Min({a, b}) \in {a, b}
        BY <2>1 DEF Max, Min
      <3>2. QED
        BY <3>1
    <2>2. CASE b <= a
      <3>1. Max({a, b}) \in {a, b} /\ Min({a, b}) \in {a, b}
        BY <2>2 DEF Max, Min
      <3>2. QED
        BY <3>1
    <2>3. QED
      BY <2>1, <2>2
  <1>4. low \in Nat
    BY <1>1, <1>2, <1>3
  <1> HIDE DEF low
  <1>5. Min({original, low}) \in Nat
    BY <1>3, <1>4
  <1>6. QED
    BY <1>5 DEF Target, low, headroom

LEMMA CapturedType ==
  ASSUME TypeOK, NEW p \in Pods
  PROVE  Captured(p) \in Nat
  BY ConstantsAssumption DEF TypeOK, Captured, Containers

LEMMA AllType ==
  ASSUME NEW v \in Nat
  PROVE  All(v) \in [Containers -> Nat]
  BY DEF All

LEMMA TemplateType ==
  ASSUME TypeOK, NEW w \in Workloads
  PROVE  template[w] \in Requests /\ template[w] \in [Containers -> Nat]
  BY ConstantsAssumption DEF TypeOK

LEMMA SpendType ==
  ASSUME TypeOK, NEW bound \in Bounds, Spend(bound)
  PROVE  left' \in [Bounds -> Nat]
  BY DEF TypeOK, Spend, Bounds

-----------------------------------------------------------------------------
(* Types.                                                                  *)
LEMMA JobType ==
  ASSUME TypeOK, JobIsExact, job # NoJob
  PROVE  job \in Detail /\ job.entry.name \in Workloads /\ job.entry.original \in Nat
  BY DEF TypeOK, JobIsExact, Detail, Entries

LEMMA StartTypes ==
  ASSUME TypeOK, Start
  PROVE  TypeOK'
  <1>1. Names(cache.resized) \subseteq Workloads
    BY DEF TypeOK, Names, Detectors, Entries
  <1>2. QED
    BY <1>1 DEF Start, StartDeletion, StartCheck, Begin, TypeOK, cluster, history

LEMMA UnrecordedType ==
  ASSUME TypeOK, JobIsExact
  PROVE  Unrecorded \subseteq Workloads /\ Dropped \subseteq Workloads
  <1>1. Patched \subseteq Workloads
    BY JobType, NoJobFacts DEF Patched
  <1>2. {WorkloadOf[p] : p \in overlooked} \subseteq Workloads
    BY ConstantsAssumption DEF TypeOK
  <1>3. QED
    BY <1>1, <1>2 DEF Unrecorded, Dropped

LEMMA EndTypes ==
  ASSUME TypeOK, JobIsExact, End({}) \/ End(Dropped)
  PROVE  /\ pc' = "idle" /\ obj' \in Detectors /\ fresh' \in BOOLEAN /\ todo' \subseteq Workloads
         /\ job' = NoJob /\ lost' \subseteq Workloads /\ overlooked' \subseteq Pods
  BY UnrecordedType, NewDetectorFacts DEF End, TypeOK

LEMMA StepTypes ==
  ASSUME TypeOK, JobIsExact, Step
  PROVE  TypeOK'
  <1>0. obj \in Detectors /\ detector \in Detectors /\ todo \subseteq Workloads
    BY DEF TypeOK
  <1>1. CASE AddFinalizer
    <2>1. obj' \in Detectors
      BY <1>1 DEF AddFinalizer, TypeOK, Detectors
    <2>2. QED
      BY <1>1, <2>1 DEF AddFinalizer, TypeOK, cluster, history
  <1>2. CASE Detect
    <2>1. left' \in [Bounds -> Nat]
      BY <1>2, SpendType DEF Detect, Bounds, TypeOK
    <2>2. obj' \in Detectors /\ todo' \subseteq Workloads /\ pc' \in {"resize", "report"}
      <3>1. /\ obj' = [obj EXCEPT !.idle = obj'.idle] /\ obj'.idle \subseteq Workloads
            /\ todo' \subseteq Workloads /\ pc' \in {"resize", "report"}
        BY <1>0, <1>2 DEF Detect, Detectors, TypeOK
      <3>2. QED
        BY <1>0, <3>1 DEF Detectors
    <2>3. UNCHANGED <<cluster, detector, cache, fresh, job, history>>
      BY <1>2 DEF Detect
    <2>4. QED
      BY <2>1, <2>2, <2>3 DEF TypeOK, cluster, history, Bounds
  <1>3. CASE NothingResized
    BY <1>3, UnrecordedType DEF NothingResized, TypeOK, cluster
  <1>4. CASE PersistResize
    <2>1. job # NoJob
      BY <1>4, NoJobFacts DEF PersistResize
    <2>2. obj' \in Detectors
      BY <1>4, <2>1, JobType DEF PersistResize, Recorded, TypeOK, Detectors, Detail
    <2>3. lost' \subseteq Workloads
      BY <1>4, <2>1, JobType DEF PersistResize, TypeOK
    <2>4. QED
      BY <1>4, <2>2, <2>3 DEF PersistResize, TypeOK, cluster
  <1>5. CASE StartRestore
    <2>1. Names(obj.resized) \subseteq Workloads
      BY DEF TypeOK, Names, Detectors, Entries
    <2>2. QED
      BY <1>5, <2>1 DEF StartRestore, TypeOK, cluster, history
  <1>6. CASE Report \/ Release \/ WriteRefused
    <2>1. detector' \in Detectors
      BY <1>6, NewDetectorFacts DEF Report, Release, WriteRefused, TypeOK
    <2>2. (End({}) \/ End(Dropped)) /\ UNCHANGED <<cluster, cache, left>>
      BY <1>6 DEF Report, Release, WriteRefused
    <2>3. QED
      BY <2>1, <2>2, EndTypes DEF TypeOK, cluster, history
  <1>7. ASSUME NEW w \in Workloads, ResizeWorkload(w)
        PROVE  TypeOK'
    <2>1. job' = NoJob \/ job' \in Detail
      <3>1. PICK first \in PodsOf(w) :
              LET original == Captured(first)
                  target == Target(w, original)
                  pods == {p \in PodsOf(w) : \E c \in Containers : target < seen[p][c]}
                  new == Job(Resized(w, original), target, pods)
              IN  job' = IF pods = {} THEN NoJob ELSE [new EXCEPT !.old = seen[first] # request[first]]
        BY <1>7 DEF ResizeWorkload
      <3> DEFINE original == Captured(first)
                 target == Target(w, original)
                 pods == {p \in PodsOf(w) : \E c \in Containers : target < seen[p][c]}
                 new == Job(Resized(w, original), target, pods)
      <3>2. job' = IF pods = {} THEN NoJob ELSE [new EXCEPT !.old = seen[first] # request[first]]
        BY <3>1
      <3>3. original \in Nat /\ target \in Nat
        BY PodFacts, CapturedType, TargetType
      <3>4. pods \subseteq Pods
        BY PodFacts
      <3> HIDE DEF original, target, pods
      <3>5. new \in Detail
        BY <3>3, <3>4 DEF Job, Resized, Detail, Entries
      <3> HIDE DEF new
      <3>6. QED
        BY <3>2, <3>5 DEF Detail
    <2>2. QED
      BY <1>7, <2>1 DEF ResizeWorkload, TypeOK, cluster, history, Detail
  <1>8. ASSUME NEW w \in Workloads, ResizeFails(w)
        PROVE  TypeOK'
    <2>1. left' \in [Bounds -> Nat]
      BY <1>8, SpendType DEF ResizeFails, Bounds, TypeOK
    <2>2. QED
      BY <1>8, <2>1 DEF ResizeFails, TypeOK, cluster, history, Bounds
  <1>9. ASSUME NEW p \in Pods, ResizePod(p) \/ RestorePod(p)
        PROVE  TypeOK'
    <2>1. job \in Detail
      BY <1>9, NoJobFacts, JobType DEF ResizePod, RestorePod, RestoredPod
    <2>2. request' \in [Pods -> [Containers -> Nat]]
      <3>1. All(job.target) \in [Containers -> Nat]
        BY <2>1, AllType DEF Detail
      <3>2. request' \in {request, [request EXCEPT ![p] = All(job.target)]}
        BY <1>9 DEF ResizePod, RestorePod, RestoredPod, PatchPod
      <3>3. QED
        BY <3>1, <3>2 DEF TypeOK
    <2>3. job' = NoJob \/ job' \in Detail
      BY <1>9, <2>1 DEF ResizePod, RestorePod, RestoredPod, Detail
    <2>4. obj' \in Detectors
      <3>1. [obj EXCEPT !.resized = @ \ {job.entry}] \in Detectors
        BY DEF TypeOK, Detectors
      <3>2. obj' \in {obj, [obj EXCEPT !.resized = @ \ {job.entry}]}
        BY <1>9 DEF ResizePod, RestorePod
      <3>3. QED
        BY <3>1, <3>2 DEF TypeOK
    <2>5. /\ UNCHANGED <<template, seen, usage, present, detector, cache, pc, fresh, todo, lost, left>>
          /\ overlooked' \subseteq Pods
      BY <1>9 DEF ResizePod, RestorePod, RestoredPod, TypeOK, history
    <2>6. QED
      BY <2>2, <2>3, <2>4, <2>5 DEF TypeOK, Detail
  <1>10. ASSUME NEW e \in obj.resized, RestoreWorkload(e)
         PROVE  TypeOK'
    <2>1. e \in Entries
      BY DEF TypeOK, Detectors
    <2>2. job' = NoJob \/ job' \in Detail
      <3>1. PodsOf(e.name) \subseteq Pods
        BY DEF PodsOf
      <3>2. Job(e, e.original, PodsOf(e.name)) \in Detail
        BY <2>1, <3>1 DEF Job, Entries, Detail
      <3>3. QED
        BY <1>10, <3>2 DEF RestoreWorkload
    <2>3. obj' \in Detectors
      BY <1>0, <1>10 DEF RestoreWorkload, Detectors
    <2>4. todo' \subseteq Workloads /\ UNCHANGED <<cluster, detector, cache, pc, fresh, history, left>>
      BY <1>10 DEF RestoreWorkload, TypeOK
    <2>5. QED
      BY <2>2, <2>3, <2>4 DEF TypeOK, cluster, history, Detail
  <1>11. ASSUME NEW e \in obj.resized, RestoreFails(e)
         PROVE  TypeOK'
    <2>1. left' \in [Bounds -> Nat]
      BY <1>11, SpendType DEF RestoreFails, Bounds, TypeOK
    <2>2. QED
      BY <1>11, <2>1 DEF RestoreFails, TypeOK, cluster, history, Bounds
  <1>12. QED
    BY <1>1, <1>2, <1>3, <1>4, <1>5, <1>6, <1>7, <1>8, <1>9, <1>10, <1>11 DEF Step

LEMMA OtherTypes ==
  ASSUME TypeOK, JobIsExact, Fault \/ User \/ Informer
  PROVE  TypeOK'
  <1>1. CASE Abort
    <2>1. left' \in [Bounds -> Nat]
      BY <1>1, SpendType DEF Abort, Bounds
    <2>2. End({}) /\ UNCHANGED <<cluster, detector, cache>>
      BY <1>1 DEF Abort
    <2>3. QED
      BY <2>1, <2>2, EndTypes DEF TypeOK, cluster, history, Bounds
  <1>2. ASSUME NEW p \in Pods, ResizePodFails(p) \/ ResizePodUnanswered(p) \/ RestorePodFails(p)
        PROVE  TypeOK'
    <2>1. left' \in [Bounds -> Nat]
      BY <1>2, SpendType DEF ResizePodFails, ResizePodUnanswered, RestorePodFails, Bounds
    <2>2. job \in Detail
      BY <1>2, NoJobFacts, JobType DEF ResizePodFails, ResizePodUnanswered, RestorePodFails
    <2>3. job' = NoJob \/ job' \in Detail
      BY <1>2, <2>2 DEF ResizePodFails, ResizePodUnanswered, RestorePodFails, Detail
    <2>4. request' \in [Pods -> [Containers -> Nat]]
      <3>1. All(job.target) \in [Containers -> Nat]
        BY <2>2, AllType DEF Detail
      <3>2. request' \in {request, [request EXCEPT ![p] = All(job.target)]}
        BY <1>2 DEF ResizePodFails, ResizePodUnanswered, RestorePodFails, PatchPod, cluster
      <3>3. QED
        BY <3>1, <3>2 DEF TypeOK
    <2>5. UNCHANGED <<template, seen, usage, present, detector, cache, pc, obj, fresh, todo, history>>
      BY <1>2 DEF ResizePodFails, ResizePodUnanswered, RestorePodFails, cluster
    <2>6. QED
      BY <2>1, <2>3, <2>4, <2>5 DEF TypeOK, history, Bounds, Detail
  <1>3. CASE ChangeAction \/ DeleteDetector
    <2>1. left' \in [Bounds -> Nat]
      BY <1>3, SpendType DEF ChangeAction, DeleteDetector, Bounds
    <2>2. detector' \in Detectors
      <3>1. CASE ChangeAction
        BY <3>1 DEF ChangeAction, TypeOK, Detectors
      <3>2. CASE DeleteDetector
        <4>1. [detector EXCEPT !.deleting = TRUE] \in Detectors
          BY DEF TypeOK, Detectors
        <4>2. QED
          BY <3>2, <4>1, NewDetectorFacts DEF DeleteDetector
      <3>3. QED
        BY <1>3, <3>1, <3>2
    <2>3. fresh' = FALSE /\ UNCHANGED <<cluster, cache, pc, obj, todo, job, history>>
      BY <1>3 DEF ChangeAction, DeleteDetector
    <2>4. QED
      BY <2>1, <2>2, <2>3 DEF TypeOK, cluster, history, Bounds
  <1>4. ASSUME NEW w \in Workloads, EditWorkload(w)
        PROVE  TypeOK'
    <2>1. left' \in [Bounds -> Nat]
      BY <1>4, SpendType DEF EditWorkload, Bounds
    <2>2. PICK r \in Requests : /\ template' = [template EXCEPT ![w] = r]
                                /\ request' = [p \in Pods |-> IF p \in PodsOf(w) THEN r ELSE request[p]]
      BY <1>4 DEF EditWorkload
    <2>3. r \in [Containers -> Nat]
      BY ConstantsAssumption
    <2>4. /\ template' \in [Workloads -> Requests]
          /\ request' \in [Pods -> [Containers -> Nat]]
      BY <2>2, <2>3 DEF TypeOK
    <2>5. lost' \subseteq Workloads /\ UNCHANGED <<seen, usage, present, overlooked, Environment>>
      BY <1>4 DEF EditWorkload, TypeOK
    <2>6. QED
      BY <2>1, <2>4, <2>5 DEF TypeOK, Environment, Bounds
  <1>5. ASSUME NEW p \in Pods, ReplacePod(p)
        PROVE  TypeOK'
    <2>1. left' \in [Bounds -> Nat]
      BY <1>5, SpendType DEF ReplacePod, Bounds
    <2>2. request' \in [Pods -> [Containers -> Nat]]
      BY <1>5, TemplateType, ConstantsAssumption DEF ReplacePod, TypeOK
    <2>3. QED
      BY <1>5, <2>1, <2>2 DEF ReplacePod, TypeOK, Environment, Bounds
  <1>6. ASSUME NEW w \in Workloads, DeleteWorkload(w) \/ ChangeUsage(w)
        PROVE  TypeOK'
    <2>1. left' \in [Bounds -> Nat]
      BY <1>6, SpendType DEF DeleteWorkload, ChangeUsage, Bounds
    <2>2. usage' \in [Workloads -> Usages] /\ present' \subseteq Workloads
      BY <1>6 DEF DeleteWorkload, ChangeUsage, TypeOK
    <2>3. UNCHANGED <<template, request, seen, history, Environment>>
      BY <1>6 DEF DeleteWorkload, ChangeUsage
    <2>4. QED
      BY <2>1, <2>2, <2>3 DEF TypeOK, Environment, history, Bounds
  <1>7. CASE Informer
    BY <1>7 DEF Informer, Sync, SyncPod, TypeOK, cluster, history
  <1>8. QED
    BY <1>1, <1>2, <1>3, <1>4, <1>5, <1>6, <1>7 DEF Fault, User

-----------------------------------------------------------------------------
(* What the actions have in common.                                        *)
Ending == Report \/ Release \/ WriteRefused \/ Abort

Detecting == ChangeAction \/ DeleteDetector

Outside ==
  \/ \E w \in Workloads : EditWorkload(w) \/ DeleteWorkload(w) \/ ChangeUsage(w)
  \/ \E p \in Pods : ReplacePod(p)

Visiting ==
  \/ NothingResized \/ StartRestore
  \/ \E w \in Workloads : ResizeWorkload(w) \/ ResizeFails(w)
  \/ \E p \in Pods : \/ ResizePod(p) \/ ResizePodFails(p) \/ ResizePodUnanswered(p)
                      \/ RestorePodFails(p)
  \/ \E e \in obj.resized : RestoreFails(e)

LEMMA EndingFacts ==
  ASSUME Ending
  PROVE  /\ pc' = "idle" /\ obj' = NewDetector /\ obj'.resized = {} /\ fresh' = FALSE
         /\ todo' = {} /\ job' = NoJob /\ UNCHANGED <<cluster, cache>>
         /\ lost \cup Unrecorded \subseteq lost'
         /\ \/ detector' = detector
            \/ /\ Report /\ fresh /\ detector' = obj /\ pc \in {"restore", "report", "undo"}
               /\ Dropped \subseteq lost'
            \/ /\ Release /\ fresh /\ detector'.resized = {} /\ obj.resized = {} /\ pc = "undo"
               /\ Dropped \subseteq lost'
  BY NewDetectorFacts DEF Ending, Report, Release, WriteRefused, Abort, End

(* Users of a detector do not touch its status.                            *)
LEMMA DetectingFacts ==
  ASSUME TypeOK, FinalizerHolds, Detecting
  PROVE  /\ detector'.resized = detector.resized
         /\ detector'.finalizer = detector.finalizer \/ detector'.resized = {}
         /\ fresh' = FALSE /\ UNCHANGED <<cluster, cache, pc, obj, todo, job, history>>
  <1>1. CASE ChangeAction
    BY <1>1 DEF ChangeAction, TypeOK, Detectors
  <1>2. CASE DeleteDetector
    <2>1. CASE detector.finalizer
      BY <1>2, <2>1 DEF DeleteDetector, TypeOK, Detectors
    <2>2. CASE ~detector.finalizer
      BY <1>2, <2>2, NewDetectorFacts DEF DeleteDetector, FinalizerHolds
    <2>3. QED
      BY <2>1, <2>2
  <1>3. QED
    BY <1>1, <1>2 DEF Detecting

LEMMA VisitingFacts ==
  ASSUME Visiting
  PROVE  /\ UNCHANGED <<template, detector, cache, obj, fresh>> /\ lost \subseteq lost'
         /\ \/ pc' = pc /\ todo' \subseteq todo
            \/ pc = "resize" /\ pc' = "restore" /\ job = NoJob /\ UNCHANGED <<request, job>>
  <1>1. CASE NothingResized
    BY <1>1 DEF NothingResized, cluster, history
  <1>2. CASE StartRestore
    BY <1>2 DEF StartRestore, cluster, history
  <1>3. ASSUME NEW w \in Workloads, ResizeWorkload(w)
        PROVE  UNCHANGED <<template, pc, detector, cache, obj, fresh, history>> /\ todo' \subseteq todo
    BY <1>3 DEF ResizeWorkload, cluster, history
  <1>4. ASSUME NEW w \in Workloads, ResizeFails(w)
        PROVE  UNCHANGED <<template, pc, detector, cache, obj, fresh, history>> /\ todo' \subseteq todo
    BY <1>4 DEF ResizeFails, cluster, history
  <1>5. ASSUME NEW p \in Pods, ResizePod(p) \/ ResizePodFails(p) \/ ResizePodUnanswered(p) \/ RestorePodFails(p)
        PROVE  UNCHANGED <<template, pc, detector, cache, obj, fresh, history, todo>>
    BY <1>5 DEF ResizePod, ResizePodFails, ResizePodUnanswered, RestorePodFails, cluster, history
  <1>6. ASSUME NEW e \in obj.resized, RestoreFails(e)
        PROVE  UNCHANGED <<template, pc, detector, cache, obj, fresh, history>> /\ todo' \subseteq todo
    BY <1>6 DEF RestoreFails, cluster, history
  <1>7. QED
    BY <1>1, <1>2, <1>3, <1>4, <1>5, <1>6 DEF Visiting, history

LEMMA OutsideFacts ==
  ASSUME Outside
  PROVE  UNCHANGED Environment /\ lost \subseteq lost'
  BY DEF Outside, EditWorkload, DeleteWorkload, ChangeUsage, ReplacePod, history

LEMMA InformerFacts ==
  ASSUME Informer
  PROVE  /\ UNCHANGED <<template, request, detector, pc, obj, fresh, todo, job, history>>
         /\ cache' \in {cache, detector}
  BY DEF Informer, Sync, SyncPod, cluster

-----------------------------------------------------------------------------
(* The loop's copy, and the finalizer.                                     *)
LEMMA FreshStep ==
  ASSUME IInv, Next
  PROVE  FreshCopy'
  <1>1. /\ TypeOK /\ FreshCopy /\ JobIsExact /\ FinalizerHolds
        /\ detector \in Detectors /\ obj \in Detectors /\ cache \in Detectors
    BY DEF IInv, TypeOK
  <1>2. CASE Start
    BY <1>2 DEF Start, StartDeletion, StartCheck, Begin, FreshCopy
  <1>3. CASE AddFinalizer
    <2>1. obj'.resized = obj.resized /\ detector' = obj' /\ pc = "check" /\ UNCHANGED <<pc, fresh, todo>>
      BY <1>1, <1>3 DEF AddFinalizer, Detectors
    <2>2. QED
      BY <1>1, <2>1 DEF FreshCopy
  <1>4. CASE Detect
    <2>1. obj'.resized = obj.resized /\ pc = "check" /\ pc' \in {"resize", "report"}
      BY <1>1, <1>4 DEF Detect, Detectors
    <2>2. pc' = "resize" => todo' \cap Names(obj.resized) = {}
      BY <1>4 DEF Detect
    <2>3. UNCHANGED <<detector, fresh>>
      BY <1>4 DEF Detect
    <2>4. QED
      BY <1>1, <2>1, <2>2, <2>3 DEF FreshCopy, Names
  <1>5. CASE PersistResize
    <2>1. job # NoJob /\ pc = "resize" /\ UNCHANGED <<pc, todo, fresh>>
      BY <1>5, NoJobFacts DEF PersistResize
    <2>2. obj'.resized = obj.resized \cup {job.entry} /\ detector' = obj'
      BY <1>1, <1>5 DEF PersistResize, Recorded, Detectors
    <2>3. job.entry.name \notin todo
      BY <1>1, <2>1 DEF JobIsExact
    <2>4. QED
      BY <1>1, <2>1, <2>2, <2>3 DEF FreshCopy, Names
  <1>6. CASE Visiting
    BY <1>1, <1>6, VisitingFacts DEF FreshCopy
  <1>7. CASE \/ \E p \in Pods : RestorePod(p)
             \/ \E e \in obj.resized : RestoreWorkload(e)
    <2>1. /\ obj'.resized \subseteq obj.resized /\ pc \in {"restore", "undo"}
          /\ UNCHANGED <<detector, pc, fresh>>
      BY <1>1, <1>7 DEF RestorePod, RestoredPod, RestoreWorkload, Detectors
    <2>2. QED
      BY <1>1, <2>1 DEF FreshCopy
  <1>8. CASE Ending
    BY <1>8, EndingFacts DEF FreshCopy
  <1>9. CASE Detecting
    BY <1>1, <1>9, DetectingFacts DEF FreshCopy
  <1>10. CASE Outside \/ Informer
    BY <1>1, <1>10, OutsideFacts, InformerFacts DEF Environment, FreshCopy
  <1>11. QED
    BY <1>2, <1>3, <1>4, <1>5, <1>6, <1>7, <1>8, <1>9, <1>10
       DEF Next, Step, Fault, User, Ending, Detecting, Outside, Visiting

LEMMA FinalizerStep ==
  ASSUME IInv, Next
  PROVE  FinalizerHolds'
  <1>1. /\ TypeOK /\ FinalizerHolds
        /\ detector \in Detectors /\ obj \in Detectors /\ cache \in Detectors
    BY DEF IInv, TypeOK
  <1>2. CASE Start
    BY <1>1, <1>2 DEF Start, StartDeletion, StartCheck, Begin, FinalizerHolds
  <1>3. CASE AddFinalizer
    <2>1. obj'.finalizer /\ detector' = obj' /\ UNCHANGED <<cache, pc>>
      BY <1>1, <1>3 DEF AddFinalizer, Detectors
    <2>2. QED
      BY <1>1, <2>1 DEF FinalizerHolds
  <1>4. CASE Detect
    <2>1. obj'.finalizer /\ UNCHANGED <<detector, cache>>
      BY <1>1, <1>4 DEF Detect, Detectors
    <2>2. QED
      BY <1>1, <2>1 DEF FinalizerHolds
  <1>5. CASE PersistResize
    <2>1. obj.finalizer /\ obj'.finalizer = obj.finalizer /\ detector' = obj' /\ UNCHANGED <<cache, pc>>
      BY <1>1, <1>5 DEF PersistResize, Detectors, FinalizerHolds
    <2>2. QED
      BY <1>1, <2>1 DEF FinalizerHolds
  <1>6. CASE Visiting
    BY <1>1, <1>6, VisitingFacts DEF FinalizerHolds
  <1>7. CASE \/ \E p \in Pods : RestorePod(p)
             \/ \E e \in obj.resized : RestoreWorkload(e)
    <2>1. /\ obj'.resized \subseteq obj.resized /\ obj'.finalizer = obj.finalizer
          /\ UNCHANGED <<detector, cache, pc>>
      BY <1>1, <1>7 DEF RestorePod, RestoredPod, RestoreWorkload, Detectors
    <2>2. QED
      BY <1>1, <2>1 DEF FinalizerHolds
  <1>8. CASE Ending
    BY <1>1, <1>8, EndingFacts DEF FinalizerHolds
  <1>9. CASE Detecting
    BY <1>1, <1>9, DetectingFacts DEF FinalizerHolds
  <1>10. CASE Outside \/ Informer
    BY <1>1, <1>10, OutsideFacts, InformerFacts DEF Environment, FinalizerHolds
  <1>11. QED
    BY <1>2, <1>3, <1>4, <1>5, <1>6, <1>7, <1>8, <1>9, <1>10
       DEF Next, Step, Fault, User, Ending, Detecting, Outside, Visiting

-----------------------------------------------------------------------------
(* What is recorded is exact.  Users who change a template on record make  *)
(* the record a lost one.                                                  *)
LEMMA OutsideTemplates ==
  ASSUME TypeOK, Outside
  PROVE  /\ \A w \in Workloads : Held(w) /\ w \notin lost' => template'[w] = template[w]
         /\ \A p \in Pods : \/ request'[p] = template'[WorkloadOf[p]]
                            \/ /\ request'[p] = request[p]
                               /\ template'[WorkloadOf[p]] = template[WorkloadOf[p]]
                               /\ p \in overlooked => p \in overlooked'
  <1>0. \A p \in Pods : WorkloadOf[p] \in Workloads
    BY ConstantsAssumption
  <1>1. ASSUME NEW w \in Workloads, EditWorkload(w)
        PROVE  /\ \A v \in Workloads : Held(v) /\ v \notin lost' => template'[v] = template[v]
               /\ \A p \in Pods : \/ request'[p] = template'[WorkloadOf[p]]
                                  \/ /\ request'[p] = request[p]
                                     /\ template'[WorkloadOf[p]] = template[WorkloadOf[p]]
               /\ overlooked' = overlooked
    <2>1. PICK r \in Requests : /\ template' = [template EXCEPT ![w] = r]
                                /\ request' = [p \in Pods |-> IF p \in PodsOf(w) THEN r ELSE request[p]]
      BY <1>1 DEF EditWorkload
    <2>2. \A v \in Workloads : template'[v] = IF v = w THEN r ELSE template[v]
      BY <2>1 DEF TypeOK
    <2>3. \A p \in Pods : request'[p] = IF WorkloadOf[p] = w THEN r ELSE request[p]
      BY <2>1 DEF PodsOf
    <2>4. Held(w) => w \in lost'
      BY <1>1 DEF EditWorkload
    <2>5. overlooked' = overlooked
      BY <1>1 DEF EditWorkload
    <2>6. QED
      BY <1>0, <2>2, <2>3, <2>4, <2>5
  <1>2. ASSUME NEW p \in Pods, ReplacePod(p)
        PROVE  /\ template' = template /\ overlooked' = overlooked \ {p}
               /\ \A q \in Pods : request'[q] = IF q = p THEN template[WorkloadOf[p]] ELSE request[q]
    BY <1>2 DEF ReplacePod, TypeOK
  <1>3. ASSUME NEW w \in Workloads, DeleteWorkload(w) \/ ChangeUsage(w)
        PROVE  UNCHANGED <<template, request, overlooked>>
    BY <1>3 DEF DeleteWorkload, ChangeUsage, history
  <1>4. QED
    BY <1>1, <1>2, <1>3 DEF Outside

(* What the loop captures of a pod that the informer shows as it is, it    *)
(* captures before it touches it.                                          *)
LEMMA CaptureIsExact ==
  ASSUME IInv, Uniform, pc = "resize", job = NoJob, fresh,
         NEW w \in Workloads, w \in todo, w \notin lost, NEW p \in PodsOf(w), seen[p] = request[p]
  PROVE  All(Captured(p)) = template[w]
  <1>1. p \in Pods /\ WorkloadOf[p] = w
    BY PodFacts
  <1>2. Patched = {}
    BY NoJobFacts DEF Patched
  <1>3. w \notin Names(detector.resized)
    BY DEF IInv, FreshCopy
  <1>4. request[p] = template[w]
    BY <1>1, <1>2, <1>3 DEF IInv, ReducedIsRecorded
  <1>5. template[w] = All(template[w][NumContainers])
    BY TemplateType DEF IInv, Uniform
  <1>6. QED
    BY <1>4, <1>5 DEF Captured

LEMMA ResizeFacts ==
  ASSUME NEW w \in Workloads, ResizeWorkload(w), job' # NoJob
  PROVE  \E first \in PodsOf(w) : /\ job'.entry = Resized(w, Captured(first))
                                  /\ job'.pods \subseteq PodsOf(w) /\ ~job'.patched
                                  /\ ~job'.old => seen[first] = request[first]
  <1>1. PICK first \in PodsOf(w) :
          LET original == Captured(first)
              target == Target(w, original)
              pods == {p \in PodsOf(w) : \E c \in Containers : target < seen[p][c]}
              new == Job(Resized(w, original), target, pods)
          IN  job' = IF pods = {} THEN NoJob ELSE [new EXCEPT !.old = seen[first] # request[first]]
    BY DEF ResizeWorkload
  <1> DEFINE target == Target(w, Captured(first))
             pods == {p \in PodsOf(w) : \E c \in Containers : target < seen[p][c]}
             new == Job(Resized(w, Captured(first)), target, pods)
  <1>2. job' = [new EXCEPT !.old = seen[first] # request[first]]
    BY <1>1
  <1>3. pods \subseteq PodsOf(w)
    OBVIOUS
  <1> HIDE DEF target, pods
  <1>4. QED
    BY <1>2, <1>3 DEF Job

LEMMA JobStep ==
  ASSUME IInv, Uniform, Next
  PROVE  JobIsExact'
  <1>1. /\ TypeOK /\ JobIsExact /\ EntriesAreExact /\ FreshCopy
        /\ job # NoJob => job \in Detail
    BY JobType DEF IInv
  <1>2. CASE job' = NoJob
    BY <1>2 DEF JobIsExact
  <1>3. CASE Start \/ AddFinalizer \/ Detect
    <2>1. pc \in {"idle", "check"} /\ job' = job
      BY <1>3 DEF Start, StartDeletion, StartCheck, Begin, AddFinalizer, Detect
    <2>2. QED
      BY <1>1, <1>2, <2>1 DEF JobIsExact
  <1>4. CASE NothingResized \/ PersistResize \/ StartRestore \/ Ending
    BY <1>2, <1>4, EndingFacts DEF NothingResized, PersistResize, StartRestore
  <1>5. ASSUME NEW w \in Workloads, ResizeWorkload(w)
        PROVE  JobIsExact'
    <2>1. CASE job' # NoJob
      <3>1. PICK first \in PodsOf(w) : /\ job'.entry = Resized(w, Captured(first))
                                       /\ job'.pods \subseteq PodsOf(w) /\ ~job'.patched
                                       /\ ~job'.old => seen[first] = request[first]
        BY <1>5, <2>1, ResizeFacts
      <3>2. /\ pc = "resize" /\ job = NoJob /\ w \in todo /\ todo' = todo \ {w}
            /\ UNCHANGED <<template, pc, fresh, lost>>
        BY <1>5 DEF ResizeWorkload, cluster, history
      <3>3. fresh /\ w \notin lost /\ ~job'.old => All(Captured(first)) = template[w]
        BY <3>1, <3>2, CaptureIsExact
      <3>4. Captured(first) \in Nat
        BY <1>1, PodFacts, CapturedType
      <3>5. job'.entry \in Entries /\ job'.entry.name = w /\ job'.entry.original = Captured(first)
        BY <3>1, <3>4 DEF Resized, Entries
      <3>6. QED
        BY <3>1, <3>2, <3>3, <3>5 DEF JobIsExact, PodsOf
    <2>2. QED
      BY <1>2, <2>1
  <1>6. ASSUME NEW e \in obj.resized, RestoreWorkload(e)
        PROVE  JobIsExact'
    <2>1. CASE job' # NoJob
      <3>1. job' = Job(e, e.original, PodsOf(e.name)) /\ todo' = todo \ {e.name}
        BY <1>6, <2>1 DEF RestoreWorkload
      <3>2. job'.entry = e /\ job'.pods = PodsOf(e.name)
        BY <3>1 DEF Job
      <3>3. e \in Entries
        BY <1>1 DEF TypeOK, Detectors
      <3>4. e.name \notin lost => All(e.original) = template[e.name]
        BY <1>1 DEF EntriesAreExact
      <3>5. pc' \in {"restore", "undo"} /\ UNCHANGED <<template, lost>>
        BY <1>6 DEF RestoreWorkload, cluster, history
      <3>6. QED
        BY <3>1, <3>2, <3>3, <3>4, <3>5 DEF JobIsExact, PodsOf
    <2>2. QED
      BY <1>2, <2>1
  <1>7. CASE \/ \E w \in Workloads : ResizeFails(w)
             \/ \E e \in obj.resized : RestoreFails(e)
    <2>1. job' = NoJob
      BY <1>7 DEF ResizeFails, RestoreFails
    <2>2. QED
      BY <1>2, <2>1
  <1>8. CASE \E p \in Pods : \/ ResizePod(p) \/ ResizePodFails(p) \/ ResizePodUnanswered(p)
                             \/ RestorePod(p) \/ RestorePodFails(p)
    <2>1. job \in Detail /\ job # NoJob
      BY <1>1, <1>8, NoJobFacts DEF ResizePod, ResizePodFails, ResizePodUnanswered, RestorePod, RestoredPod, RestorePodFails
    <2>2. \/ job' = NoJob
          \/ job'.entry = job.entry /\ job'.pods \subseteq job.pods /\ job'.old = job.old
      <3>1. PICK p \in Pods : \/ ResizePod(p) \/ ResizePodFails(p) \/ ResizePodUnanswered(p)
                             \/ RestorePod(p) \/ RestorePodFails(p)
        BY <1>8
      <3>2. CASE ResizePod(p)
        BY <2>1, <3>2 DEF ResizePod, Detail
      <3>3. CASE ResizePodFails(p) \/ ResizePodUnanswered(p)
        BY <2>1, <3>3 DEF ResizePodFails, ResizePodUnanswered, Detail
      <3>4. CASE RestorePod(p)
        <4>1. CASE job.pods = {p}
          <5>1. job' = NoJob
            BY <3>4, <4>1 DEF RestorePod, RestoredPod
          <5>2. QED
            BY <5>1
        <4>2. CASE job.pods # {p}
          <5>1. job' = [job EXCEPT !.pods = job.pods \ {p}]
            BY <3>4, <4>2 DEF RestorePod, RestoredPod
          <5>2. job'.entry = job.entry /\ job'.pods = job.pods \ {p} /\ job'.old = job.old
            BY <2>1, <5>1 DEF Detail
          <5>3. QED
            BY <5>2
        <4>3. QED
          BY <4>1, <4>2
      <3>5. CASE RestorePodFails(p)
        <4>1. job' = NoJob
          BY <3>5 DEF RestorePodFails
        <4>2. QED
          BY <4>1
      <3>6. QED
        BY <3>1, <3>2, <3>3, <3>4, <3>5
    <2>3. UNCHANGED <<template, pc, fresh, todo, lost>>
      BY <1>8 DEF ResizePod, ResizePodFails, ResizePodUnanswered, RestorePod, RestoredPod, RestorePodFails, cluster, history
    <2>4. QED
      BY <1>1, <1>2, <2>1, <2>2, <2>3 DEF JobIsExact, PodsOf
  <1>9. CASE Detecting
    BY <1>1, <1>9, DetectingFacts DEF IInv, JobIsExact, PodsOf, history
  <1>10. CASE Informer
    BY <1>1, <1>10, InformerFacts DEF JobIsExact, history, PodsOf
  <1>11. CASE Outside
    <2>1. UNCHANGED <<pc, fresh, todo, job>> /\ lost \subseteq lost'
      BY <1>11, OutsideFacts DEF Environment
    <2>2. job # NoJob /\ job.entry.name \notin lost' => template'[job.entry.name] = template[job.entry.name]
      BY <1>1, <1>11, JobType, OutsideTemplates DEF Held
    <2>3. QED
      BY <1>1, <2>1, <2>2 DEF JobIsExact, PodsOf
  <1>12. QED
    BY <1>3, <1>4, <1>5, <1>6, <1>7, <1>8, <1>9, <1>10, <1>11
       DEF Next, Step, Fault, User, Ending, Detecting, Outside

LEMMA EntriesStep ==
  ASSUME IInv, Next
  PROVE  EntriesAreExact'
  <1>1. /\ TypeOK /\ EntriesAreExact /\ JobIsExact
        /\ detector \in Detectors /\ obj \in Detectors /\ cache \in Detectors
    BY DEF IInv, TypeOK
  <1>2. ASSUME UNCHANGED template, lost \subseteq lost',
               detector'.resized \cup cache'.resized \cup obj'.resized
                 \subseteq detector.resized \cup cache.resized \cup obj.resized
        PROVE  EntriesAreExact'
    BY <1>1, <1>2 DEF EntriesAreExact
  <1>3. CASE Start \/ Informer
    BY <1>2, <1>3, InformerFacts DEF Start, StartDeletion, StartCheck, Begin, cluster, history
  <1>4. CASE AddFinalizer \/ Detect
    <2>1. /\ obj'.resized = obj.resized /\ detector'.resized \in {obj.resized, detector.resized}
          /\ UNCHANGED <<template, cache, lost>>
      BY <1>1, <1>4 DEF AddFinalizer, Detect, Detectors, cluster, history
    <2>2. QED
      BY <1>2, <2>1
  <1>5. CASE PersistResize
    <2>1. /\ job # NoJob /\ fresh /\ UNCHANGED <<template, cache>>
          /\ lost \subseteq lost' /\ (job.old => job.entry.name \in lost')
      BY <1>5, NoJobFacts DEF PersistResize, cluster
    <2>2. obj'.resized = obj.resized \cup {job.entry} /\ detector' = obj'
      BY <1>1, <1>5 DEF PersistResize, Recorded, Detectors
    <2>3. job.entry.name \notin lost' => All(job.entry.original) = template[job.entry.name]
      <3>1. SUFFICES ASSUME job.entry.name \notin lost'
                     PROVE  All(job.entry.original) = template[job.entry.name]
        OBVIOUS
      <3>2. ~job.old /\ job.entry.name \notin lost
        BY <2>1, <3>1, Zenon
      <3>3. QED
        BY <1>1, <2>1, <3>2, Zenon DEF JobIsExact
    <2>4. ASSUME NEW e \in detector'.resized \cup cache'.resized \cup obj'.resized, e.name \notin lost'
          PROVE  All(e.original) = template'[e.name]
      <3>1. e = job.entry \/ e \in cache.resized \cup obj.resized
        BY <2>1, <2>2, <2>4
      <3>2. e.name \notin lost /\ template' = template
        BY <2>1, <2>4
      <3>3. QED
        BY <1>1, <2>3, <2>4, <3>1, <3>2 DEF EntriesAreExact
    <2>5. QED
      BY <2>4 DEF EntriesAreExact
  <1>6. CASE Visiting
    BY <1>2, <1>6, VisitingFacts
  <1>7. CASE \/ \E p \in Pods : RestorePod(p)
             \/ \E e \in obj.resized : RestoreWorkload(e)
    <2>1. /\ obj'.resized \subseteq obj.resized
          /\ UNCHANGED <<template, detector, cache, lost>>
      BY <1>1, <1>7 DEF RestorePod, RestoredPod, RestoreWorkload, Detectors, cluster, history
    <2>2. QED
      BY <1>2, <2>1
  <1>8. CASE Ending
    BY <1>2, <1>8, EndingFacts DEF cluster, history
  <1>9. CASE Detecting
    BY <1>1, <1>2, <1>9, DetectingFacts DEF IInv, cluster, history
  <1>10. CASE Outside
    <2>1. UNCHANGED <<detector, cache, obj>> /\ lost \subseteq lost'
      BY <1>10, OutsideFacts DEF Environment
    <2>2. ASSUME NEW d \in {detector, cache, obj}, NEW e \in d.resized, e.name \notin lost'
          PROVE  All(e.original) = template'[e.name]
      <3>1. Held(e.name)
        BY DEF Held, Names
      <3>2. e.name \in Workloads
        BY <1>1 DEF Detectors, Entries
      <3>3. template'[e.name] = template[e.name]
        BY <1>1, <1>10, <2>2, <3>1, <3>2, OutsideTemplates
      <3>4. QED
        BY <1>1, <2>1, <2>2, <3>3 DEF EntriesAreExact
    <2>3. QED
      BY <2>1, <2>2 DEF EntriesAreExact
  <1>11. QED
    BY <1>3, <1>4, <1>5, <1>6, <1>7, <1>8, <1>9, <1>10
       DEF Next, Step, Fault, User, Ending, Detecting, Outside, Visiting

-----------------------------------------------------------------------------
(* What is restored, and what is off its template.                         *)
LEMMA RestoreFacts ==
  ASSUME IInv, NEW p \in Pods, RestorePod(p)
  PROVE  /\ job \in Detail /\ job # NoJob /\ pc \in {"restore", "undo"} /\ WorkloadOf[p] = job.entry.name
         /\ \A q \in Pods : q # p => request'[q] = request[q]
         /\ \/ request'[p] = request[p] /\ p \in overlooked'
            \/ WorkloadOf[p] \notin lost => request'[p] = template[WorkloadOf[p]]
         /\ overlooked \subseteq overlooked'
         /\ UNCHANGED <<template, detector, pc, fresh, lost>>
         /\ \/ /\ job.pods = {p} /\ job' = NoJob
               /\ obj'.resized = obj.resized \ {job.entry}
            \/ /\ job.pods # {p} /\ obj' = obj
               /\ job' \in Detail /\ job'.entry = job.entry /\ job'.target = job.target
               /\ job'.pods = job.pods \ {p}
  <1>1. job \in Detail /\ job # NoJob /\ p \in job.pods /\ pc \in {"restore", "undo"}
    BY NoJobFacts, JobType DEF IInv, RestorePod, RestoredPod
  <1>2. WorkloadOf[p] = job.entry.name
    BY <1>1 DEF IInv, JobIsExact, PodsOf
  <1>3. /\ \A q \in Pods : q # p => request'[q] = request[q]
        /\ request'[p] = All(job.target) \/ (request'[p] = request[p] /\ p \in overlooked')
        /\ overlooked \subseteq overlooked'
    BY DEF RestorePod, RestoredPod, PatchPod, IInv, TypeOK
  <1>4. WorkloadOf[p] \notin lost => All(job.target) = template[WorkloadOf[p]]
    BY <1>1, <1>2 DEF IInv, RestoredIsWhole, EntriesAreExact
  <1>5. UNCHANGED <<template, detector, pc, fresh, lost>>
    BY DEF RestorePod, RestoredPod
  <1>6. CASE job.pods = {p}
    <2>1. job' = NoJob /\ obj' = [obj EXCEPT !.resized = obj.resized \ {job.entry}]
      BY <1>6 DEF RestorePod, RestoredPod
    <2>2. obj'.resized = obj.resized \ {job.entry}
      BY <2>1 DEF IInv, TypeOK, Detectors
    <2>3. QED
      BY <1>1, <1>2, <1>3, <1>4, <1>5, <1>6, <2>1, <2>2
  <1>7. CASE job.pods # {p}
    <2>1. job' = [job EXCEPT !.pods = job.pods \ {p}] /\ obj' = obj
      BY <1>7 DEF RestorePod, RestoredPod
    <2>2. /\ job' \in Detail /\ job'.entry = job.entry /\ job'.target = job.target
          /\ job'.pods = job.pods \ {p}
      BY <1>1, <2>1 DEF Detail
    <2>3. QED
      BY <1>1, <1>2, <1>3, <1>4, <1>5, <1>7, <2>1, <2>2
  <1>8. QED
    BY <1>6, <1>7

LEMMA RestorePodWhole ==
  ASSUME IInv, NEW p \in Pods, RestorePod(p)
  PROVE  RestoredIsWhole'
  <1> DEFINE v == WorkloadOf[p]
  <1>1. /\ job \in Detail /\ job # NoJob /\ pc \in {"restore", "undo"} /\ v = job.entry.name
        /\ \A q \in Pods : q # p => request'[q] = request[q]
        /\ v \notin lost => p \in overlooked' \/ request'[p] = template[v]
        /\ overlooked \subseteq overlooked'
        /\ UNCHANGED <<template, detector, pc, fresh, lost>>
    BY RestoreFacts
  <1>2. /\ job.entry \in obj.resized /\ job.target = job.entry.original
        /\ v \notin lost => \A q \in PodsOf(v) \ (job.pods \cup overlooked) : request[q] = template[v]
        /\ fresh => \A w \in Names(detector.resized) \ (Names(obj.resized) \cup lost) :
                      \A q \in PodsOf(w) \ overlooked : request[q] = template[w]
    BY <1>1 DEF IInv, RestoredIsWhole
  <1>3. \A w : w # v => \A q \in PodsOf(w) : request'[q] = request[q]
    BY <1>1 DEF PodsOf
  <1>4. \A q \in PodsOf(v) : q # p => request'[q] = request[q]
    BY <1>1 DEF PodsOf
  <1>5. CASE job.pods = {p}
    <2>1. job' = NoJob /\ obj'.resized = obj.resized \ {job.entry}
      BY <1>5, RestoreFacts
    <2>2. v \notin lost => \A q \in PodsOf(v) \ overlooked' : request'[q] = template[v]
      BY <1>1, <1>2, <1>4, <1>5
    <2>3. \A w : w # v /\ w \in Names(obj.resized) => w \in Names(obj'.resized)
      BY <1>1, <2>1 DEF Names
    <2>4. fresh => \A w \in Names(detector.resized) \ (Names(obj'.resized) \cup lost) :
                     \A q \in PodsOf(w) \ overlooked' : request'[q] = template[w]
      BY <1>1, <1>2, <1>3, <2>2, <2>3
    <2>5. QED
      BY <1>1, <2>1, <2>4 DEF RestoredIsWhole, PodsOf, Names
  <1>6. CASE job.pods # {p}
    <2>1. /\ obj' = obj /\ job'.entry = job.entry /\ job'.target = job.target
          /\ job'.pods = job.pods \ {p}
      BY <1>6, RestoreFacts
    <2>2. job.pods # {} /\ p \in job.pods
      BY NoJobFacts DEF RestorePod, RestoredPod
    <2>3. job'.pods # {}
      BY <1>6, <2>1, <2>2
    <2>4. v \notin lost => \A q \in PodsOf(v) \ (job'.pods \cup overlooked') : request'[q] = template[v]
      BY <1>1, <1>2, <1>4, <2>1
    <2>5. v \in Names(obj.resized)
      BY <1>1, <1>2 DEF Names
    <2>6. fresh => \A w \in Names(detector.resized) \ (Names(obj.resized) \cup lost) :
                     \A q \in PodsOf(w) \ overlooked' : request'[q] = template[w]
      BY <1>1, <1>2, <1>3, <2>5
    <2>7. QED
      BY <1>1, <1>2, <2>1, <2>3, <2>4, <2>6 DEF RestoredIsWhole, PodsOf, Names
  <1>7. QED
    BY <1>5, <1>6

LEMMA RestoreWorkloadWhole ==
  ASSUME IInv, NEW e \in obj.resized, RestoreWorkload(e)
  PROVE  RestoredIsWhole'
  <1>1. /\ pc \in {"restore", "undo"} /\ job = NoJob
        /\ UNCHANGED <<template, request, detector, pc, fresh, lost, overlooked>>
    BY DEF RestoreWorkload, cluster, history
  <1>2. fresh => \A w \in Names(detector.resized) \ (Names(obj.resized) \cup lost) :
                   \A q \in PodsOf(w) \ overlooked : request[q] = template[w]
    BY <1>1 DEF IInv, RestoredIsWhole
  <1>3. CASE PodsOf(e.name) = {}
    <2>1. job' = NoJob /\ obj' = [obj EXCEPT !.resized = obj.resized \ {e}]
      BY <1>1, <1>3 DEF RestoreWorkload
    <2>2. obj'.resized = obj.resized \ {e}
      BY <2>1 DEF IInv, TypeOK, Detectors
    <2>3. \A w : w # e.name /\ w \in Names(obj.resized) => w \in Names(obj'.resized)
      BY <2>2 DEF Names
    <2>4. fresh => \A w \in Names(detector.resized) \ (Names(obj'.resized) \cup lost) :
                     \A q \in PodsOf(w) \ overlooked : request[q] = template[w]
      BY <1>2, <1>3, <2>3
    <2>5. QED
      BY <1>1, <2>1, <2>4 DEF RestoredIsWhole, PodsOf, Names
  <1>4. CASE PodsOf(e.name) # {}
    <2>1. job' = Job(e, e.original, PodsOf(e.name)) /\ obj' = obj
      BY <1>4 DEF RestoreWorkload
    <2>2. job'.entry = e /\ job'.target = e.original /\ job'.pods = PodsOf(e.name)
      BY <2>1 DEF Job
    <2>3. QED
      BY <1>1, <1>2, <1>4, <2>1, <2>2 DEF RestoredIsWhole, PodsOf, Names
  <1>5. QED
    BY <1>3, <1>4

LEMMA RestoreFailsFacts ==
  ASSUME IInv, NEW p \in Pods, RestorePodFails(p)
  PROVE  /\ pc \in {"restore", "undo"} /\ job' = NoJob
         /\ UNCHANGED <<template, detector, obj, pc, fresh, lost, overlooked>>
         /\ \A q \in Pods : request[q] = template[WorkloadOf[q]] /\ WorkloadOf[q] \notin lost =>
                           request'[q] = request[q]
  <1>1. job \in Detail /\ job # NoJob /\ p \in job.pods /\ pc \in {"restore", "undo"}
    BY NoJobFacts, JobType DEF IInv, RestorePodFails
  <1>2. WorkloadOf[p] = job.entry.name
    BY <1>1 DEF IInv, JobIsExact, PodsOf
  <1>3. WorkloadOf[p] \notin lost => All(job.target) = template[WorkloadOf[p]]
    BY <1>1, <1>2 DEF IInv, RestoredIsWhole, EntriesAreExact
  <1>4. \A q \in Pods : request'[q] = request[q] \/ (q = p /\ request'[q] = All(job.target))
    BY DEF RestorePodFails, PatchPod, IInv, TypeOK
  <1>5. job' = NoJob /\ UNCHANGED <<template, detector, obj, pc, fresh, lost, overlooked>>
    BY DEF RestorePodFails, history
  <1>6. QED
    BY <1>1, <1>3, <1>4, <1>5

LEMMA RestoredStep ==
  ASSUME IInv, Next
  PROVE  RestoredIsWhole'
  <1>1. TypeOK /\ JobIsExact /\ FreshCopy /\ RestoredIsWhole
    BY DEF IInv
  <1>2. CASE pc' \notin {"restore", "undo"}
    BY <1>2 DEF RestoredIsWhole
  <1>3. ASSUME job' = NoJob, fresh' => obj'.resized = detector'.resized
        PROVE  RestoredIsWhole'
    BY <1>3 DEF RestoredIsWhole
  <1>4. CASE Start
    <2>1. pc = "idle" /\ job' = job /\ obj' = cache /\ detector' = detector /\ (fresh' <=> cache = detector)
      BY <1>4 DEF Start, StartDeletion, StartCheck, Begin
    <2>2. QED
      BY <1>1, <1>3, <2>1 DEF JobIsExact
  <1>5. CASE StartRestore
    <2>1. pc = "resize" /\ job' = NoJob /\ UNCHANGED <<obj, detector, fresh>>
      BY <1>5 DEF StartRestore
    <2>2. QED
      BY <1>1, <1>3, <2>1 DEF FreshCopy
  <1>6. CASE \/ AddFinalizer \/ Detect \/ NothingResized \/ PersistResize
             \/ \E w \in Workloads : ResizeWorkload(w)
             \/ \E p \in Pods : ResizePod(p) \/ ResizePodFails(p) \/ ResizePodUnanswered(p)
    <2>1. pc' \notin {"restore", "undo"}
      BY <1>6 DEF AddFinalizer, Detect, NothingResized, PersistResize, ResizeWorkload, ResizePod,
                  ResizePodFails, ResizePodUnanswered
    <2>2. QED
      BY <1>2, <2>1
  <1>7. CASE \/ \E w \in Workloads : ResizeFails(w)
             \/ \E e \in obj.resized : RestoreFails(e)
             \/ Informer
    <2>1. UNCHANGED <<template, request, detector, obj, pc, fresh, job, lost, overlooked>>
      BY <1>7, InformerFacts DEF ResizeFails, RestoreFails, cluster, history
    <2>2. QED
      BY <1>1, <2>1 DEF RestoredIsWhole, PodsOf, Names
  <1>8. ASSUME NEW p \in Pods, RestorePodFails(p)
        PROVE  RestoredIsWhole'
    <2>1. /\ job' = NoJob /\ UNCHANGED <<template, detector, obj, pc, fresh, lost, overlooked>>
          /\ \A q \in Pods : request[q] = template[WorkloadOf[q]] /\ WorkloadOf[q] \notin lost =>
                            request'[q] = request[q]
      BY <1>8, RestoreFailsFacts
    <2>2. QED
      BY <1>1, <2>1 DEF RestoredIsWhole, PodsOf, Names
  <1>9. CASE Ending
    BY <1>2, <1>9, EndingFacts
  <1>10. CASE Detecting
    <2>1. fresh' = FALSE /\ UNCHANGED <<template, request, pc, obj, job, history>>
      BY <1>1, <1>10, DetectingFacts DEF IInv, cluster, history
    <2>2. QED
      BY <1>1, <2>1 DEF RestoredIsWhole, PodsOf, history
  <1>11. CASE Outside
    <2>1. UNCHANGED <<detector, pc, obj, fresh, job>> /\ lost \subseteq lost'
      BY <1>11, OutsideFacts DEF Environment
    <2>2. \A w : \A q \in PodsOf(w) : q \in overlooked \/ request[q] = template[w] =>
                              q \in overlooked' \/ request'[q] = template'[w]
      BY <1>1, <1>11, OutsideTemplates DEF PodsOf
    <2>3. CASE pc \in {"restore", "undo"}
      <3>1. job # NoJob =>
              /\ job.entry \in obj.resized /\ job.target = job.entry.original /\ job.pods # {}
              /\ job.entry.name \notin lost' =>
                   \A q \in PodsOf(job.entry.name) \ (job.pods \cup overlooked') : request'[q] = template'[job.entry.name]
        BY <1>1, <2>1, <2>2, <2>3 DEF RestoredIsWhole
      <3>2. fresh => \A w \in Names(detector.resized) \ (Names(obj.resized) \cup lost') :
                       \A q \in PodsOf(w) \ overlooked' : request'[q] = template'[w]
        BY <1>1, <2>1, <2>2, <2>3 DEF RestoredIsWhole
      <3>3. QED
        BY <2>1, <3>1, <3>2 DEF RestoredIsWhole, PodsOf, Names
    <2>4. QED
      BY <1>2, <2>1, <2>3
  <1>12. QED
    BY <1>4, <1>5, <1>6, <1>7, <1>8, <1>9, <1>10, <1>11, RestorePodWhole, RestoreWorkloadWhole
       DEF Next, Step, Fault, User, Ending, Detecting, Outside

LEMMA ReducedStep ==
  ASSUME IInv, Next
  PROVE  ReducedIsRecorded'
  <1>1. /\ TypeOK /\ FreshCopy /\ JobIsExact /\ RestoredIsWhole /\ ReducedIsRecorded
        /\ detector \in Detectors /\ obj \in Detectors
        /\ \A p \in Pods : WorkloadOf[p] \in Workloads
    BY ConstantsAssumption DEF IInv, TypeOK
  <1>2. ASSUME UNCHANGED <<template, request>>,
               lost \cup Names(detector.resized) \cup Patched
                 \subseteq (lost \cup Names(detector.resized) \cup Patched)'
        PROVE  ReducedIsRecorded'
    BY <1>1, <1>2 DEF ReducedIsRecorded
  <1>3. job = NoJob \/ pc # "resize" => Patched = {}
    BY NoJobFacts DEF Patched
  <1>4. CASE Start \/ Detect \/ StartRestore
    <2>1. /\ job = NoJob \/ pc # "resize"
          /\ UNCHANGED <<template, request, detector, lost>>
      BY <1>4 DEF Start, StartDeletion, StartCheck, Begin, Detect, StartRestore, cluster, history
    <2>2. QED
      BY <1>2, <1>3, <2>1
  <1>5. CASE AddFinalizer
    <2>1. /\ pc = "check" /\ detector'.resized = obj.resized /\ fresh
          /\ UNCHANGED <<template, request, lost>>
      BY <1>1, <1>5 DEF AddFinalizer, Detectors, cluster, history
    <2>2. detector'.resized = detector.resized
      BY <1>1, <2>1 DEF FreshCopy
    <2>3. QED
      BY <1>2, <1>3, <2>1, <2>2
  <1>6. CASE NothingResized
    <2>1. UNCHANGED <<template, request, detector>> /\ lost' = lost \cup Unrecorded
      BY <1>6 DEF NothingResized, cluster
    <2>2. QED
      BY <1>2, <2>1 DEF Unrecorded
  <1>7. CASE PersistResize
    <2>1. /\ detector'.resized = obj.resized \cup {job.entry} /\ fresh /\ pc = "resize"
          /\ UNCHANGED <<template, request>> /\ lost \subseteq lost'
      BY <1>1, <1>7 DEF PersistResize, Recorded, Detectors, cluster, history
    <2>2. obj.resized = detector.resized
      BY <1>1, <2>1 DEF FreshCopy
    <2>3. Names(detector.resized) \cup Patched \subseteq Names(detector'.resized)
      BY <2>1, <2>2 DEF Names, Patched
    <2>4. QED
      BY <1>2, <2>1, <2>3 DEF Names
  <1>8. CASE \/ \E w \in Workloads : ResizeWorkload(w) \/ ResizeFails(w)
             \/ \E e \in obj.resized : RestoreWorkload(e) \/ RestoreFails(e)
    <2>1. /\ job = NoJob \/ pc # "resize"
          /\ UNCHANGED <<template, request, detector, lost>>
      BY <1>8 DEF ResizeWorkload, ResizeFails, RestoreWorkload, RestoreFails, cluster, history
    <2>2. QED
      BY <1>2, <1>3, <2>1
  <1>16. ASSUME NEW p \in Pods, RestorePodFails(p)
         PROVE  ReducedIsRecorded'
    <2>1. /\ pc \in {"restore", "undo"} /\ UNCHANGED <<template, detector, lost>>
          /\ \A q \in Pods : request[q] = template[WorkloadOf[q]] /\ WorkloadOf[q] \notin lost =>
                            request'[q] = request[q]
      BY <1>16, RestoreFailsFacts
    <2>2. Patched = {}
      BY <1>3, <2>1
    <2>3. QED
      BY <1>1, <2>1, <2>2 DEF ReducedIsRecorded
  <1>9. ASSUME NEW p \in Pods, ResizePod(p) \/ ResizePodUnanswered(p)
        PROVE  ReducedIsRecorded'
    <2>1. job \in Detail /\ job # NoJob
      BY <1>1, <1>9, NoJobFacts, JobType DEF ResizePod, ResizePodUnanswered
    <2>2. Patched' = {job.entry.name}
      BY <1>9, <2>1 DEF ResizePod, ResizePodUnanswered, Patched, Detail
    <2>3. WorkloadOf[p] = job.entry.name
      BY <1>1, <1>9, <2>1 DEF ResizePod, ResizePodUnanswered, JobIsExact, PodsOf
    <2>4. \A q \in Pods : q # p => request'[q] = request[q]
      BY <1>1, <1>9 DEF ResizePod, ResizePodUnanswered, TypeOK
    <2>5. Patched \subseteq Patched' /\ UNCHANGED <<template, detector, lost>>
      BY <1>9, <2>2 DEF ResizePod, ResizePodUnanswered, Patched, history
    <2>6. QED
      BY <1>1, <2>2, <2>3, <2>4, <2>5 DEF ReducedIsRecorded
  <1>10. ASSUME NEW p \in Pods, ResizePodFails(p)
         PROVE  ReducedIsRecorded'
    <2>1. job \in Detail
      BY <1>1, <1>10, NoJobFacts, JobType DEF ResizePodFails
    <2>2. Patched' = Patched /\ UNCHANGED <<template, request, detector, lost>>
      BY <1>10, <2>1 DEF ResizePodFails, Patched, Detail, cluster, history
    <2>3. QED
      BY <1>2, <2>2
  <1>11. ASSUME NEW p \in Pods, RestorePod(p)
         PROVE  ReducedIsRecorded'
    <2>1. /\ pc \in {"restore", "undo"}
          /\ \A q \in Pods : q # p => request'[q] = request[q]
          /\ \/ request'[p] = request[p]
             \/ WorkloadOf[p] \notin lost => request'[p] = template[WorkloadOf[p]]
          /\ UNCHANGED <<template, detector, lost>>
      BY <1>11, RestoreFacts
    <2>2. Patched = {}
      BY <1>3, <2>1
    <2>3. QED
      BY <1>1, <2>1, <2>2 DEF ReducedIsRecorded
  <1>12. CASE Ending
    <2>1. UNCHANGED <<template, request>> /\ lost \cup (Patched \ Names(detector.resized)) \subseteq lost'
      BY <1>12, EndingFacts DEF cluster, Unrecorded
    <2>2. CASE detector' = detector
      BY <1>2, <2>1, <2>2
    <2>3. CASE /\ fresh /\ detector'.resized = obj.resized
               /\ pc \in {"restore", "report", "undo"} /\ Dropped \subseteq lost'
      <3>1. Patched = {}
        BY <1>3, <2>3
      <3>2. \A w \in Names(detector.resized) \ (Names(obj.resized) \cup lost) :
              \A q \in PodsOf(w) : request[q] = template[w] \/ w \in lost'
        BY <1>1, <2>3 DEF FreshCopy, RestoredIsWhole, Dropped, PodsOf
      <3>3. \A p \in Pods : p \in PodsOf(WorkloadOf[p])
        BY DEF PodsOf
      <3>4. QED
        BY <1>1, <2>1, <2>3, <3>1, <3>2, <3>3 DEF ReducedIsRecorded
    <2>4. QED
      BY <1>12, <2>2, <2>3, EndingFacts
  <1>13. CASE Detecting \/ Informer
    <2>1. /\ detector'.resized = detector.resized
          /\ UNCHANGED <<template, request, pc, job, lost>>
      BY <1>1, <1>13, DetectingFacts, InformerFacts DEF IInv, cluster, history
    <2>2. QED
      BY <1>2, <2>1 DEF Patched
  <1>14. CASE Outside
    <2>1. UNCHANGED <<detector, pc, job>> /\ lost \subseteq lost'
      BY <1>14, OutsideFacts DEF Environment
    <2>2. Patched' = Patched
      BY <2>1 DEF Patched
    <2>3. \A p \in Pods : request[p] = template[WorkloadOf[p]] => request'[p] = template'[WorkloadOf[p]]
      BY <1>1, <1>14, OutsideTemplates
    <2>4. QED
      BY <1>1, <2>1, <2>2, <2>3 DEF ReducedIsRecorded
  <1>15. QED
    BY <1>4, <1>5, <1>6, <1>7, <1>8, <1>9, <1>10, <1>11, <1>12, <1>13, <1>14, <1>16
       DEF Next, Step, Fault, User, Ending, Detecting, Outside

-----------------------------------------------------------------------------
LEMMA InitSafe == Init => IInv
  <1> SUFFICES ASSUME Init PROVE IInv
    OBVIOUS
  <1>1. request \in [Pods -> [Containers -> Nat]] /\ seen = request
    BY ConstantsAssumption DEF Init
  <1>2. left \in [{"edits", "flips", "faults", "changes"} -> Nat]
    BY ConstantsAssumption DEF Init
  <1>3. TypeOK
    BY <1>1, <1>2, NewDetectorFacts DEF Init, TypeOK
  <1>4. ReducedIsRecorded /\ EntriesAreExact
    BY NewDetectorFacts, NoJobFacts DEF Init, ReducedIsRecorded, EntriesAreExact
  <1>5. FreshCopy /\ FinalizerHolds /\ JobIsExact /\ RestoredIsWhole
    BY NewDetectorFacts DEF Init, FreshCopy, FinalizerHolds, JobIsExact, RestoredIsWhole
  <1>6. QED
    BY <1>3, <1>4, <1>5 DEF IInv

LEMMA NextSafe ==
  ASSUME Uniform
  PROVE  IInv /\ [Next]_vars => IInv'
  <1> SUFFICES ASSUME IInv, [Next]_vars PROVE IInv'
    OBVIOUS
  <1>1. CASE Next
    <2>1. TypeOK'
      BY <1>1, StartTypes, StepTypes, OtherTypes DEF Next, IInv
    <2>2. QED
      BY <1>1, <2>1, FreshStep, FinalizerStep, JobStep, EntriesStep, RestoredStep, ReducedStep DEF IInv
  <1>2. CASE UNCHANGED vars
    <2>1. UNCHANGED <<template, request, seen, usage, present, detector, cache, pc, obj, fresh, todo,
                      job, lost, overlooked, left>>
      BY <1>2 DEF vars, cluster, history
    <2>2. TypeOK'
      BY <2>1 DEF IInv, TypeOK
    <2>3. ReducedIsRecorded' /\ EntriesAreExact'
      BY <2>1 DEF IInv, ReducedIsRecorded, EntriesAreExact, Patched, Names
    <2>4. FreshCopy' /\ FinalizerHolds'
      BY <2>1 DEF IInv, FreshCopy, FinalizerHolds, Names
    <2>5. JobIsExact'
      BY <2>1 DEF IInv, JobIsExact, PodsOf
    <2>6. RestoredIsWhole'
      BY <2>1 DEF IInv, RestoredIsWhole, PodsOf, Names
    <2>7. QED
      BY <2>2, <2>3, <2>4, <2>5, <2>6 DEF IInv
  <1>3. QED
    BY <1>1, <1>2

(* If the containers of a pod request the same, a pod is off its template  *)
(* only while the status, or the job in hand, holds what it requested,     *)
(* unless the record was lost, and each entry holds exactly what the       *)
(* template requests: whatever calls fail, pods are replaced, and users do *)
(* to the detector and to the workloads meanwhile.                         *)
THEOREM Safety ==
  ASSUME Uniform
  PROVE  Spec => []IInv
  BY InitSafe, NextSafe, PTL DEF Spec
=============================================================================
