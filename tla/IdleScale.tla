----------------------------- MODULE IdleScale -----------------------------
(***************************************************************************)
(* The IdleDetector controller with the actions "alert" and "scale": the   *)
(* reconcile loop of one detector, the workloads it watches, scales down   *)
(* and restores, and the API server between them.                          *)
(*                                                                         *)
(* As in SleepSchedule, one action is one API call that matters, objects   *)
(* are written at the version read, and a loop may be cut short anywhere.  *)
(* Metrics are reduced to whether a workload's usage is below the          *)
(* thresholds (module IdleUsage); times are kept as ages, in ticks, and no *)
(* age is counted beyond IdleDuration.                                     *)
(***************************************************************************)
EXTENDS Workload, FiniteSets

CONSTANTS
  Workloads,          \* the workloads that labels, matchNames and types select
  KindOf,             \* the kind of each
  UserSettings,       \* the settings a user may give each
  IdleDuration,       \* spec.idleDuration
  MaxEdits,           \* bounds: edits and deletions of workloads by users,
  MaxFlips,           \*         changes of the load of workloads,
  MaxAborts,          \*         calls that fail, lost answers and crashes,
  MaxMisses,          \*         workloads or metrics that cannot be read,
  MaxChanges          \*         changes of the detector by users

IdleKinds == {"Deployment", "StatefulSet", "CronJob"}

ASSUME ConstantsAssumption ==
  /\ KindOf \in [Workloads -> IdleKinds]
  /\ \A w \in Workloads : UserSettings[w] \subseteq Settings(KindOf[w])
  /\ IdleDuration \in Nat

VARIABLES
  spec,               \* the setting of each workload in the API server
  present,            \* the workloads that have not been deleted
  low,                \* the workloads whose usage is below the thresholds
  detector,           \* the detector in the API server
  cache,              \* the operator's (informer's) copy of it
  pc,                 \* where the reconcile loop stands
  obj,                \* the loop's own copy of the detector
  fresh,              \* the loop's copy is at the API server's version
  todo,               \* the workloads the current phase has still to visit
  found,              \* the idle list this reconcile has detected so far
  elapsed,            \* how long ago the detection took the time
  down,               \* history: how each workload was scaled down
  busy,               \* history: the workloads this reconcile found not idle
  quiet,              \* history: how long ago a reconcile that wrote its status
                      \* last found the workload not idle
  left                \* what is left of each bound

vars == <<spec, present, low, detector, cache, pc, obj, fresh, todo, found,
          elapsed, down, busy, quiet, left>>

cluster == <<spec, present, low>>

loop == <<pc, obj, fresh, todo, found, elapsed, busy>>

-----------------------------------------------------------------------------
Ages == 0..IdleDuration

Older(a) == IF a < IdleDuration THEN a + 1 ELSE a

(* Entries of status.idleWorkloads and status.scaledWorkloads.             *)
Idle(w, age) == [name |-> w, age |-> age]

Scaled(w, st) == [name |-> w, original |-> st]

Names(entries) == {e.name : e \in entries}

NewDetector == [exists |-> TRUE, deleting |-> FALSE, finalizer |-> FALSE,
                action |-> "scale", idle |-> {}, scaled |-> {}]

Gone == [NewDetector EXCEPT !.exists = FALSE]

NotDown == [record |-> "none"]

(* record: the entry is in the loop's copy only (pending), in the status   *)
(* in the API server (kept), or was never written there (lost).            *)
DownFrom(st, record) == [was |-> st, record |-> record]

HasRecord(w, record) == down[w].record = record

Rerecord(from, to) ==
  [w \in Workloads |->
     IF HasRecord(w, from) THEN [down[w] EXCEPT !.record = to] ELSE down[w]]

Spend(bound) ==
  /\ left[bound] > 0
  /\ left' = [left EXCEPT ![bound] = @ - 1]

(* The loop ends; what it has not written is lost.                         *)
End ==
  /\ pc' = "idle"
  /\ obj' = NewDetector
  /\ fresh' = FALSE
  /\ todo' = {}
  /\ found' = {}
  /\ elapsed' = 0
  /\ busy' = {}

Fail ==
  /\ End
  /\ down' = Rerecord("pending", "lost")
  /\ UNCHANGED <<cluster, detector, cache, quiet>>

-----------------------------------------------------------------------------
(* Reconcile: the read of the detector and the choice of a branch.         *)
Begin(at, names) ==
  /\ pc = "idle"
  /\ cache.exists
  /\ pc' = at
  /\ obj' = cache
  /\ fresh' = (cache = detector)
  /\ todo' = names
  /\ UNCHANGED <<cluster, detector, cache, found, elapsed, down, busy, quiet, left>>

CheckOrReport(names) == IF names = {} THEN "report" ELSE "check"

RestoreOrRelease(names, entries) ==
  IF names # {} THEN "restore" ELSE IF entries # {} THEN "progress" ELSE "release"

StartDeletion ==
  /\ cache.deleting
  /\ Begin(RestoreOrRelease(Names(cache.scaled), cache.scaled), Names(cache.scaled))

StartAttach ==
  /\ ~cache.deleting
  /\ ~cache.finalizer
  /\ Begin("attach", {})

StartCheck ==
  /\ ~cache.deleting
  /\ cache.finalizer
  /\ Begin(CheckOrReport(Workloads), Workloads)

Start == StartDeletion \/ StartAttach \/ StartCheck

(* The finalizer is written before anything is looked at.                  *)
Attach ==
  /\ pc = "attach"
  /\ fresh
  /\ obj' = [obj EXCEPT !.finalizer = TRUE]
  /\ detector' = [detector EXCEPT !.finalizer = TRUE]
  /\ pc' = CheckOrReport(Workloads)
  /\ todo' = Workloads
  /\ UNCHANGED <<cluster, cache, fresh, found, elapsed, down, busy, quiet, left>>

-----------------------------------------------------------------------------
(* The idle entries scaleDownIdleWorkloads does not pass over, at the time *)
(* it takes: idle long enough and without an entry of what was scaled.     *)
ToScale(entries, scaled) ==
  {i.name : i \in {e \in entries : e.age >= IdleDuration /\ e.name \notin Names(scaled)}}

ScaleOrReport(names) == IF names = {} THEN "report" ELSE "scale"

(* w has been looked at, and the idle list is entries so far.              *)
Checked(w, entries, notIdle) ==
  LET rest == todo \ {w}
      scaling == obj.action = "scale"
      due == IF scaling THEN ToScale(entries, obj.scaled) ELSE {}
  IN  /\ found' = IF rest = {} THEN {} ELSE entries
      /\ obj' = IF rest = {} THEN [obj EXCEPT !.idle = entries] ELSE obj
      /\ todo' = IF rest = {} THEN due ELSE rest
      /\ pc' = IF rest = {} THEN ScaleOrReport(due) ELSE "check"
      /\ elapsed' = IF rest = {} THEN 0 ELSE elapsed
      /\ busy' = busy \cup notIdle
      /\ UNCHANGED <<cluster, detector, cache, fresh, down, quiet>>

(* Plausible slips: idle since now; an entry is kept through a busy check. *)
SinceNow(w) == elapsed

KeptEntries(w) == found \cup {e \in obj.idle : e.name = w}

(* idleSince of the workload's entry in the status, if it has one.         *)
Since(w) ==
  IF w \in Names(obj.idle) THEN (CHOOSE e \in obj.idle : e.name = w).age ELSE elapsed

(* detectIdleWorkloads, of one workload: it runs, it is there and its      *)
(* usage is low.  The kinds are listed one after the other; the order in   *)
(* which they are visited is left open.                                    *)
CheckIdle(w) ==
  /\ pc = "check"
  /\ w \in todo
  /\ w \in present /\ w \in low /\ Running(KindOf[w], spec[w])
  /\ Checked(w, found \cup {Idle(w, Since(w))}, {})
  /\ UNCHANGED left

CheckBusyKept(w) ==
  /\ pc = "check"
  /\ w \in todo
  /\ ~(w \in present /\ w \in low /\ Running(KindOf[w], spec[w]))
  /\ Checked(w, KeptEntries(w), {w})
  /\ UNCHANGED left

(* It is busy, stopped or gone: it is not in the new list.                 *)
CheckBusy(w) ==
  /\ pc = "check"
  /\ w \in todo
  /\ ~(w \in present /\ w \in low /\ Running(KindOf[w], spec[w]))
  /\ Checked(w, found, {w})
  /\ UNCHANGED left

(* Its pods or metrics cannot be read, which counts as busy.               *)
CheckMiss(w) ==
  /\ pc = "check"
  /\ w \in todo
  /\ Spend("misses")
  /\ Checked(w, found, {w})

-----------------------------------------------------------------------------
(* scaleDownIdleWorkloads, of one workload.                                *)
Visit(w) ==
  /\ pc = "scale"
  /\ w \in todo
  /\ todo' = todo \ {w}
  /\ UNCHANGED <<present, low, detector, cache, fresh, found, elapsed, busy, quiet>>

(* A plausible slip: the setting is recorded after it was written.         *)
ScaleDownThenRecord(w) ==
  LET stopped == Quiesce(KindOf[w], spec[w])
  IN  /\ Visit(w)
      /\ w \in present /\ Running(KindOf[w], spec[w])
      /\ spec' = [spec EXCEPT ![w] = stopped]
      /\ obj' = [obj EXCEPT !.scaled = @ \cup {Scaled(w, stopped)}]
      /\ down' = [down EXCEPT ![w] = DownFrom(spec[w], "pending")]
      /\ pc' = "persist"
      /\ UNCHANGED left

(* It is still running: stop it and append its entry to the loop's copy.   *)
ScaleDown(w) ==
  /\ Visit(w)
  /\ w \in present /\ Running(KindOf[w], spec[w])
  /\ spec' = [spec EXCEPT ![w] = Quiesce(KindOf[w], spec[w])]
  /\ obj' = [obj EXCEPT !.scaled = @ \cup {Scaled(w, spec[w])}]
  /\ down' = [down EXCEPT ![w] = DownFrom(spec[w], "pending")]
  /\ pc' = "persist"
  /\ UNCHANGED left

(* Somebody else has stopped it: the status is written all the same.       *)
ScaleNothing(w) ==
  /\ Visit(w)
  /\ w \in present /\ ~Running(KindOf[w], spec[w])
  /\ pc' = "persist"
  /\ UNCHANGED <<spec, obj, down, left>>

(* It cannot be read, or is not written: the error is logged.              *)
ScaleFails(w) ==
  /\ Visit(w)
  /\ pc' = ScaleOrReport(todo')
  /\ IF w \in present THEN Spend("misses") ELSE UNCHANGED left
  /\ UNCHANGED <<spec, obj, down>>

(* It is written but the answer is lost: the same, for the controller.     *)
ScaleUnanswered(w) ==
  /\ Visit(w)
  /\ Spend("aborts")
  /\ w \in present /\ Running(KindOf[w], spec[w])
  /\ spec' = [spec EXCEPT ![w] = Quiesce(KindOf[w], spec[w])]
  /\ down' = [down EXCEPT ![w] = DownFrom(spec[w], "lost")]
  /\ pc' = ScaleOrReport(todo')
  /\ UNCHANGED obj

(* A plausible slip: a forced write, at whatever version.                  *)
WriteForced ==
  /\ detector' = [detector EXCEPT !.idle = obj.idle, !.scaled = obj.scaled]
  /\ down' = Rerecord("pending", "kept")
  /\ quiet' = [w \in Workloads |-> IF w \in busy THEN 0 ELSE quiet[w]]

(* Status().Update: the idle list and the entries of this loop, at the     *)
(* version it has read.                                                    *)
Write ==
  /\ fresh
  /\ detector' = [detector EXCEPT !.idle = obj.idle, !.scaled = obj.scaled]
  /\ down' = Rerecord("pending", "kept")
  /\ quiet' = [w \in Workloads |-> IF w \in busy THEN 0 ELSE quiet[w]]

(* The status write after each workload.                                   *)
Persist ==
  /\ pc = "persist"
  /\ Write
  /\ pc' = ScaleOrReport(todo)
  /\ UNCHANGED <<cluster, cache, obj, fresh, todo, found, elapsed, busy, left>>

(* It fails: the loop goes to a last attempt to write the status.          *)
PersistFails ==
  /\ pc = "persist"
  /\ IF fresh THEN Spend("aborts") ELSE UNCHANGED left
  /\ pc' = "retry"
  /\ UNCHANGED <<cluster, detector, cache, obj, fresh, todo, found, elapsed, down, busy, quiet>>

(* The last attempt, and the status write of a reconcile without errors.   *)
Report ==
  /\ pc \in {"retry", "report"}
  /\ Write
  /\ End
  /\ UNCHANGED <<cluster, cache, left>>

(* A status write at an old version is refused.                            *)
WriteRefused ==
  /\ pc \in {"retry", "report", "progress"}
  /\ ~fresh
  /\ Fail
  /\ UNCHANGED left

-----------------------------------------------------------------------------
(* A plausible slip: a restored entry counts as one that remains.          *)
RestoreAndKeep(e) ==
  /\ pc = "restore"
  /\ e \in obj.scaled /\ e.name \in todo
  /\ e.name \in present
  /\ spec' = [spec EXCEPT ![e.name] = Restore(KindOf[e.name], @, e.original)]
  /\ todo' = todo \ {e.name}
  /\ pc' = RestoreOrRelease(todo', obj.scaled)
  /\ down' = [down EXCEPT ![e.name] = NotDown]
  /\ UNCHANGED <<present, low, detector, cache, obj, fresh, found, elapsed, busy, quiet, left>>

(* restoreScaledWorkloads, of one entry: write the recorded setting.       *)
RestoreUpdate(e) ==
  /\ pc = "restore"
  /\ e \in obj.scaled /\ e.name \in todo
  /\ e.name \in present
  /\ spec' = [spec EXCEPT ![e.name] = Restore(KindOf[e.name], @, e.original)]
  /\ obj' = [obj EXCEPT !.scaled = @ \ {e}]
  /\ todo' = todo \ {e.name}
  /\ pc' = RestoreOrRelease(todo', obj'.scaled)
  /\ down' = [down EXCEPT ![e.name] = NotDown]
  /\ UNCHANGED <<present, low, detector, cache, fresh, found, elapsed, busy, quiet, left>>

(* It cannot be read or written: the entry stays.                          *)
RestoreFails(e) ==
  /\ pc = "restore"
  /\ e \in obj.scaled /\ e.name \in todo
  /\ IF e.name \in present THEN Spend("misses") ELSE UNCHANGED left
  /\ todo' = todo \ {e.name}
  /\ pc' = RestoreOrRelease(todo', obj.scaled)
  /\ UNCHANGED <<cluster, detector, cache, obj, fresh, found, elapsed, down, busy, quiet>>

(* What is left to restore is written, and the deletion tried again.       *)
Progress ==
  /\ pc = "progress"
  /\ fresh
  /\ detector' = [detector EXCEPT !.idle = obj.idle, !.scaled = obj.scaled]
  /\ End
  /\ UNCHANGED <<cluster, cache, down, quiet, left>>

(* The finalizer is removed, and the detector with it.                     *)
Release ==
  /\ pc = "release"
  /\ fresh
  /\ detector' = Gone
  /\ End
  /\ UNCHANGED <<cluster, cache, down, quiet, left>>

UpdateRefused ==
  /\ pc \in {"attach", "release"}
  /\ ~fresh
  /\ Fail
  /\ UNCHANGED left

(* Any other error that ends the loop, or a crash.                         *)
Abort ==
  /\ pc # "idle"
  /\ Spend("aborts")
  /\ Fail

(* What the loop does next; its calls that fail are left to chance.        *)
Step ==
  \/ Attach \/ Persist \/ Report \/ WriteRefused \/ Progress \/ Release \/ UpdateRefused
  \/ PersistFails
  \/ \E w \in todo : CheckIdle(w) \/ CheckBusy(w) \/ ScaleDown(w) \/ ScaleNothing(w) \/ ScaleFails(w)
  \/ \E e \in obj.scaled : RestoreUpdate(e) \/ RestoreFails(e)

Chance ==
  \/ Abort
  \/ \E w \in todo : CheckMiss(w) \/ ScaleUnanswered(w)

-----------------------------------------------------------------------------
(* The environment.  A user gives a workload another setting.              *)
UserEdit(w) ==
  /\ Spend("edits")
  /\ w \in present
  /\ \E st \in UserSettings[w] \ {spec[w]} : spec' = [spec EXCEPT ![w] = st]
  /\ down' = [down EXCEPT ![w] = NotDown]
  /\ UNCHANGED <<present, low, detector, cache, quiet, loop>>

DeleteWorkload(w) ==
  /\ Spend("edits")
  /\ w \in present
  /\ present' = present \ {w}
  /\ down' = [down EXCEPT ![w] = NotDown]
  /\ UNCHANGED <<spec, low, detector, cache, quiet, loop>>

FlipLoad(w) ==
  /\ Spend("flips")
  /\ low' = IF w \in low THEN low \ {w} ELSE low \cup {w}
  /\ UNCHANGED <<spec, present, detector, cache, down, quiet, loop>>

OlderEntries(entries) == {[e EXCEPT !.age = Older(@)] : e \in entries}

Tick ==
  /\ detector' = [detector EXCEPT !.idle = OlderEntries(@)]
  /\ cache' = [cache EXCEPT !.idle = OlderEntries(@)]
  /\ obj' = [obj EXCEPT !.idle = OlderEntries(@)]
  /\ found' = OlderEntries(found)
  /\ elapsed' = IF pc = "check" THEN Older(elapsed) ELSE elapsed
  /\ quiet' = [w \in Workloads |-> Older(quiet[w])]
  /\ UNCHANGED <<cluster, pc, fresh, todo, down, busy, left>>

Sync ==
  /\ cache # detector
  /\ cache' = detector
  /\ UNCHANGED <<cluster, detector, down, quiet, left, loop>>

UserChange(changed) ==
  /\ Spend("changes")
  /\ detector.exists
  /\ detector' = changed
  /\ fresh' = FALSE
  /\ UNCHANGED <<cluster, cache, pc, obj, todo, found, elapsed, down, busy, quiet>>

ChangeAction ==
  UserChange([detector EXCEPT !.action = IF @ = "scale" THEN "alert" ELSE "scale"])

(* The finalizer holds the detector back.                                  *)
Delete ==
  /\ ~detector.deleting
  /\ UserChange(IF detector.finalizer THEN [detector EXCEPT !.deleting = TRUE] ELSE Gone)

Environment ==
  \/ Tick \/ Sync \/ ChangeAction \/ Delete
  \/ \E w \in Workloads : UserEdit(w) \/ DeleteWorkload(w) \/ FlipLoad(w)

-----------------------------------------------------------------------------
Init ==
  /\ spec \in [Workloads -> UNION {UserSettings[w] : w \in Workloads}]
  /\ \A w \in Workloads : spec[w] \in UserSettings[w]
  /\ present = Workloads
  /\ low \in SUBSET Workloads
  /\ detector = NewDetector
  /\ cache = NewDetector
  /\ pc = "idle"
  /\ obj = NewDetector
  /\ fresh = FALSE
  /\ todo = {}
  /\ found = {}
  /\ elapsed = 0
  /\ down = [w \in Workloads |-> NotDown]
  /\ busy = {}
  /\ quiet = [w \in Workloads |-> 0]
  /\ left = [edits |-> MaxEdits, flips |-> MaxFlips, aborts |-> MaxAborts,
             misses |-> MaxMisses, changes |-> MaxChanges]

Next == Start \/ Step \/ Chance \/ Environment

Spec == Init /\ [][Next]_vars

(* The detector is requeued or retried whatever a reconcile returned, a    *)
(* loop that runs goes on, the informer catches up and time passes.        *)
Fairness ==
  WF_vars(Start) /\ WF_vars(Step) /\ WF_vars(Sync) /\ WF_vars(Tick)

FairSpec == Spec /\ Fairness

-----------------------------------------------------------------------------
RunningSettings(w) == {st \in Settings(KindOf[w]) : Running(KindOf[w], st)}

IdleEntries == [name : Workloads, age : Ages]

(* Entries of status.scaledWorkloads: workloads that ran.                  *)
ScaledEntries ==
  {e \in [name : Workloads, original : AnySetting] : e.original \in RunningSettings(e.name)}

Detectors ==
  [exists : BOOLEAN, deleting : BOOLEAN, finalizer : BOOLEAN, action : {"alert", "scale"},
   idle : SUBSET IdleEntries, scaled : SUBSET ScaledEntries]

Places == {"idle", "attach", "check", "scale", "persist", "retry", "report",
           "restore", "progress", "release"}

(* Types; every recorded original is a setting in which the workload runs. *)
TypeOK ==
  /\ spec \in [Workloads -> AnySetting]
  /\ \A w \in Workloads : spec[w] \in Settings(KindOf[w])
  /\ present \subseteq Workloads
  /\ low \subseteq Workloads
  /\ detector \in Detectors
  /\ cache \in Detectors
  /\ pc \in Places
  /\ obj \in Detectors
  /\ fresh \in BOOLEAN
  /\ todo \subseteq Workloads
  /\ found \subseteq IdleEntries
  /\ elapsed \in Ages
  /\ DOMAIN down = Workloads
  /\ \A w \in Workloads :
       down[w] \in {NotDown} \cup [was : RunningSettings(w), record : {"pending", "kept", "lost"}]
  /\ busy \subseteq Workloads
  /\ quiet \in [Workloads -> Ages]

(* What the detector has scaled down and recorded is in its status in the  *)
(* API server, with the setting it had, and the finalizer holds the        *)
(* detector back, until the workload is restored: no status write, however *)
(* old the copy it is made from, loses it, and no deletion leaves it down  *)
(* ("On detector deletion: restores all scaled workloads via finalizer").  *)
Recorded ==
  \A w \in Workloads :
    /\ HasRecord(w, "kept") =>
         detector.exists /\ detector.finalizer /\ Scaled(w, down[w].was) \in detector.scaled
    /\ HasRecord(w, "pending") =>
         pc \in {"persist", "retry"} /\ Scaled(w, down[w].was) \in obj.scaled

(* A loop at the API server's version knows all of that too.               *)
FreshCopy ==
  pc # "idle" /\ fresh =>
    /\ detector.exists
    /\ obj.finalizer = detector.finalizer
    /\ \A w \in Workloads :
         HasRecord(w, "kept") => Scaled(w, down[w].was) \in obj.scaled
    /\ pc \in {"attach", "check", "scale", "persist", "retry"} =>
         detector.scaled \cup cache.scaled \subseteq obj.scaled

(* Where the loop stands and what it has still to do.                      *)
Phases ==
  /\ pc \in {"check", "scale", "persist", "retry", "report"} => obj.finalizer
  /\ pc = "release" => obj.scaled = {}
  /\ pc \in {"scale", "persist"} => todo \cap Names(obj.scaled) = {}

(* What the loop has looked at: a workload is still to check, idle or      *)
(* busy, what it found busy is not in the list it writes, and only what is *)
(* idle long enough is scaled down.                                        *)
Sorted ==
  /\ pc # "check" => found = {} /\ elapsed = 0
  /\ pc \in {"idle", "attach"} => busy = {}
  /\ pc = "check" =>
       todo \cap busy = {} /\ todo \cap Names(found) = {} /\ busy \cap Names(found) = {}
  /\ pc \in {"scale", "persist", "retry", "report"} => busy \cap Names(obj.idle) = {}
  /\ pc \in {"scale", "persist"} =>
       \A w \in todo : \E e \in obj.idle : e.name = w /\ e.age >= IdleDuration

(* What the detector has scaled down and recorded is as it left it, and    *)
(* no copy of the status has another original for it.                      *)
Agreed ==
  \A w \in Workloads :
    /\ down[w] # NotDown => spec[w] = Quiesce(KindOf[w], down[w].was)
    /\ HasRecord(w, "kept") \/ (HasRecord(w, "pending") /\ fresh) =>
         \A e \in detector.scaled \cup cache.scaled \cup obj.scaled :
           e.name = w => e.original = down[w].was

(* An idle entry is never older than the last time the workload was        *)
(* recorded not to be idle.                                                *)
AgesHold ==
  /\ \A e \in detector.idle : e.age <= quiet[e.name]
  /\ pc # "idle" /\ fresh => \A e \in obj.idle \cup found : e.age <= quiet[e.name]
  /\ pc = "check" => \A w \in Workloads : elapsed <= quiet[w]

IInv ==
  TypeOK /\ Recorded /\ FreshCopy /\ Phases /\ Sorted /\ Agreed /\ AgesHold

(* The restore gives a workload exactly the setting it was scaled from.    *)
RestoresExactly ==
  [][\A w \in Workloads :
       pc = "restore" /\ HasRecord(w, "kept") /\ ~HasRecord(w, "kept")' /\ w \in todo \ todo'
       => spec'[w] = down[w].was]_vars

(* "Tracks how long each workload has been continuously idle": a loop with *)
(* a current copy scales a workload down only if no check that went on     *)
(* record in the last IdleDuration found it busy, stopped or unreadable.   *)
IdleLongEnough ==
  [][\A w \in Workloads :
       pc = "scale" /\ fresh /\ w \in todo \ todo' /\ spec'[w] # spec[w]
       => quiet[w] >= IdleDuration]_vars

(* A detector that is being deleted ends up gone, unless what it has still *)
(* to restore was deleted.                                                 *)
DeletionEnds ==
  <>[](detector.deleting /\ Names(detector.scaled) \subseteq present) => <>(~detector.exists)

CanScale(w) ==
  /\ detector.exists /\ ~detector.deleting /\ detector.action = "scale"
  /\ w \in present /\ w \in low /\ Running(KindOf[w], spec[w])

(* A workload without an entry does not stay idle for ever.                *)
ScalesIdle ==
  \A w \in Workloads : ~ <>[](CanScale(w) /\ w \notin Names(detector.scaled))

-----------------------------------------------------------------------------
(* What the repository says of the controller and the code does not do.    *)

(* "In scale mode: scales down workloads idle longer than idleDuration":   *)
(* no workload stays idle for ever.                                        *)
ScalesEveryIdle == \A w \in Workloads : ~ <>[]CanScale(w)
=============================================================================
