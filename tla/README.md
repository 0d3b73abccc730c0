# A verification project for Slumlord

Slumlord is a Kubernetes operator (Go, controller-runtime) that saves cost: it
puts workloads to sleep on a schedule, detects idle ones, packs pods onto fewer
nodes and drains nodes. This directory holds TLA+ models of its controllers,
the TLC runs that check them and TLAPS proofs about them. Paths below are
relative to the repository (`src/` in the tables of `PROJECT.json`).

## The system

All components run in one operator process. The models assume that there is one
at a time: one replica, or leader election, which the Helm chart switches on and
the flag of the binary does not by default (`cmd/main.go:51`). The controllers
share nothing but the API server. Each reconciles one object at a time per key;
schedules up to five at once (`sleepschedule_controller.go:1525`), the other
kinds with one worker each, so one object after the other, and different kinds
concurrently. Reads come from informer caches that may lag. An update of a
resource, its status or a workload carries the version read and is refused if
that is old. A patch of a pod or a node carries none: it is the difference to
the informer's copy and is applied to whatever the object is by then. An
eviction names the pod only. Any call may be carried out and its answer be lost.
A reconcile that returns an error is retried, any other is requeued after an
interval.

| Component | State it keeps | Operations | Correct if |
|---|---|---|---|
| **SleepSchedule** (`sleepschedule_controller.go`, 1527 lines) | `status.sleeping`, `managedWorkloads` (original settings), `lastTransitionTime`, `daysDisplay` | sleep, wake, verify after a wake, clear entries, suspend, requeue | what it stops is restored exactly; records survive races; operators stop first and resume last; transitions happen in time |
| **Workload kinds** (same file) | replicas, suspend flag, hibernation annotation, nodeSet counts of 13 kinds | stop, restore, "is still asleep" | a round trip restores every kind; a workload still asleep is found |
| **Sleep windows and requeue timing** (same file) | none | `shouldBeSleepingAt`, `computeRequeueInterval`, `aggregateDaysDisplay` | overnight windows, weekdays and timezones mean what they say; no transition is overlooked |
| **IdleDetector, detection and scale** (`idledetector_controller.go`) | `idleWorkloads` with `idleSince`, `scaledWorkloads`, finalizer | check, scale down, restore at deletion | only what is idle long enough is scaled; deletion restores |
| **IdleDetector, usage** (same file) | none | compare metrics with thresholds | the verdict on a workload agrees with its pods |
| **IdleDetector, resize** (same file) | `resizedWorkloads` | resize pods in place, restore when busy or deleted | what is reduced is recorded, exactly; busy pods get their requests back |
| **AutoSchedulePolicy** (`autoschedulepolicy_controller.go`) | generated SleepSchedules, owner labels, finalizer, status | create, correct drift, delete orphans, clean up | one schedule per namespace a policy alone matches; no foreign one touched; none left behind |
| **BinPacker** (`binpacker_controller.go`) | candidates, plan, eviction counts | plan from a snapshot, evict within budgets | the plan can be carried out; budgets and bounds hold; counts are exact |
| **NodeDrainPolicy** (`nodedrainpolicy_controller.go`) | `lastRun`, `nextRun`, cordons | cordon, evict, wait, uncordon or delete | enough ready nodes remain; no node is left cordoned by mistake; ticks are run |
| Dashboard, manager wiring, generated code, charts | none | read-only or wiring | not modelled |

What is hard here, and what the models are built around:

* **Two objects, two writes.** A workload is stopped in one call and recorded
  in the next. Between them anything may happen.
* **Stale copies.** A loop works from a cached copy that may be older than its
  own last write. Only optimistic locking keeps it from overwriting records, and
  pods and nodes are patched without it.
* **Lost answers.** A call that returns an error may have been carried out.
* **Half-finished work.** Sleep and wake visit many workloads, and may fail at
  each of them; the retry starts from what was recorded.
* **Users.** They edit workloads and schedules between any two calls.
* **Time.** Windows open and close while a loop runs or is retried; idle times
  and verification windows run on; cron ticks fall into runs.
* **Other controllers.** The scheduler, kubelets and workload controllers move
  pods and make them anew while a plan or a drain is carried out.

`PROJECT.json` lists 40 hazards, each at its line, with the properties that
cover it or the reason why none does.

## Modules

| Module | What it is |
|---|---|
| `Workload` | the rules for one workload of each kind: `Running`, `Quiesce`, `Restore`, `Desynced` |
| `SleepSchedule` | the reconcile loops of all schedules of a namespace, with their environment |
| `SleepWindow`, `DaysDisplay` | window arithmetic and the display of days, as operators |
| `SleepTiming` | when a schedule is looked at, as a clock with reconciles |
| `IdleScale` | the reconcile loop of one idle detector (actions `alert` and `scale`) |
| `IdleUsage` | how usage is compared with thresholds, with pods and reports that change |
| `IdleResize` | the reconcile loop of one idle detector (actions `alert` and `resize`) |
| `AutoSchedule` | the passes over all policies, with namespaces, schedules and their informer |
| `BinPacker` | the pass of one packer: analysis, plan, evictions, counts |
| `NodeDrain` | the pass of one policy through the minutes, with nodes and pods |
| `Custody` | what schedules promise the users of workloads, without loops, copies or statuses |
| `SleepCustody` | the mapping under which `SleepSchedule` implements `Custody` |
| `MC*` | instances for TLC |
| `Lemmas` | induction, sums and workloads' settings: what several modules of proofs rest on |
| `RulesProofs`, `SleepScheduleProofs`, `IdleScaleProofs`, `IdleResizeProofs`, `AutoScheduleProofs`, `BinPackerProofs`, `NodeDrainProofs` | theorems |

`SleepSchedule`, `IdleScale` and `Custody` extend `Workload`; `SleepTiming`
extends `SleepWindow` and `DaysDisplay`; `SleepCustody` extends `SleepSchedule`
and instantiates `Custody`. A module of proofs extends the module it is named
after, but for `SleepScheduleProofs`, which extends `SleepCustody` so that the
refinement is proved beside the invariant it needs, and `RulesProofs`, which
extends `SleepTiming` and `MCRules`: the rules by which the controllers decide.
`MCRules` runs `IdleUsage` and `MCWorkload` side by side: a behaviour is one of
the one or of the other.

Operators under the comment "A plausible slip"
are mutations of a definition beside them. No specification uses them; they show that a property would notice the mistake.

### SleepSchedule

One action is one API call with the code up to the next call. The variables
fall into the API server (`spec` of workloads, `sched`), the informer (`cache`),
the local variables of the running reconcile (`pc`, `obj`, `fresh`, `kinds`,
`todo`, `goal`, `desynced`), the clock (`window`) and history (`down`, `missed`).

| Code | Actions |
|---|---|
| `Reconcile`, the branches 164-264 | `StartSuspended`, `StartInvalid`, `StartSleep`, `StartWake`, `StartVerify`, `StartClear`, `StartSteady` |
| a loop of `sleepWorkloads` | `SleepList`, `SleepUpdate` or `SleepRefused`, `Persist` |
| `wakeWorkloads`, both passes | `WakeUpdate`, `WakeMiss` |
| `verifyAndCorrectWorkloads` | `VerifyList` |
| status writes 254 and 284 | `Clear`, `Finish`, or `StatusRefused` |
| any other error, lost answer or crash | `Abort` |

A status write is possible only if `fresh` holds: the copy was current when it
was read and nobody else has written the object since. An `Update` of a
workload needs the setting that was listed. Ready conditions, metrics and
events are left out. A workload is neither created nor deleted.

`down[w]` remembers who stopped `w`, from what, and what became of the entry:
`pending` (workload written, status not yet), `kept` (recorded), `lost` (the
status write failed) or `dropped` (cleared with the workload still down).

### SleepTiming

One tick is half a minute, the shortest interval the controller asks for. Days
are shortened; a timezone is an offset. A reconcile takes no time and succeeds;
what it does to workloads is the other module. Summer time, unparsable times
(which the code treats as "not sleeping") and days outside 0..6 are left out.

### IdleScale

The same discipline as `SleepSchedule`, for one detector. Times are ages in
ticks and stop at `IdleDuration`, so time never runs out and liveness can be
checked. `Attach` adds the finalizer; `CheckIdle`, `CheckBusy` and `CheckMiss`
are `detectIdleWorkloads`; `ScaleDown`, `ScaleNothing`, `ScaleFails` and
`ScaleUnanswered` are the outcomes of scaling one workload down, `Persist` the
status write after it and `PersistFails`, `Report` the second attempt at line
155; `RestoreUpdate` and `RestoreFails`, `Progress` and `Release` are the
deletion. Users edit and delete workloads, change the action and delete the
detector. `low` abstracts the metrics to one bit per workload, which `IdleUsage`
computes from pods, requests and reports. The kinds are visited in any order, a
superset of the code's. A switch to or from the action `resize` is left out.

### IdleResize

One action is the check of all workloads, the patch of one pod, or a write of
the detector. `Detect` is `detectIdleWorkloads`; `ResizeWorkload`, `ResizePod`,
`ResizePodFails`, `ResizePodUnanswered`, `NothingResized` and `PersistResize`
are one round of `resizeIdleWorkloads` with its outcomes; `StartRestore`,
`RestoreWorkload`, `RestorePod` and `RestorePodFails` are `restorePodRequests`
in both phases that call it (`restore` after a check, `undo` at deletion);
`Report`, `Release` and `WriteRefused` are the writes at the end. CPU and memory
are treated alike by the code and are one resource here. How old an idle entry
is, which `IdleScale` keeps, is left to chance. The entry of a workload that has
no pods any more is dropped at once.

`request` is what the pods request, `seen` what the informer shows of each, as
late as it likes. Everything the controller decides and records it takes from
`seen` (line 475), and a patch is the difference to it: `PatchPod` of a pod that
`seen` shows restored does nothing, and succeeds. A resize always has something
to patch, for it lowers only what `seen` shows higher.

History: `Patched` is the workload of the job in hand once a pod of it has been
patched, with an answer or without. `overlooked` holds the pods that a pass took
for restored though its patch was empty. `lost` holds the workloads of which the
code has no right record any more, and these are the ways it gets there, each of
them found by TLC when the exception is taken away:

* a pass ends, by a refused write, an error or a crash, while a workload is
  `Patched` and not in the status (`Unrecorded` in `End`);
* all patches of a workload are refused but for some that were applied and not
  answered, so that `resizedCount` is 0 (`NothingResized`, line 993);
* the original is captured from an old copy of the pod (`old` in `PersistResize`);
* an entry is dropped with a pod in `overlooked` (`Dropped` in `Report` and
  `Release`): the pod stays reduced and nothing restores it;
* the template changes while there is a record.

The first four are faults of the code, not of the model. The invariants and
`BusyIsRestored` except `lost`; what they say is that there is no other way.

### AutoSchedule

The controller has one worker, so one pass at a time: `Survey` (lists of
namespaces and policies), one of `CreateSchedule`, `LeaveForeign`,
`KeepSchedule`, `UpdateSchedule` and `VisitRefused` per namespace, then
`ListOrphans`, `DeleteOne` per orphan and `UpdateStatus`; or `ListManaged`,
`DeleteOne` and `RemoveFinalizer` at deletion. `seen` is the informer's copy of
the schedules, slot by slot. A create of a schedule that exists or in a
namespace being deleted, and an update of an old version, are refused and end
the pass; a delete names the object only. Users edit schedules, put their own
in their place, relabel and delete namespaces, and create, change, suspend and
delete policies. `Contents` is what `sleepSpecEqual` can tell apart. What the
generated schedules do is `SleepSchedule`.

### BinPacker

`Plan` is the analysis, `findCandidateNodes`, `buildSafetyContext` and
`buildConsolidationPlan` in one step, since all of it reads the informers'
copies; it may end in any plan that some order of the lists gives. `Evict`,
`NotFound`, `EvictionFails` and `EvictionUnanswered` are the outcomes of one
round of `executePlan`, the last of them an eviction that is carried out and
whose answer is lost; `WriteProgress` is the status write of the two that fail,
itself with or without an answer. `Finish` and `Abandon` are the last status
write. Between them pods end, are bound
and run again, users delete pods and change or delete the packer, and the
informers catch up. The status write is itself an event of the packer, so the
next pass may begin at once; the interval only bounds how long it may take.
Requests are percentages, and a node has one hundred.

### NodeDrain

Time runs in minutes; a cron expression is a set of minutes. `ShouldRun` is the
look-back of two minutes at lines 118-138. `StartRun` is the analysis with
candidates, their order and the limits. `Cordon`, `CordonFails`,
`CordonUnanswered`, `Evict`, `EvictionRefused`, `Evicted`, `WaitDone`, `WaitTimesOut`, `WaitFails`,
`UncordonFails`, `DeleteNode`, `DeleteFails` and `Persist` are the rounds of the
loop over candidates, `Finalize` and `FinalizeFails` its end. Pods are bound,
shown by the informer, run, terminate and come back, those of StatefulSets
under the name they had. `mine`, `drained`, `stranded` and `missed` are history
about who cordoned a node and why it still is: `stranded` are those a crash, an
uncordon that failed or saw no cordon, or a cordon without an answer left
cordoned (the code goes on to the next candidate at line 250 without a look at
the node). What only writes a condition (invalid cron expression, failed
analysis) is not told from a suspended policy.

The work queue hands the policy out at `wake` or at any time after: one worker
serves all policies (lines 659-662), and a pass of another one, a backoff or a
restart may take many minutes. `Minute` waits for the informers, which are
assumed not to be a minute late, and for nothing else.

Where the model is simpler than the code: the scheduler's look at a node and its
binding are one step (`Bind`), so that no pod decided before a cordon is bound
after it; `MaxDrainable` counts ready nodes as they are, the code as the
informer shows them, and `KeepsMinReady` excepts changes of nodes during a run;
`WaitTimesOut` needs pods that remain at the moment of the uncordon, the code
had them at its last poll, seconds before.

### Custody

A workload is free or held by the schedule that stopped it, with the setting it
had; the hold is pledged once it is recorded. `Custody` says how a pledged
workload may leave the schedule's hands: with exactly that setting, through a
user or another schedule, or by being renounced while the schedule is awake or
is deleted; and that a schedule that stops sleeping has pledged nothing more but
what it could not read. `SleepCustody` maps `down` and its history to `hold`.
`Implements` says that every step of the loops, old copies, refused writes and
crashes included, is a step of `Custody` or none.

## Runs

Bounds are constants whose names start with `Max`, `Horizon` and `Bounds`; they
bound what users, windows, time and failures do, never what the operator does,
except for the evictions in the `Bounds` of `BinPacker`, without which a packer and a scheduler that disagree would move pods for ever.

| Run | Instance | Shows |
|---|---|---|
| `rules` | all 13 kinds, counts up to 2, two nodeSets with edits while asleep; three pods, six choices of thresholds | `RoundTrip`, `DesyncIsDetected`, `QuietPodsAreIdle`, `BusyPodsAreBusy`, `NoDataIsNotIdle` |
| `core` | one schedule, an operator and a Deployment that users run in one way; one edit (resuming one by hand), two window changes, a failure, a missed read, a change of the schedule | `IInv`, `RestoresExactly`, `WakeCompletes`, `OperatorsStopFirst`, `OperatorsResumeLast`, and under fairness `EventuallySleeps`, `EventuallyWakes` |
| `pair` | two schedules on one Deployment with two running settings; an edit, two window changes | `IInv`, `RestoresExactly`, `WakeCompletes`, `Implements` |
| `timing` | one week of 25-minute days, every start | `Punctual`, `LateByInterval`, `WindowIsItsPeriods`, `DisplayIsExact` |
| `idle` | a Deployment, idle time of two ticks; one edit, two changes of load, a failure, a missed read, a change of the detector | `IInv`, `IdleLongEnough`, `RestoresExactly`, and under fairness `DeletionEnds`, `ScalesIdle` |
| `resize` | a Deployment of two pods, idle at first; an edit, a change of load, a failure or lost answer, a change of the detector; old copies of each pod | `IInv`, and under fairness `BusyIsRestored`, `DeletionEnds` |
| `autoschedule` | two policies with three specs, two namespaces with three labels; a change and a failure from any start, two changes and a failure where the policies overlap or one is new | `IInv`, `KeepsToItsOwn`, and under fairness `Converges` |
| `drain` | two nodes, three pods, four specs, ticks at minutes 1 and 3 of 4; a change, two failures or lost answers; a queue as late as it likes | `IInv`, `KeepsMinReady`, `EvictsFromCordoned`, `TicksAreRun` |
| `binpack` | two nodes, a Deployment of two pods, a StatefulSet with a budget, a pod that stays; two evictions, or one and a change, a failure or a lost answer | `IInv`, `PlanIsSound`, `SparesTheLast` |
| `resleep`, `suspended`, `resize_up` | | disagreements with the documentation, below |

Why the bounds are enough: each race needs one change by a user or window
between two calls and one failure or stale copy; the bounds allow each kind
once and the kinds together (a deleted schedule may be created again at no
cost), except in `pair`, whose failures are the refused writes of two schedules
that interfere and whose schedules are left as they are, and in `binpack`, where
a change comes with one eviction. Stale copies are not bounded anywhere.
Restoring to a wrong original needs two settings that run and one that does
not, which `pair` has. Two workloads give the order of operators and what they manage, and
partial failure; two window changes give sleep and wake, or wake and sleep. In
`timing` an overnight window, its weekday and a timezone that splits the day
need a full week; days of 25 minutes still exceed the ten-minute look-ahead and
verification windows twice over. In `autoschedule` two policies overlap and
hand a namespace over, two namespaces tell a pass that ends at the first from
one that goes on, and two changes put a schedule in the place of one that the
first has doomed. In `resize` the workload starts idle, for else nothing happens
until it is; two pods tell one that was patched from one that was not, and each
has its own informer copy; one fault can be any of a refused patch, an
unanswered one, a refused or lost write and a crash, and the one change of the
detector is its deletion or a switch of its action. In `drain` two nodes are needed for the limits to bind at the
second; one of the pods is awaited but never evicted, one comes back under its
name, and the ticks are two minutes apart so that a run can last past one. In
`binpack` the second planned pod must be refused room that the first has taken,
and the last ready replica spared.

`pair`, `drain` and `binpack` reduce by the symmetry of schedules, of nodes and of
the replicas of a Deployment; their properties are invariants and action properties only.

Deadlock is not checked where bounds or a deleted object really end a behaviour.

### Fairness

`WF` on `Start` (a reconcile is requeued or retried whatever it returned), on
`Step` (a loop that runs goes on), on `Sync` (the informer catches up; in
`IdleResize` on `SyncPod` of each pod as well) and on
time (`VerifyWindowExpires`, `Tick`). In `AutoSchedule` each policy has `SF` on
its start, because one worker serves a first-in, first-out queue of them, and a
namespace being deleted is gone in the end. Nothing is assumed of users, and
failures are bounded. There is no fairness on failing or on not failing beyond
that. `BinPacker` and `NodeDrain` have no liveness: a drain may be refused every
eviction, and a pod that was packed may be put back where it was.

## Proofs

TLAPS proves the following for every value of the constants that meets
`ConstantsAssumption` of the module (`MinutesAssumption` and `SpecsAssumption`
in `SleepTiming`, `UsageAssumption` in `IdleUsage`, `ReplicasAssumption` in
`MCRules`): any number of schedules, workloads, policies, namespaces,
nodes and pods, and any bounds on what users, time and failures do. The
assumptions say that sets of workloads, nodes and pods are finite where they are
counted or visited, that bounds and sizes are natural numbers, that users
give a workload settings of its kind, that a policy's specs have the fields the
CRD requires, and that pods start on nodes that have room for them. TLC
evaluates them in every run. In the modules of the controllers `IInv` is the
inductive invariant, the runs check it, and the other theorems follow from it.
Three theorems have a hypothesis besides, named where they are listed:
`OperatorsFirst`, `TransitionsPunctual` and the `Safety` of `IdleResize`.

**`SleepScheduleProofs`**

* `TypeCorrect`: types, and that originals are settings in which the workload
  runs.
* `Safety`: `Spec => []IInv`. `Accounted` (an entry once written stays until
  given up) is not inductive: a status write could drop an entry unless the
  loop's copy has it, which is `FreshCopy`; and re-creating a schedule is
  harmless only because `GoneForgets`. `Agreed` says that no copy, however old,
  has another original for a stopped workload: it needs `TodoToSleep` (nothing
  listed has an entry) so that `Persist` adds a new name and `StoppedIsQuiesced`
  so that a stopped workload is not stopped again. `TodoToWake` says that a
  current wake has everything still to wake.
* `ExactRestore`, `CompleteWake` and `OperatorsLast`: the action properties
  `RestoresExactly`, `WakeCompletes`, `OperatorsResumeLast`.
* `OperatorsFirst`: `OperatorsStopFirst`, of schedules that share no workload
  (`DisjointSelectors`; a single schedule is the simplest case, and the one
  `core` checks). Without the hypothesis it is false: another schedule may wake
  and resume the operator between the stop of the operator and that of what it
  manages. The invariant is `Orderly`: as long as users and lists have left a
  sleep alone, each operator a loop selects is stopped or recorded, or the loop
  has still to list or to stop it and then stops only operators
  (`OperatorsAhead`); and a schedule has records of its own workloads only
  (`OwnWorkloads`), so no other loop starts one. That the operators come first in
  `SleepOrder` (`OperatorKindsFirst`) is used where a kind is listed, that what is
  running and not recorded is always taken, in the same place.
* `CustodyKept`: `Spec => Implements`, the refinement of `Custody`. Every action
  maps to one of `Custody` or to none: an update of a workload takes it into
  custody or gives it back, `Persist` pledges it, `Clear` renounces, and a write
  that is refused changes nothing that is pledged. It needs three facts of `IInv` that no
  other theorem does: `OnePending` (a loop has at most one workload that is
  stopped and not yet recorded, so `Persist` pledges exactly that one),
  `GoneForgets` (a schedule that is gone has pledged nothing), and of `TodoToWake`
  that entries are cleared only from a copy that does not sleep.

**`RulesProofs`**

* `WindowMeansPeriods`: for every length of the day, the controller's test means
  that some period of the window contains the time; `WindowsMeanPeriods` says so
  of every behaviour.
* `LateBounded`: a transition is late by at most a minute or the reconcile
  interval. The invariant behind it is that lateness plus the time to the next
  reconcile never exceeds the interval asked for.
* `TransitionsPunctual`: `Punctual`, if a day has at least the ten minutes of the
  look-ahead (`LongDays`; it has 1440 minutes, but the model's days may be
  shorter). `TimeUntilNextTransition` tries whole minutes, and `LooksAhead` shows
  that it finds the first one with another verdict, whatever the windows. The
  invariant is `Expected`: until the next reconcile the status stays right at
  every other tick, so it is wrong for one tick at most.
* `DisplayExact`: `DisplayIsExact`. The display is a fold over the days; along its
  prefixes the ranges named cover exactly the days seen so far (`ExtendCovers`,
  `RangesCover`).
* `QuietWorkloadsAreIdle`, `BusyWorkloadsAreNotIdle` and `UnknownIsNotIdle`: the
  invariants of `IdleUsage`. What holds of every pod against its own requests
  holds of the sums (`TotalLess`, `TotalAtLeast`), once requests, loads and
  reports are known to be natural numbers of known pods (`UsageTyped`).
* `WakeUndoesSleep` and `SleepersAreDetected`: `RoundTrip` and `DesyncIsDetected`,
  for every kind and setting, from `InCycle` (a workload nobody edits reads as it
  did, or as stopping it made of that) and the lemmas about the kinds.
* `TypeCorrect`: the types of the clock, the status and the intervals.

**`IdleScaleProofs`**

* `Safety`: `Recorded` (what was scaled down and written is in the status) needs
  `FreshCopy`, since only a loop at the current version writes, and `Phases`,
  since only a loop that attached the finalizer checks and scales. `Agreed`
  gives every recorded workload one original, because a workload with an entry
  is never listed to be scaled. `AgesHold` bounds each entry's age by the time
  since the workload was last recorded not idle; it survives a status write only
  because what the loop found busy is not in the list it writes, which is
  `Sorted`.
* `RestoresAreExact` and `ScalesOnlyTheIdle`: the properties `RestoresExactly`
  and `IdleLongEnough`.

**`IdleResizeProofs`**: `Safety`, under the hypothesis `Uniform` that the
containers of a pod request the same. Without it the theorem is false: the
entry holds what the last container requests, and what is restored to the others
is not what they had (run `resize_up`). That a reduced pod is recorded
(`ReducedIsRecorded`) rests on `RestoredIsWhole`: what a restore has dropped from
its copy of the status, or visited in the workload in hand, has its requests
back or is in `overlooked`, so the write that drops the entry leaves nothing
behind but what it puts into `lost`. `JobIsExact` says
the same of what is about to be recorded as `EntriesAreExact` of what is, for
the status, the loop's copy and the informer's alike; without the copies it is
not inductive. `FinalizerHolds` says that nothing is recorded without a
finalizer, `FreshCopy` that a loop at the current version has every entry.

**`AutoScheduleProofs`**

* `Safety`: `FinalizerCleans` (a generated schedule does not outlive the finalizer
  of its policy, unless the clean-up overlooked it) needs `PurgeIsComplete`, that
  the clean-up has listed all it has still to delete, and `PassHasFinalizer`,
  that a pass creates nothing without a finalizer.
* `TouchesItsOwn`: `KeepsToItsOwn`. Updates are guarded by the version, but a
  deletion names the object only, so the proof needs to know whose a listed slot
  can have become: `SeenOwners` says that the informer never shows a schedule of
  one policy where there is by now one of another, since a policy creates only
  where the informer shows nothing, and `DoomedOwners` says the same of the list.

**`NodeDrainProofs`**

* `Safety`: `CordonedIsCurrent` is the strengthening of `CordonedMeansDrained` to
  the middle of a run, with each way to leave a node behind in `stranded`.
  `DrainedIsQuiet` holds because a drained node stays cordoned and the scheduler
  binds nothing there.
* `LeavesMinReady`: `KeepsMinReady`, from `ReadyIsLeft`, which carries the surplus
  counted at the start through every cordon, drain and deletion.
* `EvictsWhereCordoned`: `EvictsFromCordoned`, from `CurrentIsCordoned` and
  `HomeIsHere` (a pod still to evict is where the analysis saw it).
* `RunsEveryTick`: `TicksAreRun`, from `ComesBack` (the policy is in the queue no
  later than at the next tick, at once if it missed one) and `RunIsShown`, that
  as long as the informer does not show a run, the policy is handed out again.
  Nothing is assumed of when the worker takes it: the property speaks of the
  minutes at whose end the policy is neither in a run nor waiting. A tick is
  lost if at the end of its minute and of the next the policy is, as in a run of
  several nodes with pods that do not go, or behind one of another policy; the
  look-back of the code does not reach it any more, and nothing reports it.

**`BinPackerProofs`**

* `Safety`: `CountsAreExact` needs `IdleIsEmpty` and `FreshCopy`, that a copy that
  can be written adds to the counts there are. It counts what the code cannot
  know of (`lost`: passes that could not write, evictions without an answer).
  `OneIsSpared` says, through the evictions of a pass, that a ready pod of each
  workload is not planned, and needs that the plan did spare one.
* `PlansFit`: `PlanIsSound`, for any pods, nodes and orders. The plan is a fold
  over the candidates' pods; the proof goes along the prefixes of that list, and
  shows that each step keeps the sums of requests on every node, and the counts
  of every workload, within what the budgets left.
* `LastIsSpared`: `SparesTheLast`, from `OneIsSpared`.

**`Lemmas`**: `RestoreQuiesced` (restoring a workload as the sleep left it gives
the recorded setting, for every kind), that stopping stops (`QuiescedNotRunning`)
and is seen (`QuiescedIsDesynced`), and typing; and induction over the natural
numbers and over the subsets of a finite set (`EveryNat`, `EverySubset`,
`LeastExists`). The library's induction theorems take an operator as a
parameter, so these are stated for sets: a subset of `Nat` that has the first
number and with each the next is `Nat`. With them the definitions of the
community modules' folds and sums are shown to be what they are meant to be
(`FoldExists`, `TotalAdd`, `TotalRemove`; `PlanningStep` in `BinPackerProofs`,
`RangingExists` in `RulesProofs`).

**Only model-checked**

* Liveness under fairness: `EventuallySleeps`, `EventuallyWakes`, `DeletionEnds`,
  `ScalesIdle`, `BusyIsRestored`, `Converges`. It is out of the prover's reach.
* What happens to a workload whose nodeSets are edited while it sleeps: `MCWorkload`
  has the edits, and `RoundTrip` and `DesyncIsDetected` except them.
* That two of the hypotheses are needed: `resize_up` shows it of `Uniform`; with a
  second schedule in `SleepSchedule_core.cfg` TLC shows `OperatorsStopFirst`
  violated where the two select the same operator.

## What the models found

With a run:

* **A window within ten minutes of the last wake is slept through** (`resleep`).
  Entries stay for verification, and `sleepWorkloads` skips what has one.
* **Suspending a half-asleep schedule wakes nothing** (`suspended`), because
  `status.sleeping` is set at the end of the sleep.
* **A resize can raise requests** (`resize_up`). The original is captured from
  the last container and the target written to all, so a small sidecar gets
  more than it had, against the comment at `idledetector_controller.go:941`.

Stated in a module, without a run; adding the property to the configuration
named makes TLC show the counterexample:

* `ScalesEveryIdle` (`IdleScale.cfg`): a workload scaled up again by a user is
  never scaled down again, for its entry stays until the detector is deleted
  (line 602).
* `BusyIsNotIdle` (`IdleUsage`): a workload that requests nothing of the
  resource of the threshold, or of which only some pods are reported, is called
  idle however much it uses (line 556).
* `ManualUntouched` (`AutoSchedule.cfg`): a schedule put by hand in the place of
  one that a pass has listed for deletion is deleted
  (`autoschedulepolicy_controller.go:232`; README.md:322-323 says such schedules are
  never touched).
* `DrainedIsEmpty` (`NodeDrain.cfg`): pods that terminate do not count as
  remaining, so a node is deleted under them
  (`nodedrainpolicy_controller.go:593`, against the comment at 575).
* `EvictsOfTwo` (`BinPacker.cfg`): a pass that begins before the status of a
  workload shows the evictions of the last one evicts its last ready replica,
  against the comment at `binpacker_controller.go:566`.

Known from the same models, without a run of their own:

* A status write refused after a workload was stopped leaves it down and
  unrecorded (`down` = `lost`), in both controllers. The comments at
  `sleepschedule_controller.go:682` and `idledetector_controller.go:588` say
  that this is prevented; they prevent it for the workloads before it.
* A sleep that fails half-way, followed by the end of the window, drops the
  entries of workloads that are down (`dropped`, line 254).
* Deleting a sleeping schedule wakes nothing (there is no finalizer), although
  README.md:451 relies on it. `IdleDetector` does this right.
* `selector.matchNames` is documented for schedules (README.md:332) and never
  read by their controller.
* An Elasticsearch with a nodeSet of zero nodes is corrected on every
  verification (line 618 compares with zero, not with the original).
* With `reconcileInterval` above ten minutes transitions are late by up to the
  interval (`LateByInterval` bounds it); `Punctual` needs the antecedent.
* An idle check whose status write fails is forgotten, so "continuously idle"
  holds of recorded checks, and of loops with a current copy, only: this is why
  `IdleLongEnough` says so.
* A scaled or resized workload that was deleted keeps its detector from being
  removed: both `DeletionEnds` except it.
* A resize whose status write is refused is repeated from the reduced requests,
  which are then recorded as the original (`lost` in `IdleResize`).
* Pods are patched without a version, from the informer's copy. A restore soon
  after a resize may find the copy without the resize: the patch is empty, no
  error is returned, the entry is dropped or the finalizer removed, and the pod
  stays reduced for good (line 1083; `overlooked`). In the same way the reduced
  or an outdated request can be recorded as the original (line 891; `old`), and
  patches that are applied and not answered leave pods reduced without a record
  (line 993).
* Pods whose resize fails stay as they are while the workload is recorded as
  resized (line 986); a workload that was resized is judged by its reduced
  requests, and so may be called busy and restored at the next check.
* Switching the action from `resize` to `alert` leaves pods resized until the
  detector is deleted or the action is switched back.
* A second policy that matches a namespace makes the first delete the schedule
  it has there, suspended or not (`autoschedulepolicy_controller.go:113`); the
  workloads it held stop where they are.
* A schedule that the informer does not show yet when its policy is cleaned up
  stays behind without an owner (`overlooked`).
* A cordon that is applied and not answered leaves its node cordoned, though
  the run reports it as failed and never looks at it again (line 250).
* A tick at the end of whose minute and of the next the policy is in a run or
  waits for the worker, which all policies share, is lost (lines 123, 659).
* A run of a drain policy whose last status write is refused is run again, and
  may drain `maxNodesPerRun` nodes again (line 335). A tick one minute after
  another is skipped: the look-back finds the first of the two (line 123).
* A node with a pod that is awaited but never evicted (`emptyDir`, `podSelector`)
  is emptied of the others, times out and is uncordoned at every run; uncordoning
  also undoes the cordon a user made meanwhile.
* `maxEvictionsPerCycle` is no rate: each status write begins the next cycle.
* A cycle whose status write is refused does not count its evictions, and an
  eviction that is carried out but not answered is never counted (`lost` in
  `BinPacker`; lines 797-809). A budget that covers several workloads is counted for each of
  them by the plan; the eviction API refuses the surplus, which ends the plan.

## Plan

Done: workloads, sleep schedules, windows and timing, idle detection with
scaling, usage and resizing, generated schedules, bin packing, node drains, and
the abstract specification of sleep schedules with its refinement.

Proved: the inductive invariant of every controller, every invariant and action
property of the runs, and the refinement of `Custody`. What is left:

1. `SleepAndIdle`: a schedule and a detector on one workload, composed over the
   workload they share.
2. A `Custody` of the detector, to say of it what is said of schedules.

## Not modelled

* The dashboard reads and shows resources and changes no state. Generated deep
  copies have no behaviour of their own. Of the manager's wiring, flags and the
  Helm chart, leader election and the informer cache are in the environments.
* Ready conditions, metrics, events and log lines, which no decision depends on.
* Summer time and unparsable times, days outside 0..6, invalid cron expressions
  and label selectors.
* Changes of `spec.selector` of a schedule or a detector, and of `nodeSelector`
  and `podSelector` of packers and drain policies: what they match is a constant.
* In `IdleResize` the presence of a workload is read as it is, where the code
  reads the informer's copy, and a pod keeps its name when it is replaced; a
  patch of a Deployment's pod that is gone by then is a patch that fails.
* The window of a packer, which has the rule of `SleepWindow`: outside it a pass
  has not begun.
* A switch between the actions `scale` and `resize` of one detector, and a
  detector and a schedule on one workload (`SleepAndIdle`).
