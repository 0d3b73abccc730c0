--------------------------- MODULE SleepSchedule ---------------------------
(***************************************************************************)
(* The SleepSchedule controller: the reconcile loop of every schedule, the *)
(* workloads it stops and restores, and the API server between them.       *)
(*                                                                         *)
(* One action is one API call of the loop (with the code up to the next    *)
(* call), so the loops of two schedules, their users and the clock         *)
(* interleave at every call.  An object is written only at the version the *)
(* writer has read (the API server's optimistic locking); a refused write, *)
(* any other API error, a lost answer and a crash of the operator all end  *)
(* the loop where it stands, and the schedule is reconciled again later.   *)
(***************************************************************************)
EXTENDS Workload, FiniteSets, Sequences

CONSTANTS
  Schedules,          \* the SlumlordSleepSchedules of one namespace
  Workloads,          \* the workloads of that namespace
  KindOf,             \* the kind of each workload
  UserSettings,       \* the settings a user may give each workload
  Selector,           \* spec.selector of each schedule, resolved to workloads:
                      \* [labels : SUBSET Workloads, types : SUBSET Kinds];
                      \* matchNames is not read by this controller
  MaxEdits,           \* bounds: edits of workloads by users,
  MaxFlips,           \*         openings and closings of sleep windows,
  MaxAborts,          \*         failed calls and crashes,
  MaxMisses,          \*         reads that miss a workload,
  MaxChanges          \*         changes of schedules by users

ASSUME ConstantsAssumption ==
  /\ IsFiniteSet(Workloads)
  /\ {MaxEdits, MaxFlips, MaxAborts, MaxMisses, MaxChanges} \subseteq Nat
  /\ KindOf \in [Workloads -> Kinds]
  /\ \A w \in Workloads : UserSettings[w] \subseteq Settings(KindOf[w])
  /\ \A s \in Schedules : Selector[s].labels \subseteq Workloads

VARIABLES
  spec,               \* the setting of each workload in the API server
  sched,              \* each schedule in the API server
  cache,              \* the operator's (informer's) copy of each schedule
  window,             \* whether the current time is in a window of the schedule
  pc,                 \* where the schedule's reconcile loop stands
  obj,                \* the loop's own copy of the schedule's status
  fresh,              \* the loop's copy is at the API server's version
  kinds,              \* the kinds the loop has still to list
  todo,               \* the listed workloads it has still to write
  goal,               \* the value of status.sleeping it is working towards
  desynced,           \* the verification found a sleeping workload
  down,               \* history: who stopped each workload, and from what
  missed,             \* history: stopped workloads a wake could not read
  left                \* what is left of each bound

vars == <<spec, sched, cache, window, pc, obj, fresh, kinds, todo, goal,
          desynced, down, missed, left>>

loop == <<pc, obj, fresh, kinds, todo, goal, desynced>>

-----------------------------------------------------------------------------
(* An entry of status.managedWorkloads.  The kind is the workload's.       *)
Entry(w, st) == [name |-> w, original |-> st]

Names(entries) == {e.name : e \in entries}

(* The status of a schedule.  recent: lastTransitionTime is set and is no  *)
(* older than the verification window of ten minutes.                      *)
NoStatus == [sleeping |-> FALSE, managed |-> {}, recent |-> FALSE]

StatusOf(c) == [sleeping |-> c.sleeping, managed |-> c.managed, recent |-> c.recent]

WithStatus(c, st) ==
  [c EXCEPT !.sleeping = st.sleeping, !.managed = st.managed, !.recent = st.recent]

NewSchedule == [exists |-> TRUE, suspend |-> FALSE, windows |-> TRUE,
                sleeping |-> FALSE, managed |-> {}, recent |-> FALSE]

Gone == [NewSchedule EXCEPT !.exists = FALSE]

(* A plausible slip: the operators in the order of verifyAndCorrect-       *)
(* Workloads, after what they look after.                                  *)
AppsFirstOrder ==
  <<"Deployment", "StatefulSet", "CronJob", "HelmRelease", "Kustomization",
    "MariaDB", "MaxScale", "Cluster", "ThanosRuler", "Alertmanager",
    "Prometheus", "Kibana", "Elasticsearch">>

(* The order in which sleepWorkloads and verifyAndCorrectWorkloads take    *)
(* the kinds.                                                              *)
SleepOrder ==
  <<"HelmRelease", "Kustomization", "MariaDB", "MaxScale", "Deployment",
    "StatefulSet", "CronJob", "Cluster", "ThanosRuler", "Alertmanager",
    "Prometheus", "Kibana", "Elasticsearch">>

VerifyOrder ==
  <<"Deployment", "StatefulSet", "CronJob", "HelmRelease", "Kustomization",
    "MariaDB", "MaxScale", "Cluster", "ThanosRuler", "Alertmanager",
    "Prometheus", "Kibana", "Elasticsearch">>

ShouldManageType(s, k) == Selector[s].types = {} \/ k \in Selector[s].types

(* The kinds whose list has something in this model; listing another one   *)
(* changes nothing.                                                        *)
ManagedKinds(s) ==
  {k \in {KindOf[w] : w \in Workloads} : ShouldManageType(s, k)}

NextKind(ks, order) ==
  CHOOSE k \in ks :
    \E i \in DOMAIN order :
      order[i] = k /\ \A j \in 1..(i - 1) : order[j] \notin ks

(* What List returns: the workloads of a kind that match spec.selector's   *)
(* labels.                                                                 *)
Listed(s, k) == {w \in Selector[s].labels : KindOf[w] = k}

-----------------------------------------------------------------------------
NotDown == [record |-> "none"]

IsDown(w) == down[w].record # "none"

(* The history of a workload that schedule s has just stopped.  record     *)
(* says what became of the entry in status.managedWorkloads:               *)
(*   pending    appended to the loop's copy, not written yet               *)
(*   kept       in the schedule's status in the API server                 *)
(*   lost       its status write failed                                    *)
(*   dropped    removed with the workload still stopped                    *)
DownBy(s, st) == [by |-> s, was |-> st, record |-> "pending"]

IsDownBy(w, s, records) ==
  IsDown(w) /\ down[w].by = s /\ down[w].record \in records

Rerecord(s, from, to) ==
  [w \in Workloads |->
     IF IsDownBy(w, s, {from}) THEN [down[w] EXCEPT !.record = to] ELSE down[w]]

(* The reconcile loop of s ends; what it has not written is lost.          *)
End(s) ==
  /\ pc' = [pc EXCEPT ![s] = "idle"]
  /\ obj' = [obj EXCEPT ![s] = NoStatus]
  /\ fresh' = [fresh EXCEPT ![s] = FALSE]
  /\ kinds' = [kinds EXCEPT ![s] = {}]
  /\ todo' = [todo EXCEPT ![s] = {}]
  /\ goal' = [goal EXCEPT ![s] = FALSE]
  /\ desynced' = [desynced EXCEPT ![s] = FALSE]

(* It returns an error.                                                    *)
Fail(s) ==
  /\ End(s)
  /\ down' = Rerecord(s, "pending", "lost")
  /\ UNCHANGED <<spec, sched, cache, window, missed>>

(* One unit of a bound is used up.                                         *)
Spend(bound) ==
  /\ left[bound] > 0
  /\ left' = [left EXCEPT ![bound] = @ - 1]

-----------------------------------------------------------------------------
(* Reconcile: the read of the schedule, from the informer's copy, and the  *)
(* choice of a branch.  A schedule the copy does not have is left alone.   *)
Begin(s, at, ks, entries, sleeping) ==
  /\ pc[s] = "idle"
  /\ cache[s].exists
  /\ pc' = [pc EXCEPT ![s] = at]
  /\ obj' = [obj EXCEPT ![s] = StatusOf(cache[s])]
  /\ fresh' = [fresh EXCEPT ![s] = (cache[s] = sched[s])]
  /\ kinds' = [kinds EXCEPT ![s] = ks]
  /\ todo' = [todo EXCEPT ![s] = entries]
  /\ goal' = [goal EXCEPT ![s] = sleeping]
  /\ UNCHANGED <<spec, sched, cache, window, desynced, down, missed, left>>

(* Plausible slips: the second pass over the operators is forgotten; the   *)
(* last entry is passed over.                                              *)
FirstPassOnly(entries) ==
  IF \A e \in entries : KindOf[e.name] \in OperatorKinds THEN "finish" ELSE "wake"

AllButLast(entries) == IF Cardinality(entries) <= 1 THEN "finish" ELSE "wake"

WakeOrFinish(entries) == IF entries = {} THEN "finish" ELSE "wake"

SleepOrFinish(ks, entries) ==
  IF ks = {} /\ entries = {} THEN "finish" ELSE "sleep"

(* A plausible slip: a suspended schedule is marked awake and nothing else.*)
StartSuspendedOnly(s) ==
  /\ cache[s].suspend
  /\ Begin(s, "finish", {}, {}, FALSE)

(* spec.suspend: wake what sleeps.                                         *)
StartSuspended(s) ==
  LET entries == IF cache[s].sleeping THEN cache[s].managed ELSE {}
  IN  /\ cache[s].suspend
      /\ Begin(s, WakeOrFinish(entries), {}, entries, FALSE)

(* No window is defined: only the Ready condition is written.              *)
StartInvalid(s) ==
  /\ ~cache[s].suspend
  /\ ~cache[s].windows
  /\ Begin(s, "finish", {}, {}, cache[s].sleeping)

Scheduled(s) == ~cache[s].suspend /\ cache[s].windows

(* A plausible slip: a sleep waits until the last wake is verified.        *)
StartSleepIfClear(s) ==
  /\ Scheduled(s)
  /\ window[s]
  /\ ~cache[s].sleeping
  /\ cache[s].managed = {}
  /\ Begin(s, SleepOrFinish(ManagedKinds(s), {}), ManagedKinds(s), {}, TRUE)

(* The schedule should be sleeping and is not.                             *)
StartSleep(s) ==
  /\ Scheduled(s)
  /\ window[s]
  /\ ~cache[s].sleeping
  /\ Begin(s, SleepOrFinish(ManagedKinds(s), {}), ManagedKinds(s), {}, TRUE)

(* It should be awake and is not.                                          *)
StartWake(s) ==
  /\ Scheduled(s)
  /\ ~window[s]
  /\ cache[s].sleeping
  /\ Begin(s, WakeOrFinish(cache[s].managed), {}, cache[s].managed, FALSE)

(* shouldVerifyWorkloads                                                   *)
ShouldVerify(c) == c.recent /\ c.managed # {}

(* It is awake, as it should be, and the last transition is recent.        *)
StartVerify(s) ==
  /\ Scheduled(s)
  /\ ~window[s]
  /\ ~cache[s].sleeping
  /\ ShouldVerify(cache[s])
  /\ Begin(s, IF ManagedKinds(s) = {} THEN "finish" ELSE "verify",
           ManagedKinds(s), {}, FALSE)

(* A plausible slip: it does not matter whether it is awake.               *)
StartClearAnyway(s) ==
  /\ Scheduled(s)
  /\ window[s] = cache[s].sleeping
  /\ ~ShouldVerify(cache[s])
  /\ cache[s].managed # {}
  /\ Begin(s, "clear", {}, {}, window[s])

(* It is awake, as it should be, and the verification window is over.      *)
StartClear(s) ==
  /\ Scheduled(s)
  /\ ~window[s]
  /\ ~cache[s].sleeping
  /\ ~ShouldVerify(cache[s])
  /\ cache[s].managed # {}
  /\ Begin(s, "clear", {}, {}, FALSE)

(* There is nothing to do but to write the Ready condition.                *)
StartSteady(s) ==
  /\ Scheduled(s)
  /\ window[s] = cache[s].sleeping
  /\ ~window[s] => cache[s].managed = {}
  /\ Begin(s, "finish", {}, {}, window[s])

Start(s) ==
  \/ StartSuspended(s) \/ StartInvalid(s)
  \/ StartSleep(s) \/ StartWake(s)
  \/ StartVerify(s) \/ StartClear(s) \/ StartSteady(s)

-----------------------------------------------------------------------------
(* sleepWorkloads: list the next kind, and of what is listed take what     *)
(* runs and has no entry yet.  A list that lags behind may still show a    *)
(* running workload as stopped (hidden).                                   *)
SleepList(s) ==
  LET k == NextKind(kinds[s], SleepOrder)
      candidates == {w \in Listed(s, k) : Running(k, spec[w]) /\ w \notin Names(obj[s].managed)}
  IN  /\ pc[s] = "sleep"
      /\ todo[s] = {}
      /\ kinds[s] # {}
      /\ \E hidden \in SUBSET candidates :
           /\ Cardinality(hidden) <= left.misses
           /\ left' = [left EXCEPT !.misses = @ - Cardinality(hidden)]
           /\ todo' = [todo EXCEPT ![s] = {Entry(w, spec[w]) : w \in candidates \ hidden}]
      /\ kinds' = [kinds EXCEPT ![s] = @ \ {k}]
      /\ pc' = [pc EXCEPT ![s] = SleepOrFinish(kinds'[s], todo'[s])]
      /\ UNCHANGED <<spec, sched, cache, window, obj, fresh, goal, desynced, down, missed>>

(* A plausible slip: the setting is recorded after it was written.         *)
SleepUpdateThenRecord(s, e) ==
  LET stopped == Quiesce(KindOf[e.name], e.original)
  IN  /\ pc[s] = "sleep"
      /\ e \in todo[s]
      /\ spec[e.name] = e.original
      /\ spec' = [spec EXCEPT ![e.name] = stopped]
      /\ obj' = [obj EXCEPT ![s].managed = @ \cup {Entry(e.name, stopped)}]
      /\ todo' = [todo EXCEPT ![s] = @ \ {e}]
      /\ pc' = [pc EXCEPT ![s] = "persist"]
      /\ down' = [down EXCEPT ![e.name] = DownBy(s, e.original)]
      /\ UNCHANGED <<sched, cache, window, fresh, kinds, goal, desynced, missed, left>>

(* Stop one listed workload, if it is still at the version listed, and     *)
(* append its entry to the copy of the status.                             *)
SleepUpdate(s, e) ==
  /\ pc[s] = "sleep"
  /\ e \in todo[s]
  /\ spec[e.name] = e.original
  /\ spec' = [spec EXCEPT ![e.name] = Quiesce(KindOf[e.name], e.original)]
  /\ obj' = [obj EXCEPT ![s].managed = @ \cup {e}]
  /\ todo' = [todo EXCEPT ![s] = @ \ {e}]
  /\ pc' = [pc EXCEPT ![s] = "persist"]
  /\ down' = [down EXCEPT ![e.name] = DownBy(s, e.original)]
  /\ UNCHANGED <<sched, cache, window, fresh, kinds, goal, desynced, missed, left>>

SleepRefused(s) ==
  /\ pc[s] = "sleep"
  /\ \E e \in todo[s] : spec[e.name] # e.original
  /\ Fail(s)
  /\ UNCHANGED left

(* A plausible slip: a forced write, at whatever version.                  *)
PersistForced(s) ==
  /\ pc[s] = "persist"
  /\ sched' = [sched EXCEPT ![s] = WithStatus(@, obj[s])]
  /\ pc' = [pc EXCEPT ![s] = SleepOrFinish(kinds[s], todo[s])]
  /\ down' = Rerecord(s, "pending", "kept")
  /\ UNCHANGED <<spec, cache, window, obj, fresh, kinds, todo, goal, desynced, missed, left>>

(* The status write after each workload, of the whole status.              *)
Persist(s) ==
  /\ pc[s] = "persist"
  /\ fresh[s]
  /\ sched' = [sched EXCEPT ![s] = WithStatus(@, obj[s])]
  /\ pc' = [pc EXCEPT ![s] = SleepOrFinish(kinds[s], todo[s])]
  /\ down' = Rerecord(s, "pending", "kept")
  /\ UNCHANGED <<spec, cache, window, obj, fresh, kinds, todo, goal, desynced, missed, left>>

-----------------------------------------------------------------------------
IsOperator(e) == KindOf[e.name] \in OperatorKinds

(* A plausible slip: one pass over the entries, in whatever order.         *)
WakeNextAny(s, e) ==
  /\ pc[s] = "wake"
  /\ e \in todo[s]

(* wakeWorkloads: the operators only in a second pass, when nothing else   *)
(* is left to write.                                                       *)
WakeNext(s, e) ==
  /\ pc[s] = "wake"
  /\ e \in todo[s]
  /\ IsOperator(e) => \A other \in todo[s] : IsOperator(other)

(* Read one workload and write its recorded setting back.                  *)
WakeUpdate(s, e) ==
  /\ WakeNext(s, e)
  /\ spec' = [spec EXCEPT ![e.name] = Restore(KindOf[e.name], @, e.original)]
  /\ todo' = [todo EXCEPT ![s] = @ \ {e}]
  /\ pc' = [pc EXCEPT ![s] = WakeOrFinish(todo'[s])]
  /\ down' = [down EXCEPT ![e.name] = NotDown]
  /\ missed' = missed \ {e.name}
  /\ UNCHANGED <<sched, cache, window, obj, fresh, kinds, goal, desynced, left>>

(* The read fails: the error is logged and the workload is passed over.    *)
WakeMiss(s, e) ==
  /\ WakeNext(s, e)
  /\ Spend("misses")
  /\ todo' = [todo EXCEPT ![s] = @ \ {e}]
  /\ pc' = [pc EXCEPT ![s] = WakeOrFinish(todo'[s])]
  /\ missed' = IF IsDown(e.name) THEN missed \cup {e.name} ELSE missed
  /\ UNCHANGED <<spec, sched, cache, window, obj, fresh, kinds, goal, desynced, down>>

-----------------------------------------------------------------------------
(* verifyAndCorrectWorkloads: list the next kind; after the last one, wake *)
(* every recorded workload again if a listed one was still asleep.         *)
StillAsleep(s, k) ==
  \E e \in obj[s].managed :
    e.name \in Listed(s, k) /\ Desynced(k, spec[e.name], e.original)

VerifyList(s) ==
  LET k == NextKind(kinds[s], VerifyOrder)
      found == desynced[s] \/ StillAsleep(s, k)
      done == kinds[s] = {k}
      again == done /\ found
  IN  /\ pc[s] = "verify"
      /\ kinds' = [kinds EXCEPT ![s] = @ \ {k}]
      /\ desynced' = [desynced EXCEPT ![s] = found /\ ~done]
      /\ todo' = [todo EXCEPT ![s] = IF again THEN obj[s].managed ELSE {}]
      /\ pc' = [pc EXCEPT ![s] = IF again THEN "wake" ELSE IF done THEN "finish" ELSE "verify"]
      /\ UNCHANGED <<spec, sched, cache, window, obj, fresh, goal, down, missed, left>>

-----------------------------------------------------------------------------
(* The verification window is over: forget the entries, in a status write  *)
(* of its own.                                                             *)
Clear(s) ==
  /\ pc[s] = "clear"
  /\ fresh[s]
  /\ obj' = [obj EXCEPT ![s].managed = {}]
  /\ sched' = [sched EXCEPT ![s] = WithStatus(@, obj'[s])]
  /\ pc' = [pc EXCEPT ![s] = "finish"]
  /\ down' = Rerecord(s, "kept", "dropped")
  /\ UNCHANGED <<spec, cache, window, fresh, kinds, todo, goal, desynced, missed, left>>

(* A plausible slip: a forced write, at whatever version.                  *)
FinishForced(s) ==
  /\ pc[s] = "finish"
  /\ sched' = [sched EXCEPT ![s] =
                 WithStatus(@, [obj[s] EXCEPT !.sleeping = goal[s],
                                              !.recent = @ \/ goal[s] # obj[s].sleeping])]
  /\ End(s)
  /\ UNCHANGED <<spec, cache, window, down, missed, left>>

(* The last status write of a reconcile.                                   *)
Finish(s) ==
  /\ pc[s] = "finish"
  /\ fresh[s]
  /\ sched' = [sched EXCEPT ![s] =
                 WithStatus(@, [obj[s] EXCEPT !.sleeping = goal[s],
                                              !.recent = @ \/ goal[s] # obj[s].sleeping])]
  /\ End(s)
  /\ UNCHANGED <<spec, cache, window, down, missed, left>>

(* A status write at an old version, or of a deleted schedule, is refused. *)
StatusRefused(s) ==
  /\ pc[s] \in {"persist", "clear", "finish"}
  /\ ~fresh[s]
  /\ Fail(s)
  /\ UNCHANGED left

(* Any other error of an API call, a lost answer, or a crash.              *)
Abort(s) ==
  /\ pc[s] # "idle"
  /\ Spend("aborts")
  /\ Fail(s)

Step(s) ==
  \/ SleepList(s) \/ SleepRefused(s) \/ Persist(s) \/ VerifyList(s)
  \/ Clear(s) \/ Finish(s) \/ StatusRefused(s)
  \/ \E e \in todo[s] : SleepUpdate(s, e) \/ WakeUpdate(s, e)
-----------------------------------------------------------------------------
(* The environment.  A user gives a workload another setting.              *)
UserEdit(w) ==
  /\ Spend("edits")
  /\ \E st \in UserSettings[w] \ {spec[w]} : spec' = [spec EXCEPT ![w] = st]
  /\ down' = [down EXCEPT ![w] = NotDown]
  /\ missed' = missed \ {w}
  /\ UNCHANGED <<sched, cache, window, loop>>

(* A sleep window of the schedule opens, or the last open one closes.      *)
FlipWindow(s) ==
  /\ Spend("flips")
  /\ window' = [window EXCEPT ![s] = ~@]
  /\ UNCHANGED <<spec, sched, cache, down, missed, loop>>

(* Ten minutes have passed since the last transition.                      *)
VerifyWindowExpires(s) ==
  /\ sched[s].recent
  /\ sched' = [sched EXCEPT ![s].recent = FALSE]
  /\ cache' = [cache EXCEPT ![s].recent = FALSE]
  /\ obj' = [obj EXCEPT ![s].recent = FALSE]
  /\ UNCHANGED <<spec, window, pc, fresh, kinds, todo, goal, desynced, down, missed, left>>

(* The informer catches up with the API server.                            *)
Sync(s) ==
  /\ cache[s] # sched[s]
  /\ cache' = [cache EXCEPT ![s] = sched[s]]
  /\ UNCHANGED <<spec, sched, window, down, missed, left, loop>>

(* A user changes the spec of the schedule, which makes every copy old; to *)
(* create a deleted one again does not count as another change.            *)
UserChange(s, changed) ==
  /\ IF sched[s].exists THEN Spend("changes") ELSE UNCHANGED left
  /\ sched' = [sched EXCEPT ![s] = changed]
  /\ fresh' = [fresh EXCEPT ![s] = FALSE]
  /\ UNCHANGED <<spec, cache, window, pc, obj, kinds, todo, goal, desynced, missed>>

ToggleSuspend(s) ==
  /\ sched[s].exists
  /\ UserChange(s, [sched[s] EXCEPT !.suspend = ~@])
  /\ UNCHANGED down

ToggleWindows(s) ==
  /\ sched[s].exists
  /\ UserChange(s, [sched[s] EXCEPT !.windows = ~@])
  /\ UNCHANGED down

(* No finalizer holds the schedule back, so its entries go with it.        *)
Delete(s) ==
  /\ sched[s].exists
  /\ UserChange(s, Gone)
  /\ down' = Rerecord(s, "kept", "dropped")

Create(s) ==
  /\ ~sched[s].exists
  /\ UserChange(s, NewSchedule)
  /\ UNCHANGED down

Environment ==
  \/ \E w \in Workloads : UserEdit(w)
  \/ \E s \in Schedules :
       \/ FlipWindow(s) \/ VerifyWindowExpires(s) \/ Sync(s)
       \/ ToggleSuspend(s) \/ ToggleWindows(s) \/ Delete(s) \/ Create(s)

-----------------------------------------------------------------------------
Init ==
  /\ spec \in [Workloads -> UNION {UserSettings[w] : w \in Workloads}]
  /\ \A w \in Workloads : spec[w] \in UserSettings[w]
  /\ sched = [s \in Schedules |-> NewSchedule]
  /\ cache = sched
  /\ window \in [Schedules -> BOOLEAN]
  /\ pc = [s \in Schedules |-> "idle"]
  /\ obj = [s \in Schedules |-> NoStatus]
  /\ fresh = [s \in Schedules |-> FALSE]
  /\ kinds = [s \in Schedules |-> {}]
  /\ todo = [s \in Schedules |-> {}]
  /\ goal = [s \in Schedules |-> FALSE]
  /\ desynced = [s \in Schedules |-> FALSE]
  /\ down = [w \in Workloads |-> NotDown]
  /\ missed = {}
  /\ left = [edits |-> MaxEdits, flips |-> MaxFlips, aborts |-> MaxAborts,
             misses |-> MaxMisses, changes |-> MaxChanges]

Next ==
  \/ Environment
  \/ \E s \in Schedules :
       \/ Start(s) \/ Step(s) \/ Abort(s)
       \/ \E e \in todo[s] : WakeMiss(s, e)

Spec == Init /\ [][Next]_vars

(* Every schedule is requeued or retried whatever the reconcile returned,  *)
(* a loop that runs goes on, the informer catches up and time passes.      *)
Fairness ==
  \A s \in Schedules :
    /\ WF_vars(Start(s))
    /\ WF_vars(Step(s))
    /\ WF_vars(Sync(s))
    /\ WF_vars(VerifyWindowExpires(s))

FairSpec == Spec /\ Fairness

-----------------------------------------------------------------------------
RunningSettings(k) == {st \in Settings(k) : Running(k, st)}

(* The entries status.managedWorkloads may hold: workloads that ran.       *)
Entries ==
  {e \in [name : Workloads, original : AnySetting] :
     e.original \in RunningSettings(KindOf[e.name])}

Status == [sleeping : BOOLEAN, managed : SUBSET Entries, recent : BOOLEAN]

Schedule ==
  [exists : BOOLEAN, suspend : BOOLEAN, windows : BOOLEAN,
   sleeping : BOOLEAN, managed : SUBSET Entries, recent : BOOLEAN]

Records == {"pending", "kept", "lost", "dropped"}

Places == {"idle", "sleep", "persist", "wake", "verify", "clear", "finish"}

(* Types; and every recorded original is a setting in which the workload   *)
(* runs, so no wake ever writes a stopped one.                             *)
TypeOK ==
  /\ spec \in [Workloads -> AnySetting]
  /\ \A w \in Workloads : spec[w] \in Settings(KindOf[w])
  /\ sched \in [Schedules -> Schedule]
  /\ cache \in [Schedules -> Schedule]
  /\ window \in [Schedules -> BOOLEAN]
  /\ pc \in [Schedules -> Places]
  /\ obj \in [Schedules -> Status]
  /\ fresh \in [Schedules -> BOOLEAN]
  /\ kinds \in [Schedules -> SUBSET Kinds]
  /\ todo \in [Schedules -> SUBSET Entries]
  /\ goal \in [Schedules -> BOOLEAN]
  /\ desynced \in [Schedules -> BOOLEAN]
  /\ DOMAIN down = Workloads
  /\ \A w \in Workloads :
       down[w] \in {NotDown} \cup
         [by : Schedules, was : RunningSettings(KindOf[w]), record : Records]
  /\ missed \subseteq Workloads
  /\ left \in [edits : Nat, flips : Nat, aborts : Nat, misses : Nat, changes : Nat]

(* The entry of a workload the schedule has stopped, once written, stays   *)
(* in the schedule's status in the API server, with the setting the        *)
(* workload had, until the workload is woken or the entry is given up      *)
(* (verification window over, schedule deleted): no status write of a      *)
(* loop, however old its copy, ever overwrites it.                         *)
Accounted ==
  \A w \in Workloads, s \in Schedules :
    /\ IsDownBy(w, s, {"kept"}) => Entry(w, down[w].was) \in sched[s].managed
    /\ IsDownBy(w, s, {"pending"}) =>
         pc[s] = "persist" /\ Entry(w, down[w].was) \in obj[s].managed

(* wakeWorkloads gives a workload back exactly the setting from which the  *)
(* same schedule had stopped it, from however old a copy of the status the *)
(* loop works and whatever happened in between.                            *)
RestoresExactly ==
  [][\A s \in Schedules : \A e \in todo[s] :
       /\ pc[s] = "wake"
       /\ e \notin todo'[s]
       /\ IsDownBy(e.name, s, {"kept"})
       /\ ~IsDown(e.name)'
       => spec'[e.name] = down[e.name].was]_vars

(* When a schedule says it no longer sleeps, every workload it had stopped *)
(* and recorded has been restored, except those a wake could not read.     *)
WakeCompletes ==
  [][\A s \in Schedules :
       sched[s].sleeping /\ ~sched'[s].sleeping /\ sched'[s].exists
       => \A w \in Workloads : IsDownBy(w, s, {"kept"}) => w \in missed]_vars

(* "Second pass: resume suspend-based operators AFTER workloads are        *)
(* restored": a loop whose copy of the status is current resumes an        *)
(* operator only when nothing else the schedule has recorded is stopped.   *)
OperatorsResumeLast ==
  [][\A s \in Schedules : \A e \in todo[s] :
       /\ pc[s] = "wake"
       /\ fresh[s]
       /\ IsOperator(e)
       /\ e \notin todo'[s]
       /\ IsDownBy(e.name, s, {"kept"})
       /\ ~IsDown(e.name)'
       => \A w \in Workloads :
            IsDownBy(w, s, {"kept"}) /\ KindOf[w] \notin OperatorKinds => w \in missed]_vars

(* "Suspend operator-managed resources BEFORE scaling workloads": as long  *)
(* as users leave the workloads alone and no list misses one, a workload   *)
(* is stopped only when every operator the schedule selects is suspended   *)
(* or was recorded before.                                                 *)
OperatorsStopFirst ==
  [][left.edits = MaxEdits /\ left.misses = MaxMisses =>
       \A s \in Schedules : \A e \in todo[s] :
         pc[s] = "sleep" /\ pc'[s] = "persist" /\ e \notin todo'[s] /\ ~IsOperator(e)
         => \A w \in Selector[s].labels :
              KindOf[w] \in OperatorKinds /\ ShouldManageType(s, KindOf[w])
              => ~Running(KindOf[w], spec[w]) \/ w \in Names(obj[s].managed)]_vars

-----------------------------------------------------------------------------
(* Why the safety properties hold: what every reachable state has in       *)
(* common.                                                                 *)

(* A loop at the API server's version has every entry in its copy.         *)
FreshCopy ==
  \A s \in Schedules : pc[s] # "idle" /\ fresh[s] =>
    /\ sched[s].managed \subseteq obj[s].managed
    /\ sched[s].sleeping = obj[s].sleeping
    /\ pc[s] \in {"sleep", "persist"} => cache[s].managed \subseteq obj[s].managed

(* A deleted schedule has no status, and no loop can write one.            *)
GoneForgets ==
  \A s \in Schedules : ~sched[s].exists =>
    /\ sched[s].managed = {}
    /\ ~sched[s].sleeping
    /\ pc[s] # "idle" => ~fresh[s]

(* A loop writes the entry of a workload before it stops the next.         *)
OnePending ==
  \A v, w \in Workloads, s \in Schedules :
    IsDownBy(v, s, {"pending"}) /\ IsDownBy(w, s, {"pending"}) => v = w

(* What a schedule stopped is still as it left it.                         *)
StoppedIsQuiesced ==
  \A w \in Workloads : IsDown(w) => spec[w] = Quiesce(KindOf[w], down[w].was)

(* No copy of the status, old or new, has another original for a workload  *)
(* that is stopped and recorded, or about to be.                           *)
Agreed ==
  \A w \in Workloads, s \in Schedules :
    IsDownBy(w, s, {"kept"}) \/ (IsDownBy(w, s, {"pending"}) /\ fresh[s])
    => \A e \in sched[s].managed \cup cache[s].managed \cup obj[s].managed :
         e.name = w => e.original = down[w].was

(* What a loop has still to stop has no entry yet, and is listed once.     *)
TodoToSleep ==
  \A s \in Schedules : pc[s] \in {"sleep", "persist"} =>
    /\ goal[s]
    /\ \A e \in todo[s] : e.name \notin Names(obj[s].managed)
    /\ \A e, f \in todo[s] : e.name = f.name => e = f

(* What a loop has still to wake is recorded, and if its copy is current   *)
(* then so is everything else it has to wake.                              *)
TodoToWake ==
  \A s \in Schedules :
    /\ pc[s] \notin {"sleep", "persist", "wake"} => todo[s] = {}
    /\ pc[s] \in {"verify", "clear"} => ~obj[s].sleeping
    /\ pc[s] = "wake" => todo[s] \subseteq obj[s].managed
    /\ fresh[s] /\ (pc[s] = "wake" \/ (pc[s] = "finish" /\ obj[s].sleeping /\ ~goal[s])) =>
         \A w \in Workloads : IsDownBy(w, s, {"kept"}) =>
           w \in missed \/ Entry(w, down[w].was) \in todo[s]

IInv ==
  /\ TypeOK
  /\ Accounted
  /\ FreshCopy
  /\ GoneForgets
  /\ OnePending
  /\ StoppedIsQuiesced
  /\ Agreed
  /\ TodoToSleep
  /\ TodoToWake

-----------------------------------------------------------------------------
ShouldSleep(s) ==
  sched[s].exists /\ ~sched[s].suspend /\ sched[s].windows /\ window[s]

ShouldWake(s) ==
  sched[s].exists /\ (sched[s].suspend \/ (sched[s].windows /\ ~window[s]))

(* A schedule whose window stays open ends up sleeping, through failed     *)
(* calls, refused writes and changes of everything else.                   *)
EventuallySleeps ==
  \A s \in Schedules : <>[]ShouldSleep(s) => <>[]sched[s].sleeping

(* A schedule that stays suspended or outside its windows ends up awake,   *)
(* and what it had recorded by the time it slept runs again, but for what  *)
(* a wake could not read, and unless the schedule was deleted first.       *)
EventuallyWakes ==
  \A s \in Schedules : <>[]ShouldWake(s) =>
    /\ <>[](~sched[s].sleeping)
    /\ \A w \in Workloads :
         sched[s].sleeping /\ IsDownBy(w, s, {"kept"})
          ~> ~IsDown(w) \/ w \in missed \/ ~sched[s].exists

-----------------------------------------------------------------------------
(* What the repository says of the controller and the code does not do.    *)

(* "Workloads sleep if ANY window matches" (spec.schedules): when a        *)
(* schedule says it sleeps, what it selects does not run.  For instances   *)
(* without edits or misses.                                                *)
SleepCovers ==
  [][\A s \in Schedules :
       ~sched[s].sleeping /\ sched'[s].sleeping
       => \A w \in Selector[s].labels :
            ShouldManageType(s, KindOf[w]) => ~Running(KindOf[w], spec[w])]_vars

(* "If workloads are currently sleeping, they will be woken up"            *)
(* (spec.suspend).                                                         *)
SuspendWakes ==
  \A s \in Schedules, w \in Workloads :
    sched[s].suspend /\ IsDownBy(w, s, {"kept"}) ~> ~(sched[s].suspend /\ IsDown(w))
=============================================================================
