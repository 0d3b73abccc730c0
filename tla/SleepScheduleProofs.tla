------------------------ MODULE SleepScheduleProofs ------------------------
(***************************************************************************)
(* SleepSchedule, for any number of schedules and workloads and any bounds:*)
(* type correctness, the safety invariant with what follows from it, and   *)
(* that it implements Custody.                                             *)
(***************************************************************************)
EXTENDS SleepCustody, Lemmas

(* A workload's kind is a kind, and what users set is a setting of it.     *)
LEMMA WorkloadKinds ==
  ASSUME NEW w \in Workloads
  PROVE  KindOf[w] \in Kinds /\ UserSettings[w] \subseteq Settings(KindOf[w])
  BY ConstantsAssumption

LEMMA EntryFacts ==
  ASSUME NEW e \in Entries
  PROVE  /\ e.name \in Workloads
         /\ e.original \in RunningSettings(KindOf[e.name])
         /\ e.original \in Settings(KindOf[e.name])
         /\ e = Entry(e.name, e.original)
  BY DEF Entries, RunningSettings, Entry

LEMMA EntryType ==
  ASSUME NEW w \in Workloads, NEW st \in RunningSettings(KindOf[w])
  PROVE  Entry(w, st) \in Entries
  <1>1. st \in AnySetting
    BY WorkloadKinds, SettingsAny DEF RunningSettings
  <1>2. QED
    BY <1>1 DEF Entries, Entry

LEMMA EntryParts ==
  ASSUME NEW w, NEW st
  PROVE  Entry(w, st).name = w /\ Entry(w, st).original = st
  BY DEF Entry

(* Copying a status out of a schedule and writing one back.                *)
LEMMA StatusOfParts ==
  ASSUME NEW c \in Schedule
  PROVE  /\ StatusOf(c) \in Status
         /\ StatusOf(c).managed = c.managed
         /\ StatusOf(c).sleeping = c.sleeping
  BY DEF StatusOf, Status, Schedule

LEMMA WithStatusParts ==
  ASSUME NEW c \in Schedule, NEW st \in Status
  PROVE  /\ WithStatus(c, st) \in Schedule
         /\ WithStatus(c, st).managed = st.managed
         /\ WithStatus(c, st).sleeping = st.sleeping
         /\ WithStatus(c, st).exists = c.exists
  BY DEF WithStatus, Status, Schedule

(* The two fields of a schedule that a user may change.                    *)
LEMMA UserFields ==
  ASSUME NEW c \in Schedule, NEW b \in BOOLEAN
  PROVE  /\ [c EXCEPT !.suspend = b] \in Schedule
         /\ [c EXCEPT !.suspend = b].managed = c.managed
         /\ [c EXCEPT !.suspend = b].exists = c.exists
         /\ [c EXCEPT !.windows = b] \in Schedule
         /\ [c EXCEPT !.windows = b].managed = c.managed
         /\ [c EXCEPT !.windows = b].exists = c.exists
  BY DEF Schedule

LEMMA NewParts ==
  /\ NoStatus \in Status /\ NoStatus.managed = {} /\ NoStatus.sleeping = FALSE
  /\ NewSchedule \in Schedule /\ NewSchedule.managed = {} /\ NewSchedule.sleeping = FALSE
  /\ Gone \in Schedule /\ Gone.managed = {} /\ Gone.sleeping = FALSE /\ Gone.exists = FALSE
  BY DEF NoStatus, Status, NewSchedule, Gone, Schedule

(* What is left of the bounds.                                             *)
Bounds == [edits : Nat, flips : Nat, aborts : Nat, misses : Nat, changes : Nat]

LEMMA SpendType ==
  ASSUME NEW b \in {"edits", "flips", "aborts", "misses", "changes"}, left \in Bounds, Spend(b)
  PROVE  left' \in Bounds
  BY DEF Spend, Bounds

(* What the history of a workload may be.                                  *)
History(w) ==
  {NotDown} \cup [by : Schedules, was : RunningSettings(KindOf[w]), record : Records]

LEMMA HistoryParts ==
  ASSUME TypeOK, NEW w \in Workloads
  PROVE  /\ down[w] \in History(w)
         /\ IsDown(w) => /\ down[w].by \in Schedules
                         /\ down[w].was \in RunningSettings(KindOf[w])
                         /\ down[w].record \in Records
         /\ ~IsDown(w) => down[w] = NotDown
  BY DEF TypeOK, History, IsDown, NotDown, Records

LEMMA DownByParts ==
  ASSUME NEW s \in Schedules, NEW w \in Workloads, NEW st \in RunningSettings(KindOf[w])
  PROVE  /\ DownBy(s, st) \in History(w)
         /\ DownBy(s, st).by = s /\ DownBy(s, st).was = st
         /\ DownBy(s, st).record = "pending"
  BY DEF DownBy, History, Records

(* Rerecord changes the record of some workloads and nothing else.         *)
LEMMA RerecordParts ==
  ASSUME TypeOK, NEW s \in Schedules, NEW from \in Records, NEW to \in Records
  PROVE  /\ DOMAIN Rerecord(s, from, to) = Workloads
         /\ \A w \in Workloads :
              /\ Rerecord(s, from, to)[w] \in History(w)
              /\ ~IsDown(w) => Rerecord(s, from, to)[w] = NotDown
              /\ IsDown(w) =>
                   /\ Rerecord(s, from, to)[w].by = down[w].by
                   /\ Rerecord(s, from, to)[w].was = down[w].was
                   /\ Rerecord(s, from, to)[w].record =
                        IF down[w].by = s /\ down[w].record = from THEN to ELSE down[w].record
  <1>1. DOMAIN Rerecord(s, from, to) = Workloads
    BY DEF Rerecord
  <1>2. ASSUME NEW w \in Workloads
        PROVE  /\ Rerecord(s, from, to)[w] \in History(w)
               /\ ~IsDown(w) => Rerecord(s, from, to)[w] = NotDown
               /\ IsDown(w) =>
                   /\ Rerecord(s, from, to)[w].by = down[w].by
                   /\ Rerecord(s, from, to)[w].was = down[w].was
                   /\ Rerecord(s, from, to)[w].record =
                        IF down[w].by = s /\ down[w].record = from THEN to ELSE down[w].record
    <2>1. CASE IsDownBy(w, s, {from})
      <3>1. Rerecord(s, from, to)[w] = [down[w] EXCEPT !.record = to]
        BY <2>1 DEF Rerecord
      <3>2. down[w] \in [by : Schedules, was : RunningSettings(KindOf[w]), record : Records]
        BY <2>1 DEF TypeOK, IsDownBy, IsDown, NotDown
      <3>3. QED
        BY <2>1, <3>1, <3>2 DEF History, IsDownBy
    <2>2. CASE ~IsDownBy(w, s, {from})
      <3>1. Rerecord(s, from, to)[w] = down[w]
        BY <2>2 DEF Rerecord
      <3>2. QED
        BY <2>2, <3>1, HistoryParts DEF IsDownBy
    <2>3. QED
      BY <2>1, <2>2
  <1>3. QED
    BY <1>1, <1>2

-----------------------------------------------------------------------------
(* Whatever branch a reconcile takes, it begins in one of these ways.      *)
BeginsAs(s, at, ks, entries, g) ==
  /\ Begin(s, at, ks, entries, g)
  /\ at \in {"sleep", "verify", "wake", "clear", "finish"}
  /\ at = "sleep" => g
  /\ at \in {"verify", "clear"} => ~cache[s].sleeping
  /\ at = "wake" => entries = cache[s].managed
  /\ at # "wake" => entries = {}
  /\ at = "finish" /\ cache[s].sleeping /\ ~g => cache[s].managed = {}

LEMMA StartBegins ==
  ASSUME TypeOK, NEW s \in Schedules, Start(s)
  PROVE  \E at \in Places, ks \in SUBSET Kinds, entries \in SUBSET Entries, g \in BOOLEAN :
           BeginsAs(s, at, ks, entries, g)
  <1> DEFINE Goal ==
        \E at \in Places, ks \in SUBSET Kinds, entries \in SUBSET Entries, g \in BOOLEAN :
          BeginsAs(s, at, ks, entries, g)
  <1>1. /\ cache[s].managed \in SUBSET Entries
        /\ cache[s].sleeping \in BOOLEAN
        /\ window[s] \in BOOLEAN
    BY DEF TypeOK, Schedule
  <1>2. ManagedKinds(s) \in SUBSET Kinds
    BY WorkloadKinds DEF ManagedKinds
  <1>3. {} \in SUBSET Kinds /\ {} \in SUBSET Entries
    OBVIOUS
  <1>4. \A ks : SleepOrFinish(ks, {}) \in {"sleep", "finish"}
    BY DEF SleepOrFinish
  <1>5. WakeOrFinish({}) = "finish"
        /\ (WakeOrFinish(cache[s].managed) = "wake"
            \/ (WakeOrFinish(cache[s].managed) = "finish" /\ cache[s].managed = {}))
    BY DEF WakeOrFinish
  <1>6. CASE StartSuspended(s)
    <2>1. CASE cache[s].sleeping
      <3>1. BeginsAs(s, WakeOrFinish(cache[s].managed), {}, cache[s].managed, FALSE)
        BY <1>5, <1>6, <2>1 DEF StartSuspended, BeginsAs
      <3>2. QED
        BY <1>1, <1>3, <1>5, <3>1 DEF Places
    <2>2. CASE ~cache[s].sleeping
      <3>1. BeginsAs(s, "finish", {}, {}, FALSE)
        BY <1>5, <1>6, <2>2 DEF StartSuspended, BeginsAs
      <3>2. QED
        BY <1>3, <3>1 DEF Places
    <2>3. QED
      BY <2>1, <2>2
  <1>7. CASE StartInvalid(s)
    <2>1. BeginsAs(s, "finish", {}, {}, cache[s].sleeping)
      BY <1>7 DEF StartInvalid, BeginsAs
    <2>2. QED
      BY <1>1, <1>3, <2>1 DEF Places
  <1>8. CASE StartSleep(s)
    <2>1. BeginsAs(s, SleepOrFinish(ManagedKinds(s), {}), ManagedKinds(s), {}, TRUE)
      BY <1>4, <1>8 DEF StartSleep, BeginsAs
    <2>2. QED
      BY <1>2, <1>3, <1>4, <2>1 DEF Places
  <1>9. CASE StartWake(s)
    <2>1. BeginsAs(s, WakeOrFinish(cache[s].managed), {}, cache[s].managed, FALSE)
      BY <1>5, <1>9 DEF StartWake, BeginsAs
    <2>2. QED
      BY <1>1, <1>3, <1>5, <2>1 DEF Places
  <1>10. CASE StartVerify(s)
    <2> DEFINE at == IF ManagedKinds(s) = {} THEN "finish" ELSE "verify"
    <2>1. BeginsAs(s, at, ManagedKinds(s), {}, FALSE)
      BY <1>10 DEF StartVerify, BeginsAs
    <2>2. QED
      BY <1>2, <1>3, <2>1 DEF Places
  <1>11. CASE StartClear(s)
    <2>1. BeginsAs(s, "clear", {}, {}, FALSE)
      BY <1>11 DEF StartClear, BeginsAs
    <2>2. QED
      BY <1>3, <2>1 DEF Places
  <1>12. CASE StartSteady(s)
    <2>1. BeginsAs(s, "finish", {}, {}, window[s])
      BY <1>12 DEF StartSteady, BeginsAs
    <2>2. QED
      BY <1>1, <1>3, <2>1 DEF Places
  <1>13. QED
    BY <1>6, <1>7, <1>8, <1>9, <1>10, <1>11, <1>12 DEF Start

-----------------------------------------------------------------------------
(* Type correctness, one lemma per group of actions.                       *)

LEMMA NextKindType ==
  ASSUME NEW ks \in SUBSET Kinds, NEW k
  PROVE  ks \ {k} \in SUBSET Kinds
  OBVIOUS

LEMMA BeginType ==
  ASSUME TypeOK, NEW s \in Schedules, NEW at \in Places, NEW ks \in SUBSET Kinds,
         NEW entries \in SUBSET Entries, NEW g \in BOOLEAN,
         Begin(s, at, ks, entries, g)
  PROVE  TypeOK'
  <1>1. StatusOf(cache[s]) \in Status
    BY StatusOfParts DEF TypeOK
  <1>2. (cache[s] = sched[s]) \in BOOLEAN
    OBVIOUS
  <1>3. QED
    BY <1>1, <1>2 DEF TypeOK, Begin

(* The end of a loop leaves its variables well typed.                      *)
LEMMA EndType ==
  ASSUME TypeOK, NEW s \in Schedules, End(s)
  PROVE  /\ pc' \in [Schedules -> Places]
         /\ obj' \in [Schedules -> Status]
         /\ fresh' \in [Schedules -> BOOLEAN]
         /\ kinds' \in [Schedules -> SUBSET Kinds]
         /\ todo' \in [Schedules -> SUBSET Entries]
         /\ goal' \in [Schedules -> BOOLEAN]
         /\ desynced' \in [Schedules -> BOOLEAN]
  BY NewParts DEF TypeOK, End, Places

LEMMA FailType ==
  ASSUME TypeOK, NEW s \in Schedules, Fail(s), left' \in Bounds
  PROVE  TypeOK'
  <1>1. End(s)
    BY DEF Fail
  <1>2. \A w \in Workloads : down'[w] \in History(w)
    BY RerecordParts DEF Fail, Records
  <1>3. DOMAIN down' = Workloads
    BY RerecordParts DEF Fail, Records
  <1>4. QED
    BY <1>1, <1>2, <1>3, EndType DEF TypeOK, Fail, History, Bounds

LEMMA SleepListType ==
  ASSUME TypeOK, NEW s \in Schedules, SleepList(s)
  PROVE  TypeOK'
  <1> DEFINE k == NextKind(kinds[s], SleepOrder)
             candidates == {w \in Listed(s, k) :
                              Running(k, spec[w]) /\ w \notin Names(obj[s].managed)}
  <1>1. PICK hidden \in SUBSET candidates :
          todo' = [todo EXCEPT ![s] = {Entry(w, spec[w]) : w \in candidates \ hidden}]
    BY DEF SleepList
  <1>2. ASSUME NEW w \in candidates
        PROVE  Entry(w, spec[w]) \in Entries
    <2>1. w \in Workloads /\ KindOf[w] = k
      BY ConstantsAssumption DEF Listed
    <2>2. spec[w] \in RunningSettings(KindOf[w])
      BY <2>1 DEF TypeOK, RunningSettings
    <2>3. QED
      BY <2>1, <2>2, EntryType
  <1>3. todo' \in [Schedules -> SUBSET Entries]
    BY <1>1, <1>2 DEF TypeOK
  <1>4. kinds' \in [Schedules -> SUBSET Kinds]
    BY DEF TypeOK, SleepList
  <1>5. pc' \in [Schedules -> Places]
    BY DEF TypeOK, SleepList, SleepOrFinish, Places
  <1>6. left' \in Bounds
    <2>1. PICK missing \in SUBSET candidates :
            /\ Cardinality(missing) <= left.misses
            /\ left' = [left EXCEPT !.misses = @ - Cardinality(missing)]
      BY DEF SleepList
    <2>2. missing \subseteq Workloads
      BY ConstantsAssumption DEF Listed
    <2>3. Cardinality(missing) \in Nat
      BY <2>2, ConstantsAssumption, FS_Subset, FS_CardinalityType
    <2> HIDE DEF candidates
    <2>4. left \in Bounds
      BY DEF TypeOK, Bounds
    <2>5. left.misses - Cardinality(missing) \in Nat
      BY <2>1, <2>3, <2>4 DEF Bounds
    <2>6. QED
      BY <2>1, <2>4, <2>5 DEF Bounds
  <1>7. QED
    BY <1>3, <1>4, <1>5, <1>6 DEF TypeOK, SleepList, Bounds

LEMMA SleepUpdateType ==
  ASSUME TypeOK, NEW s \in Schedules, NEW e \in todo[s], SleepUpdate(s, e)
  PROVE  TypeOK'
  <1>1. e \in Entries
    BY DEF TypeOK
  <1>2. Quiesce(KindOf[e.name], e.original) \in Settings(KindOf[e.name])
    BY <1>1, EntryFacts, WorkloadKinds, QuiesceType
  <1>3. Quiesce(KindOf[e.name], e.original) \in AnySetting
    BY <1>1, <1>2, EntryFacts, WorkloadKinds, SettingsAny
  <1>4. /\ spec' \in [Workloads -> AnySetting]
        /\ \A w \in Workloads : spec'[w] \in Settings(KindOf[w])
    BY <1>1, <1>2, <1>3, EntryFacts DEF TypeOK, SleepUpdate
  <1>5. obj' \in [Schedules -> Status]
    <2> DEFINE newObj == [obj[s] EXCEPT !.managed = @ \cup {e}]
    <2>1. newObj \in Status
      BY <1>1 DEF TypeOK, Status
    <2>2. obj' = [obj EXCEPT ![s] = newObj]
      BY DEF SleepUpdate
    <2> HIDE DEF newObj
    <2>3. QED
      BY <2>1, <2>2 DEF TypeOK
  <1>6. /\ DOMAIN down' = Workloads
        /\ \A w \in Workloads : down'[w] \in History(w)
    BY <1>1, EntryFacts, DownByParts, HistoryParts DEF TypeOK, SleepUpdate
  <1>7. pc' \in [Schedules -> Places] /\ todo' \in [Schedules -> SUBSET Entries]
    BY DEF TypeOK, SleepUpdate, Places
  <1>8. QED
    BY <1>4, <1>5, <1>6, <1>7 DEF TypeOK, SleepUpdate, History

LEMMA PersistType ==
  ASSUME TypeOK, NEW s \in Schedules, Persist(s)
  PROVE  TypeOK'
  <1>1. WithStatus(sched[s], obj[s]) \in Schedule
    BY WithStatusParts DEF TypeOK
  <1>2. /\ DOMAIN down' = Workloads
        /\ \A w \in Workloads : down'[w] \in History(w)
    BY RerecordParts DEF Persist, Records
  <1>3. QED
    BY <1>1, <1>2 DEF TypeOK, Persist, SleepOrFinish, Places, History

LEMMA WakeUpdateType ==
  ASSUME TypeOK, NEW s \in Schedules, NEW e \in todo[s], WakeUpdate(s, e)
  PROVE  TypeOK'
  <1>1. e \in Entries
    BY DEF TypeOK
  <1> DEFINE st == Restore(KindOf[e.name], spec[e.name], e.original)
  <1>2. st \in Settings(KindOf[e.name])
    BY <1>1, EntryFacts, WorkloadKinds, RestoreType DEF TypeOK
  <1>3. st \in AnySetting
    BY <1>1, <1>2, EntryFacts, WorkloadKinds, SettingsAny
  <1> HIDE DEF st
  <1>4. spec' = [spec EXCEPT ![e.name] = st]
    BY DEF WakeUpdate, st
  <1>5. /\ spec' \in [Workloads -> AnySetting]
        /\ \A w \in Workloads : spec'[w] \in Settings(KindOf[w])
    BY <1>1, <1>2, <1>3, <1>4, EntryFacts DEF TypeOK
  <1>6. /\ DOMAIN down' = Workloads
        /\ \A w \in Workloads : down'[w] \in History(w)
    BY HistoryParts DEF TypeOK, WakeUpdate, History
  <1>7. QED
    BY <1>5, <1>6 DEF TypeOK, WakeUpdate, WakeOrFinish, Places, History

LEMMA WakeMissType ==
  ASSUME TypeOK, NEW s \in Schedules, NEW e \in todo[s], WakeMiss(s, e)
  PROVE  TypeOK'
  <1>1. e.name \in Workloads
    BY EntryFacts DEF TypeOK
  <1>2. QED
    BY <1>1, SpendType DEF TypeOK, WakeMiss, WakeOrFinish, Places, Bounds

LEMMA VerifyListType ==
  ASSUME TypeOK, NEW s \in Schedules, VerifyList(s)
  PROVE  TypeOK'
  <1> DEFINE k == NextKind(kinds[s], VerifyOrder)
             found == desynced[s] \/ StillAsleep(s, k)
             done == kinds[s] = {k}
             again == done /\ found
  <1>1. kinds' \in [Schedules -> SUBSET Kinds]
    BY DEF TypeOK, VerifyList
  <1>2. desynced' \in [Schedules -> BOOLEAN]
    <2>1. desynced' = [desynced EXCEPT ![s] = found /\ ~done]
      BY DEF VerifyList
    <2>2. (found /\ ~done) \in BOOLEAN
      OBVIOUS
    <2> HIDE DEF found, done
    <2>3. QED
      BY <2>1, <2>2 DEF TypeOK
  <1>3. todo' \in [Schedules -> SUBSET Entries]
    <2>1. todo' = [todo EXCEPT ![s] = IF again THEN obj[s].managed ELSE {}]
      BY DEF VerifyList
    <2>2. obj[s].managed \in SUBSET Entries
      BY DEF TypeOK, Status
    <2> HIDE DEF again
    <2>3. QED
      BY <2>1, <2>2 DEF TypeOK
  <1>4. pc' \in [Schedules -> Places]
    <2>1. pc' = [pc EXCEPT ![s] = IF again THEN "wake" ELSE IF done THEN "finish" ELSE "verify"]
      BY DEF VerifyList
    <2> HIDE DEF again, done
    <2>2. QED
      BY <2>1 DEF TypeOK, Places
  <1>5. QED
    BY <1>1, <1>2, <1>3, <1>4 DEF TypeOK, VerifyList

LEMMA ClearType ==
  ASSUME TypeOK, NEW s \in Schedules, Clear(s)
  PROVE  TypeOK'
  <1>1. obj' \in [Schedules -> Status]
    <2>1. [obj[s] EXCEPT !.managed = {}] \in Status
      BY DEF TypeOK, Status
    <2>2. obj' = [obj EXCEPT ![s] = [obj[s] EXCEPT !.managed = {}]]
      BY DEF Clear
    <2>3. QED
      BY <2>1, <2>2 DEF TypeOK
  <1>2. WithStatus(sched[s], obj'[s]) \in Schedule
    BY <1>1, WithStatusParts DEF TypeOK
  <1>3. /\ DOMAIN down' = Workloads
        /\ \A w \in Workloads : down'[w] \in History(w)
    BY RerecordParts DEF Clear, Records
  <1>4. QED
    BY <1>1, <1>2, <1>3 DEF TypeOK, Clear, Places, History

(* The status the last write of a reconcile writes.                        *)
Final(s) ==
  [obj[s] EXCEPT !.sleeping = goal[s], !.recent = @ \/ goal[s] # obj[s].sleeping]

LEMMA FinalParts ==
  ASSUME TypeOK, NEW s \in Schedules
  PROVE  /\ Final(s) \in Status
         /\ Final(s).managed = obj[s].managed
         /\ Final(s).sleeping = goal[s]
  <1> DEFINE r == obj[s].recent \/ goal[s] # obj[s].sleeping
  <1>1. r \in BOOLEAN
    OBVIOUS
  <1>2. obj[s] \in Status /\ goal[s] \in BOOLEAN
    BY DEF TypeOK
  <1>3. Final(s) = [obj[s] EXCEPT !.sleeping = goal[s], !.recent = r]
    BY DEF Final
  <1> HIDE DEF r
  <1>4. QED
    BY <1>1, <1>2, <1>3 DEF Status

LEMMA FinishType ==
  ASSUME TypeOK, NEW s \in Schedules, Finish(s)
  PROVE  TypeOK'
  <1>1. WithStatus(sched[s], Final(s)) \in Schedule
    BY FinalParts, WithStatusParts DEF TypeOK
  <1>2. sched' = [sched EXCEPT ![s] = WithStatus(sched[s], Final(s))]
    BY DEF Finish, Final
  <1>3. sched' \in [Schedules -> Schedule]
    BY <1>1, <1>2 DEF TypeOK
  <1>4. QED
    BY <1>3, EndType DEF TypeOK, Finish

LEMMA EnvironmentType ==
  ASSUME TypeOK, Environment
  PROVE  TypeOK'
  <1>1. ASSUME NEW w \in Workloads, UserEdit(w)
        PROVE  TypeOK'
    <2>1. PICK st \in UserSettings[w] : spec' = [spec EXCEPT ![w] = st]
      BY <1>1 DEF UserEdit
    <2>2. st \in Settings(KindOf[w]) /\ st \in AnySetting
      BY WorkloadKinds, SettingsAny
    <2>3. QED
      BY <1>1, <2>1, <2>2, SpendType DEF TypeOK, UserEdit, loop, Bounds
  <1>2. ASSUME NEW s \in Schedules, FlipWindow(s)
        PROVE  TypeOK'
    BY <1>2, SpendType DEF TypeOK, FlipWindow, loop, Bounds
  <1>3. ASSUME NEW s \in Schedules, VerifyWindowExpires(s)
        PROVE  TypeOK'
    <2>1. \A c \in Schedule : [c EXCEPT !.recent = FALSE] \in Schedule
      BY DEF Schedule
    <2>2. \A st \in Status : [st EXCEPT !.recent = FALSE] \in Status
      BY DEF Status
    <2> DEFINE newSched == [sched[s] EXCEPT !.recent = FALSE]
               newCache == [cache[s] EXCEPT !.recent = FALSE]
               newObj == [obj[s] EXCEPT !.recent = FALSE]
    <2>3. newSched \in Schedule /\ newCache \in Schedule /\ newObj \in Status
      BY <2>1, <2>2 DEF TypeOK
    <2>4. sched' = [sched EXCEPT ![s] = newSched]
      BY <1>3 DEF VerifyWindowExpires
    <2>5. cache' = [cache EXCEPT ![s] = newCache]
      BY <1>3 DEF VerifyWindowExpires
    <2>6. obj' = [obj EXCEPT ![s] = newObj]
      BY <1>3 DEF VerifyWindowExpires
    <2> HIDE DEF newSched, newCache, newObj
    <2>7. /\ sched' \in [Schedules -> Schedule]
          /\ cache' \in [Schedules -> Schedule]
          /\ obj' \in [Schedules -> Status]
      BY <2>3, <2>4, <2>5, <2>6 DEF TypeOK
    <2>8. UNCHANGED <<spec, window, pc, fresh, kinds, todo, goal, desynced, down, missed, left>>
      BY <1>3 DEF VerifyWindowExpires
    <2>9. QED
      BY <2>7, <2>8 DEF TypeOK
  <1>4. ASSUME NEW s \in Schedules, Sync(s)
        PROVE  TypeOK'
    BY <1>4 DEF TypeOK, Sync, loop
  <1>5. ASSUME NEW s \in Schedules, NEW c \in Schedule, UserChange(s, c),
               /\ DOMAIN down' = Workloads
               /\ \A w \in Workloads : down'[w] \in History(w)
        PROVE  TypeOK'
    BY <1>5, SpendType DEF TypeOK, UserChange, History, Bounds
  <1>6. ASSUME UNCHANGED down
        PROVE  /\ DOMAIN down' = Workloads
               /\ \A w \in Workloads : down'[w] \in History(w)
    BY <1>6 DEF TypeOK, History
  <1>7. ASSUME NEW s \in Schedules, ToggleSuspend(s)
        PROVE  TypeOK'
    <2>1. [sched[s] EXCEPT !.suspend = ~@] \in Schedule
      <3>1. sched[s] \in Schedule
        BY DEF TypeOK
      <3>2. (~sched[s].suspend) \in BOOLEAN
        OBVIOUS
      <3>3. QED
        BY <3>1, <3>2, UserFields
    <2>2. QED
      BY <1>5, <1>6, <1>7, <2>1 DEF ToggleSuspend
  <1>8. ASSUME NEW s \in Schedules, ToggleWindows(s)
        PROVE  TypeOK'
    <2>1. [sched[s] EXCEPT !.windows = ~@] \in Schedule
      <3>1. sched[s] \in Schedule
        BY DEF TypeOK
      <3>2. (~sched[s].windows) \in BOOLEAN
        OBVIOUS
      <3>3. QED
        BY <3>1, <3>2, UserFields
    <2>2. QED
      BY <1>5, <1>6, <1>8, <2>1 DEF ToggleWindows
  <1>9. ASSUME NEW s \in Schedules, Delete(s)
        PROVE  TypeOK'
    <2>1. /\ DOMAIN down' = Workloads
          /\ \A w \in Workloads : down'[w] \in History(w)
      BY <1>9, RerecordParts DEF Delete, Records
    <2>2. QED
      BY <1>5, <1>9, <2>1, NewParts DEF Delete
  <1>10. ASSUME NEW s \in Schedules, Create(s)
         PROVE  TypeOK'
    BY <1>5, <1>6, <1>10, NewParts DEF Create
  <1>11. QED
    BY <1>1, <1>2, <1>3, <1>4, <1>7, <1>8, <1>9, <1>10 DEF Environment

LEMMA InitType == Init => TypeOK
  <1> SUFFICES ASSUME Init PROVE TypeOK
    OBVIOUS
  <1>1. /\ spec \in [Workloads -> AnySetting]
        /\ \A w \in Workloads : spec[w] \in Settings(KindOf[w])
    BY WorkloadKinds, SettingsAny DEF Init
  <1>2. QED
    BY <1>1, NewParts, ConstantsAssumption DEF Init, TypeOK, Places

LEMMA NextType == TypeOK /\ [Next]_vars => TypeOK'
  <1> SUFFICES ASSUME TypeOK, [Next]_vars PROVE TypeOK'
    OBVIOUS
  <1>1. CASE Environment
    BY <1>1, EnvironmentType
  <1>2. ASSUME NEW s \in Schedules, Start(s)
        PROVE  TypeOK'
    BY <1>2, StartBegins, BeginType DEF BeginsAs
  <1>3. ASSUME NEW s \in Schedules, Step(s)
        PROVE  TypeOK'
    BY <1>3, SleepListType, SleepUpdateType, PersistType, WakeUpdateType, VerifyListType,
       ClearType, FinishType, FailType DEF Step, SleepRefused, StatusRefused, TypeOK, Bounds
  <1>4. ASSUME NEW s \in Schedules, Abort(s)
        PROVE  TypeOK'
    BY <1>4, FailType, SpendType DEF Abort, TypeOK, Bounds
  <1>5. ASSUME NEW s \in Schedules, NEW e \in todo[s], WakeMiss(s, e)
        PROVE  TypeOK'
    BY <1>5, WakeMissType
  <1>6. CASE UNCHANGED vars
    BY <1>6 DEF TypeOK, vars
  <1>7. QED
    BY <1>1, <1>2, <1>3, <1>4, <1>5, <1>6 DEF Next

(* The variables keep their types, and no entry of status.managedWorkloads *)
(* ever records a setting in which the workload was already stopped.       *)
THEOREM TypeCorrect == Spec => []TypeOK
  BY InitType, NextType, PTL DEF Spec

-----------------------------------------------------------------------------
Safe ==
  /\ Accounted /\ FreshCopy /\ GoneForgets /\ OnePending /\ StoppedIsQuiesced
  /\ Agreed /\ TodoToSleep /\ TodoToWake

(* A step of schedule s leaves the loops and the copies of the others.     *)
Others(s) ==
  \A r \in Schedules \ {s} :
    /\ pc'[r] = pc[r] /\ obj'[r] = obj[r] /\ fresh'[r] = fresh[r]
    /\ todo'[r] = todo[r] /\ goal'[r] = goal[r]
    /\ sched'[r] = sched[r] /\ cache'[r] = cache[r]

(* The status of s in the API server and in the loop's copy.               *)
SameSched(s) ==
  /\ sched'[s].managed = sched[s].managed
  /\ sched'[s].sleeping = sched[s].sleeping
  /\ sched'[s].exists = sched[s].exists

SameObj(s) ==
  obj'[s].managed = obj[s].managed /\ obj'[s].sleeping = obj[s].sleeping

(* The history changes its records of s from one to another, no more.      *)
Rerecords(s, from, to) ==
  \A w \in Workloads :
    /\ IsDown(w)' = IsDown(w)
    /\ IsDown(w) =>
         /\ down'[w].by = down[w].by
         /\ down'[w].was = down[w].was
         /\ down'[w].record =
              IF down[w].by = s /\ down[w].record = from THEN to ELSE down[w].record

LEMMA Rerecording ==
  ASSUME TypeOK, NEW s \in Schedules, NEW from \in Records, NEW to \in Records,
         down' = Rerecord(s, from, to)
  PROVE  Rerecords(s, from, to)
  <1> SUFFICES ASSUME NEW w \in Workloads
               PROVE  /\ IsDown(w)' = IsDown(w)
                      /\ IsDown(w) =>
                           /\ down'[w].by = down[w].by
                           /\ down'[w].was = down[w].was
                           /\ down'[w].record =
                                IF down[w].by = s /\ down[w].record = from
                                THEN to ELSE down[w].record
    BY DEF Rerecords
  <1>1. CASE IsDown(w)
    <2>1. down'[w].record \in Records
      BY <1>1, RerecordParts, HistoryParts
    <2>2. down'[w].record # "none"
      BY <2>1 DEF Records
    <2>3. QED
      BY <1>1, <2>2, RerecordParts DEF IsDown
  <1>2. CASE ~IsDown(w)
    BY <1>2, RerecordParts DEF IsDown, NotDown
  <1>3. QED
    BY <1>1, <1>2

LEMMA BeginSafe ==
  ASSUME IInv, NEW s \in Schedules, NEW at \in Places, NEW ks \in SUBSET Kinds,
         NEW entries \in SUBSET Entries, NEW g \in BOOLEAN,
         BeginsAs(s, at, ks, entries, g)
  PROVE  Safe'
  <1>1. /\ pc[s] = "idle"
        /\ pc' = [pc EXCEPT ![s] = at]
        /\ obj' = [obj EXCEPT ![s] = StatusOf(cache[s])]
        /\ fresh' = [fresh EXCEPT ![s] = (cache[s] = sched[s])]
        /\ todo' = [todo EXCEPT ![s] = entries]
        /\ goal' = [goal EXCEPT ![s] = g]
        /\ UNCHANGED <<spec, sched, cache, down, missed>>
    BY DEF BeginsAs, Begin
  <1>2. /\ at \in {"sleep", "verify", "wake", "clear", "finish"}
        /\ at = "sleep" => g
        /\ at \in {"verify", "clear"} => ~cache[s].sleeping
        /\ at = "wake" => entries = cache[s].managed
        /\ at # "wake" => entries = {}
        /\ at = "finish" /\ cache[s].sleeping /\ ~g => cache[s].managed = {}
    BY DEF BeginsAs
  <1>3. /\ pc'[s] = at
        /\ fresh'[s] => cache'[s] = sched'[s]
        /\ obj'[s].managed = cache[s].managed /\ obj'[s].sleeping = cache[s].sleeping
        /\ todo'[s] = entries /\ goal'[s] = g
    BY <1>1, StatusOfParts DEF IInv, TypeOK
  <1>4. Others(s)
    BY <1>1 DEF IInv, TypeOK, Others
  <1>5. Accounted'
    BY <1>1, <1>3, <1>4 DEF Others, IInv, Accounted, IsDownBy, IsDown
  <1>6. FreshCopy'
    <2>1. ASSUME pc'[s] # "idle", fresh'[s]
          PROVE  /\ sched'[s].managed = obj'[s].managed
                 /\ sched'[s].sleeping = obj'[s].sleeping
                 /\ cache'[s].managed = obj'[s].managed
      BY <1>1, <1>3, <2>1
    <2>2. QED
      BY <1>4, <2>1 DEF Others, IInv, FreshCopy
  <1>7. OnePending' /\ StoppedIsQuiesced'
    BY <1>1 DEF IInv, StoppedIsQuiesced, IsDown, OnePending, IsDownBy
  <1>8. Agreed'
    BY <1>1, <1>3, <1>4 DEF Others, IInv, Agreed, Accounted, IsDownBy, IsDown
  <1>9. TodoToSleep'
    BY <1>1, <1>2, <1>3, <1>4 DEF Others, IInv, TodoToSleep
  <1>10. TodoToWake'
    <2>1. ASSUME fresh'[s], NEW w \in Workloads, IsDownBy(w, s, {"kept"})'
          PROVE  Entry(w, down'[w].was) \in cache[s].managed
      BY <1>1, <1>3, <2>1 DEF IInv, Accounted, IsDownBy, IsDown
    <2>2. QED
      BY <1>1, <1>2, <1>3, <1>4, <2>1 DEF Others, IInv, TodoToWake, IsDownBy, IsDown
  <1>11. GoneForgets'
    <2>1. fresh'[s] => sched'[s].exists
      BY <1>1, <1>3 DEF BeginsAs, Begin
    <2>2. QED
      BY <1>1, <1>4, <2>1 DEF Others, IInv, GoneForgets
  <1>12. QED
    BY <1>5, <1>6, <1>7, <1>8, <1>9, <1>10, <1>11 DEF Safe

LEMMA FailSafe ==
  ASSUME IInv, NEW s \in Schedules, Fail(s)
  PROVE  Safe'
  <1>1. /\ pc'[s] = "idle" /\ obj'[s].managed = {}
        /\ ~fresh'[s] /\ todo'[s] = {}
    BY NewParts DEF Fail, End, IInv, TypeOK
  <1>2. Others(s) /\ SameSched(s) /\ cache'[s] = cache[s]
    BY DEF Fail, End, IInv, TypeOK, Others, SameSched
  <1>3. Rerecords(s, "pending", "lost")
    BY Rerecording DEF Fail, IInv, Records
  <1>4. UNCHANGED <<spec, sched, cache, missed>>
    BY DEF Fail
  <1>5. Accounted'
    BY <1>1, <1>2, <1>3, <1>4 DEF Others, SameSched, Rerecords, IInv, Accounted, IsDownBy
  <1>6. FreshCopy'
    BY <1>1, <1>2 DEF Others, IInv, FreshCopy
  <1>7. GoneForgets'
    BY <1>1, <1>2, <1>4 DEF Others, IInv, GoneForgets
  <1>8. OnePending' /\ StoppedIsQuiesced'
    BY <1>3, <1>4 DEF Rerecords, IInv, StoppedIsQuiesced, OnePending, IsDownBy, IsDown
  <1>9. Agreed'
    BY <1>1, <1>2, <1>3, <1>4 DEF Others, Rerecords, IInv, Agreed, IsDownBy
  <1>10. TodoToSleep'
    BY <1>1, <1>2 DEF Others, IInv, TodoToSleep
  <1>11. TodoToWake'
    BY <1>1, <1>2, <1>3, <1>4 DEF Others, Rerecords, IInv, TodoToWake, IsDownBy
  <1>12. QED
    BY <1>5, <1>6, <1>7, <1>8, <1>9, <1>10, <1>11 DEF Safe

LEMMA SleepListSafe ==
  ASSUME IInv, NEW s \in Schedules, SleepList(s)
  PROVE  Safe'
  <1>1. /\ pc[s] = "sleep"
        /\ pc'[s] = SleepOrFinish(kinds'[s], todo'[s])
        /\ UNCHANGED <<spec, sched, cache, obj, fresh, goal, down, missed>>
    BY DEF SleepList, IInv, TypeOK
  <1>2. Others(s)
    BY DEF SleepList, IInv, TypeOK, Others
  <1>3. /\ pc'[s] \in {"sleep", "finish"}
        /\ pc'[s] = "finish" => todo'[s] = {}
    BY <1>1 DEF SleepOrFinish
  <1>4. /\ \A e \in todo'[s] : e.name \notin Names(obj[s].managed)
        /\ \A e, f \in todo'[s] : e.name = f.name => e = f
    <2> DEFINE candidates ==
          {w \in Listed(s, NextKind(kinds[s], SleepOrder)) :
             /\ Running(NextKind(kinds[s], SleepOrder), spec[w])
             /\ w \notin Names(obj[s].managed)}
    <2>1. PICK hidden \in SUBSET candidates :
            todo' = [todo EXCEPT ![s] = {Entry(w, spec[w]) : w \in candidates \ hidden}]
      BY DEF SleepList
    <2> DEFINE ws == candidates \ hidden
    <2>2. /\ todo'[s] = {Entry(w, spec[w]) : w \in ws}
          /\ \A w \in ws : w \notin Names(obj[s].managed)
      BY <2>1 DEF IInv, TypeOK
    <2> HIDE DEF ws
    <2>3. ASSUME NEW e \in todo'[s]
          PROVE  e.name \in ws /\ e = Entry(e.name, spec[e.name])
      <3>1. PICK w \in ws : e = Entry(w, spec[w])
        BY <2>2
      <3>2. e.name = w
        BY <3>1, EntryParts
      <3>3. QED
        BY <3>1, <3>2
    <2>4. QED
      BY <2>2, <2>3
  <1>5. goal'[s]
    BY <1>1 DEF IInv, TodoToSleep
  <1>6. Accounted'
    BY <1>1, <1>2 DEF Others, IInv, Accounted, IsDownBy, IsDown
  <1>7. FreshCopy'
    BY <1>1, <1>2, <1>3 DEF Others, IInv, FreshCopy
  <1>8. GoneForgets'
    BY <1>1, <1>2 DEF Others, IInv, GoneForgets
  <1>9. OnePending' /\ StoppedIsQuiesced'
    BY <1>1 DEF IInv, StoppedIsQuiesced, IsDown, OnePending, IsDownBy
  <1>10. Agreed'
    BY <1>1 DEF IInv, Agreed, IsDownBy, IsDown
  <1>11. TodoToSleep'
    BY <1>1, <1>2, <1>3, <1>4, <1>5 DEF Others, IInv, TodoToSleep
  <1>12. TodoToWake'
    BY <1>1, <1>2, <1>3, <1>5 DEF Others, IInv, TodoToWake, IsDownBy, IsDown
  <1>13. QED
    BY <1>6, <1>7, <1>8, <1>9, <1>10, <1>11, <1>12 DEF Safe

LEMMA SleepUpdateSafe ==
  ASSUME IInv, NEW s \in Schedules, NEW e \in todo[s], SleepUpdate(s, e)
  PROVE  Safe'
  <1>1. e \in Entries /\ e.name \in Workloads /\ e = Entry(e.name, e.original)
    BY EntryFacts DEF IInv, TypeOK
  <1>2. /\ pc[s] = "sleep" /\ pc'[s] = "persist"
        /\ todo'[s] = todo[s] \ {e}
        /\ UNCHANGED <<sched, cache, fresh, goal, missed>>
    BY DEF SleepUpdate, IInv, TypeOK
  <1>3. obj'[s].managed = obj[s].managed \cup {e} /\ obj'[s].sleeping = obj[s].sleeping
    BY DEF SleepUpdate, IInv, TypeOK, Status
  <1>4. Others(s)
    BY DEF SleepUpdate, IInv, TypeOK, Others
  <1>5. /\ IsDown(e.name)'
        /\ down'[e.name].by = s /\ down'[e.name].was = e.original
        /\ down'[e.name].record = "pending"
        /\ spec'[e.name] = Quiesce(KindOf[e.name], e.original)
    BY <1>1, DownByParts, EntryFacts DEF SleepUpdate, IInv, TypeOK, IsDown
  <1>6. \A w \in Workloads \ {e.name} :
          down'[w] = down[w] /\ IsDown(w)' = IsDown(w) /\ spec'[w] = spec[w]
    BY <1>1 DEF SleepUpdate, IInv, TypeOK, IsDown
  <1>7. Accounted'
    BY <1>1, <1>2, <1>3, <1>4, <1>5, <1>6 DEF Others, IInv, Accounted, IsDownBy
  <1>8. FreshCopy'
    BY <1>2, <1>3, <1>4 DEF Others, IInv, FreshCopy
  <1>9. GoneForgets'
    BY <1>2, <1>4 DEF Others, IInv, GoneForgets
  <1>10. OnePending' /\ StoppedIsQuiesced'
    BY <1>1, <1>2, <1>5, <1>6 DEF IInv, Accounted, StoppedIsQuiesced, OnePending, IsDownBy
  <1>11. Agreed'
    <2>1. ASSUME fresh[s], NEW f \in sched[s].managed \cup cache[s].managed \cup obj[s].managed
          PROVE  f.name # e.name
      BY <1>2, <2>1 DEF IInv, FreshCopy, TodoToSleep, Names
    <2>2. QED
      BY <1>2, <1>3, <1>4, <1>5, <1>6, <2>1 DEF Others, IInv, Agreed, IsDownBy
  <1>12. TodoToSleep'
    BY <1>2, <1>3, <1>4 DEF Others, IInv, TodoToSleep, Names
  <1>13. TodoToWake'
    BY <1>2, <1>4, <1>5, <1>6 DEF Others, IInv, TodoToWake, IsDownBy
  <1>14. QED
    BY <1>7, <1>8, <1>9, <1>10, <1>11, <1>12, <1>13 DEF Safe

LEMMA PersistSafe ==
  ASSUME IInv, NEW s \in Schedules, Persist(s)
  PROVE  Safe'
  <1>1. /\ pc[s] = "persist" /\ fresh[s]
        /\ pc'[s] \in {"sleep", "finish"}
        /\ pc'[s] = "finish" => todo'[s] = {}
        /\ UNCHANGED <<spec, cache, obj, fresh, todo, goal, missed>>
    BY DEF Persist, SleepOrFinish, IInv, TypeOK
  <1>2. Others(s)
    BY DEF Persist, IInv, TypeOK, Others
  <1>3. /\ sched'[s].managed = obj[s].managed
        /\ sched'[s].sleeping = obj[s].sleeping
        /\ sched'[s].exists = sched[s].exists
    BY WithStatusParts DEF Persist, IInv, TypeOK
  <1>4. Rerecords(s, "pending", "kept")
    BY Rerecording DEF Persist, IInv, Records
  <1>5. goal[s]
    BY <1>1 DEF IInv, TodoToSleep
  <1>6. sched[s].managed \subseteq obj[s].managed /\ cache[s].managed \subseteq obj[s].managed
    BY <1>1 DEF IInv, FreshCopy
  <1>7. Accounted'
    BY <1>1, <1>2, <1>3, <1>4, <1>6 DEF Others, Rerecords, IInv, Accounted, IsDownBy
  <1>8. FreshCopy'
    BY <1>1, <1>2, <1>3, <1>6 DEF Others, IInv, FreshCopy
  <1>9. GoneForgets'
    BY <1>1, <1>2, <1>3 DEF Others, IInv, GoneForgets
  <1>10. OnePending' /\ StoppedIsQuiesced'
    BY <1>1, <1>4 DEF Rerecords, IInv, StoppedIsQuiesced, OnePending, IsDownBy, IsDown
  <1>11. Agreed'
    BY <1>1, <1>2, <1>3, <1>4 DEF Others, Rerecords, IInv, Agreed, IsDownBy
  <1>12. TodoToSleep'
    BY <1>1, <1>2 DEF Others, IInv, TodoToSleep
  <1>13. TodoToWake'
    BY <1>1, <1>2, <1>4, <1>5 DEF Others, Rerecords, IInv, TodoToWake, IsDownBy
  <1>14. QED
    BY <1>7, <1>8, <1>9, <1>10, <1>11, <1>12, <1>13 DEF Safe

LEMMA WakeUpdateSafe ==
  ASSUME IInv, NEW s \in Schedules, NEW e \in todo[s], WakeUpdate(s, e)
  PROVE  Safe'
  <1>1. e.name \in Workloads /\ e = Entry(e.name, e.original)
    BY EntryFacts DEF IInv, TypeOK
  <1>2. /\ pc[s] = "wake"
        /\ pc'[s] \in {"wake", "finish"}
        /\ pc'[s] = "finish" => todo'[s] = {}
        /\ todo'[s] = todo[s] \ {e}
        /\ missed' = missed \ {e.name}
        /\ UNCHANGED <<sched, cache, obj, fresh, goal>>
    BY DEF WakeUpdate, WakeNext, WakeOrFinish, IInv, TypeOK
  <1>3. Others(s)
    BY DEF WakeUpdate, IInv, TypeOK, Others
  <1>4. ~IsDown(e.name)'
    BY <1>1 DEF WakeUpdate, IInv, TypeOK, IsDown, NotDown
  <1>5. \A w \in Workloads \ {e.name} :
          down'[w] = down[w] /\ IsDown(w)' = IsDown(w) /\ spec'[w] = spec[w]
    BY <1>1 DEF WakeUpdate, IInv, TypeOK, IsDown
  <1>6. Accounted'
    BY <1>2, <1>3, <1>4, <1>5 DEF Others, IInv, Accounted, IsDownBy
  <1>7. FreshCopy'
    BY <1>2, <1>3 DEF Others, IInv, FreshCopy
  <1>8. GoneForgets'
    BY <1>2, <1>3 DEF Others, IInv, GoneForgets
  <1>9. OnePending' /\ StoppedIsQuiesced'
    BY <1>4, <1>5 DEF IInv, StoppedIsQuiesced, OnePending, IsDownBy, IsDown
  <1>10. Agreed'
    BY <1>2, <1>4, <1>5 DEF IInv, Agreed, IsDownBy
  <1>11. TodoToSleep'
    BY <1>2, <1>3 DEF Others, IInv, TodoToSleep
  <1>12. TodoToWake'
    <2>1. ASSUME NEW w \in Workloads, w # e.name, NEW st
          PROVE  Entry(w, st) # e
      BY <2>1, EntryParts
    <2>2. \A w \in Workloads \ {e.name} : w \in missed => w \in missed'
      BY <1>2
    <2>3. QED
      BY <1>2, <1>3, <1>4, <1>5, <2>1, <2>2 DEF Others, IInv, TodoToWake, IsDownBy
  <1>13. QED
    BY <1>6, <1>7, <1>8, <1>9, <1>10, <1>11, <1>12 DEF Safe

LEMMA WakeMissSafe ==
  ASSUME IInv, NEW s \in Schedules, NEW e \in todo[s], WakeMiss(s, e)
  PROVE  Safe'
  <1>1. e.name \in Workloads /\ e = Entry(e.name, e.original)
    BY EntryFacts DEF IInv, TypeOK
  <1>2. /\ pc[s] = "wake"
        /\ pc'[s] \in {"wake", "finish"}
        /\ pc'[s] = "finish" => todo'[s] = {}
        /\ todo'[s] = todo[s] \ {e}
        /\ missed \subseteq missed'
        /\ IsDown(e.name) => e.name \in missed'
        /\ UNCHANGED <<spec, sched, cache, obj, fresh, goal, down>>
    BY DEF WakeMiss, WakeNext, WakeOrFinish, IInv, TypeOK
  <1>3. Others(s)
    BY DEF WakeMiss, IInv, TypeOK, Others
  <1>4. Accounted'
    BY <1>2, <1>3 DEF Others, IInv, Accounted, IsDownBy, IsDown
  <1>5. FreshCopy'
    BY <1>2, <1>3 DEF Others, IInv, FreshCopy
  <1>6. GoneForgets'
    BY <1>2, <1>3 DEF Others, IInv, GoneForgets
  <1>7. OnePending' /\ StoppedIsQuiesced'
    BY <1>2 DEF IInv, StoppedIsQuiesced, IsDown, OnePending, IsDownBy
  <1>8. Agreed'
    BY <1>2 DEF IInv, Agreed, IsDownBy, IsDown
  <1>9. TodoToSleep'
    BY <1>2, <1>3 DEF Others, IInv, TodoToSleep
  <1>10. TodoToWake'
    <2>1. ASSUME NEW w \in Workloads, w # e.name, NEW st
          PROVE  Entry(w, st) # e
      BY <2>1, EntryParts
    <2>2. QED
      BY <1>1, <1>2, <1>3, <2>1 DEF Others, IInv, TodoToWake, IsDownBy, IsDown
  <1>11. QED
    BY <1>4, <1>5, <1>6, <1>7, <1>8, <1>9, <1>10 DEF Safe

LEMMA VerifyListSafe ==
  ASSUME IInv, NEW s \in Schedules, VerifyList(s)
  PROVE  Safe'
  <1>1. /\ pc[s] = "verify"
        /\ pc'[s] \in {"verify", "wake", "finish"}
        /\ pc'[s] = "wake" => todo'[s] = obj[s].managed
        /\ pc'[s] # "wake" => todo'[s] = {}
        /\ UNCHANGED <<spec, sched, cache, obj, fresh, goal, down, missed>>
    BY DEF VerifyList, IInv, TypeOK
  <1>2. Others(s)
    BY DEF VerifyList, IInv, TypeOK, Others
  <1>3. ~obj[s].sleeping
    BY <1>1 DEF IInv, TodoToWake
  <1>4. Accounted'
    BY <1>1, <1>2 DEF Others, IInv, Accounted, IsDownBy, IsDown
  <1>5. FreshCopy'
    BY <1>1, <1>2 DEF Others, IInv, FreshCopy
  <1>6. GoneForgets'
    BY <1>1, <1>2 DEF Others, IInv, GoneForgets
  <1>7. OnePending' /\ StoppedIsQuiesced'
    BY <1>1 DEF IInv, StoppedIsQuiesced, IsDown, OnePending, IsDownBy
  <1>8. Agreed'
    BY <1>1 DEF IInv, Agreed, IsDownBy, IsDown
  <1>9. TodoToSleep'
    BY <1>1, <1>2 DEF Others, IInv, TodoToSleep
  <1>10. TodoToWake'
    <2>1. ASSUME fresh[s], NEW w \in Workloads, IsDownBy(w, s, {"kept"})
          PROVE  Entry(w, down[w].was) \in obj[s].managed
      BY <1>1, <2>1 DEF IInv, Accounted, FreshCopy
    <2>2. QED
      BY <1>1, <1>2, <1>3, <2>1 DEF Others, IInv, TodoToWake, IsDownBy, IsDown
  <1>11. QED
    BY <1>4, <1>5, <1>6, <1>7, <1>8, <1>9, <1>10 DEF Safe

LEMMA ClearSafe ==
  ASSUME IInv, NEW s \in Schedules, Clear(s)
  PROVE  Safe'
  <1>1. /\ pc[s] = "clear" /\ pc'[s] = "finish" /\ fresh[s]
        /\ UNCHANGED <<spec, cache, fresh, todo, goal, missed>>
    BY DEF Clear, IInv, TypeOK
  <1>2. obj'[s] \in Status /\ obj'[s].managed = {} /\ obj'[s].sleeping = obj[s].sleeping
    <2>1. obj[s] \in Status
      BY DEF IInv, TypeOK
    <2>2. obj'[s] = [obj[s] EXCEPT !.managed = {}]
      BY DEF Clear, IInv, TypeOK
    <2>3. QED
      BY <2>1, <2>2 DEF Status
  <1>3. /\ sched'[s].managed = {}
        /\ sched'[s].sleeping = obj'[s].sleeping
        /\ sched'[s].exists = sched[s].exists
    <2>1. sched'[s] = WithStatus(sched[s], obj'[s])
      BY DEF Clear, IInv, TypeOK
    <2>2. sched[s] \in Schedule
      BY DEF IInv, TypeOK
    <2>3. PICK st \in Status : st = obj'[s]
      BY <1>2
    <2>4. QED
      BY <1>2, <2>1, <2>2, <2>3, WithStatusParts
  <1>4. Others(s)
    BY DEF Clear, IInv, TypeOK, Others
  <1>5. Rerecords(s, "kept", "dropped")
    BY Rerecording DEF Clear, IInv, Records
  <1>6. Accounted'
    BY <1>1, <1>4, <1>5 DEF Others, Rerecords, IInv, Accounted, IsDownBy
  <1>7. FreshCopy'
    BY <1>1, <1>2, <1>3, <1>4 DEF Others, IInv, FreshCopy
  <1>8. GoneForgets'
    BY <1>1, <1>3, <1>4 DEF Others, IInv, GoneForgets
  <1>9. OnePending' /\ StoppedIsQuiesced'
    BY <1>1, <1>5 DEF Rerecords, IInv, StoppedIsQuiesced, OnePending, IsDownBy, IsDown
  <1>10. Agreed'
    BY <1>1, <1>2, <1>3, <1>4, <1>5 DEF Others, Rerecords, IInv, Agreed, IsDownBy
  <1>11. TodoToSleep'
    BY <1>1, <1>4 DEF Others, IInv, TodoToSleep
  <1>12. TodoToWake'
    BY <1>1, <1>4, <1>5 DEF Others, Rerecords, IInv, TodoToWake, IsDownBy
  <1>13. QED
    BY <1>6, <1>7, <1>8, <1>9, <1>10, <1>11, <1>12 DEF Safe

LEMMA FinishSafe ==
  ASSUME IInv, NEW s \in Schedules, Finish(s)
  PROVE  Safe'
  <1>1. /\ pc[s] = "finish" /\ fresh[s]
        /\ pc'[s] = "idle" /\ ~fresh'[s] /\ todo'[s] = {} /\ obj'[s].managed = {}
        /\ UNCHANGED <<spec, cache, down, missed>>
    BY NewParts DEF Finish, End, IInv, TypeOK
  <1>2. sched' = [sched EXCEPT ![s] = WithStatus(sched[s], Final(s))]
    BY DEF Finish, Final
  <1>3. /\ sched'[s].managed = obj[s].managed
        /\ sched'[s].exists = sched[s].exists
    BY <1>2, FinalParts, WithStatusParts DEF IInv, TypeOK
  <1>4. Others(s)
    BY DEF Finish, End, IInv, TypeOK, Others
  <1>5. sched[s].managed \subseteq obj[s].managed
    BY <1>1 DEF IInv, FreshCopy
  <1>6. Accounted'
    BY <1>1, <1>3, <1>4, <1>5 DEF Others, IInv, Accounted, IsDownBy, IsDown
  <1>7. FreshCopy'
    BY <1>1, <1>4 DEF Others, IInv, FreshCopy
  <1>8. GoneForgets'
    BY <1>1, <1>3, <1>4 DEF Others, IInv, GoneForgets
  <1>9. OnePending' /\ StoppedIsQuiesced'
    BY <1>1 DEF IInv, StoppedIsQuiesced, IsDown, OnePending, IsDownBy
  <1>10. Agreed'
    BY <1>1, <1>3, <1>4 DEF Others, IInv, Agreed, IsDownBy, IsDown
  <1>11. TodoToSleep'
    BY <1>1, <1>4 DEF Others, IInv, TodoToSleep
  <1>12. TodoToWake'
    BY <1>1, <1>4 DEF Others, IInv, TodoToWake, IsDownBy, IsDown
  <1>13. QED
    BY <1>6, <1>7, <1>8, <1>9, <1>10, <1>11, <1>12 DEF Safe

LEMMA UserEditSafe ==
  ASSUME IInv, NEW edited \in Workloads, UserEdit(edited)
  PROVE  Safe'
  <1>1. /\ UNCHANGED <<sched, cache, pc, obj, fresh, todo, goal>>
        /\ missed' = missed \ {edited}
    BY DEF UserEdit, loop
  <1>2. ~IsDown(edited)'
    BY DEF UserEdit, IInv, TypeOK, IsDown, NotDown
  <1>3. \A w \in Workloads \ {edited} :
          down'[w] = down[w] /\ IsDown(w)' = IsDown(w) /\ spec'[w] = spec[w]
    BY DEF UserEdit, IInv, TypeOK, IsDown
  <1>4. Accounted'
    BY <1>1, <1>2, <1>3 DEF IInv, Accounted, IsDownBy
  <1>5. FreshCopy' /\ GoneForgets' /\ TodoToSleep'
    BY <1>1 DEF IInv, FreshCopy, GoneForgets, TodoToSleep
  <1>6. OnePending' /\ StoppedIsQuiesced'
    BY <1>2, <1>3 DEF IInv, StoppedIsQuiesced, OnePending, IsDownBy, IsDown
  <1>7. Agreed'
    BY <1>1, <1>2, <1>3 DEF IInv, Agreed, IsDownBy
  <1>8. TodoToWake'
    BY <1>1, <1>2, <1>3 DEF IInv, TodoToWake, IsDownBy
  <1>9. QED
    BY <1>4, <1>5, <1>6, <1>7, <1>8 DEF Safe

LEMMA FlipWindowSafe ==
  ASSUME IInv, NEW s \in Schedules, FlipWindow(s)
  PROVE  Safe'
  <1>1. UNCHANGED <<spec, sched, cache, pc, obj, fresh, todo, goal, down, missed>>
    BY DEF FlipWindow, loop
  <1>2. QED
    BY <1>1 DEF IInv, Safe, Accounted, FreshCopy, GoneForgets, OnePending, StoppedIsQuiesced, Agreed,
       TodoToSleep, TodoToWake, IsDownBy, IsDown

LEMMA VerifyWindowExpiresSafe ==
  ASSUME IInv, NEW s \in Schedules, VerifyWindowExpires(s)
  PROVE  Safe'
  <1>1. UNCHANGED <<spec, pc, fresh, todo, goal, down, missed>>
    BY DEF VerifyWindowExpires
  <1>2. SameSched(s)
    BY DEF VerifyWindowExpires, IInv, TypeOK, Schedule, SameSched
  <1>3. cache'[s].managed = cache[s].managed
    BY DEF VerifyWindowExpires, IInv, TypeOK, Schedule
  <1>4. SameObj(s)
    BY DEF VerifyWindowExpires, IInv, TypeOK, Status, SameObj
  <1>5. Others(s)
    BY DEF VerifyWindowExpires, IInv, TypeOK, Others
  <1>6. Accounted'
    BY <1>1, <1>2, <1>4, <1>5
       DEF Others, SameSched, SameObj, IInv, Accounted, IsDownBy, IsDown
  <1>7. FreshCopy'
    BY <1>1, <1>2, <1>3, <1>4, <1>5 DEF Others, SameSched, SameObj, IInv, FreshCopy
  <1>8. GoneForgets'
    BY <1>1, <1>2, <1>5 DEF Others, SameSched, IInv, GoneForgets
  <1>9. OnePending' /\ StoppedIsQuiesced'
    BY <1>1 DEF IInv, StoppedIsQuiesced, IsDown, OnePending, IsDownBy
  <1>10. Agreed'
    BY <1>1, <1>2, <1>3, <1>4, <1>5
       DEF Others, SameSched, SameObj, IInv, Agreed, IsDownBy, IsDown
  <1>11. TodoToSleep'
    BY <1>1, <1>4, <1>5 DEF Others, SameObj, IInv, TodoToSleep, Names
  <1>12. TodoToWake'
    BY <1>1, <1>4, <1>5 DEF Others, SameObj, IInv, TodoToWake, IsDownBy, IsDown
  <1>13. QED
    BY <1>6, <1>7, <1>8, <1>9, <1>10, <1>11, <1>12 DEF Safe

LEMMA SyncSafe ==
  ASSUME IInv, NEW s \in Schedules, Sync(s)
  PROVE  Safe'
  <1>1. UNCHANGED <<spec, sched, pc, obj, fresh, todo, goal, down, missed>>
    BY DEF Sync, loop
  <1>2. cache'[s] = sched[s]
    BY DEF Sync, IInv, TypeOK
  <1>3. Others(s)
    BY DEF Sync, loop, IInv, TypeOK, Others
  <1>4. FreshCopy'
    BY <1>1, <1>2, <1>3 DEF Others, IInv, FreshCopy
  <1>5. Agreed'
    BY <1>1, <1>2, <1>3 DEF Others, IInv, Agreed, IsDownBy, IsDown
  <1>6. Accounted' /\ GoneForgets' /\ OnePending' /\ StoppedIsQuiesced' /\ TodoToSleep' /\ TodoToWake'
    BY <1>1
       DEF IInv, Accounted, GoneForgets, StoppedIsQuiesced, TodoToSleep, TodoToWake, IsDownBy, IsDown, OnePending
  <1>7. QED
    BY <1>4, <1>5, <1>6 DEF Safe

(* Changes of the spec of a schedule leave its status alone; and a new     *)
(* schedule starts with no entries, as the deleted one ended.              *)
LEMMA UserChangeSafe ==
  ASSUME IInv, NEW s \in Schedules, NEW c \in Schedule, UserChange(s, c), UNCHANGED down,
         c.managed = sched[s].managed, c.exists
  PROVE  Safe'
  <1>1. /\ UNCHANGED <<spec, cache, pc, obj, todo, goal, down, missed>>
        /\ ~fresh'[s]
    BY DEF UserChange, IInv, TypeOK
  <1>2. sched'[s] = c
    BY DEF UserChange, IInv, TypeOK
  <1>3. Others(s)
    BY DEF UserChange, IInv, TypeOK, Others
  <1>4. Accounted'
    BY <1>1, <1>2, <1>3 DEF Others, IInv, Accounted, IsDownBy, IsDown
  <1>5. FreshCopy'
    BY <1>1, <1>2, <1>3 DEF Others, IInv, FreshCopy
  <1>6. GoneForgets'
    BY <1>1, <1>2, <1>3 DEF Others, IInv, GoneForgets
  <1>7. Agreed'
    BY <1>1, <1>2, <1>3 DEF Others, IInv, Agreed, IsDownBy, IsDown
  <1>8. OnePending' /\ StoppedIsQuiesced' /\ TodoToSleep'
    BY <1>1 DEF IInv, StoppedIsQuiesced, TodoToSleep, IsDown, OnePending, IsDownBy
  <1>9. TodoToWake'
    BY <1>1, <1>3 DEF Others, IInv, TodoToWake, IsDownBy, IsDown
  <1>10. QED
    BY <1>4, <1>5, <1>6, <1>7, <1>8, <1>9 DEF Safe

LEMMA DeleteSafe ==
  ASSUME IInv, NEW s \in Schedules, Delete(s)
  PROVE  Safe'
  <1>1. /\ UNCHANGED <<spec, cache, pc, obj, todo, goal, missed>>
        /\ ~fresh'[s]
    BY DEF Delete, UserChange, IInv, TypeOK
  <1>2. sched'[s].managed = {} /\ ~sched'[s].sleeping
    BY NewParts DEF Delete, UserChange, IInv, TypeOK
  <1>3. Others(s)
    BY DEF Delete, UserChange, IInv, TypeOK, Others
  <1>4. Rerecords(s, "kept", "dropped")
    BY Rerecording DEF Delete, IInv, Records
  <1>5. Accounted'
    BY <1>1, <1>2, <1>3, <1>4 DEF Others, Rerecords, IInv, Accounted, IsDownBy
  <1>6. FreshCopy'
    BY <1>1, <1>3 DEF Others, IInv, FreshCopy
  <1>7. GoneForgets'
    BY <1>1, <1>2, <1>3 DEF Others, IInv, GoneForgets
  <1>8. Agreed'
    BY <1>1, <1>2, <1>3, <1>4 DEF Others, Rerecords, IInv, Agreed, IsDownBy
  <1>9. OnePending' /\ StoppedIsQuiesced'
    BY <1>1, <1>4 DEF Rerecords, IInv, StoppedIsQuiesced, OnePending, IsDownBy, IsDown
  <1>10. TodoToSleep'
    BY <1>1 DEF IInv, TodoToSleep
  <1>11. TodoToWake'
    BY <1>1, <1>3, <1>4 DEF Others, Rerecords, IInv, TodoToWake, IsDownBy
  <1>12. QED
    BY <1>5, <1>6, <1>7, <1>8, <1>9, <1>10, <1>11 DEF Safe

LEMMA EnvironmentSafe ==
  ASSUME IInv, Environment
  PROVE  Safe'
  <1>1. ASSUME NEW w \in Workloads, UserEdit(w)
        PROVE  Safe'
    BY <1>1, UserEditSafe
  <1>2. ASSUME NEW s \in Schedules, FlipWindow(s) \/ VerifyWindowExpires(s) \/ Sync(s)
        PROVE  Safe'
    BY <1>2, FlipWindowSafe, VerifyWindowExpiresSafe, SyncSafe
  <1>3. ASSUME NEW s \in Schedules, ToggleSuspend(s)
        PROVE  Safe'
    <2> DEFINE c == [sched[s] EXCEPT !.suspend = ~@]
    <2>1. c \in Schedule /\ c.managed = sched[s].managed /\ c.exists = sched[s].exists
      <3>1. sched[s] \in Schedule
        BY DEF IInv, TypeOK
      <3>2. (~sched[s].suspend) \in BOOLEAN
        OBVIOUS
      <3>3. QED
        BY <3>1, <3>2, UserFields
    <2>2. UserChange(s, c) /\ UNCHANGED down /\ sched[s].exists
      BY <1>3 DEF ToggleSuspend
    <2> HIDE DEF c
    <2>3. QED
      BY <2>1, <2>2, UserChangeSafe
  <1>4. ASSUME NEW s \in Schedules, ToggleWindows(s)
        PROVE  Safe'
    <2> DEFINE c == [sched[s] EXCEPT !.windows = ~@]
    <2>1. c \in Schedule /\ c.managed = sched[s].managed /\ c.exists = sched[s].exists
      <3>1. sched[s] \in Schedule
        BY DEF IInv, TypeOK
      <3>2. (~sched[s].windows) \in BOOLEAN
        OBVIOUS
      <3>3. QED
        BY <3>1, <3>2, UserFields
    <2>2. UserChange(s, c) /\ UNCHANGED down /\ sched[s].exists
      BY <1>4 DEF ToggleWindows
    <2> HIDE DEF c
    <2>3. QED
      BY <2>1, <2>2, UserChangeSafe
  <1>5. ASSUME NEW s \in Schedules, Delete(s)
        PROVE  Safe'
    BY <1>5, DeleteSafe
  <1>6. ASSUME NEW s \in Schedules, Create(s)
        PROVE  Safe'
    <2>1. NewSchedule.managed = sched[s].managed
      BY <1>6, NewParts DEF Create, IInv, GoneForgets
    <2>2. NewSchedule.exists
      BY DEF NewSchedule
    <2>3. QED
      BY <1>6, <2>1, <2>2, NewParts, UserChangeSafe DEF Create
  <1>7. QED
    BY <1>1, <1>2, <1>3, <1>4, <1>5, <1>6 DEF Environment

LEMMA InitSafe == Init => IInv
  <1> SUFFICES ASSUME Init PROVE IInv
    OBVIOUS
  <1>1. \A w \in Workloads : ~IsDown(w)
    BY DEF Init, IsDown, NotDown
  <1>2. QED
    BY <1>1, InitType DEF Init, NewSchedule, IInv, Accounted, FreshCopy, GoneForgets,
       OnePending, StoppedIsQuiesced, Agreed, TodoToSleep, TodoToWake, IsDownBy

LEMMA NextSafe == IInv /\ [Next]_vars => IInv'
  <1> SUFFICES ASSUME IInv, [Next]_vars PROVE Safe'
    BY NextType DEF IInv, Safe
  <1>1. CASE Environment
    BY <1>1, EnvironmentSafe
  <1>2. ASSUME NEW s \in Schedules, Start(s)
        PROVE  Safe'
    BY <1>2, StartBegins, BeginSafe DEF IInv
  <1>3. ASSUME NEW s \in Schedules, Step(s)
        PROVE  Safe'
    BY <1>3, SleepListSafe, SleepUpdateSafe, PersistSafe, WakeUpdateSafe, VerifyListSafe,
       ClearSafe, FinishSafe, FailSafe DEF Step, SleepRefused, StatusRefused
  <1>4. ASSUME NEW s \in Schedules, Abort(s)
        PROVE  Safe'
    BY <1>4, FailSafe DEF Abort
  <1>5. ASSUME NEW s \in Schedules, NEW e \in todo[s], WakeMiss(s, e)
        PROVE  Safe'
    BY <1>5, WakeMissSafe
  <1>6. CASE UNCHANGED vars
    BY <1>6 DEF vars, IInv, Safe, Accounted, FreshCopy, GoneForgets, OnePending, StoppedIsQuiesced,
       Agreed, TodoToSleep, TodoToWake, IsDownBy, IsDown
  <1>7. QED
    BY <1>1, <1>2, <1>3, <1>4, <1>5, <1>6 DEF Next

(* The inductive invariant: it implies every invariant the runs check.     *)
THEOREM Safety == Spec => []IInv
  BY InitSafe, NextSafe, PTL DEF Spec

(* A stopped and recorded workload keeps its entry, through stale copies,  *)
(* refused writes, crashes and the loops of other schedules (Persist and   *)
(* the status writes of Reconcile).                                        *)
THEOREM RecordsKept == Spec => []Accounted
  <1>1. IInv => Accounted
    BY DEF IInv
  <1>2. QED
    BY <1>1, Safety, PTL

-----------------------------------------------------------------------------
(* The action properties.                                                  *)

(* Only a wake of the same schedule starts a workload whose turn it was.   *)
LEMMA OnlyWakeStarts ==
  ASSUME IInv, [Next]_vars, NEW s \in Schedules, NEW e \in todo[s],
         pc[s] = "wake", e \notin todo'[s], IsDown(e.name), ~IsDown(e.name)'
  PROVE  WakeUpdate(s, e)
  <1>1. e.name \in Workloads
    BY EntryFacts DEF IInv, TypeOK
  <1>2. ASSUME NEW r \in Schedules, Fail(r)
        PROVE  FALSE
    BY <1>1, <1>2, Rerecording DEF Fail, Rerecords, IInv, Records
  <1>3. ASSUME NEW r \in Schedules, NEW f \in todo[r], WakeUpdate(r, f)
        PROVE  r = s /\ f = e
    BY <1>3 DEF WakeUpdate, IInv, TypeOK
  <1>4. ~Environment
    BY DEF Environment, UserEdit, FlipWindow, VerifyWindowExpires, Sync, ToggleSuspend,
       ToggleWindows, Delete, Create, UserChange, loop
  <1>5. ASSUME NEW r \in Schedules, Start(r)
        PROVE  FALSE
    BY <1>5, StartBegins DEF BeginsAs, Begin, IsDown, IInv
  <1>6. ASSUME NEW r \in Schedules,
               \/ SleepList(r) \/ VerifyList(r) \/ Finish(r) \/ Persist(r) \/ Clear(r)
               \/ \E f \in todo[r] : SleepUpdate(r, f) \/ WakeMiss(r, f)
        PROVE  FALSE
    <2>1. CASE SleepList(r) \/ VerifyList(r) \/ Finish(r) \/ \E f \in todo[r] : WakeMiss(r, f)
      BY <2>1 DEF SleepList, VerifyList, Finish, WakeMiss, IsDown
    <2>2. CASE Persist(r) \/ Clear(r)
      BY <2>2 DEF Persist, Clear
    <2>3. ASSUME NEW f \in todo[r], SleepUpdate(r, f)
          PROVE  FALSE
      BY <2>3 DEF SleepUpdate, IInv, TypeOK
    <2>4. QED
      BY <1>6, <2>1, <2>2, <2>3
  <1>7. ~UNCHANGED vars
    BY DEF vars
  <1>8. QED
    BY <1>2, <1>3, <1>4, <1>5, <1>6, <1>7
       DEF Next, Step, Abort, SleepRefused, StatusRefused

(* Whatever happened since a schedule stopped a workload, its wake gives   *)
(* the workload its setting back (wakeWorkloads).                          *)
THEOREM ExactRestore == Spec => RestoresExactly
  <1> DEFINE Restored ==
        \A s \in Schedules : \A e \in todo[s] :
          /\ pc[s] = "wake"
          /\ e \notin todo'[s]
          /\ IsDownBy(e.name, s, {"kept"})
          /\ ~IsDown(e.name)'
          => spec'[e.name] = down[e.name].was
  <1>1. IInv /\ [Next]_vars => Restored
    <2> SUFFICES ASSUME IInv, [Next]_vars, NEW s \in Schedules, NEW e \in todo[s],
                        pc[s] = "wake", e \notin todo'[s], IsDownBy(e.name, s, {"kept"}),
                        ~IsDown(e.name)'
                 PROVE  spec'[e.name] = down[e.name].was
      OBVIOUS
    <2> DEFINE w == e.name
    <2>1. WakeUpdate(s, e)
      BY OnlyWakeStarts DEF IsDownBy
    <2>2. w \in Workloads /\ KindOf[w] \in Kinds
      BY EntryFacts, WorkloadKinds DEF IInv, TypeOK
    <2>3. e \in obj[s].managed
      BY DEF IInv, TodoToWake
    <2>4. e.original = down[w].was
      BY <2>2, <2>3 DEF IInv, Agreed
    <2>5. spec[w] = Quiesce(KindOf[w], down[w].was)
      BY <2>2 DEF IInv, StoppedIsQuiesced, IsDownBy
    <2>6. down[w].was \in Settings(KindOf[w])
      BY <2>2, HistoryParts DEF IInv, IsDownBy, RunningSettings
    <2>7. spec'[w] = Restore(KindOf[w], spec[w], e.original)
      BY <2>1, <2>2 DEF WakeUpdate, IInv, TypeOK
    <2>8. QED
      BY <2>2, <2>4, <2>5, <2>6, <2>7, RestoreQuiesced
  <1>2. QED
    BY <1>1, Safety, PTL DEF Spec, RestoresExactly

(* "Second pass: resume suspend-based operators AFTER workloads are        *)
(* restored" (wakeWorkloads), for a loop whose copy is current.            *)
THEOREM OperatorsLast == Spec => OperatorsResumeLast
  <1> DEFINE InOrder ==
        \A s \in Schedules : \A e \in todo[s] :
          /\ pc[s] = "wake"
          /\ fresh[s]
          /\ IsOperator(e)
          /\ e \notin todo'[s]
          /\ IsDownBy(e.name, s, {"kept"})
          /\ ~IsDown(e.name)'
          => \A w \in Workloads :
               IsDownBy(w, s, {"kept"}) /\ KindOf[w] \notin OperatorKinds => w \in missed
  <1>1. IInv /\ [Next]_vars => InOrder
    <2> SUFFICES ASSUME IInv, [Next]_vars, NEW s \in Schedules, NEW e \in todo[s],
                        pc[s] = "wake", fresh[s], IsOperator(e), e \notin todo'[s],
                        IsDownBy(e.name, s, {"kept"}), ~IsDown(e.name)',
                        NEW w \in Workloads, IsDownBy(w, s, {"kept"}),
                        KindOf[w] \notin OperatorKinds
                 PROVE  w \in missed
      OBVIOUS
    <2>1. WakeNext(s, e)
      BY OnlyWakeStarts DEF IsDownBy, WakeUpdate
    <2>2. ~IsOperator(Entry(w, down[w].was))
      BY EntryParts DEF IsOperator
    <2>3. Entry(w, down[w].was) \notin todo[s]
      BY <2>1, <2>2 DEF WakeNext
    <2>4. QED
      BY <2>3 DEF IInv, TodoToWake
  <1>2. QED
    BY <1>1, Safety, PTL DEF Spec, OperatorsResumeLast

(* Only the last write of a reconcile ends a schedule's sleep; a schedule  *)
(* that is created starts awake.                                           *)
LEMMA OnlyFinishWakes ==
  ASSUME IInv, [Next]_vars, NEW s \in Schedules,
         sched[s].sleeping, ~sched'[s].sleeping, sched'[s].exists
  PROVE  \/ Finish(s) /\ ~goal[s]
         \/ ~sched[s].exists
  <1>1. ASSUME NEW r \in Schedules, Finish(r)
        PROVE  r = s /\ ~goal[s]
    <2>1. sched' = [sched EXCEPT ![r] = WithStatus(sched[r], Final(r))]
      BY <1>1 DEF Finish, Final
    <2>2. r = s
      BY <2>1 DEF IInv, TypeOK
    <2>3. QED
      BY <2>1, <2>2, FinalParts, WithStatusParts DEF IInv, TypeOK
  <1>2. ASSUME NEW r \in Schedules, Persist(r)
        PROVE  FALSE
    <2>1. sched' = [sched EXCEPT ![r] = WithStatus(sched[r], obj[r])]
      BY <1>2 DEF Persist
    <2>2. r = s /\ fresh[s] /\ pc[s] # "idle"
      BY <1>2, <2>1 DEF Persist, IInv, TypeOK
    <2>3. sched[s] \in Schedule /\ obj[s] \in Status
      BY DEF IInv, TypeOK
    <2>4. obj[s].sleeping = sched[s].sleeping
      BY <2>2 DEF IInv, FreshCopy
    <2>5. sched'[s] = WithStatus(sched[s], obj[s])
      BY <2>1, <2>2 DEF IInv, TypeOK
    <2>6. QED
      BY <2>3, <2>4, <2>5, WithStatusParts
  <1>3. ASSUME NEW r \in Schedules, Clear(r)
        PROVE  FALSE
    <2> DEFINE cleared == [obj[r] EXCEPT !.managed = {}]
    <2>1. cleared \in Status /\ cleared.sleeping = obj[r].sleeping
      BY DEF IInv, TypeOK, Status
    <2>2. obj'[r] = cleared
      BY <1>3 DEF Clear, IInv, TypeOK
    <2> HIDE DEF cleared
    <2>3. sched' = [sched EXCEPT ![r] = WithStatus(sched[r], cleared)]
      BY <1>3, <2>2 DEF Clear
    <2>4. r = s /\ fresh[s] /\ pc[s] # "idle"
      BY <1>3, <2>3 DEF Clear, IInv, TypeOK
    <2>5. QED
      BY <2>1, <2>3, <2>4, WithStatusParts DEF IInv, TypeOK, FreshCopy
  <1>4. ASSUME NEW r \in Schedules, ToggleSuspend(r) \/ ToggleWindows(r) \/ Delete(r)
        PROVE  FALSE
    <2>1. CASE ToggleSuspend(r) \/ ToggleWindows(r)
      <3>1. PICK c : UserChange(r, c) /\ c.sleeping = sched[r].sleeping
        <4>1. \A c \in Schedule : /\ [c EXCEPT !.suspend = ~@].sleeping = c.sleeping
                                  /\ [c EXCEPT !.windows = ~@].sleeping = c.sleeping
          BY DEF Schedule
        <4>2. QED
          BY <2>1, <4>1 DEF ToggleSuspend, ToggleWindows, IInv, TypeOK
      <3>2. QED
        BY <3>1 DEF UserChange, IInv, TypeOK
    <2>2. CASE Delete(r)
      BY <2>2, NewParts DEF Delete, UserChange, IInv, TypeOK
    <2>3. QED
      BY <1>4, <2>1, <2>2
  <1>5. ASSUME NEW r \in Schedules, Create(r)
        PROVE  ~sched[s].exists
    BY <1>5 DEF Create, UserChange, IInv, TypeOK
  <1>6. ASSUME NEW r \in Schedules, VerifyWindowExpires(r)
        PROVE  FALSE
    BY <1>6 DEF VerifyWindowExpires, IInv, TypeOK, Schedule
  <1>7. CASE UNCHANGED sched
    BY <1>7
  <1>8. ASSUME NEW r \in Schedules, Start(r)
        PROVE  UNCHANGED sched
    BY <1>8, StartBegins DEF BeginsAs, Begin, IInv
  <1>9. QED
    BY <1>1, <1>2, <1>3, <1>4, <1>5, <1>6, <1>7, <1>8
       DEF Next, Environment, Step, Abort, Fail, SleepList, SleepUpdate, SleepRefused,
           StatusRefused, WakeUpdate, WakeMiss, VerifyList, UserEdit, FlipWindow, Sync, vars

(* A schedule never says it is awake while a workload it has recorded as   *)
(* stopped was not even tried (Reconcile's wake branch).                   *)
THEOREM CompleteWake == Spec => WakeCompletes
  <1> DEFINE Complete ==
        \A s \in Schedules :
          sched[s].sleeping /\ ~sched'[s].sleeping /\ sched'[s].exists
          => \A w \in Workloads : IsDownBy(w, s, {"kept"}) => w \in missed
  <1>1. IInv /\ [Next]_vars => Complete
    <2> SUFFICES ASSUME IInv, [Next]_vars, NEW s \in Schedules,
                        sched[s].sleeping, ~sched'[s].sleeping, sched'[s].exists,
                        NEW w \in Workloads, IsDownBy(w, s, {"kept"})
                 PROVE  w \in missed
      OBVIOUS
    <2>1. Entry(w, down[w].was) \in sched[s].managed
      BY DEF IInv, Accounted
    <2>2. Finish(s) /\ ~goal[s]
      BY <2>1, OnlyFinishWakes DEF IInv, GoneForgets
    <2>3. pc[s] = "finish" /\ fresh[s] /\ obj[s].sleeping
      BY <2>2 DEF Finish, IInv, FreshCopy
    <2>4. QED
      BY <2>2, <2>3 DEF IInv, TodoToWake
  <1>2. QED
    BY <1>1, Safety, PTL DEF Spec, WakeCompletes

-----------------------------------------------------------------------------
(* The order of a sleep.  Two schedules that select the same operator can  *)
(* undo each other's work, so it is proved of schedules that do not.       *)
DisjointSelectors ==
  \A s, t \in Schedules : s # t => Selector[s].labels \cap Selector[t].labels = {}

(* What a schedule holds a record of, or is about to write.                *)
Known(s) == sched[s].managed \cup cache[s].managed \cup obj[s].managed \cup todo[s]

OwnWorkloads == \A s \in Schedules : \A e \in Known(s) : e.name \in Selector[s].labels

LEMMA LoopKnows ==
  ASSUME IInv, [Next]_vars, ~Environment, NEW s \in Schedules
  PROVE  Known(s)' \subseteq Known(s) \cup {Entry(w, spec[w]) : w \in Selector[s].labels}
  <1> DEFINE Goal ==
        Known(s)' \subseteq Known(s) \cup {Entry(w, spec[w]) : w \in Selector[s].labels}
  <1>1. TypeOK
    BY DEF IInv
  <1>2. ASSUME NEW r \in Schedules, Start(r)
        PROVE  Goal
    <2>1. PICK at \in Places, ks \in SUBSET Kinds, entries \in SUBSET Entries, g \in BOOLEAN :
            BeginsAs(r, at, ks, entries, g)
      BY <1>1, <1>2, StartBegins
    <2>2. Begin(r, at, ks, entries, g) /\ entries \subseteq cache[r].managed
      BY <2>1 DEF BeginsAs
    <2>3. StatusOf(cache[r]).managed = cache[r].managed
      BY <1>1, StatusOfParts DEF TypeOK
    <2>4. QED
      BY <1>1, <2>2, <2>3 DEF Begin, Known, TypeOK
  <1>3. ASSUME NEW r \in Schedules, Fail(r)
        PROVE  Goal
    BY <1>1, <1>3, NewParts DEF Fail, End, Known, TypeOK
  <1>4. ASSUME NEW r \in Schedules, SleepList(r)
        PROVE  Goal
    <2>1. /\ UNCHANGED <<spec, sched, cache, obj>>
          /\ todo'[r] \subseteq {Entry(w, spec[w]) : w \in Selector[r].labels}
          /\ r # s => todo'[s] = todo[s]
      BY <1>1, <1>4 DEF SleepList, Listed, TypeOK
    <2>2. QED
      BY <2>1 DEF Known
  <1>5. ASSUME NEW r \in Schedules, NEW e \in todo[r],
               SleepUpdate(r, e) \/ WakeUpdate(r, e) \/ WakeMiss(r, e)
        PROVE  Goal
    <2>1. CASE SleepUpdate(r, e)
      <3>1. /\ UNCHANGED <<sched, cache>>
            /\ r # s => todo'[s] = todo[s] /\ obj'[s] = obj[s]
            /\ todo'[r] \subseteq todo[r]
            /\ obj'[r].managed = obj[r].managed \cup {e}
        BY <1>1, <2>1 DEF SleepUpdate, TypeOK, Status
      <3>2. QED
        BY <1>5, <3>1 DEF Known
    <2>2. CASE WakeUpdate(r, e) \/ WakeMiss(r, e)
      BY <1>1, <2>2 DEF WakeUpdate, WakeMiss, Known, TypeOK
    <2>3. QED
      BY <1>5, <2>1, <2>2
  <1>6. ASSUME NEW r \in Schedules, Persist(r)
        PROVE  Goal
    <2>1. WithStatus(sched[r], obj[r]).managed = obj[r].managed
      BY <1>1, WithStatusParts DEF TypeOK
    <2>2. QED
      BY <1>1, <1>6, <2>1 DEF Persist, Known, TypeOK
  <1>7. ASSUME NEW r \in Schedules, VerifyList(r)
        PROVE  Goal
    <2>1. /\ UNCHANGED <<sched, cache, obj>>
          /\ todo'[r] \subseteq obj[r].managed
          /\ r # s => todo'[s] = todo[s]
      BY <1>1, <1>7 DEF VerifyList, TypeOK
    <2>2. QED
      BY <2>1 DEF Known
  <1>8. ASSUME NEW r \in Schedules, Clear(r)
        PROVE  Goal
    <2>1. obj'[r] \in Status /\ obj'[r].managed = {}
      BY <1>1, <1>8, ClearType DEF Clear, TypeOK, Status
    <2>2. WithStatus(sched[r], obj'[r]).managed = {}
      BY <1>1, <2>1, WithStatusParts DEF TypeOK
    <2>3. /\ UNCHANGED <<cache, todo>>
          /\ sched'[r] = WithStatus(sched[r], obj'[r])
          /\ r # s => sched'[s] = sched[s] /\ obj'[s] = obj[s]
      BY <1>1, <1>8 DEF Clear, TypeOK
    <2>4. QED
      BY <2>1, <2>2, <2>3 DEF Known
  <1>9. ASSUME NEW r \in Schedules, Finish(r)
        PROVE  Goal
    <2>1. WithStatus(sched[r], Final(r)).managed = obj[r].managed
      BY <1>1, FinalParts, WithStatusParts DEF TypeOK
    <2>2. sched' = [sched EXCEPT ![r] = WithStatus(sched[r], Final(r))]
      BY <1>9 DEF Finish, Final
    <2>3. sched'[r].managed = obj[r].managed /\ (r # s => sched'[s] = sched[s])
      BY <1>1, <2>1, <2>2 DEF TypeOK
    <2>4. /\ cache' = cache /\ obj'[r].managed = {} /\ todo'[r] = {}
          /\ r # s => obj'[s] = obj[s] /\ todo'[s] = todo[s]
      BY <1>1, <1>9, NewParts DEF Finish, End, TypeOK
    <2>5. QED
      BY <2>3, <2>4 DEF Known
  <1>10. CASE UNCHANGED vars
    BY <1>10 DEF vars, Known
  <1>11. QED
    BY <1>2, <1>3, <1>4, <1>5, <1>6, <1>7, <1>8, <1>9, <1>10
       DEF Next, Step, Abort, SleepRefused, StatusRefused

LEMMA EnvironmentKnows ==
  ASSUME IInv, Environment, NEW s \in Schedules
  PROVE  Known(s)' \subseteq Known(s)
  <1> DEFINE Goal == Known(s)' \subseteq Known(s)
  <1>1. TypeOK
    BY DEF IInv
  <1>2. ASSUME NEW r \in Schedules, NEW c, UserChange(r, c), c.managed \subseteq sched[r].managed
        PROVE  Goal
    BY <1>1, <1>2 DEF UserChange, Known, TypeOK
  <1>3. ASSUME NEW r \in Schedules, ToggleSuspend(r) \/ ToggleWindows(r)
        PROVE  Goal
    <2>1. /\ [sched[r] EXCEPT !.suspend = ~@].managed = sched[r].managed
          /\ [sched[r] EXCEPT !.windows = ~@].managed = sched[r].managed
      BY <1>1, UserFields DEF TypeOK, Schedule
    <2>2. QED
      BY <1>2, <1>3, <2>1 DEF ToggleSuspend, ToggleWindows
  <1>4. ASSUME NEW r \in Schedules, Delete(r) \/ Create(r)
        PROVE  Goal
    BY <1>2, <1>4, NewParts DEF Delete, Create
  <1>5. ASSUME NEW r \in Schedules, VerifyWindowExpires(r)
        PROVE  Goal
    <2>1. /\ sched'[s].managed = sched[s].managed /\ cache'[s].managed = cache[s].managed
          /\ obj'[s].managed = obj[s].managed /\ todo'[s] = todo[s]
      BY <1>1, <1>5 DEF VerifyWindowExpires, TypeOK, Schedule, Status
    <2>2. QED
      BY <2>1 DEF Known
  <1>6. ASSUME NEW r \in Schedules, Sync(r)
        PROVE  Goal
    BY <1>1, <1>6 DEF Sync, loop, Known, TypeOK
  <1>7. ASSUME (\E w \in Workloads : UserEdit(w)) \/ (\E r \in Schedules : FlipWindow(r))
        PROVE  Goal
    BY <1>7 DEF UserEdit, FlipWindow, loop, Known
  <1>8. QED
    BY <1>3, <1>4, <1>5, <1>6, <1>7, Zenon DEF Environment

LEMMA OwnWorkloadsStep == IInv /\ OwnWorkloads /\ [Next]_vars => OwnWorkloads'
  <1> SUFFICES ASSUME IInv, OwnWorkloads, [Next]_vars, NEW s \in Schedules, NEW e \in Known(s)'
               PROVE  e.name \in Selector[s].labels
    BY DEF OwnWorkloads
  <1>1. e \in Known(s) \cup {Entry(w, spec[w]) : w \in Selector[s].labels}
    BY LoopKnows, EnvironmentKnows
  <1>2. QED
    BY <1>1, EntryParts DEF OwnWorkloads

(* A loop that sleeps has come past the operators of a kind, or has still  *)
(* to list or to stop it; in the second case it stops only operators.      *)
Passed(s, w) == ~Running(KindOf[w], spec[w]) \/ w \in Names(obj[s].managed)

Ahead(s, w) ==
  /\ KindOf[w] \in kinds[s] \/ w \in Names(todo[s])
  /\ \A e \in todo[s] : IsOperator(e)

OperatorsAhead(s) ==
  pc[s] \in {"sleep", "persist"} =>
    \A w \in Selector[s].labels :
      KindOf[w] \in OperatorKinds /\ ShouldManageType(s, KindOf[w]) => Passed(s, w) \/ Ahead(s, w)

Undisturbed == left.edits = MaxEdits /\ left.misses = MaxMisses

Spent == left.edits <= MaxEdits /\ left.misses <= MaxMisses

Orderly ==
  /\ OwnWorkloads
  /\ Spent
  /\ Undisturbed => \A s \in Schedules : OperatorsAhead(s)

(* The first kinds of SleepOrder are the operators'.                       *)
LEMMA OperatorKindsFirst ==
  ASSUME NEW ks, ks \cap OperatorKinds # {}
  PROVE  NextKind(ks, SleepOrder) \in OperatorKinds
  <1> DEFINE At == {i \in 1..4 : SleepOrder[i] \in ks}
             IsNext(k) == \E i \in DOMAIN SleepOrder :
                            SleepOrder[i] = k /\ \A j \in 1..(i - 1) : SleepOrder[j] \notin ks
  <1>1. /\ DOMAIN SleepOrder = 1..13
        /\ \A k \in OperatorKinds : \E i \in 1..4 : SleepOrder[i] = k
        /\ \A i \in 1..4 : SleepOrder[i] \in OperatorKinds
    BY DEF SleepOrder, OperatorKinds
  <1>2. At \subseteq Nat /\ At # {}
    BY <1>1
  <1>3. PICK l \in At : \A m \in At : l <= m
    <2> HIDE DEF At
    <2>1. QED
      BY <1>2, LeastExists
  <1>4. l \in 1..4 /\ SleepOrder[l] \in ks
    OBVIOUS
  <1>5. \A j \in 1..(l - 1) : SleepOrder[j] \notin ks
    <2>1. ASSUME NEW j \in 1..(l - 1), SleepOrder[j] \in ks
          PROVE  FALSE
      <3>1. j \in At
        BY <1>4, <2>1
      <3>2. QED
        BY <1>3, <1>4, <3>1
    <2>2. QED
      BY <2>1
  <1>6. SleepOrder[l] \in ks /\ IsNext(SleepOrder[l])
    BY <1>1, <1>4, <1>5
  <1>7. NextKind(ks, SleepOrder) \in ks /\ IsNext(NextKind(ks, SleepOrder))
    <2>1. NextKind(ks, SleepOrder) = CHOOSE k \in ks : IsNext(k)
      BY DEF NextKind
    <2> HIDE DEF IsNext
    <2>2. QED
      BY <1>6, <2>1
  <1>8. PICK i \in 1..13 : /\ SleepOrder[i] = NextKind(ks, SleepOrder)
                           /\ \A j \in 1..(i - 1) : SleepOrder[j] \notin ks
    BY <1>1, <1>7
  <1>9. i <= 4
    BY <1>4, <1>8
  <1>10. QED
    BY <1>1, <1>8, <1>9

(* A loop that begins to sleep has every kind it manages to list.          *)
LEMMA SleepListsAll ==
  ASSUME TypeOK, NEW s \in Schedules, Start(s), pc'[s] \in {"sleep", "persist"}
  PROVE  kinds'[s] = ManagedKinds(s) /\ todo'[s] = {}
  <1>1. \A ks, entries : WakeOrFinish(entries) \in {"wake", "finish"}
    BY DEF WakeOrFinish
  <1>2. ASSUME NEW at, NEW ks, NEW entries, NEW g, Begin(s, at, ks, entries, g)
        PROVE  pc'[s] = at /\ kinds'[s] = ks /\ todo'[s] = entries
    BY <1>2 DEF Begin, TypeOK
  <1>3. CASE StartSleep(s)
    BY <1>2, <1>3 DEF StartSleep
  <1>4. CASE StartSuspended(s)
    BY <1>1, <1>2, <1>4 DEF StartSuspended
  <1>5. CASE StartWake(s)
    BY <1>1, <1>2, <1>5 DEF StartWake
  <1>6. CASE StartInvalid(s) \/ StartVerify(s) \/ StartClear(s) \/ StartSteady(s)
    BY <1>2, <1>6 DEF StartInvalid, StartVerify, StartClear, StartSteady
  <1>7. QED
    BY <1>3, <1>4, <1>5, <1>6 DEF Start

LEMMA BoundsShrink ==
  ASSUME IInv, [Next]_vars
  PROVE  left'.edits <= left.edits /\ left'.misses <= left.misses
  <1>1. left \in Bounds /\ TypeOK
    BY DEF IInv, TypeOK, Bounds
  <1>2. ASSUME NEW b \in {"edits", "flips", "aborts", "misses", "changes"}, Spend(b)
        PROVE  left'.edits <= left.edits /\ left'.misses <= left.misses
    BY <1>1, <1>2 DEF Spend, Bounds
  <1>3. ASSUME left' = left
        PROVE  left'.edits <= left.edits /\ left'.misses <= left.misses
    BY <1>1, <1>3 DEF Bounds
  <1>4. CASE Environment
    BY <1>2, <1>3, <1>4 DEF Environment, UserEdit, FlipWindow, VerifyWindowExpires, Sync,
       ToggleSuspend, ToggleWindows, Delete, Create, UserChange
  <1>5. ASSUME NEW s \in Schedules, Start(s)
        PROVE  left' = left
    BY <1>1, <1>5, StartBegins DEF BeginsAs, Begin
  <1>6. ASSUME NEW s \in Schedules, SleepList(s)
        PROVE  left'.edits <= left.edits /\ left'.misses <= left.misses
    <2>1. PICK hidden \in SUBSET Listed(s, NextKind(kinds[s], SleepOrder)) :
            left' = [left EXCEPT !.misses = @ - Cardinality(hidden)]
      BY <1>6 DEF SleepList
    <2>2. hidden \subseteq Workloads
      BY ConstantsAssumption DEF Listed
    <2>3. Cardinality(hidden) \in Nat
      BY <2>2, ConstantsAssumption, FS_Subset, FS_CardinalityType
    <2>4. QED
      BY <1>1, <2>1, <2>3 DEF Bounds
  <1>7. ASSUME NEW s \in Schedules, Step(s), ~SleepList(s)
        PROVE  left' = left
    BY <1>7 DEF Step, SleepRefused, Persist, VerifyList, Clear, Finish, StatusRefused,
       SleepUpdate, WakeUpdate
  <1>8. ASSUME NEW s \in Schedules, Abort(s) \/ \E e \in todo[s] : WakeMiss(s, e)
        PROVE  left'.edits <= left.edits /\ left'.misses <= left.misses
    BY <1>2, <1>8 DEF Abort, WakeMiss
  <1>9. CASE UNCHANGED vars
    BY <1>3, <1>9 DEF vars
  <1>10. QED
    BY <1>3, <1>4, <1>5, <1>6, <1>7, <1>8, <1>9 DEF Next

(* A step that leaves a loop, and what it selects, leaves it in order.     *)
Untouched(s) ==
  /\ pc'[s] \in {"sleep", "persist"} => pc[s] \in {"sleep", "persist"}
  /\ kinds'[s] = kinds[s] /\ todo'[s] = todo[s] /\ obj'[s].managed = obj[s].managed
  /\ \A w \in Selector[s].labels : spec'[w] = spec[w]

LEMMA UntouchedAhead ==
  ASSUME NEW s \in Schedules, OperatorsAhead(s), Untouched(s)
  PROVE  OperatorsAhead(s)'
  BY DEF OperatorsAhead, Untouched, Passed, Ahead, IsOperator

LEMMA SleepListAhead ==
  ASSUME IInv, NEW s \in Schedules, SleepList(s), OperatorsAhead(s), Undisturbed, Undisturbed'
  PROVE  OperatorsAhead(s)'
  <1> DEFINE k == NextKind(kinds[s], SleepOrder)
             candidates == {w \in Listed(s, k) :
                              Running(k, spec[w]) /\ w \notin Names(obj[s].managed)}
  <1>1. PICK hidden \in SUBSET candidates :
          /\ left' = [left EXCEPT !.misses = @ - Cardinality(hidden)]
          /\ todo' = [todo EXCEPT ![s] = {Entry(w, spec[w]) : w \in candidates \ hidden}]
    BY DEF SleepList
  <1>2. hidden = {}
    <2>1. hidden \subseteq Workloads
      BY ConstantsAssumption DEF Listed
    <2>2. IsFiniteSet(hidden) /\ Cardinality(hidden) \in Nat
      BY <2>1, ConstantsAssumption, FS_Subset, FS_CardinalityType
    <2>3. left'.misses = left.misses - Cardinality(hidden) /\ left.misses \in Nat
      BY <1>1 DEF IInv, TypeOK
    <2>4. Cardinality(hidden) = 0
      BY <2>2, <2>3 DEF Undisturbed
    <2>5. QED
      BY <2>2, <2>4, FS_EmptySet
  <1>3. /\ pc[s] = "sleep" /\ todo[s] = {} /\ kinds'[s] = kinds[s] \ {k}
        /\ UNCHANGED <<spec, obj>>
    BY DEF SleepList, IInv, TypeOK
  <1>4. todo'[s] = {Entry(w, spec[w]) : w \in candidates}
    BY <1>1, <1>2 DEF IInv, TypeOK
  <1>5. ASSUME NEW w \in Selector[s].labels, KindOf[w] \in OperatorKinds,
               ShouldManageType(s, KindOf[w]), ~Passed(s, w)
        PROVE  Ahead(s, w)'
    <2>1. KindOf[w] \in kinds[s]
      BY <1>3, <1>5 DEF OperatorsAhead, Ahead, Names
    <2>2. k \in OperatorKinds
      <3>1. kinds[s] \cap OperatorKinds # {}
        BY <1>5, <2>1
      <3>2. QED
        BY <3>1, OperatorKindsFirst
    <2>3. \A e \in todo'[s] : IsOperator(e)
      <3>1. \A v \in candidates : IsOperator(Entry(v, spec[v]))
        BY <2>2, EntryParts DEF Listed, IsOperator
      <3>2. QED
        BY <1>4, <3>1
    <2>4. CASE KindOf[w] = k
      <3>1. w \in candidates
        BY <1>5, <2>4 DEF Passed, Listed
      <3>2. Entry(w, spec[w]) \in todo'[s] /\ Entry(w, spec[w]).name = w
        BY <1>4, <3>1, EntryParts
      <3>3. w \in Names(todo'[s])
        BY <3>2 DEF Names
      <3>4. QED
        BY <2>3, <3>3 DEF Ahead, IsOperator
    <2>5. CASE KindOf[w] # k
      BY <1>3, <2>1, <2>3, <2>5 DEF Ahead, IsOperator
    <2>6. QED
      BY <2>4, <2>5
  <1>6. \A w : Passed(s, w)' <=> Passed(s, w)
    BY <1>3 DEF Passed
  <1>7. QED
    BY <1>5, <1>6 DEF OperatorsAhead, ShouldManageType

LEMMA SleepUpdateAhead ==
  ASSUME IInv, NEW s \in Schedules, NEW e \in todo[s], SleepUpdate(s, e), OperatorsAhead(s)
  PROVE  OperatorsAhead(s)'
  <1>1. /\ pc[s] = "sleep" /\ kinds' = kinds /\ todo'[s] = todo[s] \ {e}
        /\ obj'[s].managed = obj[s].managed \cup {e}
        /\ \A w \in Workloads \ {e.name} : spec'[w] = spec[w]
    BY DEF SleepUpdate, IInv, TypeOK, Status
  <1>2. ASSUME NEW w \in Selector[s].labels, KindOf[w] \in OperatorKinds,
               ShouldManageType(s, KindOf[w])
        PROVE  Passed(s, w)' \/ Ahead(s, w)'
    <2>1. CASE w = e.name
      BY <1>1, <2>1 DEF Passed, Names
    <2>2. CASE w # e.name
      <3>1. w \in Workloads /\ spec'[w] = spec[w]
        BY <1>1, <2>2, ConstantsAssumption
      <3>2. Passed(s, w) => Passed(s, w)'
        BY <1>1, <3>1 DEF Passed, Names
      <3>3. Ahead(s, w) => Ahead(s, w)'
        BY <1>1, <2>2 DEF Ahead, Names, IsOperator
      <3>4. QED
        BY <1>1, <1>2, <3>2, <3>3 DEF OperatorsAhead
    <2>3. QED
      BY <2>1, <2>2
  <1>3. QED
    BY <1>2 DEF OperatorsAhead, ShouldManageType

LEMMA OrderlyInit == Init => Orderly
  <1> SUFFICES ASSUME Init PROVE Orderly
    OBVIOUS
  <1>1. OwnWorkloads
    BY NewParts DEF Init, OwnWorkloads, Known
  <1>2. Spent
    BY ConstantsAssumption DEF Init, Spent
  <1>3. \A s \in Schedules : OperatorsAhead(s)
    BY DEF Init, OperatorsAhead
  <1>4. QED
    BY <1>1, <1>2, <1>3 DEF Orderly

LEMMA OrderlyStep ==
  ASSUME DisjointSelectors
  PROVE  IInv /\ Orderly /\ [Next]_vars => Orderly'
  <1> SUFFICES ASSUME IInv, Orderly, [Next]_vars
               PROVE  Orderly'
    OBVIOUS
  <1>1. TypeOK /\ OwnWorkloads /\ OwnWorkloads'
    BY OwnWorkloadsStep DEF IInv, Orderly
  <1>2. Spent' /\ (Undisturbed' => Undisturbed)
    <2>1. left \in Bounds /\ MaxEdits \in Nat /\ MaxMisses \in Nat /\ left' \in Bounds
      BY NextType, ConstantsAssumption DEF IInv, TypeOK, Bounds
    <2>2. QED
      BY <2>1, BoundsShrink DEF Orderly, Spent, Undisturbed, Bounds
  <1>3. ASSUME Undisturbed', NEW s \in Schedules
        PROVE  OperatorsAhead(s)'
    <2>1. Undisturbed /\ OperatorsAhead(s)
      BY <1>2, <1>3 DEF Orderly
    <2>2. ASSUME NEW r \in Schedules, NEW e \in todo[r], r # s, NEW w \in Selector[s].labels
          PROVE  w # e.name
      BY <1>1, <2>2 DEF OwnWorkloads, Known, DisjointSelectors
    <2>3. \A w \in Selector[s].labels : w \in Workloads
      BY ConstantsAssumption
    <2>4. ASSUME NEW r \in Schedules, Start(r)
          PROVE  OperatorsAhead(s)'
      <3>1. CASE r = s
        <4>1. CASE pc'[s] \in {"sleep", "persist"}
          <5>1. kinds'[s] = ManagedKinds(s) /\ todo'[s] = {}
            BY <1>1, <2>4, <3>1, <4>1, SleepListsAll
          <5>2. \A w \in Selector[s].labels :
                  ShouldManageType(s, KindOf[w]) => KindOf[w] \in ManagedKinds(s)
            BY <2>3 DEF ManagedKinds
          <5>3. QED
            BY <5>1, <5>2 DEF OperatorsAhead, Ahead, ShouldManageType
        <4>2. CASE pc'[s] \notin {"sleep", "persist"}
          BY <4>2 DEF OperatorsAhead
        <4>3. QED
          BY <4>1, <4>2
      <3>2. CASE r # s
        <4>1. Untouched(s)
          BY <1>1, <2>4, <3>2, StartBegins DEF BeginsAs, Begin, Untouched, TypeOK
        <4>2. QED
          BY <2>1, <4>1, UntouchedAhead
      <3>3. QED
        BY <3>1, <3>2
    <2>5. ASSUME NEW r \in Schedules, Fail(r) \/ Finish(r)
          PROVE  OperatorsAhead(s)'
      <3>1. CASE r = s
        BY <1>1, <2>5, <3>1 DEF Fail, Finish, End, TypeOK, OperatorsAhead
      <3>2. CASE r # s
        <4>1. Untouched(s)
          BY <1>1, <2>5, <3>2 DEF Fail, Finish, End, TypeOK, Untouched
        <4>2. QED
          BY <2>1, <4>1, UntouchedAhead
      <3>3. QED
        BY <3>1, <3>2
    <2>6. ASSUME NEW r \in Schedules, SleepList(r)
          PROVE  OperatorsAhead(s)'
      <3>1. CASE r = s
        BY <1>3, <2>1, <2>6, <3>1, SleepListAhead
      <3>2. CASE r # s
        <4>1. Untouched(s)
          BY <1>1, <2>6, <3>2 DEF SleepList, TypeOK, Untouched
        <4>2. QED
          BY <2>1, <4>1, UntouchedAhead
      <3>3. QED
        BY <3>1, <3>2
    <2>7. ASSUME NEW r \in Schedules, NEW e \in todo[r],
                 SleepUpdate(r, e) \/ WakeUpdate(r, e) \/ WakeMiss(r, e)
          PROVE  OperatorsAhead(s)'
      <3>1. CASE r = s
        <4>1. CASE SleepUpdate(r, e)
          BY <2>1, <3>1, <4>1, SleepUpdateAhead
        <4>2. CASE WakeUpdate(r, e) \/ WakeMiss(r, e)
          <5>1. pc'[s] \in {"wake", "finish"}
            BY <1>1, <3>1, <4>2 DEF WakeUpdate, WakeMiss, WakeOrFinish, TypeOK
          <5>2. QED
            BY <5>1 DEF OperatorsAhead
        <4>3. QED
          BY <2>7, <4>1, <4>2
      <3>2. CASE r # s
        <4>1. /\ pc'[s] = pc[s] /\ kinds'[s] = kinds[s] /\ todo'[s] = todo[s] /\ obj'[s] = obj[s]
              /\ \A w \in Workloads \ {e.name} : spec'[w] = spec[w]
          BY <1>1, <2>7, <3>2 DEF SleepUpdate, WakeUpdate, WakeMiss, TypeOK
        <4>2. Untouched(s)
          BY <2>2, <2>3, <3>2, <4>1 DEF Untouched
        <4>3. QED
          BY <2>1, <4>2, UntouchedAhead
      <3>3. QED
        BY <3>1, <3>2
    <2>8. ASSUME NEW r \in Schedules, Persist(r)
          PROVE  OperatorsAhead(s)'
      <3>1. Untouched(s)
        BY <1>1, <2>8 DEF Persist, TypeOK, Untouched
      <3>2. QED
        BY <2>1, <3>1, UntouchedAhead
    <2>9. ASSUME NEW r \in Schedules, VerifyList(r) \/ Clear(r)
          PROVE  OperatorsAhead(s)'
      <3>1. CASE r = s
        <4>1. pc'[s] \in {"wake", "verify", "finish"}
          BY <1>1, <2>9, <3>1 DEF VerifyList, Clear, TypeOK
        <4>2. QED
          BY <4>1 DEF OperatorsAhead
      <3>2. CASE r # s
        <4>1. Untouched(s)
          BY <1>1, <2>9, <3>2 DEF VerifyList, Clear, TypeOK, Untouched
        <4>2. QED
          BY <2>1, <4>1, UntouchedAhead
      <3>3. QED
        BY <3>1, <3>2
    <2>10. CASE Environment
      <3>1. ~\E w \in Workloads : UserEdit(w)
        <4>1. ASSUME NEW w \in Workloads, UserEdit(w)
              PROVE  left'.edits # left.edits
          BY <1>1, <4>1 DEF UserEdit, Spend, TypeOK
        <4>2. QED
          BY <1>3, <2>1, <4>1 DEF Undisturbed
      <3>2. spec' = spec /\ pc' = pc /\ kinds' = kinds /\ todo' = todo
        BY <2>10, <3>1 DEF Environment, FlipWindow, VerifyWindowExpires, Sync, ToggleSuspend,
           ToggleWindows, Delete, Create, UserChange, loop
      <3>3. obj'[s].managed = obj[s].managed
        <4>1. ASSUME NEW r \in Schedules, VerifyWindowExpires(r)
              PROVE  obj'[s].managed = obj[s].managed
          BY <1>1, <4>1 DEF VerifyWindowExpires, TypeOK, Status
        <4>2. QED
          BY <2>10, <3>1, <4>1 DEF Environment, FlipWindow, Sync, ToggleSuspend,
             ToggleWindows, Delete, Create, UserChange, loop
      <3>4. Untouched(s)
        BY <3>2, <3>3 DEF Untouched
      <3>5. QED
        BY <2>1, <3>4, UntouchedAhead
    <2>11. CASE UNCHANGED vars
      <3>1. Untouched(s)
        BY <2>11 DEF vars, Untouched
      <3>2. QED
        BY <2>1, <3>1, UntouchedAhead
    <2>12. QED
      BY <2>4, <2>5, <2>6, <2>7, <2>8, <2>9, <2>10, <2>11
         DEF Next, Step, Abort, SleepRefused, StatusRefused
  <1>4. QED
    BY <1>1, <1>2, <1>3 DEF Orderly

(* "Suspend operator-managed resources BEFORE scaling workloads", for      *)
(* every schedule that shares no workload with another: while users leave  *)
(* the workloads alone and no list misses one, none is stopped before the  *)
(* operators that would start it again, through failures, restarts and     *)
(* changes of the schedule (sleepWorkloads).                               *)
THEOREM OperatorsFirst ==
  ASSUME DisjointSelectors
  PROVE  Spec => OperatorsStopFirst
  <1> DEFINE InOrder ==
        left.edits = MaxEdits /\ left.misses = MaxMisses =>
          \A s \in Schedules : \A e \in todo[s] :
            pc[s] = "sleep" /\ pc'[s] = "persist" /\ e \notin todo'[s] /\ ~IsOperator(e)
            => \A w \in Selector[s].labels :
                 KindOf[w] \in OperatorKinds /\ ShouldManageType(s, KindOf[w])
                 => ~Running(KindOf[w], spec[w]) \/ w \in Names(obj[s].managed)
  <1>1. Orderly => InOrder
    BY DEF Orderly, Undisturbed, OperatorsAhead, Ahead, Passed
  <1>2. IInv /\ Orderly /\ [Next]_vars => Orderly'
    BY OrderlyStep
  <1>3. Spec => []Orderly
    BY <1>2, OrderlyInit, Safety, PTL DEF Spec
  <1>4. QED
    BY <1>1, <1>3, PTL DEF Spec, OperatorsStopFirst

-----------------------------------------------------------------------------
(* Every initial state of SleepSchedule is one of Custody, and every step   *)
(* is a step of Custody or none.                                           *)
(* Both speak of the same kinds and settings.                              *)
LEMMA SameKinds ==
  /\ C!AnySetting = AnySetting
  /\ \A k : C!Settings(k) = Settings(k)
  /\ \A k, st : C!Running(k, st) <=> Running(k, st)
  /\ \A k, st : C!Quiesce(k, st) = Quiesce(k, st)
  <1> USE DEF C!OperatorKinds, OperatorKinds, C!SuspendKinds, SuspendKinds, C!AppsKinds, AppsKinds,
              C!CountKinds, CountKinds, C!ReplicaKinds, ReplicaKinds, C!Unset, Unset, C!Counts, Counts
  <1>1. C!AnySetting = AnySetting
    BY DEF C!AnySetting, AnySetting
  <1>2. \A k : C!Settings(k) = Settings(k)
    BY DEF C!Settings, Settings
  <1>3. \A k, st : C!Running(k, st) <=> Running(k, st)
    BY DEF C!Running, Running
  <1>4. \A k, st : C!Quiesce(k, st) = Quiesce(k, st)
    BY DEF C!Quiesce, Quiesce
  <1>5. QED
    BY <1>1, <1>2, <1>3, <1>4

(* How a workload is held.                                                 *)
LEMMA HoldParts ==
  ASSUME TypeOK, NEW w \in Workloads
  PROVE  /\ ~IsDown(w) => HoldOf(w) = C!Free
         /\ IsDown(w) => /\ HoldOf(w) # C!Free
                         /\ HoldOf(w).by = down[w].by
                         /\ HoldOf(w).was = down[w].was
         /\ HoldOf(w).pledged <=> IsDown(w) /\ down[w].record = "kept"
  BY DEF HoldOf, C!Free

Holds == [w \in Workloads |-> HoldOf(w)]

Sleepers == {s \in Schedules : sched[s].sleeping}

Existing == {s \in Schedules : sched[s].exists}

Wakers == {s \in Schedules : pc[s] = "wake"}

Edits == MaxEdits - left.edits

LEMMA PledgedParts ==
  ASSUME TypeOK, NEW w \in Workloads, NEW s \in Schedules
  PROVE  C!Pledged(w, s) <=> IsDownBy(w, s, {"kept"})
  BY HoldParts DEF C!Pledged, IsDownBy

(* What a step does not change, Custody does not see.                      *)
LEMMA Unseen ==
  ASSUME UNCHANGED <<spec, missed>>, UNCHANGED <<Holds, Sleepers, Existing, Wakers, Edits>>
  PROVE  UNCHANGED C!vars
  BY DEF C!vars, Holds, Sleepers, Existing, Wakers, Edits

LEMMA SameHolds ==
  ASSUME UNCHANGED down
  PROVE  UNCHANGED Holds
  BY DEF Holds, HoldOf, IsDown

(* A loop that begins, or stops, to restore workloads.                     *)
LEMMA WakingChanges ==
  ASSUME NEW s \in Schedules, UNCHANGED <<spec, missed>>,
         UNCHANGED <<Holds, Sleepers, Existing, Edits>>,
         Wakers' \in {Wakers \cup {s}, Wakers \ {s}}
  PROVE  C!Next
  <1>1. CASE Wakers' = Wakers \cup {s}
    <2>1. C!StartWaking(s)
      BY <1>1 DEF C!StartWaking, Holds, Sleepers, Existing, Wakers, Edits
    <2>2. QED
      BY <2>1 DEF C!Next
  <1>2. CASE Wakers' = Wakers \ {s}
    <2>1. C!StopWaking(s)
      BY <1>2 DEF C!StopWaking, Holds, Sleepers, Existing, Wakers, Edits
    <2>2. QED
      BY <2>1 DEF C!Next
  <1>3. QED
    BY <1>1, <1>2

(* The loop of s moves, and no other.                                      *)
LEMMA WakersMove ==
  ASSUME TypeOK, NEW s \in Schedules, NEW at, pc' = [pc EXCEPT ![s] = at]
  PROVE  /\ at = "wake" => Wakers' = Wakers \cup {s}
         /\ at # "wake" => Wakers' = Wakers \ {s}
         /\ at # "wake" /\ pc[s] # "wake" => Wakers' = Wakers
         /\ at = "wake" /\ pc[s] = "wake" => Wakers' = Wakers
  BY DEF TypeOK, Wakers

-----------------------------------------------------------------------------
LEMMA BeginImplements ==
  ASSUME IInv, NEW s \in Schedules, Start(s)
  PROVE  C!Next
  <1>1. PICK at : pc' = [pc EXCEPT ![s] = at] /\ UNCHANGED <<spec, sched, down, missed, left>>
    BY StartBegins DEF IInv, BeginsAs, Begin
  <1>2. UNCHANGED <<Holds, Sleepers, Existing, Edits>>
    BY <1>1, SameHolds DEF Sleepers, Existing, Edits
  <1>3. QED
    BY <1>1, <1>2, WakersMove, WakingChanges DEF IInv

LEMMA FailImplements ==
  ASSUME IInv, NEW s \in Schedules, Fail(s), left'.edits = left.edits
  PROVE  C!Next
  <1>1. Rerecords(s, "pending", "lost")
    BY Rerecording DEF Fail, IInv, Records
  <1>2. UNCHANGED Holds
    <2>1. ASSUME NEW w \in Workloads
          PROVE  HoldOf(w)' = HoldOf(w)
      BY <1>1 DEF Rerecords, HoldOf
    <2>2. QED
      BY <2>1 DEF Holds
  <1>3. pc' = [pc EXCEPT ![s] = "idle"] /\ UNCHANGED <<spec, sched, missed>>
    BY DEF Fail, End
  <1>4. UNCHANGED <<Sleepers, Existing, Edits>>
    BY <1>3 DEF Sleepers, Existing, Edits
  <1>5. QED
    BY <1>2, <1>3, <1>4, WakersMove, WakingChanges DEF IInv

LEMMA SleepListImplements ==
  ASSUME IInv, NEW s \in Schedules, SleepList(s)
  PROVE  UNCHANGED C!vars
  <1>1. /\ pc[s] = "sleep" /\ UNCHANGED <<spec, sched, down, missed>>
        /\ pc' = [pc EXCEPT ![s] = SleepOrFinish(kinds'[s], todo'[s])]
    BY DEF SleepList
  <1>2. left'.edits = left.edits
    BY DEF SleepList, IInv, TypeOK
  <1>3. UNCHANGED <<Holds, Sleepers, Existing, Wakers, Edits>>
    BY <1>1, <1>2, SameHolds, WakersMove DEF SleepOrFinish, Sleepers, Existing, Edits, IInv
  <1>4. QED
    BY <1>1, <1>3, Unseen

LEMMA SleepUpdateImplements ==
  ASSUME IInv, NEW s \in Schedules, NEW e \in todo[s], SleepUpdate(s, e)
  PROVE  C!Next
  <1> DEFINE w == e.name
  <1>1. /\ w \in Workloads /\ KindOf[w] \in Kinds
        /\ e.original \in Settings(KindOf[w]) /\ Running(KindOf[w], e.original)
    BY EntryFacts, WorkloadKinds DEF IInv, TypeOK, RunningSettings
  <1>2. /\ pc[s] = "sleep" /\ pc' = [pc EXCEPT ![s] = "persist"]
        /\ spec[w] = e.original
        /\ spec' = [spec EXCEPT ![w] = Quiesce(KindOf[w], e.original)]
        /\ down' = [down EXCEPT ![w] = DownBy(s, e.original)]
        /\ UNCHANGED <<sched, missed, left>>
    BY DEF SleepUpdate
  <1>3. ~IsDown(w)
    <2>1. IsDown(w) => /\ spec[w] = Quiesce(KindOf[w], down[w].was)
                       /\ down[w].was \in Settings(KindOf[w])
      BY <1>1, HistoryParts DEF IInv, StoppedIsQuiesced, RunningSettings
    <2>2. QED
      BY <1>1, <1>2, <2>1, QuiescedNotRunning
  <1>4. Holds' = [Holds EXCEPT ![w] = C!Hold(s, e.original, FALSE)]
    <2>1. HoldOf(w)' = C!Hold(s, e.original, FALSE)
      BY <1>1, <1>2 DEF HoldOf, IsDown, DownBy, C!Hold, IInv, TypeOK
    <2>2. \A v \in Workloads \ {w} : HoldOf(v)' = HoldOf(v)
      BY <1>1, <1>2 DEF HoldOf, IsDown, IInv, TypeOK
    <2>3. QED
      BY <2>1, <2>2 DEF Holds
  <1>5. UNCHANGED <<Sleepers, Existing, Wakers, Edits>>
    <2>1. TypeOK
      BY DEF IInv
    <2>2. UNCHANGED Wakers
      BY <1>2, <2>1 DEF TypeOK, Wakers
    <2>3. QED
      BY <1>2, <2>2 DEF Sleepers, Existing, Edits
  <1>6. Holds[w] = C!Free
    BY <1>1, <1>3, HoldParts DEF Holds, IInv
  <1>7. C!Stop(s, w)
    BY <1>1, <1>2, <1>4, <1>5, <1>6, SameKinds DEF C!Stop, Holds, Sleepers, Existing, Wakers, Edits
  <1>8. QED
    BY <1>1, <1>7 DEF C!Next

(* The entry of a workload is written.                                     *)
LEMMA PersistImplements ==
  ASSUME IInv, NEW s \in Schedules, Persist(s)
  PROVE  C!Next \/ UNCHANGED C!vars
  <1>1. /\ pc[s] = "persist" /\ fresh[s]
        /\ pc' = [pc EXCEPT ![s] = SleepOrFinish(kinds[s], todo[s])]
        /\ SleepOrFinish(kinds[s], todo[s]) # "wake"
        /\ sched' = [sched EXCEPT ![s] = WithStatus(sched[s], obj[s])]
        /\ UNCHANGED <<spec, missed, left>>
    BY DEF Persist, SleepOrFinish
  <1>2. /\ sched \in [Schedules -> Schedule] /\ sched[s].sleeping = obj[s].sleeping /\ obj[s] \in Status
        /\ sched[s].exists
    BY <1>1 DEF IInv, TypeOK, FreshCopy, GoneForgets
  <1>3. \A r \in Schedules : sched'[r].sleeping = sched[r].sleeping /\ sched'[r].exists = sched[r].exists
    BY <1>1, <1>2, WithStatusParts
  <1>4. UNCHANGED <<Sleepers, Existing, Edits>>
    BY <1>1, <1>3 DEF Sleepers, Existing, Edits
  <1>5. TypeOK
    BY DEF IInv
  <1>6. UNCHANGED Wakers
    BY <1>1, <1>5 DEF TypeOK, Wakers
  <1>7. Rerecords(s, "pending", "kept")
    BY Rerecording DEF Persist, IInv, Records
  <1>8. CASE \E w \in Workloads : IsDownBy(w, s, {"pending"})
    <2>1. PICK w \in Workloads : IsDownBy(w, s, {"pending"})
      BY <1>8
    <2>2. \A v \in Workloads \ {w} : ~IsDownBy(v, s, {"pending"})
      BY <2>1 DEF IInv, OnePending
    <2>3. \A v \in Workloads \ {w} : HoldOf(v)' = HoldOf(v)
      BY <1>7, <2>2 DEF Rerecords, HoldOf, IsDownBy
    <2>4. HoldOf(w)' = C!Hold(s, Holds[w].was, TRUE)
      <3>1. /\ IsDown(w)' /\ down'[w].by = s /\ down'[w].was = down[w].was /\ down'[w].record = "kept"
        BY <1>7, <2>1 DEF Rerecords, IsDownBy
      <3>2. Holds[w].was = down[w].was
        BY <1>5, <2>1, HoldParts DEF Holds, IsDownBy
      <3>3. QED
        BY <3>1, <3>2 DEF HoldOf, C!Hold
    <2>5. Holds' = [Holds EXCEPT ![w] = C!Hold(s, Holds[w].was, TRUE)]
      BY <2>3, <2>4 DEF Holds
    <2>6. Holds[w] # C!Free /\ Holds[w].by = s
      BY <1>5, <2>1, HoldParts DEF Holds, IsDownBy
    <2>7. C!Pledge(s, w)
      BY <1>1, <1>2, <1>4, <1>6, <2>5, <2>6 DEF C!Pledge, Holds, Sleepers, Existing, Wakers, Edits
    <2>8. QED
      BY <2>7 DEF C!Next
  <1>9. CASE ~\E w \in Workloads : IsDownBy(w, s, {"pending"})
    <2>1. \A v \in Workloads : HoldOf(v)' = HoldOf(v)
      BY <1>7, <1>9 DEF Rerecords, HoldOf, IsDownBy
    <2>2. UNCHANGED Holds
      BY <2>1 DEF Holds
    <2>3. QED
      BY <1>1, <1>4, <1>6, <2>2, Unseen
  <1>10. QED
    BY <1>8, <1>9

(* What a wake writes to a workload that the schedule has stopped and      *)
(* recorded is the setting the workload had.                               *)
LEMMA WakeRestores ==
  ASSUME IInv, NEW s \in Schedules, NEW e \in todo[s], WakeUpdate(s, e), IsDownBy(e.name, s, {"kept"})
  PROVE  spec' = [spec EXCEPT ![e.name] = down[e.name].was]
  <1> DEFINE w == e.name
  <1>1. w \in Workloads /\ KindOf[w] \in Kinds
    BY EntryFacts, WorkloadKinds DEF IInv, TypeOK
  <1>2. e \in obj[s].managed
    BY DEF IInv, TodoToWake, WakeUpdate, WakeNext
  <1>3. e.original = down[w].was
    BY <1>1, <1>2 DEF IInv, Agreed
  <1>4. spec[w] = Quiesce(KindOf[w], down[w].was)
    BY <1>1 DEF IInv, StoppedIsQuiesced, IsDownBy
  <1>5. down[w].was \in Settings(KindOf[w])
    BY <1>1, HistoryParts DEF IInv, IsDownBy, RunningSettings
  <1>6. Restore(KindOf[w], spec[w], e.original) = down[w].was
    BY <1>1, <1>3, <1>4, <1>5, RestoreQuiesced
  <1>7. QED
    BY <1>6 DEF WakeUpdate

LEMMA WakeUpdateImplements ==
  ASSUME IInv, IInv', NEW s \in Schedules, NEW e \in todo[s], WakeUpdate(s, e)
  PROVE  C!Next
  <1> DEFINE w == e.name
  <1>1. w \in Workloads /\ TypeOK
    BY EntryFacts DEF IInv, TypeOK
  <1>2. /\ pc[s] = "wake"
        /\ pc' = [pc EXCEPT ![s] = WakeOrFinish(todo'[s])]
        /\ WakeOrFinish(todo'[s]) \in {"wake", "finish"}
        /\ down' = [down EXCEPT ![w] = NotDown]
        /\ missed' = missed \ {w}
        /\ UNCHANGED <<sched, left>>
    BY DEF WakeUpdate, WakeNext, WakeOrFinish
  <1>3. Wakers' \in {Wakers, Wakers \ {s}} /\ s \in Wakers
    <2>1. s \in Wakers
      BY <1>2 DEF Wakers
    <2>2. QED
      BY <1>1, <1>2, <2>1, WakersMove
  <1>4. UNCHANGED <<Sleepers, Existing, Edits>>
    BY <1>2 DEF Sleepers, Existing, Edits
  <1>5. Holds' = [Holds EXCEPT ![w] = C!Free]
    <2>1. HoldOf(w)' = C!Free
      BY <1>1, <1>2 DEF HoldOf, IsDown, NotDown, C!Free, TypeOK
    <2>2. \A v \in Workloads \ {w} : HoldOf(v)' = HoldOf(v)
      BY <1>1, <1>2 DEF HoldOf, IsDown, TypeOK
    <2>3. QED
      BY <2>1, <2>2 DEF Holds
  <1>6. C!Write(s, w)
    BY <1>2, <1>3, <1>4, <1>5 DEF C!Write, Holds, Sleepers, Existing, Wakers, Edits
  <1>7. CASE IsDownBy(w, s, {"kept"})
    <2>1. C!Pledged(w, s)
      BY <1>1, <1>7, PledgedParts
    <2>2. spec' = [spec EXCEPT ![w] = Holds[w].was]
      BY <1>1, <1>7, WakeRestores, HoldParts DEF Holds, IsDownBy
    <2>3. C!GiveBack(s, w)
      BY <1>6, <2>1, <2>2 DEF C!GiveBack, Holds
    <2>4. QED
      BY <1>1, <2>3 DEF C!Next
  <1>8. CASE ~IsDownBy(w, s, {"kept"})
    <2>1. ~C!Pledged(w, s)
      BY <1>1, <1>8, PledgedParts
    <2>2. C!Reset(w)
      <3>1. spec'[w] \in Settings(KindOf[w])
        BY <1>1 DEF IInv, TypeOK
      <3>2. spec' = [spec EXCEPT ![w] = spec'[w]]
        BY <1>1 DEF WakeUpdate, TypeOK
      <3>3. QED
        BY <3>1, <3>2, SameKinds DEF C!Reset
    <2>3. C!Override(s, w)
      BY <1>6, <2>1, <2>2 DEF C!Override
    <2>4. QED
      BY <1>1, <2>3 DEF C!Next
  <1>9. QED
    BY <1>7, <1>8

LEMMA WakeMissImplements ==
  ASSUME IInv, NEW s \in Schedules, NEW e \in todo[s], WakeMiss(s, e)
  PROVE  C!Next
  <1> DEFINE w == e.name
  <1>1. w \in Workloads /\ TypeOK
    BY EntryFacts DEF IInv, TypeOK
  <1>2. /\ pc[s] = "wake"
        /\ pc' = [pc EXCEPT ![s] = WakeOrFinish(todo'[s])]
        /\ WakeOrFinish(todo'[s]) \in {"wake", "finish"}
        /\ missed' \in {missed, missed \cup {w}}
        /\ left'.edits = left.edits
        /\ UNCHANGED <<spec, sched, down>>
    BY <1>1 DEF WakeMiss, WakeNext, WakeOrFinish, Spend, TypeOK
  <1>3. /\ s \in Wakers
        /\ Wakers' \in {Wakers, Wakers \ {s}}
        /\ Wakers' \in {Wakers \cup {s}, Wakers \ {s}}
    <2>1. s \in Wakers
      BY <1>2 DEF Wakers
    <2>2. QED
      BY <1>1, <1>2, <2>1, WakersMove
  <1>4. UNCHANGED <<Holds, Sleepers, Existing, Edits>>
    BY <1>2, SameHolds DEF Sleepers, Existing, Edits
  <1>5. CASE missed' = missed
    BY <1>2, <1>3, <1>4, <1>5, WakingChanges
  <1>6. CASE missed' = missed \cup {w}
    <2>1. C!Excuse(s, w)
      BY <1>2, <1>3, <1>4, <1>6 DEF C!Excuse, Holds, Sleepers, Existing, Wakers, Edits
    <2>2. QED
      BY <1>1, <2>1 DEF C!Next
  <1>7. QED
    BY <1>2, <1>5, <1>6

LEMMA VerifyListImplements ==
  ASSUME IInv, NEW s \in Schedules, VerifyList(s)
  PROVE  C!Next
  <1>1. PICK at : pc' = [pc EXCEPT ![s] = at] /\ UNCHANGED <<spec, sched, down, missed, left>>
    BY DEF VerifyList
  <1>2. UNCHANGED <<Holds, Sleepers, Existing, Edits>>
    BY <1>1, SameHolds DEF Sleepers, Existing, Edits
  <1>3. QED
    BY <1>1, <1>2, WakersMove, WakingChanges DEF IInv

-----------------------------------------------------------------------------
(* Entries that are given up.                                              *)
LEMMA RenouncedHolds ==
  ASSUME TypeOK, TypeOK', NEW s \in Schedules, Rerecords(s, "kept", "dropped")
  PROVE  Holds' = C!Renounced(s)
  <1>1. ASSUME NEW w \in Workloads
        PROVE  HoldOf(w)' = IF C!Pledged(w, s) THEN C!Hold(s, Holds[w].was, FALSE) ELSE Holds[w]
    <2>1. Holds[w] = HoldOf(w)
      BY DEF Holds
    <2>2. CASE IsDownBy(w, s, {"kept"})
      <3>1. /\ IsDown(w)' /\ down'[w].by = s /\ down'[w].was = down[w].was
            /\ down'[w].record = "dropped"
        BY <2>2 DEF Rerecords, IsDownBy
      <3>2. Holds[w].was = down[w].was
        BY <2>1, <2>2, HoldParts DEF IsDownBy
      <3>3. HoldOf(w)' = C!Hold(s, Holds[w].was, FALSE)
        BY <3>1, <3>2 DEF HoldOf, C!Hold
      <3>4. QED
        BY <2>2, <3>3, PledgedParts
    <2>3. CASE ~IsDownBy(w, s, {"kept"})
      <3>1. HoldOf(w)' = HoldOf(w)
        BY <2>3 DEF Rerecords, HoldOf, IsDownBy
      <3>2. QED
        BY <2>1, <2>3, <3>1, PledgedParts
    <2>4. QED
      BY <2>2, <2>3
  <1>2. QED
    BY <1>1 DEF C!Renounced, Holds

LEMMA ClearImplements ==
  ASSUME IInv, IInv', NEW s \in Schedules, Clear(s)
  PROVE  C!Next
  <1> DEFINE cleared == [obj[s] EXCEPT !.managed = {}]
  <1>1. /\ pc[s] = "clear" /\ fresh[s]
        /\ pc' = [pc EXCEPT ![s] = "finish"]
        /\ UNCHANGED <<spec, missed, left>>
    BY DEF Clear
  <1>2. cleared \in Status /\ cleared.sleeping = obj[s].sleeping /\ obj'[s] = cleared
    BY DEF Clear, IInv, TypeOK, Status
  <1> HIDE DEF cleared
  <1>3. sched' = [sched EXCEPT ![s] = WithStatus(sched[s], cleared)]
    BY <1>2 DEF Clear
  <1>4. sched[s].sleeping = obj[s].sleeping /\ ~obj[s].sleeping /\ sched \in [Schedules -> Schedule]
    BY <1>1 DEF IInv, TypeOK, FreshCopy, TodoToWake
  <1>5. \A r \in Schedules : sched'[r].sleeping = sched[r].sleeping /\ sched'[r].exists = sched[r].exists
    BY <1>2, <1>3, <1>4, WithStatusParts
  <1>6. UNCHANGED <<Sleepers, Existing, Edits>>
    BY <1>1, <1>5 DEF Sleepers, Existing, Edits
  <1>7. TypeOK /\ TypeOK'
    BY DEF IInv
  <1>8. UNCHANGED Wakers
    BY <1>1, <1>7 DEF TypeOK, Wakers
  <1>9. Holds' = C!Renounced(s)
    BY <1>7, Rerecording, RenouncedHolds DEF Clear, Records
  <1>10. C!Renounce(s)
    BY <1>1, <1>4, <1>6, <1>8, <1>9 DEF C!Renounce, Holds, Sleepers, Existing, Wakers, Edits
  <1>11. QED
    BY <1>10 DEF C!Next

(* The last status write of a reconcile: the schedule falls asleep, wakes  *)
(* up or stays as it is.                                                   *)
LEMMA FinishImplements ==
  ASSUME IInv, NEW s \in Schedules, Finish(s)
  PROVE  C!Next \/ UNCHANGED C!vars
  <1>1. /\ pc[s] = "finish" /\ fresh[s]
        /\ pc' = [pc EXCEPT ![s] = "idle"]
        /\ sched' = [sched EXCEPT ![s] = WithStatus(sched[s], Final(s))]
        /\ UNCHANGED <<spec, down, missed, left>>
    BY DEF Finish, End, Final
  <1>2. TypeOK /\ sched \in [Schedules -> Schedule] /\ goal[s] \in BOOLEAN
    BY DEF IInv, TypeOK
  <1>3. sched[s].exists /\ sched[s].sleeping = obj[s].sleeping
    BY <1>1 DEF IInv, GoneForgets, FreshCopy
  <1>4. /\ \A r \in Schedules : sched'[r].exists = sched[r].exists
        /\ \A r \in Schedules \ {s} : sched'[r].sleeping = sched[r].sleeping
        /\ sched'[s].sleeping = goal[s]
    BY <1>1, <1>2, FinalParts, WithStatusParts
  <1>5. UNCHANGED <<Holds, Existing, Edits>>
    BY <1>1, <1>4, SameHolds DEF Existing, Edits
  <1>6. UNCHANGED Wakers
    BY <1>1, <1>2 DEF TypeOK, Wakers
  <1>7. CASE goal[s] = sched[s].sleeping
    <2>1. UNCHANGED Sleepers
      BY <1>4, <1>7 DEF Sleepers
    <2>2. QED
      BY <1>1, <1>5, <1>6, <2>1, Unseen
  <1>8. CASE goal[s]
    <2>1. Sleepers' = Sleepers \cup {s}
      BY <1>4, <1>8 DEF Sleepers
    <2>2. C!FallAsleep(s)
      BY <1>1, <1>3, <1>5, <1>6, <2>1 DEF C!FallAsleep, Holds, Sleepers, Existing, Wakers, Edits
    <2>3. QED
      BY <2>2 DEF C!Next
  <1>9. CASE sched[s].sleeping /\ ~goal[s]
    <2>1. Sleepers' = Sleepers \ {s}
      BY <1>4, <1>9 DEF Sleepers
    <2>2. todo[s] = {}
      BY <1>1 DEF IInv, TodoToWake
    <2>3. \A w \in Workloads : IsDownBy(w, s, {"kept"}) => w \in missed
      BY <1>1, <1>3, <1>9, <2>2 DEF IInv, TodoToWake
    <2>4. \A w \in Workloads : C!Pledged(w, s) => w \in missed
      BY <1>2, <2>3, PledgedParts
    <2>5. C!WakeUp(s)
      BY <1>1, <1>5, <1>6, <2>1, <2>4 DEF C!WakeUp, Holds, Sleepers, Existing, Wakers, Edits
    <2>6. QED
      BY <2>5 DEF C!Next
  <1>10. QED
    BY <1>2, <1>3, <1>7, <1>8, <1>9 DEF Schedule

-----------------------------------------------------------------------------
(* Users, the clock and the informer.                                      *)
LEMMA EditImplements ==
  ASSUME IInv, IInv', NEW w \in Workloads, UserEdit(w)
  PROVE  C!Next
  <1>1. /\ down' = [down EXCEPT ![w] = NotDown]
        /\ missed' = missed \ {w}
        /\ UNCHANGED <<sched, pc>>
    BY DEF UserEdit, loop
  <1>2. Edits' = Edits + 1
    BY ConstantsAssumption DEF UserEdit, Spend, Edits, IInv, TypeOK
  <1>3. UNCHANGED <<Sleepers, Existing, Wakers>>
    BY <1>1 DEF Sleepers, Existing, Wakers
  <1>4. TypeOK /\ TypeOK'
    BY DEF IInv
  <1>5. Holds' = [Holds EXCEPT ![w] = C!Free]
    <2>1. HoldOf(w)' = C!Free
      BY <1>1, <1>4 DEF HoldOf, IsDown, NotDown, C!Free, TypeOK
    <2>2. \A v \in Workloads \ {w} : HoldOf(v)' = HoldOf(v)
      BY <1>1, <1>4 DEF HoldOf, IsDown, TypeOK
    <2>3. QED
      BY <2>1, <2>2 DEF Holds
  <1>6. C!Reset(w)
    <2>1. spec'[w] \in Settings(KindOf[w])
      BY <1>4 DEF TypeOK
    <2>2. spec' = [spec EXCEPT ![w] = spec'[w]]
      BY <1>4 DEF UserEdit, TypeOK
    <2>3. QED
      BY <2>1, <2>2, SameKinds DEF C!Reset
  <1>7. C!Edit(w)
    BY <1>1, <1>2, <1>3, <1>5, <1>6 DEF C!Edit, Holds, Sleepers, Existing, Wakers, Edits
  <1>8. QED
    BY <1>7 DEF C!Next

(* The clock, the informer, and users who change the spec of a schedule:   *)
(* none of them touches what Custody speaks of.                            *)
LEMMA QuietImplements ==
  ASSUME IInv, NEW s \in Schedules,
         \/ FlipWindow(s) \/ VerifyWindowExpires(s) \/ Sync(s)
         \/ ToggleSuspend(s) \/ ToggleWindows(s)
  PROVE  UNCHANGED C!vars
  <1>1. TypeOK
    BY DEF IInv
  <1>2. UNCHANGED <<spec, pc, down, missed>>
    BY DEF FlipWindow, VerifyWindowExpires, Sync, ToggleSuspend, ToggleWindows, UserChange, loop
  <1>3. left'.edits = left.edits
    BY <1>1 DEF FlipWindow, VerifyWindowExpires, Sync, ToggleSuspend, ToggleWindows, UserChange,
                Spend, TypeOK
  <1>4. \A r \in Schedules : sched'[r].sleeping = sched[r].sleeping /\ sched'[r].exists = sched[r].exists
    <2>1. sched \in [Schedules -> Schedule] /\ sched[s] \in Schedule
      BY <1>1 DEF TypeOK
    <2>2. \/ sched' = sched
          \/ \E b \in BOOLEAN :
               sched' \in {[sched EXCEPT ![s] = [sched[s] EXCEPT !.recent = b]],
                           [sched EXCEPT ![s] = [sched[s] EXCEPT !.suspend = b]],
                           [sched EXCEPT ![s] = [sched[s] EXCEPT !.windows = b]]}
      BY <2>1 DEF FlipWindow, VerifyWindowExpires, Sync, ToggleSuspend, ToggleWindows, UserChange
    <2>3. QED
      BY <2>1, <2>2 DEF Schedule
  <1>5. UNCHANGED <<Holds, Sleepers, Existing, Wakers, Edits>>
    BY <1>2, <1>3, <1>4, SameHolds DEF Sleepers, Existing, Wakers, Edits
  <1>6. QED
    BY <1>2, <1>5, Unseen

LEMMA DeleteImplements ==
  ASSUME IInv, IInv', NEW s \in Schedules, Delete(s)
  PROVE  C!Next
  <1>1. TypeOK /\ TypeOK'
    BY DEF IInv
  <1>2. sched' = [sched EXCEPT ![s] = Gone] /\ UNCHANGED <<spec, pc, missed>>
    BY DEF Delete, UserChange
  <1>3. left'.edits = left.edits
    BY <1>1 DEF Delete, UserChange, Spend, TypeOK
  <1>4. Sleepers' = Sleepers \ {s} /\ Existing' = Existing \ {s}
    BY <1>1, <1>2, NewParts DEF Sleepers, Existing, TypeOK
  <1>5. UNCHANGED <<Wakers, Edits>>
    BY <1>2, <1>3 DEF Wakers, Edits
  <1>6. Holds' = C!Renounced(s)
    BY <1>1, Rerecording, RenouncedHolds DEF Delete, Records
  <1>7. C!Delete(s)
    BY <1>2, <1>4, <1>5, <1>6 DEF C!Delete, Holds, Sleepers, Existing, Wakers, Edits
  <1>8. QED
    BY <1>7 DEF C!Next

(* A schedule that is created again starts awake, as the deleted one ended.*)
LEMMA CreateImplements ==
  ASSUME IInv, NEW s \in Schedules, Create(s)
  PROVE  C!Next
  <1>1. TypeOK
    BY DEF IInv
  <1>2. sched' = [sched EXCEPT ![s] = NewSchedule] /\ UNCHANGED <<spec, pc, down, missed, left>>
    BY DEF Create, UserChange
  <1>3. ~sched[s].sleeping
    BY DEF Create, IInv, GoneForgets
  <1>4. Sleepers' = Sleepers
    BY <1>1, <1>2, <1>3, NewParts DEF Sleepers, TypeOK
  <1>5. Existing' = Existing \cup {s}
    <2>1. NewSchedule.exists
      BY DEF NewSchedule
    <2>2. QED
      BY <1>1, <1>2, <2>1 DEF Existing, TypeOK
  <1>6. UNCHANGED <<Holds, Wakers, Edits>>
    BY <1>2, SameHolds DEF Wakers, Edits
  <1>7. C!Create(s)
    BY <1>2, <1>4, <1>5, <1>6 DEF C!Create, Holds, Sleepers, Existing, Wakers, Edits
  <1>8. QED
    BY <1>7 DEF C!Next

-----------------------------------------------------------------------------
LEMMA InitImplements == Init => C!Init
  <1> SUFFICES ASSUME Init PROVE C!Init
    OBVIOUS
  <1>1. spec \in [Workloads -> C!AnySetting]
    BY InitType, SameKinds DEF TypeOK
  <1>2. Holds = [w \in Workloads |-> C!Free]
    BY DEF Init, Holds, HoldOf, IsDown, NotDown, C!Free
  <1>3. Sleepers = {} /\ Existing = Schedules
    BY DEF Init, NewSchedule, Sleepers, Existing
  <1>4. Wakers = {} /\ missed = {}
    BY DEF Init, Wakers
  <1>5. Edits = 0
    BY ConstantsAssumption DEF Init, Edits
  <1>6. QED
    BY <1>1, <1>2, <1>3, <1>4, <1>5 DEF C!Init, Holds, Sleepers, Existing, Wakers, Edits

LEMMA NextImplements == IInv /\ IInv' /\ [Next]_vars => [C!Next]_(C!vars)
  <1> SUFFICES ASSUME IInv, IInv', [Next]_vars
               PROVE  C!Next \/ UNCHANGED C!vars
    OBVIOUS
  <1>1. CASE Environment
    BY <1>1, EditImplements, QuietImplements, DeleteImplements, CreateImplements DEF Environment
  <1>2. ASSUME NEW s \in Schedules, Start(s)
        PROVE  C!Next
    BY <1>2, BeginImplements
  <1>3. ASSUME NEW s \in Schedules, SleepRefused(s) \/ StatusRefused(s) \/ Abort(s)
        PROVE  C!Next
    <2>1. Fail(s) /\ left'.edits = left.edits
      BY <1>3 DEF SleepRefused, StatusRefused, Abort, Spend, IInv, TypeOK
    <2>2. QED
      BY <2>1, FailImplements
  <1>4. ASSUME NEW s \in Schedules, Step(s)
        PROVE  C!Next \/ UNCHANGED C!vars
    BY <1>3, <1>4, SleepListImplements, SleepUpdateImplements, PersistImplements,
       WakeUpdateImplements, VerifyListImplements, ClearImplements, FinishImplements DEF Step
  <1>5. ASSUME NEW s \in Schedules, NEW e \in todo[s], WakeMiss(s, e)
        PROVE  C!Next
    BY <1>5, WakeMissImplements
  <1>6. CASE UNCHANGED vars
    <2>1. UNCHANGED <<spec, sched, pc, down, missed, left>>
      BY <1>6 DEF vars
    <2>2. UNCHANGED <<Holds, Sleepers, Existing, Wakers, Edits>>
      BY <2>1, SameHolds DEF Sleepers, Existing, Wakers, Edits
    <2>3. QED
      BY <2>1, <2>2, Unseen
  <1>7. QED
    BY <1>1, <1>2, <1>3, <1>4, <1>5, <1>6 DEF Next

(* The controller keeps what Custody promises: a stopped workload is held  *)
(* by the schedule that stopped it, and leaves its hands only restored,    *)
(* through a user or another schedule, or renounced (sleepWorkloads,       *)
(* wakeWorkloads, verifyAndCorrectWorkloads and every status write).       *)
THEOREM CustodyKept == Spec => Implements
  BY InitImplements, Safety, NextSafe, NextImplements, PTL DEF Spec, Implements, C!Spec
=============================================================================
