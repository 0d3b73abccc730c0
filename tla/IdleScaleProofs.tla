-------------------------- MODULE IdleScaleProofs --------------------------
(***************************************************************************)
(* IdleScale, for any number of workloads, any idle duration and any       *)
(* bounds: IInv is inductive, and what it implies.                         *)
(***************************************************************************)
EXTENDS IdleScale, Lemmas

(* A workload's kind is a kind, and what users set is a setting of it.     *)
LEMMA WorkloadKinds ==
  ASSUME NEW w \in Workloads
  PROVE  KindOf[w] \in Kinds /\ UserSettings[w] \subseteq Settings(KindOf[w])
  BY ConstantsAssumption DEF IdleKinds, Kinds, SuspendKinds, ReplicaKinds, AppsKinds

LEMMA AgesType ==
  /\ 0 \in Ages
  /\ \A a \in Ages : Older(a) \in Ages
  /\ \A a, b \in Ages : a <= b => Older(a) <= Older(b)
  BY ConstantsAssumption DEF Ages, Older

LEMMA ScaledType ==
  ASSUME NEW w \in Workloads, NEW st \in RunningSettings(w)
  PROVE  Scaled(w, st) \in ScaledEntries
  <1>1. st \in AnySetting
    BY WorkloadKinds, SettingsAny DEF RunningSettings
  <1>2. QED
    BY <1>1 DEF ScaledEntries, Scaled

LEMMA ScaledParts ==
  ASSUME NEW w, NEW st
  PROVE  Scaled(w, st).name = w /\ Scaled(w, st).original = st
  BY DEF Scaled

LEMMA ScaledFacts ==
  ASSUME NEW e \in ScaledEntries
  PROVE  /\ e.name \in Workloads
         /\ e.original \in RunningSettings(e.name)
         /\ e.original \in Settings(KindOf[e.name])
         /\ e = Scaled(e.name, e.original)
  BY DEF ScaledEntries, RunningSettings, Scaled

LEMMA RunningIsSetting ==
  ASSUME TypeOK, NEW w \in Workloads, Running(KindOf[w], spec[w])
  PROVE  spec[w] \in RunningSettings(w)
  BY DEF TypeOK, RunningSettings

LEMMA IdleType ==
  ASSUME NEW w \in Workloads, NEW a \in Ages
  PROVE  Idle(w, a) \in IdleEntries /\ Idle(w, a).name = w /\ Idle(w, a).age = a
  BY DEF Idle, IdleEntries

LEMMA OlderType ==
  ASSUME NEW entries \in SUBSET IdleEntries
  PROVE  /\ OlderEntries(entries) \in SUBSET IdleEntries
         /\ \A e \in OlderEntries(entries) :
              \E f \in entries : e.name = f.name /\ e.age = Older(f.age)
  BY AgesType DEF OlderEntries, IdleEntries

(* Changing one field of a detector.                                       *)
LEMMA Fields ==
  ASSUME NEW d \in Detectors, NEW i \in SUBSET IdleEntries, NEW c \in SUBSET ScaledEntries
  PROVE  /\ [d EXCEPT !.idle = i] \in Detectors
         /\ [d EXCEPT !.idle = i].scaled = d.scaled
         /\ [d EXCEPT !.idle = i].idle = i
         /\ [d EXCEPT !.idle = i].finalizer = d.finalizer
         /\ [d EXCEPT !.idle = i].exists = d.exists
         /\ [d EXCEPT !.scaled = c] \in Detectors
         /\ [d EXCEPT !.scaled = c].scaled = c
         /\ [d EXCEPT !.scaled = c].idle = d.idle
         /\ [d EXCEPT !.scaled = c].finalizer = d.finalizer
         /\ [d EXCEPT !.scaled = c].exists = d.exists
         /\ [d EXCEPT !.idle = i, !.scaled = c] \in Detectors
         /\ [d EXCEPT !.idle = i, !.scaled = c].scaled = c
         /\ [d EXCEPT !.idle = i, !.scaled = c].idle = i
         /\ [d EXCEPT !.idle = i, !.scaled = c].finalizer = d.finalizer
         /\ [d EXCEPT !.idle = i, !.scaled = c].exists = d.exists
         /\ [d EXCEPT !.finalizer = TRUE] \in Detectors
         /\ [d EXCEPT !.finalizer = TRUE].scaled = d.scaled
         /\ [d EXCEPT !.finalizer = TRUE].idle = d.idle
         /\ [d EXCEPT !.finalizer = TRUE].finalizer = TRUE
         /\ [d EXCEPT !.finalizer = TRUE].exists = d.exists
  BY DEF Detectors

LEMMA DetectorParts ==
  ASSUME NEW d \in Detectors
  PROVE  /\ d.idle \in SUBSET IdleEntries
         /\ d.scaled \in SUBSET ScaledEntries
         /\ d.exists \in BOOLEAN /\ d.deleting \in BOOLEAN /\ d.finalizer \in BOOLEAN
  BY DEF Detectors

LEMMA NewParts ==
  /\ NewDetector \in Detectors /\ NewDetector.idle = {} /\ NewDetector.scaled = {}
  /\ Gone \in Detectors /\ Gone.idle = {} /\ Gone.scaled = {} /\ Gone.exists = FALSE
  BY DEF NewDetector, Gone, Detectors

-----------------------------------------------------------------------------
(* What the history of a workload may be.                                  *)
Records == {"pending", "kept", "lost"}

History(w) == {NotDown} \cup [was : RunningSettings(w), record : Records]

LEMMA HistoryParts ==
  ASSUME TypeOK, NEW w \in Workloads
  PROVE  /\ down[w] \in History(w)
         /\ \A r \in Records : HasRecord(w, r) =>
              down[w] # NotDown /\ down[w].was \in RunningSettings(w)
         /\ down[w] # NotDown => down[w].record \in Records /\ down[w].was \in RunningSettings(w)
  BY DEF TypeOK, History, Records, NotDown, HasRecord

LEMMA DownFromParts ==
  ASSUME NEW w \in Workloads, NEW st \in RunningSettings(w), NEW r \in Records
  PROVE  /\ DownFrom(st, r) \in History(w)
         /\ DownFrom(st, r).was = st /\ DownFrom(st, r).record = r
         /\ DownFrom(st, r) # NotDown
  BY DEF DownFrom, History, Records, NotDown

LEMMA RerecordParts ==
  ASSUME TypeOK, NEW from \in Records, NEW to \in Records
  PROVE  /\ DOMAIN Rerecord(from, to) = Workloads
         /\ \A w \in Workloads :
              /\ Rerecord(from, to)[w] \in History(w)
              /\ down[w] = NotDown => Rerecord(from, to)[w] = NotDown
              /\ down[w] # NotDown =>
                   /\ Rerecord(from, to)[w] # NotDown
                   /\ Rerecord(from, to)[w].was = down[w].was
                   /\ Rerecord(from, to)[w].record =
                        IF down[w].record = from THEN to ELSE down[w].record
  <1>1. ASSUME NEW w \in Workloads
        PROVE  /\ Rerecord(from, to)[w] \in History(w)
               /\ down[w] = NotDown => Rerecord(from, to)[w] = NotDown
               /\ down[w] # NotDown =>
                    /\ Rerecord(from, to)[w] # NotDown
                    /\ Rerecord(from, to)[w].was = down[w].was
                    /\ Rerecord(from, to)[w].record =
                         IF down[w].record = from THEN to ELSE down[w].record
    <2>1. CASE HasRecord(w, from)
      <3>1. Rerecord(from, to)[w] = [down[w] EXCEPT !.record = to]
        BY <2>1 DEF Rerecord
      <3>2. down[w] \in [was : RunningSettings(w), record : Records]
        BY <2>1, HistoryParts DEF History
      <3>3. QED
        BY <2>1, <3>1, <3>2 DEF History, HasRecord, NotDown, Records
    <2>2. CASE ~HasRecord(w, from)
      <3>1. Rerecord(from, to)[w] = down[w]
        BY <2>2 DEF Rerecord
      <3>2. QED
        BY <2>2, <3>1, HistoryParts DEF HasRecord
    <2>3. QED
      BY <2>1, <2>2
  <1>2. QED
    BY <1>1 DEF Rerecord

-----------------------------------------------------------------------------
(* The type invariant, part by part.                                       *)
ClusterOK ==
  /\ spec \in [Workloads -> AnySetting]
  /\ \A w \in Workloads : spec[w] \in Settings(KindOf[w])
  /\ present \subseteq Workloads
  /\ low \subseteq Workloads

StatusOK == detector \in Detectors /\ cache \in Detectors

LoopOK ==
  /\ pc \in Places
  /\ obj \in Detectors
  /\ fresh \in BOOLEAN
  /\ todo \subseteq Workloads
  /\ found \subseteq IdleEntries
  /\ elapsed \in Ages
  /\ busy \subseteq Workloads

DownOK == DOMAIN down = Workloads /\ \A w \in Workloads : down[w] \in History(w)

QuietOK == quiet \in [Workloads -> Ages]

LEMMA TypeParts ==
  /\ TypeOK <=> ClusterOK /\ StatusOK /\ LoopOK /\ DownOK /\ QuietOK
  /\ TypeOK' <=> ClusterOK' /\ StatusOK' /\ LoopOK' /\ DownOK' /\ QuietOK'
  BY DEF TypeOK, ClusterOK, StatusOK, LoopOK, DownOK, QuietOK, History, Records

(* What a step leaves alone keeps its type.                                *)
LEMMA Kept ==
  ASSUME TypeOK
  PROVE  /\ UNCHANGED cluster => ClusterOK'
         /\ UNCHANGED <<detector, cache>> => StatusOK'
         /\ UNCHANGED loop => LoopOK'
         /\ UNCHANGED down => DownOK'
         /\ UNCHANGED quiet => QuietOK'
  BY TypeParts DEF ClusterOK, StatusOK, LoopOK, DownOK, QuietOK, cluster, loop

LEMMA EndType ==
  ASSUME End
  PROVE  LoopOK'
  BY NewParts, AgesType DEF End, LoopOK, Places

LEMMA BeginType ==
  ASSUME TypeOK, NEW at \in Places, NEW names \in SUBSET Workloads, Begin(at, names)
  PROVE  TypeOK'
  <1>1. LoopOK'
    BY TypeParts DEF Begin, LoopOK, StatusOK
  <1>2. QED
    BY <1>1, Kept, TypeParts DEF Begin

LEMMA NamesType ==
  ASSUME NEW d \in Detectors
  PROVE  Names(d.scaled) \subseteq Workloads /\ Names(d.idle) \subseteq Workloads
  BY DetectorParts, ScaledFacts DEF Names, IdleEntries

LEMMA StartType ==
  ASSUME TypeOK, Start
  PROVE  TypeOK'
  <1>1. CASE StartDeletion
    <2>1. Names(cache.scaled) \subseteq Workloads
      BY NamesType, TypeParts DEF StatusOK
    <2>2. QED
      BY <1>1, <2>1, BeginType DEF StartDeletion, RestoreOrRelease, Places
  <1>2. CASE StartAttach
    BY <1>2, BeginType DEF StartAttach, Places
  <1>3. CASE StartCheck
    BY <1>3, BeginType DEF StartCheck, CheckOrReport, Places
  <1>4. QED
    BY <1>1, <1>2, <1>3 DEF Start

LEMMA AttachType ==
  ASSUME TypeOK, Attach
  PROVE  TypeOK'
  <1>1. StatusOK'
    BY TypeParts, Fields DEF Attach, StatusOK
  <1>2. LoopOK'
    BY TypeParts, Fields DEF Attach, LoopOK, CheckOrReport, Places
  <1>3. QED
    BY <1>1, <1>2, Kept, TypeParts DEF Attach

(* The two outcomes of a look at a workload: there are others to look at,  *)
(* or the list is complete.                                                *)
LEMMA CheckedCases ==
  ASSUME TypeOK, NEW w \in todo, NEW entries \in SUBSET IdleEntries, NEW notIdle,
         Checked(w, entries, notIdle)
  PROVE  /\ busy' = busy \cup notIdle
         /\ UNCHANGED <<cluster, detector, cache, fresh, down, quiet>>
         /\ \/ /\ pc' = "check" /\ found' = entries /\ obj' = obj
               /\ todo' = todo \ {w} /\ elapsed' = elapsed
            \/ /\ pc' = ScaleOrReport(todo') /\ found' = {} /\ elapsed' = 0
               /\ obj' = [obj EXCEPT !.idle = entries]
               /\ todo \ {w} = {}
               /\ todo' \subseteq ToScale(entries, obj.scaled)
  BY DEF Checked

LEMMA ToScaleParts ==
  ASSUME NEW entries \in SUBSET IdleEntries, NEW scaled,
         NEW w \in ToScale(entries, scaled)
  PROVE  /\ w \in Workloads /\ w \notin Names(scaled)
         /\ \E e \in entries : e.name = w /\ e.age >= IdleDuration
  BY DEF ToScale, IdleEntries

LEMMA CheckedType ==
  ASSUME TypeOK, NEW w \in todo, NEW entries \in SUBSET IdleEntries,
         NEW notIdle \in SUBSET Workloads, Checked(w, entries, notIdle)
  PROVE  TypeOK'
  <1>1. LoopOK'
    <2>1. obj' \in Detectors
      <3>1. obj \in Detectors /\ [obj EXCEPT !.idle = entries] \in Detectors
        BY TypeParts DEF LoopOK, Detectors
      <3>2. obj' = obj \/ obj' = [obj EXCEPT !.idle = entries]
        BY CheckedCases
      <3>3. QED
        BY <3>1, <3>2
    <2>2. todo' \subseteq Workloads
      <3>1. todo \subseteq Workloads /\ ToScale(entries, obj.scaled) \subseteq Workloads
        BY TypeParts, ToScaleParts DEF LoopOK
      <3>2. todo' = todo \ {w} \/ todo' \subseteq ToScale(entries, obj.scaled)
        BY CheckedCases
      <3>3. QED
        BY <3>1, <3>2
    <2>3. pc' \in Places
      BY CheckedCases DEF Places, ScaleOrReport
    <2>4. QED
      BY <2>1, <2>2, <2>3, CheckedCases, AgesType, TypeParts DEF LoopOK
  <1>2. QED
    BY <1>1, CheckedCases, Kept, TypeParts

LEMMA SinceType ==
  ASSUME TypeOK, NEW w \in Workloads
  PROVE  /\ Since(w) \in Ages
         /\ Since(w) = elapsed \/ \E e \in obj.idle : e.name = w /\ e.age = Since(w)
  <1>1. elapsed \in Ages /\ obj.idle \in SUBSET IdleEntries
    BY TypeParts, DetectorParts DEF LoopOK
  <1>2. CASE w \in Names(obj.idle)
    <2> DEFINE c == CHOOSE e \in obj.idle : e.name = w
    <2>1. \E e \in obj.idle : e.name = w
      BY <1>2 DEF Names
    <2>2. c \in obj.idle /\ c.name = w
      BY <2>1
    <2>3. Since(w) = c.age
      BY <1>2 DEF Since
    <2>4. QED
      BY <1>1, <2>2, <2>3 DEF IdleEntries
  <1>3. CASE w \notin Names(obj.idle)
    BY <1>1, <1>3 DEF Since
  <1>4. QED
    BY <1>2, <1>3

(* What each look at a workload makes of the idle list.                    *)
LEMMA CheckIdleChecked ==
  ASSUME TypeOK, NEW w \in todo, CheckIdle(w)
  PROVE  /\ found \cup {Idle(w, Since(w))} \in SUBSET IdleEntries
         /\ Checked(w, found \cup {Idle(w, Since(w))}, {})
         /\ pc = "check" /\ w \in Workloads
  BY TypeParts, SinceType, IdleType DEF CheckIdle, LoopOK

LEMMA CheckBusyChecked ==
  ASSUME TypeOK, NEW w \in todo, CheckBusy(w) \/ CheckMiss(w)
  PROVE  /\ found \in SUBSET IdleEntries
         /\ Checked(w, found, {w})
         /\ pc = "check" /\ w \in Workloads
  BY TypeParts DEF CheckBusy, CheckMiss, LoopOK

LEMMA CheckType ==
  ASSUME TypeOK, NEW w \in todo, CheckIdle(w) \/ CheckBusy(w) \/ CheckMiss(w)
  PROVE  TypeOK'
  <1>1. CASE CheckIdle(w)
    <2> DEFINE entries == found \cup {Idle(w, Since(w))}
    <2>1. entries \in SUBSET IdleEntries /\ Checked(w, entries, {})
      BY <1>1, CheckIdleChecked
    <2> HIDE DEF entries
    <2>2. QED
      BY <2>1, CheckedType
  <1>2. CASE CheckBusy(w) \/ CheckMiss(w)
    BY <1>2, CheckBusyChecked, CheckedType
  <1>3. QED
    BY <1>1, <1>2

LEMMA StoppedType ==
  ASSUME TypeOK, NEW w \in Workloads
  PROVE  /\ Quiesce(KindOf[w], spec[w]) \in Settings(KindOf[w])
         /\ [spec EXCEPT ![w] = Quiesce(KindOf[w], spec[w])] \in [Workloads -> AnySetting]
  <1>1. spec[w] \in Settings(KindOf[w]) /\ KindOf[w] \in Kinds
    BY TypeParts, WorkloadKinds DEF ClusterOK
  <1>2. Quiesce(KindOf[w], spec[w]) \in Settings(KindOf[w])
    BY <1>1, QuiesceType
  <1>3. Quiesce(KindOf[w], spec[w]) \in AnySetting
    BY <1>1, <1>2, SettingsAny
  <1>4. QED
    BY <1>2, <1>3, TypeParts DEF ClusterOK

(* A workload gets a setting of its kind.                                  *)
LEMMA SettingType ==
  ASSUME TypeOK, NEW w \in Workloads, NEW st \in Settings(KindOf[w]),
         spec' = [spec EXCEPT ![w] = st], UNCHANGED <<present, low>>
  PROVE  ClusterOK'
  <1>1. st \in AnySetting
    BY WorkloadKinds, SettingsAny
  <1>2. QED
    BY <1>1, TypeParts DEF ClusterOK

(* The history of one workload changes.                                    *)
LEMMA DownType ==
  ASSUME TypeOK, NEW w \in Workloads, NEW h \in History(w), down' = [down EXCEPT ![w] = h]
  PROVE  DownOK'
  BY TypeParts DEF DownOK

LEMMA NotDownType ==
  ASSUME NEW w \in Workloads
  PROVE  NotDown \in History(w)
  BY DEF History

LEMMA RerecordType ==
  ASSUME TypeOK, NEW from \in Records, NEW to \in Records, down' = Rerecord(from, to)
  PROVE  DownOK'
  BY RerecordParts DEF DownOK

LEMMA FailType ==
  ASSUME TypeOK, Fail
  PROVE  TypeOK'
  BY EndType, RerecordType, Kept, TypeParts DEF Fail, Records

(* What every visit of a workload by the scale phase leaves of the loop.   *)
LEMMA VisitType ==
  ASSUME TypeOK, NEW w \in todo, Visit(w), pc' \in Places, obj' \in Detectors
  PROVE  /\ LoopOK' /\ StatusOK' /\ QuietOK'
         /\ w \in Workloads
  BY TypeParts, Kept DEF Visit, LoopOK, StatusOK, QuietOK

LEMMA VisitPlaces ==
  /\ "persist" \in Places
  /\ \A names : ScaleOrReport(names) \in Places
  BY DEF Places, ScaleOrReport

LEMMA ScaleType ==
  ASSUME TypeOK, NEW w \in todo,
         ScaleDown(w) \/ ScaleNothing(w) \/ ScaleFails(w) \/ ScaleUnanswered(w)
  PROVE  TypeOK'
  <1> w \in Workloads /\ obj \in Detectors
    BY TypeParts DEF LoopOK
  <1>1. CASE ScaleDown(w)
    <2>1. spec[w] \in RunningSettings(w)
      BY <1>1, RunningIsSetting DEF ScaleDown
    <2>2. obj' \in Detectors
      <3>1. obj.scaled \cup {Scaled(w, spec[w])} \subseteq ScaledEntries
        BY <2>1, ScaledType, DetectorParts
      <3>2. QED
        BY <1>1, <3>1 DEF ScaleDown, Detectors
    <2>3. LoopOK' /\ StatusOK' /\ QuietOK'
      BY <1>1, <2>2, VisitType, VisitPlaces DEF ScaleDown
    <2>4. ClusterOK'
      BY <1>1, StoppedType, SettingType DEF ScaleDown, Visit
    <2>5. DownOK'
      BY <1>1, <2>1, DownFromParts, DownType DEF ScaleDown, Records
    <2>6. QED
      BY <2>3, <2>4, <2>5, TypeParts
  <1>2. CASE ScaleNothing(w)
    <2>1. LoopOK' /\ StatusOK' /\ QuietOK'
      BY <1>2, VisitType, VisitPlaces DEF ScaleNothing
    <2>2. ClusterOK' /\ DownOK'
      BY <1>2, Kept DEF ScaleNothing, Visit, cluster
    <2>3. QED
      BY <2>1, <2>2, TypeParts
  <1>3. CASE ScaleFails(w)
    <2>1. LoopOK' /\ StatusOK' /\ QuietOK'
      BY <1>3, VisitType, VisitPlaces DEF ScaleFails
    <2>2. ClusterOK' /\ DownOK'
      BY <1>3, Kept DEF ScaleFails, Visit, cluster
    <2>3. QED
      BY <2>1, <2>2, TypeParts
  <1>4. CASE ScaleUnanswered(w)
    <2>1. spec[w] \in RunningSettings(w)
      BY <1>4, RunningIsSetting DEF ScaleUnanswered
    <2>2. LoopOK' /\ StatusOK' /\ QuietOK'
      BY <1>4, VisitType, VisitPlaces DEF ScaleUnanswered
    <2>3. ClusterOK'
      BY <1>4, StoppedType, SettingType DEF ScaleUnanswered, Visit
    <2>4. DownOK'
      BY <1>4, <2>1, DownFromParts, DownType DEF ScaleUnanswered, Records
    <2>5. QED
      BY <2>2, <2>3, <2>4, TypeParts
  <1>5. QED
    BY <1>1, <1>2, <1>3, <1>4

(* The status write.                                                       *)
LEMMA WriteType ==
  ASSUME TypeOK, Write, UNCHANGED cache
  PROVE  StatusOK' /\ DownOK' /\ QuietOK'
  <1>1. StatusOK'
    <2>1. detector \in Detectors /\ obj \in Detectors /\ cache \in Detectors
      BY TypeParts DEF StatusOK, LoopOK
    <2>2. obj.idle \in SUBSET IdleEntries /\ obj.scaled \in SUBSET ScaledEntries
      BY <2>1, DetectorParts
    <2>3. QED
      BY <2>1, <2>2, Fields DEF Write, StatusOK
  <1>2. DownOK'
    BY RerecordType DEF Write, Records
  <1>3. QuietOK'
    BY AgesType, TypeParts DEF Write, QuietOK
  <1>4. QED
    BY <1>1, <1>2, <1>3

LEMMA PersistType ==
  ASSUME TypeOK, Persist \/ PersistFails \/ Report
  PROVE  TypeOK'
  <1>1. CASE Persist
    <2>1. LoopOK'
      BY <1>1, VisitPlaces, TypeParts DEF Persist, LoopOK
    <2>2. QED
      BY <1>1, <2>1, WriteType, Kept, TypeParts DEF Persist
  <1>2. CASE PersistFails
    <2>1. LoopOK'
      BY <1>2, TypeParts DEF PersistFails, LoopOK, Places
    <2>2. QED
      BY <1>2, <2>1, Kept, TypeParts DEF PersistFails
  <1>3. CASE Report
    BY <1>3, WriteType, EndType, Kept, TypeParts DEF Report
  <1>4. QED
    BY <1>1, <1>2, <1>3

LEMMA RestorePlaces == \A names, entries : RestoreOrRelease(names, entries) \in Places
  BY DEF Places, RestoreOrRelease

LEMMA RestoreStepType ==
  ASSUME TypeOK, NEW e \in obj.scaled, RestoreUpdate(e) \/ RestoreFails(e)
  PROVE  TypeOK'
  <1>1. obj \in Detectors /\ e \in ScaledEntries
    BY TypeParts, DetectorParts DEF LoopOK
  <1>2. /\ e.name \in Workloads /\ KindOf[e.name] \in Kinds
        /\ e.original \in Settings(KindOf[e.name])
    BY <1>1, ScaledFacts, WorkloadKinds
  <1>3. CASE RestoreUpdate(e)
    <2>1. ClusterOK'
      <3>1. spec[e.name] \in Settings(KindOf[e.name])
        BY <1>2, TypeParts DEF ClusterOK
      <3>2. Restore(KindOf[e.name], spec[e.name], e.original) \in Settings(KindOf[e.name])
        BY <1>2, <3>1, RestoreType
      <3>3. QED
        BY <1>2, <1>3, <3>2, SettingType DEF RestoreUpdate
    <2>2. LoopOK'
      <3>1. obj.scaled \ {e} \in SUBSET ScaledEntries
        BY <1>1, DetectorParts
      <3>2. obj' \in Detectors
        BY <1>1, <1>3, <3>1 DEF RestoreUpdate, Detectors
      <3>3. QED
        BY <1>3, <3>2, RestorePlaces, TypeParts DEF RestoreUpdate, LoopOK
    <2>3. DownOK'
      BY <1>2, <1>3, NotDownType, DownType DEF RestoreUpdate
    <2>4. QED
      BY <1>3, <2>1, <2>2, <2>3, Kept, TypeParts DEF RestoreUpdate
  <1>4. CASE RestoreFails(e)
    <2>1. LoopOK'
      BY <1>4, RestorePlaces, TypeParts DEF RestoreFails, LoopOK
    <2>2. QED
      BY <1>4, <2>1, Kept, TypeParts DEF RestoreFails
  <1>5. QED
    BY <1>3, <1>4

LEMMA FinishType ==
  ASSUME TypeOK, Progress \/ Release
  PROVE  TypeOK'
  <1>1. StatusOK'
    <2>1. detector \in Detectors /\ obj \in Detectors /\ cache \in Detectors
      BY TypeParts DEF StatusOK, LoopOK
    <2>2. obj.idle \in SUBSET IdleEntries /\ obj.scaled \in SUBSET ScaledEntries
      BY <2>1, DetectorParts
    <2>3. [detector EXCEPT !.idle = obj.idle, !.scaled = obj.scaled] \in Detectors
      BY <2>1, <2>2, Fields
    <2>4. QED
      BY <2>1, <2>3, NewParts DEF Progress, Release, StatusOK
  <1>2. QED
    BY <1>1, EndType, Kept, TypeParts DEF Progress, Release

-----------------------------------------------------------------------------
LEMMA WorkloadChangeType ==
  ASSUME TypeOK, NEW w \in Workloads, UserEdit(w) \/ DeleteWorkload(w) \/ FlipLoad(w)
  PROVE  TypeOK'
  <1>1. CASE UserEdit(w)
    <2>1. ClusterOK'
      BY <1>1, WorkloadKinds, SettingType DEF UserEdit
    <2>2. DownOK'
      BY <1>1, NotDownType, DownType DEF UserEdit
    <2>3. QED
      BY <1>1, <2>1, <2>2, Kept, TypeParts DEF UserEdit
  <1>2. CASE DeleteWorkload(w)
    <2>1. ClusterOK'
      BY <1>2, TypeParts DEF DeleteWorkload, ClusterOK
    <2>2. DownOK'
      BY <1>2, NotDownType, DownType DEF DeleteWorkload
    <2>3. QED
      BY <1>2, <2>1, <2>2, Kept, TypeParts DEF DeleteWorkload
  <1>3. CASE FlipLoad(w)
    <2>1. ClusterOK'
      BY <1>3, TypeParts DEF FlipLoad, ClusterOK
    <2>2. QED
      BY <1>3, <2>1, Kept, TypeParts DEF FlipLoad
  <1>4. QED
    BY <1>1, <1>2, <1>3

LEMMA TickType ==
  ASSUME TypeOK, Tick
  PROVE  TypeOK'
  <1>1. /\ detector \in Detectors /\ cache \in Detectors /\ obj \in Detectors
        /\ found \in SUBSET IdleEntries
    BY TypeParts DEF StatusOK, LoopOK
  <1>2. \A d \in Detectors : [d EXCEPT !.idle = OlderEntries(d.idle)] \in Detectors
    <2> SUFFICES ASSUME NEW d \in Detectors
                 PROVE  [d EXCEPT !.idle = OlderEntries(d.idle)] \in Detectors
      OBVIOUS
    <2>1. OlderEntries(d.idle) \in SUBSET IdleEntries
      BY DetectorParts, OlderType
    <2>2. QED
      BY <2>1 DEF Detectors
  <1>3. StatusOK'
    BY <1>1, <1>2 DEF Tick, StatusOK
  <1>4. LoopOK'
    <2>1. obj' \in Detectors
      BY <1>1, <1>2 DEF Tick
    <2>2. found' \subseteq IdleEntries
      BY <1>1, OlderType DEF Tick
    <2>3. elapsed' \in Ages
      BY AgesType, TypeParts DEF Tick, LoopOK
    <2>4. QED
      BY <2>1, <2>2, <2>3, TypeParts DEF Tick, LoopOK
  <1>5. QuietOK'
    BY AgesType, TypeParts DEF Tick, QuietOK
  <1>6. QED
    BY <1>3, <1>4, <1>5, Kept, TypeParts DEF Tick

(* What a user may turn the detector into is a detector.                   *)
LEMMA ChangedType ==
  ASSUME NEW d \in Detectors
  PROVE  /\ [d EXCEPT !.action = IF d.action = "scale" THEN "alert" ELSE "scale"] \in Detectors
         /\ [d EXCEPT !.deleting = TRUE] \in Detectors
  BY DEF Detectors

LEMMA DetectorChangeType ==
  ASSUME TypeOK, Sync \/ ChangeAction \/ Delete
  PROVE  TypeOK'
  <1>1. detector \in Detectors /\ cache \in Detectors
    BY TypeParts DEF StatusOK
  <1>2. CASE Sync
    <2>1. StatusOK'
      BY <1>1, <1>2 DEF Sync, StatusOK
    <2>2. QED
      BY <1>2, <2>1, Kept, TypeParts DEF Sync
  <1>3. ASSUME NEW d \in Detectors, UserChange(d)
        PROVE  TypeOK'
    <2>1. StatusOK'
      BY <1>1, <1>3 DEF UserChange, StatusOK
    <2>2. LoopOK'
      BY <1>3, TypeParts DEF UserChange, LoopOK
    <2>3. QED
      BY <1>3, <2>1, <2>2, Kept, TypeParts DEF UserChange
  <1>4. CASE ChangeAction
    BY <1>1, <1>3, <1>4, ChangedType DEF ChangeAction
  <1>5. CASE Delete
    BY <1>1, <1>3, <1>5, ChangedType, NewParts DEF Delete
  <1>6. QED
    BY <1>2, <1>4, <1>5

-----------------------------------------------------------------------------
LEMMA InitType ==
  ASSUME Init
  PROVE  TypeOK
  <1>1. ClusterOK
    <2>1. \A w \in Workloads : spec[w] \in Settings(KindOf[w]) /\ spec[w] \in AnySetting
      BY WorkloadKinds, SettingsAny DEF Init
    <2>2. QED
      BY <2>1 DEF Init, ClusterOK
  <1>2. StatusOK /\ LoopOK
    BY NewParts, AgesType DEF Init, StatusOK, LoopOK, Places
  <1>3. DownOK /\ QuietOK
    BY NotDownType, AgesType DEF Init, DownOK, QuietOK
  <1>4. QED
    BY <1>1, <1>2, <1>3, TypeParts

LEMMA NextType ==
  ASSUME TypeOK, [Next]_vars
  PROVE  TypeOK'
  <1>1. CASE Start
    BY <1>1, StartType
  <1>2. CASE Step
    BY <1>2, AttachType, PersistType, FailType, FinishType, CheckType, ScaleType,
       RestoreStepType DEF Step, WriteRefused, UpdateRefused
  <1>3. CASE Chance
    BY <1>3, FailType, CheckType, ScaleType DEF Chance, Abort
  <1>4. CASE Environment
    BY <1>4, WorkloadChangeType, TickType, DetectorChangeType DEF Environment
  <1>5. CASE UNCHANGED vars
    BY <1>5, Kept, TypeParts DEF vars, cluster, loop
  <1>6. QED
    BY <1>1, <1>2, <1>3, <1>4, <1>5 DEF Next

(* Every state has its type.                                               *)
THEOREM TypeCorrect == Spec => []TypeOK
  <1>1. TypeOK /\ [Next]_vars => TypeOK'
    BY NextType
  <1>2. QED
    BY <1>1, InitType, PTL DEF Spec

-----------------------------------------------------------------------------
(* What IInv says besides the types.                                       *)
Safe == Recorded /\ FreshCopy /\ Phases /\ Sorted /\ Agreed /\ AgesHold

LEMMA IInvParts ==
  /\ IInv <=> TypeOK /\ Safe
  /\ IInv' <=> TypeOK' /\ Safe'
  BY DEF IInv, Safe

(* A change of the records of the history from one to another.             *)
LEMMA Rerecording ==
  ASSUME TypeOK, NEW from \in Records, NEW to \in Records, from # to,
         down' = Rerecord(from, to), NEW w \in Workloads
  PROVE  /\ down'[w] # NotDown <=> down[w] # NotDown
         /\ down[w] # NotDown => down'[w].was = down[w].was
         /\ ~HasRecord(w, from)'
         /\ HasRecord(w, to)' <=> HasRecord(w, to) \/ HasRecord(w, from)
         /\ \A r \in Records \ {from, to} : HasRecord(w, r)' <=> HasRecord(w, r)
  <1>1. CASE down[w] = NotDown
    <2>1. down'[w] = NotDown
      BY <1>1, RerecordParts
    <2>2. NotDown.record \notin Records
      BY DEF NotDown, Records
    <2>3. QED
      BY <1>1, <2>1, <2>2 DEF HasRecord
  <1>2. CASE down[w] # NotDown
    <2>1. /\ down'[w] # NotDown /\ down'[w].was = down[w].was
          /\ down'[w].record = IF down[w].record = from THEN to ELSE down[w].record
      BY <1>2, RerecordParts
    <2>2. QED
      BY <1>2, <2>1 DEF HasRecord
  <1>3. QED
    BY <1>1, <1>2

LEMMA RecordedIsDown ==
  ASSUME TypeOK, NEW w \in Workloads, NEW r \in Records, HasRecord(w, r)
  PROVE  down[w] # NotDown /\ down[w].was \in RunningSettings(w)
  BY HistoryParts

LEMMA QuietNat ==
  ASSUME TypeOK, NEW w \in Workloads
  PROVE  quiet[w] \in Nat /\ quiet[w] >= 0
  BY TypeParts, ConstantsAssumption DEF QuietOK, Ages

(* Both ends of a workload's history that a step leaves alone.             *)
LEMMA SameHistory ==
  ASSUME UNCHANGED down
  PROVE  \A w \in Workloads :
           /\ down'[w] = down[w]
           /\ \A r \in Records : HasRecord(w, r)' <=> HasRecord(w, r)
  BY DEF HasRecord

(* A loop that has ended owes nothing.                                     *)
LEMMA EndSafe ==
  ASSUME End
  PROVE  /\ FreshCopy' /\ Phases' /\ Sorted'
         /\ pc' = "idle" /\ fresh' = FALSE /\ obj'.scaled = {}
  BY NewParts DEF End, FreshCopy, Phases, Sorted

LEMMA FailSafe ==
  ASSUME IInv, Fail
  PROVE  Safe'
  <1> TypeOK /\ Safe /\ End
    BY IInvParts DEF Fail
  <1>1. ASSUME NEW w \in Workloads
        PROVE  /\ ~HasRecord(w, "pending")'
               /\ HasRecord(w, "kept")' <=> HasRecord(w, "kept")
               /\ down'[w] # NotDown <=> down[w] # NotDown
               /\ down[w] # NotDown => down'[w].was = down[w].was
    BY Rerecording DEF Fail, Records
  <1>2. ASSUME NEW w \in Workloads, HasRecord(w, "kept")
        PROVE  down[w] # NotDown
    BY <1>2, RecordedIsDown DEF Records
  <1>3. Recorded'
    BY <1>1, <1>2 DEF Safe, Recorded, Fail
  <1>4. Agreed'
    <2>1. ASSUME NEW w \in Workloads, down'[w] # NotDown
          PROVE  spec'[w] = Quiesce(KindOf[w], down'[w].was)
      BY <1>1, <2>1 DEF Safe, Agreed, Fail, cluster
    <2>2. ASSUME NEW w \in Workloads, HasRecord(w, "kept")',
                 NEW e \in detector'.scaled \cup cache'.scaled \cup obj'.scaled, e.name = w
          PROVE  e.original = down'[w].was
      BY <1>1, <1>2, <2>2, EndSafe DEF Safe, Agreed, Fail
    <2>3. QED
      BY <1>1, <2>1, <2>2 DEF Agreed
  <1>5. AgesHold'
    BY EndSafe DEF Safe, AgesHold, Fail
  <1>6. QED
    BY <1>3, <1>4, <1>5, EndSafe DEF Safe

LEMMA BeginSafe ==
  ASSUME IInv, NEW at \in {"attach", "check", "report", "restore", "progress", "release"},
         NEW names \in SUBSET Workloads, Begin(at, names),
         at \in {"check", "report"} => cache.finalizer,
         at = "release" => cache.scaled = {}
  PROVE  Safe'
  <1> TypeOK /\ Safe
    BY IInvParts
  <1>1. /\ pc = "idle" /\ pc' = at /\ obj' = cache /\ fresh' = (cache = detector)
        /\ todo' = names /\ cache.exists
        /\ UNCHANGED <<cluster, detector, cache, found, elapsed, down, busy, quiet>>
    BY DEF Begin
  <1>2. found = {} /\ elapsed = 0 /\ busy = {}
    BY <1>1 DEF Safe, Sorted
  <1>3. \A w \in Workloads : ~HasRecord(w, "pending")
    BY <1>1 DEF Safe, Recorded
  <1>4. Recorded'
    BY <1>1, <1>3, SameHistory DEF Safe, Recorded, Records
  <1>5. FreshCopy'
    <2>1. ASSUME fresh'
          PROVE  cache = detector
      BY <1>1, <2>1
    <2>2. QED
      BY <1>1, <2>1, SameHistory DEF Safe, Recorded, FreshCopy, Records
  <1>6. Phases'
    BY <1>1 DEF Phases
  <1>7. Sorted'
    BY <1>1, <1>2 DEF Sorted, Names
  <1>8. Agreed'
    BY <1>1, <1>3, SameHistory DEF Safe, Agreed, Records, cluster
  <1>9. AgesHold'
    <2>1. fresh' => obj'.idle = detector.idle
      BY <1>1
    <2>2. QED
      BY <1>1, <1>2, <2>1, QuietNat DEF Safe, AgesHold
  <1>10. QED
    BY <1>4, <1>5, <1>6, <1>7, <1>8, <1>9 DEF Safe

LEMMA StartSafe ==
  ASSUME IInv, Start
  PROVE  Safe'
  <1> TypeOK
    BY IInvParts
  <1>1. CASE StartDeletion
    <2> DEFINE at == RestoreOrRelease(Names(cache.scaled), cache.scaled)
    <2>1. Names(cache.scaled) \in SUBSET Workloads
      BY NamesType, TypeParts DEF StatusOK
    <2>2. /\ at \in {"restore", "progress", "release"}
          /\ at = "release" => cache.scaled = {}
      BY DEF RestoreOrRelease
    <2>3. Begin(at, Names(cache.scaled))
      BY <1>1 DEF StartDeletion
    <2> HIDE DEF at
    <2>4. QED
      BY <2>1, <2>2, <2>3, BeginSafe
  <1>2. CASE StartAttach
    BY <1>2, BeginSafe DEF StartAttach
  <1>3. CASE StartCheck
    BY <1>3, BeginSafe DEF StartCheck, CheckOrReport
  <1>4. QED
    BY <1>1, <1>2, <1>3 DEF Start

LEMMA AttachSafe ==
  ASSUME IInv, Attach
  PROVE  Safe'
  <1> TypeOK /\ Safe
    BY IInvParts
  <1>1. obj \in Detectors /\ detector \in Detectors
    BY TypeParts DEF StatusOK, LoopOK
  <1>2. /\ pc = "attach" /\ fresh /\ fresh' = fresh
        /\ pc' \in {"check", "report"}
        /\ todo' = Workloads
        /\ UNCHANGED <<cluster, cache, found, elapsed, down, busy, quiet>>
    BY DEF Attach, CheckOrReport
  <1>3. /\ obj'.scaled = obj.scaled /\ obj'.idle = obj.idle /\ obj'.finalizer = TRUE
        /\ detector'.scaled = detector.scaled /\ detector'.idle = detector.idle
        /\ detector'.finalizer = TRUE /\ detector'.exists = detector.exists
    BY <1>1, Fields DEF Attach
  <1>4. found = {} /\ elapsed = 0 /\ busy = {}
    BY <1>2 DEF Safe, Sorted
  <1>5. \A w \in Workloads : ~HasRecord(w, "pending")
    BY <1>2 DEF Safe, Recorded
  <1>6. Recorded'
    BY <1>2, <1>3, <1>5, SameHistory DEF Safe, Recorded, Records
  <1>7. FreshCopy'
    BY <1>2, <1>3, SameHistory DEF Safe, FreshCopy, Records
  <1>8. Phases'
    BY <1>2, <1>3 DEF Phases
  <1>9. Sorted'
    BY <1>2, <1>4 DEF Sorted, Names
  <1>10. Agreed'
    BY <1>2, <1>3, <1>5, SameHistory DEF Safe, Agreed, Records, cluster
  <1>11. AgesHold'
    BY <1>2, <1>3, <1>4, QuietNat DEF Safe, AgesHold
  <1>12. QED
    BY <1>6, <1>7, <1>8, <1>9, <1>10, <1>11 DEF Safe

(* A workload has been looked at.                                          *)
LEMMA CheckedSafe ==
  ASSUME IInv, NEW w \in todo, NEW entries \in SUBSET IdleEntries,
         NEW notIdle \in SUBSET {w}, Checked(w, entries, notIdle), pc = "check",
         Names(entries) \subseteq Names(found) \cup {w},
         w \in Names(entries) => notIdle = {},
         fresh => \A e \in entries : e.age <= quiet[e.name]
  PROVE  Safe'
  <1> TypeOK /\ Safe
    BY IInvParts
  <1>1. obj \in Detectors
    BY TypeParts DEF LoopOK
  <1>2. /\ busy' = busy \cup notIdle
        /\ UNCHANGED <<cluster, detector, cache, fresh, down, quiet>>
        /\ \/ /\ pc' = "check" /\ found' = entries /\ obj' = obj
              /\ todo' = todo \ {w} /\ elapsed' = elapsed
           \/ /\ pc' = ScaleOrReport(todo') /\ found' = {} /\ elapsed' = 0
              /\ obj' = [obj EXCEPT !.idle = entries]
              /\ todo \ {w} = {}
              /\ todo' \subseteq ToScale(entries, obj.scaled)
    BY CheckedCases
  <1>3. /\ obj'.scaled = obj.scaled /\ obj'.finalizer = obj.finalizer
        /\ obj'.idle = obj.idle \/ obj'.idle = entries
        /\ pc' # "check" => obj'.idle = entries
    <2>1. /\ [obj EXCEPT !.idle = entries].scaled = obj.scaled
          /\ [obj EXCEPT !.idle = entries].finalizer = obj.finalizer
          /\ [obj EXCEPT !.idle = entries].idle = entries
      BY <1>1 DEF Detectors
    <2>2. QED
      BY <1>2, <2>1
  <1>4. pc' \in {"check", "scale", "report"}
    BY <1>2 DEF ScaleOrReport
  <1>5. \A v \in Workloads : ~HasRecord(v, "pending")
    BY DEF Safe, Recorded
  <1>6. Recorded'
    BY <1>2, <1>5, SameHistory DEF Safe, Recorded, Records
  <1>7. FreshCopy'
    BY <1>2, <1>3, <1>4, SameHistory DEF Safe, FreshCopy, Records
  <1>8. ASSUME pc' = "scale", NEW v \in todo'
        PROVE  /\ v \notin Names(obj.scaled)
               /\ \E e \in entries : e.name = v /\ e.age >= IdleDuration
    BY <1>2, <1>8, ToScaleParts
  <1>9. Phases'
    BY <1>3, <1>4, <1>8 DEF Safe, Phases
  <1>10. /\ todo \cap busy = {} /\ todo \cap Names(found) = {} /\ busy \cap Names(found) = {}
    BY DEF Safe, Sorted
  <1>11. (busy \cup notIdle) \cap Names(entries) = {}
    BY <1>10
  <1>12. Sorted'
    <2>1. pc' # "check" => found' = {} /\ elapsed' = 0
      BY <1>2
    <2>2. pc' = "check" =>
            /\ todo' \cap busy' = {} /\ todo' \cap Names(found') = {}
            /\ busy' \cap Names(found') = {}
      BY <1>2, <1>10, <1>11 DEF ScaleOrReport
    <2>3. pc' \in {"scale", "report"} => busy' \cap Names(obj'.idle) = {}
      BY <1>2, <1>3, <1>11
    <2>4. pc' = "scale" =>
            \A v \in todo' : \E e \in obj'.idle : e.name = v /\ e.age >= IdleDuration
      BY <1>3, <1>8
    <2>5. QED
      BY <1>4, <2>1, <2>2, <2>3, <2>4 DEF Sorted, Names
  <1>13. Agreed'
    BY <1>2, <1>3, <1>5, SameHistory DEF Safe, Agreed, Records, cluster
  <1>14. AgesHold'
    BY <1>2, <1>3, <1>4, QuietNat DEF Safe, AgesHold
  <1>15. QED
    BY <1>6, <1>7, <1>9, <1>12, <1>13, <1>14 DEF Safe

LEMMA CheckSafe ==
  ASSUME IInv, NEW w \in todo, CheckIdle(w) \/ CheckBusy(w) \/ CheckMiss(w)
  PROVE  Safe'
  <1> TypeOK /\ Safe /\ pc = "check" /\ w \in Workloads
    BY IInvParts, CheckIdleChecked, CheckBusyChecked
  <1>1. fresh => \A e \in found : e.age <= quiet[e.name]
    BY DEF Safe, AgesHold
  <1>2. CASE CheckIdle(w)
    <2> DEFINE new == Idle(w, Since(w))
    <2>1. new.name = w /\ new.age = Since(w)
      BY SinceType, IdleType
    <2>2. fresh => new.age <= quiet[w]
      BY <2>1, SinceType DEF Safe, AgesHold
    <2>3. found \cup {new} \in SUBSET IdleEntries /\ Checked(w, found \cup {new}, {})
      BY <1>2, CheckIdleChecked
    <2>4. Names(found \cup {new}) \subseteq Names(found) \cup {w}
      BY <2>1 DEF Names
    <2>5. fresh => \A e \in found \cup {new} : e.age <= quiet[e.name]
      BY <1>1, <2>1, <2>2
    <2>6. {} \in SUBSET {w}
      OBVIOUS
    <2> HIDE DEF new
    <2>7. QED
      BY <2>3, <2>4, <2>5, <2>6, CheckedSafe
  <1>3. CASE CheckBusy(w) \/ CheckMiss(w)
    <2>1. found \in SUBSET IdleEntries /\ Checked(w, found, {w})
      BY <1>3, CheckBusyChecked
    <2>2. w \notin Names(found)
      BY DEF Safe, Sorted
    <2>3. QED
      BY <1>1, <2>1, <2>2, CheckedSafe
  <1>4. QED
    BY <1>2, <1>3

-----------------------------------------------------------------------------
(* A workload is stopped and its history starts anew, with a record that   *)
(* is not kept.                                                            *)
LEMMA StoppedHistory ==
  ASSUME IInv, NEW w \in Workloads, NEW r \in {"pending", "lost"},
         spec[w] \in RunningSettings(w),
         spec' = [spec EXCEPT ![w] = Quiesce(KindOf[w], spec[w])],
         down' = [down EXCEPT ![w] = DownFrom(spec[w], r)]
  PROVE  /\ down'[w].was = spec[w] /\ spec'[w] = Quiesce(KindOf[w], down'[w].was)
         /\ \A a \in Records : HasRecord(w, a)' <=> a = r
         /\ \A v \in Workloads \ {w} :
              /\ down'[v] = down[v] /\ spec'[v] = spec[v]
              /\ \A a \in Records : HasRecord(v, a)' <=> HasRecord(v, a)
  <1>1. DOMAIN spec = Workloads /\ DOMAIN down = Workloads
    BY IInvParts, TypeParts DEF ClusterOK, DownOK
  <1>2. /\ DownFrom(spec[w], r).was = spec[w]
        /\ DownFrom(spec[w], r).record = r
    BY DownFromParts DEF Records
  <1>3. down'[w] = DownFrom(spec[w], r) /\ spec'[w] = Quiesce(KindOf[w], spec[w])
    BY <1>1
  <1>4. ASSUME NEW v \in Workloads \ {w}
        PROVE  down'[v] = down[v] /\ spec'[v] = spec[v]
    BY <1>1
  <1>5. QED
    BY <1>2, <1>3, <1>4 DEF HasRecord

(* The parts of the invariant about the list of what was found idle, over  *)
(* a visit of the scale phase.                                             *)
LEMMA VisitSafe ==
  ASSUME IInv, NEW w \in todo, Visit(w), obj'.idle = obj.idle,
         pc' \in {"scale", "persist", "report"}
  PROVE  Sorted' /\ AgesHold'
  <1> TypeOK /\ Safe
    BY IInvParts
  <1>1. /\ pc = "scale" /\ todo' = todo \ {w}
        /\ UNCHANGED <<detector, fresh, found, elapsed, busy, quiet>>
    BY DEF Visit
  <1>2. Sorted'
    BY <1>1 DEF Safe, Sorted, Names
  <1>3. AgesHold'
    BY <1>1 DEF Safe, AgesHold
  <1>4. QED
    BY <1>2, <1>3

LEMMA ScaleDownSafe ==
  ASSUME IInv, NEW w \in todo, ScaleDown(w)
  PROVE  Safe'
  <1> TypeOK /\ Safe
    BY IInvParts
  <1>1. obj \in Detectors /\ w \in Workloads /\ spec[w] \in RunningSettings(w)
    BY TypeParts, RunningIsSetting DEF LoopOK, ScaleDown
  <1>2. /\ pc = "scale" /\ pc' = "persist" /\ todo' = todo \ {w}
        /\ UNCHANGED <<detector, cache, fresh>>
        /\ Visit(w)
    BY DEF ScaleDown, Visit
  <1>3. /\ obj'.scaled = obj.scaled \cup {Scaled(w, spec[w])}
        /\ obj'.idle = obj.idle /\ obj'.finalizer = obj.finalizer
    BY <1>1 DEF ScaleDown, Detectors
  <1>4. /\ down'[w].was = spec[w] /\ spec'[w] = Quiesce(KindOf[w], down'[w].was)
        /\ HasRecord(w, "pending")' /\ ~HasRecord(w, "kept")'
        /\ \A v \in Workloads \ {w} :
             /\ down'[v] = down[v] /\ spec'[v] = spec[v]
             /\ HasRecord(v, "pending")' <=> HasRecord(v, "pending")
             /\ HasRecord(v, "kept")' <=> HasRecord(v, "kept")
    BY <1>1, StoppedHistory DEF ScaleDown, Records
  <1>5. \A v \in Workloads : ~HasRecord(v, "pending")
    BY <1>2 DEF Safe, Recorded
  <1>6. Scaled(w, spec[w]).name = w /\ Scaled(w, spec[w]).original = spec[w]
    BY ScaledParts
  <1>7. Recorded'
    BY <1>2, <1>3, <1>4, <1>5 DEF Safe, Recorded
  <1>8. FreshCopy'
    BY <1>2, <1>3, <1>4 DEF Safe, FreshCopy
  <1>9. Phases'
    BY <1>2, <1>3, <1>6 DEF Safe, Phases, Names
  <1>10. Agreed'
    <2>1. ASSUME NEW v \in Workloads, down'[v] # NotDown
          PROVE  spec'[v] = Quiesce(KindOf[v], down'[v].was)
      BY <1>4, <2>1 DEF Safe, Agreed
    <2>2. ASSUME fresh', NEW e \in detector'.scaled \cup cache'.scaled \cup obj'.scaled,
                 e.name = w
          PROVE  e.original = down'[w].was
      <3>1. e \in obj.scaled \cup {Scaled(w, spec[w])}
        BY <1>2, <1>3, <2>2 DEF Safe, FreshCopy
      <3>2. w \notin Names(obj.scaled)
        BY <1>2 DEF Safe, Phases
      <3>3. QED
        BY <1>4, <1>6, <2>2, <3>1, <3>2 DEF Names
    <2>3. ASSUME NEW v \in Workloads \ {w}, HasRecord(v, "kept"),
                 NEW e \in detector'.scaled \cup cache'.scaled \cup obj'.scaled, e.name = v
          PROVE  e.original = down'[v].was
      BY <1>2, <1>3, <1>4, <1>6, <2>3 DEF Safe, Agreed
    <2>4. QED
      BY <1>4, <1>5, <2>1, <2>2, <2>3 DEF Agreed
  <1>11. QED
    BY <1>2, <1>3, <1>7, <1>8, <1>9, <1>10, VisitSafe DEF Safe

(* The loop passes over a workload: it is stopped already, or out of       *)
(* reach.                                                                  *)
LEMMA PassOverSafe ==
  ASSUME IInv, NEW w \in todo, ScaleNothing(w) \/ ScaleFails(w)
  PROVE  Safe'
  <1> TypeOK /\ Safe
    BY IInvParts
  <1>1. /\ pc = "scale" /\ todo' = todo \ {w} /\ Visit(w)
        /\ UNCHANGED <<spec, detector, cache, fresh, obj, down>>
    BY DEF ScaleNothing, ScaleFails, Visit
  <1>2. pc' \in {"scale", "persist", "report"}
    BY DEF ScaleNothing, ScaleFails, ScaleOrReport
  <1>3. \A v \in Workloads : ~HasRecord(v, "pending")
    BY <1>1 DEF Safe, Recorded
  <1>4. Recorded'
    BY <1>1, <1>2, <1>3, SameHistory DEF Safe, Recorded, Records
  <1>5. FreshCopy'
    BY <1>1, <1>2, SameHistory DEF Safe, FreshCopy, Records
  <1>6. Phases'
    BY <1>1, <1>2 DEF Safe, Phases
  <1>7. Agreed'
    BY <1>1, <1>3, SameHistory DEF Safe, Agreed, Records
  <1>8. QED
    BY <1>1, <1>2, <1>4, <1>5, <1>6, <1>7, VisitSafe DEF Safe

LEMMA UnansweredSafe ==
  ASSUME IInv, NEW w \in todo, ScaleUnanswered(w)
  PROVE  Safe'
  <1> TypeOK /\ Safe
    BY IInvParts
  <1>1. w \in Workloads /\ spec[w] \in RunningSettings(w)
    BY TypeParts, RunningIsSetting DEF LoopOK, ScaleUnanswered
  <1>2. /\ pc = "scale" /\ todo' = todo \ {w} /\ Visit(w)
        /\ UNCHANGED <<detector, cache, fresh, obj>>
    BY DEF ScaleUnanswered, Visit
  <1>3. pc' \in {"scale", "report"}
    BY DEF ScaleUnanswered, ScaleOrReport
  <1>4. /\ spec'[w] = Quiesce(KindOf[w], down'[w].was)
        /\ ~HasRecord(w, "pending")' /\ ~HasRecord(w, "kept")'
        /\ \A v \in Workloads \ {w} :
             /\ down'[v] = down[v] /\ spec'[v] = spec[v]
             /\ HasRecord(v, "pending")' <=> HasRecord(v, "pending")
             /\ HasRecord(v, "kept")' <=> HasRecord(v, "kept")
    BY <1>1, StoppedHistory DEF ScaleUnanswered, Records
  <1>5. \A v \in Workloads : ~HasRecord(v, "pending")
    BY <1>2 DEF Safe, Recorded
  <1>6. Recorded'
    BY <1>2, <1>4, <1>5 DEF Safe, Recorded
  <1>7. FreshCopy'
    BY <1>2, <1>3, <1>4 DEF Safe, FreshCopy
  <1>8. Phases'
    BY <1>2, <1>3 DEF Safe, Phases
  <1>9. Agreed'
    BY <1>2, <1>4, <1>5 DEF Safe, Agreed
  <1>10. QED
    BY <1>2, <1>3, <1>6, <1>7, <1>8, <1>9, VisitSafe DEF Safe

-----------------------------------------------------------------------------
(* The status write: what was pending is kept, with the setting it had.    *)
LEMMA WriteSafe ==
  ASSUME IInv, Write, pc \in {"persist", "retry", "report"}, UNCHANGED <<cluster, cache>>
  PROVE  /\ fresh
         /\ detector'.scaled = obj.scaled /\ detector'.idle = obj.idle
         /\ detector'.exists /\ detector'.finalizer /\ obj.finalizer
         /\ \A w \in Workloads :
              /\ ~HasRecord(w, "pending")'
              /\ HasRecord(w, "kept")' => Scaled(w, down'[w].was) \in obj.scaled
              /\ down'[w] # NotDown => spec'[w] = Quiesce(KindOf[w], down'[w].was)
              /\ HasRecord(w, "kept")' =>
                   \A e \in cache.scaled \cup obj.scaled :
                     e.name = w => e.original = down'[w].was
         /\ \A e \in obj.idle : e.age <= quiet'[e.name]
  <1> TypeOK /\ Safe /\ fresh
    BY IInvParts DEF Write
  <1>1. obj \in Detectors /\ detector \in Detectors
    BY TypeParts DEF StatusOK, LoopOK
  <1>2. /\ detector'.scaled = obj.scaled /\ detector'.idle = obj.idle
        /\ detector'.exists = detector.exists /\ detector'.finalizer = detector.finalizer
    BY <1>1 DEF Write, Detectors
  <1>3. detector.exists /\ obj.finalizer /\ detector.finalizer
    BY DEF Safe, FreshCopy, Phases
  <1>4. ASSUME NEW w \in Workloads
        PROVE  /\ ~HasRecord(w, "pending")'
               /\ HasRecord(w, "kept")' <=> HasRecord(w, "kept") \/ HasRecord(w, "pending")
               /\ down'[w] # NotDown <=> down[w] # NotDown
               /\ down[w] # NotDown => down'[w].was = down[w].was
    BY Rerecording DEF Write, Records
  <1>5. ASSUME NEW w \in Workloads, HasRecord(w, "kept") \/ HasRecord(w, "pending")
        PROVE  down'[w].was = down[w].was
    BY <1>4, <1>5, RecordedIsDown DEF Records
  <1>6. ASSUME NEW w \in Workloads, HasRecord(w, "kept")'
        PROVE  /\ Scaled(w, down'[w].was) \in obj.scaled
               /\ \A e \in cache.scaled \cup obj.scaled :
                    e.name = w => e.original = down'[w].was
    BY <1>4, <1>5, <1>6 DEF Safe, FreshCopy, Recorded, Agreed
  <1>7. ASSUME NEW w \in Workloads, down'[w] # NotDown
        PROVE  spec'[w] = Quiesce(KindOf[w], down'[w].was)
    BY <1>4, <1>7 DEF Safe, Agreed, cluster
  <1>8. ASSUME NEW e \in obj.idle
        PROVE  e.age <= quiet'[e.name]
    <2>1. e \in IdleEntries
      BY <1>1, DetectorParts
    <2>2. e.name \in Workloads /\ e.name \notin busy
      BY <2>1 DEF Safe, Sorted, Names, IdleEntries
    <2>3. quiet'[e.name] = quiet[e.name]
      BY <2>2 DEF Write
    <2>4. QED
      BY <2>3 DEF Safe, AgesHold
  <1>9. QED
    BY <1>2, <1>3, <1>4, <1>6, <1>7, <1>8

LEMMA PersistSafe ==
  ASSUME IInv, Persist
  PROVE  Safe'
  <1> TypeOK /\ Safe
    BY IInvParts
  <1>1. /\ pc = "persist" /\ pc' \in {"scale", "report"}
        /\ UNCHANGED <<cluster, cache, obj, fresh, todo, found, elapsed, busy>>
    BY DEF Persist, ScaleOrReport
  <1>2. /\ fresh
        /\ detector'.scaled = obj.scaled /\ detector'.idle = obj.idle
        /\ detector'.exists /\ detector'.finalizer /\ obj.finalizer
        /\ \A w \in Workloads :
             /\ ~HasRecord(w, "pending")'
             /\ HasRecord(w, "kept")' => Scaled(w, down'[w].was) \in obj.scaled
             /\ down'[w] # NotDown => spec'[w] = Quiesce(KindOf[w], down'[w].was)
             /\ HasRecord(w, "kept")' =>
                  \A e \in cache.scaled \cup obj.scaled :
                    e.name = w => e.original = down'[w].was
        /\ \A e \in obj.idle : e.age <= quiet'[e.name]
    BY <1>1, WriteSafe DEF Persist
  <1>3. Recorded'
    BY <1>2 DEF Recorded
  <1>4. FreshCopy'
    BY <1>1, <1>2 DEF Safe, FreshCopy
  <1>5. Phases'
    BY <1>1, <1>2 DEF Safe, Phases
  <1>6. found = {} /\ elapsed = 0
    BY <1>1 DEF Safe, Sorted
  <1>7. Sorted'
    BY <1>1 DEF Safe, Sorted, Names
  <1>8. Agreed'
    BY <1>1, <1>2 DEF Agreed
  <1>9. AgesHold'
    BY <1>1, <1>2, <1>6 DEF AgesHold
  <1>10. QED
    BY <1>3, <1>4, <1>5, <1>7, <1>8, <1>9 DEF Safe

LEMMA ReportSafe ==
  ASSUME IInv, Report
  PROVE  Safe'
  <1>1. End /\ UNCHANGED <<cluster, cache>>
    BY DEF Report
  <1>2. /\ detector'.scaled = obj.scaled /\ detector'.idle = obj.idle
        /\ detector'.exists /\ detector'.finalizer
        /\ \A w \in Workloads :
             /\ ~HasRecord(w, "pending")'
             /\ HasRecord(w, "kept")' => Scaled(w, down'[w].was) \in obj.scaled
             /\ down'[w] # NotDown => spec'[w] = Quiesce(KindOf[w], down'[w].was)
             /\ HasRecord(w, "kept")' =>
                  \A e \in cache.scaled \cup obj.scaled :
                    e.name = w => e.original = down'[w].was
        /\ \A e \in obj.idle : e.age <= quiet'[e.name]
    BY WriteSafe DEF Report
  <1>3. Recorded'
    BY <1>2 DEF Recorded
  <1>4. Agreed'
    BY <1>1, <1>2, EndSafe DEF Agreed
  <1>5. AgesHold'
    BY <1>1, <1>2, EndSafe DEF AgesHold
  <1>6. QED
    BY <1>1, <1>3, <1>4, <1>5, EndSafe DEF Safe

LEMMA PersistFailsSafe ==
  ASSUME IInv, PersistFails
  PROVE  Safe'
  <1> TypeOK /\ Safe
    BY IInvParts
  <1>1. /\ pc = "persist" /\ pc' = "retry"
        /\ UNCHANGED <<cluster, detector, cache, obj, fresh, todo, found, elapsed, down,
                       busy, quiet>>
    BY DEF PersistFails
  <1>2. Recorded'
    BY <1>1, SameHistory DEF Safe, Recorded, Records
  <1>3. FreshCopy'
    BY <1>1, SameHistory DEF Safe, FreshCopy, Records
  <1>4. Phases' /\ Sorted'
    BY <1>1 DEF Safe, Phases, Sorted
  <1>5. Agreed'
    BY <1>1, SameHistory DEF Safe, Agreed, Records, cluster
  <1>6. AgesHold'
    BY <1>1 DEF Safe, AgesHold
  <1>7. QED
    BY <1>2, <1>3, <1>4, <1>5, <1>6 DEF Safe

-----------------------------------------------------------------------------
(* A restored workload: its history ends, and the others are as they were. *)
LEMMA RestoreUpdateSafe ==
  ASSUME IInv, NEW e \in obj.scaled, RestoreUpdate(e)
  PROVE  Safe'
  <1> TypeOK /\ Safe
    BY IInvParts
  <1>1. /\ obj \in Detectors /\ e.name \in Workloads
        /\ DOMAIN spec = Workloads /\ DOMAIN down = Workloads
    BY TypeParts, DetectorParts, ScaledFacts DEF LoopOK, ClusterOK, DownOK
  <1>2. /\ pc = "restore" /\ todo' = todo \ {e.name}
        /\ UNCHANGED <<detector, cache, fresh, found, elapsed, busy, quiet>>
    BY DEF RestoreUpdate
  <1>3. /\ obj'.scaled = obj.scaled \ {e}
        /\ obj'.idle = obj.idle /\ obj'.finalizer = obj.finalizer
    BY <1>1 DEF RestoreUpdate, Detectors
  <1>4. /\ pc' \in {"restore", "progress", "release"}
        /\ pc' = "release" => obj'.scaled = {}
    BY DEF RestoreUpdate, RestoreOrRelease
  <1>5. /\ down'[e.name] = NotDown
        /\ ~HasRecord(e.name, "kept")' /\ ~HasRecord(e.name, "pending")'
        /\ \A w \in Workloads \ {e.name} :
             /\ down'[w] = down[w] /\ spec'[w] = spec[w]
             /\ HasRecord(w, "kept")' <=> HasRecord(w, "kept")
             /\ HasRecord(w, "pending")' <=> HasRecord(w, "pending")
    BY <1>1 DEF RestoreUpdate, HasRecord, NotDown
  <1>6. \A w \in Workloads : ~HasRecord(w, "pending")
    BY <1>2 DEF Safe, Recorded
  <1>7. Recorded'
    BY <1>2, <1>5, <1>6 DEF Safe, Recorded
  <1>8. FreshCopy'
    <2>1. ASSUME NEW w \in Workloads, HasRecord(w, "kept")', fresh
          PROVE  Scaled(w, down'[w].was) \in obj'.scaled
      <3>1. w # e.name /\ HasRecord(w, "kept") /\ down'[w] = down[w]
        BY <1>5, <2>1
      <3>2. Scaled(w, down[w].was) \in obj.scaled
        BY <1>2, <2>1, <3>1 DEF Safe, FreshCopy
      <3>3. Scaled(w, down[w].was) # e
        BY <3>1, ScaledParts
      <3>4. QED
        BY <1>3, <3>1, <3>2, <3>3
    <2>2. QED
      BY <1>2, <1>3, <1>4, <2>1 DEF Safe, FreshCopy
  <1>9. Phases'
    BY <1>4 DEF Phases
  <1>10. Sorted'
    BY <1>2, <1>4 DEF Safe, Sorted
  <1>11. Agreed'
    BY <1>2, <1>3, <1>5, <1>6 DEF Safe, Agreed
  <1>12. AgesHold'
    BY <1>2, <1>3, <1>4 DEF Safe, AgesHold
  <1>13. QED
    BY <1>7, <1>8, <1>9, <1>10, <1>11, <1>12 DEF Safe

LEMMA RestoreFailsSafe ==
  ASSUME IInv, NEW e \in obj.scaled, RestoreFails(e)
  PROVE  Safe'
  <1> TypeOK /\ Safe
    BY IInvParts
  <1>1. /\ pc = "restore"
        /\ pc' \in {"restore", "progress", "release"}
        /\ pc' = "release" => obj.scaled = {}
        /\ UNCHANGED <<cluster, detector, cache, obj, fresh, found, elapsed, down, busy, quiet>>
    BY DEF RestoreFails, RestoreOrRelease
  <1>2. Recorded'
    BY <1>1, SameHistory DEF Safe, Recorded, Records
  <1>3. FreshCopy'
    BY <1>1, SameHistory DEF Safe, FreshCopy, Records
  <1>4. Phases' /\ Sorted'
    BY <1>1 DEF Safe, Phases, Sorted
  <1>5. Agreed'
    BY <1>1, SameHistory DEF Safe, Agreed, Records, cluster
  <1>6. AgesHold'
    BY <1>1 DEF Safe, AgesHold
  <1>7. QED
    BY <1>2, <1>3, <1>4, <1>5, <1>6 DEF Safe

(* The status write after a restore, and the end of the detector: a        *)
(* current copy knows all that is kept.                                    *)
LEMMA FinishSafe ==
  ASSUME IInv, Progress \/ Release
  PROVE  Safe'
  <1> TypeOK /\ Safe
    BY IInvParts
  <1>1. obj \in Detectors /\ detector \in Detectors
    BY TypeParts DEF StatusOK, LoopOK
  <1>2. /\ pc \in {"progress", "release"} /\ fresh /\ End
        /\ UNCHANGED <<cluster, cache, down, quiet>>
    BY DEF Progress, Release
  <1>3. \A w \in Workloads :
          /\ HasRecord(w, "kept") => Scaled(w, down[w].was) \in obj.scaled
          /\ ~HasRecord(w, "pending")
    BY <1>2 DEF Safe, FreshCopy, Recorded
  <1>4. CASE Progress
    <2>1. /\ detector'.scaled = obj.scaled /\ detector'.idle = obj.idle
          /\ detector'.exists = detector.exists /\ detector'.finalizer = detector.finalizer
      BY <1>1, <1>4 DEF Progress, Detectors
    <2>2. Recorded'
      BY <1>2, <1>3, <2>1, SameHistory DEF Safe, Recorded, Records
    <2>3. Agreed'
      BY <1>2, <1>3, <2>1, SameHistory, EndSafe DEF Safe, Agreed, Records, cluster
    <2>4. AgesHold'
      BY <1>2, <2>1, EndSafe DEF Safe, AgesHold
    <2>5. QED
      BY <1>2, <2>2, <2>3, <2>4, EndSafe DEF Safe
  <1>5. CASE Release
    <2>1. \A w \in Workloads : ~HasRecord(w, "kept")
      BY <1>3, <1>5 DEF Release, Safe, Phases
    <2>2. detector'.scaled = {} /\ detector'.idle = {}
      BY <1>5, NewParts DEF Release
    <2>3. Recorded'
      BY <1>2, <1>3, <2>1, SameHistory DEF Recorded, Records
    <2>4. Agreed'
      BY <1>2, <1>3, <2>1, SameHistory DEF Safe, Agreed, Records, cluster
    <2>5. AgesHold'
      BY <1>2, <2>2, EndSafe DEF AgesHold
    <2>6. QED
      BY <1>2, <2>3, <2>4, <2>5, EndSafe DEF Safe
  <1>6. QED
    BY <1>4, <1>5

-----------------------------------------------------------------------------
(* The environment.  A workload a user has changed is down no more.        *)
LEMMA WorkloadChangeSafe ==
  ASSUME IInv, NEW w \in Workloads, UserEdit(w) \/ DeleteWorkload(w) \/ FlipLoad(w)
  PROVE  Safe'
  <1> TypeOK /\ Safe
    BY IInvParts
  <1>1. DOMAIN spec = Workloads /\ DOMAIN down = Workloads
    BY TypeParts DEF ClusterOK, DownOK
  <1>2. UNCHANGED <<detector, cache, quiet>> /\ UNCHANGED loop
    BY DEF UserEdit, DeleteWorkload, FlipLoad
  <1>3. UNCHANGED <<detector, cache, quiet, pc, obj, fresh, todo, found, elapsed, busy>>
    BY <1>2 DEF loop
  <1>4. ASSUME NEW v \in Workloads
        PROVE  \/ /\ down'[v] = NotDown
                  /\ ~HasRecord(v, "kept")' /\ ~HasRecord(v, "pending")'
               \/ /\ down'[v] = down[v] /\ spec'[v] = spec[v]
                  /\ HasRecord(v, "kept")' <=> HasRecord(v, "kept")
                  /\ HasRecord(v, "pending")' <=> HasRecord(v, "pending")
    <2>1. CASE UserEdit(w)
      BY <1>1, <2>1 DEF UserEdit, HasRecord, NotDown
    <2>2. CASE DeleteWorkload(w)
      BY <1>1, <2>2 DEF DeleteWorkload, HasRecord, NotDown
    <2>3. CASE FlipLoad(w)
      BY <2>3 DEF FlipLoad, HasRecord
    <2>4. QED
      BY <2>1, <2>2, <2>3
  <1>5. Recorded'
    BY <1>3, <1>4 DEF Safe, Recorded
  <1>6. FreshCopy'
    BY <1>3, <1>4 DEF Safe, FreshCopy
  <1>7. Phases' /\ Sorted'
    BY <1>3 DEF Safe, Phases, Sorted
  <1>8. Agreed'
    BY <1>3, <1>4 DEF Safe, Agreed
  <1>9. AgesHold'
    BY <1>3 DEF Safe, AgesHold
  <1>10. QED
    BY <1>5, <1>6, <1>7, <1>8, <1>9 DEF Safe

(* A tick makes every entry older, and what bounds its age.                *)
LEMMA OlderHolds ==
  ASSUME TypeOK, NEW entries \in SUBSET IdleEntries,
         \A e \in entries : e.age <= quiet[e.name],
         quiet' = [w \in Workloads |-> Older(quiet[w])]
  PROVE  \A e \in OlderEntries(entries) : e.age <= quiet'[e.name]
  <1> SUFFICES ASSUME NEW e \in OlderEntries(entries)
               PROVE  e.age <= quiet'[e.name]
    OBVIOUS
  <1>1. PICK f \in entries : e.name = f.name /\ e.age = Older(f.age)
    BY OlderType
  <1>2. f.name \in Workloads /\ f.age \in Ages
    BY DEF IdleEntries
  <1>3. quiet[f.name] \in Ages
    BY <1>2, TypeParts DEF QuietOK
  <1>4. Older(f.age) <= Older(quiet[f.name])
    BY <1>2, <1>3, AgesType
  <1>5. QED
    BY <1>1, <1>2, <1>4

LEMMA OlderNames ==
  ASSUME NEW entries \in SUBSET IdleEntries
  PROVE  /\ Names(OlderEntries(entries)) = Names(entries)
         /\ \A w : (\E e \in entries : e.name = w /\ e.age >= IdleDuration) =>
              \E e \in OlderEntries(entries) : e.name = w /\ e.age >= IdleDuration
  <1>1. ASSUME NEW f \in entries
        PROVE  /\ [f EXCEPT !.age = Older(f.age)] \in OlderEntries(entries)
               /\ [f EXCEPT !.age = Older(f.age)].name = f.name
               /\ f.age >= IdleDuration => [f EXCEPT !.age = Older(f.age)].age >= IdleDuration
    BY ConstantsAssumption DEF OlderEntries, IdleEntries, Older, Ages
  <1>2. \A e \in OlderEntries(entries) : \E f \in entries : e.name = f.name
    BY OlderType
  <1>3. Names(OlderEntries(entries)) = Names(entries)
    <2>1. ASSUME NEW n \in Names(OlderEntries(entries))
          PROVE  n \in Names(entries)
      BY <1>2 DEF Names
    <2>2. ASSUME NEW n \in Names(entries)
          PROVE  n \in Names(OlderEntries(entries))
      <3>1. PICK f \in entries : n = f.name
        BY DEF Names
      <3>2. PICK e \in OlderEntries(entries) : e.name = f.name
        BY <1>1
      <3>3. QED
        BY <3>1, <3>2 DEF Names
    <2>3. QED
      BY <2>1, <2>2
  <1>4. QED
    BY <1>1, <1>3

LEMMA TickSafe ==
  ASSUME IInv, Tick
  PROVE  Safe'
  <1> TypeOK /\ Safe
    BY IInvParts
  <1>1. /\ detector \in Detectors /\ cache \in Detectors /\ obj \in Detectors
        /\ found \in SUBSET IdleEntries /\ elapsed \in Ages
    BY TypeParts DEF StatusOK, LoopOK
  <1>2. \A d \in Detectors :
          /\ d.idle \in SUBSET IdleEntries
          /\ [d EXCEPT !.idle = OlderEntries(d.idle)].idle = OlderEntries(d.idle)
          /\ [d EXCEPT !.idle = OlderEntries(d.idle)].scaled = d.scaled
          /\ [d EXCEPT !.idle = OlderEntries(d.idle)].finalizer = d.finalizer
          /\ [d EXCEPT !.idle = OlderEntries(d.idle)].exists = d.exists
    BY DEF Detectors
  <1>3. /\ detector'.idle = OlderEntries(detector.idle) /\ detector'.scaled = detector.scaled
        /\ detector'.finalizer = detector.finalizer /\ detector'.exists = detector.exists
    BY <1>1, <1>2 DEF Tick
  <1>4. cache'.scaled = cache.scaled
    BY <1>1, <1>2 DEF Tick
  <1>5. /\ obj'.idle = OlderEntries(obj.idle) /\ obj'.scaled = obj.scaled
        /\ obj'.finalizer = obj.finalizer
    BY <1>1, <1>2 DEF Tick
  <1>6. /\ UNCHANGED <<cluster, pc, fresh, todo, down, busy>>
        /\ found' = OlderEntries(found)
        /\ elapsed' = IF pc = "check" THEN Older(elapsed) ELSE elapsed
        /\ quiet' = [w \in Workloads |-> Older(quiet[w])]
    BY DEF Tick
  <1>7. Recorded'
    BY <1>3, <1>5, <1>6, SameHistory DEF Safe, Recorded, Records
  <1>8. FreshCopy'
    BY <1>3, <1>4, <1>5, <1>6, SameHistory DEF Safe, FreshCopy, Records
  <1>9. Phases'
    BY <1>5, <1>6 DEF Safe, Phases
  <1>10. Sorted'
    <2>1. Names(found') = Names(found) /\ Names(obj'.idle) = Names(obj.idle)
      BY <1>1, <1>2, <1>5, <1>6, OlderNames
    <2>2. found = {} => found' = {}
      BY <1>6 DEF OlderEntries
    <2>3. \A w : (\E e \in obj.idle : e.name = w /\ e.age >= IdleDuration) =>
            \E e \in obj'.idle : e.name = w /\ e.age >= IdleDuration
      BY <1>1, <1>2, <1>5, OlderNames
    <2>4. QED
      BY <1>6, <2>1, <2>2, <2>3 DEF Safe, Sorted
  <1>11. Agreed'
    BY <1>3, <1>4, <1>5, <1>6, SameHistory DEF Safe, Agreed, Records, cluster
  <1>12. AgesHold'
    <2>1. \A e \in detector'.idle : e.age <= quiet'[e.name]
      BY <1>1, <1>2, <1>3, <1>6, OlderHolds DEF Safe, AgesHold
    <2>2. ASSUME pc # "idle" /\ fresh
          PROVE  \A e \in obj'.idle \cup found' : e.age <= quiet'[e.name]
      <3>1. \A e \in OlderEntries(obj.idle) : e.age <= quiet'[e.name]
        BY <1>1, <1>2, <1>6, <2>2, OlderHolds DEF Safe, AgesHold
      <3>2. \A e \in OlderEntries(found) : e.age <= quiet'[e.name]
        BY <1>1, <1>6, <2>2, OlderHolds DEF Safe, AgesHold
      <3>3. QED
        BY <1>5, <1>6, <3>1, <3>2
    <2>3. ASSUME pc = "check", NEW w \in Workloads
          PROVE  elapsed' <= quiet'[w]
      <3>1. quiet[w] \in Ages /\ elapsed <= quiet[w]
        BY <2>3, TypeParts DEF QuietOK, Safe, AgesHold
      <3>2. QED
        BY <1>1, <1>6, <2>3, <3>1, AgesType
    <2>4. QED
      BY <1>6, <2>1, <2>2, <2>3 DEF AgesHold
  <1>13. QED
    BY <1>7, <1>8, <1>9, <1>10, <1>11, <1>12 DEF Safe

(* A user's change of the detector, after which no loop is current: the    *)
(* detector goes only without the finalizer, when it owes nothing.         *)
LEMMA UserChangeSafe ==
  ASSUME IInv, NEW d, UserChange(d),
         d.scaled \subseteq detector.scaled, d.idle \subseteq detector.idle,
         \/ d.exists = detector.exists /\ d.finalizer = detector.finalizer
              /\ d.scaled = detector.scaled
         \/ ~detector.finalizer
  PROVE  Safe'
  <1> TypeOK /\ Safe
    BY IInvParts
  <1>1. /\ detector' = d /\ fresh' = FALSE
        /\ UNCHANGED <<cluster, cache, pc, obj, todo, found, elapsed, down, busy, quiet>>
    BY DEF UserChange
  <1>2. Recorded'
    BY <1>1, SameHistory DEF Safe, Recorded, Records
  <1>3. FreshCopy' /\ Phases' /\ Sorted'
    BY <1>1 DEF Safe, FreshCopy, Phases, Sorted
  <1>4. Agreed'
    BY <1>1, SameHistory DEF Safe, Agreed, Records, cluster
  <1>5. AgesHold'
    BY <1>1 DEF Safe, AgesHold
  <1>6. QED
    BY <1>2, <1>3, <1>4, <1>5 DEF Safe

LEMMA DetectorChangeSafe ==
  ASSUME IInv, Sync \/ ChangeAction \/ Delete
  PROVE  Safe'
  <1> TypeOK /\ Safe
    BY IInvParts
  <1>1. detector \in Detectors
    BY TypeParts DEF StatusOK
  <1>2. CASE Sync
    <2>1. /\ cache' = detector
          /\ UNCHANGED <<cluster, detector, down, quiet, pc, obj, fresh, todo, found,
                         elapsed, busy>>
      BY <1>2 DEF Sync, loop
    <2>2. Recorded'
      BY <2>1, SameHistory DEF Safe, Recorded, Records
    <2>3. FreshCopy'
      BY <2>1, SameHistory DEF Safe, FreshCopy, Records
    <2>4. Phases' /\ Sorted'
      BY <2>1 DEF Safe, Phases, Sorted
    <2>5. Agreed'
      BY <2>1, SameHistory DEF Safe, Agreed, Records, cluster
    <2>6. AgesHold'
      BY <2>1 DEF Safe, AgesHold
    <2>7. QED
      BY <2>2, <2>3, <2>4, <2>5, <2>6 DEF Safe
  <1>3. CASE ChangeAction
    <2> DEFINE d == [detector EXCEPT !.action = IF @ = "scale" THEN "alert" ELSE "scale"]
    <2>1. /\ d.scaled = detector.scaled /\ d.idle = detector.idle
          /\ d.exists = detector.exists /\ d.finalizer = detector.finalizer
      BY <1>1 DEF Detectors
    <2>2. UserChange(d)
      BY <1>3 DEF ChangeAction
    <2> HIDE DEF d
    <2>3. QED
      BY <2>1, <2>2, UserChangeSafe
  <1>4. CASE Delete /\ detector.finalizer
    <2> DEFINE d == [detector EXCEPT !.deleting = TRUE]
    <2>1. /\ d.scaled = detector.scaled /\ d.idle = detector.idle
          /\ d.exists = detector.exists /\ d.finalizer = detector.finalizer
      BY <1>1 DEF Detectors
    <2>2. UserChange(d)
      BY <1>4 DEF Delete
    <2> HIDE DEF d
    <2>3. QED
      BY <2>1, <2>2, UserChangeSafe
  <1>5. CASE Delete /\ ~detector.finalizer
    <2>1. UserChange(Gone)
      BY <1>5 DEF Delete
    <2>2. QED
      BY <1>5, <2>1, NewParts, UserChangeSafe
  <1>6. QED
    BY <1>2, <1>3, <1>4, <1>5

-----------------------------------------------------------------------------
LEMMA InitInv ==
  ASSUME Init
  PROVE  IInv
  <1> TypeOK
    BY InitType
  <1>1. \A w \in Workloads : ~HasRecord(w, "kept") /\ ~HasRecord(w, "pending")
    BY DEF Init, HasRecord, NotDown
  <1>2. Recorded /\ Agreed
    BY <1>1 DEF Init, Recorded, Agreed
  <1>3. FreshCopy /\ Phases /\ Sorted /\ AgesHold
    BY NewParts DEF Init, FreshCopy, Phases, Sorted, AgesHold
  <1>4. QED
    BY <1>2, <1>3 DEF IInv

LEMMA NextSafe ==
  ASSUME IInv, [Next]_vars
  PROVE  Safe'
  <1> Safe
    BY IInvParts
  <1>1. CASE Start
    BY <1>1, StartSafe
  <1>2. CASE Step
    BY <1>2, AttachSafe, PersistSafe, PersistFailsSafe, ReportSafe, FailSafe, FinishSafe,
       CheckSafe, ScaleDownSafe, PassOverSafe, RestoreUpdateSafe, RestoreFailsSafe
       DEF Step, WriteRefused, UpdateRefused
  <1>3. CASE Chance
    BY <1>3, FailSafe, CheckSafe, UnansweredSafe DEF Chance, Abort
  <1>4. CASE Environment
    BY <1>4, WorkloadChangeSafe, TickSafe, DetectorChangeSafe DEF Environment
  <1>5. CASE UNCHANGED vars
    <2>1. UNCHANGED <<cluster, detector, cache, pc, obj, fresh, todo, found, elapsed, down,
                      busy, quiet>>
      BY <1>5 DEF vars, cluster
    <2>2. Recorded' /\ FreshCopy'
      BY <2>1, SameHistory DEF Safe, Recorded, FreshCopy, Records
    <2>3. Phases' /\ Sorted' /\ AgesHold'
      BY <2>1 DEF Safe, Phases, Sorted, AgesHold
    <2>4. Agreed'
      BY <2>1, SameHistory DEF Safe, Agreed, Records, cluster
    <2>5. QED
      BY <2>2, <2>3, <2>4 DEF Safe
  <1>6. QED
    BY <1>1, <1>2, <1>3, <1>4, <1>5 DEF Next

(* The invariant: what is kept on record is in the status and is what the  *)
(* workload ran with, and every idle entry is as young as it must be.      *)
THEOREM Safety == Spec => []IInv
  <1>1. IInv /\ [Next]_vars => IInv'
    BY NextType, NextSafe, IInvParts
  <1>2. QED
    BY <1>1, InitInv, PTL DEF Spec

(* A restore that takes a workload off the record puts it back exactly.    *)
THEOREM RestoresAreExact == Spec => RestoresExactly
  <1> DEFINE Exact ==
        \A w \in Workloads :
          pc = "restore" /\ HasRecord(w, "kept") /\ ~HasRecord(w, "kept")' /\ w \in todo \ todo'
          => spec'[w] = down[w].was
  <1>1. ASSUME IInv, [Next]_vars, NEW w \in Workloads, pc = "restore",
               HasRecord(w, "kept"), ~HasRecord(w, "kept")', w \in todo \ todo'
        PROVE  spec'[w] = down[w].was
    <2> TypeOK /\ Safe
      BY <1>1, IInvParts
    <2>1. down' # down /\ todo' # todo
      BY <1>1 DEF HasRecord
    <2>2. PICK e \in obj.scaled : RestoreUpdate(e)
      <3>1. ~Start /\ ~Chance
        <4>1. ~Abort
          <5>1. ASSUME Abort
                PROVE  HasRecord(w, "kept")'
            BY <1>1, <5>1, Rerecording DEF Abort, Fail, Records
          <5>2. QED
            BY <1>1, <5>1
        <4>2. QED
          BY <1>1, <4>1 DEF Start, StartDeletion, StartAttach, StartCheck, Begin, Chance,
             CheckMiss, ScaleUnanswered, Visit
      <3>2. ~Environment
        BY <1>1, <2>1 DEF Environment, Tick, Sync, ChangeAction, Delete, UserChange,
           UserEdit, DeleteWorkload, FlipLoad, loop
      <3>3. [Next]_vars => Step
        BY <2>1, <3>1, <3>2 DEF Next, vars
      <3>4. QED
        BY <1>1, <2>1, <3>3 DEF Step, Attach, Persist, Report, WriteRefused, Progress,
           Release, UpdateRefused, PersistFails, CheckIdle, CheckBusy, ScaleDown,
           ScaleNothing, ScaleFails, Visit, RestoreFails
    <2>3. obj \in Detectors /\ e \in ScaledEntries /\ e.name \in Workloads
      BY TypeParts, DetectorParts, ScaledFacts DEF LoopOK
    <2>4. DOMAIN spec = Workloads
      BY TypeParts DEF ClusterOK
    <2>5. w = e.name
      BY <1>1, <2>2 DEF RestoreUpdate
    <2>6. spec'[w] = Restore(KindOf[w], spec[w], e.original)
      BY <2>2, <2>3, <2>4, <2>5 DEF RestoreUpdate
    <2>7. e.original = down[w].was
      BY <1>1, <2>5 DEF Safe, Agreed
    <2>8. spec[w] = Quiesce(KindOf[w], down[w].was)
      BY <1>1, RecordedIsDown DEF Safe, Agreed, Records
    <2>9. KindOf[w] \in Kinds /\ down[w].was \in Settings(KindOf[w])
      BY <1>1, RecordedIsDown, WorkloadKinds DEF Records, RunningSettings
    <2>10. QED
      BY <2>6, <2>7, <2>8, <2>9, RestoreQuiesced
  <1>2. IInv /\ [Next]_vars => [Exact]_vars
    BY <1>1
  <1>3. QED
    BY <1>2, Safety, PTL DEF Spec, RestoresExactly

(* A loop with a current copy scales down only what has been quiet for     *)
(* IdleDuration.                                                           *)
THEOREM ScalesOnlyTheIdle == Spec => IdleLongEnough
  <1> DEFINE Long ==
        \A w \in Workloads :
          pc = "scale" /\ fresh /\ w \in todo \ todo' /\ spec'[w] # spec[w]
          => quiet[w] >= IdleDuration
  <1>1. ASSUME IInv, NEW w \in Workloads, pc = "scale", fresh, w \in todo
        PROVE  quiet[w] >= IdleDuration
    <2> TypeOK /\ Safe
      BY <1>1, IInvParts
    <2>1. PICK e \in obj.idle : e.name = w /\ e.age >= IdleDuration
      BY <1>1 DEF Safe, Sorted
    <2>2. e.age <= quiet[w]
      BY <1>1, <2>1 DEF Safe, AgesHold
    <2>3. obj.idle \in SUBSET IdleEntries
      BY TypeParts, DetectorParts DEF LoopOK
    <2>4. e.age \in Nat /\ quiet[w] \in Nat
      BY <2>3, QuietNat, ConstantsAssumption DEF IdleEntries, Ages
    <2>5. QED
      BY <2>1, <2>2, <2>4, ConstantsAssumption
  <1>2. IInv => [Long]_vars
    BY <1>1
  <1>3. QED
    BY <1>2, Safety, PTL DEF Spec, IdleLongEnough
=============================================================================
