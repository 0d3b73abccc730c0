---------------------------- MODULE RulesProofs ----------------------------
(***************************************************************************)
(* What holds of the rules the controllers decide by: of SleepWindow and   *)
(* SleepTiming for days of any length, any windows and any intervals, of   *)
(* IdleUsage for any pods, requests, loads and thresholds, and of a        *)
(* workload of any kind and setting that sleeps and is woken.              *)
(***************************************************************************)
EXTENDS SleepTiming, MCRules, Lemmas

LEMMA PlusType ==
  ASSUME NEW t \in Times, NEW n \in (1 - TicksPerDay)..TicksPerDay
  PROVE  Plus(t, n) \in Times
  BY MinutesAssumption DEF Plus, Times, Days, TicksPerDay, Minute

(* Which day's period a local time can be in: the day's own, or the one    *)
(* that yesterday opened.                                                  *)
LEMMA TwoPeriods ==
  ASSUME NEW t \in Times, NEW d \in Days
  PROVE  t.day = (d + 1) % 7 <=> d = (t.day + 6) % 7
  BY DEF Times, Days

(* The test by which shouldBeSleepingAtWindow decides (the day checked     *)
(* shifted in the early morning, then two comparisons of the time of day)  *)
(* says exactly that the time is in a period that the window opened on one *)
(* of its days, whatever the window, the timezone and the day of the week. *)
THEOREM WindowMeansPeriods ==
  ASSUME NEW w \in Windows, NEW time \in Times
  PROVE  InWindow(w, time) <=> InSomePeriod(w, time)
  <1> DEFINE t == Plus(time, w.offset)
             yesterday == (t.day + 6) % 7
             period(d) == InPeriod(w, d, t)
  <1>1. /\ w.start \in 0..(MinutesPerDay - 1) /\ w.end \in 0..(MinutesPerDay - 1)
        /\ w.days \subseteq Days /\ w.offset \in (1 - TicksPerDay)..TicksPerDay
        /\ MinutesPerDay \in Nat \ {0} /\ TicksPerDay = 2 * MinutesPerDay
    BY MinutesAssumption DEF Windows, TicksPerDay, Minute
  <1>2. t \in Times
    BY <1>1, PlusType
  <1>3. t.day \in Days /\ t.tick \in 0..(TicksPerDay - 1) /\ yesterday \in Days
        /\ yesterday # t.day
    BY <1>2 DEF Times, Days
  <1>4. \A d \in Days : d # t.day /\ d # yesterday => ~period(d)
    BY <1>2, TwoPeriods DEF InPeriod
  <1>5. period(t.day) <=> t.tick > 2 * w.start /\ (IsOvernight(w) \/ t.tick < 2 * w.end)
    BY <1>1, <1>3 DEF InPeriod, Length, IsOvernight, Minute
  <1>6. period(yesterday) <=> IsOvernight(w) /\ t.tick < 2 * w.end
    <2>1. t.day = (yesterday + 1) % 7
      BY <1>2, <1>3, TwoPeriods
    <2>2. QED
      BY <1>1, <1>3, <2>1 DEF InPeriod, Length, IsOvernight, Minute
  <1>7. InSomePeriod(w, time) <=>
          \/ t.day \in OpeningDays(w) /\ period(t.day)
          \/ yesterday \in OpeningDays(w) /\ period(yesterday)
    BY <1>1, <1>3, <1>4 DEF InSomePeriod, OpeningDays
  <1>8. InWindow(w, time) <=>
          /\ w.days # {} => CheckDay(w, t) \in w.days
          /\ IF IsOvernight(w) THEN t.tick > 2 * w.start \/ t.tick < 2 * w.end
                               ELSE t.tick > 2 * w.start /\ t.tick < 2 * w.end
    BY DEF InWindow, Minute
  <1>9. CheckDay(w, t) = IF IsOvernight(w) /\ t.tick < 2 * w.end THEN yesterday ELSE t.day
    BY DEF CheckDay, Minute
  <1>10. /\ t.day \in OpeningDays(w) <=> (w.days # {} => t.day \in w.days)
         /\ yesterday \in OpeningDays(w) <=> (w.days # {} => yesterday \in w.days)
    BY <1>3 DEF OpeningDays
  <1>11. IsOvernight(w) /\ t.tick < 2 * w.end => ~(t.tick > 2 * w.start)
    BY <1>1, <1>3 DEF IsOvernight
  <1> HIDE DEF t, yesterday, period
  <1>12. QED
    BY <1>5, <1>6, <1>7, <1>8, <1>9, <1>10, <1>11

-----------------------------------------------------------------------------
(* The interval a reconcile asks for.                                      *)
LEMMA RequeueChoices ==
  ASSUME NEW asleep, NEW kept, NEW since
  PROVE  RequeueInterval(asleep, kept, since) \in {1, spec.interval}
  BY DEF RequeueInterval, VerifyRequeueInterval, ApproachingRequeueInterval

LEMMA IntervalIsTicks ==
  ASSUME spec \in Specs
  PROVE  spec.interval \in Nat \ {0}
  BY SpecsAssumption

(* A reconcile leaves the spec's interval, or one minute, to wait.         *)
Within(n) == n <= Minute \/ n <= spec.interval

(* The time that has passed since the status went wrong and the time that  *)
(* is left until the next reconcile add up to no more than that.           *)
Waiting ==
  /\ now \in Times
  /\ spec \in Specs
  /\ due \in Nat
  /\ late \in Nat
  /\ Within(late + due)

LEMMA ReconcileWaits ==
  ASSUME Waiting, Reconcile
  PROVE  Waiting'
  <1>1. late' = 0 /\ UNCHANGED <<now, spec>>
    BY DEF Reconcile, ReconcileSuspended, ReconcileInvalid, ReconcileTransition,
           ReconcileSteady, Status
  <1>2. due' \in {1, Minute, spec.interval}
    BY RequeueChoices DEF Reconcile, ReconcileSuspended, ReconcileInvalid,
       ReconcileTransition, ReconcileSteady, SuspendedInterval, InvalidInterval
  <1>3. spec.interval \in Nat \ {0}
    BY IntervalIsTicks DEF Waiting
  <1>4. due' \in Nat /\ (due' <= Minute \/ due' <= spec.interval)
    BY <1>2, <1>3 DEF Minute
  <1>5. QED
    BY <1>1, <1>4 DEF Waiting, Within

LEMMA TickWaits ==
  ASSUME Waiting, Tick
  PROVE  Waiting'
  <1>1. now' \in Times
    <2>1. 1 \in (1 - TicksPerDay)..TicksPerDay
      BY MinutesAssumption DEF TicksPerDay, Minute
    <2>2. QED
      BY <2>1, PlusType DEF Waiting, Tick
  <1>2. (late' = 0 \/ late' = late + 1) /\ due' = due - 1 /\ due' \in Nat /\ spec' = spec
    BY DEF Waiting, Tick
  <1>3. Within(late + due)'
    <2>1. late \in Nat /\ due \in Nat /\ spec.interval \in Nat
      BY IntervalIsTicks DEF Waiting
    <2>2. late' + due' <= late + due
      BY <1>2, <2>1
    <2>3. late' + due' \in Nat
      BY <1>2, <2>1
    <2>4. QED
      BY <1>2, <2>1, <2>2, <2>3 DEF Waiting, Within, Minute
  <1>4. late' \in Nat
    BY <1>2 DEF Waiting
  <1>5. QED
    BY <1>1, <1>2, <1>3, <1>4 DEF Waiting

LEMMA Waits == Spec => []Waiting
  <1>1. Init => Waiting
    BY IntervalIsTicks DEF Init, Waiting, Within, Minute
  <1>2. Waiting /\ [Next]_vars => Waiting'
    <2>1. ASSUME Waiting, Edit
          PROVE  Waiting'
      BY <2>1 DEF Waiting, Edit, Within, Minute
    <2>2. ASSUME Waiting, UNCHANGED vars
          PROVE  Waiting'
      BY <2>2 DEF Waiting, Within, vars
    <2>3. QED
      BY <2>1, <2>2, ReconcileWaits, TickWaits DEF Next
  <1>3. QED
    BY <1>1, <1>2, PTL DEF Spec

(* However long spec.reconcileInterval, and through changes of the spec,   *)
(* status.sleeping is wrong no longer than that interval or a minute       *)
(* (computeRequeueInterval and the early returns of Reconcile).            *)
THEOREM LateBounded == Spec => []LateByInterval
  <1>1. Waiting => LateByInterval
    BY IntervalIsTicks DEF Waiting, Within, LateByInterval, InvalidInterval, Minute
  <1>2. QED
    BY <1>1, Waits, PTL

(* At every moment the controller's test of every window of the schedule   *)
(* (shouldBeSleepingAtWindow) agrees with the periods the window means.    *)
THEOREM WindowsMeanPeriods == Spec => []WindowIsItsPeriods
  <1>1. Waiting => WindowIsItsPeriods
    BY WindowMeansPeriods, SpecsAssumption DEF Waiting, WindowIsItsPeriods
  <1>2. QED
    BY <1>1, Waits, PTL

Remembers == sleeping \in BOOLEAN /\ managed \in BOOLEAN /\ age \in Ages

LEMMA ReconcileRemembers ==
  ASSUME Remembers, Reconcile
  PROVE  Remembers'
  <1>1. 0 \in Ages
    BY DEF Ages, VerifyWindow, Minute
  <1>2. CASE ReconcileSuspended
    BY <1>1, <1>2 DEF Remembers, ReconcileSuspended, Status
  <1>3. CASE ReconcileInvalid
    BY <1>3 DEF Remembers, ReconcileInvalid, Status
  <1>4. CASE ReconcileTransition
    <2>1. ShouldBeSleepingAt(spec.windows, now) \in BOOLEAN
      BY DEF ShouldBeSleepingAt
    <2>2. sleeping' \in BOOLEAN /\ age' = 0
      BY <1>4, <2>1 DEF ReconcileTransition, Status
    <2>3. managed' \in {TRUE, managed}
      BY <1>4 DEF ReconcileTransition, Status
    <2>4. QED
      BY <1>1, <2>2, <2>3 DEF Remembers
  <1>5. CASE ReconcileSteady
    <2>1. (managed /\ (sleeping \/ age <= VerifyWindow)) \in BOOLEAN
      OBVIOUS
    <2>2. managed' \in BOOLEAN /\ sleeping' = sleeping /\ age' = age
      BY <1>5, <2>1 DEF ReconcileSteady, Status
    <2>3. QED
      BY <2>2 DEF Remembers
  <1>6. QED
    BY <1>2, <1>3, <1>4, <1>5 DEF Reconcile

(* Types are kept by every reconcile, every tick and every change of the   *)
(* spec: in particular the clock never leaves the week, whatever its       *)
(* length, and the age of a transition stops where it makes no difference. *)
THEOREM TypeCorrect == Spec => []TypeOK
  <1>1. Init => Remembers
    <2>1. VerifyWindow + 1 \in Ages
      BY DEF Ages, VerifyWindow, Minute
    <2>2. QED
      BY <2>1 DEF Init, Remembers
  <1>2. Remembers /\ [Next]_vars => Remembers'
    <2>1. ASSUME Remembers, Tick
          PROVE  Remembers'
      BY <2>1 DEF Remembers, Tick
    <2>2. ASSUME Remembers, Edit
          PROVE  Remembers'
      BY <2>2 DEF Remembers, Edit
    <2>3. ASSUME Remembers, UNCHANGED vars
          PROVE  Remembers'
      BY <2>3 DEF Remembers, vars
    <2>4. QED
      BY <2>1, <2>2, <2>3, ReconcileRemembers DEF Next
  <1>3. Waiting /\ Remembers => TypeOK
    BY DEF Waiting, Remembers, TypeOK
  <1>4. QED
    BY <1>1, <1>2, <1>3, Waits, PTL DEF Spec

-----------------------------------------------------------------------------
(* Transitions are foreseen.  The whole minutes from now at which          *)
(* timeUntilNextTransition looks are every other tick, so that a status    *)
(* can go wrong between two of them only, for a tick.                      *)
LongDays == ApproachingWindow <= TicksPerDay

LEMMA PlusOneMore ==
  ASSUME NEW t \in Times, NEW n \in 1..TicksPerDay
  PROVE  Plus(Plus(t, 1), n - 1) = Plus(t, n)
  <1>1. /\ TicksPerDay \in Nat /\ TicksPerDay >= 2
        /\ t.day \in Days /\ t.tick \in 0..(TicksPerDay - 1)
    BY MinutesAssumption DEF TicksPerDay, Minute, Times
  <1> HIDE DEF TicksPerDay
  <1>2. CASE t.tick = TicksPerDay - 1
    <2>1. Plus(t, 1) = [day |-> (t.day + 1) % 7, tick |-> 0]
      BY <1>1, <1>2 DEF Plus
    <2>2. Plus(Plus(t, 1), n - 1) = [day |-> (t.day + 1) % 7, tick |-> n - 1]
      BY <1>1, <2>1 DEF Plus
    <2>3. Plus(t, n) = [day |-> (t.day + 1) % 7, tick |-> n - 1]
      BY <1>1, <1>2 DEF Plus
    <2>4. QED
      BY <2>2, <2>3
  <1>3. CASE t.tick < TicksPerDay - 1
    <2>1. Plus(t, 1) = [day |-> t.day, tick |-> t.tick + 1]
      BY <1>1, <1>3 DEF Plus
    <2>2. t.tick + 1 + (n - 1) = t.tick + n /\ t.tick + n >= 0
      BY <1>1
    <2>3. QED
      BY <1>1, <2>1, <2>2 DEF Plus
  <1>4. QED
    BY <1>1, <1>2, <1>3

(* A change at a whole minute from now is not overlooked.                  *)
LEMMA LooksAhead ==
  ASSUME NEW windows, NEW t, NEW i \in 1..MinutesPerDay,
         ShouldBeSleepingAt(windows, Plus(t, i * Minute)) # ShouldBeSleepingAt(windows, t)
  PROVE  TimeUntilNextTransition(windows, t) \in 1..(i * Minute)
  <1> DEFINE changed ==
               {j \in 1..MinutesPerDay :
                  ShouldBeSleepingAt(windows, Plus(t, j * Minute)) # ShouldBeSleepingAt(windows, t)}
             first == CHOOSE j \in changed : \A l \in changed : j <= l
  <1>1. i \in changed /\ changed # {} /\ changed \subseteq Nat /\ changed \subseteq 1..MinutesPerDay
    BY MinutesAssumption
  <1>2. TimeUntilNextTransition(windows, t) = Minute * first
    BY <1>1 DEF TimeUntilNextTransition
  <1> HIDE DEF changed
  <1>3. first \in changed /\ \A l \in changed : first <= l
    BY <1>1, LeastExists
  <1> HIDE DEF first
  <1>4. first \in Nat /\ first >= 1 /\ i \in Nat /\ first <= i
    BY <1>1, <1>3
  <1>5. QED
    BY <1>2, <1>4 DEF Minute

(* What a reconcile that finds windows leaves to be seen at whole minutes. *)
LEMMA RequeueForesees ==
  ASSUME Waiting, LongDays, spec.interval <= ApproachingWindow, ~spec.suspend,
         NEW kept, NEW since,
         NEW n \in 1..RequeueInterval(ShouldBeSleepingAt(spec.windows, now), kept, since), n % 2 = 0
  PROVE  ~Wrong(spec, ShouldBeSleepingAt(spec.windows, now), Plus(now, n))
  <1> DEFINE asleep == ShouldBeSleepingAt(spec.windows, now)
             next == TimeUntilNextTransition(spec.windows, now)
             i == n \div 2
  <1>1. spec.interval \in Nat \ {0}
    BY IntervalIsTicks DEF Waiting
  <1>2. RequeueInterval(asleep, kept, since) = spec.interval /\ ~(0 < next /\ next <= ApproachingWindow)
    <2>1. RequeueInterval(asleep, kept, since) # 1
      OBVIOUS
    <2>2. QED
      BY <2>1 DEF RequeueInterval, VerifyRequeueInterval, ApproachingRequeueInterval
  <1>3. n \in 1..20 /\ n = i * Minute /\ i \in 1..10
    BY <1>1, <1>2 DEF ApproachingWindow, Minute
  <1>4. i \in 1..MinutesPerDay
    BY <1>3, MinutesAssumption DEF LongDays, ApproachingWindow, TicksPerDay, Minute
  <1>5. ShouldBeSleepingAt(spec.windows, Plus(now, n)) = asleep
    <2> HIDE DEF i
    <2>1. SUFFICES ASSUME ShouldBeSleepingAt(spec.windows, Plus(now, i * Minute)) # asleep
                   PROVE  FALSE
      BY <1>3
    <2>2. next \in 1..(i * Minute)
      BY <1>4, <2>1, LooksAhead
    <2>3. i * Minute <= ApproachingWindow /\ i * Minute \in Nat
      BY <1>3 DEF ApproachingWindow, Minute
    <2> HIDE DEF next
    <2>4. 0 < next /\ next <= ApproachingWindow
      BY <2>2, <2>3 DEF ApproachingWindow, Minute
    <2>5. QED
      BY <1>2, <2>4
  <1>6. QED
    BY <1>5 DEF Wrong

(* As long as the interval does not jump over the approaching window: at   *)
(* every other tick until the next reconcile the status is right, and it   *)
(* has been wrong for no longer than the one tick since the last of them.  *)
RightAt(p) ==
  late <= p /\ \A n \in 1..due : n % 2 = p => ~Wrong(spec, sleeping, Plus(now, n))

Foreseen == due <= ApproachingWindow /\ \E p \in {0, 1} : RightAt(p)

Expected == spec.interval <= ApproachingWindow => Foreseen

LEMMA ReconcileForesees ==
  ASSUME Waiting, LongDays, Reconcile
  PROVE  Expected'
  <1> SUFFICES ASSUME spec.interval <= ApproachingWindow
               PROVE  due' <= ApproachingWindow /\ RightAt(0)'
    <2>1. spec' = spec
      BY DEF Reconcile, ReconcileSuspended, ReconcileInvalid, ReconcileTransition,
             ReconcileSteady, Status
    <2>2. QED
      BY <2>1 DEF Expected, Foreseen
  <1>1. late' = 0 /\ UNCHANGED <<now, spec>>
    BY DEF Reconcile, ReconcileSuspended, ReconcileInvalid, ReconcileTransition,
           ReconcileSteady, Status
  <1>2. due' \in {1, Minute, spec.interval}
    BY RequeueChoices DEF Reconcile, ReconcileSuspended, ReconcileInvalid,
       ReconcileTransition, ReconcileSteady, SuspendedInterval, InvalidInterval
  <1>3. due' <= ApproachingWindow
    BY <1>2, IntervalIsTicks DEF Waiting, ApproachingWindow, Minute
  <1>4. SUFFICES ASSUME NEW n \in 1..due', n % 2 = 0
                 PROVE  ~Wrong(spec, sleeping', Plus(now, n))
    BY <1>1, <1>3 DEF RightAt
  <1>5. CASE ReconcileSuspended
    BY <1>5 DEF ReconcileSuspended, Status, Wrong
  <1>6. CASE ReconcileInvalid
    BY <1>6 DEF ReconcileInvalid, Wrong
  <1>7. CASE ReconcileTransition
    <2>1. PICK kept : /\ sleeping' = ShouldBeSleepingAt(spec.windows, now)
                      /\ due' = RequeueInterval(ShouldBeSleepingAt(spec.windows, now), kept, 0)
                      /\ ~spec.suspend
      BY <1>7 DEF ReconcileTransition, Status, Active
    <2>2. QED
      BY <1>4, <2>1, RequeueForesees
  <1>8. CASE ReconcileSteady
    <2>1. PICK kept : /\ sleeping' = ShouldBeSleepingAt(spec.windows, now)
                      /\ due' = RequeueInterval(ShouldBeSleepingAt(spec.windows, now), kept, age)
                      /\ ~spec.suspend
      BY <1>8 DEF ReconcileSteady, Status, Active
    <2>2. QED
      BY <1>4, <2>1, RequeueForesees
  <1>9. QED
    BY <1>5, <1>6, <1>7, <1>8 DEF Reconcile

LEMMA TickForesees ==
  ASSUME Waiting, LongDays, Expected, Tick
  PROVE  Expected'
  <1> SUFFICES ASSUME spec.interval <= ApproachingWindow
               PROVE  Foreseen'
    BY DEF Expected, Tick
  <1>1. PICK p \in {0, 1} : RightAt(p)
    BY DEF Expected, Foreseen
  <1>2. due \in Nat /\ due > 0 /\ due' = due - 1 /\ due <= ApproachingWindow
        /\ late \in Nat /\ now \in Times /\ now' = Plus(now, 1)
        /\ UNCHANGED <<spec, sleeping>>
    BY DEF Waiting, Tick, Expected, Foreseen
  <1>3. ApproachingWindow = 20 /\ TicksPerDay \in Nat /\ 20 <= TicksPerDay
    BY MinutesAssumption DEF LongDays, ApproachingWindow, TicksPerDay, Minute
  <1>4. late' <= 1 - p
    <2>1. CASE p = 1
      <3>1. 1 \in 1..due /\ 1 % 2 = p
        BY <1>2, <2>1
      <3>2. ~Wrong(spec, sleeping, now')
        BY <1>1, <1>2, <3>1 DEF RightAt
      <3>3. QED
        BY <2>1, <3>2 DEF Tick
    <2>2. CASE p = 0
      <3>1. late = 0
        BY <1>1, <1>2, <2>2 DEF RightAt
      <3>2. late' \in {0, 1}
        BY <3>1 DEF Tick
      <3>3. QED
        BY <2>2, <3>2
    <2>3. QED
      BY <2>1, <2>2
  <1>5. ASSUME NEW n \in 1..due', n % 2 = 1 - p
        PROVE  ~Wrong(spec, sleeping, Plus(now', n))
    <2>1. n \in Nat /\ n + 1 \in 1..due /\ n + 1 \in 1..TicksPerDay /\ (n + 1) - 1 = n
      BY <1>2, <1>3
    <2>2. (n + 1) % 2 = p
      BY <1>5, <2>1
    <2>3. Plus(now', n) = Plus(now, n + 1)
      BY <1>2, <2>1, PlusOneMore
    <2>4. QED
      BY <1>1, <2>1, <2>2, <2>3 DEF RightAt
  <1>6. RightAt(1 - p)'
    BY <1>2, <1>4, <1>5 DEF RightAt
  <1>7. 1 - p \in {0, 1} /\ due' <= ApproachingWindow
    BY <1>2, <1>3
  <1>8. QED
    BY <1>6, <1>7 DEF Foreseen

(* A transition is at most half a minute late, whatever the windows, their *)
(* timezones and how they overlap, if spec.reconcileInterval does not      *)
(* jump over the ten minutes at which computeRequeueInterval looks closer. *)
(* A day is taken to last at least those ten minutes: a day of the code    *)
(* has 1440.  The status may be wrong for that half minute: of two windows *)
(* that abut, neither holds at the moment at which they meet.              *)
THEOREM TransitionsPunctual ==
  ASSUME LongDays
  PROVE  Spec => []Punctual
  <1>1. Init => Expected
    BY DEF Init, Expected, Foreseen, RightAt, ApproachingWindow, Minute
  <1>2. Waiting /\ Expected /\ [Next]_vars => Expected'
    <2>1. ASSUME Waiting, Expected, Edit
          PROVE  Expected'
      BY <2>1 DEF Edit, Expected, Foreseen, RightAt, ApproachingWindow, Minute
    <2>2. ASSUME Waiting, Expected, UNCHANGED vars
          PROVE  Expected'
      BY <2>2 DEF Expected, Foreseen, RightAt, vars
    <2>3. QED
      BY <2>1, <2>2, ReconcileForesees, TickForesees DEF Next
  <1>3. Waiting /\ Expected => Punctual
    BY DEF Waiting, Expected, Foreseen, RightAt, Punctual, ApproachingRequeueInterval
  <1>4. QED
    BY <1>1, <1>2, <1>3, Waits, PTL DEF Spec

-----------------------------------------------------------------------------
(* The days on display.                                                    *)
DayRanges == [start : Days, end : Days]

Covered(ranges) == UNION {ranges[i].start .. ranges[i].end : i \in DOMAIN ranges}

Proper(ranges) ==
  ranges \in Seq(DayRanges) /\ \A i \in DOMAIN ranges : ranges[i].start <= ranges[i].end

(* One more day extends the last range or starts another; no day is lost   *)
(* and no other one is covered.                                            *)
LEMMA ExtendCovers ==
  ASSUME NEW ranges, Proper(ranges), NEW d \in Days
  PROVE  Proper(Extend(ranges, d)) /\ Covered(Extend(ranges, d)) = Covered(ranges) \cup {d}
  <1> DEFINE n == Len(ranges)
  <1>1. n \in Nat /\ DOMAIN ranges = 1..n /\ ranges \in Seq(DayRanges)
    BY DEF Proper
  <1>2. \A i \in 1..n : ranges[i].start \in Days /\ ranges[i].end \in Days
                        /\ ranges[i].start <= ranges[i].end
    <2>1. ASSUME NEW i \in 1..n
          PROVE  ranges[i] \in DayRanges /\ ranges[i].start <= ranges[i].end
      BY <1>1, <2>1 DEF Proper
    <2>2. QED
      BY <2>1 DEF DayRanges
  <1>3. CASE ranges # <<>> /\ Last(ranges).end + 1 = d
    <2> DEFINE longer == [ranges EXCEPT ![n].end = d]
    <2>1. Extend(ranges, d) = longer
      BY <1>3 DEF Extend
    <2>2. n \in 1..n /\ ranges[n].end + 1 = d
      BY <1>1, <1>3 DEF Last
    <2>3. /\ DOMAIN longer = 1..n
          /\ \A i \in 1..n : longer[i].start = ranges[i].start
                             /\ longer[i].end = IF i = n THEN d ELSE ranges[i].end
      BY <1>1, <1>2, <2>2 DEF DayRanges
    <2>4. longer \in Seq(DayRanges)
      <3>1. \A i \in 1..n : ranges[i] \in DayRanges
        BY <1>1
      <3>2. \A i \in 1..n : longer[i] \in DayRanges
        BY <1>1, <2>2, <3>1 DEF DayRanges
      <3>3. longer \in [1..n -> DayRanges]
        BY <1>1, <3>2
      <3>4. QED
        BY <1>1, <3>3
    <2> HIDE DEF longer
    <2>5. Proper(longer)
      BY <1>2, <2>2, <2>3, <2>4 DEF Proper, Days
    <2>6. Covered(longer) = Covered(ranges) \cup {d}
      <3>1. \A i \in 1..n : longer[i].start .. longer[i].end
                            = (ranges[i].start .. ranges[i].end) \cup (IF i = n THEN {d} ELSE {})
        <4>1. ASSUME NEW i \in 1..n, i # n
              PROVE  longer[i].start .. longer[i].end = ranges[i].start .. ranges[i].end
          BY <2>3, <4>1
        <4>2. longer[n].start .. longer[n].end = (ranges[n].start .. ranges[n].end) \cup {d}
          <5>1. \A a, b \in Days : a <= b => a .. (b + 1) = (a .. b) \cup {b + 1}
            BY DEF Days
          <5>2. longer[n].start = ranges[n].start /\ longer[n].end = ranges[n].end + 1
            BY <2>2, <2>3
          <5>3. ranges[n].start \in Days /\ ranges[n].end \in Days
                /\ ranges[n].start <= ranges[n].end
            BY <1>2, <2>2
          <5>4. QED
            BY <2>2, <5>1, <5>2, <5>3
        <4>3. QED
          BY <4>1, <4>2
      <3>2. ASSUME NEW x
            PROVE  x \in Covered(longer) <=> x \in Covered(ranges) \cup {d}
        <4>1. x \in Covered(longer) <=> \E i \in 1..n : x \in longer[i].start .. longer[i].end
          BY <2>3 DEF Covered
        <4>2. x \in Covered(ranges) <=> \E i \in 1..n : x \in ranges[i].start .. ranges[i].end
          BY <1>1 DEF Covered
        <4>3. QED
          BY <2>2, <3>1, <4>1, <4>2
      <3>3. QED
        BY <3>2
    <2>7. QED
      BY <2>1, <2>5, <2>6
  <1>4. CASE ~(ranges # <<>> /\ Last(ranges).end + 1 = d)
    <2> DEFINE one == [start |-> d, end |-> d]
               longer == Append(ranges, one)
    <2>1. Extend(ranges, d) = longer
      BY <1>4 DEF Extend
    <2>2. one \in DayRanges
      BY DEF DayRanges
    <2>3. /\ longer \in Seq(DayRanges)
          /\ DOMAIN longer = 1..(n + 1)
          /\ longer[n + 1] = one
          /\ \A i \in 1..n : longer[i] = ranges[i]
      BY <1>1, <2>2
    <2> HIDE DEF longer
    <2>4. Proper(longer)
      <3>1. ASSUME NEW i \in 1..(n + 1)
            PROVE  longer[i].start <= longer[i].end
        <4>1. CASE i = n + 1
          BY <2>3, <4>1 DEF Days
        <4>2. CASE i # n + 1
          BY <1>1, <1>2, <2>3, <4>2
        <4>3. QED
          BY <4>1, <4>2
      <3>2. QED
        BY <2>3, <3>1 DEF Proper
    <2>5. Covered(longer) = Covered(ranges) \cup {d}
      <3>1. d .. d = {d}
        BY DEF Days
      <3>2. 1..(n + 1) = 1..n \cup {n + 1} /\ n + 1 \notin 1..n
        BY <1>1
      <3>3. ASSUME NEW x
            PROVE  x \in Covered(longer) <=> x \in Covered(ranges) \cup {d}
        <4>1. x \in Covered(longer) <=> \E i \in 1..(n + 1) : x \in longer[i].start .. longer[i].end
          BY <2>3 DEF Covered
        <4>2. x \in Covered(ranges) <=> \E i \in 1..n : x \in ranges[i].start .. ranges[i].end
          BY <1>1 DEF Covered
        <4>3. x \in longer[n + 1].start .. longer[n + 1].end <=> x = d
          <5>1. longer[n + 1].start = d /\ longer[n + 1].end = d
            BY <2>3
          <5>2. QED
            BY <3>1, <5>1
        <4>4. \A i \in 1..n : x \in longer[i].start .. longer[i].end
                              <=> x \in ranges[i].start .. ranges[i].end
          BY <2>3
        <4>5. QED
          BY <3>2, <4>1, <4>2, <4>3, <4>4
      <3>4. QED
        BY <3>3
    <2>6. QED
      BY <2>1, <2>4, <2>5
  <1>5. QED
    BY <1>3, <1>4

LEMMA FiniteDays == IsFiniteSet(Days)
  <1>1. 0 \in Int /\ 6 \in Int
    OBVIOUS
  <1>2. IsFiniteSet(0..6)
    BY <1>1, FS_Interval
  <1>3. QED
    BY <1>2 DEF Days

LEMMA MaxOfDays ==
  ASSUME NEW T \in SUBSET Days, T # {}
  PROVE  Max(T) \in T
  <1>1. PICK l \in {6 - x : x \in T} : \A m \in {6 - x : x \in T} : l <= m
    <2>0. \A x \in T : 6 - x \in Nat
      BY DEF Days
    <2>1. {6 - x : x \in T} \subseteq Nat /\ {6 - x : x \in T} # {}
      BY <2>0
    <2>2. QED
      BY <2>1, LeastExists
  <1>2. PICK x \in T : l = 6 - x
    BY <1>1
  <1>3. \A y \in T : x >= y
    <2>1. \A y \in T : x \in 0..6 /\ y \in 0..6 /\ 6 - x <= 6 - y
      BY <1>1, <1>2 DEF Days
    <2>2. QED
      BY <2>1
  <1>4. QED
    BY <1>2, <1>3 DEF Max

(* The fold over the days, as a function on sets of days.                  *)
RangedOver(days, g) ==
  g = [T \in SUBSET days |-> IF T = {} THEN <<>> ELSE Extend(g[T \ {Max(T)}], Max(T))]

Ranging(days) == CHOOSE g : RangedOver(days, g)

LEMMA RangesAreRanging ==
  ASSUME NEW days
  PROVE  RangesOf(days) = Ranging(days)[days]
  BY DEF RangesOf, MapThenFoldSet, Ranging, RangedOver

LEMMA RangingExists ==
  ASSUME NEW days \in SUBSET Days
  PROVE  \E g : RangedOver(days, g)
  <1> DEFINE V == {ranges \in Seq(DayRanges) : Proper(ranges)}
             c == [T \in SUBSET days |-> Max(T)]
             h == [z \in days \X V |-> Extend(z[2], z[1])]
  <1>1. IsFiniteSet(days)
    BY FiniteDays, FS_Subset
  <1>2. \A T \in SUBSET days : T # {} => Max(T) \in T
    BY MaxOfDays
  <1>3. \A T \in SUBSET days : T # {} => c[T] \in T
    BY <1>2
  <1>4. h \in [days \X V -> V]
    BY ExtendCovers DEF Proper
  <1>5. <<>> \in V
    BY DEF Proper
  <1>6. \E g \in [SUBSET days -> V] : Folds(days, <<>>, c, h, g)
    <2> HIDE DEF V, c, h
    <2>1. QED
      BY <1>1, <1>3, <1>4, <1>5, FoldExists, Zenon
  <1>7. PICK g \in [SUBSET days -> V] :
          \A T \in SUBSET days : g[T] = IF T = {} THEN <<>> ELSE h[<<c[T], g[T \ {c[T]}]>>]
    BY <1>6 DEF Folds
  <1>8. ASSUME NEW T \in SUBSET days
        PROVE  g[T] = IF T = {} THEN <<>> ELSE Extend(g[T \ {Max(T)}], Max(T))
    <2>1. CASE T # {}
      <3>1. Max(T) \in days /\ c[T] = Max(T) /\ g[T \ {Max(T)}] \in V
        BY <1>2, <2>1
      <3>2. h[<<Max(T), g[T \ {Max(T)}]>>] = Extend(g[T \ {Max(T)}], Max(T))
        <4> HIDE DEF V
        <4>1. QED
          BY <3>1
      <3>3. QED
        BY <1>7, <2>1, <3>1, <3>2
    <2>2. QED
      BY <1>7, <2>1
  <1> HIDE DEF c, h
  <1>9. RangedOver(days, g)
    BY <1>8 DEF RangedOver
  <1>10. QED
    BY <1>9

(* The ranges of a set of days cover these days and no others.             *)
LEMMA RangesCover ==
  ASSUME NEW days \in SUBSET Days
  PROVE  Proper(RangesOf(days)) /\ Covered(RangesOf(days)) = days
  <1> DEFINE F == Ranging(days)
             Exact == {T \in SUBSET days : Proper(F[T]) /\ Covered(F[T]) = T}
  <1>1. \A T \in SUBSET days :
          F[T] = IF T = {} THEN <<>> ELSE Extend(F[T \ {Max(T)}], Max(T))
    <2>1. RangedOver(days, F)
      BY RangingExists DEF Ranging
    <2> HIDE DEF F
    <2>2. F = [T \in SUBSET days |-> IF T = {} THEN <<>> ELSE Extend(F[T \ {Max(T)}], Max(T))]
      BY <2>1 DEF RangedOver
    <2>3. QED
      BY <2>2
  <1>2. ASSUME NEW T \in SUBSET days, \A x \in T : T \ {x} \in Exact
        PROVE  T \in Exact
    <2>1. CASE T = {}
      <3>1. F[T] = <<>>
        BY <1>1, <2>1
      <3>2. Proper(<<>>) /\ Covered(<<>>) = {}
        BY DEF Proper, Covered
      <3>3. QED
        BY <2>1, <3>1, <3>2
    <2>2. CASE T # {}
      <3>1. Max(T) \in T /\ Max(T) \in Days
        BY <2>2, MaxOfDays
      <3>2. T \ {Max(T)} \in Exact
        BY <1>2, <3>1
      <3>3. F[T] = Extend(F[T \ {Max(T)}], Max(T))
        BY <1>1, <2>2
      <3>4. Proper(F[T]) /\ Covered(F[T]) = (T \ {Max(T)}) \cup {Max(T)}
        <4> DEFINE so == F[T \ {Max(T)}]
        <4>1. Proper(so) /\ Covered(so) = T \ {Max(T)}
          BY <3>2
        <4> HIDE DEF so
        <4>2. Proper(Extend(so, Max(T))) /\ Covered(Extend(so, Max(T))) = Covered(so) \cup {Max(T)}
          BY <3>1, <4>1, ExtendCovers
        <4>3. QED
          BY <3>3, <4>1, <4>2 DEF so
      <3>5. QED
        BY <3>1, <3>4
    <2>3. QED
      BY <2>1, <2>2
  <1>3. IsFiniteSet(days)
    BY FiniteDays, FS_Subset
  <1>4. SUBSET days \subseteq Exact
    <2> HIDE DEF Exact
    <2>1. QED
      BY <1>2, <1>3, EverySubset
  <1>5. QED
    BY <1>4, RangesAreRanging

(* The display of a schedule's windows shows the days on which one opens.  *)
LEMMA AggregateIsExact ==
  ASSUME NEW windows \in SUBSET Windows, windows # {}
  PROVE  LET shown == AggregateDaysDisplay(windows)
         IN  (IF shown.every THEN Days
              ELSE UNION {r.start .. r.end : r \in Range(shown.ranges)})
             = UNION {OpeningDays(w) : w \in windows}
  <1> DEFINE days == UNION {w.days : w \in windows}
             opening == UNION {OpeningDays(w) : w \in windows}
             shown == AggregateDaysDisplay(windows)
  <1>1. \A w \in windows : w.days \subseteq Days /\ OpeningDays(w) \subseteq Days
    BY DEF Windows, OpeningDays
  <1>2. CASE \E w \in windows : w.days = {}
    <2>1. shown = EveryDay
      BY <1>2 DEF AggregateDaysDisplay, DaysToDisplay
    <2>2. opening = Days
      BY <1>1, <1>2 DEF OpeningDays
    <2>3. QED
      BY <2>1, <2>2 DEF EveryDay
  <1>3. CASE \A w \in windows : w.days # {}
    <2>1. days \in SUBSET Days /\ days # {}
      BY <1>1, <1>3
    <2>2. opening = days
      BY <1>3 DEF OpeningDays
    <2>3. shown = [every |-> FALSE, ranges |-> RangesOf(days)]
      BY <1>3, <2>1 DEF AggregateDaysDisplay, DaysToDisplay
    <2> HIDE DEF days, opening, shown
    <2>4. Covered(RangesOf(days)) = days
      BY <2>1, RangesCover
    <2>5. UNION {r.start .. r.end : r \in Range(RangesOf(days))} = Covered(RangesOf(days))
      BY DEF Range, Covered
    <2>6. QED
      BY <2>2, <2>3, <2>4, <2>5 DEF shown, opening
  <1>4. QED
    BY <1>2, <1>3

Displayed == due > 0 /\ Active => display = AggregateDaysDisplay(spec.windows)

(* status.daysDisplay shows exactly the days on which some window of the   *)
(* schedule opens, once a reconcile has seen the spec                      *)
(* (aggregateDaysDisplay and daysToDisplay): the merging of days into      *)
(* ranges loses none and adds none, for all windows.                       *)
THEOREM DisplayExact == Spec => []DisplayIsExact
  <1>1. Init => Displayed
    BY DEF Init, Displayed
  <1>2. Waiting /\ Displayed /\ [Next]_vars => Displayed'
    <2> SUFFICES ASSUME Waiting, Displayed, [Next]_vars
                 PROVE  Displayed'
      OBVIOUS
    <2>1. CASE ReconcileSuspended
      BY <2>1 DEF ReconcileSuspended, Status, Displayed, Active
    <2>2. CASE ReconcileInvalid
      BY <2>2 DEF ReconcileInvalid, Status, Displayed, Active
    <2>3. CASE ReconcileTransition
      BY <2>3 DEF ReconcileTransition, Status, Displayed, Active
    <2>4. CASE ReconcileSteady
      BY <2>4 DEF ReconcileSteady, Status, Displayed, Active
    <2>5. CASE Tick
      BY <2>5 DEF Tick, Displayed, Active, Waiting
    <2>6. CASE Edit
      BY <2>6 DEF Edit, Displayed
    <2>7. CASE UNCHANGED vars
      BY <2>7 DEF vars, Displayed, Active
    <2>8. QED
      BY <2>1, <2>2, <2>3, <2>4, <2>5, <2>6, <2>7 DEF Next, Reconcile
  <1>3. Waiting /\ Displayed => DisplayIsExact
    <2> SUFFICES ASSUME Waiting, Displayed, due > 0, Active
                 PROVE  Shown = UNION {OpeningDays(w) : w \in spec.windows}
      BY DEF DisplayIsExact
    <2>1. spec.windows \in SUBSET Windows /\ spec.windows # {}
      BY SpecsAssumption DEF Waiting, Active
    <2>2. display = AggregateDaysDisplay(spec.windows)
      BY DEF Displayed
    <2>3. QED
      BY <2>1, <2>2, AggregateIsExact DEF Shown
  <1>4. QED
    BY <1>1, <1>2, <1>3, Waits, PTL DEF Spec

-----------------------------------------------------------------------------
(* The usage of a workload.  The counts that are added up stay natural     *)
(* numbers, of known pods.                                                 *)
Measured(amounts) == \A r \in Resources : amounts[r] \in Nat

UsageTyped ==
  /\ \A r \in Resources : threshold[r] \in Nat \cup {NotSet}
  /\ running \subseteq Pods
  /\ DOMAIN usage = Pods /\ \A p \in Pods : Measured(usage[p])
  /\ DOMAIN metrics \subseteq Pods /\ \A p \in DOMAIN metrics : Measured(metrics[p])

LEMMA LoadsMeasured ==
  ASSUME NEW load \in Loads
  PROVE  Measured(load)
  BY UsageAssumption DEF Measured

LEMMA UsageTypedInit == RulesInit => UsageTyped
  <1>1. ASSUME UsageInit
        PROVE  UsageTyped
    <2>1. \A r \in Resources : threshold[r] \in Nat \cup {NotSet}
      BY <1>1, UsageAssumption DEF UsageInit
    <2>2. DOMAIN usage = Pods /\ \A p \in Pods : usage[p] \in Loads
      BY <1>1 DEF UsageInit
    <2>3. \A p \in Pods : Measured(usage[p])
      BY <2>2, LoadsMeasured
    <2>4. QED
      BY <1>1, <2>1, <2>2, <2>3 DEF UsageInit, UsageTyped
  <1>2. ASSUME UsageAtRest
        PROVE  UsageTyped
    BY <1>2 DEF UsageAtRest, UsageTyped, Measured
  <1>3. QED
    BY <1>1, <1>2 DEF RulesInit

LEMMA UsageTypedStep == UsageTyped /\ [RulesNext]_<<usageVars, workload>> => UsageTyped'
  <1> SUFFICES ASSUME UsageTyped, [RulesNext]_<<usageVars, workload>>
               PROVE  UsageTyped'
    OBVIOUS
  <1>1. CASE UNCHANGED usageVars
    BY <1>1 DEF usageVars, UsageTyped, Measured
  <1>2. ASSUME UsageNext
        PROVE  UsageTyped'
    <2>1. PICK p \in Pods : StartPod(p) \/ StopPod(p) \/ ChangeLoad(p) \/ Report(p) \/ Forget(p)
      BY <1>2 DEF UsageNext
    <2>2. ASSUME NEW load \in Loads, usage' = [usage EXCEPT ![p] = load]
          PROVE  DOMAIN usage' = Pods /\ \A q \in Pods : Measured(usage'[q])
      <3>1. ASSUME NEW q \in Pods
            PROVE  Measured(usage'[q])
        <4>1. usage'[q] = IF q = p THEN load ELSE usage[q]
          BY <2>2 DEF UsageTyped
        <4>2. QED
          BY <4>1, LoadsMeasured DEF UsageTyped
      <3>2. QED
        BY <2>2, <3>1 DEF UsageTyped
    <2>3. CASE StartPod(p)
      BY <2>2, <2>3 DEF StartPod, UsageTyped, Measured
    <2>4. CASE StopPod(p)
      BY <2>4 DEF StopPod, UsageTyped, Measured
    <2>5. CASE ChangeLoad(p)
      BY <2>2, <2>5 DEF ChangeLoad, UsageTyped, Measured
    <2>6. CASE Report(p)
      <3>1. DOMAIN metrics' = DOMAIN metrics \cup {p}
        BY <2>6 DEF Report
      <3>2. ASSUME NEW q \in DOMAIN metrics'
            PROVE  metrics'[q] \in {usage[p]} \cup {metrics[x] : x \in DOMAIN metrics}
        BY <2>6, <3>2 DEF Report
      <3>3. \A q \in DOMAIN metrics' : Measured(metrics'[q])
        BY <3>2 DEF UsageTyped
      <3>4. QED
        BY <2>6, <3>1, <3>3 DEF Report, UsageTyped, Measured
    <2>7. CASE Forget(p)
      <3>1. DOMAIN metrics' \subseteq DOMAIN metrics /\ \A q \in DOMAIN metrics' : metrics'[q] = metrics[q]
        BY <2>7 DEF Forget
      <3>2. \A q \in DOMAIN metrics' : Measured(metrics'[q])
        BY <3>1 DEF UsageTyped
      <3>3. QED
        BY <2>7, <3>1, <3>2 DEF Forget, UsageTyped, Measured
    <2>8. QED
      BY <2>1, <2>3, <2>4, <2>5, <2>6, <2>7
  <1>3. QED
    BY <1>1, <1>2 DEF RulesNext

LEMMA UsageAlwaysTyped == RulesSpec => []UsageTyped
  BY UsageTypedInit, UsageTypedStep, PTL DEF RulesSpec

LEMMA RequestIsReserved ==
  ASSUME NEW p \in Pods, NEW r \in Resources
  PROVE  PodRequest(p, r) = Reserved(p, r) /\ Reserved(p, r) \in Nat
  <1> DEFINE a == Requests[p][r]
             b == InitRequests[p][r]
  <1>1. a \in Nat /\ b \in Nat
    BY UsageAssumption
  <1> HIDE DEF a, b
  <1>2. PodRequest(p, r) = IF b > a THEN b ELSE a
    BY DEF PodRequest, a, b
  <1>3. Reserved(p, r) = CHOOSE n \in {a, b} : n >= a /\ n >= b
    BY DEF Reserved, a, b
  <1>4. \E n \in {a, b} : n >= a /\ n >= b
    BY <1>1
  <1>5. QED
    BY <1>1, <1>2, <1>3, <1>4

(* The sums the detector compares, over the pods whose metrics are there.  *)
LEMMA SumsOfReported ==
  ASSUME UsageTyped, AllReported, NEW r \in Resources
  PROVE  \E used, requested :
           /\ IsFiniteSet(running) /\ running \cap DOMAIN metrics = running
           /\ \A p \in running : used[p] = metrics[p][r] /\ used[p] \in Nat
           /\ \A p \in running : requested[p] = Reserved(p, r) /\ requested[p] \in Nat
           /\ TotalUsage(running, metrics, r) = Total(used, running)
           /\ TotalRequest(running, r) = Total(requested, running)
           /\ Total(used, running) \in Nat /\ Total(requested, running) \in Nat
  <1> DEFINE used == [p \in running |-> metrics[p][r]]
             requested == [p \in running |-> PodRequest(p, r)]
  <1>1. IsFiniteSet(running) /\ running \cap DOMAIN metrics = running
    BY UsageAssumption, FS_Subset DEF UsageTyped, AllReported
  <1>2. \A p \in running : metrics[p][r] \in Nat
    BY DEF UsageTyped, AllReported, Measured
  <1>3. \A p \in running : used[p] = metrics[p][r] /\ used[p] \in Nat
    BY <1>2
  <1>4. \A p \in running : requested[p] = Reserved(p, r) /\ requested[p] \in Nat
    BY RequestIsReserved DEF UsageTyped
  <1>5. TotalUsage(running, metrics, r) = Total(used, running)
    <2>1. TotalUsage(running, metrics, r) =
            TotalOf([p \in running \cap DOMAIN metrics |-> metrics[p][r]],
                    running \cap DOMAIN metrics)
      BY DEF TotalUsage
    <2>2. TotalUsage(running, metrics, r) = TotalOf(used, running)
      BY <1>1, <2>1, Zenon
    <2>3. QED
      BY <2>2 DEF TotalOf, Total
  <1>6. TotalRequest(running, r) = Total(requested, running)
    BY DEF TotalRequest, TotalOf, Total
  <1> HIDE DEF used, requested
  <1>7. Total(used, running) \in Nat /\ Total(requested, running) \in Nat
    BY <1>1, <1>3, <1>4, TotalStep
  <1>8. QED
    BY <1>1, <1>3, <1>4, <1>5, <1>6, <1>7

(* Pods that all use less than a threshold of what they reserve use less   *)
(* than that of what they reserve together.                                *)
LEMMA QuietTogether ==
  ASSUME UsageTyped, AllReported, running # {}, NEW r \in Limited,
         \A p \in running : UsesLess(p, r)
  PROVE  TotalRequest(running, r) > 0 /\ BelowThreshold(running, metrics, r)
  <1>1. r \in Resources /\ threshold[r] \in Nat
    BY DEF Limited, UsageTyped
  <1>2. PICK used, requested :
          /\ IsFiniteSet(running)
          /\ \A p \in running : used[p] = metrics[p][r] /\ used[p] \in Nat
          /\ \A p \in running : requested[p] = Reserved(p, r) /\ requested[p] \in Nat
          /\ TotalUsage(running, metrics, r) = Total(used, running)
          /\ TotalRequest(running, r) = Total(requested, running)
          /\ Total(used, running) \in Nat /\ Total(requested, running) \in Nat
    BY <1>1, SumsOfReported
  <1>3. \A p \in running : 100 * used[p] < threshold[r] * requested[p]
    BY <1>2 DEF UsesLess
  <1>4. 100 * Total(used, running) < threshold[r] * Total(requested, running)
    BY <1>1, <1>2, <1>3, TotalLess
  <1> DEFINE u == Total(used, running)
             q == Total(requested, running)
             t == threshold[r]
  <1>5. 100 * u < t * q /\ u \in Nat /\ q \in Nat /\ t \in Nat
    BY <1>1, <1>2, <1>4
  <1> HIDE DEF u, q, t
  <1>6. q # 0
    BY <1>5
  <1>7. q > 0 /\ 100 * u < t * q
    BY <1>5, <1>6
  <1>8. QED
    BY <1>2, <1>7 DEF u, q, t, BelowThreshold

(* Pods that all reserve something and use at least a threshold of it do   *)
(* so together.                                                            *)
LEMMA BusyTogether ==
  ASSUME UsageTyped, AllReported, running # {}, NEW r \in Limited,
         \A p \in running : Reserved(p, r) > 0 /\ ~UsesLess(p, r)
  PROVE  ~BelowThreshold(running, metrics, r)
  <1>1. r \in Resources /\ threshold[r] \in Nat
    BY DEF Limited, UsageTyped
  <1>2. PICK used, requested :
          /\ IsFiniteSet(running)
          /\ \A p \in running : used[p] = metrics[p][r] /\ used[p] \in Nat
          /\ \A p \in running : requested[p] = Reserved(p, r) /\ requested[p] \in Nat
          /\ TotalUsage(running, metrics, r) = Total(used, running)
          /\ TotalRequest(running, r) = Total(requested, running)
          /\ Total(used, running) \in Nat /\ Total(requested, running) \in Nat
    BY <1>1, SumsOfReported
  <1>3. ASSUME NEW p \in running
        PROVE  threshold[r] * requested[p] <= 100 * used[p]
    <2> DEFINE u == used[p]
               q == requested[p]
               t == threshold[r]
    <2>1. u \in Nat /\ q \in Nat /\ t \in Nat /\ ~(100 * u < t * q)
      BY <1>1, <1>2 DEF UsesLess
    <2> HIDE DEF u, q, t
    <2>2. 100 * u \in Int /\ t * q \in Int
      BY <2>1
    <2>3. t * q <= 100 * u
      BY <2>1, <2>2
    <2>4. QED
      BY <2>3 DEF u, q, t
  <1>4. threshold[r] * Total(requested, running) <= 100 * Total(used, running)
    BY <1>1, <1>2, <1>3, TotalAtLeast
  <1>5. Total(requested, running) # 0
    <2> DEFINE y == Pick(running)
    <2>1. y \in running
      BY DEF Pick
    <2>2. requested[y] > 0 /\ requested[y] \in Nat
      BY <1>2, <2>1
    <2>3. Total(requested, running) = requested[y] + Total(requested, running \ {y})
      BY <1>2, <2>1, TotalStep
    <2>4. Total(requested, running \ {y}) \in Nat
      <3>1. IsFiniteSet(running \ {y}) /\ \A x \in running \ {y} : requested[x] \in Nat
        BY <1>2, FS_Subset
      <3>2. QED
        BY <3>1, TotalStep
    <2>5. QED
      BY <2>2, <2>3, <2>4
  <1> DEFINE u == Total(used, running)
             q == Total(requested, running)
             t == threshold[r]
  <1>6. t * q <= 100 * u /\ u \in Nat /\ q \in Nat /\ t \in Nat
    BY <1>1, <1>2, <1>4
  <1> HIDE DEF u, q, t
  <1>7. t * q \in Int /\ 100 * u \in Int
    BY <1>6
  <1>8. ~(100 * u < t * q)
    BY <1>6, <1>7
  <1>9. QED
    BY <1>2, <1>5, <1>8 DEF u, q, t, BelowThreshold

(* Whatever pods a workload has, however its requests and loads are spread *)
(* over them and however large they are: pods that are all below the       *)
(* thresholds make an idle workload.                                       *)
THEOREM QuietWorkloadsAreIdle == RulesSpec => []QuietPodsAreIdle
  <1>1. UsageTyped => QuietPodsAreIdle
    <2> SUFFICES ASSUME UsageTyped, running # {}, Limited # {}, AllReported,
                        \A p \in running, r \in Limited : UsesLess(p, r)
                 PROVE  IsIdle(running, metrics)
      BY DEF QuietPodsAreIdle
    <2>1. \A r \in Limited : TotalRequest(running, r) > 0 /\ BelowThreshold(running, metrics, r)
      BY QuietTogether
    <2>2. HasData(running, metrics)
      BY <2>1 DEF HasData, AllReported, Limited
    <2>3. IsIdleByThresholds(running, metrics)
      BY <2>1 DEF IsIdleByThresholds, Limited
    <2>4. QED
      BY <2>2, <2>3 DEF IsIdle
  <1>2. QED
    BY <1>1, UsageAlwaysTyped, PTL

(* No workload is idle of which every pod is at or above one threshold of  *)
(* what it reserves.                                                       *)
THEOREM BusyWorkloadsAreNotIdle == RulesSpec => []BusyPodsAreBusy
  <1>1. UsageTyped => BusyPodsAreBusy
    <2> SUFFICES ASSUME UsageTyped, running # {}, AllReported, NEW r \in Limited,
                        \A p \in running : Reserved(p, r) > 0 /\ ~UsesLess(p, r)
                 PROVE  ~IsIdle(running, metrics)
      BY DEF BusyPodsAreBusy
    <2>1. ~BelowThreshold(running, metrics, r)
      BY BusyTogether
    <2>2. ~IsIdleByThresholds(running, metrics)
      BY <2>1 DEF IsIdleByThresholds, Limited
    <2>3. QED
      BY <2>2 DEF IsIdle
  <1>2. QED
    BY <1>1, UsageAlwaysTyped, PTL

(* Without pods, reports or thresholds no workload is idle.                *)
THEOREM UnknownIsNotIdle == RulesSpec => []NoDataIsNotIdle
  <1>1. NoDataIsNotIdle
    BY DEF NoDataIsNotIdle, IsIdle, HasData, IsIdleByThresholds, Limited
  <1>2. QED
    BY <1>1, PTL

-----------------------------------------------------------------------------
(* One workload's cycle.  While nobody edits it, it reads as it did or as  *)
(* what stopping it made of that, and only what ran was stopped.           *)
InCycle ==
  phase # "at rest" =>
    /\ kind \in Kinds
    /\ original \in Settings(kind)
    /\ phase \in {"awake", "woken"} => current = original
    /\ phase = "asleep" => Running(kind, original) /\ current = Quiesce(kind, original)

(* MCWorkload's copy of the rules is the one the lemmas are about.         *)
LEMMA SameRules ==
  /\ W!Kinds = Kinds
  /\ \A k, st : W!Running(k, st) <=> Running(k, st)
  /\ \A k, st : W!Quiesce(k, st) = Quiesce(k, st)
  /\ \A k, st, o : W!Restore(k, st, o) = Restore(k, st, o)
  /\ \A k, st, o : W!Desynced(k, st, o) <=> Desynced(k, st, o)
  <1> USE DEF W!Kinds, W!SuspendKinds, W!OperatorKinds, W!ReplicaKinds, W!AppsKinds, W!CountKinds,
              W!Unset, Kinds, SuspendKinds, OperatorKinds, ReplicaKinds, AppsKinds, CountKinds, Unset
  <1>1. W!Kinds = Kinds
    OBVIOUS
  <1>2. \A k, st : W!Running(k, st) <=> Running(k, st)
    BY DEF W!Running, Running
  <1>3. \A k, st : W!Quiesce(k, st) = Quiesce(k, st)
    BY DEF W!Quiesce, Quiesce
  <1>4. \A k, st, o : W!Restore(k, st, o) = Restore(k, st, o)
    BY DEF W!Restore, Restore
  <1>5. \A k, st, o : W!Desynced(k, st, o) <=> Desynced(k, st, o)
    BY DEF W!Desynced, Desynced
  <1>6. QED
    BY <1>1, <1>2, <1>3, <1>4, <1>5

LEMMA SmallSettingsAreSettings ==
  ASSUME NEW k \in Kinds
  PROVE  W!SmallSettings(k) \subseteq Settings(k)
  <1>1. 0..MaxReplicas \subseteq Nat /\ {Unset} \cup 0..MaxReplicas \subseteq Counts
    BY ReplicasAssumption DEF Counts
  <1>2. /\ W!AppsKinds = AppsKinds /\ W!CountKinds = CountKinds /\ W!SuspendKinds = SuspendKinds
        /\ W!Unset = Unset
    BY DEF W!AppsKinds, W!CountKinds, W!SuspendKinds, W!OperatorKinds, W!Unset,
           AppsKinds, CountKinds, SuspendKinds, OperatorKinds, Unset
  <1>3. /\ k \in AppsKinds => W!SmallSettings(k) = [replicas : 0..MaxReplicas]
        /\ k \in CountKinds => W!SmallSettings(k) = [replicas : {Unset} \cup 0..MaxReplicas]
        /\ k \in SuspendKinds => W!SmallSettings(k) = [suspend : BOOLEAN]
        /\ k = "Cluster" => W!SmallSettings(k) = [hibernation : {"", "on", "off"}]
        /\ k = "Elasticsearch" =>
             W!SmallSettings(k) = [counts : [NodeSets -> {Unset} \cup 0..MaxReplicas]]
    BY <1>2, KindClasses DEF W!SmallSettings
  <1>4. [replicas : 0..MaxReplicas] \subseteq [replicas : Nat]
        /\ [replicas : {Unset} \cup 0..MaxReplicas] \subseteq [replicas : Counts]
    BY <1>1
  <1>5. [counts : [NodeSets -> {Unset} \cup 0..MaxReplicas]] \subseteq [counts : [NodeSets -> Counts]]
    BY <1>1
  <1>6. QED
    BY <1>3, <1>4, <1>5, KindClasses, SettingsByClass

LEMMA InCycleInit == RulesInit => InCycle
  <1>1. AtRest => InCycle
    BY DEF AtRest, InCycle
  <1>2. ASSUME W!Init
        PROVE  InCycle
    <2>1. kind \in Kinds /\ original \in W!SmallSettings(kind) /\ current = original /\ phase = "awake"
      BY <1>2, SameRules DEF W!Init
    <2>2. original \in Settings(kind)
      BY <2>1, SmallSettingsAreSettings
    <2>3. QED
      BY <2>1, <2>2 DEF InCycle
  <1>3. QED
    BY <1>1, <1>2 DEF RulesInit

LEMMA InCycleStep == InCycle /\ [RulesNext]_<<usageVars, workload>> => InCycle'
  <1> SUFFICES ASSUME InCycle, [RulesNext]_<<usageVars, workload>>
               PROVE  InCycle'
    OBVIOUS
  <1>1. CASE UNCHANGED workload
    BY <1>1 DEF workload, InCycle
  <1>2. CASE W!Sleep
    BY <1>2, SameRules DEF W!Sleep, InCycle
  <1>3. CASE W!EditNodeSets
    BY <1>3 DEF W!EditNodeSets, InCycle
  <1>4. CASE W!Wake
    BY <1>4, SameRules, RestoreQuiesced DEF W!Wake, InCycle
  <1>5. CASE W!WakeAgain
    BY <1>5, SameRules, RestoreUnchanged DEF W!WakeAgain, InCycle
  <1>6. QED
    BY <1>1, <1>2, <1>3, <1>4, <1>5 DEF RulesNext, W!Next

LEMMA AlwaysInCycle == RulesSpec => []InCycle
  BY InCycleInit, InCycleStep, PTL DEF RulesSpec

(* Whatever its kind and its setting, a workload nobody touched while it   *)
(* slept is restored to exactly what it was, and stays so if it is woken   *)
(* again.                                                                  *)
THEOREM WakeUndoesSleep == RulesSpec => []RoundTrip
  <1>1. InCycle => RoundTrip
    BY DEF InCycle, RoundTrip, W!RoundTrip
  <1>2. QED
    BY <1>1, AlwaysInCycle, PTL

(* The verification sees every workload that was stopped and still is,     *)
(* whatever its kind and its setting.                                      *)
THEOREM SleepersAreDetected == RulesSpec => []DesyncIsDetected
  <1>1. InCycle => DesyncIsDetected
    <2> SUFFICES ASSUME InCycle, phase = "asleep"
                 PROVE  Desynced(kind, current, original)
      BY SameRules DEF DesyncIsDetected, W!DesyncIsDetected
    <2>1. kind \in Kinds /\ original \in Settings(kind) /\ Running(kind, original)
          /\ current = Quiesce(kind, original)
      BY DEF InCycle
    <2>2. QED
      BY <2>1, QuiescedIsDesynced
  <1>2. QED
    BY <1>1, AlwaysInCycle, PTL
=============================================================================
