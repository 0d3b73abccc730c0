---------------------------- MODULE SleepTiming ----------------------------
(***************************************************************************)
(* When the controller looks at a schedule: how the interval a reconcile   *)
(* asks for (computeRequeueInterval) relates to the sleep windows, the     *)
(* verification window and spec.reconcileInterval.                         *)
(*                                                                         *)
(* What a reconcile does to workloads is module SleepSchedule; here it     *)
(* takes no time, succeeds, and leaves of the status what the next         *)
(* interval depends on.  A reconcile may also come before its time (every  *)
(* change of the object triggers one).                                     *)
(***************************************************************************)
EXTENDS SleepWindow, DaysDisplay

CONSTANT Specs             \* the specs users give the schedule: [suspend : BOOLEAN,
                           \* windows : SUBSET Windows, interval : a number of ticks]

ASSUME SpecsAssumption ==
  \A sp \in Specs :
    /\ sp.suspend \in BOOLEAN
    /\ sp.windows \subseteq Windows
    /\ sp.interval \in Nat \ {0}

VARIABLES now,             \* the time, in Times
          spec,            \* the schedule's spec
          sleeping,        \* status.sleeping
          managed,         \* status.managedWorkloads is not empty
          display,         \* status.daysDisplay
          age,             \* ticks since status.lastTransitionTime, see Ages
          due,             \* ticks until the next reconcile
          late             \* history: ticks that status.sleeping has been wrong

vars == <<now, spec, sleeping, managed, display, age, due, late>>

ApproachingRequeueInterval == 1          \* 30 seconds
ApproachingWindow == 10 * Minute
VerifyWindow == 10 * Minute
VerifyRequeueInterval == 1
SuspendedInterval == Minute
InvalidInterval == Minute

(* An older transition, or none, is as good as one just out of the window. *)
Ages == 0..(VerifyWindow + 1)

(* What spec asks of status.sleeping at time t: any answer will do if no   *)
(* window is defined.                                                      *)
Wrong(sp, status, t) ==
  IF sp.suspend THEN status
  ELSE sp.windows # {} /\ ShouldBeSleepingAt(sp.windows, t) # status

-----------------------------------------------------------------------------
(* A plausible slip: a sleeping schedule does not look out for the end of  *)
(* its window.                                                             *)
RequeueUnlessSleeping(asleep, kept, since) ==
  LET next == TimeUntilNextTransition(spec.windows, now)
  IN  IF ~asleep /\ kept /\ since <= VerifyWindow THEN VerifyRequeueInterval
      ELSE IF ~asleep /\ 0 < next /\ next <= ApproachingWindow THEN ApproachingRequeueInterval
      ELSE spec.interval

(* A plausible slip: an interval in the wrong unit.                        *)
RequeueMinutes(asleep, kept, since) ==
  IF ~asleep /\ kept /\ since <= VerifyWindow THEN VerifyRequeueInterval
  ELSE Minute * spec.interval

(* computeRequeueInterval, from the status as the reconcile leaves it.     *)
RequeueInterval(asleep, kept, since) ==
  LET next == TimeUntilNextTransition(spec.windows, now)
  IN  IF ~asleep /\ kept /\ since <= VerifyWindow THEN VerifyRequeueInterval
      ELSE IF 0 < next /\ next <= ApproachingWindow THEN ApproachingRequeueInterval
      ELSE spec.interval

(* The status as a reconcile leaves it.                                    *)
Status(asleep, kept, shown, since) ==
  /\ sleeping' = asleep
  /\ managed' = kept
  /\ display' = shown
  /\ age' = since
  /\ late' = 0
  /\ UNCHANGED <<now, spec>>

ReconcileSuspended ==
  /\ spec.suspend
  /\ Status(FALSE, managed, display, IF sleeping THEN 0 ELSE age)
  /\ due' = SuspendedInterval

ReconcileInvalid ==
  /\ ~spec.suspend
  /\ spec.windows = {}
  /\ Status(sleeping, managed, display, age)
  /\ due' = InvalidInterval

Active == ~spec.suspend /\ spec.windows # {}

(* A transition; there may be nothing to put to sleep.                     *)
ReconcileTransition ==
  LET asleep == ShouldBeSleepingAt(spec.windows, now)
  IN  /\ Active
      /\ asleep # sleeping
      /\ \E kept \in IF asleep THEN {TRUE, managed} ELSE {managed} :
           /\ Status(asleep, kept, AggregateDaysDisplay(spec.windows), 0)
           /\ due' = RequeueInterval(asleep, kept, 0)

(* No transition; awake, the entries go when the verification is over.     *)
ReconcileSteady ==
  LET kept == managed /\ (sleeping \/ age <= VerifyWindow)
  IN  /\ Active
      /\ ShouldBeSleepingAt(spec.windows, now) = sleeping
      /\ Status(sleeping, kept, AggregateDaysDisplay(spec.windows), age)
      /\ due' = RequeueInterval(sleeping, kept, age)

Reconcile ==
  ReconcileSuspended \/ ReconcileInvalid \/ ReconcileTransition \/ ReconcileSteady

(* Half a minute passes.                                                   *)
Tick ==
  /\ due > 0
  /\ now' = Plus(now, 1)
  /\ due' = due - 1
  /\ age' = IF age + 1 \in Ages THEN age + 1 ELSE age
  /\ late' = IF Wrong(spec, sleeping, now') THEN late + 1 ELSE 0
  /\ UNCHANGED <<spec, sleeping, managed, display>>

(* A user changes the spec, which triggers a reconcile.                    *)
Edit ==
  /\ \E sp \in Specs : spec' = sp
  /\ due' = 0
  /\ late' = 0
  /\ UNCHANGED <<now, sleeping, managed, display, age>>

Init ==
  /\ now \in Times
  /\ spec \in Specs
  /\ sleeping = FALSE
  /\ managed = FALSE
  /\ display = NoDisplay
  /\ age = VerifyWindow + 1
  /\ due = 0
  /\ late = 0

Next == Reconcile \/ Tick \/ Edit

Spec == Init /\ [][Next]_vars

-----------------------------------------------------------------------------
TypeOK ==
  /\ now \in Times
  /\ spec \in Specs
  /\ sleeping \in BOOLEAN
  /\ managed \in BOOLEAN
  /\ age \in Ages
  /\ due \in Nat
  /\ late \in Nat

(* "Smart requeue intervals: ... 30s approaching transition": status says  *)
(* that the schedule sleeps no later than half a minute after a window     *)
(* opens, and that it is awake no later than that after the last open one  *)
(* closes, across midnights, days, timezones and overlapping windows, for  *)
(* every interval that does not jump over the approaching window.          *)
Punctual ==
  spec.interval <= ApproachingWindow => late <= ApproachingRequeueInterval

(* A transition is late by at most spec.reconcileInterval, however long,   *)
(* or by the minute after which an invalid or suspended schedule is looked *)
(* at again.                                                               *)
LateByInterval == late <= InvalidInterval \/ late <= spec.interval

(* Once windows have been looked at, the days on display are exactly those *)
(* on which some window opens.                                             *)
Shown ==
  IF display.every THEN Days
  ELSE UNION {r.start .. r.end : r \in Range(display.ranges)}

DisplayIsExact ==
  due > 0 /\ Active => Shown = UNION {OpeningDays(w) : w \in spec.windows}

(* The controller's test for a window means the periods of that window.    *)
WindowIsItsPeriods ==
  \A w \in spec.windows : InWindow(w, now) <=> InSomePeriod(w, now)
=============================================================================
