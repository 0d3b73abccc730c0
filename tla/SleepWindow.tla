---------------------------- MODULE SleepWindow ----------------------------
(***************************************************************************)
(* When a sleep window is open: the pure functions by which the controller *)
(* decides whether workloads should be sleeping and when that changes.     *)
(*                                                                         *)
(* A time is a day of the week and a tick of that day, two ticks to the    *)
(* minute: an even tick is a whole minute, an odd one the middle of a      *)
(* minute, so that "strictly after 22:00" means something.  A day of the   *)
(* code has 1440 minutes.  The timezone of a window is an offset: changes  *)
(* to and from summer time are not modelled, nor are times and timezones   *)
(* that do not parse.                                                      *)
(***************************************************************************)
EXTENDS Integers

CONSTANT MinutesPerDay

ASSUME MinutesAssumption == MinutesPerDay \in Nat \ {0}

Days == 0..6                       \* 0 is Sunday

Minute == 2                        \* ticks

TicksPerDay == Minute * MinutesPerDay

Times == [day : Days, tick : 0..(TicksPerDay - 1)]

(* days = {} means every day.                                              *)
Windows ==
  [start : 0..(MinutesPerDay - 1), end : 0..(MinutesPerDay - 1),
   days : SUBSET Days, offset : (1 - TicksPerDay)..(TicksPerDay - 1)]

(* A plausible slip: the clock does not turn the day.                      *)
PlusToday(t, n) == [day |-> t.day, tick |-> t.tick + n]

(* The time n ticks after t, for n of at most a day, back or forth.        *)
Plus(t, n) ==
  LET tick == t.tick + n
  IN  IF tick < 0 THEN [day |-> (t.day + 6) % 7, tick |-> tick + TicksPerDay]
      ELSE IF tick >= TicksPerDay THEN [day |-> (t.day + 1) % 7, tick |-> tick - TicksPerDay]
      ELSE [day |-> t.day, tick |-> tick]

IsOvernight(w) == w.end < w.start

(* A plausible slip: the day before is taken all day long.                 *)
CheckYesterday(w, t) == IF IsOvernight(w) THEN (t.day + 6) % 7 ELSE t.day

(* The day an overnight window belongs to is the day it started.           *)
CheckDay(w, t) ==
  IF IsOvernight(w) /\ t.tick < Minute * w.end THEN (t.day + 6) % 7 ELSE t.day

(* shouldBeSleepingAtWindow                                                *)
InWindow(w, time) ==
  LET t == Plus(time, w.offset)
      afterStart == t.tick > Minute * w.start
      beforeEnd == t.tick < Minute * w.end
  IN  /\ w.days # {} => CheckDay(w, t) \in w.days
      /\ IF IsOvernight(w) THEN afterStart \/ beforeEnd ELSE afterStart /\ beforeEnd

ShouldBeSleepingAt(windows, t) == \E w \in windows : InWindow(w, t)

(* timeUntilNextTransition: the first of a day's whole minutes from now at *)
(* which the answer is another one, in ticks, or 0.                        *)
TimeUntilNextTransition(windows, t) ==
  LET changed ==
        {i \in 1..MinutesPerDay :
           ShouldBeSleepingAt(windows, Plus(t, i * Minute)) # ShouldBeSleepingAt(windows, t)}
  IN  IF changed = {} THEN 0
      ELSE Minute * (CHOOSE i \in changed : \A j \in changed : i <= j)

-----------------------------------------------------------------------------
(* What a window means: on each of its days it opens once, at its start,   *)
(* for as long as it takes to reach its end, the bounds excluded.          *)
OpeningDays(w) == IF w.days = {} THEN Days ELSE w.days

Length(w) ==
  Minute * (w.end - w.start) + (IF w.end < w.start THEN TicksPerDay ELSE 0)

(* Local time t is in the period the window opens on day d.                *)
InPeriod(w, d, t) ==
  LET since == t.tick - Minute * w.start + (IF t.day = d THEN 0 ELSE TicksPerDay)
  IN  /\ t.day \in {d, (d + 1) % 7}
      /\ 0 < since
      /\ since < Length(w)

InSomePeriod(w, t) == \E d \in OpeningDays(w) : InPeriod(w, d, Plus(t, w.offset))
=============================================================================
