--------------------------- MODULE MCSleepTiming ---------------------------
(***************************************************************************)
(* Instances of SleepTiming for TLC, on days of twenty-five minutes.        *)
(***************************************************************************)
EXTENDS SleepTiming

Window(start, end, days, offset) ==
  [start |-> start, end |-> end, days |-> days, offset |-> offset]

Weekdays == {1, 2, 3, 4, 5}

(* An overnight window on weekdays, with or without a gap, in two          *)
(* timezones that split a day, and windows that abut it, overlap it or     *)
(* last a minute.                                                          *)
Night == Window(19, 5, Weekdays \ {3}, 0)
EastNight == Window(19, 5, Weekdays, 11)
Dawn == Window(5, 9, {}, 0)
Minutes == Window(12, 13, {0, 2}, 0)

UserSpec(windows, interval) == [suspend |-> FALSE, windows |-> windows, interval |-> interval]

(* The longest interval that is punctual, and a longer one; a suspended    *)
(* schedule and one without windows.                                       *)
Specifications ==
  {UserSpec({EastNight, Dawn, Minutes}, ApproachingWindow), UserSpec({Night, Minutes}, 12 * Minute),
   [UserSpec({Night}, 1) EXCEPT !.suspend = TRUE], UserSpec({}, 1)}
=============================================================================
