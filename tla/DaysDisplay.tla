---------------------------- MODULE DaysDisplay ----------------------------
(***************************************************************************)
(* status.daysDisplay: the days of all windows of a schedule, merged and   *)
(* shown as ranges.  A range [start, end] stands for the text "Mon",       *)
(* "Mon,Tue" or "Mon-Fri"; "Every day" has no ranges.                      *)
(***************************************************************************)
EXTENDS Integers, SequencesExt

NoDisplay == [every |-> FALSE, ranges |-> <<>>]

EveryDay == [every |-> TRUE, ranges |-> <<>>]

(* A plausible slip: a day that ends a range also starts the next one.     *)
ExtendShared(ranges, d) ==
  IF ranges # <<>> /\ Last(ranges).end + 1 = d
  THEN [ranges EXCEPT ![Len(ranges)].end = d]
  ELSE Append(ranges, [start |-> IF ranges = <<>> THEN d ELSE Last(ranges).end, end |-> d])

(* The next day in order extends the last range or starts another one.     *)
Extend(ranges, d) ==
  IF ranges # <<>> /\ Last(ranges).end + 1 = d
  THEN [ranges EXCEPT ![Len(ranges)].end = d]
  ELSE Append(ranges, [start |-> d, end |-> d])

(* The ranges of the days so far, the last of them being the last to come. *)
RangesOf(days) ==
  MapThenFoldSet(LAMBDA d, ranges : Extend(ranges, d), <<>>,
                 LAMBDA d : d, LAMBDA some : Max(some), days)

DaysToDisplay(days) ==
  IF days = {} THEN EveryDay ELSE [every |-> FALSE, ranges |-> RangesOf(days)]

AggregateDaysDisplay(windows) ==
  DaysToDisplay(IF \E w \in windows : w.days = {} THEN {}
                ELSE UNION {w.days : w \in windows})
=============================================================================
