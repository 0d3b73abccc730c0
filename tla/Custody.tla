------------------------------ MODULE Custody ------------------------------
(***************************************************************************)
(* What sleep schedules promise the users of their workloads, with no word *)
(* of loops, copies, versions or statuses.  A schedule that stops a        *)
(* workload holds it, with the setting it had.  Once it has pledged to     *)
(* restore it, the workload leaves its hands only                          *)
(*   - with exactly that setting, when the schedule wakes,                 *)
(*   - through a user, who sets it as he likes,                            *)
(*   - through another schedule that wakes, or                             *)
(*   - by being renounced while the schedule is awake, or with the         *)
(*     schedule itself;                                                    *)
(* and a schedule that stops sleeping holds nothing it has pledged, except *)
(* what it could not read.                                                 *)
(***************************************************************************)
EXTENDS Workload

CONSTANTS Schedules, Workloads, KindOf

VARIABLES
  setting,            \* the setting of each workload
  hold,               \* who holds it, from which setting, and the pledge
  sleeping,           \* the schedules that say they sleep
  existing,           \* the schedules there are
  waking,             \* the schedules that are restoring workloads
  excused,            \* the held workloads that could not be read
  edits               \* how often users have set a workload

vars == <<setting, hold, sleeping, existing, waking, excused, edits>>

Free == [pledged |-> FALSE]

Hold(s, was, pledged) == [by |-> s, was |-> was, pledged |-> pledged]

Pledged(w, s) == hold[w].pledged /\ hold[w].by = s

(* Another setting, of w and no other workload.                            *)
Reset(w) ==
  /\ setting' = [setting EXCEPT ![w] = setting'[w]]
  /\ setting'[w] \in Settings(KindOf[w])

-----------------------------------------------------------------------------
Edit(w) ==
  /\ edits' = edits + 1
  /\ Reset(w)
  /\ hold' = [hold EXCEPT ![w] = Free]
  /\ excused' = excused \ {w}
  /\ UNCHANGED <<sleeping, existing, waking>>

(* Only what runs and is nobody's is stopped.                              *)
Stop(s, w) ==
  /\ hold[w] = Free
  /\ Running(KindOf[w], setting[w])
  /\ setting' = [setting EXCEPT ![w] = Quiesce(KindOf[w], @)]
  /\ hold' = [hold EXCEPT ![w] = Hold(s, setting[w], FALSE)]
  /\ UNCHANGED <<sleeping, existing, waking, excused, edits>>

Pledge(s, w) ==
  /\ s \in existing
  /\ hold[w] # Free /\ hold[w].by = s
  /\ hold' = [hold EXCEPT ![w] = Hold(s, hold[w].was, TRUE)]
  /\ UNCHANGED <<setting, sleeping, existing, waking, excused, edits>>

(* A schedule that wakes writes a workload; with the last one it is done.  *)
Write(s, w) ==
  /\ s \in waking
  /\ waking' \in {waking, waking \ {s}}
  /\ hold' = [hold EXCEPT ![w] = Free]
  /\ excused' = excused \ {w}
  /\ UNCHANGED <<sleeping, existing, edits>>

GiveBack(s, w) ==
  /\ Pledged(w, s)
  /\ Write(s, w)
  /\ setting' = [setting EXCEPT ![w] = hold[w].was]

(* Not its own pledge: a setting from a record of its own.                 *)
Override(s, w) ==
  /\ ~Pledged(w, s)
  /\ Write(s, w)
  /\ Reset(w)

(* A workload it holds cannot be read.                                     *)
Excuse(s, w) ==
  /\ s \in waking
  /\ waking' \in {waking, waking \ {s}}
  /\ excused' = excused \cup {w}
  /\ UNCHANGED <<setting, hold, sleeping, existing, edits>>

StartWaking(s) ==
  /\ waking' = waking \cup {s}
  /\ UNCHANGED <<setting, hold, sleeping, existing, excused, edits>>

StopWaking(s) ==
  /\ waking' = waking \ {s}
  /\ UNCHANGED <<setting, hold, sleeping, existing, excused, edits>>

FallAsleep(s) ==
  /\ s \in existing
  /\ sleeping' = sleeping \cup {s}
  /\ UNCHANGED <<setting, hold, existing, waking, excused, edits>>

WakeUp(s) ==
  /\ \A w \in Workloads : Pledged(w, s) => w \in excused
  /\ sleeping' = sleeping \ {s}
  /\ UNCHANGED <<setting, hold, existing, waking, excused, edits>>

Renounced(s) ==
  [w \in Workloads |-> IF Pledged(w, s) THEN Hold(s, hold[w].was, FALSE) ELSE hold[w]]

Renounce(s) ==
  /\ s \notin sleeping
  /\ hold' = Renounced(s)
  /\ UNCHANGED <<setting, sleeping, existing, waking, excused, edits>>

Delete(s) ==
  /\ existing' = existing \ {s}
  /\ sleeping' = sleeping \ {s}
  /\ hold' = Renounced(s)
  /\ UNCHANGED <<setting, waking, excused, edits>>

Create(s) ==
  /\ existing' = existing \cup {s}
  /\ UNCHANGED <<setting, hold, sleeping, waking, excused, edits>>

-----------------------------------------------------------------------------
Init ==
  /\ setting \in [Workloads -> AnySetting]
  /\ hold = [w \in Workloads |-> Free]
  /\ sleeping = {}
  /\ existing = Schedules
  /\ waking = {}
  /\ excused = {}
  /\ edits = 0

Next ==
  \/ \E w \in Workloads : Edit(w)
  \/ \E s \in Schedules :
       \/ StartWaking(s) \/ StopWaking(s) \/ FallAsleep(s) \/ WakeUp(s)
       \/ Renounce(s) \/ Delete(s) \/ Create(s)
       \/ \E w \in Workloads :
            Stop(s, w) \/ Pledge(s, w) \/ GiveBack(s, w) \/ Override(s, w) \/ Excuse(s, w)

Spec == Init /\ [][Next]_vars
=============================================================================
