--------------------------- MODULE SleepCustody ----------------------------
(***************************************************************************)
(* SleepSchedule implements Custody: a workload is held by the schedule    *)
(* that stopped it, and pledged while its entry is in the status in the    *)
(* API server.                                                             *)
(***************************************************************************)
EXTENDS SleepSchedule

HoldOf(w) ==
  IF IsDown(w)
  THEN [by |-> down[w].by, was |-> down[w].was, pledged |-> down[w].record = "kept"]
  ELSE [pledged |-> FALSE]

C == INSTANCE Custody WITH
       setting  <- spec,
       hold     <- [w \in Workloads |-> HoldOf(w)],
       sleeping <- {s \in Schedules : sched[s].sleeping},
       existing <- {s \in Schedules : sched[s].exists},
       waking   <- {s \in Schedules : pc[s] = "wake"},
       excused  <- missed,
       edits    <- MaxEdits - left.edits

(* What the controller does, with its loops, its old copies, refused       *)
(* writes and crashes, is what Custody promises.                           *)
Implements == C!Spec
=============================================================================
