----------------------------- MODULE IdleUsage -----------------------------
(***************************************************************************)
(* How the IdleDetector judges one workload: from the requests of its      *)
(* running pods and from what metrics-server last reported of them, while  *)
(* pods come and go, their load changes and reports lag behind or are      *)
(* missing.                                                                *)
(*                                                                         *)
(* The code divides in floating point; here usage is compared with the     *)
(* threshold exactly, so a usage that hits the threshold to the last digit *)
(* may be judged differently by the code.                                  *)
(***************************************************************************)
EXTENDS Integers, FiniteSets, FiniteSetsExt

CONSTANTS
  Pods,               \* the pods the workload may have
  Requests,           \* what the regular containers of each pod request in
                      \* all, as [cpu, mem : Nat]; zero where nothing is set
  InitRequests,       \* the same for its init containers
  Loads,              \* what a pod may use, as a set of [cpu, mem : Nat]
  Thresholds          \* the spec.thresholds users give, a set of [cpu, mem];
                      \* NotSet where absent

Resources == {"cpu", "mem"}

NotSet == -1

ASSUME UsageAssumption ==
  /\ IsFiniteSet(Pods)
  /\ \A p \in Pods, r \in Resources : {Requests[p][r], InitRequests[p][r]} \subseteq Nat
  /\ \A load \in Loads, r \in Resources : load[r] \in Nat
  /\ \A t \in Thresholds, r \in Resources : t[r] \in Nat \cup {NotSet}

VARIABLES
  threshold,          \* spec.thresholds
  running,            \* the pods in phase Running
  usage,              \* what each pod uses now
  metrics             \* what metrics-server reports, of the pods it knows

usageVars == <<threshold, running, usage, metrics>>

-----------------------------------------------------------------------------
(* A plausible slip: init containers are forgotten.                        *)
RegularRequest(p, r) == Requests[p][r]

(* What the scheduler reserves for a pod.                                  *)
PodRequest(p, r) ==
  IF InitRequests[p][r] > Requests[p][r] THEN InitRequests[p][r] ELSE Requests[p][r]

TotalOf(amount, pods) == MapThenSumSet(LAMBDA p : amount[p], pods)

TotalRequest(pods, r) == TotalOf([p \in pods |-> PodRequest(p, r)], pods)

TotalUsage(pods, reports, r) ==
  LET reported == pods \cap DOMAIN reports
  IN  TotalOf([p \in reported |-> reports[p][r]], reported)

(* A plausible slip: nothing reported is nothing used.                     *)
HasDataWithoutReports(pods, reports) == \E r \in Resources : TotalRequest(pods, r) > 0

(* hasData of computeUsagePercent: something is requested, and a pod's     *)
(* metrics are there.                                                      *)
HasData(pods, reports) ==
  /\ \E r \in Resources : TotalRequest(pods, r) > 0
  /\ pods \cap DOMAIN reports # {}

(* usagePercent < threshold, where the percentage of nothing is zero.      *)
BelowThreshold(pods, reports, r) ==
  LET requested == TotalRequest(pods, r)
  IN  IF requested = 0 THEN 0 < threshold[r]
      ELSE 100 * TotalUsage(pods, reports, r) < threshold[r] * requested

(* A plausible slip: one threshold of two is enough.                       *)
IsIdleByAnyThreshold(pods, reports) ==
  \E r \in Resources : threshold[r] # NotSet /\ BelowThreshold(pods, reports, r)

(* isIdleByThresholds                                                      *)
IsIdleByThresholds(pods, reports) ==
  LET limited == {r \in Resources : threshold[r] # NotSet}
  IN  limited # {} /\ \A r \in limited : BelowThreshold(pods, reports, r)

(* checkWorkloadMetrics, and checkCronJobMetrics of the pods of a          *)
(* CronJob's active Jobs.                                                  *)
IsIdle(pods, reports) ==
  /\ pods # {}
  /\ HasData(pods, reports)
  /\ IsIdleByThresholds(pods, reports)

-----------------------------------------------------------------------------
StartPod(p) ==
  /\ p \notin running
  /\ running' = running \cup {p}
  /\ \E load \in Loads : usage' = [usage EXCEPT ![p] = load]
  /\ UNCHANGED <<threshold, metrics>>

(* Its metrics may be reported for some time after it is gone.             *)
StopPod(p) ==
  /\ p \in running
  /\ running' = running \ {p}
  /\ UNCHANGED <<threshold, usage, metrics>>

ChangeLoad(p) ==
  /\ p \in running
  /\ \E load \in Loads \ {usage[p]} : usage' = [usage EXCEPT ![p] = load]
  /\ UNCHANGED <<threshold, running, metrics>>

Report(p) ==
  /\ p \in running
  /\ metrics' = [q \in DOMAIN metrics \cup {p} |-> IF q = p THEN usage[p] ELSE metrics[q]]
  /\ UNCHANGED <<threshold, running, usage>>

Forget(p) ==
  /\ p \in DOMAIN metrics
  /\ metrics' = [q \in DOMAIN metrics \ {p} |-> metrics[q]]
  /\ UNCHANGED <<threshold, running, usage>>

UsageInit ==
  /\ threshold \in Thresholds
  /\ running = {}
  /\ usage \in [Pods -> Loads]
  /\ metrics = [p \in {} |-> 0]

UsageNext ==
  \E p \in Pods : StartPod(p) \/ StopPod(p) \/ ChangeLoad(p) \/ Report(p) \/ Forget(p)

-----------------------------------------------------------------------------
Limited == {r \in Resources : threshold[r] # NotSet}

AllReported == running \subseteq DOMAIN metrics

(* What a pod reserves on its node: its init containers run before the     *)
(* others and not beside them.                                             *)
Reserved(p, r) == CHOOSE n \in {Requests[p][r], InitRequests[p][r]} :
                    n >= Requests[p][r] /\ n >= InitRequests[p][r]

UsesLess(p, r) == 100 * metrics[p][r] < threshold[r] * Reserved(p, r)

(* "Both CPU and memory must be below their thresholds if both are set":   *)
(* pods that are all below the thresholds make an idle workload, however   *)
(* requests and loads are spread over them.                                *)
QuietPodsAreIdle ==
  running # {} /\ Limited # {} /\ AllReported
  /\ (\A p \in running, r \in Limited : UsesLess(p, r))
  => IsIdle(running, metrics)

(* A workload is not idle if every pod is at or above one threshold.       *)
BusyPodsAreBusy ==
  running # {} /\ AllReported
  /\ (\E r \in Limited : \A p \in running : Reserved(p, r) > 0 /\ ~UsesLess(p, r))
  => ~IsIdle(running, metrics)

(* "Gracefully returns not-idle when metrics are unavailable": a workload  *)
(* without running pods, of whose running pods nothing is reported, or     *)
(* without thresholds, is not idle.                                        *)
NoDataIsNotIdle ==
  running \cap DOMAIN metrics = {} \/ Limited = {} => ~IsIdle(running, metrics)

-----------------------------------------------------------------------------
(* What the repository says of the detector and the code does not do.      *)

(* "CPUPercent is the CPU usage percentage threshold (0-100).  Workloads   *)
(* using less than this are considered idle": a workload that uses some of *)
(* a resource, and no less than the threshold of what it requests, is not  *)
(* idle, if the reports there are are up to date.                          *)
BusyIsNotIdle ==
  (\A p \in running \cap DOMAIN metrics : metrics[p] = usage[p])
  /\ (\E r \in Limited :
        LET used == TotalOf([p \in running |-> usage[p][r]], running)
        IN  used > 0 /\ 100 * used >= threshold[r] * TotalRequest(running, r))
  => ~IsIdle(running, metrics)
=============================================================================
