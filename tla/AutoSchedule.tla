---------------------------- MODULE AutoSchedule ----------------------------
(***************************************************************************)
(* The AutoSchedulePolicy controller: policies that give every namespace   *)
(* they match a SleepSchedule made from the profile its label names, and   *)
(* take it away again.                                                     *)
(*                                                                         *)
(* The controller has one worker, so passes over the policies follow each  *)
(* other; users, the informer of the schedules and the namespaces go on    *)
(* between any two API calls of a pass.  Policies and namespaces are read  *)
(* where the pass lists them: reading an old copy of them is having begun  *)
(* the pass earlier.  Schedules are read from the informer's copy (seen),  *)
(* which the pass itself makes old.                                        *)
(***************************************************************************)
EXTENDS Naturals

CONSTANTS
  Policies,           \* names of policies
  Namespaces,
  Labels,             \* the sets of labels a namespace may carry
  Names,              \* the names generated schedules may be given
  Contents,           \* what sleepSpecEqual can tell apart in a schedule
  Specs,              \* the specs users give policies:
                      \*   suspend : BOOLEAN
                      \*   name    : generatedName, one of Names
                      \*   serves  : maps each of the Labels the policy's
                      \*     namespaceSelector selects to the Contents of the
                      \*     profile they name, or to Missing
  Bounds              \* how many changes by users, and how many failed calls
                      \* and crashes there may be: one of these

(* No profile of that name; no schedule.                                   *)
Missing == "missing"
Nothing == "nothing"

(* Owners of schedules that are not policies: somebody without the         *)
(* managed-by label, and nobody, where there is no schedule.               *)
Manual == "manual"
Nobody == "nobody"

(* What a namespace without labels carries.                                *)
Bare == "bare"

ASSUME ConstantsAssumption ==
  /\ {Manual, Nobody} \cap Policies = {}
  /\ {Missing, Nothing} \cap Contents = {}
  /\ Bare \in Labels
  /\ Specs # {}
  /\ \A spec \in Specs :
       /\ spec.suspend \in BOOLEAN
       /\ spec.name \in Names
       /\ DOMAIN spec.serves \subseteq Labels
       /\ \A l \in DOMAIN spec.serves : spec.serves[l] \in Contents \cup {Missing}
  /\ Bounds \subseteq [changes : Nat, aborts : Nat]

VARIABLES
  policy,             \* each policy in the API server
  label,              \* the labels of each namespace
  terminating,        \* namespaces being deleted
  sched,              \* the schedule in each slot, in the API server
  seen,               \* the informer's copy of it
  pc,                 \* where the pass stands
  cur,                \* the policy it is about
  copy,               \* its copy of that policy's spec
  fresh,              \* whether that copy is at the API server's version
  wanted,             \* the contents it has still to see to, per namespace
  report,             \* what the pass will report of each namespace
  doomed,             \* the slots it has still to delete
  status,             \* what the policy's status says of each namespace
  overlooked,         \* history: schedules the clean-up of their deleted
                      \* policy did not see
  left                \* what is left of each bound

vars == <<policy, label, terminating, sched, seen, pc, cur, copy, fresh, wanted,
          report, doomed, status, overlooked, left>>

world == <<policy, label, terminating, sched, seen, status, overlooked, left>>

pass == <<pc, cur, copy, fresh, wanted, report, doomed>>

-----------------------------------------------------------------------------
Slots == Namespaces \X Names

NoSchedule == [owner |-> Nobody, content |-> Nothing]

SomeSpec == CHOOSE spec \in Specs : TRUE

NoPolicy == [exists |-> FALSE, deleting |-> FALSE, finalizer |-> FALSE, spec |-> SomeSpec]

Live(p) == policy[p].exists /\ ~policy[p].deleting

(* namespaceMatchesPolicy                                                  *)
Matches(spec, n) == label[n] \in DOMAIN spec.serves

(* overlappingPolicies is not empty: another policy that is not being      *)
(* deleted, suspended or not, matches too.                                 *)
Overlap(p, n) == \E q \in Policies \ {p} : Live(q) /\ Matches(policy[q].spec, n)

(* What a pass of p with this spec makes of namespace n before it looks at *)
(* the schedules: overlap comes before a missing profile.                  *)
Verdict(p, spec, n) ==
  CASE ~Matches(spec, n)                 -> "none"
    [] Overlap(p, n)                     -> "conflict"
    [] spec.serves[label[n]] = Missing   -> "missing"
    [] OTHER                             -> "wanted"

NoneWanted == [n \in Namespaces |-> Nothing]
NothingReported == [n \in Namespaces |-> "none"]

(* The pass is over; what it has not written is lost.                      *)
End ==
  /\ pc' = "idle"
  /\ cur' = Nobody
  /\ copy' = SomeSpec
  /\ fresh' = FALSE
  /\ wanted' = NoneWanted
  /\ report' = NothingReported
  /\ doomed' = {}

Spend(bound) ==
  /\ left[bound] > 0
  /\ left' = [left EXCEPT ![bound] = @ - 1]

-----------------------------------------------------------------------------
(* Reconcile: the read of the policy and the first branches.  A suspended  *)
(* policy with its finalizer is left alone.                                *)
Begin(p, at) ==
  /\ pc = "idle"
  /\ policy[p].exists
  /\ pc' = at
  /\ cur' = p
  /\ copy' = policy[p].spec
  /\ fresh' = TRUE
  /\ UNCHANGED <<world, wanted, report, doomed>>

StartDeletion(p) == policy[p].deleting /\ Begin(p, "purge")

StartWithoutFinalizer(p) == Live(p) /\ ~policy[p].finalizer /\ Begin(p, "finalizer")

StartSurvey(p) ==
  /\ Live(p)
  /\ policy[p].finalizer
  /\ ~policy[p].spec.suspend
  /\ Begin(p, "survey")

Start(p) == StartDeletion(p) \/ StartWithoutFinalizer(p) \/ StartSurvey(p)

(* A plausible slip: the finalizer is added to the copy and not written.   *)
AddFinalizerToCopy ==
  /\ pc = "finalizer"
  /\ fresh
  /\ IF copy.suspend THEN End ELSE pc' = "survey" /\ UNCHANGED <<cur, copy, fresh, wanted, report, doomed>>
  /\ UNCHANGED world

(* The finalizer is written, and the pass goes on with the object written. *)
AddFinalizer ==
  /\ pc = "finalizer"
  /\ fresh
  /\ policy' = [policy EXCEPT ![cur].finalizer = TRUE]
  /\ IF copy.suspend THEN End ELSE pc' = "survey" /\ UNCHANGED <<cur, copy, fresh, wanted, report, doomed>>
  /\ UNCHANGED <<label, terminating, sched, seen, status, overlooked, left>>

(* The lists of the namespaces and of the other policies.                  *)
Survey ==
  LET verdict == [n \in Namespaces |-> Verdict(cur, copy, n)]
  IN  /\ pc = "survey"
      /\ wanted' = [n \in Namespaces |->
                      IF verdict[n] = "wanted" THEN copy.serves[label[n]] ELSE Nothing]
      /\ report' = [n \in Namespaces |->
                      IF verdict[n] = "wanted" THEN "none" ELSE verdict[n]]
      /\ pc' = "visit"
      /\ UNCHANGED <<world, cur, copy, fresh, doomed>>

-----------------------------------------------------------------------------
(* One namespace of the loop, in whatever order the list has them; the     *)
(* outcome is what the pass will report of it.                             *)
Visit(n, outcome) ==
  /\ pc = "visit"
  /\ wanted[n] # Nothing
  /\ wanted' = [wanted EXCEPT ![n] = Nothing]
  /\ report' = [report EXCEPT ![n] = outcome]
  /\ UNCHANGED <<policy, label, terminating, seen, status, overlooked, left,
                 pc, cur, copy, fresh, doomed>>

Slot(n) == <<n, copy.name>>

Desired(n) == [owner |-> cur, content |-> wanted[n]]

(* Get does not find the schedule: create it.                              *)
CreateSchedule(n) ==
  /\ Visit(n, "generated")
  /\ seen[Slot(n)] = NoSchedule
  /\ sched[Slot(n)] = NoSchedule
  /\ n \notin terminating
  /\ sched' = [sched EXCEPT ![Slot(n)] = Desired(n)]

(* Get finds a schedule without this policy's label.                       *)
LeaveForeign(n) ==
  /\ Visit(n, "conflict")
  /\ seen[Slot(n)].owner \notin {Nobody, cur}
  /\ UNCHANGED sched

KeepSchedule(n) ==
  /\ Visit(n, "generated")
  /\ seen[Slot(n)] = Desired(n)
  /\ UNCHANGED sched

(* A plausible slip: the label of what is found is not looked at.          *)
UpdateAdopting(n) ==
  /\ Visit(n, "generated")
  /\ seen[Slot(n)].owner # Nobody
  /\ seen[Slot(n)] # Desired(n)
  /\ seen[Slot(n)] = sched[Slot(n)]
  /\ sched' = [sched EXCEPT ![Slot(n)] = Desired(n)]

(* It is the policy's and has drifted: the spec is written back, if the    *)
(* schedule is still as it was read.                                       *)
UpdateSchedule(n) ==
  /\ Visit(n, "generated")
  /\ seen[Slot(n)].owner = cur
  /\ seen[Slot(n)] # Desired(n)
  /\ seen[Slot(n)] = sched[Slot(n)]
  /\ sched' = [sched EXCEPT ![Slot(n)] = Desired(n)]

(* A create or an update that the API server refuses ends the pass: the    *)
(* schedule exists already or has changed, or the namespace is being       *)
(* deleted.  What comes after it in the list is not looked at.             *)
VisitRefused(n) ==
  /\ pc = "visit"
  /\ wanted[n] # Nothing
  /\ \/ seen[Slot(n)] = NoSchedule /\ (sched[Slot(n)] # NoSchedule \/ n \in terminating)
     \/ seen[Slot(n)].owner = cur /\ seen[Slot(n)] \notin {Desired(n), sched[Slot(n)]}
  /\ End
  /\ UNCHANGED world

(* A plausible slip: a schedule is kept whatever its name.                 *)
KeptInNamespace(slot) == report[slot[1]] = "generated"

(* keep, in deleteOrphanedSchedules.                                       *)
Kept(slot) == report[slot[1]] = "generated" /\ slot[2] = copy.name

(* deleteOrphanedSchedules: list what carries the policy's label.          *)
ListOrphans ==
  /\ pc = "visit"
  /\ wanted = NoneWanted
  /\ doomed' = {slot \in Slots : seen[slot].owner = cur /\ ~Kept(slot)}
  /\ pc' = "delete"
  /\ UNCHANGED <<world, cur, copy, fresh, wanted, report>>

(* deleteAllManagedSchedules: the same for all that carries it.            *)
ListManaged ==
  /\ pc = "purge"
  /\ doomed' = {slot \in Slots : seen[slot].owner = cur}
  /\ pc' = "purging"
  /\ overlooked' = {slot \in overlooked : sched[slot].owner # cur} \cup
                   {slot \in Slots : sched[slot].owner = cur /\ seen[slot].owner # cur}
  /\ UNCHANGED <<policy, label, terminating, sched, seen, status, left,
                 cur, copy, fresh, wanted, report>>

(* One delete of either loop, of whatever has that name by now.            *)
DeleteOne(slot) ==
  /\ pc \in {"delete", "purging"}
  /\ slot \in doomed
  /\ doomed' = doomed \ {slot}
  /\ sched' = [sched EXCEPT ![slot] = NoSchedule]
  /\ overlooked' = overlooked \ {slot}
  /\ UNCHANGED <<policy, label, terminating, seen, status, left,
                 pc, cur, copy, fresh, wanted, report>>

(* updateStatus                                                            *)
UpdateStatus ==
  /\ pc = "delete"
  /\ doomed = {}
  /\ fresh
  /\ status' = [status EXCEPT ![cur] = report]
  /\ End
  /\ UNCHANGED <<policy, label, terminating, sched, seen, overlooked, left>>

(* The finalizer is removed, and with it the policy.                       *)
RemoveFinalizer ==
  /\ pc = "purging"
  /\ doomed = {}
  /\ fresh
  /\ policy' = [policy EXCEPT ![cur] = NoPolicy]
  /\ status' = [status EXCEPT ![cur] = NothingReported]
  /\ End
  /\ UNCHANGED <<label, terminating, sched, seen, overlooked, left>>

(* A write of the policy or of its status at an old version is refused.    *)
PolicyRefused ==
  /\ \/ pc = "finalizer"
     \/ pc \in {"delete", "purging"} /\ doomed = {}
  /\ ~fresh
  /\ End
  /\ UNCHANGED world

(* Any other error of a call, or a crash of the operator.                  *)
Abort ==
  /\ pc # "idle"
  /\ Spend("aborts")
  /\ End
  /\ UNCHANGED <<policy, label, terminating, sched, seen, status, overlooked>>

Step ==
  \/ AddFinalizer \/ Survey \/ ListOrphans \/ ListManaged
  \/ UpdateStatus \/ RemoveFinalizer \/ PolicyRefused
  \/ \E n \in Namespaces :
       CreateSchedule(n) \/ LeaveForeign(n) \/ KeepSchedule(n) \/ UpdateSchedule(n) \/ VisitRefused(n)
  \/ \E slot \in doomed : DeleteOne(slot)

-----------------------------------------------------------------------------
(* The environment.  The informer catches up with one schedule.            *)
Sync(slot) ==
  /\ seen[slot] # sched[slot]
  /\ seen' = [seen EXCEPT ![slot] = sched[slot]]
  /\ UNCHANGED <<policy, label, terminating, sched, status, overlooked, left, pass>>

(* A user deletes a schedule, creates or replaces one by hand (which takes *)
(* the label off it), or changes a generated one.                          *)
UserEdit(slot) ==
  /\ Spend("changes")
  /\ slot[1] \notin terminating
  /\ \E s \in {NoSchedule} \cup [owner : {Manual}, content : Contents] \cup
              [owner : {sched[slot].owner} \cap Policies, content : Contents] :
       s # sched[slot] /\ sched' = [sched EXCEPT ![slot] = s]
  /\ overlooked' = IF sched'[slot].owner = sched[slot].owner THEN overlooked
                   ELSE overlooked \ {slot}
  /\ UNCHANGED <<policy, label, terminating, seen, status, pass>>

UserLabels(n) ==
  /\ Spend("changes")
  /\ \E l \in Labels \ {label[n]} : label' = [label EXCEPT ![n] = l]
  /\ UNCHANGED <<policy, terminating, sched, seen, status, overlooked, pass>>

(* A user deletes a namespace; what is in it goes first.                   *)
UserDeletesNamespace(n) ==
  /\ Spend("changes")
  /\ n \notin terminating
  /\ terminating' = terminating \cup {n}
  /\ sched' = [slot \in Slots |-> IF slot[1] = n THEN NoSchedule ELSE sched[slot]]
  /\ overlooked' = {slot \in overlooked : slot[1] # n}
  /\ UNCHANGED <<policy, label, seen, status, pass>>

(* Then it goes itself; another one of that name may be labelled later.    *)
NamespaceGone(n) ==
  /\ n \in terminating
  /\ terminating' = terminating \ {n}
  /\ label' = [label EXCEPT ![n] = Bare]
  /\ UNCHANGED <<policy, sched, seen, status, overlooked, left, pass>>

(* A user creates, changes or deletes a policy, which makes the pass's     *)
(* copy of it old.  Without finalizer a deleted policy is gone at once.    *)
PolicyChange(p, changed) ==
  /\ Spend("changes")
  /\ policy' = [policy EXCEPT ![p] = changed]
  /\ fresh' = (fresh /\ cur # p)
  /\ status' = IF changed.exists THEN status ELSE [status EXCEPT ![p] = NothingReported]
  /\ UNCHANGED <<label, terminating, sched, seen, overlooked, pc, cur, copy, wanted, report, doomed>>

UserCreatesPolicy(p) ==
  /\ ~policy[p].exists
  /\ \E spec \in Specs : PolicyChange(p, [NoPolicy EXCEPT !.exists = TRUE, !.spec = spec])

UserChangesPolicy(p) ==
  /\ policy[p].exists
  /\ \E spec \in Specs \ {policy[p].spec} : PolicyChange(p, [policy[p] EXCEPT !.spec = spec])

UserDeletesPolicy(p) ==
  /\ Live(p)
  /\ PolicyChange(p, IF policy[p].finalizer THEN [policy[p] EXCEPT !.deleting = TRUE] ELSE NoPolicy)

Environment ==
  \/ \E slot \in Slots : Sync(slot) \/ UserEdit(slot)
  \/ \E n \in Namespaces : UserLabels(n) \/ UserDeletesNamespace(n) \/ NamespaceGone(n)
  \/ \E p \in Policies : UserCreatesPolicy(p) \/ UserChangesPolicy(p) \/ UserDeletesPolicy(p)

-----------------------------------------------------------------------------
(* The operator starts in a cluster in which users have labelled           *)
(* namespaces and created policies, or not.                                *)
Init ==
  /\ policy \in [Policies -> {NoPolicy} \cup
                  {[NoPolicy EXCEPT !.exists = TRUE, !.spec = spec] : spec \in Specs}]
  /\ label \in [Namespaces -> Labels]
  /\ terminating = {}
  /\ sched = [slot \in Slots |-> NoSchedule]
  /\ seen = sched
  /\ pc = "idle"
  /\ cur = Nobody
  /\ copy = SomeSpec
  /\ fresh = FALSE
  /\ wanted = NoneWanted
  /\ report = NothingReported
  /\ doomed = {}
  /\ status = [p \in Policies |-> NothingReported]
  /\ overlooked = {}
  /\ left \in Bounds

Next == Environment \/ (\E p \in Policies : Start(p)) \/ Step \/ Abort

Spec == Init /\ [][Next]_vars

(* Every policy is requeued or retried whatever the pass returned, and the *)
(* work queue is first-in, first-out; a pass goes on; the informer catches *)
(* up; a namespace being deleted is gone in the end.                       *)
Fairness ==
  /\ \A p \in Policies : SF_vars(Start(p))
  /\ WF_vars(Step)
  /\ \A slot \in Slots : WF_vars(Sync(slot))
  /\ \A n \in Namespaces : WF_vars(NamespaceGone(n))

FairSpec == Spec /\ Fairness

-----------------------------------------------------------------------------
Schedule ==
  [owner : Policies \cup {Manual}, content : Contents] \cup {NoSchedule}

Policy == [exists : BOOLEAN, deleting : BOOLEAN, finalizer : BOOLEAN, spec : Specs]

Reports == {"none", "generated", "conflict", "missing"}

Places == {"idle", "finalizer", "survey", "visit", "delete", "purge", "purging"}

TypeOK ==
  /\ policy \in [Policies -> Policy]
  /\ label \in [Namespaces -> Labels]
  /\ terminating \subseteq Namespaces
  /\ sched \in [Slots -> Schedule]
  /\ seen \in [Slots -> Schedule]
  /\ pc \in Places
  /\ cur \in Policies \cup {Nobody}
  /\ copy \in Specs
  /\ fresh \in BOOLEAN
  /\ wanted \in [Namespaces -> Contents \cup {Nothing}]
  /\ report \in [Namespaces -> Reports]
  /\ doomed \subseteq Slots
  /\ status \in [Policies -> [Namespaces -> Reports]]
  /\ overlooked \subseteq Slots
  /\ left \in [changes : Nat, aborts : Nat]

(* "AutoSchedulePolicyFinalizer ensures generated SleepSchedules are       *)
(* deleted before the policy itself is removed from the API server": a     *)
(* schedule whose policy is gone is one the informer had not shown yet     *)
(* when the clean-up listed them.                                          *)
FinalizerCleans ==
  \A slot \in Slots :
    sched[slot].owner \in Policies => policy[sched[slot].owner].finalizer \/ slot \in overlooked

(* Only what exists has a finalizer, and only that keeps a deleted policy. *)
FinalizerHolds ==
  \A p \in Policies :
    /\ policy[p].finalizer => policy[p].exists
    /\ policy[p].deleting => policy[p].finalizer

(* From where its finalizer is written a pass has a policy with one.       *)
PassHasFinalizer ==
  /\ pc # "idle" => cur \in Policies
  /\ pc \in {"survey", "visit", "delete", "purge", "purging"} => policy[cur].finalizer
  /\ pc \in {"purge", "purging"} => policy[cur].deleting

(* What the clean-up has still to delete is all that is left but for what  *)
(* it overlooked.                                                          *)
PurgeIsComplete ==
  pc = "purging" =>
    \A slot \in Slots : sched[slot].owner = cur => slot \in doomed \cup overlooked

(* A pass at the API server's version works from the spec there is, and    *)
(* past its first branches from one that is not suspended.                 *)
FreshCopy ==
  /\ pc # "idle" /\ fresh => policy[cur].exists /\ copy = policy[cur].spec
  /\ pc \in {"survey", "visit", "delete"} => ~copy.suspend

(* The informer may show a schedule of a policy that is gone, or that a    *)
(* user has replaced, but none that belongs to another policy by now, for  *)
(* a policy makes one only where the informer shows none.                  *)
SeenOwners ==
  \A slot \in Slots :
    seen[slot].owner \in Policies => sched[slot].owner \in {seen[slot].owner, Manual, Nobody}

(* So nothing another policy has made is listed for deletion.              *)
DoomedOwners ==
  pc \in {"delete", "purging"} =>
    \A slot \in doomed : sched[slot].owner \in {cur, Manual, Nobody}

IInv ==
  /\ TypeOK
  /\ FinalizerCleans
  /\ FinalizerHolds
  /\ PassHasFinalizer
  /\ PurgeIsComplete
  /\ FreshCopy
  /\ SeenOwners
  /\ DoomedOwners

(* What a pass changes or deletes is its own policy's, whatever users do   *)
(* between its calls, except for a schedule somebody put by hand in the    *)
(* place of one the pass had listed for deletion; and once a user has      *)
(* suspended a policy only a pass that had read it before still changes    *)
(* its schedules.                                                          *)
KeepsToItsOwn ==
  [][\A slot \in Slots :
       LET owner == sched[slot].owner
       IN  left' = left /\ owner # Nobody /\ sched'[slot] # sched[slot]
           => /\ owner = cur \/ (owner = Manual /\ slot \in doomed)
              /\ policy[cur].spec.suspend => policy[cur].deleting \/ ~fresh]_vars

(* A namespace has the policy's schedule if the policy alone matches it,   *)
(* has its profile, and no other schedule of that name is in the way.      *)
Serves(p, n) ==
  /\ Verdict(p, policy[p].spec, n) = "wanted"
  /\ sched[<<n, policy[p].spec.name>>].owner \in {p, Nobody}

Settled(p) ==
  /\ ~policy[p].deleting
  /\ Live(p) /\ ~policy[p].spec.suspend =>
       \A n \in Namespaces :
         /\ \A name \in Names :
              sched[<<n, name>>].owner = p <=> Serves(p, n) /\ name = policy[p].spec.name
         /\ Serves(p, n) =>
              sched[<<n, policy[p].spec.name>>].content = policy[p].spec.serves[label[n]]
         /\ status[p][n] =
              CASE Serves(p, n) -> "generated"
                [] Verdict(p, policy[p].spec, n) = "wanted" /\ ~Serves(p, n) -> "conflict"
                [] OTHER -> Verdict(p, policy[p].spec, n)

(* When users have stopped changing things, deleted policies go away, and  *)
(* for every other one that is not suspended the schedules it owns become  *)
(* and remain exactly those it should have, and its status says so:        *)
(* through failed calls, old copies, policies that overlap or hand a       *)
(* namespace over to each other, and namespaces that are deleted.          *)
Converges == \A p \in Policies : <>[]Settled(p)

-----------------------------------------------------------------------------
(* What the repository says of the controller and the code does not do.    *)

(* "Manually-managed SleepSchedules sharing the same name as the generated *)
(* one are never touched."                                                 *)
ManualUntouched ==
  [][\A slot \in Slots :
       left' = left /\ sched[slot].owner = Manual => sched'[slot] = sched[slot]]_vars
=============================================================================
