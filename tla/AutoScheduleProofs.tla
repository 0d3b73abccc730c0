------------------------- MODULE AutoScheduleProofs -------------------------
(***************************************************************************)
(* AutoSchedule, for any policies, namespaces, labels, specs and bounds:   *)
(* IInv is inductive, and what it implies.                                 *)
(***************************************************************************)
EXTENDS AutoSchedule, TLAPS

(* The values the controller starts from and returns to.                   *)
LEMMA NoValues ==
  /\ NoSchedule \in Schedule
  /\ NoSchedule.owner = Nobody
  /\ SomeSpec \in Specs
  /\ NoPolicy \in Policy
  /\ ~NoPolicy.exists /\ ~NoPolicy.deleting /\ ~NoPolicy.finalizer
  /\ NoneWanted \in [Namespaces -> Contents \cup {Nothing}]
  /\ NothingReported \in [Namespaces -> Reports]
  /\ \A n \in Namespaces : NoneWanted[n] = Nothing
  /\ {Manual, Nobody} \cap Policies = {} /\ Manual # Nobody
  <1>1. SomeSpec \in Specs
    BY ConstantsAssumption DEF SomeSpec
  <1>2. QED
    BY <1>1, ConstantsAssumption
       DEF NoSchedule, Schedule, NoPolicy, Policy, NoneWanted, NothingReported, Reports, Manual, Nobody

(* What a typed schedule and a typed policy consist of.                    *)
LEMMA ScheduleParts ==
  ASSUME NEW s \in Schedule
  PROVE  /\ s.owner \in Policies \cup {Manual, Nobody}
         /\ s.owner # Nobody => s.content \in Contents
         /\ s.owner = Nobody <=> s = NoSchedule
  BY NoValues DEF Schedule, NoSchedule

LEMMA ScheduleMade ==
  ASSUME NEW o \in Policies \cup {Manual}, NEW c \in Contents
  PROVE  [owner |-> o, content |-> c] \in Schedule
  BY DEF Schedule

(* Spending leaves a bound.                                                *)
LEMMA SpendType ==
  ASSUME NEW b \in {"changes", "aborts"}, left \in [changes : Nat, aborts : Nat], Spend(b)
  PROVE  left' \in [changes : Nat, aborts : Nat] /\ left' # left
  BY DEF Spend

-----------------------------------------------------------------------------
(* A pass that ends leaves nothing behind that IInv speaks of.             *)
LEMMA EndKeeps ==
  ASSUME IInv, End, UNCHANGED <<policy, label, terminating, sched, seen, overlooked>>,
         status' \in [Policies -> [Namespaces -> Reports]],
         left' \in [changes : Nat, aborts : Nat]
  PROVE  IInv'
  <1>1. TypeOK'
    BY NoValues DEF IInv, TypeOK, End, Places
  <1>2. FinalizerCleans' /\ FinalizerHolds' /\ SeenOwners'
    BY DEF IInv, FinalizerCleans, FinalizerHolds, SeenOwners
  <1>3. PassHasFinalizer' /\ PurgeIsComplete' /\ FreshCopy' /\ DoomedOwners'
    BY DEF End, PassHasFinalizer, PurgeIsComplete, FreshCopy, DoomedOwners
  <1>4. QED
    BY <1>1, <1>2, <1>3 DEF IInv

LEMMA StartKeeps ==
  ASSUME IInv, NEW p \in Policies, Start(p)
  PROVE  IInv'
  <1> USE DEF Start, StartDeletion, StartWithoutFinalizer, StartSurvey, Begin, world
  <1>1. TypeOK'
    BY DEF IInv, TypeOK, Places, Policy
  <1>2. FinalizerCleans' /\ FinalizerHolds' /\ SeenOwners'
    BY DEF IInv, FinalizerCleans, FinalizerHolds, SeenOwners
  <1>3. PassHasFinalizer' /\ PurgeIsComplete' /\ FreshCopy' /\ DoomedOwners'
    BY DEF IInv, TypeOK, FinalizerHolds, PassHasFinalizer, PurgeIsComplete, FreshCopy, DoomedOwners
  <1>4. QED
    BY <1>1, <1>2, <1>3 DEF IInv

LEMMA AddFinalizerKeeps ==
  ASSUME IInv, AddFinalizer
  PROVE  IInv'
  <1>1. cur \in Policies /\ policy \in [Policies -> Policy]
    BY DEF IInv, TypeOK, PassHasFinalizer, AddFinalizer
  <1>2. policy' = [policy EXCEPT ![cur].finalizer = TRUE]
        /\ UNCHANGED <<label, terminating, sched, seen, status, overlooked, left>>
    BY DEF AddFinalizer
  <1>3. policy' \in [Policies -> Policy] /\ policy'[cur] = [policy[cur] EXCEPT !.finalizer = TRUE]
        /\ \A p \in Policies \ {cur} : policy'[p] = policy[p]
    BY <1>1, <1>2 DEF Policy
  <1>4. TypeOK'
    BY <1>2, <1>3, NoValues DEF IInv, TypeOK, AddFinalizer, End, Places
  <1>5. \A p \in Policies :
          /\ policy'[p].finalizer <=> policy[p].finalizer \/ p = cur
          /\ policy'[p].deleting = policy[p].deleting
          /\ policy'[p].exists = policy[p].exists
          /\ policy'[p].spec = policy[p].spec
    BY <1>1, <1>3 DEF Policy
  <1>6. policy[cur].exists
    BY DEF IInv, FreshCopy, AddFinalizer
  <1>7. FinalizerCleans' /\ SeenOwners'
    BY <1>2, <1>5 DEF IInv, FinalizerCleans, SeenOwners
  <1>8. FinalizerHolds'
    BY <1>5, <1>6 DEF IInv, FinalizerHolds
  <1>9. PassHasFinalizer' /\ PurgeIsComplete' /\ FreshCopy' /\ DoomedOwners'
    BY <1>1, <1>2, <1>5
       DEF AddFinalizer, End, PassHasFinalizer, PurgeIsComplete, FreshCopy, DoomedOwners, IInv
  <1>10. QED
    BY <1>4, <1>7, <1>8, <1>9 DEF IInv

LEMMA SurveyKeeps ==
  ASSUME IInv, Survey
  PROVE  IInv'
  <1> USE DEF Survey, world
  <1>1. \A n \in Namespaces : label[n] \in DOMAIN copy.serves => copy.serves[label[n]] \in Contents \cup {Missing}
    BY ConstantsAssumption DEF IInv, TypeOK
  <1>2. \A n \in Namespaces :
          /\ Verdict(cur, copy, n) \in Reports \cup {"wanted"}
          /\ Verdict(cur, copy, n) = "wanted" => copy.serves[label[n]] \in Contents
    BY <1>1 DEF Verdict, Matches, Reports
  <1>3. wanted' \in [Namespaces -> Contents \cup {Nothing}] /\ report' \in [Namespaces -> Reports]
    BY <1>2 DEF Reports
  <1>4. TypeOK'
    BY <1>3 DEF IInv, TypeOK, Places
  <1>5. FinalizerCleans' /\ FinalizerHolds' /\ SeenOwners'
    BY DEF IInv, FinalizerCleans, FinalizerHolds, SeenOwners
  <1>6. PassHasFinalizer' /\ PurgeIsComplete' /\ FreshCopy' /\ DoomedOwners'
    BY DEF IInv, PassHasFinalizer, PurgeIsComplete, FreshCopy, DoomedOwners
  <1>7. QED
    BY <1>4, <1>5, <1>6 DEF IInv

-----------------------------------------------------------------------------
(* The slot a visit is about, and what it would write there.               *)
LEMMA VisitType ==
  ASSUME IInv, NEW n \in Namespaces, pc = "visit", wanted[n] # Nothing
  PROVE  /\ cur \in Policies
         /\ policy[cur].finalizer
         /\ Slot(n) \in Slots
         /\ Desired(n) \in Schedule
         /\ Desired(n).owner = cur
  <1>1. cur \in Policies /\ policy[cur].finalizer
    BY DEF IInv, PassHasFinalizer
  <1>2. copy.name \in Names
    BY ConstantsAssumption DEF IInv, TypeOK
  <1>3. wanted[n] \in Contents
    BY DEF IInv, TypeOK
  <1>4. QED
    BY <1>1, <1>2, <1>3, ScheduleMade DEF Slot, Slots, Desired

(* A visit that leaves the schedules alone, or writes the policy's own     *)
(* where the informer shows nothing or its own.                            *)
LEMMA VisitKeeps ==
  ASSUME IInv, NEW n \in Namespaces, NEW outcome \in Reports, Visit(n, outcome),
         \/ UNCHANGED sched
         \/ /\ sched' = [sched EXCEPT ![Slot(n)] = Desired(n)]
            /\ seen[Slot(n)].owner \in {Nobody, cur}
  PROVE  IInv'
  <1>1. /\ pc = "visit" /\ wanted[n] # Nothing
        /\ UNCHANGED <<policy, label, terminating, seen, status, overlooked, left,
                       pc, cur, copy, fresh, doomed>>
    BY DEF Visit
  <1>2. /\ cur \in Policies /\ policy[cur].finalizer
        /\ Slot(n) \in Slots /\ Desired(n) \in Schedule /\ Desired(n).owner = cur
    BY <1>1, VisitType
  <1>3. \A slot \in Slots :
          /\ sched'[slot] \in Schedule
          /\ sched'[slot] = sched[slot] \/ (slot = Slot(n) /\ sched'[slot].owner = cur)
    BY <1>2 DEF IInv, TypeOK
  <1>4. TypeOK'
    <2>1. sched' \in [Slots -> Schedule]
      BY <1>2 DEF IInv, TypeOK
    <2>2. wanted' \in [Namespaces -> Contents \cup {Nothing}] /\ report' \in [Namespaces -> Reports]
      BY DEF Visit, IInv, TypeOK
    <2>3. QED
      BY <1>1, <2>1, <2>2 DEF IInv, TypeOK
  <1>5. FinalizerCleans'
    BY <1>1, <1>2, <1>3 DEF IInv, FinalizerCleans
  <1>6. SeenOwners'
    <2>1. seen[Slot(n)].owner \in {Nobody, cur} \/ UNCHANGED sched
      OBVIOUS
    <2>2. ASSUME NEW slot \in Slots, seen[slot].owner \in Policies
          PROVE  sched'[slot].owner \in {seen[slot].owner, Manual, Nobody}
      BY <1>2, <1>3, <2>1, <2>2, NoValues DEF IInv, SeenOwners
    <2>3. QED
      BY <1>1, <2>2 DEF SeenOwners
  <1>7. FinalizerHolds' /\ PassHasFinalizer' /\ PurgeIsComplete' /\ FreshCopy' /\ DoomedOwners'
    BY <1>1 DEF IInv, FinalizerHolds, PassHasFinalizer, PurgeIsComplete, FreshCopy, DoomedOwners
  <1>8. QED
    BY <1>4, <1>5, <1>6, <1>7 DEF IInv

LEMMA AnyVisitKeeps ==
  ASSUME IInv, NEW n \in Namespaces,
         CreateSchedule(n) \/ LeaveForeign(n) \/ KeepSchedule(n) \/ UpdateSchedule(n)
  PROVE  IInv'
  <1>1. {"generated", "conflict"} \subseteq Reports
    BY DEF Reports
  <1>2. CASE CreateSchedule(n)
    BY <1>1, <1>2, VisitKeeps, NoValues DEF CreateSchedule
  <1>3. CASE LeaveForeign(n)
    BY <1>1, <1>3, VisitKeeps DEF LeaveForeign
  <1>4. CASE KeepSchedule(n)
    BY <1>1, <1>4, VisitKeeps DEF KeepSchedule
  <1>5. CASE UpdateSchedule(n)
    BY <1>1, <1>5, VisitKeeps DEF UpdateSchedule
  <1>6. QED
    BY <1>2, <1>3, <1>4, <1>5

-----------------------------------------------------------------------------
LEMMA ListOrphansKeeps ==
  ASSUME IInv, ListOrphans
  PROVE  IInv'
  <1> USE DEF ListOrphans, world
  <1>1. TypeOK'
    BY DEF IInv, TypeOK, Places
  <1>2. FinalizerCleans' /\ FinalizerHolds' /\ SeenOwners'
    BY DEF IInv, FinalizerCleans, FinalizerHolds, SeenOwners
  <1>3. PassHasFinalizer' /\ PurgeIsComplete' /\ FreshCopy'
    BY DEF IInv, PassHasFinalizer, PurgeIsComplete, FreshCopy
  <1>4. DoomedOwners'
    BY DEF IInv, SeenOwners, DoomedOwners, PassHasFinalizer
  <1>5. QED
    BY <1>1, <1>2, <1>3, <1>4 DEF IInv

LEMMA ListManagedKeeps ==
  ASSUME IInv, ListManaged
  PROVE  IInv'
  <1> USE DEF ListManaged
  <1>1. TypeOK'
    BY DEF IInv, TypeOK, Places
  <1>2. FinalizerCleans'
    <2>1. ASSUME NEW slot \in Slots, sched[slot].owner \in Policies
          PROVE  policy[sched[slot].owner].finalizer \/ slot \in overlooked'
      <3>1. CASE sched[slot].owner = cur
        BY <3>1 DEF IInv, PassHasFinalizer
      <3>2. CASE sched[slot].owner # cur
        BY <2>1, <3>2 DEF IInv, FinalizerCleans
      <3>3. QED
        BY <3>1, <3>2
    <2>2. QED
      BY <2>1 DEF FinalizerCleans
  <1>3. FinalizerHolds' /\ SeenOwners' /\ PassHasFinalizer' /\ FreshCopy'
    BY DEF IInv, FinalizerHolds, SeenOwners, PassHasFinalizer, FreshCopy
  <1>4. PurgeIsComplete'
    BY DEF PurgeIsComplete
  <1>5. DoomedOwners'
    BY DEF IInv, SeenOwners, DoomedOwners, PassHasFinalizer
  <1>6. QED
    BY <1>1, <1>2, <1>3, <1>4, <1>5 DEF IInv

LEMMA DeleteOneKeeps ==
  ASSUME IInv, NEW slot \in doomed, DeleteOne(slot)
  PROVE  IInv'
  <1>1. slot \in Slots
    BY DEF IInv, TypeOK
  <1>2. /\ doomed' = doomed \ {slot} /\ overlooked' = overlooked \ {slot}
        /\ UNCHANGED <<policy, label, terminating, seen, status, left,
                       pc, cur, copy, fresh, wanted, report>>
    BY DEF DeleteOne
  <1>3. /\ sched' \in [Slots -> Schedule]
        /\ sched'[slot] = NoSchedule
        /\ \A other \in Slots \ {slot} : sched'[other] = sched[other]
    BY <1>1, NoValues DEF DeleteOne, IInv, TypeOK
  <1>4. TypeOK'
    BY <1>2, <1>3 DEF IInv, TypeOK
  <1>5. FinalizerCleans' /\ PurgeIsComplete' /\ DoomedOwners'
    BY <1>2, <1>3, NoValues DEF IInv, FinalizerCleans, PurgeIsComplete, DoomedOwners, TypeOK, PassHasFinalizer
  <1>6. SeenOwners'
    BY <1>2, <1>3, NoValues DEF IInv, SeenOwners
  <1>7. FinalizerHolds' /\ PassHasFinalizer' /\ FreshCopy'
    BY <1>2 DEF IInv, FinalizerHolds, PassHasFinalizer, FreshCopy
  <1>8. QED
    BY <1>4, <1>5, <1>6, <1>7 DEF IInv

(* The clean-up is over: whatever the policy still owns was overlooked.    *)
LEMMA RemoveFinalizerKeeps ==
  ASSUME IInv, RemoveFinalizer
  PROVE  IInv'
  <1>1. cur \in Policies /\ pc = "purging" /\ doomed = {}
    BY DEF IInv, PassHasFinalizer, RemoveFinalizer
  <1>2. UNCHANGED <<label, terminating, sched, seen, overlooked, left>> /\ End
    BY DEF RemoveFinalizer
  <1>3. /\ policy' \in [Policies -> Policy] /\ policy'[cur] = NoPolicy
        /\ \A p \in Policies \ {cur} : policy'[p] = policy[p]
    BY <1>1, NoValues DEF RemoveFinalizer, IInv, TypeOK
  <1>4. TypeOK'
    <2>1. status' \in [Policies -> [Namespaces -> Reports]]
      BY <1>1, NoValues DEF RemoveFinalizer, IInv, TypeOK
    <2>2. QED
      BY <1>2, <1>3, <2>1, NoValues DEF IInv, TypeOK, End, Places
  <1>5. FinalizerCleans'
    <2>1. \A slot \in Slots : sched[slot].owner = cur => slot \in overlooked
      BY <1>1 DEF IInv, PurgeIsComplete
    <2>2. QED
      BY <1>2, <1>3, <2>1 DEF IInv, FinalizerCleans
  <1>6. FinalizerHolds'
    BY <1>3, NoValues DEF IInv, FinalizerHolds
  <1>7. SeenOwners' /\ PassHasFinalizer' /\ PurgeIsComplete' /\ FreshCopy' /\ DoomedOwners'
    BY <1>2 DEF End, IInv, SeenOwners, PassHasFinalizer, PurgeIsComplete, FreshCopy, DoomedOwners
  <1>8. QED
    BY <1>4, <1>5, <1>6, <1>7 DEF IInv

(* Everything else that ends a pass.                                       *)
LEMMA EndsKeep ==
  ASSUME IInv, UpdateStatus \/ PolicyRefused \/ Abort \/ (\E n \in Namespaces : VisitRefused(n))
  PROVE  IInv'
  <1>1. left \in [changes : Nat, aborts : Nat] /\ status \in [Policies -> [Namespaces -> Reports]]
        /\ report \in [Namespaces -> Reports]
    BY DEF IInv, TypeOK
  <1>2. CASE UpdateStatus
    BY <1>1, <1>2, EndKeeps DEF UpdateStatus
  <1>3. CASE PolicyRefused
    BY <1>1, <1>3, EndKeeps DEF PolicyRefused, world
  <1>4. CASE Abort
    BY <1>1, <1>4, EndKeeps, SpendType DEF Abort
  <1>5. CASE \E n \in Namespaces : VisitRefused(n)
    BY <1>1, <1>5, EndKeeps DEF VisitRefused, world
  <1>6. QED
    BY <1>2, <1>3, <1>4, <1>5

-----------------------------------------------------------------------------
(* The environment.                                                        *)
LEMMA SyncKeeps ==
  ASSUME IInv, NEW slot \in Slots, Sync(slot)
  PROVE  IInv'
  <1>1. UNCHANGED <<policy, label, terminating, sched, status, overlooked, left, pass>>
    BY DEF Sync
  <1>2. /\ seen' \in [Slots -> Schedule]
        /\ seen'[slot] = sched[slot]
        /\ \A other \in Slots \ {slot} : seen'[other] = seen[other]
    BY DEF Sync, IInv, TypeOK
  <1>3. TypeOK'
    BY <1>1, <1>2 DEF IInv, TypeOK, pass
  <1>4. SeenOwners'
    BY <1>1, <1>2 DEF IInv, SeenOwners
  <1>5. FinalizerCleans' /\ FinalizerHolds' /\ PassHasFinalizer' /\ PurgeIsComplete'
        /\ FreshCopy' /\ DoomedOwners'
    BY <1>1 DEF pass, IInv, FinalizerCleans, FinalizerHolds, PassHasFinalizer, PurgeIsComplete,
                FreshCopy, DoomedOwners
  <1>6. QED
    BY <1>3, <1>4, <1>5 DEF IInv

(* However schedules change by hand, each is afterwards its owner's, or    *)
(* nobody's or a user's.                                                   *)
LEMMA HandChangeKeeps ==
  ASSUME IInv, UNCHANGED <<policy, seen, status, pass>>,
         label' = label, terminating' \in SUBSET Namespaces,
         left' \in [changes : Nat, aborts : Nat],
         sched' \in [Slots -> Schedule],
         overlooked' \in SUBSET Slots,
         \A slot \in Slots :
           \/ /\ sched'[slot].owner = sched[slot].owner
              /\ slot \in overlooked' <=> slot \in overlooked
           \/ sched'[slot].owner \in {Manual, Nobody}
  PROVE  IInv'
  <1>1. TypeOK'
    BY DEF IInv, TypeOK, pass
  <1>2. FinalizerCleans'
    BY NoValues DEF IInv, FinalizerCleans
  <1>3. PurgeIsComplete'
    BY NoValues DEF pass, IInv, PurgeIsComplete, PassHasFinalizer
  <1>4. SeenOwners'
    BY DEF IInv, SeenOwners
  <1>5. DoomedOwners'
    <2>1. doomed \subseteq Slots /\ UNCHANGED <<pc, cur, doomed>>
      BY DEF IInv, TypeOK, pass
    <2>2. QED
      BY <2>1 DEF IInv, DoomedOwners
  <1>6. FinalizerHolds' /\ PassHasFinalizer' /\ FreshCopy'
    BY DEF pass, IInv, FinalizerHolds, PassHasFinalizer, FreshCopy
  <1>7. QED
    BY <1>1, <1>2, <1>3, <1>4, <1>5, <1>6 DEF IInv

LEMMA UserEditKeeps ==
  ASSUME IInv, NEW slot \in Slots, UserEdit(slot)
  PROVE  IInv'
  <1>1. PICK s \in {NoSchedule} \cup [owner : {Manual}, content : Contents] \cup
                   [owner : {sched[slot].owner} \cap Policies, content : Contents] :
          sched' = [sched EXCEPT ![slot] = s]
    BY DEF UserEdit
  <1>2. s \in Schedule /\ s.owner \in {sched[slot].owner, Manual, Nobody}
    BY NoValues DEF Schedule
  <1>3. /\ sched' \in [Slots -> Schedule]
        /\ sched'[slot] = s
        /\ \A other \in Slots \ {slot} : sched'[other] = sched[other]
    BY <1>1, <1>2 DEF IInv, TypeOK
  <1>4. /\ overlooked' \in SUBSET Slots
        /\ \A other \in Slots \ {slot} : other \in overlooked' <=> other \in overlooked
        /\ s.owner = sched[slot].owner => overlooked' = overlooked
    BY <1>3 DEF UserEdit, IInv, TypeOK
  <1>5. /\ left' \in [changes : Nat, aborts : Nat]
        /\ UNCHANGED <<policy, label, terminating, seen, status, pass>>
    BY SpendType DEF UserEdit, IInv, TypeOK
  <1>6. terminating' \in SUBSET Namespaces
    BY <1>5 DEF IInv, TypeOK
  <1>7. QED
    BY <1>2, <1>3, <1>4, <1>5, <1>6, HandChangeKeeps

LEMMA UserDeletesNamespaceKeeps ==
  ASSUME IInv, NEW n \in Namespaces, UserDeletesNamespace(n)
  PROVE  IInv'
  <1>1. /\ left' \in [changes : Nat, aborts : Nat]
        /\ UNCHANGED <<policy, label, seen, status, pass>>
        /\ terminating' = terminating \cup {n}
        /\ sched' = [slot \in Slots |-> IF slot[1] = n THEN NoSchedule ELSE sched[slot]]
        /\ overlooked' = {slot \in overlooked : slot[1] # n}
    BY SpendType DEF UserDeletesNamespace, IInv, TypeOK
  <1>2. /\ terminating' \in SUBSET Namespaces /\ overlooked' \in SUBSET Slots
        /\ sched' \in [Slots -> Schedule]
    BY <1>1, NoValues DEF IInv, TypeOK
  <1>3. ASSUME NEW slot \in Slots
        PROVE  \/ /\ sched'[slot].owner = sched[slot].owner
                  /\ slot \in overlooked' <=> slot \in overlooked
               \/ sched'[slot].owner \in {Manual, Nobody}
    BY <1>1, NoValues
  <1>4. QED
    BY <1>1, <1>2, <1>3, HandChangeKeeps

(* Labels and namespaces as such matter to no part of the invariant.       *)
LEMMA NamespaceKeeps ==
  ASSUME IInv, NEW n \in Namespaces, UserLabels(n) \/ NamespaceGone(n)
  PROVE  IInv'
  <1>1. UNCHANGED <<policy, sched, seen, status, overlooked, pass>>
    BY DEF UserLabels, NamespaceGone
  <1>2. /\ label' \in [Namespaces -> Labels]
        /\ terminating' \subseteq Namespaces
        /\ left' \in [changes : Nat, aborts : Nat]
    BY SpendType, ConstantsAssumption DEF UserLabels, NamespaceGone, IInv, TypeOK
  <1>3. TypeOK'
    BY <1>1, <1>2 DEF IInv, TypeOK, pass
  <1>4. FinalizerCleans' /\ FinalizerHolds' /\ PassHasFinalizer' /\ PurgeIsComplete'
        /\ FreshCopy' /\ SeenOwners' /\ DoomedOwners'
    BY <1>1 DEF pass, IInv, FinalizerCleans, FinalizerHolds, PassHasFinalizer, PurgeIsComplete,
                FreshCopy, SeenOwners, DoomedOwners
  <1>5. QED
    BY <1>3, <1>4 DEF IInv

(* A policy that a user creates, changes or deletes keeps its finalizer    *)
(* and its deletion, and no pass has a current copy of it any more.        *)
LEMMA PolicyChangeKeeps ==
  ASSUME IInv, NEW p \in Policies, NEW changed \in Policy, PolicyChange(p, changed),
         changed.finalizer = policy[p].finalizer,
         policy[p].deleting => changed.deleting,
         changed.finalizer => changed.exists,
         changed.deleting => changed.finalizer
  PROVE  IInv'
  <1>1. /\ policy' = [policy EXCEPT ![p] = changed]
        /\ fresh' = (fresh /\ cur # p)
        /\ UNCHANGED <<label, terminating, sched, seen, overlooked, pc, cur, copy, wanted, report, doomed>>
        /\ left' \in [changes : Nat, aborts : Nat]
    BY SpendType DEF PolicyChange, IInv, TypeOK
  <1>2. /\ policy' \in [Policies -> Policy] /\ policy'[p] = changed
        /\ \A q \in Policies \ {p} : policy'[q] = policy[q]
    BY <1>1 DEF IInv, TypeOK
  <1>3. TypeOK'
    <2>1. status' \in [Policies -> [Namespaces -> Reports]]
      BY NoValues DEF PolicyChange, IInv, TypeOK
    <2>2. QED
      BY <1>1, <1>2, <2>1 DEF IInv, TypeOK
  <1>4. FinalizerCleans'
    BY <1>1, <1>2 DEF IInv, FinalizerCleans
  <1>5. FinalizerHolds'
    BY <1>2 DEF IInv, FinalizerHolds
  <1>6. PassHasFinalizer'
    BY <1>1, <1>2 DEF IInv, PassHasFinalizer
  <1>7. FreshCopy'
    BY <1>1, <1>2 DEF IInv, FreshCopy, PassHasFinalizer
  <1>8. PurgeIsComplete' /\ SeenOwners' /\ DoomedOwners'
    BY <1>1 DEF IInv, PurgeIsComplete, SeenOwners, DoomedOwners
  <1>9. QED
    BY <1>3, <1>4, <1>5, <1>6, <1>7, <1>8 DEF IInv

LEMMA UserPolicyKeeps ==
  ASSUME IInv, NEW p \in Policies,
         UserCreatesPolicy(p) \/ UserChangesPolicy(p) \/ UserDeletesPolicy(p)
  PROVE  IInv'
  <1>1. /\ policy[p] \in Policy
        /\ policy[p].finalizer => policy[p].exists
        /\ policy[p].deleting => policy[p].finalizer
    BY DEF IInv, TypeOK, FinalizerHolds
  <1>2. CASE UserCreatesPolicy(p)
    <2>1. PICK spec \in Specs : PolicyChange(p, [NoPolicy EXCEPT !.exists = TRUE, !.spec = spec])
      BY <1>2 DEF UserCreatesPolicy
    <2> DEFINE new == [NoPolicy EXCEPT !.exists = TRUE, !.spec = spec]
    <2>2. new \in Policy /\ new.exists /\ ~new.deleting /\ ~new.finalizer
      BY DEF NoPolicy, Policy
    <2>3. ~policy[p].exists
      BY <1>2 DEF UserCreatesPolicy
    <2> HIDE DEF new
    <2>4. QED
      <3>1. policy[p].finalizer = FALSE /\ new.finalizer = FALSE
        BY <1>1, <2>2, <2>3 DEF Policy
      <3>2. PolicyChange(p, new)
        BY <2>1 DEF new
      <3>3. QED
        BY <1>1, <2>2, <3>1, <3>2, PolicyChangeKeeps
  <1>3. CASE UserChangesPolicy(p)
    <2>1. PICK spec \in Specs : PolicyChange(p, [policy[p] EXCEPT !.spec = spec])
      BY <1>3 DEF UserChangesPolicy
    <2> DEFINE new == [policy[p] EXCEPT !.spec = spec]
    <2>2. /\ new \in Policy /\ new.exists = policy[p].exists
          /\ new.deleting = policy[p].deleting /\ new.finalizer = policy[p].finalizer
      BY <1>1 DEF Policy
    <2>3. PolicyChange(p, new)
      BY <2>1
    <2> HIDE DEF new
    <2>4. QED
      BY <1>1, <2>2, <2>3, PolicyChangeKeeps
  <1>4. CASE UserDeletesPolicy(p)
    <2> DEFINE new == IF policy[p].finalizer THEN [policy[p] EXCEPT !.deleting = TRUE] ELSE NoPolicy
    <2>1. PolicyChange(p, new) /\ Live(p)
      BY <1>4 DEF UserDeletesPolicy
    <2>2. CASE policy[p].finalizer
      <3>1. new \in Policy /\ new.exists /\ new.deleting /\ new.finalizer
        BY <1>1, <2>2 DEF Policy
      <3>2. policy[p].finalizer = TRUE /\ new.finalizer = TRUE
        BY <1>1, <2>2, <3>1 DEF Policy
      <3> HIDE DEF new
      <3>3. QED
        BY <2>1, <3>1, <3>2, PolicyChangeKeeps
    <2>3. CASE ~policy[p].finalizer
      <3>1. new = NoPolicy /\ policy[p].finalizer = FALSE /\ NoPolicy.finalizer = FALSE
        BY <1>1, <2>3 DEF Policy, NoPolicy
      <3> HIDE DEF new
      <3>2. QED
        BY <1>1, <2>1, <2>3, <3>1, NoValues, PolicyChangeKeeps
    <2>4. QED
      BY <2>2, <2>3
  <1>5. QED
    BY <1>2, <1>3, <1>4

-----------------------------------------------------------------------------
LEMMA InitHolds ==
  ASSUME Init
  PROVE  IInv
  <1>1. \A p \in Policies :
          policy[p] \in Policy /\ ~policy[p].finalizer /\ ~policy[p].deleting
    <2>1. ASSUME NEW p \in Policies
          PROVE  \/ policy[p] = NoPolicy
                 \/ \E spec \in Specs : policy[p] = [NoPolicy EXCEPT !.exists = TRUE, !.spec = spec]
      BY DEF Init
    <2>2. ASSUME NEW spec \in Specs
          PROVE  LET new == [NoPolicy EXCEPT !.exists = TRUE, !.spec = spec]
                 IN  new \in Policy /\ ~new.finalizer /\ ~new.deleting
      BY DEF NoPolicy, Policy
    <2>3. ASSUME NEW p \in Policies
          PROVE  policy[p] \in Policy /\ ~policy[p].finalizer /\ ~policy[p].deleting
      <3>1. CASE policy[p] = NoPolicy
        BY <3>1, NoValues
      <3>2. CASE \E spec \in Specs : policy[p] = [NoPolicy EXCEPT !.exists = TRUE, !.spec = spec]
        <4>1. PICK spec \in Specs : policy[p] = [NoPolicy EXCEPT !.exists = TRUE, !.spec = spec]
          BY <3>2
        <4>2. QED
          BY <2>2, <4>1
      <3>3. QED
        BY <2>1, <3>1, <3>2
    <2>4. QED
      BY <2>3
  <1>2. sched \in [Slots -> Schedule] /\ \A slot \in Slots : sched[slot].owner = Nobody
    BY NoValues DEF Init
  <1>3. policy \in [Policies -> Policy]
    <2>1. DOMAIN policy = Policies /\ policy = [p \in Policies |-> policy[p]]
      BY DEF Init
    <2>2. QED
      BY <1>1, <2>1
  <1>4. TypeOK
    BY <1>2, <1>3, NoValues, ConstantsAssumption DEF Init, TypeOK, Places
  <1>5. FinalizerCleans /\ FinalizerHolds /\ SeenOwners
    BY <1>1, <1>2, NoValues DEF Init, FinalizerCleans, FinalizerHolds, SeenOwners
  <1>6. PassHasFinalizer /\ PurgeIsComplete /\ FreshCopy /\ DoomedOwners
    BY DEF Init, PassHasFinalizer, PurgeIsComplete, FreshCopy, DoomedOwners
  <1>7. QED
    BY <1>4, <1>5, <1>6 DEF IInv

LEMMA NextKeeps ==
  ASSUME IInv, [Next]_vars
  PROVE  IInv'
  <1>1. CASE Environment
    BY <1>1, SyncKeeps, UserEditKeeps, NamespaceKeeps, UserDeletesNamespaceKeeps, UserPolicyKeeps
       DEF Environment
  <1>2. CASE \E p \in Policies : Start(p)
    BY <1>2, StartKeeps
  <1>3. CASE Step \/ Abort
    BY <1>3, AddFinalizerKeeps, SurveyKeeps, AnyVisitKeeps, ListOrphansKeeps, ListManagedKeeps,
       DeleteOneKeeps, RemoveFinalizerKeeps, EndsKeep DEF Step
  <1>4. CASE UNCHANGED vars
    BY <1>4 DEF vars, IInv, TypeOK, FinalizerCleans, FinalizerHolds, PassHasFinalizer,
                PurgeIsComplete, FreshCopy, SeenOwners, DoomedOwners
  <1>5. QED
    BY <1>1, <1>2, <1>3, <1>4 DEF Next

(* The inductive invariant of the policies' passes holds in every          *)
(* behaviour: no generated schedule outlives the finalizer of its policy,  *)
(* except one the clean-up of deleteAllManagedSchedules did not see.       *)
THEOREM Safety == Spec => []IInv
  <1>1. Init => IInv
    BY InitHolds
  <1>2. IInv /\ [Next]_vars => IInv'
    BY NextKeeps
  <1>3. QED
    BY <1>1, <1>2, PTL DEF Spec

-----------------------------------------------------------------------------
(* What one step may do to a schedule that has an owner.                   *)
OwnOnly(slot) ==
  LET owner == sched[slot].owner
  IN  left' = left /\ owner # Nobody /\ sched'[slot] # sched[slot]
      => /\ owner = cur \/ (owner = Manual /\ slot \in doomed)
         /\ policy[cur].spec.suspend => policy[cur].deleting \/ ~fresh

(* What changes no schedule or spends a bound is not the controller's.     *)
LEMMA OthersKeepOff ==
  ASSUME IInv, NEW slot \in Slots,
         \/ Environment \/ (\E p \in Policies : Start(p)) \/ Abort \/ UNCHANGED vars
         \/ AddFinalizer \/ Survey \/ ListOrphans \/ ListManaged
         \/ UpdateStatus \/ RemoveFinalizer \/ PolicyRefused
         \/ \E n \in Namespaces : LeaveForeign(n) \/ KeepSchedule(n) \/ VisitRefused(n)
  PROVE  OwnOnly(slot)
  <1>1. left \in [changes : Nat, aborts : Nat]
    BY DEF IInv, TypeOK
  <1>2. CASE Environment
    <2>1. left' = left => UNCHANGED sched
      BY <1>1, <1>2, SpendType
         DEF Environment, Sync, UserEdit, UserLabels, UserDeletesNamespace, NamespaceGone,
             UserCreatesPolicy, UserChangesPolicy, UserDeletesPolicy, PolicyChange
    <2>2. QED
      BY <2>1 DEF OwnOnly
  <1>3. CASE \E p \in Policies : Start(p)
    BY <1>3 DEF OwnOnly, Start, StartDeletion, StartWithoutFinalizer, StartSurvey, Begin, world
  <1>4. CASE \/ Abort \/ UNCHANGED vars \/ AddFinalizer \/ Survey \/ ListOrphans \/ ListManaged
             \/ UpdateStatus \/ RemoveFinalizer \/ PolicyRefused
    BY <1>4 DEF OwnOnly, Abort, vars, AddFinalizer, Survey, ListOrphans, ListManaged,
                UpdateStatus, RemoveFinalizer, PolicyRefused, world
  <1>5. CASE \E n \in Namespaces : LeaveForeign(n) \/ KeepSchedule(n) \/ VisitRefused(n)
    BY <1>5 DEF OwnOnly, LeaveForeign, KeepSchedule, VisitRefused, world
  <1>6. QED
    BY <1>2, <1>3, <1>4, <1>5

LEMMA VisitsOwnOnly ==
  ASSUME IInv, NEW slot \in Slots, NEW n \in Namespaces, CreateSchedule(n) \/ UpdateSchedule(n)
  PROVE  OwnOnly(slot)
  <1>1. pc = "visit" /\ wanted[n] # Nothing
    BY DEF CreateSchedule, UpdateSchedule, Visit
  <1>2. Slot(n) \in Slots
    BY <1>1, VisitType
  <1>3. \/ sched[Slot(n)] = NoSchedule
        \/ sched[Slot(n)].owner = cur
    BY DEF CreateSchedule, UpdateSchedule
  <1>4. slot # Slot(n) => sched'[slot] = sched[slot]
    BY <1>2 DEF CreateSchedule, UpdateSchedule, IInv, TypeOK
  <1>5. fresh => ~policy[cur].spec.suspend
    BY <1>1 DEF IInv, FreshCopy
  <1>6. QED
    BY <1>3, <1>4, <1>5, NoValues DEF OwnOnly

LEMMA DeletesOwnOnly ==
  ASSUME IInv, NEW slot \in Slots, NEW other \in doomed, DeleteOne(other)
  PROVE  OwnOnly(slot)
  <1>1. pc \in {"delete", "purging"} /\ sched' = [sched EXCEPT ![other] = NoSchedule]
    BY DEF DeleteOne
  <1>2. slot # other => sched'[slot] = sched[slot]
    BY <1>1 DEF IInv, TypeOK
  <1>3. sched[other].owner \in {cur, Manual, Nobody}
    BY <1>1 DEF IInv, DoomedOwners
  <1>4. fresh => ~policy[cur].spec.suspend \/ policy[cur].deleting
    BY <1>1 DEF IInv, FreshCopy, PassHasFinalizer
  <1>5. QED
    BY <1>2, <1>3, <1>4 DEF OwnOnly

(* A pass of AutoSchedulePolicyReconciler changes or deletes only          *)
(* schedules of its own policy, or one that a user put in the place of one *)
(* it had listed, and a suspended policy's only from an older copy of it.  *)
THEOREM TouchesItsOwn == Spec => KeepsToItsOwn
  <1>1. ASSUME IInv, [Next]_vars, NEW slot \in Slots
        PROVE  OwnOnly(slot)
    BY <1>1, OthersKeepOff, VisitsOwnOnly, DeletesOwnOnly DEF Next, Step
  <1>2. IInv /\ [Next]_vars => \A slot \in Slots : OwnOnly(slot)
    BY <1>1
  <1>3. QED
    BY <1>2, Safety, PTL DEF Spec, KeepsToItsOwn, OwnOnly
=============================================================================
