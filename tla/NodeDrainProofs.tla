-------------------------- MODULE NodeDrainProofs --------------------------
(***************************************************************************)
(* NodeDrain, for any nodes, pods, requests, thresholds, ticks, specs and  *)
(* bounds: IInv is inductive, and what it implies.                         *)
(***************************************************************************)
EXTENDS NodeDrain, Lemmas

(* The ticks the controller looks for.                                     *)
LEMMA NextTickIsNext ==
  ASSUME clock \in Nat
  PROVE  /\ NextTick \in 1..Later
         /\ \A t \in Ticks : t > clock => NextTick <= t
  <1> DEFINE S == {t \in Ticks : t > clock} \cup {Later}
  <1>0. Horizon \in Nat /\ Ticks \subseteq 1..Horizon
    BY ConstantsAssumption
  <1>1. S \subseteq 1..Later /\ S # {} /\ S \subseteq Nat
    <2>1. Later \in Nat /\ Later = Horizon + 1
      BY <1>0 DEF Later
    <2>2. \A t \in Ticks : t \in 1..Later
      BY <1>0, <2>1
    <2>3. Later \in 1..Later
      BY <1>0, <2>1
    <2>4. S \subseteq 1..Later
      BY <2>2, <2>3
    <2>5. QED
      BY <2>1, <2>4
  <1>2. Min(S) \in S /\ \A m \in S : Min(S) <= m
    BY <1>1, MinIsLeast
  <1>3. QED
    BY <1>1, <1>2 DEF NextTick

LEMMA DueTicksAreLast ==
  ASSUME clock \in Nat
  PROVE  /\ DueTicks \subseteq Nat
         /\ \A t \in DueTicks : t = clock \/ t + 1 = clock
         /\ DueTicks # {} => Min(DueTicks) \in DueTicks /\ \A t \in DueTicks : Min(DueTicks) <= t
  <1>1. Ticks \subseteq Nat
    BY ConstantsAssumption
  <1>2. DueTicks \subseteq Nat /\ \A t \in DueTicks : t = clock \/ t + 1 = clock
    <2>1. ASSUME NEW t \in DueTicks
          PROVE  t \in Nat /\ (t = clock \/ t + 1 = clock)
      <3>1. t \in Nat /\ clock <= t + 1 /\ t <= clock
        BY <1>1 DEF DueTicks
      <3>2. QED
        BY <3>1
    <2>2. QED
      BY <2>1
  <1>3. QED
    BY <1>2, MinIsLeast

(* The values the controller starts from and returns to.                   *)
LEMMA NoValues ==
  /\ NoPolicy \in Policy
  /\ NoHome \in [Pods -> Nodes \cup {Nowhere}]
  /\ \A p \in Pods : NoHome[p] = Nowhere
  /\ Never \in 0..Horizon /\ Later \in Nat /\ Horizon \in Nat
  /\ Unbound \in [on : {Nowhere}, phase : Phases]
  /\ Nowhere \notin Nodes
  <1>1. (CHOOSE spec \in Specs : TRUE) \in Specs
    BY ConstantsAssumption
  <1>2. QED
    BY <1>1, ConstantsAssumption
       DEF NoPolicy, Policy, NoHome, Never, Later, Unbound, Phases

(* The candidates are all the nodes of some set, each once and at most as  *)
(* many as the constraints allow.                                          *)
LEMMA MaxDrainableType ==
  ASSUME NEW spec \in Specs, nodes \subseteq Nodes
  PROVE  /\ MaxDrainable(spec) \in Nat
         /\ Cardinality(Analysed \cap ready) \in Nat
         /\ MaxDrainable(spec) > 0 =>
              Cardinality(Analysed \cap ready) >= spec.minReady + MaxDrainable(spec)
  <1>1. IsFiniteSet(Analysed \cap ready)
    BY ConstantsAssumption, FS_Subset DEF Analysed
  <1>2. Cardinality(Analysed \cap ready) \in Nat
    BY <1>1, FS_CardinalityType
  <1>3. spec.maxNodes \in Nat /\ spec.minReady \in Nat
    BY ConstantsAssumption
  <1>4. QED
    BY <1>2, <1>3 DEF MaxDrainable

LEMMA QueuesType ==
  ASSUME NEW spec \in Specs, nodes \subseteq Nodes, NEW q \in Queues(spec)
  PROVE  /\ q \in Seq(Nodes)
         /\ Len(q) <= MaxDrainable(spec)
         /\ \A i \in 1..Len(q) : q[i] \in nodes
         /\ \A i, j \in 1..Len(q) : q[i] = q[j] => i = j
  <1>1. Candidates \subseteq nodes /\ IsFiniteSet(Candidates)
    BY ConstantsAssumption, FS_Subset DEF Candidates, Analysed
  <1>2. Cardinality(Candidates) \in Nat
    BY <1>1, FS_CardinalityType
  <1>3. MaxDrainable(spec) \in Nat
    BY MaxDrainableType
  <1>4. PICK all \in SetToSeqs(Candidates) :
          q = SubSeq(all, 1, IF Len(all) < MaxDrainable(spec) THEN Len(all) ELSE MaxDrainable(spec))
    BY DEF Queues
  <1>5. /\ all \in [1..Cardinality(Candidates) -> Candidates]
        /\ \A i, j \in 1..Cardinality(Candidates) : i # j => all[i] # all[j]
    BY <1>4 DEF SetToSeqs
  <1>6. all \in Seq(Candidates) /\ Len(all) = Cardinality(Candidates)
    BY <1>2, <1>5
  <1> DEFINE k == IF Len(all) < MaxDrainable(spec) THEN Len(all) ELSE MaxDrainable(spec)
  <1>7. k \in 0..Len(all) /\ k <= MaxDrainable(spec)
    BY <1>2, <1>3, <1>6
  <1>8. /\ q \in Seq(Candidates) /\ Len(q) = k
        /\ \A i \in 1..k : q[i] = all[i]
    BY <1>4, <1>6, <1>7
  <1>9. QED
    BY <1>1, <1>2, <1>5, <1>6, <1>7, <1>8

-----------------------------------------------------------------------------
(* Spending leaves a bound.                                                *)
LEMMA SpendType ==
  ASSUME NEW b \in {"changes", "faults"}, left \in [changes : Nat, faults : Nat], Spend(b)
  PROVE  left' \in [changes : Nat, faults : Nat]
  BY DEF Spend

(* In a run there is a candidate it is about.                              *)
LEMMA CurrentType ==
  ASSUME IInv, pc \notin {"idle", "final"}
  PROVE  /\ queue # <<>> /\ queue \in Seq(Nodes) /\ Len(queue) \in Nat \ {0}
         /\ Current = queue[1] /\ Current \in Nodes /\ Current # Nowhere
         /\ pc # "persist" => Current \in nodes
  <1>1. queue # <<>> /\ queue \in Seq(Nodes)
    BY DEF IInv, TypeOK, QueueIsSound
  <1>2. Len(queue) \in Nat \ {0} /\ Current = queue[1] /\ Current \in Nodes
    BY <1>1 DEF Current
  <1>3. pc # "persist" => queue[1] \in nodes
    BY <1>2 DEF IInv, QueueIsSound
  <1>4. QED
    BY <1>1, <1>2, <1>3, NoValues

(* The ready nodes that take pods are a finite set.                        *)
LEMMA ReadyCount ==
  ASSUME NEW S, NEW T, T \subseteq S, S \subseteq Nodes
  PROVE  /\ IsFiniteSet(S) /\ IsFiniteSet(T)
         /\ Cardinality(S) \in Nat /\ Cardinality(T) \in Nat
         /\ Cardinality(T) <= Cardinality(S)
  <1>1. IsFiniteSet(S)
    BY ConstantsAssumption, FS_Subset
  <1>2. IsFiniteSet(T) /\ Cardinality(T) <= Cardinality(S)
    BY <1>1, FS_Subset
  <1>3. QED
    BY <1>1, <1>2, FS_CardinalityType

(* Going on to the next candidate drops the first.                         *)
LEMMA NextCandidateType ==
  ASSUME IInv, pc \notin {"idle", "final"}, NextCandidate
  PROVE  /\ queue' \in Seq(Nodes)
         /\ Len(queue') = Len(queue) - 1
         /\ \A i \in 1..Len(queue') : i + 1 \in 2..Len(queue) /\ queue'[i] = queue[i + 1]
         /\ pc' \in {"cordon", "final"}
         /\ queue' = <<>> <=> pc' = "final"
         /\ home' \in [Pods -> Nodes \cup {Nowhere}]
         /\ \A p \in Pods : home'[p] \in {home[p], Nowhere}
  <1>1. queue # <<>> /\ queue \in Seq(Nodes) /\ Len(queue) \in Nat \ {0}
    BY CurrentType
  <1>2. /\ queue' \in Seq(Nodes) /\ Len(queue') = Len(queue) - 1
        /\ \A i \in 1..Len(queue') : queue'[i] = queue[i + 1]
    BY <1>1 DEF NextCandidate
  <1>3. queue' = <<>> <=> Len(queue) = 1
    BY <1>1, <1>2
  <1>4. \A i \in 1..Len(queue') : i + 1 \in 2..Len(queue)
    BY <1>1, <1>2
  <1>5. home \in [Pods -> Nodes \cup {Nowhere}]
    BY DEF IInv, TypeOK
  <1>6. QED
    BY <1>2, <1>3, <1>4, <1>5 DEF NextCandidate

(* Enough ready nodes take pods for the candidates after this one: where   *)
(* no node was cordoned,                                                   *)
TakesLeft ==
  ~disturbed => Cardinality(ready \ cordoned') >= copy.spec.minReady + Len(queue) - 1

LEMMA NoCordonLeaves ==
  ASSUME IInv, pc \notin {"idle", "final"}, cordoned' \subseteq cordoned
  PROVE  TakesLeft
  <1>1. Len(queue) \in Nat \ {0} /\ queue # <<>>
    BY CurrentType
  <1>2. /\ ready \ cordoned \subseteq ready \ cordoned' /\ ready \ cordoned' \subseteq Nodes
        /\ copy.spec.minReady \in Nat
    BY ConstantsAssumption DEF IInv, TypeOK, Policy
  <1>3. /\ Cardinality(ready \ cordoned) <= Cardinality(ready \ cordoned')
        /\ Cardinality(ready \ cordoned) \in Nat /\ Cardinality(ready \ cordoned') \in Nat
    BY <1>2, ReadyCount
  <1>4. ~disturbed => Cardinality(ready \ cordoned) >= copy.spec.minReady + Len(queue) - 1
    BY <1>1, <1>2, <1>3 DEF IInv, ReadyIsLeft, ToCordon
  <1>5. QED
    BY <1>1, <1>2, <1>3, <1>4 DEF TakesLeft

(* and where this one was.                                                 *)
LEMMA CordonLeaves ==
  ASSUME IInv, CordonNode
  PROVE  TakesLeft
  <1> DEFINE takes == ready \ cordoned
             taken == takes \ {Current}
  <1>1. pc = "cordon" /\ Len(queue) \in Nat \ {0} /\ queue # <<>>
    BY CurrentType DEF CordonNode
  <1>2. ready \ cordoned' = taken
    BY DEF CordonNode
  <1>3. takes \subseteq Nodes /\ copy.spec.minReady \in Nat
    BY ConstantsAssumption DEF IInv, TypeOK, Policy
  <1>4. IsFiniteSet(takes) /\ Cardinality(takes) \in Nat
    BY <1>3, ReadyCount
  <1>5. ~disturbed => Cardinality(takes) >= copy.spec.minReady + Len(queue)
    BY <1>1 DEF IInv, ReadyIsLeft, ToCordon
  <1> HIDE DEF takes
  <1>6. Cardinality(taken) \in {Cardinality(takes), Cardinality(takes) - 1}
    BY <1>4, FS_RemoveElement
  <1>7. Cardinality(taken) >= Cardinality(takes) - 1
    BY <1>4, <1>6
  <1>8. Cardinality(taken) \in Nat
    BY <1>4, FS_RemoveElement, FS_CardinalityType
  <1> HIDE DEF taken
  <1>9. ~disturbed => Cardinality(taken) >= copy.spec.minReady + Len(queue) - 1
    BY <1>1, <1>3, <1>4, <1>5, <1>7, <1>8
  <1>10. QED
    BY <1>2, <1>9 DEF TakesLeft

(* A run that goes on to its next candidate without deleting a node.       *)
LEMMA NextCandidateKeeps ==
  ASSUME IInv, pc \notin {"idle", "final"}, NextCandidate, TakesLeft,
         UNCHANGED <<nodes, ready, pod, late, seenCordoned, seen, clock, wake, copy, start,
                     missed, disturbed>>,
         policy' \in Policy, left' \in [changes : Nat, faults : Nat], fresh' \in BOOLEAN,
         cordoned' \subseteq nodes, mine' \subseteq cordoned',
         stranded' \subseteq cordoned', drained' \subseteq drained \cap cordoned',
         mine' \subseteq drained' \cup stranded'
  PROVE  IInv'
  <1>q. /\ queue # <<>> /\ queue \in Seq(Nodes) /\ Len(queue) \in Nat \ {0}
        /\ Current = queue[1] /\ Current \in Nodes
    BY CurrentType
  <1>n. /\ queue' \in Seq(Nodes)
        /\ Len(queue') = Len(queue) - 1
        /\ \A i \in 1..Len(queue') : i + 1 \in 2..Len(queue) /\ queue'[i] = queue[i + 1]
        /\ pc' \in {"cordon", "final"}
        /\ queue' = <<>> <=> pc' = "final"
        /\ home' \in [Pods -> Nodes \cup {Nowhere}]
        /\ \A p \in Pods : home'[p] \in {home[p], Nowhere}
    BY NextCandidateType
  <1>1. TypeOK'
    BY <1>n DEF IInv, TypeOK
  <1>2. CordonedMeansDrained' /\ CordonedIsCurrent'
    BY DEF CordonedMeansDrained, CordonedIsCurrent
  <1>3. DrainedIsQuiet'
    BY DEF IInv, DrainedIsQuiet, On, Alive
  <1>4. QueueIsSound'
    <2>1. \A i, j \in 1..Len(queue') : queue'[i] = queue'[j] => i = j
      <3>1. TAKE i, j \in 1..Len(queue')
      <3>2. i + 1 \in 1..Len(queue) /\ j + 1 \in 1..Len(queue)
        BY <1>q, <1>n
      <3>3. queue[i + 1] = queue[j + 1] => i + 1 = j + 1
        BY <3>2 DEF IInv, QueueIsSound
      <3>4. QED
        BY <1>n, <3>3
    <2>2. \A i \in 1..Len(queue') : queue'[i] \in nodes
      <3>1. TAKE i \in 1..Len(queue')
      <3>2. i + 1 \in 1..Len(queue) /\ i + 1 > 1
        BY <1>q, <1>n
      <3>3. queue[i + 1] \in nodes
        BY <3>2 DEF IInv, QueueIsSound
      <3>4. QED
        BY <1>n, <3>3
    <2>3. QED
      BY <1>n, <2>1, <2>2 DEF QueueIsSound
  <1>5. CurrentIsCordoned' /\ RunIsShown' /\ ComesBack'
    BY <1>n DEF IInv, CurrentIsCordoned, RunIsShown, ComesBack
  <1>6. HomeIsHere'
    BY <1>n DEF IInv, HomeIsHere
  <1>7. ReadyIsLeft'
    <2>1. /\ ready \ cordoned' \subseteq Nodes /\ copy.spec.minReady \in Nat
      BY ConstantsAssumption DEF IInv, TypeOK, Policy
    <2>2. Cardinality(ready \ cordoned') \in Nat
      BY <2>1, ReadyCount
    <2>3. QED
      BY <1>q, <1>n, <2>1, <2>2 DEF ReadyIsLeft, ToCordon, TakesLeft
  <1>8. QED
    BY <1>1, <1>2, <1>3, <1>4, <1>5, <1>6, <1>7 DEF IInv

-----------------------------------------------------------------------------
(* What the pass does at its beginning.                                    *)
LEMMA AddFinalizerKeeps ==
  ASSUME IInv, AddFinalizer
  PROVE  IInv'
  <1> USE DEF AddFinalizer, Begin, cluster, run, history
  <1>1. TypeOK'
    BY DEF IInv, TypeOK, Policy
  <1>2. /\ CordonedMeansDrained' /\ DrainedIsQuiet' /\ QueueIsSound' /\ CordonedIsCurrent'
        /\ CurrentIsCordoned' /\ HomeIsHere' /\ ReadyIsLeft' /\ RunIsShown'
    BY DEF IInv, CordonedMeansDrained, DrainedIsQuiet, QueueIsSound, CordonedIsCurrent, Current,
           CurrentIsCordoned, HomeIsHere, ReadyIsLeft, RunIsShown, On, Alive, ToCordon
  <1>3. ComesBack'
    BY DEF ComesBack
  <1>4. QED
    BY <1>1, <1>2, <1>3 DEF IInv

LEMMA RemoveFinalizerKeeps ==
  ASSUME IInv, RemoveFinalizer
  PROVE  IInv'
  <1> USE DEF RemoveFinalizer, Begin, cluster, run, history
  <1>1. TypeOK'
    <2>1. policy' \in Policy
      BY DEF IInv, TypeOK, Policy
    <2>2. wake' \in 0..Later
      BY NoValues DEF Later
    <2>3. QED
      BY <2>1, <2>2 DEF IInv, TypeOK
  <1>2. /\ CordonedMeansDrained' /\ DrainedIsQuiet' /\ QueueIsSound' /\ CordonedIsCurrent'
        /\ CurrentIsCordoned' /\ HomeIsHere' /\ ReadyIsLeft' /\ RunIsShown'
    BY DEF IInv, CordonedMeansDrained, DrainedIsQuiet, QueueIsSound, CordonedIsCurrent, Current,
           CurrentIsCordoned, HomeIsHere, ReadyIsLeft, RunIsShown, On, Alive, ToCordon
  <1>3. ComesBack'
    BY DEF ComesBack
  <1>4. QED
    BY <1>1, <1>2, <1>3 DEF IInv

(* A tick of this minute, or of the last with none in this, is the first   *)
(* that is due.                                                            *)
LEMMA FirstDue ==
  ASSUME clock \in Nat, NEW t \in DueTicks, t - 1 \notin Ticks
  PROVE  Min(DueTicks) = t
  <1>1. DueTicks \subseteq Ticks
    BY DEF DueTicks
  <1>2. Min(DueTicks) \in DueTicks /\ Min(DueTicks) <= t
    BY DueTicksAreLast
  <1>3. t \in Nat /\ Min(DueTicks) \in Nat
    BY <1>2, DueTicksAreLast
  <1>4. CASE Min(DueTicks) = clock
    <2>1. t = clock \/ t + 1 = clock
      BY DueTicksAreLast
    <2>2. QED
      BY <1>2, <1>3, <1>4, <2>1
  <1>5. CASE Min(DueTicks) + 1 = clock
    <2>1. t = clock \/ t + 1 = clock
      BY DueTicksAreLast
    <2>2. t # clock
      <3>1. t = clock => t - 1 = Min(DueTicks)
        BY <1>3, <1>5
      <3>2. QED
        BY <1>1, <1>2, <3>1
    <2>3. QED
      BY <1>3, <1>5, <2>1, <2>2
  <1>6. QED
    BY <1>2, <1>4, <1>5, DueTicksAreLast

LEMMA SkipKeeps ==
  ASSUME IInv, Skip
  PROVE  IInv'
  <1> USE DEF Skip, Begin, cluster, run, history
  <1>0. clock \in Nat /\ NextTick \in 1..Later /\ \A t \in Ticks : t > clock => NextTick <= t
    BY NoValues, NextTickIsNext DEF IInv, TypeOK
  <1>1. TypeOK'
    <2>1. wake' \in 0..Later
      BY <1>0, NoValues
    <2>2. QED
      BY <2>1 DEF IInv, TypeOK
  <1>2. /\ CordonedMeansDrained' /\ DrainedIsQuiet' /\ QueueIsSound' /\ CordonedIsCurrent'
        /\ CurrentIsCordoned' /\ HomeIsHere' /\ ReadyIsLeft' /\ RunIsShown'
    BY DEF IInv, CordonedMeansDrained, DrainedIsQuiet, QueueIsSound, CordonedIsCurrent, Current,
           CurrentIsCordoned, HomeIsHere, ReadyIsLeft, RunIsShown, On, Alive, ToCordon
  <1>3. ComesBack'
    <2>1. CASE policy.phase = "gone" \/ (policy.phase = "live" /\ policy.spec.suspend)
      BY <2>1 DEF ComesBack
    <2>2. CASE policy.phase = "live" /\ ~ShouldRun(policy) /\ wake' = NextTick
      <3>1. ASSUME NEW t \in DueTicks, t - 1 \notin Ticks
            PROVE  seen.lastRun >= t
        <4>1. Min(DueTicks) = t
          BY <1>0, <3>1, FirstDue
        <4>2. t \in Nat /\ seen.lastRun \in Nat
          BY <1>0, DueTicksAreLast, NoValues DEF IInv, TypeOK, Policy
        <4>3. QED
          BY <2>2, <4>1, <4>2 DEF ShouldRun
      <3>2. DueTicks' = DueTicks
        BY DEF DueTicks
      <3>3. QED
        BY <1>0, <2>2, <3>1, <3>2 DEF ComesBack
    <2>3. QED
      BY <2>1, <2>2
  <1>4. QED
    BY <1>1, <1>2, <1>3 DEF IInv

LEMMA StartRunKeeps ==
  ASSUME IInv, StartRun
  PROVE  IInv'
  <1> USE DEF StartRun, Begin, cluster
  <1>0. clock \in Nat /\ seen.lastRun \in Nat /\ seen.spec \in Specs /\ nodes \subseteq Nodes
    BY NoValues DEF IInv, TypeOK, Policy
  <1>1. queue' = <<>> \/ queue' \in Queues(seen.spec)
    OBVIOUS
  <1>2. /\ queue' \in Seq(Nodes)
        /\ \A i \in 1..Len(queue') : queue'[i] \in nodes
        /\ \A i, j \in 1..Len(queue') : queue'[i] = queue'[j] => i = j
        /\ Len(queue') <= MaxDrainable(seen.spec)
        /\ MaxDrainable(seen.spec) \in Nat
        /\ MaxDrainable(seen.spec) > 0 =>
             Cardinality(Analysed \cap ready) >= seen.spec.minReady + MaxDrainable(seen.spec)
        /\ Cardinality(Analysed \cap ready) \in Nat
    <2>1. /\ MaxDrainable(seen.spec) \in Nat
          /\ MaxDrainable(seen.spec) > 0 =>
               Cardinality(Analysed \cap ready) >= seen.spec.minReady + MaxDrainable(seen.spec)
          /\ Cardinality(Analysed \cap ready) \in Nat
      BY <1>0, MaxDrainableType
    <2>2. CASE queue' = <<>>
      BY <2>1, <2>2
    <2>3. CASE queue' \in Queues(seen.spec)
      BY <1>0, <2>1, <2>3, QueuesType
    <2>4. QED
      BY <1>1, <2>2, <2>3
  <1>3. /\ home' \in [Pods -> Nodes \cup {Nowhere}]
        /\ \A p \in Pods : home'[p] # Nowhere => pod[p].on = home'[p]
    <2>1. \A p \in Pods : pod[p].on \in Nodes \cup {Nowhere}
      BY DEF IInv, TypeOK
    <2>2. QED
      BY <2>1
  <1>4. TypeOK'
    <2>1. start' \in 0..Horizon /\ copy' \in Policy /\ fresh' \in BOOLEAN /\ disturbed' \in BOOLEAN
      BY DEF IInv, TypeOK
    <2>2. QED
      BY <1>2, <1>3, <2>1, NoValues DEF IInv, TypeOK
  <1>5. QueueIsSound'
    BY <1>2 DEF QueueIsSound
  <1>6. CordonedMeansDrained' /\ CordonedIsCurrent' /\ CurrentIsCordoned' /\ ComesBack'
    BY DEF IInv, CordonedMeansDrained, CordonedIsCurrent, CurrentIsCordoned, ComesBack
  <1>7. DrainedIsQuiet'
    BY DEF IInv, DrainedIsQuiet, On, Alive
  <1>8. HomeIsHere'
    BY <1>3 DEF IInv, HomeIsHere
  <1>9. RunIsShown'
    <2>1. DueTicks # {} /\ Min(DueTicks) \in DueTicks /\ Min(DueTicks) > seen.lastRun
      BY <1>0, DueTicksAreLast DEF ShouldRun
    <2>2. Min(DueTicks) \in Nat /\ Min(DueTicks) <= clock
      <3>1. Min(DueTicks) \in Nat /\ (Min(DueTicks) = clock \/ Min(DueTicks) + 1 = clock)
        BY <1>0, <2>1, DueTicksAreLast
      <3>2. QED
        BY <1>0, <3>1
    <2>3. seen.lastRun # clock
      BY <1>0, <2>1, <2>2
    <2>4. QED
      BY <2>3 DEF RunIsShown
  <1>10. ReadyIsLeft'
    <2>1. SUFFICES ASSUME queue' # <<>>, ~disturbed'
                   PROVE  Cardinality(ready \ cordoned) >= seen.spec.minReady + Len(queue')
      BY DEF ReadyIsLeft, ToCordon
    <2>2. Analysed \cap ready = ready \ cordoned
      BY <2>1 DEF IInv, TypeOK, Analysed
    <2>3. Len(queue') \in Nat \ {0} /\ seen.spec.minReady \in Nat
      BY <1>0, <1>2, <2>1, ConstantsAssumption
    <2>4. Len(queue') <= MaxDrainable(seen.spec) /\ MaxDrainable(seen.spec) \in Nat
      BY <1>2
    <2>5. MaxDrainable(seen.spec) > 0
      BY <2>3, <2>4
    <2>6. /\ Cardinality(ready \ cordoned) >= seen.spec.minReady + MaxDrainable(seen.spec)
          /\ Cardinality(ready \ cordoned) \in Nat
      BY <1>2, <2>2, <2>5
    <2>7. QED
      BY <2>3, <2>4, <2>6
  <1>11. QED
    BY <1>4, <1>5, <1>6, <1>7, <1>8, <1>9, <1>10 DEF IInv

-----------------------------------------------------------------------------
(* One candidate.                                                          *)
LEMMA CordonKeeps ==
  ASSUME IInv, Cordon
  PROVE  IInv'
  <1> USE DEF Cordon, CordonNode, run
  <1>0. /\ queue # <<>> /\ Len(queue) \in Nat \ {0} /\ Current = queue[1]
        /\ Current \in nodes /\ Current' = Current
    BY CurrentType DEF Current
  <1>1. TypeOK'
    BY <1>0 DEF IInv, TypeOK
  <1>2. CordonedMeansDrained' /\ CordonedIsCurrent' /\ CurrentIsCordoned' /\ RunIsShown' /\ ComesBack'
    BY <1>0 DEF IInv, CordonedMeansDrained, CordonedIsCurrent, CurrentIsCordoned, RunIsShown, ComesBack
  <1>3. DrainedIsQuiet' /\ QueueIsSound' /\ HomeIsHere'
    BY DEF IInv, DrainedIsQuiet, QueueIsSound, HomeIsHere, On, Alive
  <1>4. ReadyIsLeft'
    BY <1>0, CordonLeaves DEF ReadyIsLeft, ToCordon, TakesLeft
  <1>5. QED
    BY <1>1, <1>2, <1>3, <1>4 DEF IInv

LEMMA CordonUnansweredKeeps ==
  ASSUME IInv, CordonUnanswered
  PROVE  IInv'
  <1>1. /\ pc = "cordon" /\ NextCandidate /\ TakesLeft /\ Current \in nodes
        /\ left' \in [changes : Nat, faults : Nat]
    BY CordonLeaves, CurrentType, SpendType DEF CordonUnanswered, CordonNode, IInv, TypeOK
  <1>2. /\ mine \subseteq drained \cup stranded
        /\ mine \subseteq cordoned /\ drained \subseteq cordoned /\ stranded \subseteq cordoned
        /\ cordoned \subseteq nodes
    BY <1>1 DEF IInv, TypeOK, CordonedIsCurrent
  <1>3. /\ cordoned' \subseteq nodes /\ mine' \subseteq cordoned'
        /\ stranded' \subseteq cordoned' /\ drained' \subseteq drained \cap cordoned'
        /\ mine' \subseteq drained' \cup stranded'
    BY <1>1, <1>2 DEF CordonUnanswered, CordonNode
  <1>4. policy' \in Policy /\ fresh' \in BOOLEAN
    BY DEF CordonUnanswered, IInv, TypeOK
  <1>5. QED
    BY <1>1, <1>3, <1>4, NextCandidateKeeps DEF CordonUnanswered

LEMMA CordonFailsKeeps ==
  ASSUME IInv, CordonFails
  PROVE  IInv'
  <1>1. /\ mine \subseteq drained \cup stranded
        /\ mine \subseteq cordoned /\ drained \subseteq cordoned /\ stranded \subseteq cordoned
        /\ cordoned \subseteq nodes /\ left' \in [changes : Nat, faults : Nat]
    BY SpendType DEF CordonFails, IInv, TypeOK, CordonedIsCurrent
  <1>2. policy' \in Policy /\ fresh' \in BOOLEAN
    BY DEF CordonFails, IInv, TypeOK
  <1>3. TakesLeft
    BY NoCordonLeaves DEF CordonFails, cluster
  <1>4. QED
    BY <1>1, <1>2, <1>3, NextCandidateKeeps DEF CordonFails, cluster, history

LEMMA EvictKeeps ==
  ASSUME IInv, NEW p \in Pods, Evict(p) \/ EvictionRefused(p)
  PROVE  IInv'
  <1> USE DEF Evict, EvictionRefused, cluster, history
  <1>1. /\ home' = [home EXCEPT ![p] = Nowhere] /\ home \in [Pods -> Nodes \cup {Nowhere}]
        /\ pod' \in {pod, [pod EXCEPT ![p].phase = "terminating"]}
        /\ pod' # pod => Alive(p)
        /\ pod \in [Pods -> [on : nodes \cup {Nowhere}, phase : Phases]]
        /\ UNCHANGED <<nodes, ready, cordoned, late, seenCordoned, policy, seen, clock, wake, pc, copy, fresh,
                       start, queue, mine, drained, stranded, missed, disturbed, left>>
    BY DEF IInv, TypeOK
  <1>2. \A q \in Pods :
          /\ pod'[q].on = pod[q].on
          /\ pod'[q].phase = pod[q].phase \/ (pod'[q].phase = "terminating" /\ Alive(q))
    BY <1>1
  <1>3. TypeOK'
    BY <1>1 DEF IInv, TypeOK, Phases
  <1>4. CordonedMeansDrained' /\ CordonedIsCurrent' /\ CurrentIsCordoned' /\ RunIsShown' /\ ComesBack'
    BY <1>1 DEF IInv, CordonedMeansDrained, CordonedIsCurrent, CurrentIsCordoned, Current, RunIsShown,
                ComesBack, DueTicks
  <1>5. QueueIsSound' /\ ReadyIsLeft'
    BY <1>1 DEF IInv, QueueIsSound, ReadyIsLeft, ToCordon
  <1>6. DrainedIsQuiet' /\ HomeIsHere'
    BY <1>1, <1>2 DEF IInv, DrainedIsQuiet, HomeIsHere, On, Alive
  <1>7. QED
    BY <1>3, <1>4, <1>5, <1>6 DEF IInv

(* The other steps that stay with the node.                                *)
LEMMA StayKeeps ==
  ASSUME IInv, Evicted \/ DeleteFails
  PROVE  IInv'
  <1> USE DEF Evicted, DeleteFails, cluster, run, history
  <1>0. /\ queue # <<>> /\ Current' = Current
    BY CurrentType DEF Current
  <1>1. TypeOK'
    BY SpendType DEF IInv, TypeOK
  <1>2. CordonedMeansDrained' /\ CordonedIsCurrent' /\ CurrentIsCordoned' /\ RunIsShown' /\ ComesBack'
    BY <1>0 DEF IInv, CordonedMeansDrained, CordonedIsCurrent, CurrentIsCordoned, RunIsShown, ComesBack
  <1>3. DrainedIsQuiet' /\ QueueIsSound' /\ HomeIsHere' /\ ReadyIsLeft'
    BY DEF IInv, DrainedIsQuiet, QueueIsSound, HomeIsHere, ReadyIsLeft, ToCordon, On, Alive
  <1>4. QED
    BY <1>1, <1>2, <1>3 DEF IInv

LEMMA WaitDoneKeeps ==
  ASSUME IInv, WaitDone
  PROVE  IInv'
  <1> USE DEF WaitDone, cluster, run
  <1>0. /\ queue # <<>> /\ Current' = Current /\ Current \in nodes
    BY CurrentType DEF Current
  <1>1. TypeOK'
    BY DEF IInv, TypeOK
  <1>2. CordonedMeansDrained' /\ CordonedIsCurrent' /\ CurrentIsCordoned' /\ RunIsShown' /\ ComesBack'
    BY <1>0 DEF IInv, TypeOK, CordonedMeansDrained, CordonedIsCurrent, CurrentIsCordoned, RunIsShown, ComesBack
  <1>3. DrainedIsQuiet'
    BY DEF IInv, DrainedIsQuiet, Remaining, On, Alive
  <1>4. QueueIsSound' /\ HomeIsHere' /\ ReadyIsLeft'
    BY DEF IInv, QueueIsSound, HomeIsHere, ReadyIsLeft, ToCordon
  <1>5. QED
    BY <1>1, <1>2, <1>3, <1>4 DEF IInv

(* The node is uncordoned, or left behind.                                 *)
LEMMA GiveUpKeeps ==
  ASSUME IInv, WaitTimesOut \/ WaitFails \/ UncordonFails
  PROVE  IInv'
  <1> USE DEF WaitTimesOut, WaitFails, UncordonFails, cluster
  <1>1. /\ pc = "wait" /\ NextCandidate
        /\ UNCHANGED <<nodes, ready, pod, late, seenCordoned, policy, seen, clock, wake, copy, fresh, start,
                       missed, disturbed>>
        /\ policy' \in Policy /\ fresh' \in BOOLEAN
        /\ left' \in [changes : Nat, faults : Nat]
    BY SpendType DEF IInv, TypeOK
  <1>2. \/ /\ cordoned' = cordoned \ {Current} /\ mine' = mine \ {Current}
           /\ drained' = drained \ {Current} /\ stranded' = stranded \ {Current}
        \/ /\ UNCHANGED <<cordoned, mine, drained>>
           /\ stranded' = stranded \cup ({Current} \cap cordoned)
    BY DEF Uncordon
  <1>3. /\ mine \ {Current} \subseteq drained \cup stranded
        /\ mine \subseteq cordoned /\ drained \subseteq cordoned /\ stranded \subseteq cordoned
        /\ cordoned \subseteq nodes
    BY <1>1 DEF IInv, TypeOK, CordonedIsCurrent
  <1>4. /\ cordoned' \subseteq cordoned /\ cordoned' \subseteq nodes
        /\ mine' \subseteq cordoned'
        /\ stranded' \subseteq cordoned' /\ drained' \subseteq drained \cap cordoned'
        /\ mine' \subseteq drained' \cup stranded'
    BY <1>2, <1>3
  <1>5. TakesLeft
    BY <1>1, <1>4, NoCordonLeaves
  <1>6. QED
    BY <1>1, <1>4, <1>5, NextCandidateKeeps

LEMMA DeleteNodeKeeps ==
  ASSUME IInv, DeleteNode
  PROVE  IInv'
  <1> USE DEF DeleteNode
  <1>0. /\ queue # <<>> /\ queue \in Seq(Nodes) /\ Len(queue) \in Nat \ {0}
        /\ Current' = Current /\ Current = queue[1] /\ Current \in nodes /\ Current # Nowhere
    BY CurrentType DEF Current
  <1>1. /\ pod' \in [Pods -> [on : nodes' \cup {Nowhere}, phase : Phases]]
        /\ \A p \in Pods : \/ p \in On(Current) /\ pod'[p] = Unbound
                           \/ p \notin On(Current) /\ pod'[p] = pod[p] /\ pod[p].on # Current
    BY NoValues DEF IInv, TypeOK, On, Unbound, Phases
  <1>2. /\ home' \in [Pods -> Nodes \cup {Nowhere}]
        /\ \A p \in Pods : home'[p] = IF p \in On(Current) \ Stable THEN Nowhere ELSE home[p]
    BY DEF IInv, TypeOK
  <1>3. TypeOK'
    BY <1>1, <1>2 DEF IInv, TypeOK
  <1>4. CordonedMeansDrained' /\ CordonedIsCurrent' /\ CurrentIsCordoned' /\ RunIsShown' /\ ComesBack'
    BY <1>0 DEF IInv, CordonedMeansDrained, CordonedIsCurrent, CurrentIsCordoned, RunIsShown, ComesBack
  <1>5. DrainedIsQuiet'
    BY <1>0, <1>1 DEF IInv, TypeOK, DrainedIsQuiet, On, Alive, Unbound
  <1>6. QueueIsSound'
    BY <1>0 DEF IInv, QueueIsSound
  <1>7. HomeIsHere'
    BY <1>1, <1>2, NoValues DEF IInv, HomeIsHere, Unbound
  <1>8. ReadyIsLeft'
    <2>1. ~disturbed => ready' \ cordoned' = ready \ cordoned
      BY DEF IInv, CurrentIsCordoned
    <2>2. QED
      BY <2>1 DEF IInv, ReadyIsLeft, ToCordon
  <1>9. QED
    BY <1>3, <1>4, <1>5, <1>6, <1>7, <1>8 DEF IInv

LEMMA PersistKeeps ==
  ASSUME IInv, Persist
  PROVE  IInv'
  <1>1. /\ policy' \in Policy /\ fresh' \in BOOLEAN
        /\ left' \in [changes : Nat, faults : Nat]
    BY SpendType DEF Persist, WriteRun, IInv, TypeOK, Policy
  <1>2. /\ mine \subseteq drained \cup stranded /\ cordoned \subseteq nodes
        /\ mine \subseteq cordoned /\ drained \subseteq cordoned /\ stranded \subseteq cordoned
    BY DEF Persist, IInv, TypeOK, CordonedIsCurrent
  <1>3. TakesLeft
    BY NoCordonLeaves DEF Persist, cluster
  <1>4. QED
    BY <1>1, <1>2, <1>3, NextCandidateKeeps DEF Persist, cluster, history

(* The end of a pass.                                                      *)
LEMMA EndKeeps ==
  ASSUME IInv, pc # "idle", NEW m \in 0..Later, End(m),
         UNCHANGED <<cluster, seenCordoned, seen, clock, mine, drained, missed>>,
         stranded \subseteq stranded', stranded' \subseteq cordoned,
         mine \subseteq drained \cup stranded',
         policy' \in Policy, left' \in [changes : Nat, faults : Nat],
         \/ m <= clock
         \/ policy'.lastRun = start /\ m = NextTick
  PROVE  IInv'
  <1> USE DEF End, cluster
  <1>0. clock \in Nat /\ wake \in Nat /\ m \in Nat /\ m \in 0..Later /\ wake \in 0..Later
    BY NoValues DEF IInv, TypeOK
  <1>1. TypeOK'
    <2>1. /\ wake' \in 0..Later /\ pc' = "idle" /\ copy' \in Policy /\ fresh' = FALSE /\ disturbed' = FALSE
          /\ start' \in 0..Horizon /\ queue' \in Seq(Nodes) /\ home' \in [Pods -> Nodes \cup {Nowhere}]
      BY <1>0, NoValues
    <2>2. stranded' \subseteq cordoned' /\ policy' \in Policy /\ left' \in [changes : Nat, faults : Nat]
      OBVIOUS
    <2>3. /\ nodes' \subseteq Nodes /\ ready' \subseteq nodes' /\ cordoned' \subseteq nodes'
          /\ seenCordoned' \subseteq nodes' /\ late' \subseteq Pods /\ seen' \in Policy /\ clock' \in 0..Horizon
          /\ mine' \subseteq cordoned' /\ drained' \subseteq cordoned' /\ missed' \subseteq Pods
          /\ pod' \in [Pods -> [on : nodes' \cup {Nowhere}, phase : Phases]]
      BY DEF IInv, TypeOK
    <2> HIDE DEF End
    <2>4. QED
      BY <2>1, <2>2, <2>3 DEF TypeOK
  <1>2. CordonedMeansDrained' /\ CordonedIsCurrent' /\ CurrentIsCordoned' /\ RunIsShown' /\ ReadyIsLeft'
    BY DEF CordonedMeansDrained, CordonedIsCurrent, CurrentIsCordoned, RunIsShown, ReadyIsLeft
  <1>3. DrainedIsQuiet' /\ QueueIsSound' /\ HomeIsHere'
    BY NoValues DEF IInv, DrainedIsQuiet, QueueIsSound, HomeIsHere, On, Alive
  <1>4. ComesBack'
    <2>1. wake' \in Nat /\ wake' <= m /\ wake' <= wake
      BY <1>0
    <2>2. DueTicks' = DueTicks /\ Ticks \subseteq Nat
      BY ConstantsAssumption DEF DueTicks
    <2>3. CASE wake' <= clock
      BY <1>0, <2>1, <2>2, <2>3 DEF ComesBack
    <2>4. CASE policy'.lastRun = start /\ m = NextTick
      <3>1. \A t \in Ticks : t > clock => wake' <= t
        BY <1>0, <2>1, <2>2, <2>4, NextTickIsNext
      <3>2. seen.lastRun = start => wake' <= clock
        BY <1>0, <2>1 DEF IInv, RunIsShown
      <3>3. QED
        BY <2>2, <2>4, <3>1, <3>2 DEF ComesBack
    <2>5. QED
      BY <1>0, <2>1, <2>3, <2>4
  <1>5. QED
    BY <1>1, <1>2, <1>3, <1>4 DEF IInv

LEMMA FinishKeeps ==
  ASSUME IInv, Finalize \/ FinalizeFails \/ Crash
  PROVE  IInv'
  <1>0. /\ clock \in Nat /\ clock \in 0..Later /\ NextTick \in 0..Later
        /\ mine \subseteq cordoned /\ stranded \subseteq cordoned
        /\ policy \in Policy /\ [policy EXCEPT !.lastRun = start] \in Policy
        /\ left \in [changes : Nat, faults : Nat]
    <2>1. clock \in 0..Horizon /\ Horizon \in Nat
      BY NoValues DEF IInv, TypeOK
    <2>2. clock \in Nat /\ clock \in 0..Later
      BY <2>1 DEF Later
    <2>3. NextTick \in 0..Later
      BY <2>2, NextTickIsNext, NoValues
    <2>4. QED
      BY <2>2, <2>3 DEF IInv, TypeOK, Policy
  <1>1. CASE Finalize
    BY <1>0, <1>1, EndKeeps DEF Finalize, WriteRun, IInv, CordonedIsCurrent
  <1>2. CASE FinalizeFails
    BY <1>0, <1>2, EndKeeps, SpendType DEF FinalizeFails, WriteRun, IInv, CordonedIsCurrent
  <1>3. CASE Crash
    BY <1>0, <1>3, EndKeeps, SpendType DEF Crash, IInv, CordonedIsCurrent
  <1>4. QED
    BY <1>1, <1>2, <1>3

-----------------------------------------------------------------------------
(* The environment.                                                        *)
LEMMA PodKeeps ==
  ASSUME IInv, NEW p \in Pods,
         Show(p) \/ Runs(p) \/ Ends(p) \/ \E n \in Nodes : Bind(p, n)
  PROVE  IInv'
  <1>1. UNCHANGED Untouched
    BY DEF Show, Runs, Ends, Bind
  <1>2. /\ pod \in [Pods -> [on : nodes \cup {Nowhere}, phase : Phases]]
        /\ home \in [Pods -> Nodes \cup {Nowhere}] /\ Nowhere \notin Nodes
        /\ ready \subseteq nodes /\ drained \subseteq cordoned /\ late \subseteq Pods /\ missed \subseteq Pods
        /\ nodes \subseteq Nodes /\ cordoned \subseteq nodes
    BY NoValues DEF IInv, TypeOK
  <1>3. /\ pod' \in [Pods -> [on : nodes \cup {Nowhere}, phase : Phases]]
        /\ home' \in [Pods -> Nodes \cup {Nowhere}]
        /\ late' \subseteq Pods /\ missed' \subseteq Pods
    BY <1>2 DEF Show, Runs, Ends, Bind, SetPod, Phases
  <1>4. TypeOK'
    BY <1>1, <1>3 DEF IInv, TypeOK, Untouched
  <1>5. /\ CordonedMeansDrained' /\ CordonedIsCurrent' /\ CurrentIsCordoned' /\ RunIsShown' /\ ComesBack'
        /\ QueueIsSound' /\ ReadyIsLeft'
    BY <1>1 DEF Untouched, IInv, CordonedMeansDrained, CordonedIsCurrent, CurrentIsCordoned, Current, RunIsShown,
                ComesBack, DueTicks, QueueIsSound, ReadyIsLeft, ToCordon
  <1>6. DrainedIsQuiet'
    <2>1. drained' = drained /\ Nowhere \notin drained
      BY <1>1, <1>2 DEF Untouched
    <2>2. CASE Show(p)
      BY <2>1, <2>2 DEF Show, IInv, DrainedIsQuiet, On, Alive
    <2>3. CASE Runs(p)
      BY <1>2, <2>1, <2>3 DEF Runs, SetPod, IInv, DrainedIsQuiet, On, Alive
    <2>4. CASE Ends(p)
      BY <1>2, <2>1, <2>4 DEF Ends, SetPod, IInv, DrainedIsQuiet, On, Alive
    <2>5. CASE \E n \in Nodes : Bind(p, n)
      BY <1>2, <2>1, <2>5 DEF Bind, SetPod, IInv, DrainedIsQuiet, On, Alive
    <2>6. QED
      BY <2>2, <2>3, <2>4, <2>5
  <1>7. HomeIsHere'
    <2>1. CASE Show(p)
      BY <2>1 DEF Show, IInv, HomeIsHere
    <2>2. CASE Runs(p)
      BY <1>2, <2>2 DEF Runs, SetPod, IInv, HomeIsHere
    <2>3. CASE Ends(p)
      BY <1>2, <2>3 DEF Ends, SetPod, IInv, HomeIsHere
    <2>4. CASE \E n \in Nodes : Bind(p, n)
      BY <1>2, <2>4 DEF Bind, SetPod, IInv, HomeIsHere
    <2>5. QED
      BY <2>1, <2>2, <2>3, <2>4
  <1>8. QED
    BY <1>4, <1>5, <1>6, <1>7 DEF IInv

LEMMA NodeChangeKeeps ==
  ASSUME IInv, NEW n \in Nodes, UserCordons(n) \/ UserUncordons(n) \/ Readiness(n)
  PROVE  IInv'
  <1> USE DEF NodeChange, UserCordons, UserUncordons, Readiness, run
  <1>1. TypeOK'
    BY SpendType DEF IInv, TypeOK
  <1>2. disturbed' <=> pc # "idle"
    OBVIOUS
  <1>3. CordonedMeansDrained' /\ CordonedIsCurrent' /\ RunIsShown' /\ ComesBack'
    BY DEF IInv, CordonedMeansDrained, CordonedIsCurrent, Current, RunIsShown, ComesBack, DueTicks
  <1>4. CurrentIsCordoned' /\ ReadyIsLeft'
    BY <1>2 DEF IInv, QueueIsSound, CurrentIsCordoned, ReadyIsLeft
  <1>5. DrainedIsQuiet' /\ QueueIsSound' /\ HomeIsHere'
    BY DEF IInv, DrainedIsQuiet, QueueIsSound, HomeIsHere, On, Alive
  <1>6. QED
    BY <1>1, <1>3, <1>4, <1>5 DEF IInv

LEMMA PolicyKeeps ==
  ASSUME IInv, UserChanges \/ UserDeletes \/ SyncPolicy
  PROVE  IInv'
  <1> USE DEF UserChanges, UserDeletes, PolicyChange, SyncPolicy, cluster, run, history
  <1>1. TypeOK'
    <2>1. clock \in 0..Later /\ clock \in Nat
      <3>1. clock \in 0..Horizon /\ Horizon \in Nat
        BY NoValues DEF IInv, TypeOK
      <3>2. QED
        BY <3>1 DEF Later
    <2>2. CASE SyncPolicy
      BY <2>1, <2>2 DEF IInv, TypeOK
    <2>3. CASE UserChanges \/ UserDeletes
      <3>1. policy' \in Policy
        BY <2>3 DEF IInv, TypeOK, Policy
      <3>2. QED
        BY <2>3, <3>1, SpendType DEF IInv, TypeOK
    <2>4. QED
      BY <2>2, <2>3
  <1>2. /\ CordonedMeansDrained' /\ DrainedIsQuiet' /\ QueueIsSound' /\ CordonedIsCurrent'
        /\ CurrentIsCordoned' /\ HomeIsHere' /\ ReadyIsLeft'
    BY DEF IInv, CordonedMeansDrained, DrainedIsQuiet, QueueIsSound, CordonedIsCurrent, Current,
           CurrentIsCordoned, HomeIsHere, ReadyIsLeft, On, Alive, ToCordon
  <1>3. RunIsShown' /\ ComesBack'
    <2>1. clock \in Nat /\ Ticks \subseteq Nat /\ policy \in Policy
      BY NoValues, ConstantsAssumption DEF IInv, TypeOK
    <2>2. CASE SyncPolicy
      BY <2>1, <2>2 DEF RunIsShown, ComesBack
    <2>3. CASE UserChanges \/ UserDeletes
      <3>1. policy'.lastRun = policy.lastRun /\ UNCHANGED <<seen, clock, wake, pc, start>>
        BY <2>1, <2>3 DEF Policy
      <3>2. QED
        BY <3>1 DEF IInv, RunIsShown, ComesBack, DueTicks
    <2>4. QED
      BY <2>2, <2>3
  <1>4. QED
    BY <1>1, <1>2, <1>3 DEF IInv

LEMMA SyncNodesKeeps ==
  ASSUME IInv, SyncNodes
  PROVE  IInv'
  <1> USE DEF SyncNodes, cluster, run, history
  <1>1. TypeOK'
    BY DEF IInv, TypeOK
  <1>2. /\ CordonedMeansDrained' /\ DrainedIsQuiet' /\ QueueIsSound' /\ CordonedIsCurrent'
        /\ CurrentIsCordoned' /\ HomeIsHere' /\ ReadyIsLeft' /\ RunIsShown' /\ ComesBack'
    BY DEF IInv, CordonedMeansDrained, DrainedIsQuiet, QueueIsSound, CordonedIsCurrent, Current,
           CurrentIsCordoned, HomeIsHere, ReadyIsLeft, RunIsShown, ComesBack, DueTicks, On, Alive, ToCordon
  <1>3. QED
    BY <1>1, <1>2 DEF IInv

LEMMA MinuteKeeps ==
  ASSUME IInv, Minute
  PROVE  IInv'
  <1> USE DEF Minute, cluster, run, history
  <1>0. clock \in Nat /\ clock' = clock + 1 /\ clock' <= Horizon /\ wake \in Nat
        /\ Ticks \subseteq Nat /\ Horizon \in Nat
    BY NoValues, ConstantsAssumption DEF IInv, TypeOK
  <1>1. TypeOK'
    BY <1>0 DEF IInv, TypeOK
  <1>2. /\ CordonedMeansDrained' /\ DrainedIsQuiet' /\ QueueIsSound' /\ CordonedIsCurrent'
        /\ CurrentIsCordoned' /\ HomeIsHere' /\ ReadyIsLeft'
    BY DEF IInv, CordonedMeansDrained, DrainedIsQuiet, QueueIsSound, CordonedIsCurrent, Current,
           CurrentIsCordoned, HomeIsHere, ReadyIsLeft, On, Alive, ToCordon
  <1>3. RunIsShown'
    BY <1>0 DEF IInv, RunIsShown
  <1>4. ComesBack'
    <2>1. SUFFICES ASSUME pc = "idle", seen.lastRun = policy.lastRun, seen.phase = "live", ~seen.spec.suspend
                   PROVE  /\ \A t \in DueTicks' : t - 1 \notin Ticks => seen.lastRun >= t \/ wake <= clock'
                          /\ \A t \in Ticks : t > clock' => wake <= t
      BY DEF ComesBack
    <2>2. /\ \A t \in DueTicks : t - 1 \notin Ticks => seen.lastRun >= t \/ wake <= clock
          /\ \A t \in Ticks : t > clock => wake <= t
      BY <2>1 DEF IInv, ComesBack
    <2>3. ASSUME NEW t \in DueTicks', t - 1 \notin Ticks
          PROVE  seen.lastRun >= t \/ wake <= clock'
      <3>1. t \in Ticks /\ t \in Nat /\ clock' <= t + 1 /\ t <= clock'
        BY <1>0 DEF DueTicks
      <3>2. CASE t = clock'
        BY <1>0, <2>2, <3>1, <3>2
      <3>3. CASE t = clock
        <4>1. t \in DueTicks
          BY <1>0, <3>1, <3>3 DEF DueTicks
        <4>2. QED
          BY <1>0, <2>2, <2>3, <4>1
      <3>4. QED
        BY <1>0, <3>1, <3>2, <3>3
    <2>4. ASSUME NEW t \in Ticks, t > clock'
          PROVE  wake <= t
      <3>1. t > clock
        BY <1>0, <2>4
      <3>2. QED
        BY <2>2, <3>1
    <2>5. QED
      BY <2>3, <2>4
  <1>5. QED
    BY <1>1, <1>2, <1>3, <1>4 DEF IInv

-----------------------------------------------------------------------------
LEMMA InitInv ==
  ASSUME Init
  PROVE  IInv
  <1> USE DEF Init
  <1>1. TypeOK
    <2>1. 0 \in 0..Horizon /\ 0 \in 0..Later /\ <<>> \in Seq(Nodes)
      BY NoValues
    <2>2. policy \in Policy /\ left \in [changes : Nat, faults : Nat]
      BY NoValues, ConstantsAssumption DEF Policy
    <2>3. pod \in [Pods -> [on : nodes \cup {Nowhere}, phase : Phases]]
      BY DEF Phases
    <2>4. QED
      BY <2>1, <2>2, <2>3, NoValues DEF TypeOK, Never
  <1>2. /\ CordonedMeansDrained /\ DrainedIsQuiet /\ QueueIsSound /\ CordonedIsCurrent
        /\ CurrentIsCordoned /\ ReadyIsLeft /\ RunIsShown
    BY DEF CordonedMeansDrained, DrainedIsQuiet, QueueIsSound, CordonedIsCurrent,
           CurrentIsCordoned, ReadyIsLeft, RunIsShown
  <1>3. HomeIsHere
    BY NoValues DEF HomeIsHere
  <1>4. ComesBack
    BY DEF ComesBack
  <1>5. QED
    BY <1>1, <1>2, <1>3, <1>4 DEF IInv

LEMMA StutterInv ==
  ASSUME IInv, UNCHANGED vars
  PROVE  IInv'
  <1>1. /\ UNCHANGED <<nodes, ready, cordoned, pod, late, seenCordoned, policy, seen, clock, wake, pc, copy>>
        /\ UNCHANGED <<fresh, start, queue, home, mine, drained, stranded, missed, disturbed, left>>
    BY DEF vars, cluster, run, history
  <1>2. TypeOK'
    BY <1>1 DEF IInv, TypeOK
  <1>3. /\ CordonedMeansDrained' /\ DrainedIsQuiet' /\ QueueIsSound' /\ CordonedIsCurrent'
        /\ CurrentIsCordoned' /\ HomeIsHere' /\ ReadyIsLeft' /\ RunIsShown' /\ ComesBack'
    BY <1>1 DEF IInv, CordonedMeansDrained, DrainedIsQuiet, QueueIsSound, CordonedIsCurrent, Current,
           CurrentIsCordoned, HomeIsHere, ReadyIsLeft, RunIsShown, ComesBack, DueTicks, On, Alive, ToCordon
  <1>4. QED
    BY <1>2, <1>3 DEF IInv

LEMMA NextInv ==
  ASSUME IInv, [Next]_vars
  PROVE  IInv'
  <1>1. CASE Pass
    BY <1>1, AddFinalizerKeeps, RemoveFinalizerKeeps, SkipKeeps, StartRunKeeps, CordonKeeps,
       CordonUnansweredKeeps, CordonFailsKeeps, EvictKeeps, StayKeeps, WaitDoneKeeps, GiveUpKeeps, DeleteNodeKeeps,
       PersistKeeps, FinishKeeps DEF Pass
  <1>2. CASE Environment
    BY <1>2, PodKeeps, NodeChangeKeeps, PolicyKeeps, SyncNodesKeeps, MinuteKeeps DEF Environment
  <1>3. CASE UNCHANGED vars
    BY <1>3, StutterInv
  <1>4. QED
    BY <1>1, <1>2, <1>3 DEF Next

(* Types; between runs no node stays cordoned but those that were drained  *)
(* or left behind; and a drained node stays free of pods that would have   *)
(* been waited for.                                                        *)
THEOREM Safety == Spec => []IInv
  <1>1. Init => IInv
    BY InitInv
  <1>2. IInv /\ [Next]_vars => IInv'
    BY NextInv
  <1>3. QED
    BY <1>1, <1>2, PTL DEF Spec

-----------------------------------------------------------------------------
(* The cordons of a run leave minReadyNodes ready nodes that take pods.    *)
THEOREM LeavesMinReady == Spec => KeepsMinReady
  <1>1. IInv /\ [Next]_vars =>
          [CordonNode /\ ~disturbed => Cardinality(ready \ cordoned') >= copy.spec.minReady]_vars
    <2>1. SUFFICES ASSUME IInv, CordonNode, ~disturbed
                   PROVE  Cardinality(ready \ cordoned') >= copy.spec.minReady
      OBVIOUS
    <2>2. Len(queue) \in Nat \ {0}
      BY <2>1, CurrentType DEF CordonNode
    <2>3. Cardinality(ready \ cordoned') >= copy.spec.minReady + Len(queue) - 1
      BY <2>1, CordonLeaves DEF TakesLeft
    <2>4. /\ ready \ cordoned' \subseteq Nodes /\ copy.spec.minReady \in Nat
      BY <2>1, ConstantsAssumption DEF IInv, TypeOK, Policy
    <2>5. Cardinality(ready \ cordoned') \in Nat
      BY <2>4, ReadyCount
    <2>6. QED
      BY <2>2, <2>3, <2>4, <2>5
  <1>2. QED
    BY <1>1, Safety, PTL DEF Spec, KeepsMinReady

(* A pod is evicted from a node that takes no pods.                        *)
THEOREM EvictsWhereCordoned == Spec => EvictsFromCordoned
  <1> DEFINE Sound == \A p \in Pods : Alive(p) /\ pod'[p].phase = "terminating" =>
                        pod[p].on \in cordoned \/ p \in Stable \/ disturbed
  <1>1. IInv /\ [Next]_vars => [Sound]_vars
    <2>1. SUFFICES ASSUME IInv, Next, NEW p \in Pods, Alive(p), pod'[p].phase = "terminating"
                   PROVE  pod[p].on \in cordoned \/ p \in Stable \/ disturbed
      OBVIOUS
    <2>2. pod \in [Pods -> [on : nodes \cup {Nowhere}, phase : Phases]] /\ pod[p].phase # "terminating"
      BY <2>1 DEF IInv, TypeOK, Alive
    <2>3. \E q \in Pods : Evict(q)
      BY <2>1, <2>2
         DEF Next, Pass, Environment, cluster, run, history, Untouched, AddFinalizer, RemoveFinalizer, Skip,
             StartRun, Cordon, CordonUnanswered, CordonNode, CordonFails, Evicted, WaitDone, WaitTimesOut, WaitFails,
             UncordonFails, DeleteNode, DeleteFails, Persist, Finalize, FinalizeFails, Crash, EvictionRefused, Show, Runs,
             Ends, Bind, SetPod, Unbound, UserCordons, UserUncordons, Readiness, NodeChange, UserChanges,
             UserDeletes, PolicyChange, SyncPolicy, SyncNodes, Minute
    <2>4. PICK q \in Pods : Evict(q)
      BY <2>3
    <2>5. p = q /\ pc = "evict" /\ home[p] = Current
      BY <2>1, <2>2, <2>4 DEF Evict, ToEvict
    <2>6. Current # Nowhere
      BY <2>1, <2>5, CurrentType
    <2>7. QED
      BY <2>1, <2>5, <2>6 DEF IInv, HomeIsHere, CurrentIsCordoned
  <1>2. QED
    BY <1>1, Safety, PTL DEF Spec, EvictsFromCordoned

(* A policy that is neither in a run nor waiting for the worker has run    *)
(* for the ticks of the minute that ends, and of the last.                 *)
THEOREM RunsEveryTick == Spec => TicksAreRun
  <1> DEFINE Ran == clock' # clock /\ pc = "idle" /\ clock < wake /\ policy.phase = "live" /\ ~policy.spec.suspend =>
                      \A t \in DueTicks : t - 1 \notin Ticks => policy.lastRun >= t
  <1>1. IInv /\ [Next]_vars => [Ran]_vars
    <2>1. SUFFICES ASSUME IInv, Next, clock' # clock, pc = "idle", clock < wake,
                          policy.phase = "live", ~policy.spec.suspend, NEW t \in DueTicks, t - 1 \notin Ticks
                   PROVE  policy.lastRun >= t
      OBVIOUS
    <2>2. Minute
      BY <2>1
         DEF Next, Pass, Environment, cluster, run, history, Untouched, AddFinalizer, RemoveFinalizer, Skip,
             StartRun, Cordon, CordonUnanswered, CordonNode, CordonFails, Evict, Evicted, WaitDone, WaitTimesOut, WaitFails,
             UncordonFails, DeleteNode, DeleteFails, Persist, Finalize, FinalizeFails, Crash, EvictionRefused, Show, Runs,
             Ends, Bind, UserCordons, UserUncordons, Readiness, NodeChange, UserChanges,
             UserDeletes, PolicyChange, SyncPolicy, SyncNodes
    <2>3. seen = policy /\ clock < wake /\ clock \in Nat /\ wake \in Nat
      BY <2>1, <2>2, NoValues DEF Minute, IInv, TypeOK
    <2>4. seen.lastRun >= t \/ wake <= clock
      BY <2>1, <2>3 DEF IInv, ComesBack
    <2>5. QED
      BY <2>3, <2>4
  <1>2. QED
    BY <1>1, Safety, PTL DEF Spec, TicksAreRun
=============================================================================
