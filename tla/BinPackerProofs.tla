-------------------------- MODULE BinPackerProofs --------------------------
(***************************************************************************)
(* BinPacker, for any nodes, pods, workloads, requests, budgets, specs and *)
(* bounds: the plans it makes, IInv, and what both imply.                  *)
(***************************************************************************)
EXTENDS BinPacker, Lemmas

-----------------------------------------------------------------------------
(* The plan grows with each pod of the order in which they come.           *)
Evictions == [pod : Pods, target : Nodes]

LEMMA PlanPodType ==
  ASSUME NEW max, NEW targets \in Seq(Nodes), NEW evictions \in Seq(Evictions), NEW p \in Pods
  PROVE  PlanPod(max, targets, evictions, p) \in Seq(Evictions)
  <1> DEFINE fitting == {i \in DOMAIN targets : CanFitOnNode(p, targets[i], evictions)}
  <1>1. fitting \subseteq Nat /\ \A i \in fitting : targets[i] \in Nodes
    OBVIOUS
  <1>2. fitting # {} => targets[Min(fitting)] \in Nodes
    <2>1. fitting # {} => Min(fitting) \in fitting
      BY <1>1, MinIsLeast
    <2>2. QED
      BY <1>1, <2>1
  <1>3. fitting # {} => [pod |-> p, target |-> targets[Min(fitting)]] \in Evictions
    BY <1>2 DEF Evictions
  <1> HIDE DEF fitting
  <1>4. PlanPod(max, targets, evictions, p) \in
          {evictions} \cup {Append(evictions, e) : e \in Evictions}
    BY <1>3 DEF PlanPod, fitting
  <1>5. QED
    BY <1>4

PlannedOver(max, targets, s, g) ==
  g = [T \in SUBSET (DOMAIN s) |->
         IF T = {} THEN <<>> ELSE PlanPod(max, targets, g[T \ {Max(T)}], s[Max(T)])]

Planning(max, targets, s) == CHOOSE g : PlannedOver(max, targets, s, g)

LEMMA PlanIsPlanning ==
  ASSUME NEW max, NEW targets, NEW s
  PROVE  PlanOf(max, targets, s) = Planning(max, targets, s)[DOMAIN s]
  BY DEF PlanOf, FoldLeft, MapThenFoldSet, Planning, PlannedOver

LEMMA PlanningExists ==
  ASSUME NEW max, NEW targets \in Seq(Nodes), NEW s \in Seq(Pods)
  PROVE  \E g : PlannedOver(max, targets, s, g)
  <1> DEFINE S == DOMAIN s
             V == Seq(Evictions)
             c == [T \in SUBSET S |-> Max(T)]
             h == [z \in S \X V |-> PlanPod(max, targets, z[2], s[z[1]])]
  <1>1. S = 1..Len(s) /\ Len(s) \in Nat /\ \A i \in S : s[i] \in Pods
    OBVIOUS
  <1>2. IsFiniteSet(S)
    BY <1>1, FS_Interval
  <1>3. \A T \in SUBSET S : T # {} => Max(T) \in T
    BY <1>1, MaxIsGreatest
  <1>4. \A T \in SUBSET S : T # {} => c[T] \in T
    BY <1>3
  <1>5. h \in [S \X V -> V]
    BY <1>1, PlanPodType
  <1>6. <<>> \in V
    OBVIOUS
  <1>7. \E g \in [SUBSET S -> V] : Folds(S, <<>>, c, h, g)
    <2> HIDE DEF S, V, c, h
    <2>1. QED
      BY <1>2, <1>4, <1>5, <1>6, FoldExists, Zenon
  <1>8. PICK g \in [SUBSET S -> V] :
          \A T \in SUBSET S : g[T] = IF T = {} THEN <<>> ELSE h[<<c[T], g[T \ {c[T]}]>>]
    BY <1>7 DEF Folds
  <1>9. ASSUME NEW T \in SUBSET S
        PROVE  g[T] = IF T = {} THEN <<>> ELSE PlanPod(max, targets, g[T \ {Max(T)}], s[Max(T)])
    <2>1. CASE T # {}
      <3>1. Max(T) \in S /\ c[T] = Max(T) /\ T \ {Max(T)} \in SUBSET S
        BY <1>3, <2>1
      <3>2. h[<<Max(T), g[T \ {Max(T)}]>>] = PlanPod(max, targets, g[T \ {Max(T)}], s[Max(T)])
        <4>1. g[T \ {Max(T)}] \in V
          BY <3>1
        <4> HIDE DEF S, V
        <4>2. QED
          BY <3>1, <4>1
      <3>3. QED
        BY <1>8, <2>1, <3>1, <3>2
    <2>2. QED
      BY <1>8, <2>1
  <1> HIDE DEF c, h
  <1>10. PlannedOver(max, targets, s, g)
    BY <1>9 DEF PlannedOver
  <1>11. QED
    BY <1>10

LEMMA PlanningStep ==
  ASSUME NEW max, NEW targets \in Seq(Nodes), NEW s \in Seq(Pods)
  PROVE  /\ Planning(max, targets, s)[1..0] = <<>>
         /\ \A i \in 1..Len(s) :
              Planning(max, targets, s)[1..i]
                = PlanPod(max, targets, Planning(max, targets, s)[1..(i - 1)], s[i])
  <1> DEFINE F == Planning(max, targets, s)
  <1>1. PlannedOver(max, targets, s, F)
    BY PlanningExists DEF Planning
  <1> HIDE DEF F
  <1>2. \A T \in SUBSET (1..Len(s)) :
          F[T] = IF T = {} THEN <<>> ELSE PlanPod(max, targets, F[T \ {Max(T)}], s[Max(T)])
    <2>1. DOMAIN s = 1..Len(s)
      OBVIOUS
    <2>2. F = [T \in SUBSET (1..Len(s)) |->
                 IF T = {} THEN <<>> ELSE PlanPod(max, targets, F[T \ {Max(T)}], s[Max(T)])]
      BY <1>1, <2>1 DEF PlannedOver
    <2>3. QED
      BY <2>2
  <1>3. F[1..0] = <<>>
    <2>1. 1..0 = {} /\ 1..0 \in SUBSET (1..Len(s))
      OBVIOUS
    <2>2. QED
      BY <1>2, <2>1
  <1>4. ASSUME NEW i \in 1..Len(s)
        PROVE  F[1..i] = PlanPod(max, targets, F[1..(i - 1)], s[i])
    <2>1. 1..i \in SUBSET (1..Len(s)) /\ i \in Nat \ {0}
      OBVIOUS
    <2>2. QED
      BY <1>2, <2>1, UpToNext
  <1>5. QED
    BY <1>3, <1>4 DEF F

-----------------------------------------------------------------------------
(* Plans are sound.                                                        *)
Movable == UNION {EvictableOn(n) : n \in Candidates}

Free == Nodes \ Candidates

Moved(evictions) == {e.pod : e \in Range(evictions)}

Taken(evictions, w) == {p \in Moved(evictions) : WorkloadOf[p] = w}

PlannedOf(evictions, w) == {e \in Range(evictions) : WorkloadOf[e.pod] = w}

(* What buildConsolidationPlan has planned of each workload ...            *)
KeepsBudgets(evictions) ==
  \A w \in Workloads :
    /\ IsFiniteSet(PlannedOf(evictions, w)) /\ IsFiniteSet(Taken(evictions, w))
    /\ Cardinality(PlannedOf(evictions, w)) = Cardinality(Taken(evictions, w))
    /\ Taken(evictions, w) # {} => Cardinality(Taken(evictions, w)) <= DisruptionBudget(w)

(* ... and for each node.                                                  *)
FitsOn(evictions, amount, n) ==
  /\ Total(amount, SeenOn(n) \cup MovedTo(evictions, n))
       = Total(amount, SeenOn(n)) + Total(amount, MovedTo(evictions, n))
  /\ MovedTo(evictions, n) # {} => Total(amount, SeenOn(n) \cup MovedTo(evictions, n)) <= 100

SoundPlan(max, evictions) ==
  /\ evictions \in Seq(Evictions)
  /\ max > 0 => Len(evictions) <= max
  /\ \A e \in Range(evictions) : e.pod \in Movable /\ e.target \in Free
  /\ KeepsBudgets(evictions)
  /\ \A n \in Free : FitsOn(evictions, Cpu, n) /\ FitsOn(evictions, Memory, n)

LEMMA AllowedType ==
  ASSUME NEW b \in Budgets, NEW ready, \A w \in Workloads : ready[w] \in Nat
  PROVE  Allowed(b, ready) \in Nat
  <1> DEFINE healthy == Total(ready, b.covers)
  <1>1. b.covers \subseteq Workloads /\ b.minAvailable \in Nat /\ IsFiniteSet(Workloads)
    BY ConstantsAssumption
  <1>2. IsFiniteSet(b.covers)
    BY <1>1, FS_Subset
  <1>3. healthy \in Nat
    BY <1>1, <1>2, TotalStep
  <1>4. Allowed(b, ready) = IF healthy > b.minAvailable THEN healthy - b.minAvailable ELSE 0
    BY DEF Allowed, Total
  <1> HIDE DEF healthy
  <1>5. QED
    BY <1>1, <1>3, <1>4

(* A budget is the least that any PodDisruptionBudget allows.              *)
LEMMA BudgetFacts ==
  ASSUME \A w \in Workloads : seenReady[w] \in Nat, NEW w \in Workloads
  PROVE  /\ DisruptionBudget(w) \in Int
         /\ BudgetsOf(w) = {} => DisruptionBudget(w) = seenReady[w] - 1
         /\ \A b \in BudgetsOf(w) : DisruptionBudget(w) <= Allowed(b, seenReady)
  <1> DEFINE S == {Allowed(b, seenReady) : b \in BudgetsOf(w)}
  <1>1. S \subseteq Nat
    BY AllowedType DEF BudgetsOf
  <1>2. CASE BudgetsOf(w) = {}
    BY <1>2 DEF DisruptionBudget
  <1>3. CASE BudgetsOf(w) # {}
    <2>1. S # {} /\ DisruptionBudget(w) = Min(S)
      BY <1>3 DEF DisruptionBudget
    <2>2. Min(S) \in S /\ \A m \in S : Min(S) <= m
      <3> HIDE DEF S
      <3>1. QED
        BY <1>1, <2>1, MinIsLeast
    <2>3. QED
      BY <1>1, <1>3, <2>1, <2>2
  <1>4. QED
    BY <1>2, <1>3

LEMMA RequestsFacts ==
  ASSUME NEW amount \in {Cpu, Memory}, NEW n, NEW evictions
  PROVE  /\ \A p \in Pods : amount[p] \in Nat
         /\ IsFiniteSet(SeenOn(n)) /\ SeenOn(n) \subseteq Pods
         /\ Requests(amount, n) = Total(amount, SeenOn(n))
         /\ Sum(amount, evictions, n) = Total(amount, MovedTo(evictions, n))
         /\ Total(amount, SeenOn(n)) \in Nat
  <1>1. \A p \in Pods : amount[p] \in Nat
    BY ConstantsAssumption
  <1>2. IsFiniteSet(SeenOn(n)) /\ SeenOn(n) \subseteq Pods
    <2>1. SeenOn(n) \in SUBSET Pods
      BY DEF SeenOn
    <2>2. QED
      BY <2>1, ConstantsAssumption, FS_Subset
  <1>3. Requests(amount, n) = Total(amount, SeenOn(n))
    BY DEF Requests, Total
  <1>4. Sum(amount, evictions, n) = Total(amount, MovedTo(evictions, n))
    BY DEF Sum, Total
  <1>5. Total(amount, SeenOn(n)) \in Nat
    BY <1>1, <1>2, TotalStep
  <1>6. QED
    BY <1>1, <1>2, <1>3, <1>4, <1>5

LEMMA MovedType ==
  ASSUME NEW evictions \in Seq(Evictions)
  PROVE  /\ \A e \in Range(evictions) : e \in Evictions
         /\ Moved(evictions) \subseteq Pods
         /\ \A n : MovedTo(evictions, n) \subseteq Moved(evictions) /\ IsFiniteSet(MovedTo(evictions, n))
  <1>1. \A e \in Range(evictions) : e \in Evictions
    BY DEF Range
  <1>2. Moved(evictions) \subseteq Pods
    BY <1>1 DEF Moved, Evictions
  <1>3. ASSUME NEW n
        PROVE  MovedTo(evictions, n) \subseteq Moved(evictions) /\ IsFiniteSet(MovedTo(evictions, n))
    <2>1. MovedTo(evictions, n) \subseteq Moved(evictions)
      BY DEF MovedTo, Moved
    <2>2. MovedTo(evictions, n) \in SUBSET Pods
      BY <1>2, <2>1
    <2>3. QED
      BY <2>1, <2>2, ConstantsAssumption, FS_Subset
  <1>4. QED
    BY <1>1, <1>2, <1>3

(* A pod that is planned goes to a node on which it fits.                  *)
LEMMA PlanPodCases ==
  ASSUME NEW max, NEW targets \in Seq(Free), NEW evictions, NEW p,
         PlanPod(max, targets, evictions, p) # evictions
  PROVE  \E n \in Free :
           /\ PlanPod(max, targets, evictions, p) = Append(evictions, [pod |-> p, target |-> n])
           /\ CanFitOnNode(p, n, evictions)
           /\ ~(max > 0 /\ Len(evictions) >= max)
           /\ ~(Cardinality(PlannedOf(evictions, WorkloadOf[p])) >= DisruptionBudget(WorkloadOf[p]))
  <1> DEFINE fitting == {i \in DOMAIN targets : CanFitOnNode(p, targets[i], evictions)}
             n == targets[Min(fitting)]
  <1>1. /\ ~(max > 0 /\ Len(evictions) >= max)
        /\ ~(Cardinality(PlannedOf(evictions, WorkloadOf[p])) >= DisruptionBudget(WorkloadOf[p]))
        /\ fitting # {}
        /\ PlanPod(max, targets, evictions, p) = Append(evictions, [pod |-> p, target |-> n])
    BY DEF PlanPod, PlannedOf
  <1>2. fitting \subseteq Nat
    OBVIOUS
  <1>3. Min(fitting) \in fitting
    <2> HIDE DEF fitting
    <2>1. QED
      BY <1>1, <1>2, MinIsLeast
  <1>4. n \in Free /\ CanFitOnNode(p, n, evictions)
    BY <1>3
  <1> HIDE DEF n, fitting
  <1>5. QED
    BY <1>1, <1>4

LEMMA AppendParts ==
  ASSUME NEW evictions \in Seq(Evictions), NEW e \in Evictions
  PROVE  LET longer == Append(evictions, e)
         IN  /\ longer \in Seq(Evictions)
             /\ Len(longer) = Len(evictions) + 1
             /\ Range(longer) = Range(evictions) \cup {e}
             /\ Moved(longer) = Moved(evictions) \cup {e.pod}
             /\ \A n : MovedTo(longer, n) = IF n = e.target THEN MovedTo(evictions, n) \cup {e.pod}
                                            ELSE MovedTo(evictions, n)
             /\ \A w : /\ w = WorkloadOf[e.pod] =>
                            /\ Taken(longer, w) = Taken(evictions, w) \cup {e.pod}
                            /\ PlannedOf(longer, w) = PlannedOf(evictions, w) \cup {e}
                       /\ w # WorkloadOf[e.pod] =>
                            /\ Taken(longer, w) = Taken(evictions, w)
                            /\ PlannedOf(longer, w) = PlannedOf(evictions, w)
  <1> DEFINE longer == Append(evictions, e)
  <1>1. longer \in Seq(Evictions) /\ Len(longer) = Len(evictions) + 1
    OBVIOUS
  <1>2. Range(longer) = Range(evictions) \cup {e}
    <2>1. /\ DOMAIN longer = 1..(Len(evictions) + 1) /\ DOMAIN evictions = 1..Len(evictions)
          /\ Len(evictions) \in Nat
          /\ \A i \in 1..Len(evictions) : longer[i] = evictions[i]
          /\ longer[Len(evictions) + 1] = e
      OBVIOUS
    <2> HIDE DEF longer
    <2>2. ASSUME NEW x
          PROVE  x \in Range(longer) <=> x \in Range(evictions) \cup {e}
      <3>1. ASSUME NEW i \in 1..(Len(evictions) + 1)
            PROVE  i \in 1..Len(evictions) \/ i = Len(evictions) + 1
        BY <2>1
      <3>2. \A i \in 1..Len(evictions) : i \in 1..(Len(evictions) + 1)
        BY <2>1
      <3>3. Len(evictions) + 1 \in 1..(Len(evictions) + 1)
        BY <2>1
      <3>4. QED
        BY <2>1, <3>1, <3>2, <3>3 DEF Range
    <2>3. QED
      BY <2>2
  <1> HIDE DEF longer
  <1>3. Moved(longer) = Moved(evictions) \cup {e.pod}
    BY <1>2 DEF Moved
  <1>4. \A n : MovedTo(longer, n) = IF n = e.target THEN MovedTo(evictions, n) \cup {e.pod}
                                    ELSE MovedTo(evictions, n)
    BY <1>2 DEF MovedTo
  <1>5. \A w : /\ w = WorkloadOf[e.pod] =>
                    /\ Taken(longer, w) = Taken(evictions, w) \cup {e.pod}
                    /\ PlannedOf(longer, w) = PlannedOf(evictions, w) \cup {e}
               /\ w # WorkloadOf[e.pod] =>
                    /\ Taken(longer, w) = Taken(evictions, w)
                    /\ PlannedOf(longer, w) = PlannedOf(evictions, w)
    BY <1>2, <1>3 DEF Taken, PlannedOf
  <1>6. QED
    BY <1>1, <1>2, <1>3, <1>4, <1>5 DEF longer

LEMMA AppendKeepsBudgets ==
  ASSUME \A w \in Workloads : seenReady[w] \in Nat,
         NEW evictions \in Seq(Evictions), NEW e \in Evictions,
         KeepsBudgets(evictions), e.pod \notin Moved(evictions),
         ~(Cardinality(PlannedOf(evictions, WorkloadOf[e.pod])) >= DisruptionBudget(WorkloadOf[e.pod]))
  PROVE  KeepsBudgets(Append(evictions, e))
  <1> DEFINE longer == Append(evictions, e)
             p == e.pod
  <1>1. p \in Pods /\ WorkloadOf[p] \in Workloads
    BY ConstantsAssumption DEF Evictions
  <1>2. e \notin PlannedOf(evictions, WorkloadOf[p]) /\ p \notin Taken(evictions, WorkloadOf[p])
    BY DEF PlannedOf, Taken, Moved
  <1>3. ASSUME NEW w \in Workloads
        PROVE  /\ IsFiniteSet(PlannedOf(longer, w)) /\ IsFiniteSet(Taken(longer, w))
               /\ Cardinality(PlannedOf(longer, w)) = Cardinality(Taken(longer, w))
               /\ Taken(longer, w) # {} => Cardinality(Taken(longer, w)) <= DisruptionBudget(w)
    <2>1. /\ IsFiniteSet(PlannedOf(evictions, w)) /\ IsFiniteSet(Taken(evictions, w))
          /\ Cardinality(PlannedOf(evictions, w)) = Cardinality(Taken(evictions, w))
          /\ Taken(evictions, w) # {} => Cardinality(Taken(evictions, w)) <= DisruptionBudget(w)
      BY DEF KeepsBudgets
    <2>2. CASE w # WorkloadOf[p]
      BY <2>1, <2>2, AppendParts
    <2>3. CASE w = WorkloadOf[p]
      <3>1. /\ Taken(longer, w) = Taken(evictions, w) \cup {p}
            /\ PlannedOf(longer, w) = PlannedOf(evictions, w) \cup {e}
        BY <2>3, AppendParts
      <3>2. /\ IsFiniteSet(Taken(longer, w)) /\ IsFiniteSet(PlannedOf(longer, w))
            /\ Cardinality(Taken(longer, w)) = Cardinality(Taken(evictions, w)) + 1
            /\ Cardinality(PlannedOf(longer, w)) = Cardinality(PlannedOf(evictions, w)) + 1
        <4>1. p \notin Taken(evictions, w) /\ e \notin PlannedOf(evictions, w)
          BY <1>2, <2>3
        <4> HIDE DEF p, longer
        <4>2. /\ IsFiniteSet(Taken(longer, w))
              /\ Cardinality(Taken(longer, w)) = Cardinality(Taken(evictions, w)) + 1
          BY <2>1, <3>1, <4>1, FS_AddElement
        <4>3. /\ IsFiniteSet(PlannedOf(longer, w))
              /\ Cardinality(PlannedOf(longer, w)) = Cardinality(PlannedOf(evictions, w)) + 1
          BY <2>1, <3>1, <4>1, FS_AddElement
        <4>4. QED
          BY <4>2, <4>3
      <3>3. Cardinality(Taken(evictions, w)) \in Nat /\ DisruptionBudget(w) \in Int
        BY <2>1, FS_CardinalityType, BudgetFacts
      <3>4. Cardinality(Taken(evictions, w)) < DisruptionBudget(w)
        BY <2>1, <2>3, <3>3
      <3>5. QED
        BY <2>1, <3>2, <3>3, <3>4
    <2>4. QED
      BY <2>2, <2>3
  <1>4. QED
    BY <1>3 DEF KeepsBudgets

LEMMA AppendFits ==
  ASSUME NEW evictions \in Seq(Evictions), NEW e \in Evictions, NEW amount \in {Cpu, Memory},
         NEW n, FitsOn(evictions, amount, n),
         e.pod \notin Moved(evictions), e.target = n => e.pod \notin SeenOn(n),
         e.target = n => Requests(amount, n) + Sum(amount, evictions, n) + amount[e.pod] <= 100
  PROVE  FitsOn(Append(evictions, e), amount, n)
  <1> DEFINE longer == Append(evictions, e)
             p == e.pod
             there == SeenOn(n)
             planned == MovedTo(evictions, n)
  <1>1. CASE e.target # n
    <2>1. MovedTo(longer, n) = planned
      BY <1>1, AppendParts
    <2> HIDE DEF longer
    <2>2. FitsOn(longer, amount, n)
      BY <2>1 DEF FitsOn
    <2>3. QED
      BY <2>2 DEF longer
  <1>2. CASE e.target = n
    <2>1. MovedTo(longer, n) = planned \cup {p}
      BY <1>2, AppendParts
    <2>2. /\ p \in Pods /\ p \notin planned /\ p \notin there
          /\ IsFiniteSet(planned) /\ IsFiniteSet(there) /\ planned \subseteq Pods /\ there \subseteq Pods
          /\ \A q \in Pods : amount[q] \in Nat
      BY <1>2, MovedType, RequestsFacts DEF Evictions
    <2>3. IsFiniteSet(there \cup planned)
      <3>1. there \cup planned \in SUBSET Pods
        BY <2>2
      <3>2. QED
        BY <3>1, ConstantsAssumption, FS_Subset
    <2>4. /\ Total(amount, there \cup planned) = Total(amount, there) + Total(amount, planned)
          /\ Total(amount, there) + Total(amount, planned) + amount[p] <= 100
      BY <1>2, RequestsFacts DEF FitsOn
    <2> HIDE DEF there, planned, p, longer
    <2>5. Total(amount, planned \cup {p}) = Total(amount, planned) + amount[p]
      BY <2>2, TotalAdd
    <2>6. Total(amount, (there \cup planned) \cup {p}) = Total(amount, there \cup planned) + amount[p]
      BY <2>2, <2>3, TotalAdd
    <2>7. there \cup (planned \cup {p}) = (there \cup planned) \cup {p}
      OBVIOUS
    <2>8. Total(amount, there) \in Nat /\ Total(amount, planned) \in Nat /\ amount[p] \in Nat
      BY <2>2, TotalStep
    <2>9. Total(amount, there \cup MovedTo(longer, n)) = Total(amount, there \cup planned) + amount[p]
      BY <2>1, <2>6, <2>7
    <2>10. Total(amount, MovedTo(longer, n)) = Total(amount, planned) + amount[p]
      BY <2>1, <2>5
    <2>11. /\ Total(amount, there \cup MovedTo(longer, n))
                = Total(amount, there) + Total(amount, MovedTo(longer, n))
           /\ Total(amount, there \cup MovedTo(longer, n)) <= 100
      BY <2>4, <2>8, <2>9, <2>10
    <2>12. QED
      BY <2>11 DEF FitsOn, there, longer
  <1>3. QED
    BY <1>1, <1>2

LEMMA MovableFacts ==
  /\ Movable \subseteq Pods /\ IsFiniteSet(Movable)
  /\ \A p \in Movable : p \in Evictable /\ seenPod[p].phase = "running" /\ seenPod[p].on \in Candidates
  /\ \A p \in Movable, n \in Free : p \notin SeenOn(n)
  <1>1. \A p \in Movable : /\ p \in Pods /\ p \in Evictable
                           /\ seenPod[p].phase = "running" /\ seenPod[p].on \in Candidates
    BY DEF Movable, EvictableOn, SeenOn
  <1>2. Movable \in SUBSET Pods
    BY <1>1
  <1>3. IsFiniteSet(Movable)
    BY <1>2, ConstantsAssumption, FS_Subset
  <1>4. \A p \in Movable, n \in Free : p \notin SeenOn(n)
    BY <1>1 DEF Free, SeenOn
  <1>5. QED
    BY <1>1, <1>2, <1>3, <1>4

LEMMA NoPlanIsSound ==
  ASSUME NEW max \in Nat
  PROVE  SoundPlan(max, <<>>) /\ Moved(<<>>) = {}
  <1>1. Range(<<>>) = {}
    BY DEF Range
  <1>2. Moved(<<>>) = {} /\ \A n : MovedTo(<<>>, n) = {}
    BY <1>1 DEF Moved, MovedTo
  <1>3. \A w : Taken(<<>>, w) = {} /\ PlannedOf(<<>>, w) = {}
    BY <1>1, <1>2 DEF Taken, PlannedOf
  <1>4. KeepsBudgets(<<>>)
    BY <1>3, FS_EmptySet DEF KeepsBudgets
  <1>5. ASSUME NEW n, NEW amount \in {Cpu, Memory}
        PROVE  FitsOn(<<>>, amount, n)
    <2>1. Total(amount, {}) = 0
      BY FS_EmptySet, TotalStep
    <2>2. Total(amount, SeenOn(n)) \in Nat
      BY RequestsFacts
    <2>3. SeenOn(n) \cup {} = SeenOn(n)
      OBVIOUS
    <2>4. MovedTo(<<>>, n) = {}
      BY <1>2
    <2>5. Total(amount, SeenOn(n) \cup MovedTo(<<>>, n)) = Total(amount, SeenOn(n))
      BY <2>3, <2>4
    <2>6. Total(amount, MovedTo(<<>>, n)) = 0
      BY <2>1, <2>4
    <2>7. QED
      BY <2>2, <2>4, <2>5, <2>6 DEF FitsOn
  <1>6. /\ <<>> \in Seq(Evictions) /\ Len(<<>>) = 0
    OBVIOUS
  <1>7. QED
    BY <1>1, <1>2, <1>4, <1>5, <1>6 DEF SoundPlan

LEMMA PlanPodIsSound ==
  ASSUME \A w \in Workloads : seenReady[w] \in Nat,
         NEW max \in Nat, NEW targets \in Seq(Free), NEW evictions, SoundPlan(max, evictions),
         NEW p \in Movable, p \notin Moved(evictions)
  PROVE  /\ SoundPlan(max, PlanPod(max, targets, evictions, p))
         /\ Moved(PlanPod(max, targets, evictions, p)) \subseteq Moved(evictions) \cup {p}
  <1>1. CASE PlanPod(max, targets, evictions, p) = evictions
    BY <1>1
  <1>2. CASE PlanPod(max, targets, evictions, p) # evictions
    <2>1. PICK n \in Free :
            /\ PlanPod(max, targets, evictions, p) = Append(evictions, [pod |-> p, target |-> n])
            /\ CanFitOnNode(p, n, evictions)
            /\ ~(max > 0 /\ Len(evictions) >= max)
            /\ ~(Cardinality(PlannedOf(evictions, WorkloadOf[p])) >= DisruptionBudget(WorkloadOf[p]))
      BY <1>2, PlanPodCases
    <2> DEFINE e == [pod |-> p, target |-> n]
               longer == Append(evictions, e)
    <2>2. e \in Evictions /\ e.pod = p /\ e.target = n
      BY MovableFacts DEF Free, Evictions
    <2>3. evictions \in Seq(Evictions) /\ KeepsBudgets(evictions)
      BY DEF SoundPlan
    <2> HIDE DEF e
    <2>4. /\ longer \in Seq(Evictions) /\ Len(longer) = Len(evictions) + 1
          /\ Range(longer) = Range(evictions) \cup {e}
          /\ Moved(longer) = Moved(evictions) \cup {p}
      BY <2>2, <2>3, AppendParts
    <2>5. KeepsBudgets(longer)
      BY <2>1, <2>2, <2>3, AppendKeepsBudgets
    <2>6. ASSUME NEW m \in Free, NEW amount \in {Cpu, Memory}
          PROVE  FitsOn(longer, amount, m)
      <3>1. FitsOn(evictions, amount, m)
        BY DEF SoundPlan
      <3>2. p \notin SeenOn(m)
        BY MovableFacts
      <3>3. n = m => Requests(amount, m) + Sum(amount, evictions, m) + amount[p] <= 100
        BY <2>1 DEF CanFitOnNode
      <3>4. QED
        BY <2>2, <2>3, <3>1, <3>2, <3>3, AppendFits
    <2>7. max > 0 => Len(longer) <= max
      <3>1. Len(evictions) \in Nat
        BY <2>3
      <3>2. QED
        BY <2>1, <2>4, <3>1
    <2>8. \A x \in Range(longer) : x.pod \in Movable /\ x.target \in Free
      BY <2>2, <2>4 DEF SoundPlan
    <2> HIDE DEF longer
    <2>9. SoundPlan(max, longer)
      BY <2>4, <2>5, <2>6, <2>7, <2>8 DEF SoundPlan
    <2>10. PlanPod(max, targets, evictions, p) = longer
      BY <2>1 DEF longer, e
    <2>11. QED
      BY <2>4, <2>9, <2>10
  <1>3. QED
    BY <1>1, <1>2

(* Every plan is sound.                                                    *)
LEMMA PlansAreSound ==
  ASSUME \A w \in Workloads : seenReady[w] \in Nat,
         NEW max \in Nat, NEW evictions \in Plans(max)
  PROVE  SoundPlan(max, evictions)
  <1>1. PICK s \in PodOrders, targets \in SetToSeqs(Free) :
          evictions = Planning(max, targets, s)[DOMAIN s]
    <2>1. \E s \in PodOrders, targets \in SetToSeqs(Free) : evictions = PlanOf(max, targets, s)
      BY DEF Plans, Free
    <2>2. \A s, targets : PlanOf(max, targets, s) = Planning(max, targets, s)[DOMAIN s]
      BY PlanIsPlanning
    <2>3. QED
      BY <2>1, <2>2
  <1>2. /\ s \in Seq(Movable) /\ Len(s) \in Nat /\ DOMAIN s = 1..Len(s)
        /\ \A i, j \in 1..Len(s) : i # j => s[i] # s[j]
    <2>1. s \in SetToSeqs(Movable)
      BY DEF PodOrders, Movable
    <2>2. QED
      BY <2>1, MovableFacts, SeqFacts
  <1>3. targets \in Seq(Free) /\ targets \in Seq(Nodes)
    <2>1. Free \in SUBSET Nodes
      BY DEF Free
    <2>2. IsFiniteSet(Free)
      BY <2>1, ConstantsAssumption, FS_Subset
    <2>3. targets \in Seq(Free)
      BY <2>2, SeqFacts
    <2>4. QED
      BY <2>1, <2>3
  <1>4. s \in Seq(Pods)
    BY <1>2, MovableFacts
  <1> DEFINE F == Planning(max, targets, s)
  <1>5. /\ F[1..0] = <<>>
        /\ \A i \in 1..Len(s) : F[1..i] = PlanPod(max, targets, F[1..(i - 1)], s[i])
    BY <1>3, <1>4, PlanningStep
  <1>6. evictions = F[1..Len(s)]
    BY <1>1, <1>2
  <1> HIDE DEF F
  <1> DEFINE Good == {i \in Nat : i <= Len(s) => /\ SoundPlan(max, F[1..i])
                                                 /\ Moved(F[1..i]) \subseteq {s[j] : j \in 1..i}}
  <1>7. 0 \in Good
    BY <1>5, NoPlanIsSound
  <1>8. ASSUME NEW i \in Nat, i \in Good
        PROVE  i + 1 \in Good
    <2> SUFFICES ASSUME i + 1 <= Len(s)
                 PROVE  /\ SoundPlan(max, F[1..(i + 1)])
                        /\ Moved(F[1..(i + 1)]) \subseteq {s[j] : j \in 1..(i + 1)}
      OBVIOUS
    <2>1. i + 1 \in 1..Len(s) /\ (i + 1) - 1 = i /\ i <= Len(s)
      BY <1>2
    <2>2. SoundPlan(max, F[1..i]) /\ Moved(F[1..i]) \subseteq {s[j] : j \in 1..i}
      BY <1>8, <2>1
    <2>3. F[1..(i + 1)] = PlanPod(max, targets, F[1..i], s[i + 1])
      BY <1>5, <2>1
    <2>4. s[i + 1] \in Movable
      BY <1>2, <2>1
    <2>5. \A j \in 1..i : j \in 1..Len(s) /\ j # i + 1 /\ j \in 1..(i + 1)
      BY <2>1
    <2>6. s[i + 1] \notin Moved(F[1..i])
      BY <1>2, <2>1, <2>2, <2>5
    <2>7. /\ SoundPlan(max, F[1..(i + 1)])
          /\ Moved(F[1..(i + 1)]) \subseteq Moved(F[1..i]) \cup {s[i + 1]}
      BY <1>3, <2>2, <2>3, <2>4, <2>6, PlanPodIsSound
    <2>8. i + 1 \in 1..(i + 1)
      OBVIOUS
    <2>9. QED
      BY <2>2, <2>5, <2>7, <2>8
  <1>9. Nat \subseteq Good
    <2> HIDE DEF Good
    <2>1. QED
      BY <1>7, <1>8, EveryNat
  <1>10. QED
    BY <1>2, <1>6, <1>9

-----------------------------------------------------------------------------
(* The invariant.                                                          *)
LEMMA HeadAndTail ==
  ASSUME NEW evictions \in Seq(Evictions), evictions # <<>>
  PROVE  /\ Head(evictions) \in Evictions
         /\ Head(evictions) \in Range(evictions)
         /\ Tail(evictions) \in Seq(Evictions)
         /\ Len(Tail(evictions)) = Len(evictions) - 1
         /\ Range(Tail(evictions)) \subseteq Range(evictions)
  <1>1. Len(evictions) \in Nat \ {0} /\ DOMAIN evictions = 1..Len(evictions)
    OBVIOUS
  <1>2. 1 \in DOMAIN evictions /\ Head(evictions) = evictions[1]
    BY <1>1
  <1>3. /\ DOMAIN Tail(evictions) = 1..(Len(evictions) - 1)
        /\ \A i \in 1..(Len(evictions) - 1) : Tail(evictions)[i] = evictions[i + 1]
    BY <1>1
  <1>4. \A i \in 1..(Len(evictions) - 1) : i + 1 \in DOMAIN evictions
    BY <1>1
  <1>5. Range(Tail(evictions)) \subseteq Range(evictions)
    BY <1>3, <1>4 DEF Range
  <1>6. QED
    BY <1>1, <1>2, <1>5 DEF Range

LEMMA ModesFacts ==
  /\ \A mode \in Modes : mode.maxEvictions \in Nat
  /\ NoPacker \in Packer /\ NoPacker.total = 0
  <1>1. (CHOOSE mode \in Modes : TRUE) \in Modes
    BY ConstantsAssumption
  <1>2. NoPacker \in Packer
    BY <1>1 DEF NoPacker, Packer
  <1>3. QED
    BY <1>2, ConstantsAssumption DEF NoPacker

LEMMA ReadyFacts ==
  \A w : /\ ReadyPods(w) \subseteq Pods /\ IsFiniteSet(ReadyPods(w))
         /\ Cardinality(ReadyPods(w)) \in 0..Cardinality(Pods)
  <1> TAKE w
  <1>1. ReadyPods(w) \in SUBSET Pods
    BY DEF ReadyPods
  <1>2. IsFiniteSet(ReadyPods(w)) /\ Cardinality(ReadyPods(w)) <= Cardinality(Pods)
    BY <1>1, ConstantsAssumption, FS_Subset
  <1>3. Cardinality(ReadyPods(w)) \in Nat /\ Cardinality(Pods) \in Nat
    BY <1>2, ConstantsAssumption, FS_CardinalityType
  <1>4. QED
    BY <1>1, <1>2, <1>3

(* What a pass has just planned.                                           *)
LEMMA PlanFacts ==
  ASSUME TypeOK, Plan
  PROVE  /\ seen.mode.maxEvictions \in Nat
         /\ \A w \in Workloads : seenReady[w] \in Nat
         /\ SoundPlan(seen.mode.maxEvictions, plan')
  <1>1. seen.mode \in Modes /\ plan' \in Plans(seen.mode.maxEvictions)
    BY DEF TypeOK, Packer, Plan
  <1>2. seen.mode.maxEvictions \in Nat
    BY <1>1, ModesFacts
  <1>3. \A w \in Workloads : seenReady[w] \in Nat
    <2>1. seenReady \in [Workloads -> 0..Cardinality(Pods)]
      BY DEF TypeOK
    <2>2. QED
      BY <2>1
  <1>4. QED
    BY <1>1, <1>2, <1>3, PlansAreSound

LEMMA CountsType ==
  ASSUME TypeOK
  PROVE  /\ ever + 1 \in Nat /\ evicted + 1 \in Nat /\ lost + evicted \in Nat
         /\ lost + 1 \in Nat /\ copy.total + evicted \in Nat
  <1>1. copy.total \in Nat /\ lost \in Nat /\ evicted \in Nat /\ ever \in Nat
    BY DEF TypeOK, Packer
  <1>2. QED
    BY <1>1

LEMMA SpendType ==
  ASSUME TypeOK, NEW bound \in {"evictions", "troubles"}, Spend(bound)
  PROVE  left' \in [evictions : Nat, troubles : Nat]
  <1>1. left \in [evictions : Nat, troubles : Nat]
    BY DEF TypeOK
  <1>2. left[bound] > 0 /\ left' = [left EXCEPT ![bound] = left[bound] - 1]
    BY DEF Spend
  <1>3. QED
    BY <1>1, <1>2

LEMMA EndPassTypes ==
  ASSUME EndPass
  PROVE  /\ pc' \in {"idle", "execute"} /\ fresh' \in BOOLEAN
         /\ copy' \in Packer
         /\ plan' \in Seq([pod : Pods, target : Nodes])
         /\ gone' \subseteq Pods
         /\ evicted' \in Nat
         /\ upset' \subseteq Workloads
  <1>1. <<>> \in Seq([pod : Pods, target : Nodes])
    OBVIOUS
  <1>2. QED
    BY <1>1, ModesFacts DEF EndPass

LEMMA EvictPodTypes ==
  ASSUME TypeOK, EvictPod
  PROVE  pod' \in [Pods -> Pod] /\ ever' \in Nat
  <1>1. Planned \in Pods
    BY HeadAndTail DEF EvictPod, TypeOK, Planned, Evictions
  <1>2. pod' \in [Pods -> Pod]
    BY <1>1 DEF EvictPod, TypeOK, Pod
  <1>3. QED
    BY <1>2, CountsType DEF EvictPod

(* However the write after an error ends, the total stays what it was, and *)
(* a copy that is still current is the packer.                             *)
LEMMA WriteProgressFacts ==
  ASSUME TypeOK, FreshCopy, WriteProgress
  PROVE  /\ packer' \in Packer /\ copy' \in Packer /\ fresh' \in BOOLEAN
         /\ packer'.total = packer.total /\ copy'.mode = copy.mode
         /\ FreshCopy'
  <1>1. /\ packer \in Packer /\ copy \in Packer /\ fresh \in BOOLEAN /\ evicted \in Nat
        /\ fresh => copy = packer
    BY DEF TypeOK, FreshCopy
  <1>2. CASE UNCHANGED <<packer, copy, fresh>>
    BY <1>1, <1>2 DEF FreshCopy
  <1>3. CASE fresh /\ packer' = PersistProgress(packer)
    <2>1. /\ packer' \in Packer /\ packer'.total = packer.total
          /\ packer'.mode = packer.mode /\ copy = packer
      BY <1>1, <1>3 DEF PersistProgress, Packer
    <2>2. CASE copy' = packer' /\ UNCHANGED fresh
      BY <1>1, <2>1, <2>2 DEF FreshCopy
    <2>3. CASE fresh' = FALSE /\ UNCHANGED copy
      BY <1>1, <2>1, <2>3 DEF FreshCopy
    <2>4. CASE UNCHANGED <<packer, copy, fresh>>
      BY <1>2, <2>4
    <2>5. QED
      BY <2>2, <2>3, <2>4 DEF WriteProgress
  <1>4. QED
    BY <1>2, <1>3 DEF WriteProgress

LEMMA PassTypes ==
  ASSUME IInv, Pass
  PROVE  TypeOK'
  <1>1. TypeOK
    BY DEF IInv
  <1>2. CASE AddFinalizer \/ RemoveFinalizer \/ Report
    BY <1>1, <1>2, ModesFacts
       DEF AddFinalizer, RemoveFinalizer, Report, TypeOK, Packer, cluster, pass, history
  <1>3. CASE Plan
    <2>1. plan' \in Seq([pod : Pods, target : Nodes])
      BY <1>1, <1>3, PlanFacts DEF SoundPlan, Evictions
    <2>2. gone' \subseteq Pods
      <3>1. \A e \in Range(plan') : e.pod \in Pods
        BY <2>1, MovedType DEF Evictions
      <3>2. gone' \subseteq {e.pod : e \in Range(plan')}
        BY <1>3 DEF Plan
      <3>3. QED
        BY <3>1, <3>2
    <2>3. upset' \subseteq Workloads
      BY <1>3 DEF Plan
    <2>4. /\ fresh' \in BOOLEAN /\ pc' = "execute" /\ copy' = seen
          /\ UNCHANGED <<cluster, packer, seen, evicted, ever, lost, left>>
      BY <1>3 DEF Plan
    <2>5. QED
      BY <1>1, <2>1, <2>2, <2>3, <2>4 DEF TypeOK, cluster
  <1>4. CASE Evict
    <2>1. plan' \in Seq([pod : Pods, target : Nodes])
      BY <1>1, <1>4, HeadAndTail DEF Evict, EvictPod, TypeOK, Evictions
    <2>2. pod' \in [Pods -> Pod] /\ ever' \in Nat
      BY <1>1, <1>4, EvictPodTypes DEF Evict
    <2>3. left' \in [evictions : Nat, troubles : Nat] /\ evicted' \in Nat
      BY <1>1, <1>4, SpendType, CountsType DEF Evict
    <2>4. UNCHANGED <<seenPod, seenReady, packer, seen, pc, copy, fresh, gone, lost, upset>>
      BY <1>4 DEF Evict
    <2>5. QED
      BY <1>1, <2>1, <2>2, <2>3, <2>4 DEF TypeOK
  <1>5. CASE NotFound
    <2>1. plan' \in Seq([pod : Pods, target : Nodes])
      BY <1>1, <1>5, HeadAndTail DEF NotFound, TypeOK, Evictions
    <2>2. QED
      BY <1>1, <1>5, <2>1 DEF NotFound, TypeOK, cluster, history
  <1>6. CASE EvictionFails
    <2>1. left' \in [evictions : Nat, troubles : Nat]
      BY <1>1, <1>6, SpendType DEF EvictionFails, TypeOK
    <2>2. packer' \in Packer /\ copy' \in Packer /\ fresh' \in BOOLEAN
      BY <1>1, <1>6, WriteProgressFacts DEF EvictionFails, IInv
    <2>3. plan' = <<>> /\ UNCHANGED <<cluster, seen, pc, gone, evicted, history>>
      BY <1>6 DEF EvictionFails
    <2>4. QED
      BY <1>1, <2>1, <2>2, <2>3 DEF TypeOK, cluster, history
  <1>9. CASE EvictionUnanswered
    <2>1. left' \in [evictions : Nat, troubles : Nat] /\ lost' \in Nat
      BY <1>1, <1>9, SpendType, CountsType DEF EvictionUnanswered
    <2>2. packer' \in Packer /\ copy' \in Packer /\ fresh' \in BOOLEAN
      BY <1>1, <1>9, WriteProgressFacts DEF EvictionUnanswered, IInv
    <2>3. pod' \in [Pods -> Pod] /\ ever' \in Nat
      BY <1>1, <1>9, EvictPodTypes DEF EvictionUnanswered
    <2>4. plan' = <<>> /\ UNCHANGED <<seenPod, seenReady, seen, pc, gone, evicted, upset>>
      BY <1>9 DEF EvictionUnanswered
    <2>5. QED
      BY <1>1, <2>1, <2>2, <2>3, <2>4 DEF TypeOK
  <1>7. CASE Finish
    <2>1. packer' \in Packer
      <3>1. copy.total + evicted \in Nat
        BY <1>1, CountsType
      <3>2. QED
        BY <1>1, <1>7, <3>1 DEF Finish, TypeOK, Packer
    <2>2. QED
      BY <1>1, <1>7, <2>1, EndPassTypes DEF Finish, TypeOK, cluster
  <1>8. CASE Abandon
    <2>1. left' \in [evictions : Nat, troubles : Nat]
      BY <1>1, <1>8, SpendType DEF Abandon, TypeOK
    <2>2. lost' \in Nat
      BY <1>1, <1>8, CountsType DEF Abandon
    <2>3. EndPass /\ UNCHANGED <<cluster, packer, seen, ever>>
      BY <1>8 DEF Abandon
    <2>4. QED
      BY <1>1, <2>1, <2>2, <2>3, EndPassTypes DEF TypeOK, cluster
  <1>10. QED
    BY <1>2, <1>3, <1>4, <1>5, <1>6, <1>7, <1>8, <1>9 DEF Pass

LEMMA PackerChangeTypes ==
  ASSUME TypeOK, NEW changed \in Packer, PackerChange(changed)
  PROVE  TypeOK'
  <1>1. left' \in [evictions : Nat, troubles : Nat]
    BY SpendType DEF PackerChange
  <1>2. QED
    BY <1>1 DEF PackerChange, TypeOK, cluster, history

LEMMA EnvironmentTypes ==
  ASSUME TypeOK, Environment
  PROVE  TypeOK'
  <1>1. ASSUME NEW p \in Pods, Ends(p)
        PROVE  TypeOK'
    BY <1>1 DEF Ends, TypeOK, Pod, Outside
  <1>2. ASSUME NEW p \in Pods, UserDeletesPod(p)
        PROVE  TypeOK'
    <2>1. left' \in [evictions : Nat, troubles : Nat]
      BY <1>2, SpendType DEF UserDeletesPod
    <2>2. pod' \in [Pods -> Pod]
      BY <1>2 DEF UserDeletesPod, TypeOK, Pod
    <2>3. upset' \subseteq Workloads
      <3>1. WorkloadOf[p] \in Workloads /\ upset \subseteq Workloads
        BY ConstantsAssumption DEF TypeOK
      <3>2. upset' \in {{}, upset \cup {WorkloadOf[p]}}
        BY <1>2 DEF UserDeletesPod
      <3>3. QED
        BY <3>1, <3>2
    <2>4. UNCHANGED <<Outside, seenPod, seenReady, gone>>
      BY <1>2 DEF UserDeletesPod
    <2>5. QED
      BY <2>1, <2>2, <2>3, <2>4 DEF TypeOK, Outside
  <1>3. ASSUME NEW p \in Pods, NEW n \in Nodes, Bind(p, n)
        PROVE  TypeOK'
    BY <1>3 DEF Bind, TypeOK, Pod, Outside
  <1>4. ASSUME NEW w \in Workloads, SyncReady(w)
        PROVE  TypeOK'
    <2>1. seenReady' \in [Workloads -> 0..Cardinality(Pods)]
      BY <1>4, ReadyFacts DEF SyncReady, TypeOK
    <2>2. QED
      BY <1>4, <2>1 DEF SyncReady, TypeOK, Outside
  <1>5. CASE SyncPods
    BY <1>5 DEF SyncPods, TypeOK, Outside
  <1>6. CASE SyncPacker
    BY <1>6 DEF SyncPacker, TypeOK, cluster, pass, history
  <1>7. CASE UserChanges
    <2>1. PICK mode \in Modes : PackerChange([packer EXCEPT !.mode = mode])
      BY <1>7 DEF UserChanges
    <2>2. [packer EXCEPT !.mode = mode] \in Packer
      BY DEF TypeOK, Packer
    <2>3. QED
      BY <2>1, <2>2, PackerChangeTypes
  <1>8. CASE UserDeletes
    <2>1. [packer EXCEPT !.phase = IF packer.phase = "new" THEN "gone" ELSE "deleting"] \in Packer
      BY DEF TypeOK, Packer
    <2>2. QED
      BY <1>8, <2>1, PackerChangeTypes DEF UserDeletes
  <1>9. QED
    BY <1>1, <1>2, <1>3, <1>4, <1>5, <1>6, <1>7, <1>8 DEF Environment

(* Only the pass counts.                                                   *)
LEMMA CountsStep ==
  ASSUME IInv, Next
  PROVE  CountsAreExact' /\ FreshCopy'
  <1>1. /\ packer \in Packer /\ copy \in Packer /\ lost \in Nat /\ evicted \in Nat /\ ever \in Nat
    BY ModesFacts DEF IInv, TypeOK
  <1>2. /\ packer.total \in Nat
        /\ packer.total + lost + evicted = ever
        /\ fresh => copy = packer
        /\ pc = "idle" => ~fresh /\ evicted = 0
    BY <1>1 DEF IInv, CountsAreExact, FreshCopy, IdleIsEmpty, Packer
  <1>3. CASE AddFinalizer \/ RemoveFinalizer \/ Report
    <2>1. /\ packer'.total = packer.total /\ pc = "idle"
          /\ UNCHANGED <<pass, history, left>>
      BY <1>1, <1>3 DEF AddFinalizer, RemoveFinalizer, Report, Packer
    <2>2. QED
      BY <1>2, <2>1 DEF CountsAreExact, FreshCopy, pass, history
  <1>4. CASE Plan \/ NotFound
    <2>1. UNCHANGED <<packer, evicted, ever, lost, left>>
      BY <1>4 DEF Plan, NotFound, history
    <2>2. CASE Plan
      <3>1. copy' = seen /\ (fresh' <=> seen = packer)
        BY <2>2 DEF Plan
      <3>2. QED
        BY <1>2, <2>1, <3>1 DEF CountsAreExact, FreshCopy
    <2>3. CASE NotFound
      <3>1. UNCHANGED <<copy, fresh>>
        BY <2>3 DEF NotFound
      <3>2. QED
        BY <1>2, <2>1, <3>1 DEF CountsAreExact, FreshCopy
    <2>4. QED
      BY <1>4, <2>2, <2>3
  <1>5. CASE Evict
    <2>1. /\ ever' = ever + 1 /\ evicted' = evicted + 1
          /\ UNCHANGED <<packer, copy, fresh, lost>>
      BY <1>5 DEF Evict, EvictPod
    <2>2. QED
      BY <1>1, <1>2, <2>1 DEF CountsAreExact, FreshCopy
  <1>6. CASE EvictionFails
    <2>1. packer'.total = packer.total /\ FreshCopy'
      BY <1>6, WriteProgressFacts DEF EvictionFails, IInv
    <2>2. UNCHANGED <<evicted, ever, lost>>
      BY <1>6 DEF EvictionFails, history
    <2>3. QED
      BY <1>2, <2>1, <2>2 DEF CountsAreExact
  <1>6a. CASE EvictionUnanswered
    <2>1. packer'.total = packer.total /\ FreshCopy'
      BY <1>6a, WriteProgressFacts DEF EvictionUnanswered, IInv
    <2>2. ever' = ever + 1 /\ lost' = lost + 1 /\ evicted' = evicted
      BY <1>6a DEF EvictionUnanswered, EvictPod
    <2>3. QED
      BY <1>1, <1>2, <2>1, <2>2 DEF CountsAreExact
  <1>7. CASE Finish
    <2>1. /\ packer'.total = packer.total + evicted /\ evicted' = 0 /\ ~fresh'
          /\ UNCHANGED <<ever, lost, left>>
      BY <1>1, <1>2, <1>7 DEF Finish, EndPass, Packer
    <2>2. QED
      BY <1>1, <1>2, <2>1 DEF CountsAreExact, FreshCopy
  <1>8. CASE Abandon
    <2>1. lost' = lost + evicted /\ evicted' = 0 /\ ~fresh' /\ UNCHANGED <<packer, ever>>
      BY <1>8 DEF Abandon, EndPass
    <2>2. QED
      BY <1>1, <1>2, <2>1 DEF CountsAreExact, FreshCopy
  <1>9. ASSUME NEW changed, changed.total = packer.total, PackerChange(changed)
         PROVE  CountsAreExact' /\ FreshCopy'
    BY <1>2, <1>9 DEF PackerChange, CountsAreExact, FreshCopy, history
  <1>10. CASE UserChanges \/ UserDeletes
    <2>1. \E changed : changed.total = packer.total /\ PackerChange(changed)
      BY <1>1, <1>10 DEF UserChanges, UserDeletes, Packer
    <2>2. QED
      BY <1>9, <2>1
  <1>11. CASE SyncPacker
    BY <1>2, <1>11 DEF SyncPacker, CountsAreExact, FreshCopy, pass, history
  <1>12. CASE \/ \E p \in Pods : Ends(p) \/ UserDeletesPod(p) \/ \E n \in Nodes : Bind(p, n)
              \/ \E w \in Workloads : SyncReady(w)
              \/ SyncPods
    <2>1. UNCHANGED Outside
      BY <1>12 DEF Ends, UserDeletesPod, Bind, SyncReady, SyncPods
    <2>2. QED
      BY <1>2, <2>1 DEF Outside, CountsAreExact, FreshCopy
  <1>13. QED
    BY <1>3, <1>4, <1>5, <1>6, <1>6a, <1>7, <1>8, <1>10, <1>11, <1>12 DEF Next, Pass, Environment

(* What is planned shrinks by what is evicted.                             *)
LEMMA CycleStep ==
  ASSUME IInv, Next
  PROVE  CycleIsBounded' /\ IdleIsEmpty'
  <1>1. /\ packer \in Packer /\ copy \in Packer /\ seen \in Packer /\ evicted \in Nat
        /\ plan \in Seq(Evictions) /\ Len(plan) \in Nat
    BY DEF IInv, TypeOK, Evictions
  <1>2. /\ pc = "execute" /\ copy.mode.maxEvictions > 0 => evicted + Len(plan) <= copy.mode.maxEvictions
        /\ pc = "idle" => ~fresh /\ plan = <<>> /\ gone = {} /\ evicted = 0 /\ upset = {}
        /\ fresh => copy = packer
        /\ copy.mode.maxEvictions \in Nat
    BY <1>1, ModesFacts DEF IInv, CycleIsBounded, IdleIsEmpty, FreshCopy, Packer
  <1>3. plan # <<>> => Len(Tail(plan)) = Len(plan) - 1
    BY <1>1
  <1>4. CASE AddFinalizer \/ RemoveFinalizer \/ Report \/ SyncPacker
    <2>1. UNCHANGED <<pass, history>>
      BY <1>4 DEF AddFinalizer, RemoveFinalizer, Report, SyncPacker
    <2>2. QED
      BY <1>2, <2>1 DEF CycleIsBounded, IdleIsEmpty, pass, history
  <1>5. CASE Plan
    <2>1. pc = "idle" /\ pc' = "execute" /\ copy' = seen /\ evicted' = evicted
      BY <1>5 DEF Plan
    <2>2. plan' \in Seq(Evictions) /\ (seen.mode.maxEvictions > 0 => Len(plan') <= seen.mode.maxEvictions)
      BY <1>5, PlanFacts DEF IInv, SoundPlan
    <2>3. Len(plan') \in Nat /\ evicted = 0
      BY <1>2, <2>1, <2>2
    <2>4. QED
      BY <2>1, <2>2, <2>3 DEF CycleIsBounded, IdleIsEmpty
  <1>6. CASE Evict
    <2>1. /\ pc = "execute" /\ plan # <<>> /\ plan' = Tail(plan) /\ evicted' = evicted + 1
          /\ UNCHANGED <<pc, copy>>
      BY <1>6 DEF Evict, EvictPod
    <2>2. QED
      BY <1>1, <1>2, <1>3, <2>1 DEF CycleIsBounded, IdleIsEmpty
  <1>7. CASE NotFound
    <2>1. /\ pc = "execute" /\ plan # <<>> /\ plan' = Tail(plan)
          /\ UNCHANGED <<pc, copy, evicted>>
      BY <1>7 DEF NotFound
    <2>2. QED
      BY <1>1, <1>2, <1>3, <2>1 DEF CycleIsBounded, IdleIsEmpty
  <1>8. CASE EvictionFails \/ EvictionUnanswered
    <2>1. copy'.mode = copy.mode
      BY <1>8, WriteProgressFacts DEF EvictionFails, EvictionUnanswered, IInv
    <2>2. pc = "execute" /\ plan' = <<>> /\ UNCHANGED <<pc, evicted>>
      BY <1>8 DEF EvictionFails, EvictionUnanswered, EvictPod
    <2>3. Len(<<>>) = 0
      OBVIOUS
    <2>4. copy.mode.maxEvictions > 0 => evicted' + Len(plan') <= copy.mode.maxEvictions
      BY <1>1, <1>2, <2>2, <2>3
    <2>5. QED
      BY <2>1, <2>2, <2>4 DEF CycleIsBounded, IdleIsEmpty
  <1>9. CASE Finish \/ Abandon
    BY <1>9 DEF Finish, Abandon, EndPass, CycleIsBounded, IdleIsEmpty
  <1>10. CASE UserChanges \/ UserDeletes
    BY <1>2, <1>10 DEF UserChanges, UserDeletes, PackerChange, CycleIsBounded, IdleIsEmpty, history
  <1>11. CASE \E p \in Pods : Ends(p)
    BY <1>2, <1>11 DEF Ends, Outside, CycleIsBounded, IdleIsEmpty, Range
  <1>12. CASE \E p \in Pods : UserDeletesPod(p)
    BY <1>2, <1>12 DEF UserDeletesPod, Outside, CycleIsBounded, IdleIsEmpty
  <1>13. CASE \/ \E p \in Pods : \E n \in Nodes : Bind(p, n)
              \/ \E w \in Workloads : SyncReady(w)
              \/ SyncPods
    <2>1. UNCHANGED <<pc, copy, fresh, plan, evicted, gone, upset>>
      BY <1>13 DEF Bind, SyncReady, SyncPods, Outside
    <2>2. QED
      BY <1>2, <2>1 DEF CycleIsBounded, IdleIsEmpty
  <1>14. QED
    BY <1>4, <1>5, <1>6, <1>7, <1>8, <1>9, <1>10, <1>11, <1>12, <1>13 DEF Next, Pass, Environment

(* A plan that keeps to what it saw of a workload spares one of its pods.  *)
LEMMA PlanSparesOne ==
  ASSUME TypeOK, Plan
  PROVE  OneIsSpared'
  <1> DEFINE ready(w) == ReadyPods(w)
             taken(w) == Taken(plan', w)
  <1>1. KeepsBudgets(plan') /\ \A w \in Workloads : seenReady[w] \in Nat
    BY PlanFacts DEF SoundPlan
  <1>2. pod' = pod
    BY DEF Plan, cluster
  <1>3. \A w : ReadyPods(w)' = ReadyPods(w)
    BY <1>2 DEF ReadyPods
  <1>4. PlannedPods' = Moved(plan')
    BY DEF PlannedPods, Moved
  <1>5. ASSUME NEW w \in Workloads, w \notin upset', BudgetsOf(w) = {},
               NEW p \in Moved(plan'), WorkloadOf[p] = w,
               ReadyPods(w) \subseteq Moved(plan')
        PROVE  FALSE
    <2>1. seenReady[w] = Cardinality(ReadyPods(w))
      BY <1>5 DEF Plan
    <2>2. IsFiniteSet(taken(w)) /\ taken(w) # {} /\ Cardinality(taken(w)) <= DisruptionBudget(w)
      BY <1>1, <1>5 DEF KeepsBudgets, Taken
    <2>3. DisruptionBudget(w) = Cardinality(ReadyPods(w)) - 1
      BY <1>1, <1>5, <2>1, BudgetFacts
    <2>4. ReadyPods(w) \subseteq taken(w)
      BY <1>5 DEF ReadyPods, Taken
    <2>5. Cardinality(ReadyPods(w)) <= Cardinality(taken(w))
      BY <2>2, <2>4, FS_Subset
    <2>6. Cardinality(ReadyPods(w)) \in Nat /\ Cardinality(taken(w)) \in Nat
      BY <2>2, ReadyFacts, FS_CardinalityType
    <2>7. QED
      BY <2>2, <2>3, <2>5, <2>6
  <1>6. QED
    BY <1>3, <1>4, <1>5 DEF OneIsSpared, BudgetsOf

(* No step of another takes one away that the pass would leave, unless it  *)
(* upsets the workload.                                                    *)
LEMMA StepSparesOne ==
  ASSUME OneIsSpared,
         upset \subseteq upset',
         PlannedPods' \subseteq PlannedPods,
         \A w \in Workloads \ upset' : ReadyPods(w) \ PlannedPods \subseteq ReadyPods(w)'
  PROVE  OneIsSpared'
  <1>1. ASSUME NEW w \in Workloads, w \notin upset', BudgetsOf(w) = {},
               NEW p \in PlannedPods', WorkloadOf[p] = w
        PROVE  ~(ReadyPods(w)' \subseteq PlannedPods')
    <2>1. w \notin upset /\ p \in PlannedPods
      BY <1>1
    <2>2. ~(ReadyPods(w) \subseteq PlannedPods)
      BY <1>1, <2>1 DEF OneIsSpared
    <2>3. PICK q \in ReadyPods(w) : q \notin PlannedPods
      BY <2>2
    <2>4. q \in ReadyPods(w)' /\ q \notin PlannedPods'
      BY <1>1, <2>3
    <2>5. QED
      BY <2>4
  <1>2. QED
    BY <1>1 DEF OneIsSpared, BudgetsOf

LEMMA NoPlanSparesOne ==
  ASSUME plan' = <<>>
  PROVE  OneIsSpared'
  BY DEF OneIsSpared, PlannedPods, Range

LEMMA SparedStep ==
  ASSUME IInv, Next
  PROVE  OneIsSpared'
  <1>1. /\ OneIsSpared /\ TypeOK /\ pod \in [Pods -> Pod] /\ plan \in Seq(Evictions)
        /\ pc = "idle" => plan = <<>>
    BY DEF IInv, TypeOK, IdleIsEmpty, Evictions
  <1>2. plan # <<>> => Range(Tail(plan)) \subseteq Range(plan) /\ Head(plan) \in Range(plan)
    BY <1>1, HeadAndTail
  <1>3. CASE UNCHANGED <<pod, plan, upset>>
    BY <1>1, <1>3 DEF OneIsSpared, PlannedPods, ReadyPods
  <1>4. CASE Plan
    BY <1>1, <1>4, PlanSparesOne
  <1>5. CASE Evict
    <2>1. Planned \in PlannedPods /\ PlannedPods' \subseteq PlannedPods
      BY <1>2, <1>5 DEF Evict, EvictPod, Planned, PlannedPods
    <2>2. \A q \in Pods : q # Planned => pod'[q] = pod[q]
      BY <1>1, <1>5 DEF Evict, EvictPod
    <2>3. \A w : ReadyPods(w) \ PlannedPods \subseteq ReadyPods(w)'
      BY <2>1, <2>2 DEF ReadyPods
    <2>4. upset' = upset
      BY <1>5 DEF Evict
    <2>5. QED
      BY <1>1, <2>1, <2>3, <2>4, StepSparesOne
  <1>6. CASE NotFound
    <2>1. PlannedPods' \subseteq PlannedPods
      BY <1>2, <1>6 DEF NotFound, PlannedPods
    <2>2. UNCHANGED <<pod, upset>>
      BY <1>6 DEF NotFound, cluster, history
    <2>3. QED
      BY <1>1, <2>1, <2>2, StepSparesOne DEF ReadyPods
  <1>7. CASE EvictionFails \/ EvictionUnanswered \/ Finish \/ Abandon
    BY <1>7, NoPlanSparesOne DEF EvictionFails, EvictionUnanswered, Finish, Abandon, EndPass
  <1>8. ASSUME NEW p \in Pods, Ends(p)
        PROVE  OneIsSpared'
    <2>1. UNCHANGED <<plan, upset>>
      BY <1>8 DEF Ends, Outside
    <2>2. \A w : ReadyPods(w) \subseteq ReadyPods(w)'
      BY <1>1, <1>8 DEF Ends, ReadyPods
    <2>3. QED
      BY <1>1, <2>1, <2>2, StepSparesOne DEF PlannedPods
  <1>9. ASSUME NEW p \in Pods, NEW n \in Nodes, Bind(p, n)
        PROVE  OneIsSpared'
    <2>1. UNCHANGED <<plan, upset>>
      BY <1>9 DEF Bind, Outside
    <2>2. \A w : ReadyPods(w) \subseteq ReadyPods(w)'
      BY <1>1, <1>9 DEF Bind, ReadyPods
    <2>3. QED
      BY <1>1, <2>1, <2>2, StepSparesOne DEF PlannedPods
  <1>10. ASSUME NEW p \in Pods, UserDeletesPod(p)
         PROVE  OneIsSpared'
    <2>1. plan' = plan
      BY <1>10 DEF UserDeletesPod, Outside
    <2>2. CASE pc = "idle"
      BY <1>1, <2>1, <2>2, NoPlanSparesOne
    <2>3. CASE pc # "idle"
      <3>1. upset' = upset \cup {WorkloadOf[p]}
        BY <1>10, <2>3 DEF UserDeletesPod
      <3>2. \A q \in Pods : q # p => pod'[q] = pod[q]
        BY <1>1, <1>10 DEF UserDeletesPod
      <3>3. \A w \in Workloads \ upset' : ReadyPods(w) \subseteq ReadyPods(w)'
        BY <3>1, <3>2 DEF ReadyPods
      <3>4. QED
        BY <1>1, <2>1, <3>1, <3>3, StepSparesOne DEF PlannedPods
    <2>4. QED
      BY <2>2, <2>3
  <1>11. CASE \/ AddFinalizer \/ RemoveFinalizer \/ Report \/ SyncPods \/ SyncPacker
              \/ UserChanges \/ UserDeletes \/ \E w \in Workloads : SyncReady(w)
    <2>1. UNCHANGED <<pod, plan, upset>>
      BY <1>11 DEF AddFinalizer, RemoveFinalizer, Report, SyncPods, SyncPacker, UserChanges,
                   UserDeletes, PackerChange, SyncReady, cluster, pass, history, Outside
    <2>2. QED
      BY <1>3, <2>1
  <1>12. QED
    BY <1>4, <1>5, <1>6, <1>7, <1>8, <1>9, <1>10, <1>11 DEF Next, Pass, Environment

-----------------------------------------------------------------------------
LEMMA InitSafe == Init => IInv
  <1> SUFFICES ASSUME Init PROVE IInv
    OBVIOUS
  <1>1. PICK place \in Placements : pod = [p \in Pods |-> [on |-> place[p], phase |-> "running"]]
    BY DEF Init
  <1>2. \A p \in Pods : place[p] \in Nodes
    BY ConstantsAssumption
  <1>3. pod \in [Pods -> Pod]
    BY <1>1, <1>2 DEF Pod
  <1>4. seenReady \in [Workloads -> 0..Cardinality(Pods)]
    BY ReadyFacts DEF Init
  <1>5. packer \in Packer /\ packer.total = 0
    BY ModesFacts DEF Init, Packer
  <1>6. TypeOK
    <2>1. <<>> \in Seq([pod : Pods, target : Nodes])
      OBVIOUS
    <2>2. left \in [evictions : Nat, troubles : Nat]
      BY ConstantsAssumption DEF Init
    <2>3. QED
      BY <1>3, <1>4, <1>5, <2>1, <2>2, ModesFacts DEF Init, TypeOK
  <1>7. CountsAreExact /\ FreshCopy
    BY <1>5, ModesFacts DEF Init, CountsAreExact, FreshCopy
  <1>8. CycleIsBounded /\ IdleIsEmpty
    BY DEF Init, CycleIsBounded, IdleIsEmpty
  <1>9. OneIsSpared
    BY DEF Init, OneIsSpared, PlannedPods, Range
  <1>10. QED
    BY <1>6, <1>7, <1>8, <1>9 DEF IInv

LEMMA NextSafe == IInv /\ [Next]_vars => IInv'
  <1> SUFFICES ASSUME IInv, [Next]_vars PROVE IInv'
    OBVIOUS
  <1>1. CASE Next
    <2>1. TypeOK'
      BY <1>1, PassTypes, EnvironmentTypes DEF Next, IInv
    <2>2. QED
      BY <1>1, <2>1, CountsStep, CycleStep, SparedStep DEF IInv
  <1>2. CASE UNCHANGED vars
    BY <1>2 DEF vars, cluster, pass, history, IInv, TypeOK, CountsAreExact, CycleIsBounded,
                IdleIsEmpty, FreshCopy, OneIsSpared, PlannedPods, ReadyPods
  <1>3. QED
    BY <1>1, <1>2

(* Each eviction is counted once in the packer's status, but for those of  *)
(* a pass that could not write it and those that were not answered, and a  *)
(* cycle counts no more than maxEvictionsPerCycle; as long as nobody else deletes its pods, of a     *)
(* workload without a budget that the pass saw as it is, one ready pod is  *)
(* not planned: whatever the pods request, however they are spread and     *)
(* however users, failed calls and crashes interfere.                      *)
THEOREM Safety == Spec => []IInv
  BY InitSafe, NextSafe, PTL DEF Spec

(* A plan of buildConsolidationPlan could be carried out: what it moves to *)
(* a node fits there with what is there already, no pod moves to a node    *)
(* that is itself to be emptied, and no workload loses more than the       *)
(* strictest of its budgets allows or, without one, all ready pods but one.*)
THEOREM PlansFit == Spec => PlanIsSound
  <1> DEFINE moved == {e.pod : e \in Range(plan')}
             sources == {seenPod[p].on : p \in moved}
             targets == {e.target : e \in Range(plan')}
  <1>1. ASSUME IInv, Plan
        PROVE  /\ sources \cap targets = {}
               /\ \A n \in targets : \A amount \in {Cpu, Memory} :
                    MapThenSumSet(LAMBDA p : amount[p], SeenOn(n) \cup MovedTo(plan', n)) <= 100
               /\ \A w \in Workloads :
                    LET taken == Cardinality({p \in moved : WorkloadOf[p] = w})
                    IN  taken > 0 => /\ \A b \in BudgetsOf(w) : taken <= Allowed(b, seenReady)
                                     /\ BudgetsOf(w) = {} => taken < seenReady[w]
    <2>1. \A w \in Workloads : seenReady[w] \in Nat
      BY <1>1, PlanFacts DEF IInv
    <2>2. SoundPlan(seen.mode.maxEvictions, plan')
      BY <1>1, PlanFacts DEF IInv
    <2>3. sources \cap targets = {}
      <3>1. sources \subseteq Candidates
        BY <2>2, MovableFacts DEF SoundPlan
      <3>2. targets \subseteq Free
        BY <2>2 DEF SoundPlan
      <3>3. QED
        BY <3>1, <3>2 DEF Free
    <2>4. ASSUME NEW n \in targets, NEW amount \in {Cpu, Memory}
          PROVE  MapThenSumSet(LAMBDA p : amount[p], SeenOn(n) \cup MovedTo(plan', n)) <= 100
      <3>1. n \in Free /\ MovedTo(plan', n) # {}
        BY <2>2 DEF SoundPlan, MovedTo
      <3>2. FitsOn(plan', amount, n)
        BY <2>2, <3>1 DEF SoundPlan
      <3>3. Total(amount, SeenOn(n) \cup MovedTo(plan', n)) <= 100
        BY <3>1, <3>2 DEF FitsOn
      <3>4. QED
        BY <3>3 DEF Total
    <2>5. ASSUME NEW w \in Workloads, Cardinality({p \in moved : WorkloadOf[p] = w}) > 0
          PROVE  /\ \A b \in BudgetsOf(w) :
                      Cardinality({p \in moved : WorkloadOf[p] = w}) <= Allowed(b, seenReady)
                 /\ BudgetsOf(w) = {} => Cardinality({p \in moved : WorkloadOf[p] = w}) < seenReady[w]
      <3> DEFINE taken == Taken(plan', w)
      <3>1. {p \in moved : WorkloadOf[p] = w} = taken
        BY DEF Taken, Moved
      <3>2. Cardinality(taken) > 0 /\ IsFiniteSet(taken)
        BY <2>2, <2>5, <3>1 DEF SoundPlan, KeepsBudgets
      <3>3. taken # {}
        BY <3>2, FS_EmptySet
      <3>4. Cardinality(taken) <= DisruptionBudget(w) /\ Cardinality(taken) \in Nat
        BY <2>2, <3>2, <3>3, FS_CardinalityType DEF SoundPlan, KeepsBudgets
      <3>5. /\ DisruptionBudget(w) \in Int /\ seenReady[w] \in Nat
            /\ BudgetsOf(w) = {} => DisruptionBudget(w) = seenReady[w] - 1
            /\ \A b \in BudgetsOf(w) : DisruptionBudget(w) <= Allowed(b, seenReady)
        BY <2>1, BudgetFacts
      <3>6. \A b \in BudgetsOf(w) : Allowed(b, seenReady) \in Nat
        BY <2>1, AllowedType DEF BudgetsOf
      <3> HIDE DEF taken
      <3>7. /\ \A b \in BudgetsOf(w) : Cardinality(taken) <= Allowed(b, seenReady)
            /\ BudgetsOf(w) = {} => Cardinality(taken) < seenReady[w]
        BY <3>4, <3>5, <3>6
      <3> HIDE DEF moved
      <3>8. QED
        BY <3>1, <3>7
    <2>6. QED
      BY <2>3, <2>4, <2>5
  <1>2. QED
    BY <1>1, Safety, PTL DEF Spec, PlanIsSound

(* No eviction ends the last ready pod of a workload without a budget,     *)
(* unless the pass saw it other than it was or somebody else deleted a pod *)
(* of it.                                                                  *)
THEOREM LastIsSpared == Spec => SparesTheLast
  <1>1. ASSUME IInv, EvictPod, NEW w \in Workloads, BudgetsOf(w) = {}, LosesLast(w)
        PROVE  w \in upset
    <2>1. pod \in [Pods -> Pod] /\ plan \in Seq(Evictions) /\ plan # <<>>
      BY <1>1 DEF IInv, TypeOK, Evictions, EvictPod
    <2>2. Planned \in PlannedPods
      BY <2>1, HeadAndTail DEF Planned, PlannedPods
    <2>3. \A q \in Pods : q # Planned => pod'[q] = pod[q]
      BY <1>1, <2>1 DEF EvictPod
    <2>4. ReadyPods(w) # {} /\ \A q \in ReadyPods(w) : pod'[q].phase # "running"
      BY <1>1 DEF LosesLast
    <2>5. \A q \in ReadyPods(w) : q = Planned /\ WorkloadOf[q] = w
      BY <2>3, <2>4 DEF ReadyPods
    <2>6. ReadyPods(w) \subseteq PlannedPods /\ \E p \in PlannedPods : WorkloadOf[p] = w
      BY <2>2, <2>4, <2>5
    <2>7. QED
      BY <1>1, <2>6 DEF IInv, OneIsSpared
  <1>2. IInv /\ EvictPod => \A w \in Workloads : BudgetsOf(w) = {} /\ LosesLast(w) => w \in upset
    BY <1>1
  <1>3. QED
    BY <1>2, Safety, PTL DEF Spec, SparesTheLast
=============================================================================
