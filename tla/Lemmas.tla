------------------------------- MODULE Lemmas -------------------------------
(***************************************************************************)
(* What the proofs of several modules rest on: induction, sums, and what   *)
(* stopping and restoring do to the setting of a workload of every kind.   *)
(***************************************************************************)
EXTENDS Workload, FiniteSetsExt, SequencesExt, FiniteSetTheorems, WellFoundedInduction, TLAPS

-----------------------------------------------------------------------------
(* Induction, over sets instead of predicates.                             *)
Below == {ss \in Nat \X Nat : ss[1] < ss[2]}

LEMMA LeastExists ==
  ASSUME NEW S, S \subseteq Nat, S # {}
  PROVE  \E l \in S : \A m \in S : l <= m
  <1>1. OpToRel(<, Nat) = Below
    BY DEF OpToRel, Below
  <1>2. IsWellFoundedOn(Below, Nat)
    BY <1>1, NatLessThanWellFounded
  <1>3. PICK l \in S : \A m \in S : ~(<<m, l>> \in Below)
    BY <1>2, WFMin
  <1>4. ASSUME NEW m \in S
        PROVE  l <= m
    <2>1. m \in Nat /\ l \in Nat /\ ~(<<m, l>> \in Below)
      BY <1>3
    <2>2. QED
      BY <2>1 DEF Below
  <1>5. QED
    BY <1>4

LEMMA MinIsLeast ==
  ASSUME NEW S, S \subseteq Nat, S # {}
  PROVE  Min(S) \in S /\ \A m \in S : Min(S) <= m
  BY LeastExists DEF Min

LEMMA EveryNat ==
  ASSUME NEW G, 0 \in G, \A n \in Nat : n \in G => n + 1 \in G
  PROVE  Nat \subseteq G
  <1> SUFFICES ASSUME Nat \ G # {} PROVE FALSE
    OBVIOUS
  <1>1. PICK l \in Nat \ G : \A m \in Nat \ G : l <= m
    BY LeastExists
  <1>2. l - 1 \in Nat /\ l - 1 \in G
    BY <1>1
  <1>3. QED
    BY <1>1, <1>2

LEMMA EverySubset ==
  ASSUME NEW S, IsFiniteSet(S), NEW G,
         \A T \in SUBSET S : (\A x \in T : T \ {x} \in G) => T \in G
  PROVE  SUBSET S \subseteq G
  <1> DEFINE Sized == {n \in Nat : \A T \in SUBSET S : Cardinality(T) = n => T \in G}
  <1>1. \A T \in SUBSET S : IsFiniteSet(T) /\ Cardinality(T) \in Nat
    BY FS_Subset, FS_CardinalityType
  <1>2. 0 \in Sized
    <2>1. \A T \in SUBSET S : Cardinality(T) = 0 => T = {}
      BY <1>1, FS_EmptySet
    <2>2. {} \in G
      OBVIOUS
    <2>3. QED
      BY <2>1, <2>2
  <1>3. ASSUME NEW n \in Nat, n \in Sized
        PROVE  n + 1 \in Sized
    <2>1. ASSUME NEW T \in SUBSET S, Cardinality(T) = n + 1
          PROVE  T \in G
      <3>1. ASSUME NEW x \in T
            PROVE  T \ {x} \in G
        <4>1. Cardinality(T \ {x}) = n
          BY <1>1, <2>1, FS_RemoveElement
        <4>2. QED
          BY <1>3, <4>1
      <3>2. QED
        BY <3>1
    <2>2. QED
      BY <2>1
  <1>4. Nat \subseteq Sized
    <2> HIDE DEF Sized
    <2>1. QED
      BY <1>2, <1>3, EveryNat
  <1>5. QED
    BY <1>1, <1>4

(* A function on the subsets of a finite set may be defined from its       *)
(* values for smaller ones.                                                *)
Folds(S, base, c, h, g) ==
  \A T \in SUBSET S : g[T] = IF T = {} THEN base ELSE h[<<c[T], g[T \ {c[T]}]>>]

LEMMA FoldExists ==
  ASSUME NEW S, IsFiniteSet(S), NEW V, NEW base \in V,
         NEW c, \A T \in SUBSET S : T # {} => c[T] \in T,
         NEW h \in [S \X V -> V]
  PROVE  \E g \in [SUBSET S -> V] : Folds(S, base, c, h, g)
  <1> DEFINE UpTo(n) == {T \in SUBSET S : Cardinality(T) <= n}
             FoldsTo(n, g) ==
               \A T \in UpTo(n) : g[T] = IF T = {} THEN base ELSE h[<<c[T], g[T \ {c[T]}]>>]
             Defined == {n \in Nat : \E g \in [UpTo(n) -> V] : FoldsTo(n, g)}
  <1>1. \A T \in SUBSET S : IsFiniteSet(T) /\ Cardinality(T) \in Nat
    BY FS_Subset, FS_CardinalityType
  <1>2. 0 \in Defined
    <2>1. \A T \in UpTo(0) : T = {}
      BY <1>1, FS_EmptySet
    <2>2. [T \in UpTo(0) |-> base] \in [UpTo(0) -> V]
      OBVIOUS
    <2>3. FoldsTo(0, [T \in UpTo(0) |-> base])
      BY <2>1
    <2>4. QED
      BY <2>2, <2>3
  <1>3. ASSUME NEW n \in Nat, n \in Defined
        PROVE  n + 1 \in Defined
    <2>1. PICK g \in [UpTo(n) -> V] : FoldsTo(n, g)
      BY <1>3
    <2> DEFINE next == [T \in UpTo(n + 1) |->
                          IF T \in UpTo(n) THEN g[T] ELSE h[<<c[T], g[T \ {c[T]}]>>]]
    <2>2. ASSUME NEW T \in UpTo(n + 1), T # {}
          PROVE  c[T] \in S /\ T \ {c[T]} \in UpTo(n) /\ T \ {c[T]} \in UpTo(n + 1)
      <3>1. c[T] \in T
        BY <2>2
      <3>2. Cardinality(T \ {c[T]}) = Cardinality(T) - 1 /\ Cardinality(T) <= n + 1 /\ Cardinality(T) \in Nat
        BY <1>1, <3>1, FS_RemoveElement
      <3>3. Cardinality(T \ {c[T]}) <= n
        BY <3>2
      <3>4. Cardinality(T \ {c[T]}) <= n + 1
        BY <3>2
      <3>5. QED
        BY <3>1, <3>3, <3>4
    <2>3. \A T \in UpTo(n + 1) : T \notin UpTo(n) => T # {}
      <3>1. Cardinality({}) <= n
        BY FS_EmptySet
      <3>2. QED
        BY <3>1
    <2>4. next \in [UpTo(n + 1) -> V]
      BY <2>2, <2>3
    <2>5. FoldsTo(n + 1, next)
      <3>1. ASSUME NEW T \in UpTo(n + 1)
            PROVE  next[T] = IF T = {} THEN base ELSE h[<<c[T], next[T \ {c[T]}]>>]
        <4>1. CASE T \in UpTo(n)
          BY <2>1, <2>2, <4>1
        <4>2. CASE T \notin UpTo(n)
          BY <2>2, <2>3, <4>2
        <4>3. QED
          BY <4>1, <4>2
      <3>2. QED
        BY <3>1
    <2>6. n + 1 \in Nat
      OBVIOUS
    <2> HIDE DEF UpTo, FoldsTo, next
    <2>7. QED
      BY <2>4, <2>5, <2>6
  <1>4. Cardinality(S) \in Defined
    <2>1. Nat \subseteq Defined
      <3> HIDE DEF Defined
      <3>1. QED
        BY <1>2, <1>3, EveryNat
    <2>2. QED
      BY <1>1, <2>1
  <1>5. UpTo(Cardinality(S)) = SUBSET S
    BY FS_Subset
  <1>6. QED
    BY <1>4, <1>5 DEF Folds

-----------------------------------------------------------------------------
(* Sums.                                                                   *)
Total(f, S) == MapThenSumSet(LAMBDA p : f[p], S)

Pick(T) == CHOOSE x \in T : TRUE

SumsOver(f, S, g) ==
  g = [T \in SUBSET S |-> IF T = {} THEN 0 ELSE f[Pick(T)] + g[T \ {Pick(T)}]]

Summing(f, S) == CHOOSE g : SumsOver(f, S, g)

LEMMA TotalIsSumming ==
  ASSUME NEW f, NEW S
  PROVE  Total(f, S) = Summing(f, S)[S]
  BY DEF Total, Pick, Summing, SumsOver, MapThenSumSet, MapThenFoldSet

Sums(f, S, F) ==
  \A T \in SUBSET S : F[T] = IF T = {} THEN 0 ELSE f[Pick(T)] + F[T \ {Pick(T)}]

LEMMA SumsType ==
  ASSUME NEW S, IsFiniteSet(S), NEW f, \A x \in S : f[x] \in Nat, NEW F, Sums(f, S, F)
  PROVE  \A T \in SUBSET S : F[T] \in Nat
  <1> DEFINE Typed == {T \in SUBSET S : F[T] \in Nat}
  <1>1. ASSUME NEW T \in SUBSET S, \A x \in T : T \ {x} \in Typed
        PROVE  T \in Typed
    <2>1. CASE T = {}
      <3>1. F[T] = 0
        BY <2>1 DEF Sums
      <3>2. QED
        BY <3>1
    <2>2. CASE T # {}
      <3>1. Pick(T) \in T
        BY <2>2 DEF Pick
      <3>2. f[Pick(T)] \in Nat /\ F[T \ {Pick(T)}] \in Nat
        BY <1>1, <3>1
      <3>3. F[T] = f[Pick(T)] + F[T \ {Pick(T)}]
        BY <2>2 DEF Sums
      <3>4. QED
        BY <3>2, <3>3
    <2>3. QED
      BY <2>1, <2>2
  <1>2. SUBSET S \subseteq Typed
    <2> HIDE DEF Typed
    <2>1. QED
      BY <1>1, EverySubset
  <1>3. QED
    BY <1>2

LEMMA SumsExist ==
  ASSUME NEW S, IsFiniteSet(S), NEW f, \A x \in S : f[x] \in Nat
  PROVE  \E F : SumsOver(f, S, F)
  <1> DEFINE c == [T \in SUBSET S |-> Pick(T)]
             h == [z \in S \X Nat |-> f[z[1]] + z[2]]
  <1>1. \A T \in SUBSET S : T # {} => Pick(T) \in T /\ c[T] = Pick(T)
    BY DEF Pick
  <1>2. \A T \in SUBSET S : T # {} => c[T] \in T
    BY <1>1
  <1>3. h \in [S \X Nat -> Nat] /\ 0 \in Nat
    OBVIOUS
  <1>4. \E g \in [SUBSET S -> Nat] : Folds(S, 0, c, h, g)
    <2> HIDE DEF c, h
    <2>1. QED
      BY <1>2, <1>3, FoldExists, Zenon
  <1>5. PICK g \in [SUBSET S -> Nat] :
          \A T \in SUBSET S : g[T] = IF T = {} THEN 0 ELSE h[<<c[T], g[T \ {c[T]}]>>]
    BY <1>4 DEF Folds
  <1>6. ASSUME NEW T \in SUBSET S
        PROVE  g[T] = IF T = {} THEN 0 ELSE f[Pick(T)] + g[T \ {Pick(T)}]
    <2>1. CASE T # {}
      <3>1. Pick(T) \in S /\ c[T] = Pick(T) /\ T \ {Pick(T)} \in SUBSET S
        BY <1>1, <2>1
      <3>2. h[<<Pick(T), g[T \ {Pick(T)}]>>] = f[Pick(T)] + g[T \ {Pick(T)}]
        BY <3>1
      <3>3. QED
        BY <1>5, <2>1, <3>1, <3>2
    <2>2. QED
      BY <1>5, <2>1
  <1> HIDE DEF c, h
  <1>7. g = [T \in SUBSET S |-> IF T = {} THEN 0 ELSE f[Pick(T)] + g[T \ {Pick(T)}]]
    BY <1>6
  <1>8. SumsOver(f, S, g)
    BY <1>7 DEF SumsOver
  <1>9. QED
    BY <1>8

LEMMA SummingStep ==
  ASSUME NEW S, IsFiniteSet(S), NEW f, \A x \in S : f[x] \in Nat
  PROVE  \A T \in SUBSET S :
           /\ Summing(f, S)[T] = IF T = {} THEN 0 ELSE f[Pick(T)] + Summing(f, S)[T \ {Pick(T)}]
           /\ Summing(f, S)[T] \in Nat
  <1> DEFINE F == Summing(f, S)
  <1>1. SumsOver(f, S, F)
    BY SumsExist DEF Summing
  <1> HIDE DEF F
  <1>2. Sums(f, S, F)
    BY <1>1 DEF Sums, SumsOver
  <1>3. \A T \in SUBSET S : F[T] \in Nat
    BY <1>2, SumsType
  <1>4. QED
    BY <1>2, <1>3 DEF Sums, F

(* The sum over a part does not depend on the whole.                       *)
LEMMA SummingPart ==
  ASSUME NEW S, IsFiniteSet(S), NEW f, \A x \in S : f[x] \in Nat
  PROVE  \A T \in SUBSET S : Summing(f, S)[T] = Total(f, T)
  <1> DEFINE Same == {U \in SUBSET S :
                        \A T \in SUBSET S : U \subseteq T => Summing(f, T)[U] = Summing(f, U)[U]}
  <1>1. \A T \in SUBSET S : IsFiniteSet(T) /\ \A x \in T : f[x] \in Nat
    BY FS_Subset
  <1>2. ASSUME NEW U \in SUBSET S, \A x \in U : U \ {x} \in Same
        PROVE  U \in Same
    <2>1. ASSUME NEW T \in SUBSET S, U \subseteq T
          PROVE  Summing(f, T)[U] = Summing(f, U)[U]
      <3>1. Summing(f, T)[U] = IF U = {} THEN 0 ELSE f[Pick(U)] + Summing(f, T)[U \ {Pick(U)}]
        BY <1>1, <2>1, SummingStep
      <3>2. Summing(f, U)[U] = IF U = {} THEN 0 ELSE f[Pick(U)] + Summing(f, U)[U \ {Pick(U)}]
        BY <1>1, SummingStep
      <3>3. CASE U # {}
        <4>1. Pick(U) \in U
          BY <3>3 DEF Pick
        <4>2. U \ {Pick(U)} \in Same /\ U \ {Pick(U)} \subseteq T /\ U \ {Pick(U)} \subseteq U
          BY <1>2, <2>1, <4>1
        <4>3. Summing(f, T)[U \ {Pick(U)}] = Summing(f, U)[U \ {Pick(U)}]
          BY <4>2
        <4>4. QED
          BY <3>1, <3>2, <4>3
      <3>4. QED
        BY <3>1, <3>2, <3>3
    <2>2. QED
      BY <2>1
  <1>3. SUBSET S \subseteq Same
    <2> HIDE DEF Same
    <2>1. QED
      BY <1>2, EverySubset
  <1>4. QED
    BY <1>3, TotalIsSumming

LEMMA TotalStep ==
  ASSUME NEW S, IsFiniteSet(S), NEW f, \A x \in S : f[x] \in Nat
  PROVE  /\ Total(f, S) \in Nat
         /\ S = {} => Total(f, S) = 0
         /\ S # {} => Total(f, S) = f[Pick(S)] + Total(f, S \ {Pick(S)})
  <1>1. S \in SUBSET S /\ S \ {Pick(S)} \in SUBSET S
    OBVIOUS
  <1>2. Total(f, S) = Summing(f, S)[S] /\ Total(f, S \ {Pick(S)}) = Summing(f, S)[S \ {Pick(S)}]
    BY <1>1, SummingPart
  <1>3. QED
    BY <1>1, <1>2, SummingStep

(* It does not matter which element is taken.                              *)
LEMMA TotalRemove ==
  ASSUME NEW S, IsFiniteSet(S), NEW f, \A x \in S : f[x] \in Nat
  PROVE  \A y \in S : Total(f, S) = f[y] + Total(f, S \ {y})
  <1> DEFINE Fair == {T \in SUBSET S : \A y \in T : Total(f, T) = f[y] + Total(f, T \ {y})}
  <1>1. \A T \in SUBSET S : IsFiniteSet(T) /\ \A x \in T : f[x] \in Nat
    BY FS_Subset
  <1>2. \A T \in SUBSET S :
          /\ Total(f, T) \in Nat
          /\ T # {} => Pick(T) \in T /\ Total(f, T) = f[Pick(T)] + Total(f, T \ {Pick(T)})
    BY <1>1, TotalStep DEF Pick
  <1>3. ASSUME NEW T \in SUBSET S, \A x \in T : T \ {x} \in Fair
        PROVE  T \in Fair
    <2>1. ASSUME NEW y \in T
          PROVE  Total(f, T) = f[y] + Total(f, T \ {y})
      <3> DEFINE x == Pick(T)
      <3>1. x \in T /\ Total(f, T) = f[x] + Total(f, T \ {x})
        BY <1>2
      <3>2. CASE x # y
        <4>1. T \ {x} \in Fair /\ T \ {y} \in Fair /\ y \in T \ {x} /\ x \in T \ {y}
          BY <1>3, <3>1, <3>2
        <4>2. Total(f, T \ {x}) = f[y] + Total(f, (T \ {x}) \ {y})
          BY <4>1
        <4>3. Total(f, T \ {y}) = f[x] + Total(f, (T \ {y}) \ {x})
          BY <4>1
        <4>4. (T \ {x}) \ {y} = (T \ {y}) \ {x} /\ (T \ {x}) \ {y} \in SUBSET S
          OBVIOUS
        <4>5. Total(f, (T \ {x}) \ {y}) \in Nat /\ f[x] \in Nat /\ f[y] \in Nat
          BY <1>2, <3>1, <4>4
        <4> DEFINE r == Total(f, (T \ {x}) \ {y})
        <4>6. Total(f, T) = f[x] + (f[y] + r) /\ Total(f, T \ {y}) = f[x] + r
          BY <3>1, <4>2, <4>3, <4>4
        <4>7. r \in Nat /\ f[x] \in Nat /\ f[y] \in Nat
          BY <4>5
        <4> HIDE DEF x, r
        <4>8. QED
          BY <4>6, <4>7
      <3>3. QED
        BY <3>1, <3>2
    <2>2. QED
      BY <2>1
  <1>4. SUBSET S \subseteq Fair
    <2> HIDE DEF Fair
    <2>1. QED
      BY <1>3, EverySubset
  <1>5. QED
    BY <1>4

LEMMA TotalAdd ==
  ASSUME NEW S, IsFiniteSet(S), NEW y, y \notin S, NEW f, \A x \in S \cup {y} : f[x] \in Nat
  PROVE  Total(f, S \cup {y}) = Total(f, S) + f[y]
  <1>1. IsFiniteSet(S \cup {y}) /\ (S \cup {y}) \ {y} = S
    BY FS_AddElement
  <1>2. Total(f, S \cup {y}) = f[y] + Total(f, S)
    BY <1>1, TotalRemove
  <1>3. Total(f, S) \in Nat
    BY TotalStep
  <1>4. QED
    BY <1>2, <1>3

(* Sums are compared term by term, whatever weighs them.                   *)
LEMMA TotalLess ==
  ASSUME NEW S, IsFiniteSet(S), S # {}, NEW f, NEW g, NEW c \in Nat, NEW k \in Nat,
         \A x \in S : f[x] \in Nat /\ g[x] \in Nat /\ c * f[x] < k * g[x]
  PROVE  c * Total(f, S) < k * Total(g, S)
  <1> DEFINE Less == {T \in SUBSET S : T # {} => c * Total(f, T) < k * Total(g, T)}
  <1>1. \A T \in SUBSET S : IsFiniteSet(T) /\ \A x \in T : f[x] \in Nat /\ g[x] \in Nat
    BY FS_Subset
  <1>2. \A T \in SUBSET S :
          /\ Total(f, T) \in Nat /\ Total(g, T) \in Nat
          /\ T = {} => Total(f, T) = 0 /\ Total(g, T) = 0
    BY <1>1, TotalStep
  <1>3. ASSUME NEW T \in SUBSET S, \A x \in T : T \ {x} \in Less, T # {}
        PROVE  c * Total(f, T) < k * Total(g, T)
    <2>1. PICK y \in T : TRUE
      BY <1>3
    <2> DEFINE a == f[y]
               b == g[y]
               p == Total(f, T \ {y})
               q == Total(g, T \ {y})
    <2>2. Total(f, T) = a + p /\ Total(g, T) = b + q
      BY <1>1, TotalRemove
    <2>3. a \in Nat /\ b \in Nat /\ p \in Nat /\ q \in Nat /\ c * a < k * b
      BY <1>2
    <2>4. c * p <= k * q
      <3>1. CASE T \ {y} = {}
        BY <1>2, <3>1
      <3>2. CASE T \ {y} # {}
        <4>1. T \ {y} \in Less
          BY <1>3
        <4>2. c * p < k * q
          BY <3>2, <4>1
        <4> HIDE DEF p, q
        <4>3. QED
          BY <2>3, <4>2
      <3>3. QED
        BY <3>1, <3>2
    <2> HIDE DEF a, b, p, q
    <2>5. c * (a + p) = c * a + c * p /\ k * (b + q) = k * b + k * q
      BY <2>3
    <2>6. c * a \in Int /\ c * p \in Int /\ k * b \in Int /\ k * q \in Int
      BY <2>3
    <2>7. QED
      BY <2>2, <2>3, <2>4, <2>5, <2>6
  <1>4. SUBSET S \subseteq Less
    <2>1. \A T \in SUBSET S : (\A x \in T : T \ {x} \in Less) => T \in Less
      BY <1>3
    <2> HIDE DEF Less
    <2>2. QED
      BY <2>1, EverySubset
  <1>5. QED
    BY <1>4

LEMMA TotalAtLeast ==
  ASSUME NEW S, IsFiniteSet(S), NEW f, NEW g, NEW c \in Nat, NEW k \in Nat,
         \A x \in S : f[x] \in Nat /\ g[x] \in Nat /\ k * g[x] <= c * f[x]
  PROVE  k * Total(g, S) <= c * Total(f, S)
  <1> DEFINE AtLeast == {T \in SUBSET S : k * Total(g, T) <= c * Total(f, T)}
  <1>1. \A T \in SUBSET S : IsFiniteSet(T) /\ \A x \in T : f[x] \in Nat /\ g[x] \in Nat
    BY FS_Subset
  <1>2. \A T \in SUBSET S :
          /\ Total(f, T) \in Nat /\ Total(g, T) \in Nat
          /\ T = {} => Total(f, T) = 0 /\ Total(g, T) = 0
    BY <1>1, TotalStep
  <1>3. ASSUME NEW T \in SUBSET S, \A x \in T : T \ {x} \in AtLeast
        PROVE  k * Total(g, T) <= c * Total(f, T)
    <2>1. CASE T = {}
      BY <1>2, <2>1
    <2>2. CASE T # {}
      <3>1. PICK y \in T : TRUE
        BY <2>2
      <3> DEFINE a == f[y]
                 b == g[y]
                 p == Total(f, T \ {y})
                 q == Total(g, T \ {y})
      <3>2. Total(f, T) = a + p /\ Total(g, T) = b + q
        BY <1>1, TotalRemove
      <3>3. a \in Nat /\ b \in Nat /\ p \in Nat /\ q \in Nat /\ k * b <= c * a
        BY <1>2
      <3>4. T \ {y} \in AtLeast
        BY <1>3
      <3>5. k * q <= c * p
        BY <3>4
      <3> HIDE DEF a, b, p, q
      <3>6. c * (a + p) = c * a + c * p /\ k * (b + q) = k * b + k * q
        BY <3>3
      <3>7. c * a \in Int /\ c * p \in Int /\ k * b \in Int /\ k * q \in Int
        BY <3>3
      <3>8. QED
        BY <3>2, <3>3, <3>5, <3>6, <3>7
    <2>3. QED
      BY <2>1, <2>2
  <1>4. SUBSET S \subseteq AtLeast
    <2>1. \A T \in SUBSET S : (\A x \in T : T \ {x} \in AtLeast) => T \in AtLeast
      BY <1>3
    <2> HIDE DEF AtLeast
    <2>2. QED
      BY <2>1, EverySubset
  <1>5. QED
    BY <1>4

-----------------------------------------------------------------------------
(* Indices.                                                                *)
LEMMA MaxIsGreatest ==
  ASSUME NEW k \in Nat, NEW T \in SUBSET (1..k), T # {}
  PROVE  Max(T) \in T /\ \A y \in T : y <= Max(T)
  <1> DEFINE Gaps == {k - x : x \in T}
  <1>0. \A x \in T : x \in Nat /\ k - x \in Nat
    OBVIOUS
  <1>1. Gaps \subseteq Nat /\ Gaps # {}
    BY <1>0
  <1>2. PICK l \in Gaps : \A m \in Gaps : l <= m
    <2> HIDE DEF Gaps
    <2>1. QED
      BY <1>1, LeastExists
  <1>3. PICK x \in T : l = k - x
    OBVIOUS
  <1>4. ASSUME NEW y \in T
        PROVE  x >= y
    <2>1. k - x <= k - y
      BY <1>2, <1>3
    <2>2. QED
      BY <1>0, <2>1
  <1>5. Max(T) \in T /\ \A y \in T : Max(T) >= y
    BY <1>4 DEF Max
  <1>6. QED
    BY <1>0, <1>5

LEMMA UpToNext ==
  ASSUME NEW i \in Nat \ {0}
  PROVE  1..i # {} /\ Max(1..i) = i /\ (1..i) \ {i} = 1..(i - 1)
  <1>1. 1..i # {}
    OBVIOUS
  <1>2. Max(1..i) \in 1..i /\ \A y \in 1..i : y <= Max(1..i)
    BY <1>1, MaxIsGreatest
  <1>3. QED
    BY <1>2

LEMMA SeqFacts ==
  ASSUME NEW S, IsFiniteSet(S), NEW s \in SetToSeqs(S)
  PROVE  /\ Len(s) \in Nat
         /\ DOMAIN s = 1..Len(s)
         /\ s \in Seq(S)
         /\ \A i, j \in 1..Len(s) : i # j => s[i] # s[j]
  BY FS_CardinalityType DEF SetToSeqs

-----------------------------------------------------------------------------
(* Workloads.                                                              *)

(* The kinds fall into five classes.                                       *)
LEMMA KindClasses ==
  ASSUME NEW k \in Kinds
  PROVE  \/ k \in AppsKinds /\ k \in ReplicaKinds /\ k \notin CountKinds
            /\ k \notin SuspendKinds /\ k # "Cluster" /\ k # "Elasticsearch"
         \/ k \in CountKinds /\ k \in ReplicaKinds /\ k \notin AppsKinds
            /\ k \notin SuspendKinds /\ k # "Cluster" /\ k # "Elasticsearch"
         \/ k \in SuspendKinds /\ k \notin ReplicaKinds /\ k \notin AppsKinds
            /\ k \notin CountKinds /\ k # "Cluster" /\ k # "Elasticsearch"
         \/ k = "Cluster" /\ k \notin ReplicaKinds /\ k \notin AppsKinds
            /\ k \notin CountKinds /\ k \notin SuspendKinds
         \/ k = "Elasticsearch" /\ k \notin ReplicaKinds /\ k \notin AppsKinds
            /\ k \notin CountKinds /\ k \notin SuspendKinds
  BY DEF Kinds, SuspendKinds, OperatorKinds, ReplicaKinds, AppsKinds, CountKinds

LEMMA SettingsByClass ==
  ASSUME NEW k \in Kinds
  PROVE  /\ k \in AppsKinds => Settings(k) = [replicas : Nat]
         /\ k \in CountKinds => Settings(k) = [replicas : Counts]
         /\ k \in SuspendKinds => Settings(k) = [suspend : BOOLEAN]
         /\ k = "Cluster" => Settings(k) = [hibernation : {"", "on", "off"}]
         /\ k = "Elasticsearch" => Settings(k) = [counts : [NodeSets -> Counts]]
  BY KindClasses DEF Settings

(* An Elasticsearch setting is its function from nodeSets to counts.       *)
LEMMA NodeSetSetting ==
  ASSUME NEW st \in Settings("Elasticsearch")
  PROVE  st.counts \in [NodeSets -> Counts] /\ st = [counts |-> st.counts]
  <1>1. Settings("Elasticsearch") = [counts : [NodeSets -> Counts]]
    BY SettingsByClass DEF Kinds
  <1>2. st \in [counts : [NodeSets -> Counts]]
    BY <1>1, Zenon
  <1>3. QED
    BY <1>2

LEMMA QuiesceByClass ==
  ASSUME NEW k \in Kinds, NEW st
  PROVE  /\ k \in ReplicaKinds => Quiesce(k, st) = [replicas |-> 0]
         /\ k \in SuspendKinds => Quiesce(k, st) = [suspend |-> TRUE]
         /\ k = "Cluster" => Quiesce(k, st) = [hibernation |-> "on"]
         /\ k = "Elasticsearch" =>
              Quiesce(k, st) =
                [counts |-> [n \in NodeSets |-> IF st.counts[n] = Unset THEN Unset ELSE 0]]
  BY KindClasses DEF Quiesce

LEMMA SettingsAny ==
  ASSUME NEW k \in Kinds
  PROVE  Settings(k) \subseteq AnySetting
  <1>1. [replicas : Nat] \subseteq [replicas : Counts]
    BY DEF Counts
  <1>2. QED
    BY <1>1, KindClasses, SettingsByClass DEF AnySetting

(* Stopping leaves a setting of the kind.                                  *)
LEMMA QuiesceType ==
  ASSUME NEW k \in Kinds, NEW st \in Settings(k)
  PROVE  Quiesce(k, st) \in Settings(k)
  <1>1. CASE k \in AppsKinds
    BY <1>1, KindClasses, SettingsByClass, QuiesceByClass
  <1>2. CASE k \in CountKinds
    BY <1>2, KindClasses, SettingsByClass, QuiesceByClass DEF Counts
  <1>3. CASE k \in SuspendKinds
    BY <1>3, KindClasses, SettingsByClass, QuiesceByClass
  <1>4. CASE k = "Cluster"
    BY <1>4, KindClasses, SettingsByClass, QuiesceByClass
  <1>5. CASE k = "Elasticsearch"
    <2> DEFINE q == [n \in NodeSets |-> IF st.counts[n] = Unset THEN Unset ELSE 0]
    <2>1. q \in [NodeSets -> Counts]
      BY DEF Counts
    <2>2. Quiesce(k, st) = [counts |-> q]
      BY <1>5, QuiesceByClass
    <2>3. Settings(k) = [counts : [NodeSets -> Counts]]
      BY <1>5, SettingsByClass
    <2> HIDE DEF q
    <2>4. QED
      BY <2>1, <2>2, <2>3
  <1>6. QED
    BY <1>1, <1>2, <1>3, <1>4, <1>5, KindClasses

(* What has been stopped is not taken to run, so it is not stopped twice.  *)
LEMMA QuiescedNotRunning ==
  ASSUME NEW k \in Kinds, NEW st \in Settings(k)
  PROVE  ~Running(k, Quiesce(k, st))
  <1>1. CASE k \in ReplicaKinds
    BY <1>1, KindClasses, QuiesceByClass DEF Running
  <1>2. CASE k \in SuspendKinds
    BY <1>2, KindClasses, QuiesceByClass DEF Running
  <1>3. CASE k = "Cluster"
    BY <1>3, KindClasses, QuiesceByClass DEF Running
  <1>4. CASE k = "Elasticsearch"
    <2>1. ASSUME NEW n \in NodeSets
          PROVE  Quiesce(k, st).counts[n] \in {Unset, 0}
      BY <1>4, QuiesceByClass
    <2>2. ASSUME NEW n \in NodeSets
          PROVE  ~(Quiesce(k, st).counts[n] > 0)
      <3> DEFINE q == Quiesce(k, st).counts[n]
      <3>1. q = -1 \/ q = 0
        BY <2>1 DEF Unset
      <3> HIDE DEF q
      <3>2. ~(q > 0)
        BY <3>1
      <3>3. QED
        BY <3>2 DEF q
    <2>3. QED
      BY <1>4, <2>2, KindClasses DEF Running
  <1>5. QED
    BY <1>1, <1>2, <1>3, <1>4, KindClasses

LEMMA RestoreType ==
  ASSUME NEW k \in Kinds, NEW st \in Settings(k), NEW original \in Settings(k)
  PROVE  Restore(k, st, original) \in Settings(k)
  <1>1. CASE k = "Elasticsearch"
    <2>1. PICK f \in [NodeSets -> Counts], g \in [NodeSets -> Counts] :
            st = [counts |-> f] /\ original = [counts |-> g]
      BY <1>1, NodeSetSetting
    <2> DEFINE h == [n \in NodeSets |-> IF Unset \in {f[n], g[n]} THEN f[n] ELSE g[n]]
    <2>2. Restore(k, st, original) = [counts |-> h]
      BY <1>1, <2>1 DEF Restore
    <2>3. h \in [NodeSets -> Counts]
      OBVIOUS
    <2>4. QED
      BY <1>1, <2>2, <2>3, SettingsByClass
  <1>2. CASE k # "Elasticsearch"
    BY <1>2 DEF Restore
  <1>3. QED
    BY <1>1, <1>2

(* Restoring what was stopped gives back what was recorded.                *)
THEOREM RestoreQuiesced ==
  ASSUME NEW k \in Kinds, NEW st \in Settings(k)
  PROVE  Restore(k, Quiesce(k, st), st) = st
  <1>1. CASE k = "Elasticsearch"
    <2> DEFINE q == [n \in NodeSets |-> IF st.counts[n] = Unset THEN Unset ELSE 0]
               r == [n \in NodeSets |->
                       IF Unset \in {q[n], st.counts[n]} THEN q[n] ELSE st.counts[n]]
    <2>1. Quiesce(k, st) = [counts |-> q]
      BY <1>1, QuiesceByClass
    <2>2. Restore(k, Quiesce(k, st), st) = [counts |-> r]
      BY <1>1, <2>1 DEF Restore
    <2>3. \A n \in NodeSets : r[n] = st.counts[n]
      BY DEF Unset
    <2>4. r = st.counts
      BY <1>1, <2>3, NodeSetSetting
    <2>5. QED
      BY <1>1, <2>2, <2>4, NodeSetSetting
  <1>2. CASE k # "Elasticsearch"
    BY <1>2 DEF Restore
  <1>3. QED
    BY <1>1, <1>2

(* Restoring what already reads as it was recorded changes nothing.        *)
LEMMA RestoreUnchanged ==
  ASSUME NEW k \in Kinds, NEW st \in Settings(k)
  PROVE  Restore(k, st, st) = st
  <1>1. CASE k = "Elasticsearch"
    <2>1. Restore(k, st, st) = [counts |-> [n \in NodeSets |-> st.counts[n]]]
      BY <1>1 DEF Restore
    <2>2. QED
      BY <1>1, <2>1, NodeSetSetting
  <1>2. CASE k # "Elasticsearch"
    BY <1>2 DEF Restore
  <1>3. QED
    BY <1>1, <1>2

(* What ran and was stopped is seen to be stopped, for every kind.         *)
LEMMA QuiescedIsDesynced ==
  ASSUME NEW k \in Kinds, NEW st \in Settings(k), Running(k, st)
  PROVE  Desynced(k, Quiesce(k, st), st)
  <1>1. CASE k \in AppsKinds
    BY <1>1, KindClasses, QuiesceByClass DEF Running, Desynced
  <1>2. CASE k \in CountKinds
    BY <1>2, KindClasses, QuiesceByClass DEF Running, Desynced
  <1>3. CASE k \in SuspendKinds
    BY <1>3, KindClasses, QuiesceByClass DEF Running, Desynced
  <1>4. CASE k = "Cluster"
    BY <1>4, QuiesceByClass DEF Desynced
  <1>5. CASE k = "Elasticsearch"
    <2>1. PICK n \in NodeSets : st.counts[n] > 0
      BY <1>5, KindClasses DEF Running
    <2>2. st.counts[n] # Unset
      <3> DEFINE m == st.counts[n]
      <3>1. m > 0
        BY <2>1
      <3> HIDE DEF m
      <3>2. m # -1
        BY <3>1
      <3>3. QED
        BY <3>2 DEF m, Unset
    <2> DEFINE q == [m \in NodeSets |-> IF st.counts[m] = Unset THEN Unset ELSE 0]
    <2>3. q[n] = 0
      BY <2>2
    <2>4. Quiesce(k, st) = [counts |-> q]
      BY <1>5, QuiesceByClass
    <2> HIDE DEF q
    <2>5. Quiesce(k, st).counts[n] = 0
      BY <2>3, <2>4
    <2>6. QED
      BY <1>5, <2>5 DEF Desynced
  <1>6. QED
    BY <1>1, <1>2, <1>3, <1>4, <1>5, KindClasses
=============================================================================
