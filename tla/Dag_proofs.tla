------------------------------- MODULE Dag_proofs -------------------------------
(***************************************************************************)
(* Proofs about the algorithms of Dag, for every finite graph: the levels  *)
(* of TopologicalSort, which are those of the longest chains, and the      *)
(* search for a circle.                                                    *)
(***************************************************************************)
EXTENDS Dag, Integers, FiniteSetTheorems, TLAPS

-----------------------------------------------------------------------------
(* Induction.  The induction rules of the library take the induction       *)
(* hypothesis as an operator; here it is a set of numbers, and the rule    *)
(* follows from the pigeonhole principle.                                  *)

\* A set of numbers that holds 0 and every successor holds them all.
LEMMA SetInduction ==
  ASSUME NEW S \in SUBSET Nat, 0 \in S, \A n \in S : n + 1 \in S
  PROVE  S = Nat
<1>1. SUFFICES ASSUME NEW n \in Nat \ S PROVE FALSE
  OBVIOUS
<1> DEFINE T == S \cap (0 .. n)
           f == [x \in T |-> x + 1]
<1>2. IsFiniteSet(T) /\ 0 \in T /\ IsFiniteSet(T \ {0})
  <2>1. IsFiniteSet(0 .. n)
    BY FS_Interval
  <2>2. IsFiniteSet(T)
    BY <2>1, FS_Intersection
  <2> QED
    BY <2>2, FS_RemoveElement
<1>3. Cardinality(T \ {0}) = Cardinality(T) - 1 /\ Cardinality(T) \in Nat
  BY <1>2, FS_RemoveElement, FS_CardinalityType
<1>4. f \in [T -> T \ {0}]
  OBVIOUS
<1>5. \A x, y \in T : f[x] = f[y] => x = y
  OBVIOUS
<1> HIDE DEF T, f
<1> QED
  BY <1>2, <1>3, <1>4, <1>5, FS_PigeonHole

\* The same up to a bound.
LEMMA RangeInduction ==
  ASSUME NEW n \in Nat, NEW S, 0 \in S, \A i \in 0 .. n - 1 : i \in S => i + 1 \in S
  PROVE  0 .. n \subseteq S
<1> DEFINE T == {i \in Nat : i > n \/ i \in S}
<1>1. T \in SUBSET Nat /\ 0 \in T
  OBVIOUS
<1>2. \A i \in T : i + 1 \in T
  OBVIOUS
<1>3. T = Nat
  <2> HIDE DEF T
  <2> QED
    BY <1>1, <1>2, SetInduction
<1> QED
  BY <1>3

\* A set of numbers up to n that holds what is below each of its members is
\* an interval from 0.
LEMMA DownwardClosed ==
  ASSUME NEW n \in Nat, NEW S \in SUBSET (0 .. n),
         \A i \in S : \A j \in 0 .. i : j \in S
  PROVE  Cardinality(S) \in Nat /\ S = 0 .. Cardinality(S) - 1
<1>1. CASE 0 \notin S
  <2>1. S = {}
    BY <1>1
  <2> QED
    BY <2>1, FS_EmptySet
<1>2. CASE 0 \in S
  <2>1. ~ \A i \in S : i + 1 \in S
    <3>1. SUFFICES ASSUME \A i \in S : i + 1 \in S PROVE FALSE
      OBVIOUS
    <3>2. S = Nat
      BY <1>2, <3>1, SetInduction
    <3> QED
      BY <3>2, n + 1 \in Nat
  <2>2. PICK i \in S : i + 1 \notin S
    BY <2>1
  <2>3. S = 0 .. i
    <3>1. ASSUME NEW k \in S PROVE k \in 0 .. i
      <4>1. k \in Nat /\ i \in Nat /\ \A j \in 0 .. k : j \in S
        OBVIOUS
      <4> QED
        BY <4>1, <2>2
    <3> QED
      BY <3>1
  <2>4. Cardinality(0 .. i) = i + 1
    BY FS_Interval, i \in Nat
  <2> QED
    BY <2>3, <2>4
<1> QED
  BY <1>1, <1>2

-----------------------------------------------------------------------------
(* Kahn's algorithm.                                                       *)

\* The first round of TopologicalSort, and the round after p.
KahnFirst(N, D) == [level |-> {t \in N : D[t] = {}},
                    inDegree |-> [t \in N |-> Cardinality(D[t])]]
KahnNext(N, D, p) ==
  LET d == [t \in N |-> p.inDegree[t] - Cardinality(D[t] \cap p.level)]
  IN  [level |-> {t \in N : p.inDegree[t] > 0 /\ d[t] = 0}, inDegree |-> d]

\* The loop of TopologicalSort is one round after the other.
LEMMA KahnRounds ==
  ASSUME NEW N, NEW D, IsFiniteSet(N)
  PROVE  /\ Cardinality(N) \in Nat
         /\ DOMAIN Kahn(N, D) = 0 .. Cardinality(N)
         /\ Kahn(N, D)[0] = KahnFirst(N, D)
         /\ \A i \in 0 .. Cardinality(N) - 1 :
              Kahn(N, D)[i + 1] = KahnNext(N, D, Kahn(N, D)[i])
<1> DEFINE Eq(g, n) == g = [i \in 0 .. n |-> IF i = 0 THEN KahnFirst(N, D)
                                            ELSE KahnNext(N, D, g[i - 1])]
           S == {n \in Nat : \E g : Eq(g, n)}
<1>0. Cardinality(N) \in Nat
  BY FS_CardinalityType
<1>1. S \in SUBSET Nat
  OBVIOUS
<1>2. 0 \in S
  <2>1. Eq([i \in 0 .. 0 |-> KahnFirst(N, D)], 0)
    OBVIOUS
  <2> QED
    BY <2>1
<1>3. ASSUME NEW n \in S PROVE n + 1 \in S
  <2>1. PICK g : Eq(g, n)
    OBVIOUS
  <2> DEFINE h == [i \in 0 .. n + 1 |-> IF i = n + 1 THEN KahnNext(N, D, g[n]) ELSE g[i]]
  <2>2. Eq(h, n + 1)
    BY <2>1
  <2>3. \E k : Eq(k, n + 1)
    <3> HIDE DEF h, Eq
    <3> QED
      BY <2>2
  <2> QED
    BY <2>3
<1>4. S = Nat
  <2> HIDE DEF S
  <2> QED
    BY <1>1, <1>2, <1>3, SetInduction
<1>5. \E g : Eq(g, Cardinality(N))
  BY <1>4, <1>0
<1>6. Eq(Kahn(N, D), Cardinality(N))
  BY <1>5, <1>0 DEF Kahn, KahnFirst, KahnNext
<1>7. /\ DOMAIN Kahn(N, D) = 0 .. Cardinality(N)
      /\ Kahn(N, D)[0] = KahnFirst(N, D)
  BY <1>6, <1>0
<1>9. \A k \in 0 .. Cardinality(N) :
        Kahn(N, D)[k] = IF k = 0 THEN KahnFirst(N, D) ELSE KahnNext(N, D, Kahn(N, D)[k - 1])
  <2> DEFINE F == Kahn(N, D)
  <2> HIDE DEF F
  <2>1. F = [i \in 0 .. Cardinality(N) |-> IF i = 0 THEN KahnFirst(N, D)
                                            ELSE KahnNext(N, D, F[i - 1])]
    BY <1>6 DEF F
  <2>2. ASSUME NEW k \in 0 .. Cardinality(N)
        PROVE  F[k] = IF k = 0 THEN KahnFirst(N, D) ELSE KahnNext(N, D, F[k - 1])
    BY ONLY <2>1
  <2> QED
    BY <2>2 DEF F
<1>8. ASSUME NEW i \in 0 .. Cardinality(N) - 1
      PROVE  Kahn(N, D)[i + 1] = KahnNext(N, D, Kahn(N, D)[i])
  <2>1. i + 1 \in 0 .. Cardinality(N) /\ i + 1 # 0 /\ i + 1 - 1 = i
    BY <1>0
  <2> QED
    BY <1>9, <2>1
<1> QED
  BY <1>0, <1>7, <1>8

\* The nodes that the rounds before the i-th put on a level.
Before(N, D, i) == {t \in N : \E j \in 0 .. i - 1 : t \in Kahn(N, D)[j].level}

\* What holds before each round: a degree counts the dependencies that are on
\* no level yet, the next level is the nodes whose dependencies all are.
KahnRound(N, D, i) ==
  /\ Kahn(N, D)[i].inDegree = [t \in N |-> Cardinality(D[t] \ Before(N, D, i))]
  /\ Before(N, D, i) \subseteq Before(N, D, i + 1)
  /\ Kahn(N, D)[i].level = Before(N, D, i + 1) \ Before(N, D, i)
  /\ Before(N, D, i + 1) = {t \in N : D[t] \subseteq Before(N, D, i)}

\* One more round.
LEMMA BeforeNext ==
  ASSUME NEW N, NEW D, NEW i \in Nat
  PROVE  /\ Before(N, D, 0) = {}
         /\ Before(N, D, i + 1) = Before(N, D, i) \cup (N \cap Kahn(N, D)[i].level)
         /\ Before(N, D, i) \subseteq N
<1>1. \A j : j \in 0 .. i <=> j \in 0 .. i - 1 \/ j = i
  OBVIOUS
<1>2. 0 .. 0 - 1 = {} /\ i + 1 - 1 = i
  OBVIOUS
<1> QED
  BY <1>1, <1>2 DEF Before

\* Every round is as KahnRound says.
LEMMA KahnInvariant ==
  ASSUME NEW N, NEW D, IsFiniteSet(N), \A t \in N : D[t] \subseteq N
  PROVE  \A i \in 0 .. Cardinality(N) : KahnRound(N, D, i)
<1> DEFINE K == Kahn(N, D)
           B(i) == Before(N, D, i)
           S == {i \in 0 .. Cardinality(N) : KahnRound(N, D, i)}
<1>0. Cardinality(N) \in Nat
  BY KahnRounds
<1>1. 0 \in S
  <2>1. K[0] = [level |-> {t \in N : D[t] = {}},
                inDegree |-> [t \in N |-> Cardinality(D[t])]]
    BY KahnRounds, <1>0 DEF KahnFirst
  <2>2. B(0) = {} /\ B(1) = K[0].level
    BY <2>1, BeforeNext
  <2> QED
    BY <2>1, <2>2, <1>0 DEF KahnRound
<1>2. ASSUME NEW i \in 0 .. Cardinality(N) - 1, i \in S PROVE i + 1 \in S
  <2> DEFINE d == [t \in N |-> K[i].inDegree[t] - Cardinality(D[t] \cap K[i].level)]
  <2>1. i \in Nat /\ i + 1 \in 0 .. Cardinality(N) /\ i + 1 # 0 /\ i + 1 - 1 = i
    BY <1>0
  <2>2. KahnRound(N, D, i)
    BY <1>2
  <2>3. K[i + 1] = [level |-> {t \in N : K[i].inDegree[t] > 0 /\ d[t] = 0}, inDegree |-> d]
    <3>1. K[i + 1] = KahnNext(N, D, K[i])
      BY KahnRounds
    <3> QED
      BY <3>1 DEF KahnNext
  <2>4. ASSUME NEW t \in N
        PROVE  /\ d[t] = Cardinality(D[t] \ B(i + 1)) /\ d[t] \in Nat
               /\ K[i].inDegree[t] \in Nat
               /\ K[i].inDegree[t] > 0 <=> ~(D[t] \subseteq B(i))
               /\ d[t] = 0 <=> D[t] \subseteq B(i + 1)
    <3>1. IsFiniteSet(D[t]) /\ IsFiniteSet(D[t] \ B(i)) /\ IsFiniteSet(D[t] \ B(i + 1))
      BY FS_Subset, FS_Difference
    <3>2. D[t] \cap K[i].level \subseteq D[t] \ B(i)
      BY <2>2 DEF KahnRound
    <3>3. D[t] \ B(i + 1) = (D[t] \ B(i)) \ (D[t] \cap K[i].level)
      BY <2>2 DEF KahnRound
    <3>4. Cardinality(D[t] \ B(i + 1)) = Cardinality(D[t] \ B(i)) - Cardinality(D[t] \cap K[i].level)
      <4>1. Cardinality(D[t] \ B(i + 1))
              = Cardinality(D[t] \ B(i)) - Cardinality((D[t] \ B(i)) \cap (D[t] \cap K[i].level))
        BY <3>1, <3>3, FS_Difference
      <4>2. (D[t] \ B(i)) \cap (D[t] \cap K[i].level) = D[t] \cap K[i].level
        BY <3>2
      <4> QED
        BY <4>1, <4>2
    <3>5. K[i].inDegree[t] = Cardinality(D[t] \ B(i))
      BY <2>2 DEF KahnRound
    <3>6. d[t] = Cardinality(D[t] \ B(i + 1))
      BY <3>4, <3>5
    <3>7. /\ Cardinality(D[t] \ B(i)) \in Nat /\ Cardinality(D[t] \ B(i + 1)) \in Nat
          /\ Cardinality(D[t] \ B(i)) = 0 <=> D[t] \ B(i) = {}
          /\ Cardinality(D[t] \ B(i + 1)) = 0 <=> D[t] \ B(i + 1) = {}
      BY <3>1, FS_CardinalityType, FS_EmptySet
    <3> HIDE DEF d
    <3> QED
      BY <3>5, <3>6, <3>7
  <2>5. B(i) \subseteq B(i + 1) /\ B(i + 1) = {t \in N : D[t] \subseteq B(i)}
    BY <2>2 DEF KahnRound
  <2>6. K[i + 1].level = {t \in N : D[t] \subseteq B(i + 1)} \ B(i + 1)
    <3> HIDE DEF d
    <3>1. K[i + 1].level = {t \in N : K[i].inDegree[t] > 0 /\ d[t] = 0}
      BY <2>3
    <3>2. \A t \in N : K[i].inDegree[t] > 0 /\ d[t] = 0 <=> D[t] \subseteq B(i + 1) /\ t \notin B(i + 1)
      BY <2>4, <2>5
    <3> QED
      BY <3>1, <3>2
  <2>7. B(i + 2) = B(i + 1) \cup (N \cap K[i + 1].level)
    BY <2>1, BeforeNext, i + 1 \in Nat, (i + 1) + 1 = i + 2
  <2>8. /\ B(i + 2) = {t \in N : D[t] \subseteq B(i + 1)} /\ B(i + 1) \subseteq B(i + 2)
        /\ K[i + 1].level = B(i + 2) \ B(i + 1)
    BY <2>5, <2>6, <2>7
  <2>9. K[i + 1].inDegree = [t \in N |-> Cardinality(D[t] \ B(i + 1))]
    <3>1. K[i + 1].inDegree = d
      BY <2>3
    <3>2. d = [t \in N |-> d[t]]
      OBVIOUS
    <3> HIDE DEF d
    <3> QED
      BY <3>1, <3>2, <2>4
  <2> QED
    BY <2>1, <2>8, <2>9, (i + 1) + 1 = i + 2 DEF KahnRound
<1>3. 0 .. Cardinality(N) \subseteq S
  <2> HIDE DEF S
  <2> QED
    BY <1>0, <1>1, <1>2, RangeInduction
<1> QED
  BY <1>3

\* Without a cycle a round that finds no level comes after every node has one.
LEMMA EmptyRound ==
  ASSUME NEW N, NEW D, IsFiniteSet(N), \A t \in N : D[t] \subseteq N, ~Cyclic(N, D),
         NEW i \in 0 .. Cardinality(N)
  PROVE  Kahn(N, D)[i].level = {} <=> Before(N, D, i) = N
<1>1. KahnRound(N, D, i)
  BY KahnInvariant
<1>2. Before(N, D, i) \subseteq N
  BY BeforeNext DEF Before
<1>3. ASSUME Kahn(N, D)[i].level = {}, Before(N, D, i) # N PROVE FALSE
  <2> DEFINE R == N \ Before(N, D, i)
  <2>1. Before(N, D, i + 1) = Before(N, D, i)
    BY <1>1, <1>3 DEF KahnRound
  <2>2. \A t \in R : D[t] \cap R # {}
    BY <1>1, <2>1 DEF KahnRound
  <2>3. R \in (SUBSET N) \ {{}}
    BY <1>2, <1>3
  <2> QED
    BY <2>2, <2>3 DEF Cyclic
<1>4. Before(N, D, i + 1) \subseteq N
  BY DEF Before
<1> QED
  BY <1>1, <1>3, <1>4 DEF KahnRound

\* The rounds only ever add nodes.
LEMMA BeforeGrows ==
  ASSUME NEW N, NEW D, NEW i \in Nat, NEW j \in 0 .. i
  PROVE  Before(N, D, j) \subseteq Before(N, D, i)
<1>1. 0 .. j - 1 \subseteq 0 .. i - 1
  OBVIOUS
<1> QED
  BY <1>1 DEF Before

\* Every round that finds a level adds a node, so they all have one in the end.
LEMMA KahnEnds ==
  ASSUME NEW N, NEW D, IsFiniteSet(N), \A t \in N : D[t] \subseteq N, ~Cyclic(N, D)
  PROVE  Before(N, D, Cardinality(N)) = N
<1> DEFINE B(i) == Before(N, D, i)
           S == {i \in 0 .. Cardinality(N) : B(i) = N \/ Cardinality(B(i)) >= i}
<1>0. Cardinality(N) \in Nat
  BY FS_CardinalityType
<1>1. \A i \in Nat : B(i) \subseteq N /\ IsFiniteSet(B(i)) /\ Cardinality(B(i)) \in Nat
  BY FS_Subset, FS_CardinalityType DEF Before
<1>2. 0 \in S
  BY <1>0, <1>1
<1>3. ASSUME NEW i \in 0 .. Cardinality(N) - 1, i \in S PROVE i + 1 \in S
  <2>1. i \in 0 .. Cardinality(N) /\ i + 1 \in 0 .. Cardinality(N) /\ i \in Nat /\ i + 1 \in Nat
    BY <1>0
  <2>2. KahnRound(N, D, i)
    BY <2>1, KahnInvariant
  <2>3. CASE B(i) = N
    <3>1. B(i + 1) = N
      BY <2>1, <2>2, <2>3, <1>1 DEF KahnRound
    <3> QED
      BY <3>1, <2>1
  <2>4. CASE B(i) # N
    <3>1. Kahn(N, D)[i].level # {}
      BY <2>1, <2>4, EmptyRound
    <3>2. B(i) \subseteq B(i + 1) /\ B(i) # B(i + 1)
      BY <2>2, <3>1 DEF KahnRound
    <3>3. Cardinality(B(i)) < Cardinality(B(i + 1))
      <4>1. Cardinality(B(i)) <= Cardinality(B(i + 1))
        BY <1>1, <2>1, <3>2, FS_Subset
      <4>2. Cardinality(B(i)) # Cardinality(B(i + 1))
        BY <1>1, <2>1, <3>2, FS_Subset
      <4> QED
        BY <4>1, <4>2, <1>1, <2>1
    <3>4. Cardinality(B(i)) >= i /\ Cardinality(B(i)) \in Nat /\ Cardinality(B(i + 1)) \in Nat
      BY <1>1, <1>3, <2>1, <2>4
    <3>5. Cardinality(B(i + 1)) >= i + 1
      BY <3>3, <3>4, <2>1
    <3> QED
      BY <3>5, <2>1
  <2> QED
    BY <2>3, <2>4
<1>4. 0 .. Cardinality(N) \subseteq S
  <2> HIDE DEF S
  <2> QED
    BY <1>0, <1>2, <1>3, RangeInduction
<1>5. Cardinality(N) \in S
  BY <1>0, <1>4
<1>6. CASE Cardinality(B(Cardinality(N))) >= Cardinality(N)
  <2>1. B(Cardinality(N)) \subseteq N /\ Cardinality(B(Cardinality(N))) \in Nat
    BY <1>0, <1>1
  <2>2. Cardinality(B(Cardinality(N))) <= Cardinality(N)
    BY <2>1, FS_Subset
  <2>3. Cardinality(B(Cardinality(N))) = Cardinality(N)
    BY <2>1, <2>2, <1>6, <1>0
  <2> QED
    BY <2>1, <2>3, FS_Subset
<1> QED
  BY <1>5, <1>6

\* The levels of TopologicalSort: as many as it takes, none of them empty,
\* each the nodes whose dependencies are all on the levels before it.
LEMMA SortedLevels ==
  ASSUME NEW N, NEW D, IsFiniteSet(N), \A t \in N : D[t] \subseteq N, ~Cyclic(N, D)
  PROVE  \E n \in 0 .. Cardinality(N) :
           /\ TopologicalSort(N, D) = [i \in 1 .. n |-> Kahn(N, D)[i - 1].level]
           /\ Before(N, D, n) = N
           /\ \A i \in 0 .. Cardinality(N) : Kahn(N, D)[i].level # {} <=> i < n
<1> DEFINE C == Cardinality(N)
           Full == {i \in DOMAIN Kahn(N, D) : Kahn(N, D)[i].level # {}}
           n == Cardinality(Full)
<1>0. C \in Nat /\ DOMAIN Kahn(N, D) = 0 .. C
  BY KahnRounds
<1>1. \A i \in 0 .. C : i \in Full <=> Before(N, D, i) # N
  BY <1>0, EmptyRound
<1>2. Full \in SUBSET (0 .. C)
  BY <1>0
<1>3. \A i \in Full : \A j \in 0 .. i : j \in Full
  <2>1. SUFFICES ASSUME NEW i \in Full, NEW j \in 0 .. i PROVE j \in Full
    OBVIOUS
  <2>2. i \in 0 .. C /\ i \in Nat /\ j \in 0 .. C
    BY <1>0
  <2>3. Before(N, D, j) \subseteq Before(N, D, i) /\ Before(N, D, i) \subseteq N
    BY <2>2, BeforeGrows DEF Before
  <2> HIDE DEF Full
  <2> QED
    BY <1>1, <2>2, <2>3
<1>4. n \in Nat /\ Full = 0 .. n - 1
  <2> HIDE DEF Full
  <2> QED
    BY <1>0, <1>2, <1>3, DownwardClosed
<1>5. C \notin Full
  <2> HIDE DEF Full
  <2> QED
    BY <1>0, <1>1, KahnEnds
<1>6. n \in 0 .. C
  <2> HIDE DEF Full
  <2>1. ~ (n - 1 >= C)
    BY <1>0, <1>4, <1>5
  <2> QED
    BY <1>0, <1>4, <2>1
<1>7. Before(N, D, n) = N
  <2> HIDE DEF Full
  <2> QED
    BY <1>1, <1>4, <1>6
<1>8. \A i \in 0 .. C : Kahn(N, D)[i].level # {} <=> i < n
  <2>1. \A i \in 0 .. C : Kahn(N, D)[i].level # {} <=> i \in Full
    BY <1>0
  <2> HIDE DEF Full
  <2> QED
    BY <2>1, <1>0, <1>4
<1>9. TopologicalSort(N, D) = [i \in 1 .. n |-> Kahn(N, D)[i - 1].level]
  BY DEF TopologicalSort
<1> QED
  BY <1>6, <1>7, <1>8, <1>9

\* TopologicalSort of an acyclic graph: levels that are not empty, have no
\* node in common, hold every node, and put a node after what it depends on.
THEOREM LevelsOfDag ==
  ASSUME NEW N, NEW D, IsFiniteSet(N), \A t \in N : D[t] \subseteq N, ~Cyclic(N, D)
  PROVE  LET T == TopologicalSort(N, D) IN
         /\ Len(T) \in Nat /\ DOMAIN T = 1 .. Len(T) /\ T \in Seq(SUBSET N)
         /\ \A l \in 1 .. Len(T) : T[l] # {} /\ T[l] \subseteq N
         /\ \A t \in N : \E l \in 1 .. Len(T) : t \in T[l]
         /\ \A l, m \in 1 .. Len(T) : T[l] \cap T[m] # {} => l = m
         /\ \A l \in 1 .. Len(T) : \A t \in T[l] : \A d \in D[t] :
              \E m \in 1 .. l - 1 : d \in T[m]
<1> DEFINE C == Cardinality(N)
           T == TopologicalSort(N, D)
           B(i) == Before(N, D, i)
           K == Kahn(N, D)
<1>0. C \in Nat
  BY FS_CardinalityType
<1>1. PICK n \in 0 .. C : /\ T = [i \in 1 .. n |-> K[i - 1].level]
                          /\ B(n) = N
                          /\ \A i \in 0 .. C : K[i].level # {} <=> i < n
  BY SortedLevels
<1>2. n \in Nat /\ DOMAIN T = 1 .. n /\ \A l \in 1 .. n : T[l] = K[l - 1].level
  BY <1>0, <1>1
<1>3. \A i \in 0 .. C : KahnRound(N, D, i)
  BY KahnInvariant
<1>4. ASSUME NEW l \in 1 .. n
      PROVE  /\ T[l] = B(l) \ B(l - 1) /\ T[l] \subseteq N /\ T[l] # {}
             /\ B(l) = {t \in N : D[t] \subseteq B(l - 1)}
  <2>1. l - 1 \in 0 .. C /\ (l - 1) + 1 = l /\ l - 1 < n
    BY <1>0, <1>2
  <2>2. B(l) \subseteq N
    BY DEF Before
  <2>3. T[l] = K[l - 1].level /\ K[l - 1].level # {}
    BY <1>1, <1>2, <2>1
  <2>4. KahnRound(N, D, l - 1)
    BY <1>3, <2>1
  <2> QED
    BY <2>1, <2>2, <2>3, <2>4 DEF KahnRound
<1>5. Len(T) = n /\ T \in Seq(SUBSET N)
  <2>1. T = [i \in 1 .. n |-> T[i]]
    BY <1>1, <1>2
  <2>2. \A i \in 1 .. n : T[i] \in SUBSET N
    BY <1>4
  <2> HIDE DEF T
  <2> QED
    BY <1>2, <2>1, <2>2
<1>6. ASSUME NEW m \in 0 .. n, NEW t \in B(m) PROVE \E l \in 1 .. m : t \in T[l]
  <2>1. PICK j \in 0 .. m - 1 : t \in K[j].level
    BY DEF Before
  <2>2. j + 1 \in 1 .. m /\ j + 1 \in 1 .. n /\ (j + 1) - 1 = j
    BY <1>2
  <2> QED
    BY <2>1, <2>2, <1>2
<1>7. \A t \in N : \E l \in 1 .. n : t \in T[l]
  BY <1>1, <1>2, <1>6, n \in 0 .. n
<1>8. ASSUME NEW l \in 1 .. n, NEW m \in 1 .. n, T[l] \cap T[m] # {}, l < m PROVE FALSE
  <2>1. m - 1 \in Nat /\ l \in 0 .. m - 1
    BY <1>2, <1>8
  <2>2. B(l) \subseteq B(m - 1)
    BY <2>1, BeforeGrows
  <2> QED
    BY <1>4, <1>8, <2>2
<1>9. \A l, m \in 1 .. n : T[l] \cap T[m] # {} => l = m
  <2>1. SUFFICES ASSUME NEW l \in 1 .. n, NEW m \in 1 .. n, T[l] \cap T[m] # {} PROVE l = m
    OBVIOUS
  <2>2. ~(l < m) /\ ~(m < l)
    BY <2>1, <1>8
  <2> QED
    BY <2>2, <1>2
<1>10. ASSUME NEW l \in 1 .. n, NEW t \in T[l], NEW d \in D[t]
       PROVE  \E m \in 1 .. l - 1 : d \in T[m]
  <2>1. d \in B(l - 1)
    BY <1>4
  <2>2. l - 1 \in 0 .. n
    BY <1>2
  <2> QED
    BY <1>6, <2>1, <2>2
<1> HIDE DEF T, B, K
<1> QED
  BY <1>2, <1>4, <1>5, <1>7, <1>9, <1>10 DEF T

-----------------------------------------------------------------------------
(* The levels are those of the longest chains.                             *)

\* The chains of LongestChain, a length at a time.
Chains(N, D) ==
  LET depth[i \in 0 .. Cardinality(N)] ==
        IF i = 0 THEN N ELSE {u \in N : D[u] \cap depth[i - 1] # {}}
  IN  depth

\* The nodes that depend on one of p.
Longer(N, D, p) == {u \in N : D[u] \cap p # {}}

\* One length after the other.
LEMMA ChainRounds ==
  ASSUME NEW N, NEW D, IsFiniteSet(N)
  PROVE  /\ Chains(N, D)[0] = N
         /\ \A i \in 0 .. Cardinality(N) - 1 :
              Chains(N, D)[i + 1] = Longer(N, D, Chains(N, D)[i])
<1> DEFINE Eq(g, n) == g = [i \in 0 .. n |-> IF i = 0 THEN N
                                            ELSE Longer(N, D, g[i - 1])]
           S == {n \in Nat : \E g : Eq(g, n)}
<1>0. Cardinality(N) \in Nat
  BY FS_CardinalityType
<1>1. S \in SUBSET Nat
  OBVIOUS
<1>2. 0 \in S
  <2>1. Eq([i \in 0 .. 0 |-> N], 0)
    OBVIOUS
  <2> QED
    BY <2>1
<1>3. ASSUME NEW n \in S PROVE n + 1 \in S
  <2>1. PICK g : Eq(g, n)
    OBVIOUS
  <2> DEFINE h == [i \in 0 .. n + 1 |-> IF i = n + 1 THEN Longer(N, D, g[n]) ELSE g[i]]
  <2>2. Eq(h, n + 1)
    BY <2>1
  <2>3. \E k : Eq(k, n + 1)
    <3> HIDE DEF h, Eq
    <3> QED
      BY <2>2
  <2> QED
    BY <2>3
<1>4. S = Nat
  <2> HIDE DEF S
  <2> QED
    BY <1>1, <1>2, <1>3, SetInduction
<1>5. \E g : Eq(g, Cardinality(N))
  BY <1>4, <1>0
<1>6. Eq(Chains(N, D), Cardinality(N))
  BY <1>5, <1>0 DEF Chains, Longer
<1>9. \A k \in 0 .. Cardinality(N) :
        Chains(N, D)[k] = IF k = 0 THEN N ELSE Longer(N, D, Chains(N, D)[k - 1])
  <2> DEFINE F == Chains(N, D)
  <2> HIDE DEF F
  <2>1. F = [i \in 0 .. Cardinality(N) |-> IF i = 0 THEN N
                                            ELSE Longer(N, D, F[i - 1])]
    BY <1>6 DEF F
  <2>2. ASSUME NEW k \in 0 .. Cardinality(N)
        PROVE  F[k] = IF k = 0 THEN N ELSE Longer(N, D, F[k - 1])
    BY ONLY <2>1
  <2> QED
    BY <2>2 DEF F
<1>8. ASSUME NEW i \in 0 .. Cardinality(N) - 1
      PROVE  Chains(N, D)[i + 1] = Longer(N, D, Chains(N, D)[i])
  <2>1. i + 1 \in 0 .. Cardinality(N) /\ i + 1 # 0 /\ i + 1 - 1 = i
    BY <1>0
  <2> QED
    BY <1>9, <2>1
<1>7. Chains(N, D)[0] = N
  BY <1>9, <1>0
<1> QED
  BY <1>7, <1>8

\* A node heads a chain of length i as long as the first i rounds of Kahn's
\* algorithm put it on no level.
LEMMA ChainsAreLeft ==
  ASSUME NEW N, NEW D, IsFiniteSet(N), \A t \in N : D[t] \subseteq N
  PROVE  \A i \in 0 .. Cardinality(N) : Chains(N, D)[i] = N \ Before(N, D, i)
<1> DEFINE S == {i \in 0 .. Cardinality(N) : Chains(N, D)[i] = N \ Before(N, D, i)}
<1>0. Cardinality(N) \in Nat
  BY FS_CardinalityType
<1>1. 0 \in S
  <2>1. Before(N, D, 0) = {}
    BY BeforeNext
  <2> QED
    BY <1>0, <2>1, ChainRounds
<1>2. ASSUME NEW i \in 0 .. Cardinality(N) - 1, i \in S PROVE i + 1 \in S
  <2>1. i \in 0 .. Cardinality(N) /\ i + 1 \in 0 .. Cardinality(N)
    BY <1>0
  <2>2. Before(N, D, i + 1) = {t \in N : D[t] \subseteq Before(N, D, i)}
    BY <2>1, KahnInvariant DEF KahnRound
  <2>3. Chains(N, D)[i + 1] = {u \in N : D[u] \cap (N \ Before(N, D, i)) # {}}
    BY <1>2, ChainRounds DEF Longer
  <2>4. \A u \in N : D[u] \cap (N \ Before(N, D, i)) # {} <=> ~(D[u] \subseteq Before(N, D, i))
    OBVIOUS
  <2>5. Chains(N, D)[i + 1] = N \ Before(N, D, i + 1)
    BY <2>2, <2>3, <2>4
  <2> QED
    BY <2>1, <2>5
<1>3. 0 .. Cardinality(N) \subseteq S
  <2> HIDE DEF S
  <2> QED
    BY <1>0, <1>1, <1>2, RangeInduction
<1> QED
  BY <1>3

\* A node of a level heads a longest chain of the level's length.
LEMMA LevelsAreChains ==
  ASSUME NEW N, NEW D, IsFiniteSet(N), \A t \in N : D[t] \subseteq N, ~Cyclic(N, D),
         NEW l \in DOMAIN TopologicalSort(N, D), NEW t \in TopologicalSort(N, D)[l]
  PROVE  LongestChain(N, D, t) = l - 1
<1> DEFINE C == Cardinality(N)
           T == TopologicalSort(N, D)
           B(i) == Before(N, D, i)
           K == Kahn(N, D)
<1>0. C \in Nat
  BY FS_CardinalityType
<1>1. PICK n \in 0 .. C : T = [i \in 1 .. n |-> K[i - 1].level]
  BY SortedLevels
<1>2. l \in 1 .. n /\ t \in K[l - 1].level
  BY <1>1
<1>3. n \in Nat /\ l \in 1 .. C /\ l - 1 \in 0 .. C /\ (l - 1) + 1 = l
  BY <1>0, <1>2
<1>4. t \in B(l) /\ t \notin B(l - 1) /\ t \in N
  <2>1. KahnRound(N, D, l - 1) /\ KahnRound(N, D, l)
    BY <1>3, KahnInvariant
  <2>2. B(l) \subseteq N
    BY DEF Before
  <2> QED
    BY <1>2, <1>3, <2>1, <2>2 DEF KahnRound
<1>5. ASSUME NEW i \in 1 .. C PROVE t \in Chains(N, D)[i] <=> i \in 1 .. l - 1
  <2>1. t \in Chains(N, D)[i] <=> t \notin B(i)
    BY <1>0, <1>4, ChainsAreLeft
  <2>2. CASE i \in 1 .. l - 1
    <3>1. B(i) \subseteq B(l - 1)
      BY <1>3, <2>2, BeforeGrows
    <3> QED
      BY <1>4, <2>1, <2>2, <3>1
  <2>3. CASE i \notin 1 .. l - 1
    <3>1. l \in 0 .. i /\ i \in Nat
      BY <1>3, <2>3
    <3>2. B(l) \subseteq B(i)
      BY <3>1, BeforeGrows
    <3> QED
      BY <1>4, <2>1, <2>3, <3>2
  <2> QED
    BY <2>2, <2>3
<1>6. {i \in 1 .. C : t \in Chains(N, D)[i]} = 1 .. l - 1
  <2>1. 1 .. l - 1 \subseteq 1 .. C
    BY <1>3, <1>0
  <2> QED
    BY <1>5, <2>1
<1>7. Cardinality(1 .. l - 1) = l - 1
  BY <1>3, FS_Interval
<1>8. LongestChain(N, D, t) = Cardinality({i \in 1 .. C : t \in Chains(N, D)[i]})
  BY DEF LongestChain, Chains
<1> QED
  BY <1>6, <1>7, <1>8

-----------------------------------------------------------------------------
(* The depth-first search.                                                 *)

\* Its states.
Colored(N) == [color: [N -> {"white", "grey", "black"}], stack: Seq(N), cyclic: BOOLEAN]

\* The nodes that are not visited yet, not left yet, and left.
Unseen(N, s) == {t \in N : s.color[t] = "white"}
Unfinished(N, s) == {t \in N : s.color[t] # "black"}
Finished(N, s) == {t \in N : s.color[t] = "black"}

\* The stack holds the grey nodes, each once, each a child of the next.
StackIsPath(N, D, s) ==
  /\ \A i, j \in 1 .. Len(s.stack) : s.stack[i] = s.stack[j] => i = j
  /\ \A t \in N : s.color[t] = "grey" <=> \E i \in 1 .. Len(s.stack) : s.stack[i] = t
  /\ \A i \in 1 .. Len(s.stack) - 1 : s.stack[i + 1] \in D[s.stack[i]]

\* Whoever depends on a node that is left is left too, and among those that
\* are left there is no circle.
FinishedIsAcyclic(N, D, s) ==
  /\ \A t \in Finished(N, s) : \A c \in N : t \in D[c] => c \in Finished(N, s)
  /\ \A S \in (SUBSET Finished(N, s)) \ {{}} : \E t \in S : D[t] \cap S = {}

\* What the search knows after i steps, and how far it has got.
DfsInv(N, D, s, i) ==
  /\ s \in Colored(N)
  /\ StackIsPath(N, D, s)
  /\ FinishedIsAcyclic(N, D, s)
  /\ s.cyclic => Cyclic(N, D)
  /\ \/ s.cyclic
     \/ Unfinished(N, s) = {}
     \/ Cardinality(Unseen(N, s)) + Cardinality(Unfinished(N, s)) = 2 * Cardinality(N) - i

\* What a step makes of a state.
Entered(s, t) == [s EXCEPT !.color[t] = "grey", !.stack = <<t>> \o @]
Left(s) == [s EXCEPT !.color[Head(s.stack)] = "black", !.stack = Tail(@)]
Caught(s) == [s EXCEPT !.cyclic = TRUE]

\* The cases of a step.
LEMMA DfsCases ==
  ASSUME NEW N, NEW D, NEW s
  PROVE  LET kids == ChildrenIn(N, D, Head(s.stack)) IN
         \/ s.stack = <<>> /\ Unseen(N, s) = {} /\ DfsStep(N, D, s) = s
         \/ s.stack = <<>> /\ \E t \in Unseen(N, s) : DfsStep(N, D, s) = Entered(s, t)
         \/ s.stack # <<>> /\ (\E c \in kids : s.color[c] = "grey") /\ DfsStep(N, D, s) = Caught(s)
         \/ s.stack # <<>> /\ \E t \in kids : s.color[t] = "white" /\ DfsStep(N, D, s) = Entered(s, t)
         \/ /\ s.stack # <<>> /\ \A c \in kids : s.color[c] \notin {"grey", "white"}
            /\ DfsStep(N, D, s) = Left(s)
<1> DEFINE kids == ChildrenIn(N, D, Head(s.stack))
           W(S) == {t \in S : s.color[t] = "white"}
<1>1. CASE s.stack = <<>>
  <2>1. CASE W(N) = {}
    BY <1>1, <2>1 DEF DfsStep, Unseen
  <2>2. CASE W(N) # {}
    <3>1. (CHOOSE t \in W(N) : TRUE) \in W(N)
      BY <2>2
    <3>2. DfsStep(N, D, s) = Entered(s, CHOOSE t \in W(N) : TRUE)
      BY <1>1, <2>2 DEF DfsStep, Entered
    <3> QED
      BY <1>1, <3>1, <3>2 DEF Unseen
  <2> QED
    BY <2>1, <2>2
<1>2. CASE s.stack # <<>>
  <2>1. CASE \E c \in kids : s.color[c] = "grey"
    <3>1. DfsStep(N, D, s) = Caught(s)
      BY <1>2, <2>1 DEF DfsStep, Caught
    <3> QED
      BY <1>2, <2>1, <3>1
  <2>2. CASE ~(\E c \in kids : s.color[c] = "grey") /\ W(kids) # {}
    <3>1. (CHOOSE t \in W(kids) : TRUE) \in W(kids)
      BY <2>2
    <3>2. DfsStep(N, D, s) = Entered(s, CHOOSE t \in W(kids) : TRUE)
      BY <1>2, <2>2 DEF DfsStep, Entered
    <3> QED
      BY <1>2, <3>1, <3>2
  <2>3. CASE ~(\E c \in kids : s.color[c] = "grey") /\ W(kids) = {}
    <3>1. DfsStep(N, D, s) = Left(s)
      BY <1>2, <2>3 DEF DfsStep, Left
    <3> QED
      BY <1>2, <2>3, <3>1
  <2> QED
    BY <2>1, <2>2, <2>3
<1> QED
  BY <1>1, <1>2

\* Entering a node...
LEMMA EnteredFields ==
  ASSUME NEW N, NEW s \in Colored(N), NEW t \in N
  PROVE  /\ Entered(s, t) \in Colored(N)
         /\ Entered(s, t).cyclic = s.cyclic
         /\ Entered(s, t).stack = <<t>> \o s.stack
         /\ Entered(s, t).color = [s.color EXCEPT ![t] = "grey"]
<1> DEFINE c == [s.color EXCEPT ![t] = "grey"]
           k == <<t>> \o s.stack
<1>1. c \in [N -> {"white", "grey", "black"}] /\ k \in Seq(N)
  BY DEF Colored
<1>2. Entered(s, t) = [s EXCEPT !.color = c, !.stack = k]
  BY DEF Entered
<1> HIDE DEF c, k
<1>3. /\ Entered(s, t) \in Colored(N) /\ Entered(s, t).cyclic = s.cyclic
      /\ Entered(s, t).stack = k /\ Entered(s, t).color = c
  BY <1>1, <1>2 DEF Colored
<1> QED
  BY <1>3 DEF c, k

\* ...and leaving the one on top of the stack.
LEMMA LeftFields ==
  ASSUME NEW N, NEW s \in Colored(N), s.stack # <<>>
  PROVE  /\ Head(s.stack) = s.stack[1] /\ s.stack[1] \in N
         /\ Left(s) \in Colored(N)
         /\ Left(s).cyclic = s.cyclic
         /\ Left(s).stack = Tail(s.stack)
         /\ Left(s).color = [s.color EXCEPT ![s.stack[1]] = "black"]
<1> DEFINE c == [s.color EXCEPT ![s.stack[1]] = "black"]
           k == Tail(s.stack)
<1>1. s.stack \in Seq(N) /\ s.color \in [N -> {"white", "grey", "black"}]
  BY DEF Colored
<1>2. Head(s.stack) = s.stack[1] /\ s.stack[1] \in N
  BY <1>1
<1>3. c \in [N -> {"white", "grey", "black"}] /\ k \in Seq(N)
  BY <1>1
<1>4. Left(s) = [s EXCEPT !.color = c, !.stack = k]
  BY <1>2 DEF Left
<1> HIDE DEF c, k
<1>5. /\ Left(s) \in Colored(N) /\ Left(s).cyclic = s.cyclic
      /\ Left(s).stack = k /\ Left(s).color = c
  BY <1>3, <1>4 DEF Colored
<1> QED
  BY <1>2, <1>5 DEF c, k

\* A white node that goes on the stack as a child of its top, or alone.
LEMMA EnteredKeeps ==
  ASSUME NEW N, NEW D, IsFiniteSet(N), NEW i \in Nat, NEW s, DfsInv(N, D, s, i),
         NEW t \in N, s.color[t] = "white",
         s.stack = <<>> \/ s.stack[1] \in D[t]
  PROVE  DfsInv(N, D, Entered(s, t), i + 1)
<1> DEFINE u == Entered(s, t)
           k == <<t>> \o s.stack
           n == Len(s.stack)
<1>1. /\ u \in Colored(N) /\ u.cyclic = s.cyclic /\ u.stack = k
      /\ u.color = [s.color EXCEPT ![t] = "grey"]
  BY EnteredFields DEF DfsInv
<1>2. s \in Colored(N) /\ s.stack \in Seq(N) /\ s.color \in [N -> {"white", "grey", "black"}] /\ n \in Nat
  BY DEF DfsInv, Colored
<1>3. Len(k) = n + 1 /\ k[1] = t /\ \A j \in 2 .. n + 1 : k[j] = s.stack[j - 1]
  BY <1>2
<1>4. \A x \in N : u.color[x] = IF x = t THEN "grey" ELSE s.color[x]
  BY <1>1, <1>2
<1> HIDE DEF u, k
<1>5. StackIsPath(N, D, s) /\ FinishedIsAcyclic(N, D, s)
  BY DEF DfsInv
<1>6. \A j \in 1 .. n : s.stack[j] # t /\ s.stack[j] \in N
  BY <1>2, <1>5 DEF StackIsPath
<1>7. StackIsPath(N, D, u)
  <2>1. ASSUME NEW a \in 1 .. n + 1, NEW b \in 1 .. n + 1, k[a] = k[b] PROVE a = b
    <3>1. CASE a = 1 \/ b = 1
      <4>1. a # 1 => a - 1 \in 1 .. n /\ k[a] = s.stack[a - 1]
        BY <1>2, <1>3
      <4>2. b # 1 => b - 1 \in 1 .. n /\ k[b] = s.stack[b - 1]
        BY <1>2, <1>3
      <4> QED
        BY <1>3, <1>6, <2>1, <3>1, <4>1, <4>2
    <3>2. CASE a # 1 /\ b # 1
      <4>1. a - 1 \in 1 .. n /\ k[a] = s.stack[a - 1] /\ b - 1 \in 1 .. n /\ k[b] = s.stack[b - 1]
        BY <1>2, <1>3, <3>2
      <4>3. \A p, q \in 1 .. n : s.stack[p] = s.stack[q] => p = q
        BY <1>5 DEF StackIsPath
      <4>2. a - 1 = b - 1
        BY <2>1, <4>1, <4>3
      <4> QED
        BY <4>2, <1>2
    <3> QED
      BY <3>1, <3>2
  <2>2. ASSUME NEW x \in N PROVE u.color[x] = "grey" <=> \E j \in 1 .. n + 1 : k[j] = x
    <3>1. (\E j \in 1 .. n + 1 : k[j] = x) <=> x = t \/ \E j \in 1 .. n : s.stack[j] = x
      <4>1. ASSUME NEW j \in 1 .. n + 1, k[j] = x PROVE x = t \/ \E h \in 1 .. n : s.stack[h] = x
        <5>1. CASE j = 1
          BY <1>3, <4>1, <5>1
        <5>2. CASE j # 1
          <6>1. j \in 2 .. n + 1 /\ j - 1 \in 1 .. n
            BY <1>2, <5>2
          <6> QED
            BY <1>3, <4>1, <6>1
        <5> QED
          BY <5>1, <5>2
      <4>2. ASSUME NEW j \in 1 .. n, s.stack[j] = x PROVE \E h \in 1 .. n + 1 : k[h] = x
        <5>1. j + 1 \in 2 .. n + 1 /\ j + 1 \in 1 .. n + 1 /\ (j + 1) - 1 = j
          BY <1>2
        <5> QED
          BY <1>3, <4>2, <5>1
      <4>3. 1 \in 1 .. n + 1
        BY <1>2
      <4> QED
        BY <1>3, <4>1, <4>2, <4>3
    <3>2. s.color[x] = "grey" <=> \E j \in 1 .. n : s.stack[j] = x
      BY <1>5 DEF StackIsPath
    <3> QED
      BY <1>4, <3>1, <3>2
  <2>3. ASSUME NEW j \in 1 .. (n + 1) - 1 PROVE k[j + 1] \in D[k[j]]
    <3>1. j + 1 \in 2 .. n + 1 /\ (j + 1) - 1 = j /\ j \in 1 .. n
      BY <1>2
    <3>2. k[j + 1] = s.stack[j]
      BY <1>3, <3>1
    <3>3. CASE j = 1
      <4>1. s.stack # <<>>
        BY <3>1
      <4> QED
        BY <1>3, <3>2, <3>3, <4>1
    <3>4. CASE j # 1
      <4>1. j \in 2 .. n + 1 /\ j - 1 \in 1 .. n - 1 /\ (j - 1) + 1 = j
        BY <1>2, <3>1, <3>4
      <4>2. k[j] = s.stack[j - 1]
        BY <1>3, <4>1
      <4>3. s.stack[(j - 1) + 1] \in D[s.stack[j - 1]]
        BY <1>5, <4>1 DEF StackIsPath
      <4> QED
        BY <3>2, <4>1, <4>2, <4>3
    <3> QED
      BY <3>3, <3>4
  <2>4. u.stack = k /\ Len(u.stack) = n + 1
    BY <1>1, <1>3
  <2> HIDE DEF n
  <2> QED
    BY <2>1, <2>2, <2>3, <2>4 DEF StackIsPath
<1>8. Finished(N, u) = Finished(N, s)
  BY <1>4 DEF Finished
<1>9. FinishedIsAcyclic(N, D, u)
  BY <1>5, <1>8 DEF FinishedIsAcyclic
<1>10. Unfinished(N, u) = Unfinished(N, s)
  BY <1>4 DEF Unfinished
<1>11. Unseen(N, u) = Unseen(N, s) \ {t} /\ t \in Unseen(N, s)
  BY <1>4 DEF Unseen
<1>12. /\ Cardinality(Unseen(N, u)) = Cardinality(Unseen(N, s)) - 1
       /\ Cardinality(Unseen(N, s)) \in Nat /\ Cardinality(Unfinished(N, s)) \in Nat
       /\ Cardinality(N) \in Nat
  <2>1. IsFiniteSet(Unseen(N, s)) /\ IsFiniteSet(Unfinished(N, s))
    BY FS_Subset DEF Unseen, Unfinished
  <2> QED
    BY <1>11, <2>1, FS_RemoveElement, FS_CardinalityType
<1>13. \/ u.cyclic \/ Unfinished(N, u) = {}
       \/ Cardinality(Unseen(N, u)) + Cardinality(Unfinished(N, u)) = 2 * Cardinality(N) - (i + 1)
  BY <1>1, <1>10, <1>12 DEF DfsInv
<1> QED
  BY <1>1, <1>7, <1>9, <1>13 DEF DfsInv, u

\* The node on top of the stack, left when all that depend on it are left.
LEMMA LeftKeeps ==
  ASSUME NEW N, NEW D, IsFiniteSet(N), NEW i \in Nat, NEW s, DfsInv(N, D, s, i),
         s.stack # <<>>,
         \A c \in ChildrenIn(N, D, Head(s.stack)) : s.color[c] \notin {"grey", "white"}
  PROVE  DfsInv(N, D, Left(s), i + 1)
<1> DEFINE u == Left(s)
           k == Tail(s.stack)
           v == s.stack[1]
           n == Len(s.stack)
<1>0. s \in Colored(N)
  BY DEF DfsInv
<1>1. /\ u \in Colored(N) /\ u.cyclic = s.cyclic /\ u.stack = k
      /\ u.color = [s.color EXCEPT ![v] = "black"]
      /\ Head(s.stack) = v /\ v \in N
  BY <1>0, LeftFields
<1>2. s.stack \in Seq(N) /\ s.color \in [N -> {"white", "grey", "black"}] /\ n \in Nat \ {0}
  BY <1>0 DEF Colored
<1>3. Len(k) = n - 1 /\ \A j \in 1 .. n - 1 : k[j] = s.stack[j + 1]
  BY <1>2
<1>4. \A x \in N : u.color[x] = IF x = v THEN "black" ELSE s.color[x]
  BY <1>1, <1>2
<1>5. StackIsPath(N, D, s) /\ FinishedIsAcyclic(N, D, s)
  BY DEF DfsInv
<1>6. \A c \in N : v \in D[c] => s.color[c] = "black"
  BY <1>1, <1>2 DEF ChildrenIn
<1>7. 1 \in 1 .. n /\ s.color[v] = "grey"
  BY <1>1, <1>2, <1>5 DEF StackIsPath
<1> HIDE DEF u, k, v
<1>8. StackIsPath(N, D, u)
  <2>1. ASSUME NEW a \in 1 .. n - 1, NEW b \in 1 .. n - 1, k[a] = k[b] PROVE a = b
    <3>1. a + 1 \in 1 .. n /\ b + 1 \in 1 .. n /\ k[a] = s.stack[a + 1] /\ k[b] = s.stack[b + 1]
      BY <1>2, <1>3
    <3>2. a + 1 = b + 1
      BY <1>5, <2>1, <3>1 DEF StackIsPath
    <3> QED
      BY <3>2, <1>2
  <2>2. ASSUME NEW x \in N PROVE u.color[x] = "grey" <=> \E j \in 1 .. n - 1 : k[j] = x
    <3>1. (\E j \in 1 .. n - 1 : k[j] = x) <=> x # v /\ \E j \in 1 .. n : s.stack[j] = x
      <4>1. ASSUME NEW j \in 1 .. n - 1, k[j] = x PROVE x # v /\ \E h \in 1 .. n : s.stack[h] = x
        <5>1. j + 1 \in 1 .. n /\ j + 1 # 1 /\ s.stack[j + 1] = x
          BY <1>2, <1>3, <4>1
        <5>2. x # v
          BY <1>5, <1>7, <5>1 DEF StackIsPath, v
        <5> QED
          BY <5>1, <5>2
      <4>2. ASSUME NEW j \in 1 .. n, s.stack[j] = x, x # v PROVE \E h \in 1 .. n - 1 : k[h] = x
        <5>1. j # 1
          BY <4>2 DEF v
        <5>2. j - 1 \in 1 .. n - 1 /\ (j - 1) + 1 = j
          BY <1>2, <5>1
        <5> QED
          BY <1>3, <4>2, <5>2
      <4> QED
        BY <4>1, <4>2
    <3>2. s.color[x] = "grey" <=> \E j \in 1 .. n : s.stack[j] = x
      BY <1>5 DEF StackIsPath
    <3> QED
      BY <1>4, <3>1, <3>2
  <2>3. ASSUME NEW j \in 1 .. (n - 1) - 1 PROVE k[j + 1] \in D[k[j]]
    <3>1. j \in 1 .. n - 1 /\ j + 1 \in 1 .. n - 1
      BY <1>2
    <3>2. s.stack[(j + 1) + 1] \in D[s.stack[j + 1]]
      BY <1>5, <3>1 DEF StackIsPath
    <3> QED
      BY <1>3, <3>1, <3>2
  <2>4. u.stack = k /\ Len(u.stack) = n - 1
    BY <1>1, <1>3
  <2> HIDE DEF n
  <2> QED
    BY <2>1, <2>2, <2>3, <2>4 DEF StackIsPath
<1>9. Finished(N, u) = Finished(N, s) \cup {v}
  BY <1>1, <1>4 DEF Finished
<1>10. D[v] \cap (Finished(N, s) \cup {v}) = {}
  <2>1. v \notin D[v]
    BY <1>1, <1>6, <1>7
  <2>2. ASSUME NEW b \in Finished(N, s), b \in D[v] PROVE FALSE
    <3>1. v \in Finished(N, s)
      BY <1>1, <1>5, <2>2 DEF FinishedIsAcyclic
    <3> QED
      BY <1>7, <3>1 DEF Finished
  <2> QED
    BY <2>1, <2>2
<1>11. FinishedIsAcyclic(N, D, u)
  <2>1. ASSUME NEW t \in Finished(N, u), NEW c \in N, t \in D[c] PROVE c \in Finished(N, u)
    <3>1. CASE t = v
      BY <1>6, <1>9, <2>1, <3>1 DEF Finished
    <3>2. CASE t # v
      BY <1>5, <1>9, <2>1, <3>2 DEF FinishedIsAcyclic
    <3> QED
      BY <3>1, <3>2
  <2>2. ASSUME NEW S \in (SUBSET Finished(N, u)) \ {{}} PROVE \E t \in S : D[t] \cap S = {}
    <3>1. CASE v \in S
      BY <1>9, <1>10, <3>1
    <3>2. CASE v \notin S
      <4>1. S \in (SUBSET Finished(N, s)) \ {{}}
        BY <1>9, <3>2
      <4> QED
        BY <1>5, <4>1 DEF FinishedIsAcyclic
    <3> QED
      BY <3>1, <3>2
  <2> QED
    BY <2>1, <2>2 DEF FinishedIsAcyclic
<1>12. Unseen(N, u) = Unseen(N, s)
  BY <1>4, <1>7 DEF Unseen
<1>13. Unfinished(N, u) = Unfinished(N, s) \ {v} /\ v \in Unfinished(N, s)
  BY <1>1, <1>4, <1>7 DEF Unfinished
<1>14. /\ Cardinality(Unfinished(N, u)) = Cardinality(Unfinished(N, s)) - 1
       /\ Cardinality(Unseen(N, s)) \in Nat /\ Cardinality(Unfinished(N, s)) \in Nat
       /\ Cardinality(N) \in Nat
  <2>1. IsFiniteSet(Unseen(N, s)) /\ IsFiniteSet(Unfinished(N, s))
    BY FS_Subset DEF Unseen, Unfinished
  <2> QED
    BY <1>13, <2>1, FS_RemoveElement, FS_CardinalityType
<1>15. \/ u.cyclic
       \/ Cardinality(Unseen(N, u)) + Cardinality(Unfinished(N, u)) = 2 * Cardinality(N) - (i + 1)
  <2>1. s.cyclic \/ Cardinality(Unseen(N, s)) + Cardinality(Unfinished(N, s)) = 2 * Cardinality(N) - i
    BY <1>13 DEF DfsInv
  <2> QED
    BY <1>1, <1>12, <1>14, <2>1
<1> QED
  BY <1>1, <1>8, <1>11, <1>15 DEF DfsInv, u

\* A grey child of the node on top of the stack closes a circle.
LEMMA CaughtKeeps ==
  ASSUME NEW N, NEW D, NEW i \in Nat, NEW s, DfsInv(N, D, s, i), s.stack # <<>>,
         NEW c \in ChildrenIn(N, D, Head(s.stack)), s.color[c] = "grey"
  PROVE  DfsInv(N, D, Caught(s), i + 1)
<1> DEFINE n == Len(s.stack)
<1>1. s \in Colored(N) /\ s.stack \in Seq(N) /\ n \in Nat \ {0}
  BY DEF DfsInv, Colored
<1>2. StackIsPath(N, D, s)
  BY DEF DfsInv
<1>3. c \in N /\ s.stack[1] \in D[c]
  BY <1>1 DEF ChildrenIn
<1>4. PICK k \in 1 .. n : s.stack[k] = c
  BY <1>2, <1>3 DEF StackIsPath
<1> DEFINE S == {s.stack[j] : j \in 1 .. k}
<1>5. S \in (SUBSET N) \ {{}}
  <2>1. 1 \in 1 .. k /\ \A j \in 1 .. k : s.stack[j] \in N
    BY <1>1
  <2> QED
    BY <2>1
<1>6. ASSUME NEW j \in 1 .. k PROVE D[s.stack[j]] \cap S # {}
  <2>1. CASE j = k
    <3>1. 1 \in 1 .. k
      BY <1>1
    <3> QED
      BY <1>3, <1>4, <2>1, <3>1
  <2>2. CASE j # k
    <3>1. j + 1 \in 1 .. k /\ j \in 1 .. n - 1
      BY <1>1, <2>2
    <3>2. s.stack[j + 1] \in D[s.stack[j]]
      BY <1>2, <3>1 DEF StackIsPath
    <3> QED
      BY <3>1, <3>2
  <2> QED
    BY <2>1, <2>2
<1>7. Cyclic(N, D)
  <2>1. \A t \in S : D[t] \cap S # {}
    BY <1>6
  <2> HIDE DEF S
  <2> QED
    BY <1>5, <2>1 DEF Cyclic
<1>8. /\ Caught(s) \in Colored(N) /\ Caught(s).cyclic = TRUE
      /\ Caught(s).stack = s.stack /\ Caught(s).color = s.color
  BY <1>1 DEF Colored, Caught
<1>9. StackIsPath(N, D, Caught(s)) /\ FinishedIsAcyclic(N, D, Caught(s))
  BY <1>8 DEF DfsInv, StackIsPath, FinishedIsAcyclic, Finished
<1> QED
  BY <1>7, <1>8, <1>9 DEF DfsInv

\* Every step keeps what the search knows.
LEMMA DfsKeeps ==
  ASSUME NEW N, NEW D, IsFiniteSet(N), NEW i \in Nat, NEW s, DfsInv(N, D, s, i)
  PROVE  DfsInv(N, D, DfsStep(N, D, s), i + 1)
<1> DEFINE kids == ChildrenIn(N, D, Head(s.stack))
<1>0. s \in Colored(N) /\ s.stack \in Seq(N)
  BY DEF DfsInv, Colored
<1>1. s.stack # <<>> => Head(s.stack) = s.stack[1]
  BY <1>0
<1>2. CASE s.stack = <<>> /\ Unseen(N, s) = {} /\ DfsStep(N, D, s) = s
  <2>1. \A t \in N : s.color[t] # "grey"
    BY <1>2 DEF DfsInv, StackIsPath
  <2>2. Unfinished(N, s) = {}
    BY <1>0, <1>2, <2>1 DEF Unfinished, Unseen, Colored
  <2> QED
    BY <1>2, <2>2 DEF DfsInv
<1>3. ASSUME s.stack = <<>>, NEW t \in Unseen(N, s), DfsStep(N, D, s) = Entered(s, t)
      PROVE  DfsInv(N, D, DfsStep(N, D, s), i + 1)
  BY <1>3, EnteredKeeps DEF Unseen
<1>4. CASE s.stack # <<>> /\ (\E c \in kids : s.color[c] = "grey") /\ DfsStep(N, D, s) = Caught(s)
  BY <1>4, CaughtKeeps
<1>5. ASSUME s.stack # <<>>, NEW t \in kids, s.color[t] = "white", DfsStep(N, D, s) = Entered(s, t)
      PROVE  DfsInv(N, D, DfsStep(N, D, s), i + 1)
  <2>1. t \in N /\ s.stack[1] \in D[t]
    BY <1>1, <1>5 DEF ChildrenIn
  <2> QED
    BY <1>5, <2>1, EnteredKeeps
<1>6. CASE /\ s.stack # <<>> /\ \A c \in kids : s.color[c] \notin {"grey", "white"}
           /\ DfsStep(N, D, s) = Left(s)
  BY <1>6, LeftKeeps
<1> HIDE DEF kids
<1>7. \/ s.stack = <<>> /\ Unseen(N, s) = {} /\ DfsStep(N, D, s) = s
      \/ s.stack = <<>> /\ \E t \in Unseen(N, s) : DfsStep(N, D, s) = Entered(s, t)
      \/ s.stack # <<>> /\ (\E c \in kids : s.color[c] = "grey") /\ DfsStep(N, D, s) = Caught(s)
      \/ s.stack # <<>> /\ \E t \in kids : s.color[t] = "white" /\ DfsStep(N, D, s) = Entered(s, t)
      \/ /\ s.stack # <<>> /\ \A c \in kids : s.color[c] \notin {"grey", "white"}
         /\ DfsStep(N, D, s) = Left(s)
  BY DfsCases DEF kids
<1> QED
  BY <1>2, <1>3, <1>4, <1>5, <1>6, <1>7

\* The states of the search.
DfsFirst(N) == [color |-> [t \in N |-> "white"], stack |-> <<>>, cyclic |-> FALSE]
Dfs(N, D) ==
  LET dfs[i \in 0 .. 2 * Cardinality(N)] == IF i = 0 THEN DfsFirst(N) ELSE DfsStep(N, D, dfs[i - 1])
  IN  dfs

\* They are one step after the other.
LEMMA DfsRounds ==
  ASSUME NEW N, NEW D, IsFiniteSet(N)
  PROVE  /\ Dfs(N, D)[0] = DfsFirst(N)
         /\ \A i \in 0 .. 2 * Cardinality(N) - 1 : Dfs(N, D)[i + 1] = DfsStep(N, D, Dfs(N, D)[i])
<1> DEFINE C == 2 * Cardinality(N)
           Eq(g, n) == g = [i \in 0 .. n |-> IF i = 0 THEN DfsFirst(N) ELSE DfsStep(N, D, g[i - 1])]
           S == {n \in Nat : \E g : Eq(g, n)}
<1>0. C \in Nat
  BY FS_CardinalityType
<1>1. S \in SUBSET Nat
  OBVIOUS
<1>2. 0 \in S
  <2>1. Eq([i \in 0 .. 0 |-> DfsFirst(N)], 0)
    OBVIOUS
  <2> QED
    BY <2>1
<1>3. ASSUME NEW n \in S PROVE n + 1 \in S
  <2>1. PICK g : Eq(g, n)
    OBVIOUS
  <2> DEFINE h == [i \in 0 .. n + 1 |-> IF i = n + 1 THEN DfsStep(N, D, g[n]) ELSE g[i]]
  <2>2. Eq(h, n + 1)
    BY <2>1
  <2>3. \E k : Eq(k, n + 1)
    <3> HIDE DEF h, Eq
    <3> QED
      BY <2>2
  <2> QED
    BY <2>3
<1>4. S = Nat
  <2> HIDE DEF S
  <2> QED
    BY <1>1, <1>2, <1>3, SetInduction
<1>5. \E g : Eq(g, C)
  <2> HIDE DEF C
  <2> QED
    BY <1>4, <1>0
<1>6. Eq(Dfs(N, D), C)
  BY <1>5, <1>0 DEF Dfs
<1> HIDE DEF C
<1>7. \A k \in 0 .. C :
        Dfs(N, D)[k] = IF k = 0 THEN DfsFirst(N) ELSE DfsStep(N, D, Dfs(N, D)[k - 1])
  <2> DEFINE F == Dfs(N, D)
  <2> HIDE DEF F
  <2>1. F = [i \in 0 .. C |-> IF i = 0 THEN DfsFirst(N) ELSE DfsStep(N, D, F[i - 1])]
    BY <1>6 DEF F
  <2>2. ASSUME NEW k \in 0 .. C
        PROVE  F[k] = IF k = 0 THEN DfsFirst(N) ELSE DfsStep(N, D, F[k - 1])
    BY ONLY <2>1
  <2> QED
    BY <2>2 DEF F
<1>8. ASSUME NEW i \in 0 .. C - 1
      PROVE  Dfs(N, D)[i + 1] = DfsStep(N, D, Dfs(N, D)[i])
  <2>1. i + 1 \in 0 .. C /\ i + 1 # 0 /\ i + 1 - 1 = i
    BY <1>0
  <2> QED
    BY <1>7, <2>1
<1>9. Dfs(N, D)[0] = DfsFirst(N)
  BY <1>7, <1>0
<1> QED
  BY <1>8, <1>9 DEF C

\* Visiting and leaving every node once is enough: the search finds a circle
\* exactly if there is one.
THEOREM CycleSearchIsRight ==
  ASSUME NEW N, NEW D, IsFiniteSet(N)
  PROVE  detectCycleDFS(N, D) = Cyclic(N, D)
<1> DEFINE C == 2 * Cardinality(N)
           S == {i \in 0 .. C : DfsInv(N, D, Dfs(N, D)[i], i)}
<1>0. Cardinality(N) \in Nat /\ C \in Nat
  BY FS_CardinalityType
<1>1. DfsInv(N, D, DfsFirst(N), 0)
  <2>1. /\ DfsFirst(N) \in Colored(N) /\ DfsFirst(N).cyclic = FALSE
        /\ DfsFirst(N).stack = <<>> /\ \A t \in N : DfsFirst(N).color[t] = "white"
    BY DEF DfsFirst, Colored
  <2>2. Unseen(N, DfsFirst(N)) = N /\ Unfinished(N, DfsFirst(N)) = N /\ Finished(N, DfsFirst(N)) = {}
    BY <2>1 DEF Unseen, Unfinished, Finished
  <2>3. StackIsPath(N, D, DfsFirst(N))
    BY <2>1 DEF StackIsPath
  <2>4. FinishedIsAcyclic(N, D, DfsFirst(N))
    BY <2>2 DEF FinishedIsAcyclic
  <2>5. Cardinality(N) + Cardinality(N) = 2 * Cardinality(N) - 0
    BY <1>0
  <2> QED
    BY <2>1, <2>2, <2>3, <2>4, <2>5 DEF DfsInv
<1>2. 0 \in S
  BY <1>0, <1>1, DfsRounds
<1>3. ASSUME NEW i \in 0 .. C - 1, i \in S PROVE i + 1 \in S
  <2>1. i + 1 \in 0 .. C /\ i \in Nat
    BY <1>0
  <2>2. DfsInv(N, D, DfsStep(N, D, Dfs(N, D)[i]), i + 1)
    BY <1>3, <2>1, DfsKeeps
  <2>3. Dfs(N, D)[i + 1] = DfsStep(N, D, Dfs(N, D)[i])
    BY DfsRounds
  <2> QED
    BY <2>1, <2>2, <2>3
<1>4. C \in S
  <2>1. 0 .. C \subseteq S
    <3> HIDE DEF S, C
    <3> QED
      BY <1>0, <1>2, <1>3, RangeInduction
  <2> HIDE DEF S
  <2> QED
    BY <1>0, <2>1
<1> DEFINE s == Dfs(N, D)[C]
<1>5. DfsInv(N, D, s, C)
  BY <1>4
<1> HIDE DEF s
<1>6. detectCycleDFS(N, D) = s.cyclic
  BY DEF detectCycleDFS, Dfs, DfsFirst, s
<1>7. s.cyclic \in BOOLEAN /\ (s.cyclic => Cyclic(N, D))
  BY <1>5 DEF DfsInv, Colored
<1>8. ASSUME ~s.cyclic PROVE ~Cyclic(N, D)
  <2>1. Unfinished(N, s) = {}
    <3>1. \/ Unfinished(N, s) = {}
          \/ Cardinality(Unseen(N, s)) + Cardinality(Unfinished(N, s)) = 2 * Cardinality(N) - C
      BY <1>5, <1>8 DEF DfsInv
    <3>2. /\ IsFiniteSet(Unfinished(N, s))
          /\ Cardinality(Unseen(N, s)) \in Nat /\ Cardinality(Unfinished(N, s)) \in Nat
      <4>1. IsFiniteSet(Unseen(N, s)) /\ IsFiniteSet(Unfinished(N, s))
        BY FS_Subset DEF Unseen, Unfinished
      <4> QED
        BY <4>1, FS_CardinalityType
    <3>3. Unfinished(N, s) # {} => Cardinality(Unfinished(N, s)) = 0
      BY <1>0, <3>1, <3>2
    <3> QED
      BY <3>2, <3>3, FS_EmptySet
  <2>2. Finished(N, s) = N
    BY <2>1 DEF Unfinished, Finished
  <2> QED
    BY <1>5, <2>2 DEF DfsInv, FinishedIsAcyclic, Cyclic
<1> QED
  BY <1>6, <1>7, <1>8 DEF Cyclic

=============================================================================
