---------------------------- MODULE Metrics_proofs ----------------------------
(***************************************************************************)
(* For any team, links, skills, draws and iterations: the engine's samples   *)
(* are all those of its snapshot, a silo needs a triangle, a shared skill    *)
(* within reach lowers no rating, and only a collaborator's leaving is a loss. *)
(***************************************************************************)
EXTENDS Simulation, FiniteSetTheorems, WellFoundedInduction, TLAPS

------------------------------------------------------------------------------
(* Induction: what is inductive is a set, so that no theorem that takes an *)
(* operator is needed.                                                   *)

LEMMA Least ==
  ASSUME NEW T \in SUBSET Nat, T # {}
  PROVE  \E n \in T : \A m \in T : n <= m
<1>1. IsWellFoundedOn(OpToRel(<, Nat), Nat)
  BY NatLessThanWellFounded, Zenon
<1>2. PICK x \in T : \A y \in T : ~ (<<y, x>> \in OpToRel(<, Nat))
  BY <1>1, WFMin, Zenon
<1>3. \A y \in T : ~(y < x)
  BY <1>2, Zenon DEF OpToRel
<1>. QED BY <1>3

LEMMA EveryNatural ==
  ASSUME NEW T \in SUBSET Nat, 0 \in T, \A n \in T : n + 1 \in T
  PROVE  T = Nat
<1> SUFFICES ASSUME Nat \ T # {} PROVE FALSE
  OBVIOUS
<1>1. PICK n \in Nat \ T : \A m \in Nat \ T : n <= m
  BY Least
<1>2. n - 1 \in Nat /\ ~(n <= n - 1)
  BY <1>1
<1>3. n - 1 \in T
  BY <1>1, <1>2
<1>4. (n - 1) + 1 = n
  BY <1>1
<1>. QED BY <1>1, <1>3, <1>4

\* What holds of a finite set's subsets when it holds of those with one less.
LEMMA EverySubset ==
  ASSUME NEW S, IsFiniteSet(S), NEW T \in SUBSET SUBSET S,
         \A s \in SUBSET S : (\A x \in s : s \ {x} \in T) => s \in T
  PROVE  T = SUBSET S
<1> SUFFICES ASSUME (SUBSET S) \ T # {} PROVE FALSE
  OBVIOUS
<1> DEFINE Bad == {Cardinality(s) : s \in (SUBSET S) \ T}
<1>1. \A s \in SUBSET S : IsFiniteSet(s) /\ Cardinality(s) \in Nat
  BY FS_Subset, FS_CardinalityType
<1>2. Bad \in SUBSET Nat /\ Bad # {}
  BY <1>1
<1> HIDE DEF Bad
<1>3. PICK n \in Bad : \A m \in Bad : n <= m
  BY <1>2, Least
<1>4. PICK s \in (SUBSET S) \ T : n = Cardinality(s)
  BY <1>3 DEF Bad
<1>5. ASSUME NEW x \in s PROVE s \ {x} \in T
  <2>1. Cardinality(s \ {x}) = n - 1
    BY <1>1, <1>4, FS_RemoveElement
  <2>2. ~(n <= n - 1)
    BY <1>2, <1>3
  <2>3. Cardinality(s \ {x}) \notin Bad
    BY <1>3, <2>1, <2>2
  <2>. QED BY <1>4, <2>3 DEF Bad
<1>. QED BY <1>4, <1>5

------------------------------------------------------------------------------
(* Sums *)

\* As many pairs as the values of the members of s add up to.
Heap(c, s) == {p \in s \X Nat : 1 <= p[2] /\ p[2] <= c[p[1]]}
Total(c, s) == Cardinality(Heap(c, s))

LEMMA HeapOfOneLess ==
  ASSUME NEW S, NEW c \in [S -> Nat], NEW s \in SUBSET S, NEW x \in s, IsFiniteSet(Heap(c, s \ {x}))
  PROVE  IsFiniteSet(Heap(c, s)) /\ Total(c, s) = c[x] + Total(c, s \ {x})
<1> DEFINE column == {x} \X (1..c[x])
<1>1. Heap(c, s) = Heap(c, s \ {x}) \cup column
  <2>1. \A p : p \in Heap(c, s) <=> p \in Heap(c, s \ {x}) \/ p \in column
    BY DEF Heap
  <2>. QED BY <2>1
<1>2. Heap(c, s \ {x}) \cap column = {}
  BY DEF Heap
<1>3. c[x] \in Nat
  OBVIOUS
<1>4. IsFiniteSet(1..c[x]) /\ Cardinality(1..c[x]) = c[x]
  <2>1. IsFiniteSet(1..c[x]) /\ Cardinality(1..c[x]) = IF 1 > c[x] THEN 0 ELSE c[x] - 1 + 1
    BY <1>3, FS_Interval
  <2>. QED BY <1>3, <2>1
<1>5. IsFiniteSet({x}) /\ Cardinality({x}) = 1
  BY FS_Singleton
<1>6. IsFiniteSet(column) /\ Cardinality(column) = Cardinality({x}) * Cardinality(1..c[x])
  BY <1>4, <1>5, FS_Product
<1>7. Cardinality(column) = c[x]
  BY <1>3, <1>4, <1>5, <1>6
<1> HIDE DEF column
<1>8. Cardinality(Heap(c, s \ {x})) \in Nat
  BY FS_CardinalityType
<1>9. IsFiniteSet(Heap(c, s \ {x}) \cup column)
      /\ Cardinality(Heap(c, s \ {x}) \cup column) =
           Cardinality(Heap(c, s \ {x})) + Cardinality(column) - Cardinality(Heap(c, s \ {x}) \cap column)
  BY <1>6, FS_Union
<1>10. Cardinality({}) = 0
  BY FS_EmptySet
<1>11. Cardinality(Heap(c, s)) = Cardinality(Heap(c, s \ {x})) + c[x] - 0
  BY <1>1, <1>2, <1>7, <1>9, <1>10
<1>. QED BY <1>1, <1>3, <1>8, <1>9, <1>11 DEF Total

LEMMA TotalUnfolds ==
  ASSUME NEW S, IsFiniteSet(S), NEW c \in [S -> Nat]
  PROVE  \A s \in SUBSET S :
           /\ IsFiniteSet(Heap(c, s)) /\ Total(c, s) \in Nat
           /\ s = {} => Total(c, s) = 0
           /\ \A x \in s : Total(c, s) = c[x] + Total(c, s \ {x})
<1> DEFINE T == {s \in SUBSET S : IsFiniteSet(Heap(c, s))}
<1>1. ASSUME NEW s \in SUBSET S, \A x \in s : s \ {x} \in T PROVE s \in T
  <2>1. CASE s = {}
    <3>1. Heap(c, s) = {}
      BY <2>1 DEF Heap
    <3>. QED BY <3>1, FS_EmptySet
  <2>2. CASE s # {}
    <3>1. PICK x \in s : TRUE
      BY <2>2
    <3>. QED BY <1>1, <3>1, HeapOfOneLess
  <2>. QED BY <2>1, <2>2
<1>2. T \in SUBSET SUBSET S
  OBVIOUS
<1> HIDE DEF T
<1>3. T = SUBSET S
  BY <1>1, <1>2, EverySubset
<1>4. \A s \in SUBSET S : IsFiniteSet(Heap(c, s))
  BY <1>3 DEF T
<1>5. Heap(c, {}) = {}
  BY DEF Heap
<1>6. \A s \in SUBSET S : Total(c, s) \in Nat
  BY <1>4, FS_CardinalityType DEF Total
<1>7. Total(c, {}) = 0
  BY <1>5, FS_EmptySet DEF Total
<1>8. ASSUME NEW s \in SUBSET S, NEW x \in s PROVE Total(c, s) = c[x] + Total(c, s \ {x})
  <2>1. IsFiniteSet(Heap(c, s \ {x}))
    BY <1>4
  <2>. QED BY <2>1, HeapOfOneLess
<1>. QED BY <1>4, <1>6, <1>7, <1>8

LEMMA TotalAtMost ==
  ASSUME NEW S, IsFiniteSet(S), NEW T \in SUBSET S, NEW c, NEW d \in [S -> Nat],
         \A x \in T : c[x] \in Nat /\ c[x] <= d[x]
  PROVE  Total(c, T) \in Nat /\ Total(c, T) <= Total(d, S)
<1>1. IsFiniteSet(Heap(d, S))
  BY TotalUnfolds
<1>2. Heap(c, T) \in SUBSET Heap(d, S)
  <2> SUFFICES ASSUME NEW p \in Heap(c, T) PROVE p \in Heap(d, S)
    OBVIOUS
  <2>1. p \in T \X Nat /\ 1 <= p[2] /\ p[2] <= c[p[1]]
    BY DEF Heap
  <2>2. c[p[1]] \in Nat /\ d[p[1]] \in Nat /\ c[p[1]] <= d[p[1]]
    BY <2>1
  <2>. QED BY <2>1, <2>2 DEF Heap
<1>. QED BY <1>1, <1>2, FS_Subset, FS_CardinalityType DEF Total

LEMMA TotalOfSame ==
  ASSUME NEW S, IsFiniteSet(S), NEW c \in [S -> Nat], NEW n \in Nat, \A x \in S : c[x] = n
  PROVE  Total(c, S) = Cardinality(S) * n
<1>1. Heap(c, S) = S \X (1..n)
  BY DEF Heap
<1>2. IsFiniteSet(1..n) /\ Cardinality(1..n) = n
  <2>1. IsFiniteSet(1..n) /\ Cardinality(1..n) = IF 1 > n THEN 0 ELSE n - 1 + 1
    BY FS_Interval
  <2>. QED BY <2>1
<1>. QED BY <1>1, <1>2, FS_Product DEF Total

\* What MapThenSumSet's function satisfies, for the values c[x].
Pick1(s) == CHOOSE x \in s : TRUE
Adds(iter, c, S) ==
  iter = [s \in SUBSET S |-> IF s = {} THEN 0 ELSE c[Pick1(s)] + iter[s \ {Pick1(s)}]]

LEMMA SumsAre ==
  ASSUME NEW S, IsFiniteSet(S), NEW c \in [S -> Nat]
  PROVE  /\ Adds([s \in SUBSET S |-> Total(c, s)], c, S)
         /\ \A iter : Adds(iter, c, S) => iter[S] = Total(c, S)
<1>0. \A s \in SUBSET S : s # {} => Pick1(s) \in s
  BY DEF Pick1
<1>1. Adds([s \in SUBSET S |-> Total(c, s)], c, S)
  BY <1>0, TotalUnfolds DEF Adds
<1>2. ASSUME NEW iter, Adds(iter, c, S) PROVE iter[S] = Total(c, S)
  <2> DEFINE T == {s \in SUBSET S : iter[s] = Total(c, s)}
  <2>1. ASSUME NEW s \in SUBSET S, \A x \in s : s \ {x} \in T PROVE s \in T
    <3>1. iter[s] = IF s = {} THEN 0 ELSE c[Pick1(s)] + iter[s \ {Pick1(s)}]
      BY <1>2 DEF Adds
    <3>2. CASE s = {}
      BY <3>1, <3>2, TotalUnfolds
    <3>3. CASE s # {}
      <4>1. iter[s \ {Pick1(s)}] = Total(c, s \ {Pick1(s)})
        BY <1>0, <2>1, <3>3
      <4>2. Total(c, s) = c[Pick1(s)] + Total(c, s \ {Pick1(s)})
        BY <1>0, <3>3, TotalUnfolds
      <4>. QED BY <3>1, <3>3, <4>1, <4>2
    <3>. QED BY <3>2, <3>3
  <2>2. T \in SUBSET SUBSET S
    OBVIOUS
  <2> HIDE DEF T
  <2>3. T = SUBSET S
    BY <2>1, <2>2, EverySubset
  <2>. QED BY <2>3 DEF T
<1>. QED BY <1>1, <1>2

LEMMA AverageIs ==
  ASSUME NEW G, IsFiniteSet(G.nodes), \A v \in G.nodes : Clustering(G, v) \in Nat
  PROVE  AverageClustering(G) =
           Total([v \in G.nodes |-> Clustering(G, v)], G.nodes) \div Cardinality(G.nodes)
<1> DEFINE c == [v \in G.nodes |-> Clustering(G, v)]
<1>1. c \in [G.nodes -> Nat] /\ \A v \in G.nodes : c[v] = Clustering(G, v)
  OBVIOUS
<1> HIDE DEF c
<1> DEFINE S == G.nodes
<1> DEFINE Eq(iter) ==
      iter = [s \in SUBSET S |-> IF s = {} THEN 0
                                 ELSE Clustering(G, Pick1(s)) + iter[s \ {Pick1(s)}]]
<1>2. \A iter : Eq(iter) <=> Adds(iter, c, S)
  BY <1>1 DEF Adds, Pick1
<1>3. \E iter : Eq(iter)
  BY <1>1, <1>2, SumsAre
<1>4. Eq(CHOOSE iter : Eq(iter))
  BY <1>3
<1>5. (CHOOSE iter : Eq(iter))[S] = Total(c, S)
  BY <1>1, <1>2, <1>4, SumsAre
<1>6. MapThenSumSet(LAMBDA v : Clustering(G, v), G.nodes) = (CHOOSE iter : Eq(iter))[S]
  BY DEF MapThenSumSet, MapThenFoldSet, Pick1
<1>. QED BY <1>5, <1>6 DEF AverageClustering, c

------------------------------------------------------------------------------
(* No metric looks at a weight *)

NeighboursIn(N, E, v) == {u \in N : {u, v} \in E}

RingsIn(N, E, v) ==
  LET ring[d \in 0..Cardinality(N)] ==
        IF d = 0 THEN {v} ELSE ring[d - 1] \cup UNION {NeighboursIn(N, E, u) : u \in ring[d - 1]}
  IN ring

ReachableIn(N, E, v) == RingsIn(N, E, v)[Cardinality(N)]

TotalDistanceIn(N, E, v) ==
  LET ring == RingsIn(N, E, v) IN
  MapThenSumSet(LAMBDA d : Cardinality(ReachableIn(N, E, v)) - Cardinality(ring[d]), 0..Cardinality(N))

ClosenessIn(N, E, v) ==
  LET r == Cardinality(ReachableIn(N, E, v)) IN
  IF r = 1 THEN 0 ELSE (Unit * r * (r - 1)) \div (TotalDistanceIn(N, E, v) * (Cardinality(N) - 1))

ClusteringIn(N, E, v) ==
  LET nbrs == NeighboursIn(N, E, v)
      d == Cardinality(nbrs)
      links == Cardinality({p \in E : p \subseteq nbrs})
  IN IF d < 2 THEN 0 ELSE (2 * links * Unit) \div (d * (d - 1))

AverageIn(N, E) == MapThenSumSet(LAMBDA v : ClusteringIn(N, E, v), N) \div Cardinality(N)

LEMMA ClosenessOfShape ==
  ASSUME NEW G, NEW v
  PROVE  Closeness(G, v) = ClosenessIn(G.nodes, Edges(G), v)
BY DEF Closeness, ClosenessIn, Reachable, ReachableIn, TotalDistance, TotalDistanceIn, Rings,
       RingsIn, Neighbours, NeighboursIn

LEMMA AverageOfShape ==
  ASSUME NEW G
  PROVE  AverageClustering(G) = AverageIn(G.nodes, Edges(G))
BY DEF AverageClustering, AverageIn, Clustering, ClusteringIn, Neighbours, NeighboursIn

LEMMA SameShape ==
  ASSUME NEW G, NEW H, G.nodes = H.nodes, Edges(G) = Edges(H), NEW v
  PROVE  Closeness(G, v) = Closeness(H, v) /\ SiloRisk(G, v) = SiloRisk(H, v)
<1>1. Closeness(G, v) = Closeness(H, v)
  BY ClosenessOfShape
<1>2. AverageClustering(G) = AverageClustering(H)
  BY AverageOfShape
<1>3. /\ RemoveNode(G, v).nodes = RemoveNode(H, v).nodes
      /\ Edges(RemoveNode(G, v)) = Edges(RemoveNode(H, v))
  BY DEF RemoveNode, Edges
<1>4. AverageClustering(RemoveNode(G, v)) = AverageClustering(RemoveNode(H, v))
  BY <1>3, AverageOfShape
<1>. QED BY <1>1, <1>2, <1>4 DEF SiloRisk

------------------------------------------------------------------------------
(* The nodes within a distance *)

LEMMA RingsAre ==
  ASSUME NEW G, IsFiniteSet(G.nodes), NEW v \in G.nodes
  PROVE  LET N == Cardinality(G.nodes) ring == Rings(G, v) IN
         /\ ring[0] = {v}
         /\ \A d \in 1..N : ring[d] = ring[d - 1] \cup UNION {Neighbours(G, u) : u \in ring[d - 1]}
<1> DEFINE N == Cardinality(G.nodes)
<1> DEFINE Next1(s) == s \cup UNION {Neighbours(G, u) : u \in s}
<1> DEFINE Eq(ring, n) == ring = [d \in 0..n |-> IF d = 0 THEN {v} ELSE Next1(ring[d - 1])]
<1>1. N \in Nat
  BY FS_CardinalityType
<1> DEFINE T == {n \in Nat : \E ring : Eq(ring, n)}
<1> HIDE DEF Next1
<1>2. 0 \in T
  <2>1. Eq([d \in 0..0 |-> {v}], 0)
    OBVIOUS
  <2>. QED BY <2>1
<1>3. ASSUME NEW n \in T PROVE n + 1 \in T
  <2>1. PICK ring : Eq(ring, n)
    BY <1>3
  <2> DEFINE longer == [d \in 0..(n + 1) |-> IF d = n + 1 THEN Next1(ring[n]) ELSE ring[d]]
  <2>2. n \in Nat
    OBVIOUS
  <2>3. ASSUME NEW d \in 0..(n + 1)
        PROVE  longer[d] = IF d = 0 THEN {v} ELSE Next1(longer[d - 1])
    <3>1. CASE d = 0
      BY <2>1, <2>2, <3>1
    <3>2. CASE d = n + 1
      <4>1. d # 0 /\ d - 1 = n /\ n \in 0..(n + 1) /\ n # n + 1
        BY <2>2, <3>2
      <4>. QED BY <3>2, <4>1
    <3>3. CASE d # 0 /\ d # n + 1
      <4>1. d \in 0..n /\ d - 1 \in 0..(n + 1) /\ d - 1 # n + 1
        BY <2>2, <3>3
      <4>. QED BY <2>1, <3>3, <4>1
    <3>. QED BY <3>1, <3>2, <3>3
  <2>4. Eq(longer, n + 1)
    BY <2>3
  <2> HIDE DEF longer
  <2>5. \E r : Eq(r, n + 1)
    BY <2>4
  <2>6. n + 1 \in Nat
    BY <2>2
  <2>. QED BY <2>5, <2>6
<1>4. T \in SUBSET Nat
  OBVIOUS
<1>5. T = Nat
  <2> HIDE DEF T
  <2>. QED BY <1>2, <1>3, <1>4, EveryNatural
<1>6. \E ring : Eq(ring, N)
  BY <1>1, <1>5
<1>7. Eq(CHOOSE ring : Eq(ring, N), N)
  BY <1>6
<1>8. Rings(G, v) = CHOOSE ring : Eq(ring, N)
  BY DEF Rings, Next1
<1>9. Eq(Rings(G, v), N)
  BY <1>7, <1>8
<1>10. \A d \in 0..N : Rings(G, v)[d] = IF d = 0 THEN {v} ELSE Next1(Rings(G, v)[d - 1])
  BY <1>9
<1>11. Rings(G, v)[0] = {v}
  BY <1>1, <1>10
<1>12. ASSUME NEW d \in 1..N PROVE Rings(G, v)[d] = Next1(Rings(G, v)[d - 1])
  BY <1>1, <1>10
<1>. QED BY <1>11, <1>12 DEF Next1

LEMMA RingsGrow ==
  ASSUME NEW G, IsFiniteSet(G.nodes), NEW v \in G.nodes
  PROVE  \A d \in 0..Cardinality(G.nodes) :
           /\ v \in Rings(G, v)[d] /\ Rings(G, v)[d] \subseteq Reachable(G, v)
           /\ Rings(G, v)[d] \subseteq G.nodes
<1> DEFINE N == Cardinality(G.nodes)
<1> DEFINE ring == Rings(G, v)
<1>1. N \in Nat
  BY FS_CardinalityType
<1>2. /\ ring[0] = {v}
      /\ \A d \in 1..N : ring[d] = ring[d - 1] \cup UNION {Neighbours(G, u) : u \in ring[d - 1]}
  BY RingsAre
<1>3. \A u : Neighbours(G, u) \subseteq G.nodes
  BY DEF Neighbours
<1>4. Reachable(G, v) = ring[N]
  BY DEF Reachable
<1> HIDE DEF ring, N
<1> DEFINE T == {n \in Nat : n <= N => v \in ring[n] /\ ring[n] \subseteq G.nodes}
<1>5. 0 \in T
  BY <1>2
<1>6. ASSUME NEW n \in T PROVE n + 1 \in T
  <2> SUFFICES ASSUME n + 1 <= N PROVE v \in ring[n + 1] /\ ring[n + 1] \subseteq G.nodes
    OBVIOUS
  <2>1. n <= N /\ n + 1 \in 1..N /\ (n + 1) - 1 = n
    BY <1>1
  <2>2. ring[n + 1] = ring[n] \cup UNION {Neighbours(G, u) : u \in ring[n]}
    BY <1>2, <2>1
  <2>. QED BY <1>3, <2>1, <2>2
<1>7. T \in SUBSET Nat
  OBVIOUS
<1>8. T = Nat
  <2> HIDE DEF T
  <2>. QED BY <1>5, <1>6, <1>7, EveryNatural
<1> DEFINE U == {n \in Nat : n <= N => ring[N - n] \subseteq ring[N]}
<1>9. 0 \in U
  BY <1>1
<1>10. ASSUME NEW n \in U PROVE n + 1 \in U
  <2> SUFFICES ASSUME n + 1 <= N PROVE ring[N - (n + 1)] \subseteq ring[N]
    OBVIOUS
  <2>1. n <= N /\ N - n \in 1..N /\ (N - n) - 1 = N - (n + 1)
    BY <1>1
  <2>2. ring[N - n] = ring[N - (n + 1)] \cup UNION {Neighbours(G, u) : u \in ring[N - (n + 1)]}
    BY <1>2, <2>1
  <2>. QED BY <2>1, <2>2
<1>11. U \in SUBSET Nat
  OBVIOUS
<1>12. U = Nat
  <2> HIDE DEF U
  <2>. QED BY <1>9, <1>10, <1>11, EveryNatural
<1>13. ASSUME NEW d \in 0..N PROVE v \in ring[d] /\ ring[d] \subseteq ring[N] /\ ring[d] \subseteq G.nodes
  <2>1. d \in T /\ d <= N
    BY <1>1, <1>8
  <2>2. N - d \in Nat /\ N - d <= N /\ N - (N - d) = d
    BY <1>1
  <2>3. ring[N - (N - d)] \subseteq ring[N]
    BY <1>12, <2>2
  <2>. QED BY <2>1, <2>2, <2>3
<1>. QED BY <1>4, <1>13 DEF ring, N

\* The nodes from which a node can be reached are finitely many, itself one.
LEMMA ReachableIs ==
  ASSUME NEW G, IsFiniteSet(G.nodes), NEW v \in G.nodes
  PROVE  /\ Cardinality(G.nodes) \in Nat
         /\ Reachable(G, v) \subseteq G.nodes /\ v \in Reachable(G, v)
         /\ Cardinality(Reachable(G, v)) \in 1..Cardinality(G.nodes)
         /\ \A d \in 0..Cardinality(G.nodes) :
              Cardinality(Rings(G, v)[d]) \in 1..Cardinality(Reachable(G, v))
<1> DEFINE N == Cardinality(G.nodes)
<1> DEFINE reach == Reachable(G, v)
<1>1. N \in Nat
  BY FS_CardinalityType
<1>2. Reachable(G, v) = Rings(G, v)[N] /\ N \in 0..N
  BY <1>1 DEF Reachable
<1>3. reach \subseteq G.nodes /\ v \in reach
  BY <1>2, RingsGrow
<1>4. IsFiniteSet(reach) /\ Cardinality(reach) \in Nat /\ Cardinality(reach) <= N
  BY <1>3, FS_Subset, FS_CardinalityType
<1>5. ASSUME NEW s \in SUBSET reach, v \in s
      PROVE  Cardinality(s) \in 1..Cardinality(reach)
  <2>1. IsFiniteSet(s) /\ Cardinality(s) \in Nat /\ Cardinality(s) <= Cardinality(reach)
    BY <1>4, FS_Subset, FS_CardinalityType
  <2>2. Cardinality(s) # 0
    BY <1>5, <2>1, FS_EmptySet
  <2>. QED BY <1>4, <2>1, <2>2
<1>6. Cardinality(reach) \in 1..N
  <2>1. Cardinality(reach) \in 1..Cardinality(reach)
    BY <1>3, <1>5
  <2>. QED BY <1>1, <1>4, <2>1
<1>7. \A d \in 0..N : Rings(G, v)[d] \in SUBSET reach /\ v \in Rings(G, v)[d]
  BY RingsGrow
<1>. QED BY <1>1, <1>3, <1>5, <1>6, <1>7

\* Arithmetic.
LEMMA UnitIs == Unit \in Nat /\ 0 < Unit
BY UnitAssumption

LEMMA Products ==
  ASSUME NEW a \in Nat, NEW b \in Nat
  PROVE  /\ a * b \in Nat
         /\ a > 0 /\ b > 0 => a * b > 0
OBVIOUS

LEMMA Quotients ==
  ASSUME NEW a \in Nat, NEW b \in Nat, b > 0
  PROVE  a \div b \in Nat
OBVIOUS

LEMMA Multiples ==
  ASSUME NEW a \in Nat, NEW b \in Nat, 0 < b
  PROVE  /\ a % b = 0 => \E m \in Nat : a = m * b
         /\ \A m \in Nat : a = m * b => a % b = 0 /\ a \div b = m
<1>1. PICK q \in Nat, r \in Nat : q = a \div b /\ r = a % b /\ a = b * q + r /\ r < b
  <2>1. a \div b \in Nat
    BY Quotients
  <2>2. a % b \in Nat /\ a % b < b
    OBVIOUS
  <2>3. a = b * (a \div b) + (a % b)
    OBVIOUS
  <2>. QED BY <2>1, <2>2, <2>3
<1>2. r = 0 => a = q * b
  BY <1>1
<1>3. ASSUME NEW m \in Nat, a = m * b PROVE r = 0 /\ q = m
  <2>1. ~(m < q)
    <3> SUFFICES ASSUME m + 1 <= q PROVE FALSE
      OBVIOUS
    <3>1. b * (m + 1) <= b * q /\ b * (m + 1) = m * b + b
      OBVIOUS
    <3>2. b * q \in Nat /\ m * b \in Nat
      OBVIOUS
    <3>. QED BY <1>1, <1>3, <3>1, <3>2
  <2>2. ~(q < m)
    <3> SUFFICES ASSUME q + 1 <= m PROVE FALSE
      OBVIOUS
    <3>1. b * (q + 1) <= m * b /\ b * (q + 1) = b * q + b
      OBVIOUS
    <3>2. b * q \in Nat /\ m * b \in Nat
      OBVIOUS
    <3>. QED BY <1>1, <1>3, <3>1, <3>2
  <2>3. q = m
    BY <2>1, <2>2
  <2>. QED BY <1>1, <1>3, <2>3
<1>. QED BY <1>1, <1>2, <1>3

\* How many that can be reached are beyond a distance; and the sum of the distances.
Beyond(G, v) ==
  [d \in 0..Cardinality(G.nodes) |-> Cardinality(Reachable(G, v)) - Cardinality(Rings(G, v)[d])]

LEMMA DistanceSums ==
  ASSUME NEW G, IsFiniteSet(G.nodes), NEW v \in G.nodes
  PROVE  /\ IsFiniteSet(0..Cardinality(G.nodes)) /\ 0 \in 0..Cardinality(G.nodes)
         /\ Beyond(G, v) \in [0..Cardinality(G.nodes) -> Nat]
         /\ TotalDistance(G, v) = Total(Beyond(G, v), 0..Cardinality(G.nodes))
<1> DEFINE S == 0..Cardinality(G.nodes)
<1> DEFINE far(d) == Cardinality(Reachable(G, v)) - Cardinality(Rings(G, v)[d])
<1> DEFINE c == Beyond(G, v)
<1>0. Cardinality(G.nodes) \in Nat
  BY FS_CardinalityType
<1>1. \A d \in S : far(d) \in Nat
  BY ReachableIs
<1>2. c \in [S -> Nat] /\ \A d \in S : c[d] = far(d)
  BY <1>1 DEF Beyond
<1>3. IsFiniteSet(S) /\ 0 \in S
  BY <1>0, FS_Interval
<1> HIDE DEF c
<1> DEFINE Eq(iter) ==
      iter = [s \in SUBSET S |-> IF s = {} THEN 0 ELSE far(Pick1(s)) + iter[s \ {Pick1(s)}]]
<1>4. \A iter : Eq(iter) <=> Adds(iter, c, S)
  <2>1. \A s \in SUBSET S : s # {} => Pick1(s) \in S
    BY DEF Pick1
  <2> HIDE DEF far
  <2>. QED BY <1>2, <2>1 DEF Adds
<1>5. \E iter : Eq(iter)
  BY <1>2, <1>3, <1>4, SumsAre
<1>6. Eq(CHOOSE iter : Eq(iter))
  BY <1>5
<1>7. (CHOOSE iter : Eq(iter))[S] = Total(c, S)
  BY <1>2, <1>3, <1>4, <1>6, SumsAre
<1>8. TotalDistance(G, v) = (CHOOSE iter : Eq(iter))[S]
  BY DEF TotalDistance, MapThenSumSet, MapThenFoldSet, Pick1
<1>. QED BY <1>2, <1>3, <1>7, <1>8 DEF c

LEMMA DistanceIs ==
  ASSUME NEW G, IsFiniteSet(G.nodes), NEW v \in G.nodes
  PROVE  /\ TotalDistance(G, v) \in Nat
         /\ Cardinality(Reachable(G, v)) - 1 <= TotalDistance(G, v)
<1> DEFINE S == 0..Cardinality(G.nodes)
<1> DEFINE c == Beyond(G, v)
<1>1. IsFiniteSet(S) /\ 0 \in S /\ c \in [S -> Nat] /\ TotalDistance(G, v) = Total(c, S)
  BY DistanceSums
<1>2. c[0] = Cardinality(Reachable(G, v)) - 1
  <2>1. Rings(G, v)[0] = {v}
    BY RingsAre
  <2>2. Cardinality({v}) = 1
    BY FS_Singleton
  <2>. QED BY <1>1, <2>1, <2>2 DEF Beyond
<1> HIDE DEF c, S
<1>3. Total(c, S) = c[0] + Total(c, S \ {0}) /\ Total(c, S) \in Nat /\ Total(c, S \ {0}) \in Nat
  BY <1>1, TotalUnfolds
<1>4. c[0] \in Nat
  BY <1>1
<1>. QED BY <1>1, <1>2, <1>3, <1>4

LEMMA ClosenessIsNat ==
  ASSUME NEW G, IsFiniteSet(G.nodes), NEW v \in G.nodes
  PROVE  Closeness(G, v) \in Nat
<1>1. PICK n \in Nat, r \in Nat, total \in Nat :
        /\ n = Cardinality(G.nodes) /\ r = Cardinality(Reachable(G, v))
        /\ total = TotalDistance(G, v)
        /\ 1 <= r /\ r <= n /\ r - 1 <= total
  BY ReachableIs, DistanceIs
<1>2. CASE r = 1
  BY <1>1, <1>2 DEF Closeness
<1>3. CASE r # 1
  <2>1. r - 1 \in Nat /\ n - 1 \in Nat /\ n - 1 > 0 /\ total > 0
    BY <1>1, <1>3
  <2>2. total * (n - 1) \in Nat /\ total * (n - 1) > 0
    BY <2>1, Products
  <2>3. Unit * r * (r - 1) \in Nat
    BY <2>1, Products, UnitIs
  <2>4. Closeness(G, v) = (Unit * r * (r - 1)) \div (total * (n - 1))
    BY <1>1, <1>3 DEF Closeness
  <2>. QED BY <2>2, <2>3, <2>4, Quotients
<1>. QED BY <1>2, <1>3

\* The edges between two neighbours of a node.
Inside(G, u) == {p \in Edges(G) : p \subseteq Neighbours(G, u)}

LEMMA ClusteringOf ==
  ASSUME NEW G, NEW v
  PROVE  LET d == Cardinality(Neighbours(G, v)) IN
         Clustering(G, v) =
           IF d < 2 THEN 0 ELSE (2 * Cardinality(Inside(G, v)) * Unit) \div (d * (d - 1))
BY DEF Clustering, Inside

LEMMA ClusteringIsNat ==
  ASSUME NEW G, IsFiniteSet(G.nodes), NEW v
  PROVE  /\ Clustering(G, v) \in Nat
         /\ Cardinality(Neighbours(G, v)) \in Nat
         /\ Cardinality(Inside(G, v)) \in Nat
<1> DEFINE nbrs == Neighbours(G, v)
<1> DEFINE inside == Inside(G, v)
<1>1. IsFiniteSet(nbrs) /\ Cardinality(nbrs) \in Nat
  BY FS_Subset, FS_CardinalityType DEF Neighbours
<1>2. IsFiniteSet(inside) /\ Cardinality(inside) \in Nat
  <2>1. IsFiniteSet(SUBSET nbrs)
    BY <1>1, FS_SUBSET
  <2>2. inside \subseteq SUBSET nbrs
    BY DEF Inside
  <2>. QED BY <2>1, <2>2, FS_Subset, FS_CardinalityType
<1>3. PICK d \in Nat, links \in Nat : d = Cardinality(nbrs) /\ links = Cardinality(inside)
  BY <1>1, <1>2
<1>4. Clustering(G, v) = IF d < 2 THEN 0 ELSE (2 * links * Unit) \div (d * (d - 1))
  BY <1>3, ClusteringOf
<1>5. CASE d < 2
  BY <1>1, <1>2, <1>4, <1>5
<1>6. CASE ~(d < 2)
  <2>1. d - 1 \in Nat /\ d - 1 > 0 /\ d > 0
    BY <1>6
  <2>2. d * (d - 1) \in Nat /\ d * (d - 1) > 0
    BY <2>1, Products
  <2>3. 2 * links * Unit \in Nat
    BY UnitIs
  <2>. QED BY <1>1, <1>2, <1>4, <1>6, <2>2, <2>3, Quotients
<1>. QED BY <1>5, <1>6

LEMMA AverageIsNat ==
  ASSUME NEW G, IsFiniteSet(G.nodes), G.nodes # {}
  PROVE  AverageClustering(G) \in Nat
<1> DEFINE c == [v \in G.nodes |-> Clustering(G, v)]
<1>1. c \in [G.nodes -> Nat]
  BY ClusteringIsNat
<1>2. AverageClustering(G) = Total(c, G.nodes) \div Cardinality(G.nodes)
  BY ClusteringIsNat, AverageIs
<1> HIDE DEF c
<1>3. Total(c, G.nodes) \in Nat
  BY <1>1, TotalUnfolds
<1>4. Cardinality(G.nodes) \in Nat /\ Cardinality(G.nodes) > 0
  BY FS_CardinalityType, FS_EmptySet
<1>. QED BY <1>2, <1>3, <1>4, Quotients

LEMMA RemovedIs ==
  ASSUME NEW G, IsFiniteSet(G.nodes), NEW v \in G.nodes
  PROVE  /\ RemoveNode(G, v).nodes = G.nodes \ {v} /\ IsFiniteSet(RemoveNode(G, v).nodes)
         /\ Cardinality(RemoveNode(G, v).nodes) = Cardinality(G.nodes) - 1
         /\ Edges(RemoveNode(G, v)) = {p \in Edges(G) : v \notin p}
BY FS_RemoveElement DEF RemoveNode, Edges

LEMMA SiloRiskIsInt ==
  ASSUME NEW G, IsFiniteSet(G.nodes), NEW v \in G.nodes
  PROVE  SiloRisk(G, v) \in Int
<1>1. CASE Cardinality(G.nodes) < 3
  BY <1>1 DEF SiloRisk
<1>2. CASE ~(Cardinality(G.nodes) < 3)
  <2>1. Cardinality(G.nodes) \in Nat
    BY FS_CardinalityType
  <2>2. RemoveNode(G, v).nodes # {}
    BY <1>2, <2>1, RemovedIs, FS_EmptySet
  <2>3. AverageClustering(G) \in Nat /\ AverageClustering(RemoveNode(G, v)) \in Nat
    BY <2>2, RemovedIs, AverageIsNat
  <2>. QED BY <1>2, <2>3 DEF SiloRisk
<1>. QED BY <1>1, <1>2

------------------------------------------------------------------------------
(* The runs of the engine *)

TeamRec == [nodes : SUBSET Engineer, weight : UNION {[links -> Nat \ {0}] : links \in SUBSET Link}]

\* What the engine reads is a graph, which keeps its shape during a run.
SimInv ==
  /\ SimulationTypeOK
  /\ team \in TeamRec /\ team.nodes # {} /\ IsFiniteSet(DOMAIN team.weight)
  /\ \A l \in DOMAIN team.weight : {l[1], l[3]} \subseteq team.nodes
  /\ base = [nodes |-> base.nodes, weight |-> base.weight]
  /\ \A p \in Edges(base) : Cardinality(p) = 2
  /\ stage = "idle" => base = NoGraph /\ samples = <<>>
  /\ stage # "idle" => Candidate \in base.nodes
  /\ \A k \in DOMAIN samples : samples[k] = Sample(base)
  /\ stage = "done" => Len(samples) = Iterations

LEMMA EngineersAreFinite ==
  /\ IsFiniteSet(Engineer) /\ Candidate \notin Engineer
  /\ \A nodes \in SUBSET (Engineer \cup {Candidate}) : IsFiniteSet(nodes)
<1>1. IsFiniteSet(Engineer) /\ Candidate \notin Engineer
  BY SimulationAssumption
<1>2. IsFiniteSet(Engineer \cup {Candidate})
  BY <1>1, FS_AddElement
<1>. QED BY <1>1, <1>2, FS_Subset

\* What Unit is a multiple of.
LEMMA DistancesDivide ==
  ASSUME NEW n \in Nat, 2 <= n, n <= Cardinality(Engineer) + 1, NEW d \in Nat, 1 <= d,
         2 * d <= n * (n - 1)
  PROVE  \E m \in Nat : Unit = m * ((n - 1) * d)
<1>1. n \in 2..(Cardinality(Engineer) + 1)
  BY EngineersAreFinite, FS_CardinalityType
<1>2. d \in 1..((n * (n - 1)) \div 2)
  <2>1. n - 1 \in Nat
    OBVIOUS
  <2>2. PICK w \in Nat : w = n * (n - 1)
    BY <2>1
  <2>. QED BY <2>2
<1>3. Unit % ((n - 1) * d) = 0
  BY <1>1, <1>2, UnitAssumption DEF Exact
<1>4. PICK b \in Nat : b = (n - 1) * d /\ 0 < b
  BY Products
<1>. QED BY <1>3, <1>4, UnitIs, Multiples

LEMMA SizesDivide ==
  ASSUME NEW n \in Nat, 2 <= n, n <= Cardinality(Engineer) + 1
  PROVE  \E m \in Nat : 0 < m /\ Unit = m * (n - 1)
<1>1. 2 * 1 <= n * (n - 1)
  <2>1. n * (n - 1) >= n * 1
    OBVIOUS
  <2>. QED BY <2>1
<1>2. PICK m \in Nat : Unit = m * ((n - 1) * 1)
  BY <1>1, DistancesDivide
<1>3. Unit = m * (n - 1)
  BY <1>2
<1>4. m # 0
  BY <1>3, UnitIs
<1>. QED BY <1>3, <1>4

LEMMA SampleType ==
  ASSUME NEW G, G.nodes \subseteq Engineer \cup {Candidate}, Candidate \in G.nodes
  PROVE  Sample(G) \in [closeness : Nat, silo : Int]
<1>1. IsFiniteSet(G.nodes)
  BY EngineersAreFinite
<1>. QED BY <1>1, ClosenessIsNat, SiloRiskIsInt DEF Sample

\* The weights of a pair add up to one or more.
LEMMA TeamGraphIs ==
  ASSUME NEW t \in TeamRec, IsFiniteSet(DOMAIN t.weight)
  PROVE  /\ ToGraph(t).nodes = t.nodes
         /\ \A p \in Edges(ToGraph(t)) :
              /\ Cardinality(p) = 2
              /\ \E e \in DOMAIN t.weight : p = {e[1], e[3]}
              /\ ToGraph(t).weight[p] \in Nat \ {0}
<1>1. /\ ToGraph(t).nodes = t.nodes
      /\ Edges(ToGraph(t)) = {q \in {{e[1], e[3]} : e \in DOMAIN t.weight} : Cardinality(q) = 2}
  BY DEF ToGraph, Edges
<1>2. ASSUME NEW p \in Edges(ToGraph(t)) PROVE ToGraph(t).weight[p] \in Nat \ {0}
  <2> DEFINE S == {e \in DOMAIN t.weight : {e[1], e[3]} = p}
  <2> DEFINE c == [e \in S |-> t.weight[e]]
  <2>1. PICK first \in S : TRUE
    BY <1>1
  <2>2. t.weight \in [DOMAIN t.weight -> Nat \ {0}]
    BY DEF TeamRec
  <2>3. c \in [S -> Nat] /\ \A e \in S : c[e] = t.weight[e] /\ c[e] # 0
    BY <2>2
  <2>4. IsFiniteSet(S)
    BY FS_Subset
  <2> HIDE DEF c
  <2> DEFINE Eq(iter) ==
        iter = [s \in SUBSET S |-> IF s = {} THEN 0 ELSE t.weight[Pick1(s)] + iter[s \ {Pick1(s)}]]
  <2>5. \A iter : Eq(iter) <=> Adds(iter, c, S)
    <3>1. \A s \in SUBSET S : s # {} => Pick1(s) \in S
      BY DEF Pick1
    <3> HIDE DEF S
    <3>. QED BY <2>3, <3>1 DEF Adds
  <2>6. \E iter : Eq(iter)
    BY <2>3, <2>4, <2>5, SumsAre
  <2>7. Eq(CHOOSE iter : Eq(iter))
    BY <2>6
  <2>8. (CHOOSE iter : Eq(iter))[S] = Total(c, S)
    BY <2>3, <2>4, <2>5, <2>7, SumsAre
  <2>9. ToGraph(t).weight[p] = MapThenSumSet(LAMBDA e : t.weight[e], S)
    BY <1>1 DEF ToGraph, Edges
  <2>10. MapThenSumSet(LAMBDA e : t.weight[e], S) = (CHOOSE iter : Eq(iter))[S]
    BY DEF MapThenSumSet, MapThenFoldSet, Pick1
  <2> HIDE DEF S, Eq
  <2>11. Total(c, S) = c[first] + Total(c, S \ {first}) /\ Total(c, S \ {first}) \in Nat
    BY <2>1, <2>3, <2>4, TotalUnfolds
  <2>12. PICK a \in Nat, b \in Nat : a = c[first] /\ b = Total(c, S \ {first}) /\ a # 0
    BY <2>1, <2>3, <2>11
  <2>. QED BY <2>8, <2>9, <2>10, <2>11, <2>12
<1>. QED BY <1>1, <1>2

LEMMA SimulationInitial == SimulationInit => SimInv
<1> SUFFICES ASSUME SimulationInit PROVE SimInv
  OBVIOUS
<1>1. PICK nodes \in (SUBSET Engineer) \ {{}} : team = [nodes |-> nodes, weight |-> [e \in {} |-> 0]]
  BY DEF SimulationInit
<1>2. /\ team.nodes = nodes /\ team.nodes # {} /\ DOMAIN team.weight = {} /\ team \in TeamRec
  <2>1. [e \in {} |-> 0] \in [{} -> Nat \ {0}] /\ {} \in SUBSET Link
    OBVIOUS
  <2>2. team.nodes = nodes /\ team.weight = [e \in {} |-> 0]
    BY <1>1
  <2>3. nodes # {} /\ nodes \in SUBSET Engineer
    OBVIOUS
  <2>4. team \in TeamRec
    BY <1>1, <2>1, <2>3 DEF TeamRec
  <2>. QED BY <2>2, <2>3, <2>4
<1>3. base = NoGraph /\ samples = <<>> /\ stage = "idle"
  BY DEF SimulationInit
<1>4. base = [nodes |-> base.nodes, weight |-> base.weight] /\ base.nodes = {} /\ Edges(base) = {}
  BY <1>3 DEF NoGraph, Edges
<1>5. samples \in Seq([closeness : Nat, silo : Int]) /\ Len(samples) = 0 /\ DOMAIN samples = {}
  BY <1>3
<1>6. Len(samples) <= Iterations
  BY <1>5, SimulationAssumption
<1>. QED BY <1>2, <1>3, <1>4, <1>5, <1>6, FS_EmptySet DEF SimInv, SimulationTypeOK

LEMMA Collaborated ==
  ASSUME SimInv, NEW l \in Link, Collaborate(l)
  PROVE  SimInv'
<1> DEFINE weight == [x \in DOMAIN team.weight \cup {l} |-> IF x = l THEN 1 ELSE team.weight[x]]
<1>1. /\ team \in TeamRec /\ team' = [team EXCEPT !.weight = weight]
      /\ {l[1], l[3]} \subseteq team.nodes /\ UNCHANGED <<base, samples, stage>>
      /\ IsFiniteSet(DOMAIN team.weight)
  BY DEF SimInv, Collaborate
<1>2. PICK links \in SUBSET Link : team.weight \in [links -> Nat \ {0}]
  BY <1>1 DEF TeamRec
<1>3. weight \in [links \cup {l} -> Nat \ {0}]
  BY <1>2
<1>4. IsFiniteSet(links \cup {l})
  BY <1>1, <1>2, FS_AddElement
<1> HIDE DEF weight
<1>5. team'.nodes = team.nodes /\ team'.weight = weight /\ team' \in TeamRec
  <2>1. links \cup {l} \in SUBSET Link
    OBVIOUS
  <2>. QED BY <1>1, <1>3, <2>1 DEF TeamRec
<1>6. DOMAIN team'.weight = links \cup {l} /\ DOMAIN team.weight = links
  BY <1>2, <1>3, <1>5
<1>7. \A x \in DOMAIN team'.weight : {x[1], x[3]} \subseteq team'.nodes
  BY <1>1, <1>5, <1>6 DEF SimInv
<1>8. SimulationTypeOK'
  BY <1>1, <1>2, <1>5, <1>6 DEF SimInv, SimulationTypeOK, Edges
<1>9. Sample(base)' = Sample(base)
  BY <1>1 DEF Sample, Closeness, SiloRisk
<1>. QED BY <1>1, <1>4, <1>5, <1>6, <1>7, <1>8, <1>9 DEF SimInv, Edges

LEMMA Begun ==
  ASSUME SimInv, NEW shared \in [team.nodes -> 0..MaxShared], Begin(shared)
  PROVE  SimInv'
<1>1. /\ team \in TeamRec /\ stage = "idle" /\ stage' = "running" /\ UNCHANGED <<team, samples>>
      /\ samples = <<>> /\ base' = WithCandidate(ToGraph(team), shared)
      /\ IsFiniteSet(DOMAIN team.weight)
      /\ team.nodes \subseteq Engineer
      /\ \A l \in DOMAIN team.weight : {l[1], l[3]} \subseteq team.nodes
  BY DEF SimInv, SimulationTypeOK, Begin, BaseGraph
<1>2. PICK G : G = ToGraph(team)
  OBVIOUS
<1>3. /\ G.nodes = team.nodes
      /\ \A p \in Edges(G) : /\ Cardinality(p) = 2 /\ p \subseteq team.nodes
                             /\ G.weight[p] \in Nat \ {0}
  BY <1>1, <1>2, TeamGraphIs
<1> DEFINE peers == {e \in G.nodes : shared[e] > 0}
<1>4. /\ base' = [nodes |-> base'.nodes, weight |-> base'.weight]
      /\ base'.nodes = team.nodes \cup {Candidate}
      /\ DOMAIN base'.weight = Edges(G) \cup {{Candidate, e} : e \in peers}
      /\ \A p \in DOMAIN base'.weight :
           base'.weight[p] = IF p \in Edges(G) THEN G.weight[p]
                             ELSE shared[CHOOSE e \in peers : p = {Candidate, e}]
  BY <1>1, <1>2, <1>3 DEF WithCandidate
<1>5. ASSUME NEW p \in DOMAIN base'.weight
      PROVE  Cardinality(p) = 2 /\ p \subseteq base'.nodes /\ base'.weight[p] \in Nat \ {0}
  <2>1. CASE p \in Edges(G)
    BY <1>3, <1>4, <2>1
  <2>2. CASE p \notin Edges(G)
    <3>1. PICK e \in peers : p = {Candidate, e}
      BY <1>4, <2>2
    <3>2. e # Candidate /\ e \in team.nodes
      BY <1>1, <1>3, EngineersAreFinite
    <3>3. Cardinality(p) = 2
      <4>1. IsFiniteSet({e}) /\ Cardinality({e}) = 1
        BY FS_Singleton
      <4>2. Candidate \notin {e} /\ p = {e} \cup {Candidate}
        BY <3>1, <3>2
      <4>. QED BY <4>1, <4>2, FS_AddElement
    <3>4. PICK f \in peers : f = (CHOOSE u \in peers : p = {Candidate, u})
      BY <3>1
    <3>5. base'.weight[p] = shared[f]
      BY <1>4, <2>2, <3>4
    <3>6. shared[f] \in Nat /\ shared[f] > 0
      BY <1>3, SimulationAssumption
    <3>. QED BY <1>4, <3>1, <3>2, <3>3, <3>5, <3>6
  <2>. QED BY <2>1, <2>2
<1>6. SimulationTypeOK'
  BY <1>1, <1>4, <1>5 DEF SimInv, SimulationTypeOK, Edges
<1>. QED BY <1>1, <1>4, <1>5, <1>6 DEF SimInv, Edges

\* Whatever is drawn, the sample is that of the snapshot.
LEMMA Iterated ==
  ASSUME SimInv, Iterate
  PROVE  SimInv'
<1>1. /\ stage = "running" /\ Len(samples) < Iterations /\ UNCHANGED <<team, base>>
      /\ samples \in Seq([closeness : Nat, silo : Int])
      /\ base.nodes \subseteq Engineer \cup {Candidate} /\ Candidate \in base.nodes
  BY DEF SimInv, SimulationTypeOK, Iterate, IterateWith
<1>2. PICK draw \in [Edges(base) -> Draw] : samples' = Append(samples, Sample(Perturb(base, draw)))
  BY DEF Iterate, IterateWith
<1>3. PICK G : G = Perturb(base, draw)
  OBVIOUS
<1>4. G.nodes = base.nodes /\ Edges(G) = Edges(base)
  BY <1>3 DEF SimInv, Perturb, Edges
<1>5. Sample(G) = Sample(base)
  BY <1>4, SameShape DEF Sample
<1>6. PICK s \in [closeness : Nat, silo : Int] : s = Sample(base)
  BY <1>1, SampleType
<1>7. samples' = Append(samples, s)
  BY <1>2, <1>3, <1>5, <1>6
<1>8. /\ samples' \in Seq([closeness : Nat, silo : Int]) /\ Len(samples') = Len(samples) + 1
      /\ \A k \in DOMAIN samples' : (samples'[k] = samples[k] /\ k \in DOMAIN samples) \/ samples'[k] = s
  BY <1>1, <1>7
<1>9. Sample(base)' = Sample(base)
  BY <1>1 DEF Sample, Closeness, SiloRisk
<1>10. \A k \in DOMAIN samples' : samples'[k] = s
  BY <1>6, <1>8 DEF SimInv
<1>11. Iterations \in Nat /\ Len(samples) \in Nat /\ Len(samples') <= Iterations
  BY <1>1, <1>8, SimulationAssumption
<1>12. stage' = IF Len(samples') = Iterations THEN "done" ELSE "running"
  BY DEF Iterate, IterateWith
<1>13. SimulationTypeOK'
  BY <1>1, <1>8, <1>11, <1>12 DEF SimInv, SimulationTypeOK, Edges
<1>. QED BY <1>1, <1>6, <1>9, <1>10, <1>12, <1>13 DEF SimInv, Edges

LEMMA SimulationStep == SimInv /\ [SimulationNext]_simVars => SimInv'
<1> SUFFICES ASSUME SimInv, [SimulationNext]_simVars PROVE SimInv'
  OBVIOUS
<1>1. CASE UNCHANGED simVars
  <2>1. UNCHANGED <<team, base, samples, stage>>
    BY <1>1 DEF simVars
  <2>2. Sample(base)' = Sample(base)
    BY <2>1 DEF Sample, Closeness, SiloRisk
  <2>. QED BY <2>1, <2>2 DEF SimInv, SimulationTypeOK, Edges
<1>2. CASE \E l \in Link : Collaborate(l)
  BY <1>2, Collaborated
<1>3. CASE \E shared \in [team.nodes -> 0..MaxShared] : Begin(shared)
  BY <1>3, Begun
<1>4. CASE Iterate
  BY <1>4, Iterated
<1>. QED BY <1>1, <1>2, <1>3, <1>4 DEF SimulationNext

LEMMA SingleValue ==
  ASSUME NEW D, D # {}, NEW f, DOMAIN f = D, NEW c \in Int, \A k \in D : f[k] = c
  PROVE  Spread(f) = 0
<1>1. {f[k] : k \in DOMAIN f} = {c}
  OBVIOUS
<1>2. Max({c}) = c /\ Min({c}) = c
  <2>1. Max({c}) \in {c}
    BY DEF Max
  <2>2. Min({c}) \in {c}
    BY DEF Min
  <2>. QED BY <2>1, <2>2
<1>. QED BY <1>1, <1>2 DEF Spread

LEMMA MeanOfSame ==
  ASSUME NEW c \in Nat, Len(samples) \in Nat, Len(samples) > 0, DOMAIN samples = 1..Len(samples),
         \A k \in DOMAIN samples : samples[k].closeness = c
  PROVE  Estimate = TimeToValue(c)
<1> DEFINE S == DOMAIN samples
<1> DEFINE n == Len(samples)
<1> DEFINE f == Closenesses
<1>1. f \in [S -> Nat] /\ \A k \in S : f[k] = c
  BY DEF Closenesses
<1>2. IsFiniteSet(S) /\ Cardinality(S) = n
  <2>1. IsFiniteSet(1..n) /\ Cardinality(1..n) = IF 1 > n THEN 0 ELSE n - 1 + 1
    BY FS_Interval
  <2>. QED BY <2>1
<1>3. Total(f, S) = n * c
  BY <1>1, <1>2, TotalOfSame
<1>4. MapThenSumSet(LAMBDA k : Closenesses[k], DOMAIN samples) = Total(f, S)
  <2> DEFINE Eq(iter) ==
        iter = [s \in SUBSET S |-> IF s = {} THEN 0 ELSE f[Pick1(s)] + iter[s \ {Pick1(s)}]]
  <2> HIDE DEF f
  <2>1. \A iter : Eq(iter) <=> Adds(iter, f, S)
    BY DEF Adds
  <2>2. \E iter : Eq(iter)
    BY <1>1, <1>2, <2>1, SumsAre
  <2>3. Eq(CHOOSE iter : Eq(iter))
    BY <2>2
  <2>4. (CHOOSE iter : Eq(iter))[S] = Total(f, S)
    BY <1>1, <1>2, <2>1, <2>3, SumsAre
  <2>5. MapThenSumSet(LAMBDA k : f[k], DOMAIN samples) = (CHOOSE iter : Eq(iter))[S]
    BY DEF MapThenSumSet, MapThenFoldSet, Pick1
  <2>. QED BY <2>4, <2>5 DEF f
<1>5. (n * c) \div n = c
  <2>1. PICK m \in Nat : m = n
    OBVIOUS
  <2>2. m > 0 /\ (m * c) \div m = c
    BY <2>1
  <2>. QED BY <2>1, <2>2
<1>. QED BY <1>3, <1>4, <1>5 DEF Estimate

\* However often the weights are drawn again, every sample is that of one look at
\* the snapshot: the interval of a result has no width, and the time to value is
\* the snapshot's (SimulationEngine.run).
THEOREM DrawsDoNotMatter == SimulationSpec => []SamplesAgree
<1>1. SimInv => SamplesAgree
  <2> SUFFICES ASSUME SimInv, stage = "done"
               PROVE  /\ Spread(Closenesses) = 0 /\ Spread(Silos) = 0
                      /\ Estimate = TimeToValue(Closeness(base, Candidate))
    BY DEF SamplesAgree
  <2>1. /\ samples \in Seq([closeness : Nat, silo : Int]) /\ Len(samples) = Iterations
        /\ base.nodes \subseteq Engineer \cup {Candidate} /\ Candidate \in base.nodes
    BY DEF SimInv, SimulationTypeOK
  <2>2. Len(samples) \in Nat /\ Len(samples) > 0 /\ DOMAIN samples = 1..Len(samples)
    BY <2>1, SimulationAssumption
  <2>3. PICK s \in [closeness : Nat, silo : Int] : s = Sample(base)
    BY <2>1, SampleType
  <2>4. \A k \in DOMAIN samples : samples[k] = s
    BY <2>3 DEF SimInv
  <2>5. s.closeness \in Nat /\ s.silo \in Int /\ s.closeness = Closeness(base, Candidate)
    BY <2>3 DEF Sample
  <2>6. DOMAIN samples # {}
    BY <2>2
  <2>7. Spread(Closenesses) = 0
    <3>1. DOMAIN Closenesses = DOMAIN samples /\ \A k \in DOMAIN samples : Closenesses[k] = s.closeness
      BY <2>4 DEF Closenesses
    <3>. QED BY <2>5, <2>6, <3>1, SingleValue
  <2>8. Spread(Silos) = 0
    <3>1. DOMAIN Silos = DOMAIN samples /\ \A k \in DOMAIN samples : Silos[k] = s.silo
      BY <2>4 DEF Silos
    <3>. QED BY <2>5, <2>6, <3>1, SingleValue
  <2>9. Estimate = TimeToValue(s.closeness)
    BY <2>2, <2>4, <2>5, MeanOfSame
  <2>. QED BY <2>5, <2>7, <2>8, <2>9
<1>. QED BY <1>1, SimulationInitial, SimulationStep, PTL DEF SimulationSpec

------------------------------------------------------------------------------
(* A silo means a triangle *)

LEMMA QuotientsOrdered ==
  ASSUME NEW a \in Nat, NEW b \in Nat, NEW x \in Nat, NEW y \in Nat, 0 < y, y <= x, a <= b
  PROVE  a \div x <= b \div y
<1>1. PICK q \in Nat : q = a \div x
  BY Quotients
<1>2. q * x <= a
  BY <1>1
<1>3. q * y <= q * x
  OBVIOUS
<1>4. q * y <= b /\ q * y \in Nat
  BY <1>2, <1>3
<1>5. PICK r \in Nat : r = b \div y
  BY Quotients
<1>6. b < (r + 1) * y
  BY <1>5
<1>7. q * y < (r + 1) * y
  BY <1>4, <1>6
<1>8. q < r + 1
  BY <1>7
<1>. QED BY <1>1, <1>5, <1>8

\* What telemetry and the candidate make: edges between two of finitely many.
Undirected(G) ==
  IsFiniteSet(G.nodes) /\ \A p \in Edges(G) : Cardinality(p) = 2 /\ p \subseteq G.nodes

LEMMA OtherEnd ==
  ASSUME NEW G, Undirected(G), NEW p \in Edges(G), NEW v \in p
  PROVE  \E w \in G.nodes : p = {v, w} /\ w # v
<1>1. IsFiniteSet(p) /\ Cardinality(p) = 2 /\ p \subseteq G.nodes
  BY FS_Subset DEF Undirected
<1>2. IsFiniteSet(p \ {v}) /\ Cardinality(p \ {v}) = 1
  BY <1>1, FS_RemoveElement
<1>3. PICK w \in p \ {v} : TRUE
  BY <1>2, FS_EmptySet
<1>4. IsFiniteSet((p \ {v}) \ {w}) /\ Cardinality((p \ {v}) \ {w}) = 0
  BY <1>2, FS_RemoveElement
<1>5. (p \ {v}) \ {w} = {}
  BY <1>4, FS_EmptySet
<1>. QED BY <1>1, <1>3, <1>5

\* Where no two neighbours of v are connected, its removal takes away no triangle.
LEMMA TrianglesKept ==
  ASSUME NEW G, Undirected(G), NEW v \in G.nodes, Inside(G, v) = {},
         NEW u \in G.nodes \ {v}
  PROVE  /\ Neighbours(RemoveNode(G, v), u) = Neighbours(G, u) \ {v}
         /\ Inside(RemoveNode(G, v), u) = Inside(G, u)
<1> DEFINE H == RemoveNode(G, v)
<1>1. H.nodes = G.nodes \ {v} /\ Edges(H) = {p \in Edges(G) : v \notin p}
  BY RemovedIs DEF Undirected
<1> HIDE DEF H
<1>2. Neighbours(H, u) = Neighbours(G, u) \ {v}
  BY <1>1 DEF Neighbours
<1>3. ASSUME NEW p \in Inside(G, u) PROVE v \notin p
  <2> SUFFICES ASSUME v \in p PROVE FALSE
    OBVIOUS
  <2>1. PICK w \in G.nodes : p = {v, w} /\ w # v
    BY OtherEnd DEF Inside
  <2>2. {v, w} \in Edges(G) /\ {v, u} \in Edges(G) /\ {w, u} \in Edges(G)
    BY <2>1 DEF Inside, Neighbours
  <2>3. w \in Neighbours(G, v) /\ u \in Neighbours(G, v)
    <3>1. {w, v} = {v, w} /\ {u, v} = {v, u}
      OBVIOUS
    <3>. QED BY <2>2, <3>1 DEF Neighbours
  <2>4. {w, u} \in Inside(G, v)
    BY <2>2, <2>3 DEF Inside
  <2>. QED BY <2>4
<1>4. Inside(H, u) = Inside(G, u)
  <2>1. \A p : p \in Inside(H, u) <=> p \in Inside(G, u)
    BY <1>1, <1>2, <1>3 DEF Inside
  <2>. QED BY <2>1
<1>. QED BY <1>2, <1>4 DEF H

\* So nobody's clustering falls.
LEMMA ClusteringKept ==
  ASSUME NEW G, Undirected(G), NEW v \in G.nodes, Inside(G, v) = {},
         NEW u \in G.nodes \ {v}
  PROVE  Clustering(G, u) <= Clustering(RemoveNode(G, v), u)
<1>0. PICK H : H = RemoveNode(G, v)
  OBVIOUS
<1> SUFFICES Clustering(G, u) <= Clustering(H, u)
  BY <1>0
<1>1. /\ Neighbours(H, u) = Neighbours(G, u) \ {v} /\ Inside(H, u) = Inside(G, u)
      /\ IsFiniteSet(H.nodes) /\ IsFiniteSet(G.nodes)
  BY <1>0, TrianglesKept, RemovedIs DEF Undirected
<1>a. Clustering(H, u) \in Nat
  BY <1>1, ClusteringIsNat
<1>2. IsFiniteSet(Neighbours(G, u)) /\ Cardinality(Neighbours(G, u)) \in Nat /\ Cardinality(Inside(G, u)) \in Nat
  <2>1. Neighbours(G, u) \in SUBSET G.nodes
    BY DEF Neighbours
  <2>2. IsFiniteSet(Neighbours(G, u))
    BY <1>1, <2>1, FS_Subset
  <2>3. Cardinality(Neighbours(G, u)) \in Nat /\ Cardinality(Inside(G, u)) \in Nat
    BY <1>1, ClusteringIsNat
  <2>. QED BY <2>2, <2>3
<1>3. PICK d \in Nat, links \in Nat : d = Cardinality(Neighbours(G, u)) /\ links = Cardinality(Inside(G, u))
  BY <1>2
<1>4. Clustering(G, u) = IF d < 2 THEN 0 ELSE (2 * links * Unit) \div (d * (d - 1))
  BY <1>3, ClusteringOf
<1>5. CASE v \notin Neighbours(G, u)
  <2>1. Neighbours(H, u) = Neighbours(G, u)
    BY <1>1, <1>5
  <2>2. Clustering(H, u) = IF d < 2 THEN 0 ELSE (2 * links * Unit) \div (d * (d - 1))
    BY <1>1, <1>3, <2>1, ClusteringOf
  <2>. QED BY <1>4, <1>a, <2>2
<1>6. CASE v \in Neighbours(G, u)
  <2>1. Cardinality(Neighbours(H, u)) = d - 1 /\ IsFiniteSet(Neighbours(H, u))
    BY <1>1, <1>2, <1>3, <1>6, FS_RemoveElement
  <2>2. CASE d < 2
    BY <1>4, <1>a, <2>2
  <2>3. CASE d = 2
    <3>1. ASSUME NEW p \in Inside(G, u) PROVE FALSE
      <4>1. p \subseteq Neighbours(H, u) /\ Cardinality(p) = 2
        BY <1>1, <3>1 DEF Inside, Undirected
      <4>2. Cardinality(p) <= d - 1
        BY <2>1, <4>1, FS_Subset
      <4>. QED BY <2>3, <4>1, <4>2
    <3>2. links = 0
      BY <1>3, <3>1, FS_EmptySet
    <3>3. Clustering(G, u) = 0
      BY <1>4, <2>3, <3>2, UnitIs
    <3>. QED BY <1>a, <3>3
  <2>4. CASE d > 2
    <3>a. Cardinality(Inside(H, u)) = links /\ ~(Cardinality(Neighbours(H, u)) < 2)
      BY <1>1, <1>3, <2>1, <2>4
    <3>1. Clustering(H, u) = (2 * links * Unit) \div ((d - 1) * ((d - 1) - 1))
      BY <2>1, <3>a, ClusteringOf
    <3>2. PICK e \in Nat : e = d - 2 /\ e > 0 /\ d - 1 = e + 1 /\ d = e + 2 /\ (d - 1) - 1 = e
      BY <2>4
    <3>3. /\ (e + 1) * e \in Nat /\ (e + 2) * (e + 1) \in Nat
          /\ 0 < (e + 1) * e /\ (e + 1) * e <= (e + 2) * (e + 1)
      BY <3>2
    <3>4. 2 * links * Unit \in Nat
      BY UnitIs
    <3>5. (2 * links * Unit) \div ((e + 2) * (e + 1)) <= (2 * links * Unit) \div ((e + 1) * e)
      BY <3>3, <3>4, QuotientsOrdered
    <3>6. Clustering(G, u) = (2 * links * Unit) \div ((e + 2) * (e + 1))
      BY <1>4, <2>4, <3>2
    <3>. QED BY <3>1, <3>2, <3>5, <3>6
  <2>. QED BY <2>2, <2>3, <2>4
<1>. QED BY <1>5, <1>6

LEMMA NoTriangleNoSilo ==
  ASSUME NEW G, Undirected(G), NEW v \in G.nodes, Inside(G, v) = {}
  PROVE  SiloRisk(G, v) <= 0
<1> DEFINE H == RemoveNode(G, v)
<1>0. /\ IsFiniteSet(G.nodes) /\ H.nodes = G.nodes \ {v} /\ IsFiniteSet(H.nodes)
      /\ Cardinality(G.nodes) \in Nat /\ Cardinality(H.nodes) = Cardinality(G.nodes) - 1
  BY RemovedIs, FS_CardinalityType DEF Undirected
<1> SUFFICES ASSUME ~(Cardinality(G.nodes) < 3)
             PROVE  AverageClustering(G) - AverageClustering(H) <= 0
  BY DEF SiloRisk
<1> DEFINE c == [u \in G.nodes |-> Clustering(G, u)]
<1> DEFINE d == [u \in H.nodes |-> Clustering(H, u)]
<1>1. /\ c \in [G.nodes -> Nat] /\ \A u \in G.nodes : c[u] = Clustering(G, u)
      /\ d \in [H.nodes -> Nat] /\ \A u \in H.nodes : d[u] = Clustering(H, u)
  BY <1>0, ClusteringIsNat
<1>2. \A u \in H.nodes : c[u] <= d[u]
  BY <1>0, <1>1, ClusteringKept
<1>3. c[v] = 0
  <2>1. Cardinality(Inside(G, v)) = 0
    BY FS_EmptySet
  <2>2. PICK k \in Nat : k = Cardinality(Neighbours(G, v))
    BY <1>0, ClusteringIsNat
  <2>3. Clustering(G, v) = IF k < 2 THEN 0 ELSE (2 * 0 * Unit) \div (k * (k - 1))
    BY <2>1, <2>2, ClusteringOf
  <2>4. CASE k < 2
    BY <1>1, <2>3, <2>4
  <2>5. CASE ~(k < 2)
    <3>1. k - 1 \in Nat /\ k - 1 > 0 /\ k > 0
      BY <2>5
    <3>2. k * (k - 1) \in Nat /\ k * (k - 1) > 0
      BY <3>1, Products
    <3>3. 2 * 0 * Unit = 0
      BY UnitIs
    <3>4. 0 \div (k * (k - 1)) = 0
      <4>1. PICK m \in Nat : m = k * (k - 1) /\ m > 0
        BY <3>2
      <4>2. 0 \div m = 0
        BY <4>1
      <4>. QED BY <4>1, <4>2
    <3>. QED BY <1>1, <2>3, <2>5, <3>3, <3>4
  <2>. QED BY <2>4, <2>5
<1>4. /\ AverageClustering(G) = Total(c, G.nodes) \div Cardinality(G.nodes)
      /\ AverageClustering(H) = Total(d, H.nodes) \div Cardinality(H.nodes)
  BY <1>0, ClusteringIsNat, AverageIs
<1> HIDE DEF c, d, H
<1>5. Total(c, G.nodes) = c[v] + Total(c, G.nodes \ {v}) /\ Total(c, G.nodes) \in Nat
      /\ Total(c, G.nodes \ {v}) \in Nat
  BY <1>0, <1>1, TotalUnfolds
<1>6. Total(c, H.nodes) <= Total(d, H.nodes) /\ Total(d, H.nodes) \in Nat
  <2>1. \A u \in H.nodes : c[u] \in Nat /\ c[u] <= d[u]
    BY <1>0, <1>1, <1>2
  <2>2. Total(c, H.nodes) <= Total(d, H.nodes)
    BY <1>0, <1>1, <2>1, TotalAtMost
  <2>. QED BY <1>0, <1>1, <2>2, TotalUnfolds
<1>7. PICK a \in Nat, b \in Nat, n \in Nat :
        /\ a = Total(c, G.nodes) /\ b = Total(d, H.nodes) /\ n = Cardinality(G.nodes) /\ a <= b
  BY <1>0, <1>3, <1>5, <1>6
<1>8. n - 1 \in Nat /\ 0 < n - 1 /\ n - 1 <= n /\ n > 0
  BY <1>7
<1>9. a \div n <= b \div (n - 1)
  BY <1>7, <1>8, QuotientsOrdered
<1>10. a \div n \in Nat /\ b \div (n - 1) \in Nat
  BY <1>7, <1>8, Quotients
<1>. QED BY <1>0, <1>4, <1>7, <1>9, <1>10

\* A node without neighbours reaches itself alone.
LEMMA NobodyReached ==
  ASSUME NEW G, IsFiniteSet(G.nodes), NEW v \in G.nodes, Neighbours(G, v) = {}
  PROVE  Closeness(G, v) = 0
<1> DEFINE N == Cardinality(G.nodes)
<1> DEFINE ring == Rings(G, v)
<1>1. N \in Nat
  BY FS_CardinalityType
<1>2. /\ ring[0] = {v}
      /\ \A d \in 1..N : ring[d] = ring[d - 1] \cup UNION {Neighbours(G, u) : u \in ring[d - 1]}
  BY RingsAre
<1>3. Reachable(G, v) = ring[N]
  BY DEF Reachable
<1> HIDE DEF ring, N
<1> DEFINE T == {n \in Nat : n <= N => ring[n] = {v}}
<1>4. 0 \in T
  BY <1>2
<1>5. ASSUME NEW n \in T PROVE n + 1 \in T
  <2> SUFFICES ASSUME n + 1 <= N PROVE ring[n + 1] = {v}
    OBVIOUS
  <2>1. n <= N /\ n + 1 \in 1..N /\ (n + 1) - 1 = n
    BY <1>1
  <2>2. ring[n + 1] = ring[n] \cup UNION {Neighbours(G, u) : u \in ring[n]}
    BY <1>2, <2>1
  <2>3. ring[n] = {v}
    BY <2>1
  <2>. QED BY <2>2, <2>3
<1>6. T \in SUBSET Nat
  OBVIOUS
<1>7. T = Nat
  <2> HIDE DEF T
  <2>. QED BY <1>4, <1>5, <1>6, EveryNatural
<1>8. Reachable(G, v) = {v}
  BY <1>1, <1>3, <1>7
<1>9. Cardinality(Reachable(G, v)) = 1
  BY <1>8, FS_Singleton
<1>. QED BY <1>9 DEF Closeness

\* A result speaks of a silo, or of caution, only where two engineers whom the
\* candidate connects to work together already; a candidate without connections
\* is neutral (silo_risk and the report's recommendation).
THEOREM SilosNeedTriangles == SimulationSpec => []RiskMeansTriangle
<1>1. SimInv => RiskMeansTriangle
  <2> SUFFICES ASSUME SimInv, NEW k \in 1..Len(samples)
               PROVE  LET peers == Neighbours(base, Candidate)
                          advice == Advice(samples[k].closeness, samples[k].silo) IN
                      /\ samples[k].silo > 0 \/ advice = "caution" => \E p \in Edges(base) : p \subseteq peers
                      /\ peers = {} => advice = "neutral"
    BY DEF RiskMeansTriangle
  <2>1. /\ samples \in Seq([closeness : Nat, silo : Int]) /\ k \in DOMAIN samples
        /\ base.nodes \subseteq Engineer \cup {Candidate}
    BY DEF SimInv, SimulationTypeOK
  <2>2. Candidate \in base.nodes
    BY <2>1 DEF SimInv
  <2>3. Undirected(base)
    BY <2>1, EngineersAreFinite DEF SimInv, SimulationTypeOK, Undirected
  <2>4. PICK closeness \in Nat, silo \in Int :
          /\ closeness = Closeness(base, Candidate) /\ silo = SiloRisk(base, Candidate)
          /\ samples[k].closeness = closeness /\ samples[k].silo = silo
    BY <2>1, <2>2, <2>3, ClosenessIsNat, SiloRiskIsInt DEF SimInv, Sample, Undirected
  <2>5. silo <= 0 => Advice(closeness, silo) # "caution"
    BY UnitIs DEF Advice
  <2>6. closeness = 0 /\ silo <= 0 => Advice(closeness, silo) = "neutral"
    BY UnitIs DEF Advice
  <2>7. Inside(base, Candidate) = {} => silo <= 0
    BY <2>2, <2>3, <2>4, NoTriangleNoSilo
  <2>8. Neighbours(base, Candidate) = {} => closeness = 0 /\ Inside(base, Candidate) = {}
    <3> SUFFICES ASSUME Neighbours(base, Candidate) = {}
                 PROVE  closeness = 0 /\ Inside(base, Candidate) = {}
      OBVIOUS
    <3>1. ASSUME NEW p \in Inside(base, Candidate) PROVE FALSE
      <4>1. p = {} /\ Cardinality(p) = 2
        BY <2>3, <3>1 DEF Inside, Undirected
      <4>. QED BY <4>1, FS_EmptySet
    <3>. QED BY <2>2, <2>3, <2>4, <3>1, NobodyReached DEF Undirected
  <2>. QED BY <2>4, <2>5, <2>6, <2>7, <2>8 DEF Inside
<1>. QED BY <1>1, SimulationInitial, SimulationStep, PTL DEF SimulationSpec

\* The state of the engine stays within its types, whatever the constants are.
THEOREM SimulationTypes == SimulationSpec => []SimulationTypeOK
<1>1. SimInv => SimulationTypeOK
  BY DEF SimInv
<1>. QED BY <1>1, SimulationInitial, SimulationStep, PTL DEF SimulationSpec

------------------------------------------------------------------------------
(* Who can be reached *)

\* A set that nobody leaves by an edge.
Closed(G, s) == \A u \in s : Neighbours(G, u) \subseteq s

\* Each step but the last adds a node.
LEMMA RingsFill ==
  ASSUME NEW G, IsFiniteSet(G.nodes), NEW v \in G.nodes
  PROVE  \A d \in 0..Cardinality(G.nodes) :
           Closed(G, Rings(G, v)[d]) \/ d + 1 <= Cardinality(Rings(G, v)[d])
<1> DEFINE N == Cardinality(G.nodes)
<1> DEFINE ring == Rings(G, v)
<1>1. N \in Nat
  BY FS_CardinalityType
<1>2. /\ ring[0] = {v}
      /\ \A d \in 1..N : ring[d] = ring[d - 1] \cup UNION {Neighbours(G, u) : u \in ring[d - 1]}
  BY RingsAre
<1>3. \A d \in 0..N : ring[d] \subseteq G.nodes
  BY RingsGrow
<1>4. \A d \in 0..N : IsFiniteSet(ring[d]) /\ Cardinality(ring[d]) \in Nat /\ Cardinality(ring[d]) <= N
  BY <1>1, <1>3, FS_Subset, FS_CardinalityType
<1> HIDE DEF ring, N
<1> DEFINE T == {n \in Nat : n <= N => Closed(G, ring[n]) \/ n + 1 <= Cardinality(ring[n])}
<1>5. 0 \in T
  <2>1. Cardinality(ring[0]) = 1
    BY <1>2, FS_Singleton
  <2>. QED BY <2>1
<1>6. ASSUME NEW n \in T PROVE n + 1 \in T
  <2> SUFFICES ASSUME n + 1 <= N
               PROVE  Closed(G, ring[n + 1]) \/ n + 2 <= Cardinality(ring[n + 1])
    OBVIOUS
  <2>1. n <= N /\ n + 1 \in 1..N /\ (n + 1) - 1 = n /\ n \in 0..N /\ n + 1 \in 0..N
    BY <1>1
  <2>2. ring[n + 1] = ring[n] \cup UNION {Neighbours(G, u) : u \in ring[n]}
    BY <1>2, <2>1
  <2>3. CASE Closed(G, ring[n])
    <3>1. ring[n + 1] = ring[n]
      BY <2>2, <2>3 DEF Closed
    <3>. QED BY <2>3, <3>1
  <2>4. CASE ~Closed(G, ring[n])
    <3>1. PICK w \in ring[n + 1] : w \notin ring[n]
      BY <2>2, <2>4 DEF Closed
    <3>2. n + 1 <= Cardinality(ring[n])
      BY <2>1, <2>4
    <3>3. IsFiniteSet(ring[n] \cup {w}) /\ Cardinality(ring[n] \cup {w}) = Cardinality(ring[n]) + 1
      BY <1>4, <2>1, <3>1, FS_AddElement
    <3>4. ring[n] \cup {w} \subseteq ring[n + 1]
      BY <2>2, <3>1
    <3>5. Cardinality(ring[n] \cup {w}) <= Cardinality(ring[n + 1])
      BY <1>4, <2>1, <3>4, FS_Subset
    <3>. QED BY <1>4, <2>1, <3>2, <3>3, <3>5
  <2>. QED BY <2>3, <2>4
<1>7. T \in SUBSET Nat
  OBVIOUS
<1>8. T = Nat
  <2> HIDE DEF T
  <2>. QED BY <1>5, <1>6, <1>7, EveryNatural
<1>9. \A d \in 0..N : Closed(G, ring[d]) \/ d + 1 <= Cardinality(ring[d])
  BY <1>1, <1>8
<1>. QED BY <1>9 DEF ring, N

\* All that can be reached is reached within as many steps as there are nodes.
LEMMA ReachableClosed ==
  ASSUME NEW G, IsFiniteSet(G.nodes), NEW v \in G.nodes
  PROVE  Closed(G, Reachable(G, v))
<1>1. PICK N \in Nat : N = Cardinality(G.nodes)
  BY FS_CardinalityType
<1>2. Reachable(G, v) \in SUBSET G.nodes /\ Reachable(G, v) = Rings(G, v)[N]
  BY <1>1, ReachableIs DEF Reachable
<1>3. Cardinality(Reachable(G, v)) \in Nat /\ Cardinality(Reachable(G, v)) <= N
  BY <1>1, <1>2, FS_Subset, FS_CardinalityType
<1>4. Closed(G, Rings(G, v)[N]) \/ N + 1 <= Cardinality(Rings(G, v)[N])
  BY <1>1, RingsFill
<1>. QED BY <1>1, <1>2, <1>3, <1>4

\* It is the least closed set: each ring of G, also when only G's edges are
\* followed, stays within it.
LEMMA ReachableLeast ==
  ASSUME NEW G, IsFiniteSet(G.nodes), NEW v \in G.nodes, NEW s, v \in s, Closed(G, s)
  PROVE  Reachable(G, v) \subseteq s
<1> DEFINE N == Cardinality(G.nodes)
<1> DEFINE ring == Rings(G, v)
<1>1. N \in Nat
  BY FS_CardinalityType
<1>2. /\ ring[0] = {v}
      /\ \A d \in 1..N : ring[d] = ring[d - 1] \cup UNION {Neighbours(G, u) : u \in ring[d - 1]}
  BY RingsAre
<1>3. Reachable(G, v) = ring[N]
  BY DEF Reachable
<1> HIDE DEF ring, N
<1> DEFINE T == {n \in Nat : n <= N => ring[n] \subseteq s}
<1>4. 0 \in T
  BY <1>2
<1>5. ASSUME NEW n \in T PROVE n + 1 \in T
  <2> SUFFICES ASSUME n + 1 <= N PROVE ring[n + 1] \subseteq s
    OBVIOUS
  <2>1. n <= N /\ n + 1 \in 1..N /\ (n + 1) - 1 = n
    BY <1>1
  <2>2. ring[n + 1] = ring[n] \cup UNION {Neighbours(G, u) : u \in ring[n]}
    BY <1>2, <2>1
  <2>3. ring[n] \subseteq s
    BY <2>1
  <2>. QED BY <2>2, <2>3 DEF Closed
<1>6. T \in SUBSET Nat
  OBVIOUS
<1>7. T = Nat
  <2> HIDE DEF T
  <2>. QED BY <1>4, <1>5, <1>6, EveryNatural
<1>. QED BY <1>1, <1>3, <1>7

\* A graph with more edges brings nobody further away.
LEMMA RingsWiden ==
  ASSUME NEW G, NEW H, IsFiniteSet(G.nodes), G.nodes = H.nodes, Edges(G) \subseteq Edges(H),
         NEW v \in G.nodes
  PROVE  \A d \in 0..Cardinality(G.nodes) : Rings(G, v)[d] \subseteq Rings(H, v)[d]
<1> DEFINE N == Cardinality(G.nodes)
<1> DEFINE g == Rings(G, v)
<1> DEFINE h == Rings(H, v)
<1>1. N \in Nat
  BY FS_CardinalityType
<1>2. /\ g[0] = {v} /\ h[0] = {v}
      /\ \A d \in 1..N : /\ g[d] = g[d - 1] \cup UNION {Neighbours(G, u) : u \in g[d - 1]}
                         /\ h[d] = h[d - 1] \cup UNION {Neighbours(H, u) : u \in h[d - 1]}
  BY RingsAre
<1>3. \A u : Neighbours(G, u) \subseteq Neighbours(H, u)
  BY DEF Neighbours
<1> HIDE DEF g, h, N
<1> DEFINE T == {n \in Nat : n <= N => g[n] \subseteq h[n]}
<1>4. 0 \in T
  BY <1>2
<1>5. ASSUME NEW n \in T PROVE n + 1 \in T
  <2> SUFFICES ASSUME n + 1 <= N PROVE g[n + 1] \subseteq h[n + 1]
    OBVIOUS
  <2>1. n <= N /\ n + 1 \in 1..N /\ (n + 1) - 1 = n
    BY <1>1
  <2>2. /\ g[n + 1] = g[n] \cup UNION {Neighbours(G, u) : u \in g[n]}
        /\ h[n + 1] = h[n] \cup UNION {Neighbours(H, u) : u \in h[n]}
    BY <1>2, <2>1
  <2>3. g[n] \subseteq h[n]
    BY <2>1
  <2>. QED BY <1>3, <2>2, <2>3
<1>6. T \in SUBSET Nat
  OBVIOUS
<1>7. T = Nat
  <2> HIDE DEF T
  <2>. QED BY <1>4, <1>5, <1>6, EveryNatural
<1>8. \A d \in 0..N : g[d] \subseteq h[d]
  BY <1>1, <1>7
<1>. QED BY <1>8 DEF g, h, N

------------------------------------------------------------------------------
(* Ratings *)

LEMMA QuotientsCrossed ==
  ASSUME NEW a \in Nat, NEW b \in Nat, NEW c \in Nat, NEW d \in Nat, 0 < b, 0 < d, a * d <= c * b
  PROVE  a \div b <= c \div d
<1>1. PICK q \in Nat : q = a \div b
  BY Quotients
<1>2. q * b <= a
  BY <1>1
<1>3. (q * b) * d <= a * d
  BY <1>2
<1>4. (q * d) * b = (q * b) * d
  OBVIOUS
<1>5. (q * d) * b <= c * b
  BY <1>3, <1>4
<1>6. q * d <= c
  <2> SUFFICES ASSUME c + 1 <= q * d PROVE FALSE
    OBVIOUS
  <2>1. (c + 1) * b <= (q * d) * b
    OBVIOUS
  <2>2. (c + 1) * b = c * b + b
    OBVIOUS
  <2>. QED BY <1>5, <2>1, <2>2
<1>7. PICK r \in Nat : r = c \div d
  BY Quotients
<1>8. c < (r + 1) * d
  BY <1>7
<1>9. ~(r + 1 <= q)
  <2> SUFFICES ASSUME r + 1 <= q PROVE FALSE
    OBVIOUS
  <2>1. (r + 1) * d <= q * d
    OBVIOUS
  <2>. QED BY <1>6, <1>8, <2>1
<1>. QED BY <1>1, <1>7, <1>9

\* What a rating is made of.
LEMMA RatingIs ==
  ASSUME NEW G, IsFiniteSet(G.nodes), NEW v \in G.nodes
  PROVE  \E n, r, total \in Nat :
           /\ n = Cardinality(G.nodes) /\ r = Cardinality(Reachable(G, v))
           /\ total = TotalDistance(G, v)
           /\ 1 <= r /\ r <= n /\ r - 1 <= total
           /\ r = 1 => Closeness(G, v) = 0 /\ NxCloseness(G, v) = 0
           /\ r # 1 =>
                /\ r - 1 \in Nat /\ n - 1 \in Nat /\ 0 < n - 1 /\ 0 < r - 1 /\ 0 < total
                /\ total * (n - 1) \in Nat /\ 0 < total * (n - 1)
                /\ Unit * r * (r - 1) \in Nat /\ Unit * (r - 1) * (r - 1) \in Nat
                /\ Closeness(G, v) = (Unit * r * (r - 1)) \div (total * (n - 1))
                /\ NxCloseness(G, v) = (Unit * (r - 1) * (r - 1)) \div (total * (n - 1))
<1>1. PICK n \in Nat, r \in Nat, total \in Nat :
        /\ n = Cardinality(G.nodes) /\ r = Cardinality(Reachable(G, v))
        /\ total = TotalDistance(G, v)
        /\ 1 <= r /\ r <= n /\ r - 1 <= total
  BY ReachableIs, DistanceIs
<1>2. CASE r = 1
  BY <1>1, <1>2 DEF Closeness, NxCloseness
<1>3. CASE r # 1
  <2>1. r - 1 \in Nat /\ n - 1 \in Nat /\ 0 < n - 1 /\ 0 < r - 1 /\ 0 < total
    BY <1>1, <1>3
  <2>2. total * (n - 1) \in Nat /\ 0 < total * (n - 1)
    BY <2>1, Products
  <2>3. Unit * r * (r - 1) \in Nat /\ Unit * (r - 1) * (r - 1) \in Nat
    BY <2>1, Products, UnitIs
  <2>4. /\ Closeness(G, v) = (Unit * r * (r - 1)) \div (total * (n - 1))
        /\ NxCloseness(G, v) = (Unit * (r - 1) * (r - 1)) \div (total * (n - 1))
    BY <1>1, <1>3 DEF Closeness, NxCloseness
  <2>. QED BY <1>1, <1>3, <2>1, <2>2, <2>3, <2>4
<1>. QED BY <1>2, <1>3

\* With more edges the same nodes are no further away.
LEMMA CloserByEdges ==
  ASSUME NEW G, NEW H, IsFiniteSet(G.nodes), G.nodes = H.nodes, Edges(G) \subseteq Edges(H),
         NEW v \in G.nodes, Reachable(G, v) = Reachable(H, v)
  PROVE  TotalDistance(H, v) <= TotalDistance(G, v)
<1> DEFINE S == 0..Cardinality(G.nodes)
<1> DEFINE g == Beyond(G, v)
<1> DEFINE h == Beyond(H, v)
<1>1. /\ IsFiniteSet(S) /\ g \in [S -> Nat] /\ h \in [S -> Nat]
      /\ TotalDistance(G, v) = Total(g, S) /\ TotalDistance(H, v) = Total(h, S)
  BY DistanceSums
<1>2. ASSUME NEW d \in S PROVE h[d] <= g[d]
  <2>1. Rings(G, v)[d] \subseteq Rings(H, v)[d] /\ Rings(H, v)[d] \subseteq G.nodes
    BY RingsWiden, RingsGrow
  <2>2. IsFiniteSet(Rings(H, v)[d])
    BY <2>1, FS_Subset
  <2>3. Cardinality(Rings(G, v)[d]) <= Cardinality(Rings(H, v)[d])
    BY <2>1, <2>2, FS_Subset
  <2>4. /\ Cardinality(Rings(G, v)[d]) \in Nat /\ Cardinality(Rings(H, v)[d]) \in Nat
        /\ Cardinality(Reachable(G, v)) \in Nat
    BY ReachableIs
  <2>. QED BY <2>3, <2>4 DEF Beyond
<1> HIDE DEF g, h, S
<1>3. Total(h, S) <= Total(g, S)
  BY <1>1, <1>2, TotalAtMost
<1>. QED BY <1>1, <1>3

LEMMA RatedHigher ==
  ASSUME NEW G, NEW H, IsFiniteSet(G.nodes), G.nodes = H.nodes, Edges(G) \subseteq Edges(H),
         NEW v \in G.nodes, Reachable(G, v) = Reachable(H, v)
  PROVE  Closeness(G, v) <= Closeness(H, v)
<1>1. PICK n, r, g \in Nat :
        /\ n = Cardinality(G.nodes) /\ r = Cardinality(Reachable(G, v))
        /\ g = TotalDistance(G, v)
        /\ r = 1 => Closeness(G, v) = 0
        /\ r # 1 =>
             /\ n - 1 \in Nat /\ 0 < n - 1 /\ g * (n - 1) \in Nat
             /\ Unit * r * (r - 1) \in Nat
             /\ Closeness(G, v) = (Unit * r * (r - 1)) \div (g * (n - 1))
  BY RatingIs
<1>2. PICK m, s, h \in Nat :
        /\ m = Cardinality(H.nodes) /\ s = Cardinality(Reachable(H, v))
        /\ h = TotalDistance(H, v)
        /\ s = 1 => Closeness(H, v) = 0
        /\ s # 1 =>
             /\ h * (m - 1) \in Nat /\ 0 < h * (m - 1)
             /\ Closeness(H, v) = (Unit * s * (s - 1)) \div (h * (m - 1))
  BY RatingIs
<1>3. n = m /\ r = s /\ h <= g
  BY <1>1, <1>2, CloserByEdges
<1>4. CASE r = 1
  BY <1>1, <1>2, <1>3, <1>4
<1>5. CASE r # 1
  <2>1. h * (n - 1) <= g * (n - 1)
    BY <1>1, <1>3, <1>5
  <2>2. PICK a \in Nat, x \in Nat, y \in Nat :
          a = Unit * r * (r - 1) /\ x = g * (n - 1) /\ y = h * (n - 1)
    BY <1>1, <1>2, <1>3, <1>5
  <2>3. Closeness(G, v) = a \div x /\ Closeness(H, v) = a \div y /\ 0 < y /\ y <= x
    BY <1>1, <1>2, <1>3, <1>5, <2>1, <2>2
  <2>. QED BY <2>3, QuotientsOrdered
<1>. QED BY <1>4, <1>5

\* Nobody is rated above who is next to everybody.
LEMMA RatedAtMost ==
  ASSUME NEW G, IsFiniteSet(G.nodes), NEW v \in G.nodes, NEW n \in Nat,
         n = Cardinality(G.nodes), 2 <= n
  PROVE  Closeness(G, v) <= (n * Unit) \div (n - 1)
<1>0. PICK m, r, total \in Nat :
        /\ m = Cardinality(G.nodes) /\ r = Cardinality(Reachable(G, v))
        /\ total = TotalDistance(G, v)
        /\ 1 <= r /\ r <= m /\ r - 1 <= total
        /\ r = 1 => Closeness(G, v) = 0
        /\ r # 1 =>
             /\ total * (m - 1) \in Nat /\ 0 < total * (m - 1)
             /\ Unit * r * (r - 1) \in Nat
             /\ Closeness(G, v) = (Unit * r * (r - 1)) \div (total * (m - 1))
  BY RatingIs
<1>1. m = n
  BY <1>0
<1>2. n - 1 \in Nat /\ 0 < n - 1 /\ n * Unit \in Nat
  BY UnitIs
<1>3. CASE r = 1
  BY <1>0, <1>2, <1>3, Quotients
<1>4. CASE r # 1
  <2>1. r - 1 \in Nat /\ r * (r - 1) <= n * total
    <3>1. r * (r - 1) <= n * (r - 1)
      BY <1>0, <1>1
    <3>2. n * (r - 1) <= n * total
      BY <1>0, <1>1
    <3>. QED BY <1>0, <1>1, <3>1, <3>2
  <2>2. PICK p \in Nat, q \in Nat, k \in Nat : p = r * (r - 1) /\ q = n * total /\ k = n - 1
    BY <1>2, <2>1, Products
  <2>3. (Unit * p) * k <= (Unit * q) * k
    <3>1. p <= q
      BY <2>1, <2>2
    <3>2. Unit * p <= Unit * q /\ Unit * p \in Nat /\ Unit * q \in Nat
      BY <3>1, UnitIs
    <3>. QED BY <3>2
  <2>4. (Unit * q) * k = (n * Unit) * (total * k)
    <3>1. PICK u \in Nat : u = Unit
      BY UnitIs
    <3>2. (u * (n * total)) * k = (n * u) * (total * k)
      OBVIOUS
    <3>. QED BY <2>2, <3>1, <3>2
  <2>5. Unit * p = Unit * r * (r - 1)
    BY <1>0, <2>2, UnitIs
  <2>6. (Unit * r * (r - 1)) * (n - 1) <= (n * Unit) * (total * (n - 1))
    BY <2>2, <2>3, <2>4, <2>5
  <2>. QED BY <1>0, <1>1, <1>2, <1>4, <2>6, QuotientsCrossed
<1>. QED BY <1>3, <1>4

\* Who is next to everybody.
LEMMA HubRated ==
  ASSUME NEW G, IsFiniteSet(G.nodes), NEW v \in G.nodes, NEW n \in Nat,
         n = Cardinality(G.nodes), 2 <= n, G.nodes \subseteq Neighbours(G, v) \cup {v}
  PROVE  Closeness(G, v) = (n * Unit) \div (n - 1)
<1> DEFINE S == 0..Cardinality(G.nodes)
<1> DEFINE c == Beyond(G, v)
<1>1. \A d \in 1..n : Rings(G, v)[d] = G.nodes
  <2>0. 1..n \subseteq 0..Cardinality(G.nodes)
    OBVIOUS
  <2> SUFFICES ASSUME NEW d \in 1..n PROVE G.nodes \subseteq Rings(G, v)[d]
    BY <2>0, RingsGrow
  <2>1. d - 1 \in 0..n /\ d \in 0..n
    OBVIOUS
  <2>2. Rings(G, v)[d] = Rings(G, v)[d - 1] \cup UNION {Neighbours(G, u) : u \in Rings(G, v)[d - 1]}
    BY RingsAre
  <2>3. v \in Rings(G, v)[d - 1]
    BY <2>1, RingsGrow
  <2>. QED BY <2>2, <2>3
<1>2. Reachable(G, v) = G.nodes
  BY <1>1 DEF Reachable
<1>3. /\ IsFiniteSet(S) /\ 0 \in S /\ c \in [S -> Nat] /\ TotalDistance(G, v) = Total(c, S)
  BY DistanceSums
<1>4. c[0] = n - 1 /\ \A d \in S \ {0} : c[d] = 0
  <2>1. Rings(G, v)[0] = {v} /\ Cardinality({v}) = 1
    BY RingsAre, FS_Singleton
  <2>2. \A d \in S \ {0} : d \in 1..n
    OBVIOUS
  <2>3. \A d \in S : c[d] = n - Cardinality(Rings(G, v)[d])
    BY <1>2 DEF Beyond
  <2> HIDE DEF c
  <2>4. c[0] = n - 1
    BY <1>3, <2>1, <2>3
  <2>5. ASSUME NEW d \in S \ {0} PROVE c[d] = 0
    <3>1. Rings(G, v)[d] = G.nodes
      BY <1>1, <2>2
    <3>. QED BY <2>3, <3>1
  <2>. QED BY <2>4, <2>5
<1> HIDE DEF c, S
<1>5. Heap(c, S \ {0}) = {}
  <2> SUFFICES ASSUME NEW p \in Heap(c, S \ {0}) PROVE FALSE
    OBVIOUS
  <2>1. p[1] \in S \ {0} /\ 1 <= p[2] /\ p[2] <= c[p[1]] /\ p[2] \in Nat
    BY DEF Heap
  <2>. QED BY <1>4, <2>1
<1>6. Total(c, S \ {0}) = 0
  BY <1>5, FS_EmptySet DEF Total
<1>7. TotalDistance(G, v) = n - 1
  BY <1>3, <1>4, <1>6, TotalUnfolds
<1>8. PICK k \in Nat : k = n - 1 /\ 0 < k
  OBVIOUS
<1>9. Closeness(G, v) = (Unit * n * k) \div (k * k)
  BY <1>2, <1>7, <1>8 DEF Closeness
<1>10. n * Unit \in Nat /\ Unit * n * k \in Nat /\ k * k \in Nat /\ 0 < k * k
  BY <1>8, Products, UnitIs
<1>11. (n * Unit) * (k * k) <= (Unit * n * k) * k
  <2>1. PICK u \in Nat : u = Unit
    BY UnitIs
  <2>2. (n * u) * (k * k) = (u * n * k) * k
    OBVIOUS
  <2>3. (u * n * k) * k \in Nat
    BY <1>10, <2>1
  <2>. QED BY <2>1, <2>2, <2>3
<1>12. (n * Unit) \div k <= Closeness(G, v)
  BY <1>8, <1>9, <1>10, <1>11, QuotientsCrossed
<1>13. Closeness(G, v) <= (n * Unit) \div k
  BY <1>8, RatedAtMost
<1>14. Closeness(G, v) \in Nat /\ (n * Unit) \div k \in Nat
  BY <1>8, <1>10, ClosenessIsNat, Quotients
<1>. QED BY <1>8, <1>12, <1>13, <1>14

LEMMA JoinedIs ==
  ASSUME SimInv, NEW peers \in SUBSET team.nodes
  PROVE  /\ Joined(peers).nodes = team.nodes \cup {Candidate}
         /\ Candidate \notin team.nodes
         /\ IsFiniteSet(team.nodes \cup {Candidate})
         /\ Cardinality(team.nodes \cup {Candidate}) = Cardinality(team.nodes) + 1
         /\ Cardinality(team.nodes) \in Nat
         /\ Edges(Joined(peers)) = Edges(ToGraph(team)) \cup {{Candidate, e} : e \in peers}
         /\ Neighbours(Joined(peers), Candidate) = peers
<1> DEFINE shared == [e \in team.nodes |-> IF e \in peers THEN 1 ELSE 0]
<1>1. /\ team \in TeamRec /\ IsFiniteSet(DOMAIN team.weight) /\ team.nodes \subseteq Engineer
      /\ \A l \in DOMAIN team.weight : {l[1], l[3]} \subseteq team.nodes
  BY DEF SimInv, SimulationTypeOK
<1>2. /\ ToGraph(team).nodes = team.nodes
      /\ \A p \in Edges(ToGraph(team)) : p \subseteq team.nodes
  BY <1>1, TeamGraphIs
<1>3. Candidate \notin team.nodes /\ IsFiniteSet(team.nodes)
  BY <1>1, EngineersAreFinite
<1>4. peers = {e \in team.nodes : shared[e] > 0}
  OBVIOUS
<1>5. /\ WithCandidate(ToGraph(team), shared).nodes = team.nodes \cup {Candidate}
      /\ Edges(WithCandidate(ToGraph(team), shared)) =
           Edges(ToGraph(team)) \cup {{Candidate, e} : e \in {e \in team.nodes : shared[e] > 0}}
  BY <1>2 DEF WithCandidate, Edges
<1>6. /\ Joined(peers).nodes = team.nodes \cup {Candidate}
      /\ Edges(Joined(peers)) = Edges(ToGraph(team)) \cup {{Candidate, e} : e \in peers}
  BY <1>4, <1>5 DEF Joined
<1>7. \A u : {u, Candidate} \in Edges(Joined(peers)) <=> u \in peers
  <2> SUFFICES ASSUME NEW u PROVE {u, Candidate} \in Edges(Joined(peers)) <=> u \in peers
    OBVIOUS
  <2>1. {u, Candidate} \notin Edges(ToGraph(team))
    BY <1>2, <1>3
  <2>2. \A e \in peers : {u, Candidate} = {Candidate, e} <=> u = e
    BY <1>3
  <2>. QED BY <1>6, <2>1, <2>2
<1>8. Neighbours(Joined(peers), Candidate) = peers
  BY <1>6, <1>7 DEF Neighbours
<1>9. /\ IsFiniteSet(team.nodes \cup {Candidate})
      /\ Cardinality(team.nodes \cup {Candidate}) = Cardinality(team.nodes) + 1
      /\ Cardinality(team.nodes) \in Nat
  BY <1>3, FS_AddElement, FS_CardinalityType
<1>. QED BY <1>3, <1>6, <1>8, <1>9

\* An edge to somebody who could be reached leads nowhere new.
LEMMA SameReach ==
  ASSUME NEW G, NEW H, IsFiniteSet(G.nodes), G.nodes = H.nodes, NEW v \in G.nodes,
         NEW e \in Reachable(G, v), Edges(H) = Edges(G) \cup {{v, e}}
  PROVE  Reachable(H, v) = Reachable(G, v)
<1>1. Reachable(G, v) \subseteq Reachable(H, v)
  <2>1. Cardinality(G.nodes) \in 0..Cardinality(G.nodes)
    BY FS_CardinalityType
  <2>. QED BY <2>1, RingsWiden DEF Reachable
<1>2. v \in Reachable(G, v)
  BY ReachableIs
<1>3. Closed(H, Reachable(G, v))
  <2> SUFFICES ASSUME NEW u \in Reachable(G, v), NEW w \in Neighbours(H, u)
               PROVE  w \in Reachable(G, v)
    BY DEF Closed
  <2>1. w \in G.nodes /\ {w, u} \in Edges(H)
    BY DEF Neighbours
  <2>2. CASE {w, u} \in Edges(G)
    BY <2>1, <2>2, ReachableClosed DEF Closed, Neighbours
  <2>3. CASE {w, u} = {v, e}
    BY <1>2, <2>3
  <2>. QED BY <2>1, <2>2, <2>3
<1>. QED BY <1>1, <1>2, <1>3, ReachableLeast

\* For any team of at least one: a further shared skill within reach never lowers
\* the rating, and sharing with everybody is the best there is
\* (metrics.closeness_centrality and time_to_value_estimate).
THEOREM OverlapHolds == SimulationSpec => []OverlapWithinReach
<1>1. SimInv => OverlapWithinReach
  <2> SUFFICES ASSUME SimInv PROVE OverlapWithinReach
    OBVIOUS
  <2> DEFINE Rated(peers) == Closeness(Joined(peers), Candidate)
  <2>1. PICK n \in Nat : n = Cardinality(team.nodes) + 1 /\ 2 <= n
    <3>1. team.nodes # {} /\ IsFiniteSet(team.nodes) /\ Cardinality(team.nodes) \in Nat
      BY JoinedIs, EngineersAreFinite DEF SimInv, SimulationTypeOK
    <3>2. Cardinality(team.nodes) # 0
      BY <3>1, FS_EmptySet
    <3>. QED BY <3>1, <3>2
  <2>2. ASSUME NEW peers \in SUBSET team.nodes
        PROVE  /\ IsFiniteSet(Joined(peers).nodes) /\ Candidate \in Joined(peers).nodes
               /\ Cardinality(Joined(peers).nodes) = n
               /\ Joined(peers).nodes = team.nodes \cup {Candidate}
               /\ Rated(peers) \in Nat
    BY <2>1, JoinedIs, ClosenessIsNat
  <2>3. Rated(team.nodes) = (n * Unit) \div (n - 1)
    <3>1. Joined(team.nodes).nodes \subseteq Neighbours(Joined(team.nodes), Candidate) \cup {Candidate}
      BY JoinedIs
    <3>. QED BY <2>1, <2>2, <3>1, HubRated
  <2>4. \A peers \in SUBSET team.nodes : Rated(peers) <= Rated(team.nodes)
    BY <2>1, <2>2, <2>3, RatedAtMost
  <2>5. Rated({}) = 0
    <3>1. Neighbours(Joined({}), Candidate) = {}
      BY JoinedIs
    <3>. QED BY <2>2, <3>1, NobodyReached
  <2>6. ASSUME NEW peers \in SUBSET team.nodes, NEW e \in team.nodes \ peers,
               e \in Reachable(Joined(peers), Candidate) \/ peers = {}
        PROVE  Rated(peers) <= Rated(peers \cup {e})
    <3>1. peers \cup {e} \in SUBSET team.nodes
      OBVIOUS
    <3>2. CASE peers = {}
      BY <2>2, <2>5, <3>1, <3>2
    <3>3. CASE e \in Reachable(Joined(peers), Candidate)
      <4>1. Edges(Joined(peers \cup {e})) = Edges(Joined(peers)) \cup {{Candidate, e}}
        BY <3>1, JoinedIs
      <4>2. Joined(peers).nodes = Joined(peers \cup {e}).nodes
        BY <2>2, <3>1
      <4>3. Reachable(Joined(peers), Candidate) = Reachable(Joined(peers \cup {e}), Candidate)
        BY <2>2, <3>3, <4>1, <4>2, SameReach
      <4>. QED BY <2>2, <4>1, <4>2, <4>3, RatedHigher
    <3>. QED BY <2>6, <3>2, <3>3
  <2>7. PICK k \in Nat, c \in Nat :
           k = n - 1 /\ 0 < k /\ c = Rated(team.nodes) /\ k * c = n * Unit
    <3>1. n <= Cardinality(Engineer) + 1
      <4>1. IsFiniteSet(Engineer) /\ team.nodes \subseteq Engineer
        BY EngineersAreFinite DEF SimInv, SimulationTypeOK
      <4>. QED BY <2>1, <4>1, FS_Subset, FS_CardinalityType
    <3>2. PICK k \in Nat, m \in Nat : k = n - 1 /\ 0 < k /\ Unit = m * k
      BY <2>1, <3>1, SizesDivide
    <3>3. PICK x \in Nat : x = n * m
      OBVIOUS
    <3>4. n * Unit = x * k /\ n * Unit \in Nat
      BY <3>2, <3>3
    <3>5. (n * Unit) \div k = x
      BY <3>2, <3>4, Multiples
    <3>6. Rated(team.nodes) = x
      BY <2>3, <3>2, <3>5
    <3> HIDE DEF Rated
    <3>. QED BY <3>2, <3>4, <3>6
  <2>8. n < 40 => TimeToValue(Rated(team.nodes)) < 20
    <3> SUFFICES ASSUME n < 40 PROVE TimeToValue(Rated(team.nodes)) < 20
      OBVIOUS
    <3>1. k <= 38 /\ n = k + 1
      BY <2>7
    <3>2. PICK u \in Nat : u = Unit /\ 0 < u
      BY UnitIs
    <3>3. k * c = k * u + u
      BY <2>7, <3>1, <3>2
    <3>4. u < c
      <4> SUFFICES ASSUME c <= u PROVE FALSE
        OBVIOUS
      <4>1. k * c <= k * u /\ k * u \in Nat
        OBVIOUS
      <4>. QED BY <3>2, <3>3, <4>1
    <3>5. u <= 38 * (c - u)
      <4>1. k * (c - u) = u
        BY <3>3
      <4>2. c - u \in Nat
        BY <3>4
      <4>3. k * (c - u) <= 38 * (c - u)
        BY <3>1, <4>2
      <4>. QED BY <4>1, <4>3
    <3>6. 20 * Unit + c \div 2 < 20 * c
      BY <3>2, <3>4, <3>5
    <3>7. (20 * Unit + c \div 2) \div c < 20
      <4>1. PICK m \in Nat : m = 20 * Unit + c \div 2
        BY UnitIs
      <4>2. PICK q \in Nat : q = m \div c
        BY <3>4, Quotients
      <4>3. q * c <= m
        BY <3>2, <3>4, <4>2
      <4>4. ~(20 <= q)
        <5> SUFFICES ASSUME 20 <= q PROVE FALSE
          OBVIOUS
        <5>1. 20 * c <= q * c
          OBVIOUS
        <5>. QED BY <3>6, <4>1, <4>3, <5>1
      <4>. QED BY <4>1, <4>2, <4>4
    <3>8. Rated(team.nodes) = c /\ ~(26 * c <= Unit)
      BY <2>7, <3>2, <3>4
    <3>. QED BY <3>7, <3>8 DEF TimeToValue
  <2>9. TimeToValue(Rated({})) = 520
    BY <2>5, UnitIs DEF TimeToValue
  <2> HIDE DEF Rated
  <2> DEFINE Claim ==
        /\ ((Cardinality(team.nodes) + 1) - 1) * Rated(team.nodes)
              = (Cardinality(team.nodes) + 1) * Unit
        /\ \A peers \in SUBSET team.nodes :
             /\ Rated(peers) <= Rated(team.nodes)
             /\ \A e \in team.nodes \ peers :
                  e \in Reachable(Joined(peers), Candidate) \/ peers = {} =>
                    Rated(peers) <= Rated(peers \cup {e})
        /\ Cardinality(team.nodes) + 1 < 40 => TimeToValue(Rated(team.nodes)) < 20
        /\ TimeToValue(Rated({})) = 520
  <2>10. Claim
    BY <2>1, <2>4, <2>6, <2>7, <2>8, <2>9
  <2>11. OverlapWithinReach <=> (stage = "idle" => Claim)
    BY Zenon DEF OverlapWithinReach, Rated
  <2> HIDE DEF Claim
  <2>. QED BY <2>10, <2>11
<1>. QED BY <1>1, SimulationInitial, SimulationStep, PTL DEF SimulationSpec

------------------------------------------------------------------------------
(* Departures *)

LEMMA ImageIsSmaller ==
  ASSUME NEW S, IsFiniteSet(S), NEW f
  PROVE  /\ IsFiniteSet({f[x] : x \in S})
         /\ Cardinality({f[x] : x \in S}) \in Nat /\ Cardinality({f[x] : x \in S}) <= Cardinality(S)
<1> DEFINE T == {f[x] : x \in S}
<1> DEFINE g == [x \in S |-> f[x]]
<1>1. g \in Surjection(S, T)
  BY DEF Surjection
<1> HIDE DEF g, T
<1>2. IsFiniteSet(T) /\ Cardinality(T) <= Cardinality(S)
  BY <1>1, FS_Surjection
<1>3. Cardinality(T) \in Nat
  BY <1>2, FS_CardinalityType
<1>. QED BY <1>2, <1>3 DEF T

\* Reachability is an equivalence.
LEMMA ReachIsClass ==
  ASSUME NEW G, Undirected(G), NEW u \in G.nodes, NEW w \in Reachable(G, u)
  PROVE  w \in G.nodes /\ Reachable(G, w) = Reachable(G, u) /\ u \in Reachable(G, w)
<1>0. IsFiniteSet(G.nodes)
  BY DEF Undirected
<1>1. \A x \in G.nodes : Reachable(G, x) \subseteq G.nodes /\ x \in Reachable(G, x) /\ Closed(G, Reachable(G, x))
  BY <1>0, ReachableIs, ReachableClosed
<1>2. \A x \in G.nodes : \A y \in Reachable(G, x) : Reachable(G, y) \subseteq Reachable(G, x)
  BY <1>0, <1>1, ReachableLeast
<1>3. u \in Reachable(G, w)
  <2> DEFINE s == {x \in G.nodes : u \in Reachable(G, x)}
  <2>1. Closed(G, s)
    <3> SUFFICES ASSUME NEW x \in s, NEW y \in Neighbours(G, x) PROVE y \in s
      BY DEF Closed
    <3>1. y \in G.nodes /\ {y, x} \in Edges(G)
      BY DEF Neighbours
    <3>2. {y, x} = {x, y}
      OBVIOUS
    <3>3. x \in Neighbours(G, y)
      BY <3>1, <3>2 DEF Neighbours
    <3>4. x \in Reachable(G, y)
      BY <1>1, <3>1, <3>3 DEF Closed
    <3>. QED BY <1>2, <3>1, <3>4
  <2>2. u \in s
    BY <1>1
  <2> HIDE DEF s
  <2>3. Reachable(G, u) \subseteq s
    BY <1>0, <2>1, <2>2, ReachableLeast
  <2>. QED BY <2>3 DEF s
<1>. QED BY <1>1, <1>2, <1>3

\* What a departure leaves.
LEMMA LeftIs ==
  ASSUME NEW G, Undirected(G), NEW e \in G.nodes
  PROVE  /\ RemoveNode(G, e).nodes = G.nodes \ {e}
         /\ Undirected(RemoveNode(G, e))
         /\ Cardinality(RemoveNode(G, e).nodes) = Cardinality(G.nodes) - 1
         /\ \A u : Neighbours(RemoveNode(G, e), u) \subseteq Neighbours(G, u)
         /\ \A u \in G.nodes \ {e} : Neighbours(RemoveNode(G, e), u) = Neighbours(G, u) \ {e}
         /\ \A u \in G.nodes \ {e} : Reachable(RemoveNode(G, e), u) \subseteq Reachable(G, u)
<1> DEFINE H == RemoveNode(G, e)
<1>0. IsFiniteSet(G.nodes)
  BY DEF Undirected
<1>1. /\ H.nodes = G.nodes \ {e} /\ IsFiniteSet(H.nodes)
      /\ Cardinality(H.nodes) = Cardinality(G.nodes) - 1
      /\ Edges(H) = {p \in Edges(G) : e \notin p}
  BY <1>0, RemovedIs
<1> HIDE DEF H
<1>2. Undirected(H)
  BY <1>1 DEF Undirected
<1>3. \A u : Neighbours(H, u) \subseteq Neighbours(G, u)
  BY <1>1 DEF Neighbours
<1>4. \A u \in G.nodes \ {e} : Neighbours(H, u) = Neighbours(G, u) \ {e}
  BY <1>1 DEF Neighbours
<1>5. ASSUME NEW u \in G.nodes \ {e} PROVE Reachable(H, u) \subseteq Reachable(G, u)
  <2>1. u \in Reachable(G, u) /\ Closed(G, Reachable(G, u))
    BY <1>0, ReachableIs, ReachableClosed
  <2>2. Closed(H, Reachable(G, u))
    BY <1>3, <2>1 DEF Closed
  <2>. QED BY <1>1, <2>1, <2>2, ReachableLeast
<1>. QED BY <1>1, <1>2, <1>3, <1>4, <1>5 DEF H

\* Who could not reach the leaver reaches whom it could.
LEMMA FarFromLeaver ==
  ASSUME NEW G, Undirected(G), NEW e \in G.nodes, NEW p \in G.nodes \ Reachable(G, e)
  PROVE  /\ p \in G.nodes \ {e} /\ e \notin Reachable(G, p)
         /\ Reachable(RemoveNode(G, e), p) = Reachable(G, p)
<1> DEFINE H == RemoveNode(G, e)
<1>0. IsFiniteSet(G.nodes)
  BY DEF Undirected
<1>1. p \in G.nodes \ {e} /\ e \notin Reachable(G, p)
  BY <1>0, ReachableIs, ReachIsClass
<1>2. /\ H.nodes = G.nodes \ {e} /\ Undirected(H) /\ Reachable(H, p) \subseteq Reachable(G, p)
      /\ \A u \in G.nodes \ {e} : Neighbours(H, u) = Neighbours(G, u) \ {e}
  BY <1>1, LeftIs
<1> HIDE DEF H
<1>3. /\ Reachable(H, p) \subseteq G.nodes \ {e} /\ p \in Reachable(H, p)
      /\ Closed(H, Reachable(H, p)) /\ Closed(G, Reachable(G, p))
  BY <1>0, <1>1, <1>2, ReachableIs, ReachableClosed DEF Undirected
<1>4. Closed(G, Reachable(H, p))
  <2> SUFFICES ASSUME NEW x \in Reachable(H, p), NEW y \in Neighbours(G, x)
               PROVE  y \in Reachable(H, p)
    BY DEF Closed
  <2>1. y # e
    BY <1>1, <1>2, <1>3 DEF Closed
  <2>2. y \in Neighbours(H, x)
    BY <1>2, <1>3, <2>1
  <2>. QED BY <1>3, <2>2 DEF Closed
<1>5. Reachable(G, p) \subseteq Reachable(H, p)
  BY <1>0, <1>1, <1>3, <1>4, ReachableLeast
<1>. QED BY <1>1, <1>2, <1>5 DEF H

\* The components before a departure are those after it, put together, and where a
\* path is lost two of them were one.
LEMMA FragmentedIs ==
  ASSUME NEW G, Undirected(G), NEW e \in G.nodes
  PROVE  Fragmented(G, e) <=>
           \E u, v \in G.nodes \ {e} : PathBetween(G, u, v) /\ ~PathBetween(RemoveNode(G, e), u, v)
<1> DEFINE H == RemoveNode(G, e)
<1> DEFINE before == {Reachable(G, v) : v \in G.nodes}
<1> DEFINE after == {Reachable(H, v) : v \in H.nodes}
<1> DEFINE kept == {Reachable(G, v) : v \in H.nodes}
<1>0. IsFiniteSet(G.nodes)
  BY DEF Undirected
<1>1. /\ H.nodes = G.nodes \ {e} /\ Undirected(H) /\ IsFiniteSet(H.nodes)
      /\ \A v \in H.nodes : Reachable(H, v) \subseteq Reachable(G, v)
  BY LeftIs DEF Undirected
<1>2. Fragmented(G, e) <=> Cardinality(after) > Cardinality(before)
  BY DEF Fragmented, Components
<1> HIDE DEF H
<1>3. /\ \A v \in G.nodes : v \in Reachable(G, v) /\ Reachable(G, v) \subseteq G.nodes
      /\ \A v \in H.nodes : v \in Reachable(H, v) /\ Reachable(H, v) \subseteq H.nodes
  BY <1>0, <1>1, ReachableIs
<1>4. /\ IsFiniteSet(before) /\ Cardinality(before) \in Nat
      /\ IsFiniteSet(after) /\ Cardinality(after) \in Nat
  <2>1. /\ IsFiniteSet(SUBSET G.nodes) /\ before \subseteq SUBSET G.nodes
        /\ IsFiniteSet(SUBSET H.nodes) /\ after \subseteq SUBSET H.nodes
    BY <1>0, <1>1, <1>3, FS_SUBSET
  <2> HIDE DEF before, after
  <2>. QED BY <2>1, FS_Subset, FS_CardinalityType
<1>5. kept \subseteq before /\ IsFiniteSet(kept)
  <2>1. kept \subseteq before
    BY <1>1
  <2> HIDE DEF before, kept
  <2>. QED BY <1>4, <2>1, FS_Subset
<1>6. ASSUME \A u, v \in G.nodes \ {e} : PathBetween(G, u, v) => PathBetween(H, u, v)
      PROVE  Cardinality(after) <= Cardinality(before)
  <2> DEFINE f == [C \in kept |-> C \ {e}]
  <2>1. \A v \in H.nodes : Reachable(H, v) = Reachable(G, v) \ {e}
    BY <1>1, <1>3, <1>6 DEF PathBetween
  <2>2. after = {f[C] : C \in kept}
    BY <2>1
  <2> HIDE DEF f, kept, after, before
  <2>3. Cardinality(after) <= Cardinality(kept)
    BY <1>5, <2>2, ImageIsSmaller
  <2>4. Cardinality(kept) \in Nat /\ Cardinality(kept) <= Cardinality(before)
    BY <1>4, <1>5, FS_Subset, FS_CardinalityType
  <2>. QED BY <1>4, <2>3, <2>4
<1>7. ASSUME NEW u \in G.nodes \ {e}, NEW v \in G.nodes \ {e},
             PathBetween(G, u, v), ~PathBetween(H, u, v)
      PROVE  Cardinality(after) > Cardinality(before)
  <2> DEFINE f == [C \in after |-> UNION {Reachable(G, x) : x \in C}]
  <2> DEFINE less == after \ {Reachable(H, v)}
  <2>1. \A w \in H.nodes : f[Reachable(H, w)] = Reachable(G, w)
    <3> SUFFICES ASSUME NEW w \in H.nodes
                 PROVE  UNION {Reachable(G, x) : x \in Reachable(H, w)} = Reachable(G, w)
      OBVIOUS
    <3>1. \A x \in Reachable(H, w) : Reachable(G, x) = Reachable(G, w)
      BY <1>1, ReachIsClass
    <3>. QED BY <1>3, <3>1
  <2>2. Reachable(H, u) # Reachable(H, v) /\ Reachable(G, u) = Reachable(G, v)
    <3>1. v \in Reachable(G, u) /\ v \notin Reachable(H, u)
      BY <1>7 DEF PathBetween
    <3>. QED BY <1>1, <1>3, <3>1, ReachIsClass
  <2>3. e \in Reachable(G, u)
    <3>1. Reachable(H, u) # Reachable(G, u)
      BY <1>7 DEF PathBetween
    <3>2. u \in Reachable(G, e)
      BY <3>1, FarFromLeaver DEF H
    <3>. QED BY <3>2, ReachIsClass
  <2>4. before = kept
    <3>1. Reachable(G, e) = Reachable(G, u)
      BY <2>3, ReachIsClass
    <3>. QED BY <1>1, <3>1
  <2>5. kept \subseteq {f[C] : C \in less}
    <3> SUFFICES ASSUME NEW w \in H.nodes PROVE \E C \in less : f[C] = Reachable(G, w)
      OBVIOUS
    <3> HIDE DEF f
    <3>1. CASE Reachable(H, w) # Reachable(H, v)
      BY <2>1, <3>1
    <3>2. CASE Reachable(H, w) = Reachable(H, v)
      <4>1. Reachable(G, w) = Reachable(G, v)
        BY <1>1, <2>1, <3>2
      <4>2. Reachable(H, u) \in less /\ f[Reachable(H, u)] = Reachable(G, u)
        BY <1>1, <2>1, <2>2
      <4>. QED BY <2>2, <4>1, <4>2
    <3>. QED BY <3>1, <3>2
  <2>6. Reachable(H, v) \in after
    BY <1>1
  <2> HIDE DEF f, after, before, kept
  <2>7. IsFiniteSet(less) /\ Cardinality(less) = Cardinality(after) - 1
    BY <1>4, <2>6, FS_RemoveElement
  <2> HIDE DEF less
  <2>8. /\ IsFiniteSet({f[C] : C \in less}) /\ Cardinality({f[C] : C \in less}) \in Nat
        /\ Cardinality({f[C] : C \in less}) <= Cardinality(less)
    BY <2>7, ImageIsSmaller
  <2>9. Cardinality(kept) <= Cardinality({f[C] : C \in less})
    BY <2>5, <2>8, FS_Subset
  <2>. QED BY <1>4, <2>4, <2>7, <2>8, <2>9
<1> HIDE DEF before, after
<1>8. (\E u, v \in G.nodes \ {e} : PathBetween(G, u, v) /\ ~PathBetween(H, u, v))
        <=> Cardinality(after) > Cardinality(before)
  BY <1>4, <1>6, <1>7
<1>. QED BY <1>2, <1>8 DEF H

LEMMA DropIs ==
  ASSUME NEW b \in Nat, NEW a \in Nat
  PROVE  /\ DropPct(b, a) \in Int
         /\ b <= a => DropPct(b, a) <= 0
         /\ a = 0 /\ 0 < b => DropPct(b, a) = 10000
<1>1. CASE ~(0 < b)
  BY <1>1 DEF DropPct
<1>2. CASE 0 < b
  <2>1. PICK h \in Nat : h = b \div 2 /\ h < b
    BY <1>2
  <2>2. PICK x \in Int : x = 10000 * (b - a) + h
    OBVIOUS
  <2>3. PICK q \in Int : q = x \div b /\ q * b <= x /\ x < (q + 1) * b
    BY <1>2
  <2>4. DropPct(b, a) = q
    BY <1>2, <2>1, <2>2, <2>3 DEF DropPct
  <2>5. b <= a => q <= 0
    <3> SUFFICES ASSUME b <= a, 1 <= q PROVE FALSE
      BY <2>3
    <3>1. 1 * b <= q * b
      BY <1>2
    <3>2. x < b
      BY <2>1, <2>2
    <3>. QED BY <2>3, <3>1, <3>2
  <2>6. a = 0 => q = 10000
    <3> SUFFICES ASSUME a = 0 PROVE q = 10000
      OBVIOUS
    <3>1. x = 10000 * b + h
      BY <2>2
    <3>2. ~(10001 <= q)
      <4> SUFFICES ASSUME 10001 <= q PROVE FALSE
        OBVIOUS
      <4>1. 10001 * b <= q * b
        BY <1>2
      <4>. QED BY <2>1, <2>3, <3>1, <4>1
    <3>3. ~(q + 1 <= 10000)
      <4> SUFFICES ASSUME q + 1 <= 10000 PROVE FALSE
        OBVIOUS
      <4>1. (q + 1) * b <= 10000 * b
        BY <1>2
      <4>. QED BY <2>1, <2>3, <3>1, <4>1
    <3>. QED BY <3>2, <3>3
  <2>. QED BY <1>2, <2>4, <2>5, <2>6
<1>. QED BY <1>1, <1>2

LEMMA NxIsNat ==
  ASSUME NEW G, IsFiniteSet(G.nodes), NEW v \in G.nodes
  PROVE  NxCloseness(G, v) \in Nat
<1>1. PICK n \in Nat, r \in Nat, total \in Nat :
        /\ n = Cardinality(G.nodes) /\ r = Cardinality(Reachable(G, v))
        /\ total = TotalDistance(G, v)
        /\ 1 <= r /\ r <= n /\ r - 1 <= total
  BY ReachableIs, DistanceIs
<1>2. CASE r = 1
  BY <1>1, <1>2 DEF NxCloseness
<1>3. CASE r # 1
  <2>1. r - 1 \in Nat /\ n - 1 \in Nat /\ n - 1 > 0 /\ total > 0
    BY <1>1, <1>3
  <2>2. total * (n - 1) \in Nat /\ total * (n - 1) > 0
    BY <2>1, Products
  <2>3. Unit * (r - 1) * (r - 1) \in Nat
    BY <2>1, Products, UnitIs
  <2>4. NxCloseness(G, v) = (Unit * (r - 1) * (r - 1)) \div (total * (n - 1))
    BY <1>1, <1>3 DEF NxCloseness
  <2>. QED BY <2>2, <2>3, <2>4, Quotients
<1>. QED BY <1>2, <1>3

\* Such a colleague is no further from anybody, in a smaller team.
LEMMA GainsFarFromLeaver ==
  ASSUME NEW G, Undirected(G), NEW e \in G.nodes, NEW p \in G.nodes \ Reachable(G, e)
  PROVE  NxCloseness(G, p) <= NxCloseness(RemoveNode(G, e), p)
<1> DEFINE H == RemoveNode(G, e)
<1> DEFINE S == 0..Cardinality(G.nodes)
<1> DEFINE T == 0..Cardinality(H.nodes)
<1> DEFINE g == Beyond(G, p)
<1> DEFINE h == Beyond(H, p)
<1>1. /\ p \in G.nodes \ {e} /\ e \notin Reachable(G, p) /\ Reachable(H, p) = Reachable(G, p)
      /\ p \in H.nodes /\ H.nodes = G.nodes \ {e} /\ IsFiniteSet(G.nodes) /\ IsFiniteSet(H.nodes)
      /\ Cardinality(H.nodes) = Cardinality(G.nodes) - 1
      /\ \A u \in G.nodes \ {e} : Neighbours(H, u) = Neighbours(G, u) \ {e}
  BY FarFromLeaver, LeftIs DEF Undirected
<1> HIDE DEF H
<1>2. IsFiniteSet(H.nodes) /\ p \in H.nodes
  BY <1>1
<1>3. PICK n, r, dist \in Nat :
        /\ n = Cardinality(G.nodes) /\ r = Cardinality(Reachable(G, p)) /\ dist = TotalDistance(G, p)
        /\ r = 1 => NxCloseness(G, p) = 0
        /\ r # 1 => /\ 0 < n - 1 /\ dist * (n - 1) \in Nat
                    /\ Unit * (r - 1) * (r - 1) \in Nat
                    /\ NxCloseness(G, p) = (Unit * (r - 1) * (r - 1)) \div (dist * (n - 1))
  BY <1>1, RatingIs
<1>4. PICK m, s, left \in Nat :
        /\ m = Cardinality(H.nodes) /\ s = Cardinality(Reachable(H, p)) /\ left = TotalDistance(H, p)
        /\ s = 1 => NxCloseness(H, p) = 0
        /\ s # 1 => /\ 0 < m - 1 /\ left * (m - 1) \in Nat /\ 0 < left * (m - 1)
                    /\ NxCloseness(H, p) = (Unit * (s - 1) * (s - 1)) \div (left * (m - 1))
  BY <1>2, RatingIs
<1>5. \A d \in T : Rings(G, p)[d] \subseteq Rings(H, p)[d]
  <2>1. /\ Rings(H, p)[0] = {p}
        /\ \A d \in 1..Cardinality(H.nodes) : Rings(H, p)[d] =
             Rings(H, p)[d - 1] \cup UNION {Neighbours(H, u) : u \in Rings(H, p)[d - 1]}
    BY <1>2, RingsAre
  <2>2. /\ Rings(G, p)[0] = {p}
        /\ \A d \in 1..Cardinality(G.nodes) : Rings(G, p)[d] =
             Rings(G, p)[d - 1] \cup UNION {Neighbours(G, u) : u \in Rings(G, p)[d - 1]}
    BY <1>1, RingsAre
  <2>3. /\ Rings(G, p)[0] = {p} /\ Rings(H, p)[0] = {p}
        /\ \A d \in 1..n : Rings(G, p)[d] =
             Rings(G, p)[d - 1] \cup UNION {Neighbours(G, u) : u \in Rings(G, p)[d - 1]}
        /\ \A d \in 1..m : Rings(H, p)[d] =
             Rings(H, p)[d - 1] \cup UNION {Neighbours(H, u) : u \in Rings(H, p)[d - 1]}
    BY <1>3, <1>4, <2>1, <2>2
  <2>4. \A d \in 0..n : Rings(G, p)[d] \subseteq G.nodes \ {e}
    BY <1>1, <1>3, RingsGrow
  <2>5. m = n - 1
    BY <1>1, <1>3, <1>4
  <2> DEFINE K == {d \in Nat : d <= m => Rings(G, p)[d] \subseteq Rings(H, p)[d]}
  <2>6. 0 \in K
    BY <2>3
  <2>7. ASSUME NEW d \in K PROVE d + 1 \in K
    <3> SUFFICES ASSUME d + 1 <= m PROVE Rings(G, p)[d + 1] \subseteq Rings(H, p)[d + 1]
      OBVIOUS
    <3>1. d <= m /\ d + 1 \in 1..m /\ d + 1 \in 1..n /\ d + 1 \in 0..n /\ d \in 0..n /\ (d + 1) - 1 = d
      BY <2>5
    <3>2. /\ Rings(G, p)[d + 1] = Rings(G, p)[d] \cup UNION {Neighbours(G, u) : u \in Rings(G, p)[d]}
          /\ Rings(H, p)[d + 1] = Rings(H, p)[d] \cup UNION {Neighbours(H, u) : u \in Rings(H, p)[d]}
      BY <2>3, <3>1
    <3>3. Rings(G, p)[d] \subseteq Rings(H, p)[d] /\ e \notin Rings(G, p)[d + 1]
      BY <2>4, <3>1
    <3>4. ASSUME NEW u \in Rings(G, p)[d] PROVE Neighbours(G, u) \subseteq Rings(H, p)[d + 1]
      <4>1. u \in G.nodes \ {e} /\ e \notin Neighbours(G, u)
        BY <2>4, <3>1, <3>2, <3>3
      <4>2. Neighbours(G, u) = Neighbours(H, u)
        BY <1>1, <4>1
      <4>. QED BY <3>2, <3>3, <4>2
    <3>. QED BY <3>2, <3>3, <3>4
  <2>8. K \in SUBSET Nat
    OBVIOUS
  <2>9. K = Nat
    <3> HIDE DEF K
    <3>. QED BY <2>6, <2>7, <2>8, EveryNatural
  <2>. QED BY <1>4, <2>9
<1>6. left <= dist
  <2>1. /\ IsFiniteSet(S) /\ g \in [S -> Nat] /\ TotalDistance(G, p) = Total(g, S)
        /\ h \in [T -> Nat] /\ TotalDistance(H, p) = Total(h, T)
    BY <1>1, DistanceSums
  <2>2. T \in SUBSET S
    BY <1>1, <1>3
  <2>3. ASSUME NEW d \in T PROVE h[d] \in Nat /\ h[d] <= g[d]
    <3>1. d \in S
      BY <2>2
    <3>2. IsFiniteSet(Rings(H, p)[d])
      BY <1>1, RingsGrow, FS_Subset
    <3>3. Cardinality(Rings(G, p)[d]) <= Cardinality(Rings(H, p)[d])
      BY <1>5, <3>2, FS_Subset
    <3>7. Cardinality(Rings(H, p)[d]) \in Nat
      BY <3>2, FS_CardinalityType
    <3>4. /\ Cardinality(Rings(G, p)[d]) \in Nat /\ Cardinality(Rings(H, p)[d]) \in Nat
          /\ Cardinality(Reachable(G, p)) \in Nat
      BY <1>1, <3>1, <3>7, ReachableIs
    <3>5. /\ h[d] = Cardinality(Reachable(G, p)) - Cardinality(Rings(H, p)[d])
          /\ g[d] = Cardinality(Reachable(G, p)) - Cardinality(Rings(G, p)[d])
      BY <1>1, <3>1 DEF Beyond
    <3>6. h[d] \in Nat
      BY <2>1
    <3>. QED BY <3>3, <3>4, <3>5, <3>6
  <2> HIDE DEF g, h, S, T
  <2>. QED BY <1>3, <1>4, <2>1, <2>2, <2>3, TotalAtMost
<1>7. CASE r = 1
  <2>1. s = 1
    BY <1>1, <1>3, <1>4, <1>7
  <2>. QED BY <1>3, <1>4, <1>7, <2>1 DEF H
<1>8. CASE r # 1
  <2>1. s = r /\ m = n - 1
    BY <1>1, <1>3, <1>4
  <2>2. 0 < n - 1 /\ 0 < m - 1 /\ m - 1 <= n - 1
    BY <1>3, <1>4, <1>8, <2>1
  <2>3. left * (m - 1) <= left * (n - 1) /\ left * (n - 1) <= dist * (n - 1)
    BY <1>6, <2>2
  <2>4. PICK a \in Nat, x \in Nat, y \in Nat :
          a = Unit * (r - 1) * (r - 1) /\ x = dist * (n - 1) /\ y = left * (m - 1)
    BY <1>3, <1>4, <1>8, <2>1
  <2>5. NxCloseness(G, p) = a \div x /\ NxCloseness(H, p) = a \div y /\ 0 < y
    BY <1>3, <1>4, <1>8, <2>1, <2>4
  <2>6. y <= x
    <3>1. left * (n - 1) \in Int
      BY <1>3, <1>4
    <3>. QED BY <2>3, <2>4, <3>1
  <2>. QED BY <2>5, <2>6, QuotientsOrdered DEF H
<1>. QED BY <1>7, <1>8

LEMMA NoLossFarFromLeaver ==
  ASSUME NEW G, Undirected(G), NEW e \in G.nodes, NEW p \in G.nodes \ Reachable(G, e)
  PROVE  LossOf(G, e, p) <= 0
<1>1. NxCloseness(G, p) <= NxCloseness(RemoveNode(G, e), p)
  BY GainsFarFromLeaver
<1>2. NxCloseness(G, p) \in Nat /\ NxCloseness(RemoveNode(G, e), p) \in Nat
  BY FarFromLeaver, LeftIs, NxIsNat DEF Undirected
<1>. QED BY <1>1, <1>2, DropIs DEF LossOf

\* The sum of the closeness of some of a graph's nodes.
Ratings(G) == [v \in G.nodes |-> NxCloseness(G, v)]

LEMMA SumClosenessIs ==
  ASSUME NEW G, IsFiniteSet(G.nodes), NEW S \in SUBSET G.nodes
  PROVE  /\ IsFiniteSet(S) /\ Ratings(G) \in [G.nodes -> Nat]
         /\ SumCloseness(G, S) = Total(Ratings(G), S) /\ SumCloseness(G, S) \in Nat
<1> DEFINE c == [v \in S |-> NxCloseness(G, v)]
<1>1. \A v \in G.nodes : NxCloseness(G, v) \in Nat
  BY NxIsNat
<1>2. IsFiniteSet(S) /\ c \in [S -> Nat] /\ \A v \in S : c[v] = NxCloseness(G, v)
  BY <1>1, FS_Subset
<1> HIDE DEF c
<1> DEFINE Eq(iter) ==
      iter = [s \in SUBSET S |-> IF s = {} THEN 0
                                 ELSE NxCloseness(G, Pick1(s)) + iter[s \ {Pick1(s)}]]
<1>3. \A iter : Eq(iter) <=> Adds(iter, c, S)
  <2>1. \A s \in SUBSET S : s # {} => Pick1(s) \in S
    BY DEF Pick1
  <2>. QED BY <1>2, <2>1 DEF Adds
<1>4. \E iter : Eq(iter)
  <2>1. Adds([s \in SUBSET S |-> Total(c, s)], c, S)
    BY <1>2, SumsAre
  <2> HIDE DEF Eq
  <2>. QED BY <1>3, <2>1
<1>5. Eq(CHOOSE iter : Eq(iter))
  BY <1>4
<1>6. (CHOOSE iter : Eq(iter))[S] = Total(c, S)
  BY <1>2, <1>3, <1>5, SumsAre
<1>7. SumCloseness(G, S) = (CHOOSE iter : Eq(iter))[S]
  BY DEF SumCloseness, MapThenSumSet, MapThenFoldSet, Pick1
<1>8. Ratings(G) \in [G.nodes -> Nat]
  BY <1>1 DEF Ratings
<1>9. Heap(Ratings(G), S) = Heap(c, S)
  BY <1>2 DEF Heap, Ratings
<1>10. Total(c, S) \in Nat
  BY <1>2, TotalUnfolds
<1>. QED BY <1>2, <1>6, <1>7, <1>8, <1>9, <1>10 DEF Total

\* What both analyses put together.
LEMMA ImpactIs ==
  ASSUME NEW G, Undirected(G), NEW e \in G.nodes
  PROVE  \E n, all, own, peers, left \in Nat :
           /\ n = Cardinality(G.nodes) /\ 1 <= n
           /\ own = NxCloseness(G, e) /\ all = own + peers
           /\ peers = Total(Ratings(G), G.nodes \ {e})
           /\ left = Total(Ratings(RemoveNode(G, e)), G.nodes \ {e})
           /\ AttritionDrop(G, e) = DropPct(peers, left)
           /\ RemovalImpact(G, e) = DropPct((n - 1) * all, n * (IF n = 1 THEN 0 ELSE left))
           /\ AttritionDrop(G, e) \in Int /\ RemovalImpact(G, e) \in Int
<1> DEFINE H == RemoveNode(G, e)
<1>1. H.nodes = G.nodes \ {e} /\ IsFiniteSet(G.nodes) /\ IsFiniteSet(H.nodes)
  BY LeftIs DEF Undirected
<1>2. PICK n \in Nat : n = Cardinality(G.nodes) /\ 1 <= n
  <2>1. Cardinality(G.nodes) \in Nat /\ Cardinality(G.nodes) # 0
    BY <1>1, FS_CardinalityType, FS_EmptySet
  <2>. QED BY <2>1
<1>3. /\ SumCloseness(G, G.nodes) = Total(Ratings(G), G.nodes) /\ SumCloseness(G, G.nodes) \in Nat
      /\ SumCloseness(G, G.nodes \ {e}) = Total(Ratings(G), G.nodes \ {e})
      /\ SumCloseness(G, G.nodes \ {e}) \in Nat
      /\ Ratings(G) \in [G.nodes -> Nat]
  BY <1>1, SumClosenessIs
<1>4. /\ SumCloseness(H, G.nodes \ {e}) = Total(Ratings(H), G.nodes \ {e})
      /\ SumCloseness(H, G.nodes \ {e}) \in Nat
  BY <1>1, SumClosenessIs
<1>5. Total(Ratings(G), G.nodes) = Ratings(G)[e] + Total(Ratings(G), G.nodes \ {e})
  BY <1>1, <1>3, TotalUnfolds
<1>6. Ratings(G)[e] = NxCloseness(G, e) /\ NxCloseness(G, e) \in Nat
  BY <1>1, NxIsNat DEF Ratings
<1>7. PICK all, own, peers, left \in Nat :
        /\ own = NxCloseness(G, e) /\ all = own + peers
        /\ all = SumCloseness(G, G.nodes)
        /\ peers = Total(Ratings(G), G.nodes \ {e}) /\ peers = SumCloseness(G, G.nodes \ {e})
        /\ left = Total(Ratings(H), G.nodes \ {e}) /\ left = SumCloseness(H, G.nodes \ {e})
  BY <1>3, <1>4, <1>5, <1>6
<1>8. AttritionDrop(G, e) = DropPct(peers, left)
  BY <1>7 DEF AttritionDrop
<1>9. RemovalImpact(G, e) = DropPct((n - 1) * all, n * (IF n = 1 THEN 0 ELSE left))
  BY <1>2, <1>7 DEF RemovalImpact
<1>10. DropPct(peers, left) \in Int
  BY DropIs
<1>11. DropPct((n - 1) * all, n * (IF n = 1 THEN 0 ELSE left)) \in Int
  <2>1. n - 1 \in Nat /\ (IF n = 1 THEN 0 ELSE left) \in Nat
    BY <1>2
  <2>2. (n - 1) * all \in Nat /\ n * (IF n = 1 THEN 0 ELSE left) \in Nat
    BY <2>1, Products
  <2>. QED BY <2>2, DropIs
<1> HIDE DEF H
<1>12. /\ n = Cardinality(G.nodes) /\ 1 <= n
       /\ own = NxCloseness(G, e) /\ all = own + peers
       /\ peers = Total(Ratings(G), G.nodes \ {e})
       /\ left = Total(Ratings(H), G.nodes \ {e})
       /\ AttritionDrop(G, e) = DropPct(peers, left)
       /\ RemovalImpact(G, e) = DropPct((n - 1) * all, n * (IF n = 1 THEN 0 ELSE left))
       /\ AttritionDrop(G, e) \in Int /\ RemovalImpact(G, e) \in Int
  BY <1>2, <1>7, <1>8, <1>9, <1>10, <1>11
<1>. QED BY <1>12 DEF H

\* A node without neighbours reaches itself only.
LEMMA AloneReached ==
  ASSUME NEW G, IsFiniteSet(G.nodes), NEW v \in G.nodes, Neighbours(G, v) = {}
  PROVE  Reachable(G, v) = {v} /\ NxCloseness(G, v) = 0
<1>1. Closed(G, {v})
  BY DEF Closed
<1>2. Reachable(G, v) = {v}
  BY <1>1, ReachableLeast, ReachableIs
<1>3. Cardinality(Reachable(G, v)) = 1
  BY <1>2, FS_Singleton
<1>. QED BY <1>2, <1>3 DEF NxCloseness

LEMMA NoLossOfLoner ==
  ASSUME NEW G, Undirected(G), NEW e \in G.nodes, Neighbours(G, e) = {}
  PROVE  RemovalImpact(G, e) <= 0 /\ AttritionDrop(G, e) <= 0
<1> DEFINE H == RemoveNode(G, e)
<1> DEFINE S == G.nodes \ {e}
<1>1. PICK n, all, own, peers, left \in Nat :
        /\ n = Cardinality(G.nodes) /\ 1 <= n
        /\ own = NxCloseness(G, e) /\ all = own + peers
        /\ peers = Total(Ratings(G), S)
        /\ left = Total(Ratings(H), S)
        /\ AttritionDrop(G, e) = DropPct(peers, left)
        /\ RemovalImpact(G, e) = DropPct((n - 1) * all, n * (IF n = 1 THEN 0 ELSE left))
  <2>1. \E n, all, own, peers, left \in Nat :
           /\ n = Cardinality(G.nodes) /\ 1 <= n
           /\ own = NxCloseness(G, e) /\ all = own + peers
           /\ peers = Total(Ratings(G), G.nodes \ {e})
           /\ left = Total(Ratings(RemoveNode(G, e)), G.nodes \ {e})
           /\ AttritionDrop(G, e) = DropPct(peers, left)
           /\ RemovalImpact(G, e) = DropPct((n - 1) * all, n * (IF n = 1 THEN 0 ELSE left))
           /\ AttritionDrop(G, e) \in Int /\ RemovalImpact(G, e) \in Int
    BY ImpactIs, Zenon
  <2>. QED BY <2>1
<1>2. H.nodes = S /\ IsFiniteSet(S) /\ IsFiniteSet(G.nodes)
  <2>1. H.nodes = S /\ IsFiniteSet(H.nodes) /\ IsFiniteSet(G.nodes)
    BY LeftIs DEF Undirected
  <2>. QED BY <2>1
<1>3. Reachable(G, e) = {e} /\ own = 0
  BY <1>1, <1>2, AloneReached
<1>4. Ratings(H) \in [S -> Nat] /\ Ratings(G) \in [G.nodes -> Nat]
  BY <1>2, SumClosenessIs
<1>5. \A x \in S : Ratings(G)[x] \in Nat /\ Ratings(G)[x] <= Ratings(H)[x]
  <2> SUFFICES ASSUME NEW x \in S PROVE Ratings(G)[x] \in Nat /\ Ratings(G)[x] <= Ratings(H)[x]
    OBVIOUS
  <2>1. NxCloseness(G, x) <= NxCloseness(H, x)
    BY <1>3, GainsFarFromLeaver
  <2>2. Ratings(G)[x] = NxCloseness(G, x) /\ Ratings(H)[x] = NxCloseness(H, x)
    BY <1>2 DEF Ratings
  <2>. QED BY <1>4, <2>1, <2>2
<1> HIDE DEF H, S
<1>6. peers <= left
  BY <1>1, <1>2, <1>4, <1>5, TotalAtMost
<1>7. AttritionDrop(G, e) <= 0
  BY <1>1, <1>6, DropIs
<1>8. CASE n = 1
  <2>1. (n - 1) * all = 0 /\ n * 0 = 0
    BY <1>8
  <2>. QED BY <1>1, <1>7, <1>8, <2>1, DropIs
<1>9. CASE n # 1
  <2>1. (n - 1) * all <= n * left /\ (n - 1) * all \in Nat /\ n * left \in Nat
    <3>0. 1 <= n /\ all = own + peers /\ own = 0
      BY <1>1, <1>3
    <3>1. n - 1 \in Nat /\ all = peers
      BY <3>0
    <3>2. (n - 1) * all \in Nat /\ n * left \in Nat
      BY <3>1, Products
    <3>3. (n - 1) * peers <= (n - 1) * left
      BY <1>6, <3>1
    <3>4. (n - 1) * left <= n * left
      OBVIOUS
    <3>. QED BY <3>1, <3>2, <3>3, <3>4
  <2>. QED BY <1>1, <1>7, <1>9, <2>1, DropIs
<1>. QED BY <1>8, <1>9

\* A neighbour of one end of every edge is two steps from all it can reach, so
\* that its closeness is a Unit at least.
LEMMA SpokeIsRated ==
  ASSUME NEW G, Undirected(G), G.nodes \subseteq Engineer, NEW e \in G.nodes,
         Edges(RemoveNode(G, e)) = {}, NEW q \in Neighbours(G, e)
  PROVE  q \in G.nodes \ {e} /\ 1 <= NxCloseness(G, q)
<1> DEFINE S == 0..Cardinality(G.nodes)
<1> DEFINE c == Beyond(G, q)
<1> DEFINE hub == Neighbours(G, e) \cup {e}
<1>1. IsFiniteSet(G.nodes) /\ q \in G.nodes /\ {q, e} \in Edges(G)
  BY DEF Undirected, Neighbours
<1>2. q # e
  <2>1. Cardinality({q, e}) = 2 /\ Cardinality({q}) = 1
    BY <1>1, FS_Singleton DEF Undirected
  <2>2. q = e => {q, e} = {q}
    OBVIOUS
  <2>. QED BY <2>1, <2>2
<1>3. e \in Neighbours(G, q)
  <2>1. {e, q} = {q, e}
    OBVIOUS
  <2>. QED BY <1>1, <2>1 DEF Neighbours
<1>4. Closed(G, hub)
  <2> SUFFICES ASSUME NEW x \in hub, NEW y \in Neighbours(G, x) PROVE y \in hub
    BY DEF Closed
  <2>1. {y, x} \in Edges(G) /\ y \in G.nodes
    BY DEF Neighbours
  <2>2. Edges(RemoveNode(G, e)) = {p \in Edges(G) : e \notin p}
    BY <1>1, RemovedIs
  <2>3. e \in {y, x}
    BY <2>1, <2>2
  <2>4. CASE y = e
    BY <2>4
  <2>5. CASE x = e
    BY <2>5
  <2>. QED BY <2>3, <2>4, <2>5
<1>5. Reachable(G, q) \subseteq hub
  BY <1>1, <1>4, ReachableLeast
<1>6. PICK n, r, total \in Nat :
        /\ n = Cardinality(G.nodes) /\ r = Cardinality(Reachable(G, q))
        /\ total = TotalDistance(G, q)
        /\ 1 <= r /\ r <= n /\ r - 1 <= total
        /\ r # 1 =>
             /\ total * (n - 1) \in Nat /\ 0 < total * (n - 1)
             /\ Unit * (r - 1) * (r - 1) \in Nat
             /\ NxCloseness(G, q) = (Unit * (r - 1) * (r - 1)) \div (total * (n - 1))
  BY <1>1, RatingIs
<1>7. /\ Rings(G, q)[0] = {q}
      /\ \A d \in 1..n : Rings(G, q)[d] =
           Rings(G, q)[d - 1] \cup UNION {Neighbours(G, u) : u \in Rings(G, q)[d - 1]}
      /\ \A d \in 0..n : q \in Rings(G, q)[d] /\ Rings(G, q)[d] \subseteq Reachable(G, q)
  BY <1>1, <1>6, RingsAre, RingsGrow
<1>8. IsFiniteSet({q, e}) /\ Cardinality({q, e}) = 2
  <2>1. IsFiniteSet({q}) /\ Cardinality({q}) = 1
    BY FS_Singleton
  <2>2. IsFiniteSet({q} \cup {e}) /\ Cardinality({q} \cup {e}) = Cardinality({q}) + 1
    <3>1. e \notin {q}
      BY <1>2
    <3>. QED BY <2>1, <3>1, FS_AddElement
  <2>3. {q} \cup {e} = {q, e}
    OBVIOUS
  <2>. QED BY <2>1, <2>2, <2>3
<1>9. IsFiniteSet(Reachable(G, q)) /\ {q, e} \subseteq Reachable(G, q)
  <2>1. Reachable(G, q) \subseteq G.nodes /\ q \in Reachable(G, q) /\ Closed(G, Reachable(G, q))
    BY <1>1, ReachableIs, ReachableClosed
  <2>. QED BY <1>1, <1>3, <2>1, FS_Subset DEF Closed
<1>10. 2 <= r /\ 2 <= n
  <2>1. Cardinality({q, e}) <= Cardinality(Reachable(G, q))
    BY <1>9, FS_Subset
  <2>. QED BY <1>6, <1>8, <2>1
<1>11. \A d \in 1..n : {q, e} \subseteq Rings(G, q)[d]
  <2> SUFFICES ASSUME NEW d \in 1..n PROVE {q, e} \subseteq Rings(G, q)[d]
    OBVIOUS
  <2>1. d \in 0..n /\ d - 1 \in 0..n
    OBVIOUS
  <2>. QED BY <1>3, <1>7, <2>1
<1>12. \A d \in 2..n : Rings(G, q)[d] = Reachable(G, q)
  <2> SUFFICES ASSUME NEW d \in 2..n PROVE Rings(G, q)[d] = Reachable(G, q)
    OBVIOUS
  <2>1. d \in 0..n /\ d \in 1..n /\ d - 1 \in 1..n
    OBVIOUS
  <2>2. hub \subseteq Rings(G, q)[d]
    <3>1. e \in Rings(G, q)[d - 1] /\ e \in Rings(G, q)[d]
      BY <1>11, <2>1
    <3>. QED BY <1>7, <2>1, <3>1
  <2>3. Rings(G, q)[d] \subseteq Reachable(G, q)
    BY <1>7, <2>1
  <2> HIDE DEF hub
  <2>. QED BY <1>5, <2>2, <2>3
<1>13. IsFiniteSet(S) /\ 0 \in S /\ c \in [S -> Nat] /\ total = Total(c, S)
  BY <1>1, <1>6, DistanceSums
<1>14. /\ c[0] = r - 1 /\ c[1] <= r - 2 /\ \A d \in 2..n : c[d] = 0
  <2>1. \A d \in 0..n : c[d] = r - Cardinality(Rings(G, q)[d])
    BY <1>6 DEF Beyond
  <2>2. Cardinality({q}) = 1
    BY FS_Singleton
  <2>3. 2 <= Cardinality(Rings(G, q)[1]) /\ Cardinality(Rings(G, q)[1]) \in Nat
    <3>1. 1 \in 0..n /\ 1 \in 1..n
      BY <1>10
    <3>2. IsFiniteSet(Rings(G, q)[1])
      BY <1>7, <1>9, <3>1, FS_Subset
    <3>3. Cardinality({q, e}) <= Cardinality(Rings(G, q)[1])
      BY <1>11, <3>1, <3>2, FS_Subset
    <3>. QED BY <1>8, <3>2, <3>3, FS_CardinalityType
  <2> HIDE DEF c
  <2>4. c[0] = r - 1
    <3>1. 0 \in 0..n
      BY <1>10
    <3>2. c[0] = r - Cardinality(Rings(G, q)[0])
      BY <2>1, <3>1
    <3>3. Rings(G, q)[0] = {q}
      BY <1>7
    <3>. QED BY <2>2, <3>2, <3>3
  <2>5. c[1] <= r - 2
    <3>1. 1 \in 0..n
      BY <1>10
    <3>2. c[1] = r - Cardinality(Rings(G, q)[1])
      BY <2>1, <3>1
    <3>. QED BY <1>6, <2>3, <3>2
  <2>6. ASSUME NEW d \in 2..n PROVE c[d] = 0
    <3>1. d \in 0..n
      OBVIOUS
    <3>2. c[d] = r - Cardinality(Reachable(G, q))
      BY <1>12, <2>1, <3>1
    <3>. QED BY <1>6, <3>2
  <2>. QED BY <2>4, <2>5, <2>6
<1>15. S = 0..n /\ 1 \in S \ {0}
  BY <1>6, <1>10
<1> HIDE DEF c, S
<1>16. Heap(c, (S \ {0}) \ {1}) = {}
  <2> SUFFICES ASSUME NEW p \in Heap(c, (S \ {0}) \ {1}) PROVE FALSE
    OBVIOUS
  <2>1. p[1] \in (S \ {0}) \ {1} /\ 1 <= p[2] /\ p[2] <= c[p[1]] /\ p[2] \in Nat
    BY DEF Heap
  <2>2. p[1] \in 2..n
    BY <1>15, <2>1
  <2>. QED BY <1>14, <2>1, <2>2
<1>17. total <= (r - 1) + (r - 2)
  <2>1. Total(c, (S \ {0}) \ {1}) = 0
    BY <1>16, FS_EmptySet DEF Total
  <2>2. S \ {0} \in SUBSET S /\ 1 \in S \ {0}
    BY <1>15
  <2>3. Total(c, S \ {0}) = c[1] + Total(c, (S \ {0}) \ {1})
    BY <1>13, <2>2, TotalUnfolds
  <2>4. Total(c, S) = c[0] + Total(c, S \ {0})
    BY <1>13, TotalUnfolds
  <2>5. c[0] \in Nat /\ c[1] \in Nat
    BY <1>13, <1>15
  <2>. QED BY <1>13, <1>14, <2>1, <2>3, <2>4, <2>5
<1>18. PICK k \in Nat : k = r - 1 /\ 1 <= k /\ total <= 2 * k - 1
  BY <1>6, <1>10, <1>17
<1>19. total * (n - 1) <= Unit * k * k
  <2>1. 2 * k - 1 <= k * k
    <3>1. PICK j \in Nat : k = j + 1
      BY <1>18
    <3>2. k * k = j * j + 2 * j + 1 /\ j * j \in Nat
      BY <3>1
    <3>. QED BY <3>1, <3>2
  <2>2. k * k \in Nat /\ total <= k * k /\ n - 1 \in Nat /\ n - 1 <= Unit
    <3>1. k * k \in Nat
      OBVIOUS
    <3>2. n <= Cardinality(Engineer)
      BY <1>6, EngineersAreFinite, FS_Subset
    <3>3. Cardinality(Engineer) \in Nat
      BY EngineersAreFinite, FS_CardinalityType
    <3>4. PICK m \in Nat : 0 < m /\ Unit = m * (n - 1)
      BY <1>10, <3>2, <3>3, SizesDivide
    <3>5. n - 1 \in Nat /\ 1 * (n - 1) <= m * (n - 1)
      BY <1>10, <3>4
    <3>. QED BY <1>10, <1>18, <2>1, <3>1, <3>4, <3>5
  <2>3. PICK w \in Nat, u \in Nat, m \in Nat : w = k * k /\ u = Unit /\ m = n - 1
    BY <2>2, UnitIs
  <2>4. total * m <= w * m /\ w * m <= w * u
    BY <2>2, <2>3
  <2>5. w * u = u * k * k
    BY <2>3
  <2>. QED BY <2>3, <2>4, <2>5
<1>20. 1 <= NxCloseness(G, q)
  <2>1. PICK a \in Nat, b \in Nat : a = Unit * k * k /\ b = total * (n - 1) /\ 0 < b /\ b <= a
    BY <1>6, <1>10, <1>18, <1>19
  <2>2. NxCloseness(G, q) = a \div b
    BY <1>6, <1>10, <1>18, <2>1
  <2>3. 1 \div 1 <= a \div b
    BY <2>1, QuotientsCrossed
  <2>. QED BY <2>2, <2>3
<1>. QED BY <1>1, <1>2, <1>20

LEMMA AllIsLost ==
  ASSUME NEW G, Undirected(G), G.nodes \subseteq Engineer, NEW e \in G.nodes,
         Neighbours(G, e) # {}, Edges(RemoveNode(G, e)) = {}
  PROVE  RemovalImpact(G, e) = 10000 /\ AttritionDrop(G, e) = 10000
<1> DEFINE H == RemoveNode(G, e)
<1> DEFINE S == G.nodes \ {e}
<1>1. PICK n, all, own, peers, left \in Nat :
        /\ n = Cardinality(G.nodes) /\ 1 <= n
        /\ own = NxCloseness(G, e) /\ all = own + peers
        /\ peers = Total(Ratings(G), S)
        /\ left = Total(Ratings(H), S)
        /\ AttritionDrop(G, e) = DropPct(peers, left)
        /\ RemovalImpact(G, e) = DropPct((n - 1) * all, n * (IF n = 1 THEN 0 ELSE left))
  <2>1. \E n, all, own, peers, left \in Nat :
           /\ n = Cardinality(G.nodes) /\ 1 <= n
           /\ own = NxCloseness(G, e) /\ all = own + peers
           /\ peers = Total(Ratings(G), G.nodes \ {e})
           /\ left = Total(Ratings(RemoveNode(G, e)), G.nodes \ {e})
           /\ AttritionDrop(G, e) = DropPct(peers, left)
           /\ RemovalImpact(G, e) = DropPct((n - 1) * all, n * (IF n = 1 THEN 0 ELSE left))
           /\ AttritionDrop(G, e) \in Int /\ RemovalImpact(G, e) \in Int
    BY ImpactIs, Zenon
  <2>. QED BY <2>1
<1>2. /\ H.nodes = S /\ IsFiniteSet(S) /\ IsFiniteSet(G.nodes)
      /\ Cardinality(S) = Cardinality(G.nodes) - 1
  <2>1. /\ H.nodes = S /\ IsFiniteSet(H.nodes) /\ IsFiniteSet(G.nodes)
        /\ Cardinality(H.nodes) = Cardinality(G.nodes) - 1
    BY LeftIs DEF Undirected
  <2>. QED BY <2>1
<1>3. PICK q \in Neighbours(G, e) : q \in S /\ 1 <= NxCloseness(G, q)
  BY SpokeIsRated
<1>4. Ratings(H) \in [S -> Nat] /\ Ratings(G) \in [G.nodes -> Nat]
  BY <1>2, SumClosenessIs
<1>5. \A x \in S : Ratings(H)[x] = 0
  <2> SUFFICES ASSUME NEW x \in S PROVE Ratings(H)[x] = 0
    OBVIOUS
  <2>1. Neighbours(H, x) = {}
    BY DEF Neighbours
  <2>2. IsFiniteSet(H.nodes) /\ x \in H.nodes
    BY <1>2
  <2>3. NxCloseness(H, x) = 0
    BY <2>1, <2>2, AloneReached
  <2>. QED BY <2>2, <2>3 DEF Ratings
<1> HIDE DEF H
<1>6. left = 0
  <2>1. Total(Ratings(H), S) = Cardinality(S) * 0
    BY <1>2, <1>4, <1>5, TotalOfSame
  <2>2. Cardinality(S) \in Nat
    BY <1>2, FS_CardinalityType
  <2>. QED BY <1>1, <2>1, <2>2
<1>7. 1 <= peers
  <2>1. Total(Ratings(G), S) = Ratings(G)[q] + Total(Ratings(G), S \ {q})
    BY <1>2, <1>3, <1>4, TotalUnfolds
  <2>2. Total(Ratings(G), S \ {q}) \in Nat
    BY <1>2, <1>4, TotalUnfolds
  <2>3. Ratings(G)[q] = NxCloseness(G, q) /\ Ratings(G)[q] \in Nat
    BY <1>3, <1>4 DEF Ratings
  <2>. QED BY <1>1, <1>3, <2>1, <2>2, <2>3
<1>8. 2 <= n
  <2>1. Cardinality(S) \in Nat /\ Cardinality(S) # 0
    BY <1>2, <1>3, FS_CardinalityType, FS_EmptySet
  <2>. QED BY <1>1, <1>2, <2>1
<1>9. AttritionDrop(G, e) = 10000
  BY <1>1, <1>6, <1>7, DropIs
<1>10. (n - 1) * all \in Nat /\ 0 < (n - 1) * all /\ n * left = 0
  <2>1. n - 1 \in Nat /\ 0 < n - 1 /\ 0 < all
    BY <1>1, <1>7, <1>8
  <2>. QED BY <1>6, <2>1, Products
<1>11. RemovalImpact(G, e) = DropPct((n - 1) * all, n * left)
  BY <1>1, <1>8
<1>12. RemovalImpact(G, e) = 10000
  BY <1>10, <1>11, DropIs
<1>. QED BY <1>9, <1>12

LEMMA Greatest ==
  ASSUME NEW S, IsFiniteSet(S), S # {}, S \subseteq Int
  PROVE  Max(S) \in S /\ \A y \in S : y <= Max(S)
<1> DEFINE T == {s \in SUBSET S : s # {} => \E x \in s : \A y \in s : y <= x}
<1>1. ASSUME NEW s \in SUBSET S, \A x \in s : s \ {x} \in T PROVE s \in T
  <2> SUFFICES ASSUME s # {} PROVE \E x \in s : \A y \in s : y <= x
    OBVIOUS
  <2>1. PICK z \in s : TRUE
    OBVIOUS
  <2>2. CASE s \ {z} = {}
    BY <2>1, <2>2
  <2>3. CASE s \ {z} # {}
    <3>1. PICK x \in s \ {z} : \A y \in s \ {z} : y <= x
      BY <1>1, <2>1, <2>3
    <3>2. CASE z <= x
      BY <3>1, <3>2
    <3>3. CASE ~(z <= x)
      <4>1. z \in Int /\ x \in Int /\ s \subseteq Int
        BY <2>1, <3>1
      <4>2. \A y \in s : y <= z
        BY <3>1, <3>3, <4>1
      <4>. QED BY <2>1, <4>2
    <3>. QED BY <3>2, <3>3
  <2>. QED BY <2>2, <2>3
<1>2. T \in SUBSET SUBSET S
  OBVIOUS
<1> HIDE DEF T
<1>3. T = SUBSET S
  BY <1>1, <1>2, EverySubset
<1>4. \E x \in S : \A y \in S : x >= y
  BY <1>3 DEF T
<1>. QED BY <1>4 DEF Max

\* The bus factor counts whose impact is above 15 percent, the resilience is what the
\* greatest leaves of 100.
LEMMA ResilienceIs ==
  ASSUME NEW G, Undirected(G), G.nodes # {}
  PROVE  Resilience(G) < 8500 <=> BusFactor(G) > 0
<1> DEFINE f == [e \in G.nodes |-> RemovalImpact(G, e)]
<1> DEFINE many == {e \in G.nodes : RemovalImpact(G, e) > 1500}
<1>0. IsFiniteSet(G.nodes)
  BY DEF Undirected
<1>1. \A e \in G.nodes : RemovalImpact(G, e) \in Int
  BY ImpactIs
<1>2. Impacts(G) = {f[e] : e \in G.nodes}
  BY DEF Impacts
<1>3. Impacts(G) # {} /\ Impacts(G) \subseteq Int
  BY <1>1 DEF Impacts
<1>4. IsFiniteSet(Impacts(G))
  <2> HIDE DEF f
  <2>. QED BY <1>0, <1>2, ImageIsSmaller
<1>5. MaxImpact(G) \in Impacts(G) /\ \A y \in Impacts(G) : y <= MaxImpact(G)
  BY <1>3, <1>4, Greatest DEF MaxImpact
<1>6. MaxImpact(G) > 1500 <=> many # {}
  <2>1. ASSUME MaxImpact(G) > 1500 PROVE many # {}
    BY <1>5, <2>1 DEF Impacts
  <2>2. ASSUME NEW e \in many PROVE MaxImpact(G) > 1500
    <3>1. RemovalImpact(G, e) \in Impacts(G) /\ RemovalImpact(G, e) > 1500
      BY DEF Impacts
    <3>2. RemovalImpact(G, e) <= MaxImpact(G)
      BY <1>5, <3>1
    <3>3. RemovalImpact(G, e) \in Int /\ MaxImpact(G) \in Int
      BY <1>3, <1>5, <3>1
    <3>. QED BY <3>1, <3>2, <3>3
  <2>. QED BY <2>1, <2>2
<1>7. IsFiniteSet(many) /\ BusFactor(G) = Cardinality(many)
  BY <1>0, FS_Subset DEF BusFactor
<1> HIDE DEF many
<1>8. BusFactor(G) > 0 <=> many # {}
  BY <1>7, FS_EmptySet, FS_CardinalityType
<1>9. Resilience(G) < 8500 <=> MaxImpact(G) > 1500
  <2>1. MaxImpact(G) \in Int
    BY <1>3, <1>5
  <2>. QED BY <2>1 DEF Resilience
<1>. QED BY <1>6, <1>8, <1>9

\* For any team: graph_fragmented is set exactly when a path between two others is
\* lost, and only who was connected to the leaver loses (attrition_service.py).
THEOREM LossHolds == SimulationSpec => []LossIsOfCollaborators
<1>1. SimInv => LossIsOfCollaborators
  <2> SUFFICES ASSUME SimInv PROVE LossIsOfCollaborators
    OBVIOUS
  <2> DEFINE G == ToGraph(team)
  <2>1. Undirected(G) /\ G.nodes # {} /\ G.nodes \subseteq Engineer
    <3>1. /\ team \in TeamRec /\ IsFiniteSet(DOMAIN team.weight) /\ team.nodes \subseteq Engineer
          /\ \A l \in DOMAIN team.weight : {l[1], l[3]} \subseteq team.nodes
          /\ team.nodes # {}
      BY DEF SimInv, SimulationTypeOK
    <3>. QED BY <3>1, TeamGraphIs, EngineersAreFinite DEF Undirected
  <2> HIDE DEF G
  <2>2. ASSUME NEW e \in G.nodes
        PROVE  /\ Fragmented(G, e) <=>
                    \E u, v \in G.nodes \ {e} :
                      PathBetween(G, u, v) /\ ~PathBetween(RemoveNode(G, e), u, v)
               /\ \A p \in G.nodes \ Reachable(G, e) : LossOf(G, e, p) <= 0
               /\ Neighbours(G, e) = {} => RemovalImpact(G, e) <= 0 /\ AttritionDrop(G, e) <= 0
               /\ Neighbours(G, e) # {} /\ Edges(RemoveNode(G, e)) = {} =>
                    RemovalImpact(G, e) = 10000 /\ AttritionDrop(G, e) = 10000
    <3>1. Fragmented(G, e) <=>
            \E u, v \in G.nodes \ {e} :
              PathBetween(G, u, v) /\ ~PathBetween(RemoveNode(G, e), u, v)
      BY <2>1, FragmentedIs
    <3>2. \A p \in G.nodes \ Reachable(G, e) : LossOf(G, e, p) <= 0
      BY <2>1, NoLossFarFromLeaver
    <3>3. Neighbours(G, e) = {} => RemovalImpact(G, e) <= 0 /\ AttritionDrop(G, e) <= 0
      BY <2>1, NoLossOfLoner
    <3>4. Neighbours(G, e) # {} /\ Edges(RemoveNode(G, e)) = {} =>
            RemovalImpact(G, e) = 10000 /\ AttritionDrop(G, e) = 10000
      BY <2>1, AllIsLost
    <3>. QED BY <3>1, <3>2, <3>3, <3>4
  <2>3. Resilience(G) < 8500 <=> BusFactor(G) > 0
    BY <2>1, ResilienceIs
  <2>. QED BY <2>2, <2>3 DEF LossIsOfCollaborators, G
<1>. QED BY <1>1, SimulationInitial, SimulationStep, PTL DEF SimulationSpec

------------------------------------------------------------------------------
(* Fractions *)

\* Of those within reach each step brings one at least, so that the distances add
\* up to at most 1 + 2 + ... + (r - 1).
LEMMA DistancesAtMost ==
  ASSUME NEW G, IsFiniteSet(G.nodes), NEW v \in G.nodes
  PROVE  2 * TotalDistance(G, v)
           <= Cardinality(Reachable(G, v)) * (Cardinality(Reachable(G, v)) - 1)
<1> DEFINE S == 0..Cardinality(G.nodes)
<1> DEFINE c == Beyond(G, v)
<1>1. PICK n \in Nat, r \in Nat :
        /\ n = Cardinality(G.nodes) /\ r = Cardinality(Reachable(G, v)) /\ 1 <= r /\ r <= n
  BY ReachableIs
<1>2. S = 0..n /\ IsFiniteSet(S) /\ c \in [S -> Nat] /\ TotalDistance(G, v) = Total(c, S)
  BY <1>1, DistanceSums
<1>3. ASSUME NEW d \in S PROVE c[d] = 0 \/ c[d] + d + 1 <= r
  <2>1. c[d] = r - Cardinality(Rings(G, v)[d]) /\ Cardinality(Rings(G, v)[d]) \in Nat
    BY <1>1, ReachableIs DEF Beyond
  <2>2. CASE Closed(G, Rings(G, v)[d])
    <3>1. v \in Rings(G, v)[d] /\ Rings(G, v)[d] \subseteq Reachable(G, v)
      BY RingsGrow
    <3>2. Reachable(G, v) \subseteq Rings(G, v)[d]
      BY <2>2, <3>1, ReachableLeast
    <3>3. Rings(G, v)[d] = Reachable(G, v)
      BY <3>1, <3>2
    <3>. QED BY <1>1, <2>1, <3>3
  <2>3. CASE d + 1 <= Cardinality(Rings(G, v)[d])
    BY <1>1, <1>2, <2>1, <2>3
  <2>. QED BY <2>2, <2>3, RingsFill
<1> HIDE DEF c, S
<1> DEFINE T == {k \in Nat : k <= r =>
                   2 * Total(c, 0..(k - 1)) + (r - k) * (r - k - 1) <= r * (r - 1)}
<1>4. 0 \in T
  <2>1. 0..(0 - 1) = {} /\ {} \in SUBSET S
    OBVIOUS
  <2>2. Total(c, 0..(0 - 1)) = 0
    BY <1>2, <2>1, TotalUnfolds
  <2>. QED BY <1>1, <2>2
<1>5. ASSUME NEW k \in T PROVE k + 1 \in T
  <2> SUFFICES ASSUME k + 1 <= r
               PROVE  2 * Total(c, 0..k) + (r - (k + 1)) * (r - (k + 1) - 1) <= r * (r - 1)
    OBVIOUS
  <2>1. k \in 0..k /\ (0..k) \ {k} = 0..(k - 1) /\ 0..k \in SUBSET S /\ 0..(k - 1) \in SUBSET S /\ k \in S
    BY <1>1, <1>2
  <2>2. Total(c, 0..k) = c[k] + Total(c, 0..(k - 1)) /\ Total(c, 0..(k - 1)) \in Nat
    <3>1. \A s \in SUBSET S :
            Total(c, s) \in Nat /\ \A x \in s : Total(c, s) = c[x] + Total(c, s \ {x})
      <4>1. IsFiniteSet(S) /\ c \in [S -> Nat]
        BY <1>2
      <4> HIDE DEF T
      <4>. QED BY <4>1, TotalUnfolds
    <3> HIDE DEF T
    <3>. QED BY <2>1, <3>1, Zenon
  <2>3. k \in Nat /\ c[k] \in Nat /\ c[k] <= r - k - 1
    <3>1. k \in Nat /\ c[k] \in Nat
      BY <1>2, <2>1
    <3>2. c[k] = 0 \/ c[k] + k + 1 <= r
      BY <1>3, <2>1
    <3>. QED BY <1>1, <3>1, <3>2
  <2>4. 2 * Total(c, 0..(k - 1)) + (r - k) * (r - k - 1) <= r * (r - 1)
    BY <1>1
  <2>5. PICK m \in Nat : m = r - k - 1
    BY <1>1, <2>3
  <2>6. r - k = m + 1 /\ r - (k + 1) = m /\ r - (k + 1) - 1 = m - 1
    <3>1. r \in Nat /\ k \in Nat /\ m \in Nat /\ m = r - k - 1
      BY <2>3, <2>5
    <3> HIDE DEF T
    <3>. QED BY <3>1
  <2>7. (m + 1) * m = m * (m - 1) + 2 * m
    OBVIOUS
  <2>8. r * (r - 1) \in Nat
    BY <1>1
  <2>9. 2 * Total(c, 0..(k - 1)) + (m + 1) * m <= r * (r - 1)
    BY <2>4, <2>5, <2>6
  <2>10. 2 * Total(c, 0..k) + m * (m - 1) <= r * (r - 1)
    BY <2>2, <2>3, <2>5, <2>7, <2>8, <2>9
  <2>. QED BY <2>6, <2>10
<1>6. T \in SUBSET Nat
  OBVIOUS
<1>7. T = Nat
  <2> HIDE DEF T
  <2>. QED BY <1>4, <1>5, <1>6, EveryNatural
<1>8. 2 * Total(c, 0..(r - 1)) <= r * (r - 1)
  <2>1. 2 * Total(c, 0..(r - 1)) + (r - r) * (r - r - 1) <= r * (r - 1)
    <3>1. r \in T
      BY <1>7
    <3>. QED BY <3>1
  <2>2. 0..(r - 1) \in SUBSET S
    BY <1>1, <1>2
  <2>3. Total(c, 0..(r - 1)) \in Nat
    BY <1>2, <2>2, TotalUnfolds
  <2>. QED BY <1>1, <2>1, <2>3
<1>9. Heap(c, S) = Heap(c, 0..(r - 1))
  <2>1. ASSUME NEW p \in Heap(c, S) PROVE p \in Heap(c, 0..(r - 1))
    <3>1. p \in S \X Nat /\ p[1] \in S /\ 1 <= p[2] /\ p[2] <= c[p[1]] /\ p[2] \in Nat
      BY DEF Heap
    <3>2. c[p[1]] \in Nat /\ p[1] \in Nat /\ c[p[1]] # 0
      BY <1>2, <3>1
    <3>3. p[1] \in 0..(r - 1)
      BY <1>1, <1>3, <3>1, <3>2
    <3>4. p \in (0..(r - 1)) \X Nat
      BY <3>1, <3>3
    <3>. QED BY <3>1, <3>4 DEF Heap
  <2>2. 0..(r - 1) \subseteq S
    BY <1>1, <1>2
  <2>3. ASSUME NEW p \in Heap(c, 0..(r - 1)) PROVE p \in Heap(c, S)
    BY <2>2 DEF Heap
  <2>. QED BY <2>1, <2>3
<1>10. Total(c, S) = Total(c, 0..(r - 1))
  BY <1>9 DEF Total
<1>. QED BY <1>1, <1>2, <1>8, <1>10

LEMMA SumOfMultiples ==
  ASSUME NEW S, IsFiniteSet(S), NEW c \in [S -> Nat], NEW n \in Nat,
         \A x \in S : \E m \in Nat : c[x] = m * n
  PROVE  \E m \in Nat : Total(c, S) = m * n
<1> DEFINE T == {s \in SUBSET S : \E m \in Nat : Total(c, s) = m * n}
<1>1. ASSUME NEW s \in SUBSET S, \A x \in s : s \ {x} \in T PROVE s \in T
  <2>1. CASE s = {}
    <3>1. Total(c, s) = 0 * n
      BY <2>1, TotalUnfolds
    <3>. QED BY <3>1
  <2>2. CASE s # {}
    <3>1. PICK x \in s : TRUE
      BY <2>2
    <3>2. PICK m \in Nat : Total(c, s \ {x}) = m * n
      BY <1>1, <3>1
    <3>3. PICK k \in Nat : c[x] = k * n
      BY <3>1
    <3>4. Total(c, s) = k * n + m * n
      BY <3>1, <3>2, <3>3, TotalUnfolds
    <3>5. k * n + m * n = (k + m) * n /\ k + m \in Nat
      OBVIOUS
    <3>6. Total(c, s) = (k + m) * n
      BY <3>4, <3>5
    <3>. QED BY <3>5, <3>6
  <2>. QED BY <2>1, <2>2
<1>2. T \in SUBSET SUBSET S
  OBVIOUS
<1> HIDE DEF T
<1>3. T = SUBSET S
  BY <1>1, <1>2, EverySubset
<1>. QED BY <1>3 DEF T

LEMMA TeamSizes ==
  ASSUME NEW nodes, nodes \subseteq Engineer \cup {Candidate}
  PROVE  /\ IsFiniteSet(nodes) /\ Cardinality(nodes) \in Nat
         /\ Cardinality(nodes) <= Cardinality(Engineer) + 1
<1>1. /\ IsFiniteSet(Engineer \cup {Candidate})
      /\ Cardinality(Engineer \cup {Candidate}) = Cardinality(Engineer) + 1
  BY EngineersAreFinite, FS_AddElement
<1>. QED BY <1>1, FS_Subset, FS_CardinalityType

\* What is divided is a multiple of what it is divided by.
LEMMA RatingsAreExact ==
  ASSUME NEW G, G.nodes \subseteq Engineer \cup {Candidate}, NEW v \in G.nodes,
         NEW r \in Nat, r = Cardinality(Reachable(G, v)), r # 1
  PROVE  LET parts == TotalDistance(G, v) * (Cardinality(G.nodes) - 1) IN
         /\ 0 < parts
         /\ Closeness(G, v) * parts = Unit * r * (r - 1)
         /\ NxCloseness(G, v) * parts = Unit * (r - 1) * (r - 1)
<1>1. IsFiniteSet(G.nodes) /\ Cardinality(G.nodes) <= Cardinality(Engineer) + 1
  BY TeamSizes
<1>2. \E n, s, total \in Nat :
        /\ n = Cardinality(G.nodes) /\ s = Cardinality(Reachable(G, v))
        /\ total = TotalDistance(G, v)
        /\ 1 <= s /\ s <= n /\ s - 1 <= total
        /\ s = 1 => Closeness(G, v) = 0 /\ NxCloseness(G, v) = 0
        /\ s # 1 =>
             /\ s - 1 \in Nat /\ n - 1 \in Nat /\ 0 < n - 1 /\ 0 < s - 1 /\ 0 < total
             /\ total * (n - 1) \in Nat /\ 0 < total * (n - 1)
             /\ Unit * s * (s - 1) \in Nat /\ Unit * (s - 1) * (s - 1) \in Nat
             /\ Closeness(G, v) = (Unit * s * (s - 1)) \div (total * (n - 1))
             /\ NxCloseness(G, v) = (Unit * (s - 1) * (s - 1)) \div (total * (n - 1))
  BY <1>1, RatingIs, Zenon
<1>3. PICK n \in Nat, total \in Nat :
        /\ n = Cardinality(G.nodes) /\ total = TotalDistance(G, v)
        /\ 1 <= r /\ r <= n /\ 0 < total /\ 0 < n - 1
        /\ total * (n - 1) \in Nat /\ 0 < total * (n - 1)
        /\ Closeness(G, v) = (Unit * r * (r - 1)) \div (total * (n - 1))
        /\ NxCloseness(G, v) = (Unit * (r - 1) * (r - 1)) \div (total * (n - 1))
  BY <1>2
<1>4. PICK m \in Nat : Unit = m * ((n - 1) * total)
  <2>1. 2 * total <= r * (r - 1)
    BY <1>1, <1>3, DistancesAtMost
  <2>2. r * (r - 1) <= n * (n - 1)
    <3>1. r * (r - 1) <= n * (r - 1) /\ n * (r - 1) <= n * (n - 1)
      BY <1>3
    <3>2. r * (r - 1) \in Nat /\ n * (r - 1) \in Nat /\ n * (n - 1) \in Nat
      BY <1>3
    <3>. QED BY <3>1, <3>2
  <2>3. 2 * total <= n * (n - 1)
    <3>1. r * (r - 1) \in Nat /\ n * (n - 1) \in Nat
      BY <1>3
    <3>. QED BY <2>1, <2>2, <3>1
  <2>4. 2 <= n /\ 1 <= total
    BY <1>3
  <2>. QED BY <1>1, <1>3, <2>3, <2>4, DistancesDivide
<1>5. PICK k \in Nat, b \in Nat : k = r - 1 /\ b = total * (n - 1) /\ 0 < b
  BY <1>3
<1>6. Unit = m * b
  <2>1. (n - 1) * total = total * (n - 1)
    BY <1>3
  <2>. QED BY <1>4, <1>5, <2>1
<1>7. (m * b) * r * k = (m * (r * k)) * b /\ (m * b) * k * k = (m * (k * k)) * b
  OBVIOUS
<1>8. PICK x \in Nat, y \in Nat : x = m * (r * k) /\ y = m * (k * k)
  BY Products
<1>9. Unit * r * k = x * b /\ Unit * k * k = y * b
  BY <1>6, <1>7, <1>8
<1>10. (x * b) \div b = x /\ (y * b) \div b = y
  <2>1. x * b \in Nat /\ y * b \in Nat
    BY Products
  <2>. QED BY <1>5, <2>1, Multiples
<1>11. Closeness(G, v) = x /\ NxCloseness(G, v) = y
  BY <1>3, <1>5, <1>9, <1>10
<1>. QED BY <1>3, <1>5, <1>9, <1>11

LEMMA ClusteringsAreExact ==
  ASSUME NEW G, Undirected(G), G.nodes \subseteq Engineer \cup {Candidate}, NEW v \in G.nodes,
         NEW d \in Nat, d = Cardinality(Neighbours(G, v))
  PROVE  /\ \E m \in Nat : Clustering(G, v) = m * Cardinality(G.nodes)
         /\ 2 <= d => Clustering(G, v) * (d * (d - 1)) = 2 * Cardinality(Inside(G, v)) * Unit
<1>1. IsFiniteSet(G.nodes) /\ Cardinality(G.nodes) <= Cardinality(Engineer) + 1
  BY TeamSizes
<1>2. PICK n \in Nat, links \in Nat : n = Cardinality(G.nodes) /\ links = Cardinality(Inside(G, v))
  BY <1>1, ClusteringIsNat, FS_CardinalityType
<1>3. Clustering(G, v) = IF d < 2 THEN 0 ELSE (2 * links * Unit) \div (d * (d - 1))
  BY <1>2, ClusteringOf
<1>4. CASE d < 2
  <2>1. Clustering(G, v) = 0 * n
    BY <1>3, <1>4
  <2>. QED BY <1>2, <1>4, <2>1
<1>5. CASE 2 <= d
  <2>1. d <= n - 1
    <3>1. v \notin Neighbours(G, v)
      <4> SUFFICES ASSUME {v, v} \in Edges(G) PROVE FALSE
        BY DEF Neighbours
      <4>1. Cardinality({v, v}) = 2 /\ Cardinality({v}) = 1
        BY FS_Singleton DEF Undirected
      <4>2. {v, v} = {v}
        OBVIOUS
      <4>. QED BY <4>1, <4>2
    <3>2. Neighbours(G, v) \subseteq G.nodes \ {v}
      BY <3>1 DEF Neighbours
    <3>3. IsFiniteSet(G.nodes \ {v}) /\ Cardinality(G.nodes \ {v}) = Cardinality(G.nodes) - 1
      BY <1>1, FS_RemoveElement
    <3>. QED BY <1>2, <3>2, <3>3, FS_Subset
  <2>2. n \in 2..(Cardinality(Engineer) + 1) /\ d \in 2..(n - 1)
    BY <1>1, <1>2, <1>5, <2>1, EngineersAreFinite, FS_CardinalityType
  <2>3. Unit % (n * (d * (d - 1))) = 0
    BY <2>2, UnitAssumption DEF Exact
  <2>4. PICK b \in Nat : b = d * (d - 1) /\ 0 < b
    <3>1. d - 1 \in Nat /\ 0 < d /\ 0 < d - 1
      BY <1>5
    <3>. QED BY <3>1, Products
  <2>5. PICK m \in Nat : Unit = m * (n * b)
    <3>1. n * b \in Nat /\ 0 < n * b
      BY <2>2, <2>4, Products
    <3>2. PICK w \in Nat : w = n * b /\ 0 < w
      BY <3>1
    <3>3. Unit % w = 0
      BY <2>3, <2>4, <3>2
    <3>4. \E m \in Nat : Unit = m * w
      BY <3>2, <3>3, UnitIs, Multiples
    <3>. QED BY <3>2, <3>4
  <2>6. 2 * links * (m * (n * b)) = (((2 * links) * m) * n) * b
    OBVIOUS
  <2>7. PICK y \in Nat, x \in Nat : y = (2 * links) * m /\ x = y * n
    OBVIOUS
  <2>8. 2 * links * Unit = x * b /\ x * b \in Nat
    BY <2>5, <2>6, <2>7
  <2>9. (x * b) \div b = x
    BY <2>4, <2>8, Multiples
  <2>10. Clustering(G, v) = x
    BY <1>3, <1>5, <2>4, <2>8, <2>9
  <2>11. Clustering(G, v) = y * Cardinality(G.nodes)
    BY <1>2, <2>7, <2>10
  <2>12. Clustering(G, v) * (d * (d - 1)) = 2 * Cardinality(Inside(G, v)) * Unit
    BY <1>2, <2>4, <2>8, <2>10
  <2>. QED BY <2>11, <2>12
<1>. QED BY <1>4, <1>5

\* In any team, with a candidate or without, no closeness, clustering or average
\* clustering is rounded (closeness_centrality and silo_risk of metrics.py,
\* _closeness of attrition_service.py): what the properties say of them they say
\* of the fractions.
THEOREM FractionsAreExact ==
  ASSUME NEW G, Undirected(G), G.nodes \subseteq Engineer \cup {Candidate}, G.nodes # {}
  PROVE  /\ \A v \in G.nodes :
              LET r == Cardinality(Reachable(G, v))
                  d == Cardinality(Neighbours(G, v))
                  parts == TotalDistance(G, v) * (Cardinality(G.nodes) - 1)
              IN /\ r # 1 => /\ 0 < parts
                             /\ Closeness(G, v) * parts = Unit * r * (r - 1)
                             /\ NxCloseness(G, v) * parts = Unit * (r - 1) * (r - 1)
                 /\ 2 <= d => Clustering(G, v) * (d * (d - 1)) = 2 * Cardinality(Inside(G, v)) * Unit
         /\ AverageClustering(G) * Cardinality(G.nodes)
              = Total([v \in G.nodes |-> Clustering(G, v)], G.nodes)
<1>1. IsFiniteSet(G.nodes)
  BY DEF Undirected
<1>2. ASSUME NEW v \in G.nodes
      PROVE  LET r == Cardinality(Reachable(G, v))
                 d == Cardinality(Neighbours(G, v))
                 parts == TotalDistance(G, v) * (Cardinality(G.nodes) - 1)
             IN /\ r # 1 => /\ 0 < parts
                            /\ Closeness(G, v) * parts = Unit * r * (r - 1)
                            /\ NxCloseness(G, v) * parts = Unit * (r - 1) * (r - 1)
                /\ 2 <= d => Clustering(G, v) * (d * (d - 1)) = 2 * Cardinality(Inside(G, v)) * Unit
  <2>1. Cardinality(Reachable(G, v)) \in Nat /\ Cardinality(Neighbours(G, v)) \in Nat
    BY <1>1, ReachableIs, ClusteringIsNat
  <2>2. 2 <= Cardinality(Neighbours(G, v)) =>
          Clustering(G, v) * (Cardinality(Neighbours(G, v)) * (Cardinality(Neighbours(G, v)) - 1))
            = 2 * Cardinality(Inside(G, v)) * Unit
    BY <2>1, ClusteringsAreExact
  <2>3. Cardinality(Reachable(G, v)) # 1 =>
          /\ 0 < TotalDistance(G, v) * (Cardinality(G.nodes) - 1)
          /\ Closeness(G, v) * (TotalDistance(G, v) * (Cardinality(G.nodes) - 1))
               = Unit * Cardinality(Reachable(G, v)) * (Cardinality(Reachable(G, v)) - 1)
          /\ NxCloseness(G, v) * (TotalDistance(G, v) * (Cardinality(G.nodes) - 1))
               = Unit * (Cardinality(Reachable(G, v)) - 1) * (Cardinality(Reachable(G, v)) - 1)
    BY <2>1, RatingsAreExact
  <2>. QED BY <2>2, <2>3, Zenon
<1>3. AverageClustering(G) * Cardinality(G.nodes)
        = Total([v \in G.nodes |-> Clustering(G, v)], G.nodes)
  <2> DEFINE c == [v \in G.nodes |-> Clustering(G, v)]
  <2>1. PICK n \in Nat : n = Cardinality(G.nodes) /\ 0 < n
    BY <1>1, FS_CardinalityType, FS_EmptySet
  <2>2. c \in [G.nodes -> Nat] /\ \A v \in G.nodes : c[v] = Clustering(G, v)
    BY <1>1, ClusteringIsNat
  <2>3. \A v \in G.nodes : \E m \in Nat : c[v] = m * n
    <3> SUFFICES ASSUME NEW v \in G.nodes PROVE \E m \in Nat : c[v] = m * n
      OBVIOUS
    <3>1. Cardinality(Neighbours(G, v)) \in Nat
      BY <1>1, ClusteringIsNat
    <3>2. \E m \in Nat : Clustering(G, v) = m * Cardinality(G.nodes)
      BY <3>1, ClusteringsAreExact
    <3>. QED BY <2>1, <2>2, <3>2
  <2>4. AverageClustering(G) = Total(c, G.nodes) \div n
    BY <1>1, <2>1, ClusteringIsNat, AverageIs
  <2> HIDE DEF c
  <2>5. PICK m \in Nat : Total(c, G.nodes) = m * n
    BY <1>1, <2>2, <2>3, SumOfMultiples
  <2>6. (m * n) \div n = m
    <3>1. m * n \in Nat
      BY Products
    <3>. QED BY <2>1, <3>1, Multiples
  <2>7. AverageClustering(G) * n = Total(c, G.nodes)
    BY <2>4, <2>5, <2>6
  <2>. QED BY <2>1, <2>7 DEF c
<1>. QED BY <1>2, <1>3
==============================================================================
