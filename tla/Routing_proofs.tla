--------------------------- MODULE Routing_proofs ---------------------------
(***************************************************************************)
(* Proofs about route_discovery, for every network and every number of     *)
(* devices that the arrays of route_processor.c have room for, when one    *)
(* thread of the device calls it at a time.                                *)
(*                                                                         *)
(* The argument, in three parts.  In a network that hangs together every   *)
(* node is within TotalDeviceNum - 1 hops of every other, and distances    *)
(* differ by at most one along a link.  dijkstra visits a node of the      *)
(* least d; among the nodes not visited, one that is nearest has a visited *)
(* node before it, so its d is its distance and the least.  prev leads one *)
(* hop nearer to the device at each step, so that what routePath writes at *)
(* index 0 is the node at distance one.                                    *)
(***************************************************************************)
EXTENDS Routing, TLAPS, InductionFacts, FiniteSetTheorems

N == TotalDeviceNum

\* What is one hop further, and the recursion that defines Ball.
Grow(map, S) == S \cup {j \in Node : \E k \in S : map[k][j] = 1}
IsBall(f, map, i, b) == f = [n \in 0 .. b |-> IF n = 0 THEN {i} ELSE Grow(map, f[n - 1])]
-----------------------------------------------------------------------------
(* Balls and distances. *)

\* The recursion that defines Ball has a solution.
LEMMA BallExists ==
    ASSUME NEW map, NEW i, NEW b \in Nat
    PROVE  \E f : IsBall(f, map, i, b)
<1> DEFINE S == {m \in Nat : \E f : IsBall(f, map, i, m)}
<1>1. 0 \in S
  <2>1. IsBall([n \in 0 .. 0 |-> {i}], map, i, 0)
    BY DEF IsBall
  <2> QED
    BY <2>1
<1>2. ASSUME NEW m \in 0 .. b - 1, m \in S PROVE m + 1 \in S
  <2>1. PICK f : IsBall(f, map, i, m)
    BY <1>2
  <2> DEFINE g == [n \in 0 .. m + 1 |-> IF n = m + 1 THEN Grow(map, f[m]) ELSE f[n]]
  <2>2. IsBall(g, map, i, m + 1)
    <3>1. \A n \in 0 .. m + 1 : g[n] = IF n = 0 THEN {i} ELSE Grow(map, g[n - 1])
      <4> SUFFICES ASSUME NEW n \in 0 .. m + 1
                   PROVE  g[n] = IF n = 0 THEN {i} ELSE Grow(map, g[n - 1])
        OBVIOUS
      <4>1. CASE n = m + 1
        <5>1. g[m] = f[m] /\ m + 1 # 0 /\ n - 1 = m
          BY <4>1
        <5>2. g[n] = Grow(map, f[m])
          BY <4>1
        <5> QED
          BY <4>1, <5>1, <5>2
      <4>2. CASE n \in 0 .. m
        <5>1. g[n] = f[n] /\ (n # 0 => g[n - 1] = f[n - 1])
          BY <4>2
        <5>2. f[n] = IF n = 0 THEN {i} ELSE Grow(map, f[n - 1])
          BY <2>1, <4>2 DEF IsBall
        <5> QED
          BY <5>1, <5>2
      <4> QED
        BY <4>1, <4>2
    <3> QED
      BY <3>1 DEF IsBall
  <2>3. \E h : IsBall(h, map, i, m + 1)
    <3> HIDE DEF g
    <3> QED
      BY <2>2
  <2> QED
    BY <2>3
<1>3. 0 .. b \subseteq S
  BY <1>1, <1>2, Induction
<1>4. b \in S
  BY <1>3
<1> QED
  BY <1>4

\* Ball is what its recursion says.
LEMMA BallDef ==
    ASSUME NEW map, NEW i
    PROVE  /\ Ball(map, i)[0] = {i}
           /\ \A n \in 0 .. N - 1 : Ball(map, i)[n + 1] = Grow(map, Ball(map, i)[n])
<1> USE RoutingAssumption DEF N, PathSize
<1> DEFINE f == Ball(map, i)
<1>1. f = CHOOSE g : g = [n \in 0 .. TotalDeviceNum |->
                              IF n = 0 THEN {i}
                              ELSE g[n - 1] \cup {j \in Node : \E k \in g[n - 1] : map[k][j] = 1}]
  BY DEF Ball
<1>2. f = CHOOSE g : IsBall(g, map, i, N)
  BY <1>1 DEF IsBall, Grow
<1>3. IsBall(f, map, i, N)
  <2>1. \E g : IsBall(g, map, i, N)
    BY BallExists
  <2> HIDE DEF f
  <2> QED
    BY <1>2, <2>1
<1> HIDE DEF f
<1>4. f[0] = {i}
  BY <1>3 DEF IsBall
<1>5. ASSUME NEW n \in 0 .. N - 1 PROVE f[n + 1] = Grow(map, f[n])
  <2>1. n + 1 \in 0 .. N /\ n + 1 # 0 /\ (n + 1) - 1 = n
    OBVIOUS
  <2> QED
    BY <1>3, <2>1 DEF IsBall
<1> QED
  BY <1>4, <1>5 DEF f

\* A ball holds nodes only, its center among them, and each holds the one before.
LEMMA BallFacts ==
    ASSUME NEW map, NEW i \in Node
    PROVE  /\ \A n \in 0 .. N : Ball(map, i)[n] \in SUBSET Node /\ i \in Ball(map, i)[n]
           /\ \A n \in 0 .. N - 1 : Ball(map, i)[n] \subseteq Ball(map, i)[n + 1]
<1> DEFINE B(n) == Ball(map, i)[n]
           S == {n \in 0 .. N : B(n) \in SUBSET Node /\ i \in B(n)}
<1>n. N \in 2 .. 41
  BY RoutingAssumption DEF N, PathSize
<1>1. B(0) = {i}
  BY BallDef
<1>2. \A n \in 0 .. N - 1 : B(n + 1) = Grow(map, B(n))
  BY BallDef
<1> HIDE DEF B
<1>3. 0 \in S
  BY <1>1, <1>n
<1>4. ASSUME NEW n \in 0 .. N - 1, n \in S PROVE n + 1 \in S
  <2>1. B(n + 1) = Grow(map, B(n)) /\ n + 1 \in 0 .. N
    BY <1>2, <1>n
  <2>2. Grow(map, B(n)) \in SUBSET Node /\ i \in Grow(map, B(n))
    BY <1>4 DEF Grow
  <2> QED
    BY <2>1, <2>2
<1>5. 0 .. N \subseteq S
  <2> HIDE DEF S
  <2> QED
    BY <1>3, <1>4, <1>n, Induction
<1>6. \A n \in 0 .. N - 1 : B(n) \subseteq B(n + 1)
  BY <1>2 DEF Grow
<1> QED
  BY <1>5, <1>6 DEF B

\* A ball that can still grow has more nodes than its radius, so that the one
\* of radius TotalDeviceNum - 1 cannot.
LEMMA BallCloses ==
    ASSUME NEW map, NEW i \in Node
    PROVE  Grow(map, Ball(map, i)[N - 1]) = Ball(map, i)[N - 1]
<1> DEFINE B(n) == Ball(map, i)[n]
           Full(n) == Grow(map, B(n)) = B(n) \/ Cardinality(B(n)) >= n + 1
           S == {n \in 0 .. N - 1 : Full(n)}
<1>n. N \in 2 .. 41
  BY RoutingAssumption DEF N, PathSize
<1>1. B(0) = {i}
  BY BallDef
<1>2. \A n \in 0 .. N - 1 : B(n + 1) = Grow(map, B(n))
  BY BallDef
<1>3. \A n \in 0 .. N : B(n) \in SUBSET Node
  BY BallFacts
<1>4. \A n \in 0 .. N - 1 : B(n) \subseteq B(n + 1)
  BY BallFacts
<1> HIDE DEF B
<1>5. IsFiniteSet(Node) /\ Cardinality(Node) = N
  BY <1>n, FS_Interval DEF Node, N
<1>6. \A n \in 0 .. N : IsFiniteSet(B(n)) /\ Cardinality(B(n)) \in Nat
  BY <1>3, <1>5, FS_Subset, FS_CardinalityType
<1>7. 0 \in S
  <2>1. Cardinality(B(0)) = 1
    BY <1>1, FS_Singleton
  <2> QED
    BY <2>1, <1>n
<1>8. ASSUME NEW n \in 0 .. N - 2, n \in S PROVE n + 1 \in S
  <2>1. n \in 0 .. N - 1 /\ n + 1 \in 0 .. N - 1 /\ n + 1 \in 0 .. N /\ n \in 0 .. N
    BY <1>n
  <2>2. B(n + 1) = Grow(map, B(n))
    BY <1>2, <2>1
  <2>3. CASE B(n + 1) = B(n)
    <3>1. Grow(map, B(n + 1)) = B(n + 1)
      BY <2>2, <2>3
    <3> QED
      BY <3>1, <2>1
  <2>4. CASE B(n + 1) # B(n)
    <3>1. Cardinality(B(n)) >= n + 1
      BY <1>8, <2>2, <2>4
    <3>2. B(n) \in SUBSET B(n + 1)
      BY <1>4, <2>1
    <3>3. Cardinality(B(n)) <= Cardinality(B(n + 1)) /\ Cardinality(B(n)) # Cardinality(B(n + 1))
      BY <3>2, <1>6, <2>1, <2>4, FS_Subset
    <3>4. Cardinality(B(n + 1)) >= (n + 1) + 1
      BY <3>1, <3>3, <1>6, <2>1
    <3> QED
      BY <3>4, <2>1
  <2> QED
    BY <2>3, <2>4
<1>9. 0 .. N - 1 \subseteq S
  <2>1. N - 1 \in Nat /\ (N - 1) - 1 = N - 2
    BY <1>n
  <2> QED
    BY <2>1, <1>7, <1>8, Induction
<1>10. Full(N - 1)
  BY <1>9, <1>n
<1>11. CASE Cardinality(B(N - 1)) >= (N - 1) + 1
  <2>1. N - 1 \in 0 .. N
    BY <1>n
  <2>2. B(N - 1) \in SUBSET Node /\ Cardinality(B(N - 1)) <= N
    BY <2>1, <1>3, <1>5, FS_Subset
  <2>3. Cardinality(B(N - 1)) = N
    BY <1>11, <2>1, <2>2, <1>6, <1>n
  <2>4. B(N - 1) = Node
    BY <2>2, <2>3, <1>5, FS_Subset
  <2> QED
    BY <2>4 DEF Grow, B
<1> QED
  BY <1>10, <1>11 DEF B

\* In a network that hangs together, every node is within TotalDeviceNum - 1
\* hops of every other.
LEMMA BallIsAll ==
    ASSUME NEW map \in Topologies, NEW i \in Node
    PROVE  Ball(map, i)[N - 1] = Node
<1> DEFINE C == Ball(map, i)[N - 1]
           A(n) == Ball(map, 1)[n]
           T == IF 1 \in C THEN C ELSE Node \ C
           S == {n \in 0 .. N : A(n) \subseteq T}
<1>n. N \in 2 .. 41
  BY RoutingAssumption DEF N, PathSize
<1>1. C \in SUBSET Node /\ i \in C
  BY BallFacts, <1>n
<1>2. Grow(map, C) = C
  BY BallCloses
<1>3. A(0) = {1} /\ A(N) = Node
  BY BallDef DEF Topologies, N
<1>4. \A n \in 0 .. N - 1 : A(n + 1) = Grow(map, A(n))
  BY BallDef
<1>5. \A j, k \in Node : map[j][k] = map[k][j]
  BY DEF Topologies
<1> HIDE DEF A, C
<1>6. 1 \in Node
  BY <1>n DEF Node, N
<1>7. \A k \in T, j \in Node : map[k][j] = 1 => j \in T
  <2> SUFFICES ASSUME NEW k \in T, NEW j \in Node, map[k][j] = 1 PROVE j \in T
    OBVIOUS
  <2>1. \A x \in C, y \in Node : map[x][y] = 1 => y \in C
    BY <1>2 DEF Grow
  <2>2. k \in Node
    BY <1>1
  <2> QED
    BY <2>1, <2>2, <1>5
<1>8. T \subseteq Node /\ 1 \in T
  BY <1>1, <1>6
<1>9. 0 \in S
  BY <1>3, <1>8, <1>n
<1>10. ASSUME NEW n \in 0 .. N - 1, n \in S PROVE n + 1 \in S
  <2> HIDE DEF T
  <2>1. A(n + 1) = Grow(map, A(n)) /\ n + 1 \in 0 .. N
    BY <1>4, <1>n
  <2>2. Grow(map, A(n)) \subseteq T
    BY <1>10, <1>7 DEF Grow
  <2> QED
    BY <2>1, <2>2
<1>11. 0 .. N \subseteq S
  <2> HIDE DEF S
  <2> QED
    BY <1>9, <1>10, <1>n, Induction
<1>12. Node \subseteq T
  <2>1. N \in S
    BY <1>11, <1>n
  <2> QED
    BY <2>1, <1>3
<1> QED
  BY <1>12, <1>1 DEF C

\* What is n hops from h is at most one hop further from its neighbour p.
LEMMA BallOfNeighbour ==
    ASSUME NEW map, NEW p \in Node, NEW h \in Node, map[p][h] = 1,
           NEW n \in 0 .. N - 1
    PROVE  Ball(map, h)[n] \subseteq Ball(map, p)[n + 1]
<1> DEFINE H(m) == Ball(map, h)[m]
           P(m) == Ball(map, p)[m]
           S == {m \in 0 .. N - 1 : H(m) \subseteq P(m + 1)}
<1>n. N \in 2 .. 41
  BY RoutingAssumption DEF N, PathSize
<1>1. H(0) = {h} /\ P(0) = {p}
  BY BallDef
<1>2. \A m \in 0 .. N - 1 : H(m + 1) = Grow(map, H(m))
  BY BallDef
<1>3. \A m \in 0 .. N - 1 : P(m + 1) = Grow(map, P(m))
  BY BallDef
<1> HIDE DEF H, P
<1>4. 0 \in S
  <2>1. P(0 + 1) = Grow(map, {p})
    BY <1>1, <1>3, <1>n
  <2>2. h \in Grow(map, {p})
    BY DEF Grow
  <2> QED
    BY <2>1, <2>2, <1>1, <1>n
<1>5. ASSUME NEW m \in 0 .. (N - 1) - 1, m \in S PROVE m + 1 \in S
  <2>1. m \in 0 .. N - 1 /\ m + 1 \in 0 .. N - 1
    BY <1>n
  <2>2. H(m + 1) = Grow(map, H(m)) /\ P((m + 1) + 1) = Grow(map, P(m + 1))
    BY <2>1, <1>2, <1>3
  <2>3. Grow(map, H(m)) \subseteq Grow(map, P(m + 1))
    BY <1>5 DEF Grow
  <2> QED
    BY <2>1, <2>2, <2>3
<1>6. 0 .. N - 1 \subseteq S
  <2>1. N - 1 \in Nat
    BY <1>n
  <2> HIDE DEF S
  <2> QED
    BY <2>1, <1>4, <1>5, Induction
<1> QED
  BY <1>6 DEF H, P

\* The distance is the radius of the first ball that holds the node.
LEMMA DistanceDef ==
    ASSUME NEW map \in Topologies, NEW i \in Node, NEW j \in Node
    PROVE  /\ Distance(map, i, j) \in 0 .. N - 1
           /\ j \in Ball(map, i)[Distance(map, i, j)]
           /\ \A m \in 0 .. N : j \in Ball(map, i)[m] => Distance(map, i, j) <= m
<1> DEFINE B(n) == Ball(map, i)[n]
           First(n) == j \in B(n) /\ \A m \in 0 .. n - 1 : j \notin B(m)
           S == {n \in 0 .. N : j \in B(n)}
<1>n. N \in 2 .. 41
  BY RoutingAssumption DEF N, PathSize
<1>1. j \in B(N - 1)
  BY BallIsAll
<1>2. Distance(map, i, j) = CHOOSE n \in 0 .. N : First(n)
  BY DEF Distance, N
<1> HIDE DEF B
<1>3. \E n \in 0 .. N : First(n)
  <2>1. S \in SUBSET Nat /\ S # {}
    BY <1>1, <1>n
  <2>2. PICK n \in S : \A m \in S : n <= m
    BY <2>1, LeastNatural
  <2>3. First(n)
    BY <2>2, <1>n
  <2> QED
    BY <2>3
<1>4. Distance(map, i, j) \in 0 .. N /\ First(Distance(map, i, j))
  <2> HIDE DEF First
  <2> QED
    BY <1>2, <1>3
<1> DEFINE D == Distance(map, i, j)
<1> HIDE DEF D
<1>5. D \in 0 .. N /\ j \in B(D) /\ \A m \in 0 .. D - 1 : j \notin B(m)
  BY <1>4 DEF D
<1>6. \A m \in 0 .. N : j \in B(m) => D <= m
  BY <1>5
<1>7. D \in 0 .. N - 1
  BY <1>1, <1>5, <1>6, <1>n
<1> QED
  BY <1>5, <1>6, <1>7 DEF B, D

\* Only the node itself is at distance 0.
LEMMA DistanceZero ==
    ASSUME NEW map \in Topologies, NEW i \in Node, NEW j \in Node
    PROVE  Distance(map, i, j) = 0 <=> i = j
<1> DEFINE D == Distance(map, i, j)
<1>n. N \in 2 .. 41
  BY RoutingAssumption DEF N, PathSize
<1>1. D \in 0 .. N - 1 /\ j \in Ball(map, i)[D]
  BY DistanceDef
<1>2. \A m \in 0 .. N : j \in Ball(map, i)[m] => D <= m
  BY DistanceDef
<1>3. Ball(map, i)[0] = {i}
  BY BallDef
<1> HIDE DEF D
<1>4. i = j => D = 0
  BY <1>1, <1>2, <1>3, <1>n
<1>5. D = 0 => i = j
  BY <1>1, <1>3
<1> QED
  BY <1>4, <1>5 DEF D

\* A link from k to j makes j at most one hop further than k.
LEMMA DistanceEdge ==
    ASSUME NEW map \in Topologies, NEW i \in Node, NEW j \in Node, NEW k \in Node,
           map[k][j] = 1
    PROVE  Distance(map, i, j) <= Distance(map, i, k) + 1
<1> DEFINE D == Distance(map, i, k)
<1>n. N \in 2 .. 41
  BY RoutingAssumption DEF N, PathSize
<1>1. D \in 0 .. N - 1 /\ k \in Ball(map, i)[D]
  BY DistanceDef
<1> HIDE DEF D
<1>2. j \in Ball(map, i)[D + 1]
  <2>1. Ball(map, i)[D + 1] = Grow(map, Ball(map, i)[D])
    BY <1>1, BallDef
  <2> QED
    BY <2>1, <1>1 DEF Grow
<1>3. D + 1 \in 0 .. N
  BY <1>1, <1>n
<1> QED
  BY <1>2, <1>3, DistanceDef DEF D

\* A node that is not the start has a neighbour one hop nearer to the start.
LEMMA DistanceBefore ==
    ASSUME NEW map \in Topologies, NEW i \in Node, NEW j \in Node, i # j
    PROVE  \E k \in Node : map[k][j] = 1 /\ Distance(map, i, j) = Distance(map, i, k) + 1
<1> DEFINE D == Distance(map, i, j)
<1>n. N \in 2 .. 41
  BY RoutingAssumption DEF N, PathSize
<1>1. D \in 0 .. N - 1 /\ D # 0 /\ j \in Ball(map, i)[D]
  BY DistanceDef, DistanceZero
<1>2. \A m \in 0 .. N : j \in Ball(map, i)[m] => D <= m
  BY DistanceDef
<1> HIDE DEF D
<1>3. D - 1 \in 0 .. N - 1 /\ D - 1 \in 0 .. N /\ (D - 1) + 1 = D
  BY <1>1, <1>n
<1>4. Ball(map, i)[D] = Grow(map, Ball(map, i)[D - 1])
  BY <1>3, BallDef
<1>5. j \notin Ball(map, i)[D - 1]
  BY <1>2, <1>3, <1>1
<1>6. PICK k \in Ball(map, i)[D - 1] : map[k][j] = 1
  BY <1>1, <1>4, <1>5 DEF Grow
<1>7. k \in Node
  BY <1>3, <1>6, BallFacts
<1>8. Distance(map, i, k) \in 0 .. N - 1 /\ Distance(map, i, k) <= D - 1
  BY <1>3, <1>6, <1>7, DistanceDef
<1>9. D <= Distance(map, i, k) + 1
  BY <1>6, <1>7, DistanceEdge DEF D
<1>10. D = Distance(map, i, k) + 1
  BY <1>1, <1>8, <1>9
<1> QED
  BY <1>6, <1>7, <1>10 DEF D

\* A neighbour is at most one hop further from anywhere.
LEMMA DistanceFromNeighbour ==
    ASSUME NEW map \in Topologies, NEW p \in Node, NEW h \in Node, NEW j \in Node,
           map[p][h] = 1
    PROVE  Distance(map, p, j) <= Distance(map, h, j) + 1
<1> DEFINE D == Distance(map, h, j)
<1>n. N \in 2 .. 41
  BY RoutingAssumption DEF N, PathSize
<1>1. D \in 0 .. N - 1 /\ j \in Ball(map, h)[D]
  BY DistanceDef
<1> HIDE DEF D
<1>2. j \in Ball(map, p)[D + 1]
  BY <1>1, BallOfNeighbour
<1>3. D + 1 \in 0 .. N
  BY <1>1, <1>n
<1> QED
  BY <1>2, <1>3, DistanceDef DEF D
-----------------------------------------------------------------------------
(* The inductive invariant, when there is one caller. *)

\* One thread of the device calls route_discovery.
OneCaller == \A a, b \in Caller : a = b

\* The distance of a node from the device.
D(i) == Distance(NODE_MAP, start, i)

\* h is a neighbour of the device, one hop nearer to e.
GoodHop(h, e) == /\ h \in Node
                 /\ NODE_MAP[start][h] = 1
                 /\ Distance(NODE_MAP, h, e) = D(e) - 1

Types == /\ TypeOK
         /\ NODE_MAP \in Topologies
         /\ stack \in [Caller -> Seq(Node)]
         /\ \A c \in Caller : pc[c] # "idle" \/ calls[c] > 0 => end[c] \in Node \ {start}

\* dijkstra: d is never below the distance, is the distance for a visited node,
\* and takes into account every link of one.
DistInv(c) == /\ d[start] = 0
              /\ \A i \in Node : d[i] >= D(i)
              /\ \A i \in visited[c] : d[i] = D(i)
              /\ \A m \in visited[c], i \in Node : NODE_MAP[m][i] = 1 => d[i] <= d[m] + 1

\* A node has a prev as soon as it has a d, and prev is the visited node from
\* which it got it.
PrevInv(c) == /\ prev[start] = -1
              /\ \A i \in Node \ {start} :
                     \/ prev[i] = -1 /\ d[i] = MAXSIZE
                     \/ /\ prev[i] \in visited[c]
                        /\ NODE_MAP[prev[i]][i] = 1
                        /\ d[i] = d[prev[i]] + 1

\* When dijkstra is done, prev leads one hop nearer to the device.
TreeInv == /\ prev[start] = -1
           /\ \A i \in Node \ {start} : /\ prev[i] \in Node
                                        /\ NODE_MAP[prev[i]][i] = 1
                                        /\ D(i) = D(prev[i]) + 1

\* The active calls of routePath are a shortest way to the destination.
StackInv(c) == \A k \in 1 .. Len(stack[c]) :
                   /\ D(stack[c][k]) + Len(stack[c]) = D(end[c]) + k
                   /\ Distance(NODE_MAP, stack[c][k], end[c]) <= Len(stack[c]) - k

\* What routePath still has to write and what it has written.
DescendInv(c) == route_hops = -1 /\ stack[c] # << >>
UnwindInv(c) == /\ route_hops + Len(stack[c]) = D(end[c])
                /\ route_hops >= 1 => GoodHop(route_path[0], end[c])

At(c) == /\ pc[c] = "visit" => DistInv(c) /\ PrevInv(c)
         /\ pc[c] \in {"descend", "unwind"} => TreeInv /\ StackInv(c)
         /\ pc[c] = "descend" => DescendInv(c)
         /\ pc[c] = "unwind" => UnwindInv(c)
         /\ pc[c] = "idle" /\ calls[c] > 0 => GoodHop(hop[c], end[c])

IInv == Types /\ \A c \in Caller : At(c)
-----------------------------------------------------------------------------
(* dijkstra. *)

\* What the other proofs need of the types.
LEMMA TypeFacts ==
    ASSUME Types
    PROVE  /\ MAXSIZE \in Nat /\ MAXSIZE > N
           /\ d \in [Node -> 0 .. MAXSIZE] /\ d \in [Node -> Nat]
           /\ start \in Node
           /\ \A c \in Caller : visited[c] \in SUBSET Node
           /\ \A i, j \in Node : NODE_MAP[i][j] \in {0, 1}
           /\ \A c \in Caller : stack[c] \in Seq(Node)
           /\ Node \in SUBSET Nat
<1>1. MAXSIZE \in Nat /\ MAXSIZE > N
  BY RoutingAssumption DEF PathSize, MAXSIZE, N
<1>2. d \in [Node -> 0 .. MAXSIZE]
  BY DEF Types, TypeOK
<1>4. d \in [Node -> Nat]
  BY <1>1, <1>2
<1>5. \A i, j \in Node : NODE_MAP[i][j] \in {0, 1}
  BY DEF Types, Topologies
<1>6. start \in Node /\ \A c \in Caller : visited[c] \in SUBSET Node
  BY DEF Types, TypeOK
<1>7. \A c \in Caller : stack[c] \in Seq(Node)
  BY DEF Types
<1>8. Node \in SUBSET Nat
  BY DEF Node
<1> QED
  BY <1>1, <1>2, <1>4, <1>5, <1>6, <1>7, <1>8

\* Distances from the device.
LEMMA DFacts ==
    ASSUME Types
    PROVE  /\ \A i \in Node : D(i) \in 0 .. N - 1
           /\ \A i \in Node : D(i) = 0 <=> i = start
           /\ \A k, j \in Node : NODE_MAP[k][j] = 1 => D(j) <= D(k) + 1
           /\ \A j \in Node \ {start} : \E k \in Node : NODE_MAP[k][j] = 1 /\ D(j) = D(k) + 1
<1>1. NODE_MAP \in Topologies /\ start \in Node
  BY DEF Types, TypeOK
<1>2. \A i \in Node : D(i) \in 0 .. N - 1
  BY <1>1, DistanceDef DEF D
<1>3. \A i \in Node : D(i) = 0 <=> i = start
  BY <1>1, DistanceZero DEF D
<1>4. \A k, j \in Node : NODE_MAP[k][j] = 1 => D(j) <= D(k) + 1
  BY <1>1, DistanceEdge DEF D
<1>5. \A j \in Node \ {start} : \E k \in Node : NODE_MAP[k][j] = 1 /\ D(j) = D(k) + 1
  BY <1>1, DistanceBefore DEF D
<1> QED
  BY <1>2, <1>3, <1>4, <1>5

\* A set of nodes has one of the least value of any function to the naturals.
LEMMA LeastNode ==
    ASSUME NEW U \in SUBSET Node, U # {}, NEW f \in [Node -> Nat]
    PROVE  \E i \in U : \A j \in U : f[i] < f[j] \/ (f[i] = f[j] /\ i <= j)
<1> DEFINE V == {f[i] : i \in U}
<1>0. Node \in SUBSET Nat
  BY DEF Node
<1>1. V \in SUBSET Nat /\ V # {}
  OBVIOUS
<1>2. PICK v \in V : \A w \in V : v <= w
  BY <1>1, LeastNatural
<1> DEFINE W == {i \in U : f[i] = v}
<1>3. W \in SUBSET Nat /\ W # {}
  BY <1>0, <1>2
<1>4. PICK i \in W : \A j \in W : i <= j
  BY <1>3, LeastNatural
<1>5. ASSUME NEW j \in U PROVE f[i] < f[j] \/ (f[i] = f[j] /\ i <= j)
  <2>1. f[i] = v /\ f[j] \in Nat /\ v <= f[j] /\ v \in Nat
    BY <1>1, <1>2, <1>4
  <2>2. CASE f[j] = v
    BY <2>1, <2>2, <1>4
  <2>3. CASE f[j] # v
    BY <2>1, <2>3
  <2> QED
    BY <2>2, <2>3
<1> QED
  BY <1>4, <1>5

\* dijkstra finds a node that has not been visited, of the least d.
LEMMA MiniFacts ==
    ASSUME Types, NEW seen \in SUBSET Node, seen # Node
    PROVE  /\ Mini(seen) \in Node \ seen
           /\ \A j \in Node \ seen : d[Mini(seen)] <= d[j]
<1> DEFINE First(i) == \A j \in Node \ seen : d[i] < d[j] \/ (d[i] = d[j] /\ i <= j)
<1>1. d \in [Node -> Nat]
  BY TypeFacts
<1>2. \E i \in Node \ seen : First(i)
  BY <1>1, LeastNode
<1>3. Mini(seen) = CHOOSE i \in Node \ seen : First(i)
  BY DEF Mini
<1>4. Mini(seen) \in Node \ seen /\ First(Mini(seen))
  <2> HIDE DEF First
  <2> QED
    BY <1>2, <1>3
<1> QED
  BY <1>1, <1>4

\* The node dijkstra visits has its final distance.
LEMMA MiniIsFinal ==
    ASSUME Types, NEW c \in Caller, DistInv(c), visited[c] # Node
    PROVE  d[Mini(visited[c])] = D(Mini(visited[c]))
<1> DEFINE U == Node \ visited[c]
           m == Mini(visited[c])
<1>1. d \in [Node -> Nat] /\ visited[c] \in SUBSET Node /\ start \in Node
  BY TypeFacts
<1>2. m \in U /\ \A j \in U : d[m] <= d[j]
  BY <1>1, MiniFacts
<1> HIDE DEF m
<1>n. N \in Nat
  BY RoutingAssumption DEF N, PathSize
<1>3. \A i \in Node : D(i) \in 0 .. N - 1
  BY DFacts
<1>4. PICK u \in U : \A j \in U : D(u) <= D(j)
  <2> DEFINE f == [i \in Node |-> D(i)]
  <2>1. f \in [Node -> Nat]
    BY <1>3
  <2>2. U \in SUBSET Node /\ U # {}
    BY <1>2
  <2>3. PICK u \in U : \A j \in U : f[u] < f[j] \/ (f[u] = f[j] /\ u <= j)
    BY <2>1, <2>2, LeastNode
  <2> QED
    BY <2>3, <1>3
<1>5. d[u] = D(u)
  <2>1. CASE u = start
    BY <2>1, DFacts, <1>1 DEF DistInv
  <2>2. CASE u # start
    <3>1. PICK k \in Node : NODE_MAP[k][u] = 1 /\ D(u) = D(k) + 1
      BY <2>2, DFacts
    <3>2. k \in visited[c]
      BY <3>1, <1>3, <1>4
    <3>3. d[u] <= d[k] + 1 /\ d[k] = D(k) /\ d[u] >= D(u)
      BY <3>1, <3>2 DEF DistInv
    <3> QED
      BY <3>1, <3>3, <1>1, <1>3
  <2> QED
    BY <2>1, <2>2
<1>6. d[m] <= d[u] /\ D(u) <= D(m) /\ d[m] >= D(m)
  BY <1>2, <1>4 DEF DistInv
<1>7. d[m] = D(m)
  BY <1>1, <1>2, <1>3, <1>5, <1>6
<1> QED
  BY <1>7 DEF m

\* The invariant holds before the first search.
LEMMA InitIInv == Init => IInv
<1> SUFFICES ASSUME Init PROVE IInv
  OBVIOUS
<1>1. MAXSIZE \in Nat /\ TotalDeviceNum \in 2 .. 41 /\ MaxCalls \in Nat
  BY RoutingAssumption DEF PathSize, MAXSIZE
<1>2. TypeOK
  BY <1>1 DEF Init, TypeOK, Node
<1>3. Types
  BY <1>2 DEF Init, Types
<1>4. \A c \in Caller : pc[c] = "idle" /\ calls[c] = 0
  BY DEF Init
<1>5. \A c \in Caller : At(c)
  BY <1>4 DEF At
<1> QED
  BY <1>3, <1>5 DEF IInv

\* A search begins.
LEMMA CallIInv ==
    ASSUME OneCaller, IInv, NEW c \in Caller, Call(c)
    PROVE  IInv'
<1>1. Types /\ TypeOK
  BY DEF IInv, Types
<1>2. MAXSIZE \in Nat /\ MAXSIZE > N /\ start \in Node /\ N \in 2 .. 41 /\ MaxCalls \in Nat
  BY <1>1, TypeFacts, RoutingAssumption DEF N, PathSize
<1>3. PICK r \in Node \ {start} : end' = [end EXCEPT ![c] = r]
  BY DEF Call
<1>4. TypeOK'
  <2>1. d' \in [Node -> 0 .. MAXSIZE] /\ prev' \in [Node -> -1 .. TotalDeviceNum]
    BY <1>2 DEF Call, N
  <2>2. calls' \in [Caller -> 0 .. MaxCalls]
    <3>1. calls \in [Caller -> 0 .. MaxCalls] /\ calls[c] < MaxCalls
      BY <1>1 DEF Call, TypeOK
    <3>2. calls' = [calls EXCEPT ![c] = calls[c] + 1]
      BY DEF Call
    <3>3. calls[c] + 1 \in 0 .. MaxCalls
      BY <3>1, <1>2
    <3> QED
      BY <3>1, <3>2, <3>3
  <2>3. end' \in [Caller -> 0 .. TotalDeviceNum]
    BY <1>1, <1>3 DEF TypeOK, Node
  <2>4. pc' \in [Caller -> {"idle", "visit", "descend", "unwind"}] /\ visited' \in [Caller -> SUBSET Node]
    BY <1>1 DEF Call, TypeOK
  <2> QED
    BY <1>1, <2>1, <2>2, <2>3, <2>4 DEF Call, TypeOK
<1>5. \A x \in Caller : x = c
  BY DEF OneCaller
<1>6. end'[c] = r /\ start' = start
  BY <1>1, <1>3 DEF Call, TypeOK
<1>7. Types'
  BY <1>1, <1>4, <1>5, <1>6 DEF Call, Types
<1>8. \A i \in Node : D(i)' = D(i) /\ D(i) \in 0 .. N - 1 /\ (D(i) = 0 <=> i = start)
  BY <1>1, DFacts DEF Call, D
<1>9. pc'[c] = "visit" /\ visited'[c] = {}
  BY <1>1 DEF Call, TypeOK
<1>10. DistInv(c)'
  BY <1>2, <1>6, <1>8, <1>9 DEF Call, DistInv
<1>11. PrevInv(c)'
  BY <1>2, <1>6 DEF Call, PrevInv
<1>12. At(c)'
  BY <1>9, <1>10, <1>11 DEF At
<1> QED
  BY <1>5, <1>7, <1>12 DEF IInv

\* dijkstra takes the next node and relaxes its neighbours.
LEMMA VisitIInv ==
    ASSUME OneCaller, IInv, NEW c \in Caller, Visit(c)
    PROVE  IInv'
<1> DEFINE m == Mini(visited[c])
           near(i) == NODE_MAP[m][i] = 1 /\ d[m] + 1 < d[i]
<1>1. Types /\ TypeOK /\ pc[c] = "visit" /\ visited[c] # Node
  BY DEF IInv, Types, Visit
<1>2. DistInv(c) /\ PrevInv(c)
  BY <1>1 DEF IInv, At
<1>3. /\ MAXSIZE \in Nat /\ d \in [Node -> 0 .. MAXSIZE] /\ d \in [Node -> Nat]
      /\ start \in Node /\ visited[c] \in SUBSET Node
      /\ \A i, j \in Node : NODE_MAP[i][j] \in {0, 1}
  BY <1>1, TypeFacts
<1>4. m \in Node \ visited[c] /\ d[m] = D(m)
  BY <1>1, <1>2, <1>3, MiniFacts, MiniIsFinal
<1>5. /\ \A i \in Node : D(i) \in 0 .. N - 1
      /\ \A k, j \in Node : NODE_MAP[k][j] = 1 => D(j) <= D(k) + 1
  BY <1>1, DFacts
<1>6. visited' = [visited EXCEPT ![c] = @ \cup {m}]
  BY DEF Visit
<1>7. d' = [i \in Node |-> IF Relaxes(m, i) THEN d[m] + NODE_MAP[m][i] ELSE d[i]]
  BY DEF Visit
<1>8. prev' = [i \in Node |-> IF Relaxes(m, i) THEN m ELSE prev[i]]
  BY DEF Visit
<1>9. UNCHANGED <<NODE_MAP, start, route_path, route_hops, pc, calls, end, stack, hop>>
  BY DEF Visit
<1> HIDE DEF m
<1>n. N \in 2 .. 41
  BY RoutingAssumption DEF N, PathSize
<1>10. \A i \in Node : Relaxes(m, i) <=> near(i)
  BY <1>3, <1>4 DEF Relaxes
<1>11. \A i \in Node : d'[i] = IF near(i) THEN d[m] + 1 ELSE d[i]
  BY <1>3, <1>4, <1>7, <1>10
<1>12. \A i \in Node : prev'[i] = IF near(i) THEN m ELSE prev[i]
  BY <1>8, <1>10
<1>13. \A i \in Node : d'[i] \in 0 .. MAXSIZE /\ d'[i] <= d[i]
  BY <1>3, <1>4, <1>11
<1>14. TypeOK'
  <2>1. d' \in [Node -> 0 .. MAXSIZE]
    BY <1>7, <1>13
  <2>2. prev' \in [Node -> -1 .. TotalDeviceNum]
    <3>1. \A i \in Node : prev'[i] \in -1 .. TotalDeviceNum
      <4>1. prev \in [Node -> -1 .. TotalDeviceNum]
        BY <1>1 DEF TypeOK
      <4>2. m \in -1 .. TotalDeviceNum
        BY <1>4, <1>n DEF Node, N
      <4> QED
        BY <4>1, <4>2, <1>12
    <3> QED
      BY <1>8, <3>1
  <2>3. visited' \in [Caller -> SUBSET Node]
    BY <1>1, <1>4, <1>6 DEF TypeOK
  <2> QED
    BY <1>1, <1>9, <2>1, <2>2, <2>3 DEF TypeOK
<1>15. Types'
  BY <1>1, <1>9, <1>14 DEF Types
<1>16. \A x \in Caller : x = c
  BY DEF OneCaller
<1>17. pc'[c] = "visit" /\ visited'[c] = visited[c] \cup {m}
  BY <1>1, <1>6, <1>9 DEF TypeOK
<1>18. \A i \in Node : D(i)' = D(i)
  BY <1>9 DEF D
<1>19. \A i \in visited'[c] : d'[i] = d[i] /\ d[i] = D(i) /\ i \in Node
  <2>1. ASSUME NEW i \in visited[c] PROVE d'[i] = d[i] /\ d[i] = D(i) /\ i \in Node
    <3>1. i \in Node /\ d[i] = D(i)
      BY <1>2, <1>3 DEF DistInv
    <3>2. ~near(i)
      BY <3>1, <1>3, <1>4, <1>5
    <3> QED
      BY <3>1, <3>2, <1>11
  <2>2. d'[m] = d[m]
    BY <1>3, <1>4, <1>11
  <2> QED
    BY <2>1, <2>2, <1>4, <1>17
<1>20. DistInv(c)'
  <2>1. d'[start] = 0
    BY <1>2, <1>3, <1>4, <1>11 DEF DistInv
  <2>2. ASSUME NEW i \in Node PROVE d'[i] >= D(i)
    <3>1. d[i] >= D(i)
      BY <1>2 DEF DistInv
    <3> QED
      BY <3>1, <1>3, <1>4, <1>5, <1>11
  <2>3. ASSUME NEW k \in visited'[c], NEW i \in Node, NODE_MAP[k][i] = 1
        PROVE  d'[i] <= d'[k] + 1
    <3>1. CASE k = m
      BY <2>3, <3>1, <1>3, <1>4, <1>11, <1>19
    <3>2. CASE k \in visited[c]
      <4>1. d[i] <= d[k] + 1 /\ d'[i] <= d[i] /\ d'[k] = d[k] /\ k \in Node
        BY <2>3, <3>2, <1>2, <1>13, <1>19 DEF DistInv
      <4> QED
        BY <4>1, <1>3, <1>13
    <3> QED
      BY <3>1, <3>2, <1>17
  <2>4. \A i \in visited'[c] : d'[i] = D(i)
    BY <1>19
  <2> QED
    BY <2>1, <2>2, <2>3, <2>4, <1>9, <1>18, <1>19 DEF DistInv
<1>21. PrevInv(c)'
  <2>1. prev'[start] = -1
    BY <1>2, <1>3, <1>4, <1>12 DEF PrevInv, DistInv
  <2>2. ASSUME NEW i \in Node \ {start}
        PROVE  \/ prev'[i] = -1 /\ d'[i] = MAXSIZE
               \/ /\ prev'[i] \in visited'[c]
                  /\ NODE_MAP[prev'[i]][i] = 1
                  /\ d'[i] = d'[prev'[i]] + 1
    <3>1. CASE near(i)
      BY <3>1, <1>11, <1>12, <1>17, <1>19
    <3>2. CASE ~near(i) /\ prev[i] = -1
      <4>1. d[i] = MAXSIZE
        <5>1. -1 \notin visited[c]
          BY <1>3 DEF Node
        <5> QED
          BY <5>1, <1>2, <3>2 DEF PrevInv
      <4> QED
        BY <4>1, <3>2, <1>11, <1>12
    <3>3. CASE ~near(i) /\ prev[i] # -1
      <4>1. prev[i] \in visited[c] /\ NODE_MAP[prev[i]][i] = 1 /\ d[i] = d[prev[i]] + 1
        BY <1>2, <3>3 DEF PrevInv
      <4> QED
        BY <4>1, <3>3, <1>11, <1>12, <1>17, <1>19
    <3> QED
      BY <3>1, <3>2, <3>3
  <2> QED
    BY <2>1, <2>2, <1>9 DEF PrevInv
<1>22. At(c)'
  BY <1>17, <1>20, <1>21 DEF At
<1> QED
  BY <1>15, <1>16, <1>22 DEF IInv
-----------------------------------------------------------------------------
(* routePath. *)

\* clearPath, and routePath is called.
LEMMA ClearPathIInv ==
    ASSUME OneCaller, IInv, NEW c \in Caller, ClearPath(c)
    PROVE  IInv'
<1> DEFINE e == end[c]
<1>1. Types /\ TypeOK /\ pc[c] = "visit" /\ visited[c] = Node
  BY DEF IInv, Types, ClearPath
<1>2. DistInv(c) /\ PrevInv(c)
  BY <1>1 DEF IInv, At
<1>3. MAXSIZE \in Nat /\ MAXSIZE > N /\ start \in Node
  BY <1>1, TypeFacts
<1>n. N \in 2 .. 41 /\ N = TotalDeviceNum
  BY RoutingAssumption DEF N, PathSize
<1>4. e \in Node \ {start} /\ NODE_MAP \in Topologies
  BY <1>1 DEF Types
<1>5. stack \in [Caller -> Seq(Node)] /\ stack' = [stack EXCEPT ![c] = <<e>>]
  BY <1>1 DEF ClearPath, Types
<1>6. pc \in [Caller -> {"idle", "visit", "descend", "unwind"}] /\ pc' = [pc EXCEPT ![c] = "descend"]
  BY <1>1 DEF ClearPath, TypeOK
<1>7. /\ route_hops' = -1
      /\ UNCHANGED <<NODE_MAP, start, d, prev, route_path, calls, end, visited, hop>>
  BY DEF ClearPath
<1> HIDE DEF e
<1>8. stack'[c] = <<e>> /\ stack' \in [Caller -> Seq(Node)] /\ pc'[c] = "descend"
  BY <1>4, <1>5, <1>6
<1>9. \A x \in Caller : x = c
  BY DEF OneCaller
<1>10. TypeOK'
  <2>1. pc' \in [Caller -> {"idle", "visit", "descend", "unwind"}]
    BY <1>6
  <2>2. \A x \in Caller : stack'[x] \in Seq(Node) /\ Len(stack'[x]) <= TotalDeviceNum
    <3>1. <<e>> \in Seq(Node) /\ Len(<<e>>) = 1 /\ 1 <= TotalDeviceNum
      BY <1>4, <1>n
    <3> QED
      BY <3>1, <1>8, <1>9
  <2>3. route_hops' \in -1 .. TotalDeviceNum - 1
    BY <1>7, <1>n
  <2> QED
    BY <1>1, <1>7, <2>1, <2>2, <2>3 DEF TypeOK
<1>11. Types'
  <2>1. end'[c] \in Node \ {start}'
    BY <1>4, <1>7 DEF e
  <2> QED
    BY <1>1, <1>7, <1>8, <1>9, <1>10, <2>1 DEF Types
<1>12. \A i \in Node : d[i] = D(i) /\ D(i) \in 0 .. N - 1
  BY <1>1, <1>2, DFacts DEF DistInv
<1>13. TreeInv'
  <2>1. ASSUME NEW i \in Node \ {start}
        PROVE  prev[i] \in Node /\ NODE_MAP[prev[i]][i] = 1 /\ D(i) = D(prev[i]) + 1
    <3>1. d[i] # MAXSIZE
      BY <1>3, <1>12, <1>n
    <3>2. prev[i] \in Node /\ NODE_MAP[prev[i]][i] = 1 /\ d[i] = d[prev[i]] + 1
      BY <3>1, <1>1, <1>2 DEF PrevInv
    <3> QED
      BY <3>2, <1>12
  <2>2. TreeInv
    BY <2>1, <1>2 DEF TreeInv, PrevInv
  <2> QED
    BY <2>2, <1>7 DEF TreeInv, D
<1>14. StackInv(c)'
  <2>1. Distance(NODE_MAP, e, e) = 0
    BY <1>4, DistanceZero
  <2>2. Len(stack'[c]) = 1 /\ stack'[c][1] = e
    BY <1>8
  <2>3. D(e)' = D(e) /\ end'[c] = e
    BY <1>7 DEF D, e
  <2>4. D(e) \in Int
    BY <1>4, <1>12
  <2>5. ASSUME NEW k \in 1 .. Len(stack'[c])
        PROVE  /\ Distance(NODE_MAP', start', stack'[c][k]) + Len(stack'[c]) = Distance(NODE_MAP', start', end'[c]) + k
               /\ Distance(NODE_MAP', stack'[c][k], end'[c]) <= Len(stack'[c]) - k
    <3>1. k = 1
      BY <2>2
    <3> QED
      BY <3>1, <2>1, <2>2, <2>3, <2>4, <1>7 DEF D
  <2> QED
    BY <2>5 DEF StackInv, D
<1>15. DescendInv(c)'
  BY <1>7, <1>8 DEF DescendInv
<1>16. At(c)'
  BY <1>8, <1>13, <1>14, <1>15 DEF At
<1> QED
  BY <1>9, <1>11, <1>16 DEF IInv

\* routePath calls itself for the node before.
LEMMA DescendIInv ==
    ASSUME OneCaller, IInv, NEW c \in Caller, Descend(c)
    PROVE  IInv'
<1> DEFINE e == end[c]
           st == stack[c]
           p == prev[Head(stack[c])]
<1>1. Types /\ TypeOK /\ pc[c] = "descend"
  BY DEF IInv, Types, Descend
<1>2. TreeInv /\ StackInv(c) /\ DescendInv(c)
  BY <1>1 DEF IInv, At
<1>3. start \in Node /\ st \in Seq(Node) /\ st # << >>
  BY <1>1, <1>2, TypeFacts DEF DescendInv
<1>n. N \in 2 .. 41 /\ N = TotalDeviceNum
  BY RoutingAssumption DEF N, PathSize
<1>4. e \in Node \ {start} /\ NODE_MAP \in Topologies
  BY <1>1 DEF Types
<1>5. UNCHANGED <<NODE_MAP, start, d, prev, route_path, route_hops, calls, end, visited, hop>>
  BY DEF Descend, globals
<1>6. \/ p = -1 /\ pc' = [pc EXCEPT ![c] = "unwind"] /\ stack' = stack
      \/ p # -1 /\ stack' = [stack EXCEPT ![c] = <<p>> \o stack[c]] /\ pc' = pc
  BY DEF Descend
<1>7. stack \in [Caller -> Seq(Node)] /\ pc \in [Caller -> {"idle", "visit", "descend", "unwind"}]
  BY <1>1 DEF Types, TypeOK
<1>8. \A x \in Caller : x = c
  BY DEF OneCaller
<1>9. \A i \in Node : D(i) \in 0 .. N - 1 /\ (D(i) = 0 <=> i = start)
  BY <1>1, DFacts
<1>10. Head(st) \in Node /\ Head(st) = st[1] /\ Len(st) \in Nat /\ Len(st) >= 1
  BY <1>3
<1>11. /\ D(Head(st)) + Len(st) = D(e) + 1
       /\ Distance(NODE_MAP, Head(st), e) <= Len(st) - 1
  BY <1>2, <1>10 DEF StackInv
<1>12. p = -1 <=> Head(st) = start
  <2>1. -1 \notin Node
    BY DEF Node
  <2> QED
    BY <2>1, <1>2, <1>10 DEF TreeInv
<1>13. \A i \in Node : D(i)' = D(i)
  BY <1>5 DEF D
<1>14. TreeInv'
  BY <1>2, <1>5 DEF TreeInv, D
<1>15. CASE p = -1
  <2>1. pc' = [pc EXCEPT ![c] = "unwind"] /\ stack' = stack
    BY <1>6, <1>15
  <2>2. pc'[c] = "unwind" /\ pc' \in [Caller -> {"idle", "visit", "descend", "unwind"}]
    BY <2>1, <1>7
  <2>3. TypeOK'
    BY <1>1, <1>5, <2>1, <2>2 DEF TypeOK
  <2>4. Types'
    BY <1>1, <1>5, <1>8, <2>1, <2>2, <2>3 DEF Types
  <2>5. StackInv(c)'
    BY <1>2, <1>5, <2>1 DEF StackInv, D
  <2>6. UnwindInv(c)'
    <3>1. Len(st) = D(e) + 1
      BY <1>3, <1>9, <1>10, <1>11, <1>12, <1>15, <1>4
    <3>2. route_hops' = -1 /\ stack'[c] = st /\ end'[c] = e /\ D(e)' = D(e)
      BY <1>2, <1>4, <1>5, <1>13, <2>1 DEF DescendInv
    <3>3. route_hops' + Len(stack'[c]) = D(e)
      BY <3>1, <3>2, <1>4, <1>9
    <3>4. ~(route_hops' >= 1)
      BY <3>2
    <3> QED
      BY <3>2, <3>3, <3>4 DEF UnwindInv, D
  <2>7. At(c)'
    BY <2>2, <2>5, <2>6, <1>14 DEF At
  <2> QED
    BY <1>8, <2>4, <2>7 DEF IInv
<1>16. CASE p # -1
  <2>1. stack' = [stack EXCEPT ![c] = <<p>> \o stack[c]] /\ pc' = pc
    BY <1>6, <1>16
  <2>2. p \in Node /\ NODE_MAP[p][Head(st)] = 1 /\ D(Head(st)) = D(p) + 1
    BY <1>2, <1>10, <1>12, <1>16 DEF TreeInv
  <2>3. Distance(NODE_MAP, p, e) <= Distance(NODE_MAP, Head(st), e) + 1
    BY <2>2, <1>4, <1>10, DistanceFromNeighbour
  <2>4. Distance(NODE_MAP, p, e) \in Int /\ Distance(NODE_MAP, Head(st), e) \in Int
    BY <2>2, <1>4, <1>10, <1>n, DistanceDef
  <2> HIDE DEF p, st
  <2>5. stack'[c] = <<p>> \o st
    BY <2>1, <1>7 DEF st
  <2>6. /\ stack'[c] \in Seq(Node) /\ Len(stack'[c]) = Len(st) + 1
        /\ \A k \in 1 .. Len(st) + 1 : stack'[c][k] = IF k = 1 THEN p ELSE st[k - 1]
    BY <2>5, <2>2, <1>3
  <2>7. D(p) + (Len(st) + 1) = D(e) + 1
    BY <2>2, <1>4, <1>9, <1>10, <1>11
  <2>8. Distance(NODE_MAP, p, e) <= Len(st)
    BY <2>3, <2>4, <1>10, <1>11
  <2>9. Len(stack'[c]) <= TotalDeviceNum
    BY <2>2, <2>6, <2>7, <1>4, <1>9, <1>10, <1>n
  <2>10. \A x \in Caller : stack'[x] \in Seq(Node) /\ Len(stack'[x]) <= TotalDeviceNum
    BY <2>6, <2>9, <1>8
  <2>11. TypeOK'
    BY <1>1, <1>5, <2>1, <2>10 DEF TypeOK
  <2>12. stack' \in [Caller -> Seq(Node)]
    BY <2>1, <2>10, <1>7
  <2>13. Types'
    BY <1>1, <1>5, <2>1, <2>11, <2>12 DEF Types
  <2>14. ASSUME NEW k \in 1 .. Len(st) + 1
         PROVE  /\ D(stack'[c][k]) + (Len(st) + 1) = D(e) + k
                /\ Distance(NODE_MAP, stack'[c][k], e) <= (Len(st) + 1) - k
    <3>1. CASE k = 1
      <4>1. stack'[c][k] = p
        BY <2>6, <3>1
      <4> QED
        BY <4>1, <3>1, <2>7, <2>8, <1>10
    <3>2. CASE k # 1
      <4>1. k - 1 \in 1 .. Len(st) /\ stack'[c][k] = st[k - 1]
        BY <3>2, <2>6, <1>10
      <4>2. st[k - 1] \in Node
        BY <4>1, <1>3
      <4>3. /\ D(st[k - 1]) + Len(st) = D(e) + (k - 1)
            /\ Distance(NODE_MAP, st[k - 1], e) <= Len(st) - (k - 1)
        BY <4>1, <1>2 DEF StackInv, st
      <4>4. D(st[k - 1]) \in Int /\ D(e) \in Int /\ Distance(NODE_MAP, st[k - 1], e) \in Int
        BY <4>2, <1>4, <1>9, <1>n, DistanceDef
      <4>5. Len(st) \in Int /\ k \in Int
        BY <1>10
      <4>6. D(st[k - 1]) + (Len(st) + 1) = D(e) + k
        <5>1. D(st[k - 1]) + Len(st) = D(e) + (k - 1)
          BY <4>3
        <5>2. D(st[k - 1]) \in Int /\ D(e) \in Int
          BY <4>4
        <5> QED
          BY <5>1, <5>2, <4>5
      <4>7. Distance(NODE_MAP, st[k - 1], e) <= (Len(st) + 1) - k
        BY <4>3, <4>4, <4>5
      <4> QED
        BY <4>1, <4>6, <4>7
    <3> QED
      BY <3>1, <3>2
  <2>15. StackInv(c)'
    <3> HIDE DEF e
    <3>1. end'[c] = e
      BY <1>5 DEF e
    <3>2. \A k \in 1 .. Len(st) + 1 :
              /\ Distance(NODE_MAP, start, stack'[c][k]) + (Len(st) + 1) = Distance(NODE_MAP, start, e) + k
              /\ Distance(NODE_MAP, stack'[c][k], e) <= (Len(st) + 1) - k
      BY <2>14 DEF D
    <3> QED
      BY <3>1, <3>2, <2>6, <1>5 DEF StackInv, D
  <2>16. DescendInv(c)'
    <3>1. stack'[c] # << >>
      BY <2>6, <1>10
    <3> QED
      BY <3>1, <1>2, <1>5 DEF DescendInv
  <2>17. At(c)'
    BY <2>1, <2>15, <2>16, <1>1, <1>14 DEF At
  <2> QED
    BY <1>8, <2>13, <2>17 DEF IInv
<1> QED
  BY <1>15, <1>16

\* A node of distance one on a shortest way to e is the right next hop.
LEMMA FirstIsGoodHop ==
    ASSUME Types, NEW h \in Node, NEW e \in Node, D(h) = 1,
           Distance(NODE_MAP, h, e) <= D(e) - 1
    PROVE  GoodHop(h, e)
<1>1. NODE_MAP \in Topologies /\ start \in Node /\ N \in Int
  BY RoutingAssumption DEF Types, TypeOK, N, PathSize
<1>2. h # start
  BY DFacts
<1>3. PICK k \in Node : NODE_MAP[k][h] = 1 /\ D(h) = D(k) + 1
  BY <1>2, DFacts
<1>4. D(k) = 0
  BY <1>1, <1>3, DFacts
<1>5. NODE_MAP[start][h] = 1
  BY <1>3, <1>4, DFacts
<1>6. D(e) <= Distance(NODE_MAP, h, e) + 1
  BY <1>1, <1>5, DistanceFromNeighbour DEF D
<1>7. D(e) \in Int /\ Distance(NODE_MAP, h, e) \in Int
  BY <1>1, DFacts, DistanceDef
<1> QED
  BY <1>5, <1>6, <1>7 DEF GoodHop

\* routePath appends its node to route_path and returns.
LEMMA UnwindIInv ==
    ASSUME OneCaller, IInv, NEW c \in Caller, Unwind(c)
    PROVE  IInv'
<1> DEFINE e == end[c]
           st == stack[c]
<1>1. Types /\ TypeOK /\ pc[c] = "unwind" /\ st # << >>
  BY DEF IInv, Types, Unwind
<1>2. TreeInv /\ StackInv(c) /\ UnwindInv(c)
  BY <1>1 DEF IInv, At
<1>3. start \in Node /\ st \in Seq(Node)
  BY <1>1, TypeFacts
<1>n. N \in 2 .. 41 /\ N = TotalDeviceNum
  BY RoutingAssumption DEF N, PathSize
<1>4. e \in Node \ {start} /\ NODE_MAP \in Topologies
  BY <1>1 DEF Types
<1>5. UNCHANGED <<NODE_MAP, start, d, prev, pc, calls, end, visited, hop>>
  BY DEF Unwind
<1>6. /\ route_path' = [route_path EXCEPT ![route_hops] = Head(st)]
      /\ route_hops' = route_hops + 1
      /\ stack' = [stack EXCEPT ![c] = Tail(st)]
  BY DEF Unwind
<1>7. /\ stack \in [Caller -> Seq(Node)]
      /\ route_path \in [-1 .. PathSize - 1 -> 0 .. TotalDeviceNum]
      /\ route_hops \in -1 .. TotalDeviceNum - 1
  BY <1>1 DEF Types, TypeOK
<1>8. \A x \in Caller : x = c
  BY DEF OneCaller
<1>9. \A i \in Node : D(i) \in 0 .. N - 1
  BY <1>1, DFacts
<1>10. Head(st) \in Node /\ Head(st) = st[1] /\ Len(st) \in Nat /\ Len(st) >= 1
  BY <1>1, <1>3
<1>11. /\ D(Head(st)) + Len(st) = D(e) + 1
       /\ Distance(NODE_MAP, Head(st), e) <= Len(st) - 1
  BY <1>2, <1>10 DEF StackInv
<1>12. /\ route_hops + Len(st) = D(e)
       /\ route_hops >= 1 => GoodHop(route_path[0], e)
  BY <1>2 DEF UnwindInv
<1> HIDE DEF st, e
<1>13. stack'[c] = Tail(st)
  BY <1>6, <1>7
<1>14. /\ stack'[c] \in Seq(Node) /\ Len(stack'[c]) = Len(st) - 1
       /\ \A k \in 1 .. Len(st) - 1 : stack'[c][k] = st[k + 1]
  BY <1>1, <1>3, <1>10, <1>13
<1>15. \A x \in Caller : stack'[x] \in Seq(Node) /\ Len(stack'[x]) <= TotalDeviceNum
  <2>1. Len(st) <= TotalDeviceNum
    BY <1>1 DEF TypeOK, st
  <2> QED
    BY <2>1, <1>8, <1>10, <1>14, <1>n
<1>16. route_hops' \in -1 .. TotalDeviceNum - 1
  BY <1>4, <1>6, <1>7, <1>9, <1>10, <1>12, <1>n
<1>17. route_path' \in [-1 .. PathSize - 1 -> 0 .. TotalDeviceNum]
  <2>1. Head(st) \in 0 .. TotalDeviceNum
    BY <1>10, <1>n DEF Node
  <2> QED
    BY <2>1, <1>6, <1>7
<1>18. TypeOK'
  BY <1>1, <1>5, <1>15, <1>16, <1>17 DEF TypeOK
<1>19. stack' \in [Caller -> Seq(Node)]
  BY <1>6, <1>7, <1>15
<1>20. Types'
  BY <1>1, <1>5, <1>18, <1>19 DEF Types
<1>21. TreeInv'
  BY <1>2, <1>5 DEF TreeInv, D
<1>22. StackInv(c)'
  <2>1. ASSUME NEW k \in 1 .. Len(st) - 1
        PROVE  /\ D(stack'[c][k]) + (Len(st) - 1) = D(e) + k
               /\ Distance(NODE_MAP, stack'[c][k], e) <= (Len(st) - 1) - k
    <3>1. k + 1 \in 1 .. Len(st) /\ stack'[c][k] = st[k + 1]
      BY <1>10, <1>14
    <3>2. st[k + 1] \in Node
      BY <3>1, <1>3
    <3>3. /\ D(st[k + 1]) + Len(st) = D(e) + (k + 1)
          /\ Distance(NODE_MAP, st[k + 1], e) <= Len(st) - (k + 1)
      BY <3>1, <1>2 DEF StackInv, st, e
    <3>4. D(st[k + 1]) \in Int /\ D(e) \in Int /\ Distance(NODE_MAP, st[k + 1], e) \in Int
      BY <3>2, <1>4, <1>9, <1>n, DistanceDef
    <3>5. /\ D(st[k + 1]) + (Len(st) - 1) = D(e) + k
          /\ Distance(NODE_MAP, st[k + 1], e) <= (Len(st) - 1) - k
      <4>1. Len(st) \in Int /\ k \in Int
        BY <1>10
      <4>2. D(st[k + 1]) + (Len(st) - 1) = D(e) + k
        <5>1. D(st[k + 1]) + Len(st) = D(e) + (k + 1)
          BY <3>3
        <5>2. D(st[k + 1]) \in Int /\ D(e) \in Int
          BY <3>4
        <5> QED
          BY <5>1, <5>2, <4>1
      <4>3. Distance(NODE_MAP, st[k + 1], e) <= (Len(st) - 1) - k
        BY <3>3, <3>4, <4>1
      <4> QED
        BY <4>2, <4>3
    <3> QED
      BY <3>1, <3>5
  <2>2. end'[c] = e
    BY <1>5 DEF e
  <2>3. \A k \in 1 .. Len(st) - 1 :
            /\ Distance(NODE_MAP, start, stack'[c][k]) + (Len(st) - 1) = Distance(NODE_MAP, start, e) + k
            /\ Distance(NODE_MAP, stack'[c][k], e) <= (Len(st) - 1) - k
    BY <2>1 DEF D
  <2> QED
    BY <2>2, <2>3, <1>5, <1>14 DEF StackInv, D
<1>23. UnwindInv(c)'
  <2>1. route_hops' + Len(stack'[c]) = D(e)
    BY <1>4, <1>6, <1>7, <1>9, <1>10, <1>12, <1>14, <1>n
  <2>2. ASSUME route_hops' >= 1 PROVE GoodHop(route_path'[0], e)
    <3>1. CASE route_hops = 0
      <4>1. route_path'[0] = Head(st)
        BY <3>1, <1>6, <1>7, <1>n DEF PathSize
      <4>2. D(Head(st)) = 1 /\ Distance(NODE_MAP, Head(st), e) <= D(e) - 1
        BY <3>1, <1>4, <1>9, <1>10, <1>11, <1>12
      <4>3. GoodHop(Head(st), e)
        BY <4>2, <1>1, <1>4, <1>10, FirstIsGoodHop
      <4> QED
        BY <4>1, <4>3
    <3>2. CASE route_hops # 0
      <4>1. route_hops >= 1 /\ 0 \in -1 .. PathSize - 1
        BY <2>2, <3>2, <1>6, <1>7, <1>n DEF PathSize
      <4>2. route_path'[0] = route_path[0]
        BY <3>2, <4>1, <1>6, <1>7
      <4> QED
        BY <4>1, <4>2, <1>12
    <3> QED
      BY <3>1, <3>2
  <2>3. end'[c] = e
    BY <1>5 DEF e
  <2> QED
    BY <2>1, <2>2, <2>3, <1>5 DEF UnwindInv, GoodHop, D
<1>24. At(c)'
  BY <1>1, <1>5, <1>21, <1>22, <1>23 DEF At
<1> QED
  BY <1>8, <1>20, <1>24 DEF IInv

\* The search returns its first hop.
LEMMA ReturnIInv ==
    ASSUME OneCaller, IInv, NEW c \in Caller, Return(c)
    PROVE  IInv'
<1> DEFINE e == end[c]
           h == route_path[0]
<1>1. Types /\ TypeOK /\ pc[c] = "unwind" /\ stack[c] = << >>
  BY DEF IInv, Types, Return
<1>2. UnwindInv(c) /\ e \in Node \ {start}
  BY <1>1 DEF IInv, At, Types
<1>n. N \in 2 .. 41 /\ N = TotalDeviceNum
  BY RoutingAssumption DEF N, PathSize
<1>3. /\ hop' = [hop EXCEPT ![c] = h]
      /\ pc' = [pc EXCEPT ![c] = "idle"]
      /\ UNCHANGED <<NODE_MAP, start, d, prev, route_path, route_hops, calls, end, visited, stack>>
  BY DEF Return, globals
<1>4. GoodHop(h, e)
  <2>1. route_hops + 0 = D(e) /\ route_hops \in Int
    BY <1>1, <1>2 DEF UnwindInv, TypeOK
  <2>2. D(e) \in 0 .. N - 1 /\ D(e) # 0
    BY <1>1, <1>2, DFacts
  <2>3. route_hops >= 1
    BY <2>1, <2>2
  <2> QED
    BY <2>3, <1>2 DEF UnwindInv
<1>5. h \in 0 .. TotalDeviceNum
  BY <1>4, <1>n DEF GoodHop, Node
<1> HIDE DEF h
<1>6. hop' \in [Caller -> 0 .. TotalDeviceNum] /\ pc' \in [Caller -> {"idle", "visit", "descend", "unwind"}]
  BY <1>1, <1>3, <1>5 DEF TypeOK
<1>7. hop'[c] = h /\ pc'[c] = "idle"
  BY <1>1, <1>3 DEF TypeOK
<1>8. TypeOK'
  BY <1>1, <1>3, <1>6 DEF TypeOK
<1>9. \A x \in Caller : x = c
  BY DEF OneCaller
<1>10. Types'
  BY <1>1, <1>2, <1>3, <1>8, <1>9 DEF Types
<1>11. GoodHop(hop[c], end[c])'
  BY <1>3, <1>4, <1>7 DEF GoodHop, D
<1>12. At(c)'
  BY <1>7, <1>11 DEF At
<1> QED
  BY <1>9, <1>10, <1>12 DEF IInv
-----------------------------------------------------------------------------
(* The theorems. *)

\* Every step keeps the invariant.
LEMMA NextIInv ==
    ASSUME OneCaller, IInv, [Next]_vars
    PROVE  IInv'
<1>1. CASE Next
  <2>1. PICK c \in Caller :
            Call(c) \/ Visit(c) \/ ClearPath(c) \/ Descend(c) \/ Unwind(c) \/ Return(c)
    BY <1>1 DEF Next
  <2> QED
    BY <2>1, CallIInv, VisitIInv, ClearPathIInv, DescendIInv, UnwindIInv, ReturnIInv
<1>2. CASE UNCHANGED vars
  <2>1. UNCHANGED <<NODE_MAP, start, d, prev, route_path, route_hops, pc, calls, end, visited, stack, hop>>
    BY <1>2 DEF vars, globals, locals
  <2>2. Types'
    BY <2>1 DEF IInv, Types, TypeOK
  <2>3. \A c \in Caller : At(c)'
    BY <2>1 DEF IInv, At, DistInv, PrevInv, TreeInv, StackInv, DescendInv, UnwindInv, GoodHop, D
  <2> QED
    BY <2>2, <2>3 DEF IInv
<1> QED
  BY <1>1, <1>2

\* The invariant holds whenever one thread calls route_discovery.
LEMMA Invariant ==
    ASSUME OneCaller
    PROVE  Spec => []IInv
<1>1. Init => IInv
  BY InitIInv
<1>2. IInv /\ [Next]_vars => IInv'
  BY NextIInv
<1> QED
  BY <1>1, <1>2, PTL DEF Spec

\* In every network, with one caller: no array is indexed out of its bounds, but
\* for the -1 at which routePath writes the device itself
\* (route_processor.c:760), and routePath never calls itself more often than there are
\* devices (route_processor.c:758-808).
THEOREM TypeCorrect ==
    ASSUME OneCaller
    PROVE  Spec => []TypeOK
<1>1. IInv => TypeOK
  BY DEF IInv, Types
<1> QED
  BY <1>1, Invariant, PTL

\* In every network, with one caller: d is never below the distance, and is
\* the distance for every node dijkstra has visited (route_processor.c:793-806).
THEOREM VisitedNodesAreFinal ==
    ASSUME OneCaller
    PROVE  Spec => []VisitedIsFinal
<1>1. IInv => VisitedIsFinal
  <2> SUFFICES ASSUME IInv, NEW c \in Caller, pc[c] = "visit"
               PROVE  \A i \in Node : /\ d[i] >= Distance(NODE_MAP, start, i)
                                      /\ i \in visited[c] => d[i] = Distance(NODE_MAP, start, i)
    BY DEF VisitedIsFinal
  <2>1. DistInv(c)
    BY DEF IInv, At
  <2> QED
    BY <2>1 DEF DistInv, D
<1> QED
  BY <1>1, Invariant, PTL

\* In every network, with one caller: route_discovery returns a neighbour one
\* hop nearer to the destination (route_processor.c:74), so that a packet that
\* is handed on by what it returns reaches the destination and does not circle.
THEOREM HopsAreNearer ==
    ASSUME OneCaller
    PROVE  Spec => []HopIsNearer
<1>1. IInv => HopIsNearer
  <2> SUFFICES ASSUME IInv, NEW c \in Caller, pc[c] = "idle", calls[c] > 0
               PROVE  /\ hop[c] \in Node
                      /\ NODE_MAP[start][hop[c]] = 1
                      /\ Distance(NODE_MAP, hop[c], end[c]) = Distance(NODE_MAP, start, end[c]) - 1
    BY DEF HopIsNearer
  <2>1. GoodHop(hop[c], end[c])
    BY DEF IInv, At
  <2> QED
    BY <2>1 DEF GoodHop, D
<1> QED
  BY <1>1, Invariant, PTL
=============================================================================
