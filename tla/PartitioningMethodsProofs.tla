----------------------- MODULE PartitioningMethodsProofs -----------------------
(***************************************************************************)
(* Proofs about the three partitioning methods with a state of their own:  *)
(* HierarchicalClustering, SimulatedAnnealing and KernighanLin, on the     *)
(* same graph and for the same devices.                                    *)
(***************************************************************************)
EXTENDS HierarchicalClustering, SimulatedAnnealing, KernighanLin, SumTheorems

(* What apply is given and never changes. *)
GraphTyped ==
  /\ units \in Seq(Seq(DOMAIN cortexA9))
  /\ com \in [Edges -> [data : Nat, order : Nat]]
  /\ devices \in Seq(Devices) \ {<<>>}

(* There are finitely many vertices and edges, and an edge leads from a *)
(* vertex to a later one.                                               *)
LEMMA VerticesFinite ==
  ASSUME GraphTyped
  PROVE  /\ Vertices = 1..Len(units) /\ Len(units) \in Nat
         /\ Vertices \subseteq Int
         /\ IsFiniteSet(Vertices)
         /\ IsFiniteSet(Edges)
         /\ \A e \in Edges : /\ e[1] \in Vertices /\ e[2] \in Vertices
                             /\ e[1] < e[2] /\ e = <<e[1], e[2]>>
<1>1. Vertices = 1..Len(units) /\ Len(units) \in Nat
  BY DEF GraphTyped, Vertices
<1>2. IsFiniteSet(Vertices)
  BY <1>1, FS_Interval
<1>3. IsFiniteSet(Vertices \X Vertices)
  BY <1>2, FS_Product
<1>4. Edges \subseteq Vertices \X Vertices
  BY DEF Edges
<1>5. \A e \in Edges : e[1] \in Vertices /\ e[2] \in Vertices /\ e[1] < e[2] /\ e = <<e[1], e[2]>>
  BY DEF Edges
<1>6. IsFiniteSet(Edges)
  BY <1>3, <1>4, FS_Subset
<1> QED BY <1>1, <1>2, <1>5, <1>6

(* Every instruction takes a natural number of cycles. *)
LEMMA CycleCounts ==
  ASSUME NEW device, NEW opcode \in DOMAIN cortexA9
  PROVE  getCycleCount(device, opcode) \in Nat
<1>1. 2^20 \in Nat
  OBVIOUS
<1>2. cortexA9[opcode] \in Nat
  BY DEF cortexA9
<1>3. fpga[opcode] \in Nat
  BY <1>1 DEF cortexA9, fpga
<1> QED BY <1>2, <1>3 DEF getCycleCount, fpgaClockMultiplier

(* So no vertex has a negative execution time. *)
LEMMA ExecutionTime ==
  ASSUME GraphTyped, NEW v \in Vertices, NEW device
  PROVE  getExecutionTime(v, device) \in Int /\ getExecutionTime(v, device) >= 0
<1> DEFINE f == [k \in DOMAIN units[v] |-> getCycleCount(device, units[v][k])]
<1>1. units[v] \in Seq(DOMAIN cortexA9)
  BY DEF GraphTyped, Vertices
<1>2. IsFiniteSet(DOMAIN units[v])
  <2>1. DOMAIN units[v] = 1..Len(units[v]) /\ Len(units[v]) \in Nat
    BY <1>1
  <2> QED BY <2>1, FS_Interval
<1>3. \A k \in DOMAIN units[v] : f[k] \in Int /\ f[k] >= 0
  BY <1>1, CycleCounts
<1>4. getExecutionTime(v, device) = SumFunctionOnSet(f, DOMAIN units[v])
  BY DEF getExecutionTime, SumFunction, FoldFunction, SumFunctionOnSet
<1> HIDE DEF f
<1> QED BY <1>2, <1>3, <1>4, SumNat

(* And no edge a negative weight. *)
LEMMA EdgeWeight ==
  ASSUME GraphTyped, NEW e \in Edges, NEW p
  PROVE  edgeWeight(e[1], e[2], p, devices) \in Int /\ edgeWeight(e[1], e[2], p, devices) >= 0
<1>1. e[1] \in Vertices /\ e[2] \in Vertices /\ e = <<e[1], e[2]>>
  BY DEF Edges
<1>2. com[<<e[1], e[2]>>] \in [data : Nat, order : Nat]
  BY <1>1 DEF GraphTyped
<1>3. \A s, t, type : getCommunicationCost(s, t, type) \in Nat
  BY DEF getCommunicationCost, fpgaClockMultiplier
<1>4. \A s, t : calcEdgeCost(com[<<e[1], e[2]>>], s, t) \in Nat
  BY <1>2, <1>3 DEF calcEdgeCost
<1>5. \A d : getExecutionTime(e[2], d) \in Int /\ getExecutionTime(e[2], d) >= 0
  BY <1>1, ExecutionTime
<1> QED BY <1>4, <1>5 DEF edgeWeight

(* The length of a path: the sum of the weights of its steps. *)
pathLength(P, p) ==
  SumFunctionOnSet([e \in Edges |-> edgeWeight(e[1], e[2], p, devices)], Steps(P))

(* The steps of a path are edges of the graph. *)
LEMMA StepsAreEdges ==
  ASSUME GraphTyped, NEW P \in SUBSET Vertices
  PROVE  Steps(P) \subseteq Edges /\ IsFiniteSet(Steps(P))
<1>1. Steps(P) \subseteq Edges
  BY DEF Steps, Edges
<1> QED BY <1>1, VerticesFinite, FS_Subset

(* The critical path is the longest one: its length is a natural number and *)
(* no path is longer.                                                       *)
LEMMA CriticalPathLongest ==
  ASSUME GraphTyped, NEW p
  PROVE  /\ getCriticalPathCost(p, devices) \in Nat
         /\ \A P \in Paths(p) : /\ pathLength(P, p) \in Int
                                /\ getCriticalPathCost(p, devices) >= pathLength(P, p)
<1> DEFINE g == [e \in Edges |-> edgeWeight(e[1], e[2], p, devices)]
           w(P) == [e \in Steps(P) |-> - edgeWeight(e[1], e[2], p, devices)]
           h == [P \in SUBSET Vertices |-> SumFunction(w(P))]
           L == {h[P] : P \in Paths(p)}
<1>1. ASSUME NEW P \in SUBSET Vertices
      PROVE  h[P] \in Int /\ pathLength(P, p) \in Int /\ h[P] = 0 - pathLength(P, p)
  <2>1. Steps(P) \subseteq Edges /\ IsFiniteSet(Steps(P))
    BY StepsAreEdges
  <2>2. \A e \in Steps(P) : g[e] \in Int /\ w(P)[e] = 0 - g[e]
    BY <2>1, EdgeWeight
  <2>3. h[P] = SumFunctionOnSet(w(P), Steps(P))
    BY DEF SumFunction
  <2>4. pathLength(P, p) = SumFunctionOnSet(g, Steps(P))
    BY DEF pathLength
  <2> HIDE DEF w, h, g
  <2>5. SumFunctionOnSet(w(P), Steps(P)) = 0 - SumFunctionOnSet(g, Steps(P))
    BY <2>1, <2>2, SumNegated
  <2>6. SumFunctionOnSet(g, Steps(P)) \in Int
    BY <2>1, <2>2, SumInt
  <2> QED BY <2>3, <2>4, <2>5, <2>6
<1>2. IsFiniteSet(L)
  <2>1. IsFiniteSet(SUBSET Vertices) /\ Paths(p) \subseteq SUBSET Vertices
    BY VerticesFinite, FS_SUBSET DEF Paths
  <2> HIDE DEF h
  <2> QED BY <2>1, FS_Subset, FiniteImage
<1>3. L \subseteq Int /\ \A P \in Paths(p) : P \in SUBSET Vertices /\ h[P] \in L
  BY <1>1 DEF Paths
<1>4. 0 \in L
  <2>1. {} \in Paths(p) /\ Steps({}) = {}
    BY DEF Paths, Steps
  <2>2. h[{}] = SumFunctionOnSet(w({}), {})
    BY <2>1 DEF SumFunction
  <2> HIDE DEF h, w
  <2> QED BY <2>1, <2>2, SumEmpty
<1>5. getCriticalPathCost(p, devices) = - Min(L)
  <2>1. L = {SumFunction(w(P)) : P \in Paths(p)}
    BY DEF Paths
  <2> QED BY <2>1 DEF getCriticalPathCost
<1> HIDE DEF L, h
<1>6. Min(L) \in Int /\ \A y \in L : Min(L) <= y
  BY <1>2, <1>3, <1>4, MinInt
<1>7. getCriticalPathCost(p, devices) \in Nat
  BY <1>4, <1>5, <1>6
<1>8. ASSUME NEW P \in Paths(p)
      PROVE  pathLength(P, p) \in Int /\ getCriticalPathCost(p, devices) >= pathLength(P, p)
  <2>1. P \in SUBSET Vertices /\ h[P] \in L
    BY <1>3
  <2>2. PICK l \in Int : l = pathLength(P, p) /\ h[P] = 0 - l
    BY <1>1, <2>1
  <2>3. PICK m \in Int : m = Min(L) /\ m <= h[P]
    BY <1>6, <2>1
  <2> QED BY <1>5, <2>2, <2>3
<1> QED BY <1>7, <1>8

-----------------------------------------------------------------------------
(* The critical path. *)

(* The vertices of a partition, which run one after the other, are a path; *)
(* its length is their work, without that of the first one.                *)
LEMMA PartitionIsPath ==
  ASSUME GraphTyped, NEW p, NEW q, NEW M \in SUBSET Vertices, M # {},
         \A v \in Vertices : v \in M <=> p[v] = q
  PROVE  /\ M \in Paths(p)
         /\ pathLength(M, p) =
              SumFunction([v \in M \ {Min(M)} |-> getExecutionTime(v, devices[p[v] + 1])])
<1>1. M \in SUBSET Vertices /\ \A v \in M : p[v] = q
  OBVIOUS
<1>2. \A v \in Vertices : p[v] = q => v \in M
  OBVIOUS
<1>3. M \subseteq Int /\ IsFiniteSet(M)
  BY <1>1, VerticesFinite, FS_Subset
<1>4. M \in Paths(p)
  <2>1. ASSUME NEW e \in Steps(M)
        PROVE  PathEdge(e[1], e[2], p)
    <3>1. e[1] \in M /\ e[2] \in M /\ e[1] < e[2] /\ M \cap ((e[1] + 1)..(e[2] - 1)) = {}
      BY DEF Steps
    <3>2. \A w \in (e[1] + 1)..(e[2] - 1) : w \in Vertices /\ w \notin M
      BY <1>1, <3>1, VerticesFinite
    <3>3. Scheduled(e[1], e[2], p)
      BY <1>1, <1>2, <3>1, <3>2 DEF Scheduled
    <3> QED BY <3>3 DEF PathEdge
  <2> QED BY <1>1, <2>1 DEF Paths
<1> DEFINE g == [e \in Edges |-> edgeWeight(e[1], e[2], p, devices)]
           f == [v \in M \ {Min(M)} |-> getExecutionTime(v, devices[p[v] + 1])]
           second == [e \in Steps(M) |-> e[2]]
           R == {second[e] : e \in Steps(M)}
<1>5. Steps(M) \subseteq Edges /\ IsFiniteSet(Steps(M))
  BY <1>1, StepsAreEdges
<1>6. Min(M) \in M /\ \A y \in M : Min(M) <= y
  BY <1>3, MinInt
<1>7. \A e \in Steps(M) : /\ e[1] \in M /\ e[2] \in M /\ e[1] < e[2] /\ e = <<e[1], e[2]>>
                          /\ \A w \in M : ~ (e[1] < w /\ w < e[2])
  <2> SUFFICES ASSUME NEW e \in Steps(M)
               PROVE  /\ e[1] \in M /\ e[2] \in M /\ e[1] < e[2] /\ e = <<e[1], e[2]>>
                      /\ \A w \in M : ~ (e[1] < w /\ w < e[2])
    OBVIOUS
  <2>1. /\ e[1] \in M /\ e[2] \in M /\ e[1] < e[2] /\ e = <<e[1], e[2]>>
        /\ M \cap ((e[1] + 1)..(e[2] - 1)) = {}
    BY DEF Steps
  <2> QED BY <1>3, <2>1
<1>8. R = M \ {Min(M)}
  <2>1. \A x \in R : x \in M \ {Min(M)}
    BY <1>3, <1>6, <1>7
  <2>2. ASSUME NEW x \in M \ {Min(M)} PROVE x \in R
    <3> DEFINE before == {u \in M : u < x}
    <3>1. Min(M) \in before
      <4>1. PICK m : m = Min(M)
        OBVIOUS
      <4>2. m \in M /\ m <= x /\ m # x /\ m \in Int /\ x \in Int
        BY <1>3, <1>6, <4>1
      <4> QED BY <4>1, <4>2
    <3>2. before \subseteq Int /\ before # {} /\ IsFiniteSet(before)
      BY <1>3, <3>1, FS_Subset
    <3> HIDE DEF before
    <3>3. PICK u \in before : \A y \in before : u >= y
      BY <3>2, MaxInt
    <3> USE DEF before
    <3>4. u \in M /\ u < x /\ u \in Int /\ x \in Int
      BY <1>3, <3>3
    <3>5. M \cap ((u + 1)..(x - 1)) = {}
      <4> SUFFICES ASSUME NEW w \in M, w \in (u + 1)..(x - 1) PROVE FALSE
        OBVIOUS
      <4>1. w \in before
        BY <3>4
      <4> QED BY <3>3, <3>4, <4>1
    <3>6. <<u, x>> \in Steps(M)
      BY <3>4, <3>5 DEF Steps
    <3>7. second[<<u, x>>] = x
      BY <3>6
    <3> QED BY <3>6, <3>7
  <2> HIDE DEF R
  <2> QED BY <2>1, <2>2
<1>9. \A d, e \in Steps(M) : second[d] = second[e] => d = e
  <2> SUFFICES ASSUME NEW d \in Steps(M), NEW e \in Steps(M), d[2] = e[2]
               PROVE  d = e
    OBVIOUS
  <2>1. d[1] = e[1]
    BY <1>3, <1>7
  <2> QED BY <1>7, <2>1
<1>10. \A e \in Steps(M) : g[e] \in Int /\ g[e] = f[second[e]]
  <2> SUFFICES ASSUME NEW e \in Steps(M)
               PROVE  g[e] \in Int /\ g[e] = f[second[e]]
    OBVIOUS
  <2>1. e \in Edges /\ g[e] = edgeWeight(e[1], e[2], p, devices) /\ g[e] \in Int
    BY <1>5, EdgeWeight
  <2>2. second[e] = e[2] /\ e[2] \in M \ {Min(M)}
    BY <1>3, <1>6, <1>7
  <2>3. p[e[1]] = p[e[2]] /\ e[2] \in Vertices
    BY <1>1, <1>7
  <2>4. getExecutionTime(e[2], devices[p[e[2]] + 1]) \in Int
    BY <2>3, ExecutionTime
  <2>5. edgeWeight(e[1], e[2], p, devices) = getExecutionTime(e[2], devices[p[e[2]] + 1])
    BY <2>3, <2>4 DEF edgeWeight
  <2> QED BY <2>1, <2>2, <2>5
<1>11. pathLength(M, p) = SumFunctionOnSet(g, Steps(M))
  BY DEF pathLength
<1>12. SumFunction(f) = SumFunctionOnSet(f, M \ {Min(M)})
  BY DEF SumFunction
<1> HIDE DEF g, f, second
<1>13. SumFunctionOnSet(f, R) = SumFunctionOnSet(g, Steps(M))
  BY <1>5, <1>9, <1>10, SumRenamed
<1>14. pathLength(M, p) = SumFunction(f)
  BY <1>8, <1>11, <1>12, <1>13
<1> QED BY <1>4, <1>14 DEF f

(* Two vertices with an edge between partitions are a path as well. *)
LEMMA EdgeIsPath ==
  ASSUME GraphTyped, NEW p, NEW e \in Edges, Linked(e[1], e[2]), p[e[1]] # p[e[2]]
  PROVE  /\ {e[1], e[2]} \in Paths(p)
         /\ pathLength({e[1], e[2]}, p) =
              calcEdgeCost(com[e], devices[p[e[1]] + 1], devices[p[e[2]] + 1])
              + getExecutionTime(e[2], devices[p[e[2]] + 1])
<1>1. e[1] \in Vertices /\ e[2] \in Vertices /\ e[1] < e[2] /\ e = <<e[1], e[2]>>
      /\ e[1] \in Int /\ e[2] \in Int
  BY VerticesFinite
<1> DEFINE P == {e[1], e[2]}
           g == [x \in Edges |-> edgeWeight(x[1], x[2], p, devices)]
<1>2. Steps(P) = {e}
  <2>1. ASSUME NEW d \in Steps(P) PROVE d = e
    BY <1>1 DEF Steps
  <2>2. e \in Steps(P)
    <3>1. P \cap ((e[1] + 1)..(e[2] - 1)) = {}
      BY <1>1
    <3>2. <<e[1], e[2]>> \in P \X P
      OBVIOUS
    <3> QED BY <1>1, <3>1, <3>2 DEF Steps
  <2> QED BY <2>1, <2>2
<1>3. P \in Paths(p)
  BY <1>1, <1>2 DEF Paths, PathEdge
<1>4. g[e] \in Int /\ g[e] = edgeWeight(e[1], e[2], p, devices)
  BY EdgeWeight
<1>5. pathLength(P, p) = SumFunctionOnSet(g, {e})
  BY <1>2 DEF pathLength
<1> HIDE DEF g, P
<1>6. SumFunctionOnSet(g, {e}) = g[e] + SumFunctionOnSet(g, {e} \ {e})
  <2>1. IsFiniteSet({e}) /\ e \in {e} /\ \A x \in {e} : g[x] \in Int
    BY <1>4, FS_Singleton
  <2> QED BY <2>1, SumRemove
<1>7. {e} \ {e} = {}
  OBVIOUS
<1>8. pathLength(P, p) = g[e]
  BY <1>4, <1>5, <1>6, <1>7, SumEmpty
<1>9. com[e] = com[<<e[1], e[2]>>]
  BY <1>1
<1>10. \A a, b \in Int : a + b = b + a
  OBVIOUS
<1>11. getExecutionTime(e[2], devices[p[e[2]] + 1]) \in Int
  BY <1>1, ExecutionTime
<1>12. calcEdgeCost(com[e], devices[p[e[1]] + 1], devices[p[e[2]] + 1]) \in Int
  <2>1. \A s, t, type : getCommunicationCost(s, t, type) \in Nat
    BY DEF getCommunicationCost, fpgaClockMultiplier
  <2>2. com[e] \in [data : Nat, order : Nat]
    BY DEF GraphTyped
  <2> QED BY <2>1, <2>2 DEF calcEdgeCost
<1> QED BY <1>3, <1>4, <1>8, <1>9, <1>10, <1>11, <1>12 DEF edgeWeight, P

(* CriticalPathCoversWork holds of every partitioning. *)
LEMMA CriticalPathCovers ==
  ASSUME GraphTyped, NEW p
  PROVE  /\ \A i \in UsedPartitions(p) :
              LET M == {v \in Vertices : p[v] = i}
              IN getCriticalPathCost(p, devices) >=
                   SumFunction([v \in M \ {Min(M)} |-> getExecutionTime(v, devices[p[v] + 1])])
         /\ \A e \in Edges :
              Linked(e[1], e[2]) /\ p[e[1]] # p[e[2]] =>
                getCriticalPathCost(p, devices) >=
                  calcEdgeCost(com[e], devices[p[e[1]] + 1], devices[p[e[2]] + 1])
                  + getExecutionTime(e[2], devices[p[e[2]] + 1])
<1>1. ASSUME NEW i \in UsedPartitions(p), NEW M, M = {v \in Vertices : p[v] = i}
      PROVE  getCriticalPathCost(p, devices) >=
               SumFunction([v \in M \ {Min(M)} |-> getExecutionTime(v, devices[p[v] + 1])])
  <2>1. M \in SUBSET Vertices /\ M # {} /\ \A v \in Vertices : v \in M <=> p[v] = i
    BY <1>1 DEF UsedPartitions
  <2>2. M \in Paths(p) /\ pathLength(M, p) =
          SumFunction([v \in M \ {Min(M)} |-> getExecutionTime(v, devices[p[v] + 1])])
    BY <2>1, PartitionIsPath
  <2>3. getCriticalPathCost(p, devices) >= pathLength(M, p)
    BY <2>2, CriticalPathLongest
  <2> QED BY <2>2, <2>3
<1>2. ASSUME NEW e \in Edges, Linked(e[1], e[2]), p[e[1]] # p[e[2]]
      PROVE  getCriticalPathCost(p, devices) >=
               calcEdgeCost(com[e], devices[p[e[1]] + 1], devices[p[e[2]] + 1])
               + getExecutionTime(e[2], devices[p[e[2]] + 1])
  <2>1. /\ {e[1], e[2]} \in Paths(p)
        /\ pathLength({e[1], e[2]}, p) =
             calcEdgeCost(com[e], devices[p[e[1]] + 1], devices[p[e[2]] + 1])
             + getExecutionTime(e[2], devices[p[e[2]] + 1])
    BY <1>2, EdgeIsPath
  <2>2. getCriticalPathCost(p, devices) >= pathLength({e[1], e[2]}, p)
    BY <2>1, CriticalPathLongest
  <2> QED BY <2>1, <2>2
<1> QED BY <1>1, <1>2

(* And so of the one the clustering returns. *)
LEMMA CoversWorkTyped == GraphTyped => CriticalPathCoversWork
<1> SUFFICES ASSUME GraphTyped PROVE CriticalPathCoversWork
  OBVIOUS
<1> QED BY CriticalPathCovers DEF CriticalPathCoversWork

-----------------------------------------------------------------------------
(* The clusters. *)

(* The clusters are disjoint, none is empty and no vertex is left out. *)
ClustersPartition ==
  /\ clusters \in Seq(SUBSET Vertices)
  /\ \A k \in DOMAIN clusters : clusters[k] # {}
  /\ \A j, k \in DOMAIN clusters : j # k => clusters[j] \cap clusters[k] = {}
  /\ UNION Clusters = Vertices

(* Two clusters are two positions of the vertex list. *)
LEMMA PairPositions ==
  ASSUME ClustersPartition, NEW pair \in Pairs(Clusters)
  PROVE  \E i, j \in DOMAIN clusters : i < j /\ pair = {clusters[i], clusters[j]}
<1>1. PICK c \in Clusters, d \in Clusters : pair = {c, d} /\ c # d
  BY DEF Pairs
<1>2. PICK i, j \in DOMAIN clusters : c = clusters[i] /\ d = clusters[j]
  BY DEF Clusters
<1>3. i \in Int /\ j \in Int /\ i # j
  BY <1>1, <1>2 DEF ClustersPartition
<1>4. CASE i < j
  BY <1>1, <1>2, <1>4
<1>5. CASE j < i
  BY <1>1, <1>2, <1>5
<1> QED BY <1>3, <1>4, <1>5

(* What is left of the vertex list when clusters i and j are merged. *)
MergedList(i, j) ==
  [k \in 1..(Len(clusters) - 1) |->
     IF k < i THEN clusters[k]
     ELSE IF k < j - 1 THEN clusters[k + 1]
     ELSE IF k < Len(clusters) - 1 THEN clusters[k + 2]
     ELSE clusters[i] \union clusters[j]]

(* mergeVertices and removeOutdatedVertices keep the order of the others. *)
LEMMA MergeShape ==
  ASSUME ClustersPartition, NEW i \in DOMAIN clusters, NEW j \in DOMAIN clusters, i < j
  PROVE  mergeVertices({clusters[i], clusters[j]}) = MergedList(i, j)
<1> DEFINE pair == {clusters[i], clusters[j]}
           gone == {k \in DOMAIN clusters : clusters[k] \in pair}
           m == UNION pair
<1>1. PICK n \in Nat : n = Len(clusters) /\ DOMAIN clusters = 1..n /\ i \in 1..n /\ j \in 1..n
  BY DEF ClustersPartition
<1>2. gone = {i, j}
  <2>1. \A k \in DOMAIN clusters : clusters[k] = clusters[i] => k = i
    BY DEF ClustersPartition
  <2>2. \A k \in DOMAIN clusters : clusters[k] = clusters[j] => k = j
    BY DEF ClustersPartition
  <2> QED BY <2>1, <2>2
<1>3. Min(gone) = i /\ Max(gone) = j
  <2>1. IsFiniteSet({i, j}) /\ {i, j} \subseteq Int /\ {i, j} # {}
    <3>1. IsFiniteSet(1..n) /\ {i, j} \subseteq 1..n
      BY <1>1, FS_Interval
    <3> QED BY <3>1, FS_Subset
  <2>2. Min({i, j}) \in {i, j} /\ Min({i, j}) <= i
    BY <2>1, MinInt
  <2>3. Max({i, j}) \in {i, j} /\ Max({i, j}) >= j
    BY <2>1, MaxInt
  <2>4. Min({i, j}) = i
    BY <1>1, <2>2
  <2>5. Max({i, j}) = j
    BY <1>1, <2>3
  <2> QED BY <1>2, <2>4, <2>5
<1>4. mergeVertices(pair) = remove_vertex(remove_vertex(Append(clusters, m), j), i)
  BY <1>3 DEF mergeVertices
<1>5. m = clusters[i] \union clusters[j]
  OBVIOUS
<1> HIDE DEF m
<1> DEFINE s == Append(clusters, m)
           t == remove_vertex(s, j)
<1>6. /\ Len(s) = n + 1
      /\ \A k \in 1..n : s[k] = clusters[k]
      /\ s[n + 1] = m
  <2>1. PICK cs \in Seq(SUBSET Vertices) : cs = clusters
    BY DEF ClustersPartition
  <2>2. m \in SUBSET Vertices
    BY <1>1, <1>5 DEF ClustersPartition
  <2> QED BY <1>1, <2>1, <2>2
<1>7. /\ DOMAIN t = 1..n /\ Len(t) = n
      /\ \A k \in 1..n : t[k] = IF k < j THEN s[k] ELSE s[k + 1]
  <2>1. t = [k \in 1..n |-> s[IF k < j THEN k ELSE k + 1]]
    BY <1>1, <1>6 DEF remove_vertex
  <2> HIDE DEF t, s
  <2> QED BY <1>1, <2>1
<1> HIDE DEF t, s
<1>8. remove_vertex(t, i) = [k \in 1..(n - 1) |-> t[IF k < i THEN k ELSE k + 1]]
  BY <1>7 DEF remove_vertex
<1>9. ASSUME NEW k \in 1..(n - 1)
      PROVE  t[IF k < i THEN k ELSE k + 1] =
               IF k < i THEN clusters[k]
               ELSE IF k < j - 1 THEN clusters[k + 1]
               ELSE IF k < n - 1 THEN clusters[k + 2] ELSE m
  <2>1. CASE k < i
    BY <1>1, <1>6, <1>7, <2>1
  <2>2. CASE ~ (k < i) /\ k < j - 1
    <3>1. k + 1 \in 1..n /\ k + 1 < j
      BY <1>1, <2>2
    <3> QED BY <1>6, <1>7, <2>2, <3>1
  <2>3. CASE ~ (k < i) /\ ~ (k < j - 1) /\ k < n - 1
    <3>1. k + 1 \in 1..n /\ ~ (k + 1 < j) /\ k + 2 \in 1..n /\ k + 1 + 1 = k + 2
      BY <1>1, <2>3
    <3> QED BY <1>6, <1>7, <2>3, <3>1
  <2>4. CASE ~ (k < i) /\ ~ (k < j - 1) /\ ~ (k < n - 1)
    <3>1. k + 1 \in 1..n /\ ~ (k + 1 < j) /\ k + 1 + 1 = n + 1
      BY <1>1, <2>4
    <3> QED BY <1>6, <1>7, <2>4, <3>1
  <2> QED BY <2>1, <2>2, <2>3, <2>4
<1>10. remove_vertex(t, i) = MergedList(i, j)
  BY <1>1, <1>5, <1>8, <1>9 DEF MergedList
<1> QED BY <1>4, <1>10 DEF t, s

(* The merged list holds every other cluster and the new one, and one less. *)
LEMMA MergeKeepsPartition ==
  ASSUME ClustersPartition, NEW pair \in Pairs(Clusters), NEW cs, cs = mergeVertices(pair)
  PROVE  /\ cs \in Seq(SUBSET Vertices)
         /\ Len(cs) = Len(clusters) - 1
         /\ \A k \in DOMAIN cs : cs[k] # {}
         /\ \A k, l \in DOMAIN cs : k # l => cs[k] \cap cs[l] = {}
         /\ {cs[k] : k \in DOMAIN cs} = (Clusters \ pair) \union {UNION pair}
<1>1. PICK i, j \in DOMAIN clusters : i < j /\ pair = {clusters[i], clusters[j]}
  BY PairPositions
<1>2. PICK n \in Nat : n = Len(clusters) /\ DOMAIN clusters = 1..n /\ i \in 1..n /\ j \in 1..n
  BY DEF ClustersPartition
<1>0. i \in Int /\ j \in Int /\ 1 <= i /\ i < j /\ j <= n /\ n >= 2
  <2>1. i < j
    BY <1>1
  <2> QED BY <1>2, <2>1
<1>3. PICK m : m = clusters[i] \union clusters[j] /\ m = UNION pair
  BY <1>1
<1>4. cs = MergedList(i, j)
  BY <1>1, MergeShape
<1>5. DOMAIN cs = 1..(n - 1) /\ \A k \in 1..(n - 1) :
        cs[k] = IF k < i THEN clusters[k]
                ELSE IF k < j - 1 THEN clusters[k + 1]
                ELSE IF k < n - 1 THEN clusters[k + 2] ELSE m
  BY <1>2, <1>3, <1>4 DEF MergedList
<1> DEFINE old(k) == IF k < i THEN k ELSE IF k < j - 1 THEN k + 1 ELSE k + 2
<1>6. \A k \in 1..(n - 2) : /\ old(k) \in 1..n /\ old(k) # i /\ old(k) # j
                            /\ \A l \in 1..(n - 2) : l # k => old(l) # old(k)
  <2>1. ASSUME NEW k \in 1..(n - 2), NEW o, o = old(k) PROVE o \in 1..n /\ o # i /\ o # j
    <3>1. k \in Int /\ 1 <= k /\ k <= n - 2
      OBVIOUS
    <3>2. CASE k < i
      BY <1>0, <2>1, <3>1, <3>2
    <3>3. CASE ~ (k < i) /\ k < j - 1
      BY <1>0, <2>1, <3>1, <3>3
    <3>4. CASE ~ (k < i) /\ ~ (k < j - 1)
      BY <1>0, <2>1, <3>1, <3>4
    <3> QED BY <3>2, <3>3, <3>4
  <2>2. ASSUME NEW k \in 1..(n - 2) PROVE old(k) \in 1..n /\ old(k) # i /\ old(k) # j
    <3>1. PICK o : o = old(k)
      OBVIOUS
    <3> HIDE DEF old
    <3> QED BY <2>1, <3>1
  <2>3. ASSUME NEW k \in 1..(n - 2), NEW l \in 1..(n - 2), k < l PROVE old(k) < old(l)
    <3> DEFINE is(a, x) == \/ a = x /\ x < i
                           \/ a = x + 1 /\ ~ (x < i) /\ x < j - 1
                           \/ a = x + 2 /\ ~ (x < i) /\ ~ (x < j - 1)
    <3>1. PICK a, b : a = old(k) /\ b = old(l)
      OBVIOUS
    <3>2. is(a, k)
      BY <3>1
    <3>3. is(b, l)
      BY <3>1
    <3>4. k \in Int /\ l \in Int
      OBVIOUS
    <3> HIDE DEF old
    <3>5. a < b
      BY <1>0, <2>3, <3>2, <3>3, <3>4
    <3> QED BY <3>1, <3>5
  <2>4. \A k, l \in 1..(n - 2) : k # l => old(k) # old(l)
    <3> SUFFICES ASSUME NEW k \in 1..(n - 2), NEW l \in 1..(n - 2), k # l PROVE old(k) # old(l)
      OBVIOUS
    <3>1. old(k) \in Int /\ old(l) \in Int /\ (k < l \/ l < k)
      BY <2>2
    <3>2. k < l => old(k) < old(l)
      BY <2>3
    <3>3. l < k => old(l) < old(k)
      BY <2>3
    <3> HIDE DEF old
    <3> QED BY <3>1, <3>2, <3>3
  <2> QED BY <2>2, <2>4
<1>7. ASSUME NEW k \in 1..(n - 1) PROVE cs[k] = IF k < n - 1 THEN clusters[old(k)] ELSE m
  <2>1. k < n - 1 \/ (~ (k < i) /\ ~ (k < j - 1))
    BY <1>0
  <2> QED BY <1>0, <1>5, <2>1
<1>8. \A o \in 1..n : o # i /\ o # j => \E k \in 1..(n - 2) : o = old(k)
  <2> SUFFICES ASSUME NEW o \in 1..n, o # i, o # j PROVE \E k \in 1..(n - 2) : o = old(k)
    OBVIOUS
  <2>1. CASE o < i
    <3>1. o \in 1..(n - 2) /\ o = old(o)
      BY <1>1, <1>2, <2>1
    <3> QED BY <3>1
  <2>2. CASE i < o /\ o < j
    <3>1. o - 1 \in 1..(n - 2) /\ o = old(o - 1)
      BY <1>1, <1>2, <2>2
    <3> QED BY <3>1
  <2>3. CASE j < o
    <3>1. o - 2 \in 1..(n - 2) /\ o = old(o - 2)
      BY <1>1, <1>2, <2>3
    <3> QED BY <3>1
  <2> QED BY <1>2, <2>1, <2>2, <2>3
<1> HIDE DEF old
<1>9. /\ \A k \in 1..n : clusters[k] \in SUBSET Vertices /\ clusters[k] # {}
      /\ \A k, l \in 1..n : k # l => clusters[k] \cap clusters[l] = {}
  BY <1>2 DEF ClustersPartition
<1>10. m \in SUBSET Vertices /\ m # {} /\ \A k \in 1..n : k # i /\ k # j => clusters[k] \cap m = {}
  BY <1>1, <1>2, <1>3, <1>9
<1>11. \A k \in 1..(n - 1) : k \in 1..(n - 2) \/ k = n - 1
  BY <1>2
<1>12. \A k \in 1..(n - 2) : cs[k] = clusters[old(k)]
  BY <1>2, <1>7
<1>13. n - 1 \in 1..(n - 1) /\ cs[n - 1] = m
  <2>1. n - 1 \in 1..(n - 1) /\ ~ (n - 1 < n - 1)
    BY <1>0
  <2> QED BY <1>7, <2>1
<1>14. \A k \in 1..(n - 1) : cs[k] \in SUBSET Vertices /\ cs[k] # {}
  BY <1>6, <1>9, <1>10, <1>11, <1>12, <1>13
<1>15. \A k, l \in 1..(n - 1) : k # l => cs[k] \cap cs[l] = {}
  <2>1. \A k, l \in 1..(n - 2) : k # l => cs[k] \cap cs[l] = {}
    BY <1>6, <1>9, <1>12
  <2>2. \A k \in 1..(n - 2) : cs[k] \cap cs[n - 1] = {}
    BY <1>6, <1>10, <1>12, <1>13
  <2> QED BY <1>11, <2>1, <2>2
<1>16. cs \in Seq(SUBSET Vertices) /\ Len(cs) = n - 1
  <2>1. cs = [k \in 1..(n - 1) |-> cs[k]]
    BY <1>4, <1>5 DEF MergedList
  <2>2. n - 1 \in Nat
    BY <1>1, <1>2
  <2> QED BY <1>14, <2>1, <2>2
<1>17. {cs[k] : k \in DOMAIN cs} = (Clusters \ pair) \union {UNION pair}
  <2>1. ASSUME NEW k \in 1..(n - 1) PROVE cs[k] \in (Clusters \ pair) \union {m}
    <3>1. CASE k \in 1..(n - 2)
      <4>1. /\ old(k) \in 1..n /\ cs[k] = clusters[old(k)]
            /\ cs[k] # clusters[i] /\ cs[k] # clusters[j]
        BY <1>2, <1>6, <1>9, <1>12, <3>1
      <4> QED BY <1>1, <1>2, <4>1 DEF Clusters
    <3>2. CASE k = n - 1
      BY <1>13, <3>2
    <3> QED BY <1>11, <3>1, <3>2
  <2>2. ASSUME NEW c \in Clusters \ pair PROVE \E k \in 1..(n - 1) : c = cs[k]
    <3>1. PICK o \in 1..n : c = clusters[o]
      BY <1>2 DEF Clusters
    <3>2. o # i /\ o # j
      BY <1>1, <3>1
    <3>3. PICK k \in 1..(n - 2) : o = old(k)
      BY <1>8, <3>2
    <3>4. k \in 1..(n - 1)
      BY <1>2
    <3> QED BY <1>12, <3>1, <3>3, <3>4
  <2> DEFINE L == {cs[k] : k \in DOMAIN cs}
             R == (Clusters \ pair) \union {UNION pair}
  <2>3. \A x \in L : x \in R
    BY <1>3, <1>5, <2>1
  <2>4. \A x \in R : x \in L
    BY <1>3, <1>5, <1>13, <2>2
  <2> HIDE DEF L, R
  <2>5. L = R
    BY <2>3, <2>4
  <2> QED BY <2>5 DEF L, R
<1> QED BY <1>2, <1>5, <1>14, <1>15, <1>16, <1>17

-----------------------------------------------------------------------------
(* The closeness of two clusters. *)

(* The average costs of communication, in cycles. *)
LEMMA AverageCosts ==
  /\ getDeviceIndependentCommunicationCost("DataDependency") = 1295
  /\ getDeviceIndependentCommunicationCost("OrderDependency") = 767
BY DEF getDeviceIndependentCommunicationCost, getCommunicationCost, fpgaClockMultiplier

(* Communication costs nothing negative. *)
LEMMA EdgeCostNat ==
  ASSUME GraphTyped, NEW e \in Edges
  PROVE  DeviceIndependentCost(e[1], e[2]) \in Nat
<1>1. e[1] < e[2] /\ e = <<e[1], e[2]>>
  BY VerticesFinite
<1>2. Between(e[1], e[2]) \in [data : Nat, order : Nat]
  BY <1>1 DEF GraphTyped, Between
<1>3. \A o \in [data : Nat, order : Nat] : calcDeviceIndependentEdgeCost(o) \in Nat
  BY AverageCosts DEF calcDeviceIndependentEdgeCost
<1> QED BY <1>2, <1>3 DEF DeviceIndependentCost

(* The edges between the members of different clusters. *)
Across(pair) == {f \in Edges : \E c \in pair : \E d \in pair \ {c} : f[1] \in c /\ f[2] \in d}
EdgeCosts == [e \in Edges |-> DeviceIndependentCost(e[1], e[2])]

(* The closeness is the sum of their costs. *)
LEMMA ClosenessIsSum ==
  ASSUME GraphTyped, NEW pair
  PROVE  /\ initCloseness(pair) = SumFunctionOnSet(EdgeCosts, Across(pair))
         /\ initCloseness(pair) \in Nat
         /\ IsFiniteSet(Across(pair))
         /\ \A e \in Across(pair) : EdgeCosts[e] \in Int /\ EdgeCosts[e] >= 0
<1> DEFINE f == [e \in Across(pair) |-> DeviceIndependentCost(e[1], e[2])]
<1>1. Across(pair) \subseteq Edges /\ IsFiniteSet(Across(pair))
  <2>1. Across(pair) \subseteq Edges
    BY DEF Across
  <2> QED BY <2>1, VerticesFinite, FS_Subset
<1>2. \A e \in Across(pair) : EdgeCosts[e] \in Int /\ EdgeCosts[e] >= 0 /\ f[e] = EdgeCosts[e]
  BY <1>1, EdgeCostNat DEF EdgeCosts
<1>3. initCloseness(pair) = SumFunctionOnSet(f, Across(pair))
  BY DEF initCloseness, Across, SumFunction
<1> HIDE DEF f
<1>4. SumFunctionOnSet(f, Across(pair)) = SumFunctionOnSet(EdgeCosts, Across(pair))
  BY <1>1, <1>2, SumSame
<1>5. /\ SumFunctionOnSet(EdgeCosts, Across(pair)) \in Int
      /\ SumFunctionOnSet(EdgeCosts, Across(pair)) >= 0
  BY <1>1, <1>2, SumNat
<1> QED BY <1>1, <1>2, <1>3, <1>4, <1>5

(* A merged cluster is as close to another one as its two parts together. *)
LEMMA ClosenessAdds ==
  ASSUME GraphTyped, NEW c, NEW d1, NEW d2, c # {}, d1 # {}, d2 # {},
         c \cap d1 = {}, c \cap d2 = {}, d1 \cap d2 = {}
  PROVE  initCloseness({c, d1 \union d2}) = initCloseness({c, d1}) + initCloseness({c, d2})
<1> DEFINE A == Across({c, d1})
           B == Across({c, d2})
           U == Across({c, d1 \union d2})
<1>1. \A e \in Edges : e \in A <=> (e[1] \in c /\ e[2] \in d1) \/ (e[1] \in d1 /\ e[2] \in c)
  BY DEF Across
<1>2. \A e \in Edges : e \in B <=> (e[1] \in c /\ e[2] \in d2) \/ (e[1] \in d2 /\ e[2] \in c)
  BY DEF Across
<1>3. \A e \in Edges : e \in U <=> \/ e[1] \in c /\ e[2] \in d1 \union d2
                                   \/ e[1] \in d1 \union d2 /\ e[2] \in c
  <2>1. c # d1 \union d2
    OBVIOUS
  <2> QED BY <2>1 DEF Across
<1>4. A \subseteq Edges /\ B \subseteq Edges /\ U \subseteq Edges
  BY DEF Across
<1>5. IsFiniteSet(A) /\ IsFiniteSet(B) /\ \A x \in A \union B : EdgeCosts[x] \in Int
  BY ClosenessIsSum
<1>6. initCloseness({c, d1}) = SumFunctionOnSet(EdgeCosts, A)
  BY ClosenessIsSum
<1>7. initCloseness({c, d2}) = SumFunctionOnSet(EdgeCosts, B)
  BY ClosenessIsSum
<1>8. initCloseness({c, d1 \union d2}) = SumFunctionOnSet(EdgeCosts, U)
  BY ClosenessIsSum
<1> HIDE DEF A, B, U
<1>9. U = A \union B /\ A \cap B = {}
  <2>1. \A e \in Edges : e \in U <=> e \in A \/ e \in B
    BY <1>1, <1>2, <1>3
  <2>2. \A e \in Edges : ~ (e \in A /\ e \in B)
    BY <1>1, <1>2
  <2> QED BY <1>4, <2>1, <2>2
<1>10. SumFunctionOnSet(EdgeCosts, A \union B) =
         SumFunctionOnSet(EdgeCosts, A) + SumFunctionOnSet(EdgeCosts, B)
  BY <1>5, <1>9, SumUnion
<1> QED BY <1>6, <1>7, <1>8, <1>9, <1>10

(* The costs of sums are those between clusters C; a missing edge costs nothing. *)
CurrentFor(C, sums) ==
  /\ DOMAIN sums \subseteq Pairs(C)
  /\ \A pair \in Pairs(C) : IF pair \in DOMAIN sums THEN sums[pair] = initCloseness(pair)
                                                    ELSE initCloseness(pair) = 0

(* updateEdges and removeOutdatedVertices keep it so. *)
LEMMA MergeKeepsCurrent ==
  ASSUME GraphTyped, ClustersPartition, NEW sums, CurrentFor(Clusters, sums),
         NEW pair \in Pairs(Clusters)
  PROVE  CurrentFor((Clusters \ pair) \union {UNION pair}, updateEdges(sums, pair))
<1>1. PICK d1 \in Clusters, d2 \in Clusters : pair = {d1, d2} /\ d1 # d2
  BY DEF Pairs
<1> DEFINE m == UNION pair
<1>2. m = d1 \union d2
  BY <1>1
<1>3. /\ \A c \in Clusters : c # {} /\ c \in SUBSET Vertices
      /\ \A c, d \in Clusters : c # d => c \cap d = {}
  <2>1. \A c \in Clusters : c # {} /\ c \in SUBSET Vertices
    BY DEF Clusters, ClustersPartition
  <2>2. ASSUME NEW c \in Clusters, NEW d \in Clusters, c # d PROVE c \cap d = {}
    <3>1. PICK i, j \in DOMAIN clusters : c = clusters[i] /\ d = clusters[j]
      BY DEF Clusters
    <3> QED BY <2>2, <3>1 DEF ClustersPartition
  <2> QED BY <2>1, <2>2
<1>4. m \notin Clusters
  <2> HIDE DEF m
  <2> SUFFICES ASSUME m \in Clusters PROVE FALSE
    OBVIOUS
  <2>1. m \cap d1 # {} /\ m \cap d2 # {}
    BY <1>2, <1>3
  <2>2. m = d1 /\ m = d2
    BY <1>3, <2>1
  <2> QED BY <1>1, <2>2
<1> DEFINE value(c, d) == IF {c, d} \in DOMAIN sums THEN sums[{c, d}] ELSE 0
           costTo(c) == SumFunction([d \in pair |-> value(c, d)])
           kept == {q \in DOMAIN sums : q \cap pair = {}}
           neighbours == {c \in Clusters \ pair : \E d \in pair : {c, d} \in DOMAIN sums}
           dom == kept \union {{c, m} : c \in neighbours}
           new == [q \in dom |-> IF q \in kept THEN sums[q] ELSE costTo(CHOOSE c \in q : c # m)]
           C2 == (Clusters \ pair) \union {m}
<1>5. updateEdges(sums, pair) = new
  BY DEF updateEdges
<1> HIDE DEF m
<1>6. ASSUME NEW c \in Clusters \ pair, NEW d \in pair
      PROVE  value(c, d) = initCloseness({c, d}) /\ initCloseness({c, d}) \in Nat
  <2>1. {c, d} \in Pairs(Clusters)
    BY <1>1 DEF Pairs
  <2>2. initCloseness({c, d}) \in Nat
    BY ClosenessIsSum
  <2> QED BY <2>1, <2>2 DEF CurrentFor
<1>7. ASSUME NEW c \in Clusters \ pair
      PROVE  costTo(c) = initCloseness({c, m})
  <2> DEFINE f == [d \in pair |-> value(c, d)]
  <2>1. ASSUME NEW x \in {d1, d2} PROVE f[x] \in Int /\ f[x] = initCloseness({c, x})
    <3>1. x \in pair /\ f[x] = value(c, x)
      BY <1>1
    <3> HIDE DEF f, value
    <3> QED BY <1>6, <3>1
  <2>2. costTo(c) = SumFunctionOnSet(f, {d1, d2})
    BY <1>1 DEF SumFunction
  <2> HIDE DEF f
  <2>3. SumFunctionOnSet(f, {d1, d2}) = f[d1] + SumFunctionOnSet(f, {d1, d2} \ {d1})
    <3>1. IsFiniteSet({d1} \union {d2}) /\ {d1} \union {d2} = {d1, d2}
      BY FS_Singleton, FS_Union
    <3> QED BY <2>1, <3>1, SumRemove
  <2>4. {d1, d2} \ {d1} = {d2} /\ {d2} \ {d2} = {}
    BY <1>1
  <2>5. SumFunctionOnSet(f, {d2}) = f[d2] + SumFunctionOnSet(f, {d2} \ {d2})
    BY <2>1, FS_Singleton, SumRemove
  <2>6. SumFunctionOnSet(f, {}) = 0
    BY SumEmpty
  <2>7. costTo(c) = f[d1] + f[d2]
    <3>1. PICK a, b \in Int : a = f[d1] /\ b = f[d2]
      BY <2>1
    <3>2. PICK r : r = SumFunctionOnSet(f, {d2} \ {d2})
      OBVIOUS
    <3>3. r = 0
      BY <2>4, <2>6, <3>2
    <3>4. SumFunctionOnSet(f, {d2}) = b
      BY <2>5, <3>1, <3>2, <3>3
    <3> QED BY <2>2, <2>3, <2>4, <3>1, <3>4
  <2>8. initCloseness({c, d1 \union d2}) = initCloseness({c, d1}) + initCloseness({c, d2})
    BY <1>1, <1>3, ClosenessAdds
  <2> QED BY <1>2, <2>1, <2>7, <2>8
<1> HIDE DEF costTo
<1>8. ASSUME NEW q \in Pairs(C2)
      PROVE  \/ q \in Pairs(Clusters) /\ q \cap pair = {} /\ m \notin q
             \/ \E c \in Clusters \ pair : q = {c, m}
  <2>1. PICK x \in C2, y \in C2 : q = {x, y} /\ x # y
    BY DEF Pairs
  <2>2. CASE x # m /\ y # m
    <3>1. x \in Clusters \ pair /\ y \in Clusters \ pair
      BY <2>2
    <3>2. q \in Pairs(Clusters)
      BY <2>1, <3>1 DEF Pairs
    <3> QED BY <2>1, <2>2, <3>1, <3>2
  <2>3. CASE x = m
    BY <2>1, <2>3
  <2>4. CASE y = m
    BY <2>1, <2>4
  <2> QED BY <2>2, <2>3, <2>4
<1>9. \A q \in DOMAIN sums : m \notin q
  <2>1. \A q \in Pairs(Clusters) : \A x \in q : x \in Clusters
    BY DEF Pairs
  <2> QED BY <1>4, <2>1 DEF CurrentFor
<1>10. DOMAIN new = dom /\ dom \subseteq Pairs(C2)
  <2>1. ASSUME NEW q \in kept PROVE q \in Pairs(C2)
    <3>1. PICK x \in Clusters, y \in Clusters : q = {x, y} /\ x # y
      BY DEF CurrentFor, Pairs
    <3>2. x \in C2 /\ y \in C2
      BY <3>1
    <3> QED BY <3>1, <3>2 DEF Pairs
  <2>2. ASSUME NEW c \in neighbours PROVE {c, m} \in Pairs(C2)
    <3>1. c \in C2 /\ m \in C2 /\ c # m
      BY <1>4
    <3> QED BY <3>1 DEF Pairs
  <2> QED BY <2>1, <2>2
<1>11. ASSUME NEW q \in Pairs(C2)
       PROVE  IF q \in DOMAIN new THEN new[q] = initCloseness(q) ELSE initCloseness(q) = 0
  <2>1. CASE q \in Pairs(Clusters) /\ q \cap pair = {} /\ m \notin q
    <3>1. q \in dom <=> q \in DOMAIN sums
      BY <2>1
    <3>2. q \in dom => new[q] = sums[q]
      BY <2>1
    <3> QED BY <1>10, <2>1, <3>1, <3>2 DEF CurrentFor
  <2>2. CASE \E c \in Clusters \ pair : q = {c, m}
    <3>1. PICK c \in Clusters \ pair : q = {c, m}
      BY <2>2
    <3>2. q \notin kept
      BY <1>9, <3>1
    <3>3. c # m
      BY <1>4
    <3>4. \A x \in Clusters : {x, m} = {c, m} => x = c
      BY <1>4
    <3>5. q \in dom <=> c \in neighbours
      BY <3>1, <3>2, <3>4
    <3>6. CASE c \in neighbours
      <4>1. (CHOOSE x \in q : x # m) = c
        BY <3>1, <3>3
      <4>2. new[q] = costTo(c)
        BY <3>2, <3>5, <3>6, <4>1
      <4> QED BY <1>7, <1>10, <3>1, <3>5, <3>6, <4>2
    <3>7. CASE c \notin neighbours
      <4>1. value(c, d1) = 0 /\ value(c, d2) = 0
        BY <1>1, <3>7
      <4>2. initCloseness({c, d1}) = 0 /\ initCloseness({c, d2}) = 0
        BY <1>1, <1>6, <4>1
      <4>3. initCloseness({c, d1 \union d2}) = initCloseness({c, d1}) + initCloseness({c, d2})
        BY <1>1, <1>3, ClosenessAdds
      <4>4. initCloseness(q) = 0
        BY <1>2, <3>1, <4>2, <4>3
      <4> QED BY <1>10, <3>5, <3>7, <4>4
    <3> QED BY <3>6, <3>7
  <2> QED BY <1>8, <2>1, <2>2
<1> HIDE DEF new, C2
<1>12. CurrentFor(C2, new)
  BY <1>10, <1>11 DEF CurrentFor
<1> QED BY <1>5, <1>12 DEF C2, m

-----------------------------------------------------------------------------
(* The clustering: its inductive invariant. *)

(* p uses the partitions 0 to c - 1, and each of them. *)
Numbers(p, c) ==
  /\ p \in [Vertices -> 0..(c - 1)]
  /\ \A i \in 0..(c - 1) : \E v \in Vertices : p[v] = i

(* The clusters of the k-th saved result. *)
savedCount(k) ==
  IF Len(units) > partitionCountMax THEN partitionCountMax - k + 1 ELSE Len(units) - k

(* A result is saved for every number of clusters that the devices and the *)
(* vertices allow, from the largest to that of the current clusters; with  *)
(* an FPGA the first one is the last.                                      *)
ResultsSaved ==
  /\ partitioningResults \in Seq([Vertices -> Int])
  /\ \A k \in 1..Len(partitioningResults) :
       savedCount(k) >= 1 /\ Numbers(partitioningResults[k], savedCount(k))
  /\ Len(clusters) <= Len(units)
  /\ IF Len(partitioningResults) = 0
     THEN Len(clusters) > partitionCountMax \/ Len(clusters) = Len(units)
     ELSE /\ Len(clusters) = savedCount(Len(partitioningResults))
          /\ alwaysUseMaxPartitions => Len(clusters) = partitionCountMax

(* What is returned, once it is. *)
Answered ==
  /\ part \in [Vertices -> 0..(Len(units) - 1)]
  /\ newPartitionCount \in 0..partitionCountMax
  /\ state \in {"cluster", "done", "undefined"}
  /\ state # "done" => newPartitionCount = 0

(* The inductive invariant. *)
HCInv ==
  /\ GraphTyped
  /\ ClustersPartition
  /\ CurrentFor(Clusters, comCostSum)
  /\ ResultsSaved
  /\ Answered

(* The vertices are as many as the entries of units. *)
LEMMA VerticesCount ==
  ASSUME GraphTyped
  PROVE  Cardinality(Vertices) = Len(units) /\ Len(units) \in Nat
<1>1. Vertices = 1..Len(units) /\ Len(units) \in Nat
  BY VerticesFinite
<1>2. PICK n \in Nat : n = Len(units)
  BY <1>1
<1>3. Cardinality(1..n) = n
  <2>1. 1 \in Int /\ n \in Int /\ ~ (1 > n) => Cardinality(1..n) = n - 1 + 1
    BY FS_Interval
  <2>2. n = 0 => 1..n = {}
    OBVIOUS
  <2> QED BY <2>1, <2>2, FS_EmptySet
<1> QED BY <1>1, <1>2, <1>3

(* The invariant holds initially. *)
LEMMA HCInitial == ClusteringInit => HCInv
<1> SUFFICES ASSUME ClusteringInit PROVE HCInv
  OBVIOUS
<1>1. GraphTyped
  BY CostsAssumption, DeviceListsAssumption DEF ClusteringInit, InitCosts, GraphTyped
<1>2. PICK n \in Nat : n = Len(units) /\ Vertices = 1..n
  BY <1>1, VerticesFinite
<1>3. clusters = [v \in 1..n |-> {v}]
  BY <1>2 DEF ClusteringInit
<1>4. ClustersPartition
  <2>1. clusters \in Seq(SUBSET Vertices) /\ DOMAIN clusters = 1..n
    BY <1>2, <1>3
  <2>2. \A k \in 1..n : clusters[k] = {k}
    BY <1>3
  <2>3. UNION Clusters = Vertices
    BY <1>2, <2>1, <2>2 DEF Clusters
  <2> QED BY <2>1, <2>2, <2>3 DEF ClustersPartition
<1>5. CurrentFor(Clusters, comCostSum)
  <2> DEFINE D == {q \in Pairs(Clusters) : initCloseness(q) > 0}
  <2>1. comCostSum = [pair \in D |-> initCloseness(pair)]
    BY DEF ClusteringInit
  <2>2. \A q : initCloseness(q) \in Nat
    BY <1>1, ClosenessIsSum
  <2> QED BY <2>1, <2>2 DEF CurrentFor
<1>6. ResultsSaved
  <2>1. Len(clusters) = n
    BY <1>2, <1>3
  <2>2. partitioningResults = <<>>
    BY DEF ClusteringInit
  <2>3. Len(partitioningResults) = 0 /\ partitioningResults \in Seq([Vertices -> Int])
    BY <2>2
  <2> QED BY <1>2, <2>1, <2>3 DEF ResultsSaved
<1>7. Answered
  <2>1. part = [v \in Vertices |-> 0] /\ newPartitionCount = 0 /\ state = "cluster"
    BY DEF ClusteringInit
  <2>2. part \in [Vertices -> 0..(Len(units) - 1)]
    BY <1>2, <2>1
  <2>3. Len(devices) \in Nat
    BY <1>1 DEF GraphTyped
  <2> QED BY <2>1, <2>2, <2>3 DEF Answered, partitionCountMax
<1> QED BY <1>1, <1>4, <1>5, <1>6, <1>7 DEF HCInv

(* applyClusteringOnPartitioningGraph numbers the clusters from 0. *)
LEMMA ClustersNumbered ==
  ASSUME GraphTyped, NEW cs \in Seq(SUBSET Vertices), \A k \in DOMAIN cs : cs[k] # {},
         \A k, l \in DOMAIN cs : k # l => cs[k] \cap cs[l] = {},
         UNION {cs[k] : k \in DOMAIN cs} = Vertices
  PROVE  Numbers(applyClusteringOnPartitioningGraph(cs), Len(cs))
<1>1. PICK n \in Nat : n = Len(cs) /\ DOMAIN cs = 1..n
  OBVIOUS
<1> DEFINE index(v) == CHOOSE k \in DOMAIN cs : v \in cs[k]
           p == [v \in Vertices |-> index(v) - 1]
<1>2. ASSUME NEW v \in Vertices PROVE index(v) \in 1..n /\ v \in cs[index(v)]
  <2>1. \E k \in DOMAIN cs : v \in cs[k]
    OBVIOUS
  <2> QED BY <1>1, <2>1
<1>3. p \in [Vertices -> 0..(n - 1)]
  BY <1>2
<1>4. ASSUME NEW i \in 0..(n - 1) PROVE \E v \in Vertices : p[v] = i
  <2>1. i + 1 \in 1..n
    OBVIOUS
  <2>2. PICK v \in cs[i + 1] : TRUE
    BY <1>1, <2>1
  <2>3. v \in Vertices
    BY <1>1, <2>1, <2>2
  <2>4. index(v) = i + 1
    <3>1. index(v) \in DOMAIN cs /\ i + 1 \in DOMAIN cs /\ v \in cs[index(v)] /\ v \in cs[i + 1]
      BY <1>1, <1>2, <2>1, <2>2, <2>3
    <3> HIDE DEF index
    <3>2. v \in cs[index(v)] \cap cs[i + 1]
      BY <3>1
    <3> QED BY <3>1, <3>2
  <2>5. p[v] = i
    <3>1. p[v] = index(v) - 1
      BY <2>3
    <3> HIDE DEF index, p
    <3> QED BY <2>4, <3>1
  <2> QED BY <2>3, <2>5
<1>5. applyClusteringOnPartitioningGraph(cs) = p
  BY DEF applyClusteringOnPartitioningGraph
<1> QED BY <1>1, <1>3, <1>4, <1>5 DEF Numbers

(* Nothing but the clusters decides the closeness. *)
LEMMA ClosenessUnchanged ==
  ASSUME units' = units, com' = com, devices' = devices
  PROVE  /\ Vertices' = Vertices /\ Edges' = Edges
         /\ GraphTyped' = GraphTyped
         /\ partitionCountMax' = partitionCountMax
         /\ alwaysUseMaxPartitions' = alwaysUseMaxPartitions
         /\ \A q : initCloseness(q)' = initCloseness(q)
<1>1. Vertices' = Vertices /\ Edges' = Edges
  BY DEF Vertices, Edges
<1>2. GraphTyped' = GraphTyped
  BY <1>1 DEF GraphTyped
<1>3. \A q : initCloseness(q)' = initCloseness(q)
  BY <1>1 DEF initCloseness, DeviceIndependentCost, Between
<1> QED BY <1>1, <1>2, <1>3 DEF partitionCountMax, alwaysUseMaxPartitions

(* A merge keeps the clusters a partition of the vertices and their costs current. *)
LEMMA MergeClusters ==
  ASSUME HCInv, Merge
  PROVE  /\ ClustersPartition'
         /\ Len(clusters') = Len(clusters) - 1
         /\ CurrentFor(Clusters, comCostSum)'
         /\ Numbers(applyClusteringOnPartitioningGraph(clusters'), Len(clusters'))
<1>1. GraphTyped /\ ClustersPartition /\ CurrentFor(Clusters, comCostSum)
  BY DEF HCInv
<1>2. CurrentFor(Clusters, CandidateSums)
  <2>1. CASE DOMAIN comCostSum = {}
    <3>1. CandidateSums = [pair \in Pairs(Clusters) |-> initCloseness(pair)]
      BY <2>1 DEF CandidateSums
    <3> QED BY <3>1 DEF CurrentFor
  <2>2. CASE DOMAIN comCostSum # {}
    BY <1>1, <2>2 DEF CandidateSums
  <2> QED BY <2>1, <2>2
<1>3. PICK sums : sums = CandidateSums /\ \E pair \in getPairMaxCloseness(sums) :
        clusters' = mergeVertices(pair) /\ comCostSum' = updateEdges(sums, pair)
  BY DEF Merge
<1>4. PICK pair \in getPairMaxCloseness(sums) :
        clusters' = mergeVertices(pair) /\ comCostSum' = updateEdges(sums, pair)
  BY <1>3
<1>5. CurrentFor(Clusters, sums)
  BY <1>2, <1>3
<1>6. pair \in Pairs(Clusters)
  BY <1>5 DEF getPairMaxCloseness, CurrentFor
<1>7. PICK cs : cs = clusters'
  OBVIOUS
<1>8. PICK C : C = (Clusters \ pair) \union {UNION pair}
  OBVIOUS
<1>9. /\ cs \in Seq(SUBSET Vertices)
      /\ Len(cs) = Len(clusters) - 1
      /\ \A k \in DOMAIN cs : cs[k] # {}
      /\ \A k, l \in DOMAIN cs : k # l => cs[k] \cap cs[l] = {}
      /\ {cs[k] : k \in DOMAIN cs} = C
  BY <1>1, <1>4, <1>6, <1>7, <1>8, MergeKeepsPartition
<1>10. UNION C = Vertices
  <2>1. UNION Clusters = Vertices /\ pair \subseteq Clusters
    BY <1>1, <1>6 DEF ClustersPartition, Pairs
  <2> QED BY <1>8, <2>1
<1>11. PICK new : new = comCostSum' /\ CurrentFor(C, new)
  BY <1>1, <1>4, <1>5, <1>6, <1>8, MergeKeepsCurrent
<1>12. /\ Vertices' = Vertices /\ \A q : initCloseness(q)' = initCloseness(q)
  BY ClosenessUnchanged DEF Merge
<1>13. Clusters' = C
  BY <1>7, <1>9 DEF Clusters
<1>14. ClustersPartition'
  BY <1>7, <1>9, <1>10, <1>12, <1>13 DEF ClustersPartition
<1>15. CurrentFor(Clusters, comCostSum)'
  BY <1>11, <1>12, <1>13 DEF CurrentFor, Pairs
<1>16. Numbers(applyClusteringOnPartitioningGraph(cs), Len(cs))
  BY <1>1, <1>9, <1>10, ClustersNumbered
<1> QED BY <1>7, <1>9, <1>14, <1>15, <1>16

(* The counts of a merge, as numbers: n vertices, m devices, c clusters and *)
(* l results before it.                                                     *)
LEMMA MergeCounts ==
  ASSUME NEW n \in Nat, NEW m \in Nat \ {0}, NEW c \in Nat, NEW l \in Nat, NEW always \in BOOLEAN,
         c <= n, c > IF always THEN m ELSE 1,
         IF l = 0 THEN c > m \/ c = n
                  ELSE /\ c = IF n > m THEN m - l + 1 ELSE n - l
                       /\ always => c = m
  PROVE  /\ c - 1 >= 1 /\ c - 1 <= n
         /\ c - 1 > m => l = 0
         /\ c - 1 <= m => /\ c - 1 = IF n > m THEN m - (l + 1) + 1 ELSE n - (l + 1)
                          /\ always => c - 1 = m
<1>1. CASE l = 0
  BY <1>1
<1>2. CASE l # 0
  BY <1>2
<1> QED BY <1>1, <1>2

(* A merge saves its result as soon as there is a device for every cluster. *)
LEMMA MergeResults ==
  ASSUME HCInv, Merge
  PROVE  ResultsSaved'
<1>1. GraphTyped /\ ClustersPartition /\ ResultsSaved
  BY DEF HCInv
<1>2. /\ Len(clusters') = Len(clusters) - 1
      /\ Numbers(applyClusteringOnPartitioningGraph(clusters'), Len(clusters'))
  BY MergeClusters
<1>3. /\ Vertices' = Vertices /\ units' = units
      /\ partitionCountMax' = partitionCountMax
      /\ alwaysUseMaxPartitions' = alwaysUseMaxPartitions
  BY ClosenessUnchanged DEF Merge
<1>4. PICK n \in Nat, m \in Nat, c \in Nat, l \in Nat :
        n = Len(units) /\ m = partitionCountMax /\ c = Len(clusters) /\ l = Len(partitioningResults)
  <2>1. Len(units) \in Nat /\ partitionCountMax \in Nat
    BY <1>1 DEF GraphTyped, partitionCountMax
  <2>2. Len(clusters) \in Nat
    BY <1>1 DEF ClustersPartition
  <2>3. Len(partitioningResults) \in Nat
    BY <1>1 DEF ResultsSaved
  <2> QED BY <2>1, <2>2, <2>3
<1>5. m # 0
  BY <1>1, <1>4 DEF GraphTyped, partitionCountMax
<1>6. PICK f \in BOOLEAN : f = alwaysUseMaxPartitions
  BY DEF alwaysUseMaxPartitions
<1> DEFINE count(k) == IF n > m THEN m - k + 1 ELSE n - k
<1>7. /\ \A k : savedCount(k) = count(k)
      /\ \A k : savedCount(k)' = count(k)
  BY <1>3, <1>4 DEF savedCount
<1>8. c <= n /\ c > IF f THEN m ELSE 1
  BY <1>1, <1>4, <1>6 DEF ResultsSaved, Merge, MoreClusters
<1>9. IF l = 0 THEN c > m \/ c = n ELSE c = count(l) /\ (f => c = m)
  BY <1>1, <1>4, <1>6, <1>7 DEF ResultsSaved
<1>10. /\ c - 1 >= 1 /\ c - 1 <= n
       /\ c - 1 > m => l = 0
       /\ c - 1 <= m => c - 1 = count(l + 1) /\ (f => c - 1 = m)
  BY <1>5, <1>8, <1>9, MergeCounts
<1>11. PICK R, R2 : R = partitioningResults /\ R2 = partitioningResults'
  OBVIOUS
<1>12. /\ R \in Seq([Vertices -> Int])
       /\ \A k \in 1..l : count(k) >= 1 /\ Numbers(R[k], count(k))
  BY <1>1, <1>4, <1>7, <1>11 DEF ResultsSaved
<1>13. CASE c - 1 > m
  <2>1. R2 = R
    BY <1>2, <1>4, <1>11, <1>13 DEF Merge
  <2>2. Len(R2) = 0 /\ \A k \in 1..Len(R2) : FALSE
    BY <1>4, <1>10, <1>11, <1>13, <2>1
  <2>3. Len(clusters)' = c - 1 /\ Len(units)' = n /\ partitionCountMax' = m
    BY <1>2, <1>3, <1>4
  <2> QED BY <1>3, <1>10, <1>11, <1>12, <1>13, <2>1, <2>2, <2>3 DEF ResultsSaved
<1>14. CASE c - 1 <= m
  <2>1. PICK p : p = applyClusteringOnPartitioningGraph(clusters')
    OBVIOUS
  <2>2. R2 = Append(R, p)
    BY <1>2, <1>4, <1>11, <1>14, <2>1 DEF Merge
  <2>3. Numbers(p, c - 1)
    BY <1>2, <1>4, <2>1
  <2>4. p \in [Vertices -> Int]
    BY <2>3 DEF Numbers
  <2>5. /\ R2 \in Seq([Vertices -> Int]) /\ Len(R2) = l + 1
        /\ \A k \in 1..l : R2[k] = R[k]
        /\ R2[l + 1] = p
    <3> DEFINE T == [Vertices -> Int]
    <3>1. R \in Seq(T) /\ p \in T /\ Len(R) = l
      BY <1>4, <1>11, <1>12, <2>4
    <3> HIDE DEF T
    <3>2. R2 \in Seq(T) /\ Len(R2) = l + 1 /\ (\A k \in 1..l : R2[k] = R[k]) /\ R2[l + 1] = p
      BY <2>2, <3>1
    <3> QED BY <3>2 DEF T
  <2>6. ASSUME NEW k \in 1..(l + 1) PROVE count(k) >= 1 /\ Numbers(R2[k], count(k))
    <3>1. k \in 1..l \/ k = l + 1
      BY <1>4
    <3>2. CASE k \in 1..l
      BY <1>12, <2>5, <3>2
    <3>3. CASE k = l + 1
      BY <1>10, <1>14, <2>3, <2>5, <3>3
    <3> QED BY <3>1, <3>2, <3>3
  <2>7. /\ Len(clusters)' = c - 1 /\ Len(units)' = n
        /\ partitionCountMax' = m /\ alwaysUseMaxPartitions' = f
    BY <1>2, <1>3, <1>4, <1>6
  <2> HIDE DEF count
  <2>8. \A k \in 1..Len(partitioningResults') :
          (savedCount(k) >= 1 /\ Numbers(partitioningResults[k], savedCount(k)))'
    <3> SUFFICES ASSUME NEW k \in 1..(l + 1)
                 PROVE  (savedCount(k) >= 1 /\ Numbers(partitioningResults[k], savedCount(k)))'
      BY <1>11, <2>5
    <3>1. savedCount(k)' = count(k) /\ count(k) >= 1 /\ Numbers(R2[k], count(k))
      BY <1>7, <2>6
    <3> QED BY <1>3, <1>11, <3>1 DEF Numbers
  <2>9. /\ Len(partitioningResults') = l + 1 /\ l + 1 # 0
        /\ savedCount(Len(partitioningResults))' = c - 1
    <3>1. Len(partitioningResults') = l + 1 /\ l + 1 # 0
      BY <1>4, <1>11, <2>5
    <3>2. savedCount(Len(partitioningResults))' = count(l + 1)
      BY <1>3, <1>4, <3>1 DEF savedCount, count
    <3> QED BY <1>10, <1>14, <3>1, <3>2
  <2>10. partitioningResults' \in Seq([Vertices' -> Int])
    BY <1>3, <1>11, <2>5
  <2> QED BY <1>10, <1>14, <2>7, <2>8, <2>9, <2>10 DEF ResultsSaved
<1> QED BY <1>13, <1>14

(* getFinalResult finds a saved result, if there is one. *)
LEMMA FinalIndexExists ==
  ASSUME GraphTyped, NEW l \in Nat \ {0}, DOMAIN partitioningResults = 1..l
  PROVE  finalIndex \in 1..l
<1> DEFINE cost == [k \in 1..l |-> getCriticalPathCost(partitioningResults[k], devices)]
           values == {cost[k] : k \in 1..l}
           best == {k \in 1..l : cost[k] = Min(values)}
           costs == {<<cost[k], k>> : k \in 1..l}
           least(k) == \E c \in costs :
                         /\ c[2] = k
                         /\ \A d \in costs : c[1] < d[1] \/ (c[1] = d[1] /\ k >= d[2])
<1>1. \A k \in 1..l : cost[k] \in Int
  BY CriticalPathLongest
<1>2. finalIndex = CHOOSE k \in 1..l : least(k)
  <2>1. costs = {<<getCriticalPathCost(partitioningResults[k], devices), k>> : k \in 1..l}
    OBVIOUS
  <2> QED BY <2>1 DEF finalIndex
<1> HIDE DEF cost
<1>3. IsFiniteSet(1..l) /\ 1 \in 1..l
  BY FS_Interval
<1>4. IsFiniteSet(values) /\ values \subseteq Int /\ values # {}
  BY <1>1, <1>3, FiniteImage
<1> HIDE DEF values
<1>5. Min(values) \in values /\ \A y \in values : Min(values) <= y
  BY <1>4, MinInt
<1>6. IsFiniteSet(best) /\ best \subseteq Int /\ best # {}
  <2>1. best \subseteq 1..l
    OBVIOUS
  <2>2. best # {}
    BY <1>5 DEF values
  <2> QED BY <1>3, <2>1, <2>2, FS_Subset
<1> HIDE DEF best
<1>7. Max(best) \in best /\ \A y \in best : Max(best) >= y
  BY <1>6, MaxInt
<1> USE DEF best, values
<1>8. PICK k \in 1..l, m \in Int : k = Max(best) /\ m = Min(values)
  BY <1>4, <1>5, <1>7
<1>9. cost[k] = m
  BY <1>7, <1>8
<1>10. ASSUME NEW j \in 1..l PROVE m < cost[j] \/ (m = cost[j] /\ k >= j)
  <2>1. cost[j] \in Int /\ m <= cost[j]
    BY <1>1, <1>5, <1>8
  <2>2. cost[j] = m => k >= j
    BY <1>7, <1>8
  <2> QED BY <2>1, <2>2
<1>11. least(k)
  <2>1. <<m, k>> \in costs
    BY <1>9
  <2>2. ASSUME NEW d \in costs PROVE m < d[1] \/ (m = d[1] /\ k >= d[2])
    BY <1>10
  <2> HIDE DEF costs
  <2>3. <<m, k>>[1] = m /\ <<m, k>>[2] = k
    OBVIOUS
  <2> QED BY <2>1, <2>2, <2>3
<1> HIDE DEF least
<1> QED BY <1>2, <1>11

(* The counts of an answer: n vertices, m devices, l results, the k-th of   *)
(* which, with c partitions, is returned.                                   *)
LEMMA AnswerCounts ==
  ASSUME NEW n \in Nat, NEW m \in Nat \ {0}, NEW l \in Nat \ {0}, NEW k \in 1..l,
         NEW always \in BOOLEAN,
         NEW c \in Int, c = IF n > m THEN m - k + 1 ELSE n - k, c >= 1,
         always => k = l /\ c = m
  PROVE  /\ c <= m /\ c <= n - 1
         /\ (IF always THEN m ELSE m - (k - 1)) \in 1..m
         /\ (IF always THEN m ELSE m - (k - 1)) = c + IF m + 1 - n > 0 THEN m + 1 - n ELSE 0
<1>1. k \in Int /\ k >= 1
  OBVIOUS
<1>2. CASE n > m
  BY <1>1, <1>2
<1>3. CASE ~ (n > m)
  BY <1>1, <1>3
<1> QED BY <1>2, <1>3

(* What getFinalResult returns. *)
LEMMA FinishAnswer ==
  ASSUME HCInv, Finish, partitioningResults # <<>>
  PROVE  \E c \in Int :
           /\ Numbers(part', c)
           /\ c >= 1 /\ c <= partitionCountMax /\ c <= Len(units) - 1
           /\ alwaysUseMaxPartitions => c = partitionCountMax
           /\ newPartitionCount' \in 1..partitionCountMax
           /\ newPartitionCount' = c + IF partitionCountMax + 1 - Len(units) > 0
                                       THEN partitionCountMax + 1 - Len(units) ELSE 0
<1>1. GraphTyped /\ ClustersPartition /\ ResultsSaved
  BY DEF HCInv
<1>2. PICK n \in Nat, m \in Nat \ {0}, l \in Nat :
        n = Len(units) /\ m = partitionCountMax /\ l = Len(partitioningResults)
  <2>1. Len(units) \in Nat /\ partitionCountMax \in Nat \ {0}
    BY <1>1 DEF GraphTyped, partitionCountMax
  <2>2. Len(partitioningResults) \in Nat
    BY <1>1 DEF ResultsSaved
  <2> QED BY <2>1, <2>2
<1>3. l # 0 /\ DOMAIN partitioningResults = 1..l
  BY <1>1, <1>2 DEF ResultsSaved
<1>4. PICK f \in BOOLEAN : f = alwaysUseMaxPartitions
  BY DEF alwaysUseMaxPartitions
<1>5. PICK k : /\ k = IF f THEN l ELSE finalIndex
               /\ part' = partitioningResults[k]
               /\ newPartitionCount' = IF f THEN m ELSE m - (k - 1)
  <2>1. PICK k \in {IF alwaysUseMaxPartitions THEN Len(partitioningResults) ELSE finalIndex} :
          /\ part' = partitioningResults[k]
          /\ newPartitionCount' = IF alwaysUseMaxPartitions THEN partitionCountMax
                                                            ELSE partitionCountMax - (k - 1)
    BY DEF Finish, getFinalResult
  <2>2. CASE f
    BY <1>2, <1>4, <2>1, <2>2
  <2>3. CASE ~ f
    BY <1>2, <1>4, <2>1, <2>3
  <2> QED BY <2>2, <2>3
<1>6. k \in 1..l
  BY <1>1, <1>2, <1>3, <1>5, FinalIndexExists
<1>7. PICK c \in Int : c = IF n > m THEN m - k + 1 ELSE n - k
  <2>1. (IF n > m THEN m - k + 1 ELSE n - k) \in Int
    BY <1>6
  <2> QED BY <2>1
<1>8. c = savedCount(k)
  BY <1>2, <1>7 DEF savedCount
<1>9. c >= 1 /\ Numbers(part', c)
  BY <1>1, <1>2, <1>5, <1>6, <1>8 DEF ResultsSaved
<1>10. f => k = l /\ c = m
  <2> SUFFICES ASSUME f PROVE k = l /\ c = m
    OBVIOUS
  <2>1. k = l
    BY <1>5
  <2>2. Len(clusters) = savedCount(l) /\ Len(clusters) = m
    BY <1>1, <1>2, <1>3, <1>4 DEF ResultsSaved
  <2> QED BY <1>8, <2>1, <2>2
<1>11. /\ c <= m /\ c <= n - 1
       /\ (IF f THEN m ELSE m - (k - 1)) \in 1..m
       /\ (IF f THEN m ELSE m - (k - 1)) = c + IF m + 1 - n > 0 THEN m + 1 - n ELSE 0
  BY <1>3, <1>6, <1>7, <1>9, <1>10, AnswerCounts
<1> QED BY <1>2, <1>4, <1>5, <1>9, <1>10, <1>11

(* Every step keeps the invariant. *)
LEMMA HCStep == HCInv /\ [ClusteringNext]_clusteringVars => HCInv'
<1> SUFFICES ASSUME HCInv, [ClusteringNext]_clusteringVars PROVE HCInv'
  OBVIOUS
<1>1. units' = units /\ com' = com /\ devices' = devices
  BY DEF ClusteringNext, Merge, Finish, clusteringVars
<1>2. /\ Vertices' = Vertices /\ GraphTyped'
      /\ partitionCountMax' = partitionCountMax
      /\ alwaysUseMaxPartitions' = alwaysUseMaxPartitions
      /\ \A q : initCloseness(q)' = initCloseness(q)
  BY <1>1, ClosenessUnchanged DEF HCInv
<1>3. CASE Merge
  <2>1. ClustersPartition' /\ CurrentFor(Clusters, comCostSum)'
    BY <1>3, MergeClusters
  <2>2. ResultsSaved'
    BY <1>3, MergeResults
  <2>3. Answered'
    BY <1>1, <1>2, <1>3 DEF HCInv, Answered, Merge
  <2> QED BY <1>2, <2>1, <2>2, <2>3 DEF HCInv
<1>4. ASSUME UNCHANGED <<clusters, comCostSum, partitioningResults>>
      PROVE  ClustersPartition' /\ CurrentFor(Clusters, comCostSum)' /\ ResultsSaved'
  <2>1. Clusters' = Clusters
    BY <1>4 DEF Clusters
  <2>2. ClustersPartition'
    BY <1>2, <1>4, <2>1 DEF HCInv, ClustersPartition
  <2>3. CurrentFor(Clusters, comCostSum)'
    BY <1>2, <1>4, <2>1 DEF HCInv, CurrentFor, Pairs
  <2>4. \A k : savedCount(k)' = savedCount(k)
    BY <1>1, <1>2 DEF savedCount
  <2>5. ResultsSaved'
    BY <1>1, <1>2, <1>4, <2>4 DEF HCInv, ResultsSaved, Numbers, savedCount
  <2> QED BY <2>2, <2>3, <2>5
<1>5. CASE Finish
  <2>1. Answered'
    <3>1. CASE partitioningResults = <<>>
      BY <1>1, <1>2, <1>5, <3>1 DEF HCInv, Answered, Finish
    <3>2. CASE partitioningResults # <<>>
      <4>1. PICK c \in Int : /\ Numbers(part', c) /\ c >= 1 /\ c <= Len(units) - 1
                             /\ newPartitionCount' \in 1..partitionCountMax
        BY <1>5, <3>2, FinishAnswer
      <4>2. Len(units) \in Nat /\ partitionCountMax \in Nat
        BY DEF HCInv, GraphTyped, partitionCountMax
      <4>3. part' \in [Vertices -> 0..(Len(units) - 1)]
        BY <4>1, <4>2 DEF Numbers
      <4>4. newPartitionCount' \in 0..partitionCountMax
        BY <4>1, <4>2
      <4> QED BY <1>1, <1>2, <1>5, <3>2, <4>3, <4>4 DEF Answered, Finish
    <3> QED BY <3>1, <3>2
  <2> QED BY <1>2, <1>4, <1>5, <2>1 DEF HCInv, Finish
<1>6. CASE UNCHANGED clusteringVars
  <2>1. Answered'
    BY <1>1, <1>2, <1>6 DEF HCInv, Answered, clusteringVars
  <2> QED BY <1>2, <1>4, <1>6, <2>1 DEF HCInv, clusteringVars
<1> QED BY <1>3, <1>5, <1>6 DEF ClusteringNext

(* The invariant of HierarchicalClustering::apply. *)
LEMMA HCInvariant == ClusteringSpec => []HCInv
BY HCInitial, HCStep, PTL DEF ClusteringSpec

(* It says what ClosenessCurrent does. *)
LEMMA HCInvClosenessCurrent == HCInv => ClosenessCurrent
<1> SUFFICES ASSUME HCInv PROVE ClosenessCurrent
  OBVIOUS
<1>1. GraphTyped /\ ClustersPartition /\ CurrentFor(Clusters, comCostSum) /\ Answered
  BY DEF HCInv
<1>2. \A q : initCloseness(q) \in Nat
  BY <1>1, ClosenessIsSum
<1>3. ClusteringTypeOK
  <2>1. part \in [Vertices -> 0..(Cardinality(Vertices) - 1)]
    BY <1>1, VerticesCount DEF Answered
  <2>2. \A pair \in DOMAIN comCostSum : comCostSum[pair] \in Nat
    BY <1>1, <1>2 DEF CurrentFor
  <2> QED BY <1>1, <2>1, <2>2 DEF ClusteringTypeOK, GraphTyped, ClustersPartition,
                                         CurrentFor, Answered
<1> QED BY <1>1, <1>3 DEF ClosenessCurrent, ClustersPartition, CurrentFor
-----------------------------------------------------------------------------
(* For every graph and every list of devices, the costs that updateEdges    *)
(* carries along through any number of merges are those between the members *)
(* of the two clusters, a missing edge is one that costs nothing, and the   *)
(* clusters stay a partition of the vertices.                               *)
THEOREM ClosenessStaysCurrent == ClusteringSpec => []ClosenessCurrent
BY HCInvariant, HCInvClosenessCurrent, PTL

(* For every graph and every list of devices, the critical path of the      *)
(* partitioning that getFinalResult returns is not shorter than the work of *)
(* a processor's partition behind its first vertex, nor than a transfer     *)
(* between partitions and the work that waits for it.                       *)
THEOREM CriticalPathLongEnough == ClusteringSpec => []CriticalPathCoversWork
<1>1. HCInv => CriticalPathCoversWork
  BY CoversWorkTyped DEF HCInv
<1> QED BY <1>1, HCInvariant, PTL

(* The instance counts as this module does. *)
LEMMA ClusteringCardinality == \A T : ClusteringPM!Cardinality(T) = Cardinality(T)
BY Zenon DEF Cardinality, ClusteringPM!Cardinality

(* Every step of HierarchicalClustering::apply is a step of the abstract    *)
(* method or changes nothing it shows: it answers once, with a partitioning *)
(* that uses the partitions from 0 on without gaps, no more of them than    *)
(* there are devices and all of them if one is an FPGA, and the count taken *)
(* from the index of the result is that of its partitions, larger only      *)
(* where there are no more vertices than devices.                           *)
THEOREM ClusteringImplementsMethodSafely ==
  ClusteringSpec => ClusteringPM!Init /\ [][ClusteringPM!Apply]_ClusteringPM!vars
<1>1. ClusteringInit => ClusteringPM!Init
  BY DEF ClusteringInit, ClusteringPM!Init
<1>2. HCInv /\ [ClusteringNext]_clusteringVars => [ClusteringPM!Apply]_ClusteringPM!vars
  <2> SUFFICES ASSUME HCInv, [ClusteringNext]_clusteringVars
               PROVE  [ClusteringPM!Apply]_ClusteringPM!vars
    OBVIOUS
  <2>1. CASE Merge
    BY <2>1 DEF Merge, ClusteringPM!vars
  <2>2. CASE UNCHANGED clusteringVars
    BY <2>2 DEF clusteringVars, ClusteringPM!vars
  <2>3. CASE Finish /\ partitioningResults = <<>>
    BY <2>3 DEF Finish, ClusteringPM!vars
  <2>4. CASE Finish /\ partitioningResults # <<>>
    <3>1. PICK c \in Int :
            /\ Numbers(part', c)
            /\ c >= 1 /\ c <= partitionCountMax
            /\ alwaysUseMaxPartitions => c = partitionCountMax
            /\ newPartitionCount' \in 1..partitionCountMax
            /\ newPartitionCount' = c + IF partitionCountMax + 1 - Len(units) > 0
                                        THEN partitionCountMax + 1 - Len(units) ELSE 0
      BY <2>4, FinishAnswer
    <3>2. PICK q : q = part'
      OBVIOUS
    <3>3. DOMAIN q = Vertices /\ q \in [Vertices -> 0..(c - 1)] /\ DOMAIN part = Vertices
      BY <3>1, <3>2 DEF Numbers, HCInv, Answered
    <3>4. ClusteringPM!Used(q) = 0..(c - 1)
      <4>1. \A x \in ClusteringPM!Used(q) : x \in 0..(c - 1)
        BY <3>3 DEF ClusteringPM!Used
      <4>2. \A x \in 0..(c - 1) : x \in ClusteringPM!Used(q)
        BY <3>1, <3>2, <3>3 DEF ClusteringPM!Used, Numbers
      <4> QED BY <4>1, <4>2
    <3>5. ClusteringPM!Cardinality(ClusteringPM!Used(q)) = c
      <4>1. ~ (0 > c - 1) /\ c - 1 - 0 + 1 = c /\ c - 1 \in Int
        BY <3>1
      <4>2. Cardinality(0..(c - 1)) = c
        BY <4>1, FS_Interval
      <4> QED BY <3>4, <4>2, ClusteringCardinality
    <3>6. /\ Cardinality(Vertices) = Len(units) /\ Len(units) \in Nat
          /\ partitionCountMax = Len(devices) /\ Len(devices) \in Nat
      BY VerticesCount DEF HCInv, partitionCountMax, GraphTyped
    <3>7. newPartitionCount' = ClusteringPM!ClusteringCount(devices, q)
      <4>1. PICK x \in Int : x = Len(devices) + 1 - Len(units)
        <5>1. Len(devices) + 1 - Len(units) \in Int
          BY <3>6
        <5> QED BY <5>1
      <4>2. ClusteringPM!Max({0, x}) = IF x > 0 THEN x ELSE 0
        <5>1. ClusteringPM!Max({0, x}) = CHOOSE y \in {0, x} : \A z \in {0, x} : y >= z
          BY DEF ClusteringPM!Max
        <5>2. ClusteringPM!Max({0, x}) \in {0, x} /\ \A z \in {0, x} : ClusteringPM!Max({0, x}) >= z
          <6>1. \E y \in {0, x} : \A z \in {0, x} : y >= z
            BY <4>1
          <6> QED BY <5>1, <6>1
        <5> QED BY <4>1, <5>2
      <4>3. ClusteringPM!ClusteringCount(devices, q) = c + ClusteringPM!Max({0, x})
        BY <3>3, <3>5, <3>6, <4>1, ClusteringCardinality DEF ClusteringPM!ClusteringCount
      <4> QED BY <3>1, <3>6, <4>1, <4>2, <4>3
    <3>8. ClusteringPM!UsesFPGA(devices) => c = Len(devices)
      BY <3>1, <3>6 DEF ClusteringPM!UsesFPGA, alwaysUseMaxPartitions
    <3>9. ClusteringPM!Result("clustering", devices, part, q, newPartitionCount')
      BY <3>1, <3>3, <3>4, <3>5, <3>6, <3>7, <3>8 DEF ClusteringPM!Result
    <3>10. newPartitionCount = 0 /\ devices' = devices /\ newPartitionCount' \in 1..Len(devices)
      BY <2>4, <3>1, <3>6 DEF HCInv, Answered, Finish
    <3> QED BY <3>2, <3>9, <3>10 DEF ClusteringPM!Apply
  <2> QED BY <2>1, <2>2, <2>3, <2>4 DEF ClusteringNext
<1> QED BY <1>1, <1>2, HCInvariant, PTL DEF ClusteringSpec

-----------------------------------------------------------------------------
(* SimulatedAnnealing. *)

(* The inductive invariant.  With a single device there is no move, so the  *)
(* annealing never gets past its first temperature: that it does not return *)
(* is what makes the partitions it returns refer to at least two devices.   *)
NoMoves == Len(devices) = 1 => itCount = 0 /\ steps = 0 /\ loop # "done"

SAInv ==
  /\ GraphTyped
  /\ AnnealingTypeOK
  /\ loop = "inner" => currentCost = costFunction(S) /\ steps < FrozenAt
  /\ NoMoves

(* The invariant holds initially. *)
LEMMA SAInitial == AnnealingInit => SAInv
<1> SUFFICES ASSUME AnnealingInit PROVE SAInv
  OBVIOUS
<1>1. GraphTyped
  BY CostsAssumption, DeviceListsAssumption DEF AnnealingInit, InitCosts, GraphTyped
<1>2. AnnealingTypeOK
  BY <1>1, AnnealingAssumption DEF AnnealingInit, AnnealingTypeOK, GraphTyped
<1> QED BY <1>1, <1>2 DEF AnnealingInit, SAInv, NoMoves

(* The costs depend on the graph and the devices only. *)
LEMMA CostUnchanged ==
  ASSUME units' = units, com' = com, devices' = devices
  PROVE  /\ Vertices' = Vertices /\ Edges' = Edges /\ partitionCount' = partitionCount
         /\ GraphTyped' = GraphTyped
         /\ \A p : costFunction(p)' = costFunction(p)
<1>1. Vertices' = Vertices /\ Edges' = Edges /\ partitionCount' = partitionCount
  BY DEF Vertices, Edges, partitionCount
<1>2. GraphTyped' = GraphTyped
  BY <1>1 DEF GraphTyped
<1>3. \A v, d : getExecutionTime(v, d)' = getExecutionTime(v, d)
  BY DEF getExecutionTime
<1>4. \A u, v, p, d : edgeWeight(u, v, p, d)' = edgeWeight(u, v, p, d)
  BY <1>3 DEF edgeWeight
<1>5. \A p : Paths(p)' = Paths(p)
  BY <1>1 DEF Paths, PathEdge, Linked, Scheduled
<1>6. \A p : costFunction(p)' = costFunction(p)
  BY <1>4, <1>5 DEF costFunction, getCriticalPathCost
<1> QED BY <1>1, <1>2, <1>6

(* With one partition there is no move. *)
LEMMA NoMoveAlone ==
  ASSUME SAInv, Len(devices) = 1
  PROVE  randomMove = {}
<1>1. S \in [Vertices -> {0}]
  BY DEF SAInv, AnnealingTypeOK, partitionCount
<1>2. \A v \in Vertices, p \in 0..(partitionCount - 1) : [S EXCEPT ![v] = p] = S
  BY <1>1 DEF partitionCount
<1> QED BY <1>2 DEF randomMove

(* Every step keeps the invariant. *)
LEMMA SAStep == SAInv /\ [AnnealingNext]_annealingVars => SAInv'
<1> SUFFICES ASSUME SAInv, [AnnealingNext]_annealingVars PROVE SAInv'
  OBVIOUS
<1>1. units' = units /\ com' = com /\ devices' = devices
  BY DEF AnnealingNext, StartTemperature, Move, EndTemperature, Freeze, annealingVars
<1>2. /\ Vertices' = Vertices /\ partitionCount' = partitionCount /\ GraphTyped'
      /\ \A p : costFunction(p)' = costFunction(p)
  BY <1>1, CostUnchanged DEF SAInv
<1>3. \A p : costFunction(p) \in Nat
  BY CriticalPathLongest DEF SAInv, costFunction
<1>4. iterationMax \in Nat \ {0} /\ FrozenAt \in Nat \ {0}
  BY AnnealingAssumption
<1>5. /\ AnnealingTypeOK /\ NoMoves
      /\ (loop = "inner" => currentCost = costFunction(S) /\ steps < FrozenAt)
  BY DEF SAInv
<1>6. CASE StartTemperature
  <2>1. AnnealingTypeOK'
    BY <1>1, <1>2, <1>3, <1>4, <1>5, <1>6 DEF StartTemperature, AnnealingTypeOK
  <2>2. (loop = "inner" => currentCost = costFunction(S) /\ steps < FrozenAt)'
    BY <1>2, <1>4, <1>5, <1>6 DEF StartTemperature, frozen, AnnealingTypeOK
  <2>3. NoMoves'
    BY <1>1, <1>5, <1>6 DEF StartTemperature, NoMoves
  <2> QED BY <1>2, <2>1, <2>2, <2>3 DEF SAInv
<1>7. CASE Move
  <2>1. PICK newS \in randomMove : \/ S' = newS /\ currentCost' = costFunction(newS)
                                   \/ S' = S /\ currentCost' = currentCost
    BY <1>7 DEF Move
  <2>2. newS \in [Vertices -> 0..(partitionCount - 1)]
    <3>1. PICK v \in Vertices, p \in 0..(partitionCount - 1) : newS = [S EXCEPT ![v] = p]
      BY DEF randomMove
    <3> QED BY <1>5, <3>1 DEF AnnealingTypeOK
  <2>3. AnnealingTypeOK'
    <3>1. itCount' \in 0..iterationMax
      BY <1>4, <1>5, <1>7 DEF Move, AnnealingTypeOK, equilibrium
    <3>2. currentCost' \in Nat
      BY <1>3, <1>5, <2>1 DEF AnnealingTypeOK
    <3>3. S' \in [Vertices -> 0..(partitionCount - 1)]
      BY <1>5, <2>1, <2>2 DEF AnnealingTypeOK
    <3> QED BY <1>1, <1>2, <1>5, <1>7, <3>1, <3>2, <3>3 DEF Move, AnnealingTypeOK
  <2>4. (loop = "inner" => currentCost = costFunction(S) /\ steps < FrozenAt)'
    BY <1>2, <1>5, <1>7, <2>1 DEF Move
  <2>5. Len(devices) # 1
    BY <2>1, NoMoveAlone
  <2> QED BY <1>1, <1>2, <2>3, <2>4, <2>5 DEF SAInv, NoMoves
<1>8. CASE EndTemperature
  <2>1. Sbest' \in {S, Sbest} /\ S' = S /\ itCount' = itCount /\ currentCost' = currentCost
    BY <1>8 DEF EndTemperature
  <2>2. steps < FrozenAt /\ steps' = steps + 1 /\ loop = "inner" /\ loop' = "outer"
    BY <1>5, <1>8 DEF EndTemperature
  <2>3. AnnealingTypeOK'
    BY <1>1, <1>2, <1>4, <1>5, <2>1, <2>2 DEF AnnealingTypeOK
  <2>4. Len(devices) # 1
    BY <1>4, <1>5, <1>8 DEF EndTemperature, equilibrium, NoMoves
  <2> QED BY <1>1, <1>2, <2>2, <2>3, <2>4 DEF SAInv, NoMoves
<1>9. CASE Freeze
  <2>1. AnnealingTypeOK'
    BY <1>1, <1>2, <1>5, <1>9 DEF Freeze, AnnealingTypeOK
  <2>2. NoMoves'
    BY <1>1, <1>4, <1>5, <1>9 DEF Freeze, NoMoves, frozen, AnnealingTypeOK
  <2> QED BY <1>2, <1>9, <2>1, <2>2 DEF SAInv, Freeze
<1>10. CASE UNCHANGED annealingVars
  <2>1. /\ S' = S /\ Sbest' = Sbest /\ loop' = loop /\ steps' = steps /\ itCount' = itCount
        /\ currentCost' = currentCost
    BY <1>10 DEF annealingVars
  <2>2. AnnealingTypeOK' /\ NoMoves'
    BY <1>1, <1>2, <1>5, <2>1 DEF AnnealingTypeOK, NoMoves
  <2> QED BY <1>2, <1>5, <2>1, <2>2 DEF SAInv
<1> QED BY <1>6, <1>7, <1>8, <1>9, <1>10 DEF AnnealingNext

(* The invariant of SimulatedAnnealing::apply. *)
LEMMA SAInvariant == AnnealingSpec => []SAInv
BY SAInitial, SAStep, PTL DEF AnnealingSpec
-----------------------------------------------------------------------------
(* The inner loop of SimulatedAnnealing::apply compares every move with the *)
(* cost of the partitioning it started from, for every graph, every number  *)
(* of moves at a temperature and every number of temperatures.              *)
THEOREM CostStaysFresh == AnnealingSpec => []CurrentCostFresh
<1>1. SAInv => CurrentCostFresh
  BY DEF SAInv, CurrentCostFresh
<1> QED BY <1>1, SAInvariant, PTL

(* However many worse states acceptNewState lets through, and however many  *)
(* moves and temperatures there are, the best partitioning is the one that  *)
(* SimulatedAnnealing::apply was given or one that a temperature ended      *)
(* with, and none of these has a lower cost.                                *)
THEOREM BestOfAllTemperatures == AnnealingSpec => []BestOfTemperatures
<1>1. AnnealingInit => BestOfTemperatures
  <2> SUFFICES ASSUME AnnealingInit PROVE BestOfTemperatures
    OBVIOUS
  <2>1. costFunction(S) \in Nat
    BY SAInitial, CriticalPathLongest DEF SAInv, costFunction
  <2> QED BY <2>1 DEF AnnealingInit, BestOfTemperatures
<1>2. SAInv /\ BestOfTemperatures /\ [AnnealingNext]_annealingVars => BestOfTemperatures'
  <2> SUFFICES ASSUME SAInv, BestOfTemperatures, [AnnealingNext]_annealingVars
               PROVE  BestOfTemperatures'
    OBVIOUS
  <2>1. units' = units /\ com' = com /\ devices' = devices
    BY DEF AnnealingNext, StartTemperature, Move, EndTemperature, Freeze, annealingVars
  <2>2. \A p : costFunction(p) \in Nat
    BY CriticalPathLongest DEF SAInv, costFunction
  <2>3. PICK best, seen : best = Sbest' /\ seen = ends'
    OBVIOUS
  <2>4. best \in seen /\ \A s \in seen : costFunction(best) <= costFunction(s)
    <3>1. CASE EndTemperature
      <4>1. seen = ends \union {S}
        BY <2>3, <3>1 DEF EndTemperature
      <4>2. CASE costFunction(S) - costFunction(Sbest) < 0
        <5>1. best = S
          BY <2>3, <3>1, <4>2 DEF EndTemperature
        <5>2. \A s \in ends : costFunction(S) <= costFunction(s)
          BY <2>2, <4>2 DEF BestOfTemperatures
        <5> QED BY <2>2, <4>1, <5>1, <5>2
      <4>3. CASE ~ (costFunction(S) - costFunction(Sbest) < 0)
        <5>1. best = Sbest
          BY <2>3, <3>1, <4>3 DEF EndTemperature
        <5>2. costFunction(Sbest) <= costFunction(S)
          BY <2>2, <4>3
        <5> QED BY <4>1, <5>1, <5>2 DEF BestOfTemperatures
      <4> QED BY <4>2, <4>3
    <3>2. CASE ~ EndTemperature
      <4>1. best = Sbest /\ seen = ends
        BY <2>3, <3>2 DEF AnnealingNext, StartTemperature, Move, Freeze, annealingVars
      <4> QED BY <4>1 DEF BestOfTemperatures
    <3> QED BY <3>1, <3>2
  <2>5. \A p : costFunction(p)' = costFunction(p)
    BY <2>1, CostUnchanged
  <2> QED BY <2>3, <2>4, <2>5 DEF BestOfTemperatures
<1> QED BY <1>1, <1>2, SAInvariant, PTL DEF AnnealingSpec

(* Every step of SimulatedAnnealing::apply is a step of the abstract method *)
(* or leaves its variables alone: it answers once, only for two devices or  *)
(* more, and with a partitioning that uses no partition without a device.   *)
THEOREM AnnealingImplementsMethodSafely ==
  AnnealingSpec => AnnealingPM!Init /\ [][AnnealingPM!Apply]_AnnealingPM!vars
<1>1. AnnealingInit => AnnealingPM!Init
  BY DEF AnnealingInit, AnnealingPM!Init
<1>2. SAInv /\ [AnnealingNext]_annealingVars => [AnnealingPM!Apply]_AnnealingPM!vars
  <2> SUFFICES ASSUME SAInv, [AnnealingNext]_annealingVars
               PROVE  [AnnealingPM!Apply]_AnnealingPM!vars
    OBVIOUS
  <2>1. /\ Len(devices) \in Nat \ {0} /\ partitionCount = Len(devices)
        /\ {S, Sbest} \subseteq [Vertices -> 0..(partitionCount - 1)]
    BY DEF SAInv, AnnealingTypeOK, GraphTyped, partitionCount
  <2>2. CASE StartTemperature
    BY <2>2 DEF StartTemperature, AnnealingPM!vars, partitionCount
  <2>3. CASE Move
    BY <2>3 DEF Move, AnnealingPM!vars, partitionCount
  <2>4. CASE EndTemperature
    <3>1. Sbest' \in {S, Sbest} /\ devices' = devices /\ loop = "inner" /\ loop' = "outer"
      BY <2>4 DEF EndTemperature
    <3>2. Len(devices) > 1
      BY <2>1, <2>4, AnnealingAssumption DEF EndTemperature, equilibrium, SAInv, NoMoves
    <3>3. AnnealingPM!Result("sa", devices, Sbest, Sbest', Len(devices))
      <4>1. {Sbest', Sbest} \subseteq [Vertices -> 0..(Len(devices) - 1)]
        BY <2>1, <3>1
      <4>2. AnnealingPM!Used(Sbest') \subseteq 0..(Len(devices) - 1) /\ DOMAIN Sbest' = DOMAIN Sbest
        BY <4>1 DEF AnnealingPM!Used
      <4> QED BY <2>1, <3>2, <4>2 DEF AnnealingPM!Result
    <3>4. Len(devices) \in 1..Len(devices)
      BY <2>1
    <3> QED BY <3>1, <3>3, <3>4 DEF AnnealingPM!Apply
  <2>5. CASE Freeze
    <3>1. Sbest' = Sbest /\ devices' = devices /\ loop = "outer" /\ loop' = "done"
      BY <2>5 DEF Freeze
    <3>2. Len(devices) > 1
      BY <2>1, <2>5, AnnealingAssumption DEF Freeze, frozen, SAInv, NoMoves
    <3>3. AnnealingPM!Result("sa", devices, Sbest, Sbest', Len(devices))
      <4>1. AnnealingPM!Used(Sbest') \subseteq 0..(Len(devices) - 1)
        BY <2>1, <3>1 DEF AnnealingPM!Used
      <4> QED BY <2>1, <3>1, <3>2, <4>1 DEF AnnealingPM!Result
    <3>4. Len(devices) \in 1..Len(devices)
      BY <2>1
    <3> QED BY <3>1, <3>3, <3>4 DEF AnnealingPM!Apply, partitionCount
  <2>6. CASE UNCHANGED annealingVars
    BY <2>6 DEF annealingVars, AnnealingPM!vars, partitionCount
  <2> QED BY <2>2, <2>3, <2>4, <2>5, <2>6 DEF AnnealingNext
<1> QED BY <1>1, <1>2, SAInvariant, PTL DEF AnnealingSpec
-----------------------------------------------------------------------------
(* KernighanLin. *)

(* Every two vertices have one edge, from the smaller to the larger. *)
LEMMA EdgePairs ==
  ASSUME GraphTyped
  PROVE  /\ \A e \in Edges : /\ e[1] \in Vertices /\ e[2] \in Vertices
                             /\ e[1] < e[2] /\ e[1] # e[2] /\ e = <<e[1], e[2]>>
         /\ \A u, v \in Vertices : u < v => <<u, v>> \in Edges
         /\ \A u, v \in Vertices : u \in Int /\ v \in Int /\ (u # v => u < v \/ v < u)
<1>1. Vertices \subseteq Int
  BY VerticesFinite
<1>2. \A e \in Edges : e[1] \in Vertices /\ e[2] \in Vertices /\ e[1] < e[2] /\ e = <<e[1], e[2]>>
  BY DEF Edges
<1>3. \A u, v \in Vertices : u < v => <<u, v>> \in Edges
  BY DEF Edges
<1>4. \A u, v \in Vertices : u \in Int /\ v \in Int /\ (u # v => u < v \/ v < u)
  BY <1>1
<1>5. \A e \in Edges : e[1] # e[2]
  BY <1>2, <1>4
<1> QED BY <1>2, <1>3, <1>4, <1>5

(* Edges cost nothing negative, and the same in both directions. *)
LEMMA CostNat ==
  ASSUME GraphTyped, NEW u \in Vertices, NEW v \in Vertices, u # v
  PROVE  /\ DeviceIndependentCost(u, v) \in Nat
         /\ DeviceIndependentCost(u, v) = DeviceIndependentCost(v, u)
<1>1. Between(u, v) \in [data : Nat, order : Nat] /\ Between(u, v) = Between(v, u)
  BY EdgePairs DEF GraphTyped, Between
<1>2. \A o \in [data : Nat, order : Nat] : calcDeviceIndependentEdgeCost(o) \in Nat
  BY AverageCosts DEF calcDeviceIndependentEdgeCost
<1> QED BY <1>1, <1>2 DEF DeviceIndependentCost

(* Across a processor and an FPGA communication costs more than on average. *)
LEMMA CostAcross ==
  ASSUME GraphTyped, NEW e \in Edges, NEW d1 \in Devices, NEW d2 \in Devices
  PROVE  /\ VertexCommunicationCost(e[1], e[2], d1, d2) \in Nat
         /\ d1 # d2 => VertexCommunicationCost(e[1], e[2], d1, d2) >= DeviceIndependentCost(e[1], e[2])
<1>1. Between(e[1], e[2]) \in [data : Nat, order : Nat]
  BY EdgePairs DEF GraphTyped, Between
<1>2. \A o \in [data : Nat, order : Nat] :
        /\ calcEdgeCost(o, d1, d2) \in Nat
        /\ d1 # d2 => calcEdgeCost(o, d1, d2) >= calcDeviceIndependentEdgeCost(o)
  BY AverageCosts DEF calcDeviceIndependentEdgeCost, calcEdgeCost, getCommunicationCost,
                      fpgaClockMultiplier, Devices
<1> QED BY <1>1, <1>2 DEF DeviceIndependentCost, VertexCommunicationCost
-----------------------------------------------------------------------------
(* The difference of external and internal costs as one sum. *)
Difference(v, p) == externalCosts(v, p) - internalCosts(v, p)
Others(v) == Vertices \ {v}
Signed(v, p) ==
  [u \in Others(v) |-> IF p[u] # p[v] THEN DeviceIndependentCost(u, v)
                                      ELSE 0 - DeviceIndependentCost(u, v)]

(* The costs a vertex sums up, external ones positive and internal ones *)
(* negative, are integers.                                              *)
LEMMA SignedInt ==
  ASSUME GraphTyped, NEW v \in Vertices, NEW p
  PROVE  /\ IsFiniteSet(Others(v))
         /\ \A u \in Others(v) : Signed(v, p)[u] \in Int
<1>1. IsFiniteSet(Others(v))
  BY VerticesFinite, FS_Subset DEF Others
<1>2. \A u \in Others(v) : DeviceIndependentCost(u, v) \in Nat
  BY CostNat DEF Others
<1> QED BY <1>1, <1>2 DEF Signed

(* external minus internal costs is one sum over all other vertices. *)
LEMMA DifferenceAsSum ==
  ASSUME GraphTyped, NEW v \in Vertices, NEW p
  PROVE  /\ Difference(v, p) = SumFunctionOnSet(Signed(v, p), Others(v))
         /\ Difference(v, p) \in Int
         /\ externalCosts(v, p) \in Int /\ internalCosts(v, p) \in Int
<1> DEFINE ext == {w \in Vertices : p[w] # p[v]}
           int == {w \in Vertices \ {v} : p[w] = p[v]}
           f == [u \in ext |-> DeviceIndependentCost(u, v)]
           g == [u \in int |-> DeviceIndependentCost(u, v)]
           s == Signed(v, p)
<1>1. ext \union int = Others(v) /\ ext \cap int = {}
  BY DEF Others
<1>2. IsFiniteSet(ext) /\ IsFiniteSet(int)
  BY VerticesFinite, FS_Subset
<1>3. \A u \in ext : f[u] \in Int /\ s[u] = f[u]
  BY CostNat, <1>1 DEF Signed
<1>4. \A u \in int : g[u] \in Int /\ s[u] = 0 - g[u]
  BY CostNat, <1>1 DEF Signed
<1>5. externalCosts(v, p) = SumFunctionOnSet(f, ext)
  BY DEF externalCosts, SumFunction
<1>6. internalCosts(v, p) = SumFunctionOnSet(g, int)
  BY DEF internalCosts, SumFunction
<1>7. \A u \in ext \union int : s[u] \in Int
  BY <1>3, <1>4
<1> HIDE DEF ext, int, f, g, s
<1>8. SumFunctionOnSet(s, Others(v)) = SumFunctionOnSet(s, ext) + SumFunctionOnSet(s, int)
  BY <1>1, <1>2, <1>7, SumUnion
<1>9. SumFunctionOnSet(s, ext) = SumFunctionOnSet(f, ext)
  BY <1>2, <1>3, SumSame
<1>10. SumFunctionOnSet(s, int) = 0 - SumFunctionOnSet(g, int)
  BY <1>2, <1>4, SumNegated
<1>11. SumFunctionOnSet(f, ext) \in Int /\ SumFunctionOnSet(g, int) \in Int
  BY <1>2, <1>3, <1>4, SumInt
<1> QED BY <1>5, <1>6, <1>8, <1>9, <1>10, <1>11 DEF Difference, s

(* Interchanging a and b. *)
Swapped(p, a, b) == [v \in Vertices |-> IF v \in {a, b} THEN 1 - p[v] ELSE p[v]]

(* How the interchange of a and b changes the difference of another vertex; *)
(* updateCostDifferences adds this.                                         *)
LEMMA DifferenceSwapped ==
  ASSUME GraphTyped, NEW p \in [Vertices -> {0, 1}],
         NEW a \in Vertices, NEW b \in Vertices, a # b, p[a] # p[b],
         NEW v \in Vertices, v # a, v # b
  PROVE  LET ca == DeviceIndependentCost(v, a)
             cb == DeviceIndependentCost(v, b)
         IN Difference(v, Swapped(p, a, b)) =
              IF p[v] = p[a] THEN Difference(v, p) + 2 * ca - 2 * cb
                             ELSE Difference(v, p) + 2 * cb - 2 * ca
<1> DEFINE q == Swapped(p, a, b)
           f == Signed(v, p)
           g == Signed(v, q)
           R == (Others(v) \ {a}) \ {b}
           ca == DeviceIndependentCost(v, a)
           cb == DeviceIndependentCost(v, b)
<1>1. a \in Others(v) /\ b \in Others(v) \ {a} /\ R \subseteq Others(v)
  BY DEF Others
<1>2. IsFiniteSet(Others(v)) /\ IsFiniteSet(Others(v) \ {a}) /\ IsFiniteSet(R)
  BY SignedInt, FS_Subset
<1>3. \A u \in Others(v) : f[u] \in Int /\ g[u] \in Int
  BY SignedInt
<1>4. ca \in Int /\ cb \in Int /\ ca = DeviceIndependentCost(a, v) /\ cb = DeviceIndependentCost(b, v)
  BY CostNat
<1>5. \A u \in R : f[u] = g[u]
  <2>1. \A u \in R : q[u] = p[u]
    BY DEF Swapped, Others
  <2>2. q[v] = p[v]
    BY DEF Swapped
  <2> QED BY <2>1, <2>2 DEF Signed, Others
<1>6. /\ f[a] = IF p[v] = p[a] THEN 0 - ca ELSE ca
      /\ g[a] = IF p[v] = p[a] THEN ca ELSE 0 - ca
      /\ f[b] = IF p[v] = p[a] THEN cb ELSE 0 - cb
      /\ g[b] = IF p[v] = p[a] THEN 0 - cb ELSE cb
  <2>1. q[v] = p[v] /\ q[a] = 1 - p[a] /\ q[b] = 1 - p[b]
    BY DEF Swapped
  <2>2. p[a] \in {0, 1} /\ p[b] \in {0, 1} /\ p[v] \in {0, 1}
    OBVIOUS
  <2> HIDE DEF q, ca, cb
  <2> QED BY <1>1, <1>4, <2>1, <2>2 DEF Signed
<1> HIDE DEF q, f, g, R, ca, cb
<1>7. SumFunctionOnSet(f, Others(v)) = f[a] + (f[b] + SumFunctionOnSet(f, R))
  <2>1. SumFunctionOnSet(f, Others(v)) = f[a] + SumFunctionOnSet(f, Others(v) \ {a})
    BY <1>1, <1>2, <1>3, SumRemove
  <2>2. SumFunctionOnSet(f, Others(v) \ {a}) = f[b] + SumFunctionOnSet(f, R)
    BY <1>1, <1>2, <1>3, SumRemove DEF R
  <2> QED BY <2>1, <2>2
<1>8. SumFunctionOnSet(g, Others(v)) = g[a] + (g[b] + SumFunctionOnSet(g, R))
  <2>1. SumFunctionOnSet(g, Others(v)) = g[a] + SumFunctionOnSet(g, Others(v) \ {a})
    BY <1>1, <1>2, <1>3, SumRemove
  <2>2. SumFunctionOnSet(g, Others(v) \ {a}) = g[b] + SumFunctionOnSet(g, R)
    BY <1>1, <1>2, <1>3, SumRemove DEF R
  <2> QED BY <2>1, <2>2
<1>9. SumFunctionOnSet(f, R) = SumFunctionOnSet(g, R) /\ SumFunctionOnSet(f, R) \in Int
  BY <1>1, <1>2, <1>3, <1>5, SumSame, SumInt
<1>10. /\ Difference(v, p) = SumFunctionOnSet(f, Others(v))
       /\ Difference(v, q) = SumFunctionOnSet(g, Others(v))
  BY DifferenceAsSum DEF f, g
<1>11. Difference(v, q) = IF p[v] = p[a] THEN Difference(v, p) + 2 * ca - 2 * cb
                                         ELSE Difference(v, p) + 2 * cb - 2 * ca
  BY <1>4, <1>6, <1>7, <1>8, <1>9, <1>10
<1> QED BY <1>11 DEF q, ca, cb
-----------------------------------------------------------------------------
(* The communication between the partitions of p, edge by edge. *)
Crossing(p) == {f \in Edges : p[f[1]] # p[f[2]]}
Pair(u, v) == IF u < v THEN <<u, v>> ELSE <<v, u>>

(* The cost of a partitioning is the sum over the edges between the two *)
(* sides.                                                               *)
LEMMA CutAsSum ==
  ASSUME GraphTyped, NEW p
  PROVE  /\ Cut(p) = SumFunctionOnSet(EdgeCosts, Crossing(p))
         /\ Cut(p) \in Int
         /\ \A e \in Edges : EdgeCosts[e] \in Int
<1> DEFINE f == [e \in Crossing(p) |-> DeviceIndependentCost(e[1], e[2])]
<1>1. Cut(p) = SumFunctionOnSet(f, Crossing(p))
  BY DEF Cut, SumFunction, Crossing
<1>2. IsFiniteSet(Crossing(p)) /\ Crossing(p) \subseteq Edges
  BY VerticesFinite, FS_Subset DEF Crossing
<1>3. \A e \in Edges : EdgeCosts[e] \in Int
  BY EdgePairs, CostNat DEF EdgeCosts
<1>4. \A e \in Crossing(p) : f[e] = EdgeCosts[e]
  BY <1>2 DEF EdgeCosts
<1> HIDE DEF f
<1>5. SumFunctionOnSet(f, Crossing(p)) = SumFunctionOnSet(EdgeCosts, Crossing(p))
  BY <1>2, <1>4, SumSame
<1>6. SumFunctionOnSet(EdgeCosts, Crossing(p)) \in Int
  BY <1>2, <1>3, SumInt
<1> QED BY <1>1, <1>3, <1>5, <1>6

(* The edge of two vertices does not depend on their order and is no other *)
(* pair's.                                                                 *)
LEMMA PairFacts ==
  ASSUME GraphTyped, NEW u \in Vertices, NEW v \in Vertices, u # v
  PROVE  /\ Pair(u, v) \in Edges /\ Pair(u, v) = Pair(v, u)
         /\ EdgeCosts[Pair(u, v)] = DeviceIndependentCost(u, v)
         /\ \A w \in Vertices : w # v /\ Pair(w, v) = Pair(u, v) => w = u
         /\ {Pair(u, v)[1], Pair(u, v)[2]} = {u, v}
<1>1. u < v \/ v < u
  BY EdgePairs
<1>2. u \in Int /\ v \in Int
  BY EdgePairs
<1>3. Pair(u, v) \in Edges /\ Pair(u, v) = Pair(v, u)
  BY <1>1, <1>2, EdgePairs DEF Pair
<1>4. {Pair(u, v)[1], Pair(u, v)[2]} = {u, v}
  BY <1>1, <1>2 DEF Pair
<1>5. EdgeCosts[Pair(u, v)] = DeviceIndependentCost(u, v)
  BY <1>1, <1>2, <1>3, CostNat DEF EdgeCosts, Pair
<1>6. \A w \in Vertices : w # v /\ Pair(w, v) = Pair(u, v) => w = u
  BY <1>2, EdgePairs DEF Pair
<1> QED BY <1>3, <1>4, <1>5, <1>6

(* The edges of vertex a to a set of other vertices cost what the set costs. *)
LEMMA CostOfEdges ==
  ASSUME GraphTyped, NEW a \in Vertices, NEW U \in SUBSET Others(a),
         NEW f, \A u \in U : f[u] = DeviceIndependentCost(u, a)
  PROVE  SumFunctionOnSet(EdgeCosts, {Pair(u, a) : u \in U}) = SumFunctionOnSet(f, U)
<1> DEFINE h == [u \in U |-> Pair(u, a)]
<1>1. IsFiniteSet(U)
  BY SignedInt, FS_Subset
<1>2. \A u \in U : u \in Vertices /\ u # a
  BY DEF Others
<1>3. \A u \in U : f[u] \in Int /\ f[u] = EdgeCosts[h[u]]
  BY <1>2, CostNat, PairFacts
<1>4. \A u, w \in U : h[u] = h[w] => u = w
  BY <1>2, PairFacts
<1>5. {h[u] : u \in U} = {Pair(u, a) : u \in U}
  OBVIOUS
<1> HIDE DEF h
<1>6. SumFunctionOnSet(EdgeCosts, {h[u] : u \in U}) = SumFunctionOnSet(f, U)
  BY <1>1, <1>3, <1>4, SumRenamed
<1> QED BY <1>5, <1>6

(* The edges of a to the vertices other than b, outside and inside a's      *)
(* partition, and the crossing edges that touch neither a nor b.            *)
Away(p, a, b) == {Pair(u, a) : u \in {w \in Vertices \ {a, b} : p[w] # p[a]}}
Along(p, a, b) == {Pair(u, a) : u \in {w \in Vertices \ {a, b} : p[w] = p[a]}}
Apart(p, a, b) == {e \in Crossing(p) : e[1] \notin {a, b} /\ e[2] \notin {a, b}}

(* What vertex a counts, apart from its edge to b: the edges of a that *)
(* leave its side and those that stay.                                 *)
LEMMA DifferenceParts ==
  ASSUME GraphTyped, NEW p, NEW a \in Vertices, NEW b \in Vertices, a # b, p[a] # p[b]
  PROVE  /\ SumFunctionOnSet(EdgeCosts, Away(p, a, b)) \in Int
         /\ SumFunctionOnSet(EdgeCosts, Along(p, a, b)) \in Int
         /\ Difference(a, p) = DeviceIndependentCost(a, b)
                               + SumFunctionOnSet(EdgeCosts, Away(p, a, b))
                               - SumFunctionOnSet(EdgeCosts, Along(p, a, b))
<1> DEFINE s == Signed(a, p)
           U == {w \in Vertices \ {a, b} : p[w] # p[a]}
           W == {w \in Vertices \ {a, b} : p[w] = p[a]}
           f == [u \in W |-> DeviceIndependentCost(u, a)]
<1>1. /\ b \in Others(a) /\ Others(a) \ {b} = U \union W /\ U \cap W = {}
      /\ U \in SUBSET Others(a) /\ W \in SUBSET Others(a)
  BY DEF Others
<1>2. IsFiniteSet(Others(a)) /\ IsFiniteSet(U) /\ IsFiniteSet(W)
  BY <1>1, SignedInt, FS_Subset
<1>3. \A u \in Others(a) : s[u] \in Int
  BY SignedInt
<1>4. s[b] = DeviceIndependentCost(a, b)
  BY <1>1, CostNat DEF Signed
<1>5. \A u \in U : s[u] = DeviceIndependentCost(u, a)
  BY <1>1 DEF Signed
<1>6. \A u \in W : s[u] = 0 - f[u] /\ f[u] \in Int /\ f[u] = DeviceIndependentCost(u, a)
  <2>1. \A u \in W : u \in Vertices /\ u # a
    OBVIOUS
  <2> QED BY <1>1, <2>1, CostNat DEF Signed
<1>7. {Pair(u, a) : u \in U} = Away(p, a, b) /\ {Pair(u, a) : u \in W} = Along(p, a, b)
  BY DEF Away, Along
<1>8. Difference(a, p) = SumFunctionOnSet(s, Others(a))
  BY DifferenceAsSum
<1> HIDE DEF s, U, W, f
<1>9. SumFunctionOnSet(s, Others(a)) = s[b] + SumFunctionOnSet(s, U \union W)
  BY <1>1, <1>2, <1>3, SumRemove
<1>10. SumFunctionOnSet(s, U \union W) = SumFunctionOnSet(s, U) + SumFunctionOnSet(s, W)
  BY <1>1, <1>2, <1>3, SumUnion
<1>11. SumFunctionOnSet(s, W) = 0 - SumFunctionOnSet(f, W)
  BY <1>2, <1>6, SumNegated
<1>12. SumFunctionOnSet(EdgeCosts, Away(p, a, b)) = SumFunctionOnSet(s, U)
  BY <1>1, <1>5, <1>7, CostOfEdges
<1>13. SumFunctionOnSet(EdgeCosts, Along(p, a, b)) = SumFunctionOnSet(f, W)
  BY <1>1, <1>6, <1>7, CostOfEdges
<1>14. SumFunctionOnSet(s, U) \in Int /\ SumFunctionOnSet(f, W) \in Int /\ s[b] \in Int
  <2>1. \A u \in U : s[u] \in Int
    BY <1>1, <1>3
  <2> QED BY <1>1, <1>2, <1>3, <1>6, <2>1, SumInt
<1> QED BY <1>4, <1>8, <1>9, <1>10, <1>11, <1>12, <1>13, <1>14

(* The edges of the cut: those at neither a nor b, those of a, those of b, *)
(* and the one between them.                                               *)
LEMMA CutParts ==
  ASSUME GraphTyped, NEW p, NEW a \in Vertices, NEW b \in Vertices, a # b, p[a] # p[b]
  PROVE  /\ SumFunctionOnSet(EdgeCosts, Apart(p, a, b)) \in Int
         /\ Cut(p) = SumFunctionOnSet(EdgeCosts, Apart(p, a, b))
                     + SumFunctionOnSet(EdgeCosts, Away(p, a, b))
                     + SumFunctionOnSet(EdgeCosts, Away(p, b, a))
                     + DeviceIndependentCost(a, b)
<1> DEFINE N == Apart(p, a, b)
           A == Away(p, a, b)
           B == Away(p, b, a)
           e0 == Pair(a, b)
<1>1. e0 \in Edges /\ {e0[1], e0[2]} = {a, b} /\ EdgeCosts[e0] = DeviceIndependentCost(a, b)
  BY PairFacts
<1>2. \A e \in A : /\ e \in Edges
                   /\ \E u \in Vertices \ {a, b} : {e[1], e[2]} = {u, a} /\ p[u] # p[a]
  BY PairFacts DEF Away
<1>3. \A e \in B : /\ e \in Edges
                   /\ \E u \in Vertices \ {a, b} : {e[1], e[2]} = {u, b} /\ p[u] # p[b]
  BY PairFacts DEF Away
<1>4. N \cap A = {} /\ (N \union A) \cap B = {} /\ e0 \notin (N \union A) \union B
  BY <1>1, <1>2, <1>3 DEF Apart
<1>5. ASSUME NEW e \in Crossing(p), e \notin N, e # e0 PROVE e \in A \union B
  <2>1. e \in Edges /\ p[e[1]] # p[e[2]] /\ (e[1] \in {a, b} \/ e[2] \in {a, b})
    BY <1>5 DEF Apart, Crossing
  <2>2. e[1] \in Vertices /\ e[2] \in Vertices /\ e[1] < e[2] /\ e[1] # e[2] /\ e = <<e[1], e[2]>>
    BY <2>1, EdgePairs
  <2>3. e = Pair(e[1], e[2]) /\ e = Pair(e[2], e[1])
    BY <2>2, PairFacts DEF Pair
  <2>4. {e[1], e[2]} # {a, b}
    BY <1>5, <2>2, <2>3, PairFacts
  <2>5. CASE e[1] \in {a, b}
    BY <2>1, <2>2, <2>3, <2>4, <2>5 DEF Away
  <2>6. CASE e[2] \in {a, b}
    BY <2>1, <2>2, <2>3, <2>4, <2>6 DEF Away
  <2> QED BY <2>1, <2>5, <2>6
<1>6. Crossing(p) = ((N \union A) \union B) \union {e0}
  <2>1. e0 \in Crossing(p)
    BY <1>1 DEF Crossing
  <2>2. A \subseteq Crossing(p)
    BY <1>2 DEF Crossing
  <2>3. B \subseteq Crossing(p)
    BY <1>3 DEF Crossing
  <2>4. N \subseteq Crossing(p)
    BY DEF Apart
  <2> HIDE DEF N, A, B, e0
  <2> QED BY <1>5, <2>1, <2>2, <2>3, <2>4
<1>7. /\ \A e \in Crossing(p) : EdgeCosts[e] \in Int
      /\ IsFiniteSet(Crossing(p))
  BY CutAsSum, VerticesFinite, FS_Subset DEF Crossing
<1> HIDE DEF N, A, B, e0
<1>8. IsFiniteSet(N) /\ IsFiniteSet(A) /\ IsFiniteSet(B) /\ IsFiniteSet(N \union A)
      /\ IsFiniteSet((N \union A) \union B)
  <2>1. N \subseteq Crossing(p) /\ A \subseteq Crossing(p) /\ B \subseteq Crossing(p)
        /\ N \union A \subseteq Crossing(p) /\ (N \union A) \union B \subseteq Crossing(p)
    BY <1>6
  <2> QED BY <1>7, <2>1, FS_Subset
<1>9. SumFunctionOnSet(EdgeCosts, Crossing(p))
      = EdgeCosts[e0] + SumFunctionOnSet(EdgeCosts, (N \union A) \union B)
  <2>1. Crossing(p) \ {e0} = (N \union A) \union B /\ e0 \in Crossing(p)
    BY <1>4, <1>6
  <2> QED BY <1>7, <2>1, SumRemove
<1>10. SumFunctionOnSet(EdgeCosts, (N \union A) \union B)
       = SumFunctionOnSet(EdgeCosts, N \union A) + SumFunctionOnSet(EdgeCosts, B)
  BY <1>4, <1>6, <1>7, <1>8, SumUnion
<1>11. SumFunctionOnSet(EdgeCosts, N \union A)
       = SumFunctionOnSet(EdgeCosts, N) + SumFunctionOnSet(EdgeCosts, A)
  BY <1>4, <1>6, <1>7, <1>8, SumUnion
<1>12. /\ SumFunctionOnSet(EdgeCosts, N) \in Int /\ SumFunctionOnSet(EdgeCosts, A) \in Int
       /\ SumFunctionOnSet(EdgeCosts, B) \in Int /\ EdgeCosts[e0] \in Int
  BY <1>6, <1>7, <1>8, SumInt
<1>13. Cut(p) = SumFunctionOnSet(EdgeCosts, Crossing(p))
  BY CutAsSum
<1>14. Cut(p) = SumFunctionOnSet(EdgeCosts, N) + SumFunctionOnSet(EdgeCosts, A)
                + SumFunctionOnSet(EdgeCosts, B) + DeviceIndependentCost(a, b)
  BY <1>1, <1>9, <1>10, <1>11, <1>12, <1>13
<1> QED BY <1>12, <1>14 DEF N, A, B

(* What the interchange of a and b saves. *)
LEMMA CutSwapped ==
  ASSUME GraphTyped, NEW p \in [Vertices -> {0, 1}],
         NEW a \in Vertices, NEW b \in Vertices, a # b, p[a] # p[b]
  PROVE  Cut(Swapped(p, a, b)) = Cut(p) - (Difference(a, p) + Difference(b, p)
                                           - 2 * DeviceIndependentCost(a, b))
<1> DEFINE q == Swapped(p, a, b)
<1>1. q[a] = 1 - p[a] /\ q[b] = 1 - p[b] /\ \A u \in Vertices \ {a, b} : q[u] = p[u]
  BY DEF Swapped
<1>2. p[a] \in {0, 1} /\ p[b] \in {0, 1} /\ \A u \in Vertices : p[u] \in {0, 1}
  OBVIOUS
<1>3. q[a] # q[b]
  BY <1>1, <1>2
<1>4. Away(q, a, b) = Along(p, a, b)
  BY <1>1, <1>2 DEF Away, Along
<1>5. Away(q, b, a) = Along(p, b, a)
  BY <1>1, <1>2 DEF Away, Along
<1>6. Apart(q, a, b) = Apart(p, a, b)
  BY <1>1, EdgePairs DEF Apart, Crossing
<1> HIDE DEF q
<1>7. DeviceIndependentCost(a, b) \in Int /\ DeviceIndependentCost(b, a) = DeviceIndependentCost(a, b)
  BY CostNat
<1> DEFINE n == SumFunctionOnSet(EdgeCosts, Apart(p, a, b))
           wa == SumFunctionOnSet(EdgeCosts, Away(p, a, b))
           wb == SumFunctionOnSet(EdgeCosts, Away(p, b, a))
           la == SumFunctionOnSet(EdgeCosts, Along(p, a, b))
           lb == SumFunctionOnSet(EdgeCosts, Along(p, b, a))
           c == DeviceIndependentCost(a, b)
<1>8. n \in Int /\ Cut(p) = n + wa + wb + c
  BY CutParts
<1>9. Cut(q) = n + la + lb + c
  BY <1>3, <1>4, <1>5, <1>6, CutParts
<1>10. Difference(a, p) = c + wa - la /\ wa \in Int /\ la \in Int
  BY DifferenceParts
<1>11. Difference(b, p) = c + wb - lb /\ wb \in Int /\ lb \in Int
  BY <1>7, DifferenceParts
<1> HIDE DEF n, wa, wb, la, lb, c
<1>12. Cut(q) = Cut(p) - (Difference(a, p) + Difference(b, p) - 2 * c)
  BY <1>7, <1>8, <1>9, <1>10, <1>11 DEF c
<1> QED BY <1>12 DEF q, c
-----------------------------------------------------------------------------
(* The inductive invariant.  Its parts, during a pass: *)
Moved(k) == UNION {{interchanges[j][1], interchanges[j][2]} : j \in 1..k}
LockedSide(i) == {v \in locked : result[v] = i}
SideSize(p, i) == Cardinality({v \in Vertices : p[v] = i})

(* As many vertices of either side are locked as pairs were found, and      *)
(* there are as many pairs to find as the smaller side has vertices.        *)
LockedPairs ==
  /\ Len(interchanges) <= iterationCount
  /\ \E i \in {0, 1} : iterationCount = getVertexCountForPartition(i)
  /\ locked = Moved(Len(interchanges))
  /\ \A i \in {0, 1} : /\ iterationCount <= getVertexCountForPartition(i)
                       /\ Cardinality(LockedSide(i)) = Len(interchanges)

(* No prefix of the interchanges changes the sizes of the partitions. *)
PrefixesBalanced ==
  \A k \in 0..Len(interchanges) : \A i \in {0, 1} :
    SideSize(Exchanged(k), i) = SideSize(result, i)

DifferencesOfTentative ==
  \A v \in Vertices \ locked : costDifference[v] = Difference(v, Exchanged(Len(interchanges)))

(* What the first interchange of a pass was chosen from. *)
FirstGain(e) ==
  Difference(e[1], result) + Difference(e[2], result)
  - 2 * VertexCommunicationCost(e[1], e[2], devices[result[e[1]] + 1], devices[result[e[2]] + 1])

MaximumKept ==
  /\ interchanges = <<>> => maxTotalGain = INT_MIN /\ maxTotalGainIndex = 0 /\ currentTotalGain = 0
  /\ interchanges # <<>> => /\ maxTotalGainIndex < Len(interchanges)
                            /\ \A e \in Crossing(result) : FirstGain(e) <= maxTotalGain

(* On a processor and an FPGA the gains are not overestimated. *)
GainsReached ==
  devices[1] # devices[2] =>
    /\ currentTotalGain <= Cut(result) - Cut(Exchanged(Len(interchanges)))
    /\ maxTotalGain > 0 => maxTotalGain <= Cut(result) - Cut(Exchanged(maxTotalGainIndex + 1))

PassInv ==
  /\ Len(devices) = 2
  /\ LockedPairs
  /\ PrefixesBalanced
  /\ DifferencesOfTentative
  /\ MaximumKept
  /\ GainsReached

KLInv ==
  /\ GraphTyped
  /\ devices \in DeviceLists
  /\ KLTypeOK
  /\ currentTotalGain \in Int /\ maxTotalGain \in Int
  /\ phase = "pass" => PassInv
  /\ LocalOptimum
-----------------------------------------------------------------------------
(* The costs depend on the graph alone. *)
LEMMA CostsUnchanged ==
  ASSUME units' = units, com' = com
  PROVE  /\ Vertices' = Vertices /\ Edges' = Edges
         /\ \A v, p : Difference(v, p)' = Difference(v, p)
         /\ \A p : Cut(p)' = Cut(p)
         /\ \A u, v, d1, d2 : VertexCommunicationCost(u, v, d1, d2)' = VertexCommunicationCost(u, v, d1, d2)
<1>1. Vertices' = Vertices /\ Edges' = Edges
  BY DEF Vertices, Edges
<1>2. \A v, p : Difference(v, p)' = Difference(v, p)
  BY DEF Difference, externalCosts, internalCosts, DeviceIndependentCost, Between, Vertices
<1>3. \A p : Cut(p)' = Cut(p)
  BY DEF Cut, DeviceIndependentCost, Between, Edges, Vertices
<1>4. \A u, v, d1, d2 : VertexCommunicationCost(u, v, d1, d2)' = VertexCommunicationCost(u, v, d1, d2)
  BY DEF VertexCommunicationCost, Between
<1> QED BY <1>1, <1>2, <1>3, <1>4

(* The partitioning behind the first k interchanges of a pass. *)
LEMMA ExchangedFacts ==
  ASSUME KLInv
  PROVE  /\ \A k : Exchanged(k) = [v \in Vertices |-> IF v \in Moved(k) THEN 1 - result[v] ELSE result[v]]
         /\ \A k : Exchanged(k) \in [Vertices -> {0, 1}]
         /\ Exchanged(0) = result
<1>1. result \in [Vertices -> {0, 1}]
  BY DEF KLInv, KLTypeOK
<1>2. \A k : Exchanged(k) = [v \in Vertices |-> IF v \in Moved(k) THEN 1 - result[v] ELSE result[v]]
  BY DEF Exchanged, Moved
<1>3. \A v \in Vertices : 1 - result[v] \in {0, 1}
  BY <1>1
<1>4. Moved(0) = {}
  BY DEF Moved
<1> QED BY <1>1, <1>2, <1>3, <1>4

(* There is a pair to interchange in every iteration of a pass: the locked  *)
(* vertices never exhaust a side.                                           *)
LEMMA PairRemains ==
  ASSUME KLInv, phase = "pass", Len(interchanges) < iterationCount
  PROVE  Candidates # {}
<1>1. result \in [Vertices -> {0, 1}] /\ locked \subseteq Vertices
  BY DEF KLInv, KLTypeOK
<1>2. ASSUME NEW i \in {0, 1}
      PROVE  \E v \in Vertices : result[v] = i /\ v \notin locked
  <2> SUFFICES ASSUME \A v \in Vertices : result[v] = i => v \in locked PROVE FALSE
    OBVIOUS
  <2>1. LockedSide(i) = {v \in Vertices : result[v] = i}
    BY <1>1 DEF LockedSide
  <2>2. Cardinality(LockedSide(i)) = getVertexCountForPartition(i)
    BY <2>1 DEF getVertexCountForPartition
  <2>3. Cardinality(LockedSide(i)) = Len(interchanges) /\ iterationCount <= getVertexCountForPartition(i)
    BY DEF KLInv, PassInv, LockedPairs
  <2>4. iterationCount \in Nat /\ Len(interchanges) \in Nat
    BY DEF KLInv, KLTypeOK
  <2> QED BY <2>2, <2>3, <2>4
<1>3. PICK u \in Vertices : result[u] = 0 /\ u \notin locked
  BY <1>2
<1>4. PICK v \in Vertices : result[v] = 1 /\ v \notin locked
  BY <1>2
<1>5. u # v /\ GraphTyped
  BY <1>3, <1>4 DEF KLInv
<1>6. <<u, v>> \in Edges \/ <<v, u>> \in Edges
  BY <1>5, EdgePairs
<1> QED BY <1>3, <1>4, <1>6 DEF Candidates

(* The reduction of the application's costs by an edge is an integer. *)
LEMMA ReductionInt ==
  ASSUME KLInv, Len(devices) = 2, NEW e \in Edges
  PROVE  /\ costReduction(e) \in Int
         /\ devices[result[e[1]] + 1] \in Devices /\ devices[result[e[2]] + 1] \in Devices
         /\ VertexCommunicationCost(e[1], e[2], devices[result[e[1]] + 1], devices[result[e[2]] + 1]) \in Nat
<1>1. e[1] \in Vertices /\ e[2] \in Vertices
  BY EdgePairs DEF KLInv
<1>2. result[e[1]] \in {0, 1} /\ result[e[2]] \in {0, 1}
  BY <1>1 DEF KLInv, KLTypeOK
<1>3. devices \in Seq(Devices)
  BY DEF KLInv, KLTypeOK
<1>4. devices[1] \in Devices /\ devices[2] \in Devices
  BY <1>3
<1>5. devices[result[e[1]] + 1] \in Devices /\ devices[result[e[2]] + 1] \in Devices
  BY <1>2, <1>4
<1>6. VertexCommunicationCost(e[1], e[2], devices[result[e[1]] + 1], devices[result[e[2]] + 1]) \in Nat
  BY <1>5, CostAcross DEF KLInv
<1>7. costDifference[e[1]] \in Int /\ costDifference[e[2]] \in Int
  BY <1>1 DEF KLInv, KLTypeOK
<1> QED BY <1>5, <1>6, <1>7 DEF costReduction

(* findInterchangePair finds a candidate of the greatest cost reduction. *)
LEMMA PairFound ==
  ASSUME KLInv, Len(devices) = 2, Candidates # {}
  PROVE  /\ findInterchangePair \in Candidates
         /\ \A f \in Candidates : costReduction(f) <= costReduction(findInterchangePair)
<1> DEFINE r == [f \in Candidates |-> costReduction(f)]
           G == {costReduction(f) : f \in Candidates}
           greatest == Max(G)
           best == {e \in Candidates : costReduction(e) = greatest}
<1>1. Candidates \subseteq Edges
  BY DEF Candidates
<1>2. IsFiniteSet(Candidates)
  BY <1>1, VerticesFinite, FS_Subset DEF KLInv
<1>3. IsFiniteSet(G) /\ G \subseteq Int /\ G # {}
  <2>1. G = {r[f] : f \in Candidates}
    OBVIOUS
  <2>2. IsFiniteSet({r[f] : f \in Candidates})
    BY <1>2, FiniteImage
  <2> QED BY <1>1, <2>1, <2>2, ReductionInt
<1>4. greatest \in G /\ \A x \in G : greatest >= x
  <2> HIDE DEF G
  <2> QED BY <1>3, MaxInt
<1>5. best # {} /\ best \subseteq Candidates
  BY <1>4
<1>6. \E e \in best : \A f \in best \ {e} : ScannedBefore(e, f)
  <2> HIDE DEF best
  <2> DEFINE one == [e \in best |-> e[1]]
             F == {one[e] : e \in best}
  <2>1. \A e \in best : e[1] \in Int /\ e[2] \in Int /\ e = <<e[1], e[2]>>
    BY <1>1, <1>5, EdgePairs DEF KLInv
  <2>2. IsFiniteSet(best)
    BY <1>2, <1>5, FS_Subset
  <2>3. IsFiniteSet(F) /\ F \subseteq Int /\ F # {}
    BY <1>5, <2>1, <2>2, FiniteImage
  <2>4. Min(F) \in F /\ \A y \in F : Min(F) <= y
    <3> HIDE DEF F
    <3> QED BY <2>3, MinInt
  <2>5. PICK m \in F : \A y \in F : m <= y
    BY <2>4
  <2> DEFINE row == {e \in best : e[1] = m}
             two == [e \in row |-> e[2]]
             H == {two[e] : e \in row}
  <2>6. IsFiniteSet(row)
    BY <2>2, FS_Subset
  <2>7. row # {}
    BY <2>5
  <2>8. IsFiniteSet(H) /\ H \subseteq Int /\ H # {}
    BY <2>1, <2>6, <2>7, FiniteImage
  <2>9. Min(H) \in H /\ \A y \in H : Min(H) <= y
    <3> HIDE DEF H
    <3> QED BY <2>8, MinInt
  <2>10. PICK e \in row : \A f \in row : e[2] <= f[2]
    BY <2>9
  <2>11. ASSUME NEW f \in best, f # e PROVE ScannedBefore(e, f)
    <3>1. e \in best /\ e[1] = m /\ m <= f[1]
      BY <2>5, <2>10, <2>11
    <3>2. CASE f[1] = m
      <4>1. e[2] <= f[2]
        BY <2>10, <2>11, <3>2
      <4>2. e[2] # f[2]
        BY <2>1, <2>11, <3>1, <3>2
      <4> QED BY <2>1, <3>1, <3>2, <4>1, <4>2 DEF ScannedBefore
    <3>3. CASE f[1] # m
      BY <2>1, <3>1, <3>3 DEF ScannedBefore
    <3> QED BY <3>2, <3>3
  <2> QED BY <2>10, <2>11
<1>7. findInterchangePair = CHOOSE e \in best : \A f \in best \ {e} : ScannedBefore(e, f)
  BY DEF findInterchangePair
<1>8. findInterchangePair \in best
  <2> HIDE DEF best
  <2> QED BY <1>6, <1>7
<1>9. \A f \in Candidates : costReduction(f) \in Int /\ costReduction(f) <= greatest
  BY <1>1, <1>3, <1>4, ReductionInt
<1> QED BY <1>8, <1>9

(* Max and Min of two integers. *)
LEMMA TwoInts ==
  ASSUME NEW x \in Int, NEW y \in Int
  PROVE  /\ Max({x, y}) \in Int /\ Max({x, y}) = IF x > y THEN x ELSE y
         /\ Min({x, y}) \in Int /\ Min({x, y}) <= x /\ Min({x, y}) <= y /\ Min({x, y}) \in {x, y}
<1>1. IsFiniteSet({x, y})
  <2>1. IsFiniteSet({x}) /\ IsFiniteSet({y}) /\ {x, y} = {x} \union {y}
    BY FS_Singleton
  <2> QED BY <2>1, FS_Union
<1>2. {x, y} \subseteq Int /\ {x, y} # {}
  OBVIOUS
<1>3. Max({x, y}) \in {x, y} /\ \A z \in {x, y} : Max({x, y}) >= z
  BY <1>1, <1>2, MaxInt
<1>4. Min({x, y}) \in {x, y} /\ \A z \in {x, y} : Min({x, y}) <= z
  BY <1>1, <1>2, MinInt
<1> QED BY <1>3, <1>4

(* An interchange across the partitions keeps their sizes. *)
LEMMA SizeSwapped ==
  ASSUME GraphTyped, NEW p \in [Vertices -> {0, 1}], NEW i \in {0, 1},
         NEW a \in Vertices, NEW b \in Vertices, p[a] # p[b]
  PROVE  SideSize(Swapped(p, a, b), i) = SideSize(p, i)
<1> DEFINE P == {v \in Vertices : p[v] = i}
           Q == {v \in Vertices : Swapped(p, a, b)[v] = i}
<1>1. IsFiniteSet(P)
  BY VerticesFinite, FS_Subset
<1>2. p[a] \in {0, 1} /\ p[b] \in {0, 1}
  OBVIOUS
<1>3. ASSUME NEW x \in Vertices, NEW y \in Vertices, {x, y} = {a, b}, p[x] = i, p[y] # i
      PROVE  Cardinality(Q) = Cardinality(P)
  <2>1. Q = (P \ {x}) \union {y}
    BY <1>2, <1>3 DEF Swapped
  <2>2. x \in P /\ y \notin P \ {x}
    BY <1>3
  <2> HIDE DEF P, Q
  <2>3. IsFiniteSet(P \ {x}) /\ Cardinality(P \ {x}) = Cardinality(P) - 1
    BY <1>1, <2>2, FS_RemoveElement
  <2>4. Cardinality((P \ {x}) \union {y}) = Cardinality(P \ {x}) + 1
    BY <2>2, <2>3, FS_AddElement
  <2>5. Cardinality(P) \in Nat
    BY <1>1, FS_CardinalityType
  <2> QED BY <2>1, <2>3, <2>4, <2>5
<1>4. Cardinality(Q) = Cardinality(P)
  <2>1. CASE p[a] = i
    BY <1>2, <1>3, <2>1
  <2>2. CASE p[b] = i
    BY <1>2, <1>3, <2>2
  <2> QED BY <1>2, <2>1, <2>2
<1> QED BY <1>4 DEF SideSize
(* Interchange picks the best pair: it keeps the differences current and *)
(* the gains summed.                                                     *)
LEMMA InterchangeStep ==
  ASSUME KLInv, Interchange
  PROVE  KLInv'
<1>1. PICK e : /\ e = findInterchangePair
               /\ phase = "pass" /\ Len(interchanges) < iterationCount
               /\ interchanges' = Append(interchanges, e)
               /\ currentTotalGain' = currentTotalGain + costReduction(e)
               /\ maxTotalGain' = Max({currentTotalGain', maxTotalGain})
               /\ maxTotalGainIndex' = IF currentTotalGain' > maxTotalGain THEN Len(interchanges)
                                                                            ELSE maxTotalGainIndex
               /\ locked' = locked \union {e[1], e[2]}
               /\ costDifference' = updateCostDifferences(e)
               /\ units' = units /\ com' = com /\ devices' = devices /\ result' = result
               /\ phase' = phase /\ iterationCount' = iterationCount
  BY DEF Interchange
<1>2. GraphTyped /\ KLTypeOK /\ PassInv /\ Len(devices) = 2 /\ iterationCount \in Nat
  BY <1>1 DEF KLInv, PassInv, KLTypeOK
<1>3. PICK n \in Nat : n = Len(interchanges)
  BY <1>2 DEF KLTypeOK
<1>4. e \in Candidates /\ \A f \in Candidates : costReduction(f) <= costReduction(e)
  BY <1>1, <1>2, PairRemains, PairFound
<1>5. PICK a, b : a = e[1] /\ b = e[2]
  OBVIOUS
<1>6. e \in Edges /\ a \notin locked /\ b \notin locked /\ result[a] # result[b]
  BY <1>4, <1>5 DEF Candidates
<1>7. a \in Vertices /\ b \in Vertices /\ a # b
  BY <1>2, <1>5, <1>6, EdgePairs
<1>8. /\ interchanges \in Seq(Edges) /\ interchanges' \in Seq(Edges)
      /\ Len(interchanges') = n + 1 /\ interchanges' # <<>>
      /\ \A j \in 1..n : interchanges'[j] = interchanges[j]
      /\ interchanges'[n + 1] = e
  BY <1>1, <1>2, <1>3, <1>6 DEF KLTypeOK
<1>9. /\ Vertices' = Vertices /\ Edges' = Edges
      /\ \A v, r : Difference(v, r)' = Difference(v, r)
      /\ \A r : Cut(r)' = Cut(r)
      /\ \A u, v, d1, d2 : VertexCommunicationCost(u, v, d1, d2)' = VertexCommunicationCost(u, v, d1, d2)
  BY <1>1, CostsUnchanged
<1>10. result \in [Vertices -> {0, 1}] /\ result[a] \in {0, 1} /\ result[b] \in {0, 1}
  BY <1>2, <1>7 DEF KLTypeOK
<1>11. \A k \in 0..n : Moved(k)' = Moved(k)
  BY <1>8 DEF Moved
<1>12. Moved(n + 1)' = Moved(n) \union {a, b}
  <2>1. \A j : j \in 1..(n + 1) <=> j \in 1..n \/ j = n + 1
    BY <1>3
  <2>2. ASSUME NEW x PROVE x \in Moved(n + 1)' <=> x \in Moved(n) \union {a, b}
    BY <1>5, <1>8, <2>1 DEF Moved
  <2> QED BY <2>2
<1>13. PICK p : p = Exchanged(n)
  OBVIOUS
<1>14. PICK q : q = Swapped(p, a, b)
  OBVIOUS
<1>15. locked = Moved(n)
  BY <1>2, <1>3 DEF PassInv, LockedPairs
<1>16. /\ p \in [Vertices -> {0, 1}] /\ \A v \in Vertices \ locked : p[v] = result[v]
       /\ p = [v \in Vertices |-> IF v \in Moved(n) THEN 1 - result[v] ELSE result[v]]
  BY <1>13, <1>15, ExchangedFacts
<1>17. \A k \in 0..n : Exchanged(k)' = Exchanged(k)
  BY <1>1, <1>9, <1>11 DEF Exchanged, Moved
<1>18. Exchanged(n + 1)' = q
  <2>1. Exchanged(n + 1)' = [v \in Vertices |-> IF v \in Moved(n + 1)' THEN 1 - result[v] ELSE result[v]]
    BY <1>1, <1>9 DEF Exchanged, Moved
  <2>2. q = [v \in Vertices |-> IF v \in {a, b} THEN 1 - p[v] ELSE p[v]]
    BY <1>14 DEF Swapped
  <2>3. \A v \in {a, b} : v \notin Moved(n) /\ p[v] = result[v]
    BY <1>6, <1>7, <1>15, <1>16
  <2> QED BY <1>12, <1>16, <2>1, <2>2, <2>3
<1>19. p[a] # p[b] /\ p[a] = result[a] /\ p[b] = result[b]
  BY <1>6, <1>7, <1>16
<1>20. /\ costReduction(e) \in Int
       /\ devices[result[a] + 1] \in Devices /\ devices[result[b] + 1] \in Devices
       /\ VertexCommunicationCost(a, b, devices[result[a] + 1], devices[result[b] + 1]) \in Nat
  BY <1>2, <1>5, <1>6, ReductionInt
<1>21. /\ currentTotalGain \in Int /\ maxTotalGain \in Int
       /\ currentTotalGain' \in Int /\ maxTotalGain' \in Int
       /\ maxTotalGain' = IF currentTotalGain' > maxTotalGain THEN currentTotalGain' ELSE maxTotalGain
  <2>1. currentTotalGain \in Int /\ maxTotalGain \in Int
    BY DEF KLInv
  <2>2. currentTotalGain' \in Int
    BY <1>1, <1>20, <2>1
  <2> QED BY <1>1, <2>1, <2>2, TwoInts
<1>22. LockedPairs'
  <2>1. Len(interchanges)' <= iterationCount' /\ locked' = Moved(Len(interchanges))'
    BY <1>1, <1>2, <1>3, <1>5, <1>8, <1>12, <1>15
  <2>2. ASSUME NEW i \in {0, 1} PROVE (Cardinality(LockedSide(i)) = Len(interchanges))'
    <3>1. PICK x \in {a, b} : result[x] = i /\ {y \in {a, b} : result[y] = i} = {x}
      BY <1>6, <1>10
    <3>2. LockedSide(i)' = LockedSide(i) \union {x}
      BY <1>1, <1>5, <3>1 DEF LockedSide
    <3>3. IsFiniteSet(LockedSide(i))
      BY <1>2, VerticesFinite, FS_Subset DEF LockedSide, KLTypeOK
    <3>4. x \notin LockedSide(i)
      BY <1>6, <3>1 DEF LockedSide
    <3>5. Cardinality(LockedSide(i) \union {x}) = Cardinality(LockedSide(i)) + 1
      BY <3>3, <3>4, FS_AddElement
    <3>6. Cardinality(LockedSide(i)) = n
      BY <1>2, <1>3 DEF PassInv, LockedPairs
    <3> QED BY <1>8, <3>2, <3>5, <3>6
  <2>3. ASSUME NEW i \in {0, 1} PROVE (iterationCount <= getVertexCountForPartition(i))'
    BY <1>1, <1>2, <1>9 DEF PassInv, LockedPairs, getVertexCountForPartition
  <2>4. (\E i \in {0, 1} : iterationCount = getVertexCountForPartition(i))'
    BY <1>1, <1>2, <1>9 DEF PassInv, LockedPairs, getVertexCountForPartition
  <2> QED BY <2>1, <2>2, <2>3, <2>4 DEF LockedPairs
<1>23. PrefixesBalanced'
  <2>1. ASSUME NEW k \in 0..(n + 1), NEW i \in {0, 1}
        PROVE  (SideSize(Exchanged(k), i) = SideSize(result, i))'
    <3>1. \A r : SideSize(r, i)' = SideSize(r, i)
      BY <1>9 DEF SideSize
    <3>2. CASE k \in 0..n
      <4>1. SideSize(Exchanged(k), i) = SideSize(result, i)
        BY <1>2, <1>3, <3>2 DEF PassInv, PrefixesBalanced
      <4> QED BY <1>1, <1>17, <3>1, <3>2, <4>1
    <3>3. CASE k = n + 1
      <4>1. SideSize(p, i) = SideSize(result, i)
        BY <1>2, <1>3, <1>13 DEF PassInv, PrefixesBalanced
      <4>2. SideSize(q, i) = SideSize(p, i)
        BY <1>2, <1>7, <1>14, <1>16, <1>19, SizeSwapped
      <4> QED BY <1>1, <1>18, <3>1, <3>3, <4>1, <4>2
    <3> QED BY <3>2, <3>3
  <2> QED BY <1>8, <2>1 DEF PrefixesBalanced
<1>24. DifferencesOfTentative' /\ costDifference' \in [Vertices -> Int]
  <2>1. ASSUME NEW v \in Vertices \ locked, v # a, v # b
        PROVE  costDifference'[v] = Difference(v, q)
    <3>1. costDifference[v] = Difference(v, p)
      BY <1>2, <1>3, <1>13 DEF PassInv, DifferencesOfTentative
    <3>2. p[v] = result[v]
      BY <1>16
    <3>3. costDifference'[v] = IF result[v] = result[a]
            THEN costDifference[v] + 2 * DeviceIndependentCost(v, a) - 2 * DeviceIndependentCost(v, b)
            ELSE costDifference[v] + 2 * DeviceIndependentCost(v, b) - 2 * DeviceIndependentCost(v, a)
      BY <1>1, <1>5, <2>1 DEF updateCostDifferences
    <3>4. Difference(v, q) = IF p[v] = p[a]
            THEN Difference(v, p) + 2 * DeviceIndependentCost(v, a) - 2 * DeviceIndependentCost(v, b)
            ELSE Difference(v, p) + 2 * DeviceIndependentCost(v, b) - 2 * DeviceIndependentCost(v, a)
      BY <1>2, <1>7, <1>14, <1>16, <1>19, <2>1, DifferenceSwapped
    <3> QED BY <1>19, <3>1, <3>2, <3>3, <3>4
  <2>2. DifferencesOfTentative'
    BY <1>1, <1>5, <1>8, <1>9, <1>18, <2>1 DEF DifferencesOfTentative
  <2>3. \A v \in Vertices : costDifference[v] \in Int
    BY <1>2 DEF KLTypeOK
  <2>4. \A v \in Vertices \ {a, b} : DeviceIndependentCost(v, a) \in Int /\ DeviceIndependentCost(v, b) \in Int
    BY <1>2, <1>7, CostNat
  <2>5. costDifference' \in [Vertices -> Int]
    BY <1>1, <1>5, <2>3, <2>4 DEF updateCostDifferences
  <2> QED BY <2>2, <2>5
<1>25. MaximumKept' /\ maxTotalGainIndex' \in 0..Cardinality(Vertices)
  <2>1. maxTotalGainIndex \in Nat
    BY <1>2 DEF KLTypeOK
  <2>2. /\ interchanges = <<>> => maxTotalGain = INT_MIN /\ maxTotalGainIndex = 0 /\ currentTotalGain = 0
        /\ interchanges # <<>> => /\ maxTotalGainIndex < n
                                  /\ \A f \in Crossing(result) : FirstGain(f) <= maxTotalGain
    BY <1>2, <1>3 DEF PassInv, MaximumKept
  <2>3. maxTotalGainIndex' \in Nat /\ maxTotalGainIndex' < n + 1
    BY <1>1, <1>3, <2>1, <2>2
  <2>4. n + 1 <= Cardinality(Vertices) /\ Cardinality(Vertices) \in Nat
    <3>1. iterationCount <= Cardinality({v \in Vertices : result[v] = 0})
      BY <1>2 DEF PassInv, LockedPairs, getVertexCountForPartition
    <3>2. /\ Cardinality({v \in Vertices : result[v] = 0}) <= Cardinality(Vertices)
          /\ Cardinality({v \in Vertices : result[v] = 0}) \in Nat
          /\ Cardinality(Vertices) \in Nat
      BY <1>2, VerticesFinite, FS_Subset, FS_CardinalityType
    <3> QED BY <1>1, <1>2, <1>3, <3>1, <3>2
  <2>5. ASSUME NEW f \in Crossing(result) PROVE FirstGain(f) <= maxTotalGain'
    <3>1. f \in Edges /\ f[1] \in Vertices /\ f[2] \in Vertices /\ result[f[1]] # result[f[2]]
      BY <1>2, EdgePairs DEF Crossing
    <3>2. FirstGain(f) \in Int
      <4>1. Difference(f[1], result) \in Int /\ Difference(f[2], result) \in Int
        BY <1>2, <3>1, DifferenceAsSum
      <4>2. VertexCommunicationCost(f[1], f[2], devices[result[f[1]] + 1], devices[result[f[2]] + 1]) \in Nat
        BY <1>2, <3>1, ReductionInt
      <4> QED BY <4>1, <4>2 DEF FirstGain
    <3>3. CASE interchanges = <<>>
      <4>1. n = 0
        BY <1>3, <3>3
      <4>2. locked = {}
        BY <1>15, <4>1 DEF Moved
      <4>3. p = result
        BY <1>13, <4>1, ExchangedFacts
      <4>4. costReduction(f) = FirstGain(f)
        <5>1. costDifference[f[1]] = Difference(f[1], p) /\ costDifference[f[2]] = Difference(f[2], p)
          BY <1>2, <1>3, <1>13, <3>1, <4>2 DEF PassInv, DifferencesOfTentative
        <5> QED BY <4>3, <5>1 DEF costReduction, FirstGain
      <4>5. f \in Candidates
        BY <3>1, <4>2 DEF Candidates
      <4>6. FirstGain(f) <= costReduction(e)
        BY <1>4, <4>4, <4>5
      <4>7. currentTotalGain' = costReduction(e)
        BY <1>1, <1>20, <2>2, <3>3
      <4> QED BY <1>20, <1>21, <3>2, <4>6, <4>7
    <3>4. CASE interchanges # <<>>
      BY <1>21, <2>2, <3>2, <3>4
    <3> QED BY <3>3, <3>4
  <2>6. \A f : FirstGain(f)' = FirstGain(f)
    BY <1>1, <1>9 DEF FirstGain
  <2>7. Crossing(result)' = Crossing(result)
    BY <1>1, <1>9 DEF Crossing
  <2>8. MaximumKept'
    BY <1>8, <2>3, <2>5, <2>6, <2>7 DEF MaximumKept
  <2> QED BY <1>3, <2>3, <2>4, <2>8
<1>26. GainsReached'
  <2> SUFFICES ASSUME devices[1] # devices[2] PROVE GainsReached'
    BY <1>1 DEF GainsReached
  <2>0. PICK m \in Nat : m = maxTotalGainIndex'
    BY <1>25
  <2>1. /\ currentTotalGain <= Cut(result) - Cut(p)
        /\ maxTotalGain > 0 => maxTotalGain <= Cut(result) - Cut(Exchanged(maxTotalGainIndex + 1))
    BY <1>2, <1>3, <1>13 DEF PassInv, GainsReached
  <2>2. /\ Cut(result) \in Int /\ Cut(p) \in Int /\ Cut(q) \in Int
        /\ Difference(a, p) \in Int /\ Difference(b, p) \in Int
        /\ DeviceIndependentCost(a, b) \in Nat
    BY <1>2, <1>7, CutAsSum, DifferenceAsSum, CostNat
  <2>3. Cut(q) = Cut(p) - (Difference(a, p) + Difference(b, p) - 2 * DeviceIndependentCost(a, b))
    BY <1>2, <1>7, <1>14, <1>16, <1>19, CutSwapped
  <2>4. costDifference[a] = Difference(a, p) /\ costDifference[b] = Difference(b, p)
    BY <1>2, <1>3, <1>6, <1>7, <1>13 DEF PassInv, DifferencesOfTentative
  <2>5. costReduction(e) <= Difference(a, p) + Difference(b, p) - 2 * DeviceIndependentCost(a, b)
    <3>1. devices[result[a] + 1] # devices[result[b] + 1]
      BY <1>6, <1>10
    <3>2. VertexCommunicationCost(a, b, devices[result[a] + 1], devices[result[b] + 1])
          >= DeviceIndependentCost(a, b)
      BY <1>2, <1>5, <1>6, <1>20, <3>1, CostAcross
    <3>3. costReduction(e) = costDifference[a] + costDifference[b]
            - 2 * VertexCommunicationCost(a, b, devices[result[a] + 1], devices[result[b] + 1])
      BY <1>5 DEF costReduction
    <3> QED BY <1>20, <2>2, <2>4, <3>2, <3>3
  <2>6. currentTotalGain' <= Cut(result) - Cut(q)
    <3>1. Cut(q) <= Cut(p) - costReduction(e)
      BY <1>20, <2>2, <2>3, <2>5
    <3>2. currentTotalGain' = currentTotalGain + costReduction(e)
      BY <1>1
    <3> QED BY <1>20, <1>21, <2>1, <2>2, <3>1, <3>2
  <2>7. maxTotalGain' > 0 => maxTotalGain' <= Cut(result) - Cut(Exchanged(m + 1)')
    <3>1. CASE currentTotalGain' > maxTotalGain
      <4>1. m = n /\ maxTotalGain' = currentTotalGain'
        BY <1>1, <1>3, <1>21, <2>0, <3>1
      <4> QED BY <1>18, <2>6, <4>1
    <3>2. CASE ~ (currentTotalGain' > maxTotalGain)
      <4>1. m = maxTotalGainIndex /\ maxTotalGain' = maxTotalGain
        BY <1>1, <1>21, <2>0, <3>2
      <4> SUFFICES ASSUME maxTotalGain > 0
                   PROVE  maxTotalGain <= Cut(result) - Cut(Exchanged(m + 1)')
        BY <4>1
      <4>2. interchanges # <<>>
        BY <1>2 DEF PassInv, MaximumKept, INT_MIN
      <4>3. m + 1 \in 0..n
        BY <1>2, <1>3, <2>0, <4>1, <4>2 DEF PassInv, MaximumKept
      <4>4. Exchanged(m + 1)' = Exchanged(m + 1)
        BY <1>17, <4>3
      <4> QED BY <2>1, <4>1, <4>4
    <3> QED BY <3>1, <3>2
  <2>8. /\ Cut(result)' = Cut(result) /\ Cut(Exchanged(Len(interchanges)))' = Cut(q)
        /\ Cut(Exchanged(maxTotalGainIndex + 1))' = Cut(Exchanged(m + 1)')
    BY <1>1, <1>8, <1>9, <1>18, <2>0
  <2> QED BY <2>6, <2>7, <2>8 DEF GainsReached
<1>27. PassInv'
  BY <1>1, <1>2, <1>22, <1>23, <1>24, <1>25, <1>26 DEF PassInv
<1>28. GraphTyped' /\ (devices \in DeviceLists)'
  BY <1>1, <1>2, <1>9 DEF GraphTyped, KLInv
<1>29. KLTypeOK'
  <2>1. (locked \subseteq Vertices)'
    BY <1>1, <1>2, <1>5, <1>7, <1>9 DEF KLTypeOK
  <2> QED BY <1>1, <1>2, <1>8, <1>9, <1>24, <1>25, <2>1 DEF KLTypeOK
<1>30. LocalOptimum'
  BY <1>1 DEF LocalOptimum
<1> QED BY <1>21, <1>27, <1>28, <1>29, <1>30 DEF KLInv

(* A pass starts with no interchange made. *)
LEMMA StartPassStep ==
  ASSUME KLInv, StartPass
  PROVE  KLInv'
<1>1. /\ Len(devices) = 2 /\ phase' = "pass"
      /\ iterationCount' = Min({getVertexCountForPartition(0), getVertexCountForPartition(1)})
      /\ costDifference' = [v \in Vertices |-> externalCosts(v, result) - internalCosts(v, result)]
      /\ locked' = {} /\ interchanges' = <<>>
      /\ currentTotalGain' = 0 /\ maxTotalGain' = INT_MIN /\ maxTotalGainIndex' = 0
      /\ units' = units /\ com' = com /\ devices' = devices /\ result' = result
  BY DEF StartPass
<1>2. GraphTyped /\ KLTypeOK /\ result \in [Vertices -> {0, 1}]
  BY DEF KLInv, KLTypeOK
<1>3. /\ Vertices' = Vertices /\ Edges' = Edges
      /\ \A v, r : Difference(v, r)' = Difference(v, r)
      /\ \A r : Cut(r)' = Cut(r)
  BY <1>1, CostsUnchanged
<1>4. \A i \in {0, 1} : getVertexCountForPartition(i) \in Nat
  BY <1>2, VerticesFinite, FS_Subset, FS_CardinalityType DEF getVertexCountForPartition
<1>5. /\ iterationCount' \in Nat
      /\ \A i \in {0, 1} : iterationCount' <= getVertexCountForPartition(i)
      /\ \E i \in {0, 1} : iterationCount' = getVertexCountForPartition(i)
  <2> DEFINE x == getVertexCountForPartition(0)
             y == getVertexCountForPartition(1)
  <2>1. x \in Nat /\ y \in Nat
    BY <1>4
  <2> HIDE DEF x, y
  <2>2. Min({x, y}) <= x /\ Min({x, y}) <= y /\ Min({x, y}) \in {x, y}
    BY <2>1, TwoInts
  <2>3. iterationCount' = Min({x, y})
    BY <1>1 DEF x, y
  <2>4. iterationCount' \in {x, y} /\ iterationCount' <= x /\ iterationCount' <= y
    BY <2>2, <2>3
  <2> QED BY <2>1, <2>4 DEF x, y
<1>6. Moved(0)' = {} /\ Exchanged(0)' = result /\ Len(interchanges)' = 0
  <2>1. Moved(0)' = {}
    BY DEF Moved
  <2>2. Exchanged(0)' = [v \in Vertices |-> IF v \in Moved(0)' THEN 1 - result[v] ELSE result[v]]
    BY <1>1, <1>3 DEF Exchanged, Moved
  <2> QED BY <1>1, <1>2, <2>1, <2>2
<1>7. LockedPairs'
  <2>1. \A i \in {0, 1} : LockedSide(i)' = {}
    BY <1>1 DEF LockedSide
  <2>2. \A i \in {0, 1} : getVertexCountForPartition(i)' = getVertexCountForPartition(i)
    BY <1>1, <1>3 DEF getVertexCountForPartition
  <2>3. \A i \in {0, 1} : Cardinality(LockedSide(i))' = 0
    BY <2>1, FS_EmptySet
  <2>4. locked' = Moved(Len(interchanges))'
    BY <1>1, <1>6
  <2>5. Len(interchanges)' <= iterationCount'
    BY <1>5, <1>6
  <2> QED BY <1>5, <1>6, <2>2, <2>3, <2>4, <2>5 DEF LockedPairs
<1>8. PrefixesBalanced'
  BY <1>1, <1>6 DEF PrefixesBalanced
<1>9. DifferencesOfTentative' /\ costDifference' \in [Vertices -> Int]
  <2>1. \A v \in Vertices : costDifference'[v] = Difference(v, result) /\ Difference(v, result) \in Int
    BY <1>1, <1>2, DifferenceAsSum DEF Difference
  <2> QED BY <1>1, <1>3, <1>6, <2>1 DEF DifferencesOfTentative
<1>10. MaximumKept'
  BY <1>1 DEF MaximumKept
<1>11. GainsReached'
  <2>1. Cut(result) \in Int
    BY <1>2, CutAsSum
  <2>2. Cut(result)' = Cut(result) /\ Cut(Exchanged(Len(interchanges)))' = Cut(result)
    BY <1>1, <1>3, <1>6
  <2> QED BY <1>1, <2>1, <2>2 DEF GainsReached, INT_MIN
<1>12. KLTypeOK'
  <2>1. Cardinality(Vertices) \in Nat
    BY <1>2, VerticesFinite, FS_CardinalityType
  <2> QED BY <1>1, <1>2, <1>3, <1>5, <1>9, <2>1 DEF KLTypeOK
<1>13. GraphTyped' /\ (devices \in DeviceLists)'
  BY <1>1, <1>2, <1>3 DEF GraphTyped, KLInv
<1>14. LocalOptimum'
  BY <1>1 DEF LocalOptimum
<1> QED BY <1>1, <1>7, <1>8, <1>9, <1>10, <1>11, <1>12, <1>13, <1>14 DEF KLInv, PassInv, INT_MIN

(* EndPass applies the best prefix of the interchanges, or none and stops. *)
LEMMA EndPassStep ==
  ASSUME KLInv, EndPass
  PROVE  KLInv'
<1>1. /\ phase = "pass" /\ Len(interchanges) = iterationCount
      /\ IF maxTotalGain > 0 THEN result' = Exchanged(maxTotalGainIndex + 1) /\ phase' = "begin"
                             ELSE result' = result /\ phase' = "done"
      /\ locked' = {}
      /\ units' = units /\ com' = com /\ devices' = devices /\ iterationCount' = iterationCount
      /\ costDifference' = costDifference /\ interchanges' = interchanges
      /\ currentTotalGain' = currentTotalGain /\ maxTotalGain' = maxTotalGain
      /\ maxTotalGainIndex' = maxTotalGainIndex
  BY DEF EndPass, applyInterchanges
<1>2. GraphTyped /\ KLTypeOK /\ PassInv /\ maxTotalGain \in Int
  BY <1>1 DEF KLInv
<1>3. /\ Vertices' = Vertices /\ Edges' = Edges
      /\ \A v, r : Difference(v, r)' = Difference(v, r)
      /\ \A u, v, d1, d2 : VertexCommunicationCost(u, v, d1, d2)' = VertexCommunicationCost(u, v, d1, d2)
  BY <1>1, CostsUnchanged
<1>4. result' \in [Vertices -> {0, 1}]
  BY <1>1, <1>2, ExchangedFacts DEF KLTypeOK
<1>5. KLTypeOK'
  BY <1>1, <1>2, <1>3, <1>4 DEF KLTypeOK
<1>6. GraphTyped' /\ (devices \in DeviceLists)'
  BY <1>1, <1>2, <1>3 DEF GraphTyped, KLInv
<1>7. LocalOptimum'
  <2> SUFFICES ASSUME phase' = "done", NEW f \in Edges, result[f[1]] # result[f[2]]
               PROVE  externalCosts(f[1], result)' - internalCosts(f[1], result)'
                      + externalCosts(f[2], result)' - internalCosts(f[2], result)'
                      <= 2 * VertexCommunicationCost(f[1], f[2], devices[result[f[1]] + 1],
                                                                 devices[result[f[2]] + 1])
    BY <1>1, <1>3 DEF LocalOptimum
  <2>1. maxTotalGain <= 0 /\ result' = result
    BY <1>1, <1>2
  <2>2. interchanges # <<>>
    <3> SUFFICES ASSUME interchanges = <<>> PROVE FALSE
      OBVIOUS
    <3>1. PICK i \in {0, 1} : getVertexCountForPartition(i) = 0
      BY <1>1, <1>2 DEF PassInv, LockedPairs
    <3>2. {v \in Vertices : result[v] = i} = {}
      BY <1>2, <3>1, VerticesFinite, FS_Subset, FS_EmptySet DEF getVertexCountForPartition
    <3>3. f[1] \in Vertices /\ f[2] \in Vertices
      BY <1>2, EdgePairs
    <3> QED BY <1>2, <3>2, <3>3 DEF KLTypeOK
  <2>3. FirstGain(f) <= maxTotalGain
    BY <1>2, <2>2 DEF PassInv, MaximumKept, Crossing
  <2>4. f[1] \in Vertices /\ f[2] \in Vertices
    BY <1>2, EdgePairs
  <2>5. /\ externalCosts(f[1], result) \in Int /\ internalCosts(f[1], result) \in Int
        /\ externalCosts(f[2], result) \in Int /\ internalCosts(f[2], result) \in Int
        /\ VertexCommunicationCost(f[1], f[2], devices[result[f[1]] + 1], devices[result[f[2]] + 1]) \in Nat
    BY <1>2, <2>4, DifferenceAsSum, ReductionInt DEF PassInv
  <2>6. \A v : /\ externalCosts(v, result)' = externalCosts(v, result)
               /\ internalCosts(v, result)' = internalCosts(v, result)
    BY <1>1, <2>1 DEF externalCosts, internalCosts, DeviceIndependentCost, Between, Vertices
  <2> QED BY <1>2, <2>1, <2>3, <2>5, <2>6 DEF FirstGain, Difference
<1> QED BY <1>1, <1>5, <1>6, <1>7 DEF KLInv

(* The invariant holds initially. *)
LEMMA KLInitial == KLInit => KLInv
<1> SUFFICES ASSUME KLInit PROVE KLInv
  OBVIOUS
<1>1. GraphTyped /\ devices \in DeviceLists
  BY CostsAssumption, DeviceListsAssumption DEF KLInit, InitCosts, GraphTyped
<1>2. Cardinality(Vertices) \in Nat
  BY <1>1, VerticesFinite, FS_CardinalityType
<1>3. KLTypeOK
  BY <1>1, <1>2, DeviceListsAssumption DEF KLInit, KLTypeOK, GraphTyped
<1> QED BY <1>1, <1>3 DEF KLInit, KLInv, LocalOptimum, INT_MIN

(* Every step keeps it. *)
LEMMA KLStep == KLInv /\ [KLNext]_klVars => KLInv'
<1> SUFFICES ASSUME KLInv, [KLNext]_klVars PROVE KLInv'
  OBVIOUS
<1>1. CASE RefusePartitionCount
  <2>1. /\ phase' = "done" /\ units' = units /\ com' = com /\ devices' = devices /\ result' = result
        /\ passVars' = passVars /\ Len(devices) # 2
    BY <1>1 DEF RefusePartitionCount
  <2>2. Vertices' = Vertices /\ Edges' = Edges
    BY <2>1, CostsUnchanged
  <2>3. GraphTyped' /\ KLTypeOK'
    BY <2>1, <2>2 DEF KLInv, GraphTyped, KLTypeOK, passVars
  <2>4. LocalOptimum'
    BY <2>1 DEF LocalOptimum
  <2> QED BY <2>1, <2>3, <2>4 DEF KLInv, passVars
<1>2. CASE StartPass
  BY <1>2, StartPassStep
<1>3. CASE Interchange
  BY <1>3, InterchangeStep
<1>4. CASE EndPass
  BY <1>4, EndPassStep
<1>5. CASE UNCHANGED klVars
  <2>1. /\ units' = units /\ com' = com /\ devices' = devices /\ result' = result /\ phase' = phase
        /\ iterationCount' = iterationCount /\ costDifference' = costDifference /\ locked' = locked
        /\ interchanges' = interchanges /\ currentTotalGain' = currentTotalGain
        /\ maxTotalGain' = maxTotalGain /\ maxTotalGainIndex' = maxTotalGainIndex
    BY <1>5 DEF klVars, passVars
  <2>2. /\ Vertices' = Vertices /\ Edges' = Edges
        /\ \A v, r : Difference(v, r)' = Difference(v, r)
        /\ \A r : Cut(r)' = Cut(r)
        /\ \A u, v, d1, d2 : VertexCommunicationCost(u, v, d1, d2)' = VertexCommunicationCost(u, v, d1, d2)
    BY <2>1, CostsUnchanged
  <2>3. \A k : Moved(k)' = Moved(k)
    BY <2>1 DEF Moved
  <2>4. \A k : Exchanged(k)' = Exchanged(k)
    BY <2>1, <2>2 DEF Exchanged
  <2>5. \A i : /\ getVertexCountForPartition(i)' = getVertexCountForPartition(i)
               /\ LockedSide(i)' = LockedSide(i)
    BY <2>1, <2>2 DEF getVertexCountForPartition, LockedSide
  <2>6. \A p, i : SideSize(p, i)' = SideSize(p, i)
    BY <2>2 DEF SideSize
  <2>7. GraphTyped' = GraphTyped /\ KLTypeOK' = KLTypeOK
    BY <2>1, <2>2 DEF GraphTyped, KLTypeOK
  <2>8. LockedPairs' = LockedPairs
    BY <2>1, <2>3, <2>5 DEF LockedPairs
  <2>9. PrefixesBalanced' = PrefixesBalanced
    BY <2>1, <2>4, <2>6 DEF PrefixesBalanced
  <2>10. DifferencesOfTentative' = DifferencesOfTentative
    BY <2>1, <2>2, <2>4 DEF DifferencesOfTentative
  <2>11. MaximumKept' = MaximumKept
    BY <2>1, <2>2 DEF MaximumKept, FirstGain, Crossing
  <2>12. GainsReached' = GainsReached
    BY <2>1, <2>2, <2>4 DEF GainsReached
  <2>13. PassInv' = PassInv
    BY <2>1, <2>8, <2>9, <2>10, <2>11, <2>12 DEF PassInv
  <2>14. LocalOptimum' = LocalOptimum
    <3>1. \A v, r : /\ externalCosts(v, r)' = externalCosts(v, r)
                    /\ internalCosts(v, r)' = internalCosts(v, r)
      BY <2>1, <2>2 DEF externalCosts, internalCosts, DeviceIndependentCost, Between
    <3> QED BY <2>1, <2>2, <3>1 DEF LocalOptimum
  <2> QED BY <2>1, <2>7, <2>13, <2>14 DEF KLInv
<1> QED BY <1>1, <1>2, <1>3, <1>4, <1>5 DEF KLNext

(* The invariant of KernighanLin::apply. *)
LEMMA KLInvariant == KLSpec => []KLInv
BY KLInitial, KLStep, PTL DEF KLSpec
-----------------------------------------------------------------------------
(* findInterchangePair finds a pair in every iteration of a pass, for every *)
(* graph, every partitioning and every order of interchanges: its two       *)
(* uninitialized numbers are always assigned.                               *)
THEOREM PairAlwaysExists == KLSpec => []PairExists
<1>1. KLInv => PairExists
  BY PairRemains DEF PairExists
<1> QED BY <1>1, KLInvariant, PTL

(* The cost differences updated incrementally by updateCostDifferences are  *)
(* those computed afresh for the tentatively interchanged partitioning.     *)
THEOREM DifferencesStayCurrent == KLSpec => []CostDifferencesCurrent
<1>1. KLInv => CostDifferencesCurrent
  BY DEF KLInv, PassInv, DifferencesOfTentative, Difference, CostDifferencesCurrent
<1> QED BY <1>1, KLInvariant, PTL

(* Where KernighanLin::apply ends, no interchange of two vertices is worth  *)
(* anything to findInterchangePair.                                         *)
THEOREM EndsInLocalOptimum == KLSpec => []LocalOptimum
<1>1. KLInv => LocalOptimum
  BY DEF KLInv
<1> QED BY <1>1, KLInvariant, PTL

(* The interchanges EndPass applies keep the sizes of the partitions. *)
LEMMA AppliedBalanced ==
  ASSUME KLInv, EndPass
  PROVE  \A i \in {0, 1} : SideSize(result', i) = SideSize(result, i)
<1>1. CASE maxTotalGain > 0
  <2>1. result' = Exchanged(maxTotalGainIndex + 1) /\ PassInv /\ KLTypeOK
    BY <1>1 DEF EndPass, applyInterchanges, KLInv
  <2>2. maxTotalGainIndex + 1 \in 0..Len(interchanges)
    <3>1. interchanges # <<>>
      BY <1>1, <2>1 DEF PassInv, MaximumKept, INT_MIN
    <3> QED BY <2>1, <3>1 DEF PassInv, MaximumKept, KLTypeOK
  <2> QED BY <2>1, <2>2 DEF PassInv, PrefixesBalanced
<1>2. CASE ~(maxTotalGain > 0)
  BY <1>2 DEF EndPass
<1> QED BY <1>1, <1>2

(* Every change of the result by KernighanLin::apply decreases the          *)
(* communication across the partitions and keeps their sizes.  The devices  *)
(* of the two partitions must differ: between two cores findInterchangePair *)
(* values an interchange by a cost below the device independent one, and    *)
(* the gain it counts may not be there.                                     *)
THEOREM PassesImprove ==
  ASSUME \A d \in DeviceLists : Len(d) = 2 => d[1] # d[2]
  PROVE  KLSpec => ImprovesBalanced
<1>1. KLInv /\ [KLNext]_klVars =>
        [result' # result => /\ Cut(result') < Cut(result)
                             /\ \A i \in {0, 1} :
                                  Cardinality({v \in Vertices : result'[v] = i})
                                  = getVertexCountForPartition(i)]_klVars
  <2> SUFFICES ASSUME KLInv, KLNext, result' # result
               PROVE  /\ Cut(result') < Cut(result)
                      /\ \A i \in {0, 1} :
                           Cardinality({v \in Vertices : result'[v] = i})
                           = getVertexCountForPartition(i)
    BY DEF klVars
  <2>1. EndPass /\ maxTotalGain > 0
    BY DEF KLNext, RefusePartitionCount, StartPass, Interchange, EndPass
  <2>2. /\ result' = Exchanged(maxTotalGainIndex + 1) /\ PassInv /\ KLTypeOK /\ maxTotalGain \in Int
        /\ devices \in DeviceLists /\ GraphTyped
    BY <2>1 DEF EndPass, applyInterchanges, KLInv
  <2>3. devices[1] # devices[2]
    BY <2>2 DEF PassInv
  <2>4. maxTotalGain <= Cut(result) - Cut(result')
    BY <2>1, <2>2, <2>3 DEF PassInv, GainsReached
  <2>5. Cut(result) \in Int /\ Cut(result') \in Int
    BY <2>2, CutAsSum, ExchangedFacts DEF KLTypeOK
  <2>6. Cut(result') < Cut(result)
    BY <2>1, <2>2, <2>4, <2>5
  <2> QED BY <2>1, <2>6, AppliedBalanced DEF SideSize, getVertexCountForPartition
<1> QED BY <1>1, KLInvariant, PTL DEF KLSpec, ImprovesBalanced

(* The abstract method counts as this module does. *)
LEMMA KLCardinality == \A T : KLPM!Cardinality(T) = Cardinality(T)
BY Zenon DEF Cardinality, KLPM!Cardinality

(* Every step of KernighanLin::apply is a step of the abstract method or    *)
(* leaves its variables alone: it answers once, with the number of devices, *)
(* for two of them with partitions of the sizes it started from, and for    *)
(* any other number with the partitioning it was given.                     *)
THEOREM KernighanLinImplementsMethodSafely ==
  KLSpec => KLPM!Init /\ [][KLPM!Apply]_KLPM!vars
<1>1. KLInit => KLPM!Init
  BY DEF KLInit, KLPM!Init
<1>2. KLInv /\ [KLNext]_klVars => [KLPM!Apply]_KLPM!vars
  <2> SUFFICES ASSUME KLInv, [KLNext]_klVars PROVE [KLPM!Apply]_KLPM!vars
    OBVIOUS
  <2>1. devices \in Seq(Devices) /\ Len(devices) \in Nat \ {0} /\ result \in [Vertices -> {0, 1}]
    BY DeviceListsAssumption DEF KLInv, KLTypeOK
  <2>2. CASE RefusePartitionCount
    <3>1. KLPM!Result("k-lin", devices, result, result', Len(devices))
      BY <2>1, <2>2 DEF RefusePartitionCount, KLPM!Result
    <3> QED BY <2>1, <2>2, <3>1 DEF RefusePartitionCount, KLPM!Apply
  <2>3. CASE StartPass
    BY <2>3 DEF StartPass, KLPM!vars
  <2>4. CASE Interchange
    BY <2>4 DEF Interchange, KLPM!vars
  <2>5. CASE EndPass
    <3>1. Len(devices) = 2 /\ devices' = devices /\ phase = "pass"
      BY <2>5 DEF EndPass, KLInv, PassInv
    <3>2. result' \in [Vertices -> {0, 1}]
      BY <2>1, <2>5, ExchangedFacts DEF EndPass, applyInterchanges
    <3>3. \A i \in {0, 1} : KLPM!Size(result', i) = KLPM!Size(result, i)
      BY <2>1, <2>5, <3>2, AppliedBalanced, KLCardinality DEF SideSize, KLPM!Size
    <3>4. KLPM!Used(result') \subseteq {0, 1}
      BY <3>2 DEF KLPM!Used
    <3>5. KLPM!Result("k-lin", devices, result, result', 2)
      BY <2>1, <3>1, <3>2, <3>3, <3>4 DEF KLPM!Result
    <3>6. 2 \in 1..Len(devices)
      BY <3>1
    <3> QED BY <2>5, <3>1, <3>5, <3>6 DEF EndPass, KLPM!Apply
  <2>6. CASE UNCHANGED klVars
    BY <2>6 DEF klVars, KLPM!vars
  <2> QED BY <2>2, <2>3, <2>4, <2>5, <2>6 DEF KLNext
<1> QED BY <1>1, <1>2, KLInvariant, PTL DEF KLSpec
=============================================================================
