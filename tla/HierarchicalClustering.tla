------------------------ MODULE HierarchicalClustering ------------------------
(***************************************************************************)
(* HierarchicalClustering::apply: every vertex of the partitioning graph   *)
(* starts as a cluster, the two closest clusters are merged again and      *)
(* again, and one of the clusterings with few enough clusters becomes the  *)
(* partitioning.                                                           *)
(***************************************************************************)
EXTENDS PartitioningCosts

VARIABLES
  clusters,              \* the clusters, in the order of the vertex list
  comCostSum,            \* the edges of the sparse clustering graph: pair -> costs
  partitioningResults,   \* the partitionings saved so far
  state,                 \* "cluster", "done" or "undefined"
  part,                  \* the partitioning returned
  newPartitionCount      \* the partition count returned

clusteringVars == <<units, com, devices, clusters, comCostSum, partitioningResults, state,
          part, newPartitionCount>>

alwaysUseMaxPartitions == \E p \in DOMAIN devices : devices[p] = "xc7z020-1"
partitionCountMax == Len(devices)

Clusters == {clusters[k] : k \in DOMAIN clusters}
Pairs(S) == {{c, d} : c, d \in S} \ {{c} : c \in S}

(* initCloseness: the costs between the members of two clusters. *)
initCloseness(pair) ==
  SumFunction([e \in {f \in Edges : \E c \in pair : \E d \in pair \ {c} : f[1] \in c /\ f[2] \in d}
                 |-> DeviceIndependentCost(e[1], e[2])])

ClusteringInit ==
  /\ InitCosts
  /\ devices \in DeviceLists
  /\ clusters = [v \in Vertices |-> {v}]
  /\ comCostSum =
       [pair \in {q \in Pairs(Clusters) : initCloseness(q) > 0} |-> initCloseness(pair)]
  /\ partitioningResults = <<>>
  /\ state = "cluster"
  /\ part = [v \in Vertices |-> 0]
  /\ newPartitionCount = 0
-----------------------------------------------------------------------------
pSizeProduct(pair) ==
  LET c == CHOOSE x \in pair : TRUE
      d == CHOOSE x \in pair : x # c
  IN Cardinality(c) * Cardinality(d)

(* operator>: the closeness is the communication costs divided by the size *)
(* product; of two equal ones, the smaller size product is closer.         *)
Closer(sums, p, q) ==
  LET left == sums[p] * pSizeProduct(q)
      right == sums[q] * pSizeProduct(p)
  IN left > right \/ (left = right /\ pSizeProduct(p) < pSizeProduct(q))

(* The edges getPairMaxCloseness looks at: all pairs, if no edge is left. *)
CandidateSums ==
  IF DOMAIN comCostSum = {} THEN [pair \in Pairs(Clusters) |-> initCloseness(pair)]
                            ELSE comCostSum

(* The closest pairs; which one is found first depends on the order of the *)
(* edge list, so any of them may be.                                       *)
getPairMaxCloseness(sums) ==
  {p \in DOMAIN sums : \A q \in DOMAIN sums : ~ Closer(sums, q, p)}

(* Only the edge to the first of the merged clusters taken over. *)
updateEdgesOfOne(sums, pair) ==
  LET merged == UNION pair
      kept == {q \in DOMAIN sums : q \cap pair = {}}
      one == CHOOSE c \in pair : TRUE
      neighbours == {c \in Clusters \ pair : {c, one} \in DOMAIN sums}
  IN [q \in kept \union {{c, merged} : c \in neighbours} |->
        IF q \in kept THEN sums[q] ELSE sums[{CHOOSE c \in q : c # merged, one}]]

(* updateEdges, and the edges removeOutdatedVertices clears: an edge to one *)
(* of the merged clusters becomes an edge to the new one, two become their  *)
(* sum.                                                                     *)
updateEdges(sums, pair) ==
  LET merged == UNION pair
      costTo(c) == SumFunction([d \in pair |-> IF {c, d} \in DOMAIN sums THEN sums[{c, d}] ELSE 0])
      kept == {q \in DOMAIN sums : q \cap pair = {}}
      neighbours == {c \in Clusters \ pair : \E d \in pair : {c, d} \in DOMAIN sums}
  IN [q \in kept \union {{c, merged} : c \in neighbours} |->
        IF q \in kept THEN sums[q] ELSE costTo(CHOOSE c \in q : c # merged)]

(* The vertices behind the removed one move up. *)
remove_vertex(cs, k) == [j \in 1..(Len(cs) - 1) |-> cs[IF j < k THEN j ELSE j + 1]]

(* mergeVertices, which adds the new vertex, and removeOutdatedVertices. *)
mergeVertices(pair) ==
  LET gone == {k \in DOMAIN clusters : clusters[k] \in pair}
  IN remove_vertex(remove_vertex(Append(clusters, UNION pair), Max(gone)), Min(gone))

applyClusteringOnPartitioningGraph(cs) ==
  [v \in Vertices |-> (CHOOSE k \in DOMAIN cs : v \in cs[k]) - 1]

MoreClusters == Len(clusters) > IF alwaysUseMaxPartitions THEN partitionCountMax ELSE 1

Merge ==
  /\ state = "cluster" /\ MoreClusters
  /\ \E sums \in {CandidateSums} : \E pair \in getPairMaxCloseness(sums) :
       /\ clusters' = mergeVertices(pair)
       /\ comCostSum' = updateEdges(sums, pair)
  /\ partitioningResults' =
       IF Len(clusters') <= partitionCountMax
       THEN Append(partitioningResults, applyClusteringOnPartitioningGraph(clusters'))
       ELSE partitioningResults
  /\ UNCHANGED <<units, com, devices, state, part, newPartitionCount>>

(* getFinalResult: the last of the results with the least critical path. *)
finalIndex ==
  LET costs == {<<getCriticalPathCost(partitioningResults[k], devices), k>> :
                  k \in DOMAIN partitioningResults}
  IN CHOOSE k \in DOMAIN partitioningResults :
       \E c \in costs : /\ c[2] = k
                        /\ \A d \in costs : c[1] < d[1] \/ (c[1] = d[1] /\ k >= d[2])

(* The partition count not reduced. *)
getFinalResultMaxCount ==
  \E k \in {IF alwaysUseMaxPartitions THEN Len(partitioningResults) ELSE finalIndex} :
    /\ part' = partitioningResults[k]
    /\ newPartitionCount' = partitionCountMax

getFinalResult ==
  \E k \in {IF alwaysUseMaxPartitions THEN Len(partitioningResults) ELSE finalIndex} :
    /\ part' = partitioningResults[k]
    /\ newPartitionCount' = IF alwaysUseMaxPartitions THEN partitionCountMax
                                                      ELSE partitionCountMax - (k - 1)

(* Without a saved result the code dereferences the end of an empty vector. *)
Finish ==
  /\ state = "cluster" /\ ~ MoreClusters
  /\ IF partitioningResults = <<>>
     THEN state' = "undefined" /\ UNCHANGED <<part, newPartitionCount>>
     ELSE state' = "done" /\ getFinalResult
  /\ UNCHANGED <<units, com, devices, clusters, comCostSum, partitioningResults>>

ClusteringNext == Merge \/ Finish

ClusteringSpec ==
  ClusteringInit /\ [][ClusteringNext]_clusteringVars /\ WF_clusteringVars(ClusteringNext)
-----------------------------------------------------------------------------
ClusteringPM == INSTANCE PartitioningMethod
        WITH Method <- "clustering", returned <- newPartitionCount

ClusteringTypeOK ==
  /\ devices \in Seq(Devices)
  /\ clusters \in Seq(SUBSET Vertices)
  /\ DOMAIN comCostSum \subseteq Pairs(Clusters)
  /\ \A pair \in DOMAIN comCostSum : comCostSum[pair] \in Nat
  /\ state \in {"cluster", "done", "undefined"}
  /\ part \in [Vertices -> 0..(Cardinality(Vertices) - 1)]
  /\ newPartitionCount \in 0..partitionCountMax

(* The costs updateEdges carries along are those between the members of the *)
(* two clusters, after any number of merges, and an edge is missing only    *)
(* where there is nothing to communicate; no vertex of the partitioning     *)
(* graph is lost or doubled on the way.                                     *)
ClosenessCurrent ==
  /\ ClusteringTypeOK
  /\ UNION Clusters = Vertices
  /\ \A j, k \in DOMAIN clusters : j # k => clusters[j] \cap clusters[k] = {}
  /\ \A pair \in Pairs(Clusters) :
       IF pair \in DOMAIN comCostSum THEN comCostSum[pair] = initCloseness(pair)
                                     ELSE initCloseness(pair) = 0

UsedPartitions(p) == {p[v] : v \in Vertices}

(* The critical path is not shorter than the work of a processor's          *)
(* partition behind its first vertex, which getCriticalPathCost schedules,  *)
(* nor than a communication between two partitions and the work of the      *)
(* vertex that waits for it.  Nothing is said of the work of an FPGA's      *)
(* partition: the code schedules it too, and its comment says it should not.*)
CriticalPathCoversWork ==
  state = "done" =>
    LET time(v) == getExecutionTime(v, devices[part[v] + 1])
        transfer(e) == calcEdgeCost(com[e], devices[part[e[1]] + 1], devices[part[e[2]] + 1])
        members(i) == {v \in Vertices : part[v] = i}
    IN \A cost \in {getCriticalPathCost(part, devices)} :
         /\ \A i \in UsedPartitions(part) :
              devices[i + 1] = "Cortex-A9" =>
                cost >= SumFunction([v \in members(i) \ {Min(members(i))} |-> time(v)])
         /\ \A e \in Edges :
              Linked(e[1], e[2]) /\ part[e[1]] # part[e[2]] =>
                cost >= transfer(e) + time(e[2])

(* The clustering ends with a saved result that numbers its partitions      *)
(* without gaps and has a device for each of them, and the count it returns *)
(* from an index is that of these partitions, or larger by as many as there *)
(* are devices too many for the vertices.                                   *)
ClusteringImplementsMethod == ClusteringPM!Spec
=============================================================================
