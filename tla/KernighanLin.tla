----------------------------- MODULE KernighanLin -----------------------------
(***************************************************************************)
(* KernighanLin::apply: passes over a bi-partitioning.  A pass tentatively *)
(* interchanges pairs of vertices, best pair first, and then applies the   *)
(* first of them, up to where the total gain was largest, if it is a gain. *)
(***************************************************************************)
EXTENDS PartitioningCosts

INT_MIN == -2147483647 - 1   \* std::numeric_limits<int>::min()

VARIABLES
  result,              \* currentResult: the partition of every vertex
  phase,               \* where apply is: "begin", "pass" or "done"
  iterationCount,      \* interchanges of this pass
  costDifference,      \* external minus internal costs of every vertex
  locked,              \* the vertices interchanged in this pass
  interchanges,        \* the pairs found so far in this pass
  currentTotalGain, maxTotalGain, maxTotalGainIndex

passVars == <<iterationCount, costDifference, locked, interchanges,
              currentTotalGain, maxTotalGain, maxTotalGainIndex>>
klVars == <<units, com, devices, result, phase, passVars>>

(* The starting point: balancedBiPartitioning, or the result of another    *)
(* method that ran before.                                                 *)
KLInit ==
  /\ InitCosts
  /\ devices \in DeviceLists
  /\ result \in [Vertices -> {0, 1}]
  /\ phase = "begin"
  /\ iterationCount = 0
  /\ costDifference = [v \in Vertices |-> 0]
  /\ locked = {}
  /\ interchanges = <<>>
  /\ currentTotalGain = 0 /\ maxTotalGain = INT_MIN /\ maxTotalGainIndex = 0

(* "currently this algorithm is only implemented for bi-partitioning" *)
RefusePartitionCount ==
  /\ phase = "begin" /\ Len(devices) # 2
  /\ phase' = "done"
  /\ UNCHANGED <<units, com, devices, result, passVars>>

(* All vertices counted for every partition. *)
getVertexCount(i) == Cardinality(Vertices)

getVertexCountForPartition(i) == Cardinality({v \in Vertices : result[v] = i})

StartPass ==
  /\ phase = "begin" /\ Len(devices) = 2
  /\ phase' = "pass"
  /\ iterationCount' = Min({getVertexCountForPartition(0), getVertexCountForPartition(1)})
  /\ costDifference' = [v \in Vertices |-> externalCosts(v, result) - internalCosts(v, result)]
  /\ locked' = {}
  /\ interchanges' = <<>>
  /\ currentTotalGain' = 0 /\ maxTotalGain' = INT_MIN /\ maxTotalGainIndex' = 0
  /\ UNCHANGED <<units, com, devices, result>>
-----------------------------------------------------------------------------
Candidates ==
  {e \in Edges : /\ e[1] \notin locked /\ e[2] \notin locked
                 /\ result[e[1]] # result[e[2]]}

costReduction(e) ==
  costDifference[e[1]] + costDifference[e[2]]
  - 2 * VertexCommunicationCost(e[1], e[2], devices[result[e[1]] + 1], devices[result[e[2]] + 1])

ScannedBefore(e, f) == e[1] < f[1] \/ (e[1] = f[1] /\ e[2] < f[2])

(* The first pair scanned among those of the greatest cost reduction. *)
findInterchangePair ==
  LET greatest == Max({costReduction(f) : f \in Candidates})
      best == {e \in Candidates : costReduction(e) = greatest}
  IN CHOOSE e \in best : \A f \in best \ {e} : ScannedBefore(e, f)

(* The update with a factor 2 forgotten. *)
updateCostDifferencesOnce(e) ==
  [v \in Vertices |->
     LET cost(w) == DeviceIndependentCost(v, w) IN
     IF v \in locked \union {e[1], e[2]} THEN costDifference[v]
     ELSE IF result[v] = result[e[1]]
     THEN costDifference[v] + cost(e[1]) - cost(e[2])
     ELSE costDifference[v] + cost(e[2]) - cost(e[1])]

updateCostDifferences(e) ==
  [v \in Vertices |->
     LET cost(w) == DeviceIndependentCost(v, w) IN
     IF v \in locked \union {e[1], e[2]} THEN costDifference[v]
     ELSE IF result[v] = result[e[1]]
     THEN costDifference[v] + 2 * cost(e[1]) - 2 * cost(e[2])
     ELSE costDifference[v] + 2 * cost(e[2]) - 2 * cost(e[1])]

Interchange ==
  /\ phase = "pass" /\ Len(interchanges) < iterationCount
  /\ \E e \in {findInterchangePair} :
        /\ interchanges' = Append(interchanges, e)
        /\ currentTotalGain' = currentTotalGain + costReduction(e)
        /\ maxTotalGain' = Max({currentTotalGain', maxTotalGain})
        /\ maxTotalGainIndex' = IF currentTotalGain' > maxTotalGain THEN Len(interchanges)
                                                                     ELSE maxTotalGainIndex
        /\ locked' = locked \union {e[1], e[2]}
        /\ costDifference' = updateCostDifferences(e)
  /\ UNCHANGED <<units, com, devices, result, phase, iterationCount>>

(* The partition after the first k interchanges. *)
Exchanged(k) ==
  LET moved == UNION {{interchanges[j][1], interchanges[j][2]} : j \in 1..k}
  IN [v \in Vertices |-> IF v \in moved THEN 1 - result[v] ELSE result[v]]

(* The interchanges applied without a temporary. *)
applyWithoutTemporary ==
  LET moved == {interchanges[j][1] : j \in 1..(maxTotalGainIndex + 1)}
  IN result' = [v \in Vertices |-> IF v \in moved THEN 1 - result[v] ELSE result[v]]

applyInterchanges == result' = Exchanged(maxTotalGainIndex + 1)

(* The pass given up after one that improved the result. *)
EndAfterFirstPass ==
  /\ phase = "pass" /\ Len(interchanges) = iterationCount
  /\ IF maxTotalGain > 0 THEN applyInterchanges ELSE UNCHANGED result
  /\ phase' = "done"
  /\ locked' = {}
  /\ UNCHANGED <<units, com, devices, iterationCount, costDifference, interchanges,
                 currentTotalGain, maxTotalGain, maxTotalGainIndex>>

EndPass ==
  /\ phase = "pass" /\ Len(interchanges) = iterationCount
  /\ IF maxTotalGain > 0 THEN applyInterchanges /\ phase' = "begin"
                         ELSE UNCHANGED result /\ phase' = "done"
  /\ locked' = {}
  /\ UNCHANGED <<units, com, devices, iterationCount, costDifference, interchanges,
                 currentTotalGain, maxTotalGain, maxTotalGainIndex>>

KLNext == RefusePartitionCount \/ StartPass \/ Interchange \/ EndPass

(* The pass is one thread of the compiler, which keeps running. *)
KLSpec == KLInit /\ [][KLNext]_klVars /\ WF_klVars(KLNext)
-----------------------------------------------------------------------------
KLPM == INSTANCE PartitioningMethod
        WITH Method <- "k-lin", part <- result,
             returned <- IF phase = "done" THEN Len(devices) ELSE 0

KLTypeOK ==
  /\ devices \in Seq(Devices)
  /\ result \in [Vertices -> {0, 1}]
  /\ phase \in {"begin", "pass", "done"}
  /\ iterationCount \in Nat
  /\ costDifference \in [Vertices -> Int]
  /\ locked \subseteq Vertices
  /\ interchanges \in Seq(Edges)
  /\ maxTotalGainIndex \in 0..Cardinality(Vertices)

(* findInterchangePair always finds a pair: the two numbers it returns are  *)
(* not left uninitialized in any iteration of a pass, whatever the sizes of *)
(* the two partitions and whatever was locked before.                       *)
PairExists ==
  phase = "pass" /\ Len(interchanges) < iterationCount => Candidates # {}

(* The cost differences that updateCostDifferences maintains incrementally  *)
(* are those of the tentatively interchanged partitioning, for every vertex *)
(* still to be considered, although currentResult itself is not changed     *)
(* during the pass.                                                         *)
CostDifferencesCurrent ==
  /\ KLTypeOK
  /\ phase = "pass" =>
    LET tentative == Exchanged(Len(interchanges))
    IN \A v \in Vertices \ locked :
         costDifference[v] = externalCosts(v, tentative) - internalCosts(v, tentative)

Cut(p) ==
  SumFunction([e \in {f \in Edges : p[f[1]] # p[f[2]]} |-> DeviceIndependentCost(e[1], e[2])])

(* A pass only replaces the result by a better one: the communication       *)
(* between the partitions decreases, and the sizes of the two partitions    *)
(* stay what they were.                                                     *)
ImprovesBalanced ==
  [][result' # result => /\ Cut(result') < Cut(result)
                         /\ \A i \in {0, 1} :
                              Cardinality({v \in Vertices : result'[v] = i})
                              = getVertexCountForPartition(i)]_klVars

(* The result cannot be improved by interchanging two vertices, as          *)
(* findInterchangePair values the interchange.                              *)
LocalOptimum ==
  phase = "done" /\ Len(devices) = 2 =>
    \A e \in Edges : result[e[1]] # result[e[2]] =>
      externalCosts(e[1], result) - internalCosts(e[1], result)
      + externalCosts(e[2], result) - internalCosts(e[2], result)
      <= 2 * VertexCommunicationCost(e[1], e[2], devices[result[e[1]] + 1],
                                                 devices[result[e[2]] + 1])

(* "perform iteration until there is no improvement": the iteration ends,   *)
(* and the pass gets a partitioning whose two parts have the sizes of the   *)
(* starting point, however many interchanges were tried and taken back.     *)
KLImplementsMethod == KLPM!Spec
=============================================================================
