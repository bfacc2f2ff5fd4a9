--------------------------- MODULE PartitioningCosts ---------------------------
(***************************************************************************)
(* The partitioning graph and the devices as the methods see them, and the *)
(* costs PartitioningGraph computes for them.  Vertices are numbered from  *)
(* 1 in the order of the function; addEdges only adds edges from a vertex  *)
(* to a later one, because no instruction depends on a later one.          *)
(***************************************************************************)
EXTENDS HardwareInformation, Sequences, FiniteSetsExt

CONSTANTS
  UnitLists,     \* what the vertices may hold: sequences of opcode lists
  ComOperations, \* what an edge may carry: counts [data, order], both 0: no edge
  DeviceLists    \* the possible targetDevices

ASSUME CostsAssumption ==
  /\ UnitLists \subseteq Seq(Seq(DOMAIN cortexA9))
  /\ ComOperations \subseteq [data : Nat, order : Nat]

ASSUME DeviceListsAssumption == DeviceLists \subseteq Seq(Devices) \ {<<>>}

VARIABLES
  units,   \* the opcodes of every vertex
  com,     \* the communication operations of every edge
  devices  \* the device of every partition

Vertices == DOMAIN units
Edges == {e \in Vertices \X Vertices : e[1] < e[2]}

InitCosts ==
  /\ units \in UnitLists
  /\ com \in [Edges -> ComOperations]

Between(v1, v2) == IF v1 < v2 THEN com[<<v1, v2>>] ELSE com[<<v2, v1>>]
Linked(u, v) == <<u, v>> \in Edges /\ com[<<u, v>>].data + com[<<u, v>>].order > 0
-----------------------------------------------------------------------------
calcEdgeCost(ops, source, target) ==
  ops.data * getCommunicationCost(source, target, "DataDependency")
  + ops.order * getCommunicationCost(source, target, "OrderDependency")

calcDeviceIndependentEdgeCost(ops) ==
  ops.data * getDeviceIndependentCommunicationCost("DataDependency")
  + ops.order * getDeviceIndependentCommunicationCost("OrderDependency")

VertexCommunicationCost(v1, v2, source, target) ==
  calcEdgeCost(Between(v1, v2), source, target)

DeviceIndependentCost(v1, v2) == calcDeviceIndependentEdgeCost(Between(v1, v2))

internalCosts(v, part) ==
  SumFunction([u \in {w \in Vertices \ {v} : part[w] = part[v]} |-> DeviceIndependentCost(u, v)])
externalCosts(v, part) ==
  SumFunction([u \in {w \in Vertices : part[w] # part[v]} |-> DeviceIndependentCost(u, v)])

getExecutionTime(v, device) ==
  SumFunction([k \in DOMAIN units[v] |-> getCycleCount(device, units[v][k])])
-----------------------------------------------------------------------------
(* getCriticalPathCost *)

(* Consecutive vertices of one partition are scheduled one after the other, *)
(* whatever its device is.                                                  *)
Scheduled(u, v, part) ==
  /\ u < v /\ part[u] = part[v]
  /\ \A w \in (u + 1)..(v - 1) : part[w] # part[u]

(* The schedule of the partitions forgotten. *)
PathEdgeUnscheduled(u, v, part) == Linked(u, v)

PathEdge(u, v, part) == Linked(u, v) \/ Scheduled(u, v, part)

(* The weight of an edge: the communication, if it crosses partitions, and *)
(* the execution of the target vertex.                                     *)
edgeWeight(u, v, part, devs) ==
  getExecutionTime(v, devs[part[v] + 1])
  + IF part[u] = part[v] THEN 0
    ELSE calcEdgeCost(com[<<u, v>>], devs[part[u] + 1], devs[part[v] + 1])

(* The paths, as sets of vertices: each is linked to the next one. *)
Steps(P) == {e \in P \X P : e[1] < e[2] /\ P \cap ((e[1] + 1)..(e[2] - 1)) = {}}
Paths(part) == {P \in SUBSET Vertices : \A e \in Steps(P) : PathEdge(e[1], e[2], part)}

(* Bellman-Ford from distance 0 everywhere, in a graph without cycles: the *)
(* least sum of the negated weights of a path.                             *)
getCriticalPathCost(part, devs) ==
  - Min({SumFunction([e \in Steps(P) |-> - edgeWeight(e[1], e[2], part, devs)]) :
           P \in Paths(part)})
=============================================================================
