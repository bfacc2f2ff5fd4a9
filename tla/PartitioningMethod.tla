-------------------------- MODULE PartitioningMethod --------------------------
(***************************************************************************)
(* AbstractPartitioningMethod, as runOnModule sees it: apply(pGraph,       *)
(* targetDevices) replaces the partitioning of the graph and returns a     *)
(* number of partitions.  The detailed specifications of the methods       *)
(* implement this one.                                                     *)
(***************************************************************************)
EXTENDS MethodResult

CONSTANT Method   \* "random", "clustering", "sa" or "k-lin"

VARIABLES
  devices,   \* targetDevices
  part,      \* the partition of every vertex
  returned   \* the count apply has returned, 0 before

vars == <<devices, part, returned>>

Init == returned = 0

(* The graph changes in steps; one of them returns. *)
Apply ==
  /\ returned = 0
  /\ \E n \in 1..Len(devices) : /\ Result(Method, devices, part, part', n)
                                /\ returned' \in {0, n}
  /\ UNCHANGED devices

(* apply ends, which is all the caller knows about its time. *)
Spec == Init /\ [][Apply]_vars /\ <>(returned # 0)
=============================================================================
