----------------------------- MODULE MethodResult -----------------------------
(***************************************************************************)
(* What the caller of AbstractPartitioningMethod::apply can rely on.  It   *)
(* differs between the methods: some may leave a partition empty, some     *)
(* need a starting point, one needs more vertices than devices.            *)
(***************************************************************************)
EXTENDS Naturals, Sequences, FiniteSets, FiniteSetsExt

Used(p) == {p[v] : v \in DOMAIN p}
Size(p, i) == Cardinality({v \in DOMAIN p : p[v] = i})
UsesFPGA(devs) == \E i \in DOMAIN devs : devs[i] = "xc7z020-1"

(* The count HierarchicalClustering returns is taken from an index and      *)
(* exceeds the partitions in use where the graph has no more vertices than  *)
(* there are devices.                                                       *)
ClusteringCount(devs, q) ==
  Cardinality(Used(q)) + Max({0, Len(devs) + 1 - Cardinality(DOMAIN q)})

(* apply may turn partitioning p into q and return n. *)
Result(method, devs, p, q, n) ==
  /\ DOMAIN q = DOMAIN p
  /\ method = "random" => n = Len(devs) /\ Used(q) \subseteq 0..(n - 1)
  /\ method = "sa" => n = Len(devs) /\ n > 1 /\ Used(q) \subseteq 0..(n - 1)
  /\ method = "clustering" =>
       /\ Used(q) = 0..(Cardinality(Used(q)) - 1)
       /\ Cardinality(Used(q)) <= Len(devs)
       /\ UsesFPGA(devs) => Cardinality(Used(q)) = Len(devs)
       /\ n = ClusteringCount(devs, q)
  /\ method = "k-lin" =>
       /\ n = Len(devs)
       /\ IF n = 2 THEN Used(q) \subseteq {0, 1} /\ \A i \in {0, 1} : Size(q, i) = Size(p, i)
                   ELSE q = p
=============================================================================
