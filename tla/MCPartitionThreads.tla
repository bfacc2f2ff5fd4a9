------------------------- MODULE MCPartitionThreads -------------------------
(***************************************************************************)
(* PartitionThreads for every dependency relation over N single-statement  *)
(* vertices and every way to spread them over the partitions.              *)
(***************************************************************************)
EXTENDS PartitionThreads, SequencesExt

CONSTANT N   \* number of vertices, one instruction each

MCPartitions == 0..2

Pairs == {ji \in (1..N) \X (1..N) : ji[1] < ji[2]}

(* Half of the dependencies use mailboxes, the others semaphores. *)
CallOf(ji, mboxOp, semOp, i) ==
  [op |-> IF (ji[1] + ji[2]) % 2 = 1 THEN mboxOp ELSE semOp,
   n |-> N * ji[1] + ji[2], v |-> i]

MCCode(part, deps) ==
  LET cross == {ji \in deps : part[ji[1]] # part[ji[2]]}
      before(i) == SelectSeq([j \in 1..N |-> <<j, i>>], LAMBDA ji : ji \in cross)
      after(i) == SelectSeq([k \in 1..N |-> <<i, N + 1 - k>>],
                            LAMBDA ji : ji \in cross)
      vertex(i) ==
        [k \in DOMAIN before(i) |-> CallOf(before(i)[k], "get", "wait", i)]
        \o <<[op |-> "exec", n |-> i, v |-> i]>>
        \o [k \in DOMAIN after(i) |-> CallOf(after(i)[k], "put", "post", i)]
  IN [list |-> [p \in Partitions |->
                  FlattenSeq([i \in 1..N |->
                    IF part[i] = p THEN vertex(i) ELSE <<>>])],
      deps |-> deps]

(* The threads are interchangeable: number the partitions by first use. *)
Assignments ==
  {part \in [1..N -> Partitions] :
     \A i \in 1..N : \A p \in 0..(part[i] - 1) :
       \E j \in 1..(i - 1) : part[j] = p}

MCCodes ==
  {MCCode(part, deps) : part \in Assignments, deps \in SUBSET Pairs}
=============================================================================
