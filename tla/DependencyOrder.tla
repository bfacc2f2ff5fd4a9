--------------------------- MODULE DependencyOrder ---------------------------
(***************************************************************************)
(* What the partitioned form of a function promises: during every call     *)
(* each instruction is executed exactly once and only after the            *)
(* instructions it depends on, and the call returns only when every        *)
(* instruction was executed.  The sequential function is one behaviour of  *)
(* this specification; a partitioned function may take any other one.      *)
(***************************************************************************)
VARIABLES
  instrs,    \* the instructions of the function being called
  deps,      \* pairs <<j, i>>: instruction i depends on instruction j
  executed   \* the instructions executed by the current call

vars == <<instrs, deps, executed>>

Init == executed = {}

Execute(i) ==
  /\ i \in instrs \ executed
  /\ \A j \in instrs : <<j, i>> \in deps => j \in executed
  /\ executed' = executed \union {i}
  /\ UNCHANGED <<instrs, deps>>

Return ==
  /\ executed = instrs
  /\ executed' = {}
  /\ UNCHANGED <<instrs, deps>>

Next == (\E i \in instrs : Execute(i)) \/ Return

Spec == Init /\ [][Next]_vars
=============================================================================
