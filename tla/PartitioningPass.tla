--------------------------- MODULE PartitioningPass ---------------------------
(***************************************************************************)
(* Partitioning::runOnModule over all target functions: the partitioning   *)
(* methods run one after the other on the graph of each function, and      *)
(* savePartitioning numbers the threads and the parameter mailboxes and    *)
(* writes the code of every partition, for a core or for the FPGA.         *)
(*                                                                         *)
(* A method is what PartitioningMethod says of it.  handleDependencies is  *)
(* the matter of module Partitioning.                                      *)
(***************************************************************************)
EXTENDS MethodResult, SequencesExt

CONSTANTS
  FunctionOrder,   \* the functions of the module, in the order of std::map
  VertexCount,     \* the vertices of the graph of every function
  Options          \* the command lines: functions, methods, devices

Functions == {FunctionOrder[k] : k \in DOMAIN FunctionOrder}
Vertices(f) == 1..VertexCount[f]

(* split makes at least one word of an option, an empty one if need be. *)
ASSUME PassAssumption ==
  /\ FunctionOrder \in Seq(STRING)
  /\ VertexCount \in [Functions -> Nat]
  /\ \A o \in Options :
       /\ o.functions \in Seq(STRING) \ {<< >>}
       /\ o.methods \in Seq(STRING) \ {<< >>}
       /\ o.devices \in Seq(STRING) \ {<< >>}

VARIABLES
  options,               \* the command line
  phase,                 \* "start", "methods", "save", "saved"; "thrown", "undefined"
  funcIt, methodIt,      \* positions in the functions and the methods
  graphs,                \* the partition of every vertex, of the functions done so far
  partitioningNumbers,   \* the number of partitions, of the functions done so far
  output                 \* what savePartitioning has written

vars == <<options, phase, funcIt, methodIt, graphs, partitioningNumbers, output>>

func == options.functions[funcIt]
partitionCount == Len(options.devices)

NoOutput ==
  [threadCount |-> 0, paramCount |-> 0, threadNumber |-> 0, putParamStart |-> 0,
   hwThreadCount |-> 0, threads |-> << >>, paramInits |-> << >>, paramStart |-> << >>,
   bodies |-> << >>, calculation |-> << >>]

Init ==
  /\ options \in Options
  /\ phase = "start"
  /\ funcIt = 1 /\ methodIt = 1
  /\ graphs = << >> /\ partitioningNumbers = << >>
  /\ output = NoOutput

(* f extended or overwritten at x, as operator[] of std::map does. *)
Put(f, x, y) == [z \in DOMAIN f \union {x} |-> IF z = x THEN y ELSE f[z]]
-----------------------------------------------------------------------------
(* A vertex is created in partition 0. *)
NewGraph == [v \in Vertices(func) |-> 0]

(* balancedBiPartitioning: the first half of a shuffled list into 0. *)
BalancedBiPartitionings ==
  {p \in [Vertices(func) -> {0, 1}] :
     Cardinality({v \in Vertices(func) : p[v] = 0}) = VertexCount[func] \div 2}

RandomPartitionings == [Vertices(func) -> 0..(partitionCount - 1)]

(* The partitioning an unprepared graph has, taken as a start. *)
StartingPointsUnprepared ==
  IF options.methods[1] = "sa" THEN RandomPartitionings ELSE {NewGraph}

StartingPoints ==
  CASE options.methods[1] = "k-lin" -> BalancedBiPartitionings
    [] options.methods[1] = "sa" -> RandomPartitionings
    [] OTHER -> {NewGraph}

(* The graph of the next function, with the partitioning an iterative       *)
(* method starts from.                                                      *)
StartFunction ==
  /\ phase = "start" /\ funcIt <= Len(options.functions)
  /\ func \in Functions
  /\ \E p \in StartingPoints : graphs' = Put(graphs, func, p)
  /\ phase' = "methods" /\ methodIt' = 1
  /\ UNCHANGED <<options, funcIt, partitioningNumbers, output>>

(* "ERROR: Function not found!": the functions before it are still saved. *)
SkipRemainingFunctions ==
  /\ phase = "start" /\ funcIt <= Len(options.functions)
  /\ func \notin Functions
  /\ funcIt' = Len(options.functions) + 1
  /\ UNCHANGED <<options, phase, methodIt, graphs, partitioningNumbers, output>>

ApplyNop ==
  /\ options.methods[methodIt] = "nop"
  /\ partitioningNumbers' = Put(partitioningNumbers, func, 1)
  /\ UNCHANGED <<graphs, phase>>

(* HierarchicalClustering saves a result after a merge only, and with an    *)
(* FPGA merges only while there are more clusters than devices.             *)
ClusteringHasResult ==
  VertexCount[func] > IF UsesFPGA(options.devices) THEN partitionCount ELSE 1

ApplyClusteringInVain ==
  /\ options.methods[methodIt] = "clustering" /\ ~ ClusteringHasResult
  /\ phase' = "undefined"
  /\ UNCHANGED <<graphs, partitioningNumbers>>

ApplyMethod ==
  /\ options.methods[methodIt] \in {"random", "clustering", "sa", "k-lin"}
  /\ options.methods[methodIt] = "clustering" => ClusteringHasResult
  /\ \E q \in [Vertices(func) -> 0..(Max({partitionCount, 2}) - 1)], n \in 1..partitionCount :
       /\ Result(options.methods[methodIt], options.devices, graphs[func], q, n)
       /\ graphs' = Put(graphs, func, q)
       /\ partitioningNumbers' = Put(partitioningNumbers, func, n)
  /\ UNCHANGED phase

ThrowInvalidMethod ==
  /\ options.methods[methodIt] \notin {"nop", "random", "clustering", "sa", "k-lin"}
  /\ phase' = "thrown"
  /\ UNCHANGED <<graphs, partitioningNumbers>>

NextMethod ==
  /\ phase = "methods" /\ methodIt <= Len(options.methods)
  /\ ApplyNop \/ ApplyClusteringInVain \/ ApplyMethod \/ ThrowInvalidMethod
  /\ methodIt' = methodIt + 1
  /\ UNCHANGED <<options, funcIt, output>>

(* The critical path looks up the device of every partition in use. *)
EndFunction ==
  /\ phase = "methods" /\ methodIt > Len(options.methods)
  /\ phase' = IF \E v \in Vertices(func) : graphs[func][v] >= partitionCount
              THEN "undefined" ELSE "start"
  /\ funcIt' = funcIt + 1
  /\ UNCHANGED <<options, methodIt, graphs, partitioningNumbers, output>>
-----------------------------------------------------------------------------
(* savePartitioning: THREAD_COUNT, and DATA_DEP_PARAM_COUNT from the number *)
(* of devices.                                                              *)
StartSave ==
  /\ phase = "start" /\ funcIt > Len(options.functions)
  /\ phase' = "save"
  /\ output' = [output EXCEPT
       !.threadCount = SumFunction([f \in DOMAIN partitioningNumbers |-> partitioningNumbers[f] - 1]),
       !.paramCount = Cardinality(DOMAIN graphs) * (partitionCount - 1)]
  /\ UNCHANGED <<options, funcIt, methodIt, graphs, partitioningNumbers>>

(* The functions of the map in order; the ones written already. *)
Written == {b[1] : b \in DOMAIN output.bodies}
NextFunction(f) ==
  /\ f \in DOMAIN graphs \ Written
  /\ \A k \in DOMAIN FunctionOrder :
       FunctionOrder[k] \in DOMAIN graphs \ Written =>
         \E j \in 1..k : FunctionOrder[j] = f

(* The first devices, and processor cores if there are too few. *)
deviceType(i) == IF i < partitionCount THEN options.devices[i + 1] ELSE "Cortex-A9"

(* Parameters counted for every partition, the first one included. *)
paramStartAfterAll(n) == output.putParamStart + n

putParamStartAfter(n) == output.putParamStart + n - 1
threadNumberOf(i) == output.threadNumber + i - 1

(* The files of one function.  Threads are numbered over all functions.     *)
(* Every partition for the FPGA is written to the same file.                *)
WriteFunction(f, n) ==
  LET hw == {i \in 0..(n - 1) : deviceType(i) = "xc7z020-1"}
      params == output.putParamStart..(putParamStartAfter(n) - 1)
  IN output' = [output EXCEPT
       !.paramStart = Put(output.paramStart, f, output.putParamStart),
       !.paramInits = [d \in DOMAIN output.paramInits \union params |->
                         IF d >= output.putParamStart THEN f ELSE output.paramInits[d]],
       !.threads = [t \in DOMAIN output.threads \union ({f} \X (1..(n - 1))) |->
                      IF t[1] = f THEN threadNumberOf(t[2]) ELSE output.threads[t]],
       !.bodies = [b \in DOMAIN output.bodies \union ({f} \X (0..(n - 1))) |->
                     IF b[1] = f THEN deviceType(b[2]) ELSE output.bodies[b]],
       !.calculation = IF hw = {} THEN output.calculation ELSE <<f, Max(hw)>>,
       !.hwThreadCount = output.hwThreadCount + Cardinality(hw),
       !.threadNumber = output.threadNumber + n - 1,
       !.putParamStart = putParamStartAfter(n)]

(* Every vertex has a list of instructions to go to, and createCCode gets   *)
(* no empty list, whose first instruction it would look at.                 *)
ListsDefined(p, n) == Used(p) = 0..(n - 1)

SaveFunction ==
  /\ phase = "save"
  /\ \E f \in DOMAIN graphs : NextFunction(f) /\
       IF ListsDefined(graphs[f], partitioningNumbers[f])
       THEN WriteFunction(f, partitioningNumbers[f]) /\ UNCHANGED phase
       ELSE phase' = "undefined" /\ UNCHANGED output
  /\ UNCHANGED <<options, funcIt, methodIt, graphs, partitioningNumbers>>

EndSave ==
  /\ phase = "save" /\ Written = DOMAIN graphs
  /\ phase' = "saved"
  /\ UNCHANGED <<options, funcIt, methodIt, graphs, partitioningNumbers, output>>

Next ==
  \/ StartFunction \/ SkipRemainingFunctions \/ NextMethod \/ EndFunction
  \/ StartSave \/ SaveFunction \/ EndSave

Spec == Init /\ [][Next]_vars
-----------------------------------------------------------------------------
(* Command lines for which the methods leave a partitioning the code can be *)
(* generated from: nop alone, clustering at the end, or Kernighan-Lin on    *)
(* two devices from its balanced start or from a clustering that used both. *)
SafeOptions ==
  LET methods == options.methods
      OnlyRefinedAfter(k) == \A j \in (k + 1)..Len(methods) : methods[j] \in {"nop", "k-lin"}
  IN /\ \A f \in Range(options.functions) \cap Functions : VertexCount[f] > partitionCount
     /\ \/ \A j \in DOMAIN methods : methods[j] = "nop"
        \/ Last(methods) = "clustering"
        \/ partitionCount = 1 /\ Last(methods) = "random"
        \/ /\ partitionCount = 2 /\ Last(methods) = "k-lin"
           /\ \/ OnlyRefinedAfter(0) /\ Head(methods) = "k-lin"
              \/ \E k \in DOMAIN methods :
                   OnlyRefinedAfter(k) /\ methods[k] = "clustering" /\ UsesFPGA(options.devices)

(* For these command lines no function's instructions are written behind    *)
(* the lists of its partitions, no code is generated from an empty list and *)
(* no device is looked up that does not exist: the number of partitions of  *)
(* the last method fits what all of them have made of the graph.            *)
CodeGenerationDefined == SafeOptions => phase # "undefined"

ParamsOf(f) == output.paramStart[f]..(output.paramStart[f] + partitioningNumbers[f] - 2)
HardwareBodies == {b \in DOMAIN output.bodies : output.bodies[b] = "xc7z020-1"}

(* The tables of the generated program match its code: the functions before *)
(* a missing one are all there, THREAD_COUNT threads are numbered without   *)
(* gap over all functions, each has a parameter mailbox of its own function *)
(* within DATA_DEP_PARAM_COUNT, and if one partition is in hardware the     *)
(* calculation written is that of this partition.                           *)
ProgramTablesMatch ==
  phase = "saved" =>
    /\ \A k \in DOMAIN options.functions :
         (\A j \in 1..k : options.functions[j] \in Functions)
         => <<options.functions[k], 0>> \in DOMAIN output.bodies
    /\ Range(output.threads) = 0..(output.threadCount - 1)
    /\ Cardinality(DOMAIN output.threads) = output.threadCount
    /\ DOMAIN output.paramInits \subseteq 0..(output.paramCount - 1)
    /\ \A f \in Written : \A d \in ParamsOf(f) : output.paramInits[d] = f
    /\ output.hwThreadCount = Cardinality(HardwareBodies)
    /\ \A b \in HardwareBodies : HardwareBodies = {b} => output.calculation = b
=============================================================================
