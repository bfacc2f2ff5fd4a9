----------------------- MODULE PartitioningPassProofs -----------------------
(***************************************************************************)
(* Proofs about PartitioningPass: which command lines lead to code that    *)
(* can be generated, and that the tables of the generated program match.   *)
(***************************************************************************)
EXTENDS PartitioningPass, SumTheorems

-----------------------------------------------------------------------------
(* What runOnModule has: the graphs and the numbers of the functions done,  *)
(* and of the one at hand.                                                  *)
Phases == {"start", "methods", "save", "saved", "thrown", "undefined"}

PassTyped ==
  /\ options \in Options
  /\ phase \in Phases
  /\ funcIt \in Nat \ {0}
  /\ methodIt \in Nat \ {0}
  /\ DOMAIN graphs \subseteq Functions \cap Range(options.functions)
  /\ \A f \in DOMAIN graphs : graphs[f] \in [Vertices(f) -> Nat]
  /\ DOMAIN partitioningNumbers \subseteq DOMAIN graphs
  /\ \A f \in DOMAIN partitioningNumbers : partitioningNumbers[f] \in 1..partitionCount

(* Every function before a missing one gets a graph, and every graph a      *)
(* number once a method has been applied to it.                             *)
FunctionsCovered ==
  /\ phase = "methods" =>
       /\ funcIt <= Len(options.functions)
       /\ func \in DOMAIN graphs
       /\ DOMAIN graphs \subseteq DOMAIN partitioningNumbers \union {func}
       /\ methodIt <= Len(options.methods) + 1
       /\ methodIt > 1 => func \in DOMAIN partitioningNumbers
  /\ phase \in {"start", "save", "saved"} => DOMAIN partitioningNumbers = DOMAIN graphs
  /\ phase \in {"save", "saved"} => funcIt > Len(options.functions)
  /\ \A k \in DOMAIN options.functions :
       k < funcIt /\ (\A j \in 1..k : options.functions[j] \in Functions)
       => options.functions[k] \in DOMAIN graphs
  /\ phase \in {"start", "methods"} => output = NoOutput

PassInv == PassTyped /\ FunctionsCovered
-----------------------------------------------------------------------------
(* What the methods applied so far have made of the graph at hand.          *)
RefinedAfter(k) == \A j \in (k + 1)..Len(options.methods) : options.methods[j] \in {"nop", "k-lin"}
ClusteredAt(k) ==
  /\ partitionCount = 2 /\ UsesFPGA(options.devices)
  /\ RefinedAfter(k) /\ options.methods[k] = "clustering"
BalancedStart ==
  /\ partitionCount = 2
  /\ RefinedAfter(0) /\ options.methods[1] = "k-lin"
NopOnly == \A j \in DOMAIN options.methods : options.methods[j] = "nop"

MethodsApplied ==
  /\ NopOnly => graphs[func] = NewGraph
  /\ BalancedStart => Used(graphs[func]) = {0, 1}
  /\ \A k \in DOMAIN options.methods :
       ClusteredAt(k) /\ methodIt > k => Used(graphs[func]) = {0, 1}
  /\ methodIt > Len(options.methods) =>
       ListsDefined(graphs[func], partitioningNumbers[func])

DefinedInv ==
  SafeOptions =>
    /\ phase # "undefined"
    /\ phase = "methods" => MethodsApplied
    /\ \A f \in DOMAIN graphs :
         \/ phase = "thrown"
         \/ phase = "methods" /\ f = func
         \/ ListsDefined(graphs[f], partitioningNumbers[f])
-----------------------------------------------------------------------------
(* The tables while savePartitioning writes one function after the other.   *)
Extra == [f \in DOMAIN partitioningNumbers |-> partitioningNumbers[f] - 1]

OutputRecord ==
  output = [threadCount |-> output.threadCount, paramCount |-> output.paramCount,
            threadNumber |-> output.threadNumber, putParamStart |-> output.putParamStart,
            hwThreadCount |-> output.hwThreadCount, threads |-> output.threads,
            paramInits |-> output.paramInits, paramStart |-> output.paramStart,
            bodies |-> output.bodies, calculation |-> output.calculation]

CountsTyped ==
  /\ output.threadNumber = SumFunctionOnSet(Extra, Written)
  /\ output.putParamStart = output.threadNumber
  /\ output.threadCount = SumFunctionOnSet(Extra, DOMAIN graphs)
  /\ output.paramCount = Cardinality(DOMAIN graphs) * (partitionCount - 1)

BodiesWritten ==
  DOMAIN output.bodies = {b \in Written \X Nat : b[2] < partitioningNumbers[b[1]]}

ParamsWritten ==
  /\ DOMAIN output.paramStart = Written
  /\ DOMAIN output.paramInits = 0..(output.putParamStart - 1)
  /\ \A f \in Written :
       /\ output.paramStart[f] \in Nat
       /\ output.paramStart[f] + partitioningNumbers[f] - 1 <= output.putParamStart
       /\ \A d \in ParamsOf(f) : output.paramInits[d] = f

ThreadsNumbered ==
  /\ DOMAIN output.threads = {t \in Written \X (Nat \ {0}) : t[2] < partitioningNumbers[t[1]]}
  /\ \A t \in DOMAIN output.threads : output.threads[t] \in 0..(output.threadNumber - 1)
  /\ \A n \in 0..(output.threadNumber - 1) : \E t \in DOMAIN output.threads : output.threads[t] = n
  /\ \A t, u \in DOMAIN output.threads : output.threads[t] = output.threads[u] => t = u

HardwareCounted ==
  /\ IsFiniteSet(HardwareBodies)
  /\ output.hwThreadCount = Cardinality(HardwareBodies)
  /\ HardwareBodies # {} => output.calculation \in HardwareBodies

Tables ==
  /\ OutputRecord
  /\ Written \subseteq DOMAIN graphs
  /\ CountsTyped
  /\ BodiesWritten
  /\ ParamsWritten
  /\ ThreadsNumbered
  /\ HardwareCounted

TablesInv ==
  phase \in {"save", "saved"} =>
    /\ Tables
    /\ phase = "saved" => Written = DOMAIN graphs
-----------------------------------------------------------------------------
(* The constants behind a command line. *)
LEMMA OptionFacts ==
  ASSUME PassTyped
  PROVE  /\ Len(options.functions) \in Nat \ {0} /\ DOMAIN options.functions = 1..Len(options.functions)
         /\ Len(options.methods) \in Nat \ {0} /\ DOMAIN options.methods = 1..Len(options.methods)
         /\ partitionCount \in Nat \ {0} /\ DOMAIN options.devices = 1..partitionCount
<1>1. \A s \in Seq(STRING) \ {<< >>} : Len(s) \in Nat \ {0} /\ DOMAIN s = 1..Len(s)
  OBVIOUS
<1>2. QED
  BY <1>1, PassAssumption DEF PassTyped, partitionCount

(* A starting point assigns a partition to every vertex. *)
LEMMA StartTyped ==
  ASSUME PassTyped, func \in Functions, NEW p \in StartingPoints
  PROVE  p \in [Vertices(func) -> Nat]
<1>1. NewGraph \in [Vertices(func) -> Nat]
  BY DEF NewGraph
<1>2. ASSUME NEW q \in BalancedBiPartitionings PROVE q \in [Vertices(func) -> Nat]
  BY <1>2 DEF BalancedBiPartitionings
<1>3. ASSUME NEW q \in RandomPartitionings PROVE q \in [Vertices(func) -> Nat]
  BY <1>3, OptionFacts DEF RandomPartitionings
<1>4. QED
  BY <1>1, <1>2, <1>3 DEF StartingPoints

(* The types and counters of the pass hold initially. *)
LEMMA PassInitially == Init => PassInv
<1> SUFFICES ASSUME Init PROVE PassInv
  OBVIOUS
<1>1. DOMAIN graphs = {} /\ DOMAIN partitioningNumbers = {}
  BY DEF Init
<1>2. PassTyped
  BY <1>1 DEF Init, PassTyped, Phases
<1>3. DOMAIN options.functions = 1..Len(options.functions)
  BY <1>2, OptionFacts
<1>4. FunctionsCovered
  BY <1>1, <1>2, <1>3 DEF Init, FunctionsCovered, PassTyped
<1>5. QED
  BY <1>2, <1>4 DEF PassInv

(* Every step keeps them. *)
LEMMA PassStep == PassInv /\ [Next]_vars => PassInv'
<1> SUFFICES ASSUME PassInv, [Next]_vars PROVE PassInv'
  OBVIOUS
<1> USE DEF PassInv, Phases
<1>0. PassTyped
  OBVIOUS
<1>1. /\ Len(options.functions) \in Nat \ {0} /\ DOMAIN options.functions = 1..Len(options.functions)
      /\ Len(options.methods) \in Nat \ {0} /\ DOMAIN options.methods = 1..Len(options.methods)
      /\ partitionCount \in Nat \ {0}
  BY <1>0, OptionFacts
<1>2. CASE UNCHANGED vars
  <2>1. PassTyped'
    BY <1>2 DEF PassTyped, vars, partitionCount
  <2>2. FunctionsCovered'
    BY <1>2 DEF FunctionsCovered, vars, func
  <2> QED
    BY <2>1, <2>2
<1>3. CASE StartFunction
  <2>1. PICK p \in StartingPoints : graphs' = Put(graphs, func, p)
    BY <1>3 DEF StartFunction
  <2>2. p \in [Vertices(func) -> Nat]
    BY <1>0, <1>3, <2>1, StartTyped DEF StartFunction
  <2>3. /\ DOMAIN graphs' = DOMAIN graphs \union {func}
        /\ graphs'[func] = p
        /\ \A z \in DOMAIN graphs : z # func => graphs'[z] = graphs[z]
    BY <2>1 DEF Put
  <2>4. func \in Range(options.functions) /\ func' = func /\ partitionCount' = partitionCount
    BY <1>1, <1>3 DEF StartFunction, func, PassTyped, Range, partitionCount
  <2>5. PassTyped'
    BY <1>3, <2>2, <2>3, <2>4 DEF StartFunction, PassTyped
  <2>6. FunctionsCovered'
    BY <1>1, <1>3, <2>3, <2>4 DEF StartFunction, FunctionsCovered, PassTyped
  <2> QED
    BY <2>5, <2>6
<1>4. CASE SkipRemainingFunctions
  <2>1. PassTyped'
    BY <1>1, <1>4 DEF SkipRemainingFunctions, PassTyped, partitionCount
  <2>2. ASSUME NEW k \in DOMAIN options.functions, \A j \in 1..k : options.functions[j] \in Functions
        PROVE  k < funcIt
    <3>1. funcIt \in Nat \ {0} /\ k \in Nat
      BY <1>1 DEF PassTyped
    <3>2. options.functions[funcIt] \notin Functions
      BY <1>4 DEF SkipRemainingFunctions, func
    <3> QED
      BY <2>2, <3>1, <3>2
  <2>3. FunctionsCovered'
    BY <1>1, <1>4, <2>2 DEF SkipRemainingFunctions, FunctionsCovered, PassTyped
  <2> QED
    BY <2>1, <2>3
<1>5. CASE NextMethod
  <2>1. func' = func /\ partitionCount' = partitionCount /\ func \in DOMAIN graphs
    BY <1>5 DEF NextMethod, func, partitionCount, FunctionsCovered
  <2>2. methodIt' = methodIt + 1 /\ options' = options /\ funcIt' = funcIt /\ output' = output
    BY <1>5 DEF NextMethod
  <2>3. CASE phase' \in {"undefined", "thrown"} /\ UNCHANGED <<graphs, partitioningNumbers>>
    <3>1. PassTyped'
      BY <1>5, <2>1, <2>2, <2>3 DEF PassTyped
    <3>2. FunctionsCovered'
      BY <1>5, <2>1, <2>2, <2>3 DEF FunctionsCovered, NextMethod
    <3> QED
      BY <3>1, <3>2
  <2>4. CASE \E q \in [Vertices(func) -> Nat], n \in 1..partitionCount :
               /\ graphs' = Put(graphs, func, q) \/ graphs' = graphs
               /\ partitioningNumbers' = Put(partitioningNumbers, func, n)
               /\ phase' = phase
    <3>1. PICK q \in [Vertices(func) -> Nat], n \in 1..partitionCount :
               /\ graphs' = Put(graphs, func, q) \/ graphs' = graphs
               /\ partitioningNumbers' = Put(partitioningNumbers, func, n)
               /\ phase' = phase
      BY <2>4
    <3>2. /\ DOMAIN graphs' = DOMAIN graphs
          /\ \A f \in DOMAIN graphs : graphs'[f] \in [Vertices(f) -> Nat]
      BY <2>1, <3>1 DEF PassTyped, Put
    <3>3. /\ DOMAIN partitioningNumbers' = DOMAIN partitioningNumbers \union {func}
          /\ \A f \in DOMAIN partitioningNumbers' : partitioningNumbers'[f] \in 1..partitionCount
      BY <3>1 DEF PassTyped, Put
    <3>4. PassTyped'
      BY <1>5, <2>1, <2>2, <3>1, <3>2, <3>3 DEF PassTyped
    <3>5. FunctionsCovered'
      BY <1>1, <1>5, <2>1, <2>2, <3>1, <3>2, <3>3 DEF FunctionsCovered, NextMethod, PassTyped
    <3> QED
      BY <3>4, <3>5
  <2>5. CASE ApplyNop
    <3>1. 1 \in 1..partitionCount /\ graphs[func] \in [Vertices(func) -> Nat]
      BY <1>1, <2>1 DEF PassTyped
    <3> QED
      BY <2>4, <2>5, <3>1 DEF ApplyNop
  <2>6. CASE ApplyMethod
    <3>1. PICK q \in [Vertices(func) -> 0..(Max({partitionCount, 2}) - 1)], n \in 1..partitionCount :
            /\ graphs' = Put(graphs, func, q)
            /\ partitioningNumbers' = Put(partitioningNumbers, func, n)
      BY <2>6 DEF ApplyMethod
    <3>2. q \in [Vertices(func) -> Nat]
      OBVIOUS
    <3> QED
      BY <2>4, <2>6, <3>1, <3>2 DEF ApplyMethod
  <2> QED
    BY <1>5, <2>3, <2>5, <2>6 DEF NextMethod, ApplyClusteringInVain, ThrowInvalidMethod
<1>6. CASE EndFunction
  <2>1. PassTyped'
    BY <1>6 DEF EndFunction, PassTyped, partitionCount
  <2>2. func \in DOMAIN partitioningNumbers
    BY <1>1, <1>6 DEF EndFunction, FunctionsCovered, PassTyped
  <2>3. ASSUME NEW k \in DOMAIN options.functions, k < funcIt + 1,
               \A j \in 1..k : options.functions[j] \in Functions
        PROVE  options.functions[k] \in DOMAIN graphs
    <3>1. k < funcIt \/ k = funcIt
      BY <1>1, <2>3 DEF PassTyped
    <3> QED
      BY <1>6, <2>3, <3>1 DEF EndFunction, FunctionsCovered, func
  <2>4. FunctionsCovered'
    BY <1>6, <2>2, <2>3 DEF EndFunction, FunctionsCovered, PassTyped
  <2> QED
    BY <2>1, <2>4
<1>7. CASE StartSave
  <2>1. PassTyped'
    BY <1>7 DEF StartSave, PassTyped, partitionCount
  <2>2. FunctionsCovered'
    BY <1>7 DEF StartSave, FunctionsCovered
  <2> QED
    BY <2>1, <2>2
<1>8. CASE SaveFunction
  <2>1. phase' \in {"save", "undefined"}
    BY <1>8 DEF SaveFunction
  <2>2. PassTyped'
    BY <1>8, <2>1 DEF SaveFunction, PassTyped, partitionCount
  <2>3. FunctionsCovered'
    BY <1>8, <2>1 DEF SaveFunction, FunctionsCovered
  <2> QED
    BY <2>2, <2>3
<1>9. CASE EndSave
  <2>1. PassTyped'
    BY <1>9 DEF EndSave, PassTyped, partitionCount
  <2>2. FunctionsCovered'
    BY <1>9 DEF EndSave, FunctionsCovered
  <2> QED
    BY <2>1, <2>2
<1> QED
  BY <1>2, <1>3, <1>4, <1>5, <1>6, <1>7, <1>8, <1>9 DEF Next
-----------------------------------------------------------------------------
(* The command lines of SafeOptions, with the parts they are told apart by. *)
LEMMA SafeFacts ==
  ASSUME PassTyped, SafeOptions
  PROVE  /\ \A f \in Functions \cap Range(options.functions) :
              VertexCount[f] \in Nat /\ VertexCount[f] > partitionCount
         /\ \/ NopOnly
            \/ options.methods[Len(options.methods)] = "clustering"
            \/ partitionCount = 1 /\ options.methods[Len(options.methods)] = "random"
            \/ /\ partitionCount = 2 /\ options.methods[Len(options.methods)] = "k-lin"
               /\ BalancedStart \/ \E k \in DOMAIN options.methods : ClusteredAt(k)
<1>1. /\ Last(options.methods) = options.methods[Len(options.methods)]
      /\ Head(options.methods) = options.methods[1]
  <2>1. options.methods \in Seq(STRING) \ {<< >>}
    BY PassAssumption DEF PassTyped
  <2> QED
    BY <2>1 DEF Last
<1>2. \A f \in Functions \cap Range(options.functions) :
        VertexCount[f] \in Nat /\ VertexCount[f] > partitionCount
  BY PassAssumption DEF SafeOptions
<1>3. QED
  BY <1>1, <1>2, Zenon DEF SafeOptions, NopOnly, BalancedStart, ClusteredAt, RefinedAfter

(* A balanced bipartitioning of three vertices or more uses both sides. *)
LEMMA BalancedUsesBoth ==
  ASSUME VertexCount[func] \in Nat, VertexCount[func] > 2, NEW p \in BalancedBiPartitionings
  PROVE  Used(p) = {0, 1}
<1> DEFINE Zeros == {v \in Vertices(func) : p[v] = 0}
<1>1. p \in [Vertices(func) -> {0, 1}] /\ Cardinality(Zeros) = VertexCount[func] \div 2
  BY DEF BalancedBiPartitionings
<1>2. VertexCount[func] \div 2 \in Nat /\ VertexCount[func] \div 2 # 0
      /\ VertexCount[func] \div 2 # VertexCount[func]
  OBVIOUS
<1>3. Cardinality(Vertices(func)) = VertexCount[func]
  BY FS_Interval DEF Vertices
<1>4. Zeros # {}
  BY <1>1, <1>2, FS_EmptySet
<1>5. Zeros # Vertices(func)
  BY <1>1, <1>2, <1>3
<1>6. (\E v \in Vertices(func) : p[v] = 0) /\ (\E v \in Vertices(func) : p[v] = 1)
  BY <1>1, <1>4, <1>5
<1> HIDE DEF Zeros
<1>7. QED
  BY <1>1, <1>6 DEF Used

(* Kernighan-Lin exchanges vertices, and so keeps both sides in use. *)
LEMMA ExchangeKeepsBoth ==
  ASSUME NEW V, IsFiniteSet(V), NEW p \in [V -> Nat], NEW q \in [V -> Nat], Used(p) = {0, 1},
         Used(q) \subseteq {0, 1}, \A i \in {0, 1} : Size(q, i) = Size(p, i)
  PROVE  Used(q) = {0, 1}
<1>1. ASSUME NEW i \in {0, 1} PROVE i \in Used(q)
  <2>1. {v \in V : p[v] = i} # {}
    <3>1. i \in Used(p)
      OBVIOUS
    <3> QED
      BY <3>1 DEF Used
  <2>2. IsFiniteSet({v \in V : p[v] = i})
    BY FS_Subset
  <2>3. Cardinality({v \in V : p[v] = i}) # 0
    BY <2>1, <2>2, FS_EmptySet
  <2>4. Cardinality({v \in V : q[v] = i}) = Cardinality({v \in V : p[v] = i})
    BY DEF Size
  <2>5. {v \in V : q[v] = i} # {}
    BY <2>3, <2>4, FS_EmptySet
  <2> QED
    BY <2>5 DEF Used
<1>2. QED
  BY <1>1

(* A clustering of more vertices than devices counts what is in use. *)
LEMMA ClusteringCounts ==
  ASSUME PassTyped, VertexCount[func] \in Nat, VertexCount[func] > partitionCount,
         NEW q \in [Vertices(func) -> Nat]
  PROVE  /\ ClusteringCount(options.devices, q) = Cardinality(Used(q))
         /\ Cardinality(Used(q)) \in Nat
<1>1. Cardinality(DOMAIN q) = VertexCount[func] /\ IsFiniteSet(Vertices(func))
  BY FS_Interval DEF Vertices
<1>2. \A x \in Int : x <= 0 => Max({0, x}) = 0
  BY DEF Max
<1>3. partitionCount \in Nat
  BY OptionFacts
<1>4. Max({0, partitionCount + 1 - VertexCount[func]}) = 0
  <2>1. partitionCount + 1 - VertexCount[func] \in Int /\ partitionCount + 1 - VertexCount[func] <= 0
    BY <1>3
  <2> QED
    BY <1>2, <2>1
<1>5. Used(q) = {q[v] : v \in Vertices(func)}
  BY DEF Used
<1>6. Cardinality(Used(q)) \in Nat
  BY <1>1, <1>5, FiniteImage, FS_CardinalityType
<1>7. ClusteringCount(options.devices, q)
        = Cardinality(Used(q)) + Max({0, partitionCount + 1 - VertexCount[func]})
  BY <1>1, Zenon DEF ClusteringCount, partitionCount
<1>8. QED
  BY <1>4, <1>6, <1>7

(* One method on the graph at hand, for a safe command line. *)
LEMMA MethodKeepsDefined ==
  ASSUME PassInv, SafeOptions, phase = "methods", MethodsApplied, NextMethod
  PROVE  phase' \in {"methods", "thrown"} /\ (phase' = "methods" => MethodsApplied')
<1> DEFINE m == options.methods[methodIt]
           last == Len(options.methods)
<1>0. PassTyped /\ FunctionsCovered
  BY DEF PassInv
<1>1. /\ last \in Nat \ {0} /\ DOMAIN options.methods = 1..last
      /\ partitionCount \in Nat \ {0} /\ methodIt \in Nat \ {0} /\ methodIt <= last
      /\ partitionCount = Len(options.devices)
  BY <1>0, OptionFacts DEF PassTyped, NextMethod, partitionCount
<1>2. /\ options' = options /\ funcIt' = funcIt /\ methodIt' = methodIt + 1
      /\ func' = func /\ partitionCount' = partitionCount /\ NewGraph' = NewGraph
      /\ NopOnly' = NopOnly /\ BalancedStart' = BalancedStart
      /\ \A k : ClusteredAt(k)' = ClusteredAt(k)
  BY DEF NextMethod, func, partitionCount, NewGraph, NopOnly, BalancedStart, ClusteredAt, RefinedAfter
<1>3. /\ VertexCount[func] \in Nat /\ VertexCount[func] > partitionCount
      /\ func \in DOMAIN graphs /\ graphs[func] \in [Vertices(func) -> Nat]
  BY <1>0, SafeFacts DEF PassTyped, FunctionsCovered
<1>4. \/ NopOnly
      \/ options.methods[last] = "clustering"
      \/ partitionCount = 1 /\ options.methods[last] = "random"
      \/ /\ partitionCount = 2 /\ options.methods[last] = "k-lin"
         /\ BalancedStart \/ \E k \in 1..last : ClusteredAt(k)
  BY <1>0, <1>1, SafeFacts
<1>5. IsFiniteSet(Vertices(func)) /\ Vertices(func) # {}
  <2>1. 1 \in 1..VertexCount[func]
    BY <1>1, <1>3
  <2>2. IsFiniteSet(1..VertexCount[func])
    BY <1>3, FS_Interval
  <2> QED
    BY <2>1, <2>2 DEF Vertices
<1>6. BalancedStart => partitionCount = 2 /\ m \in {"nop", "k-lin"}
  BY <1>1 DEF BalancedStart, RefinedAfter
<1>7. ASSUME NEW k \in 1..last, ClusteredAt(k)
      PROVE  /\ partitionCount = 2 /\ UsesFPGA(options.devices)
             /\ options.methods[k] = "clustering"
             /\ k < methodIt => m \in {"nop", "k-lin"}
  BY <1>1, <1>7 DEF ClusteredAt, RefinedAfter
<1>8. \A k \in 1..last : methodIt + 1 > k => k = methodIt \/ methodIt > k
  BY <1>1
<1>9. methodIt + 1 > last => methodIt = last
  BY <1>1
<1>10. CASE ApplyNop
  <2>1. /\ m = "nop" /\ graphs' = graphs /\ phase' = phase
        /\ partitioningNumbers'[func] = 1
    BY <1>10 DEF ApplyNop, Put
  <2>2. ASSUME methodIt = last PROVE ListsDefined(graphs[func], 1)
    <3>1. NopOnly
      BY <1>4, <2>1, <2>2
    <3>2. graphs[func] = NewGraph
      BY <3>1 DEF MethodsApplied
    <3>3. Used(graphs[func]) = {0}
      BY <1>5, <3>2 DEF Used, NewGraph
    <3> QED
      BY <3>3 DEF ListsDefined
  <2>3. \A k \in 1..last : ClusteredAt(k) /\ methodIt + 1 > k => Used(graphs[func]) = {0, 1}
    BY <1>1, <1>7, <1>8, <2>1 DEF MethodsApplied
  <2>4. MethodsApplied'
    BY <1>1, <1>2, <1>9, <2>1, <2>2, <2>3 DEF MethodsApplied
  <2> QED
    BY <2>1, <2>4
<1>11. CASE ApplyClusteringInVain
  <2>1. VertexCount[func] > IF UsesFPGA(options.devices) THEN partitionCount ELSE 1
    BY <1>1, <1>3
  <2> QED
    BY <1>11, <2>1 DEF ApplyClusteringInVain, ClusteringHasResult
<1>12. CASE ThrowInvalidMethod
  BY <1>12 DEF ThrowInvalidMethod
<1>13. CASE ApplyMethod
  <2>1. PICK q \in [Vertices(func) -> 0..(Max({partitionCount, 2}) - 1)], n \in 1..partitionCount :
          /\ Result(m, options.devices, graphs[func], q, n)
          /\ graphs' = Put(graphs, func, q)
          /\ partitioningNumbers' = Put(partitioningNumbers, func, n)
    BY <1>13 DEF ApplyMethod
  <2>2. /\ graphs'[func] = q /\ partitioningNumbers'[func] = n
        /\ m \in {"random", "clustering", "sa", "k-lin"} /\ phase' = phase
    BY <1>13, <2>1 DEF ApplyMethod, Put
  <2>3. q \in [Vertices(func) -> Nat]
    OBVIOUS
  <2>4. ~ NopOnly
    BY <1>1, <2>2 DEF NopOnly
  <2>5. ASSUME m = "k-lin", partitionCount = 2, Used(graphs[func]) = {0, 1}
        PROVE  n = 2 /\ Used(q) = {0, 1}
    <3>1. n = 2 /\ Used(q) \subseteq {0, 1} /\ \A i \in {0, 1} : Size(q, i) = Size(graphs[func], i)
      BY <1>1, <2>1, <2>5 DEF Result
    <3> QED
      BY <1>3, <1>5, <2>3, <2>5, <3>1, ExchangeKeepsBoth
  <2>6. ASSUME m = "clustering"
        PROVE  /\ Used(q) = 0..(n - 1)
               /\ UsesFPGA(options.devices) => n = partitionCount
    <3>1. /\ Used(q) = 0..(Cardinality(Used(q)) - 1)
          /\ UsesFPGA(options.devices) => Cardinality(Used(q)) = Len(options.devices)
          /\ n = ClusteringCount(options.devices, q)
      BY <2>1, <2>6 DEF Result
    <3>2. ClusteringCount(options.devices, q) = Cardinality(Used(q))
      BY <1>0, <1>3, <2>3, ClusteringCounts
    <3> QED
      BY <1>1, <3>1, <3>2
  <2>7. BalancedStart => Used(q) = {0, 1}
    BY <1>6, <2>2, <2>5 DEF MethodsApplied
  <2>8. ASSUME NEW k \in 1..last, ClusteredAt(k), methodIt + 1 > k
        PROVE  Used(q) = {0, 1}
    <3>1. CASE k = methodIt
      BY <1>7, <2>6, <2>8, <3>1
    <3>2. CASE methodIt > k
      <4>1. Used(graphs[func]) = {0, 1}
        BY <1>1, <2>8, <3>2 DEF MethodsApplied
      <4> QED
        BY <1>7, <2>2, <2>5, <2>8, <3>2, <4>1
    <3> QED
      BY <1>8, <2>8, <3>1, <3>2
  <2>9. ASSUME methodIt = last PROVE ListsDefined(q, n)
    <3>1. CASE m = "clustering"
      BY <2>6, <3>1 DEF ListsDefined
    <3>2. CASE partitionCount = 1 /\ m = "random"
      <4>1. n = 1 /\ Used(q) \subseteq 0..0
        BY <1>1, <2>1, <3>2 DEF Result
      <4>2. PICK v \in Vertices(func) : TRUE
        BY <1>5
      <4>3. q[v] \in Used(q)
        BY <2>3 DEF Used
      <4> QED
        BY <4>1, <4>3 DEF ListsDefined
    <3>3. CASE partitionCount = 2 /\ m = "k-lin" /\ (BalancedStart \/ \E k \in 1..last : ClusteredAt(k))
      <4>1. n = 2
        BY <1>1, <2>1, <3>3 DEF Result
      <4>2. Used(q) = {0, 1}
        BY <1>1, <2>7, <2>8, <2>9, <3>3
      <4> QED
        BY <4>1, <4>2 DEF ListsDefined
    <3> QED
      BY <1>4, <2>4, <2>9, <3>1, <3>2, <3>3
  <2>10. MethodsApplied'
    BY <1>1, <1>2, <1>9, <2>2, <2>4, <2>7, <2>8, <2>9 DEF MethodsApplied
  <2> QED
    BY <2>2, <2>10
<1> QED
  BY <1>10, <1>11, <1>12, <1>13 DEF NextMethod

(* Nothing undefined has happened initially. *)
LEMMA DefinedInitially == Init => DefinedInv
<1>1. Init => DOMAIN graphs = {} /\ phase = "start"
  BY DEF Init
<1>2. QED
  BY <1>1 DEF DefinedInv

(* No step does anything undefined. *)
LEMMA DefinedStep == PassInv /\ DefinedInv /\ [Next]_vars => DefinedInv'
<1> SUFFICES ASSUME PassInv, DefinedInv, [Next]_vars, SafeOptions'
             PROVE  /\ (phase # "undefined")'
                    /\ (phase = "methods" => MethodsApplied)'
                    /\ (\A f \in DOMAIN graphs :
                         \/ phase = "thrown"
                         \/ phase = "methods" /\ f = func
                         \/ ListsDefined(graphs[f], partitioningNumbers[f]))'
  BY DEF DefinedInv
<1>0. PassTyped /\ FunctionsCovered
  BY DEF PassInv
<1>1. options' = options
  BY DEF vars, Next, StartFunction, SkipRemainingFunctions, NextMethod, EndFunction,
         StartSave, SaveFunction, EndSave
<1>2. SafeOptions
  BY <1>1 DEF SafeOptions, partitionCount
<1>3. /\ phase # "undefined"
      /\ phase = "methods" => MethodsApplied
      /\ \A f \in DOMAIN graphs :
           \/ phase = "thrown"
           \/ phase = "methods" /\ f = func
           \/ ListsDefined(graphs[f], partitioningNumbers[f])
  BY <1>2 DEF DefinedInv
<1>4. /\ Len(options.functions) \in Nat \ {0} /\ DOMAIN options.functions = 1..Len(options.functions)
      /\ Len(options.methods) \in Nat \ {0} /\ DOMAIN options.methods = 1..Len(options.methods)
      /\ partitionCount \in Nat \ {0} /\ funcIt \in Nat \ {0} /\ methodIt \in Nat \ {0}
  BY <1>0, OptionFacts DEF PassTyped
<1>5. CASE UNCHANGED vars
  <2>1. MethodsApplied' = MethodsApplied /\ func' = func
    BY <1>5 DEF vars, MethodsApplied, func, NopOnly, BalancedStart, ClusteredAt, RefinedAfter,
                partitionCount, NewGraph
  <2> QED
    BY <1>3, <1>5, <2>1 DEF vars
<1>6. CASE StartFunction
  <2>1. PICK p \in StartingPoints : graphs' = Put(graphs, func, p)
    BY <1>6 DEF StartFunction
  <2>2. /\ DOMAIN graphs' = DOMAIN graphs \union {func}
        /\ graphs'[func] = p
        /\ \A z \in DOMAIN graphs : z # func => graphs'[z] = graphs[z]
    BY <2>1 DEF Put
  <2>3. /\ phase = "start" /\ phase' = "methods" /\ methodIt' = 1 /\ func' = func
        /\ partitioningNumbers' = partitioningNumbers
    BY <1>6 DEF StartFunction, func
  <2>4. /\ NewGraph' = NewGraph /\ NopOnly' = NopOnly /\ BalancedStart' = BalancedStart
    BY <1>1, <2>3 DEF partitionCount, NewGraph, NopOnly, BalancedStart, ClusteredAt, RefinedAfter
  <2>5. NopOnly => p = NewGraph
    BY <1>4, <2>1 DEF NopOnly, StartingPoints
  <2>6. BalancedStart => Used(p) = {0, 1}
    <3> SUFFICES ASSUME BalancedStart PROVE Used(p) = {0, 1}
      OBVIOUS
    <3>1. func \in Functions \cap Range(options.functions)
      BY <1>4, <1>6 DEF StartFunction, func, Range
    <3>2. VertexCount[func] \in Nat /\ VertexCount[func] > 2
      BY <1>0, <1>2, <3>1, SafeFacts DEF BalancedStart
    <3>3. p \in BalancedBiPartitionings
      BY <2>1 DEF StartingPoints, BalancedStart
    <3> QED
      BY <3>2, <3>3, BalancedUsesBoth
  <2>7. MethodsApplied'
    BY <1>1, <1>4, <2>2, <2>3, <2>4, <2>5, <2>6 DEF MethodsApplied
  <2> QED
    BY <1>3, <2>2, <2>3, <2>7
<1>7. CASE SkipRemainingFunctions
  BY <1>3, <1>7 DEF SkipRemainingFunctions
<1>8. CASE NextMethod
  <2>1. phase' \in {"methods", "thrown"} /\ (phase' = "methods" => MethodsApplied') /\ func' = func
    BY <1>2, <1>3, <1>8, MethodKeepsDefined DEF NextMethod, func
  <2>2. /\ DOMAIN graphs' = DOMAIN graphs
        /\ \A f \in DOMAIN graphs : f # func =>
             /\ graphs'[f] = graphs[f]
             /\ f \in DOMAIN partitioningNumbers => partitioningNumbers'[f] = partitioningNumbers[f]
    BY <1>0, <1>8 DEF NextMethod, ApplyNop, ApplyClusteringInVain, ApplyMethod, ThrowInvalidMethod, Put,
                      FunctionsCovered
  <2>3. \A f \in DOMAIN graphs : f # func => f \in DOMAIN partitioningNumbers
    BY <1>0, <1>8 DEF NextMethod, FunctionsCovered
  <2> QED
    BY <1>3, <1>8, <2>1, <2>2, <2>3 DEF NextMethod
<1>9. CASE EndFunction
  <2>1. ListsDefined(graphs[func], partitioningNumbers[func])
    BY <1>3, <1>4, <1>9 DEF EndFunction, MethodsApplied
  <2>2. /\ func \in DOMAIN graphs /\ graphs[func] \in [Vertices(func) -> Nat]
        /\ partitioningNumbers[func] \in 1..partitionCount
    BY <1>0, <1>4, <1>9 DEF EndFunction, PassTyped, FunctionsCovered
  <2>3. ASSUME NEW v \in Vertices(func) PROVE ~ (graphs[func][v] >= partitionCount)
    <3>1. graphs[func][v] \in Used(graphs[func])
      BY <2>2 DEF Used
    <3>2. graphs[func][v] \in 0..(partitioningNumbers[func] - 1)
      BY <2>1, <3>1 DEF ListsDefined
    <3> QED
      BY <1>4, <2>2, <3>2
  <2>4. phase' = "start" /\ graphs' = graphs /\ partitioningNumbers' = partitioningNumbers
    BY <1>9, <2>3 DEF EndFunction
  <2> QED
    BY <1>3, <1>9, <2>1, <2>4 DEF EndFunction
<1>10. CASE StartSave
  BY <1>3, <1>10 DEF StartSave
<1>11. CASE SaveFunction
  <2>1. phase' = "save"
    BY <1>3, <1>11 DEF SaveFunction
  <2> QED
    BY <1>3, <1>11, <2>1 DEF SaveFunction
<1>12. CASE EndSave
  BY <1>3, <1>12 DEF EndSave
<1> QED
  BY <1>5, <1>6, <1>7, <1>8, <1>9, <1>10, <1>11, <1>12 DEF Next

(* For a safe command line no list of instructions is written behind its    *)
(* end or read while empty and no missing device is looked up, whatever the *)
(* functions, their graphs and the results of the methods.                  *)
THEOREM SafeCommandLines == Spec => []CodeGenerationDefined
<1>1. Init => PassInv /\ DefinedInv
  BY PassInitially, DefinedInitially
<1>2. PassInv /\ DefinedInv /\ [Next]_vars => PassInv' /\ DefinedInv'
  BY PassStep, DefinedStep
<1>3. PassInv /\ DefinedInv => CodeGenerationDefined
  BY DEF DefinedInv, CodeGenerationDefined
<1>4. QED
  BY <1>1, <1>2, <1>3, PTL DEF Spec
-----------------------------------------------------------------------------
(* The fields savePartitioning writes for one function. *)
LEMMA WrittenFields ==
  ASSUME OutputRecord, NEW f, NEW n, WriteFunction(f, n)
  PROVE  LET hw == {i \in 0..(n - 1) : deviceType(i) = "xc7z020-1"}
         IN /\ OutputRecord'
            /\ output'.threadCount = output.threadCount
            /\ output'.paramCount = output.paramCount
            /\ output'.threadNumber = output.threadNumber + n - 1
            /\ output'.putParamStart = output.putParamStart + n - 1
            /\ output'.hwThreadCount = output.hwThreadCount + Cardinality(hw)
            /\ output'.paramStart = Put(output.paramStart, f, output.putParamStart)
            /\ output'.paramInits =
                 [d \in DOMAIN output.paramInits \union
                          output.putParamStart..(putParamStartAfter(n) - 1) |->
                    IF d >= output.putParamStart THEN f ELSE output.paramInits[d]]
            /\ output'.threads =
                 [t \in DOMAIN output.threads \union ({f} \X (1..(n - 1))) |->
                    IF t[1] = f THEN output.threadNumber + t[2] - 1 ELSE output.threads[t]]
            /\ output'.bodies =
                 [b \in DOMAIN output.bodies \union ({f} \X (0..(n - 1))) |->
                    IF b[1] = f THEN deviceType(b[2]) ELSE output.bodies[b]]
            /\ output'.calculation = IF hw = {} THEN output.calculation ELSE <<f, Max(hw)>>
<1> DEFINE hw == {i \in 0..(n - 1) : deviceType(i) = "xc7z020-1"}
           start == Put(output.paramStart, f, output.putParamStart)
           inits == [d \in DOMAIN output.paramInits \union
                             output.putParamStart..(putParamStartAfter(n) - 1) |->
                       IF d >= output.putParamStart THEN f ELSE output.paramInits[d]]
           threads == [t \in DOMAIN output.threads \union ({f} \X (1..(n - 1))) |->
                         IF t[1] = f THEN output.threadNumber + t[2] - 1 ELSE output.threads[t]]
           bodies == [b \in DOMAIN output.bodies \union ({f} \X (0..(n - 1))) |->
                        IF b[1] = f THEN deviceType(b[2]) ELSE output.bodies[b]]
           calculation == IF hw = {} THEN output.calculation ELSE <<f, Max(hw)>>
           count == output.hwThreadCount + Cardinality(hw)
           number == output.threadNumber + n - 1
           param == output.putParamStart + n - 1
<1> HIDE DEF hw, start, inits, threads, bodies, calculation, count, number, param
<1>1. output' = [output EXCEPT
       !.paramStart = start, !.paramInits = inits, !.threads = threads, !.bodies = bodies,
       !.calculation = calculation, !.hwThreadCount = count,
       !.threadNumber = number, !.putParamStart = param]
  BY Zenon DEF WriteFunction, putParamStartAfter, threadNumberOf, hw, start, inits, threads,
               bodies, calculation, count, number, param
<1>2. /\ OutputRecord'
      /\ output'.threadCount = output.threadCount
      /\ output'.paramCount = output.paramCount
      /\ output'.threadNumber = number
      /\ output'.putParamStart = param
      /\ output'.hwThreadCount = count
      /\ output'.paramStart = start
      /\ output'.paramInits = inits
      /\ output'.threads = threads
      /\ output'.bodies = bodies
      /\ output'.calculation = calculation
  <2>1. output' = [threadCount |-> output.threadCount, paramCount |-> output.paramCount,
                   threadNumber |-> number, putParamStart |-> param, hwThreadCount |-> count,
                   threads |-> threads, paramInits |-> inits, paramStart |-> start,
                   bodies |-> bodies, calculation |-> calculation]
    BY <1>1 DEF OutputRecord
  <2> QED
    BY <2>1 DEF OutputRecord
<1>3. QED
  BY <1>2, Zenon DEF hw, start, inits, threads, bodies, calculation, count, number, param

(* The functions of the module are finitely many. *)
LEMMA FunctionsFinite == PassTyped => IsFiniteSet(DOMAIN graphs)
<1> SUFFICES ASSUME PassTyped PROVE IsFiniteSet(DOMAIN graphs)
  OBVIOUS
<1>1. DOMAIN FunctionOrder = 1..Len(FunctionOrder) /\ Len(FunctionOrder) \in Nat
  BY PassAssumption
<1>2. IsFiniteSet(DOMAIN FunctionOrder)
  BY <1>1, FS_Interval
<1>3. IsFiniteSet(Functions)
  BY <1>2, FiniteImage DEF Functions
<1>4. QED
  BY <1>3, FS_Subset DEF PassTyped

(* savePartitioning writes one more function. *)
LEMMA WriteKeepsTables ==
  ASSUME PassInv, phase = "save", Tables, NEW f \in DOMAIN graphs \ Written,
         WriteFunction(f, partitioningNumbers[f]),
         UNCHANGED <<options, graphs, partitioningNumbers>>
  PROVE  Tables'
<1>0. PassTyped /\ FunctionsCovered /\ DOMAIN partitioningNumbers = DOMAIN graphs
  BY DEF PassInv, FunctionsCovered
<1>1. PICK n \in Nat \ {0} : n = partitioningNumbers[f] /\ n <= partitionCount
  BY <1>0 DEF PassTyped
<1>2. /\ partitionCount \in Nat \ {0} /\ partitionCount' = partitionCount
      /\ \A g \in DOMAIN graphs : partitioningNumbers[g] \in Nat \ {0}
  BY <1>0, OptionFacts DEF PassTyped, partitionCount
<1>3. IsFiniteSet(DOMAIN graphs) /\ IsFiniteSet(Written) /\ f \notin Written
  BY <1>0, FunctionsFinite, FS_Subset DEF Tables
<1> DEFINE hw == {i \in 0..(n - 1) : deviceType(i) = "xc7z020-1"}
<1>4. /\ OutputRecord'
      /\ output'.threadCount = output.threadCount
      /\ output'.paramCount = output.paramCount
      /\ output'.threadNumber = output.threadNumber + n - 1
      /\ output'.putParamStart = output.putParamStart + n - 1
      /\ output'.hwThreadCount = output.hwThreadCount + Cardinality(hw)
      /\ output'.paramStart = Put(output.paramStart, f, output.putParamStart)
      /\ output'.paramInits =
           [d \in DOMAIN output.paramInits \union
                    output.putParamStart..(putParamStartAfter(n) - 1) |->
              IF d >= output.putParamStart THEN f ELSE output.paramInits[d]]
      /\ output'.threads =
           [t \in DOMAIN output.threads \union ({f} \X (1..(n - 1))) |->
              IF t[1] = f THEN output.threadNumber + t[2] - 1 ELSE output.threads[t]]
      /\ output'.bodies =
           [b \in DOMAIN output.bodies \union ({f} \X (0..(n - 1))) |->
              IF b[1] = f THEN deviceType(b[2]) ELSE output.bodies[b]]
      /\ output'.calculation = IF hw = {} THEN output.calculation ELSE <<f, Max(hw)>>
  <2>1. WriteFunction(f, n) /\ OutputRecord
    BY <1>1 DEF Tables
  <2> QED
    BY <2>1, WrittenFields, Zenon
<1>5. PICK p \in Nat : output.putParamStart = p /\ output.threadNumber = p
  <2>1. \A g \in Written : Extra[g] \in Int /\ Extra[g] >= 0
    BY <1>0, <1>2 DEF Extra, Tables
  <2>2. SumFunctionOnSet(Extra, Written) \in Nat
    BY <1>3, <2>1, SumNat
  <2> QED
    BY <2>2 DEF Tables, CountsTyped
<1> HIDE DEF hw
<1>6. Written' = Written \union {f}
  <2>1. DOMAIN output'.bodies = DOMAIN output.bodies \union ({f} \X (0..(n - 1)))
    BY <1>4
  <2>2. <<f, 0>> \in {f} \X (0..(n - 1))
    OBVIOUS
  <2>3. <<f, 0>>[1] = f /\ \A b \in {f} \X (0..(n - 1)) : b[1] = f
    OBVIOUS
  <2> QED
    BY <2>1, <2>2, <2>3 DEF Written
<1>7. CountsTyped'
  <2>1. Extra' = Extra
    BY DEF Extra
  <2>2. \A g \in Written \union {f} : Extra[g] \in Int
    BY <1>0, <1>2 DEF Extra, Tables
  <2>3. IsFiniteSet(Written \union {f})
    BY <1>3, FS_AddElement
  <2>4. SumFunctionOnSet(Extra, Written \union {f})
          = Extra[f] + SumFunctionOnSet(Extra, (Written \union {f}) \ {f})
    BY <2>2, <2>3, SumRemove
  <2>5. (Written \union {f}) \ {f} = Written
    BY <1>3
  <2>6. Extra[f] = n - 1
    BY <1>0, <1>1 DEF Extra
  <2>7. SumFunctionOnSet(Extra, Written) = p
    BY <1>5 DEF Tables, CountsTyped
  <2>8. SumFunctionOnSet(Extra, Written \union {f}) = p + n - 1
    BY <2>4, <2>5, <2>6, <2>7
  <2> QED
    BY <1>2, <1>4, <1>5, <1>6, <2>1, <2>8 DEF CountsTyped, Tables
<1>8. BodiesWritten'
  <2>1. \A b : b \in {f} \X (0..(n - 1)) <=> b \in {f} \X Nat /\ b[2] < n
    OBVIOUS
  <2>2. DOMAIN output'.bodies = DOMAIN output.bodies \union ({f} \X (0..(n - 1)))
    BY <1>4
  <2>3. DOMAIN output.bodies = {b \in Written \X Nat : b[2] < partitioningNumbers[b[1]]}
    BY DEF Tables, BodiesWritten
  <2>4. \A b : b \in (Written \union {f}) \X Nat /\ b[2] < partitioningNumbers[b[1]]
               <=> \/ b \in Written \X Nat /\ b[2] < partitioningNumbers[b[1]]
                   \/ b \in {f} \X Nat /\ b[2] < n
    BY <1>1
  <2>5. DOMAIN output'.bodies = {b \in (Written \union {f}) \X Nat : b[2] < partitioningNumbers[b[1]]}
    BY <2>1, <2>2, <2>3, <2>4
  <2> QED
    BY <1>6, <2>5 DEF BodiesWritten
<1>9. ParamsWritten'
  <2>1. /\ DOMAIN output'.paramStart = Written \union {f}
        /\ output'.paramStart[f] = p
        /\ \A g \in Written : output'.paramStart[g] = output.paramStart[g]
    BY <1>3, <1>4, <1>5 DEF Put, Tables, ParamsWritten
  <2>2. /\ DOMAIN output.paramInits = 0..(p - 1)
        /\ putParamStartAfter(n) - 1 = p + n - 2
    BY <1>5 DEF Tables, ParamsWritten, putParamStartAfter
  <2>3. /\ DOMAIN output'.paramInits = 0..(p + n - 2)
        /\ \A d \in 0..(p + n - 2) :
             output'.paramInits[d] = IF d >= p THEN f ELSE output.paramInits[d]
    BY <1>4, <1>5, <2>2
  <2>4. ASSUME NEW g \in Written
        PROVE  /\ output.paramStart[g] \in Nat
               /\ output.paramStart[g] + partitioningNumbers[g] - 1 <= p + n - 1
               /\ \A d \in ParamsOf(g) : output'.paramInits[d] = g
    <3>1. /\ output.paramStart[g] \in Nat
          /\ output.paramStart[g] + partitioningNumbers[g] - 1 <= p
          /\ \A d \in ParamsOf(g) : output.paramInits[d] = g
      BY <1>5, <2>4 DEF Tables, ParamsWritten
    <3>2. partitioningNumbers[g] \in Nat
      BY <1>2 DEF Tables
    <3>3. \A d \in ParamsOf(g) : d \in 0..(p + n - 2) /\ ~ (d >= p)
      <4>1. PICK a \in Nat, k \in Nat : a = output.paramStart[g] /\ k = partitioningNumbers[g]
        BY <3>1, <3>2
      <4>2. a + k - 1 <= p /\ ParamsOf(g) = a..(a + k - 2)
        BY <3>1, <4>1 DEF ParamsOf
      <4>3. n >= 1
        OBVIOUS
      <4> QED
        BY <4>2, <4>3
    <3>4. \A d \in ParamsOf(g) : output'.paramInits[d] = output.paramInits[d]
      BY <2>3, <3>3
    <3>5. \A a, k \in Nat : a + k - 1 <= p => a + k - 1 <= p + n - 1
      OBVIOUS
    <3> QED
      BY <3>1, <3>2, <3>4, <3>5
  <2>5. \A g \in Written : ParamsOf(g)' = ParamsOf(g)
    BY <2>1 DEF ParamsOf
  <2>6. ParamsOf(f)' = p..(p + n - 2)
    BY <1>1, <2>1 DEF ParamsOf
  <2>7. \A d \in ParamsOf(f)' : output'.paramInits[d] = f
    BY <2>3, <2>6
  <2>8. \A g \in Written \union {f} :
          /\ output'.paramStart[g] \in Nat
          /\ output'.paramStart[g] + partitioningNumbers[g] - 1 <= p + n - 1
          /\ \A d \in ParamsOf(g)' : output'.paramInits[d] = g
    BY <1>1, <2>1, <2>4, <2>5, <2>7
  <2>9. output'.putParamStart = p + n - 1 /\ p + n - 1 - 1 = p + n - 2
    BY <1>4, <1>5
  <2> QED
    BY <1>6, <2>1, <2>3, <2>8, <2>9 DEF ParamsWritten
<1>10. ThreadsNumbered'
  <2>1. DOMAIN output.threads = {t \in Written \X (Nat \ {0}) : t[2] < partitioningNumbers[t[1]]}
    BY DEF Tables, ThreadsNumbered
  <2>2. DOMAIN output'.threads = DOMAIN output.threads \union ({f} \X (1..(n - 1)))
    BY <1>4
  <2>3. \A t : t \in {f} \X (1..(n - 1)) <=> t \in {f} \X (Nat \ {0}) /\ t[2] < n
    OBVIOUS
  <2>4. \A t : t \in (Written \union {f}) \X (Nat \ {0}) /\ t[2] < partitioningNumbers[t[1]]
               <=> \/ t \in Written \X (Nat \ {0}) /\ t[2] < partitioningNumbers[t[1]]
                   \/ t \in {f} \X (Nat \ {0}) /\ t[2] < n
    BY <1>1
  <2>5. DOMAIN output'.threads
          = {t \in (Written \union {f}) \X (Nat \ {0}) : t[2] < partitioningNumbers[t[1]]}
    BY <2>1, <2>2, <2>3, <2>4
  <2>6. \A t \in DOMAIN output.threads : t[1] # f
    BY <1>3, <2>1
  <2>7. \A t \in DOMAIN output.threads : /\ output'.threads[t] = output.threads[t]
                                         /\ output.threads[t] \in 0..(p - 1)
    BY <1>4, <1>5, <2>6 DEF Tables, ThreadsNumbered
  <2>8. \A t \in {f} \X (1..(n - 1)) : output'.threads[t] = p + t[2] - 1
    BY <1>4, <1>5
  <2>9. \A i \in 1..(n - 1) : /\ <<f, i>> \in {f} \X (1..(n - 1))
                              /\ output'.threads[<<f, i>>] = p + i - 1
    BY <2>8
  <2>10. \A t \in {f} \X (1..(n - 1)) : \E i \in 1..(n - 1) : t = <<f, i>>
    OBVIOUS
  <2>11. \A t \in DOMAIN output'.threads : output'.threads[t] \in 0..(p + n - 1 - 1)
    BY <2>2, <2>7, <2>9, <2>10
  <2>12. ASSUME NEW m \in 0..(p + n - 1 - 1)
         PROVE  \E t \in DOMAIN output'.threads : output'.threads[t] = m
    <3>1. CASE m < p
      <4>1. \E t \in DOMAIN output.threads : output.threads[t] = m
        BY <1>5, <3>1 DEF Tables, ThreadsNumbered
      <4> QED
        BY <2>2, <2>7, <4>1
    <3>2. CASE m >= p
      <4>1. m - p + 1 \in 1..(n - 1) /\ p + (m - p + 1) - 1 = m
        BY <3>2
      <4>2. output'.threads[<<f, m - p + 1>>] = m
        BY <2>9, <4>1
      <4> QED
        BY <2>2, <2>9, <4>1, <4>2
    <3> QED
      BY <3>1, <3>2
  <2>13. ASSUME NEW t \in DOMAIN output'.threads, NEW u \in DOMAIN output'.threads,
                output'.threads[t] = output'.threads[u]
         PROVE  t = u
    <3>1. CASE t \in DOMAIN output.threads /\ u \in DOMAIN output.threads
      BY <2>7, <2>13, <3>1 DEF Tables, ThreadsNumbered
    <3>2. CASE t \in {f} \X (1..(n - 1)) /\ u \in {f} \X (1..(n - 1))
      <4>1. PICK i \in 1..(n - 1) : t = <<f, i>>
        BY <2>10, <3>2
      <4>2. PICK j \in 1..(n - 1) : u = <<f, j>>
        BY <2>10, <3>2
      <4>3. p + i - 1 = p + j - 1
        BY <2>9, <2>13, <4>1, <4>2
      <4>4. i = j
        BY <4>3
      <4> QED
        BY <4>1, <4>2, <4>4
    <3>3. ASSUME NEW a \in DOMAIN output.threads, NEW b \in {f} \X (1..(n - 1))
          PROVE  output'.threads[a] # output'.threads[b]
      <4>1. PICK i \in 1..(n - 1) : b = <<f, i>>
        BY <2>10
      <4> QED
        BY <2>7, <2>9, <4>1
    <3> QED
      BY <2>2, <2>13, <3>1, <3>2, <3>3
  <2>14. output'.threadNumber = p + n - 1
    BY <1>4, <1>5
  <2> QED
    BY <1>6, <2>5, <2>11, <2>12, <2>13, <2>14 DEF ThreadsNumbered
<1>11. HardwareCounted'
  <2>1. IsFiniteSet(HardwareBodies) /\ output.hwThreadCount = Cardinality(HardwareBodies)
    BY DEF Tables, HardwareCounted
  <2>2. IsFiniteSet(hw) /\ hw \subseteq 0..(n - 1)
    <3>1. IsFiniteSet(0..(n - 1))
      BY FS_Interval
    <3> QED
      BY <3>1, FS_Subset DEF hw
  <2>3. \A b \in DOMAIN output.bodies : b[1] # f
    BY <1>3 DEF Written
  <2>4. /\ DOMAIN output'.bodies = DOMAIN output.bodies \union ({f} \X (0..(n - 1)))
        /\ \A b \in DOMAIN output.bodies : output'.bodies[b] = output.bodies[b]
        /\ \A i \in 0..(n - 1) : output'.bodies[<<f, i>>] = deviceType(i)
    BY <1>4, <2>3
  <2>5. HardwareBodies' = HardwareBodies \union ({f} \X hw)
    <3>1. \A b \in {f} \X (0..(n - 1)) : \E i \in 0..(n - 1) : b = <<f, i>>
      OBVIOUS
    <3>2. \A i \in 0..(n - 1) : i \in hw <=> output'.bodies[<<f, i>>] = "xc7z020-1"
      BY <2>4 DEF hw
    <3>3. \A i : <<f, i>> \in {f} \X hw <=> i \in hw
      OBVIOUS
    <3>4. \A b \in {f} \X (0..(n - 1)) : output'.bodies[b] = "xc7z020-1" <=> b \in {f} \X hw
      BY <3>1, <3>2, <3>3
    <3>5. {f} \X hw \subseteq {f} \X (0..(n - 1))
      BY <2>2
    <3> QED
      BY <2>3, <2>4, <3>4, <3>5 DEF HardwareBodies
  <2>6. HardwareBodies \cap ({f} \X hw) = {}
    BY <2>3 DEF HardwareBodies
  <2>7. IsFiniteSet({f} \X hw) /\ Cardinality({f} \X hw) = Cardinality(hw) /\ Cardinality(hw) \in Nat
    <3>1. IsFiniteSet({f}) /\ Cardinality({f}) = 1
      BY FS_Singleton
    <3>2. Cardinality(hw) \in Nat
      BY <2>2, FS_CardinalityType
    <3> QED
      BY <2>2, <3>1, <3>2, FS_Product
  <2>8. /\ IsFiniteSet(HardwareBodies \union ({f} \X hw))
        /\ Cardinality(HardwareBodies \union ({f} \X hw))
             = Cardinality(HardwareBodies) + Cardinality({f} \X hw)
               - Cardinality(HardwareBodies \cap ({f} \X hw))
    BY <2>1, <2>7, FS_Union
  <2>9. Cardinality(HardwareBodies \cap ({f} \X hw)) = 0 /\ Cardinality(HardwareBodies) \in Nat
    BY <2>1, <2>6, FS_EmptySet, FS_CardinalityType
  <2>10. Cardinality(HardwareBodies') = output'.hwThreadCount
    BY <1>4, <2>1, <2>5, <2>7, <2>8, <2>9
  <2>11. ASSUME HardwareBodies' # {} PROVE output'.calculation \in HardwareBodies'
    <3>1. CASE hw = {}
      <4>1. HardwareBodies' = HardwareBodies /\ output'.calculation = output.calculation
        BY <1>4, <2>5, <3>1
      <4> QED
        BY <2>11, <4>1 DEF Tables, HardwareCounted
    <3>2. CASE hw # {}
      <4>1. Max(hw) \in hw
        <5>1. hw \subseteq Int
          BY <2>2
        <5> QED
          BY <2>2, <3>2, <5>1, MaxInt
      <4>2. output'.calculation = <<f, Max(hw)>>
        BY <1>4, <3>2
      <4> QED
        BY <2>5, <4>1, <4>2
    <3> QED
      BY <3>1, <3>2
  <2> QED
    BY <2>5, <2>8, <2>10, <2>11 DEF HardwareCounted
<1>12. (Written \subseteq DOMAIN graphs)'
  BY <1>6 DEF Tables
<1>13. QED
  BY <1>4, <1>7, <1>8, <1>9, <1>10, <1>11, <1>12 DEF Tables

(* The tables are empty initially. *)
LEMMA TablesInitially == Init => TablesInv
BY DEF Init, TablesInv

(* Every step keeps the tables and the program alike. *)
LEMMA TablesStep == PassInv /\ TablesInv /\ [Next]_vars => TablesInv'
<1> SUFFICES ASSUME PassInv, TablesInv, [Next]_vars PROVE TablesInv'
  OBVIOUS
<1>0. PassTyped /\ FunctionsCovered
  BY DEF PassInv
<1>1. ASSUME UNCHANGED <<options, graphs, partitioningNumbers, output>>
      PROVE  Tables' = Tables /\ Written' = Written
  <2>1. Written' = Written /\ partitionCount' = partitionCount /\ Extra' = Extra
        /\ HardwareBodies' = HardwareBodies
    BY <1>1 DEF Written, partitionCount, Extra, HardwareBodies
  <2>2. OutputRecord' = OutputRecord
    BY <1>1 DEF OutputRecord
  <2>3. CountsTyped' = CountsTyped
    BY <1>1, <2>1 DEF CountsTyped
  <2>4. BodiesWritten' = BodiesWritten
    BY <1>1, <2>1 DEF BodiesWritten
  <2>5. ParamsWritten' = ParamsWritten
    BY <1>1, <2>1 DEF ParamsWritten, ParamsOf
  <2>6. ThreadsNumbered' = ThreadsNumbered
    BY <1>1, <2>1 DEF ThreadsNumbered
  <2>7. HardwareCounted' = HardwareCounted
    BY <1>1, <2>1 DEF HardwareCounted
  <2> QED
    BY <1>1, <2>1, <2>2, <2>3, <2>4, <2>5, <2>6, <2>7 DEF Tables
<1>2. CASE UNCHANGED vars
  BY <1>1, <1>2 DEF vars, TablesInv
<1>3. CASE StartFunction \/ SkipRemainingFunctions \/ NextMethod \/ EndFunction
  <2>1. phase' \notin {"save", "saved"}
    BY <1>3 DEF StartFunction, SkipRemainingFunctions, NextMethod, EndFunction, ApplyNop,
                ApplyClusteringInVain, ApplyMethod, ThrowInvalidMethod
  <2> QED
    BY <2>1 DEF TablesInv
<1>4. CASE StartSave
  <2>1. /\ phase' = "save" /\ output = NoOutput
        /\ options' = options /\ graphs' = graphs /\ partitioningNumbers' = partitioningNumbers
        /\ DOMAIN partitioningNumbers = DOMAIN graphs
    BY <1>0, <1>4 DEF StartSave, FunctionsCovered
  <2>2. output' = [NoOutput EXCEPT
          !.threadCount = SumFunctionOnSet(Extra, DOMAIN Extra),
          !.paramCount = Cardinality(DOMAIN graphs) * (partitionCount - 1)]
    BY <1>4, <2>1, Zenon DEF StartSave, SumFunction, Extra
  <2>3. DOMAIN Extra = DOMAIN graphs
    BY <2>1 DEF Extra
  <2>4. /\ OutputRecord'
        /\ output'.threadCount = SumFunctionOnSet(Extra, DOMAIN graphs)
        /\ output'.paramCount = Cardinality(DOMAIN graphs) * (partitionCount - 1)
        /\ output'.threadNumber = 0 /\ output'.putParamStart = 0 /\ output'.hwThreadCount = 0
        /\ DOMAIN output'.threads = {} /\ DOMAIN output'.paramInits = {}
        /\ DOMAIN output'.paramStart = {} /\ DOMAIN output'.bodies = {}
    <3>1. PICK c, d : /\ c = SumFunctionOnSet(Extra, DOMAIN graphs)
                      /\ d = Cardinality(DOMAIN graphs) * (partitionCount - 1)
      OBVIOUS
    <3>2. output' = [NoOutput EXCEPT !.threadCount = c, !.paramCount = d]
      BY <2>2, <2>3, <3>1, Zenon
    <3>3. output' = [threadCount |-> c, paramCount |-> d, threadNumber |-> 0, putParamStart |-> 0,
                     hwThreadCount |-> 0, threads |-> << >>, paramInits |-> << >>,
                     paramStart |-> << >>, bodies |-> << >>, calculation |-> << >>]
      BY <3>2 DEF NoOutput
    <3> QED
      BY <3>1, <3>3 DEF OutputRecord
  <2>5. Written' = {} /\ HardwareBodies' = {} /\ Extra' = Extra /\ partitionCount' = partitionCount
    BY <2>1, <2>4 DEF Written, HardwareBodies, Extra, partitionCount
  <2>6. CountsTyped'
    BY <2>1, <2>4, <2>5, SumEmpty DEF CountsTyped
  <2>7. BodiesWritten'
    BY <2>4, <2>5 DEF BodiesWritten
  <2>8. ParamsWritten'
    BY <2>4, <2>5 DEF ParamsWritten
  <2>9. ThreadsNumbered'
    BY <2>4, <2>5 DEF ThreadsNumbered
  <2>10. HardwareCounted'
    BY <2>4, <2>5, FS_EmptySet DEF HardwareCounted
  <2>11. Tables'
    BY <2>4, <2>5, <2>6, <2>7, <2>8, <2>9, <2>10 DEF Tables
  <2> QED
    BY <2>1, <2>11 DEF TablesInv
<1>5. CASE SaveFunction
  <2>1. Tables /\ phase = "save"
    BY <1>5 DEF SaveFunction, TablesInv
  <2>2. PICK f \in DOMAIN graphs : NextFunction(f) /\
          IF ListsDefined(graphs[f], partitioningNumbers[f])
          THEN WriteFunction(f, partitioningNumbers[f]) /\ UNCHANGED phase
          ELSE phase' = "undefined" /\ UNCHANGED output
    BY <1>5 DEF SaveFunction
  <2>3. UNCHANGED <<options, graphs, partitioningNumbers>> /\ f \in DOMAIN graphs \ Written
    BY <1>5, <2>2 DEF SaveFunction, NextFunction
  <2>4. CASE WriteFunction(f, partitioningNumbers[f]) /\ phase' = phase
    BY <2>1, <2>3, <2>4, WriteKeepsTables DEF TablesInv
  <2>5. CASE phase' = "undefined"
    BY <2>5 DEF TablesInv
  <2> QED
    BY <2>2, <2>4, <2>5
<1>6. CASE EndSave
  BY <1>1, <1>6 DEF EndSave, TablesInv
<1> QED
  BY <1>2, <1>3, <1>4, <1>5, <1>6 DEF Next

(* The tables of a generated program match its code, whatever the functions *)
(* and their graphs: as many threads as THREAD_COUNT says, numbered without *)
(* gap, each with a parameter mailbox of its function within                *)
(* DATA_DEP_PARAM_COUNT, and the calculation of the one hardware partition. *)
THEOREM TablesMatchProgram == Spec => []ProgramTablesMatch
<1>1. Init => PassInv /\ TablesInv
  BY PassInitially, TablesInitially
<1>2. PassInv /\ TablesInv /\ [Next]_vars => PassInv' /\ TablesInv'
  BY PassStep, TablesStep
<1>3. PassInv /\ TablesInv => ProgramTablesMatch
  <2> SUFFICES ASSUME PassInv, TablesInv, phase = "saved"
               PROVE  /\ \A k \in DOMAIN options.functions :
                           (\A j \in 1..k : options.functions[j] \in Functions)
                           => <<options.functions[k], 0>> \in DOMAIN output.bodies
                      /\ Range(output.threads) = 0..(output.threadCount - 1)
                      /\ Cardinality(DOMAIN output.threads) = output.threadCount
                      /\ DOMAIN output.paramInits \subseteq 0..(output.paramCount - 1)
                      /\ \A f \in Written : \A d \in ParamsOf(f) : output.paramInits[d] = f
                      /\ output.hwThreadCount = Cardinality(HardwareBodies)
                      /\ \A b \in HardwareBodies : HardwareBodies = {b} => output.calculation = b
    BY DEF ProgramTablesMatch
  <2>0. PassTyped /\ FunctionsCovered /\ DOMAIN partitioningNumbers = DOMAIN graphs
    BY DEF PassInv, FunctionsCovered
  <2>1. Tables /\ Written = DOMAIN graphs
    BY DEF TablesInv
  <2>2. ASSUME NEW k \in DOMAIN options.functions, \A j \in 1..k : options.functions[j] \in Functions
        PROVE  <<options.functions[k], 0>> \in DOMAIN output.bodies
    <3>1. k < funcIt
      BY <2>0, <2>2, OptionFacts DEF FunctionsCovered, PassTyped
    <3>2. options.functions[k] \in DOMAIN graphs
      BY <2>0, <2>2, <3>1 DEF FunctionsCovered
    <3>3. partitioningNumbers[options.functions[k]] \in Nat \ {0}
      BY <2>0, <3>2, OptionFacts DEF PassTyped
    <3> QED
      BY <2>1, <3>2, <3>3 DEF Tables, BodiesWritten
  <2>3. /\ IsFiniteSet(DOMAIN graphs)
        /\ \A f \in DOMAIN graphs : /\ Extra[f] \in Int /\ Extra[f] >= 0
                                    /\ Extra[f] <= partitionCount - 1
        /\ partitionCount \in Nat
    BY <2>0, FunctionsFinite, OptionFacts DEF Extra, PassTyped
  <2>4. PICK t \in Nat : /\ t = output.threadCount /\ t = output.threadNumber
                         /\ t = output.putParamStart /\ t = SumFunctionOnSet(Extra, DOMAIN graphs)
    BY <2>1, <2>3, SumNat DEF Tables, CountsTyped
  <2>5. /\ \A u \in DOMAIN output.threads : output.threads[u] \in 0..(t - 1)
        /\ \A n \in 0..(t - 1) : \E u \in DOMAIN output.threads : output.threads[u] = n
        /\ \A u, w \in DOMAIN output.threads : output.threads[u] = output.threads[w] => u = w
    BY <2>1, <2>4 DEF Tables, ThreadsNumbered
  <2>6. Range(output.threads) = 0..(output.threadCount - 1)
    BY <2>4, <2>5 DEF Range
  <2>7. Cardinality(DOMAIN output.threads) = output.threadCount
    <3> DEFINE number == [u \in DOMAIN output.threads |-> output.threads[u]]
    <3>1. number \in Injection(DOMAIN output.threads, 0..(t - 1))
      BY <2>5 DEF Injection, IsInjective
    <3>2. number \in Surjection(DOMAIN output.threads, 0..(t - 1))
      BY <2>5 DEF Surjection
    <3>3. IsFiniteSet(0..(t - 1)) /\ Cardinality(0..(t - 1)) = t
      BY FS_Interval
    <3> HIDE DEF number
    <3>4. Cardinality(DOMAIN output.threads) = Cardinality(0..(t - 1))
      BY <3>1, <3>2, <3>3, FS_Injection
    <3> QED
      BY <2>4, <3>3, <3>4
  <2>8. DOMAIN output.paramInits \subseteq 0..(output.paramCount - 1)
    <3>1. PICK c \in Nat : c = Cardinality(DOMAIN graphs)
      BY <2>3, FS_CardinalityType
    <3>2. SumFunctionOnSet(Extra, DOMAIN graphs) <= Cardinality(DOMAIN graphs) * (partitionCount - 1)
      BY <2>3, SumBound
    <3>3. output.paramCount = Cardinality(DOMAIN graphs) * (partitionCount - 1)
      BY <2>1 DEF Tables, CountsTyped
    <3>4. output.paramCount \in Int
      BY <2>3, <3>1, <3>3
    <3>5. t <= output.paramCount
      BY <2>4, <3>2, <3>3
    <3>6. DOMAIN output.paramInits = 0..(t - 1)
      BY <2>1, <2>4 DEF Tables, ParamsWritten
    <3> QED
      BY <3>4, <3>5, <3>6
  <2>9. \A f \in Written : \A d \in ParamsOf(f) : output.paramInits[d] = f
    BY <2>1 DEF Tables, ParamsWritten
  <2>10. /\ output.hwThreadCount = Cardinality(HardwareBodies)
         /\ \A b \in HardwareBodies : HardwareBodies = {b} => output.calculation = b
    BY <2>1 DEF Tables, HardwareCounted
  <2> QED
    BY <2>2, <2>6, <2>7, <2>8, <2>9, <2>10
<1>4. QED
  BY <1>1, <1>2, <1>3, PTL DEF Spec
=============================================================================
