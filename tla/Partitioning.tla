----------------------------- MODULE Partitioning -----------------------------
(***************************************************************************)
(* The Partitioning pass on one function, and the function it produces.    *)
(* The pass creates the partitioning graph, a partitioning method assigns  *)
(* every vertex to a partition (here: any assignment), handleDependencies  *)
(* inserts a pair of calls for every dependency between two partitions,    *)
(* and savePartitioning collects what each partition's thread executes.    *)
(* Then the threads run (module PartitionThreads).                         *)
(*                                                                         *)
(* An insertion into the instruction list of a vertex is recorded at the   *)
(* instruction it is next to: before[i] and after[i] are the calls that    *)
(* were inserted directly before and after instruction i.                  *)
(***************************************************************************)
EXTENDS PartitioningGraph, SequencesExt

CONSTANTS
  Partitions,     \* the partitions, one per entry of partitioningDevices
  MboxCapacity,   \* words a data dependency's mailbox can hold
  Earlier         \* what earlier functions may have left: [deps, sems]

ASSUME PartitioningAssumption ==
  /\ MboxCapacity \in Nat \ {0}
  /\ \A e \in Earlier : e.deps \in Seq({"IntT", "RealT"}) /\ e.sems \in Nat

VARIABLES
  phase,              \* what the pass is doing
  part,               \* the partition of every vertex
  tgt, nextDep,       \* the target instruction and dependency handled next
  before, after,      \* the calls inserted around every instruction
  dataDependencies,   \* the type of every mailbox, over all functions
  depNumber,          \* number of the next mailbox, over all functions
  semNumber,          \* number of the next semaphore of this function
  semNumberMax        \* semaphores to create, over all functions

passVars == <<phase, part, tgt, nextDep, before, after,
              dataDependencies, depNumber, semNumber, semNumberMax>>

VARIABLES
  code, pc, tokens, executed,   \* the running threads, see PartitionThreads
  memory,                       \* the last store executed to every location
  seen,                         \* the store whose value a load stood for when it was used
  skipped                       \* instructions a branch has jumped over

threadVars == <<code, pc, tokens, executed>>
runVars == <<threadVars, memory, seen, skipped>>

vars == <<graphVars, passVars, runVars>>

Threads == INSTANCE PartitionThreads WITH Codes <- {}
-----------------------------------------------------------------------------
NoCode == [list |-> [p \in Partitions |-> <<>>], deps |-> {}]

Locations == {func[i].ptr : i \in {j \in DOMAIN func : func[j].op \in {"load", "store"}}}

Init ==
  /\ InitGraph
  /\ phase = "graph"
  /\ part = <<>>
  /\ tgt = 1 /\ nextDep = 1
  /\ before = [i \in DOMAIN func |-> <<>>]
  /\ after = [i \in DOMAIN func |-> <<>>]
  /\ \E e \in Earlier : dataDependencies = e.deps /\ semNumberMax = e.sems
  /\ depNumber = Len(dataDependencies)
  /\ semNumber = 1
  /\ code = NoCode
  /\ Threads!StartCall(NoCode)
  /\ memory = [l \in Locations |-> 0]
  /\ seen = {}
  /\ skipped = {}

CreateVertices ==
  /\ phase = "graph"
  /\ createVertices
  /\ UNCHANGED <<passVars, runVars>>

(* The result of the partitioning methods. *)
AssignPartitions ==
  /\ phase = "graph" /\ GraphCreated
  /\ part' \in [DOMAIN vertices -> Partitions]
  /\ phase' = "dependencies"
  /\ UNCHANGED <<graphVars, tgt, nextDep, before, after, dataDependencies,
                 depNumber, semNumber, semNumberMax, runVars>>
-----------------------------------------------------------------------------
(* handleDependencies *)

vertexOf(i) == getVertexForInstruction(i)
dependenciesOf(i) == getDependencies(func)[i]
(* useDataDepForAllFPGACom is false: the devices make no difference. *)
useSemaphores(dep) == dep.kind \in {"mem", "ctrl"}

(* Values of pointer type cannot be sent: "unhandled type". *)
CanTransfer(dep) == useSemaphores(dep) \/ func[dep.on].type \in {"int", "real"}

(* The type of the mailbox, and that with every number taken for a double. *)
DependencyTypeReal(dep) == "RealT"
DependencyType(dep) == IF func[dep.on].type = "int" THEN "IntT" ELSE "RealT"

Crosses(i, dep) ==
  /\ vertexOf(i) # 0 /\ vertexOf(dep.on) # 0
  /\ part[vertexOf(i)] # part[vertexOf(dep.on)]

(* An inserted call, the vertex it is inserted into and the instruction it *)
(* is inserted for.                                                        *)
Entry(i, call) == [op |-> call.op, n |-> call.n, v |-> vertexOf(i), of |-> i]

(* A get put where the vertex ends. *)
InsertBeforeLast(i, call) ==
  [before EXCEPT ![Last(vertices[vertexOf(i)])] = Append(@, Entry(i, call))]

InsertBefore(i, call) ==
  LET v == vertexOf(i)
      entry == Entry(i, call)
  IN IF containsBranch(v)
     THEN [before EXCEPT ![Head(vertices[v])] = <<entry>> \o @]
     ELSE [before EXCEPT ![i] = Append(@, entry)]

(* A put left inside an if statement, and one put where the vertex begins. *)
InsertDirectlyAfter(i, call) ==
  [after EXCEPT ![i] = <<Entry(i, call)>> \o @]
InsertAfterFirst(i, call) ==
  [after EXCEPT ![Head(vertices[vertexOf(i)])] = <<Entry(i, call)>> \o @]

InsertAfter(i, call) ==
  LET v == vertexOf(i)
      entry == Entry(i, call)
  IN IF containsBranch(v)
     THEN [after EXCEPT ![Last(vertices[v])] = Append(@, entry)]
     ELSE [after EXCEPT ![i] = <<entry>> \o @]

(* The dependency is not between two partitions, or not in the graph, or *)
(* its type is unhandled.                                                *)
SkipDependency ==
  /\ phase = "dependencies" /\ tgt <= Len(func)
  /\ nextDep <= Len(dependenciesOf(tgt))
  /\ LET dep == dependenciesOf(tgt)[nextDep]
     IN ~ Crosses(tgt, dep) \/ ~ CanTransfer(dep)
  /\ nextDep' = nextDep + 1
  /\ UNCHANGED <<graphVars, phase, part, tgt, before, after, dataDependencies,
                 depNumber, semNumber, semNumberMax, runVars>>

BridgeDependency ==
  /\ phase = "dependencies" /\ tgt <= Len(func)
  /\ nextDep <= Len(dependenciesOf(tgt))
  /\ LET dep == dependenciesOf(tgt)[nextDep] IN
     /\ Crosses(tgt, dep) /\ CanTransfer(dep)
     /\ IF useSemaphores(dep)
        THEN /\ before' = InsertBefore(tgt, [op |-> "wait", n |-> semNumber])
             /\ after' = InsertAfter(dep.on, [op |-> "post", n |-> semNumber])
             /\ semNumber' = semNumber + 1
             /\ UNCHANGED <<dataDependencies, depNumber>>
        ELSE /\ before' = InsertBefore(tgt, [op |-> "get", n |-> depNumber])
             /\ after' = InsertAfter(dep.on, [op |-> "put", n |-> depNumber])
             /\ dataDependencies' = Append(dataDependencies, DependencyType(dep))
             /\ depNumber' = depNumber + 1
             /\ UNCHANGED semNumber
  /\ nextDep' = nextDep + 1
  /\ UNCHANGED <<graphVars, phase, part, tgt, semNumberMax, runVars>>

NextTarget ==
  /\ phase = "dependencies" /\ tgt <= Len(func)
  /\ nextDep > Len(dependenciesOf(tgt))
  /\ tgt' = tgt + 1
  /\ nextDep' = 1
  /\ UNCHANGED <<graphVars, phase, part, before, after, dataDependencies,
                 depNumber, semNumber, semNumberMax, runVars>>
-----------------------------------------------------------------------------
(* The instructions of vertex v with the inserted calls. *)
Calls(entries) ==
  [k \in DOMAIN entries |-> [op |-> entries[k].op, n |-> entries[k].n, v |-> entries[k].v]]
InstructionCode(i, v) ==
  Calls(before[i]) \o <<[op |-> "exec", n |-> i, v |-> v]>> \o Calls(after[i])
VertexCode(v) ==
  FlattenSeq([k \in DOMAIN vertices[v] |-> InstructionCode(vertices[v][k], v)])

PartitionCode(p) ==
  FlattenSeq([v \in DOMAIN vertices |-> IF part[v] = p THEN VertexCode(v) ELSE <<>>])

(* What the function's dependencies ask of the threads; a dropped      *)
(* dependency on a pointer in another partition is not among them.     *)
RequiredOrder ==
  UNION {{<<dep.on, i>> : dep \in {d \in ToSet(dependenciesOf(i)) :
                                     Crosses(i, d) => CanTransfer(d)}} : i \in DOMAIN func}

SavePartitioning ==
  /\ phase = "dependencies" /\ tgt > Len(func)
  /\ phase' = "run"
  /\ semNumberMax' = Max({semNumberMax, semNumber})
  /\ code' = [list |-> [p \in Partitions |-> PartitionCode(p)], deps |-> RequiredOrder]
  /\ pc' = [p \in Partitions |-> 1]
  /\ tokens' = [ch \in Threads!Channels(code') |-> 0]
  /\ UNCHANGED <<graphVars, part, tgt, nextDep, before, after, dataDependencies,
                 depNumber, semNumber, executed, memory, seen, skipped>>

(* The C code of an instruction.  A load (copyVariable) only names its      *)
(* variable: the value is read by the statement that uses the load, unless  *)
(* the load is in another partition and its value came from a mailbox.  A   *)
(* phi node is assigned by the branches to it, each from its own block.     *)
LoadsNamed(i, args) ==
  {a \in args : /\ func[a].op = "load" /\ func[a].type # "ptr"
                /\ part[vertexOf(a)] = part[vertexOf(i)]}
getOperandString(i) ==
  IF func[i].op \in {"load", "getelementptr", "phi"} THEN {}
  ELSE LoadsNamed(i, ToSet(func[i].args))
generatePhiNodeAssignment(i, target) ==
  IF func[target].op # "phi" THEN {}
  ELSE LoadsNamed(i, {a \in ToSet(func[target].args) :
                        a < i /\ \A t \in a..(i - 1) : ~ IsTerminator(func[t])})

(* The values a statement reads. *)
Read(loads) == seen' = seen \union {<<a, memory[func[a].ptr]>> : a \in loads}

(* A thread executes a statement; a store is the last one to its location. *)
RunInstruction(p) ==
  /\ phase = "run"
  /\ Threads!Exec(p)
  /\ LET i == Threads!Current(p).n IN
     /\ ~ IsBranch(func[i])
     /\ memory' = IF func[i].op = "store" THEN [memory EXCEPT ![func[i].ptr] = i]
                                          ELSE memory
     /\ Read(getOperandString(i))
  /\ UNCHANGED <<graphVars, passVars, skipped>>

(* Where thread p goes on when it jumps to instruction i. *)
PositionOf(p, i) ==
  (CHOOSE k \in DOMAIN code.list[p] :
     code.list[p][k].op = "exec" /\ code.list[p][k].n = i) - Len(before[i])

(* A thread takes a branch, a conditional one either way, and skips all   *)
(* that stands between: instructions, and the calls inserted there.       *)
RunBranch(p) ==
  /\ phase = "run"
  /\ Threads!At(p, "exec")
  /\ LET i == Threads!Current(p).n IN
     /\ IsBranch(func[i])
     /\ \E k \in DOMAIN func[i].succs :
          LET to == PositionOf(p, func[i].succs[k])
              over == {e \in ToSet(SubSeq(code.list[p], pc[p] + 1, to - 1)) : e.op = "exec"}
          IN /\ pc' = [pc EXCEPT ![p] = to]
             /\ skipped' = skipped \union {e.n : e \in over}
             /\ executed' = executed \union {i} \union {e.n : e \in over}
             /\ Read(generatePhiNodeAssignment(i, func[i].succs[k]))
  /\ UNCHANGED <<graphVars, passVars, code, tokens, memory>>

(* What is put into mailbox n. *)
PutOperand(n) ==
  (CHOOSE e \in UNION {ToSet(after[i]) : i \in DOMAIN after} : e.op = "put" /\ e.n = n).of

RunCall(p) ==
  /\ phase = "run"
  /\ \/ /\ Threads!Put(p)
        /\ LET i == PutOperand(Threads!Current(p).n) IN Read(LoadsNamed(i, {i}))
     \/ /\ Threads!Get(p) \/ Threads!SemWait(p) \/ Threads!SemPost(p)
        /\ UNCHANGED seen
  /\ UNCHANGED <<graphVars, passVars, memory, skipped>>

(* The call returns; 0 stands for the value a location has before a call. *)
CallAgain ==
  /\ phase = "run"
  /\ Threads!ReturnControl
  /\ memory' = [l \in Locations |-> 0]
  /\ seen' = {}
  /\ skipped' = {}
  /\ UNCHANGED <<graphVars, passVars>>

Next ==
  \/ CreateVertices
  \/ AssignPartitions
  \/ SkipDependency
  \/ BridgeDependency
  \/ NextTarget
  \/ SavePartitioning
  \/ \E p \in Partitions : RunInstruction(p) \/ RunBranch(p) \/ RunCall(p)
  \/ CallAgain

Spec == Init /\ [][Next]_vars
-----------------------------------------------------------------------------
TypeOK ==
  /\ GraphTypeOK
  /\ phase \in {"graph", "dependencies", "run"}
  /\ phase # "graph" => part \in [DOMAIN vertices -> Partitions]
  /\ tgt \in 1..(Len(func) + 1)
  /\ semNumber \in Nat \ {0}
  /\ dataDependencies \in Seq({"IntT", "RealT"})
  /\ phase = "run" => Threads!TypeOK

(* "if statements and pointer assignment are kept together": there is no    *)
(* vertex boundary inside an if, so that no partition gets a branch without *)
(* the code it jumps over, and the pointer loaded from "status.addr" is     *)
(* used in the vertex that loads it, for pointers cannot be sent to another *)
(* partition.                                                               *)
StatementsKeptTogether ==
  phase = "graph" /\ GraphCreated =>
    \A i \in DOMAIN func :
      /\ func[i].op = "condbr" => InOneVertex(IfStatement(i))
      /\ i > 2 * paramCount /\ LoadsStatus(func[i]) =>
           InOneVertex({i} \union {j \in DOMAIN func :
                                 \E k \in DOMAIN func[j].args : func[j].args[k] = i})

(* No instruction is lost: behind the last cut nothing is left over, and    *)
(* the vertices hold every instruction in the order of the function.  So    *)
(* every edge of the graph leads to a later vertex and there is no cycle,   *)
(* which the critical path (Bellman-Ford with negative weights) and the     *)
(* schedule of a partition's vertices rely on.                              *)
GraphCoversFunction ==
  phase = "graph" /\ GraphCreated =>
    /\ current = <<>>
    /\ \A i, j \in (2 * paramCount + 1)..Len(func) :
         i <= j => getVertexForInstruction(i) \in 1..getVertexForInstruction(j)
    /\ \A u, v \in DOMAIN vertices :
         addEdges(u, v).data + addEdges(u, v).order > 0 => u < v

(* Whatever the partitioning method chose, handleDependencies emits code   *)
(* that meets the contract PartitionThreads is proved under: every channel *)
(* has one sender and one receiver, the send stands in an earlier vertex,  *)
(* and every dependency between partitions is bridged - also when the get  *)
(* was moved to the begin and the put to the end of a vertex with a branch. *)
GeneratedCodeWellFormed ==
  phase = "run" /\ executed = {} => Threads!WellFormed(code)

(* The mailboxes and semaphores used are those savePartitioning creates:   *)
(* the data dependencies are numbered on over all functions and their type *)
(* is that of the value sent; semaphores start at 1 (0 is return control)  *)
(* and there are as many as the most demanding function needs.  All of the *)
(* state keeps its type.                                                   *)
ResourcesMatch ==
  /\ TypeOK
  /\ Len(dataDependencies) = depNumber
  /\ \A i \in DOMAIN func : \A k \in DOMAIN after[i] :
       LET call == after[i][k]
       IN IF call.op = "put"
          THEN /\ call.n < Len(dataDependencies)
               /\ \E j \in (IF containsBranch(call.v) THEN ToSet(vertices[call.v]) ELSE {i}) :
                    func[j].type = IF dataDependencies[call.n + 1] = "IntT"
                                   THEN "int" ELSE "real"
          ELSE call.n \in 1..((IF phase = "run" THEN semNumberMax ELSE semNumber) - 1)

(* The generated threads never all wait for each other, whichever branches *)
(* are taken, and a call leaves no word and no count for the next one.     *)
CallsComplete == phase = "run" => Threads!NoDeadlock /\ Threads!DrainedAtReturn

(* No thread executes an instruction before all it depends on, wherever *)
(* those are executed.                                                  *)
DependenciesFirst ==
  phase = "run" =>
    \A ji \in code.deps :
      ji[2] \in executed /\ vertexOf(ji[1]) # 0 => ji[1] \in executed

(* The store whose value load i reads in the sequential function, when the *)
(* branches are taken as the threads took them.                            *)
SequentialSource(i) ==
  LET stores == {j \in 1..(i - 1) : func[j].op = "store" /\ func[j].ptr = func[i].ptr
                                    /\ vertexOf(j) # 0 /\ j \notin skipped}
  IN IF stores = {} THEN 0 ELSE Max(stores)

(* A location that is stored once, before it is loaded. *)
SingleAssignment(l) ==
  \A i, j \in DOMAIN func :
    /\ func[j].op = "store" /\ func[j].ptr = l
    /\ func[i].op \in {"load", "store"} /\ func[i].ptr = l
    => i >= j

OnePartition == Cardinality({part[v] : v \in DOMAIN vertices}) = 1

(* Loads as clang emits them for most statements: behind the parameters,   *)
(* and between a load and a use of it nothing is stored to its location    *)
(* (unlike b = a++).  A store has no value to use.                         *)
LoadsUsedAtOnce(f) ==
  /\ \A i \in DOMAIN f : f[i].op = "load" => i > 2 * Cardinality(Allocas(f))
  /\ \A i \in DOMAIN f : \A k \in DOMAIN f[i].args :
       LET a == f[i].args[k]
       IN /\ f[a].op # "store"
          /\ f[a].op = "load" =>
               \A s \in (a + 1)..(i - 1) : f[s].op = "store" => f[s].ptr # f[a].ptr

(* Loads of locations that are written once have the value of the           *)
(* sequential function whenever they are used, although the generated code  *)
(* reads the variable only then: the semaphores of memory dependencies      *)
(* order store and load.  In one partition this holds of all locations of a *)
(* function with LoadsUsedAtOnce.                                           *)
SingleAssignmentValues ==
  \A x \in seen :
    SingleAssignment(func[x[1]].ptr) \/ OnePartition => x[2] = SequentialSource(x[1])

(* Every load has the value it has in the sequential function. *)
LoadsSeeSequentialValue == \A x \in seen : x[2] = SequentialSource(x[1])
=============================================================================
