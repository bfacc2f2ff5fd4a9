-------------------------- MODULE PartitioningGraph --------------------------
(***************************************************************************)
(* PartitioningGraph::create: the instructions of a function are cut into  *)
(* the vertices (ComputationUnits) of the graph the partitioning methods   *)
(* work on.  createVertices looks at one instruction per step.             *)
(***************************************************************************)
EXTENDS InstructionDependencyAnalysis, FiniteSetsExt

CONSTANT Functions   \* the functions that may be partitioned

ASSUME FunctionsAssumption == \A f \in Functions : f \in Seq(Instruction) /\ f # <<>>

VARIABLES
  func,                 \* the function, a sequence of instructions
  pos,                  \* instructions handled so far
  current,              \* instructions collected for the next vertex
  isBlock,              \* inside an if statement
  isBlockCompleted,     \* its end was seen
  isPtrAssignment,      \* between the load of "status.addr" and a store
  initVertex,           \* the instructions that initialize the parameters
  vertices              \* the vertices created so far

graphVars == <<func, pos, current, isBlock, isBlockCompleted, isPtrAssignment,
               initVertex, vertices>>

InitGraph ==
  /\ func \in Functions
  /\ pos = 0
  /\ current = <<>>
  /\ isBlock = FALSE
  /\ isBlockCompleted = FALSE
  /\ isPtrAssignment = FALSE
  /\ initVertex = <<>>
  /\ vertices = <<>>

Allocas(f) == {i \in DOMAIN f : f[i].op = "alloca"}
paramCount == Cardinality(Allocas(func))

(* Cutting forgotten for returns. *)
isCuttingExceptReturn(instr) ==
  instr.op \in {"store", "binop", "call", "cmp", "zext"}

isCuttingInstr(instr) ==
  instr.op \in {"store", "binop", "call", "cmp", "zext", "ret", "retvoid"}

(* The last instruction of the basic block that begins at instruction i of f. *)
Terminator(f, i) == f[Min({t \in i..Len(f) : IsTerminator(f[t])})]

(* An unconditional branch to a block that does not end in one. *)
EndsIf(f, instr) == instr.op = "br" /\ Terminator(f, instr.succs[1]).op # "br"

IsBranch(instr) == instr.op \in {"br", "condbr"}

(* The flags after instruction instr, before it is considered for a cut. *)
BlockAfter(instr) == isBlock \/ IsBranch(instr)
CompletedAfter(instr) == isBlockCompleted \/ (isBlock /\ EndsIf(func, instr))

LoadsStatus(instr) == instr.op = "load" /\ instr.ptr = "status.addr"

PtrAssignmentAfter(instr) ==
  \/ LoadsStatus(instr)
  \/ isPtrAssignment /\ instr.op # "store"

(* The if statement forgotten. *)
CutsInsideBlock(instr) ==
  /\ isCuttingInstr(instr)
  /\ ~ PtrAssignmentAfter(instr)

CutsAt(instr) ==
  /\ isCuttingInstr(instr)
  /\ ~ PtrAssignmentAfter(instr)
  /\ BlockAfter(instr) => CompletedAfter(instr)

(* The first 2*paramCount instructions allocate and store the parameters. *)
HandleParameter ==
  /\ pos < Len(func) /\ pos < 2 * paramCount
  /\ pos' = pos + 1
  /\ IF pos' = 2 * paramCount
     THEN initVertex' = Append(current, pos') /\ current' = <<>>
     ELSE current' = Append(current, pos') /\ UNCHANGED initVertex
  /\ UNCHANGED <<func, isBlock, isBlockCompleted, isPtrAssignment, vertices>>

HandleCalculation ==
  /\ pos < Len(func) /\ pos >= 2 * paramCount
  /\ pos' = pos + 1
  /\ LET instr == func[pos + 1] IN
     /\ isPtrAssignment' = PtrAssignmentAfter(instr)
     /\ IF CutsAt(instr)
        THEN /\ vertices' = Append(vertices, Append(current, pos'))
             /\ current' = <<>>
             /\ isBlock' = FALSE
             /\ isBlockCompleted' = FALSE
        ELSE /\ current' = Append(current, pos')
             /\ isBlock' = BlockAfter(instr)
             /\ isBlockCompleted' = CompletedAfter(instr)
             /\ UNCHANGED vertices
  /\ UNCHANGED <<func, initVertex>>

createVertices == HandleParameter \/ HandleCalculation

GraphCreated == pos = Len(func)

-----------------------------------------------------------------------------
(* getVertexForInstruction; 0 is NO_SUCH_VERTEX.  The init vertex is removed *)
(* from the graph before it is partitioned.                                  *)
getVertexForInstruction(i) ==
  LET holds == {v \in DOMAIN vertices : \E k \in DOMAIN vertices[v] : vertices[v][k] = i}
  IN IF holds = {} THEN 0 ELSE Min(holds)

(* The dependencies of instructions of vertex v on instructions of vertex u. *)
Dependencies(u, v) ==
  UNION {{<<i, k>> : k \in {d \in DOMAIN getDependencies(func)[i] :
                             getVertexForInstruction(getDependencies(func)[i][d].on) = u}} :
           i \in {j \in DOMAIN func : getVertexForInstruction(j) = v}}

(* The communication operations of the edge from u to v: a register        *)
(* dependency is a data dependency, a memory or control dependency an      *)
(* order dependency.                                                       *)
addEdges(u, v) ==
  LET deps == IF u = v THEN {} ELSE Dependencies(u, v)
      data == {d \in deps : getDependencies(func)[d[1]][d[2]].kind = "reg"}
  IN [data |-> Cardinality(data), order |-> Cardinality(deps \ data)]

containsBranch(v) == \E k \in DOMAIN vertices[v] : IsBranch(func[vertices[v][k]])
-----------------------------------------------------------------------------
GraphTypeOK ==
  /\ \A i \in DOMAIN func : func[i].op \in Opcode
  /\ pos \in 0..Len(func)
  /\ current \in Seq(1..Len(func))
  /\ initVertex \in Seq(1..Len(func))
  /\ vertices \in Seq(Seq(1..Len(func)))
  /\ {isBlock, isBlockCompleted, isPtrAssignment} \subseteq BOOLEAN

(* An if statement: from its conditional branch up to the first place all  *)
(* of its paths pass.                                                      *)
IfStatement(c) ==
  LET joins == {j \in (c + 1)..(Len(func) + 1) :
                  \A b \in c..(j - 1) : \A k \in DOMAIN func[b].succs : func[b].succs[k] <= j}
  IN c..(Min(joins) - 1)

(* The functions the cut is made for: straight-line code with ifs that have *)
(* no else branch to store in, as clang emits them.                         *)
(*  - the parameters come first, one return is the last instruction;        *)
(*  - there are no loops: operands are earlier, branches lead forward to    *)
(*    the begin of a block, conditional ones to two different blocks;       *)
(*  - a condition is compared directly before its branch;                   *)
(*  - an unconditional branch is inside an if: another branch passes it;    *)
(*  - the first branch to a block that does not end in one leaves the whole *)
(*    if statement, and nothing that cuts stands between it and its target; *)
(*  - the pointer loaded from "status.addr" is used up to the next store,   *)
(*    and no branch comes before that.                                      *)
ParametersFirst(f) ==
  /\ 2 * Cardinality(Allocas(f)) < Len(f)
  /\ \A i \in 1..(2 * Cardinality(Allocas(f))) : ~ IsTerminator(f[i])
OneReturn(f) == \A i \in DOMAIN f : f[i].op \in {"ret", "retvoid"} <=> i = Len(f)
NoLoops(f) ==
  \A i \in DOMAIN f :
    /\ \A k \in DOMAIN f[i].args : f[i].args[k] \in 1..(i - 1)
    /\ \A k \in DOMAIN f[i].succs :
         f[i].succs[k] \in (i + 1)..Len(f) /\ IsTerminator(f[f[i].succs[k] - 1])
BranchesOf(f) ==
  \A i \in DOMAIN f :
    /\ ~ IsBranch(f[i]) => f[i].succs = <<>>
    /\ f[i].op = "condbr" => /\ Len(f[i].succs) = 2 /\ f[i].succs[1] # f[i].succs[2]
                             /\ i > 2 * Cardinality(Allocas(f)) + 1
                             /\ f[i - 1].op = "cmp"
    /\ f[i].op = "br" =>
         /\ Len(f[i].succs) = 1
         /\ \E b \in 1..(i - 1) : \E k \in DOMAIN f[b].succs : f[b].succs[k] > i
IfsWithoutElse(f) ==
  \A i \in DOMAIN f : EndsIf(f, f[i]) =>
    /\ \A b \in 1..(f[i].succs[1] - 1) : \A k \in DOMAIN f[b].succs : f[b].succs[k] <= f[i].succs[1]
    /\ \A b \in (i + 1)..(f[i].succs[1] - 1) : ~ isCuttingInstr(f[b])
StatusUsedAtOnce(f) ==
  \A i \in (2 * Cardinality(Allocas(f)) + 1)..Len(f) : LoadsStatus(f[i]) =>
    \E s \in (i + 1)..Len(f) :
      /\ f[s].op = "store"
      /\ \A b \in (i + 1)..(s - 1) : f[b].op # "store" /\ ~ IsTerminator(f[b])
      /\ \A j \in DOMAIN f : \A k \in DOMAIN f[j].args : f[j].args[k] = i => j <= s

Supported(f) ==
  /\ ParametersFirst(f) /\ OneReturn(f) /\ NoLoops(f)
  /\ BranchesOf(f) /\ IfsWithoutElse(f) /\ StatusUsedAtOnce(f)

InOneVertex(S) == Cardinality({getVertexForInstruction(i) : i \in S}) = 1
=============================================================================
