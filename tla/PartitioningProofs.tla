------------------------- MODULE PartitioningProofs -------------------------
(***************************************************************************)
(* Proofs about Partitioning, for every function createVertices is made    *)
(* for and every assignment of its vertices to partitions: the graph       *)
(* covers the function and keeps statements together; the calls inserted   *)
(* by handleDependencies bridge every dependency, so the code generated    *)
(* for the threads meets the contract of PartitionThreads; so the threads  *)
(* complete every call and execute nothing too early; and so loads have    *)
(* the values of the sequential function.                                  *)
(***************************************************************************)
EXTENDS Partitioning, SumTheorems, SequenceTheorems

Params == 2 * paramCount

(* Where the last vertex ends: the instructions up to here are cut. *)
Base == pos - Len(current)

(* A pointer was loaded up to k and not yet stored through. *)
PointerOpen(k) ==
  \E i \in (Params + 1)..k :
    LoadsStatus(func[i]) /\ \A s \in (i + 1)..k : func[s].op # "store"

(* A place where the list may be cut: no branch leads past it and no      *)
(* pointer loaded before it is still in use.                              *)
Closed(k) ==
  /\ \A b \in 1..k : \A s \in DOMAIN func[b].succs : func[b].succs[s] <= k
  /\ ~ PointerOpen(k)

(* The instructions collected are those behind the last cut. *)
CurrentIsTail ==
  /\ Len(current) <= pos
  /\ \A k \in DOMAIN current : current[k] = Base + k
  /\ pos < Params => Base = 0
  /\ pos >= Params => Base >= Params

(* The vertices are intervals, one behind the other, and leave no gap. *)
VerticesOrdered ==
  /\ \A v \in DOMAIN vertices :
       /\ vertices[v] # <<>>
       /\ \A k \in DOMAIN vertices[v] :
            /\ vertices[v][k] \in (Params + 1)..Base
            /\ vertices[v][k] = vertices[v][1] + (k - 1)
  /\ \A u, v \in DOMAIN vertices : u < v =>
       \A k \in DOMAIN vertices[u] : \A l \in DOMAIN vertices[v] : vertices[u][k] < vertices[v][l]
VerticesCover ==
  \A i \in (Params + 1)..Base :
    \E v \in DOMAIN vertices : \E k \in DOMAIN vertices[v] : vertices[v][k] = i

(* Every cut was made where it may be. *)
CutsClosed ==
  /\ pos >= Params => Closed(Base)
  /\ \A v \in DOMAIN vertices : Closed(vertices[v][Len(vertices[v])])

(* Instruction e ended the if statement: no branch follows its end, and    *)
(* what cuts was kept only for a pointer in use.                           *)
Ended(e) ==
  /\ EndsIf(func, func[e])
  /\ \A b \in func[e].succs[1]..pos : ~ IsBranch(func[b])
  /\ \A k \in (e + 1)..pos : isCuttingInstr(func[k]) => PointerOpen(k)

(* What the three flags say of the instructions behind the last cut. *)
FlagsRight ==
  /\ isBlock <=> \E b \in (Base + 1)..pos : IsBranch(func[b])
  /\ ~ isBlockCompleted => \A b \in (Base + 1)..pos : ~ EndsIf(func, func[b])
  /\ isBlockCompleted => \E e \in (Base + 1)..pos : Ended(e)
  /\ isPtrAssignment <=> PointerOpen(pos)

GraphTyped ==
  /\ func \in Functions
  /\ pos \in 0..Len(func)
  /\ current \in Seq(1..Len(func))
  /\ initVertex \in Seq(1..Len(func))
  /\ vertices \in Seq(Seq(1..Len(func)))
  /\ isBlock \in BOOLEAN /\ isBlockCompleted \in BOOLEAN /\ isPtrAssignment \in BOOLEAN

GraphInv ==
  /\ GraphTyped
  /\ CurrentIsTail
  /\ VerticesOrdered
  /\ VerticesCover
  /\ CutsClosed
  /\ pos < Params => ~ isBlock /\ ~ isBlockCompleted /\ ~ isPtrAssignment
  /\ pos >= Params => FlagsRight
  /\ pos = Len(func) => current = <<>>

(* The hypothesis of the theorems: createVertices is made for the functions. *)
AllSupported == \A f \in Functions : Supported(f)
-----------------------------------------------------------------------------
(* A sequence whose entries are all in S. *)
LEMMA SequenceInto ==
  ASSUME NEW T, NEW s \in Seq(T), NEW S, \A k \in 1..Len(s) : s[k] \in S
  PROVE  s \in Seq(S)
<1>1. s \in [1..Len(s) -> S]
  <2>1. s = [k \in 1..Len(s) |-> s[k]]
    OBVIOUS
  <2> QED BY <2>1
<1>2. Len(s) \in Nat
  OBVIOUS
<1> QED BY <1>1, <1>2

(* The number of parameters is a number, and the function is what clang emits. *)
LEMMA FunctionFacts ==
  ASSUME func \in Functions, AllSupported
  PROVE  /\ func \in Seq(Instruction) /\ Len(func) \in Nat /\ Len(func) > 0
         /\ DOMAIN func = 1..Len(func)
         /\ paramCount \in Nat /\ Params \in Nat /\ Params < Len(func)
         /\ Params = 2 * Cardinality(Allocas(func))
         /\ Supported(func)
<1>1. func \in Seq(Instruction) /\ func # <<>>
  BY FunctionsAssumption
<1>2. Len(func) \in Nat /\ Len(func) > 0 /\ DOMAIN func = 1..Len(func)
  BY <1>1
<1>3. IsFiniteSet(Allocas(func))
  <2>1. IsFiniteSet(1..Len(func))
    BY <1>2, FS_Interval
  <2>2. Allocas(func) \subseteq 1..Len(func)
    BY <1>2 DEF Allocas
  <2> QED BY <2>1, <2>2, FS_Subset
<1>4. paramCount \in Nat
  BY <1>3, FS_CardinalityType DEF paramCount
<1>5. Supported(func)
  BY DEF AllSupported
<1>6. Params \in Nat /\ Params = 2 * Cardinality(Allocas(func))
  BY <1>4 DEF Params, paramCount
<1>7. Params < Len(func)
  BY <1>5, <1>6 DEF Supported, ParametersFirst
<1> QED BY <1>1, <1>2, <1>4, <1>5, <1>6, <1>7

(* What a supported function has at an instruction. *)
LEMMA InstructionFacts ==
  ASSUME func \in Functions, AllSupported, NEW i \in 1..Len(func)
  PROVE  /\ func[i].op \in Opcode
         /\ func[i].args \in Seq(1..(i - 1))
         /\ func[i].succs \in Seq((i + 1)..Len(func))
         /\ \A k \in DOMAIN func[i].succs : IsTerminator(func[func[i].succs[k] - 1])
         /\ ~ IsBranch(func[i]) => func[i].succs = <<>>
         /\ i <= Params => ~ IsTerminator(func[i])
         /\ func[i].op \in {"ret", "retvoid"} <=> i = Len(func)
         /\ IsTerminator(func[i]) <=> IsBranch(func[i]) \/ i = Len(func)
<1> USE FunctionFacts
<1>1. func[i] \in Instruction
  OBVIOUS
<1>2. func[i].op \in Opcode /\ func[i].args \in Seq(Nat) /\ func[i].succs \in Seq(Nat)
  BY <1>1 DEF Instruction
<1>3. func[i].args \in Seq(1..(i - 1))
  <2>1. PICK s \in Seq(Nat) : s = func[i].args
    BY <1>2
  <2>2. \A k \in 1..Len(s) : s[k] \in 1..(i - 1)
    <3>1. \A k \in DOMAIN func[i].args : func[i].args[k] \in 1..(i - 1)
      BY DEF Supported, NoLoops
    <3> QED BY <2>1, <3>1
  <2>3. s \in Seq(1..(i - 1))
    BY <2>1, <2>2, SequenceInto
  <2> QED BY <2>1, <2>3
<1>4. func[i].succs \in Seq((i + 1)..Len(func))
  <2>1. PICK s \in Seq(Nat) : s = func[i].succs
    BY <1>2
  <2>2. \A k \in 1..Len(s) : s[k] \in (i + 1)..Len(func)
    <3>1. \A k \in DOMAIN func[i].succs : func[i].succs[k] \in (i + 1)..Len(func)
      BY DEF Supported, NoLoops
    <3> QED BY <2>1, <3>1
  <2>3. s \in Seq((i + 1)..Len(func))
    BY <2>1, <2>2, SequenceInto
  <2> QED BY <2>1, <2>3
<1>5. \A k \in DOMAIN func[i].succs : IsTerminator(func[func[i].succs[k] - 1])
  BY DEF Supported, NoLoops
<1>6. ~ IsBranch(func[i]) => func[i].succs = <<>>
  BY DEF Supported, BranchesOf
<1>7. i <= Params => ~ IsTerminator(func[i])
  BY DEF Supported, ParametersFirst
<1>8. func[i].op \in {"ret", "retvoid"} <=> i = Len(func)
  BY DEF Supported, OneReturn
<1>9. IsTerminator(func[i]) <=> IsBranch(func[i]) \/ i = Len(func)
  BY <1>8 DEF IsTerminator, IsBranch
<1> QED BY <1>2, <1>3, <1>4, <1>5, <1>6, <1>7, <1>8, <1>9

(* The numbers of the invariant. *)
LEMMA GraphNumbers ==
  ASSUME GraphInv, AllSupported
  PROVE  /\ func \in Functions /\ pos \in Nat /\ pos <= Len(func)
         /\ Len(current) \in Nat /\ Len(current) <= pos
         /\ Base \in Nat /\ Base <= pos
         /\ Len(func) \in Nat /\ DOMAIN func = 1..Len(func)
         /\ Params \in Nat /\ Params < Len(func)
<1>1. GraphTyped /\ CurrentIsTail
  BY DEF GraphInv
<1>2. func \in Functions /\ pos \in 0..Len(func) /\ current \in Seq(1..Len(func))
  BY <1>1 DEF GraphTyped
<1>3. Len(func) \in Nat /\ DOMAIN func = 1..Len(func) /\ Params \in Nat /\ Params < Len(func)
  BY <1>2, FunctionFacts
<1>4. Len(current) \in Nat /\ Len(current) <= pos
  BY <1>1, <1>2 DEF CurrentIsTail
<1> QED BY <1>2, <1>3, <1>4 DEF Base

(* isPtrAssignment after an instruction says whether a pointer is in use. *)
LEMMA PointerFlag ==
  ASSUME GraphInv, AllSupported, pos < Len(func), pos >= Params
  PROVE  PtrAssignmentAfter(func[pos + 1]) <=> PointerOpen(pos + 1)
<1> USE GraphNumbers
<1>1. isPtrAssignment <=> PointerOpen(pos)
  BY DEF GraphInv, FlagsRight
<1>2. ASSUME PtrAssignmentAfter(func[pos + 1]) PROVE PointerOpen(pos + 1)
  <2>1. CASE LoadsStatus(func[pos + 1])
    BY <2>1 DEF PointerOpen
  <2>2. CASE isPtrAssignment /\ func[pos + 1].op # "store"
    <3>1. PICK i \in (Params + 1)..pos :
            LoadsStatus(func[i]) /\ \A s \in (i + 1)..pos : func[s].op # "store"
      BY <1>1, <2>2 DEF PointerOpen
    <3>2. i \in (Params + 1)..(pos + 1) /\ \A s \in (i + 1)..(pos + 1) : func[s].op # "store"
      BY <2>2, <3>1
    <3> QED BY <3>1, <3>2 DEF PointerOpen
  <2> QED BY <1>2, <2>1, <2>2 DEF PtrAssignmentAfter
<1>3. ASSUME PointerOpen(pos + 1) PROVE PtrAssignmentAfter(func[pos + 1])
  <2>1. PICK i \in (Params + 1)..(pos + 1) :
          LoadsStatus(func[i]) /\ \A s \in (i + 1)..(pos + 1) : func[s].op # "store"
    BY <1>3 DEF PointerOpen
  <2>2. CASE i = pos + 1
    BY <2>1, <2>2 DEF PtrAssignmentAfter
  <2>3. CASE i # pos + 1
    <3>1. i \in (Params + 1)..pos /\ \A s \in (i + 1)..pos : func[s].op # "store"
      BY <2>1, <2>3
    <3>2. func[pos + 1].op # "store"
      BY <2>1, <2>3
    <3>3. isPtrAssignment
      BY <1>1, <2>1, <3>1 DEF PointerOpen
    <3> QED BY <3>2, <3>3 DEF PtrAssignmentAfter
  <2> QED BY <2>2, <2>3
<1> QED BY <1>2, <1>3

(* A pointer in use is stored through before a branch or a return comes. *)
LEMMA OpenPointer ==
  ASSUME func \in Functions, AllSupported, NEW k \in 1..(Len(func) - 1), PointerOpen(k)
  PROVE  ~ IsTerminator(func[k + 1])
<1> USE FunctionFacts
<1>1. PICK i \in (Params + 1)..k :
        LoadsStatus(func[i]) /\ \A s \in (i + 1)..k : func[s].op # "store"
  BY DEF PointerOpen
<1>2. i \in (2 * Cardinality(Allocas(func)) + 1)..Len(func)
  BY <1>1
<1>3. PICK s \in (i + 1)..Len(func) :
        /\ func[s].op = "store"
        /\ \A b \in (i + 1)..(s - 1) : func[b].op # "store" /\ ~ IsTerminator(func[b])
  BY <1>1, <1>2 DEF Supported, StatusUsedAtOnce
<1>4. s > k
  BY <1>1, <1>3
<1>5. CASE s = k + 1
  BY <1>3, <1>5 DEF IsTerminator
<1>6. CASE s > k + 1
  BY <1>1, <1>3, <1>6
<1> QED BY <1>1, <1>3, <1>4, <1>5, <1>6

(* The if statement that e ended has its last place behind e and before k. *)
LEMMA EndFacts ==
  ASSUME func \in Functions, AllSupported, NEW e \in 1..Len(func), EndsIf(func, func[e])
  PROVE  /\ IsBranch(func[e])
         /\ func[e].succs[1] \in (e + 1)..Len(func)
         /\ \A b \in 1..(func[e].succs[1] - 1) : \A k \in DOMAIN func[b].succs :
              func[b].succs[k] <= func[e].succs[1]
         /\ \A b \in (e + 1)..(func[e].succs[1] - 1) : ~ isCuttingInstr(func[b])
<1> USE FunctionFacts
<1>1. func[e].op = "br"
  BY DEF EndsIf
<1>2. Len(func[e].succs) = 1
  BY <1>1 DEF Supported, BranchesOf
<1>3. func[e].succs \in Seq((e + 1)..Len(func))
  BY InstructionFacts
<1>4. func[e].succs[1] \in (e + 1)..Len(func)
  BY <1>2, <1>3
<1>5. /\ \A b \in 1..(func[e].succs[1] - 1) : \A k \in DOMAIN func[b].succs :
           func[b].succs[k] <= func[e].succs[1]
      /\ \A b \in (e + 1)..(func[e].succs[1] - 1) : ~ isCuttingInstr(func[b])
  BY DEF Supported, IfsWithoutElse
<1> QED BY <1>1, <1>4, <1>5 DEF IsBranch

(* An unconditional branch is never the first one behind a cut. *)
LEMMA InsideBlock ==
  ASSUME GraphInv, AllSupported, pos < Len(func), pos >= Params, func[pos + 1].op = "br"
  PROVE  \E b \in (Base + 1)..pos :
           IsBranch(func[b]) /\ \E k \in DOMAIN func[b].succs : func[b].succs[k] > pos + 1
<1> USE GraphNumbers
<1>1. PICK b \in 1..pos : \E k \in DOMAIN func[b].succs : func[b].succs[k] > pos + 1
  <2>1. Supported(func)
    BY FunctionFacts
  <2>2. \E b \in 1..((pos + 1) - 1) : \E k \in DOMAIN func[b].succs : func[b].succs[k] > pos + 1
    BY <2>1 DEF Supported, BranchesOf
  <2> QED BY <2>2
<1>2. PICK k \in DOMAIN func[b].succs : func[b].succs[k] > pos + 1
  BY <1>1
<1>i. b \in 1..Len(func)
  BY <1>1
<1>3. func[b].succs \in Seq((b + 1)..Len(func))
  BY <1>i, InstructionFacts
<1>4. func[b].succs[k] \in (b + 1)..Len(func)
  BY <1>2, <1>3
<1>5. b > Base
  <2>1. Closed(Base)
    BY DEF GraphInv, CutsClosed
  <2>2. b <= Base => func[b].succs[k] <= Base
    BY <1>1, <1>2, <2>1 DEF Closed
  <2> QED BY <1>1, <1>2, <1>4, <2>2
<1>6. IsBranch(func[b])
  <2>1. func[b].succs # <<>>
    BY <1>2
  <2> QED BY <1>i, <2>1, InstructionFacts
<1> QED BY <1>1, <1>2, <1>5, <1>6

(* createVertices cuts only where it may. *)
LEMMA CutIsClosed ==
  ASSUME GraphInv, AllSupported, pos < Len(func), pos >= Params, CutsAt(func[pos + 1])
  PROVE  Closed(pos + 1)
<1> USE GraphNumbers
<1>1. ~ PointerOpen(pos + 1)
  BY PointerFlag DEF CutsAt
<1>2. ~ IsBranch(func[pos + 1]) /\ isCuttingInstr(func[pos + 1])
  BY DEF CutsAt, isCuttingInstr, IsBranch
<1>3. isBlock => isBlockCompleted
  <2>1. ~ EndsIf(func, func[pos + 1])
    BY <1>2 DEF EndsIf, IsBranch
  <2> QED BY <1>2, <2>1 DEF CutsAt, BlockAfter, CompletedAfter
<1>4. Closed(Base) /\ FlagsRight
  BY DEF GraphInv, CutsClosed
<1>5. ASSUME NEW b \in 1..(pos + 1), NEW s \in DOMAIN func[b].succs
      PROVE  func[b].succs[s] <= pos + 1
  <2>1. IsBranch(func[b])
    <3>1. func[b].succs # <<>>
      BY <1>5
    <3> QED BY <3>1, InstructionFacts
  <2>2. b \in 1..pos
    BY <1>2, <2>1
  <2>3. func[b].succs[s] \in Nat
    <3>1. func[b].succs \in Seq((b + 1)..Len(func))
      BY <2>2, InstructionFacts
    <3> QED BY <3>1
  <2>4. CASE b <= Base
    BY <1>4, <2>2, <2>3, <2>4 DEF Closed
  <2>5. CASE b > Base
    <3>1. isBlock
      BY <1>4, <2>1, <2>2, <2>5 DEF FlagsRight
    <3>2. PICK e \in (Base + 1)..pos : Ended(e)
      BY <1>3, <1>4, <3>1 DEF FlagsRight
    <3>3. e \in 1..Len(func) /\ EndsIf(func, func[e])
      BY <3>2 DEF Ended
    <3>4. PICK j \in Nat : j = func[e].succs[1]
      BY <3>3, EndFacts
    <3>5. j <= pos + 1
      <4>1. \A c \in (e + 1)..(j - 1) : ~ isCuttingInstr(func[c])
        BY <3>3, <3>4, EndFacts
      <4> QED BY <1>2, <3>2, <3>4, <4>1
    <3>6. b < j
      BY <2>1, <2>2, <3>2, <3>4 DEF Ended
    <3>7. func[b].succs[s] <= j
      <4>1. b \in 1..(j - 1)
        BY <2>2, <3>4, <3>6
      <4> QED BY <3>3, <3>4, <4>1, EndFacts
    <3> QED BY <2>3, <3>4, <3>5, <3>7
  <2> QED BY <2>2, <2>4, <2>5
<1> QED BY <1>1, <1>5 DEF Closed

(* The last branch of a function leads to the block with the return. *)
LEMMA LastBranchEnds ==
  ASSUME func \in Functions, AllSupported,
         NEW m \in 1..(Len(func) - 1), IsBranch(func[m]),
         \A b \in (m + 1)..(Len(func) - 1) : ~ IsBranch(func[b])
  PROVE  EndsIf(func, func[m])
<1> USE FunctionFacts
<1>i. m \in 1..Len(func)
  OBVIOUS
<1>1. func[m].succs \in Seq((m + 1)..Len(func))
  BY <1>i, InstructionFacts
<1>2. \A k \in DOMAIN func[m].succs : func[m].succs[k] = m + 1
  <2> TAKE k \in DOMAIN func[m].succs
  <2>1. PICK t \in (m + 1)..Len(func) : t = func[m].succs[k]
    BY <1>1
  <2>2. IsTerminator(func[t - 1])
    BY <1>i, <2>1, InstructionFacts
  <2>3. t - 1 \in 1..Len(func) /\ t - 1 # Len(func)
    BY <2>1
  <2>4. IsBranch(func[t - 1])
    BY <2>2, <2>3, InstructionFacts
  <2>5. ~ (t - 1 \in (m + 1)..(Len(func) - 1))
    BY <2>4
  <2> QED BY <2>1, <2>5
<1>3. func[m].op # "condbr"
  <2>1. func[m].op = "condbr" => Len(func[m].succs) = 2 /\ func[m].succs[1] # func[m].succs[2]
    BY DEF Supported, BranchesOf
  <2>2. Len(func[m].succs) = 2 => 1 \in DOMAIN func[m].succs /\ 2 \in DOMAIN func[m].succs
    BY <1>1
  <2> QED BY <1>2, <2>1, <2>2
<1>4. func[m].op = "br"
  BY <1>3 DEF IsBranch
<1>5. func[m].succs[1] = m + 1
  <2>1. Len(func[m].succs) = 1
    BY <1>4 DEF Supported, BranchesOf
  <2>2. 1 \in DOMAIN func[m].succs
    BY <1>1, <2>1
  <2> QED BY <1>2, <2>2
<1>6. {t \in (m + 1)..Len(func) : IsTerminator(func[t])} = {Len(func)}
  <2>1. IsTerminator(func[Len(func)])
    <3>1. Len(func) \in 1..Len(func)
      OBVIOUS
    <3> QED BY <3>1, InstructionFacts
  <2>2. ASSUME NEW t \in (m + 1)..Len(func), IsTerminator(func[t]) PROVE t = Len(func)
    <3>1. t \in 1..Len(func)
      OBVIOUS
    <3>2. IsBranch(func[t]) \/ t = Len(func)
      BY <2>2, <3>1, InstructionFacts
    <3>n. PICK n \in Nat : n = Len(func)
      OBVIOUS
    <3>3. t # Len(func) => t \in (m + 1)..(Len(func) - 1)
      <4>1. t \in (m + 1)..n /\ m \in 1..(n - 1)
        BY <2>2, <3>n
      <4>2. t # n => t \in (m + 1)..(n - 1)
        BY <4>1
      <4> QED BY <3>n, <4>2
    <3> QED BY <3>2, <3>3
  <2>3. Len(func) \in (m + 1)..Len(func)
    OBVIOUS
  <2> QED BY <2>1, <2>2, <2>3
<1>7. Min({Len(func)}) = Len(func)
  BY DEF Min
<1>8. func[Len(func)].op # "br"
  <2>1. Len(func) \in 1..Len(func)
    OBVIOUS
  <2>2. func[Len(func)].op \in {"ret", "retvoid"}
    BY <2>1, InstructionFacts
  <2> QED BY <2>2
<1> QED BY <1>4, <1>5, <1>6, <1>7, <1>8 DEF EndsIf, Terminator

(* The return is in a vertex: nothing is left over. *)
LEMMA ReturnCuts ==
  ASSUME GraphInv, AllSupported, pos + 1 = Len(func), pos >= Params
  PROVE  CutsAt(func[pos + 1])
<1> USE GraphNumbers
<1>1. func[pos + 1].op \in {"ret", "retvoid"}
  <2>1. pos + 1 \in 1..Len(func)
    OBVIOUS
  <2> QED BY <2>1, InstructionFacts
<1>2. FlagsRight
  BY DEF GraphInv
<1>3. ~ PointerOpen(pos + 1)
  <2> SUFFICES ASSUME PointerOpen(pos + 1) PROVE FALSE
    OBVIOUS
  <2>1. isPtrAssignment
    BY <1>1, PointerFlag DEF PtrAssignmentAfter, LoadsStatus
  <2>2. PointerOpen(pos)
    BY <1>2, <2>1 DEF FlagsRight
  <2>3. pos \in 1..(Len(func) - 1)
    BY <2>2 DEF PointerOpen
  <2>4. ~ IsTerminator(func[pos + 1])
    BY <2>2, <2>3, OpenPointer
  <2> QED BY <1>1, <2>4 DEF IsTerminator
<1>4. ~ PtrAssignmentAfter(func[pos + 1])
  BY <1>3, PointerFlag
<1>5. BlockAfter(func[pos + 1]) = isBlock
  BY <1>1, <1>2 DEF BlockAfter, IsBranch, GraphInv, GraphTyped
<1>6. ASSUME isBlock PROVE isBlockCompleted
  <2> SUFFICES ASSUME ~ isBlockCompleted PROVE FALSE
    OBVIOUS
  <2>1. PICK c \in (Base + 1)..pos : IsBranch(func[c])
    BY <1>2, <1>6 DEF FlagsRight
  <2> DEFINE B == {b \in (Base + 1)..pos : IsBranch(func[b])}
  <2>2. IsFiniteSet(B) /\ B \subseteq Int /\ B # {}
    <3>1. IsFiniteSet((Base + 1)..pos)
      BY FS_Interval
    <3>2. B \subseteq (Base + 1)..pos
      OBVIOUS
    <3> QED BY <2>1, <3>1, <3>2, FS_Subset
  <2>3. PICK m \in B : \A y \in B : m >= y
    <3> HIDE DEF B
    <3> QED BY <2>2, MaxInt
  <2>4. m \in 1..(Len(func) - 1) /\ IsBranch(func[m])
    BY <2>3
  <2>5. \A b \in (m + 1)..(Len(func) - 1) : ~ IsBranch(func[b])
    BY <2>3
  <2>6. EndsIf(func, func[m])
    BY <2>4, <2>5, LastBranchEnds
  <2> QED BY <1>2, <2>3, <2>6 DEF FlagsRight
<1> QED BY <1>1, <1>4, <1>5, <1>6 DEF CutsAt, CompletedAfter, isCuttingInstr
-----------------------------------------------------------------------------
(* What is said of the function does not change. *)
LEMMA SameFunction ==
  ASSUME func' = func
  PROVE  /\ Params' = Params
         /\ \A k : PointerOpen(k)' <=> PointerOpen(k)
         /\ \A k : Closed(k)' <=> Closed(k)
<1>1. Params' = Params
  BY DEF Params, paramCount
<1>2. ASSUME NEW k PROVE PointerOpen(k)' <=> PointerOpen(k)
  BY <1>1 DEF PointerOpen
<1>3. ASSUME NEW k PROVE Closed(k)' <=> Closed(k)
  BY <1>2 DEF Closed
<1> QED BY <1>1, <1>2, <1>3

(* At first nothing is cut. *)
LEMMA GraphInitially == ASSUME InitGraph, AllSupported PROVE GraphInv
<1>1. func \in Functions
  BY DEF InitGraph
<1> USE FunctionFacts
<1>2. GraphTyped
  <2>1. Len(func) \in Nat
    BY <1>1
  <2>2. 0 \in 0..Len(func) /\ <<>> \in Seq(1..Len(func)) /\ <<>> \in Seq(Seq(1..Len(func)))
    BY <2>1
  <2> QED BY <1>1, <2>2 DEF InitGraph, GraphTyped
<1>3. Base = 0 /\ Len(current) = 0 /\ DOMAIN current = {} /\ DOMAIN vertices = {}
  <2>1. pos = 0 /\ current = <<>> /\ vertices = <<>>
    BY DEF InitGraph
  <2>2. Len(current) = 0 /\ DOMAIN current = {} /\ DOMAIN vertices = {}
    BY <2>1
  <2>3. Base = 0 - 0
    BY <2>1, <2>2 DEF Base
  <2> QED BY <2>2, <2>3
<1>4. CurrentIsTail
  BY <1>1, <1>3 DEF CurrentIsTail, InitGraph
<1>5. VerticesOrdered
  BY <1>1, <1>3 DEF VerticesOrdered
<1>6. VerticesCover
  BY <1>1, <1>3 DEF VerticesCover
<1>7. ~ PointerOpen(0)
  BY <1>1 DEF PointerOpen
<1>8. CutsClosed
  BY <1>1, <1>3, <1>7 DEF CutsClosed, Closed
<1>9. FlagsRight
  BY <1>1, <1>3, <1>7 DEF FlagsRight, InitGraph
<1> QED BY <1>2, <1>4, <1>5, <1>6, <1>8, <1>9 DEF GraphInv, InitGraph

(* The parameters. *)
LEMMA ParameterKeeps ==
  ASSUME GraphInv, AllSupported, HandleParameter PROVE GraphInv'
<1> USE GraphNumbers
<1>1. /\ func' = func /\ pos' = pos + 1 /\ vertices' = vertices
      /\ isBlock' = isBlock /\ isBlockCompleted' = isBlockCompleted
      /\ isPtrAssignment' = isPtrAssignment
  BY DEF HandleParameter
<1>2. pos < Len(func) /\ pos < Params
  BY DEF HandleParameter, Params
<1>3. /\ Params' = Params
      /\ \A k : PointerOpen(k)' <=> PointerOpen(k)
      /\ \A k : Closed(k)' <=> Closed(k)
  BY <1>1, SameFunction
<1>4. Base = 0 /\ ~ isBlock /\ ~ isBlockCompleted /\ ~ isPtrAssignment
  BY <1>2 DEF GraphInv, CurrentIsTail
<1>5. GraphTyped
  BY DEF GraphInv
<1>6. DOMAIN vertices = {}
  <2> SUFFICES ASSUME NEW v \in DOMAIN vertices PROVE FALSE
    OBVIOUS
  <2>1. vertices[v] # <<>> /\ vertices[v] \in Seq(1..Len(func))
    BY <1>5 DEF GraphInv, VerticesOrdered, GraphTyped
  <2>2. 1 \in DOMAIN vertices[v]
    BY <2>1
  <2>3. vertices[v][1] \in (Params + 1)..0
    BY <1>4, <2>2 DEF GraphInv, VerticesOrdered
  <2> QED BY <2>3
<1>7. ~ PointerOpen(Params)
  BY DEF PointerOpen
<1>8. Closed(Params)
  <2>1. ASSUME NEW b \in 1..Params PROVE func[b].succs = <<>>
    <3>1. b \in 1..Len(func)
      OBVIOUS
    <3>2. ~ IsBranch(func[b])
      <4>1. b <= Params => ~ IsTerminator(func[b])
        BY <3>1, InstructionFacts
      <4>2. b <= Params
        OBVIOUS
      <4> QED BY <4>1, <4>2 DEF IsBranch, IsTerminator
    <3> QED BY <3>1, <3>2, InstructionFacts
  <2> QED BY <1>7, <2>1 DEF Closed
<1>9. CASE pos + 1 = Params
  <2>1. initVertex' = Append(current, pos') /\ current' = <<>>
    BY <1>1, <1>9 DEF HandleParameter, Params
  <2>2. Base' = Params /\ DOMAIN current' = {} /\ Len(current') = 0
    BY <1>1, <1>9, <2>1 DEF Base
  <2>3. GraphTyped'
    BY <1>1, <1>2, <1>5, <2>1 DEF GraphTyped
  <2>4. CurrentIsTail'
    BY <1>1, <1>3, <1>9, <2>2 DEF CurrentIsTail
  <2>5. VerticesOrdered' /\ VerticesCover'
    BY <1>1, <1>3, <1>6, <2>2 DEF VerticesOrdered, VerticesCover
  <2>6. CutsClosed'
    BY <1>1, <1>3, <1>6, <1>8, <2>2 DEF CutsClosed
  <2>7. FlagsRight'
    BY <1>1, <1>3, <1>4, <1>7, <1>9, <2>2 DEF FlagsRight
  <2> QED BY <1>1, <1>3, <1>9, <2>1, <2>3, <2>4, <2>5, <2>6, <2>7 DEF GraphInv
<1>10. CASE pos + 1 < Params
  <2>1. initVertex' = initVertex /\ current' = Append(current, pos')
    BY <1>1, <1>10 DEF HandleParameter, Params
  <2>2. current \in Seq(1..Len(func)) /\ Len(current) = pos
    BY <1>4, <1>5 DEF GraphTyped, Base
  <2>3. Base' = 0 /\ Len(current') = pos + 1
    BY <1>1, <2>1, <2>2 DEF Base
  <2>4. GraphTyped'
    BY <1>1, <1>2, <1>5, <2>1 DEF GraphTyped
  <2>5. CurrentIsTail'
    <3>1. \A k \in DOMAIN current : current[k] = Base + k
      BY DEF GraphInv, CurrentIsTail
    <3>2. \A k \in DOMAIN current' : current'[k] = Base' + k
      BY <1>1, <1>4, <2>1, <2>2, <2>3, <3>1
    <3> QED BY <1>1, <1>3, <1>10, <2>3, <3>2 DEF CurrentIsTail
  <2>6. VerticesOrdered' /\ VerticesCover'
    BY <1>1, <1>3, <1>6, <2>3 DEF VerticesOrdered, VerticesCover
  <2>7. CutsClosed'
    BY <1>1, <1>3, <1>6, <1>10 DEF CutsClosed
  <2> QED BY <1>1, <1>3, <1>4, <1>10, <2>4, <2>5, <2>6, <2>7 DEF GraphInv
<1> QED BY <1>2, <1>9, <1>10

(* An instruction is added to the current ones. *)
LEMMA CollectKeeps ==
  ASSUME GraphInv, AllSupported, HandleCalculation, ~ CutsAt(func[pos + 1]) PROVE GraphInv'
<1> USE GraphNumbers
<1>1. /\ func' = func /\ pos' = pos + 1 /\ vertices' = vertices /\ initVertex' = initVertex
      /\ current' = Append(current, pos + 1)
      /\ isBlock' = BlockAfter(func[pos + 1])
      /\ isBlockCompleted' = CompletedAfter(func[pos + 1])
      /\ isPtrAssignment' = PtrAssignmentAfter(func[pos + 1])
  BY DEF HandleCalculation
<1>2. pos < Len(func) /\ pos >= Params
  BY DEF HandleCalculation, Params
<1>3. /\ Params' = Params
      /\ \A k : PointerOpen(k)' <=> PointerOpen(k)
      /\ \A k : Closed(k)' <=> Closed(k)
  BY <1>1, SameFunction
<1>4. FlagsRight /\ Closed(Base) /\ GraphTyped /\ CurrentIsTail
  BY <1>2 DEF GraphInv, CutsClosed
<1>5. current \in Seq(1..Len(func))
  BY <1>4 DEF GraphTyped
<1>6. Len(current') = Len(current) + 1 /\ Base' = Base
  BY <1>1, <1>5 DEF Base
<1>7. GraphTyped'
  <2>1. {isBlock', isBlockCompleted', isPtrAssignment'} \subseteq BOOLEAN
    BY <1>1, <1>4 DEF BlockAfter, CompletedAfter, PtrAssignmentAfter, GraphTyped
  <2> QED BY <1>1, <1>2, <1>4, <2>1 DEF GraphTyped
<1>8. CurrentIsTail'
  <2>1. \A k \in DOMAIN current : current[k] = Base + k
    BY <1>4 DEF CurrentIsTail
  <2>2. \A k \in DOMAIN current' : current'[k] = Base' + k
    <3>1. pos + 1 = Base + (Len(current) + 1)
      BY <1>5 DEF Base
    <3>2. DOMAIN current' = 1..(Len(current) + 1) /\ DOMAIN current = 1..Len(current)
      BY <1>1, <1>5
    <3>3. /\ \A k \in 1..Len(current) : current'[k] = current[k]
          /\ current'[Len(current) + 1] = pos + 1
      BY <1>1, <1>5
    <3> QED BY <1>6, <2>1, <3>1, <3>2, <3>3
  <2>3. Base >= Params
    BY <1>2, <1>4 DEF CurrentIsTail
  <2> QED BY <1>1, <1>2, <1>3, <1>6, <2>2, <2>3 DEF CurrentIsTail
<1>9. VerticesOrdered' /\ VerticesCover'
  BY <1>1, <1>3, <1>6 DEF VerticesOrdered, VerticesCover, GraphInv
<1>10. CutsClosed'
  BY <1>1, <1>3, <1>4, <1>6 DEF CutsClosed, GraphInv
<1>11. pos' # Len(func')
  BY <1>1, <1>2, ReturnCuts
<1>12. FlagsRight'
  <2>1. isBlock' <=> \E b \in (Base + 1)..(pos + 1) : IsBranch(func[b])
    <3>1. isBlock <=> \E b \in (Base + 1)..pos : IsBranch(func[b])
      BY <1>4 DEF FlagsRight
    <3>2. \A b \in (Base + 1)..(pos + 1) : b = pos + 1 \/ b \in (Base + 1)..pos
      OBVIOUS
    <3>3. pos + 1 \in (Base + 1)..(pos + 1) /\ \A b \in (Base + 1)..pos : b \in (Base + 1)..(pos + 1)
      OBVIOUS
    <3>4. isBlock' <=> isBlock \/ IsBranch(func[pos + 1])
      BY <1>1 DEF BlockAfter
    <3> QED BY <3>1, <3>2, <3>3, <3>4
  <2>2. ASSUME ~ isBlockCompleted', NEW b \in (Base + 1)..(pos + 1)
        PROVE  ~ EndsIf(func, func[b])
    <3>1. ~ isBlockCompleted /\ ~ (isBlock /\ EndsIf(func, func[pos + 1]))
      BY <1>1, <2>2 DEF CompletedAfter
    <3>2. CASE b \in (Base + 1)..pos
      BY <1>4, <3>1, <3>2 DEF FlagsRight
    <3>3. CASE b = pos + 1
      <4> SUFFICES ASSUME EndsIf(func, func[pos + 1]) PROVE FALSE
        BY <3>3
      <4>1. func[pos + 1].op = "br"
        BY DEF EndsIf
      <4>2. isBlock
        BY <1>2, <1>4, <4>1, InsideBlock DEF FlagsRight
      <4> QED BY <3>1, <4>2
    <3> QED BY <3>2, <3>3
  <2>3. ASSUME isBlockCompleted' PROVE \E e \in (Base + 1)..(pos + 1) : Ended(e)'
    <3>1. CASE isBlockCompleted
      <4>1. PICK e \in (Base + 1)..pos : Ended(e)
        BY <1>4, <3>1 DEF FlagsRight
      <4>2. e \in 1..Len(func) /\ EndsIf(func, func[e])
        BY <4>1 DEF Ended
      <4>3. PICK j \in Nat : j = func[e].succs[1]
        BY <4>2, EndFacts
      <4>4. e < j
        BY <4>2, <4>3, EndFacts
      <4>5. ASSUME j <= pos + 1 PROVE ~ IsBranch(func[pos + 1])
        <5>1. func[pos + 1].op # "condbr"
          <6> SUFFICES ASSUME func[pos + 1].op = "condbr" PROVE FALSE
            OBVIOUS
          <6>1. func[pos].op = "cmp" /\ pos > Params
            <7>1. Supported(func) /\ Params = 2 * Cardinality(Allocas(func))
              BY FunctionFacts
            <7>2. /\ pos + 1 > 2 * Cardinality(Allocas(func)) + 1
                  /\ func[(pos + 1) - 1].op = "cmp"
              BY <1>2, <7>1 DEF Supported, BranchesOf
            <7> QED BY <7>1, <7>2
          <6>2. isCuttingInstr(func[pos])
            BY <6>1 DEF isCuttingInstr
          <6>3. e # pos
            BY <4>2, <6>1 DEF EndsIf
          <6>4. PointerOpen(pos)
            BY <4>1, <6>2, <6>3 DEF Ended
          <6>5. ~ IsTerminator(func[pos + 1])
            <7>1. pos \in 1..(Len(func) - 1)
              BY <1>2, <6>1
            <7> QED BY <6>4, <7>1, OpenPointer
          <6> QED BY <6>5 DEF IsTerminator
        <5>2. func[pos + 1].op # "br"
          <6> SUFFICES ASSUME func[pos + 1].op = "br" PROVE FALSE
            OBVIOUS
          <6>1. PICK b \in (Base + 1)..pos :
                  IsBranch(func[b]) /\ \E k \in DOMAIN func[b].succs : func[b].succs[k] > pos + 1
            BY <1>2, InsideBlock
          <6>2. PICK k \in DOMAIN func[b].succs : func[b].succs[k] > pos + 1
            BY <6>1
          <6>3. b < j
            BY <4>1, <4>3, <6>1 DEF Ended
          <6>4. b \in 1..(func[e].succs[1] - 1)
            BY <4>3, <6>1, <6>3
          <6>5. func[b].succs[k] <= j
            BY <4>2, <4>3, <6>2, <6>4, EndFacts
          <6>6. func[b].succs[k] \in Nat
            <7>1. b \in 1..Len(func)
              BY <6>1
            <7>2. func[b].succs \in Seq((b + 1)..Len(func))
              BY <7>1, InstructionFacts
            <7> QED BY <6>2, <7>2
          <6> QED BY <4>3, <4>5, <6>2, <6>5, <6>6
        <5> QED BY <5>1, <5>2 DEF IsBranch
      <4>6. \A b \in j..(pos + 1) : ~ IsBranch(func[b])
        BY <4>1, <4>3, <4>5 DEF Ended
      <4>7. \A k \in (e + 1)..(pos + 1) : isCuttingInstr(func[k]) => PointerOpen(k)
        <5>1. isCuttingInstr(func[pos + 1]) => PointerOpen(pos + 1)
          <6>1. isCuttingInstr(func[pos + 1]) => PtrAssignmentAfter(func[pos + 1])
            BY <3>1 DEF CutsAt, CompletedAfter
          <6> QED BY <1>2, <6>1, PointerFlag
        <5> QED BY <4>1, <5>1 DEF Ended
      <4>8. Ended(e)'
        BY <1>1, <1>3, <4>2, <4>3, <4>6, <4>7 DEF Ended
      <4> QED BY <4>1, <4>8
    <3>2. CASE ~ isBlockCompleted
      <4>1. EndsIf(func, func[pos + 1])
        BY <1>1, <2>3, <3>2 DEF CompletedAfter
      <4>2. func[pos + 1].succs[1] > pos + 1 /\ func[pos + 1].succs[1] \in Nat
        <5>1. pos + 1 \in 1..Len(func)
          BY <1>2
        <5> QED BY <4>1, <5>1, EndFacts
      <4>3. PICK e \in Nat : e = pos + 1
        OBVIOUS
      <4>4. Ended(e)'
        BY <1>1, <1>3, <4>1, <4>2, <4>3 DEF Ended
      <4> QED BY <4>3, <4>4
    <3> QED BY <3>1, <3>2
  <2>4. isPtrAssignment' <=> PointerOpen(pos + 1)
    BY <1>1, <1>2, PointerFlag
  <2> QED BY <1>1, <1>3, <1>6, <2>1, <2>2, <2>3, <2>4 DEF FlagsRight
<1> QED BY <1>1, <1>2, <1>3, <1>7, <1>8, <1>9, <1>10, <1>11, <1>12 DEF GraphInv

(* The current instructions become a vertex. *)
LEMMA CutKeeps ==
  ASSUME GraphInv, AllSupported, HandleCalculation, CutsAt(func[pos + 1]) PROVE GraphInv'
<1> USE GraphNumbers
<1>1. /\ func' = func /\ pos' = pos + 1 /\ initVertex' = initVertex
      /\ current' = <<>> /\ vertices' = Append(vertices, Append(current, pos + 1))
      /\ isBlock' = FALSE /\ isBlockCompleted' = FALSE
      /\ isPtrAssignment' = PtrAssignmentAfter(func[pos + 1])
  BY DEF HandleCalculation
<1>2. pos < Len(func) /\ pos >= Params
  BY DEF HandleCalculation, Params
<1>3. /\ Params' = Params
      /\ \A k : PointerOpen(k)' <=> PointerOpen(k)
      /\ \A k : Closed(k)' <=> Closed(k)
  BY <1>1, SameFunction
<1>4. Base >= Params /\ Closed(Base) /\ GraphTyped /\ CurrentIsTail
  BY <1>2 DEF GraphInv, CutsClosed, CurrentIsTail
<1>5. current \in Seq(1..Len(func)) /\ vertices \in Seq(Seq(1..Len(func)))
  BY <1>4 DEF GraphTyped
<1>6. Base' = pos + 1 /\ Len(current') = 0 /\ DOMAIN current' = {}
  <2>1. Len(current') = 0 /\ DOMAIN current' = {}
    BY <1>1
  <2> QED BY <1>1, <2>1 DEF Base
<1>7. PICK w \in Seq(1..Len(func)) : w = Append(current, pos + 1)
  <2>1. pos + 1 \in 1..Len(func)
    BY <1>2
  <2>2. Append(current, pos + 1) \in Seq(1..Len(func))
    BY <1>5, <2>1
  <2> QED BY <2>2
<1>8. /\ w # <<>> /\ Len(w) = Len(current) + 1
      /\ \A k \in DOMAIN w : w[k] = Base + k /\ w[k] \in (Base + 1)..(pos + 1)
  <2>1. \A k \in DOMAIN current : current[k] = Base + k
    BY <1>4 DEF CurrentIsTail
  <2>2. pos + 1 = Base + (Len(current) + 1)
    BY DEF Base
  <2>3. DOMAIN w = 1..(Len(current) + 1) /\ DOMAIN current = 1..Len(current)
    BY <1>5, <1>7
  <2>4. /\ \A k \in 1..Len(current) : w[k] = current[k]
        /\ w[Len(current) + 1] = pos + 1
    BY <1>5, <1>7
  <2>5. \A k \in DOMAIN w : w[k] = Base + k
    BY <2>1, <2>2, <2>3, <2>4
  <2>6. w # <<>> /\ Len(w) = Len(current) + 1
    <3>1. Len(w) = Len(current) + 1
      BY <1>5, <1>7
    <3> QED BY <1>7, <3>1
  <2> QED BY <2>2, <2>3, <2>5, <2>6
<1>9. PICK n \in Nat : n = Len(vertices)
  BY <1>5
<1>10. /\ DOMAIN vertices = 1..n /\ DOMAIN vertices' = 1..(n + 1)
       /\ vertices'[n + 1] = w /\ \A v \in 1..n : vertices'[v] = vertices[v]
  BY <1>1, <1>5, <1>7, <1>9
<1>11. GraphTyped'
  <2>1. isPtrAssignment' \in BOOLEAN
    BY <1>1, <1>4 DEF PtrAssignmentAfter, GraphTyped
  <2>2. vertices' \in Seq(Seq(1..Len(func))) /\ current' \in Seq(1..Len(func))
    BY <1>1, <1>5, <1>7
  <2>3. pos' \in 0..Len(func)
    BY <1>1, <1>2
  <2> QED BY <1>1, <1>4, <2>1, <2>2, <2>3 DEF GraphTyped
<1>12. CurrentIsTail'
  BY <1>1, <1>2, <1>3, <1>6 DEF CurrentIsTail
<1>13. VerticesOrdered'
  <2>0. VerticesOrdered
    BY DEF GraphInv
  <2>1. ASSUME NEW v \in 1..(n + 1), NEW k \in DOMAIN vertices'[v]
        PROVE  /\ vertices'[v][k] \in (Params + 1)..(pos + 1)
               /\ vertices'[v][k] = vertices'[v][1] + (k - 1)
    <3>1. CASE v \in 1..n
      <4>1. k \in DOMAIN vertices[v] /\ vertices'[v] = vertices[v]
        BY <1>10, <2>1, <3>1
      <4>2. vertices[v][k] \in (Params + 1)..Base /\ vertices[v][k] = vertices[v][1] + (k - 1)
        BY <1>10, <2>0, <3>1, <4>1 DEF VerticesOrdered
      <4> QED BY <4>1, <4>2
    <3>2. CASE v = n + 1
      <4>1. k \in 1..Len(w) /\ 1 \in 1..Len(w) /\ DOMAIN w = 1..Len(w)
        BY <1>7, <1>8, <1>10, <2>1, <3>2
      <4>2. w[k] = Base + k /\ w[1] = Base + 1 /\ w[k] \in (Base + 1)..(pos + 1)
        BY <1>8, <4>1
      <4> QED BY <1>4, <1>10, <3>2, <4>1, <4>2
    <3> QED BY <3>1, <3>2
  <2>2. \A v \in 1..(n + 1) : vertices'[v] # <<>>
    <3>1. \A v \in 1..n : vertices'[v] # <<>>
      BY <1>10, <2>0 DEF VerticesOrdered
    <3>2. vertices'[n + 1] # <<>>
      BY <1>8, <1>10
    <3>3. \A v \in 1..(n + 1) : v \in 1..n \/ v = n + 1
      BY <1>9
    <3> QED BY <3>1, <3>2, <3>3
  <2>3. ASSUME NEW u \in 1..(n + 1), NEW v \in 1..(n + 1), u < v,
               NEW k \in DOMAIN vertices'[u], NEW l \in DOMAIN vertices'[v]
        PROVE  vertices'[u][k] < vertices'[v][l]
    <3>1. u \in 1..n /\ vertices'[u] = vertices[u]
      BY <1>10, <2>3
    <3>2. CASE v \in 1..n
      BY <1>10, <2>0, <2>3, <3>1, <3>2 DEF VerticesOrdered
    <3>3. CASE v = n + 1
      <4>1. vertices[u][k] \in (Params + 1)..Base
        BY <1>10, <2>0, <2>3, <3>1 DEF VerticesOrdered
      <4>2. vertices'[v][l] \in (Base + 1)..(pos + 1)
        BY <1>8, <1>10, <2>3, <3>3
      <4> QED BY <3>1, <4>1, <4>2
    <3> QED BY <3>2, <3>3
  <2> QED BY <1>3, <1>6, <1>10, <2>1, <2>2, <2>3 DEF VerticesOrdered
<1>14. VerticesCover'
  <2>1. ASSUME NEW i \in (Params + 1)..(pos + 1)
        PROVE  \E v \in 1..(n + 1) : \E k \in DOMAIN vertices'[v] : vertices'[v][k] = i
    <3>1. CASE i \in (Params + 1)..Base
      <4>1. PICK v \in 1..n : \E k \in DOMAIN vertices[v] : vertices[v][k] = i
        BY <1>10, <3>1 DEF GraphInv, VerticesCover
      <4> QED BY <1>10, <4>1
    <3>2. CASE i > Base
      <4>1. PICK k \in Nat : k = i - Base
        BY <1>4, <3>2
      <4>2. pos + 1 = Base + Len(w)
        BY <1>8 DEF Base
      <4>3. k \in 1..Len(w) /\ DOMAIN w = 1..Len(w)
        BY <1>7, <1>8, <3>2, <4>1, <4>2
      <4>4. w[k] = i
        BY <1>8, <4>1, <4>3
      <4> QED BY <1>10, <4>3, <4>4
    <3> QED BY <1>4, <3>1, <3>2
  <2> QED BY <1>3, <1>6, <1>10, <2>1 DEF VerticesCover
<1>15. CutsClosed'
  <2>1. Closed(pos + 1)
    BY <1>2, CutIsClosed
  <2>2. w[Len(w)] = pos + 1
    BY <1>5, <1>7
  <2>3. \A v \in 1..(n + 1) : Closed(vertices'[v][Len(vertices'[v])])
    <3>1. \A v \in 1..n : Closed(vertices[v][Len(vertices[v])])
      BY <1>10 DEF GraphInv, CutsClosed
    <3> QED BY <1>10, <2>1, <2>2, <3>1
  <2>4. \A k : Closed(k) => Closed(k)'
    BY <1>3
  <2> QED BY <1>1, <1>6, <1>10, <2>1, <2>3, <2>4 DEF CutsClosed
<1>16. FlagsRight'
  <2>1. ~ isPtrAssignment' /\ ~ PointerOpen(pos + 1)
    BY <1>1, <1>2, PointerFlag DEF CutsAt
  <2> QED BY <1>1, <1>3, <1>6, <2>1 DEF FlagsRight
<1> QED BY <1>1, <1>2, <1>3, <1>11, <1>12, <1>13, <1>14, <1>15, <1>16 DEF GraphInv

(* A step of createVertices keeps the invariant. *)
LEMMA CreateKeeps == ASSUME GraphInv, AllSupported, createVertices PROVE GraphInv'
<1>1. CASE HandleParameter
  BY <1>1, ParameterKeeps
<1>2. CASE HandleCalculation
  BY <1>2, CollectKeeps, CutKeeps
<1> QED BY <1>1, <1>2 DEF createVertices

(* So does a step that leaves the graph alone. *)
LEMMA GraphUnchanged == ASSUME GraphInv, UNCHANGED graphVars PROVE GraphInv'
BY DEF graphVars, GraphInv, GraphTyped, CurrentIsTail, VerticesOrdered, VerticesCover, CutsClosed,
       FlagsRight, Closed, PointerOpen, Ended, Base, Params, paramCount

(* The graph is built by createVertices alone. *)
LEMMA GraphStep == ASSUME GraphInv, AllSupported, [Next]_vars PROVE GraphInv'
<1>1. CASE CreateVertices
  BY <1>1, CreateKeeps DEF CreateVertices
<1>2. CASE UNCHANGED graphVars
  BY <1>2, GraphUnchanged
<1>3. CreateVertices \/ UNCHANGED graphVars
  BY DEF Next, vars, AssignPartitions, SkipDependency, BridgeDependency, NextTarget,
         SavePartitioning, RunInstruction, RunBranch, RunCall, CallAgain
<1> QED BY <1>1, <1>2, <1>3

(* The invariant of createVertices. *)
LEMMA GraphAlways == ASSUME AllSupported PROVE Spec => []GraphInv
<1>1. Init => GraphInv
  BY GraphInitially DEF Init
<1>2. GraphInv /\ [Next]_vars => GraphInv'
  BY GraphStep
<1> QED BY <1>1, <1>2, PTL DEF Spec
-----------------------------------------------------------------------------
(* The dependencies of an instruction lead to earlier instructions. *)
UpTo(S, n, u) ==
  u = [k \in 0..n |-> IF k = 0 THEN <<>> ELSE IF k \in S THEN Append(u[k - 1], k) ELSE u[k - 1]]

(* Ascending as the recursive function it chooses. *)
LEMMA AscendingUnfold ==
  ASSUME NEW S, NEW n PROVE Ascending(S, n) = (CHOOSE u : UpTo(S, n, u))[n]
BY DEF Ascending, UpTo

(* That function exists. *)
LEMMA UpToExists ==
  ASSUME NEW S, NEW n \in Nat PROVE \E u : UpTo(S, n, u)
<1> DEFINE Bad == {m \in 0..n : ~ \E u : UpTo(S, m, u)}
<1> SUFFICES ASSUME Bad # {} PROVE FALSE
  OBVIOUS
<1>1. PICK m \in Bad : \A y \in Bad : m <= y
  <2>1. IsFiniteSet(0..n) /\ Bad \subseteq 0..n
    BY FS_Interval
  <2>2. IsFiniteSet(Bad) /\ Bad \subseteq Int
    BY <2>1, FS_Subset
  <2> HIDE DEF Bad
  <2> QED BY <2>2, MinInt
<1>2. m # 0
  <2> DEFINE u == [k \in 0..0 |-> <<>>]
  <2>1. u = [k \in 0..0 |-> IF k = 0 THEN <<>> ELSE IF k \in S THEN Append(u[k - 1], k) ELSE u[k - 1]]
    OBVIOUS
  <2> HIDE DEF u
  <2> QED BY <1>1, <2>1 DEF UpTo
<1>3. m - 1 \in 0..n /\ m - 1 \notin Bad
  BY <1>1, <1>2
<1>4. PICK u : UpTo(S, m - 1, u)
  BY <1>3
<1> DEFINE w == [k \in 0..m |-> IF k < m THEN u[k]
                                ELSE IF k \in S THEN Append(u[k - 1], k) ELSE u[k - 1]]
<1>5. \A k \in 0..(m - 1) :
        u[k] = IF k = 0 THEN <<>> ELSE IF k \in S THEN Append(u[k - 1], k) ELSE u[k - 1]
  BY <1>4 DEF UpTo
<1>6. \A k \in 0..m :
        w[k] = IF k = 0 THEN <<>> ELSE IF k \in S THEN Append(w[k - 1], k) ELSE w[k - 1]
  <2> TAKE k \in 0..m
  <2>1. CASE k = 0
    BY <1>2, <1>5, <2>1
  <2>2. CASE k \in 1..(m - 1)
    <3>1. k \in 0..(m - 1) /\ k < m /\ k - 1 < m /\ k - 1 \in 0..m
      BY <1>1, <2>2
    <3>2. w[k] = u[k] /\ w[k - 1] = u[k - 1]
      BY <3>1
    <3> HIDE DEF w
    <3> QED BY <1>5, <3>1, <3>2
  <2>3. CASE k = m
    <3>1. k - 1 < m /\ k - 1 \in 0..m /\ k # 0
      BY <1>1, <1>2, <2>3
    <3> QED BY <2>3, <3>1
  <2> QED BY <1>1, <2>1, <2>2, <2>3
<1>7. w = [k \in 0..m |-> IF k = 0 THEN <<>> ELSE IF k \in S THEN Append(w[k - 1], k) ELSE w[k - 1]]
  BY <1>6
<1> HIDE DEF w
<1> QED BY <1>1, <1>7 DEF UpTo

(* Ascending lists members of S up to n. *)
LEMMA AscendingIn ==
  ASSUME NEW S, NEW n \in Nat PROVE Ascending(S, n) \in Seq(S \cap (1..n))
<1> DEFINE u == CHOOSE x : UpTo(S, n, x)
<1>1. UpTo(S, n, u)
  BY UpToExists
<1>2. Ascending(S, n) = u[n]
  BY AscendingUnfold
<1> HIDE DEF u
<1> DEFINE T == S \cap (1..n)
           Bad == {m \in 0..n : u[m] \notin Seq(T)}
<1>3. Bad = {}
  <2> SUFFICES ASSUME Bad # {} PROVE FALSE
    OBVIOUS
  <2>1. PICK m \in Bad : \A y \in Bad : m <= y
    <3>1. IsFiniteSet(0..n) /\ Bad \subseteq 0..n
      BY FS_Interval
    <3>2. IsFiniteSet(Bad) /\ Bad \subseteq Int
      BY <3>1, FS_Subset
    <3> HIDE DEF Bad
    <3> QED BY <3>2, MinInt
  <2>2. u[m] = IF m = 0 THEN <<>> ELSE IF m \in S THEN Append(u[m - 1], m) ELSE u[m - 1]
    BY <1>1, <2>1 DEF UpTo
  <2>3. CASE m = 0
    <3>1. u[m] = <<>>
      BY <2>2, <2>3
    <3>2. <<>> \in Seq(T)
      <4> HIDE DEF T
      <4> QED OBVIOUS
    <3> QED BY <2>1, <3>1, <3>2
  <2>4. CASE m # 0
    <3>1. u[m - 1] \in Seq(T)
      BY <2>1, <2>4
    <3>2. m \in S => m \in T
      BY <2>1, <2>4
    <3>3. u[m] \notin Seq(T)
      BY <2>1
    <3>4. CASE m \in S
      <4>1. u[m] = Append(u[m - 1], m)
        BY <2>2, <2>4, <3>4
      <4> HIDE DEF T
      <4> QED BY <3>1, <3>2, <3>3, <3>4, <4>1
    <3>5. CASE m \notin S
      BY <2>2, <2>4, <3>1, <3>3, <3>5
    <3> QED BY <3>4, <3>5
  <2> QED BY <2>3, <2>4
<1> QED BY <1>2, <1>3

(* DependOn gives every instruction it is given a kind. *)
LEMMA DependOnIn ==
  ASSUME NEW R, NEW s \in Seq(R), NEW K, NEW why \in K
  PROVE  DependOn(s, why) \in Seq([on : R, kind : K])
<1>1. DependOn(s, why) = [k \in 1..Len(s) |-> [on |-> s[k], kind |-> why]]
  BY DEF DependOn
<1>2. \A k \in 1..Len(s) : [on |-> s[k], kind |-> why] \in [on : R, kind : K]
  OBVIOUS
<1> QED BY <1>1, <1>2

(* Unique adds nothing. *)
LEMMA UniqueIn ==
  ASSUME NEW T, NEW s \in Seq(T) PROVE Unique(s) \in Seq(T)
<1> DEFINE D == {k \in DOMAIN s : k = 1 \/ s[k].on # s[k - 1].on}
           kept == Ascending(D, Len(s))
<1>1. kept \in Seq(D \cap (1..Len(s)))
  BY AscendingIn
<1>2. kept \in Seq(1..Len(s))
  <2> HIDE DEF kept
  <2> QED BY <1>1, SequenceInto
<1>3. Unique(s) = [k \in DOMAIN kept |-> s[kept[k]]]
  BY DEF Unique
<1> HIDE DEF kept
<1> QED BY <1>2, <1>3

(* Without loops all dependencies of an instruction are on earlier ones. *)
LEMMA DependenciesEarlier ==
  ASSUME NEW f \in Functions, Supported(f), NEW i \in DOMAIN f
  PROVE  getDependencies(f)[i] \in Seq([on : 1..(i - 1), kind : {"reg", "mem", "ctrl"}])
<1> DEFINE K == {"reg", "mem", "ctrl"}
           D == [on : 1..(i - 1), kind : K]
<1>1. f \in Seq(Instruction) /\ i \in Nat /\ i > 0
  BY FunctionsAssumption
<1>2. PICK args \in Seq(Nat) : args = f[i].args
  <2>1. f[i] \in Instruction
    BY <1>1
  <2>2. f[i].args \in Seq(Nat)
    BY <2>1 DEF Instruction
  <2> QED BY <2>2
<1>3. args \in Seq(1..(i - 1))
  <2>1. \A k \in 1..Len(args) : args[k] \in 1..(i - 1)
    BY <1>2 DEF Supported, NoLoops
  <2> QED BY <1>2, <2>1, SequenceInto
<1>4. RegisterDependencies(f, i) \in Seq(D)
  BY <1>2, <1>3, DependOnIn DEF RegisterDependencies
<1>5. MemoryDependencies(f, i) \in Seq(D)
  <2> DEFINE M == {j \in 1..(i - 1) : f[j].op = "store" /\ f[i].op = "load" /\ f[j].ptr = f[i].ptr}
  <2>1. MemoryDependencies(f, i) = DependOn(Ascending(M, i - 1), "mem")
    BY DEF MemoryDependencies
  <2>2. Ascending(M, i - 1) \in Seq(M \cap (1..(i - 1)))
    BY <1>1, AscendingIn
  <2> HIDE DEF M
  <2>3. PICK a \in Seq(M \cap (1..(i - 1))) : a = Ascending(M, i - 1)
    BY <2>2
  <2>4. \A k \in 1..Len(a) : a[k] \in 1..(i - 1)
    BY <2>3
  <2>5. a \in Seq(1..(i - 1))
    BY <2>3, <2>4, SequenceInto
  <2>6. DependOn(a, "mem") \in Seq(D)
    BY <2>5, DependOnIn
  <2> QED BY <2>1, <2>3, <2>6
<1>6. ControlDependencies(f, i) \in Seq(D)
  <2>1. i > 1 => <<i - 1>> \in Seq(1..(i - 1))
    BY <1>1
  <2>2. i > 1 => DependOn(<<i - 1>>, "ctrl") \in Seq(D)
    BY <2>1, DependOnIn
  <2>3. <<>> \in Seq(D)
    OBVIOUS
  <2> HIDE DEF D
  <2> QED BY <2>2, <2>3 DEF ControlDependencies
<1> HIDE DEF D
<1>7. RegisterDependencies(f, i) \o MemoryDependencies(f, i) \o ControlDependencies(f, i) \in Seq(D)
  BY <1>4, <1>5, <1>6
<1>8. getDependencies(f)[i] =
        Unique(RegisterDependencies(f, i) \o MemoryDependencies(f, i) \o ControlDependencies(f, i))
  BY DEF getDependencies
<1> QED BY <1>7, <1>8, UniqueIn DEF D
-----------------------------------------------------------------------------
(* An instruction is in one vertex, and getVertexForInstruction finds it. *)
LEMMA VertexFound ==
  ASSUME GraphInv, AllSupported, NEW v \in DOMAIN vertices, NEW k \in DOMAIN vertices[v]
  PROVE  getVertexForInstruction(vertices[v][k]) = v
<1>1. vertices \in Seq(Seq(1..Len(func)))
  BY DEF GraphInv, GraphTyped
<1>2. PICK n \in Nat : DOMAIN vertices = 1..n
  BY <1>1
<1>3. \A u, w \in DOMAIN vertices : u < w =>
        \A a \in DOMAIN vertices[u] : \A l \in DOMAIN vertices[w] : vertices[u][a] < vertices[w][l]
  BY DEF GraphInv, VerticesOrdered
<1>4. \A u \in DOMAIN vertices : \A a \in DOMAIN vertices[u] : vertices[u][a] \in Nat
  BY <1>1
<1>5. PICK i \in Nat : i = vertices[v][k]
  BY <1>4
<1>6. {u \in DOMAIN vertices : \E a \in DOMAIN vertices[u] : vertices[u][a] = i} = {v}
  <2>1. ASSUME NEW u \in DOMAIN vertices, NEW a \in DOMAIN vertices[u], vertices[u][a] = i
        PROVE  u = v
    <3>1. ~ (u < v)
      BY <1>3, <1>4, <1>5, <2>1
    <3>2. ~ (v < u)
      BY <1>3, <1>4, <1>5, <2>1
    <3> QED BY <1>2, <3>1, <3>2
  <2> QED BY <1>5, <2>1
<1>7. Min({v}) = v
  BY <1>2 DEF Min
<1>8. getVertexForInstruction(i) = v
  BY <1>6, <1>7 DEF getVertexForInstruction
<1> QED BY <1>5, <1>8

(* Exactly the instructions behind the parameters, up to the last cut. *)
LEMMA VertexFacts ==
  ASSUME GraphInv, AllSupported, NEW i \in Nat
  PROVE  /\ i \in (Params + 1)..Base =>
              /\ getVertexForInstruction(i) \in DOMAIN vertices
              /\ \E k \in DOMAIN vertices[getVertexForInstruction(i)] :
                   vertices[getVertexForInstruction(i)][k] = i
         /\ i \notin (Params + 1)..Base => getVertexForInstruction(i) = 0
         /\ getVertexForInstruction(i) \in Nat
         /\ getVertexForInstruction(i) # 0 <=> i \in (Params + 1)..Base
<1>1. vertices \in Seq(Seq(1..Len(func)))
  BY DEF GraphInv, GraphTyped
<1>2. PICK n \in Nat : DOMAIN vertices = 1..n
  BY <1>1
<1>3. CASE i \in (Params + 1)..Base
  <2>1. PICK v \in DOMAIN vertices : \E k \in DOMAIN vertices[v] : vertices[v][k] = i
    BY <1>3 DEF GraphInv, VerticesCover
  <2>2. PICK k \in DOMAIN vertices[v] : vertices[v][k] = i
    BY <2>1
  <2>3. getVertexForInstruction(i) = v
    <3>1. getVertexForInstruction(vertices[v][k]) = v
      BY <2>1, <2>2, VertexFound
    <3> QED BY <2>2, <3>1
  <2> QED BY <1>2, <1>3, <2>1, <2>2, <2>3
<1>4. CASE i \notin (Params + 1)..Base
  <2>1. {u \in DOMAIN vertices : \E a \in DOMAIN vertices[u] : vertices[u][a] = i} = {}
    BY <1>4 DEF GraphInv, VerticesOrdered
  <2>2. getVertexForInstruction(i) = 0
    BY <2>1 DEF getVertexForInstruction
  <2> QED BY <1>4, <2>2
<1> QED BY <1>3, <1>4

(* The vertices are in the order of the instructions. *)
LEMMA VertexMonotone ==
  ASSUME GraphInv, AllSupported, NEW i \in (Params + 1)..Base, NEW j \in (Params + 1)..Base, i <= j
  PROVE  getVertexForInstruction(i) <= getVertexForInstruction(j)
<1>1. i \in Nat /\ j \in Nat
  BY GraphNumbers
<1>2. PICK u \in DOMAIN vertices : u = getVertexForInstruction(i) /\ \E k \in DOMAIN vertices[u] : vertices[u][k] = i
  BY <1>1, VertexFacts
<1>3. PICK v \in DOMAIN vertices : v = getVertexForInstruction(j) /\ \E k \in DOMAIN vertices[v] : vertices[v][k] = j
  BY <1>1, VertexFacts
<1>4. u \in Nat /\ v \in Nat
  BY <1>1, <1>2, <1>3, VertexFacts
<1>5. v < u => j < i
  BY <1>2, <1>3 DEF GraphInv, VerticesOrdered
<1> QED BY <1>1, <1>2, <1>3, <1>4, <1>5

(* Vertex v is an interval of instructions that ends where a cut may be. *)
LEMMA VertexInterval ==
  ASSUME GraphInv, AllSupported, NEW v \in DOMAIN vertices
  PROVE  \E a, b \in Nat :
           /\ Params < a /\ a <= b /\ b <= Base
           /\ Closed(b)
           /\ a = vertices[v][1] /\ b = vertices[v][Len(vertices[v])]
           /\ Len(vertices[v]) = b - a + 1
           /\ \A i \in Nat : getVertexForInstruction(i) = v <=> i \in a..b
<1>0. Params \in Nat /\ Base \in Nat
  BY GraphNumbers
<1>1. vertices \in Seq(Seq(1..Len(func)))
  BY DEF GraphInv, GraphTyped
<1>2. PICK s \in Seq(1..Len(func)) : s = vertices[v]
  BY <1>1
<1>3. s # <<>> /\ \A k \in DOMAIN s : s[k] \in (Params + 1)..Base /\ s[k] = s[1] + (k - 1)
  BY <1>2 DEF GraphInv, VerticesOrdered
<1>4. PICK n \in Nat \ {0} : n = Len(s)
  BY <1>2, <1>3
<1>5. 1 \in DOMAIN s /\ n \in DOMAIN s /\ DOMAIN s = 1..n
  BY <1>2, <1>4
<1>6. PICK a \in Nat : a = s[1]
  BY <1>3, <1>5
<1>7. PICK b \in Nat : b = s[n]
  BY <1>3, <1>5
<1>8. b = a + (n - 1) /\ Params < a /\ b <= Base
  <2>1. s[n] = s[1] + (n - 1)
    BY <1>3, <1>5
  <2>2. s[1] \in (Params + 1)..Base /\ s[n] \in (Params + 1)..Base
    BY <1>3, <1>5
  <2> QED BY <1>0, <1>4, <1>6, <1>7, <2>1, <2>2
<1>9. Closed(b)
  BY <1>2, <1>4, <1>7 DEF GraphInv, CutsClosed
<1>10. ASSUME NEW i \in Nat PROVE getVertexForInstruction(i) = v <=> i \in a..b
  <2>1. ASSUME i \in a..b PROVE getVertexForInstruction(i) = v
    <3>1. PICK k \in Nat : k = i - a + 1
      BY <1>6, <2>1
    <3>2. k \in DOMAIN s
      <4>1. k \in 1..n
        BY <1>4, <1>6, <1>7, <1>8, <2>1, <3>1
      <4> QED BY <1>5, <4>1
    <3>3. s[k] = s[1] + (k - 1)
      BY <1>3, <3>2
    <3>4. a + (k - 1) = i
      BY <3>1
    <3>5. s[k] = i
      BY <1>6, <3>3, <3>4
    <3> QED BY <1>2, <3>2, <3>5, VertexFound
  <2>2. ASSUME getVertexForInstruction(i) = v PROVE i \in a..b
    <3>1. v # 0
      BY <1>1
    <3>2. PICK k \in DOMAIN s : s[k] = i
      BY <1>2, <2>2, <3>1, VertexFacts
    <3>3. s[k] = a + (k - 1) /\ k \in 1..n
      BY <1>3, <1>5, <1>6, <3>2
    <3> QED BY <1>4, <1>6, <1>7, <1>8, <3>2, <3>3
  <2> QED BY <2>1, <2>2
<1>11. Len(vertices[v]) = b - a + 1 /\ a <= b
  BY <1>2, <1>4, <1>6, <1>7, <1>8
<1>12. a = vertices[v][1] /\ b = vertices[v][Len(vertices[v])]
  BY <1>2, <1>4, <1>6, <1>7
<1> QED BY <1>6, <1>7, <1>8, <1>9, <1>10, <1>11, <1>12

(* The graph is complete: all instructions behind the parameters are cut. *)
LEMMA CompleteGraph ==
  ASSUME GraphInv, AllSupported, pos = Len(func)
  PROVE  current = <<>> /\ Base = Len(func)
<1>1. current = <<>>
  BY DEF GraphInv
<1>2. Len(func) \in Nat
  BY GraphNumbers
<1> QED BY <1>1, <1>2 DEF Base

(* An instruction in a vertex depends on instructions of this or an earlier one. *)
LEMMA DependencyFacts ==
  ASSUME GraphInv, AllSupported, NEW i \in DOMAIN func, NEW d \in DOMAIN getDependencies(func)[i]
  PROVE  /\ getDependencies(func)[i][d].on \in 1..(i - 1)
         /\ getDependencies(func)[i][d].kind \in {"reg", "mem", "ctrl"}
         /\ getVertexForInstruction(getDependencies(func)[i][d].on) # 0 =>
              getVertexForInstruction(getDependencies(func)[i][d].on) <= getVertexForInstruction(i)
              \/ getVertexForInstruction(i) = 0
<1>1. PICK f \in Functions : f = func /\ Supported(f)
  BY GraphNumbers DEF AllSupported
<1>2. PICK deps \in Seq([on : 1..(i - 1), kind : {"reg", "mem", "ctrl"}]) : deps = getDependencies(f)[i]
  BY <1>1, DependenciesEarlier
<1>3. deps[d] \in [on : 1..(i - 1), kind : {"reg", "mem", "ctrl"}]
  <2>1. d \in DOMAIN deps
    BY <1>1, <1>2
  <2> DEFINE R == [on : 1..(i - 1), kind : {"reg", "mem", "ctrl"}]
  <2>2. deps \in Seq(R)
    BY <1>2
  <2> HIDE DEF R
  <2>3. deps[d] \in R
    BY <2>1, <2>2
  <2> QED BY <2>3 DEF R
<1>4. PICK o \in 1..(i - 1) : o = deps[d].on
  BY <1>3
<1>5. i \in Nat /\ o \in Nat /\ o <= i
  BY <1>1, <1>4, FunctionFacts
<1>6. getVertexForInstruction(o) # 0 =>
        getVertexForInstruction(o) <= getVertexForInstruction(i) \/ getVertexForInstruction(i) = 0
  <2>1. ASSUME getVertexForInstruction(o) # 0, getVertexForInstruction(i) # 0
        PROVE  getVertexForInstruction(o) <= getVertexForInstruction(i)
    <3>1. o \in (Params + 1)..Base /\ i \in (Params + 1)..Base
      BY <1>5, <2>1, VertexFacts
    <3> QED BY <1>5, <3>1, VertexMonotone
  <2> QED BY <2>1
<1>7. deps[d].kind \in {"reg", "mem", "ctrl"}
  BY <1>3
<1> QED BY <1>1, <1>2, <1>4, <1>6, <1>7

(* GraphCoversFunction: for every supported function createVertices leaves  *)

(* no instruction over and keeps their order, and every edge of the graph   *)
(* leads to a later vertex.                                                 *)
THEOREM GraphIsComplete == ASSUME AllSupported PROVE Spec => []GraphCoversFunction
<1>1. ASSUME GraphInv PROVE GraphCoversFunction
  <2> SUFFICES ASSUME GraphCreated PROVE GraphCoversFunction
    BY DEF GraphCoversFunction
  <2>1. pos = Len(func)
    BY DEF GraphCreated
  <2>2. current = <<>> /\ Base = Len(func)
    BY <1>1, <2>1, CompleteGraph
  <2>3. ASSUME NEW i \in (2 * paramCount + 1)..Len(func), NEW j \in (2 * paramCount + 1)..Len(func), i <= j
        PROVE  getVertexForInstruction(i) \in 1..getVertexForInstruction(j)
    <3>1. i \in (Params + 1)..Base /\ j \in (Params + 1)..Base
      BY <2>2, <2>3 DEF Params
    <3>2. i \in Nat /\ j \in Nat
      BY <1>1, <3>1, GraphNumbers
    <3>3. getVertexForInstruction(i) <= getVertexForInstruction(j)
      BY <1>1, <2>3, <3>1, VertexMonotone
    <3>4. /\ getVertexForInstruction(i) \in Nat /\ getVertexForInstruction(j) \in Nat
          /\ getVertexForInstruction(i) # 0
      BY <1>1, <3>1, <3>2, VertexFacts
    <3> QED BY <3>3, <3>4
  <2>4. ASSUME NEW u \in DOMAIN vertices, NEW v \in DOMAIN vertices,
               addEdges(u, v).data + addEdges(u, v).order > 0
        PROVE  u < v
    <3> DEFINE deps == IF u = v THEN {} ELSE Dependencies(u, v)
    <3>1. deps # {}
      <4> SUFFICES ASSUME deps = {} PROVE FALSE
        OBVIOUS
      <4>1. addEdges(u, v) = [data |-> Cardinality({}), order |-> Cardinality({})]
        BY DEF addEdges
      <4>2. Cardinality({}) = 0
        BY FS_EmptySet
      <4> QED BY <2>4, <4>1, <4>2
    <3>2. u # v /\ Dependencies(u, v) # {}
      BY <3>1
    <3>i. PICK i \in DOMAIN func :
            /\ getVertexForInstruction(i) = v
            /\ \E d \in DOMAIN getDependencies(func)[i] :
                 getVertexForInstruction(getDependencies(func)[i][d].on) = u
      BY <3>2 DEF Dependencies
    <3>3. PICK d \in DOMAIN getDependencies(func)[i] :
            /\ getVertexForInstruction(i) = v
            /\ getVertexForInstruction(getDependencies(func)[i][d].on) = u
      BY <3>i
    <3>4. u # 0 /\ v # 0 /\ u \in Nat /\ v \in Nat
      BY <1>1 DEF GraphInv, GraphTyped
    <3>5. u <= v
      BY <1>1, <3>3, <3>4, DependencyFacts
    <3> QED BY <3>2, <3>4, <3>5
  <2> QED BY <2>2, <2>3, <2>4 DEF GraphCoversFunction
<1> QED BY <1>1, GraphAlways, PTL

(* StatementsKeptTogether: for every supported function no vertex ends      *)

(* inside an if statement or while a pointer loaded from "status.addr" is   *)
(* in use.                                                                  *)
THEOREM NoStatementCut == ASSUME AllSupported PROVE Spec => []StatementsKeptTogether
<1>1. ASSUME GraphInv PROVE StatementsKeptTogether
  <2> SUFFICES ASSUME GraphCreated, NEW i \in DOMAIN func
               PROVE  /\ func[i].op = "condbr" => InOneVertex(IfStatement(i))
                      /\ i > 2 * paramCount /\ LoadsStatus(func[i]) =>
                           InOneVertex({i} \union {j \in DOMAIN func :
                                        \E k \in DOMAIN func[j].args : func[j].args[k] = i})
    BY DEF StatementsKeptTogether
  <2>1. pos = Len(func) /\ Base = Len(func)
    BY <1>1, CompleteGraph DEF GraphCreated
  <2>2. /\ func \in Functions /\ Len(func) \in Nat /\ DOMAIN func = 1..Len(func)
        /\ i \in Nat /\ i <= Len(func) /\ i > 0 /\ Params \in Nat
    BY <1>1, GraphNumbers
  <2>3. ASSUME NEW S, NEW v, i \in S, \A j \in S : getVertexForInstruction(j) = v PROVE InOneVertex(S)
    <3>1. {getVertexForInstruction(j) : j \in S} = {v}
      BY <2>3
    <3>2. Cardinality({v}) = 1
      BY FS_Singleton
    <3> QED BY <3>1, <3>2 DEF InOneVertex
  <2>4. ASSUME i > Params
        PROVE  \E v \in DOMAIN vertices : \E b \in Nat :
                 /\ i <= b /\ b <= Len(func) /\ Closed(b)
                 /\ \A j \in i..b : getVertexForInstruction(j) = v
    <3>1. i \in (Params + 1)..Base
      BY <2>1, <2>2, <2>4
    <3>2. PICK v \in DOMAIN vertices : v = getVertexForInstruction(i)
      BY <1>1, <2>2, <3>1, VertexFacts
    <3>3. PICK a \in Nat, b \in Nat :
            /\ b <= Base /\ Closed(b)
            /\ \A j \in Nat : getVertexForInstruction(j) = v <=> j \in a..b
      BY <1>1, <3>2, VertexInterval
    <3>4. i \in a..b
      BY <2>2, <3>2, <3>3
    <3>5. \A j \in i..b : j \in a..b /\ j \in Nat
      BY <2>2, <3>3, <3>4
    <3> QED BY <2>1, <3>3, <3>4, <3>5
  <2>5. ASSUME func[i].op = "condbr" PROVE InOneVertex(IfStatement(i))
    <3>1. i > Params /\ Len(func[i].succs) = 2
      <4>1. Supported(func) /\ Params = 2 * Cardinality(Allocas(func))
        BY <2>2, FunctionFacts
      <4>2. i > 2 * Cardinality(Allocas(func)) + 1 /\ Len(func[i].succs) = 2
        BY <2>5, <4>1 DEF Supported, BranchesOf
      <4> QED BY <2>2, <4>1, <4>2
    <3>2. PICK v \in DOMAIN vertices, b \in Nat :
            /\ i <= b /\ b <= Len(func) /\ Closed(b)
            /\ \A j \in i..b : getVertexForInstruction(j) = v
      BY <2>4, <3>1
    <3>3. \A c \in 1..b : \A s \in DOMAIN func[c].succs : func[c].succs[s] <= b
      BY <3>2 DEF Closed
    <3>4. i < b
      <4>1. func[i].succs \in Seq((i + 1)..Len(func))
        BY <2>2, InstructionFacts
      <4>2. 1 \in DOMAIN func[i].succs /\ func[i].succs[1] \in (i + 1)..Len(func)
        BY <3>1, <4>1
      <4>3. i \in 1..b
        BY <2>2, <3>2
      <4>4. func[i].succs[1] <= b
        BY <3>3, <4>2, <4>3
      <4> QED BY <2>2, <3>2, <4>2, <4>4
    <3> DEFINE joins == {j \in (i + 1)..(Len(func) + 1) :
                           \A c \in i..(j - 1) : \A k \in DOMAIN func[c].succs : func[c].succs[k] <= j}
    <3>5. b \in joins
      <4>1. b \in (i + 1)..(Len(func) + 1) /\ \A c \in i..(b - 1) : c \in 1..b
        BY <2>2, <3>2, <3>4
      <4> QED BY <3>3, <4>1
    <3>6. IsFiniteSet(joins) /\ joins \subseteq Int
      <4>1. IsFiniteSet((i + 1)..(Len(func) + 1))
        BY <2>2, FS_Interval
      <4>2. joins \subseteq (i + 1)..(Len(func) + 1)
        OBVIOUS
      <4>3. IsFiniteSet(joins)
        BY <4>1, <4>2, FS_Subset
      <4>4. joins \subseteq Int
        <5>1. (i + 1)..(Len(func) + 1) \subseteq Int
          BY <2>2
        <5> QED BY <4>2, <5>1
      <4> QED BY <4>3, <4>4
    <3>7. PICK J \in joins : J = Min(joins) /\ J <= b
      <4> HIDE DEF joins
      <4> QED BY <3>5, <3>6, MinInt
    <3>8. IfStatement(i) = i..(J - 1)
      BY <3>7 DEF IfStatement
    <3>9. i \in i..(J - 1) /\ \A j \in i..(J - 1) : j \in i..b
      <4>1. J \in Int /\ J > i /\ J <= b
        BY <2>2, <3>7
      <4> QED BY <2>2, <3>2, <4>1
    <3> QED BY <2>3, <3>2, <3>8, <3>9
  <2>6. ASSUME i > Params, LoadsStatus(func[i])
        PROVE  InOneVertex({i} \union {j \in DOMAIN func :
                             \E k \in DOMAIN func[j].args : func[j].args[k] = i})
    <3>1. PICK v \in DOMAIN vertices, b \in Nat :
            /\ i <= b /\ b <= Len(func) /\ Closed(b)
            /\ \A j \in i..b : getVertexForInstruction(j) = v
      BY <2>4, <2>6
    <3>2. PICK t \in (i + 1)..b : func[t].op = "store"
      <4>1. i \in (Params + 1)..b
        BY <2>2, <2>6, <3>1
      <4> QED BY <2>6, <3>1, <4>1 DEF Closed, PointerOpen
    <3>3. PICK s \in (i + 1)..Len(func) :
            /\ \A c \in (i + 1)..(s - 1) : func[c].op # "store"
            /\ \A j \in DOMAIN func : \A k \in DOMAIN func[j].args : func[j].args[k] = i => j <= s
      <4>1. Supported(func) /\ Params = 2 * Cardinality(Allocas(func))
        BY <2>2, FunctionFacts
      <4>2. i \in (2 * Cardinality(Allocas(func)) + 1)..Len(func)
        BY <2>2, <2>6, <4>1
      <4> QED BY <2>6, <4>1, <4>2 DEF Supported, StatusUsedAtOnce
    <3>4. s <= b
      BY <2>2, <3>1, <3>2, <3>3
    <3>5. ASSUME NEW j \in DOMAIN func, NEW k \in DOMAIN func[j].args, func[j].args[k] = i
          PROVE  j \in i..b
      <4>1. func[j].args \in Seq(1..(j - 1))
        BY <2>2, InstructionFacts
      <4>2. i \in 1..(j - 1)
        BY <3>5, <4>1
      <4>3. j <= s
        BY <3>3, <3>5
      <4> QED BY <2>2, <3>1, <3>3, <3>4, <4>2, <4>3
    <3>6. \A j \in {i} \union {j \in DOMAIN func : \E k \in DOMAIN func[j].args : func[j].args[k] = i} :
            j \in i..b
      BY <2>2, <3>1, <3>5
    <3> QED BY <2>3, <3>1, <3>6
  <2> QED BY <2>5, <2>6 DEF Params
<1> QED BY <1>1, GraphAlways, PTL
-----------------------------------------------------------------------------
(* The calls handleDependencies inserts: how an insertion changes the lists. *)

(* A call that handleDependencies inserts, and whether two calls use one channel. *)
InsertedCall == [op : {"get", "put", "wait", "post"}, n : Nat, v : Nat, of : Nat]
SameChannel(d, e) == d.n = e.n /\ (d.op \in {"get", "put"} <=> e.op \in {"get", "put"})

(* B2 is B with call e inserted next to instruction i. *)
Inserts(N, B, B2, i, e) ==
  \E a \in DOMAIN B2[i] :
    /\ B2[i][a] = e
    /\ \A j \in 1..N : \A k \in DOMAIN B2[j] :
         j # i \/ k # a => \E m \in DOMAIN B[j] : B2[j][k] = B[j][m]
    /\ \A j \in 1..N : \A k, l \in DOMAIN B2[j] :
         k # l /\ (j # i \/ (k # a /\ l # a)) =>
           \E m, o \in DOMAIN B[j] : m # o /\ B2[j][k] = B[j][m] /\ B2[j][l] = B[j][o]
    /\ \A j \in 1..N : \A m \in DOMAIN B[j] : \E k \in DOMAIN B2[j] : B2[j][k] = B[j][m]

(* It is, when e is put in front of the list there or behind it. *)
AtEnd(B, B2, i, e) ==
  \/ B2 = [B EXCEPT ![i] = Append(B[i], e)]
  \/ B2 = [B EXCEPT ![i] = <<e>> \o B[i]]

(* Inserting at either end of an instruction's calls changes nothing else. *)
LEMMA Insertion ==
  ASSUME NEW C, NEW N \in Nat, NEW B \in [1..N -> Seq(C)], NEW i \in 1..N, NEW e \in C, NEW B2,
         AtEnd(B, B2, i, e)
  PROVE  B2 \in [1..N -> Seq(C)] /\ Inserts(N, B, B2, i, e)
<1>1. PICK s \in Seq(C) : s = B[i]
  OBVIOUS
<1>2. PICK n \in Nat : n = Len(s) /\ DOMAIN s = 1..n
  <2>1. Len(s) \in Nat /\ DOMAIN s = 1..Len(s)
    BY <1>1
  <2> QED BY <2>1
<1>3. \E t \in Seq(C) : \E a \in 1..(n + 1) :
        /\ B2 = [B EXCEPT ![i] = t]
        /\ DOMAIN t = 1..(n + 1) /\ t[a] = e
        /\ \A k \in 1..(n + 1) : k < a => k \in 1..n /\ t[k] = s[k]
        /\ \A k \in 1..(n + 1) : k > a => k - 1 \in 1..n /\ t[k] = s[k - 1]
        /\ \A m \in 1..n : \E k \in 1..(n + 1) : t[k] = s[m]
  <2>1. CASE B2 = [B EXCEPT ![i] = Append(B[i], e)]
    <3>1. PICK t \in Seq(C) : t = Append(s, e)
      <4>1. Append(s, e) \in Seq(C)
        BY <1>1
      <4> QED BY <4>1
    <3>2. Len(t) = n + 1 /\ t[n + 1] = e /\ \A k \in 1..n : t[k] = s[k]
      BY <1>1, <1>2, <3>1
    <3>3. DOMAIN t = 1..(n + 1)
      BY <3>1, <3>2
    <3>4. B2 = [B EXCEPT ![i] = t]
      BY <1>1, <2>1, <3>1
    <3>5. n + 1 \in 1..(n + 1) /\ \A k \in 1..(n + 1) : (k < n + 1 => k \in 1..n) /\ ~ (k > n + 1)
      OBVIOUS
    <3>6. \A m \in 1..n : m \in 1..(n + 1)
      OBVIOUS
    <3> QED BY <3>1, <3>2, <3>3, <3>4, <3>5, <3>6
  <2>2. CASE B2 = [B EXCEPT ![i] = <<e>> \o B[i]]
    <3>0. PICK h \in Seq(C) : h = <<e>> /\ Len(h) = 1 /\ h[1] = e
      <4>1. <<e>> \in Seq(C) /\ Len(<<e>>) = 1 /\ <<e>>[1] = e
        OBVIOUS
      <4> QED BY <4>1
    <3> DEFINE t == h \o s
    <3>9. /\ t \in Seq(C)
          /\ Len(t) = Len(h) + Len(s)
          /\ \A k \in 1..Len(h) + Len(s) :
                t[k] = IF k <= Len(h) THEN h[k] ELSE s[k - Len(h)]
      BY ConcatProperties
    <3>1. t \in Seq(C) /\ Len(t) = 1 + n
          /\ \A k \in 1..(1 + n) : t[k] = IF k <= 1 THEN h[k] ELSE s[k - 1]
      <4> HIDE DEF t
      <4>1. Len(h) = 1 /\ Len(s) = n
        BY <1>2, <3>0
      <4> QED BY <3>9, <4>1, Zenon
    <3>2. B2 = [B EXCEPT ![i] = t]
      BY <1>1, <2>2, <3>0
    <3> HIDE DEF t
    <3>3. 1 \in 1..(n + 1) /\ 1 + n = n + 1
      OBVIOUS
    <3>4. t[1] = e
      BY <3>0, <3>1, <3>3
    <3>5. DOMAIN t = 1..(n + 1)
      BY <3>1
    <3>6. \A k \in 1..(n + 1) : ~ (k < 1)
      OBVIOUS
    <3>7. ASSUME NEW k \in 1..(n + 1), k > 1 PROVE k - 1 \in 1..n /\ t[k] = s[k - 1]
      BY <3>1, <3>7
    <3>8. ASSUME NEW m \in 1..n PROVE \E k \in 1..(n + 1) : t[k] = s[m]
      <4>1. m + 1 \in 1..(n + 1) /\ m + 1 > 1 /\ (m + 1) - 1 = m
        OBVIOUS
      <4> QED BY <3>7, <4>1
    <3> QED BY <3>1, <3>2, <3>3, <3>4, <3>5, <3>6, <3>7, <3>8
  <2> QED BY <2>1, <2>2 DEF AtEnd
<1>4. PICK t \in Seq(C) : \E a \in 1..(n + 1) :
        /\ B2 = [B EXCEPT ![i] = t]
        /\ DOMAIN t = 1..(n + 1) /\ t[a] = e
        /\ \A k \in 1..(n + 1) : k < a => k \in 1..n /\ t[k] = s[k]
        /\ \A k \in 1..(n + 1) : k > a => k - 1 \in 1..n /\ t[k] = s[k - 1]
        /\ \A m \in 1..n : \E k \in 1..(n + 1) : t[k] = s[m]
  BY <1>3
<1>5. PICK a \in 1..(n + 1) :
        /\ B2 = [B EXCEPT ![i] = t]
        /\ DOMAIN t = 1..(n + 1) /\ t[a] = e
        /\ \A k \in 1..(n + 1) : k < a => k \in 1..n /\ t[k] = s[k]
        /\ \A k \in 1..(n + 1) : k > a => k - 1 \in 1..n /\ t[k] = s[k - 1]
        /\ \A m \in 1..n : \E k \in 1..(n + 1) : t[k] = s[m]
  BY <1>4
<1>6. B2 \in [1..N -> Seq(C)] /\ B2[i] = t /\ \A j \in 1..N : j # i => B2[j] = B[j]
  BY <1>5
<1>7. \A k \in 1..(n + 1) : k # a =>
        \E m \in 1..n : t[k] = s[m] /\ m = IF k < a THEN k ELSE k - 1
  <2> TAKE k \in 1..(n + 1)
  <2>1. CASE k < a
    BY <1>5, <2>1
  <2>2. CASE k > a
    BY <1>5, <2>2
  <2> QED BY <1>2, <1>5, <2>1, <2>2
<1>8. ASSUME NEW k \in 1..(n + 1), NEW l \in 1..(n + 1), k # l, k # a, l # a
      PROVE  \E m, o \in 1..n : m # o /\ t[k] = s[m] /\ t[l] = s[o]
  <2>1. PICK m \in 1..n : t[k] = s[m] /\ m = IF k < a THEN k ELSE k - 1
    BY <1>7, <1>8
  <2>2. PICK o \in 1..n : t[l] = s[o] /\ o = IF l < a THEN l ELSE l - 1
    BY <1>7, <1>8
  <2>3. m # o
    <3>1. k \in Nat /\ l \in Nat /\ a \in Nat
      BY <1>2, <1>5
    <3>2. m = IF k < a THEN k ELSE k - 1
      BY <2>1
    <3>3. o = IF l < a THEN l ELSE l - 1
      BY <2>2
    <3> QED BY <1>8, <3>1, <3>2, <3>3
  <2> QED BY <2>1, <2>2, <2>3
<1>9. a \in DOMAIN B2[i] /\ B2[i][a] = e
  BY <1>5, <1>6
<1>10. \A j \in 1..N : \A k \in DOMAIN B2[j] :
         j # i \/ k # a => \E m \in DOMAIN B[j] : B2[j][k] = B[j][m]
  <2> TAKE j \in 1..N
  <2>1. CASE j = i
    <3>1. B2[j] = t /\ B[j] = s /\ DOMAIN t = 1..(n + 1) /\ DOMAIN s = 1..n
      BY <1>1, <1>2, <1>5, <1>6, <2>1
    <3>2. \A k \in 1..(n + 1) : k # a => \E m \in 1..n : t[k] = s[m]
      BY <1>7
    <3> SUFFICES ASSUME NEW k \in DOMAIN B2[j], k # a
                 PROVE  \E m \in DOMAIN B[j] : B2[j][k] = B[j][m]
      BY <2>1
    <3>3. PICK m \in 1..n : t[k] = s[m]
      BY <3>1, <3>2
    <3> QED BY <3>1, <3>3
  <2>2. CASE j # i
    BY <1>6, <2>2
  <2> QED BY <2>1, <2>2
<1>11. \A j \in 1..N : \A k, l \in DOMAIN B2[j] :
         k # l /\ (j # i \/ (k # a /\ l # a)) =>
           \E m, o \in DOMAIN B[j] : m # o /\ B2[j][k] = B[j][m] /\ B2[j][l] = B[j][o]
  <2> TAKE j \in 1..N
  <2>1. CASE j = i
    <3>1. B2[j] = t /\ B[j] = s /\ DOMAIN t = 1..(n + 1) /\ DOMAIN s = 1..n
      BY <1>1, <1>2, <1>5, <1>6, <2>1
    <3>2. \A k, l \in 1..(n + 1) : k # l /\ k # a /\ l # a =>
            \E m, o \in 1..n : m # o /\ t[k] = s[m] /\ t[l] = s[o]
      BY <1>8
    <3> SUFFICES ASSUME NEW k \in DOMAIN B2[j], NEW l \in DOMAIN B2[j], k # l, k # a, l # a
                 PROVE  \E m, o \in DOMAIN B[j] : m # o /\ B2[j][k] = B[j][m] /\ B2[j][l] = B[j][o]
      BY <2>1
    <3>3. k \in 1..(n + 1) /\ l \in 1..(n + 1)
      BY <3>1
    <3>4. PICK m, o \in 1..n : m # o /\ t[k] = s[m] /\ t[l] = s[o]
      BY <3>2, <3>3
    <3> QED BY <3>1, <3>4
  <2>2. CASE j # i
    BY <1>6, <2>2
  <2> QED BY <2>1, <2>2
<1>12. \A j \in 1..N : \A m \in DOMAIN B[j] : \E k \in DOMAIN B2[j] : B2[j][k] = B[j][m]
  <2> TAKE j \in 1..N
  <2>1. CASE j = i
    BY <1>1, <1>2, <1>5, <1>6, <2>1
  <2>2. CASE j # i
    BY <1>6, <2>2
  <2> QED BY <2>1, <2>2
<1> QED BY <1>6, <1>9, <1>10, <1>11, <1>12 DEF Inserts

(* Every channel is used once by the calls of B. *)
CallsOnce(N, B) ==
  \A i, j \in 1..N : \A k \in DOMAIN B[i] : \A l \in DOMAIN B[j] :
    SameChannel(B[i][k], B[j][l]) => i = j /\ k = l

(* A call with a new number keeps it so. *)
LEMMA InsertOnce ==
  ASSUME NEW N \in Nat, NEW B, NEW B2, NEW i \in 1..N, NEW e, Inserts(N, B, B2, i, e),
         CallsOnce(N, B), \A j \in 1..N : \A m \in DOMAIN B[j] : ~ SameChannel(B[j][m], e)
  PROVE  CallsOnce(N, B2)
<1>1. PICK a \in DOMAIN B2[i] :
        /\ B2[i][a] = e
        /\ \A j \in 1..N : \A k \in DOMAIN B2[j] :
             j # i \/ k # a => \E m \in DOMAIN B[j] : B2[j][k] = B[j][m]
        /\ \A j \in 1..N : \A k, l \in DOMAIN B2[j] :
             k # l /\ (j # i \/ (k # a /\ l # a)) =>
               \E m, o \in DOMAIN B[j] : m # o /\ B2[j][k] = B[j][m] /\ B2[j][l] = B[j][o]
  BY DEF Inserts
<1>2. \A d, f : SameChannel(d, f) <=> SameChannel(f, d)
  BY DEF SameChannel
<1>3. ASSUME NEW j \in 1..N, NEW h \in 1..N, NEW k \in DOMAIN B2[j], NEW l \in DOMAIN B2[h],
             SameChannel(B2[j][k], B2[h][l])
      PROVE  j = h /\ k = l
  <2>1. CASE j = i /\ k = a
    <3> SUFFICES ASSUME h # i \/ l # a PROVE FALSE
      BY <2>1
    <3>1. PICK m \in DOMAIN B[h] : B2[h][l] = B[h][m]
      BY <1>1
    <3> QED BY <1>1, <1>2, <1>3, <2>1, <3>1
  <2>2. CASE h = i /\ l = a
    <3> SUFFICES ASSUME j # i \/ k # a PROVE FALSE
      BY <2>2
    <3>1. PICK m \in DOMAIN B[j] : B2[j][k] = B[j][m]
      BY <1>1
    <3> QED BY <1>1, <1>3, <2>2, <3>1
  <2>3. CASE (j # i \/ k # a) /\ (h # i \/ l # a)
    <3>1. PICK m \in DOMAIN B[j] : B2[j][k] = B[j][m]
      BY <1>1, <2>3
    <3>2. PICK o \in DOMAIN B[h] : B2[h][l] = B[h][o]
      BY <1>1, <2>3
    <3>3. j = h
      BY <1>3, <3>1, <3>2 DEF CallsOnce
    <3>4. k = l
      <4> SUFFICES ASSUME k # l PROVE FALSE
        OBVIOUS
      <4>1. PICK x, y \in DOMAIN B[j] : x # y /\ B2[j][k] = B[j][x] /\ B2[j][l] = B[j][y]
        BY <1>1, <2>3, <3>3
      <4> QED BY <1>3, <3>3, <4>1 DEF CallsOnce
    <3> QED BY <3>3, <3>4
  <2> QED BY <2>1, <2>2, <2>3
<1> QED BY <1>3 DEF CallsOnce
-----------------------------------------------------------------------------
(* What the inserted calls satisfy while the dependencies are handled. *)

(* Where the calls of handleDependencies stand: in the vertex of the       *)
(* instruction they are inserted for, directly at it or, when the vertex   *)
(* has a branch, at the vertex's begin or end.                             *)
CallBefore(i, e) ==
  /\ e.op \in {"get", "wait"}
  /\ e.of \in 1..Len(func) /\ e.v # 0 /\ e.v = vertexOf(e.of) /\ e.v = vertexOf(i)
  /\ IF containsBranch(e.v) THEN i = Head(vertices[e.v]) ELSE i = e.of
CallAfter(i, e) ==
  /\ e.op \in {"put", "post"}
  /\ e.of \in 1..Len(func) /\ e.v # 0 /\ e.v = vertexOf(e.of) /\ e.v = vertexOf(i)
  /\ IF containsBranch(e.v) THEN i = Last(vertices[e.v]) ELSE i = e.of

(* The numbers given out so far. *)
Numbered(e) == IF e.op \in {"get", "put"} THEN e.n < depNumber ELSE e.n \in 1..(semNumber - 1)

CallsTyped ==
  /\ phase \in {"graph", "dependencies", "run"}
  /\ tgt \in 1..(Len(func) + 1) /\ nextDep \in Nat \ {0}
  /\ before \in [1..Len(func) -> Seq(InsertedCall)]
  /\ after \in [1..Len(func) -> Seq(InsertedCall)]
  /\ dataDependencies \in Seq({"IntT", "RealT"}) /\ depNumber = Len(dataDependencies)
  /\ semNumber \in Nat \ {0} /\ semNumberMax \in Nat
  /\ phase = "graph" =>
       /\ tgt = 1 /\ nextDep = 1
       /\ \A i \in 1..Len(func) : before[i] = <<>> /\ after[i] = <<>>
  /\ phase # "graph" => pos = Len(func) /\ part \in [DOMAIN vertices -> Partitions]
  /\ phase = "run" => tgt = Len(func) + 1 /\ semNumberMax >= semNumber

CallsPlaced ==
  \A i \in 1..Len(func) :
    /\ \A k \in DOMAIN before[i] : CallBefore(i, before[i][k]) /\ Numbered(before[i][k])
    /\ \A k \in DOMAIN after[i] : CallAfter(i, after[i][k]) /\ Numbered(after[i][k])

(* Every receive has its send, in an earlier vertex, and every send its receive. *)
PairsMatched(N, B, A) ==
  /\ \A i \in 1..N : \A k \in DOMAIN B[i] :
       \E j \in 1..N : \E l \in DOMAIN A[j] : SameChannel(A[j][l], B[i][k]) /\ A[j][l].v < B[i][k].v
  /\ \A j \in 1..N : \A l \in DOMAIN A[j] :
       \E i \in 1..N : \E k \in DOMAIN B[i] : SameChannel(A[j][l], B[i][k])

(* The mailboxes have the type of the values put into them. *)
SentType(e) ==
  e.op = "put" =>
    /\ func[e.of].type \in {"int", "real"}
    /\ dataDependencies[e.n + 1] = IF func[e.of].type = "int" THEN "IntT" ELSE "RealT"
TypesSent == \A i \in 1..Len(func) : \A k \in DOMAIN after[i] : SentType(after[i][k])

(* The dependencies handled so far are bridged by a pair of calls. *)
Handled(t, d) == t < tgt \/ (t = tgt /\ d < nextDep)
BridgedBy(N, B, A, t, o) ==
  \E i, j \in 1..N : \E k \in DOMAIN B[i] : \E l \in DOMAIN A[j] :
    B[i][k].of = t /\ A[j][l].of = o /\ SameChannel(A[j][l], B[i][k])
DependenciesBridged ==
  \A t \in 1..Len(func) : \A d \in DOMAIN dependenciesOf(t) :
    /\ Handled(t, d)
    /\ Crosses(t, dependenciesOf(t)[d]) /\ CanTransfer(dependenciesOf(t)[d])
    => BridgedBy(Len(func), before, after, t, dependenciesOf(t)[d].on)

CallsInv ==
  /\ CallsTyped
  /\ CallsPlaced
  /\ CallsOnce(Len(func), before) /\ CallsOnce(Len(func), after)
  /\ PairsMatched(Len(func), before, after)
  /\ TypesSent
  /\ DependenciesBridged
-----------------------------------------------------------------------------
(* The first and the last instruction of a vertex. *)
LEMMA VertexEnds ==
  ASSUME GraphInv, AllSupported, NEW v \in DOMAIN vertices
  PROVE  /\ v \in Nat /\ v # 0
         /\ Head(vertices[v]) \in 1..Len(func) /\ vertexOf(Head(vertices[v])) = v
         /\ Last(vertices[v]) \in 1..Len(func) /\ vertexOf(Last(vertices[v])) = v
         /\ \A i \in Nat : vertexOf(i) = v =>
              /\ i \in 1..Len(func)
              /\ Head(vertices[v]) <= i /\ i <= Last(vertices[v])
<1>1. PICK a, b \in Nat :
           /\ Params < a /\ a <= b /\ b <= Base
           /\ a = vertices[v][1] /\ b = vertices[v][Len(vertices[v])]
           /\ \A i \in Nat : getVertexForInstruction(i) = v <=> i \in a..b
  BY VertexInterval
<1>2. Params \in Nat /\ Base \in Nat /\ Len(func) \in Nat /\ Base <= Len(func)
  BY GraphNumbers
<1>3. Head(vertices[v]) = a /\ Last(vertices[v]) = b
  BY <1>1 DEF Last
<1>4. a \in 1..Len(func) /\ b \in 1..Len(func) /\ a \in a..b /\ b \in a..b
  BY <1>1, <1>2
<1>5. \A i \in a..b : i \in 1..Len(func) /\ a <= i /\ i <= b
  BY <1>1, <1>2
<1>6. v \in Nat /\ v # 0
  <2>1. vertices \in Seq(Seq(1..Len(func)))
    BY DEF GraphInv, GraphTyped
  <2> QED BY <2>1
<1> QED BY <1>1, <1>3, <1>4, <1>5, <1>6 DEF vertexOf

(* The graph is looked at, not changed. *)
LEMMA SameGraph ==
  ASSUME UNCHANGED graphVars
  PROVE  /\ func' = func /\ vertices' = vertices /\ pos' = pos
         /\ \A i : vertexOf(i)' = vertexOf(i)
         /\ \A v : containsBranch(v)' = containsBranch(v)
         /\ \A i : dependenciesOf(i)' = dependenciesOf(i)
         /\ \A d : CanTransfer(d)' = CanTransfer(d)
         /\ part' = part => \A i, d : Crosses(i, d)' = Crosses(i, d)
         /\ \A i, e : CallBefore(i, e)' = CallBefore(i, e) /\ CallAfter(i, e)' = CallAfter(i, e)
<1>1. func' = func /\ vertices' = vertices /\ pos' = pos
  BY DEF graphVars
<1>2. \A i : vertexOf(i)' = vertexOf(i)
  BY <1>1 DEF vertexOf, getVertexForInstruction
<1>3. \A v : containsBranch(v)' = containsBranch(v)
  BY <1>1 DEF containsBranch
<1>4. \A i : dependenciesOf(i)' = dependenciesOf(i)
  BY <1>1 DEF dependenciesOf
<1>5. \A d : CanTransfer(d)' = CanTransfer(d)
  BY <1>1 DEF CanTransfer
<1>6. part' = part => \A i, d : Crosses(i, d)' = Crosses(i, d)
  BY <1>2 DEF Crosses
<1>7. \A i, e : CallBefore(i, e)' = CallBefore(i, e)
  BY <1>1, <1>2, <1>3 DEF CallBefore
<1>8. \A i, e : CallAfter(i, e)' = CallAfter(i, e)
  BY <1>1, <1>2, <1>3 DEF CallAfter
<1> QED BY <1>1, <1>2, <1>3, <1>4, <1>5, <1>6, <1>7, <1>8

(* Nothing is inserted before the dependencies are handled. *)
LEMMA CallsInitially == ASSUME Init, AllSupported PROVE CallsInv
<1>1. func \in Functions /\ Len(func) \in Nat /\ DOMAIN func = 1..Len(func)
  BY FunctionFacts DEF Init, InitGraph
<1>2. /\ before = [i \in 1..Len(func) |-> <<>>] /\ after = [i \in 1..Len(func) |-> <<>>]
      /\ tgt = 1 /\ nextDep = 1 /\ phase = "graph" /\ semNumber = 1
  BY <1>1 DEF Init
<1>3. dataDependencies \in Seq({"IntT", "RealT"}) /\ semNumberMax \in Nat /\ depNumber = Len(dataDependencies)
  BY PartitioningAssumption DEF Init
<1>4. CallsTyped
  <2> DEFINE C == InsertedCall
  <2>1. <<>> \in Seq(C)
    <3> HIDE DEF C
    <3> QED OBVIOUS
  <2> QED BY <1>1, <1>2, <1>3, <2>1 DEF CallsTyped
<1>5. \A i \in 1..Len(func) : DOMAIN before[i] = {} /\ DOMAIN after[i] = {}
  BY <1>2
<1>6. /\ CallsPlaced /\ CallsOnce(Len(func), before) /\ CallsOnce(Len(func), after)
      /\ PairsMatched(Len(func), before, after) /\ TypesSent
  BY <1>5 DEF CallsPlaced, CallsOnce, PairsMatched, TypesSent
<1>7. ASSUME NEW t \in 1..Len(func), NEW d \in DOMAIN dependenciesOf(t) PROVE ~ Handled(t, d)
  <2>1. PICK f \in Functions : f = func /\ Supported(f)
    BY <1>1 DEF AllSupported
  <2>2. getDependencies(f)[t] \in Seq([on : 1..(t - 1), kind : {"reg", "mem", "ctrl"}])
    BY <1>1, <2>1, DependenciesEarlier
  <2>3. PICK s \in Seq([on : 1..(t - 1), kind : {"reg", "mem", "ctrl"}]) : s = dependenciesOf(t)
    BY <2>1, <2>2 DEF dependenciesOf
  <2>4. d \in Nat /\ d >= 1
    BY <2>3
  <2> QED BY <1>1, <1>2, <2>4 DEF Handled
<1> QED BY <1>4, <1>6, <1>7 DEF CallsInv, DependenciesBridged

(* While the graph is built there are none. *)
LEMMA NoCallsYet ==
  ASSUME CallsInv, AllSupported, func \in Functions, func' = func, phase = "graph",
         before' = before, after' = after, tgt' = tgt, nextDep' = nextDep, CallsTyped'
  PROVE  CallsInv'
<1>1. Len(func) \in Nat /\ DOMAIN func = 1..Len(func)
  BY FunctionFacts
<1>2. \A i \in 1..Len(func) : before[i] = <<>> /\ after[i] = <<>>
  BY DEF CallsInv, CallsTyped
<1>3. \A i \in 1..Len(func) : DOMAIN before[i] = {} /\ DOMAIN after[i] = {}
  BY <1>2
<1>4. (/\ CallsPlaced /\ CallsOnce(Len(func), before) /\ CallsOnce(Len(func), after)
       /\ PairsMatched(Len(func), before, after) /\ TypesSent)'
  BY <1>3 DEF CallsPlaced, CallsOnce, PairsMatched, TypesSent
<1>5. ASSUME NEW t \in 1..Len(func), NEW d \in DOMAIN dependenciesOf(t)' PROVE ~ Handled(t, d)'
  <2>1. PICK f \in Functions : f = func /\ Supported(f)
    BY DEF AllSupported
  <2>2. getDependencies(f)[t] \in Seq([on : 1..(t - 1), kind : {"reg", "mem", "ctrl"}])
    BY <1>1, <2>1, DependenciesEarlier
  <2>3. PICK s \in Seq([on : 1..(t - 1), kind : {"reg", "mem", "ctrl"}]) : s = dependenciesOf(t)'
    BY <2>1, <2>2 DEF dependenciesOf
  <2>4. d \in Nat /\ d >= 1
    BY <2>3
  <2>5. tgt = 1 /\ nextDep = 1
    BY DEF CallsInv, CallsTyped
  <2> QED BY <1>1, <2>4, <2>5 DEF Handled
<1> QED BY <1>4, <1>5 DEF CallsInv, DependenciesBridged

(* A receive goes where it may stand. *)
LEMMA ReceiveInserted ==
  ASSUME GraphInv, AllSupported, CallsTyped, NEW i \in 1..Len(func), vertexOf(i) \in DOMAIN vertices,
         NEW call, call.op \in {"get", "wait"}, call.n \in Nat
  PROVE  /\ Entry(i, call) \in InsertedCall
         /\ InsertBefore(i, call) \in [1..Len(func) -> Seq(InsertedCall)]
         /\ \E at \in 1..Len(func) :
              /\ CallBefore(at, Entry(i, call))
              /\ Inserts(Len(func), before, InsertBefore(i, call), at, Entry(i, call))
<1>1. PICK N \in Nat : N = Len(func)
  BY GraphNumbers
<1>2. PICK v \in DOMAIN vertices : v = vertexOf(i)
  OBVIOUS
<1>3. PICK e \in InsertedCall : e = Entry(i, call)
  <2>1. vertexOf(i) \in Nat /\ i \in Nat
    BY <1>1, <1>2, VertexEnds
  <2>2. Entry(i, call) \in InsertedCall
    BY <2>1 DEF Entry, InsertedCall
  <2> QED BY <2>2
<1>4. e.op = call.op /\ e.of = i /\ e.v = v
  BY <1>2, <1>3 DEF Entry
<1>5. v # 0 /\ Head(vertices[v]) \in 1..N /\ vertexOf(Head(vertices[v])) = v
  BY <1>1, <1>2, VertexEnds
<1>6. PICK B \in [1..N -> Seq(InsertedCall)] : B = before
  BY <1>1 DEF CallsTyped
<1>7. PICK B2 : B2 = InsertBefore(i, call)
  OBVIOUS
<1>8. CASE containsBranch(v)
  <2>1. PICK at \in 1..N : at = Head(vertices[v])
    BY <1>5
  <2>2. B2 = [B EXCEPT ![at] = <<e>> \o B[at]]
    BY <1>2, <1>3, <1>6, <1>7, <1>8, <2>1 DEF InsertBefore
  <2>5. AtEnd(B, B2, at, e)
    BY <2>2 DEF AtEnd
  <2>3. B2 \in [1..N -> Seq(InsertedCall)] /\ Inserts(N, B, B2, at, e)
    BY <2>5, Insertion
  <2>4. CallBefore(at, e)
    BY <1>1, <1>2, <1>4, <1>5, <1>8, <2>1 DEF CallBefore
  <2> QED BY <1>1, <1>3, <1>6, <1>7, <2>3, <2>4
<1>9. CASE ~ containsBranch(v)
  <2>1. PICK at \in 1..N : at = i
    BY <1>1
  <2>2. B2 = [B EXCEPT ![at] = Append(B[at], e)]
    BY <1>2, <1>3, <1>6, <1>7, <1>9, <2>1 DEF InsertBefore
  <2>5. AtEnd(B, B2, at, e)
    BY <2>2 DEF AtEnd
  <2>3. B2 \in [1..N -> Seq(InsertedCall)] /\ Inserts(N, B, B2, at, e)
    BY <2>5, Insertion
  <2>4. CallBefore(at, e)
    BY <1>1, <1>2, <1>4, <1>5, <1>9, <2>1 DEF CallBefore
  <2> QED BY <1>1, <1>3, <1>6, <1>7, <2>3, <2>4
<1> QED BY <1>8, <1>9

(* And so does a send. *)
LEMMA SendInserted ==
  ASSUME GraphInv, AllSupported, CallsTyped, NEW i \in 1..Len(func), vertexOf(i) \in DOMAIN vertices,
         NEW call, call.op \in {"put", "post"}, call.n \in Nat
  PROVE  /\ Entry(i, call) \in InsertedCall
         /\ InsertAfter(i, call) \in [1..Len(func) -> Seq(InsertedCall)]
         /\ \E at \in 1..Len(func) :
              /\ CallAfter(at, Entry(i, call))
              /\ Inserts(Len(func), after, InsertAfter(i, call), at, Entry(i, call))
<1>1. PICK N \in Nat : N = Len(func)
  BY GraphNumbers
<1>2. PICK v \in DOMAIN vertices : v = vertexOf(i)
  OBVIOUS
<1>3. PICK e \in InsertedCall : e = Entry(i, call)
  <2>1. vertexOf(i) \in Nat /\ i \in Nat
    BY <1>1, <1>2, VertexEnds
  <2>2. Entry(i, call) \in InsertedCall
    BY <2>1 DEF Entry, InsertedCall
  <2> QED BY <2>2
<1>4. e.op = call.op /\ e.of = i /\ e.v = v
  BY <1>2, <1>3 DEF Entry
<1>5. v # 0 /\ Last(vertices[v]) \in 1..N /\ vertexOf(Last(vertices[v])) = v
  BY <1>1, <1>2, VertexEnds
<1>6. PICK A \in [1..N -> Seq(InsertedCall)] : A = after
  BY <1>1 DEF CallsTyped
<1>7. PICK A2 : A2 = InsertAfter(i, call)
  OBVIOUS
<1>8. CASE containsBranch(v)
  <2>1. PICK at \in 1..N : at = Last(vertices[v])
    BY <1>5
  <2>2. A2 = [A EXCEPT ![at] = Append(A[at], e)]
    BY <1>2, <1>3, <1>6, <1>7, <1>8, <2>1 DEF InsertAfter
  <2>5. AtEnd(A, A2, at, e)
    BY <2>2 DEF AtEnd
  <2>3. A2 \in [1..N -> Seq(InsertedCall)] /\ Inserts(N, A, A2, at, e)
    BY <2>5, Insertion
  <2>4. CallAfter(at, e)
    BY <1>1, <1>2, <1>4, <1>5, <1>8, <2>1 DEF CallAfter
  <2> QED BY <1>1, <1>3, <1>6, <1>7, <2>3, <2>4
<1>9. CASE ~ containsBranch(v)
  <2>1. PICK at \in 1..N : at = i
    BY <1>1
  <2>2. A2 = [A EXCEPT ![at] = <<e>> \o A[at]]
    BY <1>2, <1>3, <1>6, <1>7, <1>9, <2>1 DEF InsertAfter
  <2>5. AtEnd(A, A2, at, e)
    BY <2>2 DEF AtEnd
  <2>3. A2 \in [1..N -> Seq(InsertedCall)] /\ Inserts(N, A, A2, at, e)
    BY <2>5, Insertion
  <2>4. CallAfter(at, e)
    BY <1>1, <1>2, <1>4, <1>5, <1>9, <2>1 DEF CallAfter
  <2> QED BY <1>1, <1>3, <1>6, <1>7, <2>3, <2>4
<1> QED BY <1>8, <1>9

(* A dependency that crosses leads from an earlier vertex to a later one. *)
LEMMA CrossingForward ==
  ASSUME GraphInv, AllSupported, CallsTyped, NEW t \in 1..Len(func),
         NEW d \in DOMAIN dependenciesOf(t), Crosses(t, dependenciesOf(t)[d])
  PROVE  /\ dependenciesOf(t)[d].on \in 1..Len(func)
         /\ vertexOf(t) \in DOMAIN vertices
         /\ vertexOf(dependenciesOf(t)[d].on) \in DOMAIN vertices
         /\ vertexOf(dependenciesOf(t)[d].on) < vertexOf(t)
<1>1. Len(func) \in Nat /\ DOMAIN func = 1..Len(func)
  BY GraphNumbers
<1>2. /\ dependenciesOf(t)[d].on \in 1..(t - 1)
      /\ vertexOf(dependenciesOf(t)[d].on) # 0 =>
              vertexOf(dependenciesOf(t)[d].on) <= vertexOf(t) \/ vertexOf(t) = 0
  BY <1>1, DependencyFacts DEF dependenciesOf, vertexOf
<1>3. PICK o \in 1..(t - 1) : o = dependenciesOf(t)[d].on
  BY <1>2
<1>4. vertexOf(t) # 0 /\ vertexOf(o) # 0 /\ part[vertexOf(t)] # part[vertexOf(o)]
  BY <1>3 DEF Crosses
<1>5. t \in Nat /\ o \in Nat /\ o \in 1..Len(func)
  BY <1>1, <1>3
<1>6. /\ vertexOf(t) \in Nat /\ vertexOf(o) \in Nat
      /\ vertexOf(t) \in DOMAIN vertices /\ vertexOf(o) \in DOMAIN vertices
  BY <1>4, <1>5, VertexFacts DEF vertexOf
<1>7. vertexOf(o) <= vertexOf(t) /\ vertexOf(o) # vertexOf(t)
  BY <1>2, <1>3, <1>4
<1> QED BY <1>3, <1>5, <1>6, <1>7

(* Of the calls one is new, and all others are the old ones. *)
OneIsNew(N, B, B2, i, e) ==
  /\ \E k \in DOMAIN B2[i] : B2[i][k] = e
  /\ \A j \in 1..N : \A k \in DOMAIN B2[j] :
       (j = i /\ B2[j][k] = e) \/ \E m \in DOMAIN B[j] : B2[j][k] = B[j][m]
  /\ \A j \in 1..N : \A m \in DOMAIN B[j] : \E k \in DOMAIN B2[j] : B2[j][k] = B[j][m]

(* After an insertion one call is new and all others are the old ones. *)
LEMMA InsertedCalls ==
  ASSUME NEW N, NEW B, NEW B2, NEW i \in 1..N, NEW e, Inserts(N, B, B2, i, e)
  PROVE  OneIsNew(N, B, B2, i, e)
<1>1. PICK a \in DOMAIN B2[i] :
        /\ B2[i][a] = e
        /\ \A j \in 1..N : \A k \in DOMAIN B2[j] :
             j # i \/ k # a => \E m \in DOMAIN B[j] : B2[j][k] = B[j][m]
        /\ \A j \in 1..N : \A m \in DOMAIN B[j] : \E k \in DOMAIN B2[j] : B2[j][k] = B[j][m]
  BY DEF Inserts
<1>2. \A j \in 1..N : \A k \in DOMAIN B2[j] :
        (j = i /\ B2[j][k] = e) \/ \E m \in DOMAIN B[j] : B2[j][k] = B[j][m]
  BY <1>1
<1> QED BY <1>1, <1>2 DEF OneIsNew

(* A new pair of calls keeps the pairs matched, and what was bridged stays bridged. *)
LEMMA PairInserted ==
  ASSUME NEW N, NEW B, NEW B2, NEW A, NEW A2, NEW i \in 1..N, NEW j \in 1..N, NEW e, NEW f,
         Inserts(N, B, B2, i, e), Inserts(N, A, A2, j, f),
         SameChannel(f, e), f.v < e.v, PairsMatched(N, B, A)
  PROVE  /\ PairsMatched(N, B2, A2)
         /\ BridgedBy(N, B2, A2, e.of, f.of)
         /\ \A t, o : BridgedBy(N, B, A, t, o) => BridgedBy(N, B2, A2, t, o)
<1>1. /\ \E k \in DOMAIN B2[i] : B2[i][k] = e
      /\ \A h \in 1..N : \A k \in DOMAIN B2[h] :
              (h = i /\ B2[h][k] = e) \/ \E m \in DOMAIN B[h] : B2[h][k] = B[h][m]
      /\ \A h \in 1..N : \A m \in DOMAIN B[h] : \E k \in DOMAIN B2[h] : B2[h][k] = B[h][m]
  <2>1. OneIsNew(N, B, B2, i, e)
    BY InsertedCalls
  <2> QED BY <2>1 DEF OneIsNew
<1>2. /\ \E k \in DOMAIN A2[j] : A2[j][k] = f
      /\ \A h \in 1..N : \A k \in DOMAIN A2[h] :
              (h = j /\ A2[h][k] = f) \/ \E m \in DOMAIN A[h] : A2[h][k] = A[h][m]
      /\ \A h \in 1..N : \A m \in DOMAIN A[h] : \E k \in DOMAIN A2[h] : A2[h][k] = A[h][m]
  <2>1. OneIsNew(N, A, A2, j, f)
    BY InsertedCalls
  <2> QED BY <2>1 DEF OneIsNew
<1>3. PICK ke \in DOMAIN B2[i] : B2[i][ke] = e
  BY <1>1
<1>4. PICK kf \in DOMAIN A2[j] : A2[j][kf] = f
  BY <1>2
<1>5. ASSUME NEW h \in 1..N, NEW k \in DOMAIN B2[h]
      PROVE  \E g \in 1..N : \E l \in DOMAIN A2[g] :
               SameChannel(A2[g][l], B2[h][k]) /\ A2[g][l].v < B2[h][k].v
  <2>1. CASE B2[h][k] = e
    BY <1>4, <2>1
  <2>2. ASSUME NEW m \in DOMAIN B[h], B2[h][k] = B[h][m]
        PROVE  \E g \in 1..N : \E l \in DOMAIN A2[g] :
                 SameChannel(A2[g][l], B2[h][k]) /\ A2[g][l].v < B2[h][k].v
    <3>1. PICK g \in 1..N : \E l \in DOMAIN A[g] :
             SameChannel(A[g][l], B[h][m]) /\ A[g][l].v < B[h][m].v
      BY DEF PairsMatched
    <3>2. PICK l \in DOMAIN A[g] : SameChannel(A[g][l], B[h][m]) /\ A[g][l].v < B[h][m].v
      BY <3>1
    <3>3. PICK l2 \in DOMAIN A2[g] : A2[g][l2] = A[g][l]
      BY <1>2, <3>2
    <3> QED BY <2>2, <3>2, <3>3
  <2> QED BY <1>1, <2>1, <2>2
<1>6. ASSUME NEW h \in 1..N, NEW k \in DOMAIN A2[h]
      PROVE  \E g \in 1..N : \E l \in DOMAIN B2[g] : SameChannel(A2[h][k], B2[g][l])
  <2>1. CASE A2[h][k] = f
    BY <1>3, <2>1
  <2>2. ASSUME NEW m \in DOMAIN A[h], A2[h][k] = A[h][m]
        PROVE  \E g \in 1..N : \E l \in DOMAIN B2[g] : SameChannel(A2[h][k], B2[g][l])
    <3>1. PICK g \in 1..N : \E l \in DOMAIN B[g] : SameChannel(A[h][m], B[g][l])
      BY DEF PairsMatched
    <3>2. PICK l \in DOMAIN B[g] : SameChannel(A[h][m], B[g][l])
      BY <3>1
    <3>3. PICK l2 \in DOMAIN B2[g] : B2[g][l2] = B[g][l]
      BY <1>1, <3>2
    <3> QED BY <2>2, <3>2, <3>3
  <2> QED BY <1>2, <2>1, <2>2
<1>7. PairsMatched(N, B2, A2)
  BY <1>5, <1>6 DEF PairsMatched
<1>8. BridgedBy(N, B2, A2, e.of, f.of)
  BY <1>3, <1>4 DEF BridgedBy
<1>9. ASSUME NEW t, NEW o, BridgedBy(N, B, A, t, o) PROVE BridgedBy(N, B2, A2, t, o)
  <2>1. PICK g, h \in 1..N : \E k \in DOMAIN B[g] : \E l \in DOMAIN A[h] :
           B[g][k].of = t /\ A[h][l].of = o /\ SameChannel(A[h][l], B[g][k])
    BY <1>9 DEF BridgedBy
  <2>2. PICK k \in DOMAIN B[g] : \E l \in DOMAIN A[h] :
           B[g][k].of = t /\ A[h][l].of = o /\ SameChannel(A[h][l], B[g][k])
    BY <2>1
  <2>3. PICK l \in DOMAIN A[h] : B[g][k].of = t /\ A[h][l].of = o /\ SameChannel(A[h][l], B[g][k])
    BY <2>2
  <2>4. PICK k2 \in DOMAIN B2[g] : B2[g][k2] = B[g][k]
    BY <1>1, <2>2
  <2>5. PICK l2 \in DOMAIN A2[h] : A2[h][l2] = A[h][l]
    BY <1>2, <2>3
  <2> QED BY <2>3, <2>4, <2>5 DEF BridgedBy
<1> QED BY <1>7, <1>8, <1>9

(* The pair that handleDependencies inserts: a receive at tgt and a send at *)
(* what it depends on, in an earlier vertex, on a channel of their own.     *)
NewPair(e, f, i, j, o) ==
  /\ Inserts(Len(func), before, before', i, e) /\ CallBefore(i, e) /\ e.of = tgt
  /\ Inserts(Len(func), after, after', j, f) /\ CallAfter(j, f) /\ f.of = o
  /\ SameChannel(f, e) /\ f.v < e.v
  /\ \A h \in 1..Len(func) : \A k \in DOMAIN before[h] : ~ SameChannel(before[h][k], e)
  /\ \A h \in 1..Len(func) : \A k \in DOMAIN after[h] : ~ SameChannel(after[h][k], f)
  /\ Numbered(e)' /\ Numbered(f)'
  /\ SentType(f)'

(* What BridgeDependency inserts and which numbers it takes. *)
LEMMA BridgeFacts ==
  ASSUME GraphInv, AllSupported, CallsInv, BridgeDependency
  PROVE  /\ before' \in [1..Len(func) -> Seq(InsertedCall)]
         /\ after' \in [1..Len(func) -> Seq(InsertedCall)]
         /\ dataDependencies' \in Seq({"IntT", "RealT"}) /\ depNumber' = Len(dataDependencies')
         /\ semNumber' \in Nat \ {0} /\ semNumber' >= semNumber
         /\ depNumber \in Nat /\ depNumber' >= depNumber
         /\ \A n \in 1..depNumber : dataDependencies'[n] = dataDependencies[n]
         /\ \E i, j \in 1..Len(func) : \E e, f \in InsertedCall :
              NewPair(e, f, i, j, dependenciesOf(tgt)[nextDep].on)
<1>1. /\ CallsTyped /\ tgt \in 1..Len(func) /\ nextDep \in DOMAIN dependenciesOf(tgt)
      /\ Crosses(tgt, dependenciesOf(tgt)[nextDep]) /\ CanTransfer(dependenciesOf(tgt)[nextDep])
  <2>1. CallsTyped /\ tgt \in 1..(Len(func) + 1) /\ tgt <= Len(func) /\ nextDep \in Nat \ {0}
        /\ nextDep <= Len(dependenciesOf(tgt))
    BY DEF CallsInv, CallsTyped, BridgeDependency
  <2>2. Len(func) \in Nat /\ DOMAIN func = 1..Len(func) /\ func \in Functions
    BY GraphNumbers
  <2>3. tgt \in 1..Len(func)
    BY <2>1, <2>2
  <2>4. nextDep \in DOMAIN dependenciesOf(tgt)
    <3>1. PICK f \in Functions : f = func /\ Supported(f)
      BY <2>2 DEF AllSupported
    <3>2. PICK t \in 1..Len(func) : t = tgt
      BY <2>3
    <3>3. getDependencies(f)[t] \in Seq([on : 1..(t - 1), kind : {"reg", "mem", "ctrl"}])
      BY <2>2, <3>1, DependenciesEarlier
    <3>4. PICK s \in Seq([on : 1..(t - 1), kind : {"reg", "mem", "ctrl"}]) : s = dependenciesOf(tgt)
      BY <3>1, <3>2, <3>3 DEF dependenciesOf
    <3> QED BY <2>1, <3>4
  <2> QED BY <2>1, <2>3, <2>4 DEF BridgeDependency
<1>2. PICK dep : dep = dependenciesOf(tgt)[nextDep]
  OBVIOUS
<1>3. PICK t \in 1..Len(func) : t = tgt
  BY <1>1
<1>4. /\ dep.on \in 1..Len(func)
      /\ vertexOf(t) \in DOMAIN vertices /\ vertexOf(dep.on) \in DOMAIN vertices
      /\ vertexOf(dep.on) < vertexOf(t)
  BY <1>1, <1>2, <1>3, CrossingForward
<1>5. PICK o \in 1..Len(func) : o = dep.on
  BY <1>4
<1>6. depNumber \in Nat /\ semNumber \in Nat \ {0} /\ dataDependencies \in Seq({"IntT", "RealT"})
      /\ depNumber = Len(dataDependencies)
  BY <1>1 DEF CallsTyped
<1>7. \A h \in 1..Len(func) :
        /\ \A k \in DOMAIN before[h] : Numbered(before[h][k])
        /\ \A k \in DOMAIN after[h] : Numbered(after[h][k])
  BY DEF CallsInv, CallsPlaced
<1>8. CASE useSemaphores(dep)
  <2>1. PICK rc : rc = [op |-> "wait", n |-> semNumber]
    OBVIOUS
  <2>2. PICK sc : sc = [op |-> "post", n |-> semNumber]
    OBVIOUS
  <2>3. /\ before' = InsertBefore(t, rc) /\ after' = InsertAfter(o, sc)
        /\ semNumber' = semNumber + 1
        /\ dataDependencies' = dataDependencies /\ depNumber' = depNumber
    BY <1>2, <1>3, <1>5, <1>8, <2>1, <2>2 DEF BridgeDependency
  <2>4. rc.op = "wait" /\ rc.n = semNumber /\ sc.op = "post" /\ sc.n = semNumber
    BY <2>1, <2>2
  <2>5. /\ Entry(t, rc) \in InsertedCall
        /\ before' \in [1..Len(func) -> Seq(InsertedCall)]
        /\ \E at \in 1..Len(func) :
              CallBefore(at, Entry(t, rc)) /\ Inserts(Len(func), before, before', at, Entry(t, rc))
    BY <1>1, <1>4, <1>6, <2>3, <2>4, ReceiveInserted
  <2>6. /\ Entry(o, sc) \in InsertedCall
        /\ after' \in [1..Len(func) -> Seq(InsertedCall)]
        /\ \E at \in 1..Len(func) :
              CallAfter(at, Entry(o, sc)) /\ Inserts(Len(func), after, after', at, Entry(o, sc))
    BY <1>1, <1>4, <1>5, <1>6, <2>3, <2>4, SendInserted
  <2>7. PICK e \in InsertedCall : e = Entry(t, rc)
    BY <2>5
  <2>8. PICK f \in InsertedCall : f = Entry(o, sc)
    BY <2>6
  <2>9. /\ e.op = "wait" /\ e.n = semNumber /\ e.v = vertexOf(t) /\ e.of = t
        /\ f.op = "post" /\ f.n = semNumber /\ f.v = vertexOf(o) /\ f.of = o
    BY <2>4, <2>7, <2>8 DEF Entry
  <2>10. PICK i \in 1..Len(func) : CallBefore(i, e) /\ Inserts(Len(func), before, before', i, e)
    BY <2>5, <2>7
  <2>11. PICK j \in 1..Len(func) : CallAfter(j, f) /\ Inserts(Len(func), after, after', j, f)
    BY <2>6, <2>8
  <2>12. \A d : Numbered(d) => ~ SameChannel(d, e) /\ ~ SameChannel(d, f)
    BY <1>6, <2>9 DEF Numbered, SameChannel
  <2>13. Numbered(e)' /\ Numbered(f)' /\ SentType(f)'
    BY <1>6, <2>3, <2>9 DEF Numbered, SentType
  <2>14. SameChannel(f, e) /\ f.v < e.v
    BY <1>4, <1>5, <2>9 DEF SameChannel
  <2>15. NewPair(e, f, i, j, o)
    BY <1>3, <1>7, <2>9, <2>10, <2>11, <2>12, <2>13, <2>14 DEF NewPair
  <2>16. \E i2, j2 \in 1..Len(func) : \E e2, f2 \in InsertedCall :
           NewPair(e2, f2, i2, j2, dependenciesOf(tgt)[nextDep].on)
    BY <1>2, <1>5, <2>15
  <2>17. semNumber' \in Nat \ {0} /\ semNumber' >= semNumber /\ depNumber' >= depNumber
    BY <1>6, <2>3
  <2> QED BY <1>6, <2>3, <2>5, <2>6, <2>16, <2>17
<1>9. CASE ~ useSemaphores(dep)
  <2>1. PICK rc : rc = [op |-> "get", n |-> depNumber]
    OBVIOUS
  <2>2. PICK sc : sc = [op |-> "put", n |-> depNumber]
    OBVIOUS
  <2>3. /\ before' = InsertBefore(t, rc) /\ after' = InsertAfter(o, sc)
        /\ semNumber' = semNumber
        /\ dataDependencies' = Append(dataDependencies, DependencyType(dep))
        /\ depNumber' = depNumber + 1
    BY <1>2, <1>3, <1>5, <1>9, <2>1, <2>2 DEF BridgeDependency
  <2>4. rc.op = "get" /\ rc.n = depNumber /\ sc.op = "put" /\ sc.n = depNumber
    BY <2>1, <2>2
  <2>5. /\ Entry(t, rc) \in InsertedCall
        /\ before' \in [1..Len(func) -> Seq(InsertedCall)]
        /\ \E at \in 1..Len(func) :
              CallBefore(at, Entry(t, rc)) /\ Inserts(Len(func), before, before', at, Entry(t, rc))
    BY <1>1, <1>4, <1>6, <2>3, <2>4, ReceiveInserted
  <2>6. /\ Entry(o, sc) \in InsertedCall
        /\ after' \in [1..Len(func) -> Seq(InsertedCall)]
        /\ \E at \in 1..Len(func) :
              CallAfter(at, Entry(o, sc)) /\ Inserts(Len(func), after, after', at, Entry(o, sc))
    BY <1>1, <1>4, <1>5, <1>6, <2>3, <2>4, SendInserted
  <2>7. PICK e \in InsertedCall : e = Entry(t, rc)
    BY <2>5
  <2>8. PICK f \in InsertedCall : f = Entry(o, sc)
    BY <2>6
  <2>9. /\ e.op = "get" /\ e.n = depNumber /\ e.v = vertexOf(t) /\ e.of = t
        /\ f.op = "put" /\ f.n = depNumber /\ f.v = vertexOf(o) /\ f.of = o
    BY <2>4, <2>7, <2>8 DEF Entry
  <2>10. PICK i \in 1..Len(func) : CallBefore(i, e) /\ Inserts(Len(func), before, before', i, e)
    BY <2>5, <2>7
  <2>11. PICK j \in 1..Len(func) : CallAfter(j, f) /\ Inserts(Len(func), after, after', j, f)
    BY <2>6, <2>8
  <2>12. \A d : Numbered(d) => ~ SameChannel(d, e) /\ ~ SameChannel(d, f)
    BY <1>6, <2>9 DEF Numbered, SameChannel
  <2>16. /\ dataDependencies' \in Seq({"IntT", "RealT"})
         /\ Len(dataDependencies') = depNumber + 1
         /\ dataDependencies'[depNumber + 1] = DependencyType(dep)
         /\ \A n \in 1..depNumber : dataDependencies'[n] = dataDependencies[n]
    <3>1. PICK ty \in {"IntT", "RealT"} : ty = DependencyType(dep)
      BY DEF DependencyType
    <3> QED BY <1>6, <2>3, <3>1
  <2>17. func' = func
    BY DEF BridgeDependency, graphVars
  <2>13. Numbered(e)' /\ Numbered(f)'
    BY <1>6, <2>3, <2>9 DEF Numbered
  <2>18. SentType(f)'
    <3>1. func[o].type \in {"int", "real"}
      BY <1>1, <1>2, <1>5, <1>9 DEF CanTransfer
    <3>2. DependencyType(dep) = IF func[o].type = "int" THEN "IntT" ELSE "RealT"
      BY <1>5 DEF DependencyType
    <3> QED BY <2>9, <2>16, <2>17, <3>1, <3>2 DEF SentType
  <2>14. SameChannel(f, e) /\ f.v < e.v
    BY <1>4, <1>5, <2>9 DEF SameChannel
  <2>15. NewPair(e, f, i, j, o)
    BY <1>3, <1>7, <2>9, <2>10, <2>11, <2>12, <2>13, <2>14, <2>18 DEF NewPair
  <2> QED BY <1>2, <1>5, <1>6, <2>3, <2>5, <2>6, <2>15, <2>16
<1> QED BY <1>8, <1>9

(* The dependencies of an instruction are numbered from 1. *)
LEMMA DependencyIndex ==
  ASSUME GraphInv, AllSupported, NEW t \in 1..Len(func)
  PROVE  /\ Len(dependenciesOf(t)) \in Nat
         /\ DOMAIN dependenciesOf(t) = 1..Len(dependenciesOf(t))
         /\ \A d \in DOMAIN dependenciesOf(t) : d \in Nat /\ d >= 1 /\ d <= Len(dependenciesOf(t))
<1>1. PICK F \in Functions : F = func /\ Supported(F)
  BY GraphNumbers DEF AllSupported
<1>2. getDependencies(F)[t] \in Seq([on : 1..(t - 1), kind : {"reg", "mem", "ctrl"}])
  BY <1>1, GraphNumbers, DependenciesEarlier
<1>3. PICK s \in Seq([on : 1..(t - 1), kind : {"reg", "mem", "ctrl"}]) : s = dependenciesOf(t)
  BY <1>1, <1>2 DEF dependenciesOf
<1> QED BY <1>3

(* A set of two numbers is finite. *)
LEMMA FiniteTwo == ASSUME NEW a, NEW b PROVE IsFiniteSet({a, b})
<1>1. IsFiniteSet({a}) /\ {a, b} = {a} \union {b}
  BY FS_Singleton
<1>2. IsFiniteSet({a} \union {b})
  BY <1>1, FS_AddElement
<1> QED BY <1>1, <1>2

(* Steps that insert nothing keep the calls, as long as no dependency counts *)

(* as handled that is not.                                                   *)
LEMMA CallsKept ==
  ASSUME GraphInv, AllSupported, CallsInv, UNCHANGED graphVars,
         UNCHANGED <<part, before, after, dataDependencies, depNumber, semNumber>>, CallsTyped',
         \A t \in 1..Len(func) : \A d \in DOMAIN dependenciesOf(t) :
           /\ Handled(t, d)'
           /\ Crosses(t, dependenciesOf(t)[d]) /\ CanTransfer(dependenciesOf(t)[d])
           => Handled(t, d)
  PROVE  CallsInv'
<1>1. /\ func' = func
      /\ \A i : dependenciesOf(i)' = dependenciesOf(i)
      /\ \A d : CanTransfer(d)' = CanTransfer(d)
      /\ \A i, d : Crosses(i, d)' = Crosses(i, d)
      /\ \A i, e : CallBefore(i, e)' = CallBefore(i, e) /\ CallAfter(i, e)' = CallAfter(i, e)
  BY SameGraph
<1>2. before' = before /\ after' = after
  OBVIOUS
<1>3. \A e : Numbered(e)' = Numbered(e)
  BY DEF Numbered
<1>4. \A e : SentType(e)' = SentType(e)
  BY <1>1 DEF SentType
<1>5. CallsPlaced'
  BY <1>1, <1>2, <1>3 DEF CallsInv, CallsPlaced
<1>6. (CallsOnce(Len(func), before) /\ CallsOnce(Len(func), after) /\ PairsMatched(Len(func), before, after))'
  BY <1>1, <1>2 DEF CallsInv
<1>7. TypesSent'
  BY <1>1, <1>2, <1>4 DEF CallsInv, TypesSent
<1>8. DependenciesBridged'
  <2> SUFFICES ASSUME NEW t \in 1..Len(func), NEW d \in DOMAIN dependenciesOf(t),
                      Handled(t, d)', Crosses(t, dependenciesOf(t)[d]), CanTransfer(dependenciesOf(t)[d])
               PROVE  BridgedBy(Len(func), before, after, t, dependenciesOf(t)[d].on)
    BY <1>1, <1>2 DEF DependenciesBridged
  <2>1. Handled(t, d)
    OBVIOUS
  <2> QED BY <2>1 DEF CallsInv, DependenciesBridged
<1> QED BY <1>5, <1>6, <1>7, <1>8 DEF CallsInv

(* A bridged dependency. *)
LEMMA BridgeKeeps ==
  ASSUME GraphInv, AllSupported, CallsInv, BridgeDependency PROVE CallsInv'
<1>0. UNCHANGED graphVars /\ part' = part /\ phase' = phase /\ tgt' = tgt /\ nextDep' = nextDep + 1
      /\ semNumberMax' = semNumberMax /\ phase = "dependencies"
  BY DEF BridgeDependency
<1>1. /\ func' = func /\ vertices' = vertices /\ pos' = pos
      /\ \A i : dependenciesOf(i)' = dependenciesOf(i)
      /\ \A d : CanTransfer(d)' = CanTransfer(d)
      /\ \A i, d : Crosses(i, d)' = Crosses(i, d)
      /\ \A i, e : CallBefore(i, e)' = CallBefore(i, e) /\ CallAfter(i, e)' = CallAfter(i, e)
  BY <1>0, SameGraph
<1>2. /\ before' \in [1..Len(func) -> Seq(InsertedCall)]
      /\ after' \in [1..Len(func) -> Seq(InsertedCall)]
      /\ dataDependencies' \in Seq({"IntT", "RealT"}) /\ depNumber' = Len(dataDependencies')
      /\ semNumber' \in Nat \ {0} /\ semNumber' >= semNumber
      /\ depNumber \in Nat /\ depNumber' >= depNumber
      /\ \A n \in 1..depNumber : dataDependencies'[n] = dataDependencies[n]
      /\ \E i, j \in 1..Len(func) : \E e, f \in InsertedCall :
              NewPair(e, f, i, j, dependenciesOf(tgt)[nextDep].on)
  BY BridgeFacts
<1>3. PICK N \in Nat : N = Len(func)
  BY GraphNumbers
<1>4. PICK o : o = dependenciesOf(tgt)[nextDep].on
  OBVIOUS
<1>5. PICK i, j \in 1..N : \E e, f \in InsertedCall : NewPair(e, f, i, j, o)
  BY <1>2, <1>3, <1>4
<1>6. PICK e, f \in InsertedCall : NewPair(e, f, i, j, o)
  BY <1>5
<1>7. /\ Inserts(N, before, before', i, e) /\ CallBefore(i, e) /\ e.of = tgt
      /\ Inserts(N, after, after', j, f) /\ CallAfter(j, f) /\ f.of = o
      /\ SameChannel(f, e) /\ f.v < e.v
      /\ \A h \in 1..N : \A k \in DOMAIN before[h] : ~ SameChannel(before[h][k], e)
      /\ \A h \in 1..N : \A k \in DOMAIN after[h] : ~ SameChannel(after[h][k], f)
      /\ Numbered(e)' /\ Numbered(f)' /\ SentType(f)'
  BY <1>3, <1>6 DEF NewPair
<1>8. OneIsNew(N, before, before', i, e) /\ OneIsNew(N, after, after', j, f)
  <2>1. OneIsNew(N, before, before', i, e)
    BY <1>7, InsertedCalls
  <2>2. OneIsNew(N, after, after', j, f)
    BY <1>7, InsertedCalls
  <2> QED BY <2>1, <2>2
<1>9. ASSUME NEW d, Numbered(d), d.n \in Nat PROVE Numbered(d)'
  <2>1. semNumber \in Nat
    BY DEF CallsInv, CallsTyped
  <2> QED BY <1>2, <1>9, <2>1 DEF Numbered
<1>10. /\ before \in [1..N -> Seq(InsertedCall)] /\ after \in [1..N -> Seq(InsertedCall)]
  BY <1>3 DEF CallsInv, CallsTyped
<1>11. \A h \in 1..N : /\ \A k \in DOMAIN before[h] : before[h][k] \in InsertedCall
                       /\ \A k \in DOMAIN after[h] : after[h][k] \in InsertedCall
  <2> DEFINE C == InsertedCall
  <2>1. before \in [1..N -> Seq(C)] /\ after \in [1..N -> Seq(C)]
    BY <1>10
  <2> HIDE DEF C
  <2>2. \A h \in 1..N : /\ \A k \in DOMAIN before[h] : before[h][k] \in C
                        /\ \A k \in DOMAIN after[h] : after[h][k] \in C
    BY <2>1
  <2> QED BY <2>2 DEF C
<1>12. CallsTyped'
  BY <1>0, <1>1, <1>2 DEF CallsInv, CallsTyped
<1>13. CallsPlaced'
  <2>1. ASSUME NEW h \in 1..N, NEW k \in DOMAIN before'[h]
        PROVE  CallBefore(h, before[h][k])' /\ Numbered(before[h][k])'
    <3>1. CASE h = i /\ before'[h][k] = e
      <4>1. CallBefore(h, e)' /\ Numbered(e)'
        BY <1>1, <1>7, <3>1
      <4> QED BY <3>1, <4>1 DEF CallBefore, Numbered
    <3>2. ASSUME NEW m \in DOMAIN before[h], before'[h][k] = before[h][m]
          PROVE  CallBefore(h, before[h][k])' /\ Numbered(before[h][k])'
      <4>1. CallBefore(h, before[h][m]) /\ Numbered(before[h][m])
        BY <1>3 DEF CallsInv, CallsPlaced
      <4>2. PICK d \in InsertedCall : d = before[h][m]
        BY <1>11
      <4>3. Numbered(d)'
        BY <1>9, <4>1, <4>2 DEF InsertedCall
      <4>4. d = before'[h][k]
        BY <3>2, <4>2
      <4>5. CallBefore(h, d)'
        BY <1>1, <4>1, <4>2
      <4> QED BY <4>3, <4>4, <4>5 DEF CallBefore, Numbered
    <3> QED BY <1>8, <3>1, <3>2 DEF OneIsNew
  <2>2. ASSUME NEW h \in 1..N, NEW k \in DOMAIN after'[h]
        PROVE  CallAfter(h, after[h][k])' /\ Numbered(after[h][k])'
    <3>1. CASE h = j /\ after'[h][k] = f
      <4>1. CallAfter(h, f)' /\ Numbered(f)'
        BY <1>1, <1>7, <3>1
      <4> QED BY <3>1, <4>1 DEF CallAfter, Numbered
    <3>2. ASSUME NEW m \in DOMAIN after[h], after'[h][k] = after[h][m]
          PROVE  CallAfter(h, after[h][k])' /\ Numbered(after[h][k])'
      <4>1. CallAfter(h, after[h][m]) /\ Numbered(after[h][m])
        BY <1>3 DEF CallsInv, CallsPlaced
      <4>2. PICK d \in InsertedCall : d = after[h][m]
        BY <1>11
      <4>3. Numbered(d)'
        BY <1>9, <4>1, <4>2 DEF InsertedCall
      <4>4. d = after'[h][k]
        BY <3>2, <4>2
      <4>5. CallAfter(h, d)'
        BY <1>1, <4>1, <4>2
      <4> QED BY <4>3, <4>4, <4>5 DEF CallAfter, Numbered
    <3> QED BY <1>8, <3>1, <3>2 DEF OneIsNew
  <2> QED BY <1>1, <1>3, <2>1, <2>2 DEF CallsPlaced
<1>14. CallsOnce(N, before') /\ CallsOnce(N, after')
  <2>1. CallsOnce(N, before) /\ CallsOnce(N, after)
    BY <1>3 DEF CallsInv
  <2>2. CallsOnce(N, before')
    BY <1>7, <2>1, InsertOnce
  <2>3. CallsOnce(N, after')
    BY <1>7, <2>1, InsertOnce
  <2> QED BY <2>2, <2>3
<1>15. /\ PairsMatched(N, before', after')
       /\ BridgedBy(N, before', after', e.of, f.of)
       /\ \A t, g : BridgedBy(N, before, after, t, g) => BridgedBy(N, before', after', t, g)
  <2>1. PairsMatched(N, before, after)
    BY <1>3 DEF CallsInv
  <2>2. PICK B, B2, A, A2 : B = before /\ B2 = before' /\ A = after /\ A2 = after'
    OBVIOUS
  <2>3. /\ Inserts(N, B, B2, i, e) /\ Inserts(N, A, A2, j, f)
        /\ SameChannel(f, e) /\ f.v < e.v /\ PairsMatched(N, B, A)
    BY <1>7, <2>1, <2>2
  <2>4. /\ PairsMatched(N, B2, A2)
        /\ BridgedBy(N, B2, A2, e.of, f.of)
        /\ \A t, g : BridgedBy(N, B, A, t, g) => BridgedBy(N, B2, A2, t, g)
    BY <2>3, PairInserted
  <2> QED BY <2>2, <2>4
<1>16. TypesSent'
  <2>1. ASSUME NEW h \in 1..N, NEW k \in DOMAIN after'[h] PROVE SentType(after[h][k])'
    <3>1. CASE after'[h][k] = f
      BY <1>7, <3>1 DEF SentType
    <3>2. ASSUME NEW m \in DOMAIN after[h], after'[h][k] = after[h][m]
          PROVE  SentType(after[h][k])'
      <4>1. SentType(after[h][m]) /\ Numbered(after[h][m])
        BY <1>3 DEF CallsInv, CallsPlaced, TypesSent
      <4>2. PICK d \in InsertedCall : d = after[h][m]
        BY <1>11
      <4>3. d.op = "put" => d.n + 1 \in 1..depNumber
        <5>1. d.n \in Nat /\ depNumber \in Nat
          BY <1>2, <4>2 DEF InsertedCall
        <5>2. d.op = "put" => d.n < depNumber
          BY <4>1, <4>2 DEF Numbered
        <5> QED BY <5>1, <5>2
      <4>4. d.op = "put" => dataDependencies'[d.n + 1] = dataDependencies[d.n + 1]
        BY <1>2, <4>3
      <4>5. d.op = "put" =>
              /\ func[d.of].type \in {"int", "real"}
              /\ dataDependencies[d.n + 1] = IF func[d.of].type = "int" THEN "IntT" ELSE "RealT"
        BY <4>1, <4>2 DEF SentType
      <4>6. d = after'[h][k]
        BY <3>2, <4>2
      <4> QED BY <1>1, <4>4, <4>5, <4>6 DEF SentType
    <3> QED BY <1>8, <3>1, <3>2 DEF OneIsNew
  <2> QED BY <1>1, <1>3, <2>1 DEF TypesSent
<1>17. DependenciesBridged'
  <2> SUFFICES ASSUME NEW t \in 1..N, NEW d \in DOMAIN dependenciesOf(t),
                      Handled(t, d)', Crosses(t, dependenciesOf(t)[d]), CanTransfer(dependenciesOf(t)[d])
               PROVE  BridgedBy(N, before', after', t, dependenciesOf(t)[d].on)
    BY <1>1, <1>3 DEF DependenciesBridged
  <2>1. CASE Handled(t, d)
    <3>1. BridgedBy(N, before, after, t, dependenciesOf(t)[d].on)
      BY <1>3, <2>1 DEF CallsInv, DependenciesBridged
    <3> QED BY <1>15, <3>1
  <2>2. CASE ~ Handled(t, d)
    <3>0. d \in Nat
      BY <1>3, DependencyIndex
    <3>1. t = tgt /\ d = nextDep
      <4>1. tgt \in Nat /\ nextDep \in Nat /\ t \in Nat
        BY <1>3 DEF CallsInv, CallsTyped
      <4> QED BY <1>0, <2>2, <3>0, <4>1 DEF Handled
    <3> QED BY <1>4, <1>7, <1>15, <3>1
  <2> QED BY <2>1, <2>2
<1> QED BY <1>1, <1>3, <1>12, <1>13, <1>14, <1>15, <1>16, <1>17 DEF CallsInv

(* The calls stay right in every step. *)
LEMMA CallsStep ==
  ASSUME GraphInv, GraphInv', AllSupported, CallsInv, [Next]_vars PROVE CallsInv'
<1>0. PICK N \in Nat : N = Len(func) /\ func \in Functions
  BY GraphNumbers
<1>t. CallsTyped /\ tgt \in 1..(N + 1) /\ nextDep \in Nat \ {0} /\ semNumber \in Nat \ {0} /\ semNumberMax \in Nat
  BY <1>0 DEF CallsInv, CallsTyped
<1>h. ASSUME UNCHANGED <<tgt, nextDep>>, NEW t, NEW d PROVE Handled(t, d)' = Handled(t, d)
  BY <1>h DEF Handled
<1>1. CASE UNCHANGED <<graphVars, passVars>>
  <2>1. UNCHANGED graphVars /\ UNCHANGED passVars
    BY <1>1
  <2>2. CallsTyped'
    BY <1>t, <2>1 DEF CallsTyped, graphVars, passVars
  <2> QED BY <2>1, <2>2, <1>h, CallsKept DEF passVars
<1>2. CASE CreateVertices
  <2>1. phase = "graph" /\ UNCHANGED passVars /\ func' = func
    BY <1>2 DEF CreateVertices, createVertices, HandleParameter, HandleCalculation
  <2>2. CallsTyped'
    BY <1>t, <2>1 DEF CallsTyped, passVars
  <2> QED BY <1>0, <2>1, <2>2, NoCallsYet DEF passVars
<1>3. CASE AssignPartitions
  <2>1. phase = "graph" /\ func' = func /\ vertices' = vertices /\ pos' = pos
        /\ UNCHANGED <<before, after, tgt, nextDep, dataDependencies, depNumber, semNumber, semNumberMax>>
        /\ phase' = "dependencies" /\ pos = Len(func) /\ part' \in [DOMAIN vertices -> Partitions]
    BY <1>3 DEF AssignPartitions, graphVars, GraphCreated
  <2>2. CallsTyped'
    BY <1>t, <2>1 DEF CallsTyped
  <2> QED BY <1>0, <2>1, <2>2, NoCallsYet
<1>4. CASE SkipDependency
  <2>1. /\ phase = "dependencies" /\ UNCHANGED graphVars /\ nextDep' = nextDep + 1
        /\ UNCHANGED <<phase, part, tgt, before, after, dataDependencies, depNumber, semNumber, semNumberMax>>
        /\ ~ Crosses(tgt, dependenciesOf(tgt)[nextDep]) \/ ~ CanTransfer(dependenciesOf(tgt)[nextDep])
    BY <1>4 DEF SkipDependency
  <2>2. CallsTyped'
    BY <1>t, <2>1 DEF CallsTyped, graphVars
  <2>3. ASSUME NEW t \in 1..Len(func), NEW d \in DOMAIN dependenciesOf(t), Handled(t, d)',
               Crosses(t, dependenciesOf(t)[d]), CanTransfer(dependenciesOf(t)[d])
        PROVE  Handled(t, d)
    <3>1. t \in Nat /\ tgt \in Nat /\ nextDep \in Nat
      BY <1>0, <1>t
    <3>2. d \in Nat
      BY <1>0, DependencyIndex
    <3>3. t # tgt \/ d # nextDep
      BY <2>1, <2>3
    <3> QED BY <2>1, <2>3, <3>1, <3>2, <3>3 DEF Handled
  <2> QED BY <2>1, <2>2, <2>3, CallsKept
<1>5. CASE BridgeDependency
  BY <1>5, BridgeKeeps
<1>6. CASE NextTarget
  <2>1. /\ phase = "dependencies" /\ UNCHANGED graphVars /\ nextDep' = 1 /\ tgt' = tgt + 1
        /\ UNCHANGED <<phase, part, before, after, dataDependencies, depNumber, semNumber, semNumberMax>>
        /\ tgt <= Len(func) /\ nextDep > Len(dependenciesOf(tgt))
    BY <1>6 DEF NextTarget
  <2>t. tgt' \in 1..(N + 1) /\ func' = func
    BY <1>0, <1>t, <2>1 DEF graphVars
  <2>2. CallsTyped'
    BY <1>0, <1>t, <2>1, <2>t DEF CallsTyped, graphVars
  <2>3. ASSUME NEW t \in 1..Len(func), NEW d \in DOMAIN dependenciesOf(t), Handled(t, d)'
        PROVE  Handled(t, d)
    <3>1. t \in Nat /\ tgt \in Nat /\ nextDep \in Nat
      BY <1>0, <1>t
    <3>2. d \in Nat /\ d >= 1 /\ d <= Len(dependenciesOf(t)) /\ Len(dependenciesOf(t)) \in Nat
      BY <1>0, DependencyIndex
    <3>3. t < tgt \/ t = tgt
      BY <2>1, <2>3, <3>1, <3>2 DEF Handled
    <3>4. CASE t = tgt
      BY <2>1, <3>1, <3>2, <3>4 DEF Handled
    <3> QED BY <3>3, <3>4 DEF Handled
  <2> QED BY <2>1, <2>2, <2>3, CallsKept
<1>7. CASE SavePartitioning
  <2>1. /\ UNCHANGED graphVars /\ phase = "dependencies" /\ phase' = "run" /\ tgt > Len(func)
        /\ UNCHANGED <<part, tgt, nextDep, before, after, dataDependencies, depNumber, semNumber>>
        /\ semNumberMax' = Max({semNumberMax, semNumber})
    BY <1>7 DEF SavePartitioning
  <2>2. semNumberMax' \in Nat /\ semNumberMax' >= semNumber
    <3>1. PICK a, b \in Nat : a = semNumberMax /\ b = semNumber
      BY <1>t
    <3>2. IsFiniteSet({a, b}) /\ {a, b} # {} /\ {a, b} \subseteq Int
      BY FiniteTwo
    <3>3. Max({a, b}) \in {a, b} /\ \A x \in {a, b} : Max({a, b}) >= x
      BY <3>2, MaxInt
    <3> QED BY <2>1, <3>1, <3>3
  <2>t. tgt = N + 1
    BY <1>0, <1>t, <2>1
  <2>3. CallsTyped'
    BY <1>0, <1>t, <2>1, <2>2, <2>t DEF CallsTyped, graphVars
  <2> QED BY <2>1, <2>3, <1>h, CallsKept
<1>8. CASE CallAgain \/ \E p \in Partitions : RunInstruction(p) \/ RunBranch(p) \/ RunCall(p)
  <2>1. UNCHANGED <<graphVars, passVars>>
    BY <1>8 DEF CallAgain, RunInstruction, RunBranch, RunCall
  <2> QED BY <1>1, <2>1
<1>9. CASE UNCHANGED vars
  BY <1>1, <1>9 DEF vars
<1> QED BY <1>2, <1>3, <1>4, <1>5, <1>6, <1>7, <1>8, <1>9 DEF Next

-----------------------------------------------------------------------------
(* FlattenSeq joins the sequences one after the other. *)
Layers(seqs, n, u) == u = [i \in 1..n |-> IF i = 1 THEN seqs[i] ELSE u[i - 1] \o seqs[i]]

(* FlattenSeq as the recursive function it chooses. *)
LEMMA FlattenUnfold ==
  ASSUME NEW seqs, Len(seqs) # 0
  PROVE  FlattenSeq(seqs) = (CHOOSE u : Layers(seqs, Len(seqs), u))[Len(seqs)]
BY DEF FlattenSeq, Layers

(* That function exists. *)
LEMMA LayersExist ==
  ASSUME NEW seqs, NEW n \in Nat PROVE \E u : Layers(seqs, n, u)
<1> DEFINE Bad == {m \in 0..n : ~ \E u : Layers(seqs, m, u)}
<1> SUFFICES ASSUME Bad # {} PROVE FALSE
  OBVIOUS
<1>1. PICK m \in Bad : \A y \in Bad : m <= y
  <2>1. IsFiniteSet(0..n) /\ Bad \subseteq 0..n
    BY FS_Interval
  <2>2. IsFiniteSet(Bad) /\ Bad \subseteq Int
    BY <2>1, FS_Subset
  <2> HIDE DEF Bad
  <2> QED BY <2>2, MinInt
<1>2. m # 0
  <2> DEFINE u == [i \in 1..0 |-> IF i = 1 THEN seqs[i] ELSE seqs[i]]
  <2>1. \A i \in 1..0 : FALSE
    OBVIOUS
  <2>2. \A i \in 1..0 : u[i] = IF i = 1 THEN seqs[i] ELSE u[i - 1] \o seqs[i]
    BY <2>1
  <2>3. u = [i \in 1..0 |-> IF i = 1 THEN seqs[i] ELSE u[i - 1] \o seqs[i]]
    BY <2>2
  <2> HIDE DEF u
  <2>4. Layers(seqs, 0, u)
    BY <2>3 DEF Layers
  <2> QED BY <1>1, <2>4
<1>3. m - 1 \in 0..n /\ m - 1 \notin Bad
  BY <1>1, <1>2
<1>4. PICK u : Layers(seqs, m - 1, u)
  BY <1>3
<1> DEFINE w == [i \in 1..m |-> IF i < m THEN u[i]
                                ELSE IF i = 1 THEN seqs[i] ELSE u[i - 1] \o seqs[i]]
<1>5. \A i \in 1..(m - 1) : u[i] = IF i = 1 THEN seqs[i] ELSE u[i - 1] \o seqs[i]
  BY <1>4 DEF Layers
<1>6. \A i \in 1..m : w[i] = IF i = 1 THEN seqs[i] ELSE w[i - 1] \o seqs[i]
  <2> TAKE i \in 1..m
  <2>1. CASE i = 1
    BY <1>1, <1>5, <2>1
  <2>2. CASE i # 1
    <3>1. i - 1 \in 1..m /\ i - 1 < m /\ i \in 1..m /\ (i < m => i \in 1..(m - 1))
      BY <1>1, <2>2
    <3>2. w[i - 1] = u[i - 1]
      BY <3>1
    <3>3. w[i] = IF i < m THEN u[i] ELSE u[i - 1] \o seqs[i]
      BY <2>2
    <3> HIDE DEF w
    <3>4. CASE i < m
      BY <1>5, <2>2, <3>1, <3>2, <3>3, <3>4
    <3>5. CASE ~ (i < m)
      BY <2>2, <3>2, <3>3, <3>5
    <3> QED BY <3>4, <3>5
  <2> QED BY <2>1, <2>2
<1>7. w = [i \in 1..m |-> IF i = 1 THEN seqs[i] ELSE w[i - 1] \o seqs[i]]
  BY <1>6
<1> HIDE DEF w
<1> QED BY <1>1, <1>7 DEF Layers

(* off says where each of the sequences begins in the joined one. *)
Joins(seqs, off, joined) ==
  /\ off[1] = 0
  /\ \A k \in 1..Len(seqs) : off[k + 1] = off[k] + Len(seqs[k])
  /\ Len(joined) = off[Len(seqs) + 1]
  /\ \A k \in 1..Len(seqs) : \A s \in 1..Len(seqs[k]) : joined[off[k] + s] = seqs[k][s]

(* What stands where in a flattened sequence. *)
LEMMA FlattenFacts ==
  ASSUME NEW T, NEW seqs \in Seq(Seq(T))
  PROVE  /\ FlattenSeq(seqs) \in Seq(T)
         /\ \E off \in [1..(Len(seqs) + 1) -> Nat] : Joins(seqs, off, FlattenSeq(seqs))
<1>1. CASE Len(seqs) = 0
  <2>1. seqs = <<>> /\ FlattenSeq(seqs) = <<>>
    BY <1>1 DEF FlattenSeq
  <2>2. Joins(seqs, [k \in 1..1 |-> 0], <<>>)
    BY <2>1 DEF Joins
  <2>3. [k \in 1..1 |-> 0] \in [1..(Len(seqs) + 1) -> Nat]
    BY <1>1
  <2>4. <<>> \in Seq(T)
    OBVIOUS
  <2> QED BY <2>1, <2>2, <2>3, <2>4
<1>2. CASE Len(seqs) # 0
  <2> DEFINE n == Len(seqs)
             u == CHOOSE x : Layers(seqs, n, x)
  <2>1. n \in Nat \ {0} /\ DOMAIN seqs = 1..n /\ \A k \in 1..n : seqs[k] \in Seq(T)
    BY <1>2
  <2>2. Layers(seqs, n, u)
    BY <2>1, LayersExist
  <2>3. FlattenSeq(seqs) = u[n]
    BY <1>2, FlattenUnfold
  <2> HIDE DEF u, n
  <2>4. \A i \in 1..n : u[i] = IF i = 1 THEN seqs[i] ELSE u[i - 1] \o seqs[i]
    BY <2>2 DEF Layers
  <2> DEFINE off == [k \in 1..(n + 1) |-> IF k = 1 THEN 0 ELSE Len(u[k - 1])]
             Right(m) == /\ u[m] \in Seq(T)
                         /\ off[m + 1] = off[m] + Len(seqs[m])
                         /\ off[m] \in Nat
                         /\ \A k \in 1..m : /\ off[k] \in Nat /\ off[k] + Len(seqs[k]) <= Len(u[m])
                                            /\ \A s \in 1..Len(seqs[k]) : u[m][off[k] + s] = seqs[k][s]
             Bad == {m \in 1..n : ~ Right(m)}
  <2>5. Bad = {}
    <3> SUFFICES ASSUME Bad # {} PROVE FALSE
      OBVIOUS
    <3>1. PICK m \in Bad : \A y \in Bad : m <= y
      <4>1. IsFiniteSet(1..n) /\ Bad \subseteq 1..n /\ 1..n \subseteq Int
        BY <2>1, FS_Interval
      <4>2. IsFiniteSet(Bad) /\ Bad \subseteq Int
        BY <4>1, FS_Subset
      <4> HIDE DEF Bad
      <4> QED BY <4>2, MinInt
    <3>2. m \in 1..n /\ ~ Right(m)
      BY <3>1
    <3>3. off[m + 1] = Len(u[m])
      BY <2>1, <3>2
    <3>4. PICK new \in Seq(T) : new = seqs[m]
      BY <2>1, <3>2
    <3>5. Len(new) \in Nat /\ DOMAIN new = 1..Len(new)
      BY <3>4
    <3>6. CASE m = 1
      <4>1. u[m] = new
        BY <2>4, <3>2, <3>4, <3>6
      <4>2. off[1] = 0
        BY <2>1
      <4>3. off[m + 1] = Len(new)
        BY <3>3, <4>1
      <4> HIDE DEF off
      <4>4. \A k \in 1..m : k = 1
        BY <3>6
      <4>5. Right(m)
        BY <3>4, <3>5, <3>6, <4>1, <4>2, <4>3, <4>4
      <4> QED BY <3>2, <4>5
    <3>7. CASE m # 1
      <4>1. m - 1 \in 1..n /\ m - 1 \notin Bad /\ (m - 1) + 1 = m
        <5>1. m - 1 \in 1..n /\ (m - 1) + 1 = m /\ ~ (m <= m - 1)
          BY <2>1, <3>2, <3>7
        <5> HIDE DEF Bad
        <5> QED BY <3>1, <5>1
      <4>2. Right(m - 1)
        <5> HIDE DEF Right
        <5> QED BY <4>1
      <4>3. off[m] = Len(u[m - 1])
        BY <2>1, <3>2, <3>7
      <4>4. PICK old \in Seq(T) : old = u[m - 1]
        BY <4>2
      <4>5. u[m] = old \o new
        BY <2>4, <3>2, <3>4, <3>7, <4>4
      <4> HIDE DEF Bad, off
      <4> DEFINE joined == old \o new
      <4>6. joined \in Seq(T)
        BY <3>4, <4>4, ConcatProperties, Zenon
      <4>7. /\ Len(joined) = Len(old) + Len(new)
            /\ \A s \in 1..Len(old) : joined[s] = old[s]
            /\ \A s \in 1..Len(new) : joined[Len(old) + s] = new[s]
        <5>1. /\ Len(joined) = Len(old) + Len(new)
              /\ \A i \in 1..(Len(old) + Len(new)) :
                   joined[i] = IF i <= Len(old) THEN old[i] ELSE new[i - Len(old)]
          BY <3>4, <4>4, ConcatProperties, Zenon
        <5> HIDE DEF joined
        <5>2. Len(old) \in Nat /\ Len(new) \in Nat
          BY <3>4, <4>4
        <5>3. \A s \in 1..Len(old) : joined[s] = old[s]
          BY <5>1, <5>2
        <5>4. ASSUME NEW s \in 1..Len(new) PROVE joined[Len(old) + s] = new[s]
          <6>0. Len(old) + s \in 1..(Len(old) + Len(new)) /\ ~ (Len(old) + s <= Len(old)) /\ (Len(old) + s) - Len(old) = s
            BY <5>2
          <6>1. PICK i \in 1..(Len(old) + Len(new)) : i = Len(old) + s /\ ~ (i <= Len(old)) /\ i - Len(old) = s
            BY <6>0
          <6> QED BY <5>1, <6>1
        <5> QED BY <5>1, <5>3, <5>4
      <4>12. u[m] = joined
        BY <4>5
      <4> HIDE DEF joined
      <4>8. off[m] = Len(old) /\ off[m] \in Nat /\ Len(old) \in Nat
        BY <4>3, <4>4
      <4>9. off[m + 1] = off[m] + Len(seqs[m])
        BY <3>3, <3>4, <4>7, <4>8, <4>12
      <4>10. ASSUME NEW k \in 1..m
             PROVE  /\ off[k] \in Nat /\ off[k] + Len(seqs[k]) <= Len(u[m])
                    /\ \A s \in 1..Len(seqs[k]) : u[m][off[k] + s] = seqs[k][s]
        <5>1. CASE k = m
          <6>1. off[m] + Len(new) <= Len(joined)
            BY <3>5, <4>7, <4>8
          <6>2. \A s \in 1..Len(new) : joined[off[m] + s] = new[s]
            BY <4>7, <4>8
          <6> QED BY <3>4, <4>8, <4>12, <5>1, <6>1, <6>2
        <5>2. CASE k # m
          <6>1. k \in 1..(m - 1) /\ k \in 1..n
            BY <2>1, <3>2, <4>10, <5>2
          <6>2. /\ off[k] \in Nat /\ off[k] + Len(seqs[k]) <= Len(old)
                /\ \A s \in 1..Len(seqs[k]) : old[off[k] + s] = seqs[k][s]
            BY <4>2, <4>4, <6>1
          <6>3. Len(seqs[k]) \in Nat
            BY <2>1, <6>1
          <6>4. \A s \in 1..Len(seqs[k]) : off[k] + s \in 1..Len(old)
            BY <4>8, <6>2, <6>3
          <6>5. off[k] + Len(seqs[k]) <= Len(joined)
            BY <3>5, <4>7, <4>8, <6>2, <6>3
          <6>6. \A s \in 1..Len(seqs[k]) : joined[off[k] + s] = seqs[k][s]
            BY <4>7, <6>2, <6>4
          <6> QED BY <4>12, <4>6, <6>2, <6>5, <6>6
        <5> QED BY <5>1, <5>2
      <4>11. Right(m)
        BY <4>12, <4>6, <4>8, <4>9, <4>10
      <4> QED BY <3>2, <4>11
    <3> QED BY <3>6, <3>7
  <2>6. \A m \in 1..n : Right(m)
    <3> HIDE DEF Right
    <3> QED BY <2>5
  <2>7. n \in 1..n
    BY <2>1
  <2>8. off \in [1..(n + 1) -> Nat]
    <3>1. \A k \in 1..(n + 1) : k # 1 => k - 1 \in 1..n
      BY <2>1
    <3>2. \A k \in 1..(n + 1) : k # 1 => Len(u[k - 1]) \in Nat
      BY <2>6, <3>1
    <3> QED BY <3>2
  <2>9. off[1] = 0 /\ Len(u[n]) = off[n + 1]
    BY <2>1
  <2> HIDE DEF off, Bad
  <2>10. /\ u[n] \in Seq(T)
         /\ \A k \in 1..n : off[k + 1] = off[k] + Len(seqs[k])
         /\ \A k \in 1..n : \A s \in 1..Len(seqs[k]) : u[n][off[k] + s] = seqs[k][s]
    BY <2>6, <2>7
  <2>11. Joins(seqs, off, u[n])
    BY <2>9, <2>10 DEF Joins, n
  <2> QED BY <2>3, <2>8, <2>10, <2>11 DEF n
<1> QED BY <1>1, <1>2

(* The joined sequences follow one another and leave no gap. *)
Tiled(seqs, off, joined) ==
  /\ \A j, k \in 1..Len(seqs) : j < k => off[j] + Len(seqs[j]) <= off[k]
  /\ \A k \in 1..Len(seqs) : off[k] + Len(seqs[k]) <= Len(joined)
  /\ \A m \in 1..Len(joined) : \E k \in 1..Len(seqs) : \E s \in 1..Len(seqs[k]) : m = off[k] + s

(* The joined sequences do not overlap and leave no gap. *)
LEMMA JoinedOrder ==
  ASSUME NEW T, NEW seqs \in Seq(Seq(T)), NEW off \in [1..(Len(seqs) + 1) -> Nat],
         NEW joined \in Seq(T), Joins(seqs, off, joined)
  PROVE  Tiled(seqs, off, joined)
<1> DEFINE n == Len(seqs)
<1>1. n \in Nat /\ \A k \in 1..n : Len(seqs[k]) \in Nat
  OBVIOUS
<1> HIDE DEF n
<1>2. \A k \in 1..n : off[k + 1] = off[k] + Len(seqs[k]) /\ off[k] \in Nat /\ off[k + 1] \in Nat
  <2> TAKE k \in 1..n
  <2>1. k \in 1..(n + 1) /\ k + 1 \in 1..(n + 1)
    BY <1>1
  <2>2. off \in [1..(n + 1) -> Nat]
    BY DEF n
  <2>3. off[k] \in Nat /\ off[k + 1] \in Nat
    BY <2>1, <2>2
  <2> QED BY <2>3 DEF Joins, n
<1>3. off[1] = 0 /\ Len(joined) = off[n + 1] /\ off[n + 1] \in Nat
  BY <1>1 DEF Joins, n
<1>4. \A j \in 1..n : \A k \in 1..(n + 1) : j < k => off[j] + Len(seqs[j]) <= off[k]
  <2> TAKE j \in 1..n
  <2> DEFINE Bad == {k \in 1..(n + 1) : j < k /\ ~ (off[j] + Len(seqs[j]) <= off[k])}
  <2> SUFFICES ASSUME Bad # {} PROVE FALSE
    OBVIOUS
  <2>1. PICK m \in Bad : \A y \in Bad : m <= y
    <3>1. IsFiniteSet(1..(n + 1)) /\ Bad \subseteq 1..(n + 1) /\ 1..(n + 1) \subseteq Int
      BY <1>1, FS_Interval
    <3>2. IsFiniteSet(Bad) /\ Bad \subseteq Int
      BY <3>1, FS_Subset
    <3> HIDE DEF Bad
    <3> QED BY <3>2, MinInt
  <2>2. m \in 1..(n + 1) /\ j < m /\ ~ (off[j] + Len(seqs[j]) <= off[m])
    BY <2>1
  <2>3. CASE m = j + 1
    <3>1. off[m] = off[j] + Len(seqs[j])
      BY <1>2, <2>3
    <3>2. off[j] \in Nat /\ Len(seqs[j]) \in Nat
      BY <1>1, <1>2
    <3> QED BY <2>2, <3>1, <3>2
  <2>4. CASE m # j + 1
    <3>1. PICK l \in 1..n : l + 1 = m /\ j < l /\ l < m
      <4>1. m - 1 \in 1..n /\ (m - 1) + 1 = m /\ j < m - 1 /\ m - 1 < m
        BY <1>1, <2>2, <2>4
      <4> QED BY <4>1
    <3>2. l \notin Bad
      BY <2>1, <2>2, <3>1
    <3>3. off[j] + Len(seqs[j]) <= off[l]
      BY <1>1, <3>1, <3>2
    <3>4. off[m] = off[l] + Len(seqs[l])
      BY <1>2, <3>1
    <3>5. off[j] \in Nat /\ Len(seqs[j]) \in Nat /\ off[l] \in Nat /\ Len(seqs[l]) \in Nat
      BY <1>1, <1>2, <3>1
    <3> QED BY <2>2, <3>3, <3>4, <3>5
  <2> QED BY <2>3, <2>4
<1>5. \A k \in 1..n : off[k] + Len(seqs[k]) <= Len(joined)
  <2> TAKE k \in 1..n
  <2>1. n + 1 \in 1..(n + 1) /\ k < n + 1
    BY <1>1
  <2> QED BY <1>3, <1>4, <2>1
<1>6. ASSUME NEW m \in 1..Len(joined)
      PROVE  \E k \in 1..n : \E s \in 1..Len(seqs[k]) : m = off[k] + s
  <2> DEFINE Above == {k \in 1..(n + 1) : m <= off[k]}
  <2>1. n + 1 \in Above
    BY <1>1, <1>3, <1>6
  <2>2. PICK a \in Above : \A y \in Above : a <= y
    <3>1. IsFiniteSet(1..(n + 1)) /\ Above \subseteq 1..(n + 1) /\ 1..(n + 1) \subseteq Int
      <4>1. IsFiniteSet(1..(n + 1)) /\ 1..(n + 1) \subseteq Int
        BY <1>1, FS_Interval
      <4> QED BY <4>1
    <3>2. IsFiniteSet(Above) /\ Above \subseteq Int
      BY <3>1, FS_Subset
    <3> HIDE DEF Above
    <3> QED BY <2>1, <3>2, MinInt
  <2>3. a \in 1..(n + 1) /\ m <= off[a]
    BY <2>2
  <2>4. m \in Nat /\ m >= 1
    BY <1>3
  <2>5. a # 1
    BY <1>3, <2>3, <2>4
  <2>6. PICK k \in 1..n : k + 1 = a /\ k < a
    <3>1. a - 1 \in 1..n /\ (a - 1) + 1 = a /\ a - 1 < a
      BY <1>1, <2>3, <2>5
    <3> QED BY <3>1
  <2>7. k \notin Above
    BY <2>2, <2>3, <2>6
  <2>8. ~ (m <= off[k])
    BY <1>1, <2>6, <2>7
  <2>9. off[a] = off[k] + Len(seqs[k]) /\ off[k] \in Nat /\ Len(seqs[k]) \in Nat
    BY <1>1, <1>2, <2>6
  <2>10. m - off[k] \in 1..Len(seqs[k]) /\ m = off[k] + (m - off[k])
    BY <2>3, <2>4, <2>8, <2>9
  <2> QED BY <2>10
<1>7. \A j, k \in 1..n : j < k => off[j] + Len(seqs[j]) <= off[k]
  <2> TAKE j, k \in 1..n
  <2>1. k \in 1..(n + 1)
    BY <1>1
  <2> QED BY <1>4, <2>1
<1> QED BY <1>5, <1>6, <1>7 DEF n, Tiled
-----------------------------------------------------------------------------
(* Where the statements of a vertex and of a partition end up. *)

(* The elements of a sequence. *)
LEMMA SeqElements ==
  ASSUME NEW T, NEW s \in Seq(T)
  PROVE  Len(s) \in Nat /\ DOMAIN s = 1..Len(s) /\ \A k \in 1..Len(s) : s[k] \in T
OBVIOUS

(* The list L of a thread holds the code ic[i] of its instructions, one *)
(* after the other and nothing else; that of i begins behind at[i].     *)
Laid(mine, ic, at, L) ==
  /\ \A i \in mine : /\ at[i] + Len(ic[i]) <= Len(L)
                     /\ \A s \in 1..Len(ic[i]) : L[at[i] + s] = ic[i][s]
  /\ \A i, j \in mine : i < j => at[i] + Len(ic[i]) <= at[j]
  /\ \A m \in 1..Len(L) : \E i \in mine : \E s \in 1..Len(ic[i]) : m = at[i] + s

(* That is how the code is put together: vx[i] is the vertex of i, kx[i] *)
(* its place there.                                                      *)
Numbering(N, vs, vx, kx) ==
  /\ \A v \in 1..Len(vs) : \A k \in 1..Len(vs[v]) : vx[vs[v][k]] = v /\ kx[vs[v][k]] = k
  /\ \A i \in 1..N : vx[i] # 0 =>
       vx[i] \in 1..Len(vs) /\ kx[i] \in 1..Len(vs[vx[i]]) /\ vs[vx[i]][kx[i]] = i
  /\ \A i, j \in 1..N : i < j /\ vx[i] # 0 /\ vx[j] # 0 =>
       vx[i] < vx[j] \/ (vx[i] = vx[j] /\ kx[i] < kx[j])
Assembled(vs, ic, pick) ==
  FlattenSeq([v \in 1..Len(vs) |->
    IF pick[v] THEN FlattenSeq([k \in 1..Len(vs[v]) |-> ic[vs[v][k]]]) ELSE <<>>])
Chosen(N, vx, pick) == {i \in 1..N : vx[i] # 0 /\ pick[vx[i]]}

(* The code of the vertices a partition has is the code of their *)
(* instructions, in the order of the function.                   *)
LEMMA CodeLaid ==
  ASSUME NEW T, NEW N \in Nat, NEW ic \in [1..N -> Seq(T)], NEW vs \in Seq(Seq(1..N)),
         NEW vx \in [1..N -> Nat], NEW kx \in [1..N -> Nat], Numbering(N, vs, vx, kx),
         NEW pick \in [1..Len(vs) -> BOOLEAN], NEW L,
         L = Assembled(vs, ic, pick)
  PROVE  /\ L \in Seq(T)
         /\ \E at \in [1..N -> Nat] : Laid(Chosen(N, vx, pick), ic, at, L)
<1>0. PICK n \in Nat : n = Len(vs) /\ DOMAIN vs = 1..n
  OBVIOUS
<1>1. ASSUME NEW v \in 1..n PROVE vs[v] \in Seq(1..N) /\ Len(vs[v]) \in Nat /\ \A k \in 1..Len(vs[v]) : vs[v][k] \in 1..N
  <2>1. PICK s \in Seq(1..N) : s = vs[v]
    BY <1>0
  <2>2. Len(s) \in Nat /\ \A k \in 1..Len(s) : s[k] \in 1..N
    BY SeqElements, Zenon
  <2> QED BY <2>1, <2>2
<1> DEFINE inner(v) == [k \in 1..Len(vs[v]) |-> ic[vs[v][k]]]
<1>2. ASSUME NEW v \in 1..n
      PROVE  inner(v) \in Seq(Seq(T)) /\ Len(inner(v)) = Len(vs[v])
             /\ \A k \in 1..Len(vs[v]) : inner(v)[k] = ic[vs[v][k]]
  <2>1. \A k \in 1..Len(vs[v]) : ic[vs[v][k]] \in Seq(T)
    BY <1>1
  <2>2. Len(vs[v]) \in Nat
    BY <1>1
  <2> QED BY <2>1, <2>2
<1>3. ASSUME NEW v \in 1..n
      PROVE  /\ FlattenSeq(inner(v)) \in Seq(T)
             /\ \E o \in [1..(Len(vs[v]) + 1) -> Nat] : Joins(inner(v), o, FlattenSeq(inner(v)))
  <2> HIDE DEF inner
  <2>1. inner(v) \in Seq(Seq(T)) /\ Len(inner(v)) = Len(vs[v])
    BY <1>2
  <2>2. /\ FlattenSeq(inner(v)) \in Seq(T)
        /\ \E o \in [1..(Len(inner(v)) + 1) -> Nat] : Joins(inner(v), o, FlattenSeq(inner(v)))
    BY <2>1, FlattenFacts
  <2> QED BY <2>1, <2>2
<1> DEFINE outer == [v \in 1..n |-> IF pick[v] THEN FlattenSeq(inner(v)) ELSE <<>>]
<1>4. outer \in Seq(Seq(T)) /\ Len(outer) = n
      /\ \A v \in 1..n : outer[v] = IF pick[v] THEN FlattenSeq(inner(v)) ELSE <<>>
  <2> HIDE DEF inner
  <2>1. <<>> \in Seq(T)
    OBVIOUS
  <2>2. \A v \in 1..n : outer[v] \in Seq(T)
    BY <1>3, <2>1
  <2> QED BY <2>2
<1>5. L = FlattenSeq(outer)
  BY <1>0 DEF Assembled
<1> HIDE DEF outer
<1>6. L \in Seq(T) /\ \E o \in [1..(n + 1) -> Nat] : Joins(outer, o, L)
  BY <1>4, <1>5, FlattenFacts
<1>7. PICK off \in [1..(n + 1) -> Nat] : Joins(outer, off, L)
  BY <1>6
<1>8. /\ \A v, w \in 1..n : v < w => off[v] + Len(outer[v]) <= off[w]
      /\ \A v \in 1..n : off[v] + Len(outer[v]) <= Len(L)
      /\ \A m \in 1..Len(L) : \E v \in 1..n : \E s \in 1..Len(outer[v]) : m = off[v] + s
  <2>1. Tiled(outer, off, L)
    BY <1>4, <1>6, <1>7, JoinedOrder
  <2> QED BY <1>4, <2>1 DEF Tiled
<1>9. \A v \in 1..n : \A s \in 1..Len(outer[v]) : L[off[v] + s] = outer[v][s]
  BY <1>4, <1>7 DEF Joins
<1> DEFINE in == [v \in 1..n |-> CHOOSE o \in [1..(Len(vs[v]) + 1) -> Nat] : Joins(inner(v), o, FlattenSeq(inner(v)))]
<1>10. ASSUME NEW v \in 1..n
       PROVE  in[v] \in [1..(Len(vs[v]) + 1) -> Nat] /\ Joins(inner(v), in[v], FlattenSeq(inner(v)))
  <2> HIDE DEF inner
  <2> QED BY <1>3
<1> HIDE DEF in
<1>11. ASSUME NEW v \in 1..n
       PROVE  /\ \A j, k \in 1..Len(vs[v]) : j < k => in[v][j] + Len(ic[vs[v][j]]) <= in[v][k]
              /\ \A k \in 1..Len(vs[v]) : in[v][k] + Len(ic[vs[v][k]]) <= Len(FlattenSeq(inner(v)))
              /\ \A m \in 1..Len(FlattenSeq(inner(v))) :
                   \E k \in 1..Len(vs[v]) : \E s \in 1..Len(ic[vs[v][k]]) : m = in[v][k] + s
              /\ \A k \in 1..Len(vs[v]) : \A s \in 1..Len(ic[vs[v][k]]) :
                   FlattenSeq(inner(v))[in[v][k] + s] = ic[vs[v][k]][s]
              /\ \A k \in 1..Len(vs[v]) : in[v][k] \in Nat
  <2>0. \A k \in 1..Len(vs[v]) : inner(v)[k] = ic[vs[v][k]]
    BY <1>2
  <2> HIDE DEF inner
  <2>1. PICK sq \in Seq(Seq(T)) : sq = inner(v) /\ Len(sq) = Len(vs[v])
    BY <1>2
  <2>2. PICK jn \in Seq(T) : jn = FlattenSeq(inner(v))
    BY <1>3
  <2>3. PICK o \in [1..(Len(sq) + 1) -> Nat] : o = in[v] /\ Joins(sq, o, jn)
    BY <1>10, <2>1, <2>2
  <2>4. /\ \A j, k \in 1..Len(sq) : j < k => o[j] + Len(sq[j]) <= o[k]
        /\ \A k \in 1..Len(sq) : o[k] + Len(sq[k]) <= Len(jn)
        /\ \A m \in 1..Len(jn) : \E k \in 1..Len(sq) : \E s \in 1..Len(sq[k]) : m = o[k] + s
    <3>1. Tiled(sq, o, jn)
      BY <2>3, JoinedOrder
    <3> QED BY <3>1 DEF Tiled
  <2>5. \A k \in 1..Len(sq) : \A s \in 1..Len(sq[k]) : jn[o[k] + s] = sq[k][s]
    BY <2>3 DEF Joins
  <2>6. \A k \in 1..Len(vs[v]) : sq[k] = ic[vs[v][k]]
    BY <2>0, <2>1
  <2>7. \A k \in 1..Len(vs[v]) : o[k] \in Nat
    <3>1. Len(sq) \in Nat /\ \A k \in 1..Len(sq) : k \in 1..(Len(sq) + 1)
      BY <2>1
    <3> QED BY <2>1, <2>3, <3>1
  <2>8. \A j, k \in 1..Len(vs[v]) : j < k => in[v][j] + Len(ic[vs[v][j]]) <= in[v][k]
    BY <2>1, <2>3, <2>4, <2>6
  <2>9. \A k \in 1..Len(vs[v]) : in[v][k] + Len(ic[vs[v][k]]) <= Len(FlattenSeq(inner(v)))
    BY <2>1, <2>2, <2>3, <2>4, <2>6
  <2>10. ASSUME NEW m \in 1..Len(FlattenSeq(inner(v)))
         PROVE  \E k \in 1..Len(vs[v]) : \E s \in 1..Len(ic[vs[v][k]]) : m = in[v][k] + s
    <3>1. PICK k \in 1..Len(sq) : \E s \in 1..Len(sq[k]) : m = o[k] + s
      BY <2>2, <2>4
    <3> QED BY <2>1, <2>3, <2>6, <3>1
  <2>11. ASSUME NEW k \in 1..Len(vs[v]), NEW s \in 1..Len(ic[vs[v][k]])
         PROVE  FlattenSeq(inner(v))[in[v][k] + s] = ic[vs[v][k]][s]
    <3>1. sq[k] = ic[vs[v][k]] /\ k \in 1..Len(sq)
      BY <2>1, <2>6
    <3>2. jn[o[k] + s] = sq[k][s]
      BY <2>5, <3>1
    <3> QED BY <2>2, <2>3, <3>1, <3>2
  <2> QED BY <2>3, <2>7, <2>8, <2>9, <2>10, <2>11
<1> DEFINE at == [i \in 1..N |-> IF vx[i] # 0 THEN off[vx[i]] + in[vx[i]][kx[i]] ELSE 0]
           mine == {i \in 1..N : vx[i] # 0 /\ pick[vx[i]]}
<1>12. ASSUME NEW i \in mine
       PROVE  /\ i \in 1..N /\ vx[i] \in 1..n /\ kx[i] \in 1..Len(vs[vx[i]]) /\ vs[vx[i]][kx[i]] = i
              /\ pick[vx[i]] /\ at[i] = off[vx[i]] + in[vx[i]][kx[i]]
              /\ outer[vx[i]] = FlattenSeq(inner(vx[i]))
              /\ off[vx[i]] \in Nat /\ in[vx[i]][kx[i]] \in Nat
              /\ Len(ic[i]) \in Nat /\ Len(outer[vx[i]]) \in Nat /\ i \in Nat /\ vx[i] \in Nat /\ kx[i] \in Nat
  <2>1. i \in 1..N /\ vx[i] # 0 /\ pick[vx[i]]
    OBVIOUS
  <2>2. vx[i] \in 1..n /\ kx[i] \in 1..Len(vs[vx[i]]) /\ vs[vx[i]][kx[i]] = i
    BY <1>0, <2>1 DEF Numbering
  <2>3. at[i] = off[vx[i]] + in[vx[i]][kx[i]]
    BY <2>1
  <2> HIDE DEF inner, mine, at
  <2>4. outer[vx[i]] = FlattenSeq(inner(vx[i]))
    BY <1>4, <2>1, <2>2
  <2>5. off[vx[i]] \in Nat /\ in[vx[i]][kx[i]] \in Nat
    <3>1. vx[i] \in 1..(n + 1)
      BY <2>2
    <3>2. off[vx[i]] \in Nat
      BY <3>1
    <3>3. in[vx[i]][kx[i]] \in Nat
      BY <1>11, <2>2
    <3> QED BY <3>2, <3>3
  <2>6. Len(ic[i]) \in Nat /\ Len(outer[vx[i]]) \in Nat
    <3>1. ic[i] \in Seq(T) /\ outer[vx[i]] \in Seq(T)
      BY <1>3, <2>1, <2>2, <2>4
    <3> QED BY <3>1
  <2> QED BY <2>1, <2>2, <2>3, <2>4, <2>5, <2>6
<1>13. at \in [1..N -> Nat]
  <2>1. ASSUME NEW i \in 1..N, vx[i] # 0 PROVE off[vx[i]] \in Nat /\ in[vx[i]][kx[i]] \in Nat
    <3>1. vx[i] \in 1..n /\ kx[i] \in 1..Len(vs[vx[i]])
      BY <1>0, <2>1 DEF Numbering
    <3>2. vx[i] \in 1..(n + 1)
      BY <3>1
    <3>3. off[vx[i]] \in Nat
      BY <3>2
    <3> HIDE DEF inner
    <3>4. in[vx[i]][kx[i]] \in Nat
      BY <1>11, <3>1
    <3> QED BY <3>3, <3>4
  <2>2. ASSUME NEW i \in 1..N PROVE (IF vx[i] # 0 THEN off[vx[i]] + in[vx[i]][kx[i]] ELSE 0) \in Nat
    <3>1. CASE vx[i] # 0
      <4>1. PICK a, b \in Nat : a = off[vx[i]] /\ b = in[vx[i]][kx[i]]
        BY <2>1, <3>1
      <4>2. a + b \in Nat
        OBVIOUS
      <4> QED BY <3>1, <4>1, <4>2
    <3> QED BY <3>1
  <2> QED BY <2>2
<1> HIDE DEF at, inner
<1>14. ASSUME NEW i \in mine
       PROVE  /\ at[i] + Len(ic[i]) <= off[vx[i]] + Len(outer[vx[i]])
              /\ at[i] + Len(ic[i]) <= Len(L)
              /\ \A s \in 1..Len(ic[i]) : L[at[i] + s] = ic[i][s]
  <2> HIDE DEF mine
  <2>1. PICK v \in 1..n, k \in Nat : v = vx[i] /\ k = kx[i]
    BY <1>12
  <2>2. k \in 1..Len(vs[v]) /\ vs[v][k] = i /\ outer[v] = FlattenSeq(inner(v))
        /\ at[i] = off[v] + in[v][k]
    BY <1>12, <2>1
  <2>3. in[v][k] + Len(ic[i]) <= Len(outer[v])
    BY <1>11, <2>2
  <2>4. /\ off[v] \in Nat /\ in[v][k] \in Nat /\ Len(ic[i]) \in Nat /\ Len(outer[v]) \in Nat
    BY <1>12, <2>1
  <2>5. off[v] + Len(outer[v]) <= Len(L) /\ Len(L) \in Nat
    <3>1. Len(L) \in Nat
      BY <1>6
    <3> QED BY <1>8, <3>1
  <2>9. PICK x, y, z, w, l \in Nat :
           x = in[v][k] /\ y = Len(outer[v]) /\ z = Len(ic[i]) /\ w = off[v] /\ l = Len(L)
    BY <2>4, <2>5
  <2>10. x + z <= y /\ w + y <= l /\ at[i] = w + x
    BY <2>2, <2>3, <2>5, <2>9
  <2>11. (w + x) + z <= w + y /\ (w + x) + z <= l
    BY <2>10
  <2>6. at[i] + Len(ic[i]) <= off[v] + Len(outer[v])
    BY <2>9, <2>10, <2>11
  <2>7. at[i] + Len(ic[i]) <= Len(L)
    BY <2>9, <2>10, <2>11
  <2>8. ASSUME NEW s \in 1..Len(ic[i]) PROVE L[at[i] + s] = ic[i][s]
    <3>1. in[v][k] + s \in 1..Len(outer[v]) /\ at[i] + s = off[v] + (in[v][k] + s)
      <4>1. s \in 1..z
        BY <2>9
      <4>2. x + s \in 1..y /\ (w + x) + s = w + (x + s)
        BY <2>10, <4>1
      <4> QED BY <2>9, <2>10, <4>2
    <3>2. L[off[v] + (in[v][k] + s)] = outer[v][in[v][k] + s]
      BY <1>9, <3>1
    <3>3. outer[v][in[v][k] + s] = ic[i][s]
      BY <1>11, <2>2
    <3> QED BY <3>1, <3>2, <3>3
  <2> QED BY <2>1, <2>6, <2>7, <2>8
<1>15. ASSUME NEW i \in mine, NEW j \in mine, i < j PROVE at[i] + Len(ic[i]) <= at[j]
  <2>0. i \in 1..N /\ j \in 1..N /\ vx[i] # 0 /\ vx[j] # 0
    OBVIOUS
  <2> HIDE DEF mine
  <2>1. vx[i] < vx[j] \/ (vx[i] = vx[j] /\ kx[i] < kx[j])
    BY <1>15, <2>0 DEF Numbering
  <2>2. CASE vx[i] < vx[j]
    <3>1. off[vx[i]] + Len(outer[vx[i]]) <= off[vx[j]]
      BY <1>8, <1>12, <2>2
    <3>2. at[j] = off[vx[j]] + in[vx[j]][kx[j]] /\ off[vx[j]] \in Nat /\ in[vx[j]][kx[j]] \in Nat
      BY <1>12
    <3>3. at[i] + Len(ic[i]) <= off[vx[i]] + Len(outer[vx[i]])
      BY <1>14
    <3>4. at[i] \in Nat /\ Len(ic[i]) \in Nat /\ off[vx[i]] \in Nat /\ Len(outer[vx[i]]) \in Nat
      BY <1>12, <1>13
    <3>5. PICK a, b, c, d, e, g \in Nat :
            /\ a = at[i] /\ b = Len(ic[i]) /\ c = off[vx[i]] /\ d = Len(outer[vx[i]])
            /\ e = off[vx[j]] /\ g = in[vx[j]][kx[j]]
      BY <3>2, <3>4
    <3>6. c + d <= e /\ a + b <= c + d /\ at[j] = e + g
      BY <3>1, <3>2, <3>3, <3>5
    <3>7. a + b <= e + g
      BY <3>6
    <3> QED BY <3>5, <3>6, <3>7
  <2>3. CASE vx[i] = vx[j] /\ kx[i] < kx[j]
    <3>1. PICK v \in 1..n, k \in Nat, l \in Nat : v = vx[i] /\ k = kx[i] /\ l = kx[j]
      BY <1>12
    <3>2. k \in 1..Len(vs[v]) /\ l \in 1..Len(vs[v]) /\ vs[v][k] = i /\ k < l
      BY <1>12, <2>3, <3>1
    <3>3. in[v][k] + Len(ic[i]) <= in[v][l]
      BY <1>11, <3>2
    <3>4. at[i] = off[v] + in[v][k] /\ at[j] = off[v] + in[v][l]
          /\ off[v] \in Nat /\ in[v][k] \in Nat /\ in[v][l] \in Nat /\ Len(ic[i]) \in Nat
      BY <1>12, <2>3, <3>1
    <3>5. PICK a, b, c, d \in Nat : a = off[v] /\ b = in[v][k] /\ c = in[v][l] /\ d = Len(ic[i])
      BY <3>4
    <3>6. b + d <= c
      BY <3>3, <3>5
    <3>7. (a + b) + d <= a + c
      BY <3>6
    <3> QED BY <3>4, <3>5, <3>7
  <2> QED BY <2>1, <2>2, <2>3
<1>16. ASSUME NEW m \in 1..Len(L) PROVE \E i \in mine : \E s \in 1..Len(ic[i]) : m = at[i] + s
  <2>1. PICK v \in 1..n : \E s \in 1..Len(outer[v]) : m = off[v] + s
    BY <1>8
  <2>2. PICK s \in 1..Len(outer[v]) : m = off[v] + s
    BY <2>1
  <2>3. pick[v] /\ outer[v] = FlattenSeq(inner(v))
    <3> SUFFICES ASSUME ~ pick[v] PROVE FALSE
      BY <1>4
    <3>1. Len(outer[v]) = 0
      BY <1>4
    <3> QED BY <2>2, <3>1
  <2>4. PICK k \in 1..Len(vs[v]) : \E r \in 1..Len(ic[vs[v][k]]) : s = in[v][k] + r
    <3>1. s \in 1..Len(FlattenSeq(inner(v)))
      BY <2>3
    <3> QED BY <1>11, <3>1
  <2>5. PICK r \in 1..Len(ic[vs[v][k]]) : s = in[v][k] + r
    BY <2>4
  <2>6. PICK i \in 1..N : i = vs[v][k]
    BY <1>1
  <2>7. vx[i] = v /\ kx[i] = k
    BY <1>0, <2>6 DEF Numbering
  <2>8. i \in mine
    BY <2>3, <2>7
  <2>9. at[i] = off[v] + in[v][k] /\ off[v] \in Nat /\ in[v][k] \in Nat /\ r \in Nat
    <3>1. r \in Nat
      <4>1. Len(ic[vs[v][k]]) \in Nat
        BY <1>12, <2>6, <2>8
      <4> QED BY <4>1
    <3> HIDE DEF mine
    <3> QED BY <1>12, <2>7, <2>8, <3>1
  <2>10. m = at[i] + r
    <3>1. PICK a, b \in Nat : a = off[v] /\ b = in[v][k]
      BY <2>9
    <3>2. m = a + (b + r) /\ at[i] = a + b /\ r \in Nat
      BY <2>2, <2>5, <2>9, <3>1
    <3> QED BY <3>2
  <2> QED BY <2>5, <2>6, <2>8, <2>10
<1>17. Laid(mine, ic, at, L)
  <2> HIDE DEF mine
  <2> QED BY <1>14, <1>15, <1>16 DEF Laid
<1> QED BY <1>6, <1>13, <1>17 DEF Chosen

(* A sequence with something before and behind one element. *)
Around(b, x, a, t) ==
  /\ Len(t) = Len(b) + 1 + Len(a)
  /\ \A k \in 1..Len(b) : t[k] = b[k]
  /\ t[Len(b) + 1] = x
  /\ \A k \in 1..Len(a) : t[Len(b) + 1 + k] = a[k]

(* What b \o <<x>> \o a has at every position. *)
LEMMA AroundFacts ==
  ASSUME NEW T, NEW b \in Seq(T), NEW a \in Seq(T), NEW x \in T
  PROVE  b \o <<x>> \o a \in Seq(T) /\ Around(b, x, a, b \o <<x>> \o a)
<1>1. PICK h \in Seq(T) : h = <<x>> /\ Len(h) = 1 /\ h[1] = x
  <2>1. <<x>> \in Seq(T) /\ Len(<<x>>) = 1 /\ <<x>>[1] = x
    OBVIOUS
  <2> QED BY <2>1
<1>2. PICK c \in Seq(T) :
      /\ c = b \o h
      /\ Len(c) = Len(b) + Len(h)
      /\ \A k \in 1..Len(b) + Len(h) : c[k] = IF k <= Len(b) THEN b[k] ELSE h[k - Len(b)]
  <2> DEFINE d == b \o h
  <2>1. /\ d \in Seq(T)
        /\ Len(d) = Len(b) + Len(h)
        /\ \A k \in 1..Len(b) + Len(h) : d[k] = IF k <= Len(b) THEN b[k] ELSE h[k - Len(b)]
    BY ConcatProperties
  <2>2. d = b \o h
    OBVIOUS
  <2> HIDE DEF d
  <2> QED BY <2>1, <2>2
<1>3. c = b \o <<x>>
  BY <1>1, <1>2
<1> DEFINE t == c \o a
<1>4. /\ t \in Seq(T)
      /\ Len(t) = Len(c) + Len(a)
      /\ \A k \in 1..Len(c) + Len(a) : t[k] = IF k <= Len(c) THEN c[k] ELSE a[k - Len(c)]
  BY ConcatProperties
<1>5. t = b \o <<x>> \o a
  BY <1>3
<1> HIDE DEF t
<1>6. PICK m, n \in Nat : m = Len(b) /\ n = Len(a)
  OBVIOUS
<1>7. Len(c) = m + 1 /\ Len(t) = m + 1 + n
  BY <1>1, <1>2, <1>4, <1>6
<1>8. ASSUME NEW k \in 1..m PROVE t[k] = b[k]
  <2>1. k \in 1..(m + 1) /\ k <= m /\ k \in 1..(m + 1 + n) /\ k <= m + 1
    OBVIOUS
  <2>2. c[k] = b[k]
    BY <1>1, <1>2, <1>6, <2>1
  <2>3. t[k] = c[k]
    BY <1>4, <1>6, <1>7, <2>1
  <2> QED BY <2>2, <2>3
<1>9. t[m + 1] = x
  <2>1. m + 1 \in 1..(m + 1) /\ ~ (m + 1 <= m) /\ m + 1 \in 1..(m + 1 + n) /\ m + 1 <= m + 1
        /\ (m + 1) - m = 1
    OBVIOUS
  <2>2. c[m + 1] = h[1]
    BY <1>1, <1>2, <1>6, <2>1
  <2>3. t[m + 1] = c[m + 1]
    BY <1>4, <1>6, <1>7, <2>1
  <2> QED BY <1>1, <2>2, <2>3
<1>10. ASSUME NEW k \in 1..n PROVE t[m + 1 + k] = a[k]
  <2>1. m + 1 + k \in 1..(m + 1 + n) /\ ~ (m + 1 + k <= m + 1) /\ (m + 1 + k) - (m + 1) = k
    OBVIOUS
  <2> QED BY <1>4, <1>6, <1>7, <2>1
<1>11. Around(b, x, a, t)
  BY <1>6, <1>7, <1>8, <1>9, <1>10 DEF Around
<1> QED BY <1>4, <1>5, <1>11

(* An inserted call as it stands in the list of a thread. *)
Listed(e) == [op |-> e.op, n |-> e.n, v |-> e.v]

(* Calls lists every inserted call, without what it was inserted for. *)
LEMMA CallsFacts ==
  ASSUME NEW s \in Seq(InsertedCall)
  PROVE  /\ Calls(s) \in Seq(Threads!Entry) /\ Len(Calls(s)) = Len(s) /\ Len(s) \in Nat
         /\ \A k \in 1..Len(s) : Calls(s)[k] = Listed(s[k])
<1> DEFINE C == InsertedCall
<1>1. s \in Seq(C)
  OBVIOUS
<1> HIDE DEF C
<1>2. Len(s) \in Nat /\ DOMAIN s = 1..Len(s) /\ \A k \in 1..Len(s) : s[k] \in C
  BY <1>1, SeqElements, Zenon
<1>3. Calls(s) = [k \in 1..Len(s) |-> Listed(s[k])]
  BY <1>2 DEF Calls, Listed
<1>4. \A k \in 1..Len(s) : Listed(s[k]) \in Threads!Entry
  BY <1>2 DEF C, InsertedCall, Listed, Threads!Entry
<1> HIDE DEF Calls
<1> DEFINE E == Threads!Entry
           c == [k \in 1..Len(s) |-> Listed(s[k])]
<1>5. c \in Seq(E) /\ Len(c) = Len(s) /\ \A k \in 1..Len(s) : c[k] = Listed(s[k])
  <2> HIDE DEF E
  <2>1. \A k \in 1..Len(s) : Listed(s[k]) \in E
    BY <1>4 DEF E
  <2> QED BY <1>2, <2>1
<1> QED BY <1>2, <1>3, <1>5

(* The code of every instruction, and the instructions thread p executes. *)
InstructionCodes == [i \in 1..Len(func) |-> InstructionCode(i, vertexOf(i))]
Mine(p) == {i \in 1..Len(func) : vertexOf(i) # 0 /\ part[vertexOf(i)] = p}

(* The vertices number the instructions. *)
LEMMA VerticesNumber ==
  ASSUME GraphInv, AllSupported, pos = Len(func)
  PROVE  \E kx \in [1..Len(func) -> Nat] :
           Numbering(Len(func), vertices, [i \in 1..Len(func) |-> vertexOf(i)], kx)
<1>1. PICK N \in Nat : N = Len(func)
  BY GraphNumbers
<1>2. PICK vs \in Seq(Seq(1..N)) : vs = vertices
  BY <1>1 DEF GraphInv, GraphTyped
<1>3. PICK n \in Nat : n = Len(vs) /\ DOMAIN vs = 1..n /\ DOMAIN vertices = 1..n
  BY <1>2
<1> DEFINE vx == [i \in 1..N |-> vertexOf(i)]
           kx == [i \in 1..N |-> IF vx[i] # 0 THEN CHOOSE k \in 1..Len(vs[vx[i]]) : vs[vx[i]][k] = i ELSE 0]
<1>4. \A v \in 1..n : Len(vs[v]) \in Nat /\ DOMAIN vs[v] = 1..Len(vs[v]) /\ \A k \in 1..Len(vs[v]) : vs[v][k] \in 1..N
  <2> TAKE v \in 1..n
  <2>1. PICK s \in Seq(1..N) : s = vs[v]
    BY <1>3
  <2>2. Len(s) \in Nat /\ DOMAIN s = 1..Len(s) /\ \A k \in 1..Len(s) : s[k] \in 1..N
    BY SeqElements, Zenon
  <2> QED BY <2>1, <2>2
<1>5. \A v \in 1..n : \A k \in 1..Len(vs[v]) : vx[vs[v][k]] = v
  <2> TAKE v \in 1..n
  <2> TAKE k \in 1..Len(vs[v])
  <2>1. getVertexForInstruction(vertices[v][k]) = v
    BY <1>2, <1>3, <1>4, VertexFound
  <2>2. vs[v][k] \in 1..N
    BY <1>4
  <2> QED BY <1>2, <2>1, <2>2 DEF vertexOf
<1>6. ASSUME NEW i \in 1..N, vx[i] # 0
      PROVE  vx[i] \in 1..n /\ kx[i] \in 1..Len(vs[vx[i]]) /\ vs[vx[i]][kx[i]] = i
  <2>0. vx[i] = getVertexForInstruction(i) /\ i \in Nat
    BY DEF vertexOf
  <2>1. /\ getVertexForInstruction(i) \in DOMAIN vertices
        /\ \E k \in DOMAIN vertices[getVertexForInstruction(i)] : vertices[getVertexForInstruction(i)][k] = i
    BY <1>6, <2>0, VertexFacts
  <2>2. vx[i] \in 1..n /\ \E k \in 1..Len(vs[vx[i]]) : vs[vx[i]][k] = i
    BY <1>2, <1>3, <1>4, <2>0, <2>1
  <2>3. kx[i] = CHOOSE k \in 1..Len(vs[vx[i]]) : vs[vx[i]][k] = i
    BY <1>6
  <2> HIDE DEF kx, vx
  <2> QED BY <2>2, <2>3
<1>7. \A v \in 1..n : \A k, l \in 1..Len(vs[v]) : k < l <=> vs[v][k] < vs[v][l]
  <2> SUFFICES ASSUME NEW v \in 1..n, NEW k \in 1..Len(vs[v]), NEW l \in 1..Len(vs[v])
               PROVE  k < l <=> vs[v][k] < vs[v][l]
    OBVIOUS
  <2>1. vs[v][k] = vs[v][1] + (k - 1) /\ vs[v][l] = vs[v][1] + (l - 1)
    BY <1>2, <1>3, <1>4 DEF GraphInv, VerticesOrdered
  <2>2. k \in Nat /\ l \in Nat /\ 1 \in 1..Len(vs[v])
    <3>1. PICK m \in Nat : m = Len(vs[v])
      BY <1>4
    <3>2. k \in 1..m /\ l \in 1..m
      BY <3>1
    <3>3. k \in Nat /\ l \in Nat /\ 1 \in 1..m
      BY <3>2
    <3> QED BY <3>1, <3>3
  <2>3. PICK a \in Nat : a = vs[v][1]
    <3>1. vs[v][1] \in 1..N
      BY <1>4, <2>2
    <3> QED BY <3>1
  <2>4. k < l <=> a + (k - 1) < a + (l - 1)
    BY <2>2
  <2> QED BY <2>1, <2>3, <2>4
<1>8. \A v \in 1..n : \A k \in 1..Len(vs[v]) : kx[vs[v][k]] = k
  <2> SUFFICES ASSUME NEW v \in 1..n, NEW k \in 1..Len(vs[v]) PROVE kx[vs[v][k]] = k
    OBVIOUS
  <2>1. PICK i \in 1..N : i = vs[v][k]
    BY <1>4
  <2>2. vx[i] = v /\ v # 0
    BY <1>5, <2>1
  <2> HIDE DEF kx, vx
  <2>3. PICK l \in 1..Len(vs[v]) : l = kx[i] /\ vs[v][l] = i
    BY <1>6, <2>2
  <2>4. ~ (l < k) /\ ~ (k < l)
    BY <1>7, <2>1, <2>3
  <2>5. l \in Nat /\ k \in Nat
    BY <1>4
  <2> QED BY <2>1, <2>3, <2>4, <2>5
<1>9. ASSUME NEW i \in 1..N, NEW j \in 1..N, i < j, vx[i] # 0, vx[j] # 0
      PROVE  vx[i] < vx[j] \/ (vx[i] = vx[j] /\ kx[i] < kx[j])
  <2>1. vx[i] = getVertexForInstruction(i) /\ vx[j] = getVertexForInstruction(j) /\ i \in Nat /\ j \in Nat
    BY DEF vertexOf
  <2>2. vx[i] <= vx[j] /\ vx[i] \in Nat /\ vx[j] \in Nat
    <3>1. i \in (Params + 1)..Base /\ j \in (Params + 1)..Base
      BY <1>9, <2>1, VertexFacts
    <3>2. getVertexForInstruction(i) <= getVertexForInstruction(j)
      BY <1>9, <2>1, <3>1, VertexMonotone
    <3>3. getVertexForInstruction(i) \in Nat /\ getVertexForInstruction(j) \in Nat
      BY <2>1, VertexFacts
    <3> QED BY <2>1, <3>2, <3>3
  <2>3. ASSUME vx[i] = vx[j] PROVE kx[i] < kx[j]
    <3> HIDE DEF kx, vx
    <3>1. /\ vx[i] \in 1..n /\ kx[i] \in 1..Len(vs[vx[i]]) /\ vs[vx[i]][kx[i]] = i
          /\ kx[j] \in 1..Len(vs[vx[i]]) /\ vs[vx[i]][kx[j]] = j
      BY <1>6, <1>9, <2>3
    <3> QED BY <1>7, <1>9, <3>1
  <2> HIDE DEF kx, vx
  <2> QED BY <2>2, <2>3
<1>10. kx \in [1..N -> Nat]
  <2>1. ASSUME NEW i \in 1..N PROVE kx[i] \in Nat
    <3>1. CASE vx[i] # 0
      <4> HIDE DEF kx, vx
      <4>1. kx[i] \in 1..Len(vs[vx[i]]) /\ Len(vs[vx[i]]) \in Nat
        BY <1>4, <1>6, <3>1
      <4> QED BY <4>1
    <3>2. CASE vx[i] = 0
      <4>1. kx[i] = 0
        BY <3>2
      <4> HIDE DEF kx, vx
      <4> QED BY <4>1
    <3> QED BY <3>1, <3>2
  <2>2. kx = [i \in 1..N |-> kx[i]]
    OBVIOUS
  <2> HIDE DEF kx
  <2> QED BY <2>1, <2>2
<1>11. Numbering(N, vs, vx, kx)
  <2> HIDE DEF kx, vx
  <2> QED BY <1>3, <1>5, <1>6, <1>8, <1>9 DEF Numbering
<1> HIDE DEF kx
<1> QED BY <1>1, <1>2, <1>10, <1>11

(* How the list of thread p is put together. *)
LEMMA ListLaid ==
  ASSUME GraphInv, AllSupported, CallsInv, phase # "graph", NEW p \in Partitions
  PROVE  /\ InstructionCodes \in [1..Len(func) -> Seq(Threads!Entry)]
         /\ PartitionCode(p) \in Seq(Threads!Entry)
         /\ \E at \in [1..Len(func) -> Nat] : Laid(Mine(p), InstructionCodes, at, PartitionCode(p))
<1>1. PICK N \in Nat : N = Len(func)
  BY GraphNumbers
<1>2. PICK vs \in Seq(Seq(1..N)) : vs = vertices
  BY <1>1 DEF GraphInv, GraphTyped
<1>3. PICK n \in Nat : n = Len(vs) /\ DOMAIN vertices = 1..n
  BY <1>2
<1>4. pos = Len(func) /\ part \in [1..n -> Partitions]
      /\ before \in [1..N -> Seq(InsertedCall)] /\ after \in [1..N -> Seq(InsertedCall)]
  BY <1>1, <1>3 DEF CallsInv, CallsTyped
<1>5. PICK vx : vx = [i \in 1..N |-> vertexOf(i)]
  OBVIOUS
<1>6. vx \in [1..N -> Nat] /\ \A i \in 1..N : vx[i] = vertexOf(i)
  <2>1. \A i \in 1..N : vertexOf(i) \in Nat /\ i \in Nat
    BY VertexFacts DEF vertexOf
  <2> QED BY <1>5, <2>1
<1>7. PICK kx \in [1..N -> Nat] : Numbering(N, vs, vx, kx)
  BY <1>1, <1>2, <1>4, <1>5, VerticesNumber
<1>8. PICK ic : ic = InstructionCodes
  OBVIOUS
<1>9. ASSUME NEW i \in 1..N PROVE InstructionCode(i, vertexOf(i)) \in Seq(Threads!Entry)
  <2>1. PICK b \in Seq(Threads!Entry) : b = Calls(before[i])
    <3>1. Calls(before[i]) \in Seq(Threads!Entry)
      BY <1>4, CallsFacts
    <3> QED BY <3>1
  <2>2. PICK a \in Seq(Threads!Entry) : a = Calls(after[i])
    <3>1. Calls(after[i]) \in Seq(Threads!Entry)
      BY <1>4, CallsFacts
    <3> QED BY <3>1
  <2>3. PICK x \in Threads!Entry : x = [op |-> "exec", n |-> i, v |-> vertexOf(i)]
    <3>1. vertexOf(i) \in Nat /\ i \in Nat
      BY <1>6
    <3>2. [op |-> "exec", n |-> i, v |-> vertexOf(i)] \in Threads!Entry
      BY <3>1 DEF Threads!Entry
    <3> QED BY <3>2
  <2>4. b \o <<x>> \o a \in Seq(Threads!Entry)
    BY AroundFacts
  <2> QED BY <2>1, <2>2, <2>3, <2>4 DEF InstructionCode
<1>10. ic \in [1..N -> Seq(Threads!Entry)]
  BY <1>1, <1>8, <1>9 DEF InstructionCodes
<1>11. PICK pick : pick = [v \in 1..n |-> part[v] = p]
  OBVIOUS
<1>12. pick \in [1..Len(vs) -> BOOLEAN] /\ \A v \in 1..n : pick[v] <=> part[v] = p
  BY <1>3, <1>11
<1>13. PICK L : L = PartitionCode(p)
  OBVIOUS
<1>14. L = Assembled(vs, ic, pick)
  <2>1. ASSUME NEW v \in 1..n
        PROVE  VertexCode(v) = FlattenSeq([k \in 1..Len(vs[v]) |-> ic[vs[v][k]]])
    <3>1. PICK s \in Seq(1..N) : s = vs[v]
      BY <1>2, <1>3
    <3>2. Len(s) \in Nat /\ DOMAIN s = 1..Len(s) /\ \A k \in 1..Len(s) : s[k] \in 1..N
      BY SeqElements, Zenon
    <3>3. ASSUME NEW k \in 1..Len(s) PROVE InstructionCode(s[k], v) = ic[s[k]]
      <4>1. getVertexForInstruction(vertices[v][k]) = v
        BY <1>2, <1>3, <3>1, <3>2, VertexFound
      <4>2. vertexOf(s[k]) = v
        BY <1>2, <3>1, <4>1 DEF vertexOf
      <4>3. ic[s[k]] = InstructionCode(s[k], vertexOf(s[k]))
        BY <1>1, <1>8, <3>2 DEF InstructionCodes
      <4> QED BY <4>2, <4>3
    <3>4. [k \in 1..Len(s) |-> InstructionCode(s[k], v)] = [k \in 1..Len(s) |-> ic[s[k]]]
      BY <3>3
    <3>5. VertexCode(v) = FlattenSeq([k \in DOMAIN s |-> InstructionCode(s[k], v)])
      BY <1>2, <3>1 DEF VertexCode
    <3> QED BY <3>1, <3>2, <3>4, <3>5
  <2>2. [v \in 1..n |-> IF part[v] = p THEN VertexCode(v) ELSE <<>>]
          = [v \in 1..n |-> IF pick[v] THEN FlattenSeq([k \in 1..Len(vs[v]) |-> ic[vs[v][k]]]) ELSE <<>>]
    BY <1>12, <2>1
  <2>3. PartitionCode(p) = FlattenSeq([v \in 1..n |-> IF part[v] = p THEN VertexCode(v) ELSE <<>>])
    BY <1>3 DEF PartitionCode
  <2> QED BY <1>3, <1>13, <2>2, <2>3 DEF Assembled
<1>15. /\ L \in Seq(Threads!Entry)
       /\ \E at \in [1..N -> Nat] : Laid(Chosen(N, vx, pick), ic, at, L)
  <2>1. PICK E : E = Threads!Entry
    OBVIOUS
  <2>2. ic \in [1..N -> Seq(E)] /\ vx \in [1..N -> Nat] /\ pick \in [1..Len(vs) -> BOOLEAN]
    BY <1>6, <1>10, <1>12, <2>1
  <2>3. L \in Seq(E) /\ \E at \in [1..N -> Nat] : Laid(Chosen(N, vx, pick), ic, at, L)
    BY <1>7, <1>14, <2>2, CodeLaid
  <2> QED BY <2>1, <2>3
<1>16. Chosen(N, vx, pick) = Mine(p)
  <2>1. ASSUME NEW i \in 1..N, vx[i] # 0 PROVE vx[i] \in 1..n
    BY <1>3, <1>7, <2>1 DEF Numbering
  <2> QED BY <1>1, <1>6, <1>12, <2>1 DEF Chosen, Mine
<1> QED BY <1>1, <1>8, <1>10, <1>13, <1>15, <1>16
-----------------------------------------------------------------------------
(* The lists of all threads as one layout. *)

(* Where the lists of the threads have what: the calls B[i] before each    *)
(* instruction i of M, i itself and the calls A[i] behind it, the          *)
(* instructions of a thread in their order, and nothing else.              *)
Width(B, A, i) == Len(B[i]) + 1 + Len(A[i])
Layout(M, own, vx, B, A, at, list) ==
  /\ \A i \in M :
       /\ at[i] + Width(B, A, i) <= Len(list[own[i]])
       /\ \A k \in 1..Len(B[i]) : list[own[i]][at[i] + k] = Listed(B[i][k])
       /\ list[own[i]][at[i] + Len(B[i]) + 1] = [op |-> "exec", n |-> i, v |-> vx[i]]
       /\ \A k \in 1..Len(A[i]) : list[own[i]][at[i] + Len(B[i]) + 1 + k] = Listed(A[i][k])
  /\ \A i, j \in M : own[i] = own[j] /\ i < j => at[i] + Width(B, A, i) <= at[j]
  /\ \A p \in Partitions : \A m \in 1..Len(list[p]) :
       \E i \in M : own[i] = p /\ \E s \in 1..Width(B, A, i) : m = at[i] + s

Of(M, own, p) == {i \in M : own[i] = p}
AllLaid(N, M, own, ic, list) ==
  \A p \in Partitions : \E at \in [1..N -> Nat] : Laid(Of(M, own, p), ic, at, list[p])
Blocks(M, vx, B, A, ic) ==
  \A i \in M : Around(Calls(B[i]), [op |-> "exec", n |-> i, v |-> vx[i]], Calls(A[i]), ic[i])

(* The lists of all threads have such a layout. *)
LEMMA LayoutExists ==
  ASSUME NEW N \in Nat, NEW M \in SUBSET (1..N), NEW own \in [M -> Partitions], NEW vx,
         NEW B \in [1..N -> Seq(InsertedCall)], NEW A \in [1..N -> Seq(InsertedCall)], NEW ic, NEW list,
         AllLaid(N, M, own, ic, list), Blocks(M, vx, B, A, ic)
  PROVE  \E at \in [1..N -> Nat] : Layout(M, own, vx, B, A, at, list)
<1> DEFINE by == [p \in Partitions |-> CHOOSE at \in [1..N -> Nat] : Laid(Of(M, own, p), ic, at, list[p])]
<1>1. \A p \in Partitions : by[p] \in [1..N -> Nat] /\ Laid(Of(M, own, p), ic, by[p], list[p])
  BY DEF AllLaid
<1> HIDE DEF by
<1> DEFINE at == [i \in 1..N |-> IF i \in M THEN by[own[i]][i] ELSE 0]
<1>2. at \in [1..N -> Nat] /\ \A i \in M : at[i] = by[own[i]][i] /\ at[i] \in Nat
  <2>1. ASSUME NEW i \in M PROVE by[own[i]][i] \in Nat
    BY <1>1
  <2> QED BY <2>1
<1> HIDE DEF at
<1>3. ASSUME NEW i \in M
      PROVE  /\ Len(B[i]) \in Nat /\ Len(A[i]) \in Nat /\ Width(B, A, i) \in Nat
             /\ Len(ic[i]) = Width(B, A, i)
             /\ \A k \in 1..Len(B[i]) : ic[i][k] = Listed(B[i][k])
             /\ ic[i][Len(B[i]) + 1] = [op |-> "exec", n |-> i, v |-> vx[i]]
             /\ \A k \in 1..Len(A[i]) : ic[i][Len(B[i]) + 1 + k] = Listed(A[i][k])
  <2>1. PICK b \in Seq(InsertedCall) : b = B[i]
    OBVIOUS
  <2>2. PICK a \in Seq(InsertedCall) : a = A[i]
    OBVIOUS
  <2>3. /\ Len(Calls(b)) = Len(b) /\ Len(b) \in Nat
        /\ \A k \in 1..Len(b) : Calls(b)[k] = Listed(b[k])
    BY CallsFacts
  <2>4. /\ Len(Calls(a)) = Len(a) /\ Len(a) \in Nat
        /\ \A k \in 1..Len(a) : Calls(a)[k] = Listed(a[k])
    BY CallsFacts
  <2>5. PICK x : x = [op |-> "exec", n |-> i, v |-> vx[i]]
    OBVIOUS
  <2>6. Around(Calls(b), x, Calls(a), ic[i])
    BY <2>1, <2>2, <2>5 DEF Blocks
  <2> HIDE DEF Calls
  <2>7. /\ Len(ic[i]) = Len(b) + 1 + Len(a)
        /\ \A k \in 1..Len(b) : ic[i][k] = Listed(b[k])
        /\ ic[i][Len(b) + 1] = x
        /\ \A k \in 1..Len(a) : ic[i][Len(b) + 1 + k] = Listed(a[k])
    BY <2>3, <2>4, <2>6 DEF Around
  <2>8. PICK m, n \in Nat : m = Len(b) /\ n = Len(a)
    BY <2>3, <2>4
  <2>9. m + 1 + n \in Nat
    OBVIOUS
  <2> QED BY <2>1, <2>2, <2>5, <2>7, <2>8, <2>9 DEF Width
<1>4. ASSUME NEW i \in M
      PROVE  /\ at[i] + Width(B, A, i) <= Len(list[own[i]])
             /\ \A k \in 1..Width(B, A, i) : list[own[i]][at[i] + k] = ic[i][k]
  <2>1. i \in Of(M, own, own[i]) /\ own[i] \in Partitions
    BY DEF Of
  <2>2. Laid(Of(M, own, own[i]), ic, by[own[i]], list[own[i]]) /\ at[i] = by[own[i]][i]
    BY <1>1, <1>2, <2>1
  <2>3. Len(ic[i]) = Width(B, A, i)
    BY <1>3
  <2> QED BY <2>1, <2>2, <2>3 DEF Laid
<1>5. ASSUME NEW i \in M
      PROVE  /\ \A k \in 1..Len(B[i]) : list[own[i]][at[i] + k] = Listed(B[i][k])
             /\ list[own[i]][at[i] + Len(B[i]) + 1] = [op |-> "exec", n |-> i, v |-> vx[i]]
             /\ \A k \in 1..Len(A[i]) : list[own[i]][at[i] + Len(B[i]) + 1 + k] = Listed(A[i][k])
  <2>1. PICK m, n, w, a \in Nat : m = Len(B[i]) /\ n = Len(A[i]) /\ w = Width(B, A, i) /\ a = at[i]
    BY <1>2, <1>3
  <2>2. w = m + 1 + n
    BY <2>1 DEF Width
  <2>3. \A k \in 1..w : list[own[i]][a + k] = ic[i][k]
    BY <1>4, <2>1
  <2>4. \A k \in 1..m : k \in 1..w
    BY <2>2
  <2>5. m + 1 \in 1..w /\ a + (m + 1) = a + m + 1
    BY <2>2
  <2>6. \A k \in 1..n : m + 1 + k \in 1..w /\ a + (m + 1 + k) = a + m + 1 + k
    BY <2>2
  <2>7. /\ \A k \in 1..m : ic[i][k] = Listed(B[i][k])
        /\ ic[i][m + 1] = [op |-> "exec", n |-> i, v |-> vx[i]]
        /\ \A k \in 1..n : ic[i][m + 1 + k] = Listed(A[i][k])
    BY <1>3, <2>1
  <2>8. \A k \in 1..m : list[own[i]][a + k] = Listed(B[i][k])
    BY <2>3, <2>4, <2>7
  <2>9. list[own[i]][a + m + 1] = [op |-> "exec", n |-> i, v |-> vx[i]]
    <3>1. list[own[i]][a + (m + 1)] = ic[i][m + 1]
      BY <2>3, <2>5
    <3> QED BY <2>5, <2>7, <3>1
  <2>10. ASSUME NEW k \in 1..n PROVE list[own[i]][a + m + 1 + k] = Listed(A[i][k])
    <3>1. list[own[i]][a + (m + 1 + k)] = ic[i][m + 1 + k]
      BY <2>3, <2>6
    <3>2. a + (m + 1 + k) = a + m + 1 + k
      BY <2>6
    <3>3. list[own[i]][a + m + 1 + k] = list[own[i]][a + (m + 1 + k)]
      BY <3>2
    <3>4. ic[i][m + 1 + k] = Listed(A[i][k])
      BY <2>7
    <3> QED BY <3>1, <3>3, <3>4
  <2> QED BY <2>1, <2>8, <2>9, <2>10
<1>6. ASSUME NEW i \in M, NEW j \in M, own[i] = own[j], i < j PROVE at[i] + Width(B, A, i) <= at[j]
  <2>1. i \in Of(M, own, own[i]) /\ j \in Of(M, own, own[i]) /\ own[i] \in Partitions
    BY <1>6 DEF Of
  <2>2. Laid(Of(M, own, own[i]), ic, by[own[i]], list[own[i]]) /\ at[i] = by[own[i]][i] /\ at[j] = by[own[i]][j]
    BY <1>1, <1>2, <1>6, <2>1
  <2>3. Len(ic[i]) = Width(B, A, i)
    BY <1>3
  <2> QED BY <1>6, <2>1, <2>2, <2>3 DEF Laid
<1>7. ASSUME NEW p \in Partitions, NEW m \in 1..Len(list[p])
      PROVE  \E i \in M : own[i] = p /\ \E s \in 1..Width(B, A, i) : m = at[i] + s
  <2>1. PICK i \in Of(M, own, p) : \E s \in 1..Len(ic[i]) : m = by[p][i] + s
    BY <1>1 DEF Laid
  <2>2. i \in M /\ own[i] = p
    BY DEF Of
  <2>3. Len(ic[i]) = Width(B, A, i) /\ at[i] = by[p][i]
    BY <1>2, <1>3, <2>2
  <2> QED BY <2>1, <2>2, <2>3
<1>8. Layout(M, own, vx, B, A, at, list)
  BY <1>4, <1>5, <1>6, <1>7 DEF Layout
<1> QED BY <1>2, <1>8

(* The places of the calls and instructions in the lists. *)
BeforePlace(own, at, i, k) == <<own[i], at[i] + k>>
ExecPlace(own, at, B, i) == <<own[i], at[i] + Len(B[i]) + 1>>
AfterPlace(own, at, B, i, k) == <<own[i], at[i] + Len(B[i]) + 1 + k>>

Lists(N, M, own, B, A, at, list) ==
  /\ M \in SUBSET (1..N) /\ own \in [M -> Partitions]
  /\ B \in [1..N -> Seq(InsertedCall)] /\ A \in [1..N -> Seq(InsertedCall)]
  /\ at \in [1..N -> Nat] /\ list \in [Partitions -> Seq(Threads!Entry)]

(* The lengths are numbers. *)
LEMMA ListNumbers ==
  ASSUME NEW N \in Nat, NEW M, NEW own, NEW B, NEW A, NEW at, NEW list, Lists(N, M, own, B, A, at, list)
  PROVE  /\ \A i \in M : i \in 1..N /\ i \in Nat /\ own[i] \in Partitions
         /\ \A i \in 1..N : /\ Len(B[i]) \in Nat /\ Len(A[i]) \in Nat /\ at[i] \in Nat
                            /\ DOMAIN B[i] = 1..Len(B[i]) /\ DOMAIN A[i] = 1..Len(A[i])
                            /\ \A k \in 1..Len(B[i]) : B[i][k] \in InsertedCall
                            /\ \A k \in 1..Len(A[i]) : A[i][k] \in InsertedCall
         /\ \A p \in Partitions : Len(list[p]) \in Nat /\ DOMAIN list[p] = 1..Len(list[p])
<1>1. /\ M \in SUBSET (1..N) /\ own \in [M -> Partitions] /\ at \in [1..N -> Nat]
  BY DEF Lists
<1> DEFINE C == InsertedCall
           E == Threads!Entry
<1>2. B \in [1..N -> Seq(C)] /\ A \in [1..N -> Seq(C)] /\ list \in [Partitions -> Seq(E)]
  BY DEF Lists
<1> HIDE DEF C, E
<1>3. ASSUME NEW i \in 1..N
      PROVE  /\ Len(B[i]) \in Nat /\ Len(A[i]) \in Nat /\ at[i] \in Nat
             /\ DOMAIN B[i] = 1..Len(B[i]) /\ DOMAIN A[i] = 1..Len(A[i])
             /\ \A k \in 1..Len(B[i]) : B[i][k] \in C
             /\ \A k \in 1..Len(A[i]) : A[i][k] \in C
  <2>1. PICK b \in Seq(C) : b = B[i]
    BY <1>2
  <2>2. PICK a \in Seq(C) : a = A[i]
    BY <1>2
  <2>3. Len(b) \in Nat /\ DOMAIN b = 1..Len(b) /\ \A k \in 1..Len(b) : b[k] \in C
    BY SeqElements, Zenon
  <2>4. Len(a) \in Nat /\ DOMAIN a = 1..Len(a) /\ \A k \in 1..Len(a) : a[k] \in C
    BY SeqElements, Zenon
  <2> QED BY <1>1, <2>1, <2>2, <2>3, <2>4
<1>4. ASSUME NEW p \in Partitions PROVE Len(list[p]) \in Nat /\ DOMAIN list[p] = 1..Len(list[p])
  <2>1. PICK s \in Seq(E) : s = list[p]
    BY <1>2
  <2>2. Len(s) \in Nat /\ DOMAIN s = 1..Len(s)
    BY <2>1
  <2> QED BY <2>1, <2>2
<1>5. \A i \in M : i \in 1..N /\ i \in Nat /\ own[i] \in Partitions
  BY <1>1
<1> QED BY <1>3, <1>4, <1>5 DEF C

(* Every place of the lists is one of these. *)
PlaceOf(own, vx, B, A, at, c, x, i) ==
  \/ \E k \in 1..Len(B[i]) : /\ x = BeforePlace(own, at, i, k)
                             /\ Threads!EntryAt(c, x) = Listed(B[i][k])
  \/ /\ x = ExecPlace(own, at, B, i)
     /\ Threads!EntryAt(c, x) = [op |-> "exec", n |-> i, v |-> vx[i]]
  \/ \E k \in 1..Len(A[i]) : /\ x = AfterPlace(own, at, B, i, k)
                             /\ Threads!EntryAt(c, x) = Listed(A[i][k])

(* At every place of a list stands a call of an instruction or itself. *)
LEMMA PlaceCases ==
  ASSUME NEW N \in Nat, NEW M, NEW own, NEW vx, NEW B, NEW A, NEW at, NEW list, NEW c,
         Lists(N, M, own, B, A, at, list), Layout(M, own, vx, B, A, at, list), c.list = list,
         NEW x \in Threads!Places(c)
  PROVE  \E i \in M : PlaceOf(own, vx, B, A, at, c, x, i)
<1>1. PICK p \in Partitions : x \in {p} \X DOMAIN list[p]
  BY DEF Threads!Places
<1>2. PICK m \in 1..Len(list[p]) : x = <<p, m>>
  BY <1>1, ListNumbers
<1>3. Threads!EntryAt(c, x) = list[p][m]
  BY <1>2 DEF Threads!EntryAt
<1>4. PICK i \in M : own[i] = p /\ \E s \in 1..Width(B, A, i) : m = at[i] + s
  BY DEF Layout
<1>5. PICK s \in 1..Width(B, A, i) : m = at[i] + s
  BY <1>4
<1>6. /\ \A k \in 1..Len(B[i]) : list[p][at[i] + k] = Listed(B[i][k])
      /\ list[p][at[i] + Len(B[i]) + 1] = [op |-> "exec", n |-> i, v |-> vx[i]]
      /\ \A k \in 1..Len(A[i]) : list[p][at[i] + Len(B[i]) + 1 + k] = Listed(A[i][k])
  BY <1>4 DEF Layout
<1>7. PICK b, a, f \in Nat : b = Len(B[i]) /\ a = Len(A[i]) /\ f = at[i]
  BY ListNumbers
<1>8. s \in 1..(b + 1 + a)
  BY <1>7 DEF Width
<1>9. \/ s \in 1..b
      \/ s = b + 1 /\ f + s = f + b + 1
      \/ \E k \in 1..a : s = b + 1 + k /\ f + s = f + b + 1 + k
  <2>1. CASE s > b + 1
    <3>1. s - (b + 1) \in 1..a /\ s = b + 1 + (s - (b + 1)) /\ f + s = f + b + 1 + (s - (b + 1))
      BY <1>8, <2>1
    <3> QED BY <3>1
  <2>2. CASE ~ (s > b + 1)
    BY <1>8, <2>2
  <2> QED BY <2>1, <2>2
<1>10. CASE s \in 1..b
  <2>1. x = BeforePlace(own, at, i, s) /\ Threads!EntryAt(c, x) = Listed(B[i][s])
    BY <1>2, <1>3, <1>4, <1>5, <1>6, <1>7, <1>10 DEF BeforePlace
  <2> QED BY <1>7, <1>10, <2>1 DEF PlaceOf
<1>11. CASE s = b + 1 /\ f + s = f + b + 1
  <2>1. x = ExecPlace(own, at, B, i) /\ Threads!EntryAt(c, x) = [op |-> "exec", n |-> i, v |-> vx[i]]
    BY <1>2, <1>3, <1>4, <1>5, <1>6, <1>7, <1>11 DEF ExecPlace
  <2> QED BY <2>1 DEF PlaceOf
<1>12. ASSUME NEW k \in 1..a, s = b + 1 + k, f + s = f + b + 1 + k
       PROVE  x = AfterPlace(own, at, B, i, k) /\ Threads!EntryAt(c, x) = Listed(A[i][k])
  BY <1>2, <1>3, <1>4, <1>5, <1>6, <1>7, <1>12 DEF AfterPlace
<1> QED BY <1>7, <1>9, <1>10, <1>11, <1>12 DEF PlaceOf

(* And each of these is a place of the lists. *)
Placed(own, vx, B, A, at, c, i) ==
  /\ \A k \in 1..Len(B[i]) :
       /\ BeforePlace(own, at, i, k) \in Threads!Places(c)
       /\ Threads!EntryAt(c, BeforePlace(own, at, i, k)) = Listed(B[i][k])
  /\ ExecPlace(own, at, B, i) \in Threads!Places(c)
  /\ Threads!EntryAt(c, ExecPlace(own, at, B, i)) = [op |-> "exec", n |-> i, v |-> vx[i]]
  /\ \A k \in 1..Len(A[i]) :
       /\ AfterPlace(own, at, B, i, k) \in Threads!Places(c)
       /\ Threads!EntryAt(c, AfterPlace(own, at, B, i, k)) = Listed(A[i][k])

(* Every call and every instruction has its place. *)
LEMMA PlacesThere ==
  ASSUME NEW N \in Nat, NEW M, NEW own, NEW vx, NEW B, NEW A, NEW at, NEW list, NEW c,
         Lists(N, M, own, B, A, at, list), Layout(M, own, vx, B, A, at, list), c.list = list,
         NEW i \in M
  PROVE  Placed(own, vx, B, A, at, c, i)
<1>1. PICK p \in Partitions : p = own[i]
  BY ListNumbers
<1>2. PICK b, a, f, l \in Nat : b = Len(B[i]) /\ a = Len(A[i]) /\ f = at[i] /\ l = Len(list[p])
  BY ListNumbers
<1>3. /\ \A k \in 1..Len(B[i]) : list[p][at[i] + k] = Listed(B[i][k])
      /\ list[p][at[i] + Len(B[i]) + 1] = [op |-> "exec", n |-> i, v |-> vx[i]]
      /\ \A k \in 1..Len(A[i]) : list[p][at[i] + Len(B[i]) + 1 + k] = Listed(A[i][k])
  BY <1>1 DEF Layout
<1>4. f + (b + 1 + a) <= l
  BY <1>1, <1>2 DEF Layout, Width
<1>5. ASSUME NEW m \in 1..l PROVE <<p, m>> \in Threads!Places(c) /\ Threads!EntryAt(c, <<p, m>>) = list[p][m]
  <2>1. m \in DOMAIN list[p]
    BY <1>2, ListNumbers
  <2>2. <<p, m>> \in {p} \X DOMAIN list[p]
    BY <2>1
  <2> QED BY <2>2 DEF Threads!Places, Threads!EntryAt
<1>6. ASSUME NEW k \in 1..b PROVE f + k \in 1..l
  BY <1>4
<1>7. f + b + 1 \in 1..l
  BY <1>4
<1>8. ASSUME NEW k \in 1..a PROVE f + b + 1 + k \in 1..l
  BY <1>4
<1>9. ASSUME NEW k \in 1..Len(B[i])
      PROVE  /\ BeforePlace(own, at, i, k) \in Threads!Places(c)
             /\ Threads!EntryAt(c, BeforePlace(own, at, i, k)) = Listed(B[i][k])
  BY <1>1, <1>2, <1>3, <1>5, <1>6 DEF BeforePlace
<1>10. /\ ExecPlace(own, at, B, i) \in Threads!Places(c)
       /\ Threads!EntryAt(c, ExecPlace(own, at, B, i)) = [op |-> "exec", n |-> i, v |-> vx[i]]
  BY <1>1, <1>2, <1>3, <1>5, <1>7 DEF ExecPlace
<1>11. ASSUME NEW k \in 1..Len(A[i])
       PROVE  /\ AfterPlace(own, at, B, i, k) \in Threads!Places(c)
              /\ Threads!EntryAt(c, AfterPlace(own, at, B, i, k)) = Listed(A[i][k])
  BY <1>1, <1>2, <1>3, <1>5, <1>8 DEF AfterPlace
<1> QED BY <1>9, <1>10, <1>11 DEF Placed

(* What the calls are: receives stand before the instruction they are for, *)
(* sends behind it, in its thread and vertex.                              *)
CallsRight(N, M, own, vx, B, A) ==
  /\ \A i \in 1..N : \A k \in DOMAIN B[i] :
       /\ i \in M /\ B[i][k].op \in {"get", "wait"} /\ B[i][k].v = vx[i]
       /\ B[i][k].of \in M /\ own[B[i][k].of] = own[i] /\ i <= B[i][k].of
  /\ \A i \in 1..N : \A k \in DOMAIN A[i] :
       /\ i \in M /\ A[i][k].op \in {"put", "post"} /\ A[i][k].v = vx[i]
       /\ A[i][k].of \in M /\ own[A[i][k].of] = own[i] /\ A[i][k].of <= i
KindOf(M, own, vx, B, A, at, c, x) ==
  /\ Threads!IsExec(Threads!EntryAt(c, x)) =>
       \E i \in M : x = ExecPlace(own, at, B, i) /\ Threads!EntryAt(c, x).n = i
  /\ Threads!IsReceive(Threads!EntryAt(c, x)) =>
       \E i \in M : \E k \in 1..Len(B[i]) :
         x = BeforePlace(own, at, i, k) /\ Threads!EntryAt(c, x) = Listed(B[i][k])
  /\ Threads!IsSend(Threads!EntryAt(c, x)) =>
       \E i \in M : \E k \in 1..Len(A[i]) :
         x = AfterPlace(own, at, B, i, k) /\ Threads!EntryAt(c, x) = Listed(A[i][k])
  /\ \E i \in M : /\ own[i] = x[1] /\ Threads!EntryAt(c, x).v = vx[i]
                  /\ at[i] < x[2] /\ x[2] <= at[i] + Width(B, A, i)

(* What an entry does says where it stands. *)
LEMMA PlaceKinds ==
  ASSUME NEW N \in Nat, NEW M, NEW own, NEW vx, NEW B, NEW A, NEW at, NEW list, NEW c,
         Lists(N, M, own, B, A, at, list), Layout(M, own, vx, B, A, at, list), c.list = list,
         CallsRight(N, M, own, vx, B, A), NEW x \in Threads!Places(c)
  PROVE  KindOf(M, own, vx, B, A, at, c, x)
<1>1. PICK i \in M :
           \/ \E k \in 1..Len(B[i]) : /\ x = BeforePlace(own, at, i, k)
                                      /\ Threads!EntryAt(c, x) = Listed(B[i][k])
           \/ /\ x = ExecPlace(own, at, B, i)
              /\ Threads!EntryAt(c, x) = [op |-> "exec", n |-> i, v |-> vx[i]]
           \/ \E k \in 1..Len(A[i]) : /\ x = AfterPlace(own, at, B, i, k)
                                      /\ Threads!EntryAt(c, x) = Listed(A[i][k])
  <2>1. \E i \in M : PlaceOf(own, vx, B, A, at, c, x, i)
    BY PlaceCases
  <2> QED BY <2>1 DEF PlaceOf
<1>2. PICK b, a, f \in Nat : b = Len(B[i]) /\ a = Len(A[i]) /\ f = at[i]
  BY ListNumbers
<1>3. i \in 1..N /\ DOMAIN B[i] = 1..b /\ DOMAIN A[i] = 1..a
  <2>1. i \in 1..N
    BY ListNumbers
  <2>2. DOMAIN B[i] = 1..Len(B[i]) /\ DOMAIN A[i] = 1..Len(A[i])
    BY <2>1, ListNumbers
  <2> QED BY <1>2, <2>1, <2>2
<1>w. Width(B, A, i) = b + 1 + a
  BY <1>2 DEF Width
<1> DEFINE e == Threads!EntryAt(c, x)
<1>4. ASSUME NEW k \in 1..Len(B[i]), x = BeforePlace(own, at, i, k), e = Listed(B[i][k])
      PROVE  /\ e.op \in {"get", "wait"} /\ e.v = vx[i] /\ own[i] = x[1]
             /\ at[i] < x[2] /\ x[2] <= at[i] + Width(B, A, i)
  <2>1. B[i][k].op \in {"get", "wait"} /\ B[i][k].v = vx[i]
    BY <1>2, <1>3 DEF CallsRight
  <2>2. e.op = B[i][k].op /\ e.v = B[i][k].v
    BY <1>4 DEF Listed
  <2>3. x[1] = own[i] /\ x[2] = f + k
    BY <1>2, <1>4 DEF BeforePlace
  <2>4. k \in 1..b
    BY <1>2
  <2>5. f < f + k /\ f + k <= f + (b + 1 + a)
    BY <2>4
  <2> HIDE DEF e
  <2> QED BY <1>2, <1>w, <2>1, <2>2, <2>3, <2>5
<1>5. ASSUME x = ExecPlace(own, at, B, i), e = [op |-> "exec", n |-> i, v |-> vx[i]]
      PROVE  /\ e.op = "exec" /\ e.n = i /\ e.v = vx[i] /\ own[i] = x[1]
             /\ at[i] < x[2] /\ x[2] <= at[i] + Width(B, A, i)
  <2>1. x[1] = own[i] /\ x[2] = f + b + 1
    BY <1>2, <1>5 DEF ExecPlace
  <2>2. f < f + b + 1 /\ f + b + 1 <= f + (b + 1 + a)
    OBVIOUS
  <2> HIDE DEF e
  <2> QED BY <1>2, <1>5, <1>w, <2>1, <2>2
<1>6. ASSUME NEW k \in 1..Len(A[i]), x = AfterPlace(own, at, B, i, k), e = Listed(A[i][k])
      PROVE  /\ e.op \in {"put", "post"} /\ e.v = vx[i] /\ own[i] = x[1]
             /\ at[i] < x[2] /\ x[2] <= at[i] + Width(B, A, i)
  <2>1. A[i][k].op \in {"put", "post"} /\ A[i][k].v = vx[i]
    BY <1>2, <1>3 DEF CallsRight
  <2>2. e.op = A[i][k].op /\ e.v = A[i][k].v
    BY <1>6 DEF Listed
  <2>3. x[1] = own[i] /\ x[2] = f + b + 1 + k
    BY <1>2, <1>6 DEF AfterPlace
  <2>4. k \in 1..a
    BY <1>2
  <2>5. f < f + b + 1 + k /\ f + b + 1 + k <= f + (b + 1 + a)
    BY <2>4
  <2> HIDE DEF e
  <2> QED BY <1>2, <1>w, <2>1, <2>2, <2>3, <2>5
<1> HIDE DEF e
<1>7. CASE \E k \in 1..Len(B[i]) : x = BeforePlace(own, at, i, k) /\ e = Listed(B[i][k])
  <2>1. PICK k \in 1..Len(B[i]) : x = BeforePlace(own, at, i, k) /\ e = Listed(B[i][k])
    BY <1>7
  <2>2. /\ e.op \in {"get", "wait"} /\ e.v = vx[i] /\ own[i] = x[1]
        /\ at[i] < x[2] /\ x[2] <= at[i] + Width(B, A, i)
    BY <1>4, <2>1
  <2>3. ~ Threads!IsExec(e) /\ ~ Threads!IsSend(e)
    BY <2>2 DEF Threads!IsExec, Threads!IsSend
  <2> QED BY <2>1, <2>2, <2>3 DEF e, KindOf
<1>8. CASE x = ExecPlace(own, at, B, i) /\ e = [op |-> "exec", n |-> i, v |-> vx[i]]
  <2>2. /\ e.op = "exec" /\ e.n = i /\ e.v = vx[i] /\ own[i] = x[1]
        /\ at[i] < x[2] /\ x[2] <= at[i] + Width(B, A, i)
    BY <1>5, <1>8
  <2>3. ~ Threads!IsReceive(e) /\ ~ Threads!IsSend(e)
    BY <2>2 DEF Threads!IsReceive, Threads!IsSend
  <2> QED BY <1>8, <2>2, <2>3 DEF e, KindOf
<1>9. CASE \E k \in 1..Len(A[i]) : x = AfterPlace(own, at, B, i, k) /\ e = Listed(A[i][k])
  <2>1. PICK k \in 1..Len(A[i]) : x = AfterPlace(own, at, B, i, k) /\ e = Listed(A[i][k])
    BY <1>9
  <2>2. /\ e.op \in {"put", "post"} /\ e.v = vx[i] /\ own[i] = x[1]
        /\ at[i] < x[2] /\ x[2] <= at[i] + Width(B, A, i)
    BY <1>6, <2>1
  <2>3. ~ Threads!IsExec(e) /\ ~ Threads!IsReceive(e)
    BY <2>2 DEF Threads!IsExec, Threads!IsReceive
  <2> QED BY <2>1, <2>2, <2>3 DEF e, KindOf
<1> QED BY <1>1, <1>7, <1>8, <1>9 DEF e

(* The channel of a call, in the model of the threads and here. *)
LEMMA SameChannelListed ==
  ASSUME NEW d \in InsertedCall, NEW e \in InsertedCall
  PROVE  Threads!Channel(Listed(d)) = Threads!Channel(Listed(e)) <=> SameChannel(d, e)
<1>1. Listed(d).op = d.op /\ Listed(d).n = d.n /\ Listed(e).op = e.op /\ Listed(e).n = e.n
  BY DEF Listed
<1>2. d.op \in {"get", "put", "wait", "post"} /\ e.op \in {"get", "put", "wait", "post"}
  BY DEF InsertedCall
<1>3. /\ Threads!Channel(Listed(d)) = <<IF d.op \in {"get", "put"} THEN "mbox" ELSE "sem", d.n>>
      /\ Threads!Channel(Listed(e)) = <<IF e.op \in {"get", "put"} THEN "mbox" ELSE "sem", e.n>>
  BY <1>1 DEF Threads!Channel
<1> QED BY <1>2, <1>3 DEF SameChannel

(* The dependencies lead forward, and those between threads are bridged. *)
DepsBridged(N, M, own, B, A, deps) ==
  \A o, t \in M : <<o, t>> \in deps => o < t /\ (own[o] # own[t] => BridgedBy(N, B, A, t, o))
Ascends(M, vx) == \A i, j \in M : vx[i] \in Nat /\ (i <= j => vx[i] <= vx[j])

(* Lists that are laid out like this meet the contract of PartitionThreads. *)
LEMMA CodeWellFormed ==
  ASSUME NEW N \in Nat, NEW M, NEW own, NEW vx, NEW B, NEW A, NEW at, NEW list, NEW c,
         Lists(N, M, own, B, A, at, list), Layout(M, own, vx, B, A, at, list), c.list = list,
         CallsRight(N, M, own, vx, B, A), CallsOnce(N, B), CallsOnce(N, A), PairsMatched(N, B, A),
         Ascends(M, vx), DepsBridged(N, M, own, B, A, c.deps)
  PROVE  Threads!WellFormed(c)
<1> DEFINE Pl == Threads!Places(c)
           E(x) == Threads!EntryAt(c, x)
<1>1. \A x \in Pl : KindOf(M, own, vx, B, A, at, c, x)
  BY PlaceKinds
<1>2. /\ \A i \in M : i \in 1..N /\ i \in Nat /\ own[i] \in Partitions
      /\ \A i \in 1..N : /\ Len(B[i]) \in Nat /\ Len(A[i]) \in Nat /\ at[i] \in Nat
                         /\ DOMAIN B[i] = 1..Len(B[i]) /\ DOMAIN A[i] = 1..Len(A[i])
                         /\ \A k \in 1..Len(B[i]) : B[i][k] \in InsertedCall
                         /\ \A k \in 1..Len(A[i]) : A[i][k] \in InsertedCall
      /\ \A p \in Partitions : Len(list[p]) \in Nat /\ DOMAIN list[p] = 1..Len(list[p])
  BY ListNumbers
<1>3. ASSUME NEW i \in M
      PROVE  /\ \A k \in 1..Len(B[i]) : BeforePlace(own, at, i, k) \in Pl /\ E(BeforePlace(own, at, i, k)) = Listed(B[i][k])
             /\ \A k \in 1..Len(A[i]) : AfterPlace(own, at, B, i, k) \in Pl /\ E(AfterPlace(own, at, B, i, k)) = Listed(A[i][k])
  <2>1. Placed(own, vx, B, A, at, c, i)
    BY PlacesThere
  <2> QED BY <2>1 DEF Placed
<1>4. ASSUME NEW x \in Pl
      PROVE  /\ Threads!IsExec(E(x)) => \E i \in M : x = ExecPlace(own, at, B, i) /\ E(x).n = i
             /\ Threads!IsReceive(E(x)) =>
                  \E i \in M : \E k \in 1..Len(B[i]) : x = BeforePlace(own, at, i, k) /\ E(x) = Listed(B[i][k])
             /\ Threads!IsSend(E(x)) =>
                  \E i \in M : \E k \in 1..Len(A[i]) : x = AfterPlace(own, at, B, i, k) /\ E(x) = Listed(A[i][k])
             /\ \E i \in M : /\ own[i] = x[1] /\ E(x).v = vx[i]
                             /\ at[i] < x[2] /\ x[2] <= at[i] + Width(B, A, i)
  BY <1>1 DEF KindOf
<1> HIDE DEF Pl, E
<1>5. \A i \in M : \A k \in 1..Len(B[i]) : Threads!IsReceive(Listed(B[i][k]))
  BY <1>2 DEF CallsRight, Listed, Threads!IsReceive
<1>6. \A i \in M : \A k \in 1..Len(A[i]) : Threads!IsSend(Listed(A[i][k]))
  BY <1>2 DEF CallsRight, Listed, Threads!IsSend
<1>7. Threads!SingleUse(c)
  <2>1. ASSUME NEW x \in Pl, NEW y \in Pl, Threads!IsExec(E(x)), Threads!IsExec(E(y)), E(x).n = E(y).n
        PROVE  x = y
    BY <1>4, <2>1
  <2>2. ASSUME NEW x \in Pl, NEW y \in Pl, Threads!IsSend(E(x)), Threads!IsSend(E(y)),
               Threads!Channel(E(x)) = Threads!Channel(E(y))
        PROVE  x = y
    <3>1. PICK i \in M : \E k \in 1..Len(A[i]) : x = AfterPlace(own, at, B, i, k) /\ E(x) = Listed(A[i][k])
      BY <1>4, <2>2
    <3>2. PICK k \in 1..Len(A[i]) : x = AfterPlace(own, at, B, i, k) /\ E(x) = Listed(A[i][k])
      BY <3>1
    <3>3. PICK j \in M : \E l \in 1..Len(A[j]) : y = AfterPlace(own, at, B, j, l) /\ E(y) = Listed(A[j][l])
      BY <1>4, <2>2
    <3>4. PICK l \in 1..Len(A[j]) : y = AfterPlace(own, at, B, j, l) /\ E(y) = Listed(A[j][l])
      BY <3>3
    <3>5. SameChannel(A[i][k], A[j][l])
      BY <1>2, <2>2, <3>2, <3>4, SameChannelListed
    <3>6. i = j /\ k = l
      BY <1>2, <3>2, <3>4, <3>5 DEF CallsOnce
    <3> QED BY <3>2, <3>4, <3>6
  <2>3. ASSUME NEW x \in Pl, NEW y \in Pl, Threads!IsReceive(E(x)), Threads!IsReceive(E(y)),
               Threads!Channel(E(x)) = Threads!Channel(E(y))
        PROVE  x = y
    <3>1. PICK i \in M : \E k \in 1..Len(B[i]) : x = BeforePlace(own, at, i, k) /\ E(x) = Listed(B[i][k])
      BY <1>4, <2>3
    <3>2. PICK k \in 1..Len(B[i]) : x = BeforePlace(own, at, i, k) /\ E(x) = Listed(B[i][k])
      BY <3>1
    <3>3. PICK j \in M : \E l \in 1..Len(B[j]) : y = BeforePlace(own, at, j, l) /\ E(y) = Listed(B[j][l])
      BY <1>4, <2>3
    <3>4. PICK l \in 1..Len(B[j]) : y = BeforePlace(own, at, j, l) /\ E(y) = Listed(B[j][l])
      BY <3>3
    <3>5. SameChannel(B[i][k], B[j][l])
      BY <1>2, <2>3, <3>2, <3>4, SameChannelListed
    <3>6. i = j /\ k = l
      BY <1>2, <3>2, <3>4, <3>5 DEF CallsOnce
    <3> QED BY <3>2, <3>4, <3>6
  <2> QED BY <2>1, <2>2, <2>3 DEF Threads!SingleUse, Pl, E
<1>8. Threads!Matched(c)
  <2>1. ASSUME NEW x \in Pl, Threads!IsSend(E(x))
        PROVE  \E y \in Pl : Threads!IsReceive(E(y)) /\ Threads!Channel(E(y)) = Threads!Channel(E(x))
    <3>1. PICK j \in M : \E l \in 1..Len(A[j]) : x = AfterPlace(own, at, B, j, l) /\ E(x) = Listed(A[j][l])
      BY <1>4, <2>1
    <3>2. PICK l \in 1..Len(A[j]) : x = AfterPlace(own, at, B, j, l) /\ E(x) = Listed(A[j][l])
      BY <3>1
    <3>3. PICK i \in 1..N : \E k \in DOMAIN B[i] : SameChannel(A[j][l], B[i][k])
      <4>1. j \in 1..N /\ l \in DOMAIN A[j]
        BY <1>2
      <4> QED BY <4>1 DEF PairsMatched
    <3>4. PICK k \in DOMAIN B[i] : SameChannel(A[j][l], B[i][k])
      BY <3>3
    <3>5. i \in M /\ k \in 1..Len(B[i])
      BY <1>2, <3>4 DEF CallsRight
    <3>6. PICK y \in Pl : E(y) = Listed(B[i][k])
      BY <1>3, <3>5
    <3>7. Threads!IsReceive(E(y))
      BY <1>5, <3>5, <3>6
    <3>8. Threads!Channel(E(y)) = Threads!Channel(E(x))
      <4>1. A[j][l] \in InsertedCall /\ B[i][k] \in InsertedCall
        BY <1>2, <3>2, <3>5
      <4> QED BY <3>2, <3>4, <3>6, <4>1, SameChannelListed
    <3> QED BY <3>7, <3>8
  <2>2. ASSUME NEW y \in Pl, Threads!IsReceive(E(y))
        PROVE  \E x \in Pl : /\ Threads!IsSend(E(x)) /\ Threads!Channel(E(y)) = Threads!Channel(E(x))
                             /\ E(x).v < E(y).v
    <3>1. PICK i \in M : \E k \in 1..Len(B[i]) : y = BeforePlace(own, at, i, k) /\ E(y) = Listed(B[i][k])
      BY <1>4, <2>2
    <3>2. PICK k \in 1..Len(B[i]) : y = BeforePlace(own, at, i, k) /\ E(y) = Listed(B[i][k])
      BY <3>1
    <3>3. PICK j \in 1..N : \E l \in DOMAIN A[j] : SameChannel(A[j][l], B[i][k]) /\ A[j][l].v < B[i][k].v
      BY <1>2, <3>2 DEF PairsMatched
    <3>4. PICK l \in DOMAIN A[j] : SameChannel(A[j][l], B[i][k]) /\ A[j][l].v < B[i][k].v
      BY <3>3
    <3>5. j \in M /\ l \in 1..Len(A[j])
      BY <1>2, <3>4 DEF CallsRight
    <3>6. PICK x \in Pl : E(x) = Listed(A[j][l])
      BY <1>3, <3>5
    <3>7. Threads!IsSend(E(x))
      BY <1>6, <3>5, <3>6
    <3>8. Threads!Channel(E(y)) = Threads!Channel(E(x))
      <4>1. A[j][l] \in InsertedCall /\ B[i][k] \in InsertedCall
        BY <1>2, <3>2, <3>5
      <4> QED BY <3>2, <3>4, <3>6, <4>1, SameChannelListed
    <3>9. E(x).v < E(y).v
      <4>1. E(x).v = A[j][l].v /\ E(y).v = B[i][k].v
        BY <3>2, <3>6 DEF Listed
      <4> QED BY <3>4, <4>1
    <3> QED BY <3>7, <3>8, <3>9
  <2> QED BY <2>1, <2>2 DEF Threads!Matched, Pl, E
<1>9. Threads!VertexOrder(c)
  <2> SUFFICES ASSUME NEW p \in Partitions, NEW a \in DOMAIN list[p], NEW b \in DOMAIN list[p], a <= b
               PROVE  list[p][a].v <= list[p][b].v
    BY DEF Threads!VertexOrder
  <2>1. /\ <<p, a>> \in Pl /\ <<p, b>> \in Pl
        /\ E(<<p, a>>) = list[p][a] /\ E(<<p, b>>) = list[p][b]
    BY DEF Pl, E, Threads!Places, Threads!EntryAt
  <2>2. PICK i \in M : own[i] = p /\ list[p][a].v = vx[i] /\ at[i] < a /\ a <= at[i] + Width(B, A, i)
    <3>1. \E i \in M : /\ own[i] = <<p, a>>[1] /\ E(<<p, a>>).v = vx[i]
                       /\ at[i] < <<p, a>>[2] /\ <<p, a>>[2] <= at[i] + Width(B, A, i)
      BY <1>4, <2>1
    <3> QED BY <2>1, <3>1
  <2>3. PICK j \in M : own[j] = p /\ list[p][b].v = vx[j] /\ at[j] < b /\ b <= at[j] + Width(B, A, j)
    <3>1. \E j \in M : /\ own[j] = <<p, b>>[1] /\ E(<<p, b>>).v = vx[j]
                       /\ at[j] < <<p, b>>[2] /\ <<p, b>>[2] <= at[j] + Width(B, A, j)
      BY <1>4, <2>1
    <3> QED BY <2>1, <3>1
  <2>4. i <= j
    <3> SUFFICES ASSUME j < i PROVE FALSE
      BY <1>2
    <3>1. at[j] + Width(B, A, j) <= at[i]
      BY <2>2, <2>3 DEF Layout
    <3>2. PICK f, g, w \in Nat : f = at[i] /\ g = at[j] /\ w = Width(B, A, j)
      <4>1. PICK m, n \in Nat : m = Len(B[j]) /\ n = Len(A[j])
        BY <1>2
      <4>2. m + 1 + n \in Nat
        OBVIOUS
      <4> QED BY <1>2, <4>1, <4>2 DEF Width
    <3>3. a \in Nat /\ b \in Nat
      <4>1. PICK m \in Nat : DOMAIN list[p] = 1..m
        BY <1>2
      <4> QED BY <4>1
    <3>4. g + w <= f /\ f < a /\ b <= g + w
      BY <2>2, <2>3, <3>1, <3>2
    <3> QED BY <3>2, <3>3, <3>4
  <2> QED BY <2>2, <2>3, <2>4 DEF Ascends
<1>10. Threads!Bridged(c)
  <2> SUFFICES ASSUME NEW x \in Pl, NEW y \in Pl, Threads!IsExec(E(x)), Threads!IsExec(E(y)),
                      <<E(x).n, E(y).n>> \in c.deps
               PROVE  \/ x[1] = y[1] /\ x[2] < y[2]
                      \/ \E s, r \in Pl :
                           /\ s[1] = x[1] /\ x[2] < s[2] /\ Threads!IsSend(E(s))
                           /\ r[1] = y[1] /\ r[2] < y[2] /\ Threads!IsReceive(E(r))
                           /\ Threads!Channel(E(s)) = Threads!Channel(E(r))
    BY DEF Threads!Bridged, Pl, E
  <2>1. PICK o \in M : x = ExecPlace(own, at, B, o) /\ E(x).n = o
    BY <1>4
  <2>2. PICK t \in M : y = ExecPlace(own, at, B, t) /\ E(y).n = t
    BY <1>4
  <2>3. o < t /\ (own[o] # own[t] => BridgedBy(N, B, A, t, o))
    BY <2>1, <2>2 DEF DepsBridged
  <2>4. x[1] = own[o] /\ x[2] = at[o] + Len(B[o]) + 1 /\ y[1] = own[t] /\ y[2] = at[t] + Len(B[t]) + 1
    BY <2>1, <2>2 DEF ExecPlace
  <2>6. CASE own[o] = own[t]
    <3>1. PICK f, g, m, n, h \in Nat :
            f = at[o] /\ g = at[t] /\ m = Len(B[o]) /\ n = Len(B[t]) /\ h = Len(A[o])
      BY <1>2
    <3>2. f + (m + 1 + h) <= g
      BY <2>3, <2>6, <3>1 DEF Layout, Width
    <3>3. f + m + 1 < g + n + 1
      BY <3>2
    <3> QED BY <2>4, <2>6, <3>1, <3>3
  <2>7. CASE own[o] # own[t]
    <3>1. PICK i, j \in 1..N : \E k \in DOMAIN B[i] : \E l \in DOMAIN A[j] :
            B[i][k].of = t /\ A[j][l].of = o /\ SameChannel(A[j][l], B[i][k])
      BY <2>3, <2>7 DEF BridgedBy
    <3>2. PICK k \in DOMAIN B[i], l \in DOMAIN A[j] :
            B[i][k].of = t /\ A[j][l].of = o /\ SameChannel(A[j][l], B[i][k])
      BY <3>1
    <3>3. i \in M /\ own[t] = own[i] /\ i <= t /\ j \in M /\ own[o] = own[j] /\ o <= j
      BY <3>2 DEF CallsRight
    <3>4. k \in 1..Len(B[i]) /\ l \in 1..Len(A[j])
      BY <1>2, <3>2
    <3>5. PICK r \in Pl : r = BeforePlace(own, at, i, k) /\ E(r) = Listed(B[i][k])
      BY <1>3, <3>3, <3>4
    <3>6. PICK s \in Pl : s = AfterPlace(own, at, B, j, l) /\ E(s) = Listed(A[j][l])
      BY <1>3, <3>3, <3>4
    <3>7. Threads!IsReceive(E(r)) /\ Threads!IsSend(E(s))
      BY <1>5, <1>6, <3>3, <3>4, <3>5, <3>6
    <3>8. Threads!Channel(E(s)) = Threads!Channel(E(r))
      <4>1. A[j][l] \in InsertedCall /\ B[i][k] \in InsertedCall
        BY <1>2, <3>4
      <4> QED BY <3>2, <3>5, <3>6, <4>1, SameChannelListed
    <3>9. r[1] = own[i] /\ r[2] = at[i] + k /\ s[1] = own[j] /\ s[2] = at[j] + Len(B[j]) + 1 + l
      BY <3>5, <3>6 DEF BeforePlace, AfterPlace
    <3>10. r[2] < y[2]
      <4>0. PICK f, g, m, n \in Nat : f = at[i] /\ g = at[t] /\ m = Len(B[i]) /\ n = Len(B[t])
        BY <1>2, <3>3
      <4>1. CASE i = t
        <5>1. f = g /\ m = n /\ k \in 1..m
          BY <3>4, <4>0, <4>1
        <5>2. f + k < g + n + 1
          BY <5>1
        <5> QED BY <2>4, <3>9, <4>0, <5>2
      <4>2. CASE i < t
        <5>1. PICK h \in Nat : h = Len(A[i])
          BY <1>2
        <5>2. f + (m + 1 + h) <= g
          BY <3>3, <4>0, <4>2, <5>1 DEF Layout, Width
        <5>3. k \in 1..m
          BY <3>4, <4>0
        <5>4. f + k < g + n + 1
          BY <5>2, <5>3
        <5> QED BY <2>4, <3>9, <4>0, <5>4
      <4> QED BY <1>2, <3>3, <4>1, <4>2
    <3>11. x[2] < s[2]
      <4>0. PICK f, g, m, n, h \in Nat :
              f = at[o] /\ g = at[j] /\ m = Len(B[o]) /\ n = Len(B[j]) /\ h = Len(A[o])
        BY <1>2, <3>3
      <4>1. CASE o = j
        <5>1. f = g /\ m = n /\ l \in 1..h
          BY <3>4, <4>0, <4>1
        <5>2. f + m + 1 < g + n + 1 + l
          BY <5>1
        <5> QED BY <2>4, <3>9, <4>0, <5>2
      <4>2. CASE o < j
        <5>1. f + (m + 1 + h) <= g
          BY <3>3, <4>0, <4>2 DEF Layout, Width
        <5>2. PICK q \in Nat : q = Len(A[j])
          BY <1>2
        <5>3. l \in 1..q
          BY <3>4, <5>2
        <5>4. f + m + 1 < g + n + 1 + l
          BY <5>1, <5>3
        <5> QED BY <2>4, <3>9, <4>0, <5>4
      <4> QED BY <1>2, <3>3, <4>1, <4>2
    <3> QED BY <2>4, <3>3, <3>7, <3>8, <3>9, <3>10, <3>11
  <2> QED BY <2>6, <2>7
<1>11. c.list \in [Partitions -> Seq(Threads!Entry)]
  BY DEF Lists
<1> QED BY <1>7, <1>8, <1>9, <1>10, <1>11 DEF Threads!WellFormed
-----------------------------------------------------------------------------
(* The generated code meets the contract of PartitionThreads. *)

(* The threads run what savePartitioning collected. *)
CodeRight ==
  phase = "run" =>
    code = [list |-> [p \in Partitions |-> PartitionCode(p)], deps |-> RequiredOrder]

(* The instructions behind the parameters, their threads and vertices. *)
Behind == {i \in 1..Len(func) : vertexOf(i) # 0}
Owner == [i \in Behind |-> part[vertexOf(i)]]
VertexIndex == [i \in 1..Len(func) |-> vertexOf(i)]

(* When the threads run, their lists have this layout. *)
LEMMA RunLayout ==
  ASSUME GraphInv, AllSupported, CallsInv, CodeRight, phase = "run"
  PROVE  \E at : /\ Lists(Len(func), Behind, Owner, before, after, at, code.list)
                 /\ Layout(Behind, Owner, VertexIndex, before, after, at, code.list)
<1>1. PICK N \in Nat : N = Len(func)
  BY GraphNumbers
<1>2. before \in [1..N -> Seq(InsertedCall)] /\ after \in [1..N -> Seq(InsertedCall)]
      /\ part \in [DOMAIN vertices -> Partitions]
  BY <1>1 DEF CallsInv, CallsTyped
<1>3. PICK B \in [1..N -> Seq(InsertedCall)] : B = before
  BY <1>2
<1>4. PICK A \in [1..N -> Seq(InsertedCall)] : A = after
  BY <1>2
<1>5. PICK vx : vx = VertexIndex
  OBVIOUS
<1>6. \A i \in 1..N : vx[i] = vertexOf(i) /\ vertexOf(i) \in Nat /\ (vertexOf(i) # 0 => vertexOf(i) \in DOMAIN vertices)
  <2>1. \A i \in 1..N : vertexOf(i) \in Nat /\ (vertexOf(i) # 0 => vertexOf(i) \in DOMAIN vertices)
    <3> TAKE i \in 1..N
    <3>1. i \in Nat
      OBVIOUS
    <3> QED BY <3>1, VertexFacts DEF vertexOf
  <2> QED BY <1>1, <1>5, <2>1 DEF VertexIndex
<1>7. PICK M \in SUBSET (1..N) : M = Behind
  BY <1>1 DEF Behind
<1>8. \A i \in M : i \in 1..N /\ vertexOf(i) # 0
  BY <1>7 DEF Behind
<1>9. PICK own \in [M -> Partitions] : own = Owner /\ \A i \in M : own[i] = part[vertexOf(i)]
  <2>1. \A i \in M : part[vertexOf(i)] \in Partitions
    BY <1>2, <1>6, <1>8
  <2>2. Owner = [i \in M |-> part[vertexOf(i)]]
    BY <1>7 DEF Owner
  <2>3. Owner \in [M -> Partitions] /\ \A i \in M : Owner[i] = part[vertexOf(i)]
    BY <2>1, <2>2
  <2> QED BY <2>3
<1>10. PICK ic : ic = InstructionCodes
  OBVIOUS
<1>11. PICK list : list = code.list
  OBVIOUS
<1>12. \A p \in Partitions : list[p] = PartitionCode(p)
  BY <1>11 DEF CodeRight
<1>13. list \in [Partitions -> Seq(Threads!Entry)]
  <2>1. \A p \in Partitions : PartitionCode(p) \in Seq(Threads!Entry)
    BY ListLaid
  <2>2. list = [p \in Partitions |-> PartitionCode(p)]
    BY <1>11 DEF CodeRight
  <2> QED BY <2>1, <2>2
<1>14. AllLaid(N, M, own, ic, list)
  <2> SUFFICES ASSUME NEW p \in Partitions
               PROVE  \E at \in [1..N -> Nat] : Laid(Of(M, own, p), ic, at, list[p])
    BY DEF AllLaid
  <2>1. Of(M, own, p) = Mine(p)
    BY <1>1, <1>7, <1>9 DEF Of, Mine, Behind
  <2>2. \E at \in [1..N -> Nat] : Laid(Mine(p), InstructionCodes, at, PartitionCode(p))
    BY <1>1, ListLaid
  <2> QED BY <1>10, <1>12, <2>1, <2>2
<1>15. Blocks(M, vx, B, A, ic)
  <2> SUFFICES ASSUME NEW i \in M
               PROVE  Around(Calls(B[i]), [op |-> "exec", n |-> i, v |-> vx[i]], Calls(A[i]), ic[i])
    BY DEF Blocks
  <2>1. PICK b \in Seq(Threads!Entry) : b = Calls(B[i])
    <3>1. Calls(B[i]) \in Seq(Threads!Entry)
      BY CallsFacts
    <3> QED BY <3>1
  <2>2. PICK a \in Seq(Threads!Entry) : a = Calls(A[i])
    <3>1. Calls(A[i]) \in Seq(Threads!Entry)
      BY CallsFacts
    <3> QED BY <3>1
  <2>3. PICK x \in Threads!Entry : x = [op |-> "exec", n |-> i, v |-> vx[i]]
    <3>1. vx[i] \in Nat /\ i \in Nat
      BY <1>6
    <3>2. [op |-> "exec", n |-> i, v |-> vx[i]] \in Threads!Entry
      BY <3>1 DEF Threads!Entry
    <3> QED BY <3>2
  <2>4. Around(b, x, a, b \o <<x>> \o a)
    BY AroundFacts
  <2>5. ic[i] = b \o <<x>> \o a
    <3>1. ic[i] = InstructionCode(i, vertexOf(i))
      BY <1>1, <1>8, <1>10 DEF InstructionCodes
    <3>2. InstructionCode(i, vertexOf(i)) = Calls(B[i]) \o <<[op |-> "exec", n |-> i, v |-> vx[i]]>> \o Calls(A[i])
      BY <1>3, <1>4, <1>6, <1>8 DEF InstructionCode
    <3> QED BY <2>1, <2>2, <2>3, <3>1, <3>2
  <2> QED BY <2>1, <2>2, <2>3, <2>4, <2>5
<1>16. PICK at \in [1..N -> Nat] : Layout(M, own, vx, B, A, at, list)
  BY <1>14, <1>15, LayoutExists
<1>17. Lists(N, M, own, B, A, at, list)
  BY <1>13 DEF Lists
<1> QED BY <1>1, <1>3, <1>4, <1>5, <1>7, <1>9, <1>11, <1>16, <1>17

(* CallsPlaced as the threads see it. *)
LEMMA CallsRightNow ==
  ASSUME GraphInv, AllSupported, CallsInv, phase = "run"
  PROVE  CallsRight(Len(func), Behind, Owner, VertexIndex, before, after) /\ Ascends(Behind, VertexIndex)
<1>1. PICK N \in Nat : N = Len(func)
  BY GraphNumbers
<1>2. \A i \in 1..N : VertexIndex[i] = vertexOf(i) /\ i \in Nat
  BY <1>1 DEF VertexIndex
<1>3. \A i \in Behind : i \in 1..N /\ vertexOf(i) # 0 /\ Owner[i] = part[vertexOf(i)]
  BY <1>1 DEF Behind, Owner
<1>4. \A i \in 1..N : vertexOf(i) # 0 => i \in Behind /\ vertexOf(i) \in DOMAIN vertices
  <2> TAKE i \in 1..N
  <2>1. i \in Nat
    OBVIOUS
  <2> QED BY <1>1, <2>1, VertexFacts DEF vertexOf, Behind
<1>5. ASSUME NEW i \in 1..N, NEW k \in DOMAIN before[i]
      PROVE  /\ i \in Behind /\ before[i][k].op \in {"get", "wait"} /\ before[i][k].v = VertexIndex[i]
             /\ before[i][k].of \in Behind /\ Owner[before[i][k].of] = Owner[i] /\ i <= before[i][k].of
  <2>1. PICK e : e = before[i][k]
    OBVIOUS
  <2>2. CallBefore(i, e)
    BY <1>1, <2>1 DEF CallsInv, CallsPlaced
  <2>3. /\ e.op \in {"get", "wait"} /\ e.of \in 1..N /\ e.v # 0 /\ e.v = vertexOf(e.of) /\ e.v = vertexOf(i)
        /\ i = Head(vertices[e.v]) \/ i = e.of
    BY <1>1, <2>2 DEF CallBefore
  <2>4. PICK v \in DOMAIN vertices : v = e.v
    BY <1>4, <2>3
  <2>5. Head(vertices[v]) <= e.of /\ e.of <= e.of
    <3>1. PICK j \in Nat : j = e.of
      BY <2>3
    <3>2. vertexOf(j) = v
      BY <2>3, <2>4, <3>1
    <3>3. Head(vertices[v]) <= j
      BY <3>2, VertexEnds
    <3>4. j <= j
      OBVIOUS
    <3> QED BY <3>1, <3>3, <3>4
  <2>6. i <= e.of
    BY <2>3, <2>4, <2>5
  <2> QED BY <1>2, <1>3, <1>4, <2>1, <2>3, <2>6
<1>6. ASSUME NEW i \in 1..N, NEW k \in DOMAIN after[i]
      PROVE  /\ i \in Behind /\ after[i][k].op \in {"put", "post"} /\ after[i][k].v = VertexIndex[i]
             /\ after[i][k].of \in Behind /\ Owner[after[i][k].of] = Owner[i] /\ after[i][k].of <= i
  <2>1. PICK e : e = after[i][k]
    OBVIOUS
  <2>2. CallAfter(i, e)
    BY <1>1, <2>1 DEF CallsInv, CallsPlaced
  <2>3. /\ e.op \in {"put", "post"} /\ e.of \in 1..N /\ e.v # 0 /\ e.v = vertexOf(e.of) /\ e.v = vertexOf(i)
        /\ i = Last(vertices[e.v]) \/ i = e.of
    BY <1>1, <2>2 DEF CallAfter
  <2>4. PICK v \in DOMAIN vertices : v = e.v
    BY <1>4, <2>3
  <2>5. e.of <= Last(vertices[v]) /\ e.of <= e.of
    <3>1. PICK j \in Nat : j = e.of
      BY <2>3
    <3>2. vertexOf(j) = v
      BY <2>3, <2>4, <3>1
    <3>3. j <= Last(vertices[v])
      BY <3>2, VertexEnds
    <3>4. j <= j
      OBVIOUS
    <3> QED BY <3>1, <3>3, <3>4
  <2>6. e.of <= i
    BY <2>3, <2>4, <2>5
  <2> QED BY <1>2, <1>3, <1>4, <2>1, <2>3, <2>6
<1>7. ASSUME NEW i \in Behind, NEW j \in Behind
      PROVE  VertexIndex[i] \in Nat /\ (i <= j => VertexIndex[i] <= VertexIndex[j])
  <2>1. /\ i \in Nat /\ j \in Nat /\ getVertexForInstruction(i) # 0 /\ getVertexForInstruction(j) # 0
        /\ VertexIndex[i] = getVertexForInstruction(i) /\ VertexIndex[j] = getVertexForInstruction(j)
    BY <1>2, <1>3 DEF vertexOf
  <2>2. i \in (Params + 1)..Base /\ j \in (Params + 1)..Base /\ getVertexForInstruction(i) \in Nat
    BY <2>1, VertexFacts
  <2>3. i <= j => getVertexForInstruction(i) <= getVertexForInstruction(j)
    BY <2>2, VertexMonotone
  <2> QED BY <2>1, <2>2, <2>3
<1> QED BY <1>1, <1>5, <1>6, <1>7 DEF CallsRight, Ascends

(* RequiredOrder as the threads see it. *)
LEMMA DepsBridgedNow ==
  ASSUME GraphInv, AllSupported, CallsInv, phase = "run"
  PROVE  DepsBridged(Len(func), Behind, Owner, before, after, RequiredOrder)
<1>1. PICK N \in Nat : N = Len(func) /\ DOMAIN func = 1..N
  BY GraphNumbers
<1>2. SUFFICES ASSUME NEW o \in Behind, NEW t \in Behind, <<o, t>> \in RequiredOrder
               PROVE  o < t /\ (Owner[o] # Owner[t] => BridgedBy(N, before, after, t, o))
  BY <1>1 DEF DepsBridged
<1>3. o \in 1..N /\ t \in 1..N /\ vertexOf(o) # 0 /\ vertexOf(t) # 0
      /\ Owner[o] = part[vertexOf(o)] /\ Owner[t] = part[vertexOf(t)]
  BY <1>1 DEF Behind, Owner
<1>4. PICK dep \in ToSet(dependenciesOf(t)) : (Crosses(t, dep) => CanTransfer(dep)) /\ dep.on = o
  <2>1. PICK i \in 1..N : <<o, t>> \in {<<dd.on, i>> : dd \in {d \in ToSet(dependenciesOf(i)) :
                                     Crosses(i, d) => CanTransfer(d)}}
    BY <1>1, <1>2 DEF RequiredOrder
  <2>2. PICK dd \in ToSet(dependenciesOf(i)) : (Crosses(i, dd) => CanTransfer(dd)) /\ <<o, t>> = <<dd.on, i>>
    BY <2>1
  <2>3. i = t /\ dd.on = o
    BY <2>2
  <2> QED BY <2>2, <2>3
<1>5. dep.on = o
  BY <1>4
<1>6. PICK d \in DOMAIN dependenciesOf(t) : dep = dependenciesOf(t)[d]
  BY <1>4, <1>5 DEF ToSet
<1>7. o < t
  <2>1. dependenciesOf(t)[d].on \in 1..(t - 1)
    BY <1>1, <1>3, DependencyFacts DEF dependenciesOf
  <2> QED BY <1>3, <1>5, <1>6, <2>1
<1>8. ASSUME Owner[o] # Owner[t] PROVE BridgedBy(N, before, after, t, o)
  <2>1. Crosses(t, dep) /\ CanTransfer(dep)
    BY <1>3, <1>4, <1>5, <1>8 DEF Crosses
  <2>2. Handled(t, d)
    BY <1>1, <1>3 DEF CallsInv, CallsTyped, Handled
  <2> QED BY <1>1, <1>3, <1>5, <1>6, <2>1, <2>2 DEF CallsInv, DependenciesBridged
<1> QED BY <1>7, <1>8

(* So the generated code meets the contract of PartitionThreads. *)
LEMMA RunCode ==
  ASSUME GraphInv, AllSupported, CallsInv, CodeRight, phase = "run"
  PROVE  Threads!WellFormed(code)
<1>1. PICK N \in Nat : N = Len(func)
  BY GraphNumbers
<1>2. PICK M, own, vx, B, A : M = Behind /\ own = Owner /\ vx = VertexIndex /\ B = before /\ A = after
  OBVIOUS
<1>3. PICK c : c = code
  OBVIOUS
<1>4. PICK at : Lists(N, M, own, B, A, at, c.list) /\ Layout(M, own, vx, B, A, at, c.list)
  BY <1>1, <1>2, <1>3, RunLayout
<1>5. CallsRight(N, M, own, vx, B, A) /\ Ascends(M, vx)
  BY <1>1, <1>2, CallsRightNow
<1>6. c.deps = RequiredOrder
  BY <1>3 DEF CodeRight
<1>7. DepsBridged(N, M, own, B, A, c.deps)
  BY <1>1, <1>2, <1>6, DepsBridgedNow
<1>8. CallsOnce(N, B) /\ CallsOnce(N, A) /\ PairsMatched(N, B, A)
  BY <1>1, <1>2 DEF CallsInv
<1>9. PICK list : list = c.list
  OBVIOUS
<1>10. Threads!WellFormed(c)
  BY <1>4, <1>5, <1>7, <1>8, <1>9, CodeWellFormed
<1> QED BY <1>3, <1>10

(* What is generated depends on the graph, the partitioning and the calls only. *)
LEMMA SameCode ==
  ASSUME UNCHANGED <<graphVars, part, before, after>>
  PROVE  RequiredOrder' = RequiredOrder /\ \A p : PartitionCode(p)' = PartitionCode(p)
<1>1. func' = func /\ vertices' = vertices /\ part' = part /\ before' = before /\ after' = after
  BY DEF graphVars
<1>2. \A i : vertexOf(i)' = vertexOf(i) /\ dependenciesOf(i)' = dependenciesOf(i)
  BY <1>1, SameGraph DEF dependenciesOf
<1>3. \A i, v : InstructionCode(i, v)' = InstructionCode(i, v)
  BY <1>1 DEF InstructionCode
<1>4. \A v : VertexCode(v)' = VertexCode(v)
  BY <1>1, <1>3 DEF VertexCode
<1>5. \A p : PartitionCode(p)' = PartitionCode(p)
  BY <1>1, <1>4 DEF PartitionCode
<1>6. \A i, d : Crosses(i, d)' = Crosses(i, d) /\ CanTransfer(d)' = CanTransfer(d)
  BY <1>1, <1>2 DEF Crosses, CanTransfer
<1>7. RequiredOrder' = RequiredOrder
  BY <1>1, <1>2, <1>6 DEF RequiredOrder
<1> QED BY <1>5, <1>7

(* A step that keeps the generated code. *)
LEMMA CodeKept ==
  ASSUME CodeRight, UNCHANGED <<graphVars, passVars, code>>
  PROVE  CodeRight'
<1>1. UNCHANGED <<graphVars, part, before, after>> /\ phase' = phase /\ code' = code
  BY DEF passVars
<1>2. RequiredOrder' = RequiredOrder /\ \A p : PartitionCode(p)' = PartitionCode(p)
  BY <1>1, SameCode
<1> QED BY <1>1, <1>2 DEF CodeRight

(* No step changes the generated code once the threads run. *)
LEMMA CodeStep == ASSUME CodeRight, [Next]_vars PROVE CodeRight'
<1>1. CASE SavePartitioning
  <2>1. UNCHANGED <<graphVars, part, before, after>>
    BY <1>1 DEF SavePartitioning
  <2>2. RequiredOrder' = RequiredOrder /\ \A p : PartitionCode(p)' = PartitionCode(p)
    BY <2>1, SameCode
  <2>3. code' = [list |-> [p \in Partitions |-> PartitionCode(p)], deps |-> RequiredOrder]
    BY <1>1 DEF SavePartitioning
  <2> QED BY <2>2, <2>3 DEF CodeRight
<1>2. CASE CreateVertices
  BY <1>2, CodeKept DEF CreateVertices, CodeRight, passVars
<1>3. CASE AssignPartitions \/ SkipDependency \/ BridgeDependency \/ NextTarget
  BY <1>3 DEF AssignPartitions, SkipDependency, BridgeDependency, NextTarget, CodeRight
<1>4. ASSUME NEW p \in Partitions, RunInstruction(p) \/ RunBranch(p) \/ RunCall(p) PROVE CodeRight'
  BY <1>4, CodeKept DEF RunInstruction, RunBranch, RunCall, Threads!Exec, Threads!Get, Threads!Put,
     Threads!SemWait, Threads!SemPost
<1>5. CASE CallAgain
  BY <1>5, CodeKept DEF CallAgain, Threads!ReturnControl
<1>6. CASE UNCHANGED vars
  BY <1>6, CodeKept DEF vars, runVars, threadVars
<1> QED BY <1>1, <1>2, <1>3, <1>4, <1>5, <1>6 DEF Next

(* The calls are where handleDependencies has to put them, and the threads *)

(* run what was collected.                                                 *)
LEMMA CallsAlways == ASSUME AllSupported PROVE Spec => [](GraphInv /\ CallsInv /\ CodeRight)
<1>1. Init => GraphInv /\ CallsInv /\ CodeRight
  BY CallsInitially, GraphInitially DEF Init, CodeRight
<1>2. GraphInv /\ CallsInv /\ CodeRight /\ [Next]_vars => (GraphInv /\ CallsInv /\ CodeRight)'
  <2> SUFFICES ASSUME GraphInv, CallsInv, CodeRight, [Next]_vars PROVE GraphInv' /\ CallsInv' /\ CodeRight'
    OBVIOUS
  <2>1. GraphInv'
    BY GraphStep
  <2> QED BY <2>1, CallsStep, CodeStep
<1> QED BY <1>1, <1>2, PTL DEF Spec

(* Whatever the partitioning method chose, the lists that savePartitioning  *)

(* collects meet the contract of PartitionThreads: GeneratedCodeWellFormed. *)
THEOREM GeneratedCodeMeetsContract == ASSUME AllSupported PROVE Spec => []GeneratedCodeWellFormed
<1>1. GraphInv /\ CallsInv /\ CodeRight => GeneratedCodeWellFormed
  BY RunCode DEF GeneratedCodeWellFormed
<1> QED BY <1>1, CallsAlways, PTL
-----------------------------------------------------------------------------
(* A branch jumps over instructions of its vertex only. *)

(* Between the instructions i and t of a thread there is nothing but *)
(* instructions.                                                     *)
NoCallsBetween(M, own, B, A, i, t) ==
  \A j \in M : own[j] = own[i] =>
    /\ i <= j /\ j < t => Len(A[j]) = 0
    /\ i < j /\ j <= t => Len(B[j]) = 0
ExecPos(B, at, i) == at[i] + Len(B[i]) + 1
JumpsOver(B, at, list, p, i, t) ==
  /\ ExecPos(B, at, i) \in Nat /\ ExecPos(B, at, t) \in Nat
  /\ ExecPos(B, at, i) < ExecPos(B, at, t) /\ ExecPos(B, at, t) <= Len(list[p])
  /\ \A k \in ExecPos(B, at, i)..(ExecPos(B, at, t) - 1) : list[p][k].op = "exec"

(* A jump from i to t passes entries that execute instructions, no calls. *)
LEMMA JumpLaid ==
  ASSUME NEW N \in Nat, NEW M, NEW own, NEW vx, NEW B, NEW A, NEW at, NEW list,
         Lists(N, M, own, B, A, at, list), Layout(M, own, vx, B, A, at, list),
         NEW i \in M, NEW t \in M, own[i] = own[t], i < t, NoCallsBetween(M, own, B, A, i, t)
  PROVE  JumpsOver(B, at, list, own[i], i, t)
<1>1. PICK p \in Partitions : p = own[i] /\ p = own[t]
  BY ListNumbers
<1>2. i \in Nat /\ t \in Nat
  BY ListNumbers
<1>3. PICK bi, ai, fi, bt, aw, ft, l \in Nat :
        /\ bi = Len(B[i]) /\ ai = Len(A[i]) /\ fi = at[i]
        /\ bt = Len(B[t]) /\ aw = Len(A[t]) /\ ft = at[t] /\ l = Len(list[p])
  BY ListNumbers
<1>4. bt = 0 /\ ai = 0
  BY <1>1, <1>2, <1>3 DEF NoCallsBetween
<1>5. fi + (bi + 1 + ai) <= ft /\ ft + (bt + 1 + aw) <= l
  BY <1>1, <1>3 DEF Layout, Width
<1>6. ExecPos(B, at, i) = fi + bi + 1 /\ ExecPos(B, at, t) = ft + 1
  <2>1. ExecPos(B, at, i) = fi + bi + 1 /\ ExecPos(B, at, t) = ft + bt + 1
    BY <1>3 DEF ExecPos
  <2>2. ft + bt + 1 = ft + 1
    BY <1>4
  <2> QED BY <2>1, <2>2
<1>7. fi + bi + 1 < ft + 1 /\ ft + 1 <= l /\ fi + bi + 1 \in Nat /\ ft + 1 \in Nat
  BY <1>4, <1>5
<1>8. ASSUME NEW k \in (fi + bi + 1)..((ft + 1) - 1) PROVE list[p][k].op = "exec"
  <2>1. k \in 1..l
    BY <1>7
  <2>2. PICK j \in M : own[j] = p /\ \E s \in 1..Width(B, A, j) : k = at[j] + s
    BY <1>3, <2>1 DEF Layout
  <2>3. PICK s \in 1..Width(B, A, j) : k = at[j] + s
    BY <2>2
  <2>4. PICK b, a, f \in Nat : b = Len(B[j]) /\ a = Len(A[j]) /\ f = at[j]
    BY ListNumbers
  <2>5. s \in 1..(b + 1 + a) /\ k = f + s /\ j \in Nat
    BY <2>3, <2>4, ListNumbers DEF Width
  <2>6. i <= j
    <3>1. ASSUME j < i PROVE FALSE
      <4>1. f + (b + 1 + a) <= fi
        BY <1>1, <1>3, <2>2, <2>4, <3>1 DEF Layout, Width
      <4> QED BY <2>5, <4>1
    <3> QED BY <1>2, <2>5, <3>1
  <2>7. j < t
    <3>1. ASSUME t < j PROVE FALSE
      <4>1. ft + (bt + 1 + aw) <= f
        BY <1>1, <1>3, <2>2, <2>4, <3>1 DEF Layout, Width
      <4> QED BY <2>5, <4>1
    <3>2. ASSUME t = j PROVE FALSE
      <4>1. f = ft
        BY <1>3, <2>4, <3>2
      <4> QED BY <2>5, <4>1
    <3> QED BY <1>2, <2>5, <3>1, <3>2
  <2>8. a = 0
    BY <1>1, <2>2, <2>4, <2>6, <2>7 DEF NoCallsBetween
  <2>9. s = b + 1
    <3>1. CASE i = j
      <4>1. f = fi /\ b = bi
        BY <1>3, <2>4, <3>1
      <4> QED BY <2>5, <2>8, <4>1
    <3>2. CASE i < j
      <4>1. j <= t
        BY <1>2, <2>5, <2>7
      <4>2. b = 0
        BY <1>1, <2>2, <2>4, <3>2, <4>1 DEF NoCallsBetween
      <4> QED BY <2>5, <2>8, <4>2
    <3> QED BY <1>2, <2>5, <2>6, <3>1, <3>2
  <2>10. list[own[j]][at[j] + Len(B[j]) + 1] = [op |-> "exec", n |-> j, v |-> vx[j]]
    BY DEF Layout
  <2>11. k = f + b + 1
    BY <2>5, <2>9
  <2>12. list[p][k] = [op |-> "exec", n |-> j, v |-> vx[j]]
    BY <2>2, <2>4, <2>10, <2>11
  <2> QED BY <2>12
<1> QED BY <1>1, <1>3, <1>6, <1>7, <1>8 DEF JumpsOver

(* No call stands between a branch and its target. *)
LEMMA NoCallsInBranch ==
  ASSUME GraphInv, AllSupported, CallsInv, phase = "run", NEW i \in Behind, IsBranch(func[i]),
         NEW k \in DOMAIN func[i].succs
  PROVE  /\ func[i].succs[k] \in Behind /\ i < func[i].succs[k]
         /\ Owner[func[i].succs[k]] = Owner[i] /\ before[func[i].succs[k]] = <<>>
         /\ NoCallsBetween(Behind, Owner, before, after, i, func[i].succs[k])
<1>1. PICK N \in Nat : N = Len(func) /\ func \in Functions
  BY GraphNumbers
<1>2. i \in 1..N /\ i \in Nat /\ vertexOf(i) # 0
  BY <1>1 DEF Behind
<1>3. PICK v \in DOMAIN vertices : v = vertexOf(i)
  BY <1>2, VertexFacts DEF vertexOf
<1>4. PICK a, b \in Nat :
           /\ a <= b /\ b <= Base /\ Closed(b)
           /\ a = vertices[v][1] /\ b = vertices[v][Len(vertices[v])]
           /\ Len(vertices[v]) = b - a + 1
           /\ \A j \in Nat : getVertexForInstruction(j) = v <=> j \in a..b
  BY VertexInterval
<1>5. i \in a..b
  BY <1>2, <1>3, <1>4 DEF vertexOf
<1>6. PICK t \in (i + 1)..N : t = func[i].succs[k]
  BY <1>1, <1>2, InstructionFacts
<1>7. t <= b
  <2>1. i \in 1..b
    BY <1>2, <1>5
  <2> QED BY <1>4, <1>6, <2>1 DEF Closed
<1>8. \A j \in i..t : j \in Nat /\ j \in 1..N /\ j \in a..b /\ vertexOf(j) = v
  <2>1. \A j \in i..t : j \in Nat /\ j \in 1..N /\ j \in a..b
    BY <1>2, <1>5, <1>6, <1>7
  <2> QED BY <1>4, <2>1 DEF vertexOf
<1>9. v \in Nat /\ v # 0
  BY VertexEnds
<1>10. \A j \in i..t : j \in Behind /\ Owner[j] = part[v]
  BY <1>1, <1>8, <1>9 DEF Behind, Owner
<1>11. i \in i..t /\ t \in i..t /\ i < t
  BY <1>2, <1>6
<1>12. containsBranch(v)
  <2>1. i - a + 1 \in 1..(b - a + 1) /\ a + ((i - a + 1) - 1) = i
    BY <1>5
  <2>2. vertices \in Seq(Seq(1..Len(func)))
    BY DEF GraphInv, GraphTyped
  <2>3. vertices[v] \in Seq(1..N)
    BY <1>1, <2>2
  <2>4. DOMAIN vertices[v] = 1..(b - a + 1)
    <3>1. PICK s \in Seq(1..N) : s = vertices[v]
      BY <2>3
    <3>2. DOMAIN s = 1..Len(s)
      OBVIOUS
    <3> QED BY <1>4, <3>1, <3>2
  <2>5. vertices[v][i - a + 1] = vertices[v][1] + ((i - a + 1) - 1)
    BY <2>1, <2>4 DEF GraphInv, VerticesOrdered
  <2>6. vertices[v][i - a + 1] = i
    BY <1>4, <2>1, <2>5
  <2> QED BY <2>1, <2>4, <2>6 DEF containsBranch
<1>13. Head(vertices[v]) = a /\ Last(vertices[v]) = b
  <2>1. vertices \in Seq(Seq(1..Len(func)))
    BY DEF GraphInv, GraphTyped
  <2>2. PICK s \in Seq(1..N) : s = vertices[v]
    BY <1>1, <2>1
  <2>3. s # <<>>
    BY <2>2 DEF GraphInv, VerticesOrdered
  <2>4. Head(s) = s[1] /\ Last(s) = s[Len(s)]
    BY <2>3 DEF Last
  <2> QED BY <1>4, <2>2, <2>4
<1>14. before \in [1..N -> Seq(InsertedCall)] /\ after \in [1..N -> Seq(InsertedCall)]
  BY <1>1 DEF CallsInv, CallsTyped
<1>15. ASSUME NEW j \in i..t, j # i PROVE before[j] = <<>>
  <2>1. ASSUME NEW m \in DOMAIN before[j] PROVE FALSE
    <3>1. CallBefore(j, before[j][m])
      BY <1>1, <1>8 DEF CallsInv, CallsPlaced
    <3>2. before[j][m].v = v
      BY <1>8, <3>1 DEF CallBefore
    <3>3. j = a
      BY <1>12, <1>13, <3>1, <3>2 DEF CallBefore
    <3> QED BY <1>2, <1>5, <1>15, <3>3
  <2>2. PICK s \in Seq(InsertedCall) : s = before[j]
    BY <1>8, <1>14
  <2>3. s # <<>> => 1 \in DOMAIN s
    <3> DEFINE C == InsertedCall
    <3>1. s \in Seq(C)
      OBVIOUS
    <3> HIDE DEF C
    <3> QED BY <3>1
  <2> QED BY <2>1, <2>2, <2>3
<1>16. ASSUME NEW j \in i..t, j # t PROVE after[j] = <<>>
  <2>1. ASSUME NEW m \in DOMAIN after[j] PROVE FALSE
    <3>1. CallAfter(j, after[j][m])
      BY <1>1, <1>8 DEF CallsInv, CallsPlaced
    <3>2. after[j][m].v = v
      BY <1>8, <3>1 DEF CallAfter
    <3>3. j = b
      BY <1>12, <1>13, <3>1, <3>2 DEF CallAfter
    <3> QED BY <1>2, <1>6, <1>7, <1>16, <3>3
  <2>2. PICK s \in Seq(InsertedCall) : s = after[j]
    BY <1>8, <1>14
  <2>3. s # <<>> => 1 \in DOMAIN s
    <3> DEFINE C == InsertedCall
    <3>1. s \in Seq(C)
      OBVIOUS
    <3> HIDE DEF C
    <3> QED BY <3>1
  <2> QED BY <2>1, <2>2, <2>3
<1>17. NoCallsBetween(Behind, Owner, before, after, i, t)
  <2> SUFFICES ASSUME NEW j \in Behind
               PROVE  /\ i <= j /\ j < t => Len(after[j]) = 0
                      /\ i < j /\ j <= t => Len(before[j]) = 0
    BY DEF NoCallsBetween
  <2>1. j \in Nat
    BY <1>1 DEF Behind
  <2>2. ASSUME i <= j, j < t PROVE Len(after[j]) = 0
    <3>1. j \in i..t /\ j # t
      BY <1>2, <1>6, <2>1, <2>2
    <3>2. after[j] = <<>>
      BY <1>16, <3>1
    <3> QED BY <3>2
  <2>3. ASSUME i < j, j <= t PROVE Len(before[j]) = 0
    <3>1. j \in i..t /\ j # i
      BY <1>2, <1>6, <2>1, <2>3
    <3>2. before[j] = <<>>
      BY <1>15, <3>1
    <3> QED BY <3>2
  <2> QED BY <2>2, <2>3
<1>18. before[t] = <<>>
  BY <1>11, <1>15
<1>19. t \in Behind /\ Owner[t] = Owner[i]
  BY <1>10, <1>11
<1> QED BY <1>6, <1>11, <1>17, <1>18, <1>19

(* Where a thread jumps to: all that it jumps over are instructions. *)
LEMMA BranchJumps ==
  ASSUME GraphInv, AllSupported, CallsInv, CodeRight, phase = "run",
         NEW p \in Partitions, Threads!At(p, "exec"), IsBranch(func[Threads!Current(p).n]),
         NEW k \in DOMAIN func[Threads!Current(p).n].succs
  PROVE  /\ pc[p] \in Nat /\ PositionOf(p, func[Threads!Current(p).n].succs[k]) \in Nat
         /\ pc[p] < PositionOf(p, func[Threads!Current(p).n].succs[k])
         /\ PositionOf(p, func[Threads!Current(p).n].succs[k]) <= Len(code.list[p])
         /\ \A m \in pc[p]..(PositionOf(p, func[Threads!Current(p).n].succs[k]) - 1) :
              code.list[p][m].op = "exec"
<1>1. PICK N \in Nat : N = Len(func)
  BY GraphNumbers
<1>2. PICK M, own, vx, B, A : M = Behind /\ own = Owner /\ vx = VertexIndex /\ B = before /\ A = after
  OBVIOUS
<1>3. PICK c : c = code
  OBVIOUS
<1>4. PICK list : list = c.list
  OBVIOUS
<1>5. PICK at : Lists(N, M, own, B, A, at, list) /\ Layout(M, own, vx, B, A, at, list)
  BY <1>1, <1>2, <1>3, <1>4, RunLayout
<1>6. CallsRight(N, M, own, vx, B, A)
  BY <1>1, <1>2, CallsRightNow
<1>7. PICK m : m = pc[p]
  OBVIOUS
<1>8. PICK i : i = list[p][m].n /\ i = Threads!Current(p).n
  BY <1>3, <1>4, <1>7 DEF Threads!Current
<1>9. PICK x : x = <<p, m>>
  OBVIOUS
<1>10. x \in Threads!Places(c) /\ Threads!EntryAt(c, x) = list[p][m] /\ Threads!IsExec(list[p][m])
  <2>1. m \in DOMAIN list[p] /\ list[p][m].op = "exec"
    BY <1>3, <1>4, <1>7 DEF Threads!At, Threads!Running, Threads!Current
  <2>2. x \in Threads!Places(c)
    BY <1>4, <1>9, <2>1 DEF Threads!Places
  <2>3. Threads!EntryAt(c, x) = list[p][m]
    BY <1>4, <1>9 DEF Threads!EntryAt
  <2> QED BY <2>1, <2>2, <2>3 DEF Threads!IsExec
<1>11. KindOf(M, own, vx, B, A, at, c, x)
  BY <1>4, <1>5, <1>6, <1>10, PlaceKinds
<1>12. i \in M /\ x = ExecPlace(own, at, B, i)
  BY <1>8, <1>10, <1>11 DEF KindOf
<1>13. own[i] = p /\ m = ExecPos(B, at, i)
  BY <1>9, <1>12 DEF ExecPlace, ExecPos
<1>14. PICK t : t = func[i].succs[k]
  OBVIOUS
<1>15. k \in DOMAIN func[i].succs /\ IsBranch(func[i])
  BY <1>8
<1>16. t \in M /\ i < t /\ own[t] = own[i] /\ B[t] = <<>> /\ NoCallsBetween(M, own, B, A, i, t)
  BY <1>2, <1>12, <1>14, <1>15, NoCallsInBranch
<1>17. JumpsOver(B, at, list, p, i, t)
  BY <1>5, <1>12, <1>13, <1>16, JumpLaid
<1>18. PICK to \in Nat : to = ExecPos(B, at, t)
  BY <1>17 DEF JumpsOver
<1>19. PositionOf(p, t) = to
  <2>1. Placed(own, vx, B, A, at, c, t)
    BY <1>4, <1>5, <1>16, PlacesThere
  <2>2. PICK y : y = <<p, to>> /\ y = ExecPlace(own, at, B, t)
    BY <1>13, <1>16, <1>18 DEF ExecPlace, ExecPos
  <2>3. y \in Threads!Places(c) /\ Threads!EntryAt(c, y) = [op |-> "exec", n |-> t, v |-> vx[t]]
    BY <2>1, <2>2 DEF Placed
  <2>4. to \in DOMAIN list[p]
    <3>1. PICK q \in Partitions : y \in {q} \X DOMAIN c.list[q]
      BY <2>3 DEF Threads!Places
    <3> QED BY <1>4, <2>2, <3>1
  <2>5. list[p][to].op = "exec" /\ list[p][to].n = t
    BY <1>4, <2>2, <2>3 DEF Threads!EntryAt
  <2>6. ASSUME NEW z \in DOMAIN list[p], list[p][z].op = "exec", list[p][z].n = t PROVE z = to
    <3>1. PICK w : w = <<p, z>>
      OBVIOUS
    <3>2. w \in Threads!Places(c) /\ Threads!EntryAt(c, w) = list[p][z]
      BY <1>4, <3>1 DEF Threads!Places, Threads!EntryAt
    <3>3. KindOf(M, own, vx, B, A, at, c, w)
      BY <1>4, <1>5, <1>6, <3>2, PlaceKinds
    <3>4. w = ExecPlace(own, at, B, t)
      BY <2>6, <3>2, <3>3 DEF KindOf, Threads!IsExec
    <3> QED BY <2>2, <3>1, <3>4
  <2>7. (CHOOSE z \in DOMAIN list[p] : list[p][z].op = "exec" /\ list[p][z].n = t) = to
    BY <2>4, <2>5, <2>6
  <2>8. Len(before[t]) = 0
    BY <1>2, <1>16
  <2>9. PositionOf(p, t) = to - 0
    BY <1>3, <1>4, <2>7, <2>8 DEF PositionOf
  <2> QED BY <2>9
<1>20. /\ m \in Nat /\ m < to /\ to <= Len(list[p])
       /\ \A z \in m..(to - 1) : list[p][z].op = "exec"
  BY <1>13, <1>17, <1>18 DEF JumpsOver
<1>21. PositionOf(p, func[Threads!Current(p).n].succs[k]) = to
  BY <1>8, <1>14, <1>19
<1> QED BY <1>3, <1>4, <1>7, <1>20, <1>21
-----------------------------------------------------------------------------
(* The threads at run time. *)

(* PartitionThreads with what is proved of it. *)
Proved == INSTANCE PartitionThreadsProofs WITH Codes <- {}

(* The threads of the generated function are threads of PartitionThreads. *)
LEMMA SameContract == ASSUME NEW c PROVE Proved!WellFormed(c) = Threads!WellFormed(c)
  BY DEF Proved!WellFormed, Threads!WellFormed, Proved!SingleUse, Threads!SingleUse,
         Proved!Matched, Threads!Matched, Proved!VertexOrder, Threads!VertexOrder, Proved!Bridged, Threads!Bridged,
         Proved!Entry, Threads!Entry, Proved!Places, Threads!Places, Proved!EntryAt, Threads!EntryAt,
         Proved!IsExec, Threads!IsExec, Proved!IsSend, Threads!IsSend, Proved!IsReceive, Threads!IsReceive,
         Proved!Channel, Threads!Channel

(* What holds whenever the threads run. *)
RunInv == IF phase = "run" THEN Proved!IInv ELSE executed = {}

(* The steps of a thread. *)
LEMMA ThreadKeeps ==
  ASSUME Proved!IInv, NEW p \in Partitions,
         Threads!Exec(p) \/ Threads!Put(p) \/ Threads!Get(p) \/ Threads!SemWait(p) \/ Threads!SemPost(p)
  PROVE  Proved!IInv'
<1>1. CASE Threads!Exec(p)
  <2>1. Proved!Exec(p)
    BY <1>1 DEF Threads!Exec, Proved!Exec, Threads!At, Proved!At, Threads!Running, Proved!Running,
                Threads!Current, Proved!Current, Threads!Advance, Proved!Advance
  <2> QED BY <2>1, Proved!ExecPreserves, PartitioningAssumption
<1>2. CASE Threads!Put(p) \/ Threads!SemPost(p)
  <2>1. /\ Proved!Running(p) /\ Proved!Advance(p) /\ Proved!IsSend(Proved!Current(p))
        /\ tokens' = [tokens EXCEPT ![Proved!Channel(Proved!Current(p))] = @ + 1]
        /\ UNCHANGED <<code, executed>>
    BY <1>2 DEF Threads!Put, Threads!SemPost, Threads!At, Threads!Running, Proved!Running,
                Threads!Current, Proved!Current, Threads!Advance, Proved!Advance, Proved!IsSend,
                Threads!Channel, Proved!Channel
  <2> QED BY <2>1, Proved!SendPreserves, PartitioningAssumption
<1>3. CASE Threads!Get(p) \/ Threads!SemWait(p)
  <2>1. /\ Proved!Running(p) /\ Proved!Advance(p) /\ Proved!IsReceive(Proved!Current(p))
        /\ tokens[Proved!Channel(Proved!Current(p))] > 0
        /\ tokens' = [tokens EXCEPT ![Proved!Channel(Proved!Current(p))] = @ - 1]
        /\ UNCHANGED <<code, executed>>
    BY <1>3 DEF Threads!Get, Threads!SemWait, Threads!At, Threads!Running, Proved!Running,
                Threads!Current, Proved!Current, Threads!Advance, Proved!Advance, Proved!IsReceive,
                Threads!Channel, Proved!Channel
  <2> QED BY <2>1, Proved!ReceivePreserves, PartitioningAssumption
<1> QED BY <1>1, <1>2, <1>3

(* The entries of a part of a list. *)
LEMMA SubSeqElements ==
  ASSUME NEW T, NEW s \in Seq(T), NEW m \in Nat, NEW n \in Nat, 1 <= m, n <= Len(s)
  PROVE  ToSet(SubSeq(s, m, n)) = {s[k] : k \in m..n}
<1>1. \A k \in m..n : s[k] \in T
  OBVIOUS
<1>2. PICK u : u = SubSeq(s, m, n)
  OBVIOUS
<1>3. /\ u \in Seq(T) /\ Len(u) = IF m <= n THEN n - m + 1 ELSE 0
      /\ \A k \in 1..(n - m + 1) : u[k] = s[m + k - 1]
  BY <1>1, <1>2, SubSeqProperties
<1>4. DOMAIN u = 1..(n - m + 1)
  <2>1. DOMAIN u = 1..Len(u)
    BY <1>3
  <2>2. m <= n \/ 1..(n - m + 1) = 1..0
    OBVIOUS
  <2> QED BY <1>3, <2>1, <2>2
<1>5. ASSUME NEW k \in m..n PROVE \E j \in DOMAIN u : u[j] = s[k]
  <2>1. k - m + 1 \in 1..(n - m + 1) /\ m + (k - m + 1) - 1 = k
    OBVIOUS
  <2> QED BY <1>3, <1>4, <2>1
<1>6. ASSUME NEW j \in DOMAIN u PROVE \E k \in m..n : u[j] = s[k]
  <2>1. m + j - 1 \in m..n
    BY <1>4
  <2> QED BY <1>3, <1>4, <2>1
<1>7. {u[j] : j \in DOMAIN u} = {s[k] : k \in m..n}
  <2> QED BY <1>5, <1>6
<1> QED BY <1>2, <1>7 DEF ToSet

(* A branch jumps over instructions only. *)
LEMMA BranchKeeps ==
  ASSUME GraphInv, AllSupported, CallsInv, CodeRight, Proved!IInv, NEW p \in Partitions, RunBranch(p)
  PROVE  Proved!IInv'
<1>1. /\ phase = "run" /\ Threads!At(p, "exec") /\ code' = code /\ tokens' = tokens
  BY DEF RunBranch
<1>2. PICK i : i = Threads!Current(p).n
  OBVIOUS
<1>3. IsBranch(func[i])
  BY <1>2 DEF RunBranch
<1>4. PICK k \in DOMAIN func[i].succs :
        /\ pc' = [pc EXCEPT ![p] = PositionOf(p, func[i].succs[k])]
        /\ executed' = executed \union {i} \union
             {e.n : e \in {d \in ToSet(SubSeq(code.list[p], pc[p] + 1, PositionOf(p, func[i].succs[k]) - 1)) :
                             d.op = "exec"}}
  BY <1>2 DEF RunBranch
<1>5. PICK at, to : at = pc[p] /\ to = PositionOf(p, func[i].succs[k])
  OBVIOUS
<1>6. PICK list : list = code.list[p]
  OBVIOUS
<1>7. /\ at \in Nat /\ to \in Nat /\ at < to /\ to <= Len(list)
      /\ \A m \in at..(to - 1) : list[m].op = "exec"
  BY <1>1, <1>2, <1>3, <1>5, <1>6, BranchJumps
<1>8. list \in Seq(Proved!Entry) /\ list[at].n = i
  BY <1>2, <1>5, <1>6 DEF Proved!IInv, Proved!WellFormed, Threads!Current
<1>9. ToSet(SubSeq(list, at + 1, to - 1)) = {list[m] : m \in (at + 1)..(to - 1)}
  <2> DEFINE T == Proved!Entry
  <2>1. list \in Seq(T)
    BY <1>8
  <2> HIDE DEF T
  <2>2. at + 1 \in Nat /\ to - 1 \in Nat /\ 1 <= at + 1 /\ to - 1 <= Len(list)
    <3>1. PICK l \in Nat : l = Len(list)
      BY <2>1
    <3>2. to <= l
      BY <1>7, <3>1
    <3>3. at + 1 \in Nat /\ to - 1 \in Nat /\ 1 <= at + 1 /\ to - 1 <= l
      BY <1>7, <3>2
    <3> QED BY <3>1, <3>3
  <2>3. PICK a, b \in Nat : a = at + 1 /\ b = to - 1
    BY <2>2
  <2>4. ToSet(SubSeq(list, a, b)) = {list[m] : m \in a..b}
    BY <2>1, <2>2, <2>3, SubSeqElements
  <2> QED BY <2>3, <2>4
<1>10. executed' = executed \union {list[m].n : m \in at..(to - 1)}
  <2>1. executed' = executed \union {i} \union
          {e.n : e \in {d \in {list[m] : m \in (at + 1)..(to - 1)} : d.op = "exec"}}
    BY <1>4, <1>5, <1>6, <1>9
  <2>2. \A m \in at..(to - 1) : m = at \/ m \in (at + 1)..(to - 1)
    BY <1>7
  <2>3. at \in at..(to - 1) /\ \A m \in (at + 1)..(to - 1) : m \in at..(to - 1)
    BY <1>7
  <2>4. {e.n : e \in {d \in {list[m] : m \in (at + 1)..(to - 1)} : d.op = "exec"}} =
        {list[m].n : m \in (at + 1)..(to - 1)}
    BY <1>7, <2>3
  <2>5. {list[m].n : m \in at..(to - 1)} = {i} \union {list[m].n : m \in (at + 1)..(to - 1)}
    BY <1>8, <2>2, <2>3
  <2> QED BY <2>1, <2>4, <2>5
<1>11. to <= Len(code.list[p]) + 1
  <2>1. Len(list) \in Nat
    <3> DEFINE T == Proved!Entry
    <3>1. list \in Seq(T)
      BY <1>8
    <3> HIDE DEF T
    <3> QED BY <3>1
  <2>2. PICK l \in Nat : l = Len(list)
    BY <2>1
  <2>3. to <= l + 1
    <3>1. to <= l
      BY <1>7, <2>2
    <3> QED BY <1>7, <3>1
  <2> QED BY <1>6, <2>2, <2>3
<1>12. \A m \in pc[p]..(to - 1) : Proved!IsExec(code.list[p][m])
  BY <1>5, <1>6, <1>7 DEF Proved!IsExec
<1>13. /\ pc[p] < to /\ pc' = [pc EXCEPT ![p] = to] /\ to \in Nat
       /\ executed' = executed \union {code.list[p][m].n : m \in pc[p]..(to - 1)}
  BY <1>4, <1>5, <1>6, <1>7, <1>10
<1> QED BY <1>1, <1>11, <1>12, <1>13, Proved!JumpPreserves, PartitioningAssumption

(* When the threads start, the contract gives the invariant of PartitionThreads. *)
RunStarts == phase = "run" /\ Proved!StartCall(code) => Proved!IInv

(* The generated code starts within the invariant of PartitionThreads. *)
LEMMA CodeStarts == ASSUME GraphInv, AllSupported, CallsInv, CodeRight PROVE RunStarts
  BY RunCode, SameContract, Proved!StartsRight, PartitioningAssumption DEF RunStarts

(* A step that leaves the threads alone. *)
LEMMA RunUnchanged ==
  ASSUME RunInv, UNCHANGED <<phase, code, pc, tokens, executed>> PROVE RunInv'
  BY DEF RunInv, Proved!IInv, Proved!PositionsOK, Proved!TokenBalance, Proved!ExecutedSoFar, Proved!Passed

(* Every step of the pass and of the threads keeps RunInv. *)
LEMMA RunStep ==
  ASSUME GraphInv, AllSupported, CallsInv, CodeRight, RunStarts', RunInv, [Next]_vars
  PROVE  RunInv'
<1>1. CASE SavePartitioning
  <2>1. /\ phase' = "run" /\ executed' = {}
        /\ pc' = [p \in Partitions |-> 1] /\ tokens' = [ch \in Threads!Channels(code') |-> 0]
    BY <1>1 DEF SavePartitioning, RunInv
  <2>2. tokens' = [ch \in Proved!Channels(code') |-> 0]
    BY <2>1 DEF Threads!Channels, Proved!Channels, Threads!Places, Proved!Places, Threads!EntryAt, Proved!EntryAt,
                Threads!IsExec, Proved!IsExec, Threads!Channel, Proved!Channel
  <2>3. Proved!StartCall(code)'
    BY <2>1, <2>2 DEF Proved!StartCall
  <2> QED BY <2>1, <2>3 DEF RunStarts, RunInv
<1>2. CASE CreateVertices
  BY <1>2, RunUnchanged DEF CreateVertices, passVars, runVars, threadVars
<1>3. CASE AssignPartitions \/ SkipDependency \/ BridgeDependency \/ NextTarget
  <2>1. phase # "run" /\ phase' # "run" /\ executed' = executed
    BY <1>3 DEF AssignPartitions, SkipDependency, BridgeDependency, NextTarget, runVars, threadVars
  <2> QED BY <2>1 DEF RunInv
<1>4. ASSUME NEW p \in Partitions, RunInstruction(p) \/ RunCall(p) PROVE RunInv'
  <2>1. phase = "run" /\ phase' = "run" /\ Proved!IInv
    BY <1>4 DEF RunInstruction, RunCall, passVars, RunInv
  <2>2. Threads!Exec(p) \/ Threads!Put(p) \/ Threads!Get(p) \/ Threads!SemWait(p) \/ Threads!SemPost(p)
    BY <1>4 DEF RunInstruction, RunCall
  <2> QED BY <2>1, <2>2, ThreadKeeps DEF RunInv
<1>5. ASSUME NEW p \in Partitions, RunBranch(p) PROVE RunInv'
  <2>1. phase = "run" /\ phase' = "run" /\ Proved!IInv
    BY <1>5 DEF RunBranch, passVars, RunInv
  <2> QED BY <1>5, <2>1, BranchKeeps DEF RunInv
<1>6. CASE CallAgain
  <2>1. phase = "run" /\ phase' = "run" /\ Proved!IInv
    BY <1>6 DEF CallAgain, passVars, RunInv
  <2>2. Proved!ReturnControl
    BY <1>6 DEF CallAgain, Threads!ReturnControl, Proved!ReturnControl, Threads!Running, Proved!Running
  <2> QED BY <2>1, <2>2, Proved!ReturnPreserves, PartitioningAssumption DEF RunInv
<1>7. CASE UNCHANGED vars
  BY <1>7, RunUnchanged DEF vars, passVars, runVars, threadVars
<1> QED BY <1>1, <1>2, <1>3, <1>4, <1>5, <1>6, <1>7 DEF Next

(* Whenever the threads run they are within the invariant. *)
LEMMA RunAlways == ASSUME AllSupported PROVE Spec => []RunInv
<1>1. Init => RunInv
  BY DEF Init, Threads!StartCall, RunInv
<1>2. GraphInv /\ CallsInv /\ CodeRight => RunStarts
  BY CodeStarts
<1>3. GraphInv /\ CallsInv /\ CodeRight /\ RunStarts' /\ RunInv /\ [Next]_vars => RunInv'
  BY RunStep
<1> QED BY <1>1, <1>2, <1>3, CallsAlways, PTL DEF Spec

(* The threads of a generated function never all wait for each other,    *)

(* whichever branches they take, and every call leaves the mailboxes and *)
(* semaphores empty: CallsComplete.                                      *)
THEOREM CallsAlwaysComplete == ASSUME AllSupported PROVE Spec => []CallsComplete
<1>1. RunInv => CallsComplete
  <2> SUFFICES ASSUME RunInv, phase = "run" PROVE Threads!NoDeadlock /\ Threads!DrainedAtReturn
    BY DEF CallsComplete
  <2>1. Proved!IInv
    BY DEF RunInv
  <2>2. Proved!NoDeadlock
    BY <2>1, Proved!LeastVertexRuns, PartitioningAssumption
  <2>3. Threads!NoDeadlock
    BY <2>2 DEF Proved!NoDeadlock, Threads!NoDeadlock, Proved!Running, Threads!Running, Proved!Blocked, Threads!Blocked,
                Proved!IsReceive, Threads!IsReceive, Proved!Current, Threads!Current, Proved!Channel, Threads!Channel
  <2>4. (\A p \in Partitions : ~ Proved!Running(p)) => \A ch \in Proved!Channels(code) : tokens[ch] = 0
    BY <2>1, Proved!ChannelsDrained, PartitioningAssumption
  <2>5. Threads!DrainedAtReturn
    BY <2>4 DEF Threads!DrainedAtReturn, Proved!Running, Threads!Running, Threads!Channels, Proved!Channels,
                Threads!Places, Proved!Places, Threads!EntryAt, Proved!EntryAt,
                Threads!IsExec, Proved!IsExec, Threads!Channel, Proved!Channel
  <2> QED BY <2>3, <2>5
<1> QED BY <1>1, RunAlways, PTL

(* Every instruction behind the parameters stands in a list. *)
LEMMA InstructionListed ==
  ASSUME GraphInv, AllSupported, CallsInv, CodeRight, phase = "run", NEW i \in Behind
  PROVE  \E x \in Proved!Places(code) : Proved!IsExec(Proved!EntryAt(code, x)) /\ Proved!EntryAt(code, x).n = i
<1>1. PICK N \in Nat : N = Len(func)
  BY GraphNumbers
<1>2. PICK M, own, vx, B, A : M = Behind /\ own = Owner /\ vx = VertexIndex /\ B = before /\ A = after
  OBVIOUS
<1>3. PICK c : c = code
  OBVIOUS
<1>4. PICK list : list = c.list
  OBVIOUS
<1>5. PICK at : Lists(N, M, own, B, A, at, list) /\ Layout(M, own, vx, B, A, at, list)
  BY <1>1, <1>2, <1>3, <1>4, RunLayout
<1>6. Placed(own, vx, B, A, at, c, i)
  BY <1>2, <1>4, <1>5, PlacesThere
<1>7. PICK x : x = ExecPlace(own, at, B, i)
  OBVIOUS
<1>8. x \in Threads!Places(c) /\ Threads!EntryAt(c, x) = [op |-> "exec", n |-> i, v |-> vx[i]]
  BY <1>6, <1>7 DEF Placed
<1>9. x \in Proved!Places(c) /\ Proved!EntryAt(c, x) = [op |-> "exec", n |-> i, v |-> vx[i]]
  BY <1>8 DEF Threads!Places, Proved!Places, Threads!EntryAt, Proved!EntryAt
<1> QED BY <1>3, <1>9 DEF Proved!IsExec

(* What an instruction depends on stands in a list too, and was passed. *)
LEMMA DependenciesHold ==
  ASSUME GraphInv, AllSupported, CallsInv, CodeRight, RunInv PROVE DependenciesFirst
<1> SUFFICES ASSUME phase = "run", NEW ji \in code.deps,
                    ji[2] \in executed, vertexOf(ji[1]) # 0
             PROVE  ji[1] \in executed
  BY DEF DependenciesFirst
<1>1. Proved!IInv
  BY DEF RunInv
<1>2. PICK N \in Nat : N = Len(func) /\ DOMAIN func = 1..N
  BY GraphNumbers
<1>3. ji \in RequiredOrder
  BY DEF CodeRight
<1>4. PICK i \in 1..N : ji \in {<<dep.on, i>> : dep \in {d \in ToSet(dependenciesOf(i)) :
                                                          Crosses(i, d) => CanTransfer(d)}}
  BY <1>2, <1>3 DEF RequiredOrder
<1>5. PICK dep \in ToSet(dependenciesOf(i)) : ji = <<dep.on, i>>
  BY <1>4
<1>6. dep.on \in 1..(i - 1)
  <2>1. PICK d \in DOMAIN dependenciesOf(i) : dep = dependenciesOf(i)[d]
    BY <1>5 DEF ToSet
  <2> QED BY <1>2, <2>1, DependencyFacts DEF dependenciesOf
<1>7. dep.on \in 1..N
  BY <1>6
<1>8. dep.on \in Behind
  BY <1>2, <1>5, <1>7 DEF Behind
<1>9. PICK x \in Proved!Places(code) : Proved!IsExec(Proved!EntryAt(code, x)) /\ Proved!EntryAt(code, x).n = dep.on
  BY <1>8, InstructionListed
<1>10. PICK y \in Proved!Places(code) :
         Proved!IsExec(Proved!EntryAt(code, y)) /\ Proved!Passed(y) /\ Proved!EntryAt(code, y).n = i
  BY <1>1, <1>5 DEF Proved!IInv, Proved!ExecutedSoFar
<1>11. y[2] <= pc[y[1]]
  <2>1. y[1] \in Partitions /\ y[2] \in 1..Len(code.list[y[1]])
    <3>1. Proved!WellFormed(code)
      BY <1>1 DEF Proved!IInv
    <3> QED BY <3>1, Proved!PlaceFacts, PartitioningAssumption
  <2>2. pc[y[1]] \in Nat /\ y[2] \in Nat
    BY <1>1, <2>1 DEF Proved!IInv, Proved!PositionsOK
  <2> QED BY <1>10, <2>2 DEF Proved!Passed
<1>12. <<Proved!EntryAt(code, x).n, Proved!EntryAt(code, y).n>> \in code.deps
  BY <1>5, <1>9, <1>10
<1>13. Proved!Passed(x)
  BY <1>1, <1>9, <1>10, <1>11, <1>12, Proved!DependenciesPassed, PartitioningAssumption
<1>14. dep.on \in executed
  BY <1>1, <1>9, <1>13 DEF Proved!IInv, Proved!ExecutedSoFar
<1> QED BY <1>5, <1>14

(* No thread executes an instruction before one it depends on, in whichever *)
(* thread that is executed and whatever is jumped over: DependenciesFirst.  *)
THEOREM NothingRunsTooEarly == ASSUME AllSupported PROVE Spec => []DependenciesFirst
<1>1. GraphInv /\ CallsInv /\ CodeRight /\ RunInv => DependenciesFirst
  BY DependenciesHold
<1> QED BY <1>1, CallsAlways, RunAlways, PTL
-----------------------------------------------------------------------------
(* The invariants give the types. *)
LEMMA TypesKept ==
  ASSUME GraphInv, AllSupported, CallsInv, RunInv
  PROVE  TypeOK
<1>1. PICK N \in Nat : N = Len(func) /\ func \in Functions
  BY GraphNumbers
<1>2. GraphTypeOK
  <2>1. GraphTyped
    BY DEF GraphInv
  <2>2. \A i \in DOMAIN func : func[i].op \in Opcode
    <3>1. DOMAIN func = 1..Len(func)
      BY <1>1, FunctionFacts
    <3> QED BY <1>1, <3>1, InstructionFacts
  <2> QED BY <2>1, <2>2 DEF GraphTyped, GraphTypeOK
<1>3. ASSUME phase = "run" PROVE Threads!TypeOK
  <2>1. Proved!IInv
    BY <1>3 DEF RunInv
  <2>2. code.list \in [Partitions -> Seq(Threads!Entry)]
    BY <2>1 DEF Proved!IInv, Proved!WellFormed, Proved!Entry, Threads!Entry
  <2>3. pc \in [Partitions -> Nat \ {0}]
    BY <2>1 DEF Proved!IInv, Proved!PositionsOK
  <2>4. tokens \in [Threads!Channels(code) -> Nat]
    <3>1. Threads!Channels(code) = Proved!Channels(code)
      BY DEF Threads!Channels, Proved!Channels, Threads!Places, Proved!Places, Threads!EntryAt, Proved!EntryAt,
             Threads!IsExec, Proved!IsExec, Threads!Channel, Proved!Channel
    <3> QED BY <2>1, <3>1 DEF Proved!IInv
  <2>5. executed \in SUBSET Threads!Instrs(code)
    BY <2>1 DEF Proved!IInv, Proved!ExecutedSoFar, Threads!Instrs, Threads!Places, Proved!Places, Threads!EntryAt, Proved!EntryAt,
             Threads!IsExec, Proved!IsExec
  <2> QED BY <2>2, <2>3, <2>4, <2>5 DEF Threads!TypeOK
<1> QED BY <1>2, <1>3 DEF CallsInv, CallsTyped, TypeOK

(* All of the state keeps its type, every mailbox has the type of the value *)

(* put into it and every semaphore used is created: ResourcesMatch.         *)
THEOREM ResourcesAlwaysMatch == ASSUME AllSupported PROVE Spec => []ResourcesMatch
<1>1. GraphInv /\ CallsInv /\ RunInv => ResourcesMatch
  <2> SUFFICES ASSUME GraphInv, CallsInv, RunInv PROVE ResourcesMatch
    OBVIOUS
  <2>1. TypeOK
    BY TypesKept
  <2>2. PICK N \in Nat : N = Len(func) /\ DOMAIN func = 1..N
    BY GraphNumbers
  <2>3. PICK d \in Nat : d = depNumber /\ d = Len(dataDependencies)
    <3> DEFINE T == {"IntT", "RealT"}
    <3>1. dataDependencies \in Seq(T) /\ depNumber = Len(dataDependencies)
      BY DEF CallsInv, CallsTyped
    <3> HIDE DEF T
    <3>2. Len(dataDependencies) \in Nat
      BY <3>1
    <3> QED BY <3>1, <3>2
  <2>4. ASSUME NEW i \in 1..N, NEW k \in DOMAIN after[i], after[i][k].op = "put"
        PROVE  /\ after[i][k].n < Len(dataDependencies)
               /\ \E j \in (IF containsBranch(after[i][k].v) THEN ToSet(vertices[after[i][k].v]) ELSE {i}) :
                    func[j].type = IF dataDependencies[after[i][k].n + 1] = "IntT" THEN "int" ELSE "real"
    <3>1. PICK e : e = after[i][k]
      OBVIOUS
    <3>2. CallAfter(i, e) /\ Numbered(e) /\ SentType(e)
      BY <2>2, <3>1 DEF CallsInv, CallsPlaced, TypesSent
    <3>3. e.n < Len(dataDependencies)
      BY <2>3, <2>4, <3>1, <3>2 DEF Numbered
    <3>4. func[e.of].type = IF dataDependencies[e.n + 1] = "IntT" THEN "int" ELSE "real"
      BY <2>4, <3>1, <3>2 DEF SentType
    <3>5. e.of \in (IF containsBranch(e.v) THEN ToSet(vertices[e.v]) ELSE {i})
      <4>1. CASE ~ containsBranch(e.v)
        BY <3>2, <4>1 DEF CallAfter
      <4>2. CASE containsBranch(e.v)
        <5>0. e.of \in 1..N /\ e.v # 0 /\ getVertexForInstruction(e.of) = e.v
          BY <2>2, <3>2 DEF CallAfter, vertexOf
        <5>1. PICK o \in Nat : o = e.of /\ getVertexForInstruction(o) = e.v /\ e.v # 0
          BY <5>0
        <5>2. \E m \in DOMAIN vertices[getVertexForInstruction(o)] : vertices[getVertexForInstruction(o)][m] = o
          BY <5>1, VertexFacts
        <5> QED BY <4>2, <5>1, <5>2 DEF ToSet
      <4> QED BY <4>1, <4>2
    <3> QED BY <3>1, <3>3, <3>4, <3>5
  <2>5. ASSUME NEW i \in 1..N, NEW k \in DOMAIN after[i], after[i][k].op # "put"
        PROVE  after[i][k].n \in 1..((IF phase = "run" THEN semNumberMax ELSE semNumber) - 1)
    <3>1. PICK e : e = after[i][k]
      OBVIOUS
    <3>2. CallAfter(i, e) /\ Numbered(e)
      BY <2>2, <3>1 DEF CallsInv, CallsPlaced
    <3>3. e.n \in 1..(semNumber - 1)
      BY <2>5, <3>1, <3>2 DEF Numbered, CallAfter
    <3>4. PICK s, m \in Nat : s = semNumber /\ m = semNumberMax /\ (phase = "run" => m >= s)
      BY DEF CallsInv, CallsTyped
    <3>5. \A x \in 1..(s - 1) : m >= s => x \in 1..(m - 1)
      OBVIOUS
    <3> QED BY <3>1, <3>3, <3>4, <3>5
  <2> QED BY <2>1, <2>2, <2>3, <2>4, <2>5 DEF ResourcesMatch
<1> QED BY <1>1, CallsAlways, RunAlways, PTL
-----------------------------------------------------------------------------
(***************************************************************************)
(* The values of loads.  First: no memory dependency is lost.  Ascending   *)
(* lists every member of S up to n, none twice in a row.                   *)
(***************************************************************************)
Lists1(S, m, s) ==
  /\ s \in Seq(S \cap (1..m))
  /\ \A j \in S \cap (1..m) :
       \E k \in 1..Len(s) : s[k] = j /\ (k > 1 => s[k - 1] # j)

(* So does a list with the next number appended. *)
LEMMA AppendLists ==
  ASSUME NEW S, NEW m \in Nat, NEW s, Lists1(S, m, s), m + 1 \in S
  PROVE  Lists1(S, m + 1, Append(s, m + 1))
<1> DEFINE T == S \cap (1..m)
           T2 == S \cap (1..(m + 1))
<1>1. s \in Seq(T)
  BY DEF Lists1
<1>2. \A x \in T : x \in T2 /\ x # m + 1
  OBVIOUS
<1>3. m + 1 \in T2 /\ \A x \in T2 : x = m + 1 \/ x \in T
  OBVIOUS
<1>4. s \in Seq(T2)
  <2> HIDE DEF T, T2
  <2>1. \A k \in 1..Len(s) : s[k] \in T2
    BY <1>1, <1>2
  <2> QED BY <1>1, <2>1, SequenceInto
<1>5. PICK l \in Nat : l = Len(s)
  BY <1>1
<1>6. PICK t : t = Append(s, m + 1)
  OBVIOUS
<1> HIDE DEF T, T2
<1>7. t \in Seq(T2) /\ Len(t) = l + 1 /\ t[l + 1] = m + 1 /\ \A k \in 1..l : t[k] = s[k]
  BY <1>3, <1>4, <1>5, <1>6
<1>8. l > 0 => t[l] # m + 1
  <2>1. l > 0 => l \in 1..l
    OBVIOUS
  <2> QED BY <1>1, <1>2, <1>5, <1>7, <2>1
<1>9. ASSUME NEW j \in T2 PROVE \E k \in 1..Len(t) : t[k] = j /\ (k > 1 => t[k - 1] # j)
  <2>1. CASE j = m + 1
    <3>1. l + 1 \in 1..(l + 1) /\ (l + 1 > 1 => l > 0) /\ (l + 1) - 1 = l
      OBVIOUS
    <3> QED BY <1>7, <1>8, <2>1, <3>1
  <2>2. CASE j \in T
    <3>1. PICK k \in 1..l : s[k] = j /\ (k > 1 => s[k - 1] # j)
      BY <1>5, <2>2 DEF Lists1, T
    <3>2. k \in 1..(l + 1) /\ (k > 1 => k - 1 \in 1..l)
      OBVIOUS
    <3> QED BY <1>7, <3>1, <3>2
  <2> QED BY <1>3, <2>1, <2>2
<1> QED BY <1>6, <1>7, <1>9 DEF Lists1, T2

(* Ascending does so, by induction on the numbers listed. *)
LEMMA AscendingAll ==
  ASSUME NEW S, NEW n \in Nat PROVE Lists1(S, n, Ascending(S, n))
<1> DEFINE u == CHOOSE x : UpTo(S, n, x)
<1>1. UpTo(S, n, u)
  BY UpToExists
<1>2. Ascending(S, n) = u[n]
  BY AscendingUnfold
<1> HIDE DEF u
<1> DEFINE Bad == {m \in 0..n : ~ Lists1(S, m, u[m])}
<1>3. Bad = {}
  <2> SUFFICES ASSUME Bad # {} PROVE FALSE
    OBVIOUS
  <2>1. PICK m \in Bad : \A y \in Bad : m <= y
    <3>1. IsFiniteSet(0..n) /\ Bad \subseteq 0..n
      BY FS_Interval
    <3>2. IsFiniteSet(Bad) /\ Bad \subseteq Int
      BY <3>1, FS_Subset
    <3> HIDE DEF Bad
    <3> QED BY <3>2, MinInt
  <2>2. u[m] = IF m = 0 THEN <<>> ELSE IF m \in S THEN Append(u[m - 1], m) ELSE u[m - 1]
    BY <1>1, <2>1 DEF UpTo
  <2>0. m \in 0..n /\ ~ Lists1(S, m, u[m])
    BY <2>1
  <2>3. CASE m = 0
    <3>1. u[m] = <<>>
      BY <2>2, <2>3
    <3> DEFINE T == S \cap (1..0)
    <3>2. T = {}
      OBVIOUS
    <3>3. <<>> \in Seq(T)
      <4> HIDE DEF T
      <4> QED OBVIOUS
    <3> QED BY <2>0, <2>3, <3>1, <3>2, <3>3 DEF Lists1
  <2>4. CASE m # 0
    <3>1. PICK q \in Nat : q = m - 1 /\ m = q + 1
      BY <2>0, <2>4
    <3>2. Lists1(S, q, u[q])
      BY <2>0, <2>1, <3>1
    <3>4. CASE m \in S
      <4>1. u[m] = Append(u[q], q + 1)
        BY <2>2, <2>4, <3>1, <3>4
      <4>2. Lists1(S, q + 1, Append(u[q], q + 1))
        BY <3>1, <3>2, <3>4, AppendLists
      <4> QED BY <2>0, <3>1, <4>1, <4>2
    <3>5. CASE m \notin S
      <4>1. u[m] = u[q]
        BY <2>2, <2>4, <3>1, <3>5
      <4>2. S \cap (1..m) = S \cap (1..q)
        BY <3>1, <3>5
      <4> QED BY <2>0, <3>2, <4>1, <4>2 DEF Lists1
    <3> QED BY <3>4, <3>5
  <2> QED BY <2>3, <2>4
<1> QED BY <1>2, <1>3

(* Unique keeps an entry that differs from the one before it. *)
LEMMA UniqueKeeps ==
  ASSUME NEW T, NEW s \in Seq(T), NEW m \in 1..Len(s), m = 1 \/ s[m].on # s[m - 1].on
  PROVE  \E d \in DOMAIN Unique(s) : Unique(s)[d] = s[m]
<1> DEFINE D == {k \in DOMAIN s : k = 1 \/ s[k].on # s[k - 1].on}
           kept == Ascending(D, Len(s))
<1>1. Unique(s) = [k \in DOMAIN kept |-> s[kept[k]]]
  BY DEF Unique
<1>2. m \in D /\ m \in D \cap (1..Len(s))
  OBVIOUS
<1>3. Lists1(D, Len(s), kept)
  BY AscendingAll
<1> HIDE DEF kept, D
<1>4. PICK d \in 1..Len(kept) : kept[d] = m
  BY <1>2, <1>3 DEF Lists1
<1>5. d \in DOMAIN kept
  <2> DEFINE I == D \cap (1..Len(s))
  <2>1. kept \in Seq(I)
    BY <1>3 DEF Lists1
  <2> HIDE DEF I
  <2> QED BY <2>1
<1> QED BY <1>1, <1>4, <1>5

(* What stands at place k of m, and before it, when m is joined to r. *)
InMiddle(T, r, m, k, s) ==
  /\ s \in Seq(T) /\ Len(r) + k \in 1..Len(s) /\ s[Len(r) + k] = m[k]
  /\ k > 1 => s[Len(r) + k - 1] = m[k - 1]
  /\ k = 1 /\ Len(r) > 0 => s[Len(r) + k - 1] = r[Len(r)]

(* Three sequences joined: the place of an entry of the middle one. *)
LEMMA MiddleOf ==
  ASSUME NEW T, NEW r \in Seq(T), NEW m \in Seq(T), NEW c \in Seq(T), NEW k \in 1..Len(m)
  PROVE  InMiddle(T, r, m, k, r \o m \o c)
<1> DEFINE g == r \o m
<1>0. /\ g \in Seq(T) /\ Len(g) = Len(r) + Len(m)
      /\ \A i \in 1..(Len(r) + Len(m)) : g[i] = IF i <= Len(r) THEN r[i] ELSE m[i - Len(r)]
  BY ConcatProperties
<1>1. PICK h \in Seq(T) :
      /\ h = g /\ Len(h) = Len(r) + Len(m)
      /\ \A i \in 1..(Len(r) + Len(m)) : h[i] = IF i <= Len(r) THEN r[i] ELSE m[i - Len(r)]
  <2> HIDE DEF g
  <2> QED BY <1>0
<1> DEFINE t == h \o c
<1>2. /\ t \in Seq(T) /\ Len(t) = Len(h) + Len(c)
      /\ \A i \in 1..(Len(h) + Len(c)) : t[i] = IF i <= Len(h) THEN h[i] ELSE c[i - Len(h)]
  BY ConcatProperties
<1> HIDE DEF t
<1>3. PICK a, b, d \in Nat : a = Len(r) /\ b = Len(m) /\ d = Len(c)
  OBVIOUS
<1>4. Len(h) = a + b /\ Len(t) = a + b + d /\ k \in 1..b
  BY <1>1, <1>2, <1>3
<1>5. \A i \in 1..(a + b) : i \in 1..(a + b + d) /\ i <= a + b
  OBVIOUS
<1>6. \A i \in 1..(a + b) : t[i] = IF i <= a THEN r[i] ELSE m[i - a]
  <2>1. \A i \in 1..(a + b) : t[i] = h[i]
    BY <1>2, <1>3, <1>4, <1>5
  <2> QED BY <1>1, <1>3, <2>1
<1>7. a + k \in 1..(a + b) /\ ~ (a + k <= a) /\ (a + k) - a = k /\ a + k \in 1..(a + b + d)
  BY <1>4
<1>8. t[a + k] = m[k]
  BY <1>6, <1>7
<1>9. ASSUME k > 1 PROVE t[a + k - 1] = m[k - 1]
  <2>1. a + k - 1 \in 1..(a + b) /\ ~ (a + k - 1 <= a) /\ (a + k - 1) - a = k - 1
    BY <1>4, <1>9
  <2> QED BY <1>6, <2>1
<1>10. ASSUME k = 1, a > 0 PROVE t[a + k - 1] = r[a]
  <2>1. a + k - 1 = a /\ a \in 1..(a + b) /\ a <= a
    BY <1>4, <1>10
  <2> QED BY <1>6, <2>1
<1>11. InMiddle(T, r, m, k, t)
  BY <1>2, <1>3, <1>4, <1>7, <1>8, <1>9, <1>10 DEF InMiddle
<1> QED BY <1>1, <1>11 DEF t, g

(* A load depends on every store to its location before it. *)
LEMMA MemoryDependencyFound ==
  ASSUME NEW f \in Functions, Supported(f), LoadsUsedAtOnce(f), NEW i \in DOMAIN f, NEW j \in 1..(i - 1),
         f[i].op = "load", f[j].op = "store", f[j].ptr = f[i].ptr
  PROVE  \E d \in DOMAIN getDependencies(f)[i] : getDependencies(f)[i][d] = [on |-> j, kind |-> "mem"]
<1> DEFINE K == {"reg", "mem", "ctrl"}
           D == [on : 1..(i - 1), kind : K]
           M == {l \in 1..(i - 1) : f[l].op = "store" /\ f[i].op = "load" /\ f[l].ptr = f[i].ptr}
<1>1. f \in Seq(Instruction) /\ i \in Nat /\ i > 0 /\ j \in Nat
  BY FunctionsAssumption
<1>2. PICK args \in Seq(1..(i - 1)) : args = f[i].args
  <2>1. PICK a \in Seq(Nat) : a = f[i].args
    <3>1. f[i] \in Instruction
      BY <1>1
    <3>2. f[i].args \in Seq(Nat)
      BY <3>1 DEF Instruction
    <3> QED BY <3>2
  <2>2. \A k \in 1..Len(a) : a[k] \in 1..(i - 1)
    BY <2>1 DEF Supported, NoLoops
  <2> QED BY <2>1, <2>2, SequenceInto
<1>3. PICK r \in Seq(D) : r = RegisterDependencies(f, i) /\ Len(r) = Len(args)
                          /\ \A k \in 1..Len(args) : r[k].on = args[k]
  <2>1. DependOn(args, "reg") \in Seq(D)
    BY <1>2, DependOnIn
  <2>2. DependOn(args, "reg") = [k \in 1..Len(args) |-> [on |-> args[k], kind |-> "reg"]]
    BY DEF DependOn
  <2>3. Len(DependOn(args, "reg")) = Len(args) /\ \A k \in 1..Len(args) : DependOn(args, "reg")[k].on = args[k]
    BY <2>2
  <2> QED BY <1>2, <2>1, <2>3 DEF RegisterDependencies
<1>4. PICK a : a = Ascending(M, i - 1) /\ Lists1(M, i - 1, a)
  <2>1. i - 1 \in Nat
    BY <1>1
  <2> QED BY <2>1, AscendingAll
<1>5. j \in M /\ j \in M \cap (1..(i - 1))
  OBVIOUS
<1>6. MemoryDependencies(f, i) = DependOn(a, "mem")
  BY <1>4 DEF MemoryDependencies
<1> HIDE DEF M
<1>7. a \in Seq(1..(i - 1))
  <2> DEFINE I == M \cap (1..(i - 1))
  <2>1. a \in Seq(I) /\ \A x \in I : x \in 1..(i - 1)
    BY <1>4 DEF Lists1
  <2> HIDE DEF I
  <2>2. \A k \in 1..Len(a) : a[k] \in 1..(i - 1)
    BY <2>1
  <2> QED BY <2>1, <2>2, SequenceInto
<1>8. PICK m \in Seq(D) : m = MemoryDependencies(f, i) /\ Len(m) = Len(a)
                          /\ \A k \in 1..Len(a) : m[k] = [on |-> a[k], kind |-> "mem"]
  <2>1. DependOn(a, "mem") \in Seq(D)
    BY <1>7, DependOnIn
  <2>2. DependOn(a, "mem") = [k \in 1..Len(a) |-> [on |-> a[k], kind |-> "mem"]]
    BY <1>7 DEF DependOn
  <2>3. /\ Len(DependOn(a, "mem")) = Len(a)
        /\ \A k \in 1..Len(a) : DependOn(a, "mem")[k] = [on |-> a[k], kind |-> "mem"]
    BY <1>7, <2>2
  <2> QED BY <1>6, <2>1, <2>3
<1>9. PICK c \in Seq(D) : c = ControlDependencies(f, i)
  <2>1. ControlDependencies(f, i) = <<>>
    BY DEF ControlDependencies
  <2>2. <<>> \in Seq(D)
    <3> HIDE DEF D
    <3> QED OBVIOUS
  <2> QED BY <2>1, <2>2
<1>10. PICK k \in 1..Len(a) : a[k] = j /\ (k > 1 => a[k - 1] # j)
  BY <1>4, <1>5 DEF Lists1
<1> HIDE DEF D
<1>11. PICK s : s = r \o m \o c
  OBVIOUS
<1>12. /\ s \in Seq(D) /\ Len(r) + k \in 1..Len(s) /\ s[Len(r) + k] = m[k]
       /\ k > 1 => s[Len(r) + k - 1] = m[k - 1]
       /\ k = 1 /\ Len(r) > 0 => s[Len(r) + k - 1] = r[Len(r)]
  <2>1. k \in 1..Len(m)
    BY <1>8, <1>10
  <2>2. InMiddle(D, r, m, k, r \o m \o c)
    BY <2>1, MiddleOf
  <2> QED BY <1>11, <2>2 DEF InMiddle
<1>13. PICK R \in Nat : R = Len(r)
  OBVIOUS
<1>14. s[R + k] = [on |-> j, kind |-> "mem"]
  BY <1>8, <1>10, <1>12, <1>13
<1>15. R + k = 1 \/ s[R + k].on # s[R + k - 1].on
  <2>1. CASE k > 1
    <3>1. k - 1 \in 1..Len(a)
      <4>1. PICK l \in Nat : l = Len(a)
        BY <1>7
      <4>2. k \in 1..l
        BY <4>1
      <4>3. k - 1 \in 1..l
        BY <2>1, <4>2
      <4> QED BY <4>1, <4>3
    <3>2. m[k - 1].on = a[k - 1]
      <4>1. m[k - 1] = [on |-> a[k - 1], kind |-> "mem"]
        BY <1>8, <3>1
      <4> QED BY <4>1
    <3>3. s[R + k - 1].on # j
      BY <1>10, <1>12, <1>13, <2>1, <3>2
    <3> QED BY <1>14, <3>3
  <2>2. CASE k = 1 /\ R > 0
    <3>1. R \in 1..Len(args)
      BY <1>3, <1>13, <2>2
    <3>2. r[R].on = args[R] /\ R \in DOMAIN f[i].args
      BY <1>2, <1>3, <3>1
    <3>3. f[args[R]].op # "store"
      BY <1>2, <3>2 DEF LoadsUsedAtOnce
    <3>4. s[R + k - 1].on # j
      BY <1>12, <1>13, <2>2, <3>2, <3>3
    <3> QED BY <1>14, <3>4
  <2>3. CASE k = 1 /\ R = 0
    BY <2>3
  <2>4. k \in Nat /\ k >= 1
    <3>1. Len(a) \in Nat
      BY <1>7
    <3> QED BY <1>10
  <2> QED BY <1>13, <2>1, <2>2, <2>3, <2>4
<1>16. \E d \in DOMAIN Unique(s) : Unique(s)[d] = s[R + k]
  BY <1>12, <1>13, <1>15, UniqueKeeps
<1>17. getDependencies(f)[i] = Unique(s)
  BY <1>3, <1>8, <1>9, <1>11 DEF getDependencies
<1> QED BY <1>14, <1>16, <1>17

(* Where the threads stand: ep[i] is the place of instruction i in the list *)
(* of its thread.                                                           *)
Positions(M, own, ep, list, done) ==
  /\ M \in SUBSET Nat /\ own \in [M -> Partitions] /\ ep \in [M -> Nat] /\ pc \in [Partitions -> Nat]
  /\ \A i, j \in M : own[i] = own[j] /\ i < j => ep[i] < ep[j]
  /\ done = {j \in M : ep[j] < pc[own[j]]}
  /\ \A p \in Partitions : \A m \in DOMAIN list[p] :
       /\ m \in Nat
       /\ list[p][m].op = "exec" => \E i \in M : i = list[p][m].n /\ own[i] = p /\ ep[i] = m
       /\ list[p][m].op = "put" =>
            \E i \in M : \E k \in DOMAIN after[i] :
              /\ own[i] = p /\ ep[i] < m
              /\ after[i][k].op = "put" /\ after[i][k].n = list[p][m].n

(* The lists, as they are laid out, and the threads' positions in them. *)
LEMMA ThreadPositions ==
  ASSUME GraphInv, AllSupported, CallsInv, CodeRight, RunInv, phase = "run"
  PROVE  \E ep : Positions(Behind, Owner, ep, code.list, executed)
<1>1. PICK N \in Nat : N = Len(func)
  BY GraphNumbers
<1>2. PICK M, own, vx, B, A : M = Behind /\ own = Owner /\ vx = VertexIndex /\ B = before /\ A = after
  OBVIOUS
<1>3. PICK c : c = code
  OBVIOUS
<1>4. PICK list : list = c.list
  OBVIOUS
<1>5. PICK at : Lists(N, M, own, B, A, at, list) /\ Layout(M, own, vx, B, A, at, list)
  BY <1>1, <1>2, <1>3, <1>4, RunLayout
<1>6. CallsRight(N, M, own, vx, B, A)
  BY <1>1, <1>2, CallsRightNow
<1>7. PICK ep : ep = [i \in M |-> ExecPos(B, at, i)]
  OBVIOUS
<1>8. /\ \A i \in M : i \in 1..N /\ i \in Nat /\ own[i] \in Partitions
      /\ \A i \in 1..N : /\ Len(B[i]) \in Nat /\ Len(A[i]) \in Nat /\ at[i] \in Nat
                         /\ DOMAIN B[i] = 1..Len(B[i]) /\ DOMAIN A[i] = 1..Len(A[i])
      /\ \A p \in Partitions : Len(list[p]) \in Nat /\ DOMAIN list[p] = 1..Len(list[p])
  BY <1>5, ListNumbers
<1>9. M \in SUBSET Nat /\ own \in [M -> Partitions] /\ pc \in [Partitions -> Nat]
  BY <1>5, <1>8 DEF Lists, RunInv, Proved!IInv, Proved!PositionsOK
<1>10. ep \in [M -> Nat] /\ \A i \in M : ep[i] = ExecPos(B, at, i)
  <2>1. ASSUME NEW i \in M PROVE ExecPos(B, at, i) \in Nat
    <3>1. PICK b, a \in Nat : b = Len(B[i]) /\ a = at[i]
      BY <1>8
    <3> QED BY <3>1 DEF ExecPos
  <2> QED BY <1>7, <2>1
<1>11. ASSUME NEW i \in M, NEW j \in M, own[i] = own[j], i < j PROVE ep[i] < ep[j]
  <2>1. PICK bi, bj, ai, fi, fj \in Nat :
          bi = Len(B[i]) /\ bj = Len(B[j]) /\ ai = Len(A[i]) /\ fi = at[i] /\ fj = at[j]
    BY <1>8
  <2>2. at[i] + Width(B, A, i) <= at[j]
    BY <1>5, <1>11 DEF Layout
  <2>3. fi + (bi + 1 + ai) <= fj
    BY <2>1, <2>2 DEF Width
  <2>4. fi + bi + 1 < fj + bj + 1
    BY <2>3
  <2> QED BY <1>10, <2>1, <2>4 DEF ExecPos
<1>12. ASSUME NEW i \in M
       PROVE  <<own[i], ep[i]>> \in Proved!Places(c) /\ Proved!EntryAt(c, <<own[i], ep[i]>>) = [op |-> "exec", n |-> i, v |-> vx[i]]
  <2>1. Placed(own, vx, B, A, at, c, i)
    BY <1>4, <1>5, PlacesThere
  <2>2. PICK y : y = <<own[i], ep[i]>> /\ y = ExecPlace(own, at, B, i)
    BY <1>10 DEF ExecPlace, ExecPos
  <2>3. y \in Threads!Places(c) /\ Threads!EntryAt(c, y) = [op |-> "exec", n |-> i, v |-> vx[i]]
    BY <2>1, <2>2 DEF Placed
  <2>4. y \in Proved!Places(c) /\ Proved!EntryAt(c, y) = [op |-> "exec", n |-> i, v |-> vx[i]]
    BY <2>3 DEF Threads!Places, Proved!Places, Threads!EntryAt, Proved!EntryAt
  <2> QED BY <2>2, <2>4
<1>13. ASSUME NEW x \in Proved!Places(c), Proved!IsExec(Proved!EntryAt(c, x))
       PROVE  \E i \in M : x = <<own[i], ep[i]>> /\ Proved!EntryAt(c, x).n = i
  <2>1. x \in Threads!Places(c) /\ Threads!EntryAt(c, x) = Proved!EntryAt(c, x)
    BY DEF Threads!Places, Proved!Places, Threads!EntryAt, Proved!EntryAt
  <2>2. KindOf(M, own, vx, B, A, at, c, x)
    BY <1>4, <1>5, <1>6, <2>1, PlaceKinds
  <2>3. PICK i \in M : x = ExecPlace(own, at, B, i) /\ Threads!EntryAt(c, x).n = i
    BY <1>13, <2>1, <2>2 DEF KindOf, Threads!IsExec, Proved!IsExec
  <2>4. x = <<own[i], ep[i]>>
    BY <1>10, <2>3 DEF ExecPlace, ExecPos
  <2> QED BY <2>1, <2>3, <2>4
<1>14. executed = {j \in M : ep[j] < pc[own[j]]}
  <2>1. executed = {Proved!EntryAt(c, x).n : x \in {y \in Proved!Places(c) : Proved!IsExec(Proved!EntryAt(c, y)) /\ Proved!Passed(y)}}
    BY <1>3 DEF RunInv, Proved!IInv, Proved!ExecutedSoFar
  <2>2. ASSUME NEW j \in M, ep[j] < pc[own[j]] PROVE j \in executed
    <3>1. PICK y : y = <<own[j], ep[j]>>
      OBVIOUS
    <3>2. y \in Proved!Places(c) /\ Proved!IsExec(Proved!EntryAt(c, y)) /\ Proved!EntryAt(c, y).n = j
      <4>1. PICK e : e = [op |-> "exec", n |-> j, v |-> vx[j]]
        OBVIOUS
      <4>2. y \in Proved!Places(c) /\ Proved!EntryAt(c, y) = e
        BY <1>12, <3>1, <4>1
      <4>3. e.op = "exec" /\ e.n = j
        BY <4>1
      <4> QED BY <4>2, <4>3 DEF Proved!IsExec
    <3>3. Proved!Passed(y)
      BY <2>2, <3>1 DEF Proved!Passed
    <3> QED BY <2>1, <3>2, <3>3
  <2>3. ASSUME NEW j \in executed PROVE j \in M /\ ep[j] < pc[own[j]]
    <3>1. PICK y \in Proved!Places(c) : Proved!IsExec(Proved!EntryAt(c, y)) /\ Proved!Passed(y) /\ j = Proved!EntryAt(c, y).n
      BY <2>1
    <3>2. PICK i \in M : y = <<own[i], ep[i]>> /\ Proved!EntryAt(c, y).n = i
      BY <1>13, <3>1
    <3> QED BY <3>1, <3>2 DEF Proved!Passed
  <2> DEFINE Done == {j \in M : ep[j] < pc[own[j]]}
  <2>4. \A j \in executed : j \in Done
    BY <2>3
  <2>5. \A j \in Done : j \in executed
    BY <2>2
  <2> HIDE DEF Done
  <2>6. executed = Done
    BY <2>4, <2>5
  <2> QED BY <2>6 DEF Done
<1>15. ASSUME NEW p \in Partitions, NEW m \in DOMAIN list[p]
       PROVE  /\ m \in Nat
              /\ list[p][m].op = "exec" => \E i \in M : i = list[p][m].n /\ own[i] = p /\ ep[i] = m
              /\ list[p][m].op = "put" =>
                   \E i \in M : \E k \in DOMAIN A[i] :
                     /\ own[i] = p /\ ep[i] < m
                     /\ A[i][k].op = "put" /\ A[i][k].n = list[p][m].n
  <2>1. m \in Nat
    BY <1>8
  <2>2. PICK x : x = <<p, m>>
    OBVIOUS
  <2>3. x \in Proved!Places(c) /\ Proved!EntryAt(c, x) = list[p][m]
    BY <1>4, <2>2 DEF Proved!Places, Proved!EntryAt
  <2>4. ASSUME list[p][m].op = "exec" PROVE \E i \in M : i = list[p][m].n /\ own[i] = p /\ ep[i] = m
    <3>1. PICK i \in M : x = <<own[i], ep[i]>> /\ Proved!EntryAt(c, x).n = i
      BY <1>13, <2>3, <2>4 DEF Proved!IsExec
    <3> QED BY <2>2, <2>3, <3>1
  <2>5. ASSUME list[p][m].op = "put"
        PROVE  \E i \in M : \E k \in DOMAIN A[i] :
                     /\ own[i] = p /\ ep[i] < m
                     /\ A[i][k].op = "put" /\ A[i][k].n = list[p][m].n
    <3>1. x \in Threads!Places(c) /\ Threads!EntryAt(c, x) = list[p][m]
      BY <2>3 DEF Threads!Places, Proved!Places, Threads!EntryAt, Proved!EntryAt
    <3>2. KindOf(M, own, vx, B, A, at, c, x)
      BY <1>4, <1>5, <1>6, <3>1, PlaceKinds
    <3>3. PICK i \in M : \E k \in 1..Len(A[i]) :
            x = AfterPlace(own, at, B, i, k) /\ Threads!EntryAt(c, x) = Listed(A[i][k])
      BY <2>5, <3>1, <3>2 DEF KindOf, Threads!IsSend
    <3>4. PICK k \in 1..Len(A[i]) :
            x = AfterPlace(own, at, B, i, k) /\ Threads!EntryAt(c, x) = Listed(A[i][k])
      BY <3>3
    <3>5. own[i] = p /\ m = at[i] + Len(B[i]) + 1 + k
      BY <2>2, <3>4 DEF AfterPlace
    <3>6. PICK b, a, f \in Nat : b = Len(B[i]) /\ f = at[i] /\ a = Len(A[i])
      BY <1>8
    <3>7. k \in 1..a /\ m = f + b + 1 + k
      BY <3>5, <3>6
    <3>8. f + b + 1 < m
      BY <3>7
    <3>9. ep[i] < m
      BY <1>10, <3>6, <3>8 DEF ExecPos
    <3>10. A[i][k].op = "put" /\ A[i][k].n = list[p][m].n
      BY <2>5, <3>1, <3>4 DEF Listed
    <3>11. k \in DOMAIN A[i]
      BY <1>8
    <3> QED BY <3>5, <3>9, <3>10, <3>11
  <2> QED BY <2>1, <2>4, <2>5
<1>16. Positions(M, own, ep, list, executed)
  BY <1>2, <1>9, <1>10, <1>11, <1>14, <1>15 DEF Positions
<1> QED BY <1>2, <1>3, <1>4, <1>16

(* All that is known of the threads while they run. *)
Running == GraphInv /\ CallsInv /\ CodeRight /\ RunInv /\ phase = "run"

(* The hypothesis about the values: copyVariable is made for these functions. *)
AllUsedAtOnce == \A f \in Functions : LoadsUsedAtOnce(f)

(* The instruction a thread is at: of its own it has executed the earlier ones. *)
AtInstruction(p, i) ==
  /\ i \in Behind /\ Owner[i] = p /\ i \notin executed
  /\ \A j \in Behind : Owner[j] = p => (j \in executed <=> j < i)
(* A thread executes its instructions in the order of the function. *)
LEMMA ThreadOrder ==
  ASSUME Running, AllSupported, NEW p \in Partitions, Threads!At(p, "exec")
  PROVE  AtInstruction(p, Threads!Current(p).n) /\ executed \subseteq Behind
<1>1. PICK M, own, list, done : M = Behind /\ own = Owner /\ list = code.list /\ done = executed
  OBVIOUS
<1>2. PICK ep : Positions(M, own, ep, list, done)
  BY <1>1, ThreadPositions DEF Running
<1>3. pc[p] \in DOMAIN list[p] /\ list[p][pc[p]].op = "exec" /\ Threads!Current(p) = list[p][pc[p]]
  BY <1>1 DEF Threads!At, Threads!Running, Threads!Current
<1>4. PICK i \in M : i = Threads!Current(p).n /\ own[i] = p /\ ep[i] = pc[p]
  BY <1>2, <1>3 DEF Positions
<1>5. ep[i] \in Nat /\ i \in Nat /\ pc[p] \in Nat
  BY <1>2, <1>4 DEF Positions
<1>6. i \notin done
  BY <1>2, <1>4, <1>5 DEF Positions
<1>7. ASSUME NEW j \in M, own[j] = p PROVE j \in done <=> j < i
  <2>1. PICK a, b \in Nat : a = ep[j] /\ b = ep[i] /\ b = pc[p]
    BY <1>2, <1>4 DEF Positions
  <2>2. j \in done <=> a < b
    BY <1>2, <1>7, <2>1 DEF Positions
  <2>3. (j < i => a < b) /\ (i < j => b < a) /\ (i = j => a = b)
    BY <1>2, <1>4, <1>7, <2>1 DEF Positions
  <2>4. j \in Nat
    BY <1>2 DEF Positions
  <2>5. a < b <=> j < i
    BY <1>5, <2>3, <2>4
  <2> QED BY <2>2, <2>5
<1>8. done \subseteq M
  BY <1>2 DEF Positions
<1> QED BY <1>1, <1>4, <1>6, <1>7, <1>8 DEF AtInstruction

(* What a thread has not passed has not been executed. *)
LEMMA NotPassedYet ==
  ASSUME Running, AllSupported, NEW p \in Partitions, NEW m \in DOMAIN code.list[p],
         code.list[p][m].op = "exec", pc[p] <= m
  PROVE  code.list[p][m].n \in Behind /\ code.list[p][m].n \notin executed
<1>1. PICK M, own, list, done : M = Behind /\ own = Owner /\ list = code.list /\ done = executed
  OBVIOUS
<1>2. PICK ep : Positions(M, own, ep, list, done)
  BY <1>1, ThreadPositions DEF Running
<1>3. PICK i \in M : i = list[p][m].n /\ own[i] = p /\ ep[i] = m
  BY <1>1, <1>2 DEF Positions
<1>4. PICK a, b \in Nat : a = ep[i] /\ b = pc[p] /\ a = m
  BY <1>2, <1>3 DEF Positions
<1>5. ~ (a < b)
  BY <1>4
<1>6. i \notin done
  BY <1>2, <1>3, <1>4, <1>5 DEF Positions
<1> QED BY <1>1, <1>3, <1>6

(* What is put into a mailbox has been executed. *)
LEMMA PutExecuted ==
  ASSUME Running, AllSupported, NEW p \in Partitions, Threads!At(p, "put")
  PROVE  /\ PutOperand(Threads!Current(p).n) \in executed
         /\ \E i \in 1..Len(func) : after[i] # <<>>
<1>1. PICK M, own, list, done : M = Behind /\ own = Owner /\ list = code.list /\ done = executed
  OBVIOUS
<1>2. PICK ep : Positions(M, own, ep, list, done)
  BY <1>1, ThreadPositions DEF Running
<1>3. PICK m : m = pc[p]
  OBVIOUS
<1>4. m \in DOMAIN list[p] /\ list[p][m].op = "put" /\ Threads!Current(p) = list[p][m]
  BY <1>1, <1>3 DEF Threads!At, Threads!Running, Threads!Current
<1>5. PICK n : n = Threads!Current(p).n
  OBVIOUS
<1>6. PICK i \in M : \E k \in DOMAIN after[i] :
        own[i] = p /\ ep[i] < m /\ after[i][k].op = "put" /\ after[i][k].n = n
  BY <1>2, <1>4, <1>5 DEF Positions
<1>7. PICK k \in DOMAIN after[i] :
        own[i] = p /\ ep[i] < m /\ after[i][k].op = "put" /\ after[i][k].n = n
  BY <1>6
<1>8. PICK N \in Nat : N = Len(func)
  BY GraphNumbers DEF Running
<1>9. i \in 1..N /\ M \subseteq 1..N /\ DOMAIN after = 1..N
  BY <1>1, <1>8 DEF Behind, Running, CallsInv, CallsTyped
<1>10. PICK e : e = after[i][k]
  OBVIOUS
<1>11. e.of \in M /\ own[e.of] = own[i] /\ e.of <= i
  <2>1. CallsRight(N, M, own, VertexIndex, before, after)
    BY <1>1, <1>8, CallsRightNow DEF Running
  <2> QED BY <1>9, <1>10, <2>1 DEF CallsRight
<1>12. e.of \in done
  <2>1. PICK a, b, c \in Nat : a = ep[e.of] /\ b = ep[i] /\ c = pc[p]
    BY <1>2, <1>11 DEF Positions
  <2>2. e.of < i => a < b
    BY <1>2, <1>11, <2>1 DEF Positions
  <2>3. e.of \in Nat /\ i \in Nat
    BY <1>2, <1>11 DEF Positions
  <2>4. a < b \/ a = b
    <3>1. e.of < i \/ e.of = i
      BY <1>11, <2>3
    <3> QED BY <2>1, <2>2, <3>1
  <2>5. b < c
    BY <1>3, <1>7, <2>1
  <2>6. a < c
    BY <2>4, <2>5
  <2> QED BY <1>2, <1>7, <1>11, <2>1, <2>6 DEF Positions
<1>13. PutOperand(n) = e.of
  <2> DEFINE S == UNION {ToSet(after[j]) : j \in DOMAIN after}
  <2>1. e \in S /\ e.op = "put" /\ e.n = n
    BY <1>7, <1>9, <1>10 DEF ToSet
  <2>2. ASSUME NEW d \in S, d.op = "put", d.n = n PROVE d = e
    <3>1. PICK j \in 1..N : d \in ToSet(after[j])
      BY <1>9
    <3>2. PICK l \in DOMAIN after[j] : d = after[j][l]
      BY <3>1 DEF ToSet
    <3>3. SameChannel(after[j][l], after[i][k])
      BY <1>10, <2>1, <2>2, <3>2 DEF SameChannel
    <3>4. j = i /\ l = k
      BY <1>8, <1>9, <3>2, <3>3 DEF Running, CallsInv, CallsOnce
    <3> QED BY <1>10, <3>2, <3>4
  <2>3. (CHOOSE d \in S : d.op = "put" /\ d.n = n) = e
    <3> HIDE DEF S
    <3> QED BY <2>1, <2>2
  <2> QED BY <2>3 DEF PutOperand
<1>14. after[i] # <<>>
  OBVIOUS
<1> QED BY <1>1, <1>5, <1>8, <1>9, <1>12, <1>13, <1>14

(* All of the function in one partition: it has one thread. *)
LEMMA OneThread ==
  ASSUME GraphInv, OnePartition
  PROVE  \A u, v \in DOMAIN vertices : part[u] = part[v]
<1> DEFINE S == {part[v] : v \in DOMAIN vertices}
<1>1. Cardinality(S) = 1
  BY DEF OnePartition
<1>2. PICK n \in Nat : DOMAIN vertices = 1..n
  BY DEF GraphInv, GraphTyped
<1>3. IsFiniteSet(S)
  <2> DEFINE s == [v \in 1..n |-> part[v]]
  <2>1. \A v \in 1..n : part[v] \in S
    BY <1>2
  <2>2. \A e \in S : \E v \in 1..n : part[v] = e
    BY <1>2
  <2> HIDE DEF S
  <2>3. s \in Seq(S) /\ Len(s) = n /\ \A v \in 1..n : s[v] = part[v]
    BY <2>1
  <2> HIDE DEF s
  <2>4. \A e \in S : \E v \in 1..Len(s) : s[v] = e
    BY <2>2, <2>3
  <2> QED BY <2>3, <2>4 DEF IsFiniteSet
<1>4. \A u \in DOMAIN vertices : part[u] \in S
  OBVIOUS
<1> HIDE DEF S
<1>5. PICK x : S = {x}
  BY <1>1, <1>3, FS_Singleton
<1> QED BY <1>4, <1>5

(* In one partition there is nothing to send. *)
AloneInv == phase # "graph" /\ OnePartition => \A i \in 1..Len(func) : after[i] = <<>>
(* That depends on the calls and on the partitions alone. *)
LEMMA AloneKept ==
  ASSUME AloneInv, UNCHANGED <<graphVars, part, after>>, phase' # "graph" => phase # "graph" PROVE AloneInv'
  BY DEF AloneInv, OnePartition, graphVars
(* handleDependencies inserts calls between two partitions only. *)
LEMMA AloneStep == ASSUME GraphInv, AllSupported, CallsInv, AloneInv, [Next]_vars PROVE AloneInv'
<1>1. CASE CreateVertices
  BY <1>1 DEF CreateVertices, passVars, AloneInv
<1>2. CASE AssignPartitions
  <2>1. func' = func /\ after' = after /\ phase = "graph"
    BY <1>2 DEF AssignPartitions, graphVars
  <2> QED BY <2>1 DEF AloneInv, CallsInv, CallsTyped
<1>3. CASE BridgeDependency
  <2>1. /\ phase = "dependencies" /\ tgt <= Len(func) /\ nextDep <= Len(dependenciesOf(tgt))
        /\ Crosses(tgt, dependenciesOf(tgt)[nextDep])
        /\ UNCHANGED <<graphVars, part>>
    BY <1>3 DEF BridgeDependency
  <2>2. PICK t \in Nat : t = tgt
    BY DEF CallsInv, CallsTyped
  <2>3. t \in 1..Len(func)
    <3>1. PICK N \in Nat : N = Len(func)
      BY GraphNumbers
    <3>2. t \in 1..(N + 1) /\ t <= N
      BY <2>1, <2>2, <3>1 DEF CallsInv, CallsTyped
    <3>3. t \in 1..N
      BY <3>2
    <3> QED BY <3>1, <3>3
  <2>4. PICK d \in Nat : d = nextDep /\ d >= 1
    BY DEF CallsInv, CallsTyped
  <2>5. d \in DOMAIN dependenciesOf(t)
    <3>1. PICK L \in Nat : L = Len(dependenciesOf(t)) /\ DOMAIN dependenciesOf(t) = 1..L
      BY <2>3, DependencyIndex
    <3>2. d <= L
      BY <2>1, <2>2, <2>4, <3>1
    <3> QED BY <2>4, <3>1, <3>2
  <2>6. /\ vertexOf(t) \in DOMAIN vertices
        /\ vertexOf(dependenciesOf(t)[d].on) \in DOMAIN vertices
    BY <2>1, <2>2, <2>3, <2>4, <2>5, CrossingForward DEF CallsInv
  <2>7. part[vertexOf(t)] # part[vertexOf(dependenciesOf(t)[d].on)]
    BY <2>1, <2>2, <2>4 DEF Crosses
  <2>8. ~ OnePartition
    BY <2>6, <2>7, OneThread
  <2>9. ~ OnePartition'
    BY <2>1, <2>8 DEF OnePartition, graphVars
  <2> QED BY <2>9 DEF AloneInv
<1>4. CASE SkipDependency \/ NextTarget \/ SavePartitioning
  BY <1>4, AloneKept DEF SkipDependency, NextTarget, SavePartitioning
<1>5. CASE \E p \in Partitions : RunInstruction(p) \/ RunBranch(p) \/ RunCall(p)
  BY <1>5, AloneKept DEF RunInstruction, RunBranch, RunCall, passVars
<1>6. CASE CallAgain
  BY <1>6, AloneKept DEF CallAgain, passVars
<1>7. CASE UNCHANGED vars
  BY <1>7, AloneKept DEF vars, passVars
<1> QED BY <1>1, <1>2, <1>3, <1>4, <1>5, <1>6, <1>7 DEF Next
(* So it holds of every run of the pass. *)
LEMMA AloneAlways == ASSUME AllSupported PROVE Spec => []AloneInv
<1>1. Init => AloneInv
  BY DEF Init, AloneInv
<1>2. GraphInv /\ CallsInv /\ AloneInv /\ [Next]_vars => AloneInv'
  BY AloneStep
<1> QED BY <1>1, <1>2, CallsAlways, PTL DEF Spec

(* When a load is executed, so are the stores before it. *)
LEMMA StoresFirst ==
  ASSUME Running, AllSupported, AllUsedAtOnce, NEW i \in executed, i \in 1..Len(func), func[i].op = "load",
         NEW j \in 1..(i - 1), func[j].op = "store", func[j].ptr = func[i].ptr, vertexOf(j) # 0
  PROVE  j \in executed
<1>1. func \in Functions /\ DOMAIN func = 1..Len(func)
  BY GraphNumbers DEF Running
<1>2. PICK dep : dep = [on |-> j, kind |-> "mem"]
  OBVIOUS
<1>3. dep \in ToSet(dependenciesOf(i))
  <2>1. Supported(func) /\ LoadsUsedAtOnce(func)
    BY <1>1 DEF AllSupported, AllUsedAtOnce
  <2>2. \E d \in DOMAIN getDependencies(func)[i] : getDependencies(func)[i][d] = [on |-> j, kind |-> "mem"]
    BY <1>1, <2>1, MemoryDependencyFound
  <2> QED BY <1>2, <2>2 DEF ToSet, dependenciesOf
<1>4. dep.on = j /\ dep.kind = "mem"
  BY <1>2
<1>5. CanTransfer(dep)
  BY <1>4 DEF CanTransfer, useSemaphores
<1>6. <<j, i>> \in RequiredOrder
  BY <1>1, <1>3, <1>4, <1>5 DEF RequiredOrder
<1>7. <<j, i>> \in code.deps
  BY <1>6 DEF Running, CodeRight
<1>8. DependenciesFirst
  BY DependenciesHold DEF Running
<1> QED BY <1>7, <1>8 DEF DependenciesFirst, Running

(* The stores to l this call has executed; m is the greatest of S, or 0. *)
Stored(l) == {j \in executed \ skipped : func[j].op = "store" /\ func[j].ptr = l}
Settled(l) == SingleAssignment(l) \/ OnePartition
Greatest(S, m) == IF S = {} THEN m = 0 ELSE m \in S /\ \A j \in S : j <= m
EarlierStores(i) ==
  {j \in 1..(i - 1) : func[j].op = "store" /\ func[j].ptr = func[i].ptr
                      /\ vertexOf(j) # 0 /\ j \notin skipped}

MemoryRight ==
  \A l \in Locations : Settled(l) \/ Stored(l) = {} => Greatest(Stored(l), memory[l])
SeenRight ==
  \A x \in seen : /\ x[1] \in executed /\ func[x[1]].op = "load"
                  /\ Settled(func[x[1]].ptr) => x[2] = SequentialSource(x[1])
ValueInv ==
  /\ memory \in [Locations -> Nat]
  /\ skipped \subseteq executed
  /\ MemoryRight
  /\ SeenRight

(* Max is the greatest of a set of numbers. *)
LEMMA GreatestIs ==
  ASSUME NEW S \in SUBSET Nat, NEW m, Greatest(S, m)
  PROVE  (IF S = {} THEN 0 ELSE Max(S)) = m
<1>1. CASE S = {}
  BY <1>1 DEF Greatest
<1>2. CASE S # {}
  <2>1. m \in S /\ \A j \in S : j <= m
    BY <1>2 DEF Greatest
  <2>2. ASSUME NEW x \in S, \A y \in S : x >= y PROVE x = m
    <3>1. x <= m /\ x >= m /\ x \in Nat /\ m \in Nat
      BY <2>1, <2>2
    <3> QED BY <3>1
  <2>3. \A y \in S : m >= y
    BY <2>1
  <2>4. Max(S) = m
    BY <2>1, <2>2, <2>3 DEF Max
  <2> QED BY <1>2, <2>4
<1> QED BY <1>1, <1>2

(* The sequential function reads the last store before the load. *)
LEMMA SourceIs ==
  ASSUME NEW i, i \in Nat, NEW m, Greatest(EarlierStores(i), m) PROVE SequentialSource(i) = m
<1> DEFINE S == EarlierStores(i)
<1>1. S \in SUBSET Nat
  BY DEF EarlierStores
<1>2. SequentialSource(i) = IF S = {} THEN 0 ELSE Max(S)
  BY DEF SequentialSource, EarlierStores
<1> HIDE DEF S
<1>3. (IF S = {} THEN 0 ELSE Max(S)) = m
  <2>1. Greatest(S, m)
    BY DEF S
  <2> QED BY <1>1, <2>1, GreatestIs
<1> QED BY <1>2, <1>3

(* Only instructions in the graph are executed. *)
LEMMA ExecutedBehind ==
  ASSUME Running, AllSupported
  PROVE  executed \subseteq Behind /\ \A i \in executed : i \in 1..Len(func) /\ i \in Nat /\ vertexOf(i) # 0
<1>1. PICK N \in Nat : N = Len(func)
  BY GraphNumbers DEF Running
<1>2. executed \subseteq Behind
  BY ThreadPositions DEF Running, Positions
<1> QED BY <1>1, <1>2 DEF Behind

(* A load of a settled location that is read now has the sequential value. *)
LEMMA ReadsRight ==
  ASSUME Running, AllSupported, AllUsedAtOnce, ValueInv,
         NEW i \in executed, func[i].op = "load", Settled(func[i].ptr),
         OnePartition => \A j \in executed : func[j].op = "store" /\ func[j].ptr = func[i].ptr => j < i
  PROVE  memory[func[i].ptr] = SequentialSource(i)
<1>1. PICK N \in Nat : N = Len(func) /\ DOMAIN func = 1..N
  BY GraphNumbers DEF Running
<1>2. i \in 1..N /\ i \in Nat
  BY <1>1, ExecutedBehind
<1>3. PICK l : l = func[i].ptr
  OBVIOUS
<1>4. l \in Locations
  BY <1>1, <1>2, <1>3 DEF Locations
<1>5. ASSUME NEW j \in executed, func[j].op = "store", func[j].ptr = l
      PROVE  j \in 1..(i - 1) /\ vertexOf(j) # 0
  <2>1. j \in 1..N /\ j \in Nat /\ vertexOf(j) # 0
    BY <1>1, ExecutedBehind
  <2>2. CASE OnePartition
    <3>1. j < i
      BY <1>3, <1>5, <2>2
    <3> QED BY <1>2, <2>1, <3>1
  <2>3. CASE SingleAssignment(l)
    <3>1. i >= j
      BY <1>1, <1>2, <1>3, <1>5, <2>1, <2>3 DEF SingleAssignment
    <3>2. i # j
      BY <1>5
    <3>3. j \in 1..(i - 1)
      BY <1>2, <2>1, <3>1, <3>2
    <3> QED BY <2>1, <3>3
  <2> QED BY <1>3, <2>2, <2>3 DEF Settled
<1>6. ASSUME NEW j \in EarlierStores(i) PROVE j \in Stored(l)
  <2>1. j \in 1..(i - 1) /\ func[j].op = "store" /\ func[j].ptr = l /\ vertexOf(j) # 0 /\ j \notin skipped
    BY <1>3 DEF EarlierStores
  <2>2. j \in executed
    BY <1>1, <1>2, <1>3, <2>1, StoresFirst
  <2> QED BY <2>1, <2>2 DEF Stored
<1>7. ASSUME NEW j \in Stored(l) PROVE j \in EarlierStores(i)
  <2>1. j \in executed /\ func[j].op = "store" /\ func[j].ptr = l /\ j \notin skipped
    BY DEF Stored
  <2>2. j \in 1..(i - 1) /\ vertexOf(j) # 0
    BY <1>5, <2>1
  <2> QED BY <1>3, <2>1, <2>2 DEF EarlierStores
<1>8. EarlierStores(i) = Stored(l)
  <2>1. \A j : j \in EarlierStores(i) <=> j \in Stored(l)
    BY <1>6, <1>7
  <2> QED BY <2>1 DEF EarlierStores, Stored
<1>9. Greatest(Stored(l), memory[l])
  BY <1>3, <1>4 DEF ValueInv, MemoryRight
<1>10. Greatest(EarlierStores(i), memory[l])
  BY <1>8, <1>9
<1> QED BY <1>2, <1>3, <1>10, SourceIs

(* A load that was read keeps its sequential value: what a branch skips now *)
(* stands behind it or is no store to its location.                         *)
LEMMA SourceKept ==
  ASSUME Running, AllSupported, AllUsedAtOnce, UNCHANGED graphVars,
         NEW i \in executed, func[i].op = "load",
         skipped \subseteq skipped', \A j \in skipped' : j \in skipped \/ j \notin executed
  PROVE  SequentialSource(i)' = SequentialSource(i)
<1>1. PICK N \in Nat : N = Len(func) /\ DOMAIN func = 1..N
  BY GraphNumbers DEF Running
<1>2. i \in 1..N /\ i \in Nat
  BY <1>1, ExecutedBehind
<1>3. func' = func /\ \A j : vertexOf(j)' = vertexOf(j)
  BY SameGraph
<1> DEFINE S == {j \in 1..(i - 1) : func[j].op = "store" /\ func[j].ptr = func[i].ptr
                      /\ vertexOf(j) # 0 /\ j \notin skipped}
           T == {j \in 1..(i - 1) : func[j].op = "store" /\ func[j].ptr = func[i].ptr
                      /\ vertexOf(j) # 0 /\ j \notin skipped'}
<1>4. \A j \in S : j \in T
  <2> SUFFICES ASSUME NEW j \in S PROVE j \notin skipped'
    OBVIOUS
  <2>1. j \in executed
    BY <1>1, <1>2, StoresFirst
  <2> QED BY <2>1
<1>5. \A j \in T : j \in S
  OBVIOUS
<1>6. S = T
  <2> HIDE DEF S, T
  <2> QED BY <1>4, <1>5
<1>7. SequentialSource(i) = IF S = {} THEN 0 ELSE Max(S)
  BY DEF SequentialSource
<1>8. SequentialSource(i)' = IF T = {} THEN 0 ELSE Max(T)
  <2> DEFINE U == {j \in 1..(i - 1) : func'[j].op = "store" /\ func'[j].ptr = func'[i].ptr
                      /\ vertexOf(j)' # 0 /\ j \notin skipped'}
  <2>1. SequentialSource(i)' = IF U = {} THEN 0 ELSE Max(U)
    BY DEF SequentialSource
  <2>2. (\A j \in U : j \in T) /\ (\A j \in T : j \in U)
    BY <1>3
  <2> HIDE DEF T, U
  <2>3. U = T
    BY <2>2
  <2> QED BY <2>1, <2>3
<1> HIDE DEF S, T
<1> QED BY <1>6, <1>7, <1>8

(* The loads a statement may read now. *)
Readable(loads) ==
  \A a \in loads : /\ a \in executed /\ func[a].op = "load"
                   /\ OnePartition => \A j \in executed : func[j].op = "store" /\ func[j].ptr = func[a].ptr => j < a

(* The operands of an instruction were executed before it, and no store   *)
(* to their locations came between.                                       *)
LEMMA OperandsReadable ==
  ASSUME Running, AllSupported, AllUsedAtOnce, NEW p \in Partitions, NEW i, AtInstruction(p, i),
         executed \subseteq Behind,
         NEW t \in 1..Len(func), i <= t, NEW args, args \subseteq ToSet(func[t].args), \A a \in args : a < i
  PROVE  Readable(LoadsNamed(i, args))
<1>1. PICK N \in Nat : N = Len(func) /\ DOMAIN func = 1..N /\ func \in Functions
  BY GraphNumbers DEF Running
<1>2. i \in 1..N /\ i \in Nat /\ vertexOf(i) # 0 /\ t \in 1..N /\ t \in Nat
  BY <1>1 DEF AtInstruction, Behind
<1>3. LoadsUsedAtOnce(func)
  BY <1>1 DEF AllUsedAtOnce
<1>4. \A j \in Behind : j \in Nat /\ vertexOf(j) \in DOMAIN vertices /\ Owner[j] = part[vertexOf(j)]
  <2> SUFFICES ASSUME NEW j \in Behind PROVE j \in Nat /\ vertexOf(j) \in DOMAIN vertices /\ Owner[j] = part[vertexOf(j)]
    OBVIOUS
  <2>1. j \in Nat /\ vertexOf(j) # 0
    BY <1>1 DEF Behind
  <2> QED BY <2>1, VertexFacts DEF Running, vertexOf, Owner
<1> SUFFICES ASSUME NEW a \in LoadsNamed(i, args)
             PROVE  /\ a \in executed /\ func[a].op = "load"
                    /\ OnePartition => \A j \in executed : func[j].op = "store" /\ func[j].ptr = func[a].ptr => j < a
  BY DEF Readable
<1>5. a \in args /\ func[a].op = "load" /\ part[vertexOf(a)] = part[vertexOf(i)]
  BY DEF LoadsNamed
<1>6. PICK k \in DOMAIN func[t].args : func[t].args[k] = a
  BY <1>5 DEF ToSet
<1>7. a \in 1..N /\ a \in Nat /\ a < i
  <2>1. a < i
    BY <1>5
  <2>2. a \in 1..(t - 1)
    <3>1. Supported(func)
      BY <1>1 DEF AllSupported
    <3> QED BY <1>1, <1>2, <1>6, <3>1 DEF Supported, NoLoops
  <2> QED BY <1>2, <2>1, <2>2
<1>8. a > Params
  <2>1. a > 2 * Cardinality(Allocas(func))
    BY <1>1, <1>3, <1>5, <1>7 DEF LoadsUsedAtOnce
  <2>2. Params = 2 * Cardinality(Allocas(func))
    BY <1>1, FunctionFacts
  <2> QED BY <2>1, <2>2
<1>9. vertexOf(a) # 0
  <2>1. pos = Len(func)
    BY DEF Running, CallsInv, CallsTyped
  <2>2. Base = N
    BY <1>1, <2>1, CompleteGraph DEF Running
  <2>3. PICK b \in Nat : b = Params
    BY GraphNumbers DEF Running
  <2>4. a \in (b + 1)..N
    BY <1>7, <1>8, <2>3
  <2> QED BY <1>7, <2>2, <2>3, <2>4, VertexFacts DEF Running, vertexOf
<1>10. a \in Behind /\ Owner[a] = p
  BY <1>1, <1>4, <1>5, <1>7, <1>9 DEF Behind, AtInstruction
<1>11. a \in executed
  BY <1>7, <1>10 DEF AtInstruction
<1>12. ASSUME OnePartition, NEW j \in executed, func[j].op = "store", func[j].ptr = func[a].ptr PROVE j < a
  <2>1. j \in Behind /\ j \in Nat
    BY <1>4
  <2>2. Owner[j] = p
    <3>1. part[vertexOf(j)] = part[vertexOf(i)]
      BY <1>4, <1>12, <2>1, OneThread DEF Running, AtInstruction
    <3> QED BY <1>4, <2>1, <3>1 DEF AtInstruction
  <2>3. j < i
    BY <1>12, <2>1, <2>2 DEF AtInstruction
  <2>4. \A s \in (a + 1)..(t - 1) : func[s].op = "store" => func[s].ptr # func[a].ptr
    BY <1>1, <1>3, <1>5, <1>6 DEF LoadsUsedAtOnce
  <2>5. j \notin (a + 1)..(t - 1)
    BY <1>12, <2>4
  <2>6. j # a
    BY <1>5, <1>12
  <2> QED BY <1>2, <1>7, <2>1, <2>3, <2>5, <2>6
<1> QED BY <1>5, <1>11, <1>12

(* Which locations are settled is a matter of the function and its partitions. *)
LEMMA SettledSame ==
  ASSUME UNCHANGED <<graphVars, part>>
  PROVE  /\ OnePartition' = OnePartition /\ Locations' = Locations /\ func' = func
         /\ \A l : Settled(l)' = Settled(l)
  BY DEF graphVars, OnePartition, Locations, Settled, SingleAssignment

(* What was seen stays right, and what is read now is right. *)
LEMMA SeenStep ==
  ASSUME Running, AllSupported, AllUsedAtOnce, ValueInv, UNCHANGED <<graphVars, part>>,
         executed \subseteq executed', skipped \subseteq skipped',
         \A j \in skipped' : j \in skipped \/ j \notin executed,
         NEW loads, Readable(loads), seen' \subseteq seen \union {<<a, memory[func[a].ptr]>> : a \in loads}
  PROVE  SeenRight'
<1>1. func' = func /\ \A l : Settled(l)' = Settled(l)
  BY SettledSame
<1> SUFFICES ASSUME NEW x \in seen'
             PROVE  /\ x[1] \in executed' /\ func[x[1]].op = "load"
                    /\ Settled(func[x[1]].ptr) => x[2] = SequentialSource(x[1])'
  BY <1>1 DEF SeenRight
<1>2. CASE x \in seen
  <2>1. PICK i \in executed : i = x[1] /\ func[i].op = "load"
    BY <1>2 DEF ValueInv, SeenRight
  <2>2. SequentialSource(i)' = SequentialSource(i)
    BY <2>1, SourceKept
  <2> QED BY <1>2, <2>1, <2>2 DEF ValueInv, SeenRight
<1>3. CASE x \notin seen
  <2>1. PICK a \in loads : x = <<a, memory[func[a].ptr]>>
    BY <1>3
  <2>2. a \in executed /\ func[a].op = "load"
    BY <2>1 DEF Readable
  <2>3. SequentialSource(a)' = SequentialSource(a)
    BY <2>2, SourceKept
  <2>4. Settled(func[a].ptr) => memory[func[a].ptr] = SequentialSource(a)
    BY <2>1, <2>2, ReadsRight DEF Readable
  <2> QED BY <2>1, <2>2, <2>3, <2>4
<1> QED BY <1>2, <1>3

(* A statement: a store is the last one to its location. *)
LEMMA InstructionValues ==
  ASSUME Running, AllSupported, AllUsedAtOnce, ValueInv, NEW p \in Partitions, RunInstruction(p)
  PROVE  ValueInv'
<1>1. PICK i : i = Threads!Current(p).n
  OBVIOUS
<1>2. /\ UNCHANGED <<graphVars, part, skipped>> /\ Threads!At(p, "exec")
      /\ executed' = executed \union {i}
      /\ memory' = IF func[i].op = "store" THEN [memory EXCEPT ![func[i].ptr] = i] ELSE memory
      /\ seen' = seen \union {<<a, memory[func[a].ptr]>> : a \in getOperandString(i)}
  BY <1>1 DEF RunInstruction, Read, Threads!Exec, passVars
<1>3. AtInstruction(p, i) /\ executed \subseteq Behind
  BY <1>1, <1>2, ThreadOrder
<1>4. PICK N \in Nat : N = Len(func) /\ DOMAIN func = 1..N /\ func \in Functions
  BY GraphNumbers DEF Running
<1>5. i \in 1..N /\ i \in Nat /\ i \notin executed
  BY <1>3, <1>4 DEF AtInstruction, Behind
<1>6. /\ func' = func /\ Locations' = Locations /\ OnePartition' = OnePartition
      /\ \A l : Settled(l)' = Settled(l)
  BY <1>2, SettledSame
<1>7. \A j \in Behind : Owner[j] = part[vertexOf(j)] /\ vertexOf(j) \in DOMAIN vertices /\ j \in Nat
  <2> SUFFICES ASSUME NEW j \in Behind PROVE j \in Nat /\ vertexOf(j) \in DOMAIN vertices /\ Owner[j] = part[vertexOf(j)]
    OBVIOUS
  <2>1. j \in Nat /\ vertexOf(j) # 0
    BY <1>4 DEF Behind
  <2> QED BY <2>1, VertexFacts DEF Running, vertexOf, Owner
<1>8. i \notin skipped /\ skipped' \subseteq executed'
  BY <1>2, <1>5 DEF ValueInv
<1>9. memory' \in [Locations -> Nat]
  <2>1. func[i].op = "store" => func[i].ptr \in Locations
    BY <1>4, <1>5 DEF Locations
  <2> QED BY <1>2, <1>5, <2>1 DEF ValueInv
<1>10. \A l : Stored(l)' = IF func[i].op = "store" /\ func[i].ptr = l THEN Stored(l) \union {i} ELSE Stored(l)
  <2> SUFFICES ASSUME NEW l
               PROVE  Stored(l)' = IF func[i].op = "store" /\ func[i].ptr = l THEN Stored(l) \union {i} ELSE Stored(l)
    OBVIOUS
  <2>1. Stored(l)' = {j \in (executed \union {i}) \ skipped : func[j].op = "store" /\ func[j].ptr = l}
    BY <1>2, <1>6 DEF Stored
  <2> QED BY <1>8, <2>1 DEF Stored
<1>11. MemoryRight'
  <2> SUFFICES ASSUME NEW l \in Locations, Settled(l) \/ Stored(l)' = {}
               PROVE  Greatest(Stored(l)', memory'[l])
    BY <1>6 DEF MemoryRight
  <2>1. CASE func[i].op = "store" /\ func[i].ptr = l
    <3>1. Stored(l)' = Stored(l) \union {i} /\ Settled(l) /\ memory'[l] = i
      BY <1>2, <1>10, <2>1 DEF ValueInv
    <3>2. ASSUME NEW j \in Stored(l) PROVE j <= i
      <4>1. j \in executed /\ func[j].op = "store" /\ func[j].ptr = l /\ j \in Behind /\ j \in 1..N /\ j \in Nat
        BY <1>3, <1>4, <1>7 DEF Stored, Behind
      <4>2. CASE SingleAssignment(l)
        <5>1. i >= j
          BY <1>4, <1>5, <2>1, <4>1, <4>2 DEF SingleAssignment
        <5> QED BY <1>5, <4>1, <5>1
      <4>3. CASE OnePartition
        <5>1. part[vertexOf(j)] = part[vertexOf(i)]
          BY <1>3, <1>7, <4>1, <4>3, OneThread DEF Running, AtInstruction
        <5>2. Owner[j] = p
          BY <1>3, <1>7, <4>1, <5>1 DEF AtInstruction
        <5>3. j < i
          BY <1>3, <4>1, <5>2 DEF AtInstruction
        <5> QED BY <1>5, <4>1, <5>3
      <4> QED BY <3>1, <4>2, <4>3 DEF Settled
    <3>3. i <= i
      BY <1>5
    <3> QED BY <3>1, <3>2, <3>3 DEF Greatest
  <2>2. CASE ~ (func[i].op = "store" /\ func[i].ptr = l)
    <3>1. Stored(l)' = Stored(l) /\ memory'[l] = memory[l]
      BY <1>2, <1>10, <2>2 DEF ValueInv
    <3> QED BY <3>1 DEF ValueInv, MemoryRight
  <2> QED BY <2>1, <2>2
<1>12. SeenRight'
  <2>1. Readable(getOperandString(i))
    <3>1. CASE func[i].op \in {"load", "getelementptr", "phi"}
      BY <3>1 DEF getOperandString, Readable
    <3>2. CASE func[i].op \notin {"load", "getelementptr", "phi"}
      <4>1. getOperandString(i) = LoadsNamed(i, ToSet(func[i].args))
        BY <3>2 DEF getOperandString
      <4>2. \A a \in ToSet(func[i].args) : a < i
        <5>1. Supported(func)
          BY <1>4 DEF AllSupported
        <5>2. \A k \in DOMAIN func[i].args : func[i].args[k] \in 1..(i - 1)
          BY <1>4, <1>5, <5>1 DEF Supported, NoLoops
        <5> QED BY <1>5, <5>2 DEF ToSet
      <4>3. i <= i
        BY <1>5
      <4> QED BY <1>3, <1>4, <1>5, <4>1, <4>2, <4>3, OperandsReadable
    <3> QED BY <3>1, <3>2
  <2> QED BY <1>2, <2>1, SeenStep
<1> QED BY <1>6, <1>8, <1>9, <1>11, <1>12 DEF ValueInv

(* A branch skips instructions that were not executed, and stores nothing. *)
LEMMA BranchValues ==
  ASSUME Running, AllSupported, AllUsedAtOnce, ValueInv, NEW p \in Partitions, RunBranch(p)
  PROVE  ValueInv'
<1>1. PICK i : i = Threads!Current(p).n
  OBVIOUS
<1>2. UNCHANGED <<graphVars, part, memory>> /\ Threads!At(p, "exec") /\ IsBranch(func[i])
  BY <1>1 DEF RunBranch, passVars
<1>3. PICK k \in DOMAIN func[i].succs :
        LET over == {e \in ToSet(SubSeq(code.list[p], pc[p] + 1, PositionOf(p, func[i].succs[k]) - 1)) : e.op = "exec"}
        IN /\ skipped' = skipped \union {e.n : e \in over}
           /\ executed' = executed \union {i} \union {e.n : e \in over}
           /\ Read(generatePhiNodeAssignment(i, func[i].succs[k]))
  BY <1>1 DEF RunBranch
<1>4. PICK t, to : t = func[i].succs[k] /\ to = PositionOf(p, func[i].succs[k])
  OBVIOUS
<1>5. PICK list, at : list = code.list[p] /\ at = pc[p]
  OBVIOUS
<1>6. PICK S : S = {e.n : e \in {d \in ToSet(SubSeq(list, at + 1, to - 1)) : d.op = "exec"}}
  OBVIOUS
<1>7. /\ skipped' = skipped \union S /\ executed' = executed \union {i} \union S
      /\ seen' = seen \union {<<a, memory[func[a].ptr]>> : a \in generatePhiNodeAssignment(i, t)}
  BY <1>3, <1>4, <1>5, <1>6 DEF Read
<1>8. AtInstruction(p, i) /\ executed \subseteq Behind
  BY <1>1, <1>2, ThreadOrder
<1>9. PICK N \in Nat : N = Len(func) /\ DOMAIN func = 1..N /\ func \in Functions
  BY GraphNumbers DEF Running
<1>10. i \in 1..N /\ i \in Nat /\ i \notin executed
  BY <1>8, <1>9 DEF AtInstruction, Behind
<1>11. \A n \in S : n \notin executed
  <2>1. /\ at \in Nat /\ to \in Nat /\ at < to /\ to <= Len(list)
    BY <1>1, <1>2, <1>4, <1>5, BranchJumps DEF Running
  <2>2. list \in Seq(Proved!Entry)
    BY <1>5 DEF Running, RunInv, Proved!IInv, Proved!WellFormed
  <2>3. PICK l \in Nat : l = Len(list) /\ DOMAIN list = 1..l
    <3> DEFINE T == Proved!Entry
    <3>1. list \in Seq(T)
      BY <2>2
    <3> HIDE DEF T
    <3> QED BY <3>1
  <2>4. PICK a, b \in Nat : a = at + 1 /\ b = to - 1 /\ 1 <= a /\ b <= l
    BY <2>1, <2>3
  <2>5. ToSet(SubSeq(list, a, b)) = {list[m] : m \in a..b}
    <3> DEFINE T == Proved!Entry
    <3>1. list \in Seq(T)
      BY <2>2
    <3> HIDE DEF T
    <3> QED BY <2>3, <2>4, <3>1, SubSeqElements
  <2> SUFFICES ASSUME NEW n \in S PROVE n \notin executed
    OBVIOUS
  <2>6. PICK e \in ToSet(SubSeq(list, a, b)) : e.op = "exec" /\ n = e.n
    BY <1>6, <2>4
  <2>7. PICK m \in a..b : e = list[m]
    BY <2>5, <2>6
  <2>8. m \in 1..l /\ at <= m
    BY <2>1, <2>4
  <2> QED BY <1>5, <2>3, <2>6, <2>7, <2>8, NotPassedYet
<1>12. /\ func' = func /\ Locations' = Locations /\ OnePartition' = OnePartition
       /\ \A l : Settled(l)' = Settled(l)
  BY <1>2, SettledSame
<1>13. \A l : Stored(l)' = Stored(l)
  <2> SUFFICES ASSUME NEW l PROVE Stored(l)' = Stored(l)
    OBVIOUS
  <2>1. func[i].op # "store"
    BY <1>2 DEF IsBranch
  <2>2. Stored(l)' = {j \in (executed \union {i} \union S) \ (skipped \union S) : func[j].op = "store" /\ func[j].ptr = l}
    BY <1>7, <1>12 DEF Stored
  <2> QED BY <1>11, <2>1, <2>2 DEF Stored
<1>14. MemoryRight'
  BY <1>2, <1>12, <1>13 DEF ValueInv, MemoryRight
<1>15. SeenRight'
  <2>1. Readable(generatePhiNodeAssignment(i, t))
    <3>1. CASE func[t].op # "phi"
      BY <3>1 DEF generatePhiNodeAssignment, Readable
    <3>2. CASE func[t].op = "phi"
      <4> DEFINE args == {a \in ToSet(func[t].args) : a < i /\ \A s \in a..(i - 1) : ~ IsTerminator(func[s])}
      <4>1. generatePhiNodeAssignment(i, t) = LoadsNamed(i, args)
        BY <3>2 DEF generatePhiNodeAssignment
      <4>2. t \in 1..N /\ i <= t
        <5>1. Supported(func)
          BY <1>9 DEF AllSupported
        <5>2. t \in (i + 1)..N
          BY <1>4, <1>9, <1>10, <5>1 DEF Supported, NoLoops
        <5> QED BY <1>10, <5>2
      <4>3. args \subseteq ToSet(func[t].args) /\ \A a \in args : a < i
        OBVIOUS
      <4> HIDE DEF args
      <4> QED BY <1>8, <1>9, <4>1, <4>2, <4>3, OperandsReadable
    <3> QED BY <3>1, <3>2
  <2>2. \A j \in skipped' : j \in skipped \/ j \notin executed
    BY <1>7, <1>11
  <2>3. skipped \subseteq skipped' /\ executed \subseteq executed'
    BY <1>7
  <2> QED BY <1>2, <1>7, <2>1, <2>2, <2>3, SeenStep
<1>16. skipped' \subseteq executed' /\ memory' \in [Locations' -> Nat]
  BY <1>2, <1>7, <1>12 DEF ValueInv
<1> QED BY <1>14, <1>15, <1>16 DEF ValueInv

(* A call between threads: a put reads the load it sends. *)
LEMMA CallValues ==
  ASSUME Running, AllSupported, AllUsedAtOnce, AloneInv, ValueInv, NEW p \in Partitions, RunCall(p)
  PROVE  ValueInv'
<1>1. UNCHANGED <<graphVars, part, memory, skipped, executed>>
  BY DEF RunCall, passVars, Threads!Put, Threads!Get, Threads!SemWait, Threads!SemPost
<1>2. /\ func' = func /\ Locations' = Locations /\ OnePartition' = OnePartition
      /\ \A l : Settled(l)' = Settled(l)
  BY <1>1, SettledSame
<1>3. MemoryRight' /\ skipped' \subseteq executed' /\ memory' \in [Locations' -> Nat]
  <2>1. \A l : Stored(l)' = Stored(l)
    BY <1>1, <1>2 DEF Stored
  <2> QED BY <1>1, <1>2, <2>1 DEF ValueInv, MemoryRight
<1>4. \E loads : Readable(loads) /\ seen' \subseteq seen \union {<<a, memory[func[a].ptr]>> : a \in loads}
  <2>1. CASE UNCHANGED seen
    <3>1. Readable({})
      BY DEF Readable
    <3> QED BY <2>1, <3>1
  <2>2. CASE /\ Threads!Put(p)
             /\ LET i == PutOperand(Threads!Current(p).n) IN Read(LoadsNamed(i, {i}))
    <3>1. PICK o : o = PutOperand(Threads!Current(p).n)
      OBVIOUS
    <3>2. Threads!At(p, "put") /\ seen' = seen \union {<<a, memory[func[a].ptr]>> : a \in LoadsNamed(o, {o})}
      BY <2>2, <3>1 DEF Read, Threads!Put
    <3>3. o \in executed /\ \E i \in 1..Len(func) : after[i] # <<>>
      BY <3>1, <3>2, PutExecuted
    <3>4. ~ OnePartition
      BY <3>3 DEF AloneInv, Running
    <3>5. Readable(LoadsNamed(o, {o}))
      BY <3>3, <3>4 DEF Readable, LoadsNamed
    <3> QED BY <3>2, <3>5
  <2> QED BY <2>1, <2>2 DEF RunCall
<1>5. SeenRight'
  BY <1>1, <1>4, SeenStep
<1> QED BY <1>3, <1>5 DEF ValueInv

(* Before the first call nothing is stored or seen. *)
LEMMA NothingStored ==
  ASSUME executed' = {}, skipped' = {}, seen' = {}, memory' = [l \in Locations' |-> 0]
  PROVE  ValueInv'
<1>1. \A l : Stored(l)' = {}
  BY DEF Stored
<1> QED BY <1>1 DEF ValueInv, MemoryRight, SeenRight, Greatest

(* So it stays while the pass works. *)
LEMMA PassValues ==
  ASSUME ValueInv, executed = {}, func' = func, UNCHANGED <<executed, memory, seen, skipped>>
  PROVE  ValueInv'
<1>1. skipped = {} /\ seen = {} /\ Locations' = Locations
  BY DEF ValueInv, SeenRight, Locations
<1>2. \A l : Stored(l) = {}
  BY DEF Stored
<1>3. \A l \in Locations : memory[l] = 0
  BY <1>2 DEF ValueInv, MemoryRight, Greatest
<1>4. memory = [l \in Locations |-> 0]
  BY <1>3 DEF ValueInv
<1> QED BY <1>1, <1>4, NothingStored

(* Every step keeps the values right. *)
LEMMA ValueStep ==
  ASSUME GraphInv, CallsInv, CodeRight, RunInv, AloneInv, AllSupported, AllUsedAtOnce, ValueInv, [Next]_vars
  PROVE  ValueInv'
<1>1. CASE CreateVertices
  <2>1. phase = "graph" /\ func' = func /\ UNCHANGED <<executed, memory, seen, skipped>>
    BY <1>1 DEF CreateVertices, createVertices, HandleParameter, HandleCalculation, runVars, threadVars
  <2> QED BY <2>1, PassValues DEF RunInv
<1>2. CASE AssignPartitions \/ SkipDependency \/ BridgeDependency \/ NextTarget \/ SavePartitioning
  <2>1. phase # "run" /\ func' = func /\ UNCHANGED <<executed, memory, seen, skipped>>
    BY <1>2 DEF AssignPartitions, SkipDependency, BridgeDependency, NextTarget, SavePartitioning,
                graphVars, runVars, threadVars
  <2> QED BY <2>1, PassValues DEF RunInv
<1>3. ASSUME NEW p \in Partitions, RunInstruction(p) \/ RunBranch(p) \/ RunCall(p) PROVE ValueInv'
  <2>1. Running
    BY <1>3 DEF Running, RunInstruction, RunBranch, RunCall
  <2> QED BY <1>3, <2>1, InstructionValues, BranchValues, CallValues
<1>4. CASE CallAgain
  <2>1. Locations' = Locations
    BY <1>4 DEF CallAgain, graphVars, Locations
  <2> QED BY <1>4, <2>1, NothingStored DEF CallAgain, Threads!ReturnControl
<1>5. CASE UNCHANGED vars
  <2>1. /\ func' = func /\ UNCHANGED <<executed, memory, seen, skipped>> /\ UNCHANGED <<graphVars, part>>
    BY <1>5 DEF vars, graphVars, passVars, runVars, threadVars
  <2>2. Locations' = Locations /\ \A l : Settled(l)' = Settled(l)
    BY <2>1, SettledSame
  <2>3. \A l : Stored(l)' = Stored(l)
    BY <2>1 DEF Stored
  <2>4. \A i : SequentialSource(i)' = SequentialSource(i)
    BY <2>1 DEF SequentialSource, vertexOf, getVertexForInstruction, graphVars
  <2> QED BY <2>1, <2>2, <2>3, <2>4 DEF ValueInv, MemoryRight, SeenRight
<1> QED BY <1>1, <1>2, <1>3, <1>4, <1>5 DEF Next

(* The generated C code reads a variable where its load is used, not where   *)
(* it is loaded.  Still the loads of a location that is stored once, and in  *)
(* one partition all loads, have the value of the sequential function then:  *)
(* the semaphores of the memory dependencies order store and load.           *)
THEOREM LoadsSeeTheirStore ==
  ASSUME AllSupported, AllUsedAtOnce PROVE Spec => []SingleAssignmentValues
<1>1. Init => ValueInv
  <2> SUFFICES ASSUME Init PROVE ValueInv
    OBVIOUS
  <2>1. executed = {} /\ skipped = {} /\ seen = {} /\ memory = [l \in Locations |-> 0]
    BY DEF Init, Threads!StartCall
  <2>2. \A l : Stored(l) = {}
    BY <2>1 DEF Stored
  <2> QED BY <2>1, <2>2 DEF ValueInv, MemoryRight, SeenRight, Greatest
<1>2. GraphInv /\ CallsInv /\ CodeRight /\ RunInv /\ AloneInv /\ ValueInv /\ [Next]_vars => ValueInv'
  BY ValueStep
<1>3. ValueInv => SingleAssignmentValues
  BY DEF ValueInv, SeenRight, SingleAssignmentValues, Settled
<1> QED BY <1>1, <1>2, <1>3, CallsAlways, RunAlways, AloneAlways, PTL DEF Spec
=============================================================================
