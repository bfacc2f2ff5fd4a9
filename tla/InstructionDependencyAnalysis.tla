------------------- MODULE InstructionDependencyAnalysis -------------------
(***************************************************************************)
(* The analysis that tells which instruction of a function depends on      *)
(* which earlier ones.  A function is the sequence of its instructions in  *)
(* the order of its basic blocks; an instruction is a record               *)
(*   op    - what it is; "br" is an unconditional branch, "condbr" a       *)
(*           conditional one, "retvoid" a return without a value           *)
(*   args  - the instructions used as operands, in operand order           *)
(*   ptr   - the name of the pointer operand of a load or store            *)
(*   type  - the type of its result                                        *)
(*   succs - where the successor blocks of a branch begin                  *)
(* A dependency [on, kind] names the instruction depended on and why.      *)
(***************************************************************************)
EXTENDS Integers, Sequences

Opcode == {"alloca", "load", "store", "binop", "call", "cmp", "zext",
           "phi", "getelementptr", "br", "condbr", "ret", "retvoid"}

Instruction ==
  [op : Opcode, args : Seq(Nat), ptr : STRING, type : STRING, succs : Seq(Nat)]

IsTerminator(instr) == instr.op \in {"br", "condbr", "ret", "retvoid"}

(* The elements of S up to n in ascending order. *)
Ascending(S, n) ==
  LET upTo[k \in 0..n] ==
        IF k = 0 THEN <<>> ELSE IF k \in S THEN Append(upTo[k - 1], k) ELSE upTo[k - 1]
  IN upTo[n]

(* Dependencies on the given instructions. *)
DependOn(numbers, why) ==
  [k \in DOMAIN numbers |-> [on |-> numbers[k], kind |-> why]]

(* The use-def chain: one dependency for every operand that is an *)
(* instruction of the function.                                   *)
RegisterDependencies(f, i) == DependOn(f[i].args, "reg")

(* Only a store directly before the load found. *)
MemoryDependenciesNearby(f, i) ==
  DependOn(Ascending({j \in {i - 1} \ {0} : /\ f[j].op = "store"
                                            /\ f[i].op = "load"
                                            /\ f[j].ptr = f[i].ptr}, i - 1), "mem")

(* A load depends on every earlier store through the same pointer operand; *)
(* LLVM's DependenceAnalysis never disproves that dependence.              *)
MemoryDependencies(f, i) ==
  DependOn(Ascending({j \in 1..(i - 1) : /\ f[j].op = "store"
                                         /\ f[i].op = "load"
                                         /\ f[j].ptr = f[i].ptr}, i - 1), "mem")

(* An unconditional branch depends on the instruction before it in its     *)
(* block, a return without a value on the instruction before it.           *)
ControlDependencies(f, i) ==
  IF \/ f[i].op = "br" /\ i > 1 /\ ~ IsTerminator(f[i - 1])
     \/ f[i].op = "retvoid" /\ i > 1
  THEN DependOn(<<i - 1>>, "ctrl")
  ELSE <<>>

(* std::unique with an operator== that compares the instructions only: an *)
(* entry equal to the one before it is dropped.                           *)
Unique(s) ==
  LET kept == Ascending({k \in DOMAIN s : k = 1 \/ s[k].on # s[k - 1].on}, Len(s))
  IN  [k \in DOMAIN kept |-> s[kept[k]]]

getDependencies(f) ==
  [i \in DOMAIN f |->
     Unique(RegisterDependencies(f, i) \o MemoryDependencies(f, i)
            \o ControlDependencies(f, i))]
=============================================================================
