----------------------------- MODULE VHDLBackend -----------------------------
(***************************************************************************)
(* The VHDL backend and what it generates.  SimpleCCodeGenerator walks     *)
(* over the instructions of a partition and calls the backend, which wires *)
(* up the calculation (channels), appends states to the ReconOS state      *)
(* machine of the hardware thread and statements to the interface code of  *)
(* the host.  Then host and hardware thread run, once per call, over the   *)
(* mailboxes mbox_start (number 0) and mbox_stop (number 1).               *)
(*                                                                         *)
(* An instruction is a record                                              *)
(*   op    - what it is; "get", "put", "wait", "post" are the calls that   *)
(*           the partitioning inserts                                      *)
(*   args  - the instructions used as operands; 0 is a constant            *)
(*   ptr   - the variable of a load or store without computed address      *)
(*   num   - the index of a getelementptr, the mailbox or semaphore        *)
(*   type  - "real" or "int"                                               *)
(*   succs - where the successor blocks of a branch, the incoming blocks   *)
(*           of a phi node begin                                           *)
(***************************************************************************)
EXTENDS Calculations, Integers, FiniteSets, SequencesExt, FiniteSetsExt, TLC

CONSTANTS
  Functions,      \* [code, calls]: instructions, and how often they are called
  Capacity        \* words a mailbox holds

ASSUME CapacityAssumption == Capacity \in Nat \ {0}

(* The integer components hold nothing (see Handshake); the functions use    *)
(* one only to compare a variable with a constant, for a branch or a phi     *)
(* node, which remembers the outcome.                                        *)
ASSUME IntegerAssumption ==
  \A func \in Functions : \A i \in DOMAIN func.code :
    func.code[i].op \in {"binop", "cmp"} /\ func.code[i].type = "int" =>
      /\ func.code[i].op = "cmp" /\ func.code[i].args[2] = 0
      /\ \A j \in DOMAIN func.code : \A k \in DOMAIN func.code[j].args :
           func.code[j].args[k] = i => func.code[j].op \in {"condbr", "select"} /\ k = 1

VARIABLES
  f, calls,       \* the instructions, and how often they are called
  taken,          \* the outcome of every comparison, the same in all calls
  next, cstate,   \* createCCode: the instruction and what is expected of it
  gen,            \* the backend, see InitGen
  call,           \* the number of the call; 0 while code is generated
  hostpc, mem, read,        \* host: next step, variables, words of a result
  mbox_start, mbox_stop,    \* the words in the mailboxes
  fsm,            \* the state of the hardware thread; 0 is STATE_INIT
  got, received,  \* words read from a mailbox, and values accepted by the calculation
  held,           \* the last value of every output
  sent            \* what was put into data mailboxes during this call

genVars == <<f, calls, taken, next, cstate, gen>>
hostVars == <<hostpc, mem, read>>
fsmVars == <<fsm, got, received, held, sent>>
vars == <<genVars, call, hostVars, mbox_start, mbox_stop, fsmVars>>

-----------------------------------------------------------------------------
(* ValueStorage.  Parameters and globals are treated alike; an element of  *)
(* an array has an index.  Temporaries are numbered.                       *)

Variable(name, index) == [kind |-> "variable", name |-> name, index |-> index]
Temporary(n) == [kind |-> "temporary", name |-> "t", index |-> n]
Constant == [kind |-> "constant", name |-> "", index |-> 0]

(* The value a channel carries: the term the calculation computes, the     *)
(* inputs it needs for that, the input or component whose signals these    *)
(* are, and whether it went through a register that remembers it.          *)
Term(op, vs, args) == [op |-> op, vs |-> vs, args |-> args]
Carries(term, needs, from, remembered) ==
  [term |-> term, needs |-> needs, from |-> from, remembered |-> remembered]

Input(vs) == Carries(Term("in", vs, <<>>), {vs}, vs, FALSE)
Apply(op, sources, component) ==
  Carries(Term(op, Constant, [k \in DOMAIN sources |-> sources[k].term]),
          UNION {sources[k].needs : k \in DOMAIN sources},
          component,
          \E k \in DOMAIN sources : sources[k].remembered)

InitGen ==
  [value |-> <<>>,          \* by_llvm_value
   source |-> <<>>,         \* what the read channel of a value storage carries
   out |-> <<>>,            \* what is connected to an output channel
   components |-> <<>>,     \* where the operands of every component come from
   written |-> {},          \* the variables with a write channel
   states |-> <<>>,         \* the sequential states of the hardware thread
   interface |-> <<>>,      \* the interface code, one entry per word
   read_values |-> {},
   current |-> <<>>,        \* current_if_branch, with its parents
   branches |-> <<>>,       \* if_branches_for_instruction
   blocks |-> <<>>,         \* basic_blocks of the if branches
   temporaries |-> <<>>,    \* of the if branches
   afterBranch |-> FALSE,   \* last_instruction_was_branch
   count |-> 0,             \* anonymous temporary variables
   failed |-> FALSE]        \* an assertion failed or an instruction was not handled

Words(type) == IF type = "real" THEN 2 ELSE 1
IntVariables == {"n", "status"}
WordsOf(vs) == IF vs.name \in IntVariables THEN 1 ELSE 2

(* What reading a value storage yields.  A channel that nothing was        *)
(* connected to is an input that waits for its value.                      *)
Source(g, vs) ==
  CASE vs.kind = "constant" -> Carries(Term("const", Constant, <<>>), {}, Constant, FALSE)
    [] vs \in DOMAIN g.source -> g.source[vs]
    [] OTHER -> Input(vs)

(* IfBranch::get: the temporary that stands for a variable in a branch or   *)
(* in the branches around it.                                               *)
InBranch(g, branch, vs) ==
  LET known == {n \in 1..Len(branch) : <<SubSeq(branch, 1, n), vs>> \in DOMAIN g.temporaries}
  IN  IF known = {} THEN vs ELSE g.temporaries[<<SubSeq(branch, 1, Max(known)), vs>>]

(* ValueStorageFactory::get *)
get(g, i) == IF i = 0 THEN Constant ELSE InBranch(g, g.current, g.value[i])

(* Assigning to a variable in a branch makes a temporary; the second time *)
(* an assertion fails.                                                    *)
getForWriting(g, vs, branch) ==
  IF branch = <<>> THEN [g |-> g, vs |-> vs]
  ELSE LET tmp == Temporary(Len(f) + g.count + 1)
       IN  [g |-> [g EXCEPT !.count = @ + 1,
                            !.failed = @ \/ <<branch, vs>> \in DOMAIN g.temporaries,
                            !.temporaries = (<<branch, vs>> :> tmp) @@ @],
            vs |-> tmp]

(* Connects a channel to the write channel of a value storage. *)
Connect(g, vs, carried) ==
  IF vs.kind = "variable"
  THEN [g EXCEPT !.written = @ \union {vs},
                 !.out = (vs :> ({carried} \union (IF vs \in DOMAIN @ THEN @[vs] ELSE {}))) @@ @]
  ELSE [g EXCEPT !.source = (vs :> carried) @@ @]
-----------------------------------------------------------------------------
(* The states of the hardware thread and the statements of the host. *)

PerWord(op, mbox, vs, words) ==
  [part \in 1..words |-> [op |-> op, mbox |-> mbox, vs |-> vs, part |-> part, last |-> part = words]]

(* The high word first. *)
readMboxReversed(g, mbox, vs, words) ==
  [g EXCEPT !.states = @ \o [k \in 1..words |-> [PerWord("get", mbox, vs, words)[words + 1 - k]
                                                 EXCEPT !.last = k = words]]]

readMbox(g, mbox, vs, words) == [g EXCEPT !.states = @ \o PerWord("get", mbox, vs, words)]
writeMbox(g, mbox, vs, words) == [g EXCEPT !.states = @ \o PerWord("put", mbox, vs, words)]

mboxGet(g, vs) ==
  [readMbox(g, 0, vs, WordsOf(vs)) EXCEPT
     !.interface = IF vs \in g.read_values THEN @ ELSE @ \o PerWord("put", 0, vs, WordsOf(vs)),
     !.read_values = @ \union {vs}]

mboxPut(g, vs) ==
  [writeMbox(g, 1, vs, WordsOf(vs)) EXCEPT !.interface = @ \o PerWord("get", 1, vs, WordsOf(vs))]

(* VHDLBackend::read *)
ReadValue(g, vs) == IF vs.kind = "variable" /\ vs \notin g.written THEN mboxGet(g, vs) ELSE g
ReadValues(g, storages) == FoldLeft(ReadValue, g, storages)
ReadChannels(g, storages) == [k \in DOMAIN storages |-> Source(g, storages[k])]

(* remember keeps the condition and both values in registers. *)
generatePhiNode(g, target, cond, trueValue, falseValue) ==
  LET storages == <<get(g, cond), trueValue, falseValue>>
      g1 == ReadValues(g, storages)
      chosen == Source(g1, IF taken[cond] THEN trueValue ELSE falseValue)
  IN  Connect(g1, target, Carries(chosen.term, chosen.needs \union Source(g1, storages[1]).needs, target, TRUE))
-----------------------------------------------------------------------------
(* If statements. *)

makeConditionalBranch(g, i) ==
  LET branch(which) == Append(g.current, [br |-> i, cond |-> f[i].args[1], which |-> which])
      add(b, target, which) == (target :> Append(IF target \in DOMAIN b THEN b[target] ELSE <<>>, branch(which))) @@ b
  IN  [g EXCEPT !.branches = add(add(@, f[i].succs[1], TRUE), f[i].succs[2], FALSE),
                !.blocks = (branch(TRUE) :> {f[i].succs[1]}) @@ (branch(FALSE) :> {f[i].succs[2]}) @@ @,
                !.current = <<>>, !.afterBranch = TRUE]

makeUnconditionalBranch(g, target) ==
  [g EXCEPT !.branches = (target :> Append(IF target \in DOMAIN @ THEN @[target] ELSE <<>>, g.current)) @@ @,
            !.blocks = IF g.current = <<>> THEN @ ELSE (g.current :> (@[g.current] \union {target})) @@ @,
            !.current = <<>>, !.afterBranch = TRUE]

(* The assertions of combineIfBranches and handlePhiNodes. *)
ArePair(a, b) ==
  /\ a # <<>> /\ b # <<>>
  /\ Front(a) = Front(b)
  /\ Last(a).cond = Last(b).cond /\ Last(a).which # Last(b).which

TrueBranch(a, b) == IF Last(a).which THEN a ELSE b
FalseBranch(a, b) == IF Last(a).which THEN b ELSE a

combineIfBranches(g, a, b) ==
  LET changed == {pair[2] : pair \in {p \in DOMAIN g.temporaries : p[1] \in {a, b}}}
      combine(h, vs) ==
        LET target == getForWriting(h, vs, Front(a))
        IN  generatePhiNode(target.g, target.vs, Last(a).cond,
                            InBranch(h, TrueBranch(a, b), vs), InBranch(h, FalseBranch(a, b), vs))
  IN  IF ArePair(a, b)
      THEN [FoldLeft(combine, g, SetToSeq(changed)) EXCEPT !.current = Front(a)]
      ELSE [g EXCEPT !.failed = TRUE]

(* All phi nodes of a block, when its first one is met. *)
handlePhiNodes(g, first, branches) ==
  LET phis == {i \in first..Len(f) : \A j \in first..i : f[j].op = "phi"}
      from(i, k) == {branches[n] : n \in {m \in DOMAIN branches : /\ branches[m] \in DOMAIN g.blocks
                                                                  /\ f[i].succs[k] \in g.blocks[branches[m]]}}
      phi(h, i) ==
        IF \E a \in from(i, 1), b \in from(i, 2) : ArePair(a, b)
        THEN LET a == CHOOSE a \in from(i, 1) : TRUE
                 b == CHOOSE b \in from(i, 2) : TRUE
                 k == IF Last(a).which THEN 1 ELSE 2
             IN  generatePhiNode([h EXCEPT !.value = (i :> Temporary(i)) @@ @], Temporary(i), Last(a).cond,
                                 InBranch(h, TrueBranch(a, b), get(h, f[i].args[k])),
                                 InBranch(h, FalseBranch(a, b), get(h, f[i].args[3 - k])))
        ELSE [h EXCEPT !.failed = TRUE]
  IN  FoldLeft(phi, g, SetToSortSeq(phis, <))

(* generateBranchTargetIfNecessary *)
beforeInstruction(g, i) ==
  LET firstPhi == f[i].op = "phi" /\ f[i - 1].op # "phi"
      branches == IF g.afterBranch THEN g.branches[i] ELSE Append(g.branches[i], g.current)
      g1 == CASE Len(branches) = 1 -> [g EXCEPT !.current = branches[1]]
              [] Len(branches) = 2 -> combineIfBranches(g, branches[1], branches[2])
              [] OTHER -> [g EXCEPT !.failed = TRUE]
      g2 == IF firstPhi /\ ~ g1.failed THEN handlePhiNodes(g1, i, branches) ELSE g1
  IN  IF i \in DOMAIN g.branches
      THEN [g2 EXCEPT !.afterBranch = FALSE]
      ELSE [g EXCEPT !.afterBranch = FALSE, !.failed = @ \/ g.afterBranch \/ firstPhi]
-----------------------------------------------------------------------------
(* The instructions. *)

(* Where a load or store goes; a pointer is used without reading it. *)
Address(g, i, k) == IF k \in DOMAIN f[i].args THEN g.value[f[i].args[k]] ELSE f[i].ptr

(* addVariable, copyVariable: the value is an alias of the variable. *)
GenerateLoad(g, i) == [g EXCEPT !.value = (i :> Address(g, i, 1)) @@ @]

addIndexToVariable(g, i) ==
  [g EXCEPT !.value = (i :> Variable(g.value[f[i].args[1]].name, f[i].num)) @@ @]

(* Later reads of the variable still go to its input. *)
generateStoreNotReplacing(g, i) ==
  LET target == getForWriting(g, Address(g, i, 2), g.current)
      g1 == [target.g EXCEPT !.written = @ \union {target.vs}]
      value == get(g1, f[i].args[1])
      g2 == ReadValue(g1, value)
      g3 == Connect(g2, target.vs, Source(g2, value))
  IN  IF target.vs.kind = "variable" THEN mboxPut(g3, target.vs) ELSE g3

(* The write channel is made before the value is read. *)
generateStore(g, i) ==
  LET target == getForWriting(g, Address(g, i, 2), g.current)
      g1 == IF target.vs.kind = "variable" THEN [target.g EXCEPT !.written = @ \union {target.vs}]
                                           ELSE target.g
      value == get(g1, f[i].args[1])
      g2 == ReadValue(g1, value)
      g3 == [Connect(g2, target.vs, Source(g2, value)) EXCEPT
               !.source = (target.vs :> Source(g2, value)) @@ @]
  IN  IF target.vs.kind = "variable" THEN mboxPut(g3, target.vs) ELSE g3

(* A component whose ports are connected to the operands, which are read in *)
(* their order.                                                             *)
MakeComponent(g, i) ==
  LET storages == [k \in DOMAIN f[i].args |-> get(g, f[i].args[k])]
      g1 == ReadValues(g, storages)
      from == [k \in DOMAIN storages |-> ReadChannels(g1, storages)[k].from]
  IN  [g |-> [g1 EXCEPT !.components = (Temporary(i) :> SelectSeq(from, LAMBDA s : s # Constant)) @@ @],
       result |-> Apply(f[i].op, ReadChannels(g1, storages), Temporary(i))]

SetTemporary(g, i, carried) ==
  [g EXCEPT !.value = (i :> Temporary(i)) @@ @, !.source = (Temporary(i) :> carried) @@ @]

generateBinaryOperator(g, i) ==
  LET made == MakeComponent(g, i) IN SetTemporary(made.g, i, made.result)

(* As above; the 8 bits of a floating point comparison become one by wires. *)
generateComparison(g, i) ==
  LET made == MakeComponent(g, i) IN SetTemporary(made.g, i, made.result)

(* Zeros in front of the data; valid and ready are those of the operand. *)
generateIntegerExtension(g, i) ==
  LET value == get(g, f[i].args[1])
      g1 == ReadValue(g, value)
  IN  SetTemporary(g1, i, [Source(g1, value) EXCEPT !.term = Term("zext", Constant, <<@>>)])

(* A function is a component.  Nobody waits for "done" of a function that   *)
(* returns nothing.                                                         *)
generateCall(g, i) ==
  LET made == MakeComponent(g, i)
  IN  IF f[i].op = "voidcall" THEN made.g ELSE SetTemporary(made.g, i, made.result)

generateSelect(g, i) ==
  LET g1 == [g EXCEPT !.value = (i :> Temporary(i)) @@ @]
      target == getForWriting(g1, Temporary(i), g.current)
  IN  generatePhiNode(target.g, target.vs, f[i].args[1], get(g, f[i].args[2]), get(g, f[i].args[3]))

(* The mailboxes for data have numbers from 2 on; their channels are not    *)
(* part of the interface code.  A value received is an operand of what uses *)
(* it (addDataDependency); which semaphore is meant is not kept apart.      *)
MboxChannel(i) == Variable("mbox", i)
GenerateCommunication(g, i) ==
  CASE f[i].op = "get" ->
         [readMbox(g, 2 + f[i].num, MboxChannel(i), Words(f[i].type)) EXCEPT
            !.value = (i :> Temporary(i)) @@ @,
            !.source = (Temporary(i) :> Input(MboxChannel(i))) @@ @]
    [] f[i].op = "put" ->
         LET value == get(g, f[i].args[1])
             g1 == ReadValue(g, value)
         IN  Connect(writeMbox(g1, 2 + f[i].num, MboxChannel(i), Words(f[i].type)),
                     MboxChannel(i), Source(g1, value))
    [] OTHER -> [g EXCEPT !.states = @ \o PerWord(f[i].op, f[i].num, MboxChannel(i), 1)]

ReturnChannel == Variable("return", 0)
generateReturn(g, i) ==
  LET value == get(g, f[i].args[1])
      g1 == ReadValue(g, value)
  IN  [writeMbox(Connect(g1, ReturnChannel, Source(g1, value)), 1, ReturnChannel, Words(f[i].type)) EXCEPT
         !.interface = @ \o PerWord("return", 1, ReturnChannel, Words(f[i].type))]

GenerateInstruction(g, i) ==
  CASE f[i].op = "store" -> generateStore(g, i)
    [] f[i].op = "binop" -> generateBinaryOperator(g, i)
    [] f[i].op = "cmp" -> generateComparison(g, i)
    [] f[i].op = "zext" -> generateIntegerExtension(g, i)
    [] f[i].op \in {"call", "voidcall"} -> generateCall(g, i)
    [] f[i].op \in {"get", "put", "wait", "post"} -> GenerateCommunication(g, i)
    [] f[i].op = "select" -> generateSelect(g, i)
    [] f[i].op = "condbr" -> makeConditionalBranch(g, i)
    [] f[i].op = "br" -> makeUnconditionalBranch(g, f[i].succs[1])
    [] f[i].op = "ret" -> generateReturn(g, i)
    [] f[i].op \in {"phi", "retvoid"} -> g
    [] OTHER -> [g EXCEPT !.failed = TRUE]   \* unhandled instruction type
-----------------------------------------------------------------------------
(* SimpleCCodeGenerator::createCCode. *)

IsNext(op) == next < Len(f) /\ f[next + 1].op = op

Init ==
  /\ \E func \in Functions : f = func.code /\ calls = func.calls
  /\ taken \in [{i \in DOMAIN f : f[i].op = "cmp"} -> BOOLEAN]
  /\ next = 1
  /\ cstate = IF f[1].op = "load" THEN "LOAD_VAR" ELSE "APPLY"
  /\ gen = InitGen
  /\ call = 0
  /\ hostpc = 0 /\ mem = <<>> /\ read = <<>>
  /\ mbox_start = <<>> /\ mbox_stop = <<>>
  /\ fsm = 0 /\ got = <<>> /\ received = <<>> /\ held = <<>> /\ sent = <<>>

(* One instruction.  A getelementptr is only expected after a load. *)
createCCode ==
  /\ next <= Len(f) /\ ~ gen.failed
  /\ \E g \in {beforeInstruction(gen, next)} :
       \/ /\ cstate \in {"LOAD_VAR", "LOAD_INDEX"}
          /\ gen' = GenerateLoad(g, next)
          /\ cstate' = CASE IsNext("load") -> "LOAD_VAR"
                         [] IsNext("getelementptr") /\ cstate = "LOAD_VAR" -> "GET_INDEX"
                         [] OTHER -> "APPLY"
       \/ /\ cstate = "GET_INDEX"
          /\ gen' = addIndexToVariable(g, next)
          /\ cstate' = IF IsNext("load") THEN "LOAD_INDEX" ELSE "APPLY"
       \/ /\ cstate = "APPLY"
          /\ gen' = IF g.failed THEN g ELSE GenerateInstruction(g, next)
          /\ cstate' = IF IsNext("load") THEN "LOAD_VAR" ELSE "APPLY"
  /\ next' = next + 1
  /\ UNCHANGED <<f, calls, taken, call, hostVars, mbox_start, mbox_stop, fsmVars>>
-----------------------------------------------------------------------------
(* The host: mbox_put(&mbox_start, 42), the interface code, mbox_get(&mbox_stop). *)

Generated == next > Len(f) /\ ~ gen.failed
Control(name) == Variable(name, 0)

(* A word in a mailbox: a part of the value that a variable has in a call. *)
Word(c, vs, part, term) == [call |-> c, vs |-> vs, part |-> part, term |-> term]
Garbage == Term("garbage", Constant, <<>>)

HostCode ==
  PerWord("put", 0, Control("start"), 1) \o gen.interface \o PerWord("ack", 1, Control("addr"), 1)

(* The variables have new values in every call, constants have not. *)
ValueIn(c, term) == [call |-> IF term.op = "const" THEN 0 ELSE c, term |-> term]
InitialValue(c, vs) == ValueIn(c, Term("in", vs, <<>>))
ValueOf(vs) == IF vs \in DOMAIN mem THEN mem[vs] ELSE InitialValue(call, vs)

HostCall ==
  /\ Generated /\ hostpc = 0 /\ call < calls
  /\ call' = call + 1
  /\ hostpc' = 1 /\ mem' = <<>> /\ read' = <<>> /\ sent' = <<>>
  /\ UNCHANGED <<genVars, mbox_start, mbox_stop, fsm, got, received, held>>

HostPut ==
  /\ hostpc > 0 /\ HostCode[hostpc].op = "put"
  /\ Len(mbox_start) < Capacity
  /\ LET step == HostCode[hostpc]
     IN  mbox_start' = Append(mbox_start, Word(ValueOf(step.vs).call, step.vs, step.part, ValueOf(step.vs).term))
  /\ hostpc' = hostpc + 1
  /\ UNCHANGED <<genVars, call, mem, read, mbox_stop, fsmVars>>

(* The value of words read one after the other. *)
ValueFrom(words) ==
  IF \A k \in DOMAIN words : /\ words[k].part = k /\ words[k].call = words[1].call
                             /\ words[k].vs = words[1].vs /\ words[k].term = words[1].term
  THEN [call |-> words[1].call, term |-> words[1].term]
  ELSE [call |-> 0, term |-> Garbage]

(* A variable assigned, the result returned, or the acknowledgement read. *)
HostGet ==
  /\ hostpc > 0 /\ HostCode[hostpc].op \in {"get", "return", "ack"}
  /\ mbox_stop # <<>>
  /\ mbox_stop' = Tail(mbox_stop)
  /\ \E step \in {HostCode[hostpc]}, words \in {Append(read, Head(mbox_stop))} :
       /\ read' = IF step.last THEN <<>> ELSE words
       /\ mem' = IF step.last THEN (step.vs :> ValueFrom(words)) @@ mem ELSE mem
       /\ hostpc' = IF step.last /\ step.op \in {"return", "ack"} THEN 0 ELSE hostpc + 1
  /\ UNCHANGED <<genVars, call, mbox_start, fsmVars>>

(* The program ends: 0xFFFFFFFF makes the hardware thread exit. *)
HostTerminate ==
  /\ Generated /\ hostpc = 0 /\ call = calls
  /\ Len(mbox_start) < Capacity
  /\ mbox_start' = Append(mbox_start, Word(call, Control("exit"), 1, Garbage))
  /\ hostpc' = -1
  /\ UNCHANGED <<genVars, call, mem, read, mbox_stop, fsmVars>>
-----------------------------------------------------------------------------
(* The hardware thread: STATE_INIT, the sequential states, FINISH. *)

THREAD_EXIT == -1
FINISH == Len(gen.states) + 1
Here == gen.states[fsm]
InState(op) == Generated /\ fsm \in DOMAIN gen.states /\ Here.op = op

(* init not set. *)
FsmInitKeepingInputs ==
  /\ Generated /\ fsm = 0 /\ mbox_start # <<>>
  /\ mbox_start' = Tail(mbox_start)
  /\ fsm' = IF Head(mbox_start).vs = Control("exit") THEN THREAD_EXIT ELSE 1
  /\ got' = <<>>
  /\ UNCHANGED <<genVars, call, hostVars, mbox_stop, received, held, sent>>

(* init makes the calculation forget the inputs it has accepted. *)
FsmInit ==
  /\ Generated /\ fsm = 0 /\ mbox_start # <<>>
  /\ mbox_start' = Tail(mbox_start)
  /\ fsm' = IF Head(mbox_start).vs = Control("exit") THEN THREAD_EXIT ELSE 1
  /\ got' = <<>> /\ received' = <<>>
  /\ UNCHANGED <<genVars, call, hostVars, mbox_stop, held, sent>>

(* A word more of an input; with the last one it becomes valid, and the *)
(* calculation accepts it once per call.                                *)
Arrives(word) ==
  /\ got' = IF Here.last THEN <<>> ELSE Append(got, word)
  /\ received' = IF Here.last /\ Here.vs \notin DOMAIN received
                 THEN (Here.vs :> ValueFrom(Append(got, word))) @@ received ELSE received

FsmGet ==
  /\ InState("get")
  /\ \/ Here.mbox = 0 /\ mbox_start # <<>> /\ mbox_start' = Tail(mbox_start) /\ Arrives(Head(mbox_start))
     \/ Here.mbox # 0 /\ UNCHANGED mbox_start /\ Arrives(Word(call, Here.vs, Here.part, Term("in", Here.vs, <<>>)))
  /\ fsm' = fsm + 1
  /\ UNCHANGED <<genVars, call, hostVars, mbox_stop, held, sent>>

(* The calculation as a net: what the outputs show, and the state machine   *)
(* without the number of words.  A called function is taken to keep its     *)
(* operands and its result as the floating point cores do; the one that the *)
(* tests call, func.vhdl, does not.                                         *)
Design ==
  LET from(vs) == (CHOOSE c \in gen.out[vs] : TRUE).from
      wired == {vs \in DOMAIN gen.out : from(vs) # Constant}
      states == SelectSeq(gen.states, LAMBDA s : s.last)
      kind(s) == CASE s.op = "get" -> "read" [] s.op = "put" /\ s.vs \in wired -> "write" [] OTHER -> "other"
  IN  [inputs |-> {s.vs : s \in {q \in ToSet(gen.states) : q.op = "get"}},
       components |-> gen.components,
       plain |-> {Temporary(i) : i \in {j \in DOMAIN f : f[j].op = "cmp" /\ f[j].type = "int"}},
       outputs |-> [vs \in wired |-> from(vs)],
       others |-> {s.vs : s \in ToSet(gen.states)},
       program |-> [k \in DOMAIN states |-> [kind |-> kind(states[k]), port |-> states[k].vs]]]

(* The nets for which the handshake delivers a value in the call it belongs *)
(* to; HandshakeProofs shows it.  A register of a phi node is not cleared   *)
(* between calls.                                                           *)
InTime ==
  /\ \A vs \in DOMAIN gen.out : \A c \in gen.out[vs] : ~ c.remembered
  /\ WellFormed(Design) /\ OutputsInTime(Design)

(* What an output can show: the value of this call once its inputs have     *)
(* arrived; anything when several values drive it; and, from the second     *)
(* call on, in a net that is not in time, a result the call before has left *)
(* in a component or a register, or what became of it there.                *)
GarbageValue == [call |-> 0, term |-> Garbage]
Computed(carried) ==
  IF \A vs \in carried.needs : received[vs] = InitialValue(call, vs)
  THEN ValueIn(call, carried.term) ELSE GarbageValue

LeftOver(vs) ==
  IF call = 1 \/ InTime \/ \A c \in gen.out[vs] : c.from = Constant THEN {}
  ELSE {held[w] : w \in {vs} \cap DOMAIN held} \union {GarbageValue}

Shown(vs) ==
  LET available == {c \in gen.out[vs] : c.needs \subseteq DOMAIN received}
  IN  IF Cardinality(gen.out[vs]) > 1
      THEN (IF available = {} THEN {} ELSE {GarbageValue})
      ELSE {Computed(c) : c \in available} \union LeftOver(vs)

(* The state that waits for the value to be valid, and those that put it. *)
FsmPut ==
  /\ InState("put")
  /\ \E value \in Shown(Here.vs) :
       /\ held' = (Here.vs :> value) @@ held
       /\ \/ /\ Here.mbox = 1 /\ Len(mbox_stop) < Capacity
             /\ mbox_stop' = Append(mbox_stop, Word(value.call, Here.vs, Here.part, value.term))
             /\ UNCHANGED sent
          \/ /\ Here.mbox # 1 /\ UNCHANGED mbox_stop
             /\ sent' = (<<Here.mbox, Here.part>> :> value) @@ sent
  /\ fsm' = fsm + 1
  /\ UNCHANGED <<genVars, call, hostVars, mbox_start, got, received>>

(* The other threads let the hardware thread pass. *)
FsmSemaphore ==
  /\ InState("wait") \/ InState("post")
  /\ fsm' = fsm + 1
  /\ UNCHANGED <<genVars, call, hostVars, mbox_start, mbox_stop, got, received, held, sent>>

FsmFinish ==
  /\ Generated /\ fsm = FINISH
  /\ Len(mbox_stop) < Capacity
  /\ mbox_stop' = Append(mbox_stop, Word(call, Control("addr"), 1, Garbage))
  /\ fsm' = 0
  /\ UNCHANGED <<genVars, call, hostVars, mbox_start, got, received, held, sent>>

Host == HostCall \/ HostPut \/ HostGet \/ HostTerminate
Hardware == FsmInit \/ FsmGet \/ FsmPut \/ FsmSemaphore \/ FsmFinish
Next == createCCode \/ Host \/ Hardware

(* The compiler runs on, the host is scheduled, the hardware is clocked. *)
Spec == Init /\ [][Next]_vars /\ WF_vars(createCCode) /\ WF_vars(Host) /\ WF_vars(Hardware)
-----------------------------------------------------------------------------
(* The function as C executes it, over the values the variables have when  *)
(* it is called: block by block along the branches that are taken.         *)
Step(s, i) ==
  LET operand(j) == IF j = 0 THEN Term("const", Constant, <<>>) ELSE s.val[j]
      address(k) == IF k \in DOMAIN f[i].args THEN s.addr[f[i].args[k]] ELSE f[i].ptr
      content(vs) == IF vs \in DOMAIN s.mem THEN s.mem[vs] ELSE Term("in", vs, <<>>)
      goto(target) == [s EXCEPT !.at = target, !.from = s.block, !.block = target]
  IN  IF i < s.at THEN s ELSE
      CASE f[i].op = "load" -> [s EXCEPT !.addr = (i :> address(1)) @@ @, !.val = (i :> content(address(1))) @@ @]
        [] f[i].op = "getelementptr" ->
             [s EXCEPT !.addr = (i :> Variable(s.addr[f[i].args[1]].name, f[i].num)) @@ @]
        [] f[i].op = "store" -> [s EXCEPT !.mem = (address(2) :> operand(f[i].args[1])) @@ @]
        [] f[i].op = "condbr" -> goto(f[i].succs[IF taken[f[i].args[1]] THEN 1 ELSE 2])
        [] f[i].op = "br" -> goto(f[i].succs[1])
        [] f[i].op = "phi" -> [s EXCEPT !.val = (i :> operand(f[i].args[CHOOSE k \in {1, 2} : f[i].succs[k] = s.from])) @@ @]
        [] f[i].op = "select" -> [s EXCEPT !.val = (i :> operand(f[i].args[IF taken[f[i].args[1]] THEN 2 ELSE 3])) @@ @]
        [] f[i].op = "get" -> [s EXCEPT !.val = (i :> Term("in", MboxChannel(i), <<>>)) @@ @]
        [] f[i].op = "put" -> [s EXCEPT !.sent = (2 + f[i].num :> operand(f[i].args[1])) @@ @]
        [] f[i].op = "ret" -> [s EXCEPT !.mem = (ReturnChannel :> operand(f[i].args[1])) @@ @]
        [] f[i].op \in {"retvoid", "wait", "post", "voidcall"} -> s
        [] OTHER -> [s EXCEPT !.val = (i :> Term(f[i].op, Constant, [k \in DOMAIN f[i].args |-> operand(f[i].args[k])])) @@ @]

Sequential ==
  FoldLeft(Step, [at |-> 1, block |-> 1, from |-> 1, val |-> <<>>, addr |-> <<>>, mem |-> <<>>, sent |-> <<>>],
           [i \in DOMAIN f |-> i])

(* Host and hardware thread speak of the same thing: the word a state reads *)
(* is the word of that variable and call, the word the host reads is the    *)
(* part of the result it assigns, however far one is ahead of the other.    *)
WordsMatch ==
  /\ InState("get") /\ Here.mbox = 0 /\ mbox_start # <<>> =>
       LET word == Head(mbox_start) IN word.vs = Here.vs /\ word.part = Here.part /\ word.call = call
  /\ Generated /\ fsm = 0 /\ mbox_start # <<>> => Head(mbox_start).vs \in {Control("start"), Control("exit")}
  /\ hostpc > 0 /\ HostCode[hostpc].op # "put" /\ mbox_stop # <<>> =>
       LET word == Head(mbox_stop) IN word.vs = HostCode[hostpc].vs /\ word.part = HostCode[hostpc].part

(* A call of the generated code does what the C function does: the caller   *)
(* finds the values of this call, computed from the arguments of this call, *)
(* in every variable and in every data mailbox, the variables the function  *)
(* does not assign are as before, and nothing is left in mbox_start and     *)
(* mbox_stop for the next call.                                             *)
CallDelivers ==
  Generated /\ hostpc = 0 /\ call > 0 =>
    \E result \in {Sequential} :
      /\ mbox_start = <<>> /\ mbox_stop = <<>>
      /\ \A vs \in DOMAIN result.mem \union (DOMAIN mem \ {Control("addr")}) :
           ValueOf(vs) = IF vs \in DOMAIN result.mem THEN ValueIn(call, result.mem[vs])
                                                     ELSE InitialValue(call, vs)
      /\ DOMAIN sent = {<<p.mbox, p.part>> : p \in {s \in ToSet(gen.states) : s.op = "put" /\ s.mbox # 1}}
      /\ \A m \in DOMAIN sent : sent[m] = ValueIn(call, result.sent[m[1]])

(* Code is generated without a failing assertion, every call returns - the  *)
(* hardware thread reads no word the host does not send and waits for no    *)
(* value that never comes - and at the end the hardware thread exits.       *)
Terminates == <>(fsm = THREAD_EXIT)
=============================================================================
