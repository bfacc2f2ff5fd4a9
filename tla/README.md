# mehari: a verification project

mehari takes a C function (generated from a simulation model), compiles it to
LLVM IR, cuts it into pieces, spreads the pieces over processor cores and an
FPGA of a Xilinx Zynq, and generates one thread per partition that exchanges
values with the others through mailboxes and semaphores (ReconOS).  This
directory holds TLA+ models of that program, the TLC runs that check them and
TLAPS proofs.

## 1. The system

| part | state | operations | talks to |
|------|-------|------------|----------|
| `InstructionDependencyAnalysis` | none | `getDependencies`: which instruction depends on which, by register, memory or control | used by the pass and the graph |
| `PartitioningGraph` | vertices (instruction lists), edges (communication operations), a partition per vertex | `createVertices`, `addEdges`, cost functions, `getCriticalPathCost` | read and written by the partitioning methods |
| `HardwareInformation` | tables of cycles and communication costs | lookups, device independent average | graph costs, the pass |
| partitioning methods | a partition per vertex, method-specific scratch data | random, hierarchical clustering, simulated annealing, Kernighan-Lin; they can be chained with `+` | graph |
| `Partitioning` (the pass) | mailbox numbers and types over all functions, semaphore numbers per function | `handleDependencies` inserts a get/put or wait/post pair per dependency between partitions; `savePartitioning` collects and prints the code of every partition | all of the above, code generators, templates |
| partition threads | program counters, mailboxes, semaphores | execute instructions, get, put, wait, post, return control | each other |
| `SimpleCCodeGenerator`, VHDL backend | value storages, if branches, the states of the hardware thread, the interface code | print a partition as C, or as VHDL with a ReconOS state machine and the C code that feeds it | the pass; host and hardware thread at run time |
| `SpeedupAnalysis`, graph printers | none | reports | - |
| `mbox_put_get` performance test | start, stop and data mailboxes, host, software and hardware threads | measure mailbox round trips | ReconOS |
| single pendulum application | start and stop mailboxes, blocks of data in memory and in the caches, host, software and hardware threads | calculate every block in some thread, repeatedly; check the results | ReconOS |
| `tools/vhdlgen` | document trees | pretty printer for VHDL | VHDL backend |
| build logic (gradle/groovy), dropbear, kernel images | - | - | - |

What is hard here and hard to test:

* the generated threads run concurrently, wait for each other in both
  directions and are called again and again with the same mailboxes and
  semaphores (deadlock, stale tokens, races on memory);
* the pass edits instruction lists while it iterates over them, and what it
  emits is correct only as a whole: each put needs its get, in an order that
  cannot block, outside of code a branch may skip;
* the cut of the instruction list recognises if statements by a heuristic on
  block terminators;
* the partitioning methods keep derived values (cost differences, closeness,
  the cost of the current state) up to date incrementally, and three of them
  loop until some condition on these values holds;
* the VHDL backend emits the hardware thread and the host code that talks to it
  piece by piece, from different functions; a word more or less on one side, or a
  value left over from the call before, shows only when both run;
* inside the hardware thread, state machine, input processes and calculation
  exchange values by valid and ready signals, one of which is withdrawn too early
  or too late in some cycle nobody simulated;
* the pass chains partitioning methods that promise different things about the
  partitions they leave, and numbers threads and mailboxes over all functions;
* the applications share mailboxes between threads, so a message of several words
  may be torn apart, and memory between caches and hardware.

`PROJECT.json` lists each hazard with its line and the properties aimed at it.

## 2. The modules

**Run time.**  `DependencyOrder` is the abstract promise of a partitioned
function: in every call each instruction is executed once, after all it depends
on, and then the call returns.  `PartitionThreads` is the detailed
specification: one thread per partition, each with the list of statements
`savePartitioning` collected for it; an entry of the list executes an
instruction, gets or puts mailbox *n*, or waits for or posts semaphore *n*, and
carries the vertex it belongs to.  Variables: `code` (the lists and the
dependencies), `pc` per thread, `tokens` per channel, `executed`.  One action
per kind of entry, and `ReturnControl`, which ends a call and starts the next
one *without resetting the channels*.  `WellFormed` states the contract the
generator has to meet: single use of channels, matched sends and receives with
the send in an earlier vertex, threads that run their vertices in graph order,
every dependency respected by thread order or by a channel.  The mailbox and
semaphore functions and the thread main loop come from templates outside the
repository; they are marked external and modelled from the calls the pass
generates.

**The compiler pass.**  `InstructionDependencyAnalysis` (operators),
`PartitioningGraph` (`createVertices` as a state machine, one instruction per
step, with its three flags; `addEdges` and `getVertexForInstruction` as
operators) and `Partitioning`, which composes them with the run time:
`CreateVertices`, `AssignPartitions` (any assignment: every method is covered),
then `handleDependencies` one dependency per step (`SkipDependency`,
`BridgeDependency`, `NextTarget`), `SavePartitioning`, and then the threads of
`PartitionThreads` on the emitted code (`RunInstruction`, `RunBranch`,
`RunCall`, `CallAgain`).  Insertions are recorded next to the instruction they
were made at (`before`, `after`), in the order the code inserts them.  The run
adds the memory (which store wrote a location last) and what the C backend makes
of a load: only another name of the variable, which is read by the statement that
uses the load (`LoadsNamed`, `getOperandString`), by the jump that assigns a phi
node, or by the put that sends it.  `seen` records which store's value a load
stood for at each use.  A branch goes either way and skips what stands between,
inserted calls included.  `useDataDepForAllFPGACom` is a constant `false` in the source,
so devices make no difference to `handleDependencies`.

**The pass as a whole.**  `PartitioningPass` is `runOnModule` over all target
functions: the starting point for an iterative method, the methods one after the
other (`ApplyNop`, `ApplyMethod`, ...), a missing function, and then
`savePartitioning` with the numbering of threads, parameter mailboxes and hardware
threads and the device each partition is written for.  Where the C++ has undefined
behaviour (a list or device that does not exist, the first element of an empty
vector) the phase becomes `"undefined"`.  A method is what `MethodResult` says of
it, which `PartitioningMethod` states as a specification: the partitioning changes
in steps, each a possible result, and `apply` returns in the end.  The detailed
modules of the three methods are shown to implement it (`KLImplementsMethod`,
`ClusteringImplementsMethod` and `AnnealingImplementsMethod`, refinements with
`INSTANCE ... WITH`), so the composition rests on checked promises.

**The partitioning methods.**  `HardwareInformation` and `PartitioningCosts`
hold the real cost tables and the cost functions of the graph;
`getCriticalPathCost` is the result of Bellman-Ford on negated weights from
distance 0 everywhere, i.e. the heaviest path without the execution time of its
first vertex.  `KernighanLin`, `HierarchicalClustering` and
`SimulatedAnnealing` have one action per iteration of their loops.  The three share
the graph and the devices, so that one module can prove about all of them; what each
has of its own carries its name (`KLInit`, `ClusteringInit`, `AnnealingInit`, ...), and
the partitioning is `result`, `part` and `S` after the code.  Ties in the
clustering are broken arbitrarily (the code takes the first edge of a list whose
order the model does not keep); moves and acceptance in the annealing are
arbitrary, since any draw of `rand()` is possible.

**The VHDL backend.** `VHDLBackend` has two halves. `createCCode` is the walk of
`SimpleCCodeGenerator` over the instructions, one per step, with its four states; each
instruction calls the backend operator of the same name as in the source
(`generateStore`, `generatePhiNode`, `mboxGet`, ...). `gen` is the state of the backend:
the value storage of every instruction, what each channel carries (a term over the
inputs, the inputs it needs, whose signals it has, and whether it went through a
register), the components with their operands, the if branches with their temporaries,
the sequential states of the hardware thread and the interface code. Then the generated
code runs: the host (`HostCall`, `HostPut`, `HostGet`, `HostTerminate`) and the state
machine (`FsmInit`, `FsmGet`, `FsmPut`, `FsmSemaphore`, `FsmFinish`), one step per word,
over `mbox_start` and `mbox_stop`. A word says which part of which variable's value in
which call it is, so that a mix-up is seen. The partner of data mailboxes and semaphores
is `PartitionThreads`' business: here they always answer. `Sequential` executes the same
instructions as C would and is what `CallDelivers` compares with. The outcome of a
comparison is chosen once and is the same in all calls. The clock is left out, its
consequences are not: `Shown` is what an output can show when the state machine waits
for it. In the first call that is the value of this call once all inputs it needs have
arrived. From the second call on it is that alone only if the net of the function
(`Design`) is one for which the handshake delivers in time (`InTime`: no register of a
phi node, and the hypothesis `WellFormed` and `OutputsInTime` of `HandshakeProofs`);
otherwise it may also be what the call before left in a component or register, or
garbage (`LeftOver`). A value stored to two variables is such a case: its component is
never told that the result was taken. An integer comparison is used only as the
condition of a branch or select (`IntegerAssumption`), since the integer components hold
nothing; disagreement 16 is about their other uses. A called function is assumed to hold
operands and result as the floating point cores do. `done` of a function without a
result is connected to nothing (the `TODO` at `GenerateVHDL.cpp:351`): nothing waits for
it, so nothing is known of it when the next call begins, and such functions are called
once.

**The handshake.**  `Calculations` has what both modules need to say about the net of a
calculation: its record, what a value depends on, and the two conditions `WellFormed` and
`OutputsInTime`.  It models no code of its own.  `Handshake` takes the timing up, for one
small net at a time: a step is a rising edge of the clock, in which the state machine
(`StateInit`, `StateRead`, `StateWriteWait`, `StateWrite`, `StateOther` for semaphores and
constants, `StateFinish`), the valid process of every input (`ValidProcesses`) and the
calculation change together.  `SourceReady` is what `ReadySignals` prints: all consumers
at once.  The operating system answers a call, and a core finishes a calculation, after
any number of cycles.  There are two kinds of components.  The floating point cores are
the vendor's and external: each port holds one value, the result waits until it is taken
(`CoreResult`).  The integer components `add`, `bit_or`, `icmp_ne` and `icmp_sgt` are in
`llvm-passes/vhdl` and hold nothing (`plain`): ready is passed through from the consumers of
the result to the operands (`Through`), and the result is there for as long as all operands
are, a cycle later (`PlainResult`).  `init` is no clocked reset (`Cleared`).  A value is the
set of calls whose words went into it; all values of a run have the same number of words.

**The performance test.**  `MboxPutGet` has three kinds of processes: `main`
(`MainPut`, `MainPerform`, `MainWait`, `MainTerminate`, `NextLoop`, `MainJoin`,
one step per mailbox or semaphore call), the software threads (`GetCommand`,
`SwWork`, `Acknowledge`) and the state machine of `hwt_mbox_put_get.vhd`
(`GetCommand`, `GetAddressAndSize`, `HwWork`, `Acknowledge`).  `mb_start` keeps
the words, since a thread may take one word for another; of `mb_stop`, `mb_test`
and `sem_test` only the number of entries matters.  The two kinds of threads
count differently (one operation more than the counter says in hardware, the
counter incremented first in software), which `OperationsOf` and the two work
actions keep.  A command line is a record, filtered by the checks of `main`.

**The pendulum.**  `SinglePendulum` has `main` (`StartIteration`, `MainPut`, ...,
`MainJoin`), software threads (`SwGetPointer`, `SwCalculate`, `SwEnd`, `SwAck`) and
the state machine of `hwt_single_pendulum_simple.vhd` (`HwGetAddr`, `HwRead`, ...),
one step per mailbox word, calculation or memory transfer.  Software works on the
caches' copy of a block, hardware on main memory; the caches load and replace
blocks at any time (`CacheLoad`, `CacheReplace`; a block does not start at a cache
line, so its neighbours load it), and `reconos_cache_flush` writes back and drops
everything.  A block records whether its inputs are the generated ones and which
calculation made its results.

Operators directly in front of a definition, named for a slip (`GetKeepingWord`,
`CutsInsideBlock`, ...), are variants used to show that each property can fail;
no specification uses them.

## 3. The runs

| run | what it asks | bounds | result |
|-----|--------------|--------|--------|
| `partition_threads` | deadlock, stale tokens, order of execution, return of every call | all 64 dependency relations over 4 vertices, all ways to spread them over up to 3 threads (named by first use), mailboxes of one word, unboundedly many calls | holds |
| `partitioning` | are ifs and pointer assignments kept together, is every instruction in a vertex and the graph acyclic; is the emitted code well formed, do the threads running it block or leave tokens; do loads of write-once locations, and in one partition all loads, stand for the right value when they are used | all functions of up to 2 statements of 10 kinds, all assignments to 2 partitions, with and without an earlier function | holds |
| `memory_order` | do all loads stand for what the sequential function reads | up to 2 statements | **violated** |
| `partitioning_pass` | which sequences of methods leave a graph the code can be generated from; do counts and numbers of threads, parameter mailboxes and hardware threads match | all sequences of up to 2 methods, and of 3 that end with Kernighan-Lin, a misspelt one; functions of 1, 3 and 4 vertices, alone, together and with a missing one; 1 to 3 devices | holds |
| `kernighan_lin` | balance, exact incremental costs, improvement, local optimum, refinement of `PartitioningMethod` with termination | all graphs of 4 vertices with no, a data or an order edge, all starts, processor + FPGA | holds |
| `hierarchical_clustering` | exact closeness and no vertex lost, critical path not shorter than the work of a processor's partition, refinement of `PartitioningMethod`: usable result and count, termination | all such graphs of 4 vertices, processor + FPGA or 2 to 4 processor cores | holds |
| `simulated_annealing` | the result is the best of what was given and what a temperature ended with, fresh cached cost, refinement of `PartitioningMethod` with termination | 3 vertices, 2 or 3 devices, 2 temperatures of 2 moves | holds |
| `mbox_put_get` | empty queues between iterations, every command answered once, no word taken for another, acknowledgements never blocked, termination | up to 2 hardware and 2 software threads, every operation, test mailboxes of 1 or 2 words, 2 iterations, counters up to the limit (3 instead of 2^24) | holds |
| `single_pendulum` | whole pointers and no block in two threads, every block calculated as often as asked, current results through the caches, termination | every combination of options with up to 2 threads, 2 iterations, 2 calculations per message; one word per pointer with or without ReconOS, two without | holds |
| `vhdl_backend` | do host and hardware thread agree on every word, does a call deliver what C computes, does it return | all functions of up to 2 statements of 12 kinds that assign a variable once and read it at most once before (492), mailboxes of one word, 2 calls (283 functions; 1 call with a phi node, a value that has two outputs or a call without a result) | holds |
| `vhdl_read_twice` | the same with a variable read twice | 2 statements | **violated** |
| `handshake` | both words of a result from the same, current value; nothing left in the calculation for the next call; every call answered | nets of two cores over up to 3 inputs and 2 outputs, a copy, a core between semaphores, and an integer component of one input in front of a core; values of 2 words, 3 calls, any delays | holds |

The restrictions of `vhdl_backend` are necessary: each of them was lifted and
`CallDelivers` or `Terminates` then failed (disagreements 2, 6 to 8 and 10 below);
the functions of the simulation models obey them only in part.

Type correctness is a property of its own for the threads, where it is also
proved; in the other modules it is the first conjunct of the invariant about the
state the module maintains (`ResourcesMatch`, `CostDifferencesCurrent`,
`ClosenessCurrent`, `CurrentCostFresh`, `CommandsAccountedFor`, `PointersIntact`);
in the VHDL backend, the handshake and the pass the properties compare values
exactly.

Why the bounds are enough for what they are for: a deadlock or a lost token
between threads needs a cycle of two or three threads and a second call, which
four vertices on three threads give; `handleDependencies` handles one dependency
at a time and looks at two vertices, so two statements bring every combination
of source and target (with and without a branch, same and other vertex, data,
memory and control); a pass of Kernighan-Lin with two interchanges and a second
pass happens with four vertices; a merge of merged clusters needs four vertices.
A message is torn apart, a block taken twice or a neighbour's stale copy written
back with two threads and two iterations.  In the handshake the valid process of
an input is decided by its ready signal in two neighbouring cycles, and a value
left over shows in the next call; two components give a value with a consumer, with
several, and with an output besides.
`CHECK_DEADLOCK FALSE` is set where the modelled function simply returns
(the pass and the partitioning methods) or the program ends (the performance test,
the pendulum, the hardware thread).

The functions of `MCFunctions` are what clang emits without optimisation, which
is how the scripts call it: a load per use, parameters stored into allocas.

Fairness.  `FairSpec` of the threads assumes that a thread that is not blocked
is scheduled (Linux threads; each is pinned or time-sliced) and that a finished
call is followed by another one.  The partitioning methods are sequential code:
weak fairness of `Next` says the compiler keeps running.  In `MboxPutGet` main
and each software thread are scheduled and the hardware is clocked; all of them
only stop when the call they make blocks.  The same holds for the compiler, the
host and the hardware thread in `VHDLBackend`, and for main and the threads of
`SinglePendulum`; its caches owe nothing.  In `Handshake` the clock runs, the
operating system answers in the end, and components whose operands are there
compute.

### Disagreements found

Kept as runs that must fail:

1. `memory_order`: only store-to-load pairs are dependencies
   (`InstructionDependencyAnalysis.cpp:90`).  With `g2 = g1; g1 = g1` in
   different partitions the store of the second statement may run before the load of
   the first one, which then reads it.  The comment at line 52 promises "data dependences
   on memory locations".
2. `vhdl_read_twice`: a variable that is read twice gets two sets of read states
   and is sent once (`GenerateVHDL.cpp:815` before `:818`); the function of
   `DCMotorTest` reads `Vp[10]` twice and its hardware thread never finishes.

Seen with other constants of the passing configurations, each with a property
that holds in the run:

3. `StatementsKeptTogether` fails with `Kinds = {"ifelse"}` in
   `MCPartitioning.cfg`: "if statements and pointer assignment are kept together"
   (`PartitioningGraph.cpp:60`), but the vertex of an if with an else branch ends
   with the first store of the else branch.  `GraphCoversFunction` fails there, too: the
   branch behind that cut opens a block that is never completed, so the rest of the
   function, its return included, is in no vertex.
4. `KLImplementsMethod` fails with `DeviceLists <- MCTwoCores`:
   "perform iteration until there is no improvement"
   (`PartitioningAlgorithms.cpp:453`), but costs are averaged over devices while
   the gain subtracts those of the actual devices; on two cores two connected
   vertices are interchanged forever.
5. `CommandsAccountedFor` fails with `Configurations <- MemoryConfigurations`: the
   commands of all threads come before the buffers (`mbox_put_get.c:377` and
   `:429`); a second hardware thread's command is taken for an address.  The
   program refuses several threads on 64-bit platforms for this very reason
   (line 283).
6. `CallDelivers` fails with `Functions <- IfFunctions`: a store in a branch ends
   in a phi node (`ValueStorage.cpp:466`), which sends nothing to the host; the
   tests that expect the value there are commented out.
7. `CallDelivers` fails with `Functions <- PhiFunctions`: the registers of a phi
   node are cleared by the reset of the hardware thread only
   (`GenerateVHDL.cpp:633`), not between calls; the unit tests reset the
   calculation between two inputs.
8. `CallDelivers` fails with `Functions <- ReturnFunctions`: the interface code
   returns before the acknowledgement is read (`Partitioning.cpp:645`), which the
   next call then takes for a result.
9. `SingleAssignmentValues` fails with `Kinds = {"inc"}`, even in one partition: in
   `b = a++` the load of `a` is only a name (`SimpleCCodeGenerator.cpp:598`), and
   `b = a` is printed behind `a = a + 1`.
10. `CalculationDrained` and `WordsFresh` fail with `Designs <- LateDesigns` and
    with `Designs <- TwiceDesigns`: a source is ready only when all its consumers
    are ready in the same cycle (`ReadySignals.cpp:14`), but a port takes the value
    whenever it is free.  A value that is used by a component and written to an
    output later is taken again and again until the output is read, and a copy is
    left for the next call; two outputs of one value are never ready together, since
    the state machine sets one after the other.  The first call is still right
    (both hold with `Calls = 1`); `CallDelivers` of `VHDLBackend` fails in the second one
    with `Functions <- CopyFunctions` (`b = a * b; c = b`).  `OutputsInTime` is the class of
    designs without such a value (`LateAssumption`: it contains none of these two
    sets, which are well-formed otherwise); for it both properties are proved.
11. In `PartitioningPass`, command lines outside `SafeOptions` end in undefined
    behaviour: `sa` (which `llvm/build.gradle:39` lists) and `random` may leave a
    partition without vertices, whose first instruction
    `SimpleCCodeGenerator.cpp:122` looks at; `nop` behind another method
    (`Partitioning.cpp:138`) and `k-lin` behind `nop`, behind a clustering that used
    one partition or on one or three devices return a count that does not fit the
    graph; clustering of a function with no more vertices than devices has no
    result (with an FPGA, or of a single vertex) or counts partitions that do not
    exist (`ClusteringCount`; that the clustering returns exactly this count is
    proved in `ClusteringImplementsMethodSafely`).
12. Two partitions for the FPGA, of one function or of two, are written to the same
    `calculation.vhd` (`Partitioning.cpp:639`); `ProgramTablesMatch` therefore speaks
    of the calculation only where there is one.
13. `HardwareResultsDefined` of `SinglePendulum`, which no run checks, fails for every
    hardware thread: `STATE_WRITE` copies from word 0 of the local RAM
    (`hwt_single_pendulum_simple.vhd:313`), which answers the results at words 18 to
    21 only (line 154) and undefined words at all others (line 159).  The test bench
    expects the results there (`single_pendulum_simple_test.vhd:223-227`).
    `ResultsCurrent` is therefore about which calculation stored the results main sees,
    not about the words of a block calculated in hardware.
14. `ResultsCurrent` excludes `--dont-flush` with hardware threads: the help text
    speaks of flushes "between iterations", but the option also skips the one before
    the first iteration (`single_pendulum_simple.c:362`), so hardware may read blocks
    whose generated data is still in the caches.  Besides, read in the source:
    `success`, `data` and `expected` are used uninitialised with `--without-memory`
    (lines 476 to 482), which also ignores `--iterations-in-thread`, and `job` is a
    word index divided by a number of bytes (line 416).
15. "if we use a FPGA we can run everything in parallel, so we do not need a scheduling"
    (`PartitioningGraph.cpp:402`), but the condition below is `if (true)` (line 410, with a
    `TODO` to restrict it): `getCriticalPathCost` puts the vertices of an FPGA partition
    into an order, too, so the clustering's and the annealing's costs of such a partition
    are those of a processor with faster or slower instructions.  `Scheduled` models the
    code; `CriticalPathCoversWork` speaks of processor partitions only.
16. The integer components do not fit the handshake of the state machine, which withdraws
    valid and ready and takes the words later.  `WordsFresh` fails in the first call with
    `Designs <- PlainOutputDesigns` (`z = a + b` of two `int`s): the valid signals of the
    operands end, and the result with them, before its word is sent.  `CallsAnswered`
    fails with `Designs <- PlainSumDesigns` (such a sum as an operand of a core): the
    first operand is accepted, and withdrawn, before the second one has been read.  The
    function `func.vhdl` of the tests is a component of the same kind.
17. The annealing compares a state with the best one only when a temperature ends
    (`PartitioningAlgorithms.cpp:370`); a better one that was accepted and left again
    inside a temperature is forgotten.  `BestOfTemperatures` says what is left.

## 4. What is proved

Eight modules hold proofs, all checked by TLAPS to the last leaf.  Each theorem
names the property of the run it generalises: TLC checks it for the constants of
the run, the theorem holds for all constants that meet the named assumptions.
Hypotheses beyond those are written as `ASSUME` in the theorem.

**Run time** (`PartitionThreadsProofs`).  For every set of threads, every mailbox
capacity of at least one word and every well-formed code (`CodesAssumption`,
`CapacityAssumption`): type correctness, `TokenBalance`, `PutNeverBlocks`,
`DrainedAtReturn`, `NoDeadlock` and the refinement of `DependencyOrder`.
`NoDeadlock` and the refinement are not inductive.  The inductive
invariant `IInv` is the type invariant, `TokenBalance` (a channel holds one
token exactly between its passed send and its not yet passed receive, and no
receive is passed before its send) and "the executed instructions are those
whose entries are passed".  Each action moves one thread over one entry
(`AdvancePasses`), so only the channel of that entry can change its balance;
single use of channels excludes all other entries.  When a call returns,
everything is passed and hence every channel is empty, which is why the next
call may start without a reset.  Deadlock freedom: among the entries the
unfinished threads stand at take one of least vertex (`LeastNatural`); if it is
a receive, its send lies in an earlier vertex, so its thread has passed it,
because threads run their vertices in order; so the token is there.  The
refinement: an executed entry's dependencies are bridged by a channel whose
receive was passed before, hence its send, hence the instruction before it.

**Graph** (`PartitioningProofs`).  `GraphCoversFunction` and
`StatementsKeptTogether`, for every set of functions that are `Supported`
(`PartitioningGraph`): parameters first, one return, no loops, ifs without an else
branch that cuts, the status pointer used up to the next store.  The hypothesis is
about the input and says what the cutting rules are made for; the configuration
`MCPartitioning` evaluates it on the functions of its run (`SupportedAssumption`),
and disagreement 3 shows what happens without it.  `GraphInv` says that the
vertices are consecutive intervals behind the parameters with `current` as the tail
(`CurrentIsTail`, `VerticesOrdered`, `VerticesCover`), that the three flags describe
the text read so far (`FlagsRight`: `isBlock` if a branch is in the tail,
`isBlockCompleted` if the branch that ends the if is, `isPtrAssignment` if a pointer
was loaded and not yet stored), and that every cut is *closed* (`CutsClosed`): no
branch leads from before it to behind it and no pointer is open.  The last one is
what makes the argument: the branch that completes a block leads at least as far as
every branch before it, and nothing between it and its target cuts, so the next cut
is closed; and the return always cuts because nothing can be open there.

**Generated code** (`PartitioningProofs`, same hypothesis, `PartitioningAssumption`).
`GeneratedCodeWellFormed`, `ResourcesMatch`, `CallsComplete` and `DependenciesFirst`,
for every supported function, every assignment of its vertices and whatever earlier
functions left.  These join the compiler to the theorems about the run time:

1. `CallsInv` holds while the dependencies are handled (`CallsStep`): every call stands
   in the vertex of the instruction it was inserted for, next to it or, when the vertex
   has a branch, at the vertex's ends (`CallsPlaced`); no number is used twice in one
   direction (`CallsOnce`); receive and send come in pairs, the send in an earlier
   vertex (`PairsMatched`); mailboxes have the type of what is sent (`TypesSent`); and
   every dependency handled so far that crosses is bridged (`DependenciesBridged`).
   The send is earlier because dependencies lead backward in the function and vertices
   are intervals (`CrossingForward`).
2. `RunLayout` gives every instruction a place in the list of its thread, with its calls
   around it, in the order of the function and with nothing between (`Layout`).  It is
   derived from `FlattenSeq` being concatenation (`FlattenFacts`), once for the
   vertices of a partition and once for the instructions of a vertex.
3. From the two, `CodeWellFormed` derives the contract of `PartitionThreads`.
4. `RunInv`: whenever the threads run, `IInv` of `PartitionThreadsProofs` holds of them.
   Its step lemmas are reused through `INSTANCE`; new is only the branch
   (`JumpPreserves`): `BranchJumps` shows that a branch and its target are in one vertex
   (cuts are closed), that such a vertex has its calls before its first and behind its
   last instruction, and so that a thread jumps over instructions and never over a call.
   This is where moving the gets and puts to the vertex's ends is needed.

**Values of loads** (`PartitioningProofs`).  `SingleAssignmentValues`, under the same
hypothesis and `AllUsedAtOnce`: no function stores to a location between a load of it
and a use of that load (`LoadsUsedAtOnce`).  The second one is about the input too;
`MCPartitioning` evaluates it on its functions (`UsedAtOnceAssumption`), and disagreement
9 is a function without it.  `ValueInv` says that a location that is stored once, and in
one partition every location, holds the last store executed and not skipped, and that
what was read of it is the store the sequential function reads.  Three facts carry the
step.  A load depends on every earlier store to its location, also after `Unique` has
removed entries (`MemoryDependencyFound`), so by `DependenciesFirst` those stores are
executed (`StoresFirst`).  A thread's instructions are executed in the order of the
function (`ThreadOrder`, from `Layout`), so in one partition no later store is executed
before the use.  A branch skips only what was not executed (`NotPassedYet`), so what was
read before stays right (`SourceKept`).  In one partition nothing is sent (`AloneInv`);
otherwise a put reads an executed load (`PutExecuted`).

**The methods** (`PartitioningMethodsProofs`), for every graph whose costs are natural
numbers and every list of devices (`CostsAssumption`, `DeviceListsAssumption`).

*Clustering*: `ClosenessCurrent`, `CriticalPathCoversWork` (of processor partitions) and the safety half of
`ClusteringImplementsMethod`.  `HCInv` says that the clusters are disjoint, not empty and
cover the vertices (`ClustersPartition`, kept by `mergeVertices` although it removes two
positions of a vector one after the other), that the costs kept are those between the
clusters (`CurrentFor`), that a result is saved for every number of clusters from the
number of devices (or the first merge) down to the present one, the *k*-th with
`savedCount(k)` partitions numbered without gaps (`ResultsSaved`), and what was answered
(`Answered`).  `CurrentFor` is kept because closeness adds up over disjoint clusters
(`ClosenessAdds`), `ClusteringCount` follows from `savedCount` at the index
`getFinalResult` chose, whose existence is a lemma of its own (`FinalIndexExists`).  The
critical path is the longest path (`CriticalPathLongest`), so it suffices to exhibit one:
the vertices of a partition in their order (`PartitionIsPath`), and a single edge
(`EdgeIsPath`).

*Annealing* (also `AnnealingAssumption`: there is at least one move and one temperature):
`CurrentCostFresh`, `BestOfTemperatures` and the safety half of `AnnealingImplementsMethod`.
`BestOfTemperatures` speaks of a history variable, the partitionings a temperature ended with.
`NoMoves` says that with one device the annealing never gets past its first temperature;
this is what makes the answers it gives fit the abstract method, which demands two.

*Kernighan-Lin*: `PairExists`, `CostDifferencesCurrent`, `LocalOptimum`,
`ImprovesBalanced` and the safety half of `KLImplementsMethod`.  `KLInv` keeps, for every
prefix of the interchanges of a pass, that it interchanges as many vertices from either
side, that the differences of the unlocked vertices are those of the tentative
partitioning (`DifferencesOfTentative`), and that the gains add up to at most what the
cut loses.  The step needs the classical identity: interchanging *a* and *b* changes the
cut by the two differences less twice the edge between them, here a lemma about sums over
edges.  `ImprovesBalanced` supposes two different devices: with two cores it fails
(disagreement 4).

**Sums** (`SumTheorems`).  The library's sums are recursive functions over finite
sets.  The induction the other modules need is done by least counterexample over
the cardinality: the sum does not depend on the order, splits over disjoint sets,
follows a bijection, is monotone.

**Handshake** (`HandshakeProofs`): `WordsFresh` and `CalculationDrained`, for any number
of words per value and of components, inputs and outputs, all delays and unboundedly
many calls. The hypothesis `DesignsInTime` is about the generated design: `WellFormed`
says what the backend produces for a function that assigns each variable once (no input
read and no output written twice, every component has an output that depends on it), and
`OutputsInTime` excludes the designs of disagreement 10 and integer components (`plain =
{}`). Components have any number of operands, and the state machine may wait for
semaphores. `MCHandshake` evaluates both on the designs of its run that consist of cores
(`DesignsAssumption`). Neither property is inductive, because they speak of the words
sent and of the state machine's last state only. `HSInv` describes the calculation in
every state: a component that has fired shows it in its output register, a port is
untouched until its source is shown and takes its value once (`TakenOnce`), a valid
input has been read in this call (`InputsRead`), and an output is ready only while its
state waits for it (`OutputsWritten`). The argument: all ports of a source take its
value in the cycle in which the last of its consumers is ready (`TakenTogether`), so it
is taken once, if no consumer comes late. An output comes in time because of
`NotYetShown`: the input read in the state before has not reached the calculation in the
first cycle of the write state, and the value of the output depends on it
(`ReadyInTime`; the only place where `OutputsInTime` is used). A value that is shown has
all its operands shown (`ShownClosed`), so when the last output has been consumed,
everything it depends on, which is everything, has been consumed as well (`Drained`).

**Pass** (`PartitioningPassProofs`, `PassAssumption`): `CodeGenerationDefined` for all
command lines of `SafeOptions`, and `ProgramTablesMatch`.  `PassInv` bounds the
counters by what was saved so far, `DefinedInv` carries what each method of the list
may find (a partitioning with that many partitions), `TablesInv` that every row
written belongs to one partition saved, and the other way round.

**Performance test** (`MboxPutGetProofs`): `IterationsLeaveNothing` and
`CommandsAccountedFor`, for every number of threads, loops and operations.  The
hypothesis `Measured` leaves out `--iterations-in-thread 0` and more than one thread
for a memory operation, which is disagreement 5.  `MPInv` counts: what the threads and main still owe each other
(`ThreadShare`, `MainShare`) is the content of the mailbox or semaphore under test
(`Balanced`); the threads are split into waiting, working and done.

**Pendulum** (`SinglePendulumProofs`, `ConfigurationsAssumption`): `PointersIntact`,
`CalculatedAsAsked`, `ResultsCurrent`, for every configuration that `main` accepts.
`ProtocolInv` describes the words of the two mailboxes together with the state of
every thread (which thread may hold an incomplete message, and that no other thread
reads then); `CalculationsCounted` and `CachesCoherent` follow each block from main's
generated data over the flush to the thread and back: where a block is current, in
main memory or in the caches, depends on who has it.

Only model-checked:

* liveness (`CallsReturn`, `Terminates`, `CallsAnswered`, the termination in
  the specification of a partitioning method): fairness and ENABLED are out of the
  prover's reach;
* `CallDelivers` of the VHDL backend: it compares terms of any depth that the backend
  builds by folding over the instructions, and that they are equal for every function is
  an induction over data;
* `WordsMatch` of the VHDL backend: it needs an invariant of the generator that every
  fold over the instructions preserves, written with operators (`:>`, `@@`,
  `SetToSortSeq`) the prover cannot expand.  It is not proved; the run checks it on
  the `SupportedFunctions` of `MCVHDLBackend`.

## 5. What is not modelled

* `src/reconos/dropbear` (with libtomcrypt and libtommath) is a third-party SSH
  server, about 105000 of the repository's 118000 lines of source.  None of the
  program's logic is in it, and it bounds the share of lines any model of mehari
  can cover to about a tenth.
* Text: names and number formats of the C backend, the VHDL of signals and port
  maps, templates (`TemplateWriter`), graph and report output, the pretty printer
  of `tools/vhdlgen` (a pure layout algorithm with its own unit tests).
* `SpeedupAnalysis`: an estimate printed for the user, from the same Bellman-Ford
  as the critical path.  It keeps no state but its dependency graph, which is not
  cleared between functions.
* The memory accesses of `ReconOSOperator` (`readMemory`, `writeMemory`,
  `LocalFakeRam`), which nothing calls.
* The arithmetic of the calculations (`single_pendulum.vhd`, the vendor's cores).
* The build logic, which calls compilers and copies files.

Integers are mathematical: the costs of the modelled graphs stay far below 2^31 (a
hazard entry names the place where they would not).

## 6. Plan

Done: the run time and its proofs, the pass over one function and over all of them,
the C and the VHDL backend, the handshake, the cost model, the three methods and
their abstract specification, the `mbox_put_get` test and the pendulum; the proofs of
section 4.  What is left: `WordsMatch` of the VHDL backend for every function that
meets the restrictions of section 3 (interface code and state machine exchange their words
in one order).
