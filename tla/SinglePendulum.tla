--------------------------- MODULE SinglePendulum ---------------------------
(***************************************************************************)
(* The single pendulum application: main puts one block per thread into    *)
(* mb_start, software threads and hardware threads (the state machine of   *)
(* hwt_single_pendulum_simple.vhd) calculate in place and acknowledge in   *)
(* mb_stop, and main checks all blocks at the end.  Software sees a block  *)
(* through the processor's caches, a hardware thread reads and writes main *)
(* memory, and reconos_cache_flush is all that keeps the two together.     *)
(* The numbers are abstracted: an input is as generated or not, a result   *)
(* is named by the calculation that made it.                               *)
(***************************************************************************)
EXTENDS Integers, Sequences, FiniteSets

CONSTANTS
  Configurations    \* platforms and command lines:
                    \* [hw, sw, iterations, inThread, reconos, memory, flush, words]

(* words: 32-bit words per pointer, two only where there is no ReconOS. *)
ASSUME ConfigurationsAssumption ==
  /\ Configurations \subseteq
       [hw : Nat, sw : Nat, iterations : Nat, inThread : Nat, reconos : BOOLEAN,
        memory : BOOLEAN, flush : BOOLEAN, words : {1, 2}]
  /\ \A c \in Configurations : c.words = 2 => ~c.reconos

VARIABLES
  conf,             \* the command line
  phase, iteration, \* main: the loop it is in, and finished iterations
  toPut, left,      \* main: words still to put, words still to get
  mb_start,         \* the words in mb_start
  mb_stop,          \* number of words in mb_stop; main ignores their values
  state,            \* per thread: state of software_thread or of the hardware
  got,              \* per thread: the words of the pointer it is receiving
  job,              \* per thread: the pointer it works on (ret, addr)
  count,            \* per thread: calculations left (i, iterations)
  ram,              \* per thread: are the inputs in the local RAM the block's?
  memory,           \* per block: its contents in main memory
  cached,           \* per block: the caches' copy, or NoCopy
  dirty,            \* blocks whose copy has not been written back
  calcs             \* per block: number of calculations finished so far

mainVars == <<conf, phase, iteration, toPut, left>>
threadVars == <<state, got, job, count, ram>>
memoryVars == <<memory, cached, dirty>>
vars == <<mainVars, mb_start, mb_stop, threadVars, memoryVars, calcs>>

running_threads(c) == c.hw + c.sw
simulation_steps == running_threads(conf)
Blocks == 1..simulation_steps
Threads == ({"hw"} \X (1..conf.hw)) \union ({"sw"} \X (1..conf.sw))

THREAD_EXIT == [op |-> "THREAD_EXIT", arg |-> 0]
WITHOUT_MEMORY == [op |-> "WITHOUT_MEMORY", arg |-> 0]
SET_ITERATIONS == [op |-> "SET_ITERATIONS", arg |-> 0]
Block(b) == [op |-> "block", arg |-> b]
Number(n) == [op |-> "number", arg |-> n]
Wild == [op |-> "wild", arg |-> 0]        \* parts of different pointers

(* A block: are the inputs those of generate_data, and its results. *)
NotCalculated == [calculation |-> 0, ram |-> "none"]
Content(input, output) == [input |-> input, output |-> output]
NoCopy == Content(FALSE, [calculation |-> 0, ram |-> "no copy"])

(* Threads on a platform with two words per pointer not limited to one. *)
AcceptedAnyPlatform(c) ==
  /\ c.iterations >= 1
  /\ c.hw > 0 => c.reconos
  /\ c.sw > 0 => c.memory
  /\ c.inThread > 1 => c.hw = 0 \/ running_threads(c) = 1

(* The checks of main. *)
Accepted(c) ==
  /\ c.iterations >= 1
  /\ c.hw > 0 => c.reconos
  /\ c.sw > 0 => c.memory
  /\ c.words > 1 => running_threads(c) <= 1
  /\ c.inThread > 1 => c.hw = 0 \/ running_threads(c) = 1

(* main up to its loop: the blocks are generated through the caches. *)
Init ==
  /\ conf \in {c \in Configurations : Accepted(c)}
  /\ phase = "start" /\ iteration = 0
  /\ toPut = <<>> /\ left = 0
  /\ mb_start = <<>> /\ mb_stop = 0
  /\ state = [t \in Threads |-> "GET_ADDR"]
  /\ got = [t \in Threads |-> <<>>]
  /\ job = [t \in Threads |-> Wild]
  /\ count = [t \in Threads |-> 0]
  /\ ram = [t \in Threads |-> FALSE]
  /\ memory = [b \in Blocks |-> Content(FALSE, NotCalculated)]
  /\ cached = [b \in Blocks |-> IF conf.memory THEN Content(TRUE, NotCalculated) ELSE NoCopy]
  /\ dirty = IF conf.memory THEN Blocks ELSE {}
  /\ calcs = [b \in Blocks |-> 0]
-----------------------------------------------------------------------------
(* What the processor reads, what is written back, what a flush leaves. *)
View(b) == IF cached[b] = NoCopy THEN memory[b] ELSE cached[b]
WrittenBack(S) == [b \in Blocks |-> IF b \in dirty \intersect S THEN cached[b] ELSE memory[b]]
reconos_cache_flush ==
  /\ memory' = WrittenBack(Blocks)
  /\ cached' = [b \in Blocks |-> NoCopy]
  /\ dirty' = {}

(* The caches load and replace lines at any time: a block does not begin at *)
(* a line of its own (#pragma pack), so its neighbours are loaded with it.  *)
CacheLoad(b) ==
  /\ cached[b] = NoCopy
  /\ cached' = [cached EXCEPT ![b] = memory[b]]
  /\ UNCHANGED <<mainVars, mb_start, mb_stop, threadVars, memory, dirty, calcs>>
CacheReplace(b) ==
  /\ cached[b] # NoCopy
  /\ memory' = WrittenBack({b})
  /\ cached' = [cached EXCEPT ![b] = NoCopy] /\ dirty' = dirty \ {b}
  /\ UNCHANGED <<mainVars, mb_start, mb_stop, threadVars, calcs>>
-----------------------------------------------------------------------------
(* The words of a message, and those of one message per step or thread. *)
Pointer(p) == [k \in 1..conf.words |-> p]
StepMessage(i) ==
  (IF conf.inThread > 1 /\ conf.hw > 0
   THEN <<SET_ITERATIONS, Number(conf.inThread)>> ELSE <<>>)
  \o Pointer(IF conf.memory THEN Block(i) ELSE WITHOUT_MEMORY)
AllSteps ==
  LET words == Len(StepMessage(1))
  IN [k \in 1..(simulation_steps * words) |->
        StepMessage(((k - 1) \div words) + 1)[((k - 1) % words) + 1]]
AllExits == [k \in 1..(simulation_steps * conf.words) |-> THREAD_EXIT]

StartIteration ==
  /\ phase = "start"
  /\ IF conf.reconos /\ conf.flush
     THEN reconos_cache_flush ELSE UNCHANGED memoryVars
  /\ toPut' = AllSteps
  /\ phase' = "put"
  /\ UNCHANGED <<conf, iteration, left, mb_start, mb_stop, threadVars, calcs>>

(* mb_start and mb_stop are created for simulation_steps words. *)
MainPut ==
  /\ phase \in {"put", "terminate"} /\ toPut # <<>>
  /\ Len(mb_start) < simulation_steps
  /\ mb_start' = Append(mb_start, Head(toPut))
  /\ toPut' = Tail(toPut)
  /\ UNCHANGED <<conf, phase, iteration, left, mb_stop, threadVars, memoryVars, calcs>>

StartWaiting ==
  /\ phase = "put" /\ toPut = <<>>
  /\ phase' = "wait" /\ left' = simulation_steps * conf.words
  /\ UNCHANGED <<conf, iteration, toPut, mb_start, mb_stop, threadVars, memoryVars, calcs>>

MainGet ==
  /\ phase = "wait" /\ left > 0 /\ mb_stop > 0
  /\ mb_stop' = mb_stop - 1 /\ left' = left - 1
  /\ UNCHANGED <<conf, phase, iteration, toPut, mb_start, threadVars, memoryVars, calcs>>

(* The caches not flushed before the check, --dont-flush or not. *)
EndIterationUnflushed ==
  /\ phase = "wait" /\ left = 0
  /\ iteration' = iteration + 1
  /\ phase' = IF iteration' < conf.iterations THEN "start" ELSE "check"
  /\ UNCHANGED <<conf, toPut, left, mb_start, mb_stop, threadVars, memoryVars, calcs>>

EndIteration ==
  /\ phase = "wait" /\ left = 0
  /\ iteration' = iteration + 1
  /\ phase' = IF iteration' < conf.iterations THEN "start" ELSE "check"
  /\ IF phase' = "check" /\ conf.reconos
     THEN reconos_cache_flush ELSE UNCHANGED memoryVars
  /\ UNCHANGED <<conf, toPut, left, mb_start, mb_stop, threadVars, calcs>>

(* One message for all threads. *)
StartTerminationOnce ==
  /\ phase = "check"
  /\ phase' = "terminate" /\ toPut' = Pointer(THREAD_EXIT)
  /\ UNCHANGED <<conf, iteration, left, mb_start, mb_stop, threadVars, memoryVars, calcs>>

(* check_data only reads; what main does with its answer is printed. *)
StartTermination ==
  /\ phase = "check"
  /\ phase' = "terminate" /\ toPut' = AllExits
  /\ UNCHANGED <<conf, iteration, left, mb_start, mb_stop, threadVars, memoryVars, calcs>>

MainJoin ==
  /\ phase = "terminate" /\ toPut = <<>>
  /\ \A t \in Threads : state[t] = "THREAD_EXIT"
  /\ phase' = "done"
  /\ UNCHANGED <<conf, iteration, toPut, left, mb_start, mb_stop, threadVars, memoryVars, calcs>>

Main ==
  \/ StartIteration \/ MainPut \/ StartWaiting \/ MainGet \/ EndIteration
  \/ StartTermination \/ MainJoin
-----------------------------------------------------------------------------
(* Software: mbox_get_pointer takes a pointer word by word. *)
SwGetPointer(t) ==
  /\ t[1] = "sw" /\ state[t] = "GET_ADDR" /\ mb_start # <<>>
  /\ mb_start' = Tail(mb_start)
  /\ LET words == Append(got[t], Head(mb_start))
         p == IF \A k \in DOMAIN words : words[k] = words[1] THEN words[1] ELSE Wild
     IN IF Len(words) < conf.words
        THEN got' = [got EXCEPT ![t] = words] /\ UNCHANGED <<state, job, count>>
        ELSE /\ got' = [got EXCEPT ![t] = <<>>]
             /\ job' = [job EXCEPT ![t] = p]
             /\ count' = [count EXCEPT ![t] = conf.inThread]
             /\ state' = [state EXCEPT ![t] = IF p = THREAD_EXIT THEN "THREAD_EXIT" ELSE "CALC"]
  /\ UNCHANGED <<mainVars, mb_stop, ram, memoryVars, calcs>>

(* One call of single_pendulum_simple, in place and through the caches. *)
SwCalculate(t) ==
  /\ t[1] = "sw" /\ state[t] = "CALC" /\ count[t] > 0 /\ job[t].op = "block"
  /\ LET b == job[t].arg
         k == IF View(b).input THEN calcs[b] + 1 ELSE 0
     IN /\ cached' = [cached EXCEPT ![b] = Content(View(b).input, [calculation |-> k, ram |-> "dx"])]
        /\ dirty' = dirty \union {b}
        /\ calcs' = [calcs EXCEPT ![b] = @ + 1]
  /\ count' = [count EXCEPT ![t] = @ - 1]
  /\ UNCHANGED <<mainVars, mb_start, mb_stop, state, got, job, ram, memory>>

SwEnd(t) ==
  /\ t[1] = "sw" /\ state[t] = "CALC" /\ count[t] <= 0
  /\ state' = [state EXCEPT ![t] = "ACK"] /\ got' = [got EXCEPT ![t] = Pointer(job[t])]
  /\ UNCHANGED <<mainVars, mb_start, mb_stop, job, count, ram, memoryVars, calcs>>

(* mbox_put_pointer *)
SwAck(t) ==
  /\ t[1] = "sw" /\ state[t] = "ACK" /\ mb_stop < simulation_steps
  /\ mb_stop' = mb_stop + 1
  /\ got' = [got EXCEPT ![t] = Tail(@)]
  /\ state' = IF got'[t] = <<>> THEN [state EXCEPT ![t] = "GET_ADDR"] ELSE state
  /\ UNCHANGED <<mainVars, mb_start, job, count, ram, memoryVars, calcs>>
-----------------------------------------------------------------------------
(* Hardware: one action per state that does something outside its state. *)
HwGetAddr(t) ==
  /\ t[1] = "hw" /\ state[t] = "GET_ADDR" /\ mb_start # <<>>
  /\ mb_start' = Tail(mb_start)
  /\ job' = [job EXCEPT ![t] = Head(mb_start)]
  /\ state' = [state EXCEPT ![t] =
       CASE Head(mb_start) = THREAD_EXIT -> "THREAD_EXIT"
         [] Head(mb_start) = SET_ITERATIONS -> "READ_ITERATIONS"
         [] OTHER -> "READ"]
  /\ UNCHANGED <<mainVars, mb_stop, got, count, ram, memoryVars, calcs>>

HwReadIterationsAsSent(t) ==
  /\ t[1] = "hw" /\ state[t] = "READ_ITERATIONS" /\ mb_start # <<>>
  /\ mb_start' = Tail(mb_start)
  /\ count' = [count EXCEPT ![t] = Head(mb_start).arg]
  /\ state' = [state EXCEPT ![t] = "GET_ADDR"]
  /\ UNCHANGED <<mainVars, mb_stop, got, job, ram, memoryVars, calcs>>

(* "while (true) { calc(); if (iterations == 0) break; --iterations; }" *)
HwReadIterations(t) ==
  /\ t[1] = "hw" /\ state[t] = "READ_ITERATIONS" /\ mb_start # <<>>
  /\ mb_start' = Tail(mb_start)
  /\ count' = [count EXCEPT ![t] = Head(mb_start).arg - 1]
  /\ state' = [state EXCEPT ![t] = "GET_ADDR"]
  /\ UNCHANGED <<mainVars, mb_stop, got, job, ram, memoryVars, calcs>>

HwRead(t) ==
  /\ t[1] = "hw" /\ state[t] = "READ" /\ job[t].op \in {"block", "WITHOUT_MEMORY"}
  /\ ram' = IF job[t] = WITHOUT_MEMORY THEN ram
            ELSE [ram EXCEPT ![t] = memory[job[t].arg].input]
  /\ state' = [state EXCEPT ![t] = "STARTING"]
  /\ UNCHANGED <<mainVars, mb_start, mb_stop, got, job, count, memoryVars, calcs>>

(* STARTING and EVAL, until the component answers. *)
HwEval(t) ==
  /\ t[1] = "hw" /\ state[t] = "STARTING"
  /\ state' = [state EXCEPT ![t] = "WRITE"]
  /\ UNCHANGED <<mainVars, mb_start, mb_stop, got, job, count, ram, memoryVars, calcs>>

(* What the local RAM answers: the results are words 18 to 21. *)
RamWord(address) == IF address \in 18..21 THEN "dx" ELSE "U"

(* STATE_WRITE copies from word 0 of the local RAM into main memory. *)
HwWrite(t) ==
  /\ t[1] = "hw" /\ state[t] = "WRITE"
  /\ IF job[t] = WITHOUT_MEMORY
     THEN /\ state' = [state EXCEPT ![t] = "ACK"]
          /\ UNCHANGED <<count, memory, calcs>>
     ELSE LET b == job[t].arg
              k == IF ram[t] THEN calcs[b] + 1 ELSE 0
          IN /\ memory' = [memory EXCEPT ![b].output = [calculation |-> k, ram |-> RamWord(0)]]
             /\ calcs' = [calcs EXCEPT ![b] = @ + 1]
             /\ state' = [state EXCEPT ![t] = IF count[t] = 0 THEN "ACK" ELSE "READ"]
             /\ count' = [count EXCEPT ![t] = IF @ = 0 THEN @ ELSE @ - 1]
  /\ UNCHANGED <<mainVars, mb_start, mb_stop, got, job, ram, cached, dirty>>

HwAck(t) ==
  /\ t[1] = "hw" /\ state[t] = "ACK" /\ mb_stop < simulation_steps
  /\ mb_stop' = mb_stop + 1
  /\ state' = [state EXCEPT ![t] = "GET_ADDR"]
  /\ UNCHANGED <<mainVars, mb_start, got, job, count, ram, memoryVars, calcs>>

Thread(t) ==
  \/ SwGetPointer(t) \/ SwCalculate(t) \/ SwEnd(t) \/ SwAck(t)
  \/ HwGetAddr(t) \/ HwReadIterations(t) \/ HwRead(t) \/ HwEval(t) \/ HwWrite(t) \/ HwAck(t)

Next ==
  \/ Main
  \/ \E t \in Threads : Thread(t)
  \/ \E b \in Blocks : conf.memory /\ (CacheLoad(b) \/ CacheReplace(b))

(* Main and the threads are scheduled fairly; the caches owe nothing. *)
Spec ==
  /\ Init /\ [][Next]_vars
  /\ WF_vars(Main)
  /\ \A t \in {"hw", "sw"} \X (1..32) : WF_vars(t \in Threads /\ Thread(t))
-----------------------------------------------------------------------------
TypeOK ==
  /\ phase \in {"start", "put", "wait", "check", "terminate", "done"}
  /\ {mb_stop, left, iteration} \subseteq Nat
  /\ state \in [Threads -> {"GET_ADDR", "CALC", "READ_ITERATIONS", "READ", "STARTING",
                            "WRITE", "ACK", "THREAD_EXIT"}]
  /\ calcs \in [Blocks -> Nat] /\ dirty \subseteq {b \in Blocks : cached[b] # NoCopy}

(* What a thread takes for a pointer is a pointer main has sent - not parts *)
(* of two pointers, not a number of iterations - and no two threads work on *)
(* the same block, though any thread may take any of them.  main refuses    *)
(* more than one thread where a pointer takes two words because "the        *)
(* threads might get parts from different pointers".                        *)
PointersIntact ==
  /\ TypeOK
  /\ \A t \in Threads :
       state[t] \in {"CALC", "READ", "STARTING", "WRITE", "ACK"} =>
         job[t].op = IF conf.memory THEN "block" ELSE "WITHOUT_MEMORY"
  /\ \A t, u \in Threads :
       /\ t # u /\ conf.memory
       /\ {state[t], state[u]} \subseteq {"CALC", "READ", "STARTING", "WRITE"}
       => job[t] # job[u]

(* --iterations and --iterations-in-thread: between two iterations every    *)
(* block has been calculated as often as asked for, whichever threads took  *)
(* it, and the threads of an iteration are done with it.                    *)
CalculatedAsAsked ==
  phase \in {"start", "check"} /\ conf.memory /\ conf.inThread >= 1 =>
    /\ \A b \in Blocks : calcs[b] = iteration * conf.inThread
    /\ \A t \in Threads : state[t] = "GET_ADDR" /\ got[t] = <<>>
    /\ mb_start = <<>> /\ mb_stop = 0

(* When main checks the data, the results it sees of every block were       *)
(* stored by the last calculation, made from the generated inputs, whichever*)
(* thread calculated the block in this and in earlier iterations and        *)
(* whatever the caches have loaded in the meantime.  With --dont-flush only *)
(* where no hardware takes part.  This is about how recent the results are; *)
(* the words a hardware thread stores for them are undefined, see below.    *)
ResultsCurrent ==
  phase = "check" /\ conf.memory /\ (conf.flush \/ conf.hw = 0) =>
    \A b \in Blocks : View(b).input /\ View(b).output.calculation = calcs[b]

(* What a hardware thread stores are the results in its local RAM.  It does *)
(* not hold: README, disagreement 13.                                       *)
HardwareResultsDefined ==
  phase = "check" /\ conf.memory =>
    \A b \in Blocks : View(b).output.ram # "U"

(* Every run of the program ends and all its threads have exited. *)
Terminates == <>(phase = "done")
=============================================================================
