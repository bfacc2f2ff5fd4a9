----------------------------- MODULE MboxPutGet -----------------------------
(***************************************************************************)
(* The mbox_put_get performance test: main puts one command per thread     *)
(* into mb_start, performs the counterpart of the measured operation on    *)
(* mb_test or sem_test, and waits for the acknowledgements in mb_stop.     *)
(* Software threads run software_thread, hardware threads the state        *)
(* machine of hwt_mbox_put_get.vhd.  Mailboxes and semaphores are those of *)
(* ReconOS and pthreads: bounded FIFO queues of words and counters.        *)
(***************************************************************************)
EXTENDS Integers, Sequences, FiniteSets

CONSTANTS
  Configurations,   \* command lines: [hw, sw, iterations, inThread, op, size]
  ArgLimit,         \* 2^24 in the code: the argument of a command is below it
  WidePointers      \* sizeof(void*) > sizeof(uint32_t)

ASSUME ArgLimitAssumption == ArgLimit \in Nat \ {0}

VARIABLES
  conf,           \* the command line
  phase, left,    \* main: the loop it is in, and the steps left of it
  iteration,      \* main: finished iterations
  mb_start,       \* the words in mb_start
  mb_stop,        \* number of words in mb_stop; main ignores their values
  mb_test,        \* number of words in mb_test; nobody looks at their values
  sem_test,       \* the value of the semaphore
  state, count,   \* per thread: state and operations left
  command,        \* per thread: the command it is working on
  buffer          \* per thread: the words it took for address and size

mainVars == <<conf, phase, left, iteration>>
threadVars == <<state, count, command, buffer>>
testVars == <<mb_test, sem_test>>
vars == <<mainVars, mb_start, mb_stop, testVars, threadVars>>

Operations == {"nop", "mbox_put", "mbox_get", "sem_post", "sem_wait", "mem_read", "mem_write"}
MemoryOperations == {"mem_read", "mem_write"}

ASSUME ConfigurationsAssumption ==
  Configurations \subseteq [hw : Nat, sw : Nat, iterations : Nat, inThread : Nat,
                            op : Operations, size : Nat]

Word == [op : Operations \union {"THREAD_EXIT", "buffer", "size", "other"}, arg : 0..(ArgLimit - 1)]
Command(op, arg) == [op |-> op, arg |-> arg]

running_threads(c) == c.hw + c.sw
Threads == ({"hw"} \X (1..conf.hw)) \union ({"sw"} \X (1..conf.sw))

(* The checks of main. *)
Accepted(c) ==
  /\ c.iterations >= 1
  /\ WidePointers => running_threads(c) <= 1
  /\ c.inThread > 1 => c.hw = 0 \/ running_threads(c) = 1
  /\ c.inThread < ArgLimit

Init ==
  /\ conf \in {c \in Configurations : Accepted(c)}
  /\ phase = "put" /\ left = running_threads(conf)
  /\ iteration = 0
  /\ mb_start = <<>> /\ mb_stop = 0 /\ mb_test = 0 /\ sem_test = 0
  /\ state = [t \in Threads |-> "START"]
  /\ count = [t \in Threads |-> 0]
  /\ command = [t \in Threads |-> Command("nop", 0)]
  /\ buffer = [t \in Threads |-> <<>>]
-----------------------------------------------------------------------------
(* mb_start and mb_stop are created for running_threads words. *)
PutStart(word) ==
  /\ Len(mb_start) < running_threads(conf)
  /\ mb_start' = Append(mb_start, word)

(* What an operation does to mb_test and sem_test.  Memory is not modelled. *)
Perform(op) ==
  CASE op = "mbox_put" -> /\ mb_test < conf.size
                          /\ mb_test' = mb_test + 1 /\ UNCHANGED sem_test
    [] op = "mbox_get" -> mb_test > 0 /\ mb_test' = mb_test - 1 /\ UNCHANGED sem_test
    [] op = "sem_post" -> sem_test' = sem_test + 1 /\ UNCHANGED mb_test
    [] op = "sem_wait" -> sem_test > 0 /\ sem_test' = sem_test - 1 /\ UNCHANGED mb_test
    [] OTHER -> UNCHANGED testVars

Counterpart(op) ==
  CASE op = "mbox_put" -> "mbox_get"
    [] op = "mbox_get" -> "mbox_put"
    [] op = "sem_post" -> "sem_wait"
    [] op = "sem_wait" -> "sem_post"
    [] OTHER -> "nop"

(* The steps main takes per thread while the threads perform the operation. *)
CounterpartSteps ==
  CASE conf.op = "nop" -> 0
    [] conf.op \in MemoryOperations -> 2
    [] OTHER -> conf.inThread

(* The command's argument; delta_iterations, an undocumented option, is 0. *)
MainPut ==
  /\ phase = "put" /\ left > 0
  /\ PutStart(Command(conf.op, (conf.inThread - 1) % ArgLimit))
  /\ left' = left - 1
  /\ UNCHANGED <<conf, phase, iteration, mb_stop, testVars, threadVars>>

MainPerform ==
  /\ phase = "perform" /\ left > 0
  /\ IF conf.op \in MemoryOperations
     THEN /\ PutStart(Command(IF left % 2 = 0 THEN "buffer" ELSE "size", 0))
          /\ UNCHANGED testVars
     ELSE Perform(Counterpart(conf.op)) /\ UNCHANGED mb_start
  /\ left' = left - 1
  /\ UNCHANGED <<conf, phase, iteration, mb_stop, threadVars>>

MainWait ==
  /\ phase = "wait" /\ left > 0
  /\ mb_stop > 0 /\ mb_stop' = mb_stop - 1
  /\ left' = left - 1
  /\ UNCHANGED <<conf, phase, iteration, mb_start, testVars, threadVars>>

MainTerminate ==
  /\ phase = "terminate" /\ left > 0
  /\ PutStart(Command("THREAD_EXIT", 0))
  /\ left' = left - 1
  /\ UNCHANGED <<conf, phase, iteration, mb_stop, testVars, threadVars>>

NextLoop ==
  /\ left = 0
  /\ \/ /\ phase = "put" /\ phase' = "perform"
        /\ left' = running_threads(conf) * CounterpartSteps
        /\ UNCHANGED iteration
     \/ /\ phase = "perform" /\ phase' = "wait"
        /\ left' = running_threads(conf)
        /\ UNCHANGED iteration
     \/ /\ phase = "wait"
        /\ iteration' = iteration + 1
        /\ phase' = IF iteration' < conf.iterations THEN "put" ELSE "terminate"
        /\ left' = running_threads(conf)
     \/ /\ phase = "terminate" /\ phase' = "join"
        /\ UNCHANGED <<left, iteration>>
  /\ UNCHANGED <<conf, mb_start, mb_stop, testVars, threadVars>>

MainJoin ==
  /\ phase = "join"
  /\ \A t \in Threads : state[t] = "THREAD_EXIT"
  /\ phase' = "done"
  /\ UNCHANGED <<conf, left, iteration, mb_start, mb_stop, testVars, threadVars>>

Main == MainPut \/ MainPerform \/ MainWait \/ MainTerminate \/ NextLoop \/ MainJoin
-----------------------------------------------------------------------------
(* What a thread takes a word of mb_start for when it expects a command: an *)
(* address can look like any command, a size like nop.                      *)
AsCommand(word) ==
  CASE word.op = "buffer" -> [op : Operations \union {"other"}, arg : 0..(ArgLimit - 1)]
    [] word.op = "size" -> {Command("nop", 0)}
    [] OTHER -> {word}

(* The state in which a thread handles a command; the software thread has *)
(* no case for memory operations, the hardware thread answers commands it *)
(* does not know with nothing.                                            *)
SwState(op) ==
  CASE op = "THREAD_EXIT" -> "THREAD_EXIT"
    [] op \in {"mbox_put", "mbox_get", "sem_post", "sem_wait"} -> "WORK"
    [] OTHER -> "ACK"

HwState(op) ==
  CASE op = "THREAD_EXIT" -> "THREAD_EXIT"
    [] op = "nop" -> "ACK"
    [] op \in MemoryOperations -> "GET_ADDRESS"
    [] op = "other" -> "START"
    [] OTHER -> "WORK"

(* The hardware thread performs one operation more than count says; that *)
(* forgotten, and the software thread taken to do so as well.            *)
OperationsPlusOne(t, arg) == arg + 1
OperationsZeroBased(t, arg) == arg
OperationsOf(t, arg) == IF t[1] = "sw" THEN arg + 1 ELSE arg

GetCommand(t) ==
  /\ state[t] = "START" /\ mb_start # <<>>
  /\ mb_start' = Tail(mb_start)
  /\ \E word \in AsCommand(Head(mb_start)) :
       /\ state' = [state EXCEPT ![t] = IF t[1] = "sw" THEN SwState(word.op) ELSE HwState(word.op)]
       /\ count' = [count EXCEPT ![t] = OperationsOf(t, word.arg)]
       /\ command' = [command EXCEPT ![t] = word]
  /\ buffer' = [buffer EXCEPT ![t] = <<>>]
  /\ UNCHANGED <<mainVars, mb_stop, testVars>>

(* STATE_GET_READ_ADDRESS, STATE_GET_READ_SIZE, and those for writing. *)
GetAddressAndSize(t) ==
  /\ state[t] = "GET_ADDRESS" /\ mb_start # <<>>
  /\ mb_start' = Tail(mb_start)
  /\ buffer' = [buffer EXCEPT ![t] = Append(@, Head(mb_start).op)]
  /\ state' = [state EXCEPT ![t] = IF Len(buffer'[t]) = 2 THEN "WORK" ELSE "GET_ADDRESS"]
  /\ UNCHANGED <<mainVars, mb_stop, testVars, count, command>>

(* for (; count > 0; count--) *)
SwWork(t) ==
  /\ t[1] = "sw" /\ state[t] = "WORK"
  /\ Perform(command[t].op)
  /\ count' = [count EXCEPT ![t] = @ - 1]
  /\ state' = IF count'[t] > 0 THEN state ELSE [state EXCEPT ![t] = "ACK"]
  /\ UNCHANGED <<mainVars, mb_start, mb_stop, command, buffer>>

(* The acknowledgement forgotten. *)
HwWorkUnanswered(t) ==
  /\ t[1] = "hw" /\ state[t] = "WORK"
  /\ Perform(command[t].op)
  /\ IF count[t] # 0
     THEN count' = [count EXCEPT ![t] = @ - 1] /\ UNCHANGED state
     ELSE state' = [state EXCEPT ![t] = "START"] /\ UNCHANGED count
  /\ UNCHANGED <<mainVars, mb_start, mb_stop, command, buffer>>

(* STATE_PUT_N, STATE_GET_N, STATE_POST_N, STATE_WAIT_N, STATE_READ and     *)
(* STATE_WRITE: the counter is compared after the operation.                *)
HwWork(t) ==
  /\ t[1] = "hw" /\ state[t] = "WORK"
  /\ Perform(command[t].op)
  /\ IF count[t] # 0
     THEN count' = [count EXCEPT ![t] = @ - 1] /\ UNCHANGED state
     ELSE state' = [state EXCEPT ![t] = "ACK"] /\ UNCHANGED count
  /\ UNCHANGED <<mainVars, mb_start, mb_stop, command, buffer>>

Acknowledge(t) ==
  /\ state[t] = "ACK"
  /\ mb_stop < running_threads(conf)
  /\ mb_stop' = mb_stop + 1
  /\ state' = [state EXCEPT ![t] = "START"]
  /\ UNCHANGED <<mainVars, mb_start, testVars, count, command, buffer>>

Thread(t) == GetCommand(t) \/ GetAddressAndSize(t) \/ SwWork(t) \/ HwWork(t) \/ Acknowledge(t)

Next == Main \/ \E t \in Threads : Thread(t)

(* Main and the threads are scheduled fairly, and the hardware is clocked. *)
Spec ==
  /\ Init /\ [][Next]_vars
  /\ WF_vars(Main)
  /\ \A t \in {"hw", "sw"} \X (1..32) : WF_vars(t \in Threads /\ Thread(t))
-----------------------------------------------------------------------------
TypeOK ==
  /\ phase \in {"put", "perform", "wait", "terminate", "join", "done"}
  /\ {left, iteration, mb_stop, mb_test, sem_test} \subseteq Nat
  /\ mb_start \in Seq(Word)
  /\ state \in [Threads -> {"START", "GET_ADDRESS", "WORK", "ACK", "THREAD_EXIT"}]
  /\ count \in [Threads -> 0..ArgLimit]

(* When main begins an iteration or goes to terminate the threads, the one  *)
(* before has left nothing behind: no command, no word, no semaphore count, *)
(* and every thread waits for a command - though a fast thread may have     *)
(* answered several commands and a slow one none.                           *)
IterationsLeaveNothing ==
  phase \in {"put", "terminate"} /\ left = running_threads(conf) =>
    /\ mb_start = <<>> /\ mb_stop = 0 /\ mb_test = 0 /\ sem_test = 0
    /\ \A t \in Threads : state[t] = "START"

(* A command is acknowledged once and only when all of it is done: commands *)
(* waiting, in work, acknowledged and read by main are those main has sent. *)
(* So no thread ever waits for room in mb_stop, which main does not read    *)
(* before it has performed its part of the operations of all threads.  A    *)
(* thread that reads a message of several words gets the words of one       *)
(* message: main refuses two threads where a pointer takes two words, as    *)
(* "the threads might get parts from different pointers".                   *)
CommandsAccountedFor ==
  LET waiting == {k \in DOMAIN mb_start : mb_start[k].op \in Operations}
      working == {t \in Threads : state[t] \in {"GET_ADDRESS", "WORK", "ACK"}}
      sent == IF phase = "put" THEN running_threads(conf) - left ELSE running_threads(conf)
      answered == IF phase = "wait" THEN running_threads(conf) - left ELSE 0
  IN /\ TypeOK
     /\ phase \in {"put", "perform", "wait"} =>
          sent = Cardinality(waiting) + Cardinality(working) + mb_stop + answered
     /\ \A t \in Threads : \A k \in DOMAIN buffer[t] : buffer[t][k] = <<"buffer", "size">>[k]

(* Whatever is measured, the test ends and all its threads have exited. *)
Terminates == <>(phase = "done")
=============================================================================
