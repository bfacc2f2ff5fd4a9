--------------------------- MODULE MboxPutGetProofs ---------------------------
EXTENDS MboxPutGet, SumTheorems

(* The command lines measure.sh uses: an operation is performed at least    *)
(* once, and the memory operations are measured with one hardware thread    *)
(* (with more of them the words of their messages get mixed up).            *)
Measured ==
  \A c \in Configurations :
    c.inThread >= 1 /\ (c.op \in MemoryOperations => c.hw = 1 /\ c.sw = 0)
-----------------------------------------------------------------------------
R == running_threads(conf)
TheCommand == Command(conf.op, conf.inThread - 1)
TheExit == Command("THREAD_EXIT", 0)

Iterating == phase \in {"put", "perform", "wait"}
unsent == IF phase = "put" THEN left ELSE 0
answered == IF phase = "wait" THEN R - left ELSE 0
Working == {t \in Threads : state[t] \in {"WORK", "ACK"}}
Exited == {t \in Threads : state[t] = "THREAD_EXIT"}

(* The operations a thread has yet to perform for its command. *)
Remaining == [t \in Threads |-> IF state[t] # "WORK" THEN 0
                                ELSE IF t[1] = "sw" THEN count[t] ELSE count[t] + 1]

(* What the threads and what main have yet to do in this iteration. *)
ThreadShare == conf.inThread * (unsent + Len(mb_start)) + SumFunctionOnSet(Remaining, Threads)
MainShare == IF phase = "put" THEN R * conf.inThread ELSE IF phase = "perform" THEN left ELSE 0

(* Every operation not yet performed has its counterpart, among those not   *)
(* yet performed or in the mailbox or semaphore.                            *)
Balanced ==
  /\ conf.op = "mbox_put" => mb_test + ThreadShare = MainShare /\ sem_test = 0
  /\ conf.op = "mbox_get" => mb_test + MainShare = ThreadShare /\ sem_test = 0
  /\ conf.op = "sem_post" => sem_test + ThreadShare = MainShare /\ mb_test = 0
  /\ conf.op = "sem_wait" => sem_test + MainShare = ThreadShare /\ mb_test = 0
  /\ conf.op = "nop" => mb_test = 0 /\ sem_test = 0

(* While any operation but those on memory is measured. *)
PlainIteration ==
  /\ \A k \in DOMAIN mb_start : mb_start[k] = TheCommand
  /\ \A t \in Threads :
       /\ state[t] \in {"START", "WORK", "ACK"}
       /\ state[t] = "WORK" => /\ command[t].op = conf.op /\ conf.op # "nop"
                               /\ Remaining[t] >= 1
  /\ R - unsent = Len(mb_start) + Cardinality(Working) + mb_stop + answered
  /\ Balanced

PlainEnd ==
  /\ \A k \in DOMAIN mb_start : mb_start[k] = TheExit
  /\ \A t \in Threads : state[t] \in {"START", "THREAD_EXIT"}
  /\ R - left = Len(mb_start) + Cardinality(Exited)
  /\ mb_stop = 0 /\ mb_test = 0 /\ sem_test = 0

(* While a memory operation is measured: one thread and a mailbox for one   *)
(* word, so that main and the thread take turns.                            *)
T == <<"hw", 1>>
Turn(words, st, n, stop) ==
  mb_start = words /\ state[T] = st /\ Len(buffer[T]) = n /\ mb_stop = stop
Idle == mb_start = <<>> /\ state[T] = "START" /\ mb_stop = 0

MemoryTurns ==
  /\ mb_test = 0 /\ sem_test = 0
  /\ phase = "put" /\ left = 1 => Idle
  /\ (phase = "put" /\ left = 0) \/ (phase = "perform" /\ left = 2) =>
       \/ mb_start = <<TheCommand>> /\ state[T] = "START" /\ mb_stop = 0
       \/ Turn(<<>>, "GET_ADDRESS", 0, 0)
  /\ phase = "perform" /\ left = 1 =>
       \/ Turn(<<Command("buffer", 0)>>, "GET_ADDRESS", 0, 0)
       \/ Turn(<<>>, "GET_ADDRESS", 1, 0)
  /\ (phase = "perform" /\ left = 0) \/ (phase = "wait" /\ left = 1) =>
       \/ Turn(<<Command("size", 0)>>, "GET_ADDRESS", 1, 0)
       \/ Turn(<<>>, "WORK", 2, 0)
       \/ Turn(<<>>, "ACK", 2, 0)
       \/ Turn(<<>>, "START", 2, 1)
  /\ phase = "wait" /\ left = 0 => Idle
  /\ phase = "terminate" /\ left = 1 => Idle
  /\ phase \in {"terminate", "join", "done"} /\ left = 0 =>
       \/ mb_start = <<TheExit>> /\ state[T] = "START" /\ mb_stop = 0
       \/ mb_start = <<>> /\ state[T] = "THREAD_EXIT" /\ mb_stop = 0
  /\ left <= IF phase = "perform" THEN 2 ELSE 1
  /\ state[T] \in {"GET_ADDRESS", "WORK"} => command[T].op = conf.op
  /\ buffer[T] \in Seq({"buffer", "size"})
  /\ \A k \in DOMAIN buffer[T] : buffer[T][k] = <<"buffer", "size">>[k]

MPInv ==
  /\ conf \in Configurations /\ Accepted(conf)
  /\ TypeOK
  /\ command \in [Threads -> Word]
  /\ DOMAIN buffer = Threads
  /\ phase # "perform" => left <= R
  /\ phase \in {"join", "done"} => left = 0
  /\ IF conf.op \in MemoryOperations THEN MemoryTurns
     ELSE /\ \A t \in Threads : buffer[t] = <<>>
          /\ IF Iterating THEN PlainIteration ELSE PlainEnd
-----------------------------------------------------------------------------
(* What the checks of the command line leave of the options. *)
LEMMA ConfFacts ==
  ASSUME Measured, conf \in Configurations, Accepted(conf)
  PROVE  /\ conf.hw \in Nat /\ conf.sw \in Nat /\ R \in Nat /\ R = conf.hw + conf.sw
         /\ conf.inThread \in Nat /\ conf.inThread >= 1
         /\ (conf.inThread - 1) % ArgLimit = conf.inThread - 1
         /\ conf.inThread - 1 \in 0..(ArgLimit - 1)
         /\ conf.op \in Operations
         /\ conf.op \in MemoryOperations => conf.hw = 1 /\ conf.sw = 0 /\ R = 1
<1>1. conf \in [hw : Nat, sw : Nat, iterations : Nat, inThread : Nat, op : Operations, size : Nat]
  BY ConfigurationsAssumption
<1>2. conf.inThread >= 1 /\ conf.inThread < ArgLimit /\ ArgLimit \in Nat \ {0}
  BY ArgLimitAssumption DEF Measured, Accepted
<1>3. conf.op \in MemoryOperations => conf.hw = 1 /\ conf.sw = 0
  BY DEF Measured
<1>4. conf.hw \in Nat /\ conf.sw \in Nat /\ R \in Nat /\ R = conf.hw + conf.sw
      /\ conf.inThread \in Nat /\ conf.op \in Operations
  BY <1>1 DEF R, running_threads
<1>5. \A m \in Nat, n \in Nat : m < n => m % n = m
  OBVIOUS
<1>6. (conf.inThread - 1) % ArgLimit = conf.inThread - 1
  BY <1>2, <1>4, <1>5
<1> QED BY <1>2, <1>3, <1>4, <1>6

(* There are finitely many threads, and one hardware thread for a memory *)
(* operation.                                                            *)
LEMMA ThreadFacts ==
  ASSUME Measured, conf \in Configurations, Accepted(conf)
  PROVE  /\ IsFiniteSet(Threads)
         /\ \A t \in Threads : t[1] \in {"hw", "sw"}
         /\ conf.op \in MemoryOperations => Threads = {T} /\ T[1] = "hw"
<1>1. conf.hw \in Nat /\ conf.sw \in Nat
  BY ConfFacts
<1>2. IsFiniteSet(1..conf.hw) /\ IsFiniteSet(1..conf.sw) /\ IsFiniteSet({"hw"}) /\ IsFiniteSet({"sw"})
  <2>1. \A n \in Nat : IsFiniteSet(1..n)
    BY FS_Interval
  <2> QED BY <1>1, <2>1, FS_Singleton
<1>3. IsFiniteSet({"hw"} \X (1..conf.hw)) /\ IsFiniteSet({"sw"} \X (1..conf.sw))
  BY <1>2, FS_Product
<1>4. IsFiniteSet(Threads)
  BY <1>3, FS_Union DEF Threads
<1>5. \A t \in Threads : t[1] \in {"hw", "sw"}
  BY DEF Threads
<1>6. ASSUME conf.op \in MemoryOperations PROVE Threads = {T} /\ T[1] = "hw"
  <2>1. conf.hw = 1 /\ conf.sw = 0
    BY <1>6, ConfFacts
  <2>2. 1..conf.hw = {1} /\ 1..conf.sw = {}
    BY <2>1
  <2> QED BY <2>2 DEF Threads, T
<1> QED BY <1>4, <1>5, <1>6

(* The invariant holds initially. *)
LEMMA MPInitial == Measured /\ Init => MPInv
<1> SUFFICES ASSUME Measured, Init PROVE MPInv
  OBVIOUS
<1>1. conf \in Configurations /\ Accepted(conf)
  BY DEF Init
<1>2. R \in Nat /\ left = R /\ phase = "put" /\ conf.op \in Operations /\ ArgLimit \in Nat \ {0}
      /\ conf.inThread \in Nat
  BY <1>1, ConfFacts, ArgLimitAssumption DEF Init, R
<1>3. TypeOK /\ command \in [Threads -> Word] /\ DOMAIN buffer = Threads
  BY <1>2 DEF Init, TypeOK, Command, Word, Operations
<1>4. CASE conf.op \in MemoryOperations
  <2>1. R = 1 /\ Threads = {T}
    BY <1>1, <1>4, ConfFacts, ThreadFacts
  <2>2. MemoryTurns
    BY <1>2, <2>1 DEF Init, MemoryTurns, Idle
  <2> QED BY <1>1, <1>2, <1>3, <1>4, <2>2 DEF MPInv
<1>5. CASE conf.op \notin MemoryOperations
  <2>1. Working = {} /\ Cardinality({}) = 0
    BY FS_EmptySet DEF Init, Working
  <2>2. SumFunctionOnSet(Remaining, Threads) = 0
    <3>1. \A t \in Threads : Remaining[t] = 0
      BY DEF Init, Remaining
    <3> QED BY <1>1, <3>1, ThreadFacts, SumZero
  <2>3. ThreadShare = conf.inThread * R /\ MainShare = R * conf.inThread
    BY <1>2, <2>2 DEF Init, ThreadShare, MainShare, unsent
  <2>4. Balanced
    BY <1>2, <2>3 DEF Init, Balanced
  <2>5. PlainIteration
    BY <1>2, <2>1, <2>4 DEF Init, PlainIteration, unsent, answered
  <2> QED BY <1>1, <1>2, <1>3, <1>5, <2>5 DEF Init, MPInv, Iterating
<1> QED BY <1>4, <1>5
-----------------------------------------------------------------------------
(* The configuration never changes. *)
LEMMA Frame ==
  ASSUME MPInv, [Next]_vars
  PROVE  /\ conf' = conf /\ R' = R /\ TheCommand' = TheCommand /\ Threads' = Threads
         /\ (conf \in Configurations /\ Accepted(conf))'
<1>1. conf' = conf
  BY DEF Next, vars, mainVars, Main, MainPut, MainPerform, MainWait, MainTerminate, NextLoop,
         MainJoin, Thread, GetCommand, GetAddressAndSize, SwWork, HwWork, Acknowledge
<1> QED BY <1>1 DEF MPInv, R, TheCommand, Threads, Accepted

(* An operation leaves its counter a natural number. *)
LEMMA PerformTyped ==
  ASSUME TypeOK, NEW op, Perform(op)
  PROVE  {mb_test', sem_test'} \subseteq Nat
BY DEF TypeOK, Perform, testVars

(* Words read as commands are commands. *)
LEMMA CommandTyped ==
  ASSUME NEW word \in Word, NEW c \in AsCommand(word)
  PROVE  c \in Word
<1>1. ArgLimit \in Nat \ {0}
  BY ArgLimitAssumption
<1>2. CASE word.op = "buffer"
  BY <1>2 DEF AsCommand, Word
<1>3. CASE word.op = "size"
  BY <1>1, <1>3 DEF AsCommand, Word, Command, Operations
<1>4. CASE word.op \notin {"buffer", "size"}
  BY <1>4 DEF AsCommand
<1> QED BY <1>2, <1>3, <1>4

Typed == TypeOK /\ command \in [Threads -> Word] /\ DOMAIN buffer = Threads

(* A step of main keeps the types. *)
LEMMA MainTyped ==
  ASSUME Measured, MPInv, Main
  PROVE  Typed'
<1>1. /\ left \in Nat /\ iteration \in Nat /\ mb_stop \in Nat /\ mb_test \in Nat /\ sem_test \in Nat
      /\ mb_start \in Seq(Word)
      /\ phase \in {"put", "perform", "wait", "terminate", "join", "done"}
      /\ TypeOK /\ Typed
  BY DEF MPInv, Typed, TypeOK
<1>2. conf' = conf /\ Threads' = Threads
  BY Frame DEF Next
<1>3. UNCHANGED threadVars => (state \in [Threads -> {"START", "GET_ADDRESS", "WORK", "ACK", "THREAD_EXIT"}]
                               /\ count \in [Threads -> 0..ArgLimit]
                               /\ command \in [Threads -> Word] /\ DOMAIN buffer = Threads)'
  BY <1>1, <1>2 DEF Typed, TypeOK, threadVars
<1>4. /\ R \in Nat /\ R = running_threads(conf) /\ conf.op \in Operations /\ conf.inThread \in Nat
      /\ (conf.inThread - 1) % ArgLimit \in 0..(ArgLimit - 1) /\ 0 \in 0..(ArgLimit - 1)
  BY ConfFacts, ArgLimitAssumption DEF MPInv, R
<1>5. \A op \in Operations \union {"THREAD_EXIT", "buffer", "size"}, arg \in 0..(ArgLimit - 1) :
        Append(mb_start, Command(op, arg)) \in Seq(Word)
  <2>1. \A op \in Operations \union {"THREAD_EXIT", "buffer", "size"}, arg \in 0..(ArgLimit - 1) :
          Command(op, arg) \in Word
    BY DEF Command, Word
  <2> QED BY <1>1, <2>1
<1>6. SUFFICES /\ UNCHANGED threadVars
               /\ left' \in Nat /\ iteration' \in Nat /\ mb_stop' \in Nat
               /\ mb_test' \in Nat /\ sem_test' \in Nat
               /\ mb_start' \in Seq(Word)
               /\ phase' \in {"put", "perform", "wait", "terminate", "join", "done"}
  BY <1>3 DEF Typed, TypeOK
<1>7. CASE MainPut
  <2>1. mb_start' \in Seq(Word)
    BY <1>4, <1>5, <1>7 DEF MainPut, PutStart
  <2>2. left' \in Nat
    BY <1>1, <1>7 DEF MainPut
  <2> QED BY <1>1, <1>7, <2>1, <2>2 DEF MainPut, testVars
<1>8. CASE MainPerform
  <2>1. mb_start' \in Seq(Word)
    BY <1>1, <1>4, <1>5, <1>8 DEF MainPerform, PutStart
  <2>2. mb_test' \in Nat /\ sem_test' \in Nat
    BY <1>1, <1>8, PerformTyped DEF MainPerform, testVars
  <2>3. left' \in Nat
    BY <1>1, <1>8 DEF MainPerform
  <2> QED BY <1>1, <1>8, <2>1, <2>2, <2>3 DEF MainPerform
<1>9. CASE MainWait
  <2>1. left' \in Nat /\ mb_stop' \in Nat
    BY <1>1, <1>9 DEF MainWait
  <2> QED BY <1>1, <1>9, <2>1 DEF MainWait, testVars
<1>10. CASE MainTerminate
  <2>1. mb_start' \in Seq(Word)
    BY <1>4, <1>5, <1>10 DEF MainTerminate, PutStart
  <2>2. left' \in Nat
    BY <1>1, <1>10 DEF MainTerminate
  <2> QED BY <1>1, <1>10, <2>1, <2>2 DEF MainTerminate, testVars
<1>11. CASE NextLoop
  <2>1. CounterpartSteps \in Nat
    BY <1>4 DEF CounterpartSteps
  <2>2. R * CounterpartSteps \in Nat
    BY <1>4, <2>1
  <2>3. left' \in Nat /\ iteration' \in Nat
    BY <1>1, <1>4, <1>11, <2>2 DEF NextLoop
  <2> QED BY <1>1, <1>11, <2>3 DEF NextLoop, testVars
<1>12. CASE MainJoin
  BY <1>1, <1>12 DEF MainJoin, testVars
<1> QED BY <1>7, <1>8, <1>9, <1>10, <1>11, <1>12 DEF Main

(* A software thread has an operation left when it performs one. *)
LEMMA OperationLeft ==
  ASSUME Measured, MPInv, NEW t \in Threads, t[1] = "sw", state[t] = "WORK"
  PROVE  count[t] >= 1
<1>1. conf.op \notin MemoryOperations
  BY ThreadFacts DEF MPInv, T
<1>2. PlainIteration
  BY <1>1 DEF MPInv, PlainEnd
<1> QED BY <1>2 DEF PlainIteration, Remaining

(* A step of a thread keeps the types. *)
LEMMA ThreadTyped ==
  ASSUME Measured, MPInv, NEW t \in Threads, Thread(t)
  PROVE  Typed'
<1>1. /\ left \in Nat /\ iteration \in Nat /\ mb_stop \in Nat /\ mb_test \in Nat /\ sem_test \in Nat
      /\ mb_start \in Seq(Word)
      /\ phase \in {"put", "perform", "wait", "terminate", "join", "done"}
      /\ TypeOK /\ Typed /\ ArgLimit \in Nat \ {0}
      /\ state \in [Threads -> {"START", "GET_ADDRESS", "WORK", "ACK", "THREAD_EXIT"}]
      /\ count \in [Threads -> 0..ArgLimit] /\ command \in [Threads -> Word] /\ DOMAIN buffer = Threads
  BY ArgLimitAssumption DEF MPInv, Typed, TypeOK
<1>2. Threads' = Threads /\ UNCHANGED mainVars
  <2>1. Threads' = Threads
    BY Frame DEF Next
  <2> QED BY <2>1 DEF Thread, GetCommand, GetAddressAndSize, SwWork, HwWork, Acknowledge
<1>3. SUFFICES /\ mb_stop' \in Nat /\ mb_test' \in Nat /\ sem_test' \in Nat
               /\ mb_start' \in Seq(Word)
               /\ state' \in [Threads -> {"START", "GET_ADDRESS", "WORK", "ACK", "THREAD_EXIT"}]
               /\ count' \in [Threads -> 0..ArgLimit]
               /\ command' \in [Threads -> Word] /\ DOMAIN buffer' = Threads
  BY <1>1, <1>2 DEF Typed, TypeOK, mainVars
<1>4. \A s \in {"START", "GET_ADDRESS", "WORK", "ACK", "THREAD_EXIT"} :
        [state EXCEPT ![t] = s] \in [Threads -> {"START", "GET_ADDRESS", "WORK", "ACK", "THREAD_EXIT"}]
  BY <1>1
<1>5. mb_start # <<>> => Head(mb_start) \in Word /\ Tail(mb_start) \in Seq(Word)
  BY <1>1
<1>6. CASE GetCommand(t)
  <2>1. PICK word \in AsCommand(Head(mb_start)) :
          /\ state' = [state EXCEPT ![t] = IF t[1] = "sw" THEN SwState(word.op) ELSE HwState(word.op)]
          /\ count' = [count EXCEPT ![t] = OperationsOf(t, word.arg)]
          /\ command' = [command EXCEPT ![t] = word]
    BY <1>6 DEF GetCommand
  <2>2. word \in Word
    BY <1>5, <1>6, CommandTyped DEF GetCommand
  <2>3. state' \in [Threads -> {"START", "GET_ADDRESS", "WORK", "ACK", "THREAD_EXIT"}]
    BY <1>4, <2>1 DEF SwState, HwState
  <2>4. count' \in [Threads -> 0..ArgLimit]
    <3>1. OperationsOf(t, word.arg) \in 0..ArgLimit
      BY <1>1, <2>2 DEF Word, OperationsOf
    <3> QED BY <1>1, <2>1, <3>1
  <2> QED BY <1>1, <1>5, <1>6, <2>1, <2>2, <2>3, <2>4 DEF GetCommand, testVars
<1>7. CASE GetAddressAndSize(t)
  <2>1. state' \in [Threads -> {"START", "GET_ADDRESS", "WORK", "ACK", "THREAD_EXIT"}]
    BY <1>4, <1>7 DEF GetAddressAndSize
  <2>2. DOMAIN buffer' = Threads
    BY <1>1, <1>7 DEF GetAddressAndSize
  <2> QED BY <1>1, <1>5, <1>7, <2>1, <2>2 DEF GetAddressAndSize, testVars
<1>8. CASE SwWork(t)
  <2>1. count' \in [Threads -> 0..ArgLimit]
    <3>1. count[t] \in 0..ArgLimit /\ count[t] >= 1
      BY <1>1, <1>8, OperationLeft DEF SwWork
    <3>2. count[t] - 1 \in 0..ArgLimit
      BY <1>1, <3>1
    <3> QED BY <1>1, <1>8, <3>2 DEF SwWork
  <2>2. state' \in [Threads -> {"START", "GET_ADDRESS", "WORK", "ACK", "THREAD_EXIT"}]
    BY <1>1, <1>4, <1>8 DEF SwWork
  <2>3. mb_test' \in Nat /\ sem_test' \in Nat
    BY <1>1, <1>8, PerformTyped DEF SwWork
  <2> QED BY <1>1, <1>8, <2>1, <2>2, <2>3 DEF SwWork
<1>9. CASE HwWork(t)
  <2>1. count' \in [Threads -> 0..ArgLimit]
    <3>1. count[t] \in 0..ArgLimit
      BY <1>1
    <3>2. count[t] # 0 => count[t] - 1 \in 0..ArgLimit
      BY <1>1, <3>1
    <3> QED BY <1>1, <1>9, <3>2 DEF HwWork
  <2>2. state' \in [Threads -> {"START", "GET_ADDRESS", "WORK", "ACK", "THREAD_EXIT"}]
    BY <1>1, <1>4, <1>9 DEF HwWork
  <2>3. mb_test' \in Nat /\ sem_test' \in Nat
    BY <1>1, <1>9, PerformTyped DEF HwWork
  <2> QED BY <1>1, <1>9, <2>1, <2>2, <2>3 DEF HwWork
<1>10. CASE Acknowledge(t)
  <2>1. state' \in [Threads -> {"START", "GET_ADDRESS", "WORK", "ACK", "THREAD_EXIT"}] /\ mb_stop' \in Nat
    BY <1>1, <1>4, <1>10 DEF Acknowledge
  <2> QED BY <1>1, <1>10, <2>1 DEF Acknowledge, testVars
<1> QED BY <1>6, <1>7, <1>8, <1>9, <1>10 DEF Thread
-----------------------------------------------------------------------------
(* The steps while a memory operation is measured. *)
LEMMA MemoryMain ==
  ASSUME Measured, MPInv, conf.op \in MemoryOperations, Main
  PROVE  MemoryTurns'
<1>1. /\ MemoryTurns /\ left \in Nat /\ R = 1 /\ running_threads(conf) = 1
      /\ (conf.inThread - 1) % ArgLimit = conf.inThread - 1
      /\ phase \in {"put", "perform", "wait", "terminate", "join", "done"}
      /\ phase \in {"join", "done"} => left = 0
  BY ConfFacts DEF MPInv, TypeOK, R
<1>2. conf' = conf /\ TheCommand' = TheCommand
  BY Frame DEF Next
<1>3. UNCHANGED threadVars
  BY DEF Main, MainPut, MainPerform, MainWait, MainTerminate, NextLoop, MainJoin
<1>4. state' = state /\ buffer' = buffer /\ command' = command
  BY <1>3 DEF threadVars
<1>5. \A w : Append(<<>>, w) = <<w>>
  OBVIOUS
<1>6. Len(mb_start) < 1 /\ (mb_start = <<>> \/ \E w : mb_start = <<w>>) => mb_start = <<>>
  OBVIOUS
<1>7. CASE MainPut
  <2>1. phase = "put" /\ left = 1 /\ Idle
    BY <1>1, <1>7 DEF MainPut, MemoryTurns
  <2>2. mb_start' = <<TheCommand>>
    BY <1>1, <1>5, <1>7, <2>1 DEF MainPut, PutStart, Idle, TheCommand
  <2>3. phase' = "put" /\ left' = 0 /\ mb_stop' = 0 /\ state'[T] = "START"
        /\ mb_test' = 0 /\ sem_test' = 0 /\ state[T] # "WORK"
    BY <1>1, <1>4, <1>7, <2>1 DEF MainPut, Idle, MemoryTurns, testVars
  <2> QED BY <1>1, <1>2, <1>4, <2>2, <2>3 DEF MemoryTurns
<1>8. CASE MainPerform
  <2>1. phase = "perform" /\ left \in {1, 2}
    BY <1>1, <1>8 DEF MainPerform, MemoryTurns
  <2>2. mb_start = <<>> \/ \E w : mb_start = <<w>>
    BY <1>1, <2>1 DEF MemoryTurns, Turn
  <2>3. mb_start = <<>>
    BY <1>1, <1>6, <1>8, <2>2 DEF MainPerform, PutStart
  <2>4. /\ Turn(<<>>, "GET_ADDRESS", IF left = 2 THEN 0 ELSE 1, 0)
    BY <1>1, <2>1, <2>3 DEF MemoryTurns, Turn
  <2>5. mb_start' = <<Command(IF left % 2 = 0 THEN "buffer" ELSE "size", 0)>>
    BY <1>1, <1>5, <1>8, <2>3 DEF MainPerform, PutStart
  <2>6. phase' = "perform" /\ left' = left - 1 /\ mb_stop' = 0 /\ state'[T] = "GET_ADDRESS"
        /\ mb_test' = 0 /\ sem_test' = 0
    BY <1>1, <1>4, <1>8, <2>4 DEF MainPerform, Turn, MemoryTurns, testVars
  <2>7. CASE left = 2
    <3>1. mb_start' = <<Command("buffer", 0)>> /\ Len(buffer'[T]) = 0 /\ left' = 1
      BY <1>4, <2>4, <2>5, <2>6, <2>7 DEF Turn
    <3> QED BY <1>1, <1>2, <1>4, <2>6, <3>1 DEF MemoryTurns, Turn
  <2>8. CASE left = 1
    <3>1. mb_start' = <<Command("size", 0)>> /\ Len(buffer'[T]) = 1 /\ left' = 0
      BY <1>4, <2>4, <2>5, <2>6, <2>8 DEF Turn
    <3> QED BY <1>1, <1>2, <1>4, <2>6, <3>1 DEF MemoryTurns, Turn
  <2> QED BY <2>1, <2>7, <2>8
<1>9. CASE MainWait
  <2>1. phase = "wait" /\ left = 1 /\ mb_stop > 0
    BY <1>1, <1>9 DEF MainWait, MemoryTurns
  <2>2. Turn(<<>>, "START", 2, 1)
    BY <1>1, <2>1 DEF MemoryTurns, Turn
  <2>3. phase' = "wait" /\ left' = 0 /\ Idle' /\ mb_test' = 0 /\ sem_test' = 0 /\ state'[T] = "START"
    BY <1>1, <1>4, <1>9, <2>1, <2>2 DEF MainWait, Idle, Turn, MemoryTurns, testVars
  <2> QED BY <1>1, <1>4, <2>3 DEF MemoryTurns
<1>10. CASE MainTerminate
  <2>1. phase = "terminate" /\ left = 1 /\ Idle
    BY <1>1, <1>10 DEF MainTerminate, MemoryTurns
  <2>2. mb_start' = <<TheExit>>
    BY <1>5, <1>10, <2>1 DEF MainTerminate, PutStart, Idle, TheExit
  <2>3. phase' = "terminate" /\ left' = 0 /\ mb_stop' = 0 /\ state'[T] = "START"
        /\ mb_test' = 0 /\ sem_test' = 0
    BY <1>1, <1>4, <1>10, <2>1 DEF MainTerminate, Idle, MemoryTurns, testVars
  <2>4. TheExit' = TheExit
    BY DEF TheExit, Command
  <2> QED BY <1>1, <1>4, <2>2, <2>3, <2>4 DEF MemoryTurns
<1>11. CASE NextLoop
  <2>1. left = 0 /\ mb_start' = mb_start /\ mb_stop' = mb_stop /\ mb_test' = mb_test /\ sem_test' = sem_test
    BY <1>11 DEF NextLoop, testVars
  <2>2. CounterpartSteps = 2
    BY DEF CounterpartSteps, MemoryOperations
  <2>3. TheExit' = TheExit
    BY DEF TheExit, Command
  <2>4. CASE phase = "put"
    <3>1. phase' = "perform" /\ left' = 2
      BY <1>1, <1>11, <2>2, <2>4 DEF NextLoop
    <3> QED BY <1>1, <1>2, <1>4, <2>1, <2>4, <3>1 DEF MemoryTurns, Turn
  <2>5. CASE phase = "perform"
    <3>1. phase' = "wait" /\ left' = 1
      BY <1>1, <1>11, <2>5 DEF NextLoop
    <3> QED BY <1>1, <1>2, <1>4, <2>1, <2>5, <3>1 DEF MemoryTurns, Turn
  <2>6. CASE phase = "wait"
    <3>1. phase' \in {"put", "terminate"} /\ left' = 1
      BY <1>1, <1>11, <2>6 DEF NextLoop
    <3> QED BY <1>1, <1>4, <2>1, <2>6, <3>1 DEF MemoryTurns, Idle
  <2>7. CASE phase = "terminate"
    <3>1. phase' = "join" /\ left' = 0
      BY <1>11, <2>1, <2>7 DEF NextLoop
    <3> QED BY <1>1, <1>4, <2>1, <2>3, <2>7, <3>1 DEF MemoryTurns
  <2> QED BY <1>11, <2>4, <2>5, <2>6, <2>7 DEF NextLoop
<1>12. CASE MainJoin
  <2>1. /\ phase = "join" /\ phase' = "done" /\ left' = left /\ mb_start' = mb_start /\ mb_stop' = mb_stop
        /\ mb_test' = mb_test /\ sem_test' = sem_test
    BY <1>12 DEF MainJoin, testVars
  <2>2. TheExit' = TheExit
    BY DEF TheExit, Command
  <2> QED BY <1>1, <1>4, <2>1, <2>2 DEF MemoryTurns
<1> QED BY <1>7, <1>8, <1>9, <1>10, <1>11, <1>12 DEF Main

(* The only thread of a memory operation keeps to its turn. *)
LEMMA MemoryThread ==
  ASSUME Measured, MPInv, conf.op \in MemoryOperations, NEW t \in Threads, Thread(t)
  PROVE  MemoryTurns'
<1>1. /\ MemoryTurns /\ left \in Nat /\ R = 1 /\ t = T /\ T[1] = "hw" /\ T \in Threads
      /\ phase \in {"put", "perform", "wait", "terminate", "join", "done"}
      /\ phase \in {"join", "done"} => left = 0
      /\ DOMAIN state = Threads /\ DOMAIN buffer = Threads /\ DOMAIN command = Threads
  BY ConfFacts, ThreadFacts DEF MPInv, TypeOK
<1>2. conf' = conf /\ TheCommand' = TheCommand /\ TheExit' = TheExit
  BY Frame DEF Next, TheExit, Command
<1>3. /\ phase' = phase /\ left' = left
  BY DEF Thread, GetCommand, GetAddressAndSize, SwWork, HwWork, Acknowledge, mainVars
<1>4. \A w : Head(<<w>>) = w /\ Tail(<<w>>) = <<>>
  OBVIOUS
<1>5. CASE GetCommand(t)
  <2>1. state[T] = "START" /\ mb_start # <<>> /\ mb_stop' = mb_stop /\ mb_test' = 0 /\ sem_test' = 0
        /\ buffer'[T] = <<>>
    BY <1>1, <1>5 DEF GetCommand, testVars, MemoryTurns
  <2>2. /\ mb_stop = 0 /\ buffer'[T] = <<>>
        /\ \/ mb_start = <<TheCommand>> /\ ((phase = "put" /\ left = 0) \/ (phase = "perform" /\ left = 2))
           \/ mb_start = <<TheExit>> /\ phase \in {"terminate", "join", "done"} /\ left = 0
    BY <1>1, <2>1 DEF MemoryTurns, Turn, Idle
  <2>3. mb_start' = <<>>
    BY <1>4, <1>5, <2>2 DEF GetCommand
  <2>4. CASE mb_start = <<TheCommand>>
    <3>1. AsCommand(Head(mb_start)) = {TheCommand}
      BY <1>4, <2>4, <1>1 DEF AsCommand, TheCommand, Command, MemoryOperations
    <3>2. state'[T] = HwState(conf.op) /\ command'[T] = TheCommand
      BY <1>1, <1>5, <3>1 DEF GetCommand, TheCommand, Command
    <3>3. state'[T] = "GET_ADDRESS"
      BY <3>2 DEF HwState, MemoryOperations
    <3>4. (phase = "put" /\ left = 0) \/ (phase = "perform" /\ left = 2)
      BY <2>2, <2>4 DEF TheCommand, TheExit, Command, MemoryOperations
    <3>5. command'[T].op = conf.op
      BY <3>2 DEF TheCommand, Command
    <3> QED BY <1>1, <1>2, <1>3, <2>1, <2>2, <2>3, <3>3, <3>4, <3>5 DEF MemoryTurns, Turn
  <2>5. CASE mb_start = <<TheExit>>
    <3>1. AsCommand(Head(mb_start)) = {TheExit}
      BY <1>4, <2>5 DEF AsCommand, TheExit, Command
    <3>2. state'[T] = HwState("THREAD_EXIT")
      BY <1>1, <1>5, <3>1 DEF GetCommand, TheExit, Command
    <3>3. state'[T] = "THREAD_EXIT"
      BY <3>2 DEF HwState, MemoryOperations
    <3>4. phase \in {"terminate", "join", "done"} /\ left = 0
      BY <2>2, <2>5 DEF TheCommand, TheExit, Command, MemoryOperations
    <3> QED BY <1>1, <1>3, <2>1, <2>2, <2>3, <3>3, <3>4 DEF MemoryTurns, Turn
  <2> QED BY <2>2, <2>4, <2>5
<1>6. CASE GetAddressAndSize(t)
  <2>1. /\ state[T] = "GET_ADDRESS" /\ mb_start # <<>> /\ mb_stop' = mb_stop /\ mb_test' = 0 /\ sem_test' = 0
        /\ buffer'[T] = Append(buffer[T], Head(mb_start).op)
        /\ state'[T] = IF Len(buffer'[T]) = 2 THEN "WORK" ELSE "GET_ADDRESS"
        /\ command' = command /\ mb_start' = Tail(mb_start)
    BY <1>1, <1>6 DEF GetAddressAndSize, testVars, MemoryTurns
  <2>2. \/ /\ Turn(<<Command("buffer", 0)>>, "GET_ADDRESS", 0, 0)
           /\ phase = "perform" /\ left = 1
        \/ /\ Turn(<<Command("size", 0)>>, "GET_ADDRESS", 1, 0)
           /\ (phase = "perform" /\ left = 0) \/ (phase = "wait" /\ left = 1)
    BY <1>1, <2>1 DEF MemoryTurns, Turn, Idle
  <2>3. mb_start' = <<>> /\ mb_stop' = 0
    BY <1>4, <2>1, <2>2 DEF Turn
  <2>4. CASE phase = "perform" /\ left = 1
    <3>1. Head(mb_start).op = "buffer" /\ Len(buffer[T]) = 0 /\ buffer[T] \in Seq({"buffer", "size"})
      BY <1>1, <1>4, <2>2, <2>4 DEF Turn, Command, MemoryTurns
    <3>2. /\ Len(buffer'[T]) = 1 /\ buffer'[T] \in Seq({"buffer", "size"})
          /\ DOMAIN buffer'[T] = 1..1 /\ DOMAIN buffer[T] = 1..0
          /\ \A k \in 1..0 : buffer'[T][k] = buffer[T][k]
          /\ buffer'[T][1] = "buffer"
      BY <2>1, <3>1
    <3>3. state'[T] = "GET_ADDRESS"
      BY <2>1, <3>2
    <3>4. command[T].op = conf.op
      BY <1>1, <2>1 DEF MemoryTurns
    <3>5. \A k \in DOMAIN buffer'[T] : buffer'[T][k] = <<"buffer", "size">>[k]
      BY <1>1, <3>2 DEF MemoryTurns
    <3> QED BY <1>1, <1>2, <1>3, <2>1, <2>2, <2>3, <2>4, <3>2, <3>3, <3>4, <3>5 DEF MemoryTurns, Turn
  <2>5. CASE ~ (phase = "perform" /\ left = 1)
    <3>1. Head(mb_start).op = "size" /\ Len(buffer[T]) = 1 /\ buffer[T] \in Seq({"buffer", "size"})
      BY <1>1, <1>4, <2>2, <2>5 DEF Turn, Command, MemoryTurns
    <3>2. /\ Len(buffer'[T]) = 2 /\ buffer'[T] \in Seq({"buffer", "size"})
          /\ DOMAIN buffer'[T] = 1..2 /\ DOMAIN buffer[T] = 1..1
          /\ \A k \in 1..1 : buffer'[T][k] = buffer[T][k]
          /\ buffer'[T][2] = "size"
      BY <2>1, <3>1
    <3>3. state'[T] = "WORK"
      BY <2>1, <3>2
    <3>4. command[T].op = conf.op
      BY <1>1, <2>1 DEF MemoryTurns
    <3>5. \A k \in DOMAIN buffer'[T] : buffer'[T][k] = <<"buffer", "size">>[k]
      BY <1>1, <3>2 DEF MemoryTurns
    <3> QED BY <1>1, <1>2, <1>3, <2>1, <2>2, <2>3, <2>5, <3>2, <3>3, <3>4, <3>5 DEF MemoryTurns, Turn
  <2> QED BY <2>4, <2>5
<1>7. CASE SwWork(t)
  BY <1>1, <1>7 DEF SwWork
<1>8. CASE HwWork(t)
  <2>1. /\ state[T] = "WORK" /\ state'[T] \in {"WORK", "ACK"} /\ command' = command /\ buffer' = buffer
        /\ mb_start' = mb_start /\ mb_stop' = mb_stop
    BY <1>1, <1>8 DEF HwWork
  <2>2. command[T].op = conf.op
    BY <1>1, <2>1 DEF MemoryTurns
  <2>3. mb_test' = 0 /\ sem_test' = 0
    BY <1>1, <1>8, <2>2 DEF HwWork, Perform, MemoryOperations, testVars, MemoryTurns
  <2>4. Turn(<<>>, "WORK", 2, 0)
        /\ ((phase = "perform" /\ left = 0) \/ (phase = "wait" /\ left = 1))
    BY <1>1, <2>1 DEF MemoryTurns, Turn, Idle
  <2> QED BY <1>1, <1>2, <1>3, <2>1, <2>2, <2>3, <2>4 DEF MemoryTurns, Turn
<1>9. CASE Acknowledge(t)
  <2>1. /\ state[T] = "ACK" /\ state'[T] = "START" /\ command' = command /\ buffer' = buffer
        /\ mb_start' = mb_start /\ mb_stop' = mb_stop + 1 /\ mb_test' = 0 /\ sem_test' = 0
    BY <1>1, <1>9 DEF Acknowledge, testVars, MemoryTurns
  <2>2. Turn(<<>>, "ACK", 2, 0)
        /\ ((phase = "perform" /\ left = 0) \/ (phase = "wait" /\ left = 1))
    BY <1>1, <2>1 DEF MemoryTurns, Turn, Idle
  <2> QED BY <1>1, <1>3, <2>1, <2>2 DEF MemoryTurns, Turn
<1> QED BY <1>5, <1>6, <1>7, <1>8, <1>9 DEF Thread
-----------------------------------------------------------------------------
(* The steps while any other operation is measured. *)
LEMMA ShareFacts ==
  ASSUME Measured, conf \in Configurations, Accepted(conf), Typed
  PROVE  /\ \A t \in Threads : Remaining[t] \in Int /\ Remaining[t] >= 0
         /\ SumFunctionOnSet(Remaining, Threads) \in Int /\ SumFunctionOnSet(Remaining, Threads) >= 0
         /\ IsFiniteSet(Working) /\ Cardinality(Working) \in Nat
         /\ IsFiniteSet(Exited) /\ Cardinality(Exited) \in Nat
         /\ Len(mb_start) \in Nat
         /\ ThreadShare \in Int /\ MainShare \in Int /\ unsent \in Nat
<1>1. \A t \in Threads : Remaining[t] \in Int /\ Remaining[t] >= 0
  BY DEF Remaining, Typed, TypeOK
<1>2. SumFunctionOnSet(Remaining, Threads) \in Int /\ SumFunctionOnSet(Remaining, Threads) >= 0
  BY <1>1, ThreadFacts, SumNat
<1>3. IsFiniteSet(Working) /\ IsFiniteSet(Exited)
  BY ThreadFacts, FS_Subset DEF Working, Exited
<1>4. Cardinality(Working) \in Nat /\ Cardinality(Exited) \in Nat
  BY <1>3, FS_CardinalityType
<1>5. Len(mb_start) \in Nat /\ unsent \in Nat /\ left \in Nat
  BY DEF Typed, TypeOK, unsent
<1>6. conf.inThread \in Nat /\ R \in Nat
  BY ConfFacts
<1>7. ThreadShare \in Int /\ MainShare \in Int
  BY <1>2, <1>5, <1>6 DEF ThreadShare, MainShare
<1> QED BY <1>1, <1>2, <1>3, <1>4, <1>5, <1>7

(* An operation of a thread changes both sides of the balance. *)
LEMMA ThreadPerforms ==
  ASSUME Balanced, Perform(conf.op), conf' = conf, conf.op \in Operations \ MemoryOperations,
         ThreadShare \in Int, MainShare \in Int, mb_test \in Nat, sem_test \in Nat,
         ThreadShare' = ThreadShare - 1, MainShare' = MainShare
  PROVE  Balanced'
<1>1. conf.op \in {"nop", "mbox_put", "mbox_get", "sem_post", "sem_wait"}
  BY DEF Operations, MemoryOperations
<1>2. CASE conf.op = "nop"
  BY <1>2 DEF Perform, Balanced, testVars
<1>3. CASE conf.op = "mbox_put"
  BY <1>3 DEF Perform, Balanced
<1>4. CASE conf.op = "mbox_get"
  BY <1>4 DEF Perform, Balanced
<1>5. CASE conf.op = "sem_post"
  BY <1>5 DEF Perform, Balanced
<1>6. CASE conf.op = "sem_wait"
  BY <1>6 DEF Perform, Balanced
<1> QED BY <1>1, <1>2, <1>3, <1>4, <1>5, <1>6

(* One operation of main is taken from what it still owes the threads. *)
LEMMA MainPerforms ==
  ASSUME Balanced, Perform(Counterpart(conf.op)), conf' = conf, conf.op \in Operations \ MemoryOperations,
         ThreadShare \in Int, MainShare \in Int, mb_test \in Nat, sem_test \in Nat,
         ThreadShare' = ThreadShare, MainShare' = MainShare - 1
  PROVE  Balanced'
<1>1. conf.op \in {"nop", "mbox_put", "mbox_get", "sem_post", "sem_wait"}
  BY DEF Operations, MemoryOperations
<1>2. CASE conf.op = "nop"
  BY <1>2 DEF Perform, Counterpart, Balanced, testVars
<1>3. CASE conf.op = "mbox_put"
  BY <1>3 DEF Perform, Counterpart, Balanced
<1>4. CASE conf.op = "mbox_get"
  BY <1>4 DEF Perform, Counterpart, Balanced
<1>5. CASE conf.op = "sem_post"
  BY <1>5 DEF Perform, Counterpart, Balanced
<1>6. CASE conf.op = "sem_wait"
  BY <1>6 DEF Perform, Counterpart, Balanced
<1> QED BY <1>1, <1>2, <1>3, <1>4, <1>5, <1>6

PlainPart == IF Iterating THEN PlainIteration ELSE PlainEnd

(* A word at the end of the mailbox, or its first word taken. *)
LEMMA WordsStay ==
  ASSUME NEW s \in Seq(Word), NEW w, \A k \in DOMAIN s : s[k] = w
  PROVE  /\ Len(s) \in Nat
         /\ w \in Word => \A k \in DOMAIN Append(s, w) : Append(s, w)[k] = w
         /\ Len(Append(s, w)) = Len(s) + 1
         /\ s # <<>> => /\ Head(s) = w /\ Len(Tail(s)) = Len(s) - 1 /\ Len(s) > 0
                        /\ \A k \in DOMAIN Tail(s) : Tail(s)[k] = w
OBVIOUS

(* Main keeps the balance of operations that do not use memory. *)
LEMMA PlainMain ==
  ASSUME Measured, MPInv, conf.op \notin MemoryOperations, Main
  PROVE  PlainPart'
<1>1. /\ left \in Nat /\ mb_stop \in Nat /\ mb_test \in Nat /\ sem_test \in Nat /\ mb_start \in Seq(Word)
      /\ PlainPart /\ Typed /\ conf \in Configurations /\ Accepted(conf)
      /\ phase \in {"put", "perform", "wait", "terminate", "join", "done"}
      /\ phase # "perform" => left <= R
  BY DEF MPInv, Typed, TypeOK, PlainPart
<1>2. /\ conf' = conf /\ TheCommand' = TheCommand /\ TheExit' = TheExit /\ R' = R /\ Threads' = Threads
  BY Frame DEF Next, TheExit, Command
<1>3. /\ R \in Nat /\ R = running_threads(conf) /\ conf.op \in Operations /\ conf.inThread \in Nat
      /\ (conf.inThread - 1) % ArgLimit = conf.inThread - 1
      /\ TheCommand \in Word /\ TheExit \in Word
  <2>1. conf.inThread - 1 \in 0..(ArgLimit - 1) /\ 0 \in 0..(ArgLimit - 1) /\ conf.op \in Operations
    BY <1>1, ConfFacts, ArgLimitAssumption
  <2>2. TheCommand \in Word /\ TheExit \in Word
    BY <2>1 DEF TheCommand, TheExit, Command, Word
  <2> QED BY <1>1, <2>2, ConfFacts DEF R
<1>4. UNCHANGED threadVars
  BY DEF Main, MainPut, MainPerform, MainWait, MainTerminate, NextLoop, MainJoin
<1>5. /\ state' = state /\ command' = command /\ Remaining' = Remaining
      /\ Working' = Working /\ Exited' = Exited
  BY <1>2, <1>4 DEF threadVars, Remaining, Working, Exited
<1>6. /\ SumFunctionOnSet(Remaining, Threads)' = SumFunctionOnSet(Remaining, Threads)
      /\ Cardinality(Working)' = Cardinality(Working) /\ Cardinality(Exited)' = Cardinality(Exited)
  BY <1>2, <1>5
<1>7. /\ SumFunctionOnSet(Remaining, Threads) \in Int
      /\ Cardinality(Working) \in Nat /\ Cardinality(Exited) \in Nat /\ Len(mb_start) \in Nat
      /\ ThreadShare \in Int /\ MainShare \in Int
  BY <1>1, ShareFacts
<1>7a. /\ R \in Nat /\ left \in Nat /\ mb_stop \in Nat /\ Len(mb_start) \in Nat
      /\ Cardinality(Working) \in Nat /\ Cardinality(Exited) \in Nat
      /\ R' = R /\ Cardinality(Working)' = Cardinality(Working) /\ Cardinality(Exited)' = Cardinality(Exited)
  BY <1>1, <1>2, <1>3, <1>6, <1>7
<1>8. CASE MainPut
  <2>1. /\ phase = "put" /\ phase' = "put" /\ left > 0 /\ left' = left - 1
        /\ mb_start' = Append(mb_start, TheCommand)
        /\ mb_stop' = mb_stop /\ mb_test' = mb_test /\ sem_test' = sem_test
    BY <1>3, <1>8 DEF MainPut, PutStart, TheCommand, testVars
  <2>2. PlainIteration
    BY <1>1, <2>1 DEF PlainPart, Iterating
  <2>3. Len(mb_start') = Len(mb_start) + 1 /\ \A k \in DOMAIN mb_start' : mb_start'[k] = TheCommand
    BY <1>1, <1>3, <2>1, <2>2, WordsStay DEF PlainIteration
  <2>4. unsent' = left - 1 /\ unsent = left /\ answered' = 0 /\ answered = 0
    BY <2>1 DEF unsent, answered
  <2>5. ThreadShare' = ThreadShare /\ MainShare' = MainShare
    <3>1. unsent' + Len(mb_start') = unsent + Len(mb_start)
      BY <1>1, <1>7, <2>3, <2>4
    <3> QED BY <1>2, <1>6, <2>1, <3>1 DEF ThreadShare, MainShare
  <2>6. Balanced'
    BY <1>2, <2>1, <2>2, <2>5 DEF PlainIteration, Balanced
  <2>7. (R - unsent = Len(mb_start) + Cardinality(Working) + mb_stop + answered)'
    <3>1. R - unsent = Len(mb_start) + Cardinality(Working) + mb_stop + answered
      BY <2>2 DEF PlainIteration
    <3> QED BY <1>7a, <2>1, <2>3, <2>4, <3>1
  <2> QED BY <1>2, <1>5, <2>1, <2>2, <2>3, <2>6, <2>7 DEF PlainPart, PlainIteration, Iterating
<1>9. CASE MainPerform
  <2>1. /\ phase = "perform" /\ phase' = "perform" /\ left > 0 /\ left' = left - 1
        /\ Perform(Counterpart(conf.op)) /\ mb_start' = mb_start /\ mb_stop' = mb_stop
    BY <1>9 DEF MainPerform
  <2>2. PlainIteration
    BY <1>1, <2>1 DEF PlainPart, Iterating
  <2>3. unsent' = 0 /\ unsent = 0 /\ answered' = 0 /\ answered = 0
    BY <2>1 DEF unsent, answered
  <2>4. ThreadShare' = ThreadShare /\ MainShare' = MainShare - 1
    BY <1>2, <1>6, <2>1, <2>3 DEF ThreadShare, MainShare
  <2>5. Balanced'
    BY <1>1, <1>2, <1>3, <1>7, <2>1, <2>2, <2>4, MainPerforms DEF PlainIteration
  <2>6. (R - unsent = Len(mb_start) + Cardinality(Working) + mb_stop + answered)'
    BY <1>7a, <2>1, <2>2, <2>3 DEF PlainIteration
  <2> QED BY <1>2, <1>5, <2>1, <2>2, <2>5, <2>6 DEF PlainPart, PlainIteration, Iterating
<1>10. CASE MainWait
  <2>1. /\ phase = "wait" /\ phase' = "wait" /\ left > 0 /\ left' = left - 1
        /\ mb_start' = mb_start /\ mb_stop' = mb_stop - 1 /\ mb_stop > 0
        /\ mb_test' = mb_test /\ sem_test' = sem_test
    BY <1>10 DEF MainWait, testVars
  <2>2. PlainIteration
    BY <1>1, <2>1 DEF PlainPart, Iterating
  <2>3. unsent' = 0 /\ unsent = 0 /\ answered' = R - left + 1 /\ answered = R - left
    BY <1>7a, <2>1 DEF unsent, answered
  <2>4. ThreadShare' = ThreadShare /\ MainShare' = MainShare
    BY <1>2, <1>6, <2>1, <2>3 DEF ThreadShare, MainShare
  <2>5. Balanced'
    BY <1>2, <2>1, <2>2, <2>4 DEF PlainIteration, Balanced
  <2>6. (R - unsent = Len(mb_start) + Cardinality(Working) + mb_stop + answered)'
    <3>1. R - unsent = Len(mb_start) + Cardinality(Working) + mb_stop + answered
      BY <2>2 DEF PlainIteration
    <3> QED BY <1>7a, <2>1, <2>3, <3>1
  <2> QED BY <1>2, <1>5, <2>1, <2>2, <2>5, <2>6 DEF PlainPart, PlainIteration, Iterating
<1>11. CASE MainTerminate
  <2>1. /\ phase = "terminate" /\ phase' = "terminate" /\ left > 0 /\ left' = left - 1
        /\ mb_start' = Append(mb_start, TheExit)
        /\ mb_stop' = mb_stop /\ mb_test' = mb_test /\ sem_test' = sem_test
    BY <1>11 DEF MainTerminate, PutStart, TheExit, testVars
  <2>2. PlainEnd
    BY <1>1, <2>1 DEF PlainPart, Iterating
  <2>3. Len(mb_start') = Len(mb_start) + 1 /\ \A k \in DOMAIN mb_start' : mb_start'[k] = TheExit
    BY <1>1, <1>3, <2>1, <2>2, WordsStay DEF PlainEnd
  <2>4. (R - left = Len(mb_start) + Cardinality(Exited))'
    <3>1. R - left = Len(mb_start) + Cardinality(Exited)
      BY <2>2 DEF PlainEnd
    <3> QED BY <1>7a, <2>1, <2>3, <3>1
  <2> QED BY <1>2, <1>5, <2>1, <2>2, <2>3, <2>4 DEF PlainPart, PlainEnd, Iterating
<1>12. CASE NextLoop
  <2>1. /\ left = 0 /\ mb_start' = mb_start /\ mb_stop' = mb_stop
        /\ mb_test' = mb_test /\ sem_test' = sem_test
    BY <1>12 DEF NextLoop, testVars
  <2>2. CASE phase = "put"
    <3>1. phase' = "perform" /\ left' = R * CounterpartSteps /\ PlainIteration
      BY <1>1, <1>3, <1>12, <2>2 DEF NextLoop, PlainPart, Iterating
    <3>2. unsent' = 0 /\ unsent = 0 /\ answered' = 0 /\ answered = 0
      BY <2>1, <2>2, <3>1 DEF unsent, answered
    <3>3. ThreadShare' = ThreadShare
      BY <1>2, <1>6, <2>1, <3>2 DEF ThreadShare
    <3>4. conf.op # "nop" => MainShare' = MainShare
      BY <1>2, <1>3, <2>2, <3>1 DEF MainShare, CounterpartSteps
    <3>5. Balanced'
      BY <1>2, <2>1, <3>1, <3>3, <3>4 DEF PlainIteration, Balanced
    <3>6. (R - unsent = Len(mb_start) + Cardinality(Working) + mb_stop + answered)'
      BY <1>7a, <2>1, <3>1, <3>2 DEF PlainIteration
    <3> QED BY <1>2, <1>5, <2>1, <3>1, <3>5, <3>6 DEF PlainPart, PlainIteration, Iterating
  <2>3. CASE phase = "perform"
    <3>1. phase' = "wait" /\ left' = R /\ PlainIteration
      BY <1>1, <1>3, <1>12, <2>3 DEF NextLoop, PlainPart, Iterating
    <3>2. unsent' = 0 /\ unsent = 0 /\ answered' = 0 /\ answered = 0
      BY <1>7a, <2>3, <3>1 DEF unsent, answered
    <3>3. ThreadShare' = ThreadShare /\ MainShare' = MainShare
      BY <1>2, <1>6, <2>1, <2>3, <3>1, <3>2 DEF ThreadShare, MainShare
    <3>4. Balanced'
      BY <1>2, <2>1, <3>1, <3>3 DEF PlainIteration, Balanced
    <3>5. (R - unsent = Len(mb_start) + Cardinality(Working) + mb_stop + answered)'
      BY <1>7a, <2>1, <3>1, <3>2 DEF PlainIteration
    <3> QED BY <1>2, <1>5, <2>1, <3>1, <3>4, <3>5 DEF PlainPart, PlainIteration, Iterating
  <2>4. CASE phase = "wait"
    <3>1. phase' \in {"put", "terminate"} /\ left' = R /\ PlainIteration
      BY <1>1, <1>3, <1>12, <2>4 DEF NextLoop, PlainPart, Iterating
    <3>2. unsent = 0 /\ answered = R
      BY <1>7a, <2>1, <2>4 DEF unsent, answered
    <3>3. R = Len(mb_start) + Cardinality(Working) + mb_stop + R
      BY <1>7a, <3>1, <3>2 DEF PlainIteration
    <3>4. Len(mb_start) = 0 /\ Cardinality(Working) = 0 /\ mb_stop = 0
      BY <1>7a, <3>3
    <3>5. \A t \in Threads : state[t] = "START"
      <4>1. Working = {}
        BY <1>1, <3>4, ShareFacts, FS_EmptySet
      <4> QED BY <3>1, <4>1 DEF Working, PlainIteration
    <3>6. SumFunctionOnSet(Remaining, Threads) = 0
      <4>1. \A t \in Threads : Remaining[t] = 0
        BY <3>5 DEF Remaining
      <4> QED BY <1>1, <4>1, ThreadFacts, SumZero
    <3>7. ThreadShare = 0 /\ MainShare = 0
      BY <1>3, <2>4, <3>2, <3>4, <3>6 DEF ThreadShare, MainShare
    <3>8. mb_test = 0 /\ sem_test = 0
      <4>1. conf.op \in {"nop", "mbox_put", "mbox_get", "sem_post", "sem_wait"} /\ Balanced
        BY <1>3, <3>1 DEF Operations, MemoryOperations, PlainIteration
      <4> QED BY <1>1, <3>7, <4>1 DEF Balanced
    <3>9. CASE phase' = "put"
      <4>1. unsent' = R /\ answered' = 0
        BY <3>1, <3>9 DEF unsent, answered
      <4>2. ThreadShare' = conf.inThread * R /\ MainShare' = R * conf.inThread
        BY <1>2, <1>3, <1>6, <1>7a, <2>1, <3>4, <3>6, <3>9, <4>1 DEF ThreadShare, MainShare
      <4>3. Balanced'
        BY <1>2, <1>3, <2>1, <3>8, <4>2 DEF Balanced
      <4>4. (R - unsent = Len(mb_start) + Cardinality(Working) + mb_stop + answered)'
        BY <1>7a, <2>1, <3>4, <4>1
      <4> QED BY <1>2, <1>5, <2>1, <3>1, <3>9, <4>3, <4>4 DEF PlainPart, PlainIteration, Iterating
    <3>10. CASE phase' = "terminate"
      <4>1. DOMAIN mb_start = {}
        BY <1>1, <3>4
      <4>2. Exited = {} /\ Cardinality(Exited) = 0
        BY <3>5, FS_EmptySet DEF Exited
      <4>3. (R - left = Len(mb_start) + Cardinality(Exited))'
        BY <1>7a, <2>1, <3>1, <3>4, <4>2
      <4> QED BY <1>2, <1>5, <2>1, <3>1, <3>4, <3>5, <3>8, <3>10, <4>1, <4>3 DEF PlainPart, PlainEnd, Iterating
    <3> QED BY <3>1, <3>9, <3>10
  <2>5. CASE phase = "terminate"
    <3>1. phase' = "join" /\ left' = left /\ PlainEnd
      BY <1>1, <1>12, <2>5 DEF NextLoop, PlainPart, Iterating
    <3> QED BY <1>2, <1>5, <1>6, <2>1, <3>1 DEF PlainPart, PlainEnd, Iterating
  <2> QED BY <1>12, <2>2, <2>3, <2>4, <2>5 DEF NextLoop
<1>13. CASE MainJoin
  <2>1. /\ phase = "join" /\ phase' = "done" /\ left' = left /\ mb_start' = mb_start /\ mb_stop' = mb_stop
        /\ mb_test' = mb_test /\ sem_test' = sem_test
    BY <1>13 DEF MainJoin, testVars
  <2>2. PlainEnd
    BY <1>1, <2>1 DEF PlainPart, Iterating
  <2> QED BY <1>2, <1>5, <1>6, <2>1, <2>2 DEF PlainPart, PlainEnd, Iterating
<1> QED BY <1>8, <1>9, <1>10, <1>11, <1>12, <1>13 DEF Main

(* So does every thread. *)
LEMMA PlainThread ==
  ASSUME Measured, MPInv, conf.op \notin MemoryOperations, NEW t \in Threads, Thread(t)
  PROVE  PlainPart' /\ \A u \in Threads : buffer'[u] = <<>>
<1>1. /\ left \in Nat /\ mb_stop \in Nat /\ mb_test \in Nat /\ sem_test \in Nat /\ mb_start \in Seq(Word)
      /\ PlainPart /\ Typed /\ conf \in Configurations /\ Accepted(conf)
      /\ phase \in {"put", "perform", "wait", "terminate", "join", "done"}
      /\ \A u \in Threads : buffer[u] = <<>>
      /\ DOMAIN state = Threads /\ DOMAIN count = Threads /\ DOMAIN command = Threads /\ DOMAIN buffer = Threads
      /\ count[t] \in Nat
  BY DEF MPInv, Typed, TypeOK, PlainPart
<1>2. /\ conf' = conf /\ TheCommand' = TheCommand /\ TheExit' = TheExit /\ R' = R /\ Threads' = Threads
  BY Frame DEF Next, TheExit, Command
<1>3. /\ R \in Nat /\ conf.op \in Operations /\ conf.inThread \in Nat /\ conf.inThread >= 1
  BY <1>1, ConfFacts
<1>4. /\ phase' = phase /\ left' = left
  BY DEF Thread, GetCommand, GetAddressAndSize, SwWork, HwWork, Acknowledge, mainVars
<1>5. /\ unsent' = unsent /\ answered' = answered /\ MainShare' = MainShare /\ unsent \in Nat
      /\ (phase \in {"put", "perform", "wait"} => R - unsent \in Int)
      /\ answered \in Int
  BY <1>1, <1>2, <1>3, <1>4 DEF unsent, answered, MainShare
<1>6. /\ IsFiniteSet(Threads) /\ IsFiniteSet(Working) /\ IsFiniteSet(Exited) /\ t[1] \in {"hw", "sw"}
      /\ SumFunctionOnSet(Remaining, Threads) \in Int
      /\ Cardinality(Working) \in Nat /\ Cardinality(Exited) \in Nat /\ Len(mb_start) \in Nat
      /\ ThreadShare \in Int /\ MainShare \in Int
      /\ \A u \in Threads : Remaining[u] \in Int
  BY <1>1, ShareFacts, ThreadFacts
<1>7. /\ Iterating => PlainIteration
      /\ ~ Iterating => PlainEnd
      /\ Iterating' = Iterating
  BY <1>1, <1>4 DEF PlainPart, Iterating
<1>8. ASSUME \A u \in Threads \ {t} : Remaining'[u] = Remaining[u], Remaining'[t] \in Int
      PROVE  SumFunctionOnSet(Remaining, Threads)'
             = SumFunctionOnSet(Remaining, Threads) - Remaining[t] + Remaining'[t]
  <2>1. \A u \in Threads : Remaining[u] \in Int /\ Remaining'[u] \in Int
    BY <1>6, <1>8
  <2> QED BY <1>2, <1>6, <1>8, <2>1, SumUpdate
<1>9. CASE GetCommand(t)
  <2>1. /\ state[t] = "START" /\ mb_start # <<>> /\ mb_start' = Tail(mb_start) /\ mb_stop' = mb_stop
        /\ mb_test' = mb_test /\ sem_test' = sem_test
        /\ \A u \in Threads : buffer'[u] = <<>>
    BY <1>1, <1>9 DEF GetCommand, testVars
  <2>2. CASE Iterating
    <3>1. PlainIteration
      BY <1>7, <2>2
    <3>2. /\ Head(mb_start) = TheCommand /\ Len(mb_start') = Len(mb_start) - 1 /\ Len(mb_start) > 0
          /\ \A k \in DOMAIN mb_start' : mb_start'[k] = TheCommand
      BY <1>1, <2>1, <3>1, WordsStay DEF PlainIteration
    <3>3. AsCommand(Head(mb_start)) = {TheCommand}
      <4>1. TheCommand.op \notin {"buffer", "size"}
        BY <1>3 DEF TheCommand, Command, Operations
      <4> QED BY <3>2, <4>1 DEF AsCommand
    <3>4. /\ state' = [state EXCEPT ![t] = IF t[1] = "sw" THEN SwState(conf.op) ELSE HwState(conf.op)]
          /\ count' = [count EXCEPT ![t] = OperationsOf(t, conf.inThread - 1)]
          /\ command' = [command EXCEPT ![t] = TheCommand]
      <4>1. TheCommand.op = conf.op /\ TheCommand.arg = conf.inThread - 1
        BY DEF TheCommand, Command
      <4> QED BY <1>9, <3>3, <4>1 DEF GetCommand
    <3>5. state'[t] = IF conf.op = "nop" THEN "ACK" ELSE "WORK"
      BY <1>1, <1>3, <3>4 DEF SwState, HwState, Operations, MemoryOperations
    <3>6. \A u \in Threads \ {t} : /\ state'[u] = state[u] /\ count'[u] = count[u] /\ command'[u] = command[u]
                                   /\ Remaining'[u] = Remaining[u]
      BY <1>1, <1>2, <3>4 DEF Remaining
    <3>7. Remaining[t] = 0 /\ Remaining'[t] = IF conf.op = "nop" THEN 0 ELSE conf.inThread
      BY <1>1, <1>2, <1>3, <1>6, <2>1, <3>4, <3>5 DEF Remaining, OperationsOf
    <3>8. conf.op # "nop" => ThreadShare' = ThreadShare
      <4> SUFFICES ASSUME conf.op # "nop" PROVE ThreadShare' = ThreadShare
        OBVIOUS
      <4>1. SumFunctionOnSet(Remaining, Threads)' = SumFunctionOnSet(Remaining, Threads) + conf.inThread
        BY <1>3, <1>6, <1>8, <3>6, <3>7
      <4>2. PICK i \in Nat : i = conf.inThread
        BY <1>3
      <4>3. PICK n \in Nat : n = unsent + Len(mb_start) /\ n - 1 = unsent' + Len(mb_start')
        BY <1>5, <1>6, <3>2
      <4>4. i * (n - 1) = i * n - i /\ i * n \in Int
        OBVIOUS
      <4>5. ThreadShare = i * n + SumFunctionOnSet(Remaining, Threads)
        BY <4>2, <4>3 DEF ThreadShare
      <4>6. ThreadShare' = i * (n - 1) + SumFunctionOnSet(Remaining, Threads)'
        BY <1>2, <4>2, <4>3 DEF ThreadShare
      <4> QED BY <1>6, <4>1, <4>2, <4>4, <4>5, <4>6
    <3>9. Balanced'
      BY <1>2, <1>5, <2>1, <3>1, <3>8 DEF PlainIteration, Balanced
    <3>10. Working' = Working \union {t} /\ t \notin Working
      BY <1>2, <2>1, <3>5, <3>6 DEF Working
    <3>11. (R - unsent = Len(mb_start) + Cardinality(Working) + mb_stop + answered)'
      <4>1. Cardinality(Working)' = Cardinality(Working) + 1
        BY <1>6, <3>10, FS_AddElement
      <4>2. R - unsent = Len(mb_start) + Cardinality(Working) + mb_stop + answered
        BY <3>1 DEF PlainIteration
      <4> QED BY <1>1, <1>2, <1>3, <1>5, <1>6, <2>1, <3>2, <4>1, <4>2
    <3>12. \A u \in Threads : /\ state'[u] \in {"START", "WORK", "ACK"}
                              /\ state'[u] = "WORK" => /\ command'[u].op = conf.op /\ conf.op # "nop"
                                                       /\ Remaining'[u] >= 1
      <4>1. command'[t].op = conf.op
        BY <1>1, <3>4 DEF TheCommand, Command
      <4> QED BY <1>3, <3>1, <3>5, <3>6, <3>7, <4>1 DEF PlainIteration
    <3>13. PlainIteration'
      BY <1>2, <3>2, <3>9, <3>11, <3>12 DEF PlainIteration
    <3> QED BY <1>7, <2>1, <2>2, <3>13 DEF PlainPart
  <2>3. CASE ~ Iterating
    <3>1. PlainEnd
      BY <1>7, <2>3
    <3>2. /\ Head(mb_start) = TheExit /\ Len(mb_start') = Len(mb_start) - 1 /\ Len(mb_start) > 0
          /\ \A k \in DOMAIN mb_start' : mb_start'[k] = TheExit
      BY <1>1, <2>1, <3>1, WordsStay DEF PlainEnd
    <3>3. AsCommand(Head(mb_start)) = {TheExit}
      <4>1. TheExit.op \notin {"buffer", "size"}
        BY DEF TheExit, Command
      <4> QED BY <3>2, <4>1 DEF AsCommand
    <3>4. state' = [state EXCEPT ![t] = IF t[1] = "sw" THEN SwState("THREAD_EXIT") ELSE HwState("THREAD_EXIT")]
      <4>1. TheExit.op = "THREAD_EXIT"
        BY DEF TheExit, Command
      <4> QED BY <1>9, <3>3, <4>1 DEF GetCommand
    <3>5. state'[t] = "THREAD_EXIT" /\ \A u \in Threads \ {t} : state'[u] = state[u]
      <4>1. SwState("THREAD_EXIT") = "THREAD_EXIT" /\ HwState("THREAD_EXIT") = "THREAD_EXIT"
        BY DEF SwState, HwState, MemoryOperations
      <4> QED BY <1>1, <3>4, <4>1
    <3>6. Exited' = Exited \union {t} /\ t \notin Exited
      BY <1>2, <2>1, <3>5 DEF Exited
    <3>7. (R - left = Len(mb_start) + Cardinality(Exited))'
      <4>1. Cardinality(Exited)' = Cardinality(Exited) + 1
        BY <1>6, <3>6, FS_AddElement
      <4>2. R - left = Len(mb_start) + Cardinality(Exited)
        BY <3>1 DEF PlainEnd
      <4> QED BY <1>1, <1>2, <1>3, <1>4, <1>6, <3>2, <4>1, <4>2
    <3>8. PlainEnd'
      BY <1>2, <2>1, <3>1, <3>2, <3>5, <3>7 DEF PlainEnd
    <3> QED BY <1>7, <2>1, <2>3, <3>8 DEF PlainPart
  <2> QED BY <2>2, <2>3
<1>10. CASE GetAddressAndSize(t)
  BY <1>7, <1>10 DEF GetAddressAndSize, PlainIteration, PlainEnd
<1>11. CASE SwWork(t) \/ HwWork(t)
  <2>1. state[t] = "WORK" /\ PlainIteration /\ Iterating
    BY <1>7, <1>11 DEF SwWork, HwWork, PlainEnd
  <2>2. command[t].op = conf.op /\ conf.op # "nop" /\ Remaining[t] >= 1
    BY <2>1 DEF PlainIteration
  <2>3. /\ Perform(conf.op) /\ mb_start' = mb_start /\ mb_stop' = mb_stop /\ command' = command
        /\ \A u \in Threads : buffer'[u] = <<>>
        /\ \A u \in Threads \ {t} : state'[u] = state[u] /\ count'[u] = count[u]
    BY <1>1, <1>11, <2>2 DEF SwWork, HwWork
  <2>4. state'[t] \in {"WORK", "ACK"} /\ Remaining'[t] = Remaining[t] - 1
        /\ (state'[t] = "WORK" => Remaining'[t] >= 1)
    <3>1. CASE SwWork(t)
      <4>1. /\ Remaining[t] = count[t] /\ count[t] >= 1 /\ count'[t] = count[t] - 1
            /\ state'[t] = IF count[t] - 1 > 0 THEN "WORK" ELSE "ACK"
            /\ t[1] = "sw"
        BY <1>1, <2>1, <2>2, <3>1 DEF SwWork, Remaining
      <4>2. Remaining'[t] = IF state'[t] # "WORK" THEN 0 ELSE count'[t]
        BY <1>2, <4>1 DEF Remaining
      <4> QED BY <1>1, <4>1, <4>2
    <3>2. CASE HwWork(t)
      <4>1. /\ Remaining[t] = count[t] + 1 /\ t[1] = "hw"
            /\ IF count[t] # 0 THEN count'[t] = count[t] - 1 /\ state'[t] = "WORK"
                               ELSE count'[t] = count[t] /\ state'[t] = "ACK"
        BY <1>1, <2>1, <2>2, <3>2 DEF HwWork, Remaining
      <4>2. Remaining'[t] = IF state'[t] # "WORK" THEN 0 ELSE count'[t] + 1
        BY <1>2, <4>1 DEF Remaining
      <4> QED BY <1>1, <4>1, <4>2
    <3> QED BY <1>11, <3>1, <3>2
  <2>5. \A u \in Threads \ {t} : Remaining'[u] = Remaining[u]
    BY <1>2, <2>3 DEF Remaining
  <2>6. ThreadShare' = ThreadShare - 1
    <3>1. SumFunctionOnSet(Remaining, Threads)' = SumFunctionOnSet(Remaining, Threads) - 1
      BY <1>6, <1>8, <2>4, <2>5
    <3>2. PICK c \in Int : c = conf.inThread * (unsent + Len(mb_start))
      BY <1>3, <1>5, <1>6
    <3>3. ThreadShare' = c + SumFunctionOnSet(Remaining, Threads)'
      BY <1>2, <1>5, <2>3, <3>2 DEF ThreadShare
    <3>4. ThreadShare = c + SumFunctionOnSet(Remaining, Threads)
      BY <3>2 DEF ThreadShare
    <3> QED BY <1>6, <3>1, <3>2, <3>3, <3>4
  <2>7. Balanced'
    BY <1>1, <1>2, <1>3, <1>5, <1>6, <2>1, <2>3, <2>6, ThreadPerforms DEF PlainIteration
  <2>8. Working' = Working
    BY <1>2, <2>1, <2>3, <2>4 DEF Working
  <2>9. (R - unsent = Len(mb_start) + Cardinality(Working) + mb_stop + answered)'
    BY <1>2, <1>5, <2>1, <2>3, <2>8 DEF PlainIteration
  <2>10. \A u \in Threads : /\ state'[u] \in {"START", "WORK", "ACK"}
                            /\ state'[u] = "WORK" => /\ command'[u].op = conf.op /\ conf.op # "nop"
                                                     /\ Remaining'[u] >= 1
    BY <2>1, <2>2, <2>3, <2>4, <2>5 DEF PlainIteration
  <2>11. PlainIteration'
    BY <1>2, <2>1, <2>3, <2>7, <2>9, <2>10 DEF PlainIteration
  <2> QED BY <1>7, <2>1, <2>3, <2>11 DEF PlainPart
<1>12. CASE Acknowledge(t)
  <2>1. state[t] = "ACK" /\ PlainIteration /\ Iterating
    BY <1>7, <1>12 DEF Acknowledge, PlainEnd
  <2>2. /\ mb_start' = mb_start /\ mb_stop' = mb_stop + 1 /\ command' = command /\ count' = count
        /\ mb_test' = mb_test /\ sem_test' = sem_test
        /\ \A u \in Threads : buffer'[u] = <<>>
        /\ state'[t] = "START" /\ \A u \in Threads \ {t} : state'[u] = state[u]
    BY <1>1, <1>12 DEF Acknowledge, testVars
  <2>3. Remaining' = Remaining
    BY <1>2, <2>1, <2>2 DEF Remaining
  <2>4. ThreadShare' = ThreadShare
    BY <1>2, <1>5, <2>2, <2>3 DEF ThreadShare
  <2>5. Balanced'
    BY <1>2, <1>5, <2>1, <2>2, <2>4 DEF PlainIteration, Balanced
  <2>6. Working' = Working \ {t} /\ t \in Working
    BY <1>2, <2>1, <2>2 DEF Working
  <2>7. (R - unsent = Len(mb_start) + Cardinality(Working) + mb_stop + answered)'
    <3>1. Cardinality(Working)' = Cardinality(Working) - 1
      BY <1>6, <2>6, FS_RemoveElement
    <3>2. R - unsent = Len(mb_start) + Cardinality(Working) + mb_stop + answered
      BY <2>1 DEF PlainIteration
    <3>3. /\ R \in Nat /\ unsent \in Nat /\ Len(mb_start) \in Nat /\ Cardinality(Working) \in Nat
          /\ mb_stop \in Nat /\ answered \in Int
      BY <1>1, <1>3, <1>5, <1>6
    <3>4. R' = R /\ unsent' = unsent /\ answered' = answered
      BY <1>2, <1>5
    <3> QED BY <2>2, <3>1, <3>2, <3>3, <3>4
  <2>8. PlainIteration'
    BY <1>2, <2>1, <2>2, <2>3, <2>5, <2>7 DEF PlainIteration
  <2> QED BY <1>7, <2>1, <2>2, <2>8 DEF PlainPart
<1> QED BY <1>9, <1>10, <1>11, <1>12 DEF Thread
-----------------------------------------------------------------------------
(* Main never has more acknowledgements to read than there are threads. *)
LEMMA LeftBounded ==
  ASSUME Measured, MPInv, Next
  PROVE  /\ (phase # "perform" => left <= R)'
         /\ (phase \in {"join", "done"} => left = 0)'
<1>1. left \in Nat /\ R \in Nat /\ R = running_threads(conf) /\ R' = R
  BY ConfFacts, Frame DEF MPInv, TypeOK, R
<1>2. (phase # "perform" => left <= R) /\ (phase \in {"join", "done"} => left = 0)
  BY DEF MPInv
<1>3. CASE NextLoop
  BY <1>1, <1>2, <1>3 DEF NextLoop
<1>4. CASE MainPut \/ MainPerform \/ MainWait \/ MainTerminate
  <2>1. left' = left - 1 /\ left > 0 /\ phase' = phase
    BY <1>4 DEF MainPut, MainPerform, MainWait, MainTerminate
  <2> QED BY <1>1, <1>2, <2>1
<1>5. CASE MainJoin
  BY <1>1, <1>2, <1>5 DEF MainJoin
<1>6. CASE \E t \in Threads : Thread(t)
  <2>1. left' = left /\ phase' = phase
    BY <1>6 DEF Thread, GetCommand, GetAddressAndSize, SwWork, HwWork, Acknowledge, mainVars
  <2> QED BY <1>1, <1>2, <2>1
<1> QED BY <1>3, <1>4, <1>5, <1>6 DEF Next, Main

(* A stuttering step keeps the invariant. *)
LEMMA MPStutter ==
  ASSUME MPInv, UNCHANGED vars
  PROVE  MPInv'
<1>1. /\ conf' = conf /\ phase' = phase /\ left' = left /\ iteration' = iteration
      /\ mb_start' = mb_start /\ mb_stop' = mb_stop /\ mb_test' = mb_test /\ sem_test' = sem_test
      /\ state' = state /\ count' = count /\ command' = command /\ buffer' = buffer
  BY DEF vars, mainVars, testVars, threadVars
<1>2. R' = R /\ Threads' = Threads /\ TheCommand' = TheCommand /\ TheExit' = TheExit
  BY <1>1 DEF R, Threads, TheCommand, TheExit, Command
<1>3. /\ unsent' = unsent /\ answered' = answered /\ Working' = Working /\ Exited' = Exited
      /\ Remaining' = Remaining /\ Iterating' = Iterating
  BY <1>1, <1>2 DEF unsent, answered, Working, Exited, Remaining, Iterating
<1>4. ThreadShare' = ThreadShare /\ MainShare' = MainShare
  BY <1>1, <1>2, <1>3 DEF ThreadShare, MainShare
<1>5. Balanced' = Balanced
  BY <1>1, <1>4 DEF Balanced
<1>6. PlainIteration' = PlainIteration /\ PlainEnd' = PlainEnd
  BY <1>1, <1>2, <1>3, <1>5 DEF PlainIteration, PlainEnd
<1>7. MemoryTurns' = MemoryTurns
  BY <1>1, <1>2 DEF MemoryTurns, Turn, Idle
<1>8. TypeOK' = TypeOK
  BY <1>1, <1>2 DEF TypeOK
<1> QED BY <1>1, <1>2, <1>3, <1>6, <1>7, <1>8 DEF MPInv, Accepted

(* Every step keeps it. *)
LEMMA MPStep == Measured /\ MPInv /\ [Next]_vars => MPInv'
<1> SUFFICES ASSUME Measured, MPInv, [Next]_vars PROVE MPInv'
  OBVIOUS
<1>1. CASE UNCHANGED vars
  BY <1>1, MPStutter
<1>2. CASE Next
  <2>1. (conf \in Configurations /\ Accepted(conf))' /\ conf' = conf /\ Threads' = Threads
    BY Frame
  <2>2. Typed'
    BY <1>2, MainTyped, ThreadTyped DEF Next
  <2>3. (phase # "perform" => left <= R)' /\ (phase \in {"join", "done"} => left = 0)'
    BY <1>2, LeftBounded
  <2>4. CASE conf.op \in MemoryOperations
    <3>1. MemoryTurns'
      BY <1>2, <2>4, MemoryMain, MemoryThread DEF Next
    <3> QED BY <2>1, <2>2, <2>3, <2>4, <3>1 DEF MPInv, Typed
  <2>5. CASE conf.op \notin MemoryOperations
    <3>1. PlainPart' /\ \A u \in Threads : buffer'[u] = <<>>
      <4>1. CASE Main
        <5>1. buffer' = buffer
          BY <4>1 DEF Main, MainPut, MainPerform, MainWait, MainTerminate, NextLoop, MainJoin, threadVars
        <5>2. \A u \in Threads : buffer[u] = <<>>
          BY <2>5 DEF MPInv
        <5> QED BY <2>5, <4>1, <5>1, <5>2, PlainMain
      <4>2. CASE \E t \in Threads : Thread(t)
        BY <2>5, <4>2, PlainThread
      <4> QED BY <1>2, <4>1, <4>2 DEF Next
    <3> QED BY <2>1, <2>2, <2>3, <2>5, <3>1 DEF MPInv, Typed, PlainPart
  <2> QED BY <2>4, <2>5
<1> QED BY <1>1, <1>2

(* The invariant of mbox_put_get. *)
LEMMA MPInvariant ==
  ASSUME Measured
  PROVE  Spec => []MPInv
BY MPInitial, MPStep, PTL DEF Spec
-----------------------------------------------------------------------------
(* Between two iterations of the test nothing is left in a mailbox or a     *)
(* semaphore and every thread waits for a command, for any number of        *)
(* threads, iterations and operations per command.                          *)
THEOREM NothingIsLeft ==
  ASSUME Measured
  PROVE  Spec => []IterationsLeaveNothing
<1>1. MPInv => IterationsLeaveNothing
  <2> SUFFICES ASSUME MPInv, phase \in {"put", "terminate"}, left = R
               PROVE  /\ mb_start = <<>> /\ mb_stop = 0 /\ mb_test = 0 /\ sem_test = 0
                      /\ \A t \in Threads : state[t] = "START"
    BY DEF IterationsLeaveNothing, R
  <2>1. conf \in Configurations /\ Accepted(conf) /\ Typed /\ mb_start \in Seq(Word)
        /\ mb_stop \in Nat /\ mb_test \in Nat /\ sem_test \in Nat
    BY DEF MPInv, Typed, TypeOK
  <2>2. R \in Nat /\ conf.inThread \in Nat /\ conf.op \in Operations
    BY <2>1, ConfFacts
  <2>3. CASE conf.op \in MemoryOperations
    <3>1. R = 1 /\ Threads = {T} /\ MemoryTurns
      BY <2>1, <2>3, ConfFacts, ThreadFacts DEF MPInv
    <3> QED BY <3>1 DEF MemoryTurns, Idle
  <2>4. CASE conf.op \notin MemoryOperations /\ phase = "put"
    <3>1. PlainIteration /\ unsent = R /\ answered = 0 /\ MainShare = R * conf.inThread
      BY <2>4 DEF MPInv, Iterating, unsent, answered, MainShare
    <3>2. /\ Cardinality(Working) \in Nat /\ IsFiniteSet(Working) /\ Len(mb_start) \in Nat
      BY <2>1, ShareFacts
    <3>3. Len(mb_start) = 0 /\ Cardinality(Working) = 0 /\ mb_stop = 0
      <4>1. R - R = Len(mb_start) + Cardinality(Working) + mb_stop + 0
        BY <3>1 DEF PlainIteration
      <4> QED BY <2>1, <2>2, <3>2, <4>1
    <3>4. \A t \in Threads : state[t] = "START"
      <4>1. Working = {}
        BY <3>2, <3>3, FS_EmptySet
      <4> QED BY <3>1, <4>1 DEF Working, PlainIteration
    <3>5. SumFunctionOnSet(Remaining, Threads) = 0
      <4>1. \A t \in Threads : Remaining[t] = 0
        BY <3>4 DEF Remaining
      <4> QED BY <2>1, <4>1, ThreadFacts, SumZero
    <3>6. ThreadShare = R * conf.inThread /\ R * conf.inThread \in Int
      BY <2>2, <3>1, <3>3, <3>5 DEF ThreadShare
    <3>7. mb_test = 0 /\ sem_test = 0
      <4>1. conf.op \in {"nop", "mbox_put", "mbox_get", "sem_post", "sem_wait"} /\ Balanced
        BY <2>2, <2>4, <3>1 DEF Operations, MemoryOperations, PlainIteration
      <4>2. ThreadShare = MainShare /\ MainShare \in Int
        BY <3>1, <3>6
      <4> QED BY <2>1, <4>1, <4>2 DEF Balanced
    <3>8. mb_start = <<>>
      BY <2>1, <3>3
    <3> QED BY <3>3, <3>4, <3>7, <3>8
  <2>5. CASE conf.op \notin MemoryOperations /\ phase = "terminate"
    <3>1. PlainEnd
      BY <2>5 DEF MPInv, Iterating
    <3>2. /\ Cardinality(Exited) \in Nat /\ IsFiniteSet(Exited) /\ Len(mb_start) \in Nat
      BY <2>1, ShareFacts
    <3>3. Len(mb_start) = 0 /\ Cardinality(Exited) = 0
      BY <2>2, <3>1, <3>2 DEF PlainEnd
    <3>4. Exited = {} /\ mb_start = <<>>
      BY <2>1, <3>2, <3>3, FS_EmptySet
    <3> QED BY <3>1, <3>4 DEF PlainEnd, Exited
  <2> QED BY <2>3, <2>4, <2>5
<1> QED BY <1>1, MPInvariant, PTL

Waiting == {k \in DOMAIN mb_start : mb_start[k].op \in Operations}
InWork == {t \in Threads : state[t] \in {"GET_ADDRESS", "WORK", "ACK"}}

(* Every command is waiting, in work, acknowledged or read, for mailboxes *)
(* and semaphores.                                                        *)
LEMMA PlainAccount ==
  ASSUME Measured, MPInv, conf.op \notin MemoryOperations, Iterating
  PROVE  R - unsent = Cardinality(Waiting) + Cardinality(InWork) + mb_stop + answered
<1>1. PlainIteration /\ mb_start \in Seq(Word) /\ conf.op \in Operations
  BY ConfFacts DEF MPInv, TypeOK
<1>2. InWork = Working
  BY <1>1 DEF InWork, Working, PlainIteration
<1>3. Waiting = 1..Len(mb_start)
  BY <1>1 DEF Waiting, PlainIteration, TheCommand, Command
<1>4. Cardinality(1..Len(mb_start)) = Len(mb_start)
  <2>1. Len(mb_start) \in Nat
    BY <1>1
  <2>2. \A n \in Nat : Cardinality(1..n) = n
    BY FS_Interval
  <2> QED BY <2>1, <2>2
<1> QED BY <1>1, <1>2, <1>3, <1>4 DEF PlainIteration

(* And for memory operations. *)
LEMMA MemoryAccount ==
  ASSUME Measured, MPInv, conf.op \in MemoryOperations, Iterating
  PROVE  R - unsent = Cardinality(Waiting) + Cardinality(InWork) + mb_stop + answered
<1>1. /\ MemoryTurns /\ R = 1 /\ Threads = {T} /\ conf.op \in Operations /\ left \in Nat
      /\ phase \in {"put", "perform", "wait"}
  BY ConfFacts, ThreadFacts DEF MPInv, TypeOK, Iterating
<1>2. /\ mb_start = <<>> => Waiting = {}
      /\ mb_start = <<TheCommand>> => Waiting = {1}
      /\ mb_start = <<Command("buffer", 0)>> => Waiting = {}
      /\ mb_start = <<Command("size", 0)>> => Waiting = {}
  <2>1. TheCommand.op \in Operations
    BY <1>1 DEF TheCommand, Command
  <2>2. Command("buffer", 0).op \notin Operations /\ Command("size", 0).op \notin Operations
    BY DEF Command, Operations
  <2> QED BY <2>1, <2>2 DEF Waiting
<1>3. InWork = IF state[T] \in {"GET_ADDRESS", "WORK", "ACK"} THEN {T} ELSE {}
  BY <1>1 DEF InWork
<1>4. Cardinality({}) = 0 /\ Cardinality({1}) = 1 /\ Cardinality({T}) = 1
  BY FS_EmptySet, FS_Singleton
<1>5. CASE phase = "put"
  <2>1. unsent = left /\ answered = 0 /\ left \in {0, 1}
    BY <1>1, <1>5 DEF unsent, answered, MemoryTurns
  <2>2. CASE left = 1
    <3>1. Waiting = {} /\ InWork = {} /\ mb_stop = 0
      BY <1>1, <1>2, <1>3, <1>5, <2>2 DEF MemoryTurns, Idle
    <3> QED BY <1>1, <1>4, <2>1, <2>2, <3>1
  <2>3. CASE left = 0
    <3>1. mb_stop = 0 /\ ((Waiting = {1} /\ InWork = {}) \/ (Waiting = {} /\ InWork = {T}))
      BY <1>1, <1>2, <1>3, <1>5, <2>3 DEF MemoryTurns, Turn
    <3> QED BY <1>1, <1>4, <2>1, <2>3, <3>1
  <2> QED BY <2>1, <2>2, <2>3
<1>6. CASE phase = "perform" \/ (phase = "wait" /\ left = 1)
  <2>1. unsent = 0 /\ answered = 0
    BY <1>1, <1>6 DEF unsent, answered
  <2>2. \/ Waiting = {1} /\ InWork = {} /\ mb_stop = 0
        \/ Waiting = {} /\ InWork = {T} /\ mb_stop = 0
        \/ Waiting = {} /\ InWork = {} /\ mb_stop = 1
    <3>1. phase = "perform" => left \in {0, 1, 2}
      BY <1>1 DEF MemoryTurns
    <3> QED BY <1>1, <1>2, <1>3, <1>6, <3>1 DEF MemoryTurns, Turn
  <2> QED BY <1>1, <1>4, <2>1, <2>2
<1>7. CASE phase = "wait" /\ left = 0
  <2>1. unsent = 0 /\ answered = 1 /\ Waiting = {} /\ InWork = {} /\ mb_stop = 0
    BY <1>1, <1>2, <1>3, <1>7 DEF unsent, answered, MemoryTurns, Idle
  <2> QED BY <1>1, <1>4, <2>1
<1>8. phase = "wait" => left \in {0, 1}
  BY <1>1 DEF MemoryTurns
<1> QED BY <1>1, <1>5, <1>6, <1>7, <1>8

(* Commands waiting, in work, acknowledged and read by main are those main  *)
(* has sent, in every interleaving of main with any number of software and  *)
(* hardware threads; and a hardware thread that takes an address and a size *)
(* from mb_start gets those of one message.                                 *)
THEOREM EveryCommandAccountedFor ==
  ASSUME Measured
  PROVE  Spec => []CommandsAccountedFor
<1>1. MPInv => CommandsAccountedFor
  <2> SUFFICES ASSUME MPInv PROVE CommandsAccountedFor
    OBVIOUS
  <2>1. TypeOK
    BY DEF MPInv
  <2>2. phase \in {"put", "perform", "wait"} =>
          (IF phase = "put" THEN R - left ELSE R)
          = Cardinality(Waiting) + Cardinality(InWork) + mb_stop + (IF phase = "wait" THEN R - left ELSE 0)
    <3> SUFFICES ASSUME Iterating
                 PROVE  (IF phase = "put" THEN R - left ELSE R)
                        = Cardinality(Waiting) + Cardinality(InWork) + mb_stop
                          + (IF phase = "wait" THEN R - left ELSE 0)
      BY DEF Iterating
    <3>1. R - unsent = Cardinality(Waiting) + Cardinality(InWork) + mb_stop + answered
      BY PlainAccount, MemoryAccount
    <3>2. R \in Nat /\ R - 0 = R
      BY ConfFacts DEF MPInv
    <3> QED BY <3>1, <3>2 DEF unsent, answered
  <2>3. \A t \in Threads : \A k \in DOMAIN buffer[t] : buffer[t][k] = <<"buffer", "size">>[k]
    <3>1. CASE conf.op \in MemoryOperations
      BY <3>1, ThreadFacts DEF MPInv, MemoryTurns
    <3>2. CASE conf.op \notin MemoryOperations
      BY <3>2 DEF MPInv
    <3> QED BY <3>1, <3>2
  <2> QED BY <2>1, <2>2, <2>3 DEF CommandsAccountedFor, Waiting, InWork, R
<1> QED BY <1>1, MPInvariant, PTL
=============================================================================
