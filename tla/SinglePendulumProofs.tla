------------------------ MODULE SinglePendulumProofs ------------------------
(***************************************************************************)
(* Proofs about SinglePendulum, for any number of threads, iterations and  *)
(* calculations: pointers arrive whole and at one thread, every block is   *)
(* calculated as often as asked for, and main sees the last results        *)
(* through the caches.                                                     *)
(***************************************************************************)
EXTENDS SinglePendulum, SumTheorems, SequenceTheorems

-----------------------------------------------------------------------------
Operations == {"THREAD_EXIT", "WITHOUT_MEMORY", "SET_ITERATIONS", "block", "number", "wild"}
Word == [op : Operations, arg : Nat]
Output == [calculation : Nat, ram : {"none", "no copy", "dx", "U"}]
BlockContent == [input : BOOLEAN, output : Output]
States == {"GET_ADDR", "CALC", "READ_ITERATIONS", "READ", "STARTING", "WRITE", "ACK", "THREAD_EXIT"}
WorkingStates == {"CALC", "READ", "STARTING", "WRITE"}

MainTyped ==
  /\ phase \in {"start", "put", "wait", "check", "terminate", "done"}
  /\ iteration \in Nat /\ left \in Nat /\ mb_stop \in Nat
  /\ toPut \in Seq(Word) /\ mb_start \in Seq(Word)
ThreadsTyped ==
  /\ state \in [Threads -> States]
  /\ got \in [Threads -> Seq(Word)]
  /\ job \in [Threads -> Word]
  /\ count \in [Threads -> Int]
  /\ ram \in [Threads -> BOOLEAN]
MemoryTyped ==
  /\ memory \in [Blocks -> BlockContent]
  /\ cached \in [Blocks -> BlockContent]
  /\ dirty \in SUBSET Blocks
  /\ \A b \in dirty : cached[b] # NoCopy
  /\ calcs \in [Blocks -> Nat]
Typed ==
  /\ conf \in Configurations /\ Accepted(conf)
  /\ MainTyped /\ ThreadsTyped /\ MemoryTyped
-----------------------------------------------------------------------------
(* The three kinds of message: one word per pointer, two words per pointer, *)
(* and SET_ITERATIONS before the pointer.  The last two are for one thread. *)
Plain == conf.words = 1 /\ ~ (conf.inThread > 1 /\ conf.hw > 0)
Double == conf.words = 2
Iterating == conf.words = 1 /\ conf.inThread > 1 /\ conf.hw > 0

Ptr(b) == IF conf.memory THEN Block(b) ELSE WITHOUT_MEMORY
Total == Len(AllSteps)
Pending == Len(mb_start) + Len(toPut)

(* The pointers no thread has received as a whole. *)
Untaken == IF Plain THEN Pending ELSE IF Pending = 0 THEN 0 ELSE simulation_steps

Working(t) == state[t] \in WorkingStates
Busy(t) == Working(t) \/ state[t] = "ACK"

(* The words a thread still puts into mb_stop. *)
Owed == [t \in Threads |-> IF Working(t) THEN conf.words
                           ELSE IF state[t] # "ACK" THEN 0
                           ELSE IF t[1] = "hw" THEN 1 ELSE Len(got[t])]
Debt == SumFunctionOnSet(Owed, Threads)
Outstanding == IF phase = "put" THEN simulation_steps * conf.words ELSE left

(* The words on their way are the last ones of the messages, in order. *)
WordsInOrder ==
  /\ Pending <= Total
  /\ \A k \in 1..Len(mb_start) : mb_start[k] = AllSteps[Total - Pending + k]
  /\ \A k \in 1..Len(toPut) : toPut[k] = AllSteps[Total - Len(toPut) + k]

(* What a thread has of a message that has not arrived as a whole. *)
PartsReceived(t) ==
  /\ Plain => /\ state[t] # "READ_ITERATIONS"
              /\ state[t] = "GET_ADDR" => got[t] = <<>>
              /\ t[1] = "hw" => count[t] = 0
  /\ Double => /\ state[t] # "READ_ITERATIONS"
               /\ Busy(t) => Pending = 0
               /\ state[t] = "GET_ADDR" /\ Pending = 1 => Len(got[t]) = 1 /\ got[t][1] = Ptr(1)
               /\ state[t] = "GET_ADDR" /\ Pending # 1 => got[t] = <<>>
  /\ Iterating => /\ state[t] = "READ_ITERATIONS" <=> Pending = 2
                  /\ Busy(t) => Pending = 0
                  /\ Pending = 1 => count[t] = conf.inThread - 1
                  /\ got[t] = <<>>

JobOk(t) ==
  /\ state[t] # "THREAD_EXIT"
  /\ Busy(t) => job[t] = Ptr(job[t].arg)
  /\ Busy(t) /\ conf.memory => job[t].arg \in 1..(simulation_steps - Untaken)
  /\ t[1] = "hw" => state[t] # "CALC"
  /\ t[1] = "sw" => state[t] \notin {"READ", "STARTING", "WRITE"}
  /\ state[t] = "CALC" => got[t] = <<>>
  /\ t[1] = "sw" /\ state[t] = "ACK" => Len(got[t]) \in 1..conf.words
  /\ t[1] = "hw" => got[t] = <<>>

JobsDistinct ==
  \A t, u \in Threads : t # u /\ conf.memory /\ Working(t) /\ Working(u) => job[t].arg # job[u].arg

(* An iteration under way. *)
Iteration ==
  /\ WordsInOrder
  /\ \A t \in Threads : PartsReceived(t)
  /\ \A t \in Threads : JobOk(t)
  /\ JobsDistinct
  /\ conf.words * Untaken + Debt + mb_stop = Outstanding
  /\ phase = "wait" => toPut = <<>>

(* Between two iterations. *)
Resting ==
  /\ toPut = <<>> /\ mb_start = <<>> /\ mb_stop = 0
  /\ \A t \in Threads : state[t] = "GET_ADDR" /\ got[t] = <<>> /\ (Plain /\ t[1] = "hw" => count[t] = 0)

(* The termination of the threads. *)
Ending ==
  /\ \A k \in 1..Len(mb_start) : mb_start[k] = THREAD_EXIT
  /\ \A k \in 1..Len(toPut) : toPut[k] = THREAD_EXIT
  /\ \A t \in Threads :
       /\ state[t] \in {"GET_ADDR", "THREAD_EXIT"}
       /\ \A k \in 1..Len(got[t]) : got[t][k] = THREAD_EXIT

Protocol ==
  /\ phase \in {"put", "wait"} => Iteration
  /\ phase \in {"start", "check"} => Resting
  /\ phase \in {"terminate", "done"} => Ending
-----------------------------------------------------------------------------
(* The calculations left of the block a thread works on. *)
Remaining(t) == IF t[1] = "hw" THEN count[t] + 1 ELSE count[t]

(* The calculations asked for before this iteration. *)
Base == iteration * conf.inThread

BlockCounted(b) ==
  IF b > simulation_steps - Untaken THEN calcs[b] = Base
  ELSE \/ \E t \in Threads : Working(t) /\ job[t].arg = b
       \/ calcs[b] = Base + conf.inThread
ThreadCounted(t) ==
  count[t] \in Nat /\ calcs[job[t].arg] + Remaining(t) = Base + conf.inThread

CalculationsCounted ==
  conf.memory /\ conf.inThread >= 1 =>
    /\ phase \in {"start", "check"} => \A b \in Blocks : calcs[b] = Base
    /\ phase \in {"put", "wait"} => /\ \A b \in Blocks : BlockCounted(b)
                                   /\ \A t \in Threads : Working(t) => ThreadCounted(t)
-----------------------------------------------------------------------------
(* Where the last results of a block are, and whether software sees them. *)
Current(b, content) == content.input /\ content.output.calculation = calcs[b]
LatestCopy(b) == IF b \in dirty THEN Current(b, cached[b]) ELSE Current(b, memory[b])
Coherent(b) == b \in dirty \/ cached[b] = NoCopy \/ cached[b] = memory[b]

(* What a thread needs of the caches while it works on its block. *)
ThreadSees(t) ==
  IF t[1] = "sw" THEN Coherent(job[t].arg)
  ELSE /\ job[t].arg \notin dirty
       /\ state[t] \in {"STARTING", "WRITE"} => ram[t]

Flushed == conf.memory /\ (conf.flush \/ conf.hw = 0)
CachesCoherent ==
  Flushed /\ phase \notin {"terminate", "done"} =>
    /\ \A b \in Blocks : LatestCopy(b)
    /\ conf.hw = 0 \/ phase = "check" => \A b \in Blocks : Coherent(b)
    /\ phase \in {"put", "wait"} =>
         /\ \A b \in Blocks : b > simulation_steps - Untaken =>
              Coherent(b) /\ (conf.hw > 0 => b \notin dirty)
         /\ \A t \in Threads : Working(t) => ThreadSees(t)
-----------------------------------------------------------------------------
(* What main's checks leave of the command lines. *)
LEMMA ConfFacts ==
  ASSUME conf \in Configurations, Accepted(conf)
  PROVE  /\ conf.hw \in Nat /\ conf.sw \in Nat /\ conf.inThread \in Nat /\ conf.iterations \in Nat
         /\ conf.reconos \in BOOLEAN /\ conf.memory \in BOOLEAN /\ conf.flush \in BOOLEAN
         /\ conf.words \in {1, 2}
         /\ simulation_steps = conf.hw + conf.sw /\ simulation_steps \in Nat
         /\ conf.hw > 0 => conf.words = 1 /\ conf.reconos
         /\ conf.sw > 0 => conf.memory
         /\ Plain \/ Double \/ Iterating
         /\ Double => conf.hw = 0 /\ simulation_steps <= 1 /\ ~ Plain /\ ~ Iterating
         /\ Iterating => conf.hw = 1 /\ conf.sw = 0 /\ simulation_steps = 1 /\ ~ Plain /\ ~ Double
         /\ Plain => conf.words = 1 /\ (conf.hw > 0 => conf.inThread <= 1) /\ ~ Double /\ ~ Iterating
<1>1. /\ conf.hw \in Nat /\ conf.sw \in Nat /\ conf.inThread \in Nat /\ conf.iterations \in Nat
      /\ conf.reconos \in BOOLEAN /\ conf.memory \in BOOLEAN /\ conf.flush \in BOOLEAN
      /\ conf.words \in {1, 2} /\ (conf.words = 2 => ~ conf.reconos)
  BY ConfigurationsAssumption
<1>2. simulation_steps = conf.hw + conf.sw
  BY DEF simulation_steps, running_threads
<1>3. /\ conf.hw > 0 => conf.reconos
      /\ conf.sw > 0 => conf.memory
      /\ conf.words > 1 => conf.hw + conf.sw <= 1
      /\ conf.inThread > 1 => conf.hw = 0 \/ conf.hw + conf.sw = 1
  BY DEF Accepted, running_threads
<1>4. conf.hw > 0 => conf.words = 1 /\ conf.reconos
  BY <1>1, <1>3
<1>5. Plain \/ Double \/ Iterating
  BY <1>1 DEF Plain, Double, Iterating
<1>6. Double => conf.hw = 0 /\ simulation_steps <= 1 /\ ~ Plain /\ ~ Iterating
  BY <1>1, <1>2, <1>3 DEF Plain, Double, Iterating
<1>7. Iterating => conf.hw = 1 /\ conf.sw = 0 /\ simulation_steps = 1 /\ ~ Plain /\ ~ Double
  BY <1>1, <1>2, <1>3 DEF Plain, Double, Iterating
<1>8. Plain => conf.words = 1 /\ (conf.hw > 0 => conf.inThread <= 1) /\ ~ Double /\ ~ Iterating
  BY <1>1 DEF Plain, Double, Iterating
<1>9. QED
  BY <1>1, <1>2, <1>3, <1>4, <1>5, <1>6, <1>7, <1>8

(* What the checks of the command line leave of the threads. *)
LEMMA ThreadFacts ==
  ASSUME conf \in Configurations, Accepted(conf)
  PROVE  /\ IsFiniteSet(Threads)
         /\ \A t \in Threads : t[1] \in {"hw", "sw"}
         /\ \A t \in Threads : t[1] = "hw" => conf.hw > 0
         /\ \A t \in Threads : t[1] = "sw" => conf.sw > 0
         /\ simulation_steps = 0 => Threads = {}
         /\ simulation_steps <= 1 => \A t, u \in Threads : t = u
         /\ Iterating => \A t \in Threads : t[1] = "hw"
<1>1. conf.hw \in Nat /\ conf.sw \in Nat /\ simulation_steps = conf.hw + conf.sw
      /\ (Iterating => conf.sw = 0)
  BY ConfFacts
<1>2. PICK m \in Nat, n \in Nat : m = conf.hw /\ n = conf.sw
  BY <1>1
<1>3. Threads = ({"hw"} \X (1..m)) \union ({"sw"} \X (1..n))
  BY <1>2 DEF Threads
<1>4. IsFiniteSet(Threads)
  <2>0. \A k \in Nat : IsFiniteSet(1..k)
    BY FS_Interval
  <2>1. IsFiniteSet(1..m) /\ IsFiniteSet(1..n) /\ IsFiniteSet({"hw"}) /\ IsFiniteSet({"sw"})
    BY <2>0, FS_Singleton
  <2>2. IsFiniteSet({"hw"} \X (1..m)) /\ IsFiniteSet({"sw"} \X (1..n))
    BY <2>1, FS_Product
  <2> QED
    BY <1>3, <2>2, FS_Union
<1>5. \A t \in Threads : \/ t[1] = "hw" /\ t[2] \in 1..m /\ t = <<"hw", t[2]>>
                         \/ t[1] = "sw" /\ t[2] \in 1..n /\ t = <<"sw", t[2]>>
  BY <1>3
<1>6. m + n <= 1 => \A t, u \in Threads : t = u
  <2> SUFFICES ASSUME m + n <= 1, NEW t \in Threads, NEW u \in Threads PROVE t = u
    OBVIOUS
  <2>1. \/ t[1] = "hw" /\ t[2] \in 1..m /\ t = <<"hw", t[2]>>
        \/ t[1] = "sw" /\ t[2] \in 1..n /\ t = <<"sw", t[2]>>
    BY <1>5
  <2>2. \/ u[1] = "hw" /\ u[2] \in 1..m /\ u = <<"hw", u[2]>>
        \/ u[1] = "sw" /\ u[2] \in 1..n /\ u = <<"sw", u[2]>>
    BY <1>5
  <2>3. \/ m = 0 /\ \A i \in 1..n : i = 1
        \/ n = 0 /\ \A i \in 1..m : i = 1
    OBVIOUS
  <2> QED
    BY <2>1, <2>2, <2>3
<1>7. QED
  BY <1>1, <1>2, <1>4, <1>5, <1>6

(* The words are words. *)
LEMMA WordFacts ==
  /\ THREAD_EXIT \in Word /\ WITHOUT_MEMORY \in Word /\ SET_ITERATIONS \in Word /\ Wild \in Word
  /\ \A n \in Nat : Block(n) \in Word /\ Number(n) \in Word /\ Ptr(n) \in Word
BY DEF THREAD_EXIT, WITHOUT_MEMORY, SET_ITERATIONS, Wild, Block, Number, Ptr, Word, Operations

(* A message of three words, word by word. *)
LEMMA ThreeWords ==
  ASSUME NEW S, NEW u \in Seq(S), NEW w \in Seq(S), Len(u) = 2, Len(w) = 1
  PROVE  /\ u \o w \in Seq(S) /\ Len(u \o w) = 3
         /\ (u \o w)[1] = u[1] /\ (u \o w)[2] = u[2] /\ (u \o w)[3] = w[1]
<1> DEFINE c == u \o w
<1>1. /\ c \in Seq(S)
      /\ Len(c) = Len(u) + Len(w)
      /\ \A i \in 1 .. Len(u) + Len(w) : c[i] =
                     IF i <= Len(u) THEN u[i] ELSE w[i - Len(u)]
  BY ConcatProperties, Zenon
<1> HIDE DEF c
<1>2. c \in Seq(S) /\ Len(c) = 3 /\ c[1] = u[1] /\ c[2] = u[2] /\ c[3] = w[1]
  BY <1>1
<1>3. QED
  BY <1>2 DEF c

(* The words main puts in an iteration. *)
LEMMA StepWords ==
  ASSUME conf \in Configurations, Accepted(conf)
  PROVE  /\ AllSteps \in Seq(Word) /\ Total \in Nat /\ DOMAIN AllSteps = 1..Total
         /\ Plain => Total = simulation_steps /\ \A k \in 1..Total : AllSteps[k] = Ptr(k)
         /\ Double => /\ Total = 2 * simulation_steps
                      /\ \A k \in 1..Total : AllSteps[k] = Ptr(1)
         /\ Iterating => /\ Total = 3
                         /\ AllSteps[1] = SET_ITERATIONS
                         /\ AllSteps[2] = Number(conf.inThread)
                         /\ AllSteps[3] = Ptr(1)
<1> DEFINE R == simulation_steps
           Set == <<SET_ITERATIONS, Number(conf.inThread)>>
<1>1. /\ conf.words \in {1, 2} /\ R \in Nat /\ conf.inThread \in Nat
      /\ Plain \/ Double \/ Iterating
      /\ Double => conf.hw = 0 /\ R <= 1 /\ ~ Plain /\ ~ Iterating
      /\ Iterating => conf.words = 1 /\ R = 1 /\ ~ Plain /\ ~ Double
      /\ Plain => conf.words = 1 /\ ~ Double /\ ~ Iterating
  BY ConfFacts DEF Iterating
<1>2. \A i \in Nat : Ptr(i) \in Word
  BY WordFacts
<1>3. Set \in Seq(Word) /\ Len(Set) = 2 /\ Set[1] = SET_ITERATIONS /\ Set[2] = Number(conf.inThread)
  <2>1. Number(conf.inThread) \in Word /\ SET_ITERATIONS \in Word
    BY <1>1, WordFacts
  <2> QED
    BY <2>1
<1>4. \A i \in Nat : /\ Pointer(Ptr(i)) \in Seq(Word) /\ Len(Pointer(Ptr(i))) = conf.words
                     /\ \A k \in 1..conf.words : Pointer(Ptr(i))[k] = Ptr(i)
  <2> SUFFICES ASSUME NEW i \in Nat
               PROVE  /\ Pointer(Ptr(i)) \in Seq(Word) /\ Len(Pointer(Ptr(i))) = conf.words
                      /\ \A k \in 1..conf.words : Pointer(Ptr(i))[k] = Ptr(i)
    OBVIOUS
  <2>1. PICK n \in Nat : n = conf.words
    BY <1>1
  <2>2. PICK p \in Word : p = Ptr(i)
    BY <1>2
  <2>3. Pointer(Ptr(i)) = [k \in 1..n |-> p]
    BY <2>1, <2>2 DEF Pointer
  <2>4. [k \in 1..n |-> p] \in Seq(Word) /\ Len([k \in 1..n |-> p]) = n
    OBVIOUS
  <2> QED
    BY <2>1, <2>2, <2>3, <2>4
<1>5. \A i \in Nat : StepMessage(i) = (IF Iterating THEN Set ELSE <<>>) \o Pointer(Ptr(i))
  BY <1>1 DEF StepMessage, Ptr, Plain, Double, Iterating
<1> HIDE DEF Set
<1>6. ASSUME ~ Iterating, NEW i \in Nat
      PROVE  StepMessage(i) \in Seq(Word) /\ Len(StepMessage(i)) = conf.words
             /\ \A k \in 1..conf.words : StepMessage(i)[k] = Ptr(i)
  <2>1. StepMessage(i) = <<>> \o Pointer(Ptr(i))
    BY <1>5, <1>6
  <2>2. \A s \in Seq(Word) : <<>> \o s = s
    OBVIOUS
  <2>3. StepMessage(i) = Pointer(Ptr(i))
    BY <1>4, <2>1, <2>2
  <2> QED
    BY <1>4, <2>3
<1>7. ASSUME Iterating, NEW i \in Nat
      PROVE  /\ StepMessage(i) \in Seq(Word) /\ Len(StepMessage(i)) = 3
             /\ StepMessage(i)[1] = SET_ITERATIONS /\ StepMessage(i)[2] = Number(conf.inThread)
             /\ StepMessage(i)[3] = Ptr(i)
  <2>1. StepMessage(i) = Set \o Pointer(Ptr(i))
    BY <1>5, <1>7
  <2>2. PICK s \in Seq(Word) : s = Pointer(Ptr(i)) /\ Len(s) = 1 /\ s[1] = Ptr(i)
    <3>1. conf.words = 1
      BY <1>7 DEF Iterating
    <3>2. Pointer(Ptr(i)) \in Seq(Word) /\ Len(Pointer(Ptr(i))) = 1
      BY <1>4, <3>1
    <3>3. Pointer(Ptr(i))[1] = Ptr(i)
      BY <1>4, <3>1
    <3> QED
      BY <3>2, <3>3
  <2>3. /\ Set \o s \in Seq(Word) /\ Len(Set \o s) = 3
        /\ (Set \o s)[1] = Set[1] /\ (Set \o s)[2] = Set[2] /\ (Set \o s)[3] = s[1]
    <3> QED
      BY <1>3, <2>2, ThreeWords
  <2> QED
    BY <1>3, <2>1, <2>2, <2>3
<1>8. PICK M \in Nat : M = Len(StepMessage(1)) /\ M = (IF Iterating THEN 3 ELSE conf.words)
  BY <1>1, <1>6, <1>7
<1>9. PICK T \in Nat : T = R * M /\ (M = 1 => T = R) /\ (R = 0 => T = 0) /\ (R = 1 => T = M)
  <2>1. R * M \in Nat
    BY <1>1
  <2>2. (M = 1 => R * M = R) /\ (R = 0 => R * M = 0) /\ (R = 1 => R * M = M)
    BY <1>1
  <2> QED
    BY <2>1, <2>2
<1>10. AllSteps = [k \in 1..T |-> StepMessage(((k - 1) \div M) + 1)[((k - 1) % M) + 1]]
  BY <1>8, <1>9 DEF AllSteps
<1>11. CASE Plain
  <2>1. M = 1 /\ T = R
    BY <1>1, <1>8, <1>9, <1>11
  <2>2. \A k \in 1..T : ((k - 1) \div 1) + 1 = k /\ ((k - 1) % 1) + 1 = 1
    OBVIOUS
  <2>3. \A k \in 1..T : StepMessage(k)[1] = Ptr(k)
    BY <1>1, <1>6, <1>11
  <2>4. AllSteps = [k \in 1..T |-> Ptr(k)]
    BY <1>10, <2>1, <2>2, <2>3
  <2>5. [k \in 1..T |-> Ptr(k)] \in Seq(Word) /\ Len([k \in 1..T |-> Ptr(k)]) = T
    BY <1>2
  <2> QED
    BY <1>1, <1>11, <2>1, <2>4, <2>5 DEF Total
<1>12. CASE Double
  <2>1. M = 2 /\ (R = 0 => T = 0) /\ (R = 1 => T = 2) /\ (R = 0 \/ R = 1)
    BY <1>1, <1>8, <1>9, <1>12 DEF Double
  <2>2. \A k \in 1..T : ((k - 1) \div 2) + 1 = 1 /\ ((k - 1) % 2) + 1 \in 1..2
    BY <2>1
  <2>3. \A k \in 1..2 : StepMessage(1)[k] = Ptr(1)
    BY <1>1, <1>6, <1>12 DEF Double
  <2>4. AllSteps = [k \in 1..T |-> Ptr(1)]
    BY <1>10, <2>1, <2>2, <2>3
  <2>5. [k \in 1..T |-> Ptr(1)] \in Seq(Word) /\ Len([k \in 1..T |-> Ptr(1)]) = T
    BY <1>2
  <2> QED
    BY <1>1, <1>12, <2>1, <2>4, <2>5 DEF Total
<1>13. CASE Iterating
  <2>1. M = 3 /\ T = 3
    BY <1>1, <1>8, <1>9, <1>13
  <2>2. /\ ((1 - 1) \div 3) + 1 = 1 /\ ((1 - 1) % 3) + 1 = 1
        /\ ((2 - 1) \div 3) + 1 = 1 /\ ((2 - 1) % 3) + 1 = 2
        /\ ((3 - 1) \div 3) + 1 = 1 /\ ((3 - 1) % 3) + 1 = 3
    OBVIOUS
  <2>3. /\ StepMessage(1)[1] = SET_ITERATIONS /\ StepMessage(1)[2] = Number(conf.inThread)
        /\ StepMessage(1)[3] = Ptr(1)
    BY <1>7, <1>13
  <2>4. AllSteps[1] = SET_ITERATIONS /\ AllSteps[2] = Number(conf.inThread) /\ AllSteps[3] = Ptr(1)
    BY <1>10, <2>1, <2>2, <2>3
  <2>5. \A k \in 1..3 : AllSteps[k] \in Word
    BY <1>1, <2>4, WordFacts
  <2>6. DOMAIN AllSteps = 1..3 /\ AllSteps = [k \in 1..3 |-> AllSteps[k]]
    BY <1>10, <2>1
  <2>7. AllSteps \in Seq(Word) /\ Len(AllSteps) = 3
    BY <2>5, <2>6
  <2> QED
    BY <1>1, <1>13, <2>4, <2>6, <2>7 DEF Total
<1>14. QED
  BY <1>1, <1>11, <1>12, <1>13

-----------------------------------------------------------------------------
(* The command line and what only depends on it never change. *)
LEMMA ConfKept ==
  ASSUME [Next]_vars
  PROVE  /\ conf' = conf /\ Threads' = Threads /\ Blocks' = Blocks
         /\ simulation_steps' = simulation_steps
         /\ Plain' = Plain /\ Double' = Double /\ Iterating' = Iterating
         /\ AllSteps' = AllSteps /\ Total' = Total
         /\ \A b : Ptr(b)' = Ptr(b)
<1>1. conf' = conf
  BY DEF Next, vars, mainVars, Main, Thread, StartIteration, MainPut, StartWaiting, MainGet,
         EndIteration, StartTermination, MainJoin, SwGetPointer, SwCalculate, SwEnd, SwAck,
         HwGetAddr, HwReadIterations, HwRead, HwEval, HwWrite, HwAck, CacheLoad, CacheReplace
<1>2. Threads' = Threads /\ simulation_steps' = simulation_steps
  BY <1>1 DEF Threads, simulation_steps, running_threads
<1>3. Blocks' = Blocks
  BY <1>2 DEF Blocks
<1>4. Plain' = Plain /\ Double' = Double /\ Iterating' = Iterating
  BY <1>1 DEF Plain, Double, Iterating
<1>5. \A b : Ptr(b)' = Ptr(b)
  BY <1>1 DEF Ptr
<1>6. \A i : StepMessage(i)' = StepMessage(i)
  BY <1>1 DEF StepMessage, Pointer
<1>7. AllSteps' = AllSteps
  BY <1>2, <1>6 DEF AllSteps
<1>8. Total' = Total
  BY <1>7 DEF Total
<1>9. QED
  BY <1>1, <1>2, <1>3, <1>4, <1>5, <1>7, <1>8

(* A thread works on a block of its own program. *)
LEMMA BusyFacts ==
  ASSUME Typed, Protocol, NEW t \in Threads, Busy(t)
  PROVE  /\ phase \in {"put", "wait"} /\ Iteration
         /\ job[t] = Ptr(job[t].arg)
         /\ conf.memory => job[t].arg \in Blocks /\ job[t].op = "block"
         /\ ~ conf.memory => job[t] = WITHOUT_MEMORY
<1>1. phase \in {"put", "wait"} /\ Iteration
  <2>1. phase \in {"put", "wait"} \/ phase \in {"start", "check"} \/ phase \in {"terminate", "done"}
    BY DEF Typed, MainTyped
  <2>2. state[t] \notin {"GET_ADDR", "THREAD_EXIT"}
    BY DEF Busy, Working, WorkingStates
  <2> QED
    BY <2>1, <2>2 DEF Protocol, Resting, Ending
<1>2. /\ job[t] = Ptr(job[t].arg)
      /\ conf.memory => job[t].arg \in 1..(simulation_steps - Untaken)
  BY <1>1 DEF Iteration, JobOk
<1>3. Untaken \in Nat /\ simulation_steps \in Nat
  <2>1. Len(mb_start) \in Nat /\ Len(toPut) \in Nat /\ simulation_steps \in Nat
    BY ConfFacts DEF Typed, MainTyped
  <2> QED
    BY <2>1 DEF Untaken, Pending
<1>4. conf.memory => job[t].arg \in Blocks
  BY <1>2, <1>3 DEF Blocks
<1>5. QED
  BY <1>1, <1>2, <1>4 DEF Ptr, Block

-----------------------------------------------------------------------------
(* Typing. *)
LEMMA TypedInitially == Init => Typed
<1> SUFFICES ASSUME Init PROVE Typed
  OBVIOUS
<1>1. conf \in Configurations /\ Accepted(conf)
  BY DEF Init
<1>2. MainTyped
  BY DEF Init, MainTyped
<1>3. ThreadsTyped
  BY WordFacts DEF Init, ThreadsTyped, States
<1>4. MemoryTyped
  <2>1. /\ Content(FALSE, NotCalculated) \in BlockContent
        /\ Content(TRUE, NotCalculated) \in BlockContent
        /\ NoCopy \in BlockContent
        /\ Content(TRUE, NotCalculated) # NoCopy
    BY DEF Content, NotCalculated, NoCopy, BlockContent, Output
  <2>2. /\ memory = [b \in Blocks |-> Content(FALSE, NotCalculated)]
        /\ cached = [b \in Blocks |-> IF conf.memory THEN Content(TRUE, NotCalculated) ELSE NoCopy]
        /\ dirty = IF conf.memory THEN Blocks ELSE {}
        /\ calcs = [b \in Blocks |-> 0]
    BY DEF Init
  <2> QED
    BY <2>1, <2>2 DEF MemoryTyped
<1>5. QED
  BY <1>1, <1>2, <1>3, <1>4 DEF Typed

(* A flush writes every block back and leaves no copy. *)
LEMMA FlushTyped ==
  ASSUME Typed, reconos_cache_flush, Blocks' = Blocks, UNCHANGED calcs
  PROVE  MemoryTyped'
<1>1. NoCopy \in BlockContent
  BY DEF Content, NotCalculated, NoCopy, BlockContent, Output
<1>2. \A b \in Blocks : cached[b] \in BlockContent /\ memory[b] \in BlockContent
  BY DEF Typed, MemoryTyped
<1>3. memory' \in [Blocks -> BlockContent]
  BY <1>2 DEF reconos_cache_flush, WrittenBack
<1>4. cached' \in [Blocks -> BlockContent] /\ dirty' = {}
  BY <1>1 DEF reconos_cache_flush
<1>5. calcs' \in [Blocks -> Nat]
  BY DEF Typed, MemoryTyped
<1>6. QED
  BY <1>3, <1>4, <1>5 DEF MemoryTyped

(* A step of main keeps the types. *)
LEMMA MainStepTyped ==
  ASSUME Typed, Main, Blocks' = Blocks, Threads' = Threads
  PROVE  MainTyped' /\ ThreadsTyped' /\ MemoryTyped'
<1> USE DEF Typed
<1>0. simulation_steps \in Nat /\ conf.words \in {1, 2} /\ AllSteps \in Seq(Word)
  BY ConfFacts, StepWords
<1>1. CASE StartIteration
  <2>1. MainTyped'
    BY <1>0, <1>1 DEF StartIteration, MainTyped
  <2>2. ThreadsTyped'
    BY <1>1 DEF StartIteration, ThreadsTyped, threadVars
  <2>3. MemoryTyped'
    BY <1>1, FlushTyped DEF StartIteration, MemoryTyped, memoryVars
  <2> QED
    BY <2>1, <2>2, <2>3
<1>2. CASE MainPut
  <2>1. Head(toPut) \in Word /\ Tail(toPut) \in Seq(Word)
    BY <1>2 DEF MainPut, MainTyped
  <2>2. MainTyped'
    BY <1>2, <2>1 DEF MainPut, MainTyped
  <2> QED
    BY <1>2, <2>2 DEF MainPut, ThreadsTyped, MemoryTyped, threadVars, memoryVars
<1>3. CASE StartWaiting
  <2>1. simulation_steps * conf.words \in Nat
    BY <1>0
  <2>2. MainTyped'
    BY <1>3, <2>1 DEF StartWaiting, MainTyped
  <2> QED
    BY <1>3, <2>2 DEF StartWaiting, ThreadsTyped, MemoryTyped, threadVars, memoryVars
<1>4. CASE MainGet
  BY <1>4 DEF MainGet, MainTyped, ThreadsTyped, MemoryTyped, threadVars, memoryVars
<1>5. CASE EndIteration
  <2>1. MainTyped'
    BY <1>5 DEF EndIteration, MainTyped
  <2>2. ThreadsTyped'
    BY <1>5 DEF EndIteration, ThreadsTyped, threadVars
  <2>3. MemoryTyped'
    BY <1>5, FlushTyped DEF EndIteration, MemoryTyped, memoryVars
  <2> QED
    BY <2>1, <2>2, <2>3
<1>6. CASE StartTermination
  <2>1. PICK n \in Nat : n = simulation_steps * conf.words
    BY <1>0
  <2>2. AllExits \in Seq(Word)
    BY <2>1, WordFacts DEF AllExits
  <2>3. MainTyped'
    BY <1>6, <2>2 DEF StartTermination, MainTyped
  <2> QED
    BY <1>6, <2>3 DEF StartTermination, ThreadsTyped, MemoryTyped, threadVars, memoryVars
<1>7. CASE MainJoin
  BY <1>7 DEF MainJoin, MainTyped, ThreadsTyped, MemoryTyped, threadVars, memoryVars
<1>8. QED
  BY <1>1, <1>2, <1>3, <1>4, <1>5, <1>6, <1>7 DEF Main

(* So does a step of a software thread, *)
LEMMA SoftwareStepTyped ==
  ASSUME Typed, Protocol, Blocks' = Blocks, Threads' = Threads, NEW t \in Threads,
         SwGetPointer(t) \/ SwCalculate(t) \/ SwEnd(t) \/ SwAck(t)
  PROVE  MainTyped' /\ ThreadsTyped' /\ MemoryTyped'
<1> USE DEF Typed
<1>0. /\ state \in [Threads -> States] /\ got \in [Threads -> Seq(Word)] /\ job \in [Threads -> Word]
      /\ count \in [Threads -> Int] /\ ram \in [Threads -> BOOLEAN]
  BY DEF ThreadsTyped
<1>1. CASE SwGetPointer(t)
  <2>1. Head(mb_start) \in Word /\ Tail(mb_start) \in Seq(Word)
    BY <1>1 DEF SwGetPointer, MainTyped
  <2>2. MainTyped'
    BY <1>1, <2>1 DEF SwGetPointer, MainTyped, mainVars
  <2>3. MemoryTyped'
    BY <1>1 DEF SwGetPointer, MemoryTyped, memoryVars
  <2>4. PICK words \in Seq(Word) : words = Append(got[t], Head(mb_start))
    <3>1. got[t] \in Seq(Word)
      BY <1>0
    <3>2. Append(got[t], Head(mb_start)) \in Seq(Word)
      BY <2>1, <3>1
    <3> QED
      BY <3>2
  <2>5. words # <<>> /\ words[1] \in Word
    BY <1>0, <2>1, <2>4
  <2>6. PICK p \in Word : p = IF \A k \in DOMAIN words : words[k] = words[1] THEN words[1] ELSE Wild
    BY <2>5, WordFacts
  <2>7. CASE Len(words) < conf.words
    <3>1. got' = [got EXCEPT ![t] = words] /\ UNCHANGED <<state, job, count, ram>>
      BY <1>1, <2>4, <2>7 DEF SwGetPointer
    <3>2. got' \in [Threads -> Seq(Word)]
      BY <1>0, <3>1
    <3> QED
      BY <1>0, <2>2, <2>3, <3>1, <3>2 DEF ThreadsTyped
  <2>8. CASE ~ (Len(words) < conf.words)
    <3>1. /\ got' = [got EXCEPT ![t] = <<>>]
          /\ job' = [job EXCEPT ![t] = p]
          /\ count' = [count EXCEPT ![t] = conf.inThread]
          /\ state' = [state EXCEPT ![t] = IF p = THREAD_EXIT THEN "THREAD_EXIT" ELSE "CALC"]
          /\ ram' = ram
      BY <1>1, <2>4, <2>6, <2>8 DEF SwGetPointer
    <3>2. conf.inThread \in Int
      BY ConfFacts
    <3>3. <<>> \in Seq(Word)
      OBVIOUS
    <3>4. got' \in [Threads -> Seq(Word)]
      BY <1>0, <3>1, <3>3
    <3>5. job' \in [Threads -> Word]
      BY <1>0, <3>1
    <3>6. count' \in [Threads -> Int] /\ state' \in [Threads -> States]
      BY <1>0, <3>1, <3>2 DEF States
    <3> QED
      BY <1>0, <2>2, <2>3, <3>1, <3>4, <3>5, <3>6 DEF ThreadsTyped
  <2> QED
    BY <2>2, <2>3, <2>7, <2>8
<1>2. CASE SwCalculate(t)
  <2>1. Busy(t)
    BY <1>2 DEF SwCalculate, Busy, Working, WorkingStates
  <2>2. job[t].arg \in Blocks
    <3>1. conf.memory
      BY <1>2, ConfFacts, ThreadFacts DEF SwCalculate
    <3> QED
      BY <2>1, <3>1, BusyFacts
  <2>3. PICK b \in Blocks : b = job[t].arg
    BY <2>2
  <2>4. PICK k \in Nat : k = IF View(b).input THEN calcs[b] + 1 ELSE 0
    BY DEF MemoryTyped
  <2>5. View(b).input \in BOOLEAN
    BY DEF MemoryTyped, View, BlockContent
  <2>6. PICK c \in BlockContent : c = Content(View(b).input, [calculation |-> k, ram |-> "dx"]) /\ c # NoCopy
    <3>1. \A v \in BOOLEAN : /\ Content(v, [calculation |-> k, ram |-> "dx"]) \in BlockContent
                            /\ Content(v, [calculation |-> k, ram |-> "dx"]) # NoCopy
      BY DEF Content, BlockContent, Output, NoCopy
    <3> QED
      BY <2>5, <3>1
  <2>7. /\ cached' = [cached EXCEPT ![b] = c] /\ dirty' = dirty \union {b}
        /\ calcs' = [calcs EXCEPT ![b] = @ + 1] /\ memory' = memory
    BY <1>2, <2>3, <2>4, <2>6 DEF SwCalculate
  <2>8. MemoryTyped'
    BY <2>6, <2>7 DEF MemoryTyped
  <2>9. ThreadsTyped'
    BY <1>2 DEF SwCalculate, ThreadsTyped
  <2>10. MainTyped'
    BY <1>2 DEF SwCalculate, MainTyped, mainVars
  <2> QED
    BY <2>8, <2>9, <2>10
<1>3. CASE SwEnd(t)
  <2>1. PICK n \in Nat : n = conf.words
    BY ConfFacts
  <2>2. PICK p \in Word : p = job[t]
    BY <1>0
  <2>3. PICK s \in Seq(Word) : s = Pointer(job[t])
    <3>1. [k \in 1..n |-> p] \in Seq(Word)
      OBVIOUS
    <3> QED
      BY <2>1, <2>2, <3>1 DEF Pointer
  <2>4. ThreadsTyped'
    BY <1>0, <1>3, <2>3 DEF SwEnd, ThreadsTyped, States
  <2> QED
    BY <1>3, <2>4 DEF SwEnd, MainTyped, MemoryTyped, mainVars, memoryVars
<1>4. CASE SwAck(t)
  <2>1. got[t] # <<>>
    <3>1. Busy(t) /\ t[1] = "sw" /\ state[t] = "ACK"
      BY <1>4 DEF SwAck, Busy
    <3>2. Len(got[t]) \in 1..conf.words
      BY <3>1, BusyFacts DEF Iteration, JobOk
    <3> QED
      BY <3>2, ConfFacts
  <2>2. PICK s \in Seq(Word) : s = Tail(got[t])
    <3>1. got[t] \in Seq(Word)
      BY <1>0
    <3>2. Tail(got[t]) \in Seq(Word)
      BY <2>1, <3>1
    <3> QED
      BY <3>2
  <2>3. got' = [got EXCEPT ![t] = s]
    BY <1>4, <2>2 DEF SwAck
  <2>4. state' \in [Threads -> States]
    BY <1>0, <1>4 DEF SwAck, States
  <2>5. ThreadsTyped'
    BY <1>0, <1>4, <2>3, <2>4 DEF SwAck, ThreadsTyped
  <2> QED
    BY <1>4, <2>5 DEF SwAck, MainTyped, MemoryTyped, mainVars, memoryVars
<1>5. QED
  BY <1>1, <1>2, <1>3, <1>4

(* of a hardware thread, *)
LEMMA HardwareStepTyped ==
  ASSUME Typed, Protocol, Blocks' = Blocks, Threads' = Threads, NEW t \in Threads,
         HwGetAddr(t) \/ HwReadIterations(t) \/ HwRead(t) \/ HwEval(t) \/ HwWrite(t) \/ HwAck(t)
  PROVE  MainTyped' /\ ThreadsTyped' /\ MemoryTyped'
<1> USE DEF Typed
<1>0. /\ state \in [Threads -> States] /\ got \in [Threads -> Seq(Word)] /\ job \in [Threads -> Word]
      /\ count \in [Threads -> Int] /\ ram \in [Threads -> BOOLEAN]
  BY DEF ThreadsTyped
<1>1. CASE HwGetAddr(t)
  <2>1. Head(mb_start) \in Word /\ Tail(mb_start) \in Seq(Word)
    BY <1>1 DEF HwGetAddr, MainTyped
  <2>2. MainTyped'
    BY <1>1, <2>1 DEF HwGetAddr, MainTyped, mainVars
  <2>3. PICK p \in Word : p = Head(mb_start)
    BY <2>1
  <2>4. job' \in [Threads -> Word]
    BY <1>0, <1>1, <2>3 DEF HwGetAddr
  <2>5. state' \in [Threads -> States]
    BY <1>0, <1>1 DEF HwGetAddr, States
  <2>6. ThreadsTyped'
    BY <1>0, <1>1, <2>4, <2>5 DEF HwGetAddr, ThreadsTyped
  <2> QED
    BY <1>1, <2>2, <2>6 DEF HwGetAddr, MemoryTyped, memoryVars
<1>2. CASE HwReadIterations(t)
  <2>1. Head(mb_start) \in Word /\ Tail(mb_start) \in Seq(Word)
    BY <1>2 DEF HwReadIterations, MainTyped
  <2>2. MainTyped'
    BY <1>2, <2>1 DEF HwReadIterations, MainTyped, mainVars
  <2>3. PICK n \in Nat : n = Head(mb_start).arg
    BY <2>1 DEF Word
  <2>4. ThreadsTyped'
    BY <1>0, <1>2, <2>3 DEF HwReadIterations, ThreadsTyped, States
  <2> QED
    BY <1>2, <2>2, <2>4 DEF HwReadIterations, MemoryTyped, memoryVars
<1>3. CASE HwRead(t)
  <2>1. Busy(t)
    BY <1>3 DEF HwRead, Busy, Working, WorkingStates
  <2>2. job[t] # WITHOUT_MEMORY => job[t].arg \in Blocks
    BY <2>1, BusyFacts
  <2>3. job[t] # WITHOUT_MEMORY => memory[job[t].arg].input \in BOOLEAN
    BY <2>2 DEF MemoryTyped, BlockContent
  <2>4. ram' \in [Threads -> BOOLEAN]
    BY <1>0, <1>3, <2>3 DEF HwRead
  <2>5. ThreadsTyped'
    BY <1>0, <1>3, <2>4 DEF HwRead, ThreadsTyped, States
  <2> QED
    BY <1>3, <2>5 DEF HwRead, MainTyped, mainVars, MemoryTyped, memoryVars
<1>4. CASE HwEval(t)
  <2>1. ThreadsTyped'
    BY <1>0, <1>4 DEF HwEval, ThreadsTyped, States
  <2> QED
    BY <1>4, <2>1 DEF HwEval, MainTyped, mainVars, MemoryTyped, memoryVars
<1>5. CASE HwWrite(t)
  <2>1. Busy(t)
    BY <1>5 DEF HwWrite, Busy, Working, WorkingStates
  <2>2. MainTyped'
    BY <1>5 DEF HwWrite, MainTyped, mainVars
  <2>3. CASE job[t] = WITHOUT_MEMORY
    <3>1. ThreadsTyped'
      BY <1>0, <1>5, <2>3 DEF HwWrite, ThreadsTyped, States
    <3> QED
      BY <1>5, <2>2, <2>3, <3>1 DEF HwWrite, MemoryTyped
  <2>4. CASE job[t] # WITHOUT_MEMORY
    <3>1. PICK b \in Blocks : b = job[t].arg
      BY <2>1, <2>4, BusyFacts
    <3>2. PICK k \in Nat : k = IF ram[t] THEN calcs[b] + 1 ELSE 0
      BY DEF MemoryTyped
    <3>3. /\ memory' = [memory EXCEPT ![b].output = [calculation |-> k, ram |-> RamWord(0)]]
          /\ calcs' = [calcs EXCEPT ![b] = @ + 1]
          /\ state' = [state EXCEPT ![t] = IF count[t] = 0 THEN "ACK" ELSE "READ"]
          /\ count' = [count EXCEPT ![t] = IF @ = 0 THEN @ ELSE @ - 1]
          /\ cached' = cached /\ dirty' = dirty /\ job' = job /\ got' = got /\ ram' = ram
      BY <1>5, <2>4, <3>1, <3>2 DEF HwWrite
    <3>4. PICK o \in Output : o = [calculation |-> k, ram |-> RamWord(0)]
      <4>1. RamWord(0) = "U"
        BY DEF RamWord
      <4>2. [calculation |-> k, ram |-> "U"] \in Output
        BY DEF Output
      <4> QED
        BY <4>1, <4>2
    <3>5. memory' = [memory EXCEPT ![b] = [memory[b] EXCEPT !.output = o]]
      BY <3>3, <3>4 DEF MemoryTyped
    <3>6. [memory[b] EXCEPT !.output = o] \in BlockContent
      BY DEF MemoryTyped, BlockContent
    <3>7. MemoryTyped'
      BY <3>3, <3>5, <3>6 DEF MemoryTyped
    <3>8. ThreadsTyped'
      BY <1>0, <3>3 DEF ThreadsTyped, States
    <3> QED
      BY <2>2, <3>7, <3>8
  <2> QED
    BY <2>3, <2>4
<1>6. CASE HwAck(t)
  <2>1. ThreadsTyped'
    BY <1>0, <1>6 DEF HwAck, ThreadsTyped, States
  <2> QED
    BY <1>6, <2>1 DEF HwAck, MainTyped, mainVars, MemoryTyped, memoryVars
<1>7. QED
  BY <1>1, <1>2, <1>3, <1>4, <1>5, <1>6

(* and of the cache. *)
LEMMA CacheStepTyped ==
  ASSUME Typed, Blocks' = Blocks, Threads' = Threads, NEW b \in Blocks,
         CacheLoad(b) \/ CacheReplace(b)
  PROVE  MainTyped' /\ ThreadsTyped' /\ MemoryTyped'
<1> USE DEF Typed
<1>1. CASE CacheLoad(b)
  <2>1. MemoryTyped'
    BY <1>1 DEF CacheLoad, MemoryTyped
  <2> QED
    BY <1>1, <2>1 DEF CacheLoad, MainTyped, mainVars, ThreadsTyped, threadVars
<1>2. CASE CacheReplace(b)
  <2>1. NoCopy \in BlockContent
    BY DEF Content, NoCopy, BlockContent, Output
  <2>2. memory' \in [Blocks -> BlockContent]
    BY <1>2 DEF CacheReplace, WrittenBack, MemoryTyped
  <2>3. MemoryTyped'
    BY <1>2, <2>1, <2>2 DEF CacheReplace, MemoryTyped
  <2> QED
    BY <1>2, <2>3 DEF CacheReplace, MainTyped, mainVars, ThreadsTyped, threadVars
<1>3. QED
  BY <1>1, <1>2

(* Every step keeps the types. *)
LEMMA TypedStep == ASSUME Typed, Protocol, [Next]_vars PROVE Typed'
<1>1. conf' = conf /\ Threads' = Threads /\ Blocks' = Blocks
  BY ConfKept
<1>2. conf' \in Configurations /\ Accepted(conf)'
  BY <1>1 DEF Typed, Accepted, running_threads
<1>3. MainTyped' /\ ThreadsTyped' /\ MemoryTyped'
  <2>1. CASE Main
    BY <1>1, <2>1, MainStepTyped
  <2>2. ASSUME NEW t \in Threads, Thread(t)
        PROVE  MainTyped' /\ ThreadsTyped' /\ MemoryTyped'
    <3>1. CASE SwGetPointer(t) \/ SwCalculate(t) \/ SwEnd(t) \/ SwAck(t)
      BY <1>1, <3>1, SoftwareStepTyped
    <3>2. CASE HwGetAddr(t) \/ HwReadIterations(t) \/ HwRead(t) \/ HwEval(t) \/ HwWrite(t) \/ HwAck(t)
      BY <1>1, <3>2, HardwareStepTyped
    <3> QED
      BY <2>2, <3>1, <3>2 DEF Thread
  <2>3. ASSUME NEW b \in Blocks, CacheLoad(b) \/ CacheReplace(b)
        PROVE  MainTyped' /\ ThreadsTyped' /\ MemoryTyped'
    BY <1>1, <2>3, CacheStepTyped
  <2>4. CASE UNCHANGED vars
    <3>1. MainTyped'
      BY <2>4 DEF Typed, MainTyped, vars, mainVars
    <3>2. ThreadsTyped'
      BY <1>1, <2>4 DEF Typed, ThreadsTyped, vars, threadVars
    <3>3. MemoryTyped'
      BY <1>1, <2>4 DEF Typed, MemoryTyped, vars, memoryVars
    <3> QED
      BY <3>1, <3>2, <3>3
  <2> QED
    BY <2>1, <2>2, <2>3, <2>4 DEF Next
<1>4. QED
  BY <1>2, <1>3 DEF Typed

-----------------------------------------------------------------------------
(* The numbers of the protocol are natural numbers. *)
LEMMA ProtocolNumbers ==
  ASSUME Typed
  PROVE  /\ Len(mb_start) \in Nat /\ Len(toPut) \in Nat /\ Pending \in Nat /\ Untaken \in Nat
         /\ \A t \in Threads : Owed[t] \in Int /\ Owed[t] >= 0
         /\ Debt \in Int /\ Debt >= 0
         /\ IsFiniteSet(Threads)
         /\ \A t \in Threads : Debt >= Owed[t]
<1>1. Len(mb_start) \in Nat /\ Len(toPut) \in Nat /\ simulation_steps \in Nat
  BY ConfFacts DEF Typed, MainTyped
<1>2. Pending \in Nat /\ Untaken \in Nat
  BY <1>1 DEF Pending, Untaken
<1>3. \A t \in Threads : Owed[t] \in Int /\ Owed[t] >= 0
  <2> SUFFICES ASSUME NEW t \in Threads PROVE Owed[t] \in Int /\ Owed[t] >= 0
    OBVIOUS
  <2>1. Len(got[t]) \in Nat
    BY DEF Typed, ThreadsTyped
  <2>2. conf.words \in Nat
    BY ConfFacts DEF Typed
  <2> QED
    BY <2>1, <2>2 DEF Owed
<1>4. IsFiniteSet(Threads)
  BY ThreadFacts DEF Typed
<1>5. Debt \in Int /\ Debt >= 0
  BY <1>3, <1>4, SumNat DEF Debt
<1>6. \A t \in Threads : Debt >= Owed[t]
  BY <1>3, <1>4, SumAtLeast DEF Debt
<1>7. QED
  BY <1>1, <1>2, <1>3, <1>4, <1>5, <1>6

(* The step of one thread changes what that thread owes. *)
LEMMA DebtStep ==
  ASSUME Typed, Typed', conf' = conf, Threads' = Threads, NEW t \in Threads,
         \A u \in Threads \ {t} : state'[u] = state[u] /\ got'[u] = got[u]
  PROVE  Debt' = Debt - Owed[t] + Owed'[t]
<1>1. \A u \in Threads : Owed[u] \in Int /\ Owed'[u] \in Int
  <2>1. \A u \in Threads : Owed[u] \in Int
    BY ProtocolNumbers
  <2>2. \A u \in Threads : Len(got'[u]) \in Nat
    BY DEF Typed, ThreadsTyped
  <2>3. conf.words \in Nat
    BY ConfFacts DEF Typed
  <2>4. \A u \in Threads : Owed'[u] \in Int
    BY <2>2, <2>3 DEF Owed
  <2> QED
    BY <2>1, <2>4
<1>2. \A u \in Threads \ {t} : Owed'[u] = Owed[u]
  BY DEF Owed, Working
<1>3. IsFiniteSet(Threads)
  BY ProtocolNumbers
<1>4. Debt' = SumFunctionOnSet(Owed', Threads)
  BY DEF Debt
<1> HIDE DEF Owed
<1>5. SumFunctionOnSet(Owed', Threads) = SumFunctionOnSet(Owed, Threads) - Owed[t] + Owed'[t]
  BY <1>1, <1>2, <1>3, SumUpdate
<1>6. QED
  BY <1>4, <1>5 DEF Debt

(* The step of one thread during an iteration: the words on their way stay  *)
(* in order, the other threads are left alone, and the balance is kept.     *)
LEMMA ThreadStep ==
  ASSUME Typed, Typed', [Next]_vars, Iteration, NEW t \in Threads,
         UNCHANGED <<phase, left, toPut>>,
         \A u \in Threads \ {t} : /\ state'[u] = state[u] /\ got'[u] = got[u]
                                  /\ job'[u] = job[u] /\ count'[u] = count[u],
         WordsInOrder',
         Pending' = Pending \/ Plain \/ \A u \in Threads : u = t,
         PartsReceived(t)', JobOk(t)',
         \A u \in Threads \ {t} :
           conf.memory /\ Working(u) /\ Working(t)' => job'[t].arg # job[u].arg,
         \/ Untaken' = Untaken /\ mb_stop' + Owed'[t] = mb_stop + Owed[t]
         \/ Untaken' = Untaken - 1 /\ mb_stop' = mb_stop /\ Owed'[t] = Owed[t] + conf.words
  PROVE  Iteration'
<1>0. /\ conf' = conf /\ Threads' = Threads /\ Blocks' = Blocks /\ simulation_steps' = simulation_steps
      /\ Plain' = Plain /\ Double' = Double /\ Iterating' = Iterating
      /\ \A b : Ptr(b)' = Ptr(b)
  BY ConfKept
<1>1. /\ simulation_steps \in Nat /\ conf.words \in {1, 2}
      /\ Plain => ~ Double /\ ~ Iterating
  BY ConfFacts DEF Typed
<1>2. Untaken \in Nat /\ Debt \in Int /\ Owed[t] \in Int /\ mb_stop \in Nat
  BY ProtocolNumbers DEF Typed, MainTyped
<1>3. \A u \in Threads \ {t} : /\ Working(u)' = Working(u) /\ Busy(u)' = Busy(u)
  BY DEF Working, Busy
<1>4. \A u \in Threads : PartsReceived(u)'
  <2> SUFFICES ASSUME NEW u \in Threads, u # t PROVE PartsReceived(u)'
    OBVIOUS
  <2>1. /\ state'[u] = state[u] /\ got'[u] = got[u] /\ count'[u] = count[u]
        /\ Busy(u)' = Busy(u)
    BY <1>3
  <2>2. PartsReceived(u)
    BY DEF Iteration
  <2>3. CASE Plain
    BY <1>0, <1>1, <2>1, <2>2, <2>3 DEF PartsReceived
  <2>4. CASE Pending' = Pending
    BY <1>0, <2>1, <2>2, <2>4 DEF PartsReceived
  <2> QED
    BY <2>3, <2>4
<1>5. \A u \in Threads : JobOk(u)'
  <2> SUFFICES ASSUME NEW u \in Threads, u # t PROVE JobOk(u)'
    OBVIOUS
  <2>1. /\ state'[u] = state[u] /\ got'[u] = got[u] /\ job'[u] = job[u]
        /\ Busy(u)' = Busy(u)
    BY <1>3
  <2>2. JobOk(u)
    BY DEF Iteration
  <2>3. conf.memory /\ Busy(u) => job[u].arg \in 1..(simulation_steps - Untaken')
    <3>1. conf.memory /\ Busy(u) => job[u].arg \in 1..(simulation_steps - Untaken)
      BY <2>2 DEF JobOk
    <3>2. Untaken' \in Int /\ Untaken' <= Untaken
      BY <1>2
    <3> QED
      BY <1>1, <1>2, <3>1, <3>2
  <2>4. Busy(u) => job'[u] = Ptr(job[u].arg)'
    BY <1>0, <2>1, <2>2 DEF JobOk, Ptr
  <2> QED
    BY <1>0, <2>1, <2>2, <2>3, <2>4 DEF JobOk
<1>6. JobsDistinct'
  <2> SUFFICES ASSUME NEW u \in Threads, NEW v \in Threads, u # v, conf.memory, Working(u)', Working(v)'
               PROVE  job'[u].arg # job'[v].arg
    BY <1>0 DEF JobsDistinct
  <2>1. CASE u # t /\ v # t
    <3>1. Working(u) /\ Working(v) /\ job'[u] = job[u] /\ job'[v] = job[v]
      BY <1>3, <2>1
    <3> QED
      BY <3>1 DEF Iteration, JobsDistinct
  <2>2. CASE u = t
    BY <1>3, <2>2
  <2>3. CASE v = t
    BY <1>3, <2>3
  <2> QED
    BY <2>1, <2>2, <2>3
<1>7. (conf.words * Untaken + Debt + mb_stop = Outstanding)'
  <2>1. Debt' = Debt - Owed[t] + Owed'[t]
    BY <1>0, DebtStep
  <2>2. Outstanding' = Outstanding
    BY <1>0 DEF Outstanding
  <2>3. conf.words * Untaken + Debt + mb_stop = Outstanding
    BY DEF Iteration
  <2>4. Owed'[t] \in Int /\ mb_stop' \in Nat /\ Untaken' \in Int
    <3>1. Len(got'[t]) \in Nat
      BY <1>0 DEF Typed, ThreadsTyped
    <3>2. Owed'[t] \in Int
      BY <1>0, <1>1, <3>1 DEF Owed
    <3> QED
      BY <1>2, <3>2 DEF Typed, MainTyped
  <2>5. CASE conf.words = 1
    <3>1. conf'.words = 1 /\ Untaken \in Int
      BY <1>0, <1>2, <2>5
    <3>2. 1 * Untaken' = Untaken' /\ 1 * Untaken = Untaken
      BY <2>4, <3>1
    <3> QED
      BY <1>2, <2>1, <2>2, <2>3, <2>4, <2>5, <3>1, <3>2
  <2>6. CASE conf.words = 2
    <3>1. conf'.words = 2 /\ Untaken \in Int
      BY <1>0, <1>2, <2>6
    <3>2. 2 * Untaken' = Untaken' + Untaken' /\ 2 * Untaken = Untaken + Untaken
      BY <2>4, <3>1
    <3> QED
      BY <1>2, <2>1, <2>2, <2>3, <2>4, <2>6, <3>1, <3>2
  <2> QED
    BY <1>1, <2>5, <2>6
<1>8. QED
  BY <1>0, <1>4, <1>5, <1>6, <1>7 DEF Iteration

(* Steps that leave mb_start and what main has to put alone. *)
LEMMA WordsKept ==
  ASSUME Typed, [Next]_vars, WordsInOrder, UNCHANGED <<mb_start, toPut>>
  PROVE  WordsInOrder' /\ Pending' = Pending /\ Untaken' = Untaken
<1>1. Plain' = Plain /\ simulation_steps' = simulation_steps /\ AllSteps' = AllSteps /\ Total' = Total
  BY ConfKept
<1>2. Pending' = Pending
  BY DEF Pending
<1>3. Untaken' = Untaken
  BY <1>1, <1>2 DEF Untaken
<1>4. WordsInOrder'
  BY <1>1, <1>2 DEF WordsInOrder
<1>5. QED
  BY <1>2, <1>3, <1>4

(* A thread takes the next word. *)
LEMMA TakeWord ==
  ASSUME Typed, [Next]_vars, WordsInOrder, mb_start # <<>>, mb_start' = Tail(mb_start), toPut' = toPut
  PROVE  /\ WordsInOrder' /\ Pending' = Pending - 1
         /\ Pending >= 1 /\ Pending <= Total
         /\ Head(mb_start) = AllSteps[Total - Pending + 1]
<1>1. AllSteps' = AllSteps /\ Total' = Total
  BY ConfKept
<1>2. Total \in Nat
  BY StepWords DEF Typed
<1>3. mb_start \in Seq(Word) /\ toPut \in Seq(Word)
  BY DEF Typed, MainTyped
<1>4. PICK m \in Nat, n \in Nat : m = Len(mb_start) /\ n = Len(toPut) /\ m >= 1
  BY <1>3
<1>5. /\ Len(mb_start') = m - 1 /\ Len(toPut') = n
      /\ \A k \in 1..(m - 1) : mb_start'[k] = mb_start[k + 1]
      /\ Head(mb_start) = mb_start[1]
  BY <1>3, <1>4
<1>6. Pending = m + n /\ Pending' = m - 1 + n
  BY <1>4, <1>5 DEF Pending
<1>7. /\ m + n <= Total
      /\ \A k \in 1..m : mb_start[k] = AllSteps[Total - (m + n) + k]
      /\ \A k \in 1..n : toPut[k] = AllSteps[Total - n + k]
  BY <1>4, <1>6 DEF WordsInOrder
<1>8. \A k \in 1..(m - 1) : mb_start'[k] = AllSteps[Total - (m - 1 + n) + k]
  <2> SUFFICES ASSUME NEW k \in 1..(m - 1) PROVE mb_start'[k] = AllSteps[Total - (m - 1 + n) + k]
    OBVIOUS
  <2>1. k + 1 \in 1..m /\ Total - (m + n) + (k + 1) = Total - (m - 1 + n) + k
    BY <1>2
  <2>2. mb_start[k + 1] = AllSteps[Total - (m + n) + (k + 1)]
    BY <1>7, <2>1
  <2> QED
    BY <1>5, <2>1, <2>2
<1>9. WordsInOrder'
  <2>1. m - 1 + n <= Total
    BY <1>2, <1>7
  <2>2. toPut' = toPut
    OBVIOUS
  <2> QED
    BY <1>1, <1>5, <1>6, <1>7, <1>8, <2>1, <2>2 DEF WordsInOrder
<1>10. Head(mb_start) = AllSteps[Total - (m + n) + 1]
  BY <1>4, <1>5, <1>7
<1>11. QED
  BY <1>4, <1>6, <1>7, <1>9, <1>10

(* The step of a thread that is working or acknowledging. *)
LEMMA BusyStep ==
  ASSUME Typed, Typed', [Next]_vars, Iteration, NEW t \in Threads, Busy(t),
         UNCHANGED <<phase, left, toPut, mb_start, job>>,
         \A u \in Threads \ {t} : state'[u] = state[u] /\ got'[u] = got[u] /\ count'[u] = count[u],
         Working(t)' => Working(t),
         Busy(t)' \/ (state'[t] = "GET_ADDR" /\ got'[t] = <<>>),
         t[1] = "hw" => state'[t] # "CALC" /\ got'[t] = <<>> /\ (count[t] = 0 => count'[t] = 0),
         t[1] = "sw" => /\ state'[t] \notin {"READ", "STARTING", "WRITE"}
                        /\ (state'[t] = "CALC" => got'[t] = <<>>)
                        /\ (state'[t] = "ACK" => Len(got'[t]) \in 1..conf.words),
         mb_stop' + Owed'[t] = mb_stop + Owed[t]
  PROVE  Iteration'
<1>0. /\ conf' = conf /\ simulation_steps' = simulation_steps
      /\ Plain' = Plain /\ Double' = Double /\ Iterating' = Iterating
      /\ \A b : Ptr(b)' = Ptr(b)
  BY ConfKept
<1>1. WordsInOrder' /\ Pending' = Pending /\ Untaken' = Untaken
  BY WordsKept DEF Iteration
<1>2. PartsReceived(t) /\ JobOk(t)
  BY DEF Iteration
<1>3. state'[t] \notin {"READ_ITERATIONS", "THREAD_EXIT"}
  BY DEF Busy, Working, WorkingStates
<1>4. t[1] \in {"hw", "sw"} /\ (Iterating => t[1] = "hw") /\ (Double => t[1] = "sw")
  <2>1. t[1] \in {"hw", "sw"} /\ (Iterating => t[1] = "hw") /\ (t[1] = "hw" => conf.hw > 0)
    BY ThreadFacts DEF Typed
  <2>2. Double => conf.hw = 0
    BY ConfFacts DEF Typed
  <2> QED
    BY <2>1, <2>2
<1>5. PartsReceived(t)'
  <2>1. /\ Plain => /\ state'[t] # "READ_ITERATIONS"
                    /\ state'[t] = "GET_ADDR" => got'[t] = <<>>
                    /\ t[1] = "hw" => count'[t] = 0
    BY <1>2, <1>3 DEF PartsReceived, Busy, Working, WorkingStates
  <2>2. Double => /\ state'[t] # "READ_ITERATIONS" /\ Pending = 0
                  /\ state'[t] = "GET_ADDR" => got'[t] = <<>>
    BY <1>2, <1>3 DEF PartsReceived, Busy, Working, WorkingStates
  <2>3. Iterating => state'[t] # "READ_ITERATIONS" /\ Pending = 0 /\ got'[t] = <<>>
    BY <1>2, <1>3, <1>4 DEF PartsReceived
  <2> QED
    BY <1>0, <1>1, <2>1, <2>2, <2>3 DEF PartsReceived
<1>6. JobOk(t)'
  <2>1. job[t] = Ptr(job[t].arg) /\ (conf.memory => job[t].arg \in 1..(simulation_steps - Untaken))
    BY <1>2 DEF JobOk
  <2>2. job'[t] = Ptr(job[t].arg)'
    BY <1>0, <2>1 DEF Ptr
  <2> QED
    BY <1>0, <1>1, <1>3, <1>4, <2>1, <2>2 DEF JobOk
<1>7. \A u \in Threads \ {t} : conf.memory /\ Working(u) /\ Working(t)' => job'[t].arg # job[u].arg
  BY DEF Iteration, JobsDistinct
<1>8. QED
  BY <1>1, <1>5, <1>6, <1>7, ThreadStep

(* The steps of a busy thread. *)
LEMMA BusyActions ==
  ASSUME Typed, Typed', [Next]_vars, Protocol, NEW t \in Threads,
         SwCalculate(t) \/ SwEnd(t) \/ SwAck(t) \/ HwRead(t) \/ HwEval(t) \/ HwWrite(t) \/ HwAck(t)
  PROVE  Protocol'
<1>0. Busy(t) /\ (t[1] = "sw" \/ t[1] = "hw")
  BY DEF SwCalculate, SwEnd, SwAck, HwRead, HwEval, HwWrite, HwAck, Busy, Working, WorkingStates
<1>1. phase \in {"put", "wait"} /\ Iteration
  BY <1>0, BusyFacts
<1>2. JobOk(t)
  BY <1>1 DEF Iteration
<1>3. conf' = conf /\ Threads' = Threads
  BY ConfKept
<1>4. /\ state \in [Threads -> States] /\ got \in [Threads -> Seq(Word)] /\ count \in [Threads -> Int]
      /\ mb_stop \in Nat
  BY DEF Typed, ThreadsTyped, MainTyped
<1>5. conf.words \in {1, 2} /\ (t[1] = "hw" => conf.words = 1)
  BY ConfFacts, ThreadFacts DEF Typed
<1>6. Owed[t] = IF Working(t) THEN conf.words
                ELSE IF state[t] # "ACK" THEN 0
                ELSE IF t[1] = "hw" THEN 1 ELSE Len(got[t])
  BY DEF Owed
<1>7. Owed'[t] = IF Working(t)' THEN conf.words
                 ELSE IF state'[t] # "ACK" THEN 0
                 ELSE IF t[1] = "hw" THEN 1 ELSE Len(got'[t])
  BY <1>3 DEF Owed
<1>8. Iteration'
  <2>1. CASE SwCalculate(t)
    <3>1. /\ state' = state /\ got' = got /\ mb_stop' = mb_stop /\ count' = [count EXCEPT ![t] = @ - 1]
          /\ UNCHANGED <<phase, left, toPut, mb_start, job>> /\ t[1] = "sw" /\ state[t] = "CALC"
      BY <2>1 DEF SwCalculate, mainVars
    <3>2. got[t] = <<>>
      BY <1>2, <3>1 DEF JobOk
    <3>3. Working(t) /\ Working(t)' /\ Busy(t)'
      BY <3>1 DEF Working, Busy, WorkingStates
    <3> QED
      BY <1>0, <1>1, <1>4, <1>5, <1>6, <1>7, <3>1, <3>2, <3>3, BusyStep
  <2>2. CASE SwEnd(t)
    <3>1. /\ state' = [state EXCEPT ![t] = "ACK"] /\ got' = [got EXCEPT ![t] = Pointer(job[t])]
          /\ count' = count /\ mb_stop' = mb_stop
          /\ UNCHANGED <<phase, left, toPut, mb_start, job>> /\ t[1] = "sw" /\ state[t] = "CALC"
      BY <2>2 DEF SwEnd, mainVars
    <3>2. Len(Pointer(job[t])) = conf.words
      <4>1. PICK n \in Nat, p \in Word : n = conf.words /\ p = job[t]
        BY <1>5 DEF Typed, ThreadsTyped
      <4>2. Len([k \in 1..n |-> p]) = n
        OBVIOUS
      <4> QED
        BY <4>1, <4>2 DEF Pointer
    <3>3. state'[t] = "ACK" /\ Len(got'[t]) = conf.words
      BY <1>4, <3>1, <3>2
    <3>4. Working(t) /\ ~ Working(t)' /\ Busy(t)'
      BY <3>1, <3>3 DEF Working, Busy, WorkingStates
    <3> QED
      BY <1>0, <1>1, <1>4, <1>5, <1>6, <1>7, <3>1, <3>3, <3>4, BusyStep
  <2>3. CASE SwAck(t)
    <3>1. /\ got' = [got EXCEPT ![t] = Tail(@)]
          /\ state' = IF got'[t] = <<>> THEN [state EXCEPT ![t] = "GET_ADDR"] ELSE state
          /\ count' = count /\ mb_stop' = mb_stop + 1
          /\ UNCHANGED <<phase, left, toPut, mb_start, job>> /\ t[1] = "sw" /\ state[t] = "ACK"
      BY <2>3 DEF SwAck, mainVars
    <3>2. Len(got[t]) \in 1..conf.words
      BY <1>2, <3>1 DEF JobOk
    <3>3. got'[t] = Tail(got[t]) /\ got[t] \in Seq(Word) /\ got[t] # <<>>
      BY <1>4, <1>5, <3>1, <3>2
    <3>4. Len(got'[t]) = Len(got[t]) - 1 /\ got'[t] \in Seq(Word)
      BY <3>3
    <3>5. ~ Working(t) /\ ~ Working(t)'
      BY <1>4, <3>1 DEF Working, WorkingStates
    <3>6. got'[t] = <<>> <=> Len(got'[t]) = 0
      <4>1. \A s \in Seq(Word) : s = <<>> <=> Len(s) = 0
        OBVIOUS
      <4> QED
        BY <3>4, <4>1
    <3>7. CASE got'[t] = <<>>
      <4>1. state'[t] = "GET_ADDR" /\ \A u \in Threads \ {t} : state'[u] = state[u]
        BY <1>4, <3>1, <3>7
      <4>2. Owed[t] = 1 /\ Owed'[t] = 0
        BY <1>6, <1>7, <3>1, <3>2, <3>4, <3>5, <3>6, <3>7, <4>1, <1>5
      <4>3. \A u \in Threads \ {t} : got'[u] = got[u] /\ count'[u] = count[u]
        BY <1>4, <3>1
      <4>4. mb_stop' + Owed'[t] = mb_stop + Owed[t]
        BY <1>4, <3>1, <4>2
      <4>5. UNCHANGED <<phase, left, toPut, mb_start, job>> /\ t[1] = "sw"
        BY <3>1
      <4> QED
        BY <1>0, <1>1, <3>5, <3>7, <4>1, <4>3, <4>4, <4>5, BusyStep
    <3>8. CASE got'[t] # <<>>
      <4>1. state' = state
        BY <3>1, <3>8
      <4>2. Owed'[t] = Owed[t] - 1 /\ Owed[t] \in Int
        BY <1>6, <1>7, <3>1, <3>2, <3>4, <3>5, <4>1, <1>5
      <4>3. \A u \in Threads \ {t} : got'[u] = got[u] /\ count'[u] = count[u]
        BY <1>4, <3>1
      <4>4. Len(got'[t]) \in 1..conf.words /\ Busy(t)'
        BY <1>5, <3>1, <3>2, <3>4, <3>6, <3>8, <4>1 DEF Busy
      <4>5. mb_stop' + Owed'[t] = mb_stop + Owed[t]
        BY <1>4, <3>1, <4>2
      <4>6. UNCHANGED <<phase, left, toPut, mb_start, job>> /\ t[1] = "sw" /\ state'[t] = "ACK"
        BY <3>1, <4>1
      <4> QED
        BY <1>0, <1>1, <3>5, <4>1, <4>3, <4>4, <4>5, <4>6, BusyStep
    <3> QED
      BY <3>7, <3>8
  <2>4. CASE HwRead(t) \/ HwEval(t)
    <3>1. /\ got' = got /\ count' = count /\ mb_stop' = mb_stop
          /\ state' = [state EXCEPT ![t] = "STARTING"] \/ state' = [state EXCEPT ![t] = "WRITE"]
          /\ UNCHANGED <<phase, left, toPut, mb_start, job>> /\ t[1] = "hw"
          /\ state[t] \in {"READ", "STARTING"}
      BY <2>4 DEF HwRead, HwEval, mainVars
    <3>2. state'[t] \in {"STARTING", "WRITE"} /\ \A u \in Threads \ {t} : state'[u] = state[u]
      BY <1>4, <3>1
    <3>3. Working(t) /\ Working(t)' /\ Busy(t)'
      BY <3>1, <3>2 DEF Working, Busy, WorkingStates
    <3>4. got[t] = <<>>
      BY <1>2, <3>1 DEF JobOk
    <3> QED
      BY <1>0, <1>1, <1>4, <1>6, <1>7, <3>1, <3>2, <3>3, <3>4, BusyStep
  <2>5. CASE HwWrite(t)
    <3>1. /\ got' = got /\ mb_stop' = mb_stop
          /\ UNCHANGED <<phase, left, toPut, mb_start, job>> /\ t[1] = "hw" /\ state[t] = "WRITE"
          /\ state' = [state EXCEPT ![t] = "ACK"] \/ state' = [state EXCEPT ![t] = "READ"]
          /\ count' = count \/ count' = [count EXCEPT ![t] = IF @ = 0 THEN @ ELSE @ - 1]
      BY <2>5 DEF HwWrite, mainVars
    <3>2. /\ state'[t] \in {"ACK", "READ"} /\ \A u \in Threads \ {t} : state'[u] = state[u]
          /\ count[t] = 0 => count'[t] = 0
          /\ \A u \in Threads \ {t} : count'[u] = count[u]
      BY <1>4, <3>1
    <3>3. Working(t) /\ Busy(t)'
      BY <3>1, <3>2 DEF Working, Busy, WorkingStates
    <3>4. got[t] = <<>>
      BY <1>2, <3>1 DEF JobOk
    <3>5. Owed[t] = 1 /\ Owed'[t] = 1
      BY <1>5, <1>6, <1>7, <3>1, <3>2, <3>3 DEF Busy
    <3> QED
      BY <1>0, <1>1, <1>4, <3>1, <3>2, <3>3, <3>4, <3>5, BusyStep
  <2>6. CASE HwAck(t)
    <3>1. /\ got' = got /\ count' = count /\ mb_stop' = mb_stop + 1
          /\ state' = [state EXCEPT ![t] = "GET_ADDR"]
          /\ UNCHANGED <<phase, left, toPut, mb_start, job>> /\ t[1] = "hw" /\ state[t] = "ACK"
      BY <2>6 DEF HwAck, mainVars
    <3>2. state'[t] = "GET_ADDR" /\ \A u \in Threads \ {t} : state'[u] = state[u]
      BY <1>4, <3>1
    <3>3. ~ Working(t) /\ ~ Working(t)'
      BY <3>1, <3>2 DEF Working, WorkingStates
    <3>4. got[t] = <<>>
      BY <1>2, <3>1 DEF JobOk
    <3>5. Owed[t] = 1 /\ Owed'[t] = 0
      BY <1>6, <1>7, <3>1, <3>2, <3>3
    <3> QED
      BY <1>0, <1>1, <1>4, <3>1, <3>2, <3>3, <3>4, <3>5, BusyStep
  <2> QED
    BY <2>1, <2>2, <2>3, <2>4, <2>5, <2>6
<1>9. phase' = phase
  BY DEF SwCalculate, SwEnd, SwAck, HwRead, HwEval, HwWrite, HwAck, mainVars
<1>10. QED
  BY <1>1, <1>8, <1>9 DEF Protocol

(* The word a thread takes next. *)
LEMMA NextWord ==
  ASSUME Typed, WordsInOrder, NEW t \in Threads, Pending >= 1
  PROVE  /\ Plain \/ Pending = 1 =>
              /\ Untaken \in 1..simulation_steps
              /\ AllSteps[Total - Pending + 1] = Ptr(simulation_steps - Untaken + 1)
         /\ ~ Plain => simulation_steps = 1 /\ Untaken = 1 /\ \A u \in Threads : u = t
         /\ Double => Pending \in 1..2 /\ AllSteps[Total - Pending + 1] = Ptr(1)
         /\ Iterating => /\ Pending \in 1..3
                         /\ Pending = 3 => AllSteps[Total - Pending + 1] = SET_ITERATIONS
                         /\ Pending = 2 => AllSteps[Total - Pending + 1] = Number(conf.inThread)
<1>1. /\ simulation_steps \in Nat /\ conf.words \in {1, 2}
      /\ Plain \/ Double \/ Iterating
      /\ Double => simulation_steps <= 1 /\ ~ Plain /\ ~ Iterating
      /\ Iterating => simulation_steps = 1 /\ ~ Plain /\ ~ Double
      /\ Plain => ~ Double /\ ~ Iterating
  BY ConfFacts DEF Typed
<1>2. /\ Total \in Nat
      /\ Plain => Total = simulation_steps /\ \A k \in 1..Total : AllSteps[k] = Ptr(k)
      /\ Double => /\ Total = 2 * simulation_steps
                   /\ \A k \in 1..Total : AllSteps[k] = Ptr(1)
      /\ Iterating => /\ Total = 3
                      /\ AllSteps[1] = SET_ITERATIONS
                      /\ AllSteps[2] = Number(conf.inThread)
                      /\ AllSteps[3] = Ptr(1)
  BY StepWords DEF Typed
<1>3. Pending \in Nat /\ Pending <= Total
  BY ProtocolNumbers DEF WordsInOrder
<1>4. simulation_steps >= 1 /\ (simulation_steps <= 1 => \A u \in Threads : u = t)
  BY <1>1, ThreadFacts DEF Typed
<1>5. CASE Plain
  <2>1. Untaken = Pending /\ Total - Pending + 1 \in 1..Total
    BY <1>2, <1>3, <1>5 DEF Untaken
  <2>2. AllSteps[Total - Pending + 1] = Ptr(Total - Pending + 1)
    BY <1>2, <1>5, <2>1
  <2> QED
    BY <1>1, <1>2, <1>3, <1>5, <2>1, <2>2
<1>6. CASE Double
  <2>1. simulation_steps = 1 /\ Total = 2 /\ Untaken = 1
    BY <1>1, <1>2, <1>3, <1>4, <1>6 DEF Untaken
  <2>2. Pending \in 1..2 /\ AllSteps[Total - Pending + 1] = Ptr(1)
    BY <1>2, <1>3, <1>6, <2>1
  <2>3. simulation_steps - Untaken + 1 = 1
    BY <2>1
  <2> QED
    BY <1>1, <1>4, <1>6, <2>1, <2>2, <2>3
<1>7. CASE Iterating
  <2>1. simulation_steps = 1 /\ Total = 3 /\ Untaken = 1
    BY <1>1, <1>2, <1>3, <1>7 DEF Untaken
  <2>2. /\ Pending \in 1..3
        /\ Pending = 3 => Total - Pending + 1 = 1
        /\ Pending = 2 => Total - Pending + 1 = 2
        /\ Pending = 1 => Total - Pending + 1 = 3
        /\ simulation_steps - Untaken + 1 = 1
    BY <1>3, <2>1
  <2> QED
    BY <1>1, <1>2, <1>4, <1>7, <2>1, <2>2
<1>8. QED
  BY <1>1, <1>5, <1>6, <1>7

(* A thread has received a pointer and starts to work on it. *)
LEMMA Deliver ==
  ASSUME Typed, Typed', [Next]_vars, Iteration, NEW t \in Threads,
         state[t] = "GET_ADDR", mb_start # <<>>, mb_start' = Tail(mb_start),
         UNCHANGED <<phase, left, toPut, mb_stop>>,
         \A u \in Threads \ {t} : /\ state'[u] = state[u] /\ got'[u] = got[u]
                                  /\ job'[u] = job[u] /\ count'[u] = count[u],
         Plain \/ Pending = 1,
         job'[t] = Ptr(simulation_steps - Untaken + 1), got'[t] = <<>>,
         state'[t] = (IF t[1] = "hw" THEN "READ" ELSE "CALC"),
         t[1] = "hw" => count'[t] = count[t]
  PROVE  Iteration' /\ Untaken' = Untaken - 1
<1>0. /\ conf' = conf /\ Threads' = Threads /\ simulation_steps' = simulation_steps
      /\ Plain' = Plain /\ Double' = Double /\ Iterating' = Iterating
  BY ConfKept
<1>1. WordsInOrder /\ PartsReceived(t) /\ JobOk(t)
  BY DEF Iteration
<1>2. WordsInOrder' /\ Pending' = Pending - 1 /\ Pending >= 1 /\ Pending \in Nat
  BY <1>1, TakeWord, ProtocolNumbers
<1>3. /\ Untaken \in 1..simulation_steps /\ simulation_steps \in Nat
      /\ ~ Plain => simulation_steps = 1 /\ Untaken = 1 /\ \A u \in Threads : u = t
  BY <1>1, <1>2, NextWord, ConfFacts DEF Typed
<1>4. Untaken' = Untaken - 1
  BY <1>0, <1>2, <1>3 DEF Untaken
<1>5. /\ t[1] \in {"hw", "sw"}
      /\ Plain => ~ Double /\ ~ Iterating
  BY ThreadFacts, ConfFacts DEF Typed
<1>6. PartsReceived(t)'
  <2>1. Plain => (t[1] = "hw" => count'[t] = 0)
    BY <1>1 DEF PartsReceived
  <2>2. ~ Plain => Pending' = 0
    BY <1>2
  <2> QED
    BY <1>0, <1>5, <2>1, <2>2 DEF PartsReceived
<1>7. conf.memory => job'[t].arg = simulation_steps - Untaken + 1 /\ job'[t] = Block(simulation_steps - Untaken + 1)
  BY DEF Ptr, Block
<1>8. JobOk(t)'
  <2>1. conf.memory => job'[t].arg \in 1..(simulation_steps - Untaken')
    BY <1>3, <1>4, <1>7
  <2>2. job'[t] = Ptr(job[t].arg)'
    BY <1>0, <1>7 DEF Ptr
  <2>3. state'[t] # "THREAD_EXIT" /\ state'[t] # "ACK"
    OBVIOUS
  <2>4. /\ t[1] = "hw" => state'[t] # "CALC"
        /\ t[1] = "sw" => state'[t] \notin {"READ", "STARTING", "WRITE"}
    OBVIOUS
  <2> QED
    BY <1>0, <2>1, <2>2, <2>3, <2>4 DEF JobOk
<1>9. \A u \in Threads \ {t} : conf.memory /\ Working(u) /\ Working(t)' => job'[t].arg # job[u].arg
  <2> SUFFICES ASSUME NEW u \in Threads \ {t}, conf.memory, Working(u) PROVE job'[t].arg # job[u].arg
    OBVIOUS
  <2>1. job[u].arg \in 1..(simulation_steps - Untaken)
    BY DEF Iteration, JobOk, Busy
  <2> QED
    BY <1>3, <1>7, <2>1
<1>10. Owed'[t] = Owed[t] + conf.words
  <2>1. Owed[t] = 0
    BY DEF Owed, Working, WorkingStates
  <2>2. Owed'[t] = conf.words
    BY <1>0 DEF Owed, Working, WorkingStates
  <2>3. conf.words \in Int
    BY ConfFacts DEF Typed
  <2> QED
    BY <2>1, <2>2, <2>3
<1>11. QED
  BY <1>2, <1>3, <1>4, <1>6, <1>8, <1>9, <1>10, ThreadStep

(* The only thread has received a part of a message. *)
LEMMA ReceivePart ==
  ASSUME Typed, Typed', [Next]_vars, Iteration, NEW t \in Threads, ~ Plain,
         state[t] \in {"GET_ADDR", "READ_ITERATIONS"}, state'[t] \in {"GET_ADDR", "READ_ITERATIONS"},
         mb_start # <<>>, mb_start' = Tail(mb_start),
         UNCHANGED <<phase, left, toPut, mb_stop>>,
         Pending # 1, PartsReceived(t)', t[1] = "hw" => got'[t] = <<>>
  PROVE  Iteration' /\ Untaken' = Untaken
<1>0. /\ conf' = conf /\ Threads' = Threads /\ simulation_steps' = simulation_steps
      /\ Plain' = Plain
  BY ConfKept
<1>1. WordsInOrder /\ JobOk(t)
  BY DEF Iteration
<1>2. WordsInOrder' /\ Pending' = Pending - 1 /\ Pending >= 1 /\ Pending \in Nat
  BY <1>1, TakeWord, ProtocolNumbers
<1>3. simulation_steps = 1 /\ Untaken = 1 /\ \A u \in Threads : u = t
  BY <1>1, <1>2, NextWord
<1>4. Untaken' = Untaken
  BY <1>0, <1>2, <1>3 DEF Untaken
<1>5. JobOk(t)'
  BY <1>0 DEF JobOk, Busy, Working, WorkingStates
<1>6. Owed'[t] = 0 /\ Owed[t] = 0
  BY <1>0 DEF Owed, Working, WorkingStates
<1>7. \A u \in Threads \ {t} : /\ state'[u] = state[u] /\ got'[u] = got[u]
                               /\ job'[u] = job[u] /\ count'[u] = count[u]
  BY <1>3
<1>8. \A u \in Threads \ {t} : conf.memory /\ Working(u) /\ Working(t)' => job'[t].arg # job[u].arg
  BY <1>3
<1>9. mb_stop' + Owed'[t] = mb_stop + Owed[t]
  BY <1>6
<1>10. QED
  BY <1>2, <1>3, <1>4, <1>5, <1>7, <1>8, <1>9, ThreadStep

(* What main sends for a step is neither an exit nor SET_ITERATIONS. *)
LEMMA PtrFacts ==
  \A b : Ptr(b) # THREAD_EXIT /\ Ptr(b) # SET_ITERATIONS
BY DEF Ptr, Block, WITHOUT_MEMORY, THREAD_EXIT, SET_ITERATIONS

(* The steps of a thread that takes a word during an iteration. *)
LEMMA TakeActions ==
  ASSUME Typed, Typed', [Next]_vars, Iteration, NEW t \in Threads,
         SwGetPointer(t) \/ HwGetAddr(t) \/ HwReadIterations(t)
  PROVE  /\ Iteration'
         /\ Untaken' = Untaken \/ Untaken' = Untaken - 1
         /\ Untaken' = Untaken => ~ Working(t)'
         /\ Untaken' = Untaken - 1 =>
              /\ Untaken \in 1..simulation_steps /\ Working(t)'
              /\ job'[t] = Ptr(simulation_steps - Untaken + 1)
              /\ t[1] = "sw" => count'[t] = conf.inThread
              /\ t[1] = "hw" => /\ count'[t] = (IF Iterating THEN conf.inThread - 1 ELSE 0)
                                /\ state'[t] = "READ"
<1>0. /\ conf' = conf /\ Threads' = Threads /\ Plain' = Plain /\ Double' = Double /\ Iterating' = Iterating
      /\ \A b : Ptr(b)' = Ptr(b)
  BY ConfKept
<1>1. WordsInOrder /\ PartsReceived(t) /\ JobOk(t)
  BY DEF Iteration
<1>2. mb_start # <<>> /\ mb_start' = Tail(mb_start) /\ UNCHANGED <<phase, left, toPut, mb_stop>>
  BY DEF SwGetPointer, HwGetAddr, HwReadIterations, mainVars
<1>3. WordsInOrder' /\ Pending' = Pending - 1 /\ Pending >= 1 /\ Pending \in Nat
      /\ Head(mb_start) = AllSteps[Total - Pending + 1]
  BY <1>1, <1>2, TakeWord, ProtocolNumbers
<1>4. /\ Plain \/ Pending = 1 =>
           /\ Untaken \in 1..simulation_steps
           /\ Head(mb_start) = Ptr(simulation_steps - Untaken + 1)
      /\ ~ Plain => simulation_steps = 1 /\ Untaken = 1 /\ \A u \in Threads : u = t
      /\ Double => Pending \in 1..2 /\ Head(mb_start) = Ptr(1)
      /\ Iterating => /\ Pending \in 1..3
                      /\ Pending = 3 => Head(mb_start) = SET_ITERATIONS
                      /\ Pending = 2 => Head(mb_start) = Number(conf.inThread)
  BY <1>1, <1>3, NextWord
<1>5. /\ Plain \/ Double \/ Iterating
      /\ Double => conf.hw = 0 /\ ~ Plain /\ ~ Iterating /\ conf.words = 2
      /\ Iterating => conf.hw = 1 /\ conf.sw = 0 /\ ~ Plain /\ ~ Double
      /\ Plain => conf.words = 1 /\ ~ Double /\ ~ Iterating
      /\ conf.inThread \in Nat
  BY ConfFacts DEF Typed, Double
<1>6. /\ t[1] \in {"hw", "sw"} /\ (t[1] = "hw" => conf.hw > 0) /\ (Iterating => t[1] = "hw")
  BY ThreadFacts DEF Typed
<1>7. /\ state \in [Threads -> States] /\ got \in [Threads -> Seq(Word)] /\ count \in [Threads -> Int]
      /\ job \in [Threads -> Word]
  BY DEF Typed, ThreadsTyped
<1>8. Untaken \in Nat /\ simulation_steps \in Nat
  BY ProtocolNumbers, ConfFacts DEF Typed
<1>9. CASE SwGetPointer(t)
  <2> DEFINE words == Append(got[t], Head(mb_start))
             p == IF \A k \in DOMAIN words : words[k] = words[1] THEN words[1] ELSE Wild
  <2>1. /\ t[1] = "sw" /\ state[t] = "GET_ADDR"
        /\ IF Len(words) < conf.words
           THEN got' = [got EXCEPT ![t] = words] /\ UNCHANGED <<state, job, count>>
           ELSE /\ got' = [got EXCEPT ![t] = <<>>]
                /\ job' = [job EXCEPT ![t] = p]
                /\ count' = [count EXCEPT ![t] = conf.inThread]
                /\ state' = [state EXCEPT ![t] = IF p = THREAD_EXIT THEN "THREAD_EXIT" ELSE "CALC"]
    BY <1>9 DEF SwGetPointer
  <2>2. Plain \/ Double
    BY <1>5, <1>6, <2>1
  <2>3. got[t] \in Seq(Word) /\ Head(mb_start) \in Word
    BY <1>2, <1>7 DEF Typed, MainTyped
  <2>4. /\ words \in Seq(Word) /\ Len(words) = Len(got[t]) + 1
        /\ words[Len(got[t]) + 1] = Head(mb_start)
        /\ \A k \in 1..Len(got[t]) : words[k] = got[t][k]
    BY <2>3
  <2>5. DOMAIN words = 1..Len(words)
    BY <2>4
  <2> HIDE DEF words
  <2>6. CASE Double /\ Pending = 2
    <3>1. Len(got[t]) = 0
      BY <1>1, <2>1, <2>6 DEF PartsReceived
    <3>2. Len(words) = 1 /\ words[1] = Ptr(1)
      BY <1>4, <2>4, <2>6, <3>1
    <3>3. got' = [got EXCEPT ![t] = words] /\ UNCHANGED <<state, job, count>>
      BY <1>5, <2>1, <2>6, <3>2
    <3>4. got'[t] = words /\ state'[t] = "GET_ADDR"
      BY <1>7, <2>1, <3>3
    <3>5. Pending' = 1
      BY <1>3, <2>6
    <3>6. PartsReceived(t)'
      <4>1. ~ Plain /\ Double /\ ~ Iterating
        BY <1>5, <2>6
      <4>2. ~ Busy(t)'
        BY <3>4 DEF Busy, Working, WorkingStates
      <4>3. Len(got'[t]) = 1 /\ got'[t][1] = Ptr(1)'
        BY <1>0, <3>2, <3>4
      <4> QED
        BY <1>0, <3>4, <3>5, <4>1, <4>2, <4>3 DEF PartsReceived
    <3>7. ~ Plain /\ Pending # 1 /\ t[1] # "hw"
      BY <1>5, <2>1, <2>6
    <3>8. Iteration' /\ Untaken' = Untaken
      BY <1>2, <2>1, <3>4, <3>6, <3>7, ReceivePart
    <3>9. ~ Working(t)'
      BY <3>4 DEF Working, WorkingStates
    <3> QED
      BY <1>8, <3>8, <3>9
  <2>7. CASE Plain \/ Pending = 1
    <3> DEFINE q == Ptr(simulation_steps - Untaken + 1)
    <3>1. /\ Len(words) = conf.words
          /\ \A k \in 1..Len(words) : words[k] = q
      <4>1. CASE Plain
        <5>1. Len(got[t]) = 0 /\ conf.words = 1
          BY <1>1, <1>5, <2>1, <4>1 DEF PartsReceived
        <5>2. Len(words) = 1 /\ words[1] = q
          BY <1>4, <2>4, <4>1, <5>1
        <5> HIDE DEF q
        <5> QED
          BY <5>1, <5>2
      <4>2. CASE Double
        <5>1. Pending = 1 /\ conf.words = 2
          BY <1>5, <2>7, <4>2
        <5>2. Len(got[t]) = 1 /\ got[t][1] = Ptr(1)
          BY <1>1, <2>1, <4>2, <5>1 DEF PartsReceived
        <5>3. Len(words) = 2 /\ words[2] = Ptr(1) /\ words[1] = Ptr(1)
          BY <1>4, <2>4, <4>2, <5>2
        <5>4. simulation_steps - Untaken + 1 = 1
          BY <1>4, <1>5, <4>2
        <5> HIDE DEF words
        <5> QED
          BY <5>1, <5>3, <5>4
      <4> QED
        BY <2>2, <4>1, <4>2
    <3>2. conf.words \in {1, 2}
      BY ConfFacts DEF Typed
    <3> HIDE DEF q
    <3>3. p = q
      BY <2>5, <3>1, <3>2
    <3>4. q # THREAD_EXIT
      BY PtrFacts DEF q
    <3> HIDE DEF p
    <3>5. ~ (Len(words) < conf.words)
      BY <3>1, <3>2
    <3>6. /\ got' = [got EXCEPT ![t] = <<>>] /\ job' = [job EXCEPT ![t] = q]
          /\ count' = [count EXCEPT ![t] = conf.inThread]
          /\ state' = [state EXCEPT ![t] = "CALC"]
      BY <2>1, <3>3, <3>4, <3>5
    <3>7. /\ got'[t] = <<>> /\ job'[t] = q /\ state'[t] = "CALC" /\ count'[t] = conf.inThread
          /\ \A u \in Threads \ {t} : /\ state'[u] = state[u] /\ got'[u] = got[u]
                                      /\ job'[u] = job[u] /\ count'[u] = count[u]
      BY <1>7, <3>6
    <3>8. Iteration' /\ Untaken' = Untaken - 1
      BY <1>2, <2>1, <2>7, <3>7, Deliver DEF q
    <3>9. Working(t)'
      BY <3>7 DEF Working, WorkingStates
    <3>10. job'[t] = Ptr(simulation_steps - Untaken + 1)
      BY <3>7 DEF q
    <3> QED
      BY <1>4, <1>8, <2>1, <2>7, <3>7, <3>8, <3>9, <3>10
  <2> QED
    BY <1>3, <1>4, <2>2, <2>6, <2>7
<1>10. CASE HwGetAddr(t)
  <2>1. /\ t[1] = "hw" /\ state[t] = "GET_ADDR"
        /\ job' = [job EXCEPT ![t] = Head(mb_start)]
        /\ UNCHANGED <<got, count>>
    BY <1>10 DEF HwGetAddr
  <2>2. Plain \/ Iterating
    BY <1>5, <1>6, <2>1
  <2>3. got[t] = <<>>
    BY <1>1, <2>1 DEF JobOk
  <2>4. CASE Plain \/ Pending = 1
    <3> DEFINE q == Ptr(simulation_steps - Untaken + 1)
    <3>1. Head(mb_start) = q
      BY <1>4, <2>4
    <3>2. q # THREAD_EXIT /\ q # SET_ITERATIONS
      BY PtrFacts
    <3> HIDE DEF q
    <3>3. state' = [state EXCEPT ![t] = "READ"]
      BY <1>10, <3>1, <3>2 DEF HwGetAddr
    <3>4. /\ job'[t] = q /\ state'[t] = "READ" /\ count'[t] = count[t] /\ got'[t] = <<>>
          /\ \A u \in Threads \ {t} : /\ state'[u] = state[u] /\ got'[u] = got[u]
                                      /\ job'[u] = job[u] /\ count'[u] = count[u]
      BY <1>7, <2>1, <2>3, <3>1, <3>3
    <3>5. Iteration' /\ Untaken' = Untaken - 1
      BY <1>2, <2>1, <2>4, <3>4, Deliver DEF q
    <3>6. Working(t)'
      BY <3>4 DEF Working, WorkingStates
    <3>7. count'[t] = IF Iterating THEN conf.inThread - 1 ELSE 0
      BY <1>1, <1>5, <2>1, <2>2, <2>4, <3>4 DEF PartsReceived
    <3>8. job'[t] = Ptr(simulation_steps - Untaken + 1)
      BY <3>4 DEF q
    <3> QED
      BY <1>4, <1>8, <2>1, <2>4, <3>4, <3>5, <3>6, <3>7, <3>8
  <2>5. CASE Iterating /\ Pending # 1
    <3>1. Pending = 3
      BY <1>1, <1>4, <2>1, <2>5 DEF PartsReceived
    <3>2. Head(mb_start) = SET_ITERATIONS /\ SET_ITERATIONS # THREAD_EXIT
      BY <1>4, <2>5, <3>1 DEF SET_ITERATIONS, THREAD_EXIT
    <3>3. state' = [state EXCEPT ![t] = "READ_ITERATIONS"]
      BY <1>10, <3>2 DEF HwGetAddr
    <3>4. state'[t] = "READ_ITERATIONS" /\ got'[t] = <<>>
      BY <1>7, <2>1, <2>3, <3>3
    <3>5. PartsReceived(t)'
      <4>1. Pending' = 2 /\ ~ Plain /\ ~ Double
        BY <1>3, <1>5, <2>5, <3>1
      <4>2. ~ Busy(t)'
        BY <3>4 DEF Busy, Working, WorkingStates
      <4> QED
        BY <1>0, <3>4, <4>1, <4>2 DEF PartsReceived
    <3>6. ~ Plain
      BY <1>5, <2>5
    <3>7. Iteration' /\ Untaken' = Untaken
      BY <1>2, <2>1, <2>5, <3>4, <3>5, <3>6, ReceivePart
    <3>8. ~ Working(t)'
      BY <3>4 DEF Working, WorkingStates
    <3> QED
      BY <1>8, <3>7, <3>8
  <2> QED
    BY <2>2, <2>4, <2>5
<1>11. CASE HwReadIterations(t)
  <2>1. /\ t[1] = "hw" /\ state[t] = "READ_ITERATIONS"
        /\ count' = [count EXCEPT ![t] = Head(mb_start).arg - 1]
        /\ state' = [state EXCEPT ![t] = "GET_ADDR"]
        /\ UNCHANGED <<got, job>>
    BY <1>11 DEF HwReadIterations
  <2>2. Iterating /\ Pending = 2 /\ got[t] = <<>> /\ ~ Plain /\ ~ Double
    BY <1>1, <1>5, <2>1 DEF PartsReceived
  <2>3. Head(mb_start).arg = conf.inThread
    BY <1>4, <2>2 DEF Number
  <2>4. state'[t] = "GET_ADDR" /\ got'[t] = <<>> /\ count'[t] = conf.inThread - 1
    BY <1>7, <2>1, <2>2, <2>3
  <2>5. PartsReceived(t)'
    <3>1. Pending' = 1
      BY <1>3, <2>2
    <3>2. ~ Busy(t)'
      BY <2>4 DEF Busy, Working, WorkingStates
    <3> QED
      BY <1>0, <2>2, <2>4, <3>1, <3>2 DEF PartsReceived
  <2>6. Iteration' /\ Untaken' = Untaken
    BY <1>2, <2>1, <2>2, <2>4, <2>5, ReceivePart
  <2>7. ~ Working(t)'
    BY <2>4 DEF Working, WorkingStates
  <2> QED
    BY <1>8, <2>6, <2>7
<1>12. QED
  BY <1>9, <1>10, <1>11

(* The end of an iteration: nothing is owed, so nobody works and nothing is *)
(* on its way.                                                              *)
LEMMA NothingOutstanding ==
  ASSUME Typed, Iteration, phase = "wait", left = 0
  PROVE  Resting /\ Untaken = 0 /\ Pending = 0 /\ \A t \in Threads : ~ Working(t)
<1>1. /\ conf.words \in {1, 2} /\ simulation_steps \in Nat
      /\ Plain \/ Double \/ Iterating
      /\ Double => simulation_steps <= 1 /\ ~ Plain /\ ~ Iterating
      /\ Iterating => simulation_steps = 1 /\ ~ Plain /\ ~ Double
      /\ Plain => conf.words = 1 /\ ~ Double /\ ~ Iterating
  BY ConfFacts DEF Typed
<1>2. /\ Pending \in Nat /\ Untaken \in Nat /\ Debt \in Int /\ Debt >= 0 /\ mb_stop \in Nat
      /\ Len(mb_start) \in Nat /\ Len(toPut) \in Nat
      /\ \A t \in Threads : Owed[t] \in Int /\ Owed[t] >= 0 /\ Debt >= Owed[t]
  BY ProtocolNumbers DEF Typed, MainTyped
<1>3. conf.words * Untaken + Debt + mb_stop = 0
  BY DEF Iteration, Outstanding
<1>4. Untaken = 0 /\ Debt = 0 /\ mb_stop = 0
  <2>1. CASE conf.words = 1
    <3>1. 1 * Untaken = Untaken
      BY <1>2
    <3> QED
      BY <1>2, <1>3, <2>1, <3>1
  <2>2. CASE conf.words = 2
    <3>1. 2 * Untaken = Untaken + Untaken
      BY <1>2
    <3> QED
      BY <1>2, <1>3, <2>2, <3>1
  <2> QED
    BY <1>1, <2>1, <2>2
<1>5. Pending = 0
  <2>1. CASE Plain
    BY <1>4, <2>1 DEF Untaken
  <2>2. CASE ~ Plain
    <3>1. Pending = 0 \/ simulation_steps = 0
      BY <1>4, <2>2 DEF Untaken
    <3>2. simulation_steps = 0 => Total = 0
      <4>1. Double => Total = 2 * simulation_steps
        BY StepWords DEF Typed
      <4> QED
        BY <1>1, <2>2, <4>1
    <3>3. Pending <= Total
      BY DEF Iteration, WordsInOrder
    <3> QED
      BY <1>2, <3>1, <3>2, <3>3
  <2> QED
    BY <2>1, <2>2
<1>6. mb_start = <<>> /\ toPut = <<>>
  <2>1. Len(mb_start) = 0
    BY <1>2, <1>5 DEF Pending
  <2>2. mb_start \in Seq(Word)
    BY DEF Typed, MainTyped
  <2>3. \A s \in Seq(Word) : Len(s) = 0 => s = <<>>
    OBVIOUS
  <2> QED
    BY <2>1, <2>2, <2>3 DEF Iteration
<1>7. ASSUME NEW t \in Threads
      PROVE  /\ state[t] = "GET_ADDR" /\ got[t] = <<>> /\ (Plain /\ t[1] = "hw" => count[t] = 0)
             /\ ~ Working(t)
  <2>1. Owed[t] = 0
    BY <1>2, <1>4
  <2>2. PartsReceived(t) /\ JobOk(t) /\ state[t] \in States
    BY DEF Iteration, Typed, ThreadsTyped
  <2>3. t[1] \in {"hw", "sw"}
    BY ThreadFacts DEF Typed
  <2>4. Owed[t] = IF Working(t) THEN conf.words
                  ELSE IF state[t] # "ACK" THEN 0
                  ELSE IF t[1] = "hw" THEN 1 ELSE Len(got[t])
    BY DEF Owed
  <2>5. ~ Working(t)
    BY <1>1, <2>1, <2>4
  <2>6. state[t] # "ACK"
    <3>1. t[1] = "sw" /\ state[t] = "ACK" => Len(got[t]) # 0
      BY <1>1, <2>2 DEF JobOk
    <3> QED
      BY <2>1, <2>3, <2>4, <2>5, <3>1
  <2>7. state[t] # "READ_ITERATIONS" /\ state[t] # "THREAD_EXIT"
    BY <1>1, <1>5, <2>2 DEF PartsReceived, JobOk
  <2>8. state[t] = "GET_ADDR"
    BY <2>2, <2>5, <2>6, <2>7 DEF States, Working, WorkingStates
  <2>9. got[t] = <<>> /\ (Plain /\ t[1] = "hw" => count[t] = 0)
    BY <1>1, <1>5, <2>2, <2>8 DEF PartsReceived
  <2> QED
    BY <2>5, <2>8, <2>9
<1>8. QED
  BY <1>4, <1>5, <1>6, <1>7 DEF Resting

(* The first word of an iteration is on its way, and no thread has any. *)
LEMMA IterationStarts ==
  ASSUME Typed, Resting, [Next]_vars, StartIteration
  PROVE  Iteration' /\ (Untaken' = simulation_steps)
<1>0. /\ conf' = conf /\ Threads' = Threads /\ simulation_steps' = simulation_steps
      /\ Plain' = Plain /\ Double' = Double /\ Iterating' = Iterating
      /\ AllSteps' = AllSteps /\ Total' = Total
  BY ConfKept
<1>1. /\ conf.words \in {1, 2} /\ simulation_steps \in Nat
      /\ Plain \/ Double \/ Iterating
      /\ Double => simulation_steps <= 1 /\ ~ Plain /\ ~ Iterating
      /\ Iterating => simulation_steps = 1 /\ ~ Plain /\ ~ Double
      /\ Plain => conf.words = 1 /\ ~ Double /\ ~ Iterating
  BY ConfFacts DEF Typed
<1>2. /\ AllSteps \in Seq(Word) /\ Total \in Nat
      /\ Plain => Total = simulation_steps
      /\ Double => Total = 2 * simulation_steps
      /\ Iterating => Total = 3
  BY StepWords DEF Typed
<1>3. /\ phase' = "put" /\ toPut' = AllSteps /\ mb_start' = <<>> /\ mb_stop' = 0
      /\ UNCHANGED <<state, got, job, count>>
  BY DEF StartIteration, Resting, threadVars
<1>4. Len(toPut') = Total /\ Len(mb_start') = 0
  BY <1>3 DEF Total
<1>5. Pending' = Total
  BY <1>2, <1>4 DEF Pending
<1>6. Untaken' = simulation_steps
  BY <1>0, <1>1, <1>2, <1>5 DEF Untaken
<1>7. WordsInOrder'
  <2>1. Len(toPut)' = Total /\ Len(mb_start)' = 0
    BY <1>4
  <2>2. \A k \in 1..Total : Total - Total + k = k
    BY <1>2
  <2> QED
    BY <1>0, <1>2, <1>3, <1>5, <2>1, <2>2 DEF WordsInOrder
<1>8. \A t \in Threads : state'[t] = "GET_ADDR" /\ got'[t] = <<>> /\ (Plain /\ t[1] = "hw" => count'[t] = 0)
  BY <1>3 DEF Resting
<1>9. \A t \in Threads : ~ Busy(t)' /\ ~ Working(t)'
  BY <1>8 DEF Busy, Working, WorkingStates
<1>10. \A t \in Threads : PartsReceived(t)'
  <2> SUFFICES ASSUME NEW t \in Threads PROVE PartsReceived(t)'
    OBVIOUS
  <2>1. simulation_steps >= 1
    BY <1>1, ThreadFacts DEF Typed
  <2>2. (Double => Pending' = 2) /\ (Iterating => Pending' = 3)
    BY <1>1, <1>2, <1>5, <2>1
  <2> QED
    BY <1>0, <1>1, <1>8, <1>9, <2>2 DEF PartsReceived
<1>11. \A t \in Threads : JobOk(t)'
  BY <1>8, <1>9 DEF JobOk
<1>12. JobsDistinct'
  BY <1>0, <1>9 DEF JobsDistinct
<1>13. (conf.words * Untaken + Debt + mb_stop = Outstanding)'
  <2>1. \A t \in Threads : Owed'[t] = 0
    BY <1>0, <1>8, <1>9 DEF Owed
  <2>2. IsFiniteSet(Threads)
    BY ThreadFacts DEF Typed
  <2>3. SumFunctionOnSet(Owed', Threads) = 0
    <3> HIDE DEF Owed
    <3> QED BY <2>1, <2>2, SumZero
  <2>4. Debt' = 0
    BY <1>0, <2>3 DEF Debt
  <2>5. Outstanding' = simulation_steps * conf.words
    BY <1>0, <1>3 DEF Outstanding
  <2>6. conf.words * simulation_steps = simulation_steps * conf.words /\ conf.words * simulation_steps \in Nat
    BY <1>1
  <2> QED
    BY <1>0, <1>3, <1>6, <2>4, <2>5, <2>6
<1>14. QED
  BY <1>0, <1>3, <1>6, <1>7, <1>10, <1>11, <1>12, <1>13 DEF Iteration

(* Steps of main and of the caches leave the threads alone. *)
LEMMA ThreadsLeftAlone ==
  ASSUME Typed, [Next]_vars, Iteration, UNCHANGED <<state, got, job, count>>,
         WordsInOrder', Pending' = Pending, phase' = "wait" => toPut' = <<>>,
         \/ Outstanding' = Outstanding /\ mb_stop' = mb_stop
         \/ Outstanding' = Outstanding - 1 /\ mb_stop' = mb_stop - 1 /\ Outstanding \in Int
  PROVE  Iteration'
<1>0. /\ conf' = conf /\ Threads' = Threads /\ simulation_steps' = simulation_steps
      /\ Plain' = Plain /\ Double' = Double /\ Iterating' = Iterating
      /\ \A b : Ptr(b)' = Ptr(b)
  BY ConfKept
<1>1. Untaken' = Untaken
  BY <1>0 DEF Untaken
<1>2. \A t : Working(t)' = Working(t) /\ Busy(t)' = Busy(t)
  BY DEF Working, Busy
<1>3. \A t \in Threads : PartsReceived(t)'
  <2> SUFFICES ASSUME NEW t \in Threads PROVE PartsReceived(t)'
    OBVIOUS
  <2>1. PartsReceived(t)
    BY DEF Iteration
  <2> QED
    BY <1>0, <1>2, <2>1 DEF PartsReceived
<1>4. \A t \in Threads : JobOk(t)'
  <2> SUFFICES ASSUME NEW t \in Threads PROVE JobOk(t)'
    OBVIOUS
  <2>1. JobOk(t)
    BY DEF Iteration
  <2>2. Busy(t) => job'[t] = Ptr(job[t].arg)'
    BY <1>0, <2>1 DEF JobOk, Ptr
  <2> QED
    BY <1>0, <1>1, <1>2, <2>1, <2>2 DEF JobOk
<1>5. JobsDistinct'
  BY <1>0, <1>2 DEF Iteration, JobsDistinct
<1>6. Owed' = Owed
  BY <1>0, <1>2 DEF Owed
<1>7. Debt' = Debt
  BY <1>0, <1>6 DEF Debt
<1>8. (conf.words * Untaken + Debt + mb_stop = Outstanding)'
  <2>1. PICK n \in Nat : n = conf.words * Untaken
    <3>1. conf.words \in Nat /\ Untaken \in Nat
      BY ConfFacts, ProtocolNumbers DEF Typed
    <3> QED
      BY <3>1
  <2>2. conf'.words * Untaken' = n
    BY <1>0, <1>1, <2>1
  <2>3. n + Debt + mb_stop = Outstanding /\ Debt \in Int /\ mb_stop \in Nat
    BY <2>1, ProtocolNumbers DEF Iteration, Typed, MainTyped
  <2> QED
    BY <1>7, <2>2, <2>3
<1>9. QED
  BY <1>0, <1>3, <1>4, <1>5, <1>8 DEF Iteration

(* main's steps. *)
LEMMA MainProtocol ==
  ASSUME Typed, [Next]_vars, Protocol, Main
  PROVE  Protocol'
<1>0. /\ conf' = conf /\ Threads' = Threads /\ simulation_steps' = simulation_steps
      /\ AllSteps' = AllSteps /\ Total' = Total /\ Plain' = Plain
  BY ConfKept
<1>1. CASE StartIteration
  <2>1. Resting /\ phase' = "put"
    BY <1>1 DEF StartIteration, Protocol
  <2>2. Iteration'
    BY <1>1, <2>1, IterationStarts
  <2> QED
    BY <2>1, <2>2 DEF Protocol
<1>2. CASE MainPut
  <2>1. /\ toPut # <<>> /\ mb_start' = Append(mb_start, Head(toPut)) /\ toPut' = Tail(toPut)
        /\ phase' = phase /\ phase \in {"put", "terminate"}
        /\ UNCHANGED <<state, got, job, count, left, mb_stop>>
    BY <1>2 DEF MainPut, threadVars
  <2>2. mb_start \in Seq(Word) /\ toPut \in Seq(Word)
    BY DEF Typed, MainTyped
  <2>3. PICK m \in Nat, n \in Nat : m = Len(mb_start) /\ n = Len(toPut) /\ n >= 1
    BY <2>1, <2>2
  <2>4. Head(toPut) \in Word /\ Head(toPut) = toPut[1] /\ Tail(toPut) \in Seq(Word)
    BY <2>1, <2>2
  <2>5. /\ Len(mb_start') = m + 1 /\ Len(toPut') = n - 1
        /\ \A k \in 1..m : mb_start'[k] = mb_start[k]
        /\ mb_start'[m + 1] = toPut[1]
        /\ \A k \in 1..(n - 1) : toPut'[k] = toPut[k + 1]
    BY <2>1, <2>2, <2>3, <2>4
  <2>6. CASE phase = "put"
    <3>1. Iteration
      BY <2>6 DEF Protocol
    <3>2. Pending = m + n /\ Pending' = m + n
      BY <2>3, <2>5 DEF Pending
    <3>3. /\ m + n <= Total /\ Total \in Nat
          /\ \A k \in 1..m : mb_start[k] = AllSteps[Total - (m + n) + k]
          /\ \A k \in 1..n : toPut[k] = AllSteps[Total - n + k]
      BY <2>3, <3>1, <3>2, StepWords DEF Iteration, WordsInOrder, Typed
    <3>4. \A k \in 1..(m + 1) : mb_start'[k] = AllSteps[Total - (m + n) + k]
      <4>1. Total - n + 1 = Total - (m + n) + (m + 1)
        BY <3>3
      <4>2. mb_start'[m + 1] = AllSteps[Total - n + 1]
        BY <2>3, <2>5, <3>3
      <4>3. \A k \in 1..m : mb_start'[k] = AllSteps[Total - (m + n) + k]
        BY <2>5, <3>3
      <4>4. mb_start'[m + 1] = AllSteps[Total - (m + n) + (m + 1)]
        BY <4>1, <4>2
      <4>5. \A k \in 1..(m + 1) : k \in 1..m \/ k = m + 1
        OBVIOUS
      <4> QED
        BY <4>3, <4>4, <4>5
    <3>5. \A k \in 1..(n - 1) : toPut'[k] = AllSteps[Total - (n - 1) + k]
      <4> SUFFICES ASSUME NEW k \in 1..(n - 1) PROVE toPut'[k] = AllSteps[Total - (n - 1) + k]
        OBVIOUS
      <4>1. k + 1 \in 1..n /\ Total - n + (k + 1) = Total - (n - 1) + k
        BY <3>3
      <4>2. toPut[k + 1] = AllSteps[Total - n + (k + 1)]
        BY <3>3, <4>1
      <4> QED
        BY <2>5, <4>1, <4>2
    <3>6. WordsInOrder'
      BY <1>0, <2>5, <3>2, <3>3, <3>4, <3>5 DEF WordsInOrder
    <3>7. Outstanding' = Outstanding
      BY <1>0, <2>1 DEF Outstanding
    <3>8. Iteration'
      BY <2>1, <2>6, <3>1, <3>2, <3>6, <3>7, ThreadsLeftAlone
    <3> QED
      BY <2>1, <2>6, <3>8 DEF Protocol
  <2>7. CASE phase = "terminate"
    <3>1. Ending
      BY <2>7 DEF Protocol
    <3>2. \A k \in 1..(m + 1) : mb_start'[k] = THREAD_EXIT
      <4>1. toPut[1] = THREAD_EXIT /\ \A k \in 1..m : mb_start[k] = THREAD_EXIT
        BY <2>3, <3>1 DEF Ending
      <4> QED
        BY <2>5, <4>1
    <3>3. \A k \in 1..(n - 1) : toPut'[k] = THREAD_EXIT
      BY <2>3, <2>5, <3>1 DEF Ending
    <3>4. Ending'
      BY <1>0, <2>1, <2>5, <3>1, <3>2, <3>3 DEF Ending
    <3> QED
      BY <2>1, <2>7, <3>4 DEF Protocol
  <2> QED
    BY <2>1, <2>6, <2>7
<1>3. CASE StartWaiting
  <2>1. /\ phase = "put" /\ phase' = "wait" /\ toPut = <<>> /\ left' = simulation_steps * conf.words
        /\ UNCHANGED <<state, got, job, count, mb_stop, mb_start, toPut>>
    BY <1>3 DEF StartWaiting, threadVars
  <2>2. Iteration
    BY <2>1 DEF Protocol
  <2>3. WordsInOrder' /\ Pending' = Pending
    BY <2>1, <2>2, WordsKept DEF Iteration
  <2>4. Outstanding' = Outstanding
    BY <1>0, <2>1 DEF Outstanding
  <2>5. Iteration'
    BY <2>1, <2>2, <2>3, <2>4, ThreadsLeftAlone
  <2> QED
    BY <2>1, <2>5 DEF Protocol
<1>4. CASE MainGet
  <2>1. /\ phase = "wait" /\ phase' = "wait" /\ left' = left - 1 /\ mb_stop' = mb_stop - 1
        /\ UNCHANGED <<state, got, job, count, mb_start, toPut>>
    BY <1>4 DEF MainGet, threadVars
  <2>2. Iteration
    BY <2>1 DEF Protocol
  <2>3. WordsInOrder' /\ Pending' = Pending /\ toPut' = <<>>
    BY <2>1, <2>2, WordsKept DEF Iteration
  <2>4. Outstanding' = Outstanding - 1 /\ Outstanding \in Int
    BY <2>1 DEF Outstanding, Typed, MainTyped
  <2>5. Iteration'
    BY <2>1, <2>2, <2>3, <2>4, ThreadsLeftAlone
  <2> QED
    BY <2>1, <2>5 DEF Protocol
<1>5. CASE EndIteration
  <2>1. /\ phase = "wait" /\ left = 0 /\ phase' \in {"start", "check"}
        /\ UNCHANGED <<state, got, job, count, mb_start, toPut, mb_stop>>
    BY <1>5 DEF EndIteration, threadVars
  <2>2. Resting
    BY <2>1, NothingOutstanding DEF Protocol
  <2>3. Resting'
    BY <1>0, <2>1, <2>2 DEF Resting
  <2> QED
    BY <2>1, <2>3 DEF Protocol
<1>6. CASE StartTermination
  <2>1. /\ phase = "check" /\ phase' = "terminate" /\ toPut' = AllExits
        /\ UNCHANGED <<state, got, job, count, mb_start, mb_stop>>
    BY <1>6 DEF StartTermination, threadVars
  <2>2. Resting
    BY <2>1 DEF Protocol
  <2>3. PICK n \in Nat : n = simulation_steps * conf.words
    BY ConfFacts DEF Typed
  <2>4. Len(toPut') = n /\ \A k \in 1..n : toPut'[k] = THREAD_EXIT
    BY <2>1, <2>3 DEF AllExits
  <2>5. Ending'
    <3>1. Len(mb_start') = 0 /\ \A t \in Threads : Len(got'[t]) = 0 /\ state'[t] = "GET_ADDR"
      BY <2>1, <2>2 DEF Resting
    <3> QED
      BY <1>0, <2>4, <3>1 DEF Ending
  <2> QED
    BY <2>1, <2>5 DEF Protocol
<1>7. CASE MainJoin
  <2>1. /\ phase = "terminate" /\ phase' = "done"
        /\ UNCHANGED <<state, got, job, count, mb_start, toPut>>
    BY <1>7 DEF MainJoin, threadVars
  <2>2. Ending'
    BY <1>0, <2>1 DEF Protocol, Ending
  <2> QED
    BY <2>1, <2>2 DEF Protocol
<1>8. QED
  BY <1>1, <1>2, <1>3, <1>4, <1>5, <1>6, <1>7 DEF Main

(* A thread takes a word while the threads are told to exit. *)
LEMMA TakeExit ==
  ASSUME Typed, [Next]_vars, Ending, NEW t \in Threads,
         SwGetPointer(t) \/ HwGetAddr(t) \/ HwReadIterations(t)
  PROVE  Ending'
<1>0. conf' = conf /\ Threads' = Threads
  BY ConfKept
<1>1. mb_start # <<>> /\ mb_start' = Tail(mb_start) /\ toPut' = toPut
  BY DEF SwGetPointer, HwGetAddr, HwReadIterations, mainVars
<1>2. mb_start \in Seq(Word)
  BY DEF Typed, MainTyped
<1>3. Head(mb_start) = THREAD_EXIT /\ \A k \in 1..Len(mb_start') : mb_start'[k] = THREAD_EXIT
  <2>1. /\ Head(mb_start) = mb_start[1] /\ Len(mb_start) \in Nat /\ Len(mb_start) >= 1
        /\ Len(mb_start') = Len(mb_start) - 1
        /\ \A k \in 1..(Len(mb_start) - 1) : mb_start'[k] = mb_start[k + 1]
    BY <1>1, <1>2
  <2>2. \A k \in 1..Len(mb_start) : mb_start[k] = THREAD_EXIT
    BY DEF Ending
  <2> QED
    BY <2>1, <2>2
<1>4. /\ state \in [Threads -> States] /\ got \in [Threads -> Seq(Word)]
  BY DEF Typed, ThreadsTyped
<1>5. \A u \in Threads : /\ state[u] \in {"GET_ADDR", "THREAD_EXIT"}
                         /\ \A k \in 1..Len(got[u]) : got[u][k] = THREAD_EXIT
  BY DEF Ending
<1>6. \A u \in Threads : /\ state'[u] \in {"GET_ADDR", "THREAD_EXIT"}
                         /\ \A k \in 1..Len(got'[u]) : got'[u][k] = THREAD_EXIT
  <2>1. CASE SwGetPointer(t)
    <3> DEFINE words == Append(got[t], Head(mb_start))
               p == IF \A k \in DOMAIN words : words[k] = words[1] THEN words[1] ELSE Wild
    <3>1. IF Len(words) < conf.words
          THEN got' = [got EXCEPT ![t] = words] /\ UNCHANGED <<state, job, count>>
          ELSE /\ got' = [got EXCEPT ![t] = <<>>]
               /\ state' = [state EXCEPT ![t] = IF p = THREAD_EXIT THEN "THREAD_EXIT" ELSE "CALC"]
      BY <2>1 DEF SwGetPointer
    <3>2. got[t] \in Seq(Word) /\ Head(mb_start) \in Word
      BY <1>1, <1>2, <1>4
    <3>3. /\ words \in Seq(Word) /\ Len(words) = Len(got[t]) + 1
          /\ words[Len(got[t]) + 1] = Head(mb_start)
          /\ \A k \in 1..Len(got[t]) : words[k] = got[t][k]
      BY <3>2
    <3>4. DOMAIN words = 1..Len(words) /\ Len(got[t]) \in Nat
      BY <3>2, <3>3
    <3> HIDE DEF words
    <3>5. \A k \in 1..Len(words) : words[k] = THREAD_EXIT
      BY <1>3, <1>5, <3>3, <3>4
    <3>6. p = THREAD_EXIT
      <4>1. 1 \in 1..Len(words)
        BY <3>3, <3>4
      <4> QED
        BY <3>4, <3>5, <4>1
    <3> HIDE DEF p
    <3>7. CASE Len(words) < conf.words
      BY <1>4, <1>5, <3>1, <3>5, <3>7
    <3>8. CASE ~ (Len(words) < conf.words)
      <4>1. got' = [got EXCEPT ![t] = <<>>] /\ state' = [state EXCEPT ![t] = "THREAD_EXIT"]
        BY <3>1, <3>6, <3>8
      <4>2. Len(<<>>) = 0
        OBVIOUS
      <4> QED
        BY <1>4, <1>5, <4>1, <4>2
    <3> QED
      BY <3>7, <3>8
  <2>2. CASE HwGetAddr(t)
    <3>1. got' = got /\ state' = [state EXCEPT ![t] = "THREAD_EXIT"]
      <4>1. THREAD_EXIT # SET_ITERATIONS
        BY DEF THREAD_EXIT, SET_ITERATIONS
      <4> QED
        BY <1>3, <2>2, <4>1 DEF HwGetAddr
    <3> QED
      BY <1>4, <1>5, <3>1
  <2>3. CASE HwReadIterations(t)
    BY <1>5, <2>3 DEF HwReadIterations
  <2> QED
    BY <2>1, <2>2, <2>3
<1>7. QED
  BY <1>0, <1>1, <1>3, <1>6 DEF Ending

(* The caches take no part in the protocol. *)
LEMMA OthersProtocol ==
  ASSUME Typed, [Next]_vars, Protocol,
         UNCHANGED <<phase, left, toPut, mb_start, mb_stop, state, got, job, count>>
  PROVE  Protocol'
<1>0. conf' = conf /\ Threads' = Threads /\ simulation_steps' = simulation_steps /\ Plain' = Plain
  BY ConfKept
<1>1. Iteration => Iteration'
  <2> SUFFICES ASSUME Iteration PROVE Iteration'
    OBVIOUS
  <2>1. WordsInOrder' /\ Pending' = Pending
    BY WordsKept DEF Iteration
  <2>2. Outstanding' = Outstanding
    BY <1>0 DEF Outstanding
  <2>3. phase' = "wait" => toPut' = <<>>
    BY DEF Iteration
  <2> QED
    BY <2>1, <2>2, <2>3, ThreadsLeftAlone
<1>2. Resting => Resting'
  BY <1>0 DEF Resting
<1>3. Ending => Ending'
  BY <1>0 DEF Ending
<1>4. QED
  BY <1>1, <1>2, <1>3 DEF Protocol

(* Every step keeps the protocol of the two mailboxes. *)
LEMMA ProtocolStep == ASSUME Typed, Typed', Protocol, [Next]_vars PROVE Protocol'
<1>1. CASE Main
  BY <1>1, MainProtocol
<1>2. ASSUME NEW t \in Threads, Thread(t) PROVE Protocol'
  <2>1. CASE SwCalculate(t) \/ SwEnd(t) \/ SwAck(t) \/ HwRead(t) \/ HwEval(t) \/ HwWrite(t) \/ HwAck(t)
    BY <2>1, BusyActions
  <2>2. CASE SwGetPointer(t) \/ HwGetAddr(t) \/ HwReadIterations(t)
    <3>1. phase' = phase /\ mb_start # <<>>
      BY <2>2 DEF SwGetPointer, HwGetAddr, HwReadIterations, mainVars
    <3>2. phase \in {"put", "wait"} \/ phase \in {"start", "check"} \/ phase \in {"terminate", "done"}
      BY DEF Typed, MainTyped
    <3>3. CASE phase \in {"put", "wait"}
      <4>1. Iteration'
        BY <2>2, <3>3, TakeActions DEF Protocol
      <4> QED
        BY <3>1, <3>3, <4>1 DEF Protocol
    <3>4. CASE phase \in {"start", "check"}
      BY <3>1, <3>4 DEF Protocol, Resting
    <3>5. CASE phase \in {"terminate", "done"}
      <4>1. Ending'
        BY <2>2, <3>5, TakeExit DEF Protocol
      <4> QED
        BY <3>1, <3>5, <4>1 DEF Protocol
    <3> QED
      BY <3>2, <3>3, <3>4, <3>5
  <2> QED
    BY <1>2, <2>1, <2>2 DEF Thread
<1>3. ASSUME NEW b \in Blocks, CacheLoad(b) \/ CacheReplace(b) PROVE Protocol'
  <2>1. UNCHANGED <<phase, left, toPut, mb_start, mb_stop, state, got, job, count>>
    BY <1>3 DEF CacheLoad, CacheReplace, mainVars, threadVars
  <2> QED
    BY <2>1, OthersProtocol
<1>4. CASE UNCHANGED vars
  <2>1. UNCHANGED <<phase, left, toPut, mb_start, mb_stop, state, got, job, count>>
    BY <1>4 DEF vars, mainVars, threadVars
  <2> QED
    BY <2>1, OthersProtocol
<1>5. QED
  BY <1>1, <1>2, <1>3, <1>4 DEF Next

(* The protocol holds initially. *)
LEMMA ProtocolInitially == Init => Protocol
<1> SUFFICES ASSUME Init PROVE Protocol
  OBVIOUS
<1>1. phase = "start"
  BY DEF Init
<1>2. Resting
  BY DEF Init, Resting
<1>3. QED
  BY <1>1, <1>2 DEF Protocol
-----------------------------------------------------------------------------
(* The protocol's invariant. *)
ProtocolInv == Typed /\ Protocol

(* The protocol and the types are an invariant. *)
LEMMA ProtocolAlways == Spec => []ProtocolInv
<1>1. Init => ProtocolInv
  BY TypedInitially, ProtocolInitially DEF ProtocolInv
<1>2. ProtocolInv /\ [Next]_vars => ProtocolInv'
  BY TypedStep, ProtocolStep DEF ProtocolInv
<1>3. QED
  BY <1>1, <1>2, PTL DEF Spec

(* A thread only ever works on a pointer main has sent, whole, and no two   *)
(* threads work on the same block: for every number of threads, also where  *)
(* a pointer takes two words and where the number of calculations is sent   *)
(* before it (the checks of main in single_pendulum_simple.c).              *)
THEOREM PointersArriveWhole == Spec => []PointersIntact
<1>1. ProtocolInv => PointersIntact
  <2> SUFFICES ASSUME Typed, Protocol PROVE PointersIntact
    BY DEF ProtocolInv
  <2>1. TypeOK
    <3>1. dirty \subseteq {b \in Blocks : cached[b] # NoCopy}
      BY DEF Typed, MemoryTyped
    <3>2. {mb_stop, left, iteration} \subseteq Nat
      BY DEF Typed, MainTyped
    <3>3. state \in [Threads -> {"GET_ADDR", "CALC", "READ_ITERATIONS", "READ", "STARTING",
                               "WRITE", "ACK", "THREAD_EXIT"}]
      BY DEF Typed, ThreadsTyped, States
    <3>4. /\ phase \in {"start", "put", "wait", "check", "terminate", "done"}
          /\ calcs \in [Blocks -> Nat]
      BY DEF Typed, MainTyped, MemoryTyped
    <3> QED
      BY <3>1, <3>2, <3>3, <3>4, Zenon DEF TypeOK
  <2>2. ASSUME NEW t \in Threads, state[t] \in {"CALC", "READ", "STARTING", "WRITE", "ACK"}
        PROVE  job[t].op = IF conf.memory THEN "block" ELSE "WITHOUT_MEMORY"
    <3>1. Busy(t)
      BY <2>2 DEF Busy, Working, WorkingStates
    <3>2. conf.memory => job[t].op = "block"
      BY <3>1, BusyFacts
    <3>3. ~ conf.memory => job[t].op = "WITHOUT_MEMORY"
      BY <3>1, BusyFacts DEF WITHOUT_MEMORY
    <3> QED
      BY <3>2, <3>3
  <2>3. ASSUME NEW t \in Threads, NEW u \in Threads, t # u, conf.memory,
               {state[t], state[u]} \subseteq {"CALC", "READ", "STARTING", "WRITE"}
        PROVE  job[t] # job[u]
    <3>1. Working(t) /\ Working(u)
      BY <2>3 DEF Working, WorkingStates
    <3>2. Iteration
      BY <3>1, BusyFacts DEF Busy
    <3> QED
      BY <2>3, <3>1, <3>2 DEF Iteration, JobsDistinct
  <2> QED
    BY <2>1, <2>2, <2>3 DEF PointersIntact
<1>2. QED
  BY <1>1, ProtocolAlways, PTL

-----------------------------------------------------------------------------
(* Steps that neither calculate nor give or take a block. *)
LEMMA CountsKept ==
  ASSUME conf' = conf, Threads' = Threads, Blocks' = Blocks, simulation_steps' = simulation_steps,
         CalculationsCounted, phase \in {"put", "wait"}, phase' \in {"put", "wait"},
         UNCHANGED <<calcs, iteration>>, Untaken' = Untaken,
         \A t \in Threads : Working(t)' = Working(t),
         \A t \in Threads : Working(t) => job'[t] = job[t] /\ count'[t] = count[t]
  PROVE  CalculationsCounted'
<1> SUFFICES ASSUME conf.memory, conf.inThread >= 1
             PROVE  /\ \A b \in Blocks : BlockCounted(b)'
                    /\ \A t \in Threads : Working(t)' => ThreadCounted(t)'
  BY DEF CalculationsCounted
<1>1. Base' = Base
  BY DEF Base
<1>2. \A b \in Blocks : BlockCounted(b)'
  BY <1>1 DEF CalculationsCounted, BlockCounted
<1>3. \A t \in Threads : Working(t)' => ThreadCounted(t)'
  BY <1>1 DEF CalculationsCounted, ThreadCounted, Remaining
<1>4. QED
  BY <1>2, <1>3

(* A thread finishes a calculation of its block, or its last one. *)
LEMMA CountsCalculated ==
  ASSUME Typed, Typed', Iteration, conf' = conf, Threads' = Threads, Blocks' = Blocks,
         simulation_steps' = simulation_steps,
         CalculationsCounted, phase \in {"put", "wait"}, phase' = phase,
         UNCHANGED <<iteration, job>>, Untaken' = Untaken, conf.memory,
         NEW t \in Threads, Working(t), NEW d \in {0, 1},
         \A u \in Threads \ {t} : Working(u)' = Working(u) /\ count'[u] = count[u],
         calcs' = [calcs EXCEPT ![job[t].arg] = @ + d],
         IF Working(t)' THEN count'[t] \in Nat /\ Remaining(t)' = Remaining(t) - d
                        ELSE Remaining(t) = d
  PROVE  CalculationsCounted'
<1> SUFFICES ASSUME conf.inThread >= 1
             PROVE  /\ \A b \in Blocks : BlockCounted(b)'
                    /\ \A u \in Threads : Working(u)' => ThreadCounted(u)'
  BY DEF CalculationsCounted
<1>1. Base' = Base /\ Base \in Nat /\ conf.inThread \in Nat
  BY ConfFacts DEF Base, Typed, MainTyped
<1>2. /\ \A b \in Blocks : BlockCounted(b)
      /\ \A u \in Threads : Working(u) => ThreadCounted(u)
  BY DEF CalculationsCounted
<1>3. PICK a \in Blocks : a = job[t].arg
  <2>1. job[t].arg \in 1..(simulation_steps - Untaken)
    BY DEF Iteration, JobOk, Busy
  <2>2. simulation_steps \in Nat /\ Untaken \in Nat
    BY ConfFacts, ProtocolNumbers DEF Typed
  <2> QED
    BY <2>1, <2>2 DEF Blocks
<1>4. a <= simulation_steps - Untaken
  BY <1>3 DEF Iteration, JobOk, Busy
<1>5. calcs \in [Blocks -> Nat]
  BY DEF Typed, MemoryTyped
<1>6. calcs'[a] = calcs[a] + d /\ \A b \in Blocks : b # a => calcs'[b] = calcs[b]
  BY <1>3, <1>5
<1>7. calcs[a] + Remaining(t) = Base + conf.inThread /\ Remaining(t) \in Int
  <2>1. count[t] \in Nat /\ calcs[a] + Remaining(t) = Base + conf.inThread
    BY <1>2, <1>3 DEF ThreadCounted
  <2> QED
    BY <2>1 DEF Remaining
<1>8. \A b \in Blocks : BlockCounted(b)'
  <2> SUFFICES ASSUME NEW b \in Blocks PROVE BlockCounted(b)'
    OBVIOUS
  <2>1. CASE b = a
    <3>0. ~ (b > simulation_steps - Untaken)
      <4>1. simulation_steps \in Nat /\ Untaken \in Nat /\ a \in Int
        BY ConfFacts, ProtocolNumbers DEF Typed, Blocks
      <4> QED
        BY <1>4, <2>1, <4>1
    <3>1. CASE Working(t)'
      <4>1. \E u \in Threads : Working(u)' /\ job'[u].arg = b
        BY <1>3, <2>1, <3>1
      <4> QED
        BY <3>0, <4>1 DEF BlockCounted
    <3>2. CASE ~ Working(t)'
      <4>1. calcs'[b] = Base + conf.inThread
        BY <1>1, <1>5, <1>6, <1>7, <2>1, <3>2
      <4> QED
        BY <1>1, <3>0, <4>1 DEF BlockCounted
    <3> QED
      BY <3>1, <3>2
  <2>2. CASE b # a
    <3>1. BlockCounted(b) /\ calcs'[b] = calcs[b]
      BY <1>2, <1>6, <2>2
    <3>2. (\E u \in Threads : Working(u) /\ job[u].arg = b) => \E u \in Threads : Working(u)' /\ job'[u].arg = b
      BY <1>3, <2>2
    <3> QED
      BY <1>1, <3>1, <3>2 DEF BlockCounted
  <2> QED
    BY <2>1, <2>2
<1>9. \A u \in Threads : Working(u)' => ThreadCounted(u)'
  <2> SUFFICES ASSUME NEW u \in Threads, Working(u)' PROVE ThreadCounted(u)'
    OBVIOUS
  <2>1. CASE u = t
    <3>1. count'[t] \in Nat /\ Remaining(t)' = Remaining(t) - d
      BY <2>1
    <3>2. calcs'[a] + Remaining(t)' = Base + conf.inThread
      BY <1>1, <1>5, <1>6, <1>7, <3>1
    <3> QED
      BY <1>1, <1>3, <2>1, <3>1, <3>2 DEF ThreadCounted
  <2>2. CASE u # t
    <3>1. Working(u) /\ count'[u] = count[u]
      BY <2>2
    <3>2. job[u].arg # a /\ job[u].arg \in Blocks
      <4>1. job[u].arg \in 1..(simulation_steps - Untaken) /\ job[u].arg # job[t].arg
        BY <2>2, <3>1 DEF Iteration, JobOk, Busy, JobsDistinct
      <4>2. simulation_steps \in Nat /\ Untaken \in Nat
        BY ConfFacts, ProtocolNumbers DEF Typed
      <4> QED
        BY <1>3, <4>1, <4>2 DEF Blocks
    <3>3. calcs'[job[u].arg] = calcs[job[u].arg]
      BY <1>6, <3>2
    <3>4. ThreadCounted(u)
      BY <1>2, <3>1
    <3> QED
      BY <1>1, <3>1, <3>3, <3>4 DEF ThreadCounted, Remaining
  <2> QED
    BY <2>1, <2>2
<1>10. QED
  BY <1>8, <1>9

(* A thread receives a block that has not been calculated in this iteration. *)
LEMMA CountsDelivered ==
  ASSUME ProtocolInv, [Next]_vars, CalculationsCounted, conf.memory,
         phase \in {"put", "wait"}, phase' = phase, UNCHANGED <<calcs, iteration>>,
         NEW t \in Threads, ~ Working(t), Working(t)',
         Untaken' = Untaken - 1, Untaken \in 1..simulation_steps,
         job'[t] = Ptr(simulation_steps - Untaken + 1),
         count'[t] \in Nat, conf.inThread >= 1 => Remaining(t)' = conf.inThread,
         \A u \in Threads \ {t} : Working(u)' = Working(u) /\ job'[u] = job[u] /\ count'[u] = count[u]
  PROVE  CalculationsCounted'
<1>0. conf' = conf /\ Threads' = Threads /\ Blocks' = Blocks /\ simulation_steps' = simulation_steps
  BY ConfKept
<1> SUFFICES ASSUME conf.inThread >= 1
             PROVE  /\ \A b \in Blocks : BlockCounted(b)'
                    /\ \A u \in Threads : Working(u)' => ThreadCounted(u)'
  BY <1>0 DEF CalculationsCounted
<1>1. Base' = Base /\ Base \in Nat /\ conf.inThread \in Nat /\ simulation_steps \in Nat
  BY <1>0, ConfFacts DEF Base, ProtocolInv, Typed, MainTyped
<1>2. /\ \A b \in Blocks : BlockCounted(b)
      /\ \A u \in Threads : Working(u) => ThreadCounted(u)
  BY DEF CalculationsCounted
<1>3. PICK a \in Blocks : a = simulation_steps - Untaken + 1
  BY <1>1 DEF Blocks
<1>4. job'[t].arg = a
  BY <1>3 DEF Ptr, Block
<1>5. calcs[a] = Base
  <2>1. a > simulation_steps - Untaken
    BY <1>1, <1>3
  <2> QED
    BY <1>2, <2>1 DEF BlockCounted
<1>6. \A b \in Blocks : BlockCounted(b)'
  <2> SUFFICES ASSUME NEW b \in Blocks PROVE BlockCounted(b)'
    OBVIOUS
  <2>1. CASE b = a
    <3>1. ~ (b > simulation_steps' - Untaken')
      BY <1>0, <1>1, <1>3, <2>1
    <3>2. \E u \in Threads : Working(u)' /\ job'[u].arg = b
      BY <1>4, <2>1
    <3> QED
      BY <1>0, <3>1, <3>2 DEF BlockCounted
  <2>2. CASE b # a
    <3>1. BlockCounted(b)
      BY <1>2
    <3>2. b > simulation_steps' - Untaken' <=> b > simulation_steps - Untaken
      BY <1>0, <1>1, <1>3, <2>2 DEF Blocks
    <3>3. (\E u \in Threads : Working(u) /\ job[u].arg = b) => \E u \in Threads : Working(u)' /\ job'[u].arg = b
      OBVIOUS
    <3> QED
      BY <1>0, <1>1, <3>1, <3>2, <3>3 DEF BlockCounted
  <2> QED
    BY <2>1, <2>2
<1>7. \A u \in Threads : Working(u)' => ThreadCounted(u)'
  <2> SUFFICES ASSUME NEW u \in Threads, Working(u)' PROVE ThreadCounted(u)'
    OBVIOUS
  <2>1. CASE u = t
    BY <1>0, <1>1, <1>4, <1>5, <2>1 DEF ThreadCounted
  <2>2. CASE u # t
    <3>1. ThreadCounted(u) /\ job'[u] = job[u] /\ count'[u] = count[u]
      BY <1>2, <2>2
    <3> QED
      BY <1>0, <1>1, <3>1 DEF ThreadCounted, Remaining
  <2> QED
    BY <2>1, <2>2
<1>8. QED
  BY <1>6, <1>7

(* Main keeps the count of the calculations. *)
LEMMA MainCounts ==
  ASSUME ProtocolInv, [Next]_vars, CalculationsCounted, Main
  PROVE  CalculationsCounted'
<1> USE DEF ProtocolInv
<1>0. conf' = conf /\ Threads' = Threads /\ Blocks' = Blocks /\ simulation_steps' = simulation_steps
      /\ Plain' = Plain
  BY ConfKept
<1>1. CASE StartIteration
  <2>1. /\ Iteration' /\ Untaken' = simulation_steps /\ phase = "start" /\ phase' = "put"
        /\ UNCHANGED <<calcs, iteration, state>>
    BY <1>1, IterationStarts DEF StartIteration, Protocol, threadVars
  <2>2. \A t \in Threads : ~ Working(t)'
    BY <2>1 DEF Protocol, Resting, Working, WorkingStates
  <2>3. Base' = Base
    BY <1>0, <2>1 DEF Base
  <2>4. \A b \in Blocks : b > simulation_steps' - Untaken'
    BY <1>0, <2>1, ConfFacts DEF Blocks, Typed
  <2>5. conf.memory /\ conf.inThread >= 1 => \A b \in Blocks : BlockCounted(b)'
    BY <2>1, <2>3, <2>4 DEF CalculationsCounted, BlockCounted
  <2> QED
    BY <1>0, <2>1, <2>2, <2>5 DEF CalculationsCounted
<1>2. CASE MainPut
  <2>1. /\ toPut # <<>> /\ mb_start' = Append(mb_start, Head(toPut)) /\ toPut' = Tail(toPut)
        /\ phase' = phase /\ phase \in {"put", "terminate"}
        /\ UNCHANGED <<state, job, count, calcs, iteration>>
    BY <1>2 DEF MainPut, threadVars
  <2>2. mb_start \in Seq(Word) /\ toPut \in Seq(Word)
    BY DEF Typed, MainTyped
  <2>3. Len(mb_start') = Len(mb_start) + 1 /\ Len(toPut') = Len(toPut) - 1
    BY <2>1, <2>2
  <2>4. Pending' = Pending
    BY <2>2, <2>3 DEF Pending
  <2>5. Untaken' = Untaken
    BY <1>0, <2>4 DEF Untaken
  <2>6. \A t : Working(t)' = Working(t)
    BY <2>1 DEF Working
  <2>7. CASE phase = "put"
    BY <1>0, <2>1, <2>5, <2>6, <2>7, CountsKept
  <2>8. CASE phase = "terminate"
    BY <2>1, <2>8 DEF CalculationsCounted
  <2> QED
    BY <2>1, <2>7, <2>8
<1>3. CASE StartWaiting \/ MainGet
  <2>1. /\ phase \in {"put", "wait"} /\ phase' = "wait"
        /\ UNCHANGED <<mb_start, toPut, state, job, count, calcs, iteration>>
    BY <1>3 DEF StartWaiting, MainGet, threadVars
  <2>2. Untaken' = Untaken
    BY <1>0, <2>1 DEF Untaken, Pending
  <2>3. \A t : Working(t)' = Working(t)
    BY <2>1 DEF Working
  <2> QED
    BY <1>0, <2>1, <2>2, <2>3, CountsKept
<1>4. CASE EndIteration
  <2>1. /\ phase = "wait" /\ left = 0 /\ phase' \in {"start", "check"}
        /\ calcs' = calcs /\ iteration' = iteration + 1
    BY <1>4 DEF EndIteration
  <2>2. Untaken = 0 /\ \A t \in Threads : ~ Working(t)
    BY <2>1, NothingOutstanding DEF Protocol
  <2>3. simulation_steps \in Nat /\ conf.inThread \in Nat /\ iteration \in Nat
    BY ConfFacts DEF Typed, MainTyped
  <2>4. Base' = Base + conf.inThread
    <3>1. \A m, n \in Nat : (m + 1) * n = m * n + n
      OBVIOUS
    <3> QED
      BY <1>0, <2>1, <2>3, <3>1 DEF Base
  <2>5. \A b \in Blocks : ~ (b > simulation_steps - Untaken)
    BY <2>2, <2>3 DEF Blocks
  <2>6. conf.memory /\ conf.inThread >= 1 => \A b \in Blocks : calcs[b] = Base + conf.inThread
    BY <2>1, <2>2, <2>5 DEF CalculationsCounted, BlockCounted
  <2> QED
    BY <1>0, <2>1, <2>4, <2>6 DEF CalculationsCounted
<1>5. CASE StartTermination \/ MainJoin
  <2>1. phase' \in {"terminate", "done"}
    BY <1>5 DEF StartTermination, MainJoin
  <2> QED
    BY <2>1 DEF CalculationsCounted
<1>6. QED
  BY <1>1, <1>2, <1>3, <1>4, <1>5 DEF Main

(* What the steps that take a word leave alone. *)
LEMMA TakesTouchOne ==
  ASSUME Typed, NEW t \in Threads, SwGetPointer(t) \/ HwGetAddr(t) \/ HwReadIterations(t)
  PROVE  /\ UNCHANGED <<phase, iteration, left, toPut, mb_stop, ram, memory, cached, dirty, calcs>>
         /\ state[t] \in {"GET_ADDR", "READ_ITERATIONS"} /\ mb_start # <<>>
         /\ ~ Working(t)
         /\ \A u \in Threads \ {t} : /\ state'[u] = state[u] /\ job'[u] = job[u] /\ count'[u] = count[u]
                                     /\ Working(u)' = Working(u)
<1>1. /\ UNCHANGED <<phase, iteration, left, toPut, mb_stop, ram, memory, cached, dirty, calcs>>
      /\ state[t] \in {"GET_ADDR", "READ_ITERATIONS"} /\ mb_start # <<>>
  BY DEF SwGetPointer, HwGetAddr, HwReadIterations, mainVars, memoryVars
<1>2. ~ Working(t)
  BY <1>1 DEF Working, WorkingStates
<1>3. state \in [Threads -> States] /\ job \in [Threads -> Word] /\ count \in [Threads -> Int]
  BY DEF Typed, ThreadsTyped
<1>4. \A u \in Threads \ {t} : state'[u] = state[u] /\ job'[u] = job[u] /\ count'[u] = count[u]
  <2>1. CASE SwGetPointer(t)
    BY <1>3, <2>1 DEF SwGetPointer
  <2>2. CASE HwGetAddr(t)
    BY <1>3, <2>2 DEF HwGetAddr
  <2>3. CASE HwReadIterations(t)
    BY <1>3, <2>3 DEF HwReadIterations
  <2> QED
    BY <2>1, <2>2, <2>3
<1>5. QED
  BY <1>1, <1>2, <1>4 DEF Working

(* So does every thread. *)
LEMMA ThreadCounts ==
  ASSUME ProtocolInv, ProtocolInv', [Next]_vars, CalculationsCounted, NEW t \in Threads, Thread(t)
  PROVE  CalculationsCounted'
<1> USE DEF ProtocolInv
<1>0. conf' = conf /\ Threads' = Threads /\ Blocks' = Blocks /\ simulation_steps' = simulation_steps
      /\ Plain' = Plain
  BY ConfKept
<1> SUFFICES ASSUME conf.memory, conf.inThread >= 1 PROVE CalculationsCounted'
  BY <1>0 DEF CalculationsCounted
<1>1. /\ state \in [Threads -> States] /\ count \in [Threads -> Int] /\ calcs \in [Blocks -> Nat]
  BY DEF Typed, ThreadsTyped, MemoryTyped
<1>2. CASE SwGetPointer(t) \/ HwGetAddr(t) \/ HwReadIterations(t)
  <2>1. /\ phase' = phase /\ mb_start # <<>> /\ UNCHANGED <<calcs, iteration>> /\ ~ Working(t)
        /\ \A u \in Threads \ {t} : /\ Working(u)' = Working(u) /\ job'[u] = job[u]
                                    /\ count'[u] = count[u]
    BY <1>2, TakesTouchOne
  <2>2. phase \in {"put", "wait"} \/ phase \in {"start", "check"} \/ phase \in {"terminate", "done"}
    BY DEF Typed, MainTyped
  <2>3. CASE phase \in {"put", "wait"}
    <3>1. /\ Untaken' = Untaken \/ Untaken' = Untaken - 1
          /\ Untaken' = Untaken => ~ Working(t)'
          /\ Untaken' = Untaken - 1 =>
               /\ Untaken \in 1..simulation_steps /\ Working(t)'
               /\ job'[t] = Ptr(simulation_steps - Untaken + 1)
               /\ t[1] = "sw" => count'[t] = conf.inThread
               /\ t[1] = "hw" => count'[t] = (IF Iterating THEN conf.inThread - 1 ELSE 0)
      BY <1>2, <2>3, TakeActions DEF Protocol
    <3>2. CASE Untaken' = Untaken
      <4>1. \A u \in Threads : Working(u)' = Working(u)
        BY <2>1, <3>1, <3>2 DEF Working
      <4>2. \A u \in Threads : Working(u) => job'[u] = job[u] /\ count'[u] = count[u]
        BY <2>1
      <4> QED
        BY <1>0, <2>1, <2>3, <3>2, <4>1, <4>2, CountsKept
    <3>3. CASE Untaken' = Untaken - 1
      <4>1. t[1] \in {"hw", "sw"} /\ (t[1] = "hw" => conf.hw > 0)
        BY ThreadFacts DEF Typed
      <4>2. /\ conf.inThread \in Nat
            /\ Plain \/ Double \/ Iterating
            /\ Double => conf.hw = 0
            /\ Plain => (conf.hw > 0 => conf.inThread <= 1)
        BY ConfFacts DEF Typed
      <4>3. count'[t] \in Nat /\ Remaining(t)' = conf.inThread
        <5>1. CASE t[1] = "sw"
          BY <3>1, <3>3, <4>2, <5>1 DEF Remaining
        <5>2. CASE t[1] = "hw"
          <6>1. count'[t] = (IF Iterating THEN conf.inThread - 1 ELSE 0)
            BY <3>1, <3>3, <5>2
          <6>2. ~ Iterating => conf.inThread = 1
            BY <4>1, <4>2, <5>2
          <6>3. count'[t] = conf.inThread - 1
            BY <4>2, <6>1, <6>2
          <6> QED
            BY <4>2, <5>2, <6>3 DEF Remaining
        <5> QED
          BY <4>1, <5>1, <5>2
      <4> QED
        BY <2>1, <2>3, <3>1, <3>3, <4>3, CountsDelivered
    <3> QED
      BY <3>1, <3>2, <3>3
  <2>4. CASE phase \in {"start", "check"}
    BY <2>1, <2>4 DEF Protocol, Resting
  <2>5. CASE phase \in {"terminate", "done"}
    BY <2>1, <2>5 DEF CalculationsCounted
  <2> QED
    BY <2>2, <2>3, <2>4, <2>5
<1>3. CASE SwCalculate(t) \/ SwEnd(t) \/ SwAck(t) \/ HwRead(t) \/ HwEval(t) \/ HwWrite(t) \/ HwAck(t)
  <2>1. Busy(t)
    BY <1>3 DEF SwCalculate, SwEnd, SwAck, HwRead, HwEval, HwWrite, HwAck, Busy, Working, WorkingStates
  <2>2. phase \in {"put", "wait"} /\ Iteration /\ job[t].arg \in Blocks /\ job[t].op = "block"
    BY <2>1, BusyFacts
  <2>3. UNCHANGED <<phase, iteration, mb_start, toPut, job>>
    BY <1>3 DEF SwCalculate, SwEnd, SwAck, HwRead, HwEval, HwWrite, HwAck, mainVars
  <2>4. Untaken' = Untaken
    BY <1>0, <2>3 DEF Untaken, Pending
  <2>5. Working(t) => ThreadCounted(t)
    BY <2>2 DEF CalculationsCounted
  <2>6. CASE SwCalculate(t)
    <3>1. /\ state' = state /\ count' = [count EXCEPT ![t] = @ - 1] /\ t[1] = "sw" /\ state[t] = "CALC"
          /\ calcs' = [calcs EXCEPT ![job[t].arg] = @ + 1] /\ count[t] > 0
      BY <2>6 DEF SwCalculate
    <3>2. Working(t) /\ \A u : Working(u)' = Working(u)
      BY <3>1 DEF Working, WorkingStates
    <3>3. count[t] \in Nat
      BY <2>5, <3>2 DEF ThreadCounted
    <3>4. count'[t] = count[t] - 1 /\ \A u \in Threads \ {t} : count'[u] = count[u]
      BY <1>1, <3>1
    <3>5. count'[t] \in Nat /\ Remaining(t)' = Remaining(t) - 1
      BY <3>1, <3>3, <3>4 DEF Remaining
    <3> QED
      BY <1>0, <2>2, <2>3, <2>4, <3>1, <3>2, <3>4, <3>5, CountsCalculated
  <2>7. CASE SwEnd(t)
    <3>1. /\ state' = [state EXCEPT ![t] = "ACK"] /\ count' = count /\ calcs' = calcs
          /\ t[1] = "sw" /\ state[t] = "CALC" /\ count[t] <= 0
      BY <2>7 DEF SwEnd
    <3>2. /\ Working(t) /\ ~ Working(t)'
          /\ \A u \in Threads \ {t} : Working(u)' = Working(u) /\ count'[u] = count[u]
      BY <1>1, <3>1 DEF Working, WorkingStates
    <3>3. Remaining(t) = 0
      BY <2>5, <3>1, <3>2 DEF ThreadCounted, Remaining
    <3>4. calcs' = [calcs EXCEPT ![job[t].arg] = @ + 0]
      BY <1>1, <2>2, <3>1
    <3> QED
      BY <1>0, <2>2, <2>3, <2>4, <3>2, <3>3, <3>4, CountsCalculated
  <2>8. CASE SwAck(t) \/ HwAck(t)
    <3>1. /\ state' = [state EXCEPT ![t] = "GET_ADDR"] \/ state' = state
          /\ count' = count /\ calcs' = calcs /\ state[t] = "ACK"
      BY <2>8 DEF SwAck, HwAck
    <3>2. \A u \in Threads : Working(u)' = Working(u)
      BY <1>1, <3>1 DEF Working, WorkingStates
    <3> QED
      BY <1>0, <2>2, <2>3, <2>4, <3>1, <3>2, CountsKept
  <2>9. CASE HwRead(t) \/ HwEval(t)
    <3>1. /\ state' = [state EXCEPT ![t] = "STARTING"] \/ state' = [state EXCEPT ![t] = "WRITE"]
          /\ count' = count /\ calcs' = calcs /\ state[t] \in {"READ", "STARTING"}
      BY <2>9 DEF HwRead, HwEval
    <3>2. \A u \in Threads : Working(u)' = Working(u)
      BY <1>1, <3>1 DEF Working, WorkingStates
    <3> QED
      BY <1>0, <2>2, <2>3, <2>4, <3>1, <3>2, CountsKept
  <2>10. CASE HwWrite(t)
    <3>1. job[t] # WITHOUT_MEMORY
      BY <2>2 DEF WITHOUT_MEMORY
    <3>2. /\ t[1] = "hw" /\ state[t] = "WRITE"
          /\ calcs' = [calcs EXCEPT ![job[t].arg] = @ + 1]
          /\ state' = [state EXCEPT ![t] = IF count[t] = 0 THEN "ACK" ELSE "READ"]
          /\ count' = [count EXCEPT ![t] = IF @ = 0 THEN @ ELSE @ - 1]
      BY <2>10, <3>1 DEF HwWrite
    <3>3. Working(t)
      BY <3>2 DEF Working, WorkingStates
    <3>4. count[t] \in Nat
      BY <2>5, <3>3 DEF ThreadCounted
    <3>5. \A u \in Threads \ {t} : Working(u)' = Working(u) /\ count'[u] = count[u]
      BY <1>1, <3>2 DEF Working
    <3>6. /\ count'[t] = IF count[t] = 0 THEN 0 ELSE count[t] - 1
          /\ state'[t] = IF count[t] = 0 THEN "ACK" ELSE "READ"
      BY <1>1, <3>2
    <3>7. IF Working(t)' THEN count'[t] \in Nat /\ Remaining(t)' = Remaining(t) - 1
                         ELSE Remaining(t) = 1
      BY <3>2, <3>4, <3>6 DEF Working, WorkingStates, Remaining
    <3> QED
      BY <1>0, <2>2, <2>3, <2>4, <3>2, <3>3, <3>5, <3>7, CountsCalculated
  <2> QED
    BY <1>3, <2>6, <2>7, <2>8, <2>9, <2>10
<1>4. QED
  BY <1>2, <1>3 DEF Thread

(* Every step keeps the count. *)
LEMMA CountsStep ==
  ASSUME ProtocolInv, ProtocolInv', CalculationsCounted, [Next]_vars
  PROVE  CalculationsCounted'
<1>0. conf' = conf /\ Threads' = Threads /\ Blocks' = Blocks /\ simulation_steps' = simulation_steps
      /\ Plain' = Plain
  BY ConfKept
<1>1. CASE Main
  BY <1>1, MainCounts
<1>2. ASSUME NEW t \in Threads, Thread(t) PROVE CalculationsCounted'
  BY <1>2, ThreadCounts
<1>3. CASE UNCHANGED <<phase, iteration, mb_start, toPut, state, job, count, calcs>>
  <2>1. Untaken' = Untaken
    BY <1>0, <1>3 DEF Untaken, Pending
  <2>2. \A t : Working(t)' = Working(t)
    BY <1>3 DEF Working
  <2>3. Base' = Base
    BY <1>0, <1>3 DEF Base
  <2>4. phase \in {"put", "wait"} => CalculationsCounted'
    BY <1>0, <1>3, <2>1, <2>2, CountsKept
  <2>5. phase \notin {"put", "wait"} => CalculationsCounted'
    BY <1>0, <1>3, <2>3 DEF CalculationsCounted
  <2> QED
    BY <2>4, <2>5
<1>4. ASSUME NEW b \in Blocks, CacheLoad(b) \/ CacheReplace(b) PROVE CalculationsCounted'
  <2>1. UNCHANGED <<phase, iteration, mb_start, toPut, state, job, count, calcs>>
    BY <1>4 DEF CacheLoad, CacheReplace, mainVars, threadVars
  <2> QED
    BY <1>3, <2>1
<1>5. CASE UNCHANGED vars
  <2>1. UNCHANGED <<phase, iteration, mb_start, toPut, state, job, count, calcs>>
    BY <1>5 DEF vars, mainVars, threadVars
  <2> QED
    BY <1>3, <2>1
<1>6. QED
  BY <1>1, <1>2, <1>4, <1>5 DEF Next

(* Nothing is calculated initially. *)
LEMMA CountsInitially == Init => CalculationsCounted
<1> SUFFICES ASSUME Init PROVE CalculationsCounted
  OBVIOUS
<1>1. conf.inThread \in Nat
  BY ConfFacts DEF Init
<1>2. Base = 0
  BY <1>1 DEF Init, Base
<1>3. phase = "start" /\ \A b \in Blocks : calcs[b] = 0
  BY DEF Init
<1>4. QED
  BY <1>2, <1>3 DEF CalculationsCounted

(* The count of the calculations is an invariant. *)
LEMMA CountsAlways == Spec => [](ProtocolInv /\ CalculationsCounted)
<1>1. Init => CalculationsCounted
  BY CountsInitially
<1>2. ProtocolInv /\ ProtocolInv' /\ CalculationsCounted /\ [Next]_vars => CalculationsCounted'
  BY CountsStep
<1>3. QED
  BY <1>1, <1>2, ProtocolAlways, PTL DEF Spec

(* Between two iterations every block has been calculated as often as       *)
(* --iterations and --iterations-in-thread ask, by whichever software or    *)
(* hardware threads took it, and nothing is left in the mailboxes or in a   *)
(* thread.                                                                  *)
THEOREM EveryBlockCalculatedAsAsked == Spec => []CalculatedAsAsked
<1>1. ProtocolInv /\ CalculationsCounted => CalculatedAsAsked
  BY DEF ProtocolInv, Protocol, Resting, CalculationsCounted, Base, CalculatedAsAsked
<1>2. QED
  BY <1>1, CountsAlways, PTL

-----------------------------------------------------------------------------
(* Steps that leave the memories alone and give no thread a block. *)
LEMMA CachesKept ==
  ASSUME conf' = conf, Threads' = Threads, Blocks' = Blocks, simulation_steps' = simulation_steps,
         CachesCoherent, phase \in {"put", "wait"}, phase' \in {"put", "wait"},
         UNCHANGED <<calcs, memory, cached, dirty, ram>>, Untaken' = Untaken,
         \A t \in Threads : Working(t)' =>
           /\ Working(t) /\ job'[t] = job[t]
           /\ state'[t] \in {"STARTING", "WRITE"} => state[t] \in {"STARTING", "WRITE"}
  PROVE  CachesCoherent'
<1> SUFFICES ASSUME Flushed PROVE CachesCoherent'
  BY DEF CachesCoherent, Flushed
<1>1. \A b : LatestCopy(b)' = LatestCopy(b)
  BY DEF LatestCopy, Current
<1>2. \A b : Coherent(b)' = Coherent(b)
  BY DEF Coherent
<1>3. \A t \in Threads : Working(t)' => ThreadSees(t)'
  <2> SUFFICES ASSUME NEW t \in Threads, Working(t)' PROVE ThreadSees(t)'
    OBVIOUS
  <2>1. ThreadSees(t)
    BY DEF CachesCoherent
  <2>2. job'[t].arg = job[t].arg
    OBVIOUS
  <2>3. Coherent(job[t].arg)' = Coherent(job[t].arg)
    BY <2>2 DEF Coherent
  <2> QED
    BY <2>1, <2>2, <2>3 DEF ThreadSees
<1>4. QED
  BY <1>1, <1>2, <1>3 DEF CachesCoherent

(* A flush brings the last results of every block into main memory. *)
LEMMA FlushCoherent ==
  ASSUME Blocks' = Blocks, UNCHANGED calcs, reconos_cache_flush, \A b \in Blocks : LatestCopy(b)
  PROVE  /\ \A b \in Blocks : LatestCopy(b)' /\ Coherent(b)'
         /\ dirty' = {}
<1>1. dirty' = {} /\ \A b \in Blocks : /\ memory'[b] = IF b \in dirty THEN cached[b] ELSE memory[b]
                                       /\ cached'[b] = NoCopy
  BY DEF reconos_cache_flush, WrittenBack
<1>2. \A b \in Blocks : Coherent(b)'
  BY <1>1 DEF Coherent
<1>3. \A b \in Blocks : LatestCopy(b)'
  BY <1>1 DEF LatestCopy, Current
<1>4. QED
  BY <1>1, <1>2, <1>3

(* Main flushes what it sends to hardware and invalidates what it reads *)
(* back.                                                                *)
LEMMA MainCaches ==
  ASSUME ProtocolInv, [Next]_vars, CachesCoherent, Main
  PROVE  CachesCoherent'
<1> USE DEF ProtocolInv
<1>0. /\ conf' = conf /\ Threads' = Threads /\ Blocks' = Blocks /\ simulation_steps' = simulation_steps
      /\ Plain' = Plain /\ Flushed' = Flushed
  BY ConfKept DEF Flushed
<1> SUFFICES ASSUME Flushed PROVE CachesCoherent'
  BY <1>0 DEF CachesCoherent
<1>1. /\ conf.hw > 0 => conf.reconos /\ conf.flush
      /\ conf.hw \in Nat
  BY ConfFacts DEF Typed, Flushed
<1>2. CASE StartIteration
  <2>1. /\ phase = "start" /\ phase' = "put" /\ UNCHANGED <<calcs, state>>
        /\ IF conf.reconos /\ conf.flush THEN reconos_cache_flush ELSE UNCHANGED <<memory, cached, dirty>>
    BY <1>2 DEF StartIteration, threadVars, memoryVars
  <2>2. \A t \in Threads : ~ Working(t)'
    BY <2>1 DEF Protocol, Resting, Working, WorkingStates
  <2>3. \A b \in Blocks : LatestCopy(b)
    BY <2>1 DEF CachesCoherent
  <2>4. CASE conf.reconos /\ conf.flush
    <3>1. /\ \A b \in Blocks : LatestCopy(b)' /\ Coherent(b)'
          /\ dirty' = {}
      BY <1>0, <2>1, <2>3, <2>4, FlushCoherent
    <3> QED
      BY <1>0, <2>1, <2>2, <3>1 DEF CachesCoherent
  <2>5. CASE ~ (conf.reconos /\ conf.flush)
    <3>1. conf.hw = 0 /\ UNCHANGED <<memory, cached, dirty>>
      BY <1>1, <2>1, <2>5
    <3>2. \A b \in Blocks : Coherent(b)
      BY <2>1, <3>1 DEF CachesCoherent
    <3>3. \A b \in Blocks : LatestCopy(b)' /\ Coherent(b)'
      BY <2>1, <2>3, <3>1, <3>2 DEF LatestCopy, Current, Coherent
    <3> QED
      BY <1>0, <2>1, <2>2, <3>1, <3>3 DEF CachesCoherent
  <2> QED
    BY <2>4, <2>5
<1>3. CASE MainPut
  <2>1. /\ toPut # <<>> /\ mb_start' = Append(mb_start, Head(toPut)) /\ toPut' = Tail(toPut)
        /\ phase' = phase /\ phase \in {"put", "terminate"}
        /\ UNCHANGED <<state, job, ram, calcs, memory, cached, dirty>>
    BY <1>3 DEF MainPut, threadVars, memoryVars
  <2>2. mb_start \in Seq(Word) /\ toPut \in Seq(Word)
    BY DEF Typed, MainTyped
  <2>3. Len(mb_start') = Len(mb_start) + 1 /\ Len(toPut') = Len(toPut) - 1
    BY <2>1, <2>2
  <2>4. Pending' = Pending
    BY <2>2, <2>3 DEF Pending
  <2>5. Untaken' = Untaken
    BY <1>0, <2>4 DEF Untaken
  <2>6. \A t : Working(t)' = Working(t)
    BY <2>1 DEF Working
  <2>7. CASE phase = "put"
    BY <1>0, <2>1, <2>5, <2>6, <2>7, CachesKept
  <2>8. CASE phase = "terminate"
    BY <2>1, <2>8 DEF CachesCoherent
  <2> QED
    BY <2>1, <2>7, <2>8
<1>4. CASE StartWaiting \/ MainGet
  <2>1. /\ phase \in {"put", "wait"} /\ phase' = "wait"
        /\ UNCHANGED <<mb_start, toPut, state, job, ram, calcs, memory, cached, dirty>>
    BY <1>4 DEF StartWaiting, MainGet, threadVars, memoryVars
  <2>2. Untaken' = Untaken
    BY <1>0, <2>1 DEF Untaken, Pending
  <2>3. \A t : Working(t)' = Working(t)
    BY <2>1 DEF Working
  <2> QED
    BY <1>0, <2>1, <2>2, <2>3, CachesKept
<1>5. CASE EndIteration
  <2>1. /\ phase = "wait" /\ phase' \in {"start", "check"} /\ calcs' = calcs
        /\ IF phase' = "check" /\ conf.reconos
           THEN reconos_cache_flush ELSE UNCHANGED <<memory, cached, dirty>>
    BY <1>5 DEF EndIteration, memoryVars
  <2>2. /\ \A b \in Blocks : LatestCopy(b)
        /\ conf.hw = 0 => \A b \in Blocks : Coherent(b)
    BY <2>1 DEF CachesCoherent
  <2>3. CASE phase' = "check" /\ conf.reconos
    <3>1. \A b \in Blocks : LatestCopy(b)' /\ Coherent(b)'
      BY <1>0, <2>1, <2>2, <2>3, FlushCoherent
    <3> QED
      BY <1>0, <2>1, <3>1 DEF CachesCoherent
  <2>4. CASE ~ (phase' = "check" /\ conf.reconos)
    <3>1. UNCHANGED <<memory, cached, dirty>>
      BY <2>1, <2>4
    <3>2. /\ \A b \in Blocks : LatestCopy(b)'
          /\ conf.hw = 0 => \A b \in Blocks : Coherent(b)'
      BY <2>1, <2>2, <3>1 DEF LatestCopy, Current, Coherent
    <3>3. phase' = "check" => conf.hw = 0
      BY <1>1, <2>4
    <3> QED
      BY <1>0, <2>1, <3>2, <3>3 DEF CachesCoherent
  <2> QED
    BY <2>3, <2>4
<1>6. CASE StartTermination \/ MainJoin
  <2>1. phase' \in {"terminate", "done"}
    BY <1>6 DEF StartTermination, MainJoin
  <2> QED
    BY <2>1 DEF CachesCoherent
<1>7. QED
  BY <1>2, <1>3, <1>4, <1>5, <1>6 DEF Main

(* Taking a block finds it where it was flushed to. *)
LEMMA TakesSeeMemory ==
  ASSUME ProtocolInv, ProtocolInv', [Next]_vars, CachesCoherent, NEW t \in Threads,
         SwGetPointer(t) \/ HwGetAddr(t) \/ HwReadIterations(t)
  PROVE  CachesCoherent'
<1> USE DEF ProtocolInv
<1>0. /\ conf' = conf /\ Threads' = Threads /\ Blocks' = Blocks /\ simulation_steps' = simulation_steps
      /\ Plain' = Plain /\ Flushed' = Flushed
  BY ConfKept DEF Flushed
<1> SUFFICES ASSUME Flushed PROVE CachesCoherent'
  BY <1>0 DEF CachesCoherent
<1>1. /\ phase' = phase /\ mb_start # <<>> /\ UNCHANGED <<calcs, memory, cached, dirty, ram>> /\ ~ Working(t)
      /\ \A u \in Threads \ {t} : /\ Working(u)' = Working(u) /\ job'[u] = job[u] /\ state'[u] = state[u]
  BY TakesTouchOne
<1>2. phase \in {"put", "wait"} \/ phase \in {"start", "check"} \/ phase \in {"terminate", "done"}
  BY DEF Typed, MainTyped
<1>3. CASE phase \in {"put", "wait"}
  <2>1. /\ Untaken' = Untaken \/ Untaken' = Untaken - 1
        /\ Untaken' = Untaken => ~ Working(t)'
        /\ Untaken' = Untaken - 1 =>
             /\ Untaken \in 1..simulation_steps
             /\ job'[t] = Ptr(simulation_steps - Untaken + 1)
             /\ t[1] = "hw" => state'[t] = "READ"
    BY <1>3, TakeActions DEF Protocol
  <2>2. CASE Untaken' = Untaken
    BY <1>0, <1>1, <1>3, <2>1, <2>2, CachesKept
  <2>3. CASE Untaken' = Untaken - 1
    <3>1. /\ \A b \in Blocks : LatestCopy(b)
          /\ conf.hw = 0 => \A b \in Blocks : Coherent(b)
          /\ \A b \in Blocks : b > simulation_steps - Untaken => Coherent(b) /\ (conf.hw > 0 => b \notin dirty)
          /\ \A u \in Threads : Working(u) => ThreadSees(u)
      BY <1>3 DEF CachesCoherent
    <3>2. \A b : LatestCopy(b)' = LatestCopy(b)
      BY <1>1 DEF LatestCopy, Current
    <3>3. \A b : Coherent(b)' = Coherent(b)
      BY <1>1 DEF Coherent
    <3>4. simulation_steps \in Nat /\ Untaken \in 1..simulation_steps
      BY <2>1, <2>3, ConfFacts DEF Typed
    <3>5. \A b \in Blocks : b > simulation_steps' - Untaken' =>
                              Coherent(b)' /\ (conf.hw > 0 => b \notin dirty')
      <4>1. \A b \in Blocks : b > simulation_steps' - Untaken' => b > simulation_steps - Untaken
        BY <1>0, <2>3, <3>4 DEF Blocks
      <4> QED
        BY <1>1, <3>1, <3>3, <4>1
    <3>6. PICK a \in Blocks : a = simulation_steps - Untaken + 1 /\ a > simulation_steps - Untaken
      BY <3>4 DEF Blocks
    <3>7. job'[t].arg = a
      BY <2>1, <2>3, <3>6 DEF Ptr, Block, Flushed
    <3>8. Coherent(a) /\ (conf.hw > 0 => a \notin dirty)
      BY <3>1, <3>6
    <3>9. ThreadSees(t)'
      <4>1. t[1] \in {"hw", "sw"} /\ (t[1] = "hw" => conf.hw > 0)
        BY ThreadFacts DEF Typed
      <4>2. t[1] = "sw" => Coherent(job[t].arg)'
        BY <1>1, <3>7, <3>8 DEF Coherent
      <4>3. t[1] = "hw" => job'[t].arg \notin dirty' /\ state'[t] \notin {"STARTING", "WRITE"}
        BY <1>1, <2>1, <2>3, <3>7, <3>8, <4>1
      <4> QED
        BY <4>1, <4>2, <4>3 DEF ThreadSees
    <3>10. ASSUME NEW u \in Threads, Working(u)' PROVE ThreadSees(u)'
      <4>1. CASE u = t
        BY <3>9, <4>1
      <4>2. CASE u # t
        <5>1. ThreadSees(u) /\ job'[u] = job[u] /\ state'[u] = state[u]
          BY <1>1, <3>1, <3>10, <4>2
        <5>2. Coherent(job[u].arg)' = Coherent(job[u].arg)
          BY <1>1, <5>1 DEF Coherent
        <5> QED
          BY <1>1, <5>1, <5>2 DEF ThreadSees
      <4> QED
        BY <4>1, <4>2
    <3> QED
      BY <1>0, <1>1, <1>3, <3>1, <3>2, <3>3, <3>5, <3>10 DEF CachesCoherent
  <2> QED
    BY <2>1, <2>2, <2>3
<1>4. CASE phase \in {"start", "check"}
  BY <1>1, <1>4 DEF Protocol, Resting
<1>5. CASE phase \in {"terminate", "done"}
  BY <1>1, <1>5 DEF CachesCoherent
<1>6. QED
  BY <1>2, <1>3, <1>4, <1>5

(* A thread works on its block; the blocks of the others are not its.      *)
LEMMA OwnBlockOnly ==
  ASSUME Typed, Iteration, conf.memory, NEW t \in Threads, Working(t)
  PROVE  /\ job[t].arg \in Blocks /\ job[t].arg <= simulation_steps - Untaken
         /\ \A u \in Threads \ {t} : Working(u) => job[u].arg # job[t].arg /\ job[u].arg \in Blocks
         /\ simulation_steps \in Nat /\ Untaken \in Nat
<1>1. simulation_steps \in Nat /\ Untaken \in Nat
  BY ConfFacts, ProtocolNumbers DEF Typed
<1>2. \A u \in Threads : Working(u) => job[u].arg \in 1..(simulation_steps - Untaken)
  BY DEF Iteration, JobOk, Busy
<1>3. \A u \in Threads \ {t} : Working(u) => job[u].arg # job[t].arg
  BY DEF Iteration, JobsDistinct
<1>4. \A u \in Threads : Working(u) => job[u].arg \in Blocks
  BY <1>1, <1>2 DEF Blocks
<1>5. QED
  BY <1>1, <1>2, <1>3, <1>4

(* Software sees the last results of its block. *)
LEMMA SoftwareSees ==
  ASSUME Typed, NEW b \in Blocks, LatestCopy(b), Coherent(b)
  PROVE  View(b).input /\ View(b).output.calculation = calcs[b]
<1>1. b \in dirty => cached[b] # NoCopy
  BY DEF Typed, MemoryTyped
<1>2. QED
  BY <1>1 DEF LatestCopy, Coherent, Current, View

(* Working on a block leaves the copies of the others alone. *)
LEMMA BusyCaches ==
  ASSUME ProtocolInv, ProtocolInv', [Next]_vars, CachesCoherent, NEW t \in Threads,
         SwCalculate(t) \/ SwEnd(t) \/ SwAck(t) \/ HwRead(t) \/ HwEval(t) \/ HwWrite(t) \/ HwAck(t)
  PROVE  CachesCoherent'
<1> USE DEF ProtocolInv
<1>0. /\ conf' = conf /\ Threads' = Threads /\ Blocks' = Blocks /\ simulation_steps' = simulation_steps
      /\ Plain' = Plain /\ Flushed' = Flushed
  BY ConfKept DEF Flushed
<1> SUFFICES ASSUME Flushed PROVE CachesCoherent'
  BY <1>0 DEF CachesCoherent
<1>1. /\ state \in [Threads -> States] /\ ram \in [Threads -> BOOLEAN]
      /\ calcs \in [Blocks -> Nat] /\ dirty \in SUBSET Blocks
      /\ memory \in [Blocks -> BlockContent] /\ cached \in [Blocks -> BlockContent]
  BY DEF Typed, ThreadsTyped, MemoryTyped
<1>2. Busy(t)
  BY DEF SwCalculate, SwEnd, SwAck, HwRead, HwEval, HwWrite, HwAck, Busy, Working, WorkingStates
<1>3. conf.memory /\ phase \in {"put", "wait"} /\ Iteration /\ job[t].arg \in Blocks /\ job[t].op = "block"
  BY <1>2, BusyFacts DEF Flushed
<1>4. UNCHANGED <<phase, mb_start, toPut, job>>
  BY DEF SwCalculate, SwEnd, SwAck, HwRead, HwEval, HwWrite, HwAck, mainVars
<1>5. Untaken' = Untaken
  BY <1>0, <1>4 DEF Untaken, Pending
<1>6. /\ \A b \in Blocks : LatestCopy(b)
      /\ conf.hw = 0 => \A b \in Blocks : Coherent(b)
      /\ \A b \in Blocks : b > simulation_steps - Untaken => Coherent(b) /\ (conf.hw > 0 => b \notin dirty)
      /\ \A u \in Threads : Working(u) => ThreadSees(u)
  BY <1>3 DEF CachesCoherent
<1>7. job[t] # WITHOUT_MEMORY
  BY <1>3 DEF WITHOUT_MEMORY
<1>8. t[1] = "hw" => conf.hw > 0 /\ conf.hw # 0
  BY ThreadFacts, ConfFacts DEF Typed
<1>9. PICK a \in Blocks : a = job[t].arg
  BY <1>3
<1>10. Working(t) => /\ a <= simulation_steps - Untaken
                     /\ \A u \in Threads \ {t} : Working(u) => job[u].arg # a /\ job[u].arg \in Blocks
                     /\ simulation_steps \in Nat /\ Untaken \in Nat
  BY <1>3, <1>9, OwnBlockOnly
<1>11. CASE SwCalculate(t)
  <2>1. t[1] = "sw" /\ state[t] = "CALC" /\ Working(t) /\ UNCHANGED <<state, ram, memory>>
    BY <1>11 DEF SwCalculate, Working, WorkingStates
  <2>2. Coherent(a)
    BY <1>6, <1>9, <2>1 DEF ThreadSees
  <2>3. View(a).input
    BY <1>6, <2>2, SoftwareSees
  <2>4. /\ cached' = [cached EXCEPT ![a] = Content(TRUE, [calculation |-> calcs[a] + 1, ram |-> "dx"])]
        /\ dirty' = dirty \union {a}
        /\ calcs' = [calcs EXCEPT ![a] = calcs[a] + 1]
    <3>1. /\ cached' = [cached EXCEPT ![a] = Content(View(a).input, [calculation |-> IF View(a).input THEN calcs[a] + 1 ELSE 0, ram |-> "dx"])]
          /\ dirty' = dirty \union {a}
          /\ calcs' = [calcs EXCEPT ![a] = calcs[a] + 1]
      BY <1>9, <1>11 DEF SwCalculate
    <3>2. View(a).input = TRUE
      <4>1. View(a).input \in BOOLEAN
        BY <1>1 DEF View, BlockContent
      <4> QED
        BY <2>3, <4>1
    <3> QED
      BY <3>1, <3>2
  <2>5. /\ cached'[a] = Content(TRUE, [calculation |-> calcs[a] + 1, ram |-> "dx"])
        /\ calcs'[a] = calcs[a] + 1
        /\ \A b \in Blocks \ {a} : cached'[b] = cached[b] /\ calcs'[b] = calcs[b]
    BY <1>1, <2>4
  <2>6. \A b \in Blocks : LatestCopy(b)'
    <3>1. LatestCopy(a)'
      BY <2>4, <2>5 DEF LatestCopy, Current, Content
    <3>2. \A b \in Blocks \ {a} : LatestCopy(b)'
      BY <1>6, <2>1, <2>4, <2>5 DEF LatestCopy, Current
    <3> QED
      BY <3>1, <3>2
  <2>7. Coherent(a)' /\ \A b \in Blocks \ {a} : Coherent(b)' = Coherent(b)
    BY <2>1, <2>4, <2>5 DEF Coherent
  <2>8. \A b \in Blocks : b > simulation_steps - Untaken => b # a
    BY <1>10, <2>1 DEF Blocks
  <2>9. \A b \in Blocks : b > simulation_steps - Untaken => Coherent(b)' /\ (conf.hw > 0 => b \notin dirty')
    BY <1>6, <2>4, <2>7, <2>8
  <2>10. conf.hw = 0 => \A b \in Blocks : Coherent(b)'
    BY <1>6, <2>7
  <2>11. ASSUME NEW u \in Threads, Working(u)' PROVE ThreadSees(u)'
    <3>1. Working(u)
      BY <2>1, <2>11 DEF Working
    <3>2. CASE u = t
      BY <1>4, <1>9, <2>1, <2>7, <3>2 DEF ThreadSees, Coherent
    <3>3. CASE u # t
      <4>1. job[u].arg # a /\ job[u].arg \in Blocks /\ ThreadSees(u)
        BY <1>6, <1>10, <2>1, <3>1, <3>3
      <4>2. Coherent(job[u].arg)' = Coherent(job[u].arg)
        BY <1>4, <2>1, <2>4, <2>5, <4>1 DEF Coherent
      <4> QED
        BY <1>4, <2>1, <2>4, <4>1, <4>2 DEF ThreadSees
    <3> QED
      BY <3>2, <3>3
  <2> QED
    BY <1>0, <1>3, <1>4, <1>5, <2>6, <2>9, <2>10, <2>11 DEF CachesCoherent
<1>12. CASE SwEnd(t) \/ SwAck(t) \/ HwEval(t) \/ HwAck(t)
  <2>1. /\ \/ state' = state
           \/ state' = [state EXCEPT ![t] = "ACK"] \/ state' = [state EXCEPT ![t] = "GET_ADDR"]
           \/ state' = [state EXCEPT ![t] = "WRITE"] /\ state[t] = "STARTING"
        /\ UNCHANGED <<ram, calcs, memory, cached, dirty>>
    BY <1>12 DEF SwEnd, SwAck, HwEval, HwAck, memoryVars
  <2>2. \A u \in Threads : Working(u)' =>
           /\ Working(u) /\ job'[u] = job[u]
           /\ state'[u] \in {"STARTING", "WRITE"} => state[u] \in {"STARTING", "WRITE"}
    BY <1>1, <1>4, <2>1 DEF Working, WorkingStates
  <2> QED
    BY <1>0, <1>3, <1>4, <1>5, <2>1, <2>2, CachesKept
<1>13. CASE HwRead(t)
  <2>1. /\ t[1] = "hw" /\ state[t] = "READ" /\ ram' = [ram EXCEPT ![t] = memory[a].input]
        /\ state' = [state EXCEPT ![t] = "STARTING"]
        /\ UNCHANGED <<calcs, memory, cached, dirty>>
    BY <1>7, <1>9, <1>13 DEF HwRead, memoryVars
  <2>2. Working(t)
    BY <2>1 DEF Working, WorkingStates
  <2>3. a \notin dirty
    BY <1>6, <1>9, <2>1, <2>2 DEF ThreadSees
  <2>4. memory[a].input
    BY <1>6, <2>3 DEF LatestCopy, Current
  <2>5. /\ ram'[t] /\ state'[t] = "STARTING"
        /\ \A u \in Threads \ {t} : ram'[u] = ram[u] /\ state'[u] = state[u]
    BY <1>1, <2>1, <2>4
  <2>6. \A b : LatestCopy(b)' = LatestCopy(b)
    BY <2>1 DEF LatestCopy, Current
  <2>7. \A b : Coherent(b)' = Coherent(b)
    BY <2>1 DEF Coherent
  <2>8. ASSUME NEW u \in Threads, Working(u)' PROVE ThreadSees(u)'
    <3>1. CASE u = t
      BY <1>4, <1>9, <2>1, <2>3, <2>5, <3>1 DEF ThreadSees
    <3>2. CASE u # t
      <4>1. Working(u)
        BY <2>5, <2>8, <3>2 DEF Working
      <4>2. ThreadSees(u)
        BY <1>6, <4>1
      <4>3. Coherent(job[u].arg)' = Coherent(job[u].arg)
        BY <1>4, <2>1 DEF Coherent
      <4> QED
        BY <1>4, <2>1, <2>5, <3>2, <4>2, <4>3 DEF ThreadSees
    <3> QED
      BY <3>1, <3>2
  <2> QED
    BY <1>0, <1>3, <1>4, <1>5, <1>6, <2>1, <2>6, <2>7, <2>8 DEF CachesCoherent
<1>14. CASE HwWrite(t)
  <2>1. t[1] = "hw" /\ state[t] = "WRITE" /\ Working(t) /\ UNCHANGED <<ram, cached, dirty>>
    BY <1>14 DEF HwWrite, Working, WorkingStates
  <2>2. a \notin dirty /\ ram[t]
    BY <1>6, <1>9, <2>1 DEF ThreadSees
  <2>3. memory[a].input
    BY <1>6, <2>2 DEF LatestCopy, Current
  <2>4. /\ memory' = [memory EXCEPT ![a].output = [calculation |-> calcs[a] + 1, ram |-> RamWord(0)]]
        /\ calcs' = [calcs EXCEPT ![a] = calcs[a] + 1]
        /\ state' = [state EXCEPT ![t] = IF count[t] = 0 THEN "ACK" ELSE "READ"]
    BY <1>7, <1>9, <1>14, <2>2 DEF HwWrite
  <2>5. /\ memory'[a].input = memory[a].input /\ memory'[a].output.calculation = calcs[a] + 1
        /\ calcs'[a] = calcs[a] + 1
        /\ \A b \in Blocks \ {a} : memory'[b] = memory[b] /\ calcs'[b] = calcs[b]
    BY <1>1, <2>4 DEF BlockContent
  <2>6. state'[t] \in {"ACK", "READ"} /\ \A u \in Threads \ {t} : state'[u] = state[u]
    BY <1>1, <2>4
  <2>7. \A b \in Blocks : LatestCopy(b)'
    <3>1. LatestCopy(a)'
      BY <2>1, <2>2, <2>3, <2>5 DEF LatestCopy, Current
    <3>2. \A b \in Blocks \ {a} : LatestCopy(b)'
      BY <1>6, <2>1, <2>5 DEF LatestCopy, Current
    <3> QED
      BY <3>1, <3>2
  <2>8. \A b \in Blocks \ {a} : Coherent(b)' = Coherent(b)
    BY <2>1, <2>5 DEF Coherent
  <2>9. \A b \in Blocks : b > simulation_steps - Untaken => b # a
    BY <1>10, <2>1 DEF Blocks
  <2>10. \A b \in Blocks : b > simulation_steps - Untaken => Coherent(b)' /\ (conf.hw > 0 => b \notin dirty')
    BY <1>6, <2>1, <2>8, <2>9
  <2>11. ASSUME NEW u \in Threads, Working(u)' PROVE ThreadSees(u)'
    <3>1. CASE u = t
      BY <1>4, <1>9, <2>1, <2>2, <2>6, <3>1 DEF ThreadSees
    <3>2. CASE u # t
      <4>1. Working(u)
        BY <2>6, <2>11, <3>2 DEF Working
      <4>2. ThreadSees(u) /\ job[u].arg # a /\ job[u].arg \in Blocks
        BY <1>6, <1>10, <2>1, <3>2, <4>1
      <4>3. Coherent(job[u].arg)' = Coherent(job[u].arg)
        BY <1>4, <2>1, <2>5, <4>2 DEF Coherent
      <4> QED
        BY <1>4, <2>1, <2>6, <3>2, <4>2, <4>3 DEF ThreadSees
    <3> QED
      BY <3>1, <3>2
  <2>12. conf.hw # 0 /\ phase' # "check" /\ phase' \in {"put", "wait"}
    BY <1>3, <1>4, <1>8, <2>1
  <2> QED
    BY <1>0, <1>5, <2>7, <2>10, <2>11, <2>12 DEF CachesCoherent
<1>15. QED
  BY <1>11, <1>12, <1>13, <1>14

(* The cache may load and write back lines of its own accord. *)
LEMMA CacheCaches ==
  ASSUME ProtocolInv, [Next]_vars, CachesCoherent, NEW c \in Blocks, CacheLoad(c) \/ CacheReplace(c)
  PROVE  CachesCoherent'
<1> USE DEF ProtocolInv
<1>0. /\ conf' = conf /\ Threads' = Threads /\ Blocks' = Blocks /\ simulation_steps' = simulation_steps
      /\ Plain' = Plain /\ Flushed' = Flushed
  BY ConfKept DEF Flushed
<1>1. /\ memory \in [Blocks -> BlockContent] /\ cached \in [Blocks -> BlockContent]
      /\ \A b \in dirty : cached[b] # NoCopy
  BY DEF Typed, MemoryTyped
<1>2. UNCHANGED <<phase, mb_start, toPut, state, job, ram, calcs>>
  BY DEF CacheLoad, CacheReplace, mainVars, threadVars
<1>3. Untaken' = Untaken
  BY <1>0, <1>2 DEF Untaken, Pending
<1>4. /\ dirty' \subseteq dirty
      /\ \A b \in Blocks : (LatestCopy(b) => LatestCopy(b)') /\ (Coherent(b) => Coherent(b)')
  <2>1. CASE CacheLoad(c)
    <3>1. /\ cached'[c] = memory[c] /\ memory' = memory /\ dirty' = dirty /\ c \notin dirty
          /\ \A b \in Blocks \ {c} : cached'[b] = cached[b]
      BY <1>1, <2>1 DEF CacheLoad
    <3>2. \A b \in Blocks : LatestCopy(b) => LatestCopy(b)'
      BY <1>2, <3>1 DEF LatestCopy, Current
    <3>3. \A b \in Blocks : Coherent(b) => Coherent(b)'
      BY <3>1 DEF Coherent
    <3> QED
      BY <3>1, <3>2, <3>3
  <2>2. CASE CacheReplace(c)
    <3>1. /\ cached'[c] = NoCopy /\ dirty' = dirty \ {c}
          /\ memory'[c] = IF c \in dirty THEN cached[c] ELSE memory[c]
          /\ \A b \in Blocks \ {c} : cached'[b] = cached[b] /\ memory'[b] = memory[b]
      BY <1>1, <2>2 DEF CacheReplace, WrittenBack
    <3>2. \A b \in Blocks : LatestCopy(b) => LatestCopy(b)'
      BY <1>2, <3>1 DEF LatestCopy, Current
    <3>3. \A b \in Blocks : Coherent(b) => Coherent(b)'
      BY <3>1 DEF Coherent
    <3> QED
      BY <3>1, <3>2, <3>3
  <2> QED
    BY <2>1, <2>2
<1>5. \A t : Working(t)' = Working(t)
  BY <1>2 DEF Working
<1> SUFFICES ASSUME Flushed PROVE CachesCoherent'
  BY <1>0 DEF CachesCoherent
<1>6. phase \in {"put", "wait"} => \A t \in Threads : Working(t)' => ThreadSees(t)'
  <2> SUFFICES ASSUME phase \in {"put", "wait"}, NEW t \in Threads, Working(t) PROVE ThreadSees(t)'
    BY <1>5
  <2>1. ThreadSees(t)
    BY DEF CachesCoherent
  <2>2. job[t].arg \in Blocks
    BY OwnBlockOnly DEF Protocol, Flushed
  <2>3. Coherent(job[t].arg) => Coherent(job[t].arg)'
    <3>1. PICK a \in Blocks : a = job[t].arg
      BY <2>2
    <3>2. job'[t].arg = a
      BY <1>2, <3>1
    <3>3. Coherent(a) => Coherent(a)'
      BY <1>4
    <3> QED
      BY <3>1, <3>2, <3>3 DEF Coherent
  <2> QED
    BY <1>2, <1>4, <2>1, <2>3 DEF ThreadSees
<1>7. QED
  BY <1>0, <1>2, <1>3, <1>4, <1>6 DEF CachesCoherent

(* Every step keeps the caches coherent with what will be read. *)
LEMMA CachesStep ==
  ASSUME ProtocolInv, ProtocolInv', CachesCoherent, [Next]_vars
  PROVE  CachesCoherent'
<1>1. CASE Main
  BY <1>1, MainCaches
<1>2. ASSUME NEW t \in Threads, Thread(t) PROVE CachesCoherent'
  BY <1>2, TakesSeeMemory, BusyCaches DEF Thread
<1>3. ASSUME NEW b \in Blocks, CacheLoad(b) \/ CacheReplace(b) PROVE CachesCoherent'
  BY <1>3, CacheCaches
<1>4. CASE UNCHANGED vars
  <2>1. UNCHANGED <<phase, mb_start, toPut, state, job, ram, calcs, memory, cached, dirty>>
    BY <1>4 DEF vars, mainVars, threadVars, memoryVars
  <2>2. /\ conf' = conf /\ Threads' = Threads /\ Blocks' = Blocks /\ simulation_steps' = simulation_steps
        /\ Plain' = Plain /\ Flushed' = Flushed
    BY ConfKept DEF Flushed
  <2>3. Untaken' = Untaken
    BY <2>1, <2>2 DEF Untaken, Pending
  <2>4. \A t : Working(t)' = Working(t)
    BY <2>1 DEF Working
  <2>5. \A b : LatestCopy(b)' = LatestCopy(b) /\ Coherent(b)' = Coherent(b)
    BY <2>1 DEF LatestCopy, Current, Coherent
  <2>6. CASE phase \in {"put", "wait"}
    BY <2>1, <2>2, <2>3, <2>4, <2>6, CachesKept
  <2>7. CASE phase \notin {"put", "wait"}
    BY <2>1, <2>2, <2>5, <2>7 DEF CachesCoherent
  <2> QED
    BY <2>6, <2>7
<1>5. QED
  BY <1>1, <1>2, <1>3, <1>4 DEF Next

(* They are initially. *)
LEMMA CachesInitially == Init => CachesCoherent
<1> SUFFICES ASSUME Init, conf.memory PROVE CachesCoherent
  BY DEF CachesCoherent, Flushed
<1>1. /\ phase = "start" /\ dirty = Blocks
      /\ \A b \in Blocks : cached[b] = Content(TRUE, NotCalculated) /\ calcs[b] = 0
  BY DEF Init
<1>2. \A b \in Blocks : LatestCopy(b) /\ Coherent(b)
  BY <1>1 DEF LatestCopy, Coherent, Current, Content, NotCalculated
<1>3. QED
  BY <1>1, <1>2 DEF CachesCoherent

(* When main checks the data it sees, through its caches, the last          *)
(* calculation of every block made from the generated inputs, whichever     *)
(* threads calculated it in this and in earlier iterations and whatever the *)
(* caches have loaded and replaced since: reconos_cache_flush before each   *)
(* iteration and before the check is enough.  --dont-flush only where no    *)
(* hardware takes part.                                                     *)
THEOREM MainSeesLastResults == Spec => []ResultsCurrent
<1>1. Init => CachesCoherent
  BY CachesInitially
<1>2. ProtocolInv /\ ProtocolInv' /\ CachesCoherent /\ [Next]_vars => CachesCoherent'
  BY CachesStep
<1>3. ProtocolInv /\ CachesCoherent => ResultsCurrent
  <2> SUFFICES ASSUME ProtocolInv, CachesCoherent, phase = "check", Flushed, NEW b \in Blocks
               PROVE  View(b).input /\ View(b).output.calculation = calcs[b]
    BY DEF ResultsCurrent, Flushed
  <2>1. LatestCopy(b) /\ Coherent(b)
    BY DEF CachesCoherent
  <2> QED
    BY <2>1, SoftwareSees DEF ProtocolInv
<1>4. QED
  BY <1>1, <1>2, <1>3, ProtocolAlways, PTL DEF Spec
=============================================================================
