------------------------------- MODULE Handshake -------------------------------
(***************************************************************************)
(* The generated hardware thread, clock by clock: the state machine that   *)
(* reads inputs from and writes outputs to the mailboxes, the process in   *)
(* front of every input that shows its valid signal to the calculation,    *)
(* and the calculation, a net of components joined by data, valid and      *)
(* ready signals.                                                          *)
(*                                                                         *)
(* A value is the set of calls whose words went into it; {} is no value.   *)
(***************************************************************************)
EXTENDS Calculations, FiniteSets

CONSTANTS
  Designs,   \* the calculations, see Calculations
  Words,     \* mailbox words of a value: 2 for a double
  Calls      \* calls of the host

ASSUME WordsAssumption == Words \in Nat \ {0}
ASSUME CallsAssumption == Calls \in Nat \ {0}

VARIABLES
  design,
  call,       \* the call the host is in
  pc, word,   \* the state of the machine: 0 is INIT; word 0 waits for a valid output
  osif,       \* the operating system is busy with a call of this state
  init,       \* the register that clears the valid processes
  data,       \* the words of every input: the call they came in
  valid,      \* valid of every input, as the state machine sets it
  direct,     \* valid of every input, as the calculation sees it
  accepted,   \* component_accepted_the_value of every input
  ready,      \* ready of every output
  buffer,     \* the value at every port of every core
  result,     \* the output register of every component: valid, data
  sent        \* the values whose words the machine has put, in this call

fsmVars == <<call, pc, word, osif, init, data, valid, ready, sent>>
calcVars == <<buffer, result>>
vars == <<design, fsmVars, direct, accepted, calcVars>>

program == design.program
Inputs == design.inputs
Components == DOMAIN design.components
Cores == Components \ design.plain
Ports == UNION {{<<c, p>> : p \in DOMAIN design.components[c]} : c \in Cores}
Outputs == DOMAIN design.outputs

Init ==
  /\ design \in Designs
  /\ call = 1 /\ pc = 0 /\ word = 0
  /\ osif = FALSE /\ init = TRUE
  /\ data = [x \in Inputs |-> [w \in 1..Words |-> 0]]
  /\ valid = [x \in Inputs |-> FALSE]
  /\ direct = [x \in Inputs |-> FALSE]
  /\ accepted = [x \in Inputs |-> FALSE]
  /\ ready = [y \in Outputs |-> FALSE]
  /\ buffer = [port \in Ports |-> {}]
  /\ result = [c \in Components |-> [valid |-> FALSE, data |-> {}]]
  /\ sent = {}
-----------------------------------------------------------------------------
(* The signals of a source: an input or a component. *)
SourceValid(s) == IF s \in Inputs THEN direct[s] ELSE result[s].valid
SourceData(s) == IF s \in Inputs THEN {data[s][w] : w \in 1..Words} ELSE result[s].data

(* connectToOutput: a port takes its value when both see valid and ready.  *)
PortSource(port) == design.components[port[1]][port[2]]
PortReady(port) == buffer[port] = {}

(* a_ready <= result_ready: the source and the plain components that ask    *)
(* their own consumers whether they are ready for it.                       *)
PassesOn(K) == \A c \in design.plain : Operands(design, c) \cap K # {} => c \in K
Through(s) ==
  {q \in Sources(design) : \A K \in SUBSET Sources(design) : s \in K /\ PassesOn(K) => q \in K}

(* ReadySignals: a source is ready when all its consumers are. *)
SourceReady(s) ==
  /\ \A port \in Ports : PortSource(port) \in Through(s) => PortReady(port)
  /\ \A y \in Outputs : design.outputs[y] \in Through(s) => ready[y]

(* init is no clocked reset: it clears from the edge that sets it to the    *)
(* edge after which it is withdrawn.                                        *)
Cleared == init \/ init'

(* A valid signal that stays as the state machine sets it. *)
ValidProcessStays ==
  /\ direct' = [x \in Inputs |-> ~ Cleared /\ valid[x]]
  /\ UNCHANGED accepted

(* The valid processes: cleared by init, otherwise valid is shown until it  *)
(* is seen together with ready, and for one cycle after that.               *)
ValidProcesses ==
  /\ direct' = [x \in Inputs |-> ~ Cleared /\ ~ accepted[x] /\ valid[x]]
  /\ accepted' = [x \in Inputs |->
                    ~ Cleared /\ (accepted[x] \/ (valid[x] /\ SourceReady(x)))]

(* A floating point core of the vendor library: a port holds one value, the *)
(* result waits in a register until it is taken, and computing takes any    *)
(* time.                                                                    *)
CanFire(c) ==
  /\ \A p \in DOMAIN design.components[c] : buffer[<<c, p>>] # {}
  /\ result[c].valid => SourceReady(c)
CoreResult(c, firing) ==
  IF c \in firing
  THEN [valid |-> TRUE, data |-> UNION {buffer[<<c, p>>] : p \in DOMAIN design.components[c]}]
  ELSE [result[c] EXCEPT !.valid = @ /\ ~ SourceReady(c)]

(* An integer component: add, bit_or, icmp_ne, icmp_sgt.  The result is     *)
(* there for as long as all operands are, one cycle later.                  *)
PlainResult(c) ==
  IF \A s \in Operands(design, c) : SourceValid(s)
  THEN [valid |-> TRUE, data |-> UNION {SourceData(s) : s \in Operands(design, c)}]
  ELSE [valid |-> FALSE, data |-> {}]

Calculation(firing) ==
  /\ buffer' = [port \in Ports |->
       IF port[1] \in firing THEN {}
       ELSE IF PortReady(port) /\ SourceValid(PortSource(port)) THEN SourceData(PortSource(port))
       ELSE buffer[port]]
  /\ result' = [c \in Components |-> IF c \in Cores THEN CoreResult(c, firing) ELSE PlainResult(c)]
-----------------------------------------------------------------------------
(* A call of the operating system takes more than one cycle. *)
Busy == osif' = TRUE /\ UNCHANGED <<call, pc, word, data, valid, ready, sent>>

(* INIT without init, which is a reset for the valid processes. *)
StateInitNoClear(done) ==
  /\ pc = 0 /\ osif' = ~ done
  /\ init' = FALSE
  /\ valid' = [x \in Inputs |-> FALSE] /\ ready' = [y \in Outputs |-> FALSE]
  /\ pc' = IF done THEN 1 ELSE 0
  /\ UNCHANGED <<call, word, data, sent>>

(* INIT: valid, ready and init are assigned in every cycle. *)
StateInit(done) ==
  /\ pc = 0 /\ osif' = ~ done
  /\ init' = ~ done
  /\ valid' = [x \in Inputs |-> FALSE] /\ ready' = [y \in Outputs |-> FALSE]
  /\ pc' = IF done THEN 1 ELSE 0
  /\ UNCHANGED <<call, word, data, sent>>

InState(kind) == pc \in DOMAIN program /\ program[pc].kind = kind

(* readMbox: one state per word; the last one makes the input valid. *)
StateRead(done) ==
  /\ InState("read") /\ UNCHANGED init
  /\ LET x == program[pc].port
         w == word + 1
     IN IF ~ done THEN Busy
        ELSE /\ osif' = FALSE
             /\ data' = [data EXCEPT ![x][w] = call]
             /\ valid' = [valid EXCEPT ![x] = @ \/ w = Words]
             /\ word' = IF w = Words THEN 0 ELSE w
             /\ pc' = IF w = Words THEN pc + 1 ELSE pc
             /\ UNCHANGED <<call, ready, sent>>

(* writeMbox: wait for the output with ready set; the call for the first    *)
(* word begins here.                                                        *)
StateWriteWait ==
  /\ InState("write") /\ word = 0 /\ UNCHANGED init
  /\ LET y == program[pc].port
     IN /\ ready' = [ready EXCEPT ![y] = TRUE]
        /\ IF SourceValid(design.outputs[y]) THEN word' = 1 /\ osif' = TRUE
                                             ELSE UNCHANGED <<word, osif>>
        /\ UNCHANGED <<call, pc, data, valid, sent>>

(* writeMbox: one state per word.  The word is taken from the data signal   *)
(* of the output when it is sent.                                           *)
StateWrite(done) ==
  /\ InState("write") /\ word > 0 /\ UNCHANGED init
  /\ LET y == program[pc].port
     IN IF ~ done THEN Busy
        ELSE /\ osif' = FALSE
             /\ sent' = sent \union {SourceData(design.outputs[y])}
             /\ ready' = [ready EXCEPT ![y] = FALSE]
             /\ word' = IF word = Words THEN 0 ELSE word + 1
             /\ pc' = IF word = Words THEN pc + 1 ELSE pc
             /\ UNCHANGED <<call, data, valid>>

(* semWait and semPost, and a constant that is put. *)
StateOther(done) ==
  /\ InState("other") /\ UNCHANGED init
  /\ IF ~ done THEN Busy
     ELSE /\ osif' = FALSE
          /\ pc' = pc + 1
          /\ UNCHANGED <<call, word, data, valid, ready, sent>>

(* FINISH: the acknowledgement, and back to INIT for the next call. *)
StateFinish(done) ==
  /\ pc = Len(program) + 1 /\ UNCHANGED init
  /\ IF ~ done THEN Busy
     ELSE /\ osif' = FALSE
          /\ pc' = 0 /\ call' = call + 1 /\ sent' = {}
          /\ UNCHANGED <<word, data, valid, ready>>

(* A rising edge.  The last call leaves the machine in INIT. *)
Tick(done, firing) ==
  /\ done => osif /\ ~ (pc = 0 /\ call > Calls)
  /\ \/ StateInit(done) \/ StateRead(done) \/ StateWriteWait
     \/ StateWrite(done) \/ StateOther(done) \/ StateFinish(done)
  /\ ValidProcesses
  /\ Calculation(firing)
  /\ UNCHANGED design

Firing == SUBSET {c \in Cores : CanFire(c)}

Next == \E done \in {osif, FALSE}, firing \in Firing : Tick(done, firing)

(* The clock runs, the operating system answers and components compute. *)
Spec ==
  /\ Init /\ [][Next]_vars
  /\ WF_vars(Next)
  /\ WF_vars(\E firing \in Firing : osif /\ Tick(TRUE, firing))
  /\ WF_vars(\E done \in {osif, FALSE}, firing \in Firing \ {{}} : Tick(done, firing))
-----------------------------------------------------------------------------
(* Every word the machine sends belongs to a result of this call's inputs,  *)
(* the words of one value to the same result: a value is still there when   *)
(* its second word is sent although ready was withdrawn after the first.    *)
WordsFresh == \A v \in sent : v = {call}

(* When a call reads its first input the calculation is empty although no   *)
(* reset clears it between calls: in the call before each port took its     *)
(* value exactly once, however the valid process repeated the signal and    *)
(* however many consumers the value had.                                    *)
CalculationDrained ==
  pc = 1 /\ word = 0 => /\ \A port \in Ports : buffer[port] = {}
                        /\ \A c \in Components : ~ result[c].valid
                        /\ \A x \in Inputs : ~ direct[x] /\ ~ accepted[x]

(* All calls are answered: no input is withdrawn before the calculation has *)
(* taken it, and no component waits forever for its result to be taken.     *)
CallsAnswered == <>(call > Calls)
=============================================================================
