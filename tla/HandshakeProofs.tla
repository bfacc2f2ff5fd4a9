---------------------------- MODULE HandshakeProofs ----------------------------
(***************************************************************************)
(* The handshake of a hardware thread for every calculation whose outputs  *)
(* are in time, any number of words and any number of calls.               *)
(***************************************************************************)
EXTENDS Handshake, TLAPS

(* The designs the theorems are about. *)
DesignsInTime == \A d \in Designs : WellFormed(d) /\ OutputsInTime(d)

(* What a component has computed in this call, told by its output register; *)
(* what has been shown to the consumers of a source.                        *)
Fired(c) == result[c].data = {call}
Shown(s) == IF s \in Inputs THEN direct[s] \/ accepted[s] ELSE Fired(s)

(* A source that its consumers have taken. *)
Consumed(s) == IF s \in Inputs THEN accepted[s] ELSE Fired(s) /\ ~ result[s].valid

(* A port that has not taken the value of this call. *)
Untouched(port) == buffer[port] = {} /\ ~ Fired(port[1])

Read(x) == [kind |-> "read", port |-> x]
Write(y) == [kind |-> "write", port |-> y]
Other(z) == [kind |-> "other", port |-> z]
FINISH == Len(program) + 1

Typed ==
  /\ design \in Designs /\ WellFormed(design) /\ OutputsInTime(design)
  /\ call \in Nat \ {0}
  /\ pc \in 0..FINISH
  /\ word \in 0..Words
  /\ InState("read") => word < Words
  /\ InState("other") => word = 0
  /\ pc \in {0, FINISH} => word = 0
  /\ osif \in BOOLEAN /\ init \in BOOLEAN
  /\ data \in [Inputs -> [1..Words -> Nat]]
  /\ {valid, direct, accepted} \subseteq [Inputs -> BOOLEAN]
  /\ ready \in [Outputs -> BOOLEAN]
  /\ buffer \in [Ports -> {{}, {call}}]
  /\ result \in [Components -> [valid : BOOLEAN, data : SUBSET (0..call)]]

(* Nothing of this call is in the calculation, and nothing of an earlier one. *)
Quiet ==
  /\ \A port \in Ports : buffer[port] = {}
  /\ \A c \in Components : ~ result[c].valid /\ ~ Fired(c)
  /\ \A x \in Inputs : ~ direct[x]

(* Between two calls: init takes effect before the state machine goes on. *)
BetweenCalls ==
  pc = 0 => /\ Quiet
            /\ sent = {}
            /\ \A y \in Outputs : ~ ready[y]
            /\ osif => init /\ \A x \in Inputs : ~ valid[x] /\ ~ accepted[x]

FirstState ==
  pc = 1 /\ word = 0 => Quiet /\ \A x \in Inputs : ~ valid[x] /\ ~ accepted[x]

(* The words of a valid input were read in this call, in an earlier state. *)
InputsRead ==
  pc > 0 =>
    /\ ~ init
    /\ \A x \in Inputs :
         /\ valid[x] => /\ \A w \in 1..Words : data[x][w] = call
                        /\ \E k \in 1..(pc - 1) : program[k] = Read(x)
         /\ direct[x] \/ accepted[x] => valid[x]
         /\ pc <= Len(program) /\ program[pc] = Read(x) => \A w \in 1..word : data[x][w] = call

(* Every port takes the value of its source once. *)
TakenOnce ==
  pc > 0 =>
    /\ \A port \in Ports :
         /\ Untouched(port) \/ Shown(PortSource(port))
         /\ PortSource(port) \in Inputs =>
              /\ accepted[PortSource(port)] \/ Untouched(port)
              /\ direct[PortSource(port)] => ~ Fired(port[1])
         /\ PortSource(port) \notin Inputs /\ result[PortSource(port)].valid => Untouched(port)
         /\ Fired(port[1]) => buffer[port] = {}
    /\ \A c \in Components : result[c].valid => Fired(c)

(* The state of an output follows the state machine. *)
OutputsWritten ==
  pc > 0 =>
    \A y \in Outputs :
      /\ ready[y] => pc \in DOMAIN program /\ program[pc] = Write(y) /\ word \in {0, 1}
      /\ pc \in DOMAIN program /\ program[pc] = Write(y) =>
           /\ word > 0 => Shown(design.outputs[y])
           /\ word = 1 => ready[y]
           /\ word > 1 => Consumed(design.outputs[y])
      /\ \A k \in DOMAIN program : k < pc /\ program[k] = Write(y) => Consumed(design.outputs[y])

(* In the first cycle of waiting for an output, an input that was read just *)
(* before has not reached the calculation.                                  *)
NotYetShown ==
  pc \in 2..Len(program) =>
    \A x \in Inputs, y \in Outputs :
      program[pc - 1] = Read(x) /\ program[pc] = Write(y) /\ word = 0 /\ ~ ready[y] => ~ Shown(x)

SentFresh == \A v \in sent : v = {call}

HSInv ==
  /\ Typed
  /\ BetweenCalls
  /\ FirstState
  /\ InputsRead
  /\ TakenOnce
  /\ OutputsWritten
  /\ NotYetShown
  /\ SentFresh
-----------------------------------------------------------------------------
(* What the type of the design says. *)
LEMMA DesignFacts ==
  ASSUME Typed
  PROVE  /\ Sources(design) = Inputs \union Components
         /\ Inputs \cap Components = {}
         /\ design.plain = {} /\ Cores = Components
         /\ \A port \in Ports : /\ port[1] \in Components
                                /\ port[2] \in DOMAIN design.components[port[1]]
                                /\ port = <<port[1], port[2]>>
                                /\ PortSource(port) \in Inputs \union Components
                                /\ PortSource(port) \in Operands(design, port[1])
         /\ \A c \in Components : \A p \in DOMAIN design.components[c] :
              <<c, p>> \in Ports /\ PortSource(<<c, p>>) = design.components[c][p]
         /\ \A c \in Components : 1 \in DOMAIN design.components[c] /\ <<c, 1>> \in Ports
         /\ \A y \in Outputs : design.outputs[y] \in Inputs \union Components
         /\ Len(program) \in Nat /\ DOMAIN program = 1..Len(program)
         /\ \A k \in DOMAIN program :
              \/ program[k].port \in Inputs /\ program[k] = Read(program[k].port)
              \/ program[k].port \in Outputs /\ program[k] = Write(program[k].port)
              \/ program[k] = Other(program[k].port)
         /\ \A k, l \in DOMAIN program : program[k] = program[l] => k = l
<1>1. WellFormed(design)
  BY DEF Typed
<1>2. Sources(design) = Inputs \union Components /\ Inputs \cap Components = {}
  BY <1>1 DEF WellFormed, Sources, Inputs, Components
<1>0. design.plain = {} /\ Cores = Components
  BY DEF Typed, OutputsInTime, Cores
<1>3. ASSUME NEW c \in Components, NEW p \in DOMAIN design.components[c]
      PROVE  /\ <<c, p>> \in Ports
             /\ PortSource(<<c, p>>) = design.components[c][p]
             /\ PortSource(<<c, p>>) \in Inputs \union Components
  <2>1. <<c, p>> \in Ports
    BY <1>0 DEF Ports
  <2>2. design.components[c] \in Seq(Inputs \union Components)
    BY <1>1, <1>2 DEF WellFormed, Components
  <2> QED BY <2>1, <2>2 DEF PortSource
<1>4. ASSUME NEW port \in Ports
      PROVE  /\ port[1] \in Components /\ port[2] \in DOMAIN design.components[port[1]]
             /\ port = <<port[1], port[2]>>
             /\ PortSource(port) \in Inputs \union Components
             /\ PortSource(port) \in Operands(design, port[1])
  <2>1. PICK c \in Components : \E p \in DOMAIN design.components[c] : port = <<c, p>>
    BY <1>0 DEF Ports
  <2>2. PICK p \in DOMAIN design.components[c] : port = <<c, p>>
    BY <2>1
  <2> QED BY <1>3, <2>2 DEF Operands
<1>10. ASSUME NEW c \in Components
       PROVE  1 \in DOMAIN design.components[c]
  <2>1. design.components[c] \in Seq(Inputs \union Components) /\ design.components[c] # << >>
    BY <1>1, <1>2 DEF WellFormed, Components
  <2> QED BY <2>1
<1>5. \A y \in Outputs : design.outputs[y] \in Inputs \union Components
  BY <1>1, <1>2 DEF WellFormed, Outputs
<1>6. program \in Seq([kind : {"read"}, port : Inputs] \union [kind : {"write"}, port : Outputs]
                      \union [kind : {"other"}, port : design.others])
  BY <1>1 DEF WellFormed, program, Inputs, Outputs
<1>7. Len(program) \in Nat /\ DOMAIN program = 1..Len(program)
  BY <1>6
<1>8. ASSUME NEW k \in DOMAIN program
      PROVE  \/ program[k].port \in Inputs /\ program[k] = Read(program[k].port)
             \/ program[k].port \in Outputs /\ program[k] = Write(program[k].port)
             \/ program[k] = Other(program[k].port)
  <2>1. program[k] \in [kind : {"read"}, port : Inputs] \union [kind : {"write"}, port : Outputs]
                       \union [kind : {"other"}, port : design.others]
    BY <1>6, <1>7
  <2> QED BY <2>1 DEF Read, Write, Other
<1>9. \A k, l \in DOMAIN program : program[k] = program[l] => k = l
  BY <1>1 DEF WellFormed, program
<1> QED BY <1>0, <1>2, <1>3, <1>4, <1>5, <1>7, <1>8, <1>9, <1>10

(* No ready signal goes through a component: all of them are cores. *)
LEMMA ReadyAlone ==
  ASSUME Typed, NEW s \in Inputs \union Components
  PROVE  SourceReady(s) <=> /\ \A port \in Ports : PortSource(port) = s => PortReady(port)
                            /\ \A y \in Outputs : design.outputs[y] = s => ready[y]
<1>1. Through(s) = {s}
  <2>1. PassesOn({s}) /\ {s} \in SUBSET Sources(design) /\ s \in Sources(design)
    BY DesignFacts DEF PassesOn
  <2>2. \A q \in Through(s) : q \in {s}
    BY <2>1 DEF Through
  <2>3. s \in Through(s)
    BY <2>1 DEF Through
  <2> QED BY <2>2, <2>3
<1> QED BY <1>1 DEF SourceReady

(* States of different kinds or ports are different. *)
LEMMA ReadsAndWrites ==
  /\ \A x, y : Read(x) # Write(y) /\ Read(x) # Other(y) /\ Write(x) # Other(y)
  /\ \A x, y : Read(x) = Read(y) => x = y
  /\ \A x, y : Write(x) = Write(y) => x = y
<1>1. \A x : /\ Read(x).kind = "read" /\ Write(x).kind = "write" /\ Other(x).kind = "other"
             /\ Read(x).port = x /\ Write(x).port = x
  BY DEF Read, Write, Other
<1>2. \A x, y : Read(x) # Write(y) /\ Read(x) # Other(y) /\ Write(x) # Other(y)
  BY <1>1
<1>3. \A x, y : (Read(x) = Read(y) => x = y) /\ (Write(x) = Write(y) => x = y)
  <2> TAKE x, y
  <2>1. Read(x).port = x /\ Write(x).port = x /\ Read(y).port = y /\ Write(y).port = y
    BY <1>1
  <2> QED BY <2>1
<1> QED BY <1>2, <1>3

(* The design never changes. *)
LEMMA DesignUnchanged ==
  ASSUME design' = design
  PROVE  /\ program' = program /\ Inputs' = Inputs /\ Components' = Components
         /\ Ports' = Ports /\ Outputs' = Outputs /\ FINISH' = FINISH
         /\ \A port : PortSource(port)' = PortSource(port)
BY DEF program, Inputs, Components, Ports, Cores, Outputs, FINISH, PortSource

(* A component has computed only if its operands were shown to it. *)
LEMMA ShownClosed ==
  ASSUME HSInv, pc > 0
  PROVE  OperandsIncluded(design, {s \in Inputs \union Components : Shown(s)})
<1> DEFINE K == {s \in Inputs \union Components : Shown(s)}
<1> SUFFICES ASSUME NEW c \in Components \cap K, NEW p \in DOMAIN design.components[c]
             PROVE  design.components[c][p] \in K
  BY DEF OperandsIncluded, Operands, Components
<1>1. /\ <<c, p>> \in Ports /\ PortSource(<<c, p>>) = design.components[c][p]
      /\ PortSource(<<c, p>>) \in Inputs \union Components
      /\ c \notin Inputs
  BY DesignFacts DEF HSInv
<1>2. Fired(c)
  BY <1>1 DEF Shown
<1>3. ~ Untouched(<<c, p>>)
  BY <1>2 DEF Untouched
<1>4. Shown(PortSource(<<c, p>>))
  BY <1>1, <1>3 DEF HSInv, TakenOnce
<1> QED BY <1>1, <1>4

(* What an output depends on was shown before the output is. *)
LEMMA DependenciesShown ==
  ASSUME HSInv, pc > 0, NEW s \in Inputs \union Components, NEW x \in Inputs \union Components,
         DependsOn(design, s, x), Shown(s)
  PROVE  Shown(x)
<1> DEFINE K == {q \in Inputs \union Components : Shown(q)}
<1>1. K \in SUBSET Sources(design)
  BY DesignFacts DEF HSInv
<1>2. s \in K /\ OperandsIncluded(design, K)
  BY ShownClosed
<1> HIDE DEF K
<1>3. x \in K
  BY <1>1, <1>2 DEF DependsOn
<1> QED BY <1>3 DEF K

(* Where a component uses the value of an output, ready is set as soon as   *)
(* the value is shown: this is what OutputsInTime is for.                   *)
LEMMA ReadyInTime ==
  ASSUME HSInv, pc > 0, NEW y \in Outputs, NEW port \in Ports,
         PortSource(port) = design.outputs[y],
         Shown(design.outputs[y]), ~ Consumed(design.outputs[y])
  PROVE  ready[y]
<1> DEFINE s == design.outputs[y]
<1>1. PICK k \in 2..Len(program) :
        /\ program[k] = Write(y)
        /\ program[k - 1].kind = "read"
        /\ DependsOn(design, s, program[k - 1].port)
  <2>1. \E c \in DOMAIN design.components : design.outputs[y] \in Operands(design, c)
    BY DesignFacts DEF HSInv, Components
  <2> QED BY <2>1 DEF HSInv, Typed, OutputsInTime, Outputs, program, Write
<1>2. PICK x \in Inputs : program[k - 1] = Read(x)
  <2>1. k - 1 \in DOMAIN program
    BY DesignFacts DEF HSInv
  <2> QED BY <1>1, <2>1, DesignFacts DEF HSInv, Write, Other
<1>3. Shown(x)
  <2>1. program[k - 1].port = x
    BY <1>2 DEF Read
  <2> QED BY <1>1, <1>2, <2>1, DependenciesShown, DesignFacts DEF HSInv
<1>4. pc >= k
  <2>1. valid[x]
    BY <1>3 DEF Shown, HSInv, InputsRead
  <2>2. PICK l \in 1..(pc - 1) : program[l] = Read(x)
    BY <2>1 DEF HSInv, InputsRead
  <2>3. l \in DOMAIN program /\ k - 1 \in DOMAIN program
    BY DesignFacts DEF HSInv, Typed, FINISH
  <2>4. l = k - 1
    BY <1>2, <2>2, <2>3, DesignFacts DEF HSInv
  <2> QED BY <2>4 DEF HSInv, Typed, FINISH
<1>5. k \in DOMAIN program /\ pc \in Nat /\ word \in Nat
  BY DesignFacts DEF HSInv, Typed, FINISH
<1>6. pc = k
  BY <1>1, <1>4, <1>5 DEF HSInv, OutputsWritten
<1>7. CASE word = 0
  <2>1. pc \in 2..Len(program)
    BY <1>6
  <2>2. ready[y]
    BY <1>1, <1>2, <1>3, <1>6, <1>7, <2>1 DEF HSInv, NotYetShown
  <2> QED BY <2>2
<1>8. CASE word > 0
  BY <1>1, <1>5, <1>6, <1>8 DEF HSInv, OutputsWritten
<1> QED BY <1>5, <1>7, <1>8

(* A source whose value a port is about to take is ready. *)
LEMMA TakenTogether ==
  ASSUME HSInv, pc > 0, NEW port \in Ports, NEW s, s = PortSource(port),
         SourceValid(s), s \in Inputs => ~ accepted[s]
  PROVE  SourceReady(s)
<1>1. Shown(s) /\ ~ Consumed(s)
  <2>1. CASE s \in Inputs
    BY <2>1 DEF SourceValid, Shown, Consumed
  <2>2. CASE s \notin Inputs
    <3>1. s \in Components
      BY <2>2, DesignFacts DEF HSInv
    <3> QED BY <2>2, <3>1 DEF SourceValid, Shown, Consumed, HSInv, TakenOnce
  <2> QED BY <2>1, <2>2
<1>2. \A q \in Ports : PortSource(q) = s => PortReady(q)
  BY DEF HSInv, TakenOnce, SourceValid, PortReady, Untouched
<1>3. \A y \in Outputs : design.outputs[y] = s => ready[y]
  BY <1>1, ReadyInTime
<1>4. s \in Inputs \union Components
  BY DesignFacts DEF HSInv
<1> QED BY <1>2, <1>3, <1>4, ReadyAlone DEF HSInv

(* So is the source of an output that is ready, where its ports are empty. *)
LEMMA OutputTaken ==
  ASSUME HSInv, pc > 0, NEW y \in Outputs, NEW s, s = design.outputs[y], ready[y],
         \A port \in Ports : PortSource(port) = s => Untouched(port)
  PROVE  SourceReady(s)
<1>1. \A z \in Outputs : design.outputs[z] = s => z = y
  BY DEF HSInv, Typed, OutputsInTime, Outputs
<1>2. s \in Inputs \union Components
  BY DesignFacts DEF HSInv
<1> QED BY <1>1, <1>2, ReadyAlone DEF HSInv, PortReady, Untouched

(* A valid source shows the value of this call. *)
LEMMA SourceFresh ==
  ASSUME HSInv, pc > 0, NEW s \in Inputs \union Components, Shown(s)
  PROVE  SourceData(s) = {call}
<1>1. CASE s \in Inputs
  <2>1. valid[s] /\ \A w \in 1..Words : data[s][w] = call
    BY <1>1 DEF HSInv, InputsRead, Shown
  <2>2. 1 \in 1..Words
    BY WordsAssumption
  <2> QED BY <1>1, <2>1, <2>2 DEF SourceData
<1>2. CASE s \notin Inputs
  BY <1>2 DEF SourceData, Shown, Fired
<1> QED BY <1>1, <1>2

(* One cycle of the calculation and the valid processes during a call: every *)
(* port takes a value at most once, a source is withdrawn when it is taken.  *)
LEMMA CalculationStep ==
  ASSUME HSInv, pc > 0, design' = design, call' = call, ~ init',
         NEW firing \in Firing, ValidProcesses, Calculation(firing)
  PROVE  /\ buffer' \in [Ports -> {{}, {call}}]
         /\ result' \in [Components -> [valid : BOOLEAN, data : SUBSET (0..call)]]
         /\ {direct', accepted'} \subseteq [Inputs -> BOOLEAN]
         /\ TakenOnce'
         /\ \A s \in Inputs \union Components : /\ Shown(s) => Shown(s)'
                                                /\ Consumed(s) => Consumed(s)'
         /\ \A y \in Outputs : ready[y] /\ Shown(design.outputs[y]) => Consumed(design.outputs[y])'
         /\ \A x \in Inputs : direct'[x] \/ accepted'[x] => valid[x]
<1>0. /\ Inputs' = Inputs /\ Components' = Components /\ Ports' = Ports /\ Outputs' = Outputs
      /\ \A port : PortSource(port)' = PortSource(port)
  BY DesignUnchanged
<1> DEFINE Takes(port) == PortReady(port) /\ SourceValid(PortSource(port))
<1>1. ASSUME NEW x \in Inputs
      PROVE  /\ direct'[x] = (~ accepted[x] /\ valid[x])
             /\ accepted'[x] = (accepted[x] \/ (valid[x] /\ SourceReady(x)))
             /\ {direct[x], accepted[x], valid[x]} \subseteq BOOLEAN
             /\ direct[x] \/ accepted[x] => valid[x]
  <2>1. ~ Cleared
    BY DEF Cleared, HSInv, InputsRead
  <2>2. {direct[x], accepted[x], valid[x]} \subseteq BOOLEAN
    BY DEF HSInv, Typed
  <2>3. SourceReady(x) \in BOOLEAN
    BY DEF SourceReady
  <2> QED BY <2>1, <2>2, <2>3 DEF ValidProcesses, HSInv, InputsRead
<1>2. ASSUME NEW c \in firing
      PROVE  /\ c \in Components /\ c \notin Inputs
             /\ \A p \in DOMAIN design.components[c] : <<c, p>> \in Ports /\ buffer[<<c, p>>] = {call}
             /\ ~ Fired(c) /\ ~ result[c].valid
             /\ result'[c] = [valid |-> TRUE, data |-> {call}]
  <2>1. c \in Components /\ c \in Cores /\ CanFire(c) /\ 1 \in DOMAIN design.components[c]
    BY DesignFacts DEF Firing, HSInv
  <2>2. ASSUME NEW p \in DOMAIN design.components[c]
        PROVE  <<c, p>> \in Ports /\ buffer[<<c, p>>] = {call}
    <3>1. <<c, p>> \in Ports /\ buffer[<<c, p>>] # {}
      BY <2>1, DesignFacts DEF CanFire, HSInv
    <3> QED BY <3>1 DEF HSInv, Typed
  <2>3. ~ Fired(c)
    <3>1. <<c, 1>> \in Ports /\ buffer[<<c, 1>>] # {} /\ <<c, 1>>[1] = c
      BY <2>1, <2>2
    <3> QED BY <3>1 DEF HSInv, TakenOnce
  <2>4. ~ result[c].valid
    BY <2>1, <2>3 DEF HSInv, TakenOnce
  <2>5. result'[c] = [valid |-> TRUE, data |-> {call}]
    <3>1. UNION {buffer[<<c, p>>] : p \in DOMAIN design.components[c]} = {call}
      BY <2>1, <2>2
    <3> QED BY <2>1, <3>1 DEF Calculation, CoreResult
  <2> QED BY <2>1, <2>2, <2>3, <2>4, <2>5, DesignFacts DEF HSInv
<1>3. ASSUME NEW c \in Components, c \notin firing
      PROVE  /\ result'[c].data = result[c].data
             /\ result'[c].valid = (result[c].valid /\ ~ SourceReady(c))
             /\ result'[c] \in [valid : BOOLEAN, data : SUBSET (0..call)]
  <2>1. result[c] \in [valid : BOOLEAN, data : SUBSET (0..call)]
    BY DEF HSInv, Typed
  <2>2. SourceReady(c) \in BOOLEAN
    BY DEF SourceReady
  <2>3. result'[c] = [result[c] EXCEPT !.valid = result[c].valid /\ ~ SourceReady(c)]
    BY <1>3, DesignFacts DEF Calculation, CoreResult, HSInv
  <2> QED BY <2>1, <2>2, <2>3
<1>4. ASSUME NEW c \in Components
      PROVE  Fired(c)' <=> Fired(c) \/ c \in firing
  <2>1. CASE c \in firing
    <3>1. result'[c] = [valid |-> TRUE, data |-> {call}]
      BY <1>2, <2>1
    <3> QED BY <2>1, <3>1 DEF Fired
  <2>2. CASE c \notin firing
    BY <1>3, <2>2 DEF Fired
  <2> QED BY <2>1, <2>2
<1>9. ASSUME NEW port \in Ports, buffer[port] = {}
      PROVE  port[1] \notin firing
  <2>1. /\ port[2] \in DOMAIN design.components[port[1]]
        /\ port = <<port[1], port[2]>>
    BY DesignFacts DEF HSInv
  <2>2. port[1] \in firing => buffer[port] = {call}
    BY <1>2, <2>1
  <2> QED BY <1>9, <2>2
<1>5. ASSUME NEW port \in Ports, Takes(port)
      PROVE  /\ Shown(PortSource(port)) /\ port[1] \notin firing
             /\ buffer'[port] = {call}
  <2>1. PortSource(port) \in Inputs \union Components
    BY DesignFacts DEF HSInv
  <2>2. Shown(PortSource(port))
    BY <1>5, <2>1 DEF SourceValid, Shown, HSInv, TakenOnce
  <2>3. port[1] \notin firing
    BY <1>5, <1>9 DEF PortReady
  <2>4. SourceData(PortSource(port)) = {call}
    BY <2>1, <2>2, SourceFresh
  <2> QED BY <1>5, <2>2, <2>3, <2>4 DEF Calculation
<1>6. ASSUME NEW port \in Ports, ~ Takes(port)
      PROVE  buffer'[port] = IF port[1] \in firing THEN {} ELSE buffer[port]
  BY <1>6 DEF Calculation
<1>7. ASSUME NEW port \in Ports, Untouched(port), ~ Takes(port)
      PROVE  Untouched(port)'
  <2>1. port[1] \in Components
    BY DesignFacts DEF HSInv
  <2>2. port[1] \notin firing
    BY <1>7, <1>9 DEF Untouched
  <2> QED BY <1>4, <1>6, <1>7, <2>1, <2>2 DEF Untouched
<1>8. ASSUME NEW s \in Inputs \union Components
      PROVE  (Shown(s) => Shown(s)') /\ (Consumed(s) => Consumed(s)')
  <2>1. CASE s \in Inputs
    BY <1>0, <1>1, <2>1 DEF Shown, Consumed
  <2>2. CASE s \notin Inputs
    <3>1. Fired(s) => s \notin firing
      BY <1>2
    <3> QED BY <1>0, <1>3, <1>4, <2>2, <3>1 DEF Shown, Consumed
  <2> QED BY <2>1, <2>2
<1>10. ASSUME NEW y \in Outputs, ready[y], Shown(design.outputs[y])
       PROVE  Consumed(design.outputs[y])'
  <2> DEFINE s == design.outputs[y]
  <2>1. s \in Inputs \union Components /\ design'.outputs[y] = s
    BY DesignFacts DEF HSInv
  <2>2. CASE s \in Inputs
    <3>1. CASE accepted[s]
      BY <1>0, <1>1, <2>1, <2>2, <3>1 DEF Consumed
    <3>2. CASE ~ accepted[s]
      <4>1. \A port \in Ports : PortSource(port) = s => Untouched(port)
        BY <2>2, <3>2 DEF HSInv, TakenOnce
      <4>2. SourceReady(s)
        BY <1>10, <4>1, OutputTaken
      <4>3. valid[s]
        BY <1>1, <1>10, <2>2, <3>2 DEF Shown
      <4> QED BY <1>0, <1>1, <2>1, <2>2, <4>2, <4>3 DEF Consumed
    <3> QED BY <3>1, <3>2
  <2>3. CASE s \notin Inputs
    <3>1. s \in Components /\ Fired(s) /\ s \notin firing
      BY <1>2, <1>10, <2>1, <2>3 DEF Shown
    <3>2. result[s].valid => SourceReady(s)
      <4>1. result[s].valid => \A port \in Ports : PortSource(port) = s => Untouched(port)
        BY <2>3 DEF HSInv, TakenOnce
      <4> QED BY <1>10, <4>1, OutputTaken
    <3>3. ~ result'[s].valid
      BY <1>3, <3>1, <3>2
    <3> QED BY <1>0, <1>4, <2>1, <2>3, <3>1, <3>3 DEF Consumed
  <2> QED BY <2>2, <2>3
<1>11. ASSUME NEW port \in Ports, NEW s \in Inputs \union Components, s = PortSource(port)
       PROVE  /\ Untouched(port)' \/ Shown(s)'
              /\ s \in Inputs => /\ accepted'[s] \/ Untouched(port)'
                                 /\ direct'[s] => ~ Fired(port[1])'
              /\ s \notin Inputs /\ result'[s].valid => Untouched(port)'
              /\ Fired(port[1])' => buffer'[port] = {}
  <2>0. port[1] \in Components
    BY DesignFacts DEF HSInv
  <2>1. Untouched(port)' \/ Shown(s)'
    <3>1. CASE Shown(s)
      BY <1>8, <3>1
    <3>2. CASE ~ Shown(s)
      <4>1. Untouched(port) /\ ~ Takes(port)
        BY <1>5, <1>11, <3>2 DEF HSInv, TakenOnce
      <4> QED BY <1>7, <4>1
    <3> QED BY <3>1, <3>2
  <2>2. ASSUME s \in Inputs
        PROVE  accepted'[s] \/ Untouched(port)'
    <3>1. CASE accepted[s]
      BY <1>1, <2>2, <3>1
    <3>2. CASE ~ accepted[s] /\ Takes(port)
      <4>1. SourceReady(s)
        BY <1>11, <2>2, <3>2, TakenTogether
      <4>2. valid[s]
        BY <1>1, <1>11, <2>2, <3>2 DEF SourceValid
      <4> QED BY <1>1, <2>2, <4>1, <4>2
    <3>3. CASE ~ accepted[s] /\ ~ Takes(port)
      <4>1. Untouched(port)
        BY <1>11, <2>2, <3>3 DEF HSInv, TakenOnce
      <4> QED BY <1>7, <3>3, <4>1
    <3> QED BY <3>1, <3>2, <3>3
  <2>3. ASSUME s \in Inputs, direct'[s]
        PROVE  ~ Fired(port[1])'
    <3>1. Untouched(port)
      BY <1>1, <1>11, <2>3 DEF HSInv, TakenOnce
    <3> QED BY <1>4, <1>9, <2>0, <3>1 DEF Untouched
  <2>4. ASSUME s \notin Inputs, result'[s].valid
        PROVE  Untouched(port)'
    <3>1. CASE s \in firing
      <4>1. ~ Shown(s) /\ ~ SourceValid(s)
        BY <1>2, <2>4, <3>1 DEF Shown, SourceValid
      <4>2. Untouched(port)
        BY <1>11, <4>1 DEF HSInv, TakenOnce
      <4> QED BY <1>7, <1>11, <4>1, <4>2
    <3>2. CASE s \notin firing
      <4>1. result[s].valid /\ ~ SourceReady(s)
        BY <1>3, <2>4, <3>2
      <4>2. SourceValid(s)
        BY <2>4, <4>1 DEF SourceValid
      <4> QED BY <1>11, <2>4, <4>1, <4>2, TakenTogether
    <3> QED BY <3>1, <3>2
  <2>5. ASSUME Fired(port[1])'
        PROVE  buffer'[port] = {}
    <3>1. CASE port[1] \in firing
      <4>1. ~ Takes(port)
        BY <1>5, <3>1
      <4> QED BY <1>6, <3>1, <4>1
    <3>2. CASE port[1] \notin firing
      <4>1. Fired(port[1]) /\ buffer[port] = {}
        BY <1>4, <2>0, <2>5, <3>2 DEF HSInv, TakenOnce
      <4>2. ~ Takes(port)
        BY <4>1 DEF HSInv, TakenOnce, SourceValid, Untouched
      <4> QED BY <1>6, <3>2, <4>1, <4>2
    <3> QED BY <3>1, <3>2
  <2> QED BY <2>1, <2>2, <2>3, <2>4, <2>5
<1>12. \A c \in Components : result'[c].valid => Fired(c)'
  BY <1>2, <1>3, <1>4 DEF HSInv, TakenOnce
<1>13. TakenOnce'
  <2>1. ASSUME NEW port \in Ports
        PROVE  /\ Untouched(port)' \/ Shown(PortSource(port))'
               /\ PortSource(port)' \in Inputs =>
                    /\ accepted'[PortSource(port)'] \/ Untouched(port)'
                    /\ direct'[PortSource(port)'] => ~ Fired(port[1])'
               /\ PortSource(port)' \notin Inputs /\ result'[PortSource(port)'].valid => Untouched(port)'
               /\ Fired(port[1])' => buffer'[port] = {}
    <3>1. PICK s \in Inputs \union Components : s = PortSource(port)
      BY DesignFacts DEF HSInv
    <3>2. PortSource(port)' = s
      BY <1>0, <3>1
    <3> QED BY <1>11, <3>1, <3>2
  <2> QED BY <1>0, <1>12, <2>1 DEF TakenOnce
<1>14. buffer' \in [Ports -> {{}, {call}}]
  <2>1. \A port \in Ports : buffer'[port] \in {{}, {call}}
    BY <1>5, <1>6 DEF HSInv, Typed
  <2>2. buffer' = [port \in Ports |-> buffer'[port]]
    BY DEF Calculation
  <2> QED BY <2>1, <2>2
<1>15. result' \in [Components -> [valid : BOOLEAN, data : SUBSET (0..call)]]
  <2>1. ASSUME NEW c \in Components
        PROVE  result'[c] \in [valid : BOOLEAN, data : SUBSET (0..call)]
    <3>1. call \in 0..call
      BY DEF HSInv, Typed
    <3>3. CASE c \in firing
      <4>1. result'[c] = [valid |-> TRUE, data |-> {call}]
        BY <1>2, <3>3
      <4> QED BY <3>1, <4>1
    <3>4. CASE c \notin firing
      BY <1>3, <3>4
    <3> QED BY <3>3, <3>4
  <2>2. result' = [c \in Components |-> result'[c]]
    BY DEF Calculation
  <2> QED BY <2>1, <2>2
<1>16. {direct', accepted'} \subseteq [Inputs -> BOOLEAN]
  <2>1. direct' = [x \in Inputs |-> direct'[x]] /\ accepted' = [x \in Inputs |-> accepted'[x]]
    BY DEF ValidProcesses
  <2>2. \A x \in Inputs : direct'[x] \in BOOLEAN /\ accepted'[x] \in BOOLEAN
    BY <1>1 DEF SourceReady
  <2> QED BY <2>1, <2>2
<1>17. \A x \in Inputs : direct'[x] \/ accepted'[x] => valid[x]
  BY <1>1
<1> QED BY <1>8, <1>10, <1>13, <1>14, <1>15, <1>16, <1>17

(* While nothing of this call is in the calculation, nothing moves. *)
LEMMA QuietStep ==
  ASSUME Typed, Quiet, design' = design, call' = call, NEW firing \in Firing, Calculation(firing)
  PROVE  /\ buffer' = buffer
         /\ result' \in [Components -> [valid : BOOLEAN, data : SUBSET (0..call)]]
         /\ \A c \in Components : ~ result'[c].valid /\ ~ Fired(c)'
<1>1. firing = {}
  <2>1. ASSUME NEW c \in Cores, CanFire(c)
        PROVE  FALSE
    <3>1. <<c, 1>> \in Ports /\ buffer[<<c, 1>>] # {}
      BY <2>1, DesignFacts DEF CanFire
    <3> QED BY <3>1 DEF Quiet
  <2> QED BY <2>1 DEF Firing
<1>2. \A port \in Ports : ~ SourceValid(PortSource(port))
  BY DesignFacts DEF Quiet, SourceValid
<1>3. buffer' = buffer
  BY <1>1, <1>2 DEF Calculation, Typed
<1>4. ASSUME NEW c \in Components
      PROVE  /\ result'[c] \in [valid : BOOLEAN, data : SUBSET (0..call)]
             /\ ~ result'[c].valid /\ result'[c].data = result[c].data
  <2>1. result[c] \in [valid : BOOLEAN, data : SUBSET (0..call)] /\ ~ result[c].valid
    BY DEF Typed, Quiet
  <2>2. result'[c] = [result[c] EXCEPT !.valid = result[c].valid /\ ~ SourceReady(c)]
    BY <1>1, DesignFacts DEF Calculation, CoreResult
  <2>3. SourceReady(c) \in BOOLEAN
    BY DEF SourceReady
  <2> QED BY <2>1, <2>2, <2>3
<1>5. result' = [c \in Components |-> result'[c]]
  BY DEF Calculation
<1>6. \A c \in Components : ~ Fired(c)'
  BY <1>4 DEF Fired, Quiet
<1> QED BY <1>3, <1>4, <1>5, <1>6

(* Before the first input was read nothing is in the calculation. *)
LEMMA FirstStateStep ==
  ASSUME HSInv, pc > 0, design' = design, call' = call, ~ init',
         NEW firing \in Firing, ValidProcesses, Calculation(firing),
         pc' = 1 /\ word' = 0 => pc = 1 /\ word = 0 /\ valid' = valid
  PROVE  FirstState'
<1> SUFFICES ASSUME pc' = 1, word' = 0
             PROVE  Quiet' /\ \A x \in Inputs' : ~ valid'[x] /\ ~ accepted'[x]
  BY DEF FirstState
<1>1. Quiet /\ valid' = valid /\ \A x \in Inputs : ~ valid[x] /\ ~ accepted[x]
  BY DEF HSInv, FirstState
<1>2. Inputs' = Inputs /\ Components' = Components /\ Ports' = Ports
  BY DesignUnchanged
<1>3. /\ buffer' = buffer
      /\ \A c \in Components : ~ result'[c].valid /\ ~ Fired(c)'
  BY <1>1, QuietStep DEF HSInv
<1>4. \A x \in Inputs : ~ direct'[x] /\ ~ accepted'[x]
  BY <1>1 DEF ValidProcesses
<1> QED BY <1>1, <1>2, <1>3, <1>4 DEF Quiet

(* When all outputs are written, every component has computed, every value  *)
(* was taken and every input accepted: all of them are there for an output. *)
LEMMA Drained ==
  ASSUME HSInv, pc > 0, pc = FINISH
  PROVE  /\ \A c \in Components : Fired(c) /\ ~ result[c].valid
         /\ \A port \in Ports : buffer[port] = {} /\ ~ SourceValid(PortSource(port))
         /\ \A x \in Inputs : accepted[x]
         /\ \A y \in Outputs : ~ ready[y]
<1>1. ASSUME NEW y \in Outputs
      PROVE  Consumed(design.outputs[y]) /\ ~ ready[y]
  <2>1. PICK k \in DOMAIN program : program[k] = Write(y)
    BY DEF HSInv, Typed, WellFormed, program, Outputs, Write
  <2>2. k < pc /\ pc \notin DOMAIN program
    BY <2>1, DesignFacts DEF HSInv, FINISH
  <2> QED BY <2>1, <2>2 DEF HSInv, OutputsWritten
<1>2. ASSUME NEW s \in Inputs \union Components
      PROVE  Shown(s)
  <2>1. PICK y \in Outputs : DependsOn(design, design.outputs[y], s)
    BY DesignFacts DEF HSInv, Typed, WellFormed, Outputs
  <2>2. Shown(design.outputs[y])
    BY <1>1 DEF Shown, Consumed
  <2> QED BY <2>1, <2>2, DependenciesShown, DesignFacts DEF HSInv
<1>3. \A c \in Components : Fired(c)
  BY <1>2, DesignFacts DEF Shown, HSInv
<1>4. \A port \in Ports : Fired(port[1])
  BY <1>3, DesignFacts DEF HSInv
<1>5. \A port \in Ports : buffer[port] = {} /\ ~ SourceValid(PortSource(port))
  BY <1>4 DEF HSInv, TakenOnce, SourceValid, Untouched
<1>6. ASSUME NEW s \in Inputs \union Components
      PROVE  \/ \E y \in Outputs : design.outputs[y] = s
             \/ \E port \in Ports : PortSource(port) = s
  <2> DEFINE K == {q \in Inputs \union Components : \/ \E y \in Outputs : design.outputs[y] = q
                                                    \/ \E port \in Ports : PortSource(port) = q}
  <2>1. PICK y \in Outputs : DependsOn(design, design.outputs[y], s)
    BY DesignFacts DEF HSInv, Typed, WellFormed, Outputs
  <2>2. K \in SUBSET Sources(design) /\ design.outputs[y] \in K
    BY DesignFacts DEF HSInv
  <2>3. OperandsIncluded(design, K)
    <3> SUFFICES ASSUME NEW c \in Components, NEW p \in DOMAIN design.components[c]
                 PROVE  design.components[c][p] \in K
      BY DEF OperandsIncluded, Operands, Components
    <3>1. <<c, p>> \in Ports /\ PortSource(<<c, p>>) = design.components[c][p]
      BY DesignFacts DEF HSInv
    <3>2. PortSource(<<c, p>>) \in Inputs \union Components
      BY <3>1, DesignFacts DEF HSInv
    <3> QED BY <3>1, <3>2
  <2> HIDE DEF K
  <2>4. s \in K
    BY <2>1, <2>2, <2>3 DEF DependsOn
  <2> QED BY <2>4 DEF K
<1>7. ASSUME NEW c \in Components
      PROVE  ~ result[c].valid
  <2>0. c \notin Inputs
    BY DesignFacts DEF HSInv
  <2>1. CASE \E y \in Outputs : design.outputs[y] = c
    BY <1>1, <2>0, <2>1 DEF Consumed
  <2>2. CASE \E port \in Ports : PortSource(port) = c
    BY <1>5, <2>0, <2>2 DEF SourceValid
  <2> QED BY <1>6, <2>1, <2>2
<1>8. ASSUME NEW x \in Inputs
      PROVE  accepted[x]
  <2>1. CASE \E y \in Outputs : design.outputs[y] = x
    BY <1>1, <2>1 DEF Consumed
  <2>2. CASE \E port \in Ports : PortSource(port) = x
    BY <1>4, <2>2 DEF HSInv, TakenOnce, Untouched
  <2> QED BY <1>6, <2>1, <2>2
<1> QED BY <1>1, <1>3, <1>5, <1>7, <1>8
-----------------------------------------------------------------------------
(* INIT. *)
LEMMA InitStep ==
  ASSUME HSInv, NEW done \in {osif, FALSE}, StateInit(done), ValidProcesses, design' = design,
         NEW firing \in Firing, Calculation(firing)
  PROVE  HSInv'
<1>1. /\ pc = 0 /\ call' = call /\ word' = word /\ data' = data /\ sent' = sent
      /\ init' = ~ done /\ osif' = ~ done /\ pc' = IF done THEN 1 ELSE 0
      /\ valid' = [x \in Inputs |-> FALSE] /\ ready' = [y \in Outputs |-> FALSE]
      /\ done \in BOOLEAN /\ word = 0
  BY DEF StateInit, HSInv, Typed
<1>2. /\ program' = program /\ Inputs' = Inputs /\ Components' = Components
      /\ Ports' = Ports /\ Outputs' = Outputs /\ FINISH' = FINISH
  BY DesignUnchanged
<1>3. Quiet /\ sent = {}
  BY <1>1 DEF HSInv, BetweenCalls
<1>4. /\ buffer' = buffer
      /\ result' \in [Components -> [valid : BOOLEAN, data : SUBSET (0..call)]]
      /\ \A c \in Components : ~ result'[c].valid /\ ~ Fired(c)'
  BY <1>1, <1>3, QuietStep DEF HSInv
<1>5. Cleared
  BY <1>1 DEF Cleared, HSInv, BetweenCalls
<1>6. direct' = [x \in Inputs |-> FALSE] /\ accepted' = [x \in Inputs |-> FALSE]
  BY <1>5 DEF ValidProcesses
<1>7. Quiet'
  BY <1>2, <1>3, <1>4, <1>6 DEF Quiet
<1>8. pc' \in 0..FINISH' /\ pc' \in {0, 1}
  BY <1>1, <1>2, DesignFacts DEF HSInv, FINISH
<1>9. Typed'
  <2>1. (InState("read")' => word' < Words) /\ (InState("other")' => word' = 0)
    BY <1>1, WordsAssumption
  <2>2. /\ {valid', direct', accepted'} \subseteq [Inputs' -> BOOLEAN]
        /\ ready' \in [Outputs' -> BOOLEAN]
    BY <1>1, <1>2, <1>6
  <2>3. WellFormed(design)' /\ OutputsInTime(design)' /\ design' \in Designs
    BY DEF HSInv, Typed
  <2>4. word' \in 0..Words /\ word' = 0
    BY <1>1 DEF HSInv, Typed
  <2>5. osif' \in BOOLEAN /\ init' \in BOOLEAN /\ call' \in Nat \ {0}
    BY <1>1 DEF HSInv, Typed
  <2>6. data' \in [Inputs' -> [1..Words -> Nat]]
    BY <1>1, <1>2 DEF HSInv, Typed
  <2>7. buffer' \in [Ports' -> {{}, {call'}}]
    BY <1>1, <1>2, <1>4 DEF HSInv, Typed
  <2> QED BY <1>1, <1>2, <1>4, <1>8, <2>1, <2>2, <2>3, <2>4, <2>5, <2>6, <2>7 DEF Typed
<1>10. BetweenCalls' /\ FirstState'
  BY <1>1, <1>2, <1>3, <1>6, <1>7 DEF BetweenCalls, FirstState
<1>11. InputsRead'
  <2>1. pc' > 0 => ~ init'
    <3>1. CASE done
      BY <1>1, <3>1
    <3>2. CASE ~ done
      BY <1>1, <3>2
    <3> QED BY <3>1, <3>2
  <2>2. \A x \in Inputs : ~ valid'[x] /\ ~ direct'[x] /\ ~ accepted'[x]
    BY <1>1, <1>6
  <2>3. \A w \in 1..word' : FALSE
    BY <1>1
  <2> QED BY <1>2, <2>1, <2>2, <2>3 DEF InputsRead
<1>12. TakenOnce'
  <2>1. \A port \in Ports : port[1] \in Components
    BY DesignFacts DEF HSInv
  <2>2. \A port \in Ports : Untouched(port)'
    BY <1>2, <1>7, <2>1 DEF Untouched, Quiet
  <2>3. \A port \in Ports : ~ Fired(port[1])'
    BY <1>4, <2>1
  <2> QED BY <1>2, <1>4, <2>2, <2>3 DEF TakenOnce
<1>13. OutputsWritten'
  <2>1. \A y \in Outputs : ~ ready'[y]
    BY <1>1
  <2>2. \A k \in DOMAIN program : ~ (k < pc')
    BY <1>8, DesignFacts DEF HSInv
  <2>3. ~ (word' > 0) /\ ~ (word' = 1) /\ ~ (word' > 1)
    BY <1>1
  <2> QED BY <1>2, <2>1, <2>2, <2>3 DEF OutputsWritten
<1>14. NotYetShown'
  BY <1>8, <1>2, DesignFacts DEF HSInv, NotYetShown
<1>15. SentFresh'
  BY <1>1, <1>3 DEF SentFresh
<1> QED BY <1>9, <1>10, <1>11, <1>12, <1>13, <1>14, <1>15 DEF HSInv

(* Waiting for the operating system. *)
LEMMA BusyStep ==
  ASSUME HSInv, pc > 0, Busy, init' = init, ~ (InState("write") /\ word = 0),
         ValidProcesses, design' = design, NEW firing \in Firing, Calculation(firing)
  PROVE  HSInv'
<1>1. /\ osif' = TRUE /\ call' = call /\ pc' = pc /\ word' = word /\ data' = data /\ valid' = valid
      /\ ready' = ready /\ sent' = sent /\ ~ init'
  BY DEF Busy, HSInv, InputsRead
<1>2. /\ program' = program /\ Inputs' = Inputs /\ Components' = Components
      /\ Ports' = Ports /\ Outputs' = Outputs /\ FINISH' = FINISH
  BY DesignUnchanged
<1>3. /\ buffer' \in [Ports -> {{}, {call}}]
      /\ result' \in [Components -> [valid : BOOLEAN, data : SUBSET (0..call)]]
      /\ {direct', accepted'} \subseteq [Inputs -> BOOLEAN]
      /\ TakenOnce'
      /\ \A s \in Inputs \union Components : /\ Shown(s) => Shown(s)'
                                             /\ Consumed(s) => Consumed(s)'
      /\ \A x \in Inputs : direct'[x] \/ accepted'[x] => valid[x]
  BY <1>1, CalculationStep
<1>4. FirstState'
  BY <1>1, FirstStateStep
<1>5. Typed'
  BY <1>1, <1>2, <1>3 DEF HSInv, Typed, InState
<1>6. BetweenCalls'
  BY <1>1 DEF BetweenCalls
<1>7. InputsRead'
  BY <1>1, <1>2, <1>3 DEF HSInv, InputsRead
<1>8. OutputsWritten'
  <2>1. \A y \in Outputs : design'.outputs[y] = design.outputs[y]
                           /\ design.outputs[y] \in Inputs \union Components
    BY DesignFacts DEF HSInv
  <2>2. ASSUME NEW y \in Outputs
        PROVE  /\ Shown(design.outputs[y]) => Shown(design.outputs[y])'
               /\ Consumed(design.outputs[y]) => Consumed(design.outputs[y])'
    <3>1. PICK s \in Inputs \union Components : s = design.outputs[y] /\ s = design'.outputs[y]
      BY <2>1
    <3> QED BY <1>3, <3>1
  <2> QED BY <1>1, <1>2, <2>2 DEF HSInv, OutputsWritten
<1>9. NotYetShown'
  <2> SUFFICES ASSUME pc \in 2..Len(program), NEW y \in Outputs, program[pc] = Write(y), word = 0
               PROVE  FALSE
    BY <1>1, <1>2 DEF NotYetShown
  <2>1. pc \in DOMAIN program
    BY DesignFacts DEF HSInv
  <2> QED BY <2>1 DEF InState, Write
<1>10. SentFresh'
  BY <1>1 DEF HSInv, SentFresh
<1> QED BY <1>3, <1>4, <1>5, <1>6, <1>7, <1>8, <1>9, <1>10 DEF HSInv

(* Reading a word of an input. *)
LEMMA ReadStep ==
  ASSUME HSInv, InState("read"), osif, StateRead(TRUE), ValidProcesses, design' = design,
         NEW firing \in Firing, Calculation(firing)
  PROVE  HSInv'
<1> DEFINE w == word + 1
<1>1. PICK x \in Inputs : /\ x = program[pc].port /\ program[pc] = Read(x)
                          /\ pc \in DOMAIN program
  BY DesignFacts DEF HSInv, InState, Write, Other
<1>2. /\ Len(program) \in Nat /\ pc \in 1..Len(program) /\ word \in Nat /\ word < Words
      /\ Words \in Nat \ {0} /\ w \in 1..Words
  BY <1>1, DesignFacts, WordsAssumption DEF HSInv, Typed
<1>3. /\ osif' = FALSE /\ init' = init /\ call' = call /\ ready' = ready /\ sent' = sent
      /\ data' = [data EXCEPT ![x][w] = call]
      /\ valid' = [valid EXCEPT ![x] = valid[x] \/ w = Words]
      /\ word' = IF w = Words THEN 0 ELSE w
      /\ pc' = IF w = Words THEN pc + 1 ELSE pc
  BY <1>1 DEF StateRead
<1>4. /\ program' = program /\ Inputs' = Inputs /\ Components' = Components
      /\ Ports' = Ports /\ Outputs' = Outputs /\ FINISH' = FINISH
  BY DesignUnchanged
<1>5. ~ valid[x]
  <2> SUFFICES ASSUME valid[x] PROVE FALSE
    OBVIOUS
  <2>1. PICK k \in 1..(pc - 1) : program[k] = Read(x)
    BY <1>2 DEF HSInv, InputsRead
  <2>2. k \in DOMAIN program
    BY <1>2, DesignFacts DEF HSInv
  <2>3. k = pc
    BY <1>1, <2>1, <2>2, DesignFacts DEF HSInv
  <2> QED BY <1>2, <2>3
<1>6. ~ init' /\ pc > 0
  BY <1>2, <1>3 DEF HSInv, InputsRead
<1>7. /\ buffer' \in [Ports -> {{}, {call}}]
      /\ result' \in [Components -> [valid : BOOLEAN, data : SUBSET (0..call)]]
      /\ {direct', accepted'} \subseteq [Inputs -> BOOLEAN]
      /\ TakenOnce'
      /\ \A s \in Inputs \union Components : Consumed(s) => Consumed(s)'
      /\ \A z \in Inputs : direct'[z] \/ accepted'[z] => valid[z]
  BY <1>3, <1>6, CalculationStep
<1>8. FirstState'
  <2>1. ~ (pc' = 1 /\ word' = 0)
    BY <1>2, <1>3
  <2> QED BY <2>1 DEF FirstState
<1>9. ASSUME NEW z \in Inputs
      PROVE  /\ valid'[z] = (valid[z] \/ (z = x /\ w = Words))
             /\ \A v \in 1..Words : data'[z][v] = IF z = x /\ v = w THEN call ELSE data[z][v]
  <2>1. valid[z] \in BOOLEAN /\ valid \in [Inputs -> BOOLEAN] /\ data \in [Inputs -> [1..Words -> Nat]]
    BY DEF HSInv, Typed
  <2> QED BY <1>2, <1>3, <2>1
<1>10. Typed'
  <2>1. pc' \in 0..FINISH' /\ word' \in 0..Words
    BY <1>2, <1>3, <1>4 DEF FINISH
  <2>2. (InState("read")' => word' < Words) /\ (InState("other")' => word' = 0)
    <3>1. program[pc].kind = "read"
      BY DEF InState
    <3>2. word' # 0 => ~ InState("other")'
      BY <1>2, <1>3, <1>4, <3>1 DEF InState
    <3> QED BY <1>2, <1>3, <3>2
  <2>3. pc' \in {0, FINISH'} => word' = 0
    BY <1>2, <1>3, <1>4 DEF FINISH
  <2>4. data' \in [Inputs' -> [1..Words -> Nat]] /\ valid' \in [Inputs' -> BOOLEAN]
    <3>1. data \in [Inputs -> [1..Words -> Nat]] /\ valid \in [Inputs -> BOOLEAN] /\ call \in Nat
      BY DEF HSInv, Typed
    <3> QED BY <1>2, <1>3, <1>4, <3>1
  <2> QED BY <1>3, <1>4, <1>6, <1>7, <2>1, <2>2, <2>3, <2>4 DEF HSInv, Typed
<1>11. BetweenCalls'
  <2>1. pc' # 0
    BY <1>2, <1>3
  <2> QED BY <2>1 DEF BetweenCalls
<1>12. InputsRead'
  <2>1. ASSUME NEW z \in Inputs, valid'[z]
        PROVE  /\ \A v \in 1..Words : data'[z][v] = call
               /\ \E k \in 1..(pc' - 1) : program[k] = Read(z)
    <3>1. CASE z = x
      <4>1. w = Words
        BY <1>5, <1>9, <2>1, <3>1
      <4>2. ASSUME NEW v \in 1..Words
            PROVE  data'[z][v] = call
        <5>1. v = w \/ v \in 1..word
          BY <1>2, <4>1
        <5>2. v \in 1..word => data[x][v] = call
          BY <1>1, <1>2 DEF HSInv, InputsRead
        <5> QED BY <1>9, <3>1, <5>1, <5>2
      <4>3. pc \in 1..(pc' - 1)
        BY <1>2, <1>3, <4>1
      <4> QED BY <1>1, <3>1, <4>2, <4>3
    <3>2. CASE z # x
      <4>1. valid[z]
        BY <1>9, <2>1, <3>2
      <4>2. \A v \in 1..Words : data'[z][v] = call
        BY <1>2, <1>9, <3>2, <4>1 DEF HSInv, InputsRead
      <4>3. PICK k \in 1..(pc - 1) : program[k] = Read(z)
        BY <1>2, <4>1 DEF HSInv, InputsRead
      <4>4. k \in 1..(pc' - 1)
        BY <1>2, <1>3
      <4> QED BY <4>2, <4>3, <4>4
    <3> QED BY <3>1, <3>2
  <2>2. ASSUME NEW z \in Inputs, pc' <= Len(program), program[pc'] = Read(z)
        PROVE  \A v \in 1..word' : data'[z][v] = call
    <3>1. CASE w = Words
      BY <1>2, <1>3, <3>1
    <3>2. CASE w # Words
      <4>1. z = x /\ word' = w /\ pc' = pc
        BY <1>1, <1>3, <2>2, <3>2, ReadsAndWrites
      <4>2. ASSUME NEW v \in 1..w
            PROVE  data'[x][v] = call
        <5>1. v \in 1..Words /\ (v = w \/ v \in 1..word)
          BY <1>2
        <5>2. v \in 1..word => data[x][v] = call
          BY <1>1, <1>2 DEF HSInv, InputsRead
        <5> QED BY <1>9, <5>1, <5>2
      <4> QED BY <4>1, <4>2
    <3> QED BY <3>1, <3>2
  <2>3. \A z \in Inputs : direct'[z] \/ accepted'[z] => valid'[z]
    BY <1>7, <1>9
  <2> QED BY <1>3, <1>4, <1>6, <2>1, <2>2, <2>3 DEF InputsRead
<1>13. \A y \in Outputs : ~ ready[y]
  BY <1>1, <1>2, ReadsAndWrites DEF HSInv, OutputsWritten
<1>14. OutputsWritten'
  <2>1. ASSUME NEW y \in Outputs, pc' \in DOMAIN program, program[pc'] = Write(y)
        PROVE  word' = 0
    BY <1>1, <1>3, <2>1, ReadsAndWrites
  <2>2. ASSUME NEW y \in Outputs, NEW k \in DOMAIN program, k < pc', program[k] = Write(y)
        PROVE  Consumed(design.outputs[y])'
    <3>1. k < pc
      <4>1. k # pc
        BY <1>1, <2>2, ReadsAndWrites
      <4> QED BY <1>2, <1>3, <2>2, <4>1, DesignFacts DEF HSInv
    <3>2. PICK s \in Inputs \union Components : s = design.outputs[y] /\ s = design'.outputs[y]
      BY DesignFacts DEF HSInv
    <3>3. Consumed(s)
      BY <1>2, <2>2, <3>1, <3>2 DEF HSInv, OutputsWritten
    <3> QED BY <1>7, <3>2, <3>3
  <2> QED BY <1>3, <1>4, <1>13, <2>1, <2>2 DEF OutputsWritten
<1>15. NotYetShown'
  <2> SUFFICES ASSUME pc' \in 2..Len(program), NEW z \in Inputs, NEW y \in Outputs,
                      program[pc' - 1] = Read(z), program[pc'] = Write(y)
               PROVE  ~ Shown(z)'
    BY <1>4 DEF NotYetShown
  <2>1. pc' = pc + 1
    BY <1>1, <1>3, ReadsAndWrites
  <2>2. z = x
    <3>1. pc' - 1 = pc
      BY <1>2, <2>1
    <3> QED BY <1>1, <3>1, ReadsAndWrites
  <2> QED BY <1>4, <1>5, <1>7, <2>2 DEF Shown
<1>16. SentFresh'
  BY <1>3 DEF HSInv, SentFresh
<1> QED BY <1>7, <1>8, <1>10, <1>11, <1>12, <1>14, <1>15, <1>16 DEF HSInv

(* Waiting for an output to become valid. *)
LEMMA WriteWaitStep ==
  ASSUME HSInv, StateWriteWait, osif' \in BOOLEAN, ValidProcesses, design' = design,
         NEW firing \in Firing, Calculation(firing)
  PROVE  HSInv'
<1>1. PICK y \in Outputs : /\ y = program[pc].port /\ program[pc] = Write(y)
                           /\ pc \in DOMAIN program
  BY DesignFacts DEF HSInv, StateWriteWait, InState, Read, Other
<1>2. Len(program) \in Nat /\ pc \in 1..Len(program) /\ Words \in Nat \ {0}
  BY <1>1, DesignFacts, WordsAssumption DEF HSInv, Typed
<1>3. PICK s \in Inputs \union Components : s = design.outputs[y] /\ s = design'.outputs[y]
  BY DesignFacts DEF HSInv
<1>4. /\ word = 0 /\ init' = init /\ call' = call /\ pc' = pc /\ data' = data /\ valid' = valid
      /\ sent' = sent /\ ready' = [ready EXCEPT ![y] = TRUE]
      /\ word' = IF SourceValid(s) THEN 1 ELSE 0
  BY <1>1, <1>3 DEF StateWriteWait
<1>5. /\ program' = program /\ Inputs' = Inputs /\ Components' = Components
      /\ Ports' = Ports /\ Outputs' = Outputs /\ FINISH' = FINISH
  BY DesignUnchanged
<1>6. ~ init' /\ pc > 0
  BY <1>2, <1>4 DEF HSInv, InputsRead
<1>7. /\ buffer' \in [Ports -> {{}, {call}}]
      /\ result' \in [Components -> [valid : BOOLEAN, data : SUBSET (0..call)]]
      /\ {direct', accepted'} \subseteq [Inputs -> BOOLEAN]
      /\ TakenOnce'
      /\ \A q \in Inputs \union Components : /\ Shown(q) => Shown(q)'
                                             /\ Consumed(q) => Consumed(q)'
      /\ \A z \in Inputs : direct'[z] \/ accepted'[z] => valid[z]
  BY <1>4, <1>6, CalculationStep
<1>8. FirstState'
  BY <1>4, <1>6, FirstStateStep
<1>9. ready' \in [Outputs -> BOOLEAN] /\ \A z \in Outputs : ready'[z] = (ready[z] \/ z = y)
  <2>1. ready \in [Outputs -> BOOLEAN]
    BY DEF HSInv, Typed
  <2> QED BY <1>4, <2>1
<1>10. Typed'
  <2>1. word' \in 0..Words
    BY <1>2, <1>4
  <2>2. (InState("read")' => word' < Words) /\ (InState("other")' => word' = 0)
    <3>1. program[pc].kind = "write"
      BY <1>1 DEF Write
    <3>2. ~ InState("read")' /\ ~ InState("other")'
      BY <1>4, <1>5, <3>1 DEF InState
    <3> QED BY <3>2
  <2>3. pc' \in {0, FINISH'} => word' = 0
    BY <1>2, <1>4, <1>5 DEF FINISH
  <2> QED BY <1>4, <1>5, <1>6, <1>7, <1>9, <2>1, <2>2, <2>3 DEF HSInv, Typed
<1>11. BetweenCalls'
  BY <1>2, <1>4 DEF BetweenCalls
<1>12. InputsRead'
  <2>1. \A x \in Inputs : program[pc] # Read(x)
    BY <1>1, ReadsAndWrites
  <2> QED BY <1>4, <1>5, <1>6, <1>7, <2>1 DEF HSInv, InputsRead
<1>13. SourceValid(s) => Shown(s)
  <2>1. \A c \in Components : result[c].valid => Fired(c)
    BY <1>6 DEF HSInv, TakenOnce
  <2> QED BY <2>1 DEF SourceValid, Shown
<1>14. \A z \in Outputs : program[pc] = Write(z) => z = y
  BY <1>1, ReadsAndWrites
<1>15. OutputsWritten'
  <2>1. ASSUME NEW z \in Outputs, ready'[z]
        PROVE  z = y
    BY <1>6, <1>9, <1>14, <2>1 DEF HSInv, OutputsWritten
  <2>2. word' > 0 => Shown(design.outputs[y])'
    BY <1>3, <1>4, <1>7, <1>13
  <2>3. ready'[y] /\ word' \in {0, 1} /\ ~ (word' > 1)
    BY <1>4, <1>9
  <2>4. ASSUME NEW z \in Outputs, NEW k \in DOMAIN program, k < pc, program[k] = Write(z)
        PROVE  Consumed(design.outputs[z])'
    <3>1. PICK q \in Inputs \union Components : q = design.outputs[z] /\ q = design'.outputs[z]
      BY DesignFacts DEF HSInv
    <3>2. Consumed(q)
      BY <1>6, <2>4, <3>1 DEF HSInv, OutputsWritten
    <3> QED BY <1>7, <3>1, <3>2
  <2> QED BY <1>1, <1>4, <1>5, <1>14, <2>1, <2>2, <2>3, <2>4 DEF OutputsWritten
<1>16. NotYetShown'
  BY <1>4, <1>5, <1>9, <1>14 DEF NotYetShown
<1>17. SentFresh'
  BY <1>4 DEF HSInv, SentFresh
<1> QED BY <1>7, <1>8, <1>10, <1>11, <1>12, <1>15, <1>16, <1>17 DEF HSInv

(* Sending a word of an output. *)
LEMMA WriteStep ==
  ASSUME HSInv, osif, InState("write"), StateWrite(TRUE), ValidProcesses, design' = design,
         NEW firing \in Firing, Calculation(firing)
  PROVE  HSInv'
<1>1. PICK y \in Outputs : /\ y = program[pc].port /\ program[pc] = Write(y)
                           /\ pc \in DOMAIN program
  BY DesignFacts DEF HSInv, InState, Read, Other
<1>2. /\ Len(program) \in Nat /\ pc \in 1..Len(program) /\ Words \in Nat \ {0}
      /\ word \in 1..Words
  BY <1>1, DesignFacts, WordsAssumption DEF HSInv, Typed, StateWrite
<1>3. PICK s \in Inputs \union Components : s = design.outputs[y] /\ s = design'.outputs[y]
  BY DesignFacts DEF HSInv
<1>4. /\ osif' = FALSE /\ init' = init /\ call' = call /\ data' = data /\ valid' = valid
      /\ sent' = sent \union {SourceData(s)}
      /\ ready' = [ready EXCEPT ![y] = FALSE]
      /\ word' = IF word = Words THEN 0 ELSE word + 1
      /\ pc' = IF word = Words THEN pc + 1 ELSE pc
  BY <1>1, <1>3 DEF StateWrite
<1>5. /\ program' = program /\ Inputs' = Inputs /\ Components' = Components
      /\ Ports' = Ports /\ Outputs' = Outputs /\ FINISH' = FINISH
  BY DesignUnchanged
<1>6. ~ init' /\ pc > 0
  BY <1>2, <1>4 DEF HSInv, InputsRead
<1>7. /\ buffer' \in [Ports -> {{}, {call}}]
      /\ result' \in [Components -> [valid : BOOLEAN, data : SUBSET (0..call)]]
      /\ {direct', accepted'} \subseteq [Inputs -> BOOLEAN]
      /\ TakenOnce'
      /\ \A q \in Inputs \union Components : /\ Shown(q) => Shown(q)'
                                             /\ Consumed(q) => Consumed(q)'
      /\ ready[y] /\ Shown(design.outputs[y]) => Consumed(design.outputs[y])'
      /\ \A z \in Inputs : direct'[z] \/ accepted'[z] => valid[z]
  BY <1>4, <1>6, CalculationStep
<1>8. FirstState'
  <2>1. ~ (pc' = 1 /\ word' = 0)
    BY <1>2, <1>4
  <2> QED BY <2>1 DEF FirstState
<1>9. ready' \in [Outputs -> BOOLEAN] /\ \A z \in Outputs : ready'[z] = (ready[z] /\ z # y)
  <2>1. ready \in [Outputs -> BOOLEAN]
    BY DEF HSInv, Typed
  <2> QED BY <1>4, <2>1
<1>10. Typed'
  <2>1. word' \in 0..Words /\ pc' \in 0..FINISH'
    BY <1>2, <1>4, <1>5 DEF FINISH
  <2>2. (InState("read")' => word' < Words) /\ (InState("other")' => word' = 0)
    <3>1. CASE word = Words
      BY <1>2, <1>4, <3>1
    <3>2. CASE word # Words
      <4>1. ~ InState("read")' /\ ~ InState("other")'
        BY <1>1, <1>4, <1>5, <3>2 DEF InState, Write
      <4> QED BY <4>1
    <3> QED BY <3>1, <3>2
  <2>3. pc' \in {0, FINISH'} => word' = 0
    BY <1>2, <1>4, <1>5 DEF FINISH
  <2> QED BY <1>4, <1>5, <1>6, <1>7, <1>9, <2>1, <2>2, <2>3 DEF HSInv, Typed
<1>11. BetweenCalls'
  <2>1. pc' # 0
    BY <1>2, <1>4
  <2> QED BY <2>1 DEF BetweenCalls
<1>12. InputsRead'
  <2>1. ASSUME NEW x \in Inputs, valid[x]
        PROVE  \E k \in 1..(pc' - 1) : program[k] = Read(x)
    <3>1. PICK k \in 1..(pc - 1) : program[k] = Read(x)
      BY <1>6, <2>1 DEF HSInv, InputsRead
    <3>2. k \in 1..(pc' - 1)
      BY <1>2, <1>4
    <3> QED BY <3>1, <3>2
  <2>2. ASSUME NEW x \in Inputs, program[pc'] = Read(x)
        PROVE  word' = 0
    BY <1>1, <1>4, <2>2, ReadsAndWrites
  <2>3. ASSUME NEW x \in Inputs, program[pc'] = Read(x)
        PROVE  \A w \in 1..word' : data'[x][w] = call
    BY <2>2, <2>3
  <2> QED BY <1>4, <1>5, <1>6, <1>7, <2>1, <2>3 DEF HSInv, InputsRead
<1>13. Shown(s) /\ (word > 1 => Consumed(s))
  <2>1. word > 0
    BY <1>2
  <2>2. Shown(design.outputs[y]) /\ (word > 1 => Consumed(design.outputs[y]))
    BY <1>1, <1>6, <2>1 DEF HSInv, OutputsWritten
  <2> QED BY <1>3, <2>2
<1>14. Consumed(s)'
  <2>1. CASE word = 1
    <3>1. ready[y]
      BY <1>1, <1>6, <2>1 DEF HSInv, OutputsWritten
    <3> QED BY <1>3, <1>7, <1>13, <3>1
  <2>2. CASE word # 1
    <3>1. word > 1
      BY <1>2, <2>2
    <3> QED BY <1>7, <1>13, <3>1
  <2> QED BY <2>1, <2>2
<1>15. \A z \in Outputs : program[pc] = Write(z) => z = y
  BY <1>1, ReadsAndWrites
<1>16. OutputsWritten'
  <2>1. \A z \in Outputs : ~ ready'[z]
    BY <1>6, <1>9, <1>15 DEF HSInv, OutputsWritten
  <2>2. ASSUME NEW z \in Outputs, pc' \in DOMAIN program, program[pc'] = Write(z), word' > 0
        PROVE  word' # 1 /\ Shown(design.outputs[z])' /\ Consumed(design.outputs[z])'
    <3>1. pc' = pc /\ word' = word + 1
      BY <1>2, <1>4, <2>2
    <3>2. z = y
      BY <1>15, <2>2, <3>1
    <3>3. Shown(s)'
      BY <1>7, <1>13
    <3> QED BY <1>2, <1>3, <1>14, <3>1, <3>2, <3>3
  <2>3. ASSUME NEW z \in Outputs, NEW k \in DOMAIN program, k < pc', program[k] = Write(z)
        PROVE  Consumed(design.outputs[z])'
    <3>0. k \in Nat
      BY DesignFacts DEF HSInv
    <3>1. CASE k = pc
      <4>1. z = y
        BY <1>15, <2>3, <3>1
      <4> QED BY <1>3, <1>14, <4>1
    <3>2. CASE k # pc
      <4>1. k < pc
        BY <1>2, <1>4, <2>3, <3>0, <3>2
      <4>2. PICK q \in Inputs \union Components : q = design.outputs[z] /\ q = design'.outputs[z]
        BY DesignFacts DEF HSInv
      <4>3. Consumed(q)
        BY <1>6, <2>3, <4>1, <4>2 DEF HSInv, OutputsWritten
      <4> QED BY <1>7, <4>2, <4>3
    <3> QED BY <3>1, <3>2
  <2>4. word' \in Nat
    BY <1>2, <1>4
  <2> QED BY <1>5, <2>1, <2>2, <2>3, <2>4 DEF OutputsWritten
<1>17. NotYetShown'
  <2> SUFFICES ASSUME pc' \in 2..Len(program), NEW x \in Inputs,
                      program[pc' - 1] = Read(x), word' = 0
               PROVE  FALSE
    BY <1>5 DEF NotYetShown
  <2>1. pc' - 1 = pc
    BY <1>2, <1>4
  <2> QED BY <1>1, <2>1, ReadsAndWrites
<1>18. SentFresh'
  BY <1>4, <1>6, <1>13, SourceFresh DEF HSInv, SentFresh
<1> QED BY <1>7, <1>8, <1>10, <1>11, <1>12, <1>16, <1>17, <1>18 DEF HSInv

(* A state that moves no value. *)
LEMMA OtherStep ==
  ASSUME HSInv, osif, InState("other"), StateOther(TRUE), ValidProcesses, design' = design,
         NEW firing \in Firing, Calculation(firing)
  PROVE  HSInv'
<1>1. /\ pc \in DOMAIN program /\ program[pc] = Other(program[pc].port)
  BY DesignFacts DEF HSInv, InState, Read, Write
<1>2. /\ Len(program) \in Nat /\ pc \in 1..Len(program) /\ word = 0
  BY <1>1, DesignFacts DEF HSInv, Typed
<1>3. /\ osif' = FALSE /\ init' = init /\ call' = call /\ data' = data /\ valid' = valid
      /\ sent' = sent /\ ready' = ready /\ word' = 0 /\ pc' = pc + 1
  BY <1>2 DEF StateOther
<1>4. /\ program' = program /\ Inputs' = Inputs /\ Components' = Components
      /\ Ports' = Ports /\ Outputs' = Outputs /\ FINISH' = FINISH
  BY DesignUnchanged
<1>5. ~ init' /\ pc > 0
  BY <1>2, <1>3 DEF HSInv, InputsRead
<1>6. /\ buffer' \in [Ports -> {{}, {call}}]
      /\ result' \in [Components -> [valid : BOOLEAN, data : SUBSET (0..call)]]
      /\ {direct', accepted'} \subseteq [Inputs -> BOOLEAN]
      /\ TakenOnce'
      /\ \A s \in Inputs \union Components : /\ Shown(s) => Shown(s)'
                                             /\ Consumed(s) => Consumed(s)'
      /\ \A x \in Inputs : direct'[x] \/ accepted'[x] => valid[x]
  BY <1>3, <1>5, CalculationStep
<1>7. FirstState'
  BY <1>2, <1>3 DEF FirstState
<1>8. Typed'
  <2>1. word' \in 0..Words /\ pc' \in 0..FINISH' /\ word' < Words
    BY <1>2, <1>3, <1>4, WordsAssumption DEF FINISH
  <2> QED BY <1>3, <1>4, <1>6, <2>1 DEF HSInv, Typed
<1>9. BetweenCalls'
  BY <1>2, <1>3 DEF BetweenCalls
<1>10. InputsRead'
  <2>1. ASSUME NEW x \in Inputs, valid[x]
        PROVE  \E k \in 1..(pc' - 1) : program[k] = Read(x)
    <3>1. PICK k \in 1..(pc - 1) : program[k] = Read(x)
      BY <1>5, <2>1 DEF HSInv, InputsRead
    <3>2. k \in 1..(pc' - 1)
      BY <1>2, <1>3
    <3> QED BY <3>1, <3>2
  <2>2. \A w \in 1..word' : FALSE
    BY <1>3
  <2> QED BY <1>3, <1>4, <1>5, <1>6, <2>1, <2>2 DEF HSInv, InputsRead
<1>11. OutputsWritten'
  <2>1. \A y \in Outputs : ~ ready[y]
    BY <1>1, <1>5, ReadsAndWrites DEF HSInv, OutputsWritten
  <2>2. ASSUME NEW y \in Outputs, NEW k \in DOMAIN program, k < pc', program[k] = Write(y)
        PROVE  Consumed(design.outputs[y])'
    <3>1. k < pc
      <4>1. k # pc
        BY <1>1, <2>2, ReadsAndWrites
      <4> QED BY <1>2, <1>3, <2>2, <4>1, DesignFacts DEF HSInv
    <3>2. PICK s \in Inputs \union Components : s = design.outputs[y] /\ s = design'.outputs[y]
      BY DesignFacts DEF HSInv
    <3>3. Consumed(s)
      BY <1>5, <2>2, <3>1, <3>2 DEF HSInv, OutputsWritten
    <3> QED BY <1>6, <3>2, <3>3
  <2>3. ~ (word' > 0) /\ word' # 1 /\ ~ (word' > 1)
    BY <1>3
  <2> QED BY <1>3, <1>4, <2>1, <2>2, <2>3 DEF OutputsWritten
<1>12. NotYetShown'
  <2> SUFFICES ASSUME pc' \in 2..Len(program), NEW x \in Inputs, program[pc' - 1] = Read(x)
               PROVE  FALSE
    BY <1>4 DEF NotYetShown
  <2>1. pc' - 1 = pc
    BY <1>2, <1>3
  <2> QED BY <1>1, <2>1, ReadsAndWrites
<1>13. SentFresh'
  BY <1>3 DEF HSInv, SentFresh
<1> QED BY <1>6, <1>7, <1>8, <1>9, <1>10, <1>11, <1>12, <1>13 DEF HSInv

(* The acknowledgement: the next call finds nothing of this one. *)
LEMMA FinishStep ==
  ASSUME HSInv, osif, StateFinish(TRUE), ValidProcesses, design' = design,
         NEW firing \in Firing, Calculation(firing)
  PROVE  HSInv'
<1>1. Len(program) \in Nat /\ pc = FINISH /\ pc > 0 /\ FINISH = Len(program) + 1
  BY DesignFacts DEF HSInv, StateFinish, FINISH
<1>2. /\ osif' = FALSE /\ pc' = 0 /\ call' = call + 1 /\ sent' = {} /\ init' = init
      /\ word' = word /\ data' = data /\ valid' = valid /\ ready' = ready
      /\ word = 0 /\ ~ init
  BY <1>1 DEF StateFinish, HSInv, Typed, InputsRead
<1>3. /\ program' = program /\ Inputs' = Inputs /\ Components' = Components
      /\ Ports' = Ports /\ Outputs' = Outputs /\ FINISH' = FINISH
  BY DesignUnchanged
<1>4. /\ \A c \in Components : ~ result[c].valid
      /\ \A port \in Ports : buffer[port] = {} /\ ~ SourceValid(PortSource(port))
      /\ \A x \in Inputs : accepted[x]
      /\ \A y \in Outputs : ~ ready[y]
  BY <1>1, Drained
<1>5. firing = {}
  <2>1. ASSUME NEW c \in Cores, CanFire(c)
        PROVE  FALSE
    <3>1. <<c, 1>> \in Ports /\ buffer[<<c, 1>>] # {}
      BY <2>1, DesignFacts DEF CanFire, HSInv
    <3> QED BY <1>4, <3>1
  <2> QED BY <2>1 DEF Firing
<1>6. buffer' = buffer
  BY <1>4, <1>5 DEF Calculation, HSInv, Typed
<1>7. ASSUME NEW c \in Components
      PROVE  /\ result'[c] \in [valid : BOOLEAN, data : SUBSET (0..call')]
             /\ ~ result'[c].valid /\ ~ Fired(c)'
  <2>1. result[c] \in [valid : BOOLEAN, data : SUBSET (0..call)] /\ call \in Nat
    BY DEF HSInv, Typed
  <2>2. result'[c] = [result[c] EXCEPT !.valid = result[c].valid /\ ~ SourceReady(c)]
    BY <1>5, DesignFacts DEF Calculation, CoreResult, HSInv
  <2>3. SourceReady(c) \in BOOLEAN /\ ~ result[c].valid
    BY <1>4 DEF SourceReady
  <2>4. result'[c].data \in SUBSET (0..call) /\ result'[c].valid = FALSE
        /\ result'[c] = [valid |-> FALSE, data |-> result[c].data]
    BY <2>1, <2>2, <2>3
  <2>5. result[c].data \in SUBSET (0..call')
    <3>1. 0..call \subseteq 0..call'
      BY <1>2, <2>1
    <3> QED BY <2>1, <3>1
  <2>6. call + 1 \notin 0..call
    BY <2>1
  <2>7. ~ Fired(c)'
    BY <1>2, <2>4, <2>6 DEF Fired
  <2> QED BY <2>4, <2>5, <2>7
<1>8. result' = [c \in Components |-> result'[c]]
  BY DEF Calculation
<1>9. ASSUME NEW x \in Inputs
      PROVE  ~ direct'[x] /\ accepted'[x] \in BOOLEAN /\ direct'[x] \in BOOLEAN
  <2>1. accepted[x] = TRUE /\ valid[x] \in BOOLEAN /\ ~ Cleared
    BY <1>2, <1>4 DEF HSInv, Typed, Cleared
  <2> QED BY <2>1 DEF ValidProcesses, SourceReady
<1>10. direct' = [x \in Inputs |-> direct'[x]] /\ accepted' = [x \in Inputs |-> accepted'[x]]
  BY DEF ValidProcesses
<1>11. Quiet'
  BY <1>3, <1>4, <1>6, <1>7, <1>9 DEF Quiet
<1>12. Typed'
  <2>1. result' \in [Components' -> [valid : BOOLEAN, data : SUBSET (0..call')]]
    BY <1>3, <1>7, <1>8
  <2>2. {direct', accepted'} \subseteq [Inputs' -> BOOLEAN]
    BY <1>3, <1>9, <1>10
  <2>3. buffer' \in [Ports' -> {{}, {call'}}]
    BY <1>3, <1>4, <1>6 DEF HSInv, Typed
  <2>4. call' \in Nat \ {0} /\ pc' \in 0..FINISH' /\ word' \in 0..Words /\ word' = 0
    BY <1>1, <1>2, <1>3 DEF HSInv, Typed
  <2>5. (InState("read")' => word' < Words) /\ (InState("other")' => word' = 0)
    BY <2>4, WordsAssumption
  <2> QED BY <1>2, <1>3, <2>1, <2>2, <2>3, <2>4, <2>5 DEF HSInv, Typed
<1>13. BetweenCalls'
  BY <1>2, <1>3, <1>4, <1>11 DEF BetweenCalls
<1>14. FirstState' /\ InputsRead' /\ TakenOnce' /\ OutputsWritten' /\ NotYetShown' /\ SentFresh'
  BY <1>2, <1>3 DEF FirstState, InputsRead, TakenOnce, OutputsWritten, NotYetShown, SentFresh
<1> QED BY <1>12, <1>13, <1>14 DEF HSInv
-----------------------------------------------------------------------------
(* The invariant holds when the hardware thread starts. *)
LEMMA HSInitial ==
  ASSUME DesignsInTime, Init
  PROVE  HSInv
<1>1. WellFormed(design) /\ OutputsInTime(design) /\ design \in Designs
  BY DEF DesignsInTime, Init
<1>2. program \in Seq([kind : {"read"}, port : Inputs] \union [kind : {"write"}, port : Outputs]
                      \union [kind : {"other"}, port : design.others])
  BY <1>1 DEF WellFormed, program, Inputs, Outputs
<1>3. Len(program) \in Nat /\ FINISH \in Nat /\ 0 \in 0..FINISH
  BY <1>2 DEF FINISH
<1>4. \A c \in Components : result[c] = [valid |-> FALSE, data |-> {}]
  BY DEF Init
<1>5. Typed
  <2>1. result \in [Components -> [valid : BOOLEAN, data : SUBSET (0..call)]]
    BY DEF Init
  <2>2. data \in [Inputs -> [1..Words -> Nat]]
    BY DEF Init
  <2>3. /\ {valid, direct, accepted} \subseteq [Inputs -> BOOLEAN]
        /\ ready \in [Outputs -> BOOLEAN] /\ buffer \in [Ports -> {{}, {call}}]
    BY DEF Init
  <2>4. call \in Nat \ {0} /\ word = 0 /\ word \in 0..Words /\ word < Words
    BY WordsAssumption DEF Init
  <2>5. pc = 0 /\ osif \in BOOLEAN /\ init \in BOOLEAN
    BY DEF Init
  <2> QED BY <1>1, <1>3, <2>1, <2>2, <2>3, <2>4, <2>5 DEF Typed
<1>6. Quiet
  <2>1. \A c \in Components : ~ result[c].valid /\ ~ Fired(c)
    BY <1>4 DEF Fired
  <2> QED BY <2>1 DEF Init, Quiet
<1>7. BetweenCalls
  BY <1>6 DEF Init, BetweenCalls
<1>8. FirstState /\ InputsRead /\ TakenOnce /\ OutputsWritten /\ NotYetShown /\ SentFresh
  BY DEF Init, FirstState, InputsRead, TakenOnce, OutputsWritten, NotYetShown, SentFresh
<1> QED BY <1>5, <1>7, <1>8 DEF HSInv

(* Every rising edge keeps it. *)
LEMMA HSStep == HSInv /\ [Next]_vars => HSInv'
<1> SUFFICES ASSUME HSInv, [Next]_vars PROVE HSInv'
  OBVIOUS
<1>1. CASE UNCHANGED vars
  <2>1. /\ design' = design /\ call' = call /\ pc' = pc /\ word' = word /\ osif' = osif
        /\ init' = init /\ data' = data /\ valid' = valid /\ direct' = direct
        /\ accepted' = accepted /\ ready' = ready /\ buffer' = buffer /\ result' = result
        /\ sent' = sent
    BY <1>1 DEF vars, fsmVars, calcVars
  <2>2. /\ program' = program /\ Inputs' = Inputs /\ Components' = Components
        /\ Ports' = Ports /\ Outputs' = Outputs /\ FINISH' = FINISH
        /\ \A port : PortSource(port)' = PortSource(port)
    BY <2>1, DesignUnchanged
  <2>3. \A s : Fired(s)' = Fired(s)
    BY <2>1 DEF Fired
  <2>4. \A s : /\ Shown(s)' <=> Shown(s)
               /\ Consumed(s)' <=> Consumed(s)
               /\ Untouched(s)' <=> Untouched(s)
    BY <2>1, <2>2, <2>3 DEF Shown, Consumed, Untouched
  <2>5. Typed'
    BY <2>1, <2>2 DEF HSInv, Typed, InState
  <2>6. BetweenCalls' /\ FirstState'
    BY <2>1, <2>2, <2>3 DEF HSInv, BetweenCalls, FirstState, Quiet
  <2>7. InputsRead' /\ SentFresh'
    BY <2>1, <2>2 DEF HSInv, InputsRead, SentFresh
  <2>8. TakenOnce'
    <3>1. ASSUME NEW port \in Ports
          PROVE  Shown(PortSource(port))' <=> Shown(PortSource(port))
      BY <2>1, <2>2, <2>3 DEF Shown
    <3> QED BY <2>1, <2>2, <2>3, <2>4, <3>1 DEF HSInv, TakenOnce
  <2>9. OutputsWritten'
    <3>1. ASSUME NEW y \in Outputs
          PROVE  /\ Shown(design.outputs[y])' <=> Shown(design.outputs[y])
                 /\ Consumed(design.outputs[y])' <=> Consumed(design.outputs[y])
      BY <2>1, <2>2, <2>3 DEF Shown, Consumed
    <3> QED BY <2>1, <2>2, <3>1 DEF HSInv, OutputsWritten
  <2>10. NotYetShown'
    BY <2>1, <2>2, <2>4 DEF HSInv, NotYetShown
  <2> QED BY <2>5, <2>6, <2>7, <2>8, <2>9, <2>10 DEF HSInv
<1>2. CASE Next
  <2>1. PICK done \in {osif, FALSE}, firing \in Firing : Tick(done, firing)
    BY <1>2 DEF Next
  <2>2. /\ done => osif
        /\ \/ StateInit(done) \/ StateRead(done) \/ StateWriteWait
           \/ StateWrite(done) \/ StateOther(done) \/ StateFinish(done)
        /\ ValidProcesses /\ Calculation(firing) /\ design' = design
    BY <2>1 DEF Tick
  <2>3. done \in BOOLEAN /\ osif \in BOOLEAN /\ Len(program) \in Nat /\ DOMAIN program = 1..Len(program)
    BY DesignFacts DEF HSInv, Typed
  <2>4. CASE StateInit(done)
    BY <2>2, <2>4, InitStep
  <2>5. CASE StateWriteWait
    <3>1. osif' \in BOOLEAN
      BY <2>3, <2>5 DEF StateWriteWait
    <3> QED BY <2>2, <2>5, <3>1, WriteWaitStep
  <2>6. CASE ~ done /\ (StateRead(done) \/ StateWrite(done) \/ StateOther(done) \/ StateFinish(done))
    <3>1. Busy /\ init' = init
      BY <2>6 DEF StateRead, StateWrite, StateOther, StateFinish
    <3>2. pc > 0
      BY <2>3, <2>6 DEF StateRead, StateWrite, StateOther, StateFinish, InState
    <3>3. ~ (InState("write") /\ word = 0)
      <4>1. CASE StateRead(done)
        <5>1. program[pc].kind = "read"
          BY <4>1 DEF StateRead, InState
        <5> QED BY <5>1 DEF InState
      <4>2. CASE StateWrite(done)
        BY <4>2 DEF StateWrite
      <4>3. CASE StateFinish(done)
        BY <2>3, <4>3 DEF StateFinish, InState
      <4>4. CASE StateOther(done)
        <5>1. program[pc].kind = "other"
          BY <4>4 DEF StateOther, InState
        <5> QED BY <5>1 DEF InState
      <4> QED BY <2>6, <4>1, <4>2, <4>3, <4>4
    <3> QED BY <2>2, <3>1, <3>2, <3>3, BusyStep
  <2>7. CASE done /\ StateRead(done)
    <3>1. StateRead(TRUE) /\ osif /\ InState("read")
      BY <2>2, <2>3, <2>7 DEF StateRead
    <3> QED BY <2>2, <3>1, ReadStep
  <2>8. CASE done /\ StateWrite(done)
    <3>1. StateWrite(TRUE) /\ osif /\ InState("write")
      BY <2>2, <2>3, <2>8 DEF StateWrite
    <3> QED BY <2>2, <3>1, WriteStep
  <2>10. CASE done /\ StateOther(done)
    <3>1. StateOther(TRUE) /\ osif /\ InState("other")
      BY <2>2, <2>3, <2>10 DEF StateOther
    <3> QED BY <2>2, <3>1, OtherStep
  <2>9. CASE done /\ StateFinish(done)
    <3>1. StateFinish(TRUE) /\ osif
      BY <2>2, <2>3, <2>9 DEF StateFinish
    <3> QED BY <2>2, <3>1, FinishStep
  <2> QED BY <2>2, <2>3, <2>4, <2>5, <2>6, <2>7, <2>8, <2>9, <2>10
<1> QED BY <1>1, <1>2

(* The invariant of the hardware thread. *)
LEMMA HSInvariant ==
  ASSUME DesignsInTime
  PROVE  Spec => []HSInv
BY HSInitial, HSStep, PTL DEF Spec
-----------------------------------------------------------------------------
(* Every word the state machine sends belongs to a result of this call's    *)
(* inputs, for every net of components whose outputs are in time, however   *)
(* long components and operating system take.                               *)
THEOREM SentWordsFresh ==
  ASSUME DesignsInTime
  PROVE  Spec => []WordsFresh
<1>1. HSInv => WordsFresh
  BY DEF HSInv, SentFresh, WordsFresh
<1> QED BY <1>1, HSInvariant, PTL

(* And every call finds the calculation empty although nothing resets it    *)
(* between calls: each port took its value exactly once in the call before. *)
THEOREM CalculationStaysDrained ==
  ASSUME DesignsInTime
  PROVE  Spec => []CalculationDrained
<1>1. HSInv => CalculationDrained
  BY DEF HSInv, FirstState, Quiet, CalculationDrained
<1> QED BY <1>1, HSInvariant, PTL
=============================================================================
