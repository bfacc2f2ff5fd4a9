----------------------------- MODULE Calculations -----------------------------
(***************************************************************************)
(* The calculation of a hardware thread as a net, and which nets the       *)
(* handshake of the generated hardware is made for.  A net is a record     *)
(*   inputs     - the inputs that the state machine reads                  *)
(*   components - the operands of every component, without the constants,  *)
(*                which are always there                                   *)
(*   plain      - the components that hold neither operands nor result     *)
(*   outputs    - what every output that the state machine writes shows    *)
(*   others     - other calls of the operating system, see program         *)
(*   program    - the states of the state machine between INIT and FINISH  *)
(* and an input or a component is a source.                                *)
(***************************************************************************)
EXTENDS Naturals, Sequences

Sources(d) == d.inputs \union DOMAIN d.components
Operands(d, c) == {d.components[c][p] : p \in DOMAIN d.components[c]}

(* The components and inputs a value depends on: what every set with that   *)
(* value and the operands of its components contains.                       *)
OperandsIncluded(d, K) == \A c \in DOMAIN d.components \cap K : Operands(d, c) \subseteq K
DependsOn(d, s, x) ==
  \A K \in SUBSET Sources(d) : s \in K /\ OperandsIncluded(d, K) => x \in K

(* The nets for which the signals fit together: a value has one output      *)
(* only, and where a component uses it as well, the output is written right *)
(* after an input of it was read; so ready is there before the value is.    *)
(* And all components keep their operands until they have computed, and     *)
(* their result until it is taken.                                          *)
OutputsInTime(d) ==
  /\ d.plain = {}
  /\ \A y \in DOMAIN d.outputs :
       /\ \A z \in DOMAIN d.outputs \ {y} : d.outputs[z] # d.outputs[y]
       /\ (\E c \in DOMAIN d.components : d.outputs[y] \in Operands(d, c)) =>
            \E k \in 2..Len(d.program) :
              /\ d.program[k] = [kind |-> "write", port |-> y]
              /\ d.program[k - 1].kind = "read"
              /\ DependsOn(d, d.outputs[y], d.program[k - 1].port)

(* The net of a function: no value is read or written twice, every output   *)
(* is written, and everything is there for some output.                     *)
WellFormed(d) ==
  /\ d.inputs \cap DOMAIN d.components = {}
  /\ \A c \in DOMAIN d.components : d.components[c] \in Seq(Sources(d)) \ {<< >>}
  /\ d.plain \subseteq DOMAIN d.components
  /\ \A y \in DOMAIN d.outputs : d.outputs[y] \in Sources(d)
  /\ d.program \in Seq([kind : {"read"}, port : d.inputs] \union
                       [kind : {"write"}, port : DOMAIN d.outputs] \union
                       [kind : {"other"}, port : d.others])
  /\ \A k, l \in DOMAIN d.program : d.program[k] = d.program[l] => k = l
  /\ \A y \in DOMAIN d.outputs :
       \E k \in DOMAIN d.program : d.program[k] = [kind |-> "write", port |-> y]
  /\ \A s \in Sources(d) : \E y \in DOMAIN d.outputs : DependsOn(d, d.outputs[y], s)
=============================================================================
