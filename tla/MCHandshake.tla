----------------------------- MODULE MCHandshake -----------------------------
EXTENDS Handshake, SequencesExt

(* The functions  t0 = s1 * s2; z = s3 + s4  and  y = s1.  t0 may be used by *)
(* the second statement, and may be stored into y before or after it, or be  *)
(* sent to another partition besides.  A variable is read when it is used    *)
(* first.                                                                    *)
Reads(operands, before) ==
  LET once == IF operands[1] = operands[2] THEN <<operands[1]>> ELSE operands
      new == SelectSeq(once, LAMBDA x : x \in {"a", "b", "c"} \ before)
  IN [k \in DOMAIN new |-> [kind |-> "read", port |-> new[k]]]
Writes(outputs) == [k \in DOMAIN outputs |-> [kind |-> "write", port |-> outputs[k]]]

Design(first, second, early, late) ==
  [inputs |-> {"a", "b", "c"} \cap (Range(first) \union Range(second)),
   components |-> [t0 |-> first, t1 |-> second], plain |-> {}, others |-> {},
   outputs |-> [y \in Range(early) \union Range(late) |-> IF y = "z" THEN "t1" ELSE "t0"],
   program |-> Reads(first, {}) \o Writes(early) \o Reads(second, Range(first)) \o Writes(late)]
Copy ==
  [inputs |-> {"a"}, components |-> << >>, plain |-> {}, others |-> {}, outputs |-> [y |-> "a"],
   program |-> Reads(<<"a", "a">>, {}) \o Writes(<<"y">>)]
DesignsWith(early, late) ==
  {Design(f, s, early, late) : f \in {"a", "b"} \X {"a", "b"},
                               s \in {"a", "b", "c", "t0"} \X {"a", "b", "c", "t0"}}

(* A core with one operand, the other one being a constant, and a semaphore *)
(* before and after its result is sent.                                     *)
Synchronized ==
  [inputs |-> {"a"}, components |-> [t0 |-> <<"a">>], plain |-> {}, others |-> {"wait", "post"},
   outputs |-> [y |-> "t0"],
   program |-> Reads(<<"a", "a">>, {}) \o <<[kind |-> "other", port |-> "wait"]>>
               \o Writes(<<"y">>) \o <<[kind |-> "other", port |-> "post"]>>]

(* t0 is an integer component. *)
WithPlain(d) == [d EXCEPT !.plain = {"t0"}]

(* An integer component of one input (the other operand is a constant), in  *)
(* front of a core that keeps the result.                                   *)
PlainDesigns ==
  {WithPlain([Design(<<"a", "a">>, s, << >>, <<"z">>) EXCEPT !.components.t0 = <<"a">>]) :
     s \in {<<"t0", "t0">>, <<"t0", "b">>, <<"b", "t0">>}}

(* The result of the first statement is used by the second one. *)
Chained(d) == "t0" \in Range(d.components.t1)

(* A value has no consumer but one output, or its output is written as soon *)
(* as its operands have been read.                                          *)
CoreDesigns ==
  {Copy, Synchronized}
         \union {d \in DesignsWith(<< >>, <<"z">>) : Chained(d)}
         \union {d \in DesignsWith(<< >>, <<"z", "y">>) : ~ Chained(d)}
         \union DesignsWith(<<"y">>, <<"z">>)
ASSUME DesignsAssumption == \A d \in CoreDesigns : WellFormed(d) /\ OutputsInTime(d)

MCDesigns == CoreDesigns \union PlainDesigns

LateDesigns == {d \in DesignsWith(<< >>, <<"z", "y">>) : Chained(d)}
TwiceDesigns == DesignsWith(<<"y", "mbox">>, <<"z">>)
(* z = a + b of integers, and an integer sum that is an operand of a core. *)
PlainOutputDesigns ==
  {[inputs |-> {"a", "b"}, components |-> [t0 |-> <<"a", "b">>], plain |-> {"t0"}, others |-> {},
    outputs |-> [y |-> "t0"], program |-> Reads(<<"a", "b">>, {}) \o Writes(<<"y">>)]}
PlainSumDesigns == {WithPlain(Design(<<"a", "b">>, <<"t0", "t0">>, << >>, <<"z">>))}
(* They are calculations of functions all the same. *)
ASSUME LateAssumption ==
  \A d \in LateDesigns \union TwiceDesigns \union PlainDesigns
            \union PlainOutputDesigns \union PlainSumDesigns : WellFormed(d) /\ ~ OutputsInTime(d)

=============================================================================
