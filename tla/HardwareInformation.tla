------------------------- MODULE HardwareInformation -------------------------
(***************************************************************************)
(* The timings of the two devices a partition can run on, in cycles of the *)
(* 800 MHz processor.                                                      *)
(***************************************************************************)
EXTENDS Integers

Devices == {"Cortex-A9", "xc7z020-1"}
fpgaClockMultiplier == 8

(* The cycle counts; "sincos" stands for the names call#sin and call#cos, of *)
(* which the processor's table only has the prefix "call".                   *)
cortexA9 ==
  [ret |-> 0, br |-> 0, fadd |-> 4, fsub |-> 4, fmul |-> 6, fdiv |-> 25, or |-> 2,
   alloca |-> 0, load |-> 4, store |-> 6, getelementptr |-> 3, zext |-> 1,
   icmp |-> 3, fcmp |-> 4, select |-> 4, phi |-> 0, call |-> 50,
   sincos |-> 50]
fpga ==
  [ret |-> 0, br |-> 0, fadd |-> 13, fsub |-> 13, fmul |-> 10, fdiv |-> 58, or |-> 1,
   alloca |-> 0, load |-> 40, store |-> 40, getelementptr |-> 0, zext |-> 0,
   icmp |-> 1, fcmp |-> 3, select |-> 0, phi |-> 0, call |-> 2^20,
   sincos |-> 7 + 54 + 8]

getCycleCount(device, opcode) ==
  IF device = "Cortex-A9" THEN cortexA9[opcode]
                          ELSE fpgaClockMultiplier * fpga[opcode]

(* getCommunicationInfo(target)->getCommunicationCost(type) of a source. *)
getCommunicationCost(source, target, type) ==
  LET cost(data, order) == IF type = "DataDependency" THEN data ELSE order
  IN IF source = "Cortex-A9"
     THEN IF target = "Cortex-A9" THEN cost(455, 220) ELSE fpgaClockMultiplier * cost(275, 115)
     ELSE fpgaClockMultiplier * IF target = "Cortex-A9" THEN cost(315, 240) ELSE 1

(* The average over all ordered pairs of devices. *)
getDeviceIndependentCommunicationCost(type) ==
  (  getCommunicationCost("Cortex-A9", "Cortex-A9", type)
   + getCommunicationCost("Cortex-A9", "xc7z020-1", type)
   + getCommunicationCost("xc7z020-1", "Cortex-A9", type)
   + getCommunicationCost("xc7z020-1", "xc7z020-1", type)) \div 4
=============================================================================
