---------------------------- MODULE MCMboxPutGet ----------------------------
EXTENDS MboxPutGet

CONSTANTS MaxHw, MaxSw, MaxIterations, MaxSize   \* bounds of the command lines

CommandLines(ops, hw, sw) ==
  [hw : hw, sw : sw, iterations : 1..MaxIterations, inThread : 1..ArgLimit,
   op : ops, size : 1..MaxSize]

(* The operations print_help lists with any threads, the memory operations *)
(* with one hardware thread, as measure.sh does.                           *)
MeasuredConfigurations ==
  CommandLines(Operations \ MemoryOperations, 0..MaxHw, 0..MaxSw)
  \union CommandLines(MemoryOperations, {1}, {0})

(* The memory operations with several hardware threads. *)
MemoryConfigurations == CommandLines(MemoryOperations, 2..MaxHw, {0})
=============================================================================
