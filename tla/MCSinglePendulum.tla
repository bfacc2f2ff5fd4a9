-------------------------- MODULE MCSinglePendulum --------------------------
EXTENDS SinglePendulum

CONSTANTS MaxThreads, MaxIterations, MaxInThread   \* bounds of the command lines

(* Every combination of options and numbers, on 32 bits with or without *)
(* ReconOS and on 64 bits without; main refuses some of them.           *)
CommandLines ==
  {c \in [hw : 0..MaxThreads, sw : 0..MaxThreads, iterations : 0..MaxIterations,
          inThread : 0..MaxInThread, reconos : BOOLEAN, memory : BOOLEAN,
          flush : BOOLEAN, words : {1, 2}] :
     /\ c.words = 2 => ~c.reconos
     /\ running_threads(c) <= MaxThreads}
=============================================================================
