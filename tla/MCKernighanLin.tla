---------------------------- MODULE MCKernighanLin ----------------------------
EXTENDS KernighanLin

CONSTANT N   \* vertices

MCUnitLists == {[v \in 1..N |-> <<>>]}
MCComOperations ==
  {[data |-> 0, order |-> 0], [data |-> 1, order |-> 0], [data |-> 0, order |-> 1]}
MCMixed == {<<"Cortex-A9", "xc7z020-1">>, <<"Cortex-A9">>}
MCTwoCores == {<<"Cortex-A9", "Cortex-A9">>}
=============================================================================
