---------------------- MODULE MCHierarchicalClustering ----------------------
EXTENDS HierarchicalClustering

CONSTANT N   \* vertices

MCUnit == <<<<"load", "fmul">>, <<"store">>, <<"load", "call", "store">>, <<"fadd", "store">>>>
MCUnitLists == {[v \in 1..N |-> MCUnit[v]]}
MCComOperations ==
  {[data |-> 0, order |-> 0], [data |-> 1, order |-> 0], [data |-> 0, order |-> 1]}
MCDeviceLists ==
  {<<"Cortex-A9", "xc7z020-1">>, <<"Cortex-A9", "Cortex-A9">>,
   <<"Cortex-A9", "Cortex-A9", "Cortex-A9">>,
   <<"Cortex-A9", "Cortex-A9", "Cortex-A9", "Cortex-A9">>}
=============================================================================
