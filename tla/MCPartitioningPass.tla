-------------------------- MODULE MCPartitioningPass --------------------------
EXTENDS PartitioningPass

MCFunctionOrder == <<"evalD", "evalND", "evalS">>
MCVertexCount == [evalD |-> 3, evalND |-> 4, evalS |-> 1]

Methods == {"nop", "random", "clustering", "sa", "k-lin"}
FunctionLists ==
  {<<"evalND">>, <<"evalS">>, <<"evalND", "evalD">>, <<"evalD", "evalX", "evalND">>}
MethodLists ==
  {<<m>> : m \in Methods \union {"clsutering"}}
  \union {<<m, n>> : m, n \in Methods} \union {<<m, n, "k-lin">> : m, n \in Methods}
DeviceLists ==
  {<<"Cortex-A9">>, <<"Cortex-A9", "Cortex-A9">>, <<"Cortex-A9", "xc7z020-1">>,
   <<"Cortex-A9", "Cortex-A9", "xc7z020-1">>}
MCOptions == [functions : FunctionLists, methods : MethodLists, devices : DeviceLists]
=============================================================================
