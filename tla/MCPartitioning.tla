--------------------------- MODULE MCPartitioning ---------------------------
EXTENDS Partitioning, MCFunctions

CONSTANTS Kinds, Length   \* the statements of the functions, and how many

MCFunctionSet == MCFunctionsOf(Kinds, Length)

(* The hypotheses of the theorems hold of all of them. *)
ASSUME SupportedAssumption == "ifelse" \notin Kinds => \A f \in Functions : Supported(f)
ASSUME UsedAtOnceAssumption == "inc" \notin Kinds => \A f \in Functions : LoadsUsedAtOnce(f)

MCEarlier == {[deps |-> <<>>, sems |-> 0], [deps |-> <<"RealT">>, sems |-> 2]}
=============================================================================
