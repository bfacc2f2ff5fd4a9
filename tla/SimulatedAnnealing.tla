-------------------------- MODULE SimulatedAnnealing --------------------------
(***************************************************************************)
(* SimulatedAnnealing::apply: random moves of single vertices, accepted    *)
(* with a probability that falls with the temperature.  The temperature is *)
(* counted in steps of tempDecreasingFactor.                               *)
(***************************************************************************)
EXTENDS PartitioningCosts

CONSTANTS
  iterationMax,   \* moves at one temperature; 1000 to 2000 in the code
  FrozenAt        \* temperature steps from Tinit to Tmin; 45 in the code

ASSUME AnnealingAssumption == {iterationMax, FrozenAt} \subseteq Nat \ {0}

VARIABLES
  S, Sbest,      \* the current and the best partitioning
  loop,          \* "outer" and "inner" loop, "done"
  steps,         \* how often the temperature was decreased
  itCount,       \* moves at this temperature
  currentCost,   \* the cost of S, kept by the inner loop
  ends           \* history: the given partitioning and those a temperature ended with

annealingVars == <<units, com, devices, S, Sbest, loop, steps, itCount, currentCost, ends>>

partitionCount == Len(devices)
costFunction(s) == getCriticalPathCost(s, devices)

AnnealingInit ==
  /\ InitCosts
  /\ devices \in DeviceLists
  /\ S \in [Vertices -> 0..(partitionCount - 1)]
  /\ Sbest = S
  /\ loop = "outer"
  /\ steps = 0 /\ itCount = 0 /\ currentCost = 0
  /\ ends = {S}

frozen == steps >= FrozenAt
equilibrium == itCount >= iterationMax

StartTemperature ==
  /\ loop = "outer" /\ ~ frozen
  /\ loop' = "inner"
  /\ itCount' = 0
  /\ currentCost' = costFunction(S)
  /\ UNCHANGED <<units, com, devices, S, Sbest, steps, ends>>

(* randomMove: any vertex to any other partition. *)
randomMove ==
  {[S EXCEPT ![v] = p] : v \in Vertices, p \in 0..(partitionCount - 1)} \ {S}

(* The cost of the accepted state forgotten. *)
MoveStaleCost ==
  /\ loop = "inner" /\ ~ equilibrium
  /\ S' \in randomMove \union {S}
  /\ itCount' = itCount + 1
  /\ UNCHANGED <<units, com, devices, Sbest, loop, steps, currentCost, ends>>

(* acceptNewState(...) > randomNumber(): a worse state may be accepted, and *)
(* any state may be refused, since randomNumber() can be 1.0.               *)
Move ==
  /\ loop = "inner" /\ ~ equilibrium
  /\ \E newS \in randomMove :
       \/ S' = newS /\ currentCost' = costFunction(newS)
       \/ UNCHANGED <<S, currentCost>>
  /\ itCount' = itCount + 1
  /\ UNCHANGED <<units, com, devices, Sbest, loop, steps, ends>>

(* The best result replaced by the current one; the temperature kept. *)
EndTemperatureKeepsCurrent ==
  /\ loop = "inner" /\ equilibrium
  /\ loop' = "outer"
  /\ steps' = steps + 1
  /\ Sbest' = S
  /\ ends' = ends \union {S}
  /\ UNCHANGED <<units, com, devices, S, itCount, currentCost>>
EndTemperatureSameTemperature ==
  /\ loop = "inner" /\ equilibrium
  /\ loop' = "outer"
  /\ Sbest' = IF costFunction(S) - costFunction(Sbest) < 0 THEN S ELSE Sbest
  /\ ends' = ends \union {S}
  /\ UNCHANGED <<units, com, devices, S, steps, itCount, currentCost>>

EndTemperature ==
  /\ loop = "inner" /\ equilibrium
  /\ loop' = "outer"
  /\ steps' = steps + 1
  /\ Sbest' = IF costFunction(S) - costFunction(Sbest) < 0 THEN S ELSE Sbest
  /\ ends' = ends \union {S}
  /\ UNCHANGED <<units, com, devices, S, itCount, currentCost>>

(* state = Sbest is the result. *)
Freeze ==
  /\ loop = "outer" /\ frozen
  /\ loop' = "done"
  /\ UNCHANGED <<units, com, devices, S, Sbest, steps, itCount, currentCost, ends>>

AnnealingNext == StartTemperature \/ Move \/ EndTemperature \/ Freeze

AnnealingSpec == AnnealingInit /\ [][AnnealingNext]_annealingVars /\ WF_annealingVars(AnnealingNext)
-----------------------------------------------------------------------------
AnnealingPM == INSTANCE PartitioningMethod
        WITH Method <- "sa", part <- Sbest,
             returned <- IF loop = "done" THEN partitionCount ELSE 0

AnnealingTypeOK ==
  /\ devices \in Seq(Devices)
  /\ {S, Sbest} \subseteq [Vertices -> 0..(partitionCount - 1)]
  /\ loop \in {"outer", "inner", "done"}
  /\ steps \in 0..FrozenAt
  /\ itCount \in 0..iterationMax
  /\ currentCost \in Nat

(* The cost the inner loop compares a move with is that of the partitioning *)
(* the move started from, after accepted and refused moves alike.           *)
CurrentCostFresh ==
  /\ AnnealingTypeOK
  /\ loop = "inner" => currentCost = costFunction(S)

(* However many worse states are accepted on the way, the result is as good *)
(* as the partitioning apply was given and as every one that a temperature  *)
(* ended with, and it is one of them.  A better one that was left before    *)
(* its temperature ended is not among them: Sbest is only looked at then.   *)
BestOfTemperatures ==
  /\ Sbest \in ends
  /\ \A s \in ends : costFunction(Sbest) <= costFunction(s)

(* The annealing freezes, and the best partitioning, which is the one the   *)
(* pass gets, never uses a partition without a device.                      *)
AnnealingImplementsMethod == AnnealingPM!Spec
=============================================================================
