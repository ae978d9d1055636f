--------------------------- MODULE MCG3Execution ---------------------------
(***************************************************************************)
(* The canonical launch on the 26 tasks and the six look families of the   *)
(* program.                                                                *)
(***************************************************************************)
EXTENDS G3Execution, G3Registry

RegistryDependencies ==
    [t \in 1..Len(GateOrder) |-> {Position(d) : d \in DependsOn(GateOrder[t])}]
RegistryOwner == [f \in 1..Len(LookOwners) |-> Position(LookOwners[f])]
\* A bridge family plans two looks, the others decide at their first.
RegistrySchedule == [f \in 1..Len(LookOwners) |-> IF f = Len(LookOwners) THEN 2 ELSE 1]
Selection == Position("design_predictive_selection")
Starts == {Position("input_integrity"), Position("production_fit_same_k"),
           Position("bridge_resource_preflight")}
=============================================================================
