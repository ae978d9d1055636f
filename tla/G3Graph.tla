------------------------------ MODULE G3Graph ------------------------------
(***************************************************************************)
(* The closed task and planned-look registries of the G3 gate, as          *)
(* model/g3_registry.py keeps them, for any graph that passes              *)
(* _validate_registries: a task is its position in the registry, which is  *)
(* a topological order, and a look family has one owning task.  G3Registry *)
(* gives the graph of the program.                                         *)
(***************************************************************************)
EXTENDS Naturals

CONSTANTS
    NumTasks,     \* len(G3_TASK_REGISTRY)
    Dependencies, \* Dependencies[t]: the tasks that t depends on
    NumFamilies,  \* len(G3_PLANNED_LOOK_REGISTRY)
    Owner,        \* Owner[f]: the task that owns look family f
    Schedule      \* Schedule[f]: how many looks family f plans at most

Tasks == 1..NumTasks
Families == 1..NumFamilies

\* _validate_registries
ASSUME RegistryAssumption ==
    /\ NumTasks \in Nat \ {0}
    /\ NumFamilies \in Nat
    /\ Dependencies \in [Tasks -> SUBSET Tasks]
    /\ \A t \in Tasks : \A d \in Dependencies[t] : d < t
    /\ Owner \in [Families -> Tasks]
    /\ Schedule \in [Families -> Nat \ {0}]

Owned(t) == {f \in Families : Owner[f] = t}
=============================================================================
