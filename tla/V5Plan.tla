------------------------------- MODULE V5Plan -------------------------------
(***************************************************************************)
(* The geometry of a version 5 generation plan: the ranges of paths that   *)
(* are selected, and the shards, role by role, that they are cut into.     *)
(***************************************************************************)
EXTENDS Naturals, SequencesExt

CONSTANT Split  \* Split[role]: how many paths the configuration gives a role

Roles == <<"training", "validation", "test">>

ASSUME SplitAssumption == Split \in [Range(Roles) -> Nat]

RoleIndex(role) == CHOOSE i \in DOMAIN Roles : Roles[i] = role

\* The first and the last path of the namespace that a role is given.
FirstOf(role) ==
    CASE role = "training" -> 1
      [] role = "validation" -> Split["training"] + 1
      [] role = "test" -> Split["training"] + Split["validation"] + 1

LastOf(role) == FirstOf(role) + Split[role] - 1

PathRange ==
    {r \in [role : Range(Roles), first : Nat \ {0}, last : Nat \ {0}] :
        r.first <= r.last}

Paths(r) == r.first..r.last

\* The range lies in the namespace of its role.
Within(r) == Paths(r) \subseteq FirstOf(r.role)..LastOf(r.role)

\* What a plan demands of the selected ranges: some, in canonical order, disjoint.
Legal(ranges) ==
    /\ ranges \in Seq(PathRange) \ {<<>>}
    /\ \A i, j \in DOMAIN ranges : i < j =>
        /\ \/ RoleIndex(ranges[i].role) < RoleIndex(ranges[j].role)
           \/ ranges[i].role = ranges[j].role /\ ranges[i].first <= ranges[j].first
        /\ Paths(ranges[i]) \cap Paths(ranges[j]) = {}

\* Mutant: a shard that ends with the first path of the next one.
ShardsOverlap(r, size) ==
    [i \in 1..(r.last - r.first) \div size + 1 |->
        LET first == r.first + (i - 1) * size
            end == first + size
        IN [role |-> r.role, first |-> first,
            last |-> IF end < r.last THEN end ELSE r.last]]

\* The consecutive shards of one range, the last of them possibly short.
Shards(r, size) ==
    [i \in 1..(r.last - r.first) \div size + 1 |->
        LET first == r.first + (i - 1) * size
            end == first + size - 1
        IN [role |-> r.role, first |-> first,
            last |-> IF end < r.last THEN end ELSE r.last]]

\* The shards of all the ranges, numbered through.
WorkUnits(ranges, size) ==
    LET shards == FlattenSeq([i \in DOMAIN ranges |-> Shards(ranges[i], size)])
    IN [i \in DOMAIN shards |-> [role |-> shards[i].role, shard |-> i - 1,
                                 first |-> shards[i].first, last |-> shards[i].last]]

Plan(ranges, size) == [ranges |-> ranges, units |-> WorkUnits(ranges, size)]
=============================================================================
