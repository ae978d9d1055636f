--------------------------- MODULE MCV5Generation ---------------------------
EXTENDS V5Generation

MCSplit == [training |-> 2, validation |-> 1, test |-> 1]

Training(first, last) == [role |-> "training", first |-> first, last |-> last]
Test(first, last) == [role |-> "test", first |-> first, last |-> last]

\* One role in two shards; two roles, with one between them left out; a role
\* that is named twice, which the plan allows and the validator refuses.
OneRole == [size |-> 1, ranges |-> <<Training(1, 2)>>]
TwoRoles == [size |-> 2, ranges |-> <<Training(1, 2), Test(4, 4)>>]
RoleTwice == [size |-> 2, ranges |-> <<Training(1, 1), Training(2, 2)>>]
MCGeometries ==
    [k \in Call |-> IF k = "pool" THEN {TwoRoles, RoleTwice} ELSE {OneRole}]

MCFrequencies == <<"daily", "monthly">>
MCWorkers == [k \in Call |-> IF k = "pool" THEN 2 ELSE 1]
=============================================================================
