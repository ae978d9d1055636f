\* Two people, who call whatever they like in any order, and two faults.
SPECIFICATION FairSpec
CONSTANTS
    People = {p1, p2}
    Nobody = nobody
    MaxFaults = 2
INVARIANTS CompleteIsCovered ReleaseIsAttested
PROPERTIES OneWay FinalizationSucceeds
CHECK_DEADLOCK FALSE
