\* Every store, two publishers, two faults and one power loss anywhere.
SPECIFICATION FairSpec
CONSTANTS
    Address <- MCAddress
    Shape <- MCShape
    Queues <- MCQueues
    Founded <- MCFounded
    Publisher = {p1, p2}
    MaxFaults = 2
    MaxLosses = 1
INVARIANTS VisibleIsWhole ParentsStand ReturnedSurvives
PROPERTIES ImplementsStore CallSucceeds
CHECK_DEADLOCK FALSE
