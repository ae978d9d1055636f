\* Two units, two processes, a pool of two, any two faults; until the run lock is lost.
SPECIFICATION FairSpec
CONSTANTS
    NumUnits = 2
    NumWorkers = 2
    Processes = {p1, p2}
    NoProcess = none
    MaxFaults = 2
INVARIANTS OneCoordinatorUnlessExposed MarkerTellsState GeneratedIsComplete
PROPERTIES CommittedUnitsStay FailedIsTerminal StartedRunEnds
CONSTRAINT LockKept
CHECK_DEADLOCK FALSE
