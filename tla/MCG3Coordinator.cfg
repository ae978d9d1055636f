\* Two processes, any three kills or exceptions, any outcome of each handler.
SPECIFICATION FairSpec
CONSTANTS
    NumTasks = 6
    Dependencies <- SmallDependencies
    NumFamilies = 2
    Owner <- SmallOwner
    Schedule <- SmallSchedule
    SelectionTask = 2
    StateCounts = {2, 3}
    Processes = {p1, p2}
    NoProcess = none
    MaxFaults = 3
INVARIANTS MemoryMatchesDisk StoreNeverRefuses PassedOnPassingLooks
PROPERTIES RecordsAreFinal ImplementsDagRun CompletesUnlessResidue
CHECK_DEADLOCK FALSE
