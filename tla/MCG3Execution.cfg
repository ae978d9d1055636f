\* Two processes that run the command, two faults anywhere.
SPECIFICATION Spec
CONSTANTS
    NumTasks = 26
    Dependencies <- RegistryDependencies
    NumFamilies = 6
    Owner <- RegistryOwner
    Schedule <- RegistrySchedule
    SelectionTask <- Selection
    StateCounts = {3, 4}
    Processes = {p1, p2}
    NoProcess = none
    Observations = {o1, o2}
    StageStarts <- Starts
    FixedCount = 4
    MaxFaults = 2
INVARIANTS OnlyScienceStops EvidenceIsBacked
PROPERTIES OneExecution ImplementsDagRun
