\* A call beside a running coordinator, no other fault.
SPECIFICATION Spec
CONSTANTS
    NumUnits = 1
    NumWorkers = 1
    Processes = {p1, p2}
    NoProcess = none
    MaxFaults = 0
INVARIANT OneCoordinator
CHECK_DEADLOCK FALSE
