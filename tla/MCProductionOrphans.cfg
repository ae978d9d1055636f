\* One kill of a coordinator with a pool of two.
SPECIFICATION Spec
CONSTANTS
    NumUnits = 2
    NumWorkers = 2
    Processes = {p1, p2}
    NoProcess = none
    MaxFaults = 1
INVARIANT RecoveredAlone
CONSTRAINT LockKept
CHECK_DEADLOCK FALSE
