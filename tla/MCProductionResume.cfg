\* One kill of a coordinator that generates by itself.
SPECIFICATION Spec
CONSTANTS
    NumUnits = 1
    NumWorkers = 1
    Processes = {p1, p2}
    NoProcess = none
    MaxFaults = 1
PROPERTY ResumeRegenerates
CONSTRAINT LockKept
CHECK_DEADLOCK FALSE
