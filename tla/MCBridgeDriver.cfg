\* Two batches, two looks, two callers of the canonical driver, two faults.
SPECIFICATION FairSpec
CONSTANTS
    Sciences <- MCSciences
    NumBatches = 2
    NumLooks = 2
    Timings = {1, 2}
    Callers = {"p1", "p2"}
    StagedCaller = "p1"
    MaxFaults = 2
INVARIANTS PrefixReverifies FinalReverifies
PROPERTIES BridgeEnds
CHECK_DEADLOCK FALSE
