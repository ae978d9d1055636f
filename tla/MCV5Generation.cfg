\* Two calls, one with a pool of two workers; one fault, one removal.
CONSTANTS
    Call = {"pool", "single"}
    Split <- MCSplit
    Geometries <- MCGeometries
    Frequencies <- MCFrequencies
    Workers <- MCWorkers
    MaxFaults = 1
    MaxClears = 1
SPECIFICATION FairSpec
CHECK_DEADLOCK FALSE
INVARIANTS ManifestIsTrue EveryPathOnce
PROPERTIES Delivers
