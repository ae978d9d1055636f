CONSTANTS
    NumStates = 2
    NumRows = 4
    NumPositions = 4
    Grid = 6
    MeanLength = 3
    Stationary <- MCStationary
    Transition <- MCTransition
    Geometries <- MCGeometries

SPECIFICATION PathSpec
CHECK_DEADLOCK FALSE

INVARIANTS
    TwinsAgree
    BlocksAreHistory
    IdealIsCounterfactual
    SupportIsHonest
    PathsAgree
