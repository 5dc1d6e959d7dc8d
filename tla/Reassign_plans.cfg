SPECIFICATION Spec
CONSTANTS
    InputMaps <- MCInputs
    Meta <- MCMeta
    Sizes <- MCSizes
    ParamSets <- MCParams
INVARIANTS
    TypeOK
    NoBrokerTwice
    RacksKept
    StorageMatchesMap
    WithinTolerance
PROPERTY Ends
CHECK_DEADLOCK FALSE
