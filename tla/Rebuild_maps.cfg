SPECIFICATION Spec
CONSTANTS
    InputMaps <- MCInputs
    Meta <- MCMeta
    Sizes <- MCSizes
    ParamSets <- MCParams
INVARIANTS
    TypeOK
    NoBrokerTwice
    OnlyProvidedBrokers
    RacksSpread
    ReplicationKept
    StorageAccounted
    NoBrokerOverrun
    PhaseKeepsLeader
    ChunksConverge
PROPERTY Ends
CHECK_DEADLOCK FALSE
