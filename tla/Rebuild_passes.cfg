SPECIFICATION Spec
CONSTANTS
    InputMaps <- Uneven
    Meta <- MCMeta
    Sizes <- MCSizes
    ParamSets <- PlainBase
INVARIANT NoReplicaLost
CHECK_DEADLOCK FALSE
