CONSTANTS
    Leader <- MCLeader
    ISR <- MCISR
    Replicas <- MCReplicas
    Target <- MCTarget
    Capacity <- MCCapacity
    Topics = {1}
    Minimum = 1
    SrcMax = 50
    DstMax = 50
    ChangeThreshold = 10
    Handlers = {h1}
    OverrideBrokers = {1}
    FailureThreshold = 1
    CleanupAfter = 1
    SkipAutoDeleteThrottles = FALSE
    GlobalOverrides = TRUE
    InitialOverrides <- MCKept
SPECIFICATION Spec
CONSTANTS
    Modes = {"legacy", "native"}
    Brokers = {1}
    OverrideConfigs <- MCRemoved
    Utils = {0}
    MetricsFail = FALSE
    InitialRates = {1}
    Unstable = {1}
    MaxRequests = 1
    MaxFaults = 1
PROPERTY NoThrottleLeftBehind
