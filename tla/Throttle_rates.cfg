CONSTANTS
    Leader <- MCLeader
    ISR <- MCISR
    Replicas <- MCReplicas
    Target <- MCTarget
    Capacity <- MCCapacity
    Topics = {1}
    Minimum = 1
    SrcMax = 50
    DstMax = 50
    ChangeThreshold = 10
    Handlers = {h1}
    OverrideBrokers = {1}
    FailureThreshold = 1
    CleanupAfter = 1
    SkipAutoDeleteThrottles = FALSE
    GlobalOverrides = TRUE
    InitialOverrides <- MCKept
SPECIFICATION Spec
CONSTANTS
    Modes = {"legacy"}
    Brokers = {1, 2}
    OverrideConfigs <- MCZero
    Utils = {0, 12}
    MetricsFail = TRUE
    InitialRates = {0}
    Unstable = {}
    MaxRequests = 2
    MaxFaults = 0
INVARIANTS TypeOK LegacyOverrideApplied ParticipantsThrottled
