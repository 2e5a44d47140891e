SPECIFICATION Spec
CONSTANTS
    Plans <- MixedPlans
    RETRY_MAX = 2
    BACKOFF_SECONDS <- TwoRetries
    AGENT_TIMEOUTS_SEC <- ShortTimeouts
    GLOBAL_DEADLINE = 5
    INBOX_BATCH = 2
    Faults = {"silent"}
    MaxFaults = 0
    MaxTime = 6
    MaxGap = 2
INVARIANTS
    TypeOK
    TriedEnough
    FailureHasCause
    DispatchedWhenReady
    NothingReadyLeft
PROPERTIES
    ResolutionIsFinal
    ImplementsTask
