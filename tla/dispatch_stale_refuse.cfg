SPECIFICATION Spec
CONSTANTS
    Plans <- ChainPlans
    RETRY_MAX = 1
    BACKOFF_SECONDS <- OneRetry
    AGENT_TIMEOUTS_SEC <- ShortTimeouts
    GLOBAL_DEADLINE = 2
    INBOX_BATCH = 2
    Faults = {"crash"}
    MaxFaults = 1
    MaxTime = 3
    MaxGap = 3
INVARIANTS
    DispatchedWhenReady
