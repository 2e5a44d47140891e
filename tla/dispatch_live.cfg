SPECIFICATION FairSpec
CONSTANTS
    Plans <- ChainPlans
    RETRY_MAX = 1
    BACKOFF_SECONDS <- OneRetry
    AGENT_TIMEOUTS_SEC <- NextTick
    GLOBAL_DEADLINE = 6
    INBOX_BATCH = 9
    Faults = {"crash"}
    MaxFaults = 1
    MaxTime = 6
    MaxGap = 1
PROPERTIES
    EventuallySettled
