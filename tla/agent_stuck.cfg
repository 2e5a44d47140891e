SPECIFICATION FairSpec
CONSTANTS
    CacheSize = 2
    MaxRequests = 2
    MaxEntries = 2
    INBOX_BATCH = 2
    Faults = {"raise"}
    MaxFaults = 1
PROPERTIES
    PendingIsHandled
CHECK_DEADLOCK FALSE
