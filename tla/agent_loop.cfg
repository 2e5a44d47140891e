SPECIFICATION FairSpec
CONSTANTS
    CacheSize = 2
    MaxRequests = 3
    MaxEntries = 5
    INBOX_BATCH = 2
    Faults = {"duplicate", "raise", "bus", "read", "crash"}
    MaxFaults = 2
INVARIANTS
    TypeOK
    HandledAtMostOnce
    AckMeansAnswered
    RepeatMeansEvicted
    RoutedTwiceMeansEvicted
PROPERTIES
    OthersAreServed
CHECK_DEADLOCK FALSE
