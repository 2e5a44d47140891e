SPECIFICATION Spec
CONSTANTS
    Document <- Lectures
    Kind <- LectureKinds
    ChunkCount <- FewChunks
    Radix = 3
    Plans <- FewPlans
    MaxItems = 1
    Faults = {"crash", "store", "answer", "refuse", "timeout"}
    MaxFaults = 2
INVARIANTS
    TypeOK
    LoadedIsCommitted
    MadeFromUpstreams
CHECK_DEADLOCK FALSE
