SPECIFICATION Spec
CONSTANTS
    Document <- Lecture
    Kind <- LectureKind
    ChunkCount <- ManyChunks
    Radix = 3
    Plans <- OnePlan
    MaxItems = 1
    Faults = {"crash"}
    MaxFaults = 1
INVARIANTS
    ChunksInOrder
CHECK_DEADLOCK FALSE
