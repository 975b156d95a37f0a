SPECIFICATION FairSpec
CONSTANTS
    Backends = {"memory", "dir", "r2"}
    ChunkCount = 2
    OrphanAge = 0
    MaxSlots = 2
    Attempts = 2
    MaxFaults = 1
    TTL = 1
    MaxTime = 2
INVARIANTS TypeOK SuccessKept FailureTold EndIsFinal
PROPERTIES  UploadEnds
