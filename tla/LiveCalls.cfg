SPECIFICATION FairSpec
CONSTANTS
    p1 = p1
    p2 = p2
    Procs <- OneProc
    MaxSeq = 4
    MaxRows = 2
    QueueCap = 2
    Attempts = 2
    MaxCalls = 2
    MaxLoss = 2
    MaxCrash = 1
    Nil = Nil
INVARIANTS TypeOK SealedOnce AnswersOwnCall RunsInSequence NoMismatch
PROPERTIES CallEnds
CHECK_DEADLOCK FALSE
