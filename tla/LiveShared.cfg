SPECIFICATION Spec
CONSTANTS
    p1 = p1
    p2 = p2
    Procs <- TwoProcs
    MaxSeq = 4
    MaxRows = 1
    QueueCap = 2
    Attempts = 2
    MaxCalls = 2
    MaxLoss = 0
    MaxCrash = 0
    Nil = Nil
INVARIANTS SealedOnce
CHECK_DEADLOCK FALSE
