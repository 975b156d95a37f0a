SPECIFICATION Spec
CONSTANTS
    r1 = r1
    r2 = r2
    r3 = r3
    j1 = j1
    j2 = j2
    b1 = b1
    b2 = b2
    Nil = Nil
    Reqs <- MessageReqs
    Role <- MessageRole
    Kinds <- JobsOnly
    Bodies <- TwoBodies
    Joiners <- OneJoiner
    MaxObjs = 1
    MaxSeq = 3
    MaxQueue = 2
    TTL = 1
    MaxTime = 1
    MaxBoots = 1
INVARIANTS
    TypeOK
    InOrder
    AckedIsAccepted
    NoLostWakeup
PROPERTIES
    AtMostOnce
SYMMETRY BodySymmetry
