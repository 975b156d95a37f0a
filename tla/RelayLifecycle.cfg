SPECIFICATION Spec
CONSTANTS
    r1 = r1
    r2 = r2
    r3 = r3
    j1 = j1
    j2 = j2
    b1 = b1
    b2 = b2
    Nil = Nil
    Reqs <- LifecycleReqs
    Role <- LifecycleRole
    Kinds <- JobsOnly
    Bodies <- OneBody
    Joiners <- TwoJoiners
    MaxObjs = 2
    MaxSeq = 1
    MaxQueue = 1
    TTL = 1
    MaxTime = 2
    MaxBoots = 2
INVARIANTS
    OneRegistered
    FirstJoinRetained
    StoredHasLive
PROPERTIES
    GoneIsFinal
SYMMETRY SlotSymmetry
