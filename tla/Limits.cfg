SPECIFICATION Spec
CONSTANTS
    s1 = s1
    s2 = s2
    d1 = d1
    unknown = unknown
    Addrs <- MCAddrs
    KeyOf <- MCKeyOf
    Watched = {s1}
    Unknown = unknown
    Ids = {1, 2}
    None = None
    Requests <- MCRequests
    Slots = {r1, r2}
    r1 = r1
    r2 = r2
    Modes = {"off", "observe", "enforce"}
    Servers = 1
    Window = 2
    CreatorAge = 1
    Hour = 1
    Burst <- MCBurst
    Refill <- MCRefill
    MaxTime = 3
SYMMETRY SlotSymmetry
INVARIANTS TypeOK 
PROPERTIES RetryAfterHolds PruneInvisible
