SPECIFICATION FairSpec
CONSTANTS
    Dirs <- MCDirs
    Bases <- MCBases
    DirCanon <- MCDirCanon
    Link <- MCLink
    Present <- MCPresent
    CommandLine = {"log"}
    Levels = {0, 1}
    Plans <- MCPlans
    MaxSeq = 2
    Capacity = 1
    Nil = Nil
INVARIANTS TypeOK AuditLeads SentConsented ExitTellsEnd
PROPERTIES StopEnds
