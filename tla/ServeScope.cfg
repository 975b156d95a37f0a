SPECIFICATION Spec
CONSTANTS
    Dirs <- MCDirs
    Bases <- MCBases
    DirCanon <- MCDirCanon
    Link <- MCLink
    Present <- MCPresent
    CommandLine = {"log"}
    Levels = {0, 1}
    Plans <- ScopePlans
    MaxSeq = 3
    Capacity = 1
    Nil = Nil
INVARIANTS ReadsConsented OnceIsRevoked EachJobOnce
PROPERTIES ScopeGrowsByConsent
