CONSTANTS
    Content = {1, 2}
    Nothing = 0
    MaxFaults = 2
    MaxForeign = 2
    MaxRounds = 2
    PageSize = 1
    MaxPages = 2
    Names <- CheckNames
    MaxRuns = 4
    Timeout = 1
    Grace = 0
    Message = {1, 2}
    Loop = loop
    Caller = {c1}
    MaxSends = 2
    FlushLimit = 1
    MaxCrashes = 1
SPECIFICATION Spec
INVARIANTS
    
    PublishedOnce
    ChecksAreRead
PROPERTIES
    NotifiedOnce
    
CHECK_DEADLOCK FALSE
