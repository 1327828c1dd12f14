CONSTANTS
    Process = {p1, p2}
    Container = {1, 2}
    Phases = 1
    MaxFaults = 1
    MaxDecisions = 1
    MaxRetentions = 1
SPECIFICATION WorkspaceSpec
INVARIANTS
    WorkspaceIsExclusive
PROPERTIES
    WorkIsKept
    EveryCheckoutIsReleased
CHECK_DEADLOCK FALSE
