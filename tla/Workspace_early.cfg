CONSTANTS
    Process = {p1}
    Container = {1}
    Phases = 1
    MaxFaults = 0
    MaxDecisions = 1
    MaxRetentions = 2
SPECIFICATION WorkspaceSpec
PROPERTIES
    RetainedForItsTime
CHECK_DEADLOCK FALSE
