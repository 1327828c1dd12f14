CONSTANTS
    outer = outer
    inner = inner
    c1 = c1
    c2 = c2
    c3 = c3
    Budget = {outer, inner}
    Above <- Nested
    Limit <- Limits
    Call = {c1, c2, c3}
    Scope <- Scopes
    Input <- Inputs
    MaxOutput <- Outputs
    MaxRetries = 1
    Threshold = 2
    Excess = 1
    Path = {"p"}
    Text = {"v", "w"}
    Gone = "gone"
    Assignment = {1, 2, 3}
    MaxCalls <- Calls
    MaxOps <- Operations
    MaxRounds <- Rounds
    MaxTries = 2
    Work <- ToJudge
    Validator = {"pytest"}
    CriticalQuorum = 2
    Draft <- Drafts
    Plain <- PlainPath
    Invalid = "invalid"
    Undeclared = Undeclared
    Known = {"e"}
    StrictPaths = FALSE
    PlannerTier = 2
    MaxAnswers = 2
    Model = {"m1", "m2", "m3", "m4"}
    Unbound = Unbound
    ReportedAs <- Answering
    JudgeTable <- JudgeTables
    Profile = {1, 2}
    JudgeTier = 2
    Quorum = 2
    Policy <- Policies
    WorkOrder <- Orders
    BuildTask = {1, 2}
    Absent = Absent
SPECIFICATION Spec
INVARIANTS
    EvidenceIsTrue
    
    PlanIsSound
    ModelsAreWellChosen
    NoOverspend
    ReservationsAreKept
PROPERTIES
    OneProfileThroughout
    EveryExecutionEnds
    CallsAreFair
CHECK_DEADLOCK FALSE
