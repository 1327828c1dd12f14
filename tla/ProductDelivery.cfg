CONSTANTS
    Request = {r1, r2}
    Workflow = {1, 2, 3}
    AttemptLimit = 2
    FeatureLimit = 2
    MaxRevision = 7
    MaxLosses = 1
    Approval = {a1, a2}
    Brief = {1, 2}
    Estimate = 2
    Cost = {1, 3}
    MaxCost = 4
    Event = {e1, e2}
    Handler = {h1, h2, h3}
    MaxGates = 1
    MaxRestarts = 1
SPECIFICATION Spec
INVARIANTS
    OneWorkflowPerAttempt
    EventsActOnce
PROPERTIES
    LedgerIsTrue
    ApprovalIsFinal
CHECK_DEADLOCK FALSE
SYMMETRY HandlerSymmetry
