CONSTANTS
    Task = {1, 2}
    Plans <- TwoPlans
    AgentOf <- OneAgent
    MaxParallel <- Parallel
    Writes <- Shared
    Rev = {0, 1}
    Cost = {2}
    MaxAttempts = 2
    TaskTokens = 4
    WorkflowTokens = 10
    WorkflowIterations = 1
    MaxRetries = 1
SPECIFICATION GraphSpec
INVARIANT RedCIReachesAHuman
CHECK_DEADLOCK FALSE
