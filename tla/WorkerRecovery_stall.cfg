\* Workers that outlive their lease, one remote, and an operator who cancels.
CONSTANTS
    w1 = w1
    w2 = w2
    None = None
    Workflow = {f1}
    Worker = {w1, w2}
    Api = {a1}
    Key = {}
    Digest = {d1}
    Fp = {}
    Fingerprint <- NoFingerprint
    Required = {}
    MaxAttempts = 2
    MaxJobs = 2
    Gates <- TwoNodes
    UseLock = TRUE
    Stalls = TRUE
    Leased = {f1}
    Local = {w1}
    Cancellable = {f1}
    Versions = {0, 1, 2}
    MaxCkpt = 3
SPECIFICATION RecoverySpec
INVARIANTS
    DecisionAppliedWhereBound
    DecisionsTakeEffectOnce
\* The bounds on jobs and checkpoints end every behaviour.
CHECK_DEADLOCK FALSE
