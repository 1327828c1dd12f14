\* Two approvals in one node, two workers, the file lock, and a workflow whose
\* workspace is not leased yet, so that the reconciler leaves it alone.
CONSTANTS
    w1 = w1
    w2 = w2
    None = None
    Workflow = {f1}
    Worker = {w1, w2}
    Api = {a1}
    Key = {}
    Digest = {d1}
    Fp = {}
    Fingerprint <- NoFingerprint
    Required = {}
    MaxAttempts = 2
    MaxJobs = 3
    Gates <- SameNode
    UseLock = TRUE
    Stalls = FALSE
    Leased = {}
    Local = {}
    Cancellable = {}
    Versions = {2}
    MaxCkpt = 3
SYMMETRY Workers
SPECIFICATION RecoverySpec
INVARIANTS
    DecisionsTakeEffectOnce
    ConfirmedMeansAtRest

    
\* The bounds on jobs and checkpoints end every behaviour.
CHECK_DEADLOCK FALSE
