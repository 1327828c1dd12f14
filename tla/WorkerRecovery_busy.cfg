\* One controller that dies and restarts, and a child of the dead one that
\* keeps the lock.
CONSTANTS
    w1 = w1
    w2 = w2
    None = None
    Workflow = {f1}
    Worker = {w1}
    Api = {a1}
    Key = {}
    Digest = {d1}
    Fp = {}
    Fingerprint <- NoFingerprint
    Required = {}
    MaxAttempts = 2
    MaxJobs = 1
    Gates <- WorkThenGate
    UseLock = TRUE
    Stalls = FALSE
    Leased = {}
    Local = {}
    Cancellable = {}
    Versions = {2}
    MaxCkpt = 3
SPECIFICATION RecoverySpec
PROPERTY FailedOnlyByItsOwner
CHECK_DEADLOCK FALSE
