\* The table without migrations, and the queue in memory.
CONSTANTS
    a1 = a1
    a2 = a2
    w1 = w1
    w2 = w2
    None = None
    Workflow = {f1, f2}
    Worker = {w1, w2}
    Api = {a1}
    Key = {}
    Digest = {d1}
    Fp = {"fp1"}
    Fingerprint <- NoFingerprint
    Required <- NobodyRequired
    MaxAttempts = 3
    MaxJobs = 2
    Project = {f1, f2}
    Loop = {w1, w2}
    Claim = {k1}
    Request = {d1}
    MaxDeliveries = 2
    MaxSequence = 3
    Nobody = Nobody
SPECIFICATION QueuesSpec
PROPERTIES
    ImplementsContract
    MemoryIsConsistent
    MemoryImplementsContract
    
