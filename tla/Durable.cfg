\* A rolling migration: two managed deployments beside an unmanaged process; and
\* backups and restores.
CONSTANTS
    a1 = a1
    a2 = a2
    w1 = w1
    w2 = w2
    None = None
    f1 = f1
    f2 = f2
    d1 = d1
    d2 = d2
    Workflow = {f1, f2}
    Worker = {w1, w2}
    Api = {a1, a2}
    Key = {k1}
    Digest = {d1, d2}
    Fp = {"fp1", "fp2"}
    Fingerprint <- ManyFingerprints
    Required <- Managed
    MaxAttempts = 3
    MaxJobs = 2
    Version = {0, 1, 2}
    Bundle = {1, 2}
    Target = {"same", "elsewhere"}
    Source = "data"
    SamePath = "same"
SYMMETRY Exchange
SPECIFICATION DurableSpec
INVARIANTS
    DeliveriesAreLimited
    HolderCarriesLatest
    AdmissionIsAtomic
    InstallationsKeptApart
    BackupIsSafe
PROPERTIES
    SettledOnceByItsHolder
