\* Two concurrent handlers of one process edit one user's configurations, with
\* every fault the model has.
SPECIFICATION FairSpec
CONSTANTS
    MasterKey = MasterKey
    ZeroKey = ZeroKey
    TornKey = TornKey
    NoKey = NoKey
    s1 = s1
    s2 = s2
    s3 = s3
    p1 = p1
    p2 = p2
    u1 = u1
    u2 = u2
    Nil = Nil
    NoRow = NoRow
    None = None
    Names <- NamesAB
    Versions <- VersionsV
    Procs = {p1}
    Slots = {s1, s2}
    ProcOf <- OneProc
    Users = {u1}
    Contents <- ContentsXY
    Oversized = {}
    Workload <- EditWorkload
    Watched = FALSE
    MaxConfigsPerUser = 1
    MaxId = 3
    MaxClock = 0
    MaxRequests = 3
    Faults = {"abort", "crash", "shutdown", "deadline", "serve"}
INVARIANTS
    QuotaSlack
PROPERTIES
    OnlyLateCommitsDamage
    NoopStillHolds
    FreshPatchApplied
    RepeatPreservesModifiedAt
    RequestsEnd
    ShutdownEnds
