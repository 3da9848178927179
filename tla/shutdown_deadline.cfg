\* A shutdown reaches its deadline with requests in flight.
SPECIFICATION Spec
CONSTANTS
    MasterKey = MasterKey
    ZeroKey = ZeroKey
    TornKey = TornKey
    NoKey = NoKey
    s1 = s1
    s2 = s2
    s3 = s3
    p1 = p1
    p2 = p2
    u1 = u1
    u2 = u2
    Nil = Nil
    NoRow = NoRow
    None = None
    Names <- NamesAB
    Versions <- VersionsV
    Procs = {p1}
    Slots = {s1, s2}
    ProcOf <- OneProc
    Users = {u1}
    Contents <- ContentsXY
    Oversized = {}
    Workload <- ShutdownWorkload
    Watched = FALSE
    MaxConfigsPerUser = 2
    MaxId = 2
    MaxClock = 1
    MaxRequests = 2
    Faults = {"shutdown", "deadline"}
INVARIANTS
    RowsReadable
