\* Two processes share the database; requests of two users are cut short.
SPECIFICATION Spec
CONSTANTS
    MasterKey = MasterKey
    ZeroKey = ZeroKey
    TornKey = TornKey
    NoKey = NoKey
    s1 = s1
    s2 = s2
    s3 = s3
    p1 = p1
    p2 = p2
    u1 = u1
    u2 = u2
    Nil = Nil
    NoRow = NoRow
    None = None
    Names <- NamesAB
    Versions <- VersionsV
    Procs = {p1, p2}
    Slots = {s1, s2, s3}
    ProcOf <- TwoAndOne
    Users = {u1, u2}
    Contents <- ContentsXBig
    Oversized = {"big"}
    Workload <- FleetWorkload
    Watched = TRUE
    MaxConfigsPerUser = 2
    MaxId = 2
    MaxClock = 1
    MaxRequests = 3
    Faults = {"abort", "crash"}
SYMMETRY SlotSymmetry
INVARIANTS
    TypeOK
    RowsReadable
    WaitsEnd
    VersionIdentifiesContent
PROPERTIES
    RowsChangeForOwner
    ImplementsContract
