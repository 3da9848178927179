SPECIFICATION FairSpec
CONSTANTS
    MaxDraws = 3
    MaxBackups = 1
    MaxFaults = 1
    Absent = Absent
    Damaged = Damaged
INVARIANTS
    TypeOK
    EndsWhole
    OldFilesKept
    VolumeServes
    BackupsComplete
PROPERTIES
    ServiceBack
