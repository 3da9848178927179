\* Two containers of different releases start on one empty volume, perhaps after
\* an init, and are killed anywhere.
SPECIFICATION FairDeploymentSpec
CONSTANTS
    c1 = c1
    c2 = c2
    NoOpener = NoOpener
    Absent = Absent
    Containers = {c1, c2}
    Openers = {c1, c2}
    Latest <- LatestOf
    Newest = 2
    Length = 2
    MaxMishaps = 3
INVARIANTS
    DeploymentTypeOK
    TokenOpens
    RowsSurviveRestart
    AppliedOnce
    NoGap
    ServesItsSchema
PROPERTIES
    CredentialsKept
    EventuallyServes
