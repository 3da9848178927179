\* Two goroutines of one key, delayed up to half a window, and the sweeper.
SPECIFICATION Spec
CONSTANTS
    c1 = c1
    c2 = c2
    k1 = k1
    None = None
    Keys = {k1}
    Callers = {c1, c2}
    Rate = 2
    Window = 4
    MaxDelay = 2
    MaxTime = 10
INVARIANTS
    AdmissionBound
PROPERTIES
    EvictionsUnseen
    SpacedRequestAdmitted
