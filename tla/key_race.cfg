\* Two containers read the key file before either has written it.
SPECIFICATION Spec
CONSTANTS
    c1 = c1
    c2 = c2
    Absent = Absent
    Containers = {c1, c2}
    MaxMishaps = 0
INVARIANTS
    KeyOnDisk
