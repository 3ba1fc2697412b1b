SPECIFICATION Spec
CONSTANTS
    n1 = n1
    n2 = n2
    v1 = v1
    v2 = v2
    Nodes = {n1, n2}
    AppArmorNodes = {n1}
    FirstNodes = {n2}
    Images = {v1, v2}
    Commands <- Waiting
    NoCommand = NoCommand
    Absent = Absent
    MaxRuns = 1
    PodNames = {a1, a2, a3}
CHECK_DEADLOCK FALSE
INVARIANT
    SkipIsSound
