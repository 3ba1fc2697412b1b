SPECIFICATION Spec
CONSTANTS
    Procs = {p1, p2, p3}
    other = other
    v1 = v1
    v2 = v2
    k1 = k1
    k2 = k2
    yes = yes
    Names = {agent}
    Agent = agent
    Matching = {agent}
    Images = {v1, v2}
    Keys = {k1, k2}
    Values = {yes, empty}
    Empty = empty
    NoLabel = NoLabel
    Requests <- ReplaceRequests
    NoRequest = NoRequest
    Nothing = Nothing
    Before = Before
SYMMETRY Symmetry
CHECK_DEADLOCK FALSE
INVARIANTS
    UpdateLostOnlyWhenOwed
