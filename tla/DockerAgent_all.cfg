SPECIFICATION Spec
CONSTANTS
    Procs = {p1, p2}
    other = other
    v1 = v1
    v2 = v2
    k1 = k1
    k2 = k2
    yes = yes
    Names = {agent, other}
    Agent = agent
    Matching = {agent, other}
    Images = {v1, v2}
    Keys = {k1}
    Values = {yes, empty}
    Empty = empty
    NoLabel = NoLabel
    Requests <- AllRequests
    NoRequest = NoRequest
    Nothing = Nothing
    Before = Before
SYMMETRY Symmetry
CHECK_DEADLOCK FALSE
INVARIANTS
    TypeOK
    MissingIsOwed
