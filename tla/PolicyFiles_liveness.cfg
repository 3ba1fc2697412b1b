SPECIFICATION FairSpec
CONSTANTS
    Procs = {p1, p2}
    a = a
    b = b
    a1 = a1
    a2 = a2
    b1 = b1
    u = u
    x = x
    Names = {a, b}
    Docs = {a1, a2, b1, u, x}
    NameOf <- MCNameOf
    Unnamed = Unnamed
    Unparsable = Unparsable
    Requests <- ShortRequests
    NoRequest = NoRequest
    None = None
    Before = Before
    MaxCrashes = 0
CHECK_DEADLOCK FALSE
PROPERTY
    EveryRunEnds
