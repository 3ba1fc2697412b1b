SPECIFICATION Spec
CONSTANTS
    Procs = {p1, p2}
    a = a
    b = b
    a1 = a1
    a2 = a2
    b1 = b1
    u = u
    x = x
    Names = {a, b}
    Docs = {a1, a2, b1, u, x}
    NameOf <- MCNameOf
    Unnamed = Unnamed
    Unparsable = Unparsable
    Requests <- AllRequests
    NoRequest = NoRequest
    None = None
    Before = Before
    MaxCrashes = 1
SYMMETRY Symmetry
CHECK_DEADLOCK FALSE
INVARIANTS
    TypeOK
    NeverTorn
    TempsAccounted
    ApplyIsPrefix
    BadInputDeletesNothing
    ListingCutOnlyByRemoval
PROPERTY
    StoreRefined
