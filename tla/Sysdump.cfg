SPECIFICATION FairSpec
CONSTANTS
    a = a
    b = b
    a1 = a1
    a2 = a2
    b1 = b1
    Names = {a, b}
    Docs = {a1, a2, b1}
    NameOf <- MCNameOf
    NoDoc = NoDoc
    MaxChunks = 3
    PipeSize = 2
    MaxChanges = 2
CHECK_DEADLOCK FALSE
INVARIANTS
    TypeOK
    StatusIsWhole
    SteadyPoliciesDumped
    BundleIsWhole
    OnlyArchiveFails
PROPERTY
    SysdumpEnds
