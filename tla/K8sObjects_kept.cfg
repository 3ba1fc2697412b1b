SPECIFICATION FairSpec
CONSTANTS
    Procs = {p1, p2}
    p1 = p1
    p2 = p2
    here = here
    away = away
    Policies = {here, away}
    HomePolicies = {here}
    Requests <- JustUninstall
    NoRequest = NoRequest
    Undiscovered = Undiscovered
    MaxRuns = 2
    MaxErrors = 1
CHECK_DEADLOCK FALSE
PROPERTY
    PolicyGoesOnRequest
