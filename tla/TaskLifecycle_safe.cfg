CONSTANTS
    None = None
    Dispatches = {d1}
    Cancels = {k1, k2}
    Requests = {r1}
    DiskFails = TRUE
SPECIFICATION FairSpec
INVARIANTS TypeOK RunningReachable
PROPERTIES FinalKept OrphansReaped
CHECK_DEADLOCK FALSE
