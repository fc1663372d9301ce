CONSTANTS
    None = None
    Dispatches = {d1, d2}
    Cancels = {}
    Requests = {}
    DiskFails = FALSE
SPECIFICATION Spec
INVARIANTS ResultIsOwn
CHECK_DEADLOCK FALSE
