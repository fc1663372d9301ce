CONSTANTS
    None = None
    Dispatches = {d1}
    Cancels = {}
    Requests = {}
    DiskFails = FALSE
SPECIFICATION Spec
PROPERTIES TerminalOnce
CHECK_DEADLOCK FALSE
