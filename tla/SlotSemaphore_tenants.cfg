CONSTANTS
    c1 = c1  c2 = c2  c3 = c3  p1 = p1  p2 = p2  p3 = p3
    None = None
    Callers = {c1, c2}
    Procs = {p1, p2}
    ProcOf <- OneEach2
    MaxSlots = 2
    Sweepers = {}
    CanRelease2 = {}
    MaxFaults = 0
SPECIFICATION SlotsSpec
INVARIANTS SingleTenant
CHECK_DEADLOCK FALSE
