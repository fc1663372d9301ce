CONSTANTS
    c1 = c1  c2 = c2  c3 = c3  p1 = p1  p2 = p2  p3 = p3
    None = None
    Callers = {c1, c2, c3}
    Procs = {p1, p2}
    ProcOf <- Shared3
    MaxSlots = 2
    Sweepers = {c3}
    CanRelease2 = {c1}
    MaxFaults = 1
SPECIFICATION FairSlots
INVARIANTS SlotsTypeOK  QueueSound
PROPERTIES SettledLeaseKept AlienBlocks EveryAcquireReturns
CHECK_DEADLOCK FALSE
