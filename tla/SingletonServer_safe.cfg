CONSTANTS
    None = None
    Procs = {l1, l2, s1}
    Launchers = {l1, l2}
    Servers = {s1}
    CanExpire = TRUE
    MaxFaults = 1
SPECIFICATION ServerSpec
INVARIANTS ServerTypeOK LockOwned HeldOnce LateSpawnsNothing
PROPERTIES SettledLockKept InstallationLive
CHECK_DEADLOCK FALSE
