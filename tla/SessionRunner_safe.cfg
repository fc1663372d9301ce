CONSTANTS
    a = a  b = b
    Actions = {a, b}
    Window = 6
    Threshold = 3
    Requests <- ShortRequests
    TurnsBudgets = {0, 1}
    DefaultBudget = 4
    LandingWindow = 2
    LedgerFails = TRUE
SPECIFICATION FairSpec
INVARIANTS TypeOK CeilingKept CompletedIsDone ResultsFollow NoticesDue
PROPERTIES SessionEnds
CHECK_DEADLOCK FALSE
