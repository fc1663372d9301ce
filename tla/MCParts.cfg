SPECIFICATION AllSpec
CONSTANTS
    Actions = {a, b, c}
    Window = 6
    Threshold = 3
    MaxActions = 9
    Chars = {"a", "b", "p", "e2", "bad"}
    Width <- MCWidth
    Pure = {"p"}
    LimitFor <- MCLimitFor
    Units = {2, 3}
    Repeat = 3
    Rolling = 10
    ByteStreams <- MCStreams
    TextChunks <- MCTexts
    MaxFed = 8
    Main = "bash"
    Jobs = {"job"}
    Detached = {"daemon"}
    Cap = 2
    PipeSize = 2
    MaxBytes = 3
    Calls = {"c1", "c2", "c3"}
    Original = "o"
    NoFile = "none"
    Commands <- MCCommands
    NameOf <- MCNameOf
    ToolsOf <- MCToolsOf
    Unlisted = "nothing"
    MaxCalls = 2
    Runs = {"r1", "r2"}
    Scores = {0, 1}
    MaxTime = 1
    MaxCommits = 3
    StallAge = 1
    ImprovementWindow = 2
INVARIANTS
    TripsExactly
    StreamExact
    ToolsSound
PROPERTIES
    LinewiseStream
    ToolsReturn
    LineageSound
CHECK_DEADLOCK FALSE
