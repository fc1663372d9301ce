SPECIFICATION AllSpec
CONSTANTS
    Limits = {0, 1, 2, 3, 4}
    Trees <- MCTrees
    SearchedFiles <- MCSearchedFiles
    RewriteBatches <- MCRewriteBatches
    HitLists <- MCHitLists
    MaxFetch = 5
    FetchWindow = 3
    FetchedTexts <- MCFetchedTexts
    ToolNames = {"other", "e_tool", "f_tool"}
    Extensions = {"e"}
    HostPaths <- MCHostPaths
    Environments <- MCEnvironments
    ConfigFiles <- MCConfigFiles
    ClientFiles <- MCClientFiles
    SkillDirs <- MCSkillDirs
    Prompts <- MCPrompts
    TaskIds = {1, 2}
    Pids = {0, 1, 2}
    Replies <- MCReplies
    LedgerFolders <- MCLedgerFolders
    Days <- MCDays
    Traces <- MCTraces
    EvalTasks <- MCEvalTasks
    Breakages <- MCBreakages
    EvalDirs = {"evals", "../evals", "mine"}
    MaxText = 3
INVARIANTS
    ToolsExact
    RequestsExact
    RecordsExact
    TextsExact
CHECK_DEADLOCK FALSE
