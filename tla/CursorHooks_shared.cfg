SPECIFICATION Spec
CONSTANTS
    p1 = p1
    p2 = p2
    f1 = f1
    Procs <- TwoProcesses
    Edits <- TwoEdits
    MaxPrompts = 2
    MaxEvents = 3
    MaxFaults = 2
    MaxInstant = 2
    KeepFor = 0
    RecentLogged = 1
    RecentQueries = 2
    NoEdit = NoEdit
    Free = Free
    Stale = Stale
INVARIANTS PromptsBackfilled PromptLoggedOnce OnlyLoggedEditsSkipped
PROPERTIES HooksEnd
CHECK_DEADLOCK FALSE
