SPECIFICATION FairSpec
CONSTANTS
    p1 = p1
    p2 = p2
    s1 = s1
    blank = blank
    unknown = unknown
    x = x
    y = y
    ok = ok
    None = None
    Free = Free
    Stale = Stale
    Procs <- OneHook
    Messages <- PromptAndTool
    Declarations <- OneDeclaration
    Blank = blank
    Unknown = unknown
    TrivialText <- Trivial
    MaxCalls = 3
    MaxCrashes = 2
    MaxInstant = 1
    MaxSpool = 2
    Batch = 1
    LogAttempts = 2
    StatusAttempts = 2
    SlowHolders = FALSE
    LookupMayFail = TRUE
INVARIANT NoAckedEventLost
PROPERTY SpooledIsReplayed
