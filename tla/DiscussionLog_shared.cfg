SPECIFICATION Spec
CONSTANTS
    p1 = p1
    p2 = p2
    s1 = s1
    blank = blank
    unknown = unknown
    x = x
    y = y
    ok = ok
    None = None
    Free = Free
    Stale = Stale
    Procs <- Hooks
    Messages <- Mixed
    Declarations <- OneDeclaration
    Blank = blank
    Unknown = unknown
    TrivialText <- Trivial
    MaxCalls = 2
    MaxCrashes = 1
    MaxInstant = 2
    MaxSpool = 1
    Batch = 1
    LogAttempts = 1
    StatusAttempts = 2
    SlowHolders = FALSE
    LookupMayFail = FALSE
SYMMETRY HookSymmetry
INVARIANT AtMostOneRow
INVARIANT DeclarationKept
PROPERTY DedupSeesLatest
