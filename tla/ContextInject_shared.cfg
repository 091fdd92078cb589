SPECIFICATION Spec
CONSTANTS
    h1 = h1
    h2 = h2
    claude = claude
    codex = codex
    s1 = s1
    s2 = s2
    Handlers <- TwoHandlers
    Agents <- TwoAgents
    Sessions <- TwoSessions
    NoSession = NoSession
    Projects <- RichOrPoor
    Requests <- OneEach
    VisionTip = 127
    ContextTTL = 1
    GuidelinesTTL = 1
    AnchorTTL = 0
    SweepEvery = 1
    MaxInstant = 1
    MaxRequests = 3
    MaxChanges = 1
    MaxFaults = 1
    None = None
SYMMETRY Symmetric
INVARIANTS WithinCap AnchorStable InjectedIsLogged
CHECK_DEADLOCK FALSE
