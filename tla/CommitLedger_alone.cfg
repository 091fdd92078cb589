SPECIFICATION FairSpec
CONSTANTS
    p1 = p1
    p2 = p2
    g1 = g1
    g2 = g2
    a1 = a1
    a2 = a2
    fix = fix
    feat = feat
    old = old
    t1 = t1
    t2 = t2
    noTask = noTask
    noHash = noHash
    none = none
    NoTask = noTask
    NoHash = noHash
    Procs <- OneProcess
    Daemons <- OneProcess
    GitCommits <- OneCommit
    ShortOf <- Prefixes
    Titles <- AllTitles
    TitleOf <- OwnTitles
    HasFiles <- SomeFiles
    AuthoredOn <- OldAuthor
    Tasks <- TwoTasks
    Legacy <- OrphanRow
    Patches <- NoPatch
    Ops <- Sequential
    GitAvailable = TRUE
    MaxCalls = 3
    MaxFaults = 1
    MaxDays = 1
    EmergeDays = 0
    MaxListed = 2
    MaxEmerge = 1
    None = none
INVARIANT NoDuplicate
INVARIANT BindKept
PROPERTY OrphanFlagged
CHECK_DEADLOCK FALSE
