SPECIFICATION FairSpec
CONSTANTS
    p1 = p1
    p2 = p2
    g1 = g1
    g2 = g2
    a1 = a1
    a2 = a2
    fix = fix
    feat = feat
    old = old
    t1 = t1
    t2 = t2
    noTask = noTask
    noHash = noHash
    none = none
    NoTask = noTask
    NoHash = noHash
    Procs <- TwoProcesses
    Daemons <- OneProcess
    GitCommits <- TwoCommits
    ShortOf <- Prefixes
    Titles <- AllTitles
    TitleOf <- OwnTitles
    HasFiles <- SomeFiles
    AuthoredOn <- OldAuthor
    Tasks <- OneTask
    Legacy <- OldRows
    Patches <- NoPatch
    Ops <- Scanning
    GitAvailable = TRUE
    MaxCalls = 2
    MaxFaults = 1
    MaxDays = 0
    EmergeDays = 0
    MaxListed = 2
    MaxEmerge = 1
    None = none
INVARIANT RecordedStays
PROPERTY EveryCommitRecorded
CHECK_DEADLOCK FALSE
