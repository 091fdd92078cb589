SPECIFICATION Spec
CONSTANTS
    serve = serve
    cli = cli
    s1 = s1
    s2 = s2
    c1 = c1
    c2 = c2
    f1 = f1
    f2 = f2
    f3 = f3
    Sessions <- TwoSessions
    Unknown = Unknown
    Runners <- DaemonAndCLI
    Daemons <- Daemon
    Models <- WithModel
    Parts = {"review", "reconcile"}
    Histories <- TwoTalks
    Posts <- CallOrEdit
    Commits <- TwoCommits
    Files <- ThreeFiles
    FilesOf <- Overlapping
    Named <- NameAll
    Window = 0
    Attempts = 2
    MaxRows = 3
    MaxInstant = 2
    MaxFaults = 1
    None = None
INVARIANTS BoundWithinWindow TentativeBounded
PROPERTIES BoundForGood EveryRowReviewed EveryMatchLinked
CHECK_DEADLOCK FALSE
