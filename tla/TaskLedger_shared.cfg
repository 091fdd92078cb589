SPECIFICATION Spec
CONSTANTS
    p1 = p1
    p2 = p2
    t1 = t1
    t2 = t2
    l1 = l1
    todo = todo
    c1 = c1
    n1 = n1
    Procs <- TwoProcesses
    Tasks <- TwoTasks
    Plans <- OnePlan
    Statuses <- TwoStatuses
    Done = done
    Same = same
    Notes <- OneNote
    NoNote = noNote
    Commits <- OneCommit
    NoTask = noTask
    None = none
    MaxCalls = 3
    MaxAborts = 1
SYMMETRY Symmetry
INVARIANT TypeOK
INVARIANT DoneWasBacked
PROPERTY OnlyStaleWritesLose
CHECK_DEADLOCK FALSE
