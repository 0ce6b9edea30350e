\* Two runs, overlapping or not, and one crash of any process.
SPECIFICATION FairSpec
CONSTANTS
    p1 = p1
    p2 = p2
    NoRun = NoRun
    Runs = {p1, p2}
    MaxPolls = 1
    MaxCrashes = 1
INVARIANTS
    TypeOK
    FilesOutliveTask
    NothingLeftBehind
    SuccessIsTheTasks
    TasksUseOwnFiles
PROPERTY RunsReturn
\* Each run is one process, and ends.
CHECK_DEADLOCK FALSE
