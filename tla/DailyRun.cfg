\* Two runs over two files, another process, one midnight.
SPECIFICATION DailySpec
CONSTANTS
    NFiles = 2
    MaxRuns = 2
    MaxDay = 2
    Procs = {main, other}
    Self = main
    OtherStory = OtherStory
    Elsewhere = OtherStory
    Stories <- MCStories
    NoFile = NoFile
    Torn = Torn
INVARIANTS AllBeforeAny OwnAnswer NoStaleTask SuccessIsComplete
           CopyKeptUntilCompared ChangesAreTold
PROPERTIES RunEnds TodaysReportStays LoneRunLeavesOne
\* The bound MaxRuns ends the sequence of runs.
CHECK_DEADLOCK FALSE
