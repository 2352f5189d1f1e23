SPECIFICATION FairSpec
CONSTANTS
    Reports <- MCReports
    Files <- MCFiles
    Infected <- MCInfected
    Runs = {j1}
    BatchSize = 2
    MaxVersion = 2
    MaxFaults = 2
INVARIANTS
    ShownIsComplete
    UnknownReportsAreFaults
    ConsentIsCurrent
PROPERTIES
    SubmissionEnds
    UploadedIsJudged
CHECK_DEADLOCK FALSE
