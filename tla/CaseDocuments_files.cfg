SPECIFICATION FairSpec
CONSTANTS
    Documents <- MCDocuments
    Infected <- MCInfected
    Requests = {q1, q2}
    Runs = {j1, j2}
    Nobody = nobody
    Quota = 1
    BatchSize = 1
    MaxFaults = 1
INVARIANTS
    NothingInfectedIsServed
    OvershootIsBounded
PROPERTIES
    VerdictStands
    SealedIsJudged
CHECK_DEADLOCK FALSE
