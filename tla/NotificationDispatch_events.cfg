SPECIFICATION FairSpec
CONSTANTS
    Events <- MCEvents
    Mails <- MCMails
    Origins <- MCOrigins
    OriginOf <- MCOriginOf
    SubjectOf <- MCSubjectOf
    Ticks = {t1, t2}
    Nobody = nobody
    BatchSize = 1
    WindowSize = 2
    MaxRetries = 2
    MaxFaults = 1
INVARIANTS
    SentIsShown
    RepeatsAreFaults
PROPERTIES
    EventsSettle
CHECK_DEADLOCK FALSE
