SPECIFICATION FairSpec
CONSTANTS
    Members = {m1, m2, m3}
    Uncleared = {m3}
    Voters <- MCVoters
    Casts = {a, b}
    Nobody = nobody
    MaxRounds = 1
    MaxLeavers = 1
    MaxDelegations = 0
INVARIANTS
    TypeOK
PROPERTIES
    CouncilDecides
CHECK_DEADLOCK FALSE
