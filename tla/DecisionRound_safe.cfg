SPECIFICATION Spec
CONSTANTS
    Members = {m1, m2}
    Uncleared = {}
    Voters <- MCVoters
    Casts = {a, b}
    Nobody = nobody
    MaxRounds = 2
    MaxLeavers = 1
    MaxDelegations = 1
CONSTRAINT OneBeside
INVARIANTS
    AnswerOrSilence
    TasksFollowVotes
    ObjectionReopens
PROPERTIES
    DraftNeedsUnanimity
    ImplementsCouncil
SYMMETRY Symmetry
CHECK_DEADLOCK FALSE
