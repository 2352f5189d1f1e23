SPECIFICATION Spec
CONSTANTS
    Members = {m1, m2}
    Uncleared = {}
    Voters <- MCVoters
    Casts = {a, b}
    Nobody = nobody
    MaxRounds = 2
    MaxLeavers = 0
    MaxDelegations = 0
INVARIANTS
    ApprovedByAllMovesOn
SYMMETRY Symmetry
CHECK_DEADLOCK FALSE
