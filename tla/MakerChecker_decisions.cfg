SPECIFICATION Spec
CONSTANTS
    q1 = q1
    q2 = q2
    u1 = u1
    u2 = u2
    u3 = u3
    Users <- MCUsers
    Nobody = nobody
    RolesOf <- MCRolesOf
    Rank <- MCRank
    Items <- MCItems
    KindOf <- MCKindOf
    EntryOf <- MCEntryOf
    GrantOf <- MCGrantOf
    Default <- MCDefault
    Proposals <- MCProposals
    Requests = {q1, q2}
    Scenarios <- MCScenarios
SYMMETRY MCSymmetry
INVARIANTS
    TypeOK
    FourEyes
    VersionCountsBatches
    ContradictionsAreBounded
    TextInForce
PROPERTIES
    ReloadHasOwnChange
CHECK_DEADLOCK FALSE
