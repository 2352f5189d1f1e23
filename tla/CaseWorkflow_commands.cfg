SPECIFICATION SceneSpec
CONSTANTS
    Cases = {"c1"}
    Users = {"sec", "sec2", "chair", "member", "board", "rap", "rap2", "owner"}
    Slots = {s1, s2}
    None = none
    System = "system"
    RolesOf <- MCRolesOf
    ClearanceOf <- MCClearanceOf
    Active <- MCActive
    Members <- MCMembers
    Levels = {0, 1}
    ReportLevel <- MCReportLevel
    Operations = {"open", "transition", "complete", "decision", "confidentiality"}
    Offered <- AllCommands
    Retries = FALSE
    Strays = FALSE
    MaxEntries = 12
    MaxLevelChanges = 1
    MaxDelegations = 0
INVARIANTS
    TypeOK
    CurrentWorkIsAssigned
    VersionCountsWrites
    HistoryChained
PROPERTIES
    ImplementsLedger
    ClearedWhenItCounts
SYMMETRY Symmetry
CHECK_DEADLOCK FALSE
