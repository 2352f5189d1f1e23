SPECIFICATION FairSpec
CONSTANTS
    Cases = {"c1"}
    Users = {"sec", "sec2"}
    Slots = {s1, s2}
    None = none
    System = "system"
    RolesOf <- MCRolesOf
    ClearanceOf <- MCClearanceOf
    Active <- MCActive
    Members <- MCMembers
    Levels = {0, 1}
    ReportLevel <- MCReportLevel
    Operations = {"open", "transition", "complete", "delegate"}
    Offered = {"acknowledge_report", "start_pre_research"}
    Retries = TRUE
    Strays = TRUE
    MaxEntries = 3
    MaxLevelChanges = 0
    MaxDelegations = 1
INVARIANTS
    CurrentWorkIsAssigned
    CompletionsAreTransitions
PROPERTIES
    EveryRequestEnds
CHECK_DEADLOCK FALSE
