SPECIFICATION Spec
CONSTANTS
    Cases = {"c1"}
    Users = {"sec", "sec2"}
    Slots = {s1, s2}
    None = none
    System = "system"
    RolesOf <- MCRolesOf
    ClearanceOf <- MCClearanceOf
    Active <- MCActive
    Members <- MCMembers
    Levels = {0, 1}
    ReportLevel <- MCReportLevel
    Operations = {"open", "transition", "complete", "delegate"}
    Offered = {"acknowledge_report"}
    Retries = FALSE
    Strays = FALSE
    MaxEntries = 4
    MaxLevelChanges = 0
    MaxDelegations = 1
PROPERTIES
    DelegatedIsFinal
SYMMETRY Symmetry
CHECK_DEADLOCK FALSE
