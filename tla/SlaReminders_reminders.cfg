SPECIFICATION SlaFairSpec
CONSTANTS
    Tasks <- MCTasks
    Users = {"user"}
    AssigneeOf <- MCAssigneeOf
    Unassigned = unassigned
    Runs = {r1, r2}
    Policies <- MCPolicies
    Calendars <- MCCalendars
    EditDays = {2}
    LastDay = 2
    MaxEdits = 1
    MaxFaults = 1
PROPERTIES
    DueAfterBusinessDays
    BreachIsAnnounced
CHECK_DEADLOCK FALSE
