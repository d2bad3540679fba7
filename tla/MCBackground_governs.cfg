SPECIFICATION BackgroundSafety
CONSTANTS
    Nodes = {n1, n2}
    Requests = {r1, r2, r3}
    Allowance = 1
    MaxCrashes = 1
    Waiters = {h}
    MaxAssigned = 3
    MaxStarted = 3
    Events = {v1, v2, v3}
    MaxExecutions = 3
    Organizations = {a, b}
    Plans = {1, 2}
    TrialPlan = 1
    MaxRows = 3
    MaxExtensions = 1
INVARIANTS
    PaidGoverns
CHECK_DEADLOCK FALSE
