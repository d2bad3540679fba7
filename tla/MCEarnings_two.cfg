SPECIFICATION ConversionsSafety

CONSTANTS
    Conversions = {c1}
    Price = 2
    Earnings = {1, 2}
    MaxCommissions = 3
    MaxCalls = 1
    MaxPosted = 4
    Operators = {"merchant"}
    TopTier = 3
    DowngradeMode <- Modes
    LastMilestone = 2
    Target <- Targets
    Multi = {2}
    Evaluators = {e1, e2}
    Reconciler = job
    MaxApproved = 2
    MaxChanges = 2

INVARIANTS
    OneCommissionEach

CHECK_DEADLOCK FALSE
