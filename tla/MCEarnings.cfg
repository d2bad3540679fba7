SPECIFICATION EarningsSpec

CONSTANTS
    Conversions = {c1}
    Price = 4
    Earnings = {1, 3}
    MaxCommissions = 3
    MaxCalls = 3
    MaxPosted = 4
    Operators = {"analyst"}
    TopTier = 3
    DowngradeMode <- Modes
    LastMilestone = 2
    Target <- Targets
    Multi = {2}
    Evaluators = {e1, e2}
    Reconciler = job
    MaxApproved = 2
    MaxChanges = 2

INVARIANTS
    RewardedOnce

PROPERTIES
    RefinesAccount
    GraceIsGiven
    TierFollows

CHECK_DEADLOCK FALSE
