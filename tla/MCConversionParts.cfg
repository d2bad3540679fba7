SPECIFICATION PartsSpec

CONSTANTS
    Conversions = {c1}
    Price = 4
    Earnings = {1, 3}
    MaxCommissions = 3
    MaxCalls = 3
    MaxPosted = 6
    Operators = {"merchant", "analyst", "desk", "admin"}

INVARIANTS
    OneCommission
    LedgerAgrees
    RefundDrift
    ApprovedHasCommission

PROPERTIES
    ApprovedIsCredited

CHECK_DEADLOCK FALSE
