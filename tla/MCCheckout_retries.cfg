SPECIFICATION Spec

CONSTANTS
    r1 = r1
    r2 = r2
    r3 = r3
    a = a
    b = b
    Requests = {r1}
    Organization <- Buyers
    Account <- Shared
    Keyed = {r1}
    Discounted = {r1}
    Declined = {r1}
    MaxRedemptions = 2
    MaxPerOrganization = 2
    Tries <- Retry

INVARIANTS
    OneOrderPerKey
    DiscountedOnce

PROPERTY
    CapturedIsActivated

CHECK_DEADLOCK FALSE
