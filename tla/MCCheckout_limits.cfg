SPECIFICATION Safety

CONSTANTS
    r1 = r1
    r2 = r2
    r3 = r3
    a = a
    b = b
    Requests = {r1, r2, r3}
    Organization <- Buyers
    Account <- Shared
    Keyed = {}
    Discounted = {r1, r2, r3}
    Declined = {}
    MaxRedemptions = 2
    MaxPerOrganization = 2
    Tries <- Once

INVARIANTS
    WithinLimit
    GivenIsPaid

SYMMETRY Alike

CHECK_DEADLOCK FALSE
