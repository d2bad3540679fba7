SPECIFICATION OrganizationSafety
CONSTANTS
    a1 = a1
    a2 = a2
    r1 = r1
    r2 = r2
    Affiliates = {a1, a2}
    Batches = {b1}
    MaxNet = 1
    MaxReviews = 2
    MaxReturns = 1
    Earnings = {e1, e2}
    Asks = {r1, r2}
    MaxChanged = 1
    Tabs = {a1, a2}
    Workspaces = {r1, r2}
    Forms = {form}
    NoForm = NoForm
    Names = {name}
    OrgLimit = 2
    MaxWelcomes = 2
    Persons = {ann}
    Founder = ann
    Invitations = {a1, a2}
    Seats = {m0, m1, m2}
    FirstSeat = m0
    SeatLimit = 1
    Visits = {r1, r2}
    NoOne = NoOne
    NoSeat = NoSeat
SYMMETRY Alike
INVARIANTS
    ReservationSettled
    MoneyConserved
    HeldCanBeReleased
    InstantOnce
    WelcomedOnce
    NeverLockedOut
    ToldIsMember
CHECK_DEADLOCK FALSE
