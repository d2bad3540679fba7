SPECIFICATION OrganizationSafety
CONSTANTS
    a1 = a1
    a2 = a2
    r1 = r1
    r2 = r2
    Affiliates = {a1, a2}
    Batches = {b1}
    MaxNet = 1
    MaxReviews = 2
    MaxReturns = 1
    Earnings = {e1, e2}
    Asks = {r1, r2}
    MaxChanged = 0
    Tabs = {}
    Workspaces = {}
    Forms = {}
    NoForm = NoForm
    Names = {name}
    OrgLimit = 2
    MaxWelcomes = 2
    Persons = {ann}
    Founder = ann
    Invitations = {}
    Seats = {m0}
    FirstSeat = m0
    SeatLimit = 1
    Visits = {}
    NoOne = NoOne
    NoSeat = NoSeat
SYMMETRY Alike
INVARIANTS
    NeverSelectedAgain
CHECK_DEADLOCK FALSE
