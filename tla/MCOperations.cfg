SPECIFICATION OperationsSafety
CONSTANTS
    o1 = o1
    o2 = o2
    h1 = h1
    h2 = h2
    call1 = call1
    call2 = call2
    call3 = call3
    paid = paid
    back = back
    created = created
    processed = processed
    x = x
    y = y
    tx = tx
    ty = ty
    k = k
    s = s
    id = id
    p1 = p1
    c1 = c1
    c2 = c2
    b3 = b3
    ann = ann
    bob = bob
    ShopOrders = {o1, o2}
    Amount = 2
    Payments <- PaymentsInUse
    Refunds <- RefundsInUse
    OrderOf <- Order
    ClickOf <- Click
    AttributionOf <- Named
    Attributions = {tx, ty}
    AttributedClick <- Touch
    Credits <- Own
    RefundOf <- Part
    IdOf <- Id
    KeyOf <- Key
    Delivered = {paid, created, processed}
    Handlers = {h1, h2}
    MaxSends = 2
    Workers = {w1, w2}
    MaxCrmDeals = 2
    MaxConversions = 2
    MaxMessages = 4
    NoClick = NoClick
    NoKey = NoKey
    NoId = NoId
    Nothing = Nothing
    People = {p1, p2}
    Invites = {i1}
    Invitee <- ToFirst
    Applicants = {p2}
    Callers = {c1, c2}
    Orders = {o}
    MaxQuantity = 2
    MaxMemberships = 2
    Included <- Allowance
    Demos = {h1, h2, b3}
    Customers = {ann, bob}
    AskedBy <- By
    Tag <- NoTags
    NoTag = NoTag
    Times = {0, 1, 9}
INVARIANTS
    OneConversionEach
    TakesEffectOnce
    EventIsHandled
    WonIsPaidOnce
    OneCrmDeal
    WithinCapacity
    GrantedIsPaid
    
    SlotsApart
PROPERTIES
    WithdrawnStaysOut
SYMMETRY Alike
CHECK_DEADLOCK FALSE
