SPECIFICATION Spec
SYMMETRY Symmetry
CHECK_DEADLOCK FALSE
CONSTANTS
    p1 = p1
    p2 = p2
    q1 = q1
    q2 = q2
    None = None
    Products = {p1, p2}
    Quotations = {q1, q2}
    OrderIds = {o1, o2}
    TaskIds = {}
    DeliveryIds = {}
    ReturnIds = {}
    DiscrepancyIds = {}
    PaymentIds = {}
    Requests = {r1, r2}
    References = {}
    Items <- CompetingItems
    PaymentType <- AllCredit
    GrandTotal <- TotalTwo
    Opening <- OpeningTwo
    Deltas <- OneUpOrDown
    MaxStock = 3
    Amounts = {1}
    DeliveryChoices <- EitherWay
INVARIANTS
    AggregateMatchesRows
    OneLiveOrderPerQuotation
    ItemMirrorsReservation
