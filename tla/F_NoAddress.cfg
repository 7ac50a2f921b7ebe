SPECIFICATION Spec
SYMMETRY Symmetry
CHECK_DEADLOCK FALSE
CONSTANTS
    p1 = p1
    p2 = p2
    q1 = q1
    q2 = q2
    None = None
    Products = {p1}
    Quotations = {q1}
    OrderIds = {o1}
    TaskIds = {t1}
    DeliveryIds = {d1}
    ReturnIds = {}
    DiscrepancyIds = {}
    PaymentIds = {}
    Requests = {r1}
    References = {}
    Items <- SingleItem
    PaymentType <- AllCredit
    GrandTotal <- TotalTwo
    Opening <- OpeningTwo
    Deltas <- NoDeltas
    MaxStock = 0
    Amounts = {1}
    DeliveryChoices <- EitherWay
INVARIANT ShippedOrderHasADelivery
