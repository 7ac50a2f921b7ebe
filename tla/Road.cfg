SPECIFICATION Spec
SYMMETRY Symmetry
CHECK_DEADLOCK FALSE
CONSTANTS
    p1 = p1
    p2 = p2
    q1 = q1
    q2 = q2
    None = None
    Products = {p1, p2}
    Quotations = {q1}
    OrderIds = {o1}
    TaskIds = {t1}
    DeliveryIds = {d1, d2, d3}
    ReturnIds = {b1, b2}
    DiscrepancyIds = {}
    PaymentIds = {}
    Requests = {r1}
    References = {}
    Items <- PairItems
    PaymentType <- AllCredit
    GrandTotal <- TotalTwo
    Opening <- OpeningOne
    Deltas <- NoDeltas
    MaxStock = 1
    Amounts = {1}
    DeliveryChoices <- EitherWay
INVARIANTS
    TypeOK
    GoodsInOnePlace
    RestockBounded
    CompletedOrderWasServed
    ReadyOrdersAreOnAList
