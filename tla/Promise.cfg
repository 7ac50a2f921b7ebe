SPECIFICATION Spec
SYMMETRY QuotationSymmetry
CHECK_DEADLOCK FALSE
CONSTANTS
    p1 = p1
    p2 = p2
    q1 = q1
    q2 = q2
    None = None
    Products = {p1}
    Quotations = {q1, q2}
    OrderIds = {o1, o2}
    TaskIds = {t1}
    DeliveryIds = {d1}
    ReturnIds = {b1}
    DiscrepancyIds = {c1}
    PaymentIds = {}
    Requests = {r1}
    References = {}
    Items <- UnitItems
    PaymentType <- AllCredit
    GrandTotal <- TotalTwo
    Opening <- OpeningTwo
    Deltas <- OneDown
    MaxStock = 1
    Amounts = {1}
    DeliveryChoices <- DeliverOnly
INVARIANTS
    HandoverConsumedTheReservation
    StockAccountedFor
PROPERTIES
    KeepsStockPromise
    NoHandoverOverAnOpenCount
