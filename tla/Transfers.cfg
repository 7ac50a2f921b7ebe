SPECIFICATION Spec
SYMMETRY QuotationSymmetry
CHECK_DEADLOCK FALSE
CONSTANTS
    p1 = p1
    p2 = p2
    q1 = q1
    q2 = q2
    None = None
    Products = {p1}
    Quotations = {q1, q2}
    OrderIds = {o1, o2}
    TaskIds = {}
    DeliveryIds = {}
    ReturnIds = {}
    DiscrepancyIds = {}
    PaymentIds = {c1, c2}
    Requests = {r1}
    References = {x}
    Items <- UnitItems
    PaymentType <- AllCredit
    GrandTotal <- TotalTwo
    Opening <- OpeningTwo
    Deltas <- NoDeltas
    MaxStock = 0
    Amounts = {2}
    DeliveryChoices <- PickupOnly
INVARIANTS
    NoReferenceConfirmedTwice
