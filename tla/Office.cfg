SPECIFICATION Spec
CHECK_DEADLOCK FALSE
CONSTANTS
    None = None
    Deleted = Deleted
    p = p
    Items = {i1}
    Products = {p}
    UnitOf <- Unit
    Intents = {"REQUEST_QUOTATION", "OTHER"}
    Written = {"kg", "sack"}
    Parses = {r1, r2}
    Reviews = {v1}
    Orders = {"o1", "o2"}
    Lines <- OrderLines
    Operations <- Operation
    Requests = {t1, t2}
    Nobody = Nobody
    Imports = {m1, m2}
    Files = {"a", "b", "twice", "bad"}
    Content <- Sheets
    Catalogue = {1}
    Skus = {1, 2}
    Deltas <- Change
    MaxStock = 3
    MaxMovements = 3
    Orgs = {"org1", "org2"}
    Connections = {c1}
    Calls = {k1, k2, k3}
    Tables = {"products", "audit_events", "ai_interactions", "payment_evidence_files"}
INVARIANTS
    OfficeTypeOK
    NumberedInCommitOrder
    RowChainNeverDeadlocks
    LedgerExplainsStock
    ImportedWhole
    OwnRowsOnly
    StatusIsTruthful
PROPERTIES
    ProvisioningReprotects
    ParsingEnds
    NobodyWaitsForEver
