SPECIFICATION Spec
CHECK_DEADLOCK FALSE
SYMMETRY ChasesAreAlike
CONSTANTS
    None = None
    Nobody = Nobody
    Deleted = Deleted
    p = p
    Items = {i1, i2}
    Products = {p}
    UnitOf <- Unit
    Intents = {"REQUEST_QUOTATION"}
    Written = {}
    Parses = {r1, r2}
    Reviews = {v1}
    FollowUps = {f1, f2, f3}
    Chases = {q1, q2}
    MaxFollowUpCount = 2
    Policy <- DefaultPolicy
    Customers = {c1}
    InquiryLines <- OneLine
    CataloguePrices = {50}
    TaxRate = 1500
    Quantities = {1}
    Discounts = {500, 2000}
    Fees = {0}
    Dates = {2}
    GrantedDays = {15}
    Standings = {"CREDIT_ALLOWED", "SUSPENDED"}
    TermDays = {30}
    Approvers = {"SALESPERSON", "SALES_MANAGER"}
    MaxLines = 2
    MaxEdits = 2
    Users = {u1}
    Staffed = {"OWNER_ADMIN", "FINANCE", "WAREHOUSE"}
    Sessions = {s1}
    Logins = {l1}
    Requests = {a1}
    Limit = 2
    Names <- NameSamples
    Grams <- GramsOf
    Sizes <- SizesIn
    Divisions <- DivisionSamples
    Splits <- SplitSamples
    Carts <- CartSamples
    Clocks <- ClockSamples
    Books <- BookSamples
    Queries <- QuerySamples
    Tables <- TableSamples
    ProductFiles <- ProductSamples
    CustomerFiles <- CustomerSamples
    StockFiles <- StockSamples
    Weeks <- WeekSamples
    Mornings <- MorningSamples
INVARIANT
    OverdueIsOneFigure
