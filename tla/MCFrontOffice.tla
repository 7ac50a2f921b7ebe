--------------------------- MODULE MCFrontOffice ---------------------------
(***************************************************************************)
(* A small front office for TLC: the default policy of 3, 10 and 90 per    *)
(* cent, a line of 100 a unit at 15 per cent tax, samples for the figures. *)
(***************************************************************************)
EXTENDS FrontOffice, Integers, Sequences, TLC

CONSTANTS p

Unit          == p :> "bag"
DefaultPolicy == [salespersonDiscountLimit |-> 300, salesManagerDiscountLimit |-> 1000,
                  minimumPriceFloor |-> 9000]
OneLine       == <<[quantity |-> 1, listPrice |-> 100, quotedPrice |-> 100,
                   discount |-> 0, taxRate |-> 1500]>>

\* Only the figures and the follow-ups name their members by CHOOSE.
ChasesAreAlike == Permutations(Chases)

DivisionSamples ==
    [numerator : -30..30, denominator : {-4, 1, 3, 4, 7, 10},
     mode : {"trunc", "floor", "ceil", "half-up", "half-even"}]

SplitSamples ==
    [amount : -7..13,
     weights : {w \in UNION {[1..n -> 0..3] : n \in 1..3} : \E i \in DOMAIN w : w[i] # 0}]

CartLine == [quantity : {1, 3}, listPrice : {333}, quotedPrice : {99, 333},
             discount : {0, 250, 3333, 10000}, taxRate : {0, 1500}]
CartSamples ==
    [lines : UNION {[1..n -> CartLine] : n \in 0..2}, fee : {0, 77}, taxable : BOOLEAN,
     rate : {1500}]

\* Clocks that change by an hour, or not at all, at one of the first hours of their
\* third day, west and east of Greenwich.
Clock(offset, shift, hour) ==
    [change |-> 72 + hour - offset, before |-> offset, after |-> offset + shift]
ClockSamples ==
    [zone : {Clock(offset, shift, hour) : offset \in {-5, 0, 2, 13}, shift \in {-1, 0, 1}, hour \in 0..3},
     asOf : 24..110, count : {1, 3}]

Debt == [customer : {1, 2}, status : {"OPEN", "COMPLETED", "CANCELLED"}, grandTotal : {10},
         payments : {<<>>, <<4>>, <<4, 7>>}, due : {None, 1, 2, 3, 11}]
Numbered(debt, n) ==
    [number |-> n, customer |-> debt.customer, status |-> debt.status,
     grandTotal |-> debt.grandTotal, payments |-> debt.payments, due |-> debt.due]
\* At two and at ten in the evening, east and west of Greenwich: the date of UTC is the
\* local one, the one before or the one after.
BookSamples ==
    [orders : {{Numbered(a, 1), Numbered(b, 2)} : a \in {d \in Debt : d.customer = 1}, b \in Debt},
     zone : {Clock(3, 0, 2), Clock(-5, 0, 2)}, now : {3 * 24 + 2, 3 * 24 + 22}]

\* cement 50, cement 25, cement, sement 50 and nails, by their trigrams.
NameSamples == {"cement 50", "cement 25", "cement", "sement 50", "nails"}
GramsOf ==
    LET cement == {"cem", "eme", "men", "ent"} IN
    ("cement 50" :> cement \cup {"nt ", "t 5", " 50"})
        @@ ("cement 25" :> cement \cup {"nt ", "t 2", " 25"})
        @@ ("cement" :> cement)
        @@ ("sement 50" :> (cement \ {"cem"}) \cup {"sem", "nt ", "t 5", " 50"})
        @@ ("nails" :> {"nai", "ail", "ils"})
SizesIn ==
    ("cement 50" :> {"50"}) @@ ("cement 25" :> {"25"}) @@ ("cement" :> {})
        @@ ("sement 50" :> {"50"}) @@ ("nails" :> {})
Aliases == {{}} \cup {{n} : n \in NameSamples}
ProductsNamed(sku) == {[sku |-> sku, name |-> n, aliases |-> a] : n \in NameSamples, a \in Aliases}
QuerySamples ==
    [query : NameSamples,
     corpus : {{}} \cup {{a} : a \in ProductsNamed(1)}
              \cup {{a, b} : a \in ProductsNamed(1), b \in ProductsNamed(2)}]

Cells == UNION {[1..n -> {"a", "\"", ",", "\n", "\r", " "}] : n \in 0..2}
RowSamples == {row \in {<<a, b>> : a, b \in Cells} : Len(row[1]) + Len(row[2]) <= 3}
TableSamples == [row : RowSamples, ending : LineEnds]

Ones(n) == [k \in 1..n |-> 1]
NumericSamples ==
    {cell \in
        [negative : BOOLEAN, point : BOOLEAN, spaced : BOOLEAN,
         groups : {<<Ones(a)>> : a \in 0..4} \cup {<<Ones(a), Ones(b)>> : a \in 0..4, b \in 0..3},
         fraction : {Ones(n) : n \in 0..3}] : cell.point \/ cell.fraction = <<>>}
Whole(n) == [negative |-> FALSE, groups |-> <<Ones(n)>>, point |-> FALSE, fraction |-> <<>>, spaced |-> FALSE]
ProductRow(sku, cell, rate, threshold) ==
    [sku |-> sku, name |-> "n", unit |-> "bag", price |-> cell, taxRate |-> rate, threshold |-> threshold]
Skus == {None, "A", "B", Templates!Malformed}
ProductSamples ==
    {<<ProductRow("A", price, None, None)>> : price \in NumericSamples \cup {None}}
        \cup {<<ProductRow("A", Whole(1), rate, None)>> : rate \in NumericSamples}
        \cup {<<ProductRow("A", Whole(1), None, threshold)>> : threshold \in NumericSamples}
        \cup {<<ProductRow(a, Whole(1), None, None), ProductRow(b, Whole(2), Whole(2), Whole(1))>> :
                  a, b \in Skus}
CustomerRow(name, limit, terms) ==
    [companyName |-> name, creditStatus |-> "CREDIT_ALLOWED", creditLimit |-> limit, paymentTerms |-> terms]
CustomerSamples ==
    {<<CustomerRow("A", limit, Whole(2))>> : limit \in NumericSamples}
        \cup {<<CustomerRow("A", None, terms)>> : terms \in NumericSamples}
        \cup {<<CustomerRow(a, None, None), CustomerRow(b, None, None)>> : a, b \in {None, "A", "B"}}
StockSamples ==
    {<<[sku |-> "A", quantity |-> cell]>> : cell \in NumericSamples \cup {None}}
        \cup {<<[sku |-> a, quantity |-> Whole(1)], [sku |-> b, quantity |-> Whole(2)]>> :
                  a, b \in Skus}

\* Rows around the two windows of two days that end with the fifth, one of them in the
\* hour that a clock which changes at midnight puts astray.
Moments == {28, 52, 76, 99, 124}
QuotationSamples ==
    {{}} \cup {{[value |-> 40, created |-> c, sent |-> c, accepted |-> a, rejected |-> r]} :
                  c \in {28, 99}, a \in {None, 99}, r \in {None, 124}}
OrderSamples ==
    {{[number |-> 1, value |-> 40, created |-> a, completed |-> None, cancelled |-> c],
      [number |-> 2, value |-> 70, created |-> b, completed |-> d, cancelled |-> FALSE]} :
        a, b \in Moments, c \in BOOLEAN, d \in {None, 124}}
PaymentSamples ==
    {{[value |-> 25, confirmed |-> c, reviewed |-> r]} : c \in BOOLEAN, r \in Moments \cup {None}}
WeekSamples ==
    [quotations : QuotationSamples, orders : OrderSamples, payments : PaymentSamples,
     zone : {Clock(3, 0, 2), Clock(-5, 1, 0)}, asOf : {125}, count : {2}]

\* A quiet day, and a busy one where every count and amount is a number of its own; the
\* page has room for twelve of thirteen entries of the yard.
BusyReview     == [paymentsAwaitingReview |-> 11, partiallyPaidCashOrders |-> 12]
BusyPipeline   == [inquiriesAwaitingReview |-> 13, quotationsAwaitingApproval |-> 14,
                   quotationsSentAwaitingOutcome |-> 15, followUpsDue |-> 16, followUpsOverdue |-> 17]
BusyFulfilment == [ordersAwaitingWarehouse |-> 18, warehousePending |-> 19, warehouseInProgress |-> 20,
                   warehousePrepared |-> 21, deliveriesPending |-> 22, deliveriesDispatched |-> 23,
                   failedDeliveriesOpen |-> 24]
BusyInventory  == [lowStockProducts |-> 26, openDiscrepancies |-> 27, reservationShortfalls |-> 28,
                   returnsAwaitingProcessing |-> 29, damagedUnitsReturned |-> 30, unitsNotReturned |-> 31]
Zero(counts)   == [c \in DOMAIN counts |-> 0]
Entry(kind, reader) == [kind |-> kind, desk |-> reader]
BusyQueue ==
    [k \in 1..7 |-> Entry("FAILED_DELIVERY_UNRESOLVED", "operations")]
        \o <<Entry("OVERDUE_RECEIVABLE", "money"), Entry("QUOTATION_AWAITING_APPROVAL", "sales")>>
        \o [k \in 1..6 |-> Entry("WAREHOUSE_TASK_STALE", "operations")]
Debts ==
    {[number |-> 1, customer |-> 1, status |-> "OPEN", grandTotal |-> 6400, payments |-> <<400>>, due |-> 4],
     [number |-> 2, customer |-> 2, status |-> "COMPLETED", grandTotal |-> 5100, payments |-> <<>>, due |-> 5]}
Busy(quotations, orders, payments) ==
    [quotations |-> quotations, orders |-> orders, debts |-> Debts, payments |-> payments,
     review |-> BusyReview, pipeline |-> BusyPipeline, fulfilment |-> BusyFulfilment,
     inventory |-> BusyInventory, queue |-> BusyQueue]
Quiet(quotations, orders, payments) ==
    [quotations |-> quotations, orders |-> orders, debts |-> {}, payments |-> payments,
     review |-> Zero(BusyReview), pipeline |-> Zero(BusyPipeline), fulfilment |-> Zero(BusyFulfilment),
     inventory |-> Zero(BusyInventory), queue |-> <<>>]
DayQuotations ==
    {{}, {[value |-> 40, created |-> 124, sent |-> 124, accepted |-> 124, rejected |-> None],
          [value |-> 55, created |-> 124, sent |-> None, accepted |-> None, rejected |-> 124]},
     {[value |-> 40, created |-> 99, sent |-> 99, accepted |-> None, rejected |-> None]}}
DayOrders ==
    {rows \in OrderSamples : \E o, e \in rows :
        o.number # e.number /\ o.created = 124 /\ e.created \in {99, 124} /\ ~o.cancelled}
DayPayments == {rows \in PaymentSamples : \A c \in rows : c.reviewed = 124}

Number(n) == [written |-> "count", value |-> n]
Money(m)  == [written |-> "amount", value |-> m]
Answer(a, b, c) == [kind |-> "ANSWER", summary |-> a, highlights |-> b, attention |-> c]
Outcomes ==
    {[kind |-> "DISABLED"], [kind |-> "PROVIDER_FAILED"], [kind |-> "SCHEMA_INVALID"],
     Answer({Number(2), Money(70)}, {Number(100)}, {}), Answer({}, {Money(200)}, {Number(7)}),
     Answer({Number(1)}, {}, {Number(12), Money(6000)}), Answer({}, {}, {Number(70)}),
     Answer({Money(25)}, {Money(1)}, {}), Answer({Number(4)}, {}, {Number(16)})}
MorningSamples ==
    [tables : UNION {{Busy(q, o, c), Quiet(q, o, c)} :
                  q \in DayQuotations, o \in DayOrders, c \in DayPayments},
     zone : {Clock(3, 0, 2)}, asOf : {125}, outcome : Outcomes]
=============================================================================
