----------------------------- MODULE Reporting -----------------------------
(***************************************************************************)
(* The dashboard's figures (reporting/definitions.ts and snapshot.ts) and  *)
(* the brief written from them (brief.ts, narration.ts and                 *)
(* ai/brief-contract.ts).  A row is its amount and the instants of what    *)
(* happened to it, NoDate when it did not.                                 *)
(***************************************************************************)
EXTENDS Receivables

Rbac == INSTANCE Roles

QuotationRow == [value : Nat, created : Int, sent : Int \cup {NoDate},
                 accepted : Int \cup {NoDate}, rejected : Int \cup {NoDate}]
SalesRow     == [number : Nat, value : Nat, created : Int, completed : Int \cup {NoDate},
                 cancelled : BOOLEAN]
PaymentRow   == [value : Nat, confirmed : BOOLEAN, reviewed : Int \cup {NoDate}]

Happened(period, instant) == instant # NoDate /\ within(period, instant)
Worth(rows) == SumFunction([row \in rows |-> row.value])

quotationActivity(quotations, period) ==
    LET of(when(_)) == {q \in quotations : Happened(period, when(q))} IN
    [created       |-> Cardinality(of(LAMBDA q : q.created)),
     createdValue  |-> Worth(of(LAMBDA q : q.created)),
     sent          |-> Cardinality(of(LAMBDA q : q.sent)),
     accepted      |-> Cardinality(of(LAMBDA q : q.accepted)),
     acceptedValue |-> Worth(of(LAMBDA q : q.accepted)),
     rejected      |-> Cardinality(of(LAMBDA q : q.rejected))]

SoldIn(orders, period) == {o \in orders : ~o.cancelled /\ Happened(period, o.created)}

orderActivity(orders, period) ==
    [created   |-> Cardinality(SoldIn(orders, period)),
     value     |-> Worth(SoldIn(orders, period)),
     completed |-> Cardinality({o \in orders : Happened(period, o.completed)})]

largestAcceptedOrder(orders, period) ==
    LET worths == {o.value : o \in SoldIn(orders, period)} IN
    IF worths = {} THEN NoDate ELSE CHOOSE value \in worths : \A other \in worths : value >= other

CollectedIn(payments, period) == {c \in payments : c.confirmed /\ Happened(period, c.reviewed)}

confirmedPaymentsIn(payments, period) ==
    [count |-> Cardinality(CollectedIn(payments, period)), amount |-> Worth(CollectedIn(payments, period))]

\* In thousandths; nothing decided is no rate.
acceptanceRate(accepted, rejected) ==
    LET decided == accepted + rejected IN
    IF decided = 0 THEN NoDate ELSE (2000 * accepted + decided) \div (2 * decided)

\* One query for the whole window, cut into days.
buildSeries(orders, payments, zone, asOf, count) ==
    LET days   == localDaysIn(zone, asOf, count)
        window == [start |-> days[1].start, end |-> days[count].end]
        sold   == SoldIn(orders, window)
        taken  == CollectedIn(payments, window)
    IN  [k \in 1..count |->
            [orderValue |-> Worth({o \in sold : within(days[k], o.created)}),
             confirmedPayments |-> Worth({c \in taken : within(days[k], c.reviewed)})]]

-----------------------------------------------------------------------------
(* The dashboard of a role: a section it may not read is not computed.  A  *)
(* section is its counts and its amounts by name; the names, the order     *)
(* numbers and the trends on the page are left out.  What is counted in    *)
(* the other tables comes as it is; debts are the orders' rows again, with *)
(* what is owed on them.                                                   *)

PaymentCounts    == [paymentsAwaitingReview : Nat, partiallyPaidCashOrders : Nat]
PipelineCounts   == [inquiriesAwaitingReview : Nat, quotationsAwaitingApproval : Nat,
                     quotationsSentAwaitingOutcome : Nat, followUpsDue : Nat, followUpsOverdue : Nat]
FulfilmentCounts == [ordersAwaitingWarehouse : Nat, warehousePending : Nat, warehouseInProgress : Nat,
                     warehousePrepared : Nat, deliveriesPending : Nat, deliveriesDispatched : Nat,
                     failedDeliveriesOpen : Nat]
InventoryCounts  == [lowStockProducts : Nat, openDiscrepancies : Nat, reservationShortfalls : Nat,
                     returnsAwaitingProcessing : Nat, damagedUnitsReturned : Nat, unitsNotReturned : Nat]

\* The queue is in its order, for a reader of everything.
AttentionItem == [kind : STRING, desk : {"money", "sales", "operations"}]
QueriedTables == [quotations : SUBSET QuotationRow, orders : SUBSET SalesRow, debts : SUBSET OrderRow,
           payments : SUBSET PaymentRow, review : PaymentCounts, pipeline : PipelineCounts,
           fulfilment : FulfilmentCounts, inventory : InventoryCounts, queue : Seq(AttentionItem)]

ATTENTION_LIMIT == 12

dashboardScopeFor(role) ==
    [money |-> Rbac!can(role, "read:receivables") \/ Rbac!can(role, "read:payment"),
     sales |-> Rbac!can(role, "read:quotation"),
     operations |-> Rbac!can(role, "read:warehouse-task") \/ Rbac!can(role, "read:delivery")]

attentionQueue(queue, scope) ==
    LET seen == SelectSeq(queue, LAMBDA item : scope[item.desk])
    IN  SubSeq(seen, 1, IF Len(seen) < ATTENTION_LIMIT THEN Len(seen) ELSE ATTENTION_LIMIT)

CashSection(payments, debts, review, today, zone, asOf) ==
    LET confirmed == confirmedPaymentsIn(payments, today)
        owed      == receivablesTotals(debts, zone, asOf)
    IN  [counts  |-> [paymentsConfirmedToday |-> confirmed.count, overdueCount |-> owed.overdueCount,
                      debtorCount |-> owed.customerCount,
                      paymentsAwaitingReview |-> review.paymentsAwaitingReview,
                      partiallyPaidCashOrders |-> review.partiallyPaidCashOrders],
         amounts |-> [paymentsConfirmedToday |-> confirmed.amount, outstanding |-> owed.outstanding,
                      overdue |-> owed.overdue, dueToday |-> owed.dueToday, dueSoon |-> owed.dueSoon]]

SalesSection(quotations, orders, money, today) ==
    LET deals == quotationActivity(quotations, today)
        sold  == orderActivity(orders, today)
    IN  [counts  |-> [ordersCreated |-> sold.created, quotationsCreated |-> deals.created,
                      quotationsSent |-> deals.sent, quotationsAccepted |-> deals.accepted,
                      quotationsRejected |-> deals.rejected],
         amounts |-> [orderValue |-> sold.value, quotationValue |-> deals.createdValue,
                      acceptedValue |-> deals.acceptedValue],
         rate    |-> acceptanceRate(deals.accepted, deals.rejected),
         largest |-> IF money THEN largestAcceptedOrder(orders, today) ELSE NoDate]

Counted(counts) == [counts |-> counts, amounts |-> <<>>]

getDashboardSnapshot(role, tables, zone, asOf) ==
    LET scope == dashboardScopeFor(role)
        today == localDay(zone, asOf)
        section(visible, figures) == IF visible THEN figures ELSE NoDate
    IN  [sales      |-> section(scope.sales,
                            SalesSection(tables.quotations, tables.orders, scope.money, today)),
         cash       |-> section(scope.money, CashSection(tables.payments, tables.debts, tables.review,
                                                         today, zone, asOf)),
         pipeline   |-> section(scope.sales, Counted(tables.pipeline)),
         operations |-> section(scope.operations, Counted(tables.fulfilment)),
         completed  |-> section(scope.operations, orderActivity(tables.orders, today).completed),
         inventory  |-> section(scope.operations, Counted(tables.inventory)),
         attention  |-> attentionQueue(tables.queue, scope)]

-----------------------------------------------------------------------------
(* The brief.  Its prose is the numerals in it: a count as it is, a        *)
(* percentage among them, or an amount of minor units with two decimals.   *)

PROSE_INTEGER_CEILING == 3
MINOR == 100

Numeral   == [written : {"count", "amount"}, value : Nat]
Count(n)  == [written |-> "count", value |-> n]
Amount(m) == [written |-> "amount", value |-> m]

\* Figures of a section by their names, if the role may read it.
Stated(section, counts, amounts) ==
    IF section = NoDate THEN {}
    ELSE {Count(section.counts[c]) : c \in counts} \cup {Amount(section.amounts[a]) : a \in amounts}

Percent(sales) ==
    IF sales = NoDate \/ sales.rate = NoDate THEN {} ELSE {Count((sales.rate + 5) \div 10)}
Largest(sales) == IF sales = NoDate \/ sales.largest = NoDate THEN {} ELSE {Amount(sales.largest)}
Completed(snapshot) == IF snapshot.completed = NoDate THEN {} ELSE {Count(snapshot.completed)}

\* How many entries of each kind are on the page.
Tallies(attention) ==
    {Count(Cardinality({k \in DOMAIN attention : attention[k].kind = attention[j].kind})) :
        j \in DOMAIN attention}

\* What of the snapshot the model is given, and so may repeat.
buildNarrationInput(snapshot) ==
    Stated(snapshot.sales,
            {"ordersCreated", "quotationsCreated", "quotationsAccepted", "quotationsRejected"},
            {"orderValue", "quotationValue", "acceptedValue"})
    \cup Percent(snapshot.sales)
    \cup Stated(snapshot.cash, {"paymentsConfirmedToday", "paymentsAwaitingReview", "overdueCount"},
                 {"paymentsConfirmedToday", "outstanding", "overdue"})
    \cup Stated(snapshot.pipeline,
                 {"followUpsOverdue", "quotationsAwaitingApproval", "inquiriesAwaitingReview"}, {})
    \cup Stated(snapshot.operations,
                 {"ordersAwaitingWarehouse", "deliveriesPending", "failedDeliveriesOpen"}, {})
    \cup Completed(snapshot)
    \cup Stated(snapshot.inventory, {"lowStockProducts", "openDiscrepancies", "reservationShortfalls",
                                      "returnsAwaitingProcessing"}, {})
    \cup Tallies(snapshot.attention)

\* A numeral that is a whole number up to the ceiling, "2.00" too.
IsProse(numeral) ==
    \/ numeral.written = "count" /\ numeral.value <= PROSE_INTEGER_CEILING
    \/ /\ numeral.written = "amount" /\ numeral.value % MINOR = 0
       /\ numeral.value \div MINOR <= PROSE_INTEGER_CEILING

\* A mutated form: the attention list is not checked.
verifyGrounding_Headlines(narration, permitted) ==
    \A numeral \in narration.summary \cup narration.highlights :
        numeral \in permitted \/ IsProse(numeral)

verifyGrounding(narration, permitted) ==
    \A numeral \in narration.summary \cup narration.highlights \cup narration.attention :
        numeral \in permitted \/ IsProse(numeral)

\* A line is left out when there is nothing to say: it states a count with what it is
\* worth, or an amount.
CountLine(section, count, amounts) ==
    IF section # NoDate /\ section.counts[count] > 0 THEN Stated(section, {count}, amounts) ELSE {}
DebtLine(cash, amount, counts) ==
    IF cash # NoDate /\ cash.amounts[amount] > 0 THEN Stated(cash, counts, {amount}) ELSE {}
CountLines(section, counts) == UNION {CountLine(section, count, {}) : count \in counts}

deterministicBrief(snapshot) ==
    LET sales == snapshot.sales
        cash  == snapshot.cash
    IN  [source |-> "DETERMINISTIC",
         summary |->
            CountLine(sales, "ordersCreated", {"orderValue"})
            \cup CountLine(sales, "quotationsCreated", {"quotationValue"})
            \cup (IF cash # NoDate /\ cash.counts.paymentsConfirmedToday > 0
                  THEN Stated(cash, {}, {"paymentsConfirmedToday"}) ELSE {}),
         highlights |->
            CountLine(sales, "quotationsAccepted", {"acceptedValue"})
            \cup CountLine(sales, "quotationsRejected", {})
            \cup Percent(sales) \cup Largest(sales)
            \cup (IF snapshot.completed = 0 THEN {} ELSE Completed(snapshot)),
         attention |->
            DebtLine(cash, "overdue", {"overdueCount"}) \cup DebtLine(cash, "dueToday", {})
            \cup CountLines(cash, {"paymentsAwaitingReview", "partiallyPaidCashOrders"})
            \cup CountLines(snapshot.pipeline, {"followUpsOverdue", "quotationsAwaitingApproval",
                                                "inquiriesAwaitingReview"})
            \cup CountLines(snapshot.operations, {"ordersAwaitingWarehouse", "deliveriesPending",
                                                  "failedDeliveriesOpen"})
            \cup CountLines(snapshot.inventory, {"lowStockProducts", "reservationShortfalls",
                                                 "openDiscrepancies", "returnsAwaitingProcessing"})]

\* The provider is not asked, fails, breaks the schema, or answers.
narrateBrief(snapshot, outcome) ==
    LET fallback(reason) == [brief |-> deterministicBrief(snapshot), fallbackReason |-> reason] IN
    IF outcome.kind # "ANSWER" THEN fallback(outcome.kind)
    ELSE IF ~verifyGrounding(outcome, buildNarrationInput(snapshot)) THEN fallback("NOT_GROUNDED")
    ELSE [brief |-> [source |-> "AI", summary |-> outcome.summary, highlights |-> outcome.highlights,
                     attention |-> outcome.attention],
          fallbackReason |-> NoDate]
=============================================================================
