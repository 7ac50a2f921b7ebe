---------------------------- MODULE Receivables ----------------------------
(***************************************************************************)
(* What is still owed, as the collections list shows it                    *)
(* (payments/receivables.ts) and as the dashboard sums it                  *)
(* (reporting/definitions.ts).  An order carries its confirmed payments as *)
(* a sequence of amounts.                                                  *)
(***************************************************************************)
EXTENDS ReportingDays, Sequences, FiniteSets, Functions

CONSTANT NoDate

DUE_SOON_DAYS == 7
OrderRow == [number : Nat, customer : Nat, status : {"OPEN", "COMPLETED", "CANCELLED"},
             grandTotal : Nat, payments : Seq(Nat), due : Int \cup {NoDate}]

BUCKET_ORDER  == [OVERDUE |-> 1, DUE_TODAY |-> 2, DUE_SOON |-> 3, NOT_DUE |-> 4]

\* Both dates by their UTC components.
daysBetweenDates(from, to) == to - from
DateOf(now)                == now \div HOURS

\* Which of the four buckets so many days from today fall into.
BucketOfDays(days) ==
    IF days < 0 THEN "OVERDUE" ELSE IF days = 0 THEN "DUE_TODAY"
    ELSE IF days <= DUE_SOON_DAYS THEN "DUE_SOON" ELSE "NOT_DUE"

bucketFor(due, now) ==
    IF due = NoDate THEN "NOT_DUE" ELSE BucketOfDays(daysBetweenDates(DateOf(now), due))

daysOverdue(due, now) ==
    IF due = NoDate \/ due >= DateOf(now) THEN 0 ELSE daysBetweenDates(due, DateOf(now))

outstanding(order) == order.grandTotal - SumFunction(order.payments)

\* A mutated form: delivered orders are no longer chased.
Owing_OpenOnly(orders) == {o \in orders : o.status = "OPEN" /\ outstanding(o) > 0}

Owing(orders) == {o \in orders : o.status \in {"OPEN", "COMPLETED"} /\ outstanding(o) > 0}

ReceivableRow(order, now) ==
    [number |-> order.number, customer |-> order.customer, outstanding |-> outstanding(order),
     bucket |-> bucketFor(order.due, now), daysOverdue |-> daysOverdue(order.due, now)]

\* Overdue first, then the longest overdue, the largest, the number.
Before(a, b) ==
    \/ BUCKET_ORDER[a.bucket] < BUCKET_ORDER[b.bucket]
    \/ /\ a.bucket = b.bucket
       /\ \/ a.daysOverdue > b.daysOverdue
          \/ /\ a.daysOverdue = b.daysOverdue
             /\ \/ a.outstanding > b.outstanding
                \/ a.outstanding = b.outstanding /\ a.number < b.number

prioritise(rows) ==
    CHOOSE list \in [1..Cardinality(rows) -> rows] :
        \A i, j \in DOMAIN list : i < j => Before(list[i], list[j])

receivables(orders, now) == prioritise({ReceivableRow(o, now) : o \in Owing(orders)})

\* One entry for each customer of the list.
aggregateByCustomer(list) ==
    LET of(c)       == {i \in DOMAIN list : list[i].customer = c}
        overdue(c)  == {i \in of(c) : list[i].bucket = "OVERDUE"}
        total(rows) == SumFunction([i \in rows |-> list[i].outstanding])
    IN  [c \in {list[i].customer : i \in DOMAIN list} |->
            [outstanding |-> total(of(c)),
             overdue     |-> total(overdue(c)),
             orderCount  |-> Cardinality(of(c))]]

\* The dashboard's totals: the due date against the organisation's own today.
receivablesTotals(orders, zone, asOf) ==
    LET days(o) == compareDateToLocalToday(o.due, zone, asOf)
        total(rows) == SumFunction([o \in rows |-> outstanding(o)])
        amount(bucket) ==
            total({o \in Owing(orders) : o.due # NoDate /\ BucketOfDays(days(o)) = bucket})
    IN  [outstanding   |-> total(Owing(orders)),
         overdue       |-> amount("OVERDUE"),
         dueToday      |-> amount("DUE_TODAY"),
         dueSoon       |-> amount("DUE_SOON"),
         overdueCount  |-> Cardinality({o \in Owing(orders) : o.due # NoDate /\ days(o) < 0}),
         customerCount |-> Cardinality({o.customer : o \in Owing(orders)})]
=============================================================================
