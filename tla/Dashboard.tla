----------------------------- MODULE Dashboard -----------------------------
(***************************************************************************)
(* The lists people work from: what the dashboard counts and the attention *)
(* queue names, read from the tables of Distributor in one snapshot.       *)
(* Nothing else tells anybody that an order still needs something done.    *)
(*                                                                         *)
(* A list is the set of rows it shows.  Ages are left out: an entry that   *)
(* appears only after some hours is on the queue from the start.           *)
(***************************************************************************)
EXTENDS Distributor

\* A mutated form: a task that was cancelled still counts as one.
ordersAwaitingWarehouse_AnyTask ==
    {o \in OrderIds : /\ order[o].status = "OPEN"
                      /\ order[o].fulfillmentStatus = "READY"
                      /\ \A t \in TaskIds : task[t].order # o}

\* "Orders waiting for the warehouse" on the dashboard.
ordersAwaitingWarehouse ==
    {o \in OrderIds : /\ order[o].status = "OPEN"
                      /\ order[o].fulfillmentStatus = "READY"
                      /\ LiveTasks(o) = {}}

openTasks         == {t \in TaskIds : task[t].status \in {"PENDING", "IN_PROGRESS", "PREPARED"}}
deliveriesPending == {d \in DeliveryIds : delivery[d].status \in {"PENDING", "ASSIGNED"}}
deliveriesDispatched == {d \in DeliveryIds : delivery[d].status = "DISPATCHED"}
failedDeliveriesOpen ==
    {d \in DeliveryIds : delivery[d].status = "FAILED" /\ delivery[d].resolution = "NULL"}
returnsAwaitingProcessing ==
    {r \in ReturnIds : goodsReturn[r].status \in {"EXPECTED", "RECEIVED", "INSPECTED"}}

\* The operations section of the attention queue: the rows it names.  How urgent an entry
\* is, and so which entries the page cuts off after its limit, is left out.
attentionQueue ==
    {[kind |-> "DISCREPANCY", entity |-> c] :
         c \in {c \in DiscrepancyIds : discrepancy[c].status \in {"OPEN", "UNDER_REVIEW"}}}
    \cup {[kind |-> "FAILED_DELIVERY_UNRESOLVED", entity |-> d] : d \in failedDeliveriesOpen}
    \cup {[kind |-> "PAID_ORDER_GOODS_LOST", entity |-> d] :
             d \in {d \in DeliveryIds : /\ delivery[d].status = "FAILED"
                                        /\ delivery[d].resolution = "LOST_OR_UNRECOVERABLE"
                                        /\ order[delivery[d].order].paymentStatus = "PAID"}}
    \cup {[kind |-> "RETURN_AWAITING_INSPECTION", entity |-> r] :
             r \in {r \in ReturnIds : goodsReturn[r].status \in {"EXPECTED", "RECEIVED"}}}
    \cup {[kind |-> "WAREHOUSE_TASK_STALE", entity |-> t] : t \in openTasks}

\* Somebody is shown the order, its task, a delivery of it or a return of one.
OnAList(o) ==
    \/ o \in ordersAwaitingWarehouse
    \/ \E t \in openTasks : task[t].order = o
    \/ \E d \in deliveriesPending \cup deliveriesDispatched : delivery[d].order = o
    \/ \E d \in DeliveryIds : delivery[d].order = o /\ \E a \in attentionQueue : a.entity = d
    \/ \E r \in returnsAwaitingProcessing : delivery[goodsReturn[r].delivery].order = o

\* What the lists leave out on purpose or by oversight once the goods have left
\* the shelf: a collection nobody recorded yet, an order without an address, goods
\* that came back, and a loss nobody had paid for.
KnownGaps(o) ==
    LET attempts == {d \in DeliveryIds : delivery[d].order = o}
    IN  /\ \E t \in CompletedTasks : task[t].order = o
        /\ \/ ~order[o].deliveryRequired
           \/ attempts = {}
           \/ \E d \in attempts : GoodsRestocked(d)
           \/ \E d \in attempts : /\ delivery[d].resolution = "LOST_OR_UNRECOVERABLE"
                                  /\ order[o].paymentStatus # "PAID"

\* An open order whose goods may leave is not forgotten: through cancelled tasks,
\* failed attempts, retries, returns that are opened and withdrawn and write-offs,
\* some list still shows it until it is completed, outside the gaps named above.
ReadyOrdersAreOnAList ==
    \A o \in OrderIds :
        (order[o].status = "OPEN" /\ order[o].fulfillmentStatus = "READY")
        => OnAList(o) \/ KnownGaps(o)
=============================================================================
