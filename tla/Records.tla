------------------------------ MODULE Records ------------------------------
(***************************************************************************)
(* The tables of one organisation that orders, fulfilment, inventory,      *)
(* returns and payments share, as the rows the program can read and write, *)
(* and the transactions that are under way.                                *)
(*                                                                         *)
(* Every service function runs in one READ COMMITTED transaction and       *)
(* starts by locking the sales order it is about (FOR UPDATE).  A          *)
(* transaction that holds its locks from its first read to its commit is   *)
(* one action.  One that reads before it locks, or that another            *)
(* transaction can still influence after a check, is split into the steps  *)
(* that can interleave, and its progress is one of the "in flight"         *)
(* variables below.                                                        *)
(***************************************************************************)
EXTENDS Sums, Sequences

CONSTANTS
    Products,       \* products of the catalogue
    Quotations,     \* accepted quotations
    OrderIds,       \* identities a sales order row can take (bound)
    TaskIds,        \* ... a warehouse task (bound)
    DeliveryIds,    \* ... a delivery (bound)
    ReturnIds,      \* ... a return (bound)
    DiscrepancyIds, \* ... an inventory discrepancy (bound)
    PaymentIds,     \* ... a payment (bound)
    Requests,       \* order creations that can be in flight together (bound)
    References,     \* (provider, transaction reference) pairs of payments
    Items,          \* Items[q]: the lines of quotation q
    PaymentType,    \* PaymentType[q]: "CASH" or "CREDIT"
    GrandTotal,     \* GrandTotal[q]: what the quotation comes to
    Opening,        \* Opening[p]: stock on hand at the start
    None            \* SQL's NULL

Line == [product : Products, quantity : Nat \ {0}]

ASSUME RowIdsAreFinite ==
    /\ IsFiniteSet(Products)    /\ IsFiniteSet(OrderIds)
    /\ IsFiniteSet(TaskIds)     /\ IsFiniteSet(ReturnIds)
    /\ IsFiniteSet(PaymentIds)  /\ IsFiniteSet(DeliveryIds)

ASSUME QuotationsAreTyped ==
    /\ Items \in [Quotations -> Seq(Line)]
    /\ PaymentType \in [Quotations -> {"CASH", "CREDIT"}]
    /\ GrandTotal \in [Quotations -> Nat]
    /\ Opening \in [Products -> Nat]

ASSUME NoneIsNoRow ==
    None \notin Quotations \cup OrderIds \cup TaskIds \cup DeliveryIds \cup References

VARIABLES
    stock,        \* products: available_stock and reserved_stock
    movements,    \* inventory_movements, summed per product and type
    addressed,    \* whether the customer record has an address
    order,        \* sales_orders
    item,         \* sales_order_items: reservedQuantity per product
    reservation,  \* stock_reservations: one row per order and product
    task,         \* warehouse_tasks with their items
    delivery,     \* deliveries
    goodsReturn,  \* returns with their items
    discrepancy,  \* inventory_discrepancies
    payment,      \* payments
    creating,     \* in flight: order creations past their unlocked reads
    handover,     \* in flight: handovers past the open-count check
    confirming,   \* in flight: payment confirmations past their assessment
    reviewed,     \* the payload Finance has on screen, per payment
    extracting,   \* in flight: payments whose evidence is being read
    correcting    \* in flight: corrections past their status check

stockTables == <<stock, movements>>
orderTables == <<order, item, reservation>>
yard        == <<task, handover>>
road        == <<delivery, goodsReturn>>
money       == <<payment, confirming, reviewed, extracting, correcting>>

vars == <<stock, movements, addressed, order, item, reservation, task, delivery,
          goodsReturn, discrepancy, payment, creating, handover, confirming,
          reviewed, extracting, correcting>>

-----------------------------------------------------------------------------
(* Rows.  A row that has not been inserted has the status "ABSENT".        *)

Quantities == [Products -> Nat]
Nothing    == [p \in Products |-> 0]

OrderRow ==
    [status            : {"ABSENT", "OPEN", "COMPLETED", "CANCELLED"},
     quotation         : Quotations \cup {None},
     paymentStatus     : {"UNPAID", "PARTIALLY_PAID", "NOT_REQUIRED_YET", "PAID"},
     fulfillmentStatus : {"NOT_READY", "READY", "CANCELLED"},
     deliveryRequired  : BOOLEAN,
     destination       : BOOLEAN,     \* deliveryAddressSnapshot is not blank
     pickedUp          : BOOLEAN,
     exception         : {"STOCK_SHORTFALL", "GOODS_RETURNED", "DELIVERY_LOST", "NULL"}]

ReservationRow ==
    [status : {"ABSENT", "ACTIVE", "RELEASED", "CONSUMED"}, quantity : Nat]

TaskRow ==
    [status   : {"ABSENT", "PENDING", "IN_PROGRESS", "PREPARED", "COMPLETED", "CANCELLED"},
     order    : OrderIds \cup {None},
     required : Quantities,           \* quantityRequired; 0 when not on the task
     prepared : SUBSET Products]

DeliveryRow ==
    [status     : {"ABSENT", "PENDING", "ASSIGNED", "DISPATCHED", "DELIVERED", "FAILED"},
     order      : OrderIds \cup {None},
     task       : TaskIds \cup {None},
     resolution : {"NULL", "RETRY_DELIVERY", "RETURNED_TO_WAREHOUSE", "LOST_OR_UNRECOVERABLE"},
     retryOf    : DeliveryIds \cup {None}]

ReturnRow ==
    [status      : {"ABSENT", "EXPECTED", "RECEIVED", "INSPECTED", "COMPLETED", "CANCELLED"},
     delivery    : DeliveryIds \cup {None},
     dispatched  : Quantities,
     restockable : Quantities,
     damaged     : Quantities]

\* COUNTING: the product has been read, the row is not inserted yet.
DiscrepancyRow ==
    [status   : {"ABSENT", "COUNTING", "OPEN", "UNDER_REVIEW", "RESOLVED", "CANCELLED"},
     product  : Products \cup {None},
     task     : TaskIds \cup {None},
     onHand   : Nat,                  \* systemOnHandQuantity
     counted  : Nat]                  \* physicalCountQuantity

PaymentRow ==
    [status    : {"ABSENT", "SUBMITTED", "NEEDS_REVIEW", "CONFIRMED", "REJECTED"},
     order     : OrderIds \cup {None},
     amount    : Nat,
     reference : References \cup {None}]

NotCreating == [quotation |-> None, deliveryRequired |-> FALSE, destination |-> FALSE]

\* What a creation in flight has read.
CreationRow ==
    {NotCreating} \cup
    [quotation : Quotations, deliveryRequired : BOOLEAN, destination : BOOLEAN]

\* What Finance is shown of a payment.
PayloadRow ==
    [amount      : Nat,
     reference   : References \cup {None},
     outstanding : Nat,
     blocking    : SUBSET {"ORDER_NOT_OPEN", "DUPLICATE_REFERENCE"}]

\* Finance has not opened the payment; no payload has the amount 0.
NotReviewed == [amount |-> 0, reference |-> None, outstanding |-> 0, blocking |-> {}]

NoOrder == [status |-> "ABSENT", quotation |-> None, paymentStatus |-> "UNPAID",
            fulfillmentStatus |-> "NOT_READY", deliveryRequired |-> FALSE,
            destination |-> FALSE, pickedUp |-> FALSE, exception |-> "NULL"]
NoReservation == [status |-> "ABSENT", quantity |-> 0]
NoTask        == [status |-> "ABSENT", order |-> None, required |-> Nothing, prepared |-> {}]
NoDelivery    == [status |-> "ABSENT", order |-> None, task |-> None,
                  resolution |-> "NULL", retryOf |-> None]
NoReturn      == [status |-> "ABSENT", delivery |-> None, dispatched |-> Nothing,
                  restockable |-> Nothing, damaged |-> Nothing]
NoDiscrepancy == [status |-> "ABSENT", product |-> None, task |-> None,
                  onHand |-> 0, counted |-> 0]
NoPayment     == [status |-> "ABSENT", order |-> None, amount |-> 0, reference |-> None]

-----------------------------------------------------------------------------
(* Reading the tables.                                                     *)

QuantityOf(q, p) ==
    Total([i \in DOMAIN Items[q] |-> IF Items[q][i].product = p THEN Items[q][i].quantity ELSE 0])

\* What an order's ACTIVE reservation holds of a product.
Held(o, p) == IF reservation[o][p].status = "ACTIVE" THEN reservation[o][p].quantity ELSE 0

\* The organisation's ACTIVE reservations of a product.
Promised(p) == Total([o \in OrderIds |-> Held(o, p)])

TypeOfOrder(o) == PaymentType[order[o].quotation]

\* A mutated form: a failed retry does not count as one.
RetriesOf_Failed(d) == {e \in DeliveryIds : delivery[e].retryOf = d /\ delivery[e].status # "FAILED"}

LiveOrders(q)     == {o \in OrderIds : order[o].quotation = q /\ order[o].status # "CANCELLED"}
LiveTasks(o)      == {t \in TaskIds : task[t].order = o /\ task[t].status # "CANCELLED"}
LiveDeliveries(o) == {d \in DeliveryIds : delivery[d].order = o /\ delivery[d].status # "FAILED"}
ReturnsOf(d)      == {r \in ReturnIds : goodsReturn[r].delivery = d}
RetriesOf(d)      == {e \in DeliveryIds : delivery[e].retryOf = d}
ConfirmedOn(o)    == {c \in PaymentIds : payment[c].order = o /\ payment[c].status = "CONFIRMED"}
OpenCounts(t)     == {d \in DiscrepancyIds : /\ discrepancy[d].task = t
                                             /\ discrepancy[d].status \in {"OPEN", "UNDER_REVIEW"}}

\* A mutated form: no lock.
Unlocked_Always(o) == TRUE

\* No transaction in flight holds the order's row lock.
Unlocked(o) == /\ \A t \in handover : task[t].order # o
               /\ \A c \in confirming : payment[c].order # o

\* The CHECK constraint on products: an update that would break it raises, and
\* the transaction rolls back.
WriteStock(rows) ==
    /\ \A p \in Products : rows[p].reserved \in 0..rows[p].available
    /\ stock' = rows

-----------------------------------------------------------------------------

TypeOK ==
    /\ stock \in [Products -> [available : Nat, reserved : Nat]]
    /\ movements \in [Products -> [adjusted : Int, reconciled : Int,
                                   consumed : Nat, restocked : Nat]]
    /\ addressed \in BOOLEAN
    /\ order \in [OrderIds -> OrderRow]
    /\ item \in [OrderIds -> Quantities]
    /\ reservation \in [OrderIds -> [Products -> ReservationRow]]
    /\ task \in [TaskIds -> TaskRow]
    /\ delivery \in [DeliveryIds -> DeliveryRow]
    /\ goodsReturn \in [ReturnIds -> ReturnRow]
    /\ discrepancy \in [DiscrepancyIds -> DiscrepancyRow]
    /\ payment \in [PaymentIds -> PaymentRow]
    /\ creating \in [Requests -> CreationRow]
    /\ handover \subseteq TaskIds
    /\ confirming \subseteq PaymentIds
    /\ reviewed \in [PaymentIds -> PayloadRow]
    /\ extracting \subseteq PaymentIds
    /\ correcting \subseteq PaymentIds

Init ==
    /\ stock = [p \in Products |-> [available |-> Opening[p], reserved |-> 0]]
    /\ movements = [p \in Products |-> [adjusted |-> 0, reconciled |-> 0,
                                        consumed |-> 0, restocked |-> 0]]
    /\ addressed = FALSE   \* optional when a customer is created; UpdateCustomer sets it
    /\ order = [o \in OrderIds |-> NoOrder]
    /\ item = [o \in OrderIds |-> Nothing]
    /\ reservation = [o \in OrderIds |-> [p \in Products |-> NoReservation]]
    /\ task = [t \in TaskIds |-> NoTask]
    /\ delivery = [d \in DeliveryIds |-> NoDelivery]
    /\ goodsReturn = [r \in ReturnIds |-> NoReturn]
    /\ discrepancy = [d \in DiscrepancyIds |-> NoDiscrepancy]
    /\ payment = [c \in PaymentIds |-> NoPayment]
    /\ creating = [r \in Requests |-> NotCreating]
    /\ handover = {}
    /\ confirming = {}
    /\ reviewed = [c \in PaymentIds |-> NotReviewed]
    /\ extracting = {}
    /\ correcting = {}
=============================================================================
