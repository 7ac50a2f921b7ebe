------------------------------- MODULE Orders -------------------------------
(***************************************************************************)
(* Sales orders: an accepted quotation becomes an order that holds stock,  *)
(* and cancelling an order gives the stock back                            *)
(* (src/src/modules/orders/index.ts and reservation.ts).                   *)
(*                                                                         *)
(* createFromQuotation takes no lock on the quotation or on an order: it   *)
(* reads both, then locks the products.  Everything up to the product      *)
(* locks is CheckQuotation; the rest, which runs under those locks and     *)
(* meets the unique index on the quotation, is ReserveAndCreate.           *)
(***************************************************************************)
EXTENDS Records

CONSTANT DeliveryChoices   \* answers to "deliver it?" at conversion (bound)

ASSUME DeliveryBounds == DeliveryChoices \subseteq BOOLEAN

ProductsOf(q) == {Items[q][i].product : i \in DOMAIN Items[q]}

\* The deduplicated product ids are compared with the number of lines.
EveryLineHasItsProduct(q) == Cardinality(ProductsOf(q)) = Len(Items[q])

freeToReserve(p) == stock[p].available - stock[p].reserved

\* planReservation: all lines or none.
planReservation(q) == \A p \in Products : QuantityOf(q, p) <= freeToReserve(p)

initialStatuses(q) ==
    IF PaymentType[q] = "CASH"
    THEN [paymentStatus |-> "UNPAID",           fulfillmentStatus |-> "NOT_READY"]
    ELSE [paymentStatus |-> "NOT_REQUIRED_YET", fulfillmentStatus |-> "READY"]

CheckQuotation(r, q, deliveryRequired) ==
    /\ creating[r] = NotCreating
    /\ LiveOrders(q) = {}
    /\ EveryLineHasItsProduct(q)
    /\ creating' = [creating EXCEPT ![r] =
            [quotation |-> q, deliveryRequired |-> deliveryRequired,
             destination |-> deliveryRequired /\ addressed]]
    /\ UNCHANGED <<stockTables, addressed, orderTables, yard, road, discrepancy, money>>

\* A mutated form: no index.
QuotationIsFree_Always(q) == TRUE

\* The partial unique index: one order per quotation that is not CANCELLED.
QuotationIsFree(q) == LiveOrders(q) = {}

NewOrder(request) ==
    [NoOrder EXCEPT
        !.status            = "OPEN",
        !.quotation         = request.quotation,
        !.paymentStatus     = initialStatuses(request.quotation).paymentStatus,
        !.fulfillmentStatus = initialStatuses(request.quotation).fulfillmentStatus,
        !.deliveryRequired  = request.deliveryRequired,
        !.destination       = request.destination]

ReserveAndCreate(r, o) ==
    LET request == creating[r]
        q == request.quotation
    IN  /\ request # NotCreating
        /\ order[o].status = "ABSENT"
        /\ planReservation(q)
        /\ QuotationIsFree(q)
        /\ order' = [order EXCEPT ![o] = NewOrder(request)]
        /\ item' = [item EXCEPT ![o] = [p \in Products |-> QuantityOf(q, p)]]
        /\ reservation' = [reservation EXCEPT ![o] = [p \in Products |->
                IF p \in ProductsOf(q) THEN [status |-> "ACTIVE", quantity |-> QuantityOf(q, p)]
                                       ELSE NoReservation]]
        /\ WriteStock([p \in Products |->
                [stock[p] EXCEPT !.reserved = @ + QuantityOf(q, p)]])
        /\ creating' = [creating EXCEPT ![r] = NotCreating]
        /\ UNCHANGED <<movements, addressed, yard, road, discrepancy, money>>

\* A short product refuses the whole order; a concurrent creation that won the
\* quotation, or a lost connection, rolls the transaction back.
GiveUpCreation(r) ==
    /\ creating[r] # NotCreating
    /\ creating' = [creating EXCEPT ![r] = NotCreating]
    /\ UNCHANGED <<stockTables, addressed, orderTables, yard, road, discrepancy, money>>

-----------------------------------------------------------------------------

\* The task statuses that stop a cancellation (assessCancellation).
CancellationBlocked(o) ==
    \E t \in TaskIds : /\ task[t].order = o
                       /\ task[t].status \in {"IN_PROGRESS", "PREPARED", "COMPLETED"}

\* A mutated form: the rows stay ACTIVE.
ReleaseAll_Kept(rows) == rows

ReleaseAll(rows) ==
    [p \in Products |->
        IF rows[p].status = "ACTIVE" THEN [rows[p] EXCEPT !.status = "RELEASED"] ELSE rows[p]]

\* A mutated form: the lines keep their reserved quantity.
ReleasedLines_Kept(o) == item

ReleasedLines(o) == [item EXCEPT ![o] = Nothing]

CancelOrder(o) ==
    /\ Unlocked(o)
    /\ order[o].status = "OPEN"
    /\ ConfirmedOn(o) = {}
    /\ ~CancellationBlocked(o)
    /\ reservation' = [reservation EXCEPT ![o] = ReleaseAll(@)]
    /\ WriteStock([p \in Products |-> [stock[p] EXCEPT !.reserved = @ - Held(o, p)]])
    /\ item' = ReleasedLines(o)
    /\ order' = [order EXCEPT ![o].status = "CANCELLED", ![o].fulfillmentStatus = "CANCELLED"]
    /\ UNCHANGED <<movements, addressed, creating, yard, road, discrepancy, money>>

\* customers/index.ts: the address of the customer record can be set and cleared.
\* Bound: left alone where no order is to be delivered, since nothing else reads it.
UpdateCustomer ==
    /\ TRUE \in DeliveryChoices
    /\ addressed' = ~addressed
    /\ UNCHANGED <<stockTables, orderTables, creating, yard, road, discrepancy, money>>

OrderStep ==
    \/ \E r \in Requests, q \in Quotations, b \in DeliveryChoices : CheckQuotation(r, q, b)
    \/ \E r \in Requests, o \in OrderIds : ReserveAndCreate(r, o)
    \/ \E r \in Requests : GiveUpCreation(r)
    \/ \E o \in OrderIds : CancelOrder(o)
    \/ UpdateCustomer
=============================================================================
