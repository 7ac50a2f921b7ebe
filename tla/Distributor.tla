---------------------------- MODULE Distributor ----------------------------
(***************************************************************************)
(* One organisation's order-to-delivery core: orders, fulfilment,          *)
(* inventory, returns and payments, interleaved over the tables they       *)
(* share.  An instance leaves a part out by giving it no rows to create.   *)
(***************************************************************************)
EXTENDS Orders, Fulfillment, Inventory, Returns, Payments

Next ==
    \/ OrderStep
    \/ FulfillmentStep
    \/ InventoryStep
    \/ ReturnStep
    \/ PaymentStep

Spec == Init /\ [][Next]_vars

-----------------------------------------------------------------------------
(* Stock and the promises made on it                                       *)

\* products.reserved_stock is the sum of the ACTIVE stock_reservations of the
\* product, whoever wrote either of them last (orders/index.ts keeps the two in
\* one transaction; completeWarehouseTask refuses when they differ).
AggregateMatchesRows == \A p \in Products : stock[p].reserved = Promised(p)

\* What is promised to orders is on the shelf: no adjustment, count or handover
\* leaves an ACTIVE reservation without goods behind it.
PromisesAreCovered == \A p \in Products : Promised(p) <= stock[p].available

\* A quotation is fulfilled once: two creations that both read "no order yet"
\* never leave two orders that are not cancelled (the unique index behind
\* createFromQuotation).
OneLiveOrderPerQuotation == \A q \in Quotations : Cardinality(LiveOrders(q)) <= 1

\* An order line's reservedQuantity, which the warehouse picks from, is what the
\* reservation holds or held when it was consumed, and 0 once it was released.
ItemMirrorsReservation ==
    \A o \in OrderIds, p \in Products :
        item[o][p] = IF reservation[o][p].status \in {"ACTIVE", "CONSUMED"}
                     THEN reservation[o][p].quantity ELSE 0

\* An order that was cancelled keeps nothing: no ACTIVE reservation, no money
\* Finance confirmed, no goods handed over (cancelOrder against a handover or a
\* confirmation that is under way).
CancelledOrderHoldsNothing ==
    \A o \in OrderIds : order[o].status = "CANCELLED" =>
        /\ \A p \in Products : reservation[o][p].status # "ACTIVE"
        /\ ConfirmedOn(o) = {}
        /\ \A t \in TaskIds : task[t].order = o => task[t].status # "COMPLETED"

\* The abstract specification of the stock tables (StockPromise), read off the
\* shelf and the ACTIVE reservations.
Stock == INSTANCE StockPromise WITH
            Holders <- OrderIds,
            onHand  <- [p \in Products |-> stock[p].available],
            held    <- [o \in OrderIds |-> [p \in Products |-> Held(o, p)]],
            shipped <- [p \in Products |-> movements[p].consumed]

\* Every step of every function above is one of the abstract ones: a handover
\* ships exactly what its order held although the task copied it earlier, and
\* nothing else takes goods from under a reservation.
KeepsStockPromise == Stock!PromiseSpec

-----------------------------------------------------------------------------
(* The warehouse                                                           *)

CompletedTasks   == {t \in TaskIds : task[t].status = "COMPLETED"}
CompletedReturns == {r \in ReturnIds : goodsReturn[r].status = "COMPLETED"}

Shipped(p)   == Total([t \in TaskIds |->
                    IF t \in CompletedTasks THEN task[t].required[p] ELSE 0])
Restocked(p) == Total([r \in ReturnIds |->
                    IF r \in CompletedReturns THEN goodsReturn[r].restockable[p] ELSE 0])

\* The ledger explains the shelf: what is on hand is the opening stock, the
\* corrections, less every completed task and plus every completed return, each
\* counted once (movements.ts reconcileLedger).
StockAccountedFor ==
    \A p \in Products :
        /\ movements[p].consumed = Shipped(p)
        /\ movements[p].restocked = Restocked(p)
        /\ stock[p].available = Opening[p] + movements[p].adjusted + movements[p].reconciled
                                - Shipped(p) + Restocked(p)

\* What a completed task handed over is what its order's reservations held, to
\* the unit, although reservations can shrink while the task is being picked;
\* and the order holds nothing more.
HandoverConsumedTheReservation ==
    \A t \in CompletedTasks : \A p \in Products :
        LET row == reservation[task[t].order][p]
        IN  /\ task[t].required[p] = IF row.status = "CONSUMED" THEN row.quantity ELSE 0
            /\ row.status # "ACTIVE"

\* fulfillment/index.ts: "Handing goods over while one stands would consume against
\* a figure somebody has already said is wrong".  The handover looks for open counts
\* once, before it consumes; reporting a count locks nothing, and it is the foreign
\* keys of the inserted row that keep it out of a handover under way.
NoHandoverOverAnOpenCount ==
    [][\A t \in TaskIds :
          (task[t].status # "COMPLETED" /\ task'[t].status = "COMPLETED")
          => OpenCounts(t) = {} /\ OpenCounts(t)' = {}]_vars

\* Consumed goods belong to a completed task: no stock leaves twice for an order.
OneHandoverPerOrder ==
    \A o \in OrderIds :
        /\ Cardinality({t \in CompletedTasks : task[t].order = o}) <= 1
        /\ (\E p \in Products : reservation[o][p].status = "CONSUMED")
               => \E t \in CompletedTasks : task[t].order = o

\* Cash goods leave after the money: a task of a cash order that got as far as
\* picking has confirmed payments for the whole total behind it.
CashGoodsAfterPayment ==
    \A t \in TaskIds :
        LET o == task[t].order
        IN  (/\ task[t].status \in {"IN_PROGRESS", "PREPARED", "COMPLETED"}
             /\ TypeOfOrder(o) = "CASH")
            => ConfirmedAmount(payment, o) >= TotalOf(o)

\* COMPLETED means the customer has the goods: a completed task, and the delivery
\* delivered or the collection recorded.
CompletedOrderWasServed ==
    \A o \in OrderIds : order[o].status = "COMPLETED" =>
        /\ \E t \in CompletedTasks : task[t].order = o
        /\ IF order[o].deliveryRequired
           THEN \E d \in LiveDeliveries(o) : delivery[d].status = "DELIVERED"
           ELSE order[o].pickedUp

-----------------------------------------------------------------------------
(* Goods on the road                                                       *)

TaskDeliveries(t) == {d \in DeliveryIds : delivery[d].task = t}

\* A delivery whose goods have not moved on to a later attempt.
Carrying(d) == delivery[d].resolution # "RETRY_DELIVERY"

\* One load of goods is in one place: of the attempts to deliver a task's goods
\* at most one still has them (the others were followed by a retry), and if
\* anything came back into stock nothing was delivered, lost or under way.
GoodsInOnePlace ==
    \A t \in TaskIds :
        LET holders == {d \in TaskDeliveries(t) : Carrying(d)}
        IN  /\ Cardinality(holders) <= 1
            /\ \A d \in TaskDeliveries(t) : GoodsRestocked(d) =>
                   /\ holders = {d}
                   /\ delivery[d].status = "FAILED"
                   /\ delivery[d].resolution = "RETURNED_TO_WAREHOUSE"

\* Whatever was inspected, received twice or cancelled in between, the returns of
\* a task bring back no more than it took out.
RestockBounded ==
    \A t \in TaskIds, p \in Products :
        Total([r \in ReturnIds |->
            IF r \in CompletedReturns /\ delivery[goodsReturn[r].delivery].task = t
            THEN goodsReturn[r].restockable[p] + goodsReturn[r].damaged[p] ELSE 0])
        <= task[t].required[p]

-----------------------------------------------------------------------------
(* Money                                                                   *)

\* An order's payment status is what its confirmed payments say, and a cash
\* order is released exactly when they cover it.
PaymentStatusIsEarned ==
    \A o \in OrderIds : order[o].status # "ABSENT" =>
        /\ order[o].paymentStatus =
               IF ConfirmedOn(o) = {} THEN initialStatuses(order[o].quotation).paymentStatus
               ELSE IF ConfirmedAmount(payment, o) >= TotalOf(o) THEN "PAID"
               ELSE "PARTIALLY_PAID"
        /\ (TypeOfOrder(o) = "CASH" /\ order[o].status # "CANCELLED")
               => (order[o].fulfillmentStatus = "READY" <=> order[o].paymentStatus = "PAID")

\* One transfer settles one claim: two confirmed payments never carry the same
\* provider reference, although two confirmations on different orders share no
\* lock.
NoReferenceConfirmedTwice ==
    \A c, e \in PaymentIds :
        (/\ c # e
         /\ payment[c].status = "CONFIRMED" /\ payment[e].status = "CONFIRMED"
         /\ payment[c].reference # None)
        => payment[c].reference # payment[e].reference

\* Finance confirms what it was looking at: at the moment a payment becomes
\* CONFIRMED, the amount, the reference, the outstanding balance and the warnings
\* are the ones on the page that was confirmed (payload.ts), and nothing that was
\* under way at that moment changes the payment afterwards.
ConfirmedAsReviewed ==
    [][\A c \in PaymentIds :
          /\ (payment[c].status # "CONFIRMED" /\ payment'[c].status = "CONFIRMED")
             => /\ reviewed[c] = [buildConfirmationPayload(c) EXCEPT !.blocking = {}]
                /\ payment'[c] = [payment[c] EXCEPT !.status = "CONFIRMED"]
          /\ payment[c].status = "CONFIRMED" => payment'[c] = payment[c]]_vars

=============================================================================
