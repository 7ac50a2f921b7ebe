---------------------------- MODULE Fulfillment ----------------------------
(***************************************************************************)
(* The warehouse and the road: picking tasks, the handover that consumes   *)
(* stock, collection, and deliveries                                       *)
(* (src/src/modules/fulfillment/index.ts, state.ts and consumption.ts).    *)
(*                                                                         *)
(* Every function locks the order row first, so each is one action, except *)
(* completeWarehouseTask: it checks for open counts before it locks the    *)
(* products, and reporting a count takes no lock, so the handover is       *)
(* BeginHandover followed by FinishHandover.                               *)
(***************************************************************************)
EXTENDS Records

-----------------------------------------------------------------------------
(* Warehouse tasks                                                         *)

CashSettled(o) == TypeOfOrder(o) = "CASH" => order[o].paymentStatus = "PAID"

assessEligibility(o) ==
    /\ order[o].status = "OPEN"
    /\ order[o].fulfillmentStatus = "READY"
    /\ CashSettled(o)
    /\ \E p \in Products : item[o][p] > 0

\* A task copies what is reserved of each line at this moment.
createWarehouseTask(o, t) ==
    /\ Unlocked(o)
    /\ task[t].status = "ABSENT"
    /\ LiveTasks(o) = {}
    /\ assessEligibility(o)
    /\ task' = [task EXCEPT ![t] = [status |-> "PENDING", order |-> o,
                                    required |-> item[o], prepared |-> {}]]
    /\ UNCHANGED <<stockTables, addressed, orderTables, handover, road, discrepancy,
                   creating, money>>

\* A mutated form: a completed task can be undone.
TASK_TRANSITIONS_Undo ==
    {<<"PENDING", "IN_PROGRESS">>, <<"IN_PROGRESS", "PREPARED">>, <<"PREPARED", "COMPLETED">>}
        \cup {"PENDING", "IN_PROGRESS", "PREPARED", "COMPLETED"} \X {"CANCELLED"}

TASK_TRANSITIONS ==
    {<<"PENDING", "IN_PROGRESS">>, <<"IN_PROGRESS", "PREPARED">>, <<"PREPARED", "COMPLETED">>}
        \cup {"PENDING", "IN_PROGRESS", "PREPARED"} \X {"CANCELLED"}

MoveTask(t, to) ==
    /\ Unlocked(task[t].order)
    /\ <<task[t].status, to>> \in TASK_TRANSITIONS
    /\ task' = [task EXCEPT ![t].status = to]
    /\ UNCHANGED <<stockTables, addressed, orderTables, handover, road, discrepancy,
                   creating, money>>

startWarehouseTask(t) == MoveTask(t, "IN_PROGRESS")

Picked(t) == {p \in Products : task[t].required[p] > 0} \subseteq task[t].prepared

markTaskPrepared(t) == Picked(t) /\ MoveTask(t, "PREPARED")

cancelWarehouseTask(t) == MoveTask(t, "CANCELLED")

markItemPrepared(t, p, prepared) ==
    /\ Unlocked(task[t].order)
    /\ task[t].status = "IN_PROGRESS"
    /\ task[t].required[p] > 0
    /\ task' = [task EXCEPT ![t].prepared = IF prepared THEN @ \cup {p} ELSE @ \ {p}]
    /\ UNCHANGED <<stockTables, addressed, orderTables, handover, road, discrepancy,
                   creating, money>>

-----------------------------------------------------------------------------
(* Completion of the order                                                 *)

\* A mutated form: any delivery that has not failed will do.
assessCompletion_AnyDelivery(o, taskStatus, deliveryStatus, pickedUp) ==
    /\ taskStatus = "COMPLETED"
    /\ CashSettled(o)
    /\ IF order[o].deliveryRequired THEN deliveryStatus # "FAILED" ELSE pickedUp

assessCompletion(o, taskStatus, deliveryStatus, pickedUp) ==
    /\ taskStatus = "COMPLETED"
    /\ CashSettled(o)
    /\ IF order[o].deliveryRequired THEN deliveryStatus = "DELIVERED" ELSE pickedUp

\* maybeCompleteOrder, on the rows the transaction has just written: the task's
\* status, the live delivery's and the collection.
AfterCompletion(o, taskStatus, deliveryStatus, pickedUp) ==
    [order EXCEPT
        ![o].pickedUp = pickedUp,
        ![o].status = IF @ = "OPEN" /\ assessCompletion(o, taskStatus, deliveryStatus, pickedUp)
                      THEN "COMPLETED" ELSE @]

TaskStatusOf(o) ==
    IF LiveTasks(o) = {} THEN "ABSENT" ELSE task[CHOOSE t \in LiveTasks(o) : TRUE].status

recordPickup(o) ==
    /\ Unlocked(o)
    /\ order[o].status # "ABSENT"
    /\ ~order[o].pickedUp
    /\ ~order[o].deliveryRequired
    /\ TaskStatusOf(o) = "COMPLETED"
    /\ order' = AfterCompletion(o, "COMPLETED", "ABSENT", TRUE)
    /\ UNCHANGED <<stockTables, addressed, item, reservation, yard, road, discrepancy,
                   creating, money>>

-----------------------------------------------------------------------------
(* The handover                                                            *)

BeginHandover(t) ==
    LET o == task[t].order
    IN  /\ task[t].status = "PREPARED"
        /\ Unlocked(o)
        /\ order[o].status = "OPEN"
        /\ OpenCounts(t) = {}
        /\ handover' = handover \cup {t}
        /\ UNCHANGED <<stockTables, addressed, orderTables, task, road, discrepancy,
                       creating, money>>

\* A mutated form: only the shelf is looked at.
planConsumption_ShelfOnly(t) ==
    \A p \in Products : task[t].required[p] > 0 => stock[p].available >= task[t].required[p]

\* planConsumption, under the product locks: for every product of the task the
\* order's ACTIVE reservation, the shelf and the organisation's total agree.
planConsumption(t) ==
    \A p \in Products : task[t].required[p] > 0 =>
        /\ Held(task[t].order, p) = task[t].required[p]
        /\ stock[p].available >= task[t].required[p]
        /\ stock[p].reserved = Promised(p)

\* A mutated form: the rows stay ACTIVE.
ConsumeAll_Kept(rows) == rows

\* Every ACTIVE reservation of the order, whether or not the task lists it.
ConsumeAll(rows) ==
    [p \in Products |->
        IF rows[p].status = "ACTIVE" THEN [rows[p] EXCEPT !.status = "CONSUMED"] ELSE rows[p]]

HasDestination(o) == order[o].destination \/ addressed

\* A mutated form: the ids are swapped.
RaiseDelivery_Swapped(o, t) ==
    \E d \in DeliveryIds :
        /\ delivery[d].status = "ABSENT"
        /\ delivery' = [delivery EXCEPT ![d] =
                [NoDelivery EXCEPT !.status = "PENDING", !.order = t, !.task = o]]

\* With no destination the function returns a failure after these writes; the
\* transaction commits all the same, without a delivery.
RaiseDelivery(o, t) ==
    IF order[o].deliveryRequired /\ HasDestination(o)
    THEN \E d \in DeliveryIds :
            /\ delivery[d].status = "ABSENT"
            /\ delivery' = [delivery EXCEPT ![d] =
                    [NoDelivery EXCEPT !.status = "PENDING", !.order = o, !.task = t]]
    ELSE UNCHANGED delivery

FinishHandover(t) ==
    LET o == task[t].order
        out == task[t].required
    IN  /\ t \in handover
        /\ planConsumption(t)
        /\ WriteStock([p \in Products |->
                [available |-> stock[p].available - out[p],
                 reserved  |-> stock[p].reserved - out[p]]])
        /\ movements' = [p \in Products |-> [movements[p] EXCEPT !.consumed = @ + out[p]]]
        /\ reservation' = [reservation EXCEPT ![o] = ConsumeAll(@)]
        /\ task' = [task EXCEPT ![t].status = "COMPLETED"]
        /\ RaiseDelivery(o, t)
        /\ order' = AfterCompletion(o, "COMPLETED", "PENDING", order[o].pickedUp)
        /\ handover' = handover \ {t}
        /\ UNCHANGED <<addressed, item, goodsReturn, discrepancy, creating, money>>

\* A mismatch is refused after an audit record; a lost connection rolls back.
GiveUpHandover(t) ==
    /\ t \in handover
    /\ handover' = handover \ {t}
    /\ UNCHANGED <<stockTables, addressed, orderTables, task, road, discrepancy,
                   creating, money>>

-----------------------------------------------------------------------------
(* Deliveries                                                              *)

MoveDelivery(d, from, to) ==
    /\ Unlocked(delivery[d].order)
    /\ delivery[d].status \in from
    /\ delivery' = [delivery EXCEPT ![d].status = to]
    /\ UNCHANGED <<stockTables, addressed, item, reservation, yard, goodsReturn,
                   discrepancy, creating, money>>

assignDelivery(d) == MoveDelivery(d, {"PENDING", "ASSIGNED"}, "ASSIGNED") /\ UNCHANGED order

dispatchDelivery(d) ==
    /\ MoveDelivery(d, {"PENDING", "ASSIGNED"}, "DISPATCHED")
    /\ task[delivery[d].task].status = "COMPLETED"
    /\ order[delivery[d].order].status # "CANCELLED"
    /\ UNCHANGED order

completeDelivery(d) ==
    LET o == delivery[d].order
    IN  /\ MoveDelivery(d, {"DISPATCHED"}, "DELIVERED")
        /\ order' = AfterCompletion(o, TaskStatusOf(o), "DELIVERED", order[o].pickedUp)

failDelivery(d) == MoveDelivery(d, {"DISPATCHED"}, "FAILED") /\ UNCHANGED order

FulfillmentStep ==
    \/ \E o \in OrderIds, t \in TaskIds : createWarehouseTask(o, t)
    \/ \E t \in TaskIds :
        \/ startWarehouseTask(t)
        \/ \E p \in Products, b \in BOOLEAN : markItemPrepared(t, p, b)
        \/ markTaskPrepared(t)
        \/ cancelWarehouseTask(t)
        \/ BeginHandover(t)
        \/ FinishHandover(t)
        \/ GiveUpHandover(t)
    \/ \E o \in OrderIds : recordPickup(o)
    \/ \E d \in DeliveryIds :
        \/ assignDelivery(d)
        \/ dispatchDelivery(d)
        \/ completeDelivery(d)
        \/ failDelivery(d)
=============================================================================
