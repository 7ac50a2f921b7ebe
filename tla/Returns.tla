------------------------------ MODULE Returns ------------------------------
(***************************************************************************)
(* What happens to goods after a delivery failed: another attempt, a       *)
(* write-off, or a return that is received, inspected and restocked        *)
(* (src/src/modules/inventory/index.ts and returns-model.ts).  Every       *)
(* function locks the order row first and is one action.                   *)
(***************************************************************************)
EXTENDS Records

\* A mutated form: a completed return no longer counts.
LiveReturns_Unfinished(d) ==
    {r \in ReturnsOf(d) : goodsReturn[r].status \notin {"CANCELLED", "COMPLETED"}}

LiveReturns(d) == {r \in ReturnsOf(d) : goodsReturn[r].status # "CANCELLED"}

GoodsRestocked(d) == \E r \in ReturnsOf(d) : goodsReturn[r].status = "COMPLETED"

assessRetryEligibility(d) ==
    /\ delivery[d].status = "FAILED"
    /\ order[delivery[d].order].status = "OPEN"
    /\ ~GoodsRestocked(d)
    /\ RetriesOf(d) = {}
    /\ delivery[d].resolution \in {"NULL", "RETRY_DELIVERY"}

\* The exception is only cleared when it is DELIVERY_FAILED, a value nothing sets.
createDeliveryRetry(d, new) ==
    LET o == delivery[d].order
    IN  /\ Unlocked(o)
        /\ delivery[new].status = "ABSENT"
        /\ assessRetryEligibility(d)
        /\ LiveDeliveries(o) = {}        \* the unique index
        /\ delivery' = [delivery EXCEPT
                ![d].resolution = "RETRY_DELIVERY",
                ![new] = [status |-> "PENDING", order |-> o, task |-> delivery[d].task,
                          resolution |-> "NULL", retryOf |-> d]]
        /\ UNCHANGED <<stockTables, addressed, orderTables, yard, goodsReturn,
                       discrepancy, creating, money>>

resolveDeliveryLoss(d) ==
    LET o == delivery[d].order
    IN  /\ Unlocked(o)
        /\ delivery[d].status = "FAILED"
        /\ delivery[d].resolution = "NULL"
        /\ delivery' = [delivery EXCEPT ![d].resolution = "LOST_OR_UNRECOVERABLE"]
        /\ order' = [order EXCEPT ![o].exception = "DELIVERY_LOST"]
        /\ UNCHANGED <<stockTables, addressed, item, reservation, yard, goodsReturn,
                       discrepancy, creating, money>>

\* The expected quantities are the task's: a return cannot claim more than
\* went out.  Until it is inspected everything is missing.
createReturn(d, r) ==
    LET o == delivery[d].order
    IN  /\ Unlocked(o)
        /\ delivery[d].status = "FAILED"
        /\ LiveReturns(d) = {}
        /\ delivery[d].resolution \in {"NULL", "RETURNED_TO_WAREHOUSE"}
        /\ goodsReturn[r].status = "ABSENT"
        /\ goodsReturn' = [goodsReturn EXCEPT ![r] =
                [status |-> "EXPECTED", delivery |-> d,
                 dispatched |-> task[delivery[d].task].required,
                 restockable |-> Nothing, damaged |-> Nothing]]
        /\ delivery' = [delivery EXCEPT ![d].resolution = "RETURNED_TO_WAREHOUSE"]
        /\ order' = [order EXCEPT ![o].exception = "GOODS_RETURNED"]
        /\ UNCHANGED <<stockTables, addressed, item, reservation, yard, discrepancy,
                       creating, money>>

-----------------------------------------------------------------------------

RETURN_TRANSITIONS ==
    {<<"EXPECTED", "RECEIVED">>, <<"RECEIVED", "INSPECTED">>, <<"INSPECTED", "COMPLETED">>}
        \cup {"EXPECTED", "RECEIVED", "INSPECTED"} \X {"CANCELLED"}

CanMove(r, to) == <<goodsReturn[r].status, to>> \in RETURN_TRANSITIONS

ReturnUnlocked(r) == Unlocked(delivery[goodsReturn[r].delivery].order)

WriteReturn(r, row) ==
    /\ goodsReturn' = [goodsReturn EXCEPT ![r] = row]
    /\ UNCHANGED <<stockTables, addressed, orderTables, yard, discrepancy, creating, money>>

receiveReturn(r) ==
    /\ CanMove(r, "RECEIVED")
    /\ ReturnUnlocked(r)
    /\ WriteReturn(r, [goodsReturn[r] EXCEPT !.status = "RECEIVED"])
    /\ UNCHANGED delivery

\* assessInspection: every unit received is sellable or damaged, and no more
\* comes back than went out.
assessInspection(r, split) ==
    \A p \in DOMAIN split :
        split[p].restockable + split[p].damaged <= goodsReturn[r].dispatched[p]

SaveLines(r, split) ==
    [goodsReturn[r] EXCEPT
        !.restockable = [p \in Products |-> IF p \in DOMAIN split THEN split[p].restockable ELSE @[p]],
        !.damaged     = [p \in Products |-> IF p \in DOMAIN split THEN split[p].damaged ELSE @[p]]]

OnReturn(r) == {p \in Products : goodsReturn[r].dispatched[p] > 0}

\* The lines are saved one by one: when a later one is refused the function
\* returns a failure, and the lines before it are committed (all = FALSE).
inspectReturn(r, split, all) ==
    /\ goodsReturn[r].status \in {"RECEIVED", "INSPECTED"}
    /\ ReturnUnlocked(r)
    /\ assessInspection(r, split)
    /\ WriteReturn(r, [SaveLines(r, split) EXCEPT !.status = IF all THEN "INSPECTED" ELSE @])
    /\ UNCHANGED delivery

completeReturn(r) ==
    LET back == goodsReturn[r].restockable
    IN  /\ CanMove(r, "COMPLETED")
        /\ ReturnUnlocked(r)
        /\ WriteStock([p \in Products |-> [stock[p] EXCEPT !.available = @ + back[p]]])
        /\ movements' = [p \in Products |-> [movements[p] EXCEPT !.restocked = @ + back[p]]]
        /\ goodsReturn' = [goodsReturn EXCEPT ![r].status = "COMPLETED"]
        /\ UNCHANGED <<addressed, orderTables, yard, delivery, discrepancy, creating, money>>

\* The delivery is undecided again; the order keeps its exception.
cancelReturn(r) ==
    /\ CanMove(r, "CANCELLED")
    /\ ReturnUnlocked(r)
    /\ delivery' = [delivery EXCEPT ![goodsReturn[r].delivery].resolution = "NULL"]
    /\ WriteReturn(r, [goodsReturn[r] EXCEPT !.status = "CANCELLED"])

\* What an inspector can enter for some of the lines.
Splits(r) ==
    UNION {[lines -> UNION {[restockable : 0..goodsReturn[r].dispatched[p],
                             damaged : 0..goodsReturn[r].dispatched[p]] : p \in lines}]
              : lines \in (SUBSET OnReturn(r)) \ {{}}}

ReturnStep ==
    \/ \E d, e \in DeliveryIds : createDeliveryRetry(d, e)
    \/ \E d \in DeliveryIds : resolveDeliveryLoss(d)
    \/ \E d \in DeliveryIds, r \in ReturnIds : createReturn(d, r)
    \/ \E r \in ReturnIds :
        \/ receiveReturn(r)
        \/ \E split \in Splits(r), all \in BOOLEAN : inspectReturn(r, split, all)
        \/ completeReturn(r)
        \/ cancelReturn(r)
=============================================================================
