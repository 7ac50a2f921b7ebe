----------------------------- MODULE Road_proofs -----------------------------
(***************************************************************************)
(* Goods on the road: one load is in one place, returns bring back no more *)
(* than went out, the ledger explains the shelf, and a completed order was *)
(* served, for any number of orders, tasks, deliveries and returns.        *)
(***************************************************************************)
EXTENDS Payments_proofs, Dashboard

USE DEF stockTables, orderTables, yard, road, money

-----------------------------------------------------------------------------
(* The road invariant                                                      *)

LiveReturn(r) == goodsReturn[r].status \notin {"ABSENT", "CANCELLED"}

\* A delivery carries the goods of a completed task; only a failed one is decided
\* about, and one that was tried again has a retry.
FollowsItsTask(d) ==
    /\ delivery[d].status = "ABSENT" => delivery[d] = NoDelivery
    /\ delivery[d].status # "ABSENT" => task[delivery[d].task].status = "COMPLETED"
    /\ delivery[d].status # "FAILED" => delivery[d].resolution = "NULL"
    /\ delivery[d].resolution = "RETRY_DELIVERY" => RetriesOf(d) # {}

DeliveriesFollowTheirTask == \A d \in DeliveryIds : FollowsItsTask(d)

\* Of the attempts to deliver a task's goods one has them.
OneHolder ==
    \A d, e \in DeliveryIds :
        (/\ delivery[d].task = delivery[e].task /\ delivery[d].task # None
         /\ Carrying(d) /\ Carrying(e))
        => d = e

\* A return that was not cancelled is about a failed delivery that is to be returned,
\* claims what its task took out, and was inspected to no more than that.
ReturnFollowsItsDelivery(r) ==
    LET row == goodsReturn[r]
    IN  /\ row.delivery \in DeliveryIds
        /\ delivery[row.delivery].status = "FAILED"
        /\ delivery[row.delivery].resolution = "RETURNED_TO_WAREHOUSE"
        /\ row.dispatched = task[delivery[row.delivery].task].required
        /\ \A p \in Products : row.restockable[p] + row.damaged[p] <= row.dispatched[p]

ReturnsFollowTheirDelivery ==
    \A r \in ReturnIds :
        /\ goodsReturn[r].status = "ABSENT" => goodsReturn[r].delivery = None
        /\ LiveReturn(r) => ReturnFollowsItsDelivery(r)

\* A delivery has one return that was not cancelled.
OneReturn ==
    \A r, s \in ReturnIds :
        LiveReturn(r) /\ LiveReturn(s) /\ goodsReturn[r].delivery = goodsReturn[s].delivery => r = s

RoadInvariant ==
    /\ DeliveriesFollowTheirTask
    /\ OneHolder
    /\ ReturnsFollowTheirDelivery
    /\ OneReturn

\* With nothing on the road.
LEMMA RoadInit == Init => RoadInvariant
BY DEF Init, RoadInvariant, DeliveriesFollowTheirTask, FollowsItsTask, OneHolder,
       ReturnsFollowTheirDelivery, OneReturn, LiveReturn, NoDelivery, NoReturn

-----------------------------------------------------------------------------
(* What one step does to a row                                             *)

\* A completed task stays as it is.
CompletedTasksStay ==
    \A t \in TaskIds : task[t].status = "COMPLETED" =>
        /\ task'[t].status = "COMPLETED"
        /\ task'[t].order = task[t].order
        /\ task'[t].required = task[t].required

LEMMA TasksStayCompleted == TypeInvariant /\ [Next]_vars => CompletedTasksStay
<1> SUFFICES ASSUME TypeInvariant, [Next]_vars, NEW t \in TaskIds, task[t].status = "COMPLETED"
             PROVE  /\ task'[t].status = "COMPLETED"
                    /\ task'[t].order = task[t].order
                    /\ task'[t].required = task[t].required
  BY DEF CompletedTasksStay
<1>1. ~\E o \in OrderIds : createWarehouseTask(o, t)
  BY DEF createWarehouseTask
<1>2. ~\E to : MoveTask(t, to)
  BY DEF MoveTask, TASK_TRANSITIONS
<1>3. ~FinishHandover(t)
  BY DEF FinishHandover, TypeInvariant, WorkInFlight
<1>4. QED
  BY <1>1, <1>2, <1>3, TaskLife

\* The task of a delivery that exists.
LEMMA DeliveryTask ==
    ASSUME TypeInvariant, RoadInvariant, NEW d \in DeliveryIds, delivery[d].status # "ABSENT"
    PROVE  delivery[d].task \in TaskIds /\ task[delivery[d].task].status = "COMPLETED"
BY DEF TypeInvariant, ForeignKeys, RoadInvariant, DeliveriesFollowTheirTask, FollowsItsTask

\* A delivery the step does not write, when no retry becomes one of something else.
LEMMA OtherDelivery ==
    ASSUME TypeInvariant, RoadInvariant, CompletedTasksStay, NEW d \in DeliveryIds,
           delivery'[d] = delivery[d],
           \A e \in DeliveryIds : delivery[e].status # "ABSENT" =>
               delivery'[e].retryOf = delivery[e].retryOf
    PROVE  FollowsItsTask(d)'
<1>1. FollowsItsTask(d)
  BY DEF RoadInvariant, DeliveriesFollowTheirTask
<1>2. \A e \in DeliveryIds : delivery[e].retryOf = d => delivery'[e].retryOf = d
  <2>1. \A e \in DeliveryIds : delivery[e].retryOf = d => delivery[e].status # "ABSENT"
    BY NoneIsNoRow DEF RoadInvariant, DeliveriesFollowTheirTask, FollowsItsTask, NoDelivery
  <2>2. QED
    BY <2>1
<1>3. delivery[d].status # "ABSENT" => task'[delivery[d].task].status = "COMPLETED"
  BY DeliveryTask DEF CompletedTasksStay
<1>4. QED
  BY <1>1, <1>2, <1>3 DEF FollowsItsTask, RetriesOf

\* When no delivery comes to carry goods, one load is still in one place.
LEMMA NoNewHolder ==
    ASSUME RoadInvariant,
           \A d \in DeliveryIds : Carrying(d)' /\ delivery'[d].task # None =>
               Carrying(d) /\ delivery'[d].task = delivery[d].task
    PROVE  OneHolder'
BY DEF RoadInvariant, OneHolder

\* A return follows its delivery as long as the decision about that stands.
LEMMA ReturnStillFollows ==
    ASSUME TypeInvariant, RoadInvariant, CompletedTasksStay, NEW r \in ReturnIds, LiveReturn(r),
           goodsReturn'[r].delivery = goodsReturn[r].delivery,
           goodsReturn'[r].dispatched = goodsReturn[r].dispatched,
           \A p \in Products : goodsReturn'[r].restockable[p] + goodsReturn'[r].damaged[p]
                                   <= goodsReturn[r].dispatched[p],
           delivery'[goodsReturn[r].delivery] = delivery[goodsReturn[r].delivery]
    PROVE  ReturnFollowsItsDelivery(r)'
<1>1. ReturnFollowsItsDelivery(r)
  BY DEF RoadInvariant, ReturnsFollowTheirDelivery
<1>2. task'[delivery[goodsReturn[r].delivery].task].required
          = task[delivery[goodsReturn[r].delivery].task].required
  BY <1>1, DeliveryTask DEF ReturnFollowsItsDelivery, CompletedTasksStay
<1>3. QED
  BY <1>1, <1>2 DEF ReturnFollowsItsDelivery

\* A step that writes no return and none of the deliveries that are to be returned.
LEMMA ReturnsUnwritten ==
    ASSUME TypeInvariant, RoadInvariant, CompletedTasksStay, UNCHANGED goodsReturn,
           \A d \in DeliveryIds :
               \/ delivery'[d] = delivery[d]
               \/ delivery[d].status # "FAILED"
               \/ delivery[d].resolution # "RETURNED_TO_WAREHOUSE"
    PROVE  ReturnsFollowTheirDelivery' /\ OneReturn'
<1>1. OneReturn'
  BY DEF RoadInvariant, OneReturn, LiveReturn
<1>2. ASSUME NEW r \in ReturnIds, LiveReturn(r)
      PROVE  ReturnFollowsItsDelivery(r)'
  <2>1. ReturnFollowsItsDelivery(r)
    BY <1>2 DEF RoadInvariant, ReturnsFollowTheirDelivery
  <2>2. delivery'[goodsReturn[r].delivery] = delivery[goodsReturn[r].delivery]
    BY <2>1 DEF ReturnFollowsItsDelivery
  <2>3. QED
    BY <1>2, <2>1, <2>2, ReturnStillFollows DEF ReturnFollowsItsDelivery
<1>3. ReturnsFollowTheirDelivery'
  BY <1>2 DEF RoadInvariant, ReturnsFollowTheirDelivery, LiveReturn
<1>4. QED
  BY <1>1, <1>3

\* A step that writes neither deliveries nor returns.
LEMMA RoadUnwritten ==
    ASSUME TypeInvariant, RoadInvariant, CompletedTasksStay, UNCHANGED <<delivery, goodsReturn>>
    PROVE  RoadInvariant'
<1>1. DeliveriesFollowTheirTask'
  BY OtherDelivery DEF DeliveriesFollowTheirTask
<1>2. OneHolder'
  BY NoNewHolder DEF Carrying
<1>3. QED
  BY <1>1, <1>2, ReturnsUnwritten DEF RoadInvariant

-----------------------------------------------------------------------------
(* Deliveries                                                              *)

\* The handover raises the delivery of a task that had none: a delivery's task is
\* completed, and this one was not.
LEMMA HandoverKeepsRoad ==
    ASSUME TypeInvariant, RoadInvariant, CompletedTasksStay, NEW t \in TaskIds, FinishHandover(t)
    PROVE  RoadInvariant'
<1>1. CASE UNCHANGED delivery
  BY <1>1, RoadUnwritten DEF FinishHandover
<1>2. ASSUME NEW d \in DeliveryIds, delivery[d].status = "ABSENT",
             delivery' = [delivery EXCEPT ![d] =
                 [NoDelivery EXCEPT !.status = "PENDING", !.order = task[t].order, !.task = t]]
      PROVE  RoadInvariant'
  <2>1. /\ delivery'[d].status = "PENDING" /\ delivery'[d].task = t
        /\ delivery'[d].resolution = "NULL"
        /\ \A x \in DeliveryIds \ {d} : delivery'[x] = delivery[x]
    BY <1>2 DEF TypeInvariant, TypeOK, NoDelivery
  <2>2. task[t].status = "PREPARED" /\ UNCHANGED goodsReturn
    BY DEF FinishHandover, TypeInvariant, WorkInFlight
  <2>3. task'[t].status = "COMPLETED"
    <3>1. task[t] \in TaskRow /\ DOMAIN task = TaskIds
      BY DEF TypeInvariant, TypeOK
    <3>2. QED
      BY <3>1 DEF FinishHandover, TaskRow
  <2>4. DeliveriesFollowTheirTask'
    <3>1. FollowsItsTask(d)'
      BY <2>1, <2>3 DEF FollowsItsTask
    <3>2. QED
      BY <1>2, <2>1, <3>1, OtherDelivery DEF DeliveriesFollowTheirTask
  <2>5. OneHolder'
    <3>1. \A x \in DeliveryIds \ {d} : delivery[x].task # t
      BY <2>2, DeliveryTask, NoneIsNoRow
         DEF RoadInvariant, DeliveriesFollowTheirTask, FollowsItsTask, NoDelivery
    <3>2. QED
      BY <2>1, <3>1 DEF RoadInvariant, OneHolder, Carrying
  <2>6. ReturnsFollowTheirDelivery' /\ OneReturn'
    BY <1>2, <2>1, <2>2, ReturnsUnwritten
  <2>7. QED
    BY <2>4, <2>5, <2>6 DEF RoadInvariant
<1>3. QED
  BY <1>1, <1>2 DEF FinishHandover, RaiseDelivery

\* A delivery that moves on the road has not failed: nothing was decided about it.
LEMMA MoveDeliveryKeepsRoad ==
    ASSUME TypeInvariant, RoadInvariant, CompletedTasksStay, NEW d \in DeliveryIds,
           NEW from \in SUBSET {"PENDING", "ASSIGNED", "DISPATCHED"},
           NEW to \in {"ASSIGNED", "DISPATCHED", "DELIVERED", "FAILED"}, MoveDelivery(d, from, to)
    PROVE  RoadInvariant'
<1>1. /\ delivery[d].status \in {"PENDING", "ASSIGNED", "DISPATCHED"}
      /\ delivery' = [delivery EXCEPT ![d].status = to]
      /\ UNCHANGED goodsReturn
  BY DEF MoveDelivery
<1>2. delivery[d] \in DeliveryRow /\ DOMAIN delivery = DeliveryIds
  BY DEF TypeInvariant, TypeOK
<1>3. /\ delivery'[d].status = to
      /\ delivery'[d].task = delivery[d].task
      /\ delivery'[d].resolution = delivery[d].resolution
      /\ delivery'[d].retryOf = delivery[d].retryOf
      /\ \A x \in DeliveryIds \ {d} : delivery'[x] = delivery[x]
  BY <1>1, <1>2 DEF DeliveryRow
<1>4. DeliveriesFollowTheirTask'
  <2>1. task'[delivery[d].task].status = "COMPLETED" /\ delivery[d].resolution = "NULL"
    BY <1>1, DeliveryTask
       DEF CompletedTasksStay, RoadInvariant, DeliveriesFollowTheirTask, FollowsItsTask
  <2>2. FollowsItsTask(d)'
    BY <1>3, <2>1 DEF FollowsItsTask
  <2>3. QED
    BY <1>3, <2>2, OtherDelivery DEF DeliveriesFollowTheirTask
<1>5. OneHolder'
  BY <1>3, NoNewHolder DEF Carrying
<1>6. QED
  BY <1>1, <1>3, <1>4, <1>5, ReturnsUnwritten DEF RoadInvariant

-----------------------------------------------------------------------------
(* After a failed delivery                                                 *)

\* A retry takes the goods over: the attempt before it gives them up, and it had
\* not been followed by another.
LEMMA CreateRetryKeepsRoad ==
    ASSUME TypeInvariant, RoadInvariant, CompletedTasksStay,
           NEW d \in DeliveryIds, NEW e \in DeliveryIds, createDeliveryRetry(d, e)
    PROVE  RoadInvariant'
<1> DEFINE new == [status |-> "PENDING", order |-> delivery[d].order, task |-> delivery[d].task,
                   resolution |-> "NULL", retryOf |-> d]
<1>1. /\ delivery[d].status = "FAILED" /\ delivery[e].status = "ABSENT"
      /\ delivery[d].resolution \in {"NULL", "RETRY_DELIVERY"}
      /\ RetriesOf(d) = {}
      /\ delivery' = [delivery EXCEPT ![d].resolution = "RETRY_DELIVERY", ![e] = new]
      /\ UNCHANGED goodsReturn
  BY DEF createDeliveryRetry, assessRetryEligibility
<1>2. delivery[d] \in DeliveryRow /\ DOMAIN delivery = DeliveryIds /\ d # e
  BY <1>1 DEF TypeInvariant, TypeOK
<1>3. /\ delivery'[d].status = "FAILED" /\ delivery'[d].task = delivery[d].task
      /\ delivery'[d].resolution = "RETRY_DELIVERY" /\ delivery'[d].retryOf = delivery[d].retryOf
      /\ delivery'[e] = new
      /\ \A x \in DeliveryIds \ {d, e} : delivery'[x] = delivery[x]
  <2> HIDE DEF new
  <2>1. QED
    BY <1>1, <1>2 DEF DeliveryRow
<1>4. /\ delivery'[e].status = "PENDING" /\ delivery'[e].task = delivery[d].task
      /\ delivery'[e].resolution = "NULL" /\ delivery'[e].retryOf = d
  BY <1>3
<1> HIDE DEF new
<1>5. DeliveriesFollowTheirTask'
  <2>1. task'[delivery[d].task].status = "COMPLETED"
    BY <1>1, DeliveryTask DEF CompletedTasksStay
  <2>2. RetriesOf(d)' # {}
    BY <1>4 DEF RetriesOf
  <2>3. FollowsItsTask(d)' /\ FollowsItsTask(e)'
    BY <1>3, <1>4, <2>1, <2>2 DEF FollowsItsTask
  <2>4. \A x \in DeliveryIds : delivery[x].status # "ABSENT" =>
            delivery'[x].retryOf = delivery[x].retryOf
    BY <1>1, <1>3
  <2>5. QED
    BY <1>3, <2>3, <2>4, OtherDelivery DEF DeliveriesFollowTheirTask
<1>6. OneHolder'
  <2>1. delivery[d].resolution = "NULL"
    BY <1>1 DEF RoadInvariant, DeliveriesFollowTheirTask, FollowsItsTask
  <2>2. ASSUME NEW x \in DeliveryIds \ {d, e}, delivery[x].task = delivery[d].task, Carrying(x)
        PROVE  FALSE
    <3>1. Carrying(d) /\ delivery[d].task # None
      BY <1>1, <2>1, DeliveryTask, NoneIsNoRow DEF Carrying
    <3>2. QED
      BY <2>2, <3>1 DEF RoadInvariant, OneHolder
  <2>3. QED
    BY <1>3, <1>4, <2>2 DEF RoadInvariant, OneHolder, Carrying
<1>7. ReturnsFollowTheirDelivery' /\ OneReturn'
  BY <1>1, <1>3, ReturnsUnwritten
<1>8. QED
  BY <1>5, <1>6, <1>7 DEF RoadInvariant

\* What the decision about a failed delivery does to its row.
LEMMA DecisionOnDelivery ==
    ASSUME TypeInvariant, RoadInvariant, CompletedTasksStay, NEW d \in DeliveryIds,
           delivery[d].status = "FAILED", delivery[d].resolution # "RETRY_DELIVERY",
           NEW resolution \in {"NULL", "RETURNED_TO_WAREHOUSE", "LOST_OR_UNRECOVERABLE"},
           delivery' = [delivery EXCEPT ![d].resolution = resolution]
    PROVE  /\ DeliveriesFollowTheirTask' /\ OneHolder'
           /\ delivery'[d].status = "FAILED" /\ delivery'[d].task = delivery[d].task
           /\ delivery'[d].resolution = resolution
           /\ \A x \in DeliveryIds \ {d} : delivery'[x] = delivery[x]
<1>1. delivery[d] \in DeliveryRow /\ DOMAIN delivery = DeliveryIds
  BY DEF TypeInvariant, TypeOK
<1>2. /\ delivery'[d].status = "FAILED" /\ delivery'[d].task = delivery[d].task
      /\ delivery'[d].resolution = resolution /\ delivery'[d].retryOf = delivery[d].retryOf
      /\ \A x \in DeliveryIds \ {d} : delivery'[x] = delivery[x]
  BY <1>1 DEF DeliveryRow
<1>3. FollowsItsTask(d)'
  BY <1>2, DeliveryTask DEF FollowsItsTask, CompletedTasksStay
<1>4. DeliveriesFollowTheirTask'
  BY <1>2, <1>3, OtherDelivery DEF DeliveriesFollowTheirTask
<1>5. OneHolder'
  BY <1>2, NoNewHolder DEF Carrying
<1>6. QED
  BY <1>2, <1>4, <1>5

\* Goods are written off when nothing else was decided.
LEMMA LossKeepsRoad ==
    ASSUME TypeInvariant, RoadInvariant, CompletedTasksStay,
           NEW d \in DeliveryIds, resolveDeliveryLoss(d)
    PROVE  RoadInvariant'
<1>1. /\ delivery[d].status = "FAILED" /\ delivery[d].resolution = "NULL"
      /\ delivery' = [delivery EXCEPT ![d].resolution = "LOST_OR_UNRECOVERABLE"]
      /\ UNCHANGED goodsReturn
  BY DEF resolveDeliveryLoss
<1>2. /\ DeliveriesFollowTheirTask' /\ OneHolder'
      /\ \A x \in DeliveryIds \ {d} : delivery'[x] = delivery[x]
  BY <1>1, DecisionOnDelivery
<1>3. QED
  BY <1>1, <1>2, ReturnsUnwritten DEF RoadInvariant

\* A return claims what the task took out, and there is no other for the delivery.
LEMMA CreateReturnKeepsRoad ==
    ASSUME TypeInvariant, RoadInvariant, CompletedTasksStay,
           NEW d \in DeliveryIds, NEW r \in ReturnIds, createReturn(d, r)
    PROVE  RoadInvariant'
<1> DEFINE new == [status |-> "EXPECTED", delivery |-> d,
                   dispatched |-> task[delivery[d].task].required,
                   restockable |-> Nothing, damaged |-> Nothing]
<1>1. /\ delivery[d].status = "FAILED"
      /\ delivery[d].resolution \in {"NULL", "RETURNED_TO_WAREHOUSE"}
      /\ LiveReturns(d) = {}
      /\ goodsReturn[r].status = "ABSENT"
      /\ goodsReturn' = [goodsReturn EXCEPT ![r] = new]
      /\ delivery' = [delivery EXCEPT ![d].resolution = "RETURNED_TO_WAREHOUSE"]
  BY DEF createReturn
<1>2. /\ DeliveriesFollowTheirTask' /\ OneHolder'
      /\ delivery'[d].status = "FAILED" /\ delivery'[d].task = delivery[d].task
      /\ delivery'[d].resolution = "RETURNED_TO_WAREHOUSE"
      /\ \A x \in DeliveryIds \ {d} : delivery'[x] = delivery[x]
  BY <1>1, DecisionOnDelivery
<1>3. DOMAIN goodsReturn = ReturnIds
  BY DEF TypeInvariant, TypeOK
<1>4. goodsReturn'[r] = new /\ \A s \in ReturnIds \ {r} : goodsReturn'[s] = goodsReturn[s]
  BY <1>1, <1>3
<1>5. \A s \in ReturnIds : LiveReturn(s) => goodsReturn[s].delivery # d
  BY <1>1 DEF LiveReturns, ReturnsOf, LiveReturn
<1>6. ReturnFollowsItsDelivery(r)'
  <2>1. /\ delivery[d].task \in TaskIds
        /\ task'[delivery[d].task].required = task[delivery[d].task].required
        /\ task[delivery[d].task].required \in Quantities
    <3>1. delivery[d].task \in TaskIds
      BY <1>1, DeliveryTask
    <3>2. task[delivery[d].task] \in TaskRow
      BY <3>1 DEF TypeInvariant, TypeOK
    <3>3. QED
      BY <1>1, <3>1, <3>2, DeliveryTask DEF CompletedTasksStay, TaskRow
  <2>2. \A p \in Products : 0 + 0 <= task[delivery[d].task].required[p]
    BY <2>1 DEF Quantities
  <2>3. QED
    BY <1>2, <1>4, <2>1, <2>2 DEF ReturnFollowsItsDelivery, Nothing
<1>7. ASSUME NEW s \in ReturnIds \ {r}, LiveReturn(s)
      PROVE  ReturnFollowsItsDelivery(s)'
  <2>1. ReturnFollowsItsDelivery(s)
    BY <1>7 DEF RoadInvariant, ReturnsFollowTheirDelivery
  <2>2. delivery'[goodsReturn[s].delivery] = delivery[goodsReturn[s].delivery]
    BY <1>2, <1>5, <1>7, <2>1 DEF ReturnFollowsItsDelivery
  <2>3. QED
    BY <1>4, <1>7, <2>1, <2>2, ReturnStillFollows DEF ReturnFollowsItsDelivery
<1>8. new.status = "EXPECTED" /\ new.delivery = d
  OBVIOUS
<1> HIDE DEF new
<1>9. ReturnsFollowTheirDelivery'
  BY <1>4, <1>6, <1>7, <1>8 DEF RoadInvariant, ReturnsFollowTheirDelivery, LiveReturn
<1>10. OneReturn'
  BY <1>4, <1>5, <1>8 DEF RoadInvariant, OneReturn, LiveReturn
<1>11. QED
  BY <1>2, <1>9, <1>10 DEF RoadInvariant

\* A return that moves on, is inspected or completed stays about its delivery.
LEMMA ReturnMovesOn ==
    ASSUME TypeInvariant, RoadInvariant, CompletedTasksStay, NEW r \in ReturnIds, LiveReturn(r),
           UNCHANGED delivery, \A s \in ReturnIds \ {r} : goodsReturn'[s] = goodsReturn[s],
           goodsReturn'[r].status # "ABSENT",
           goodsReturn'[r].delivery = goodsReturn[r].delivery,
           goodsReturn'[r].dispatched = goodsReturn[r].dispatched,
           \A p \in Products : goodsReturn'[r].restockable[p] + goodsReturn'[r].damaged[p]
                                   <= goodsReturn[r].dispatched[p]
    PROVE  RoadInvariant'
<1>1. DeliveriesFollowTheirTask'
  BY OtherDelivery DEF DeliveriesFollowTheirTask
<1>2. OneHolder'
  BY NoNewHolder DEF Carrying
<1>3. OneReturn'
  BY DEF RoadInvariant, OneReturn, LiveReturn
<1>4. \A s \in ReturnIds \ {r} : LiveReturn(s) => ReturnFollowsItsDelivery(s)'
  BY ReturnStillFollows DEF RoadInvariant, ReturnsFollowTheirDelivery, ReturnFollowsItsDelivery
<1>5. ReturnFollowsItsDelivery(r)'
  BY ReturnStillFollows
<1>6. ReturnsFollowTheirDelivery'
  BY <1>4, <1>5 DEF RoadInvariant, ReturnsFollowTheirDelivery, LiveReturn
<1>7. QED
  BY <1>1, <1>2, <1>3, <1>6 DEF RoadInvariant

\* Receiving and completing a return change its status and nothing it claims.
LEMMA StatusKeepsRoad ==
    ASSUME TypeInvariant, RoadInvariant, CompletedTasksStay, NEW r \in ReturnIds,
           goodsReturn[r].status \in {"EXPECTED", "RECEIVED", "INSPECTED"},
           NEW to \in {"RECEIVED", "COMPLETED"},
           goodsReturn' = [goodsReturn EXCEPT ![r] = [goodsReturn[r] EXCEPT !.status = to]],
           UNCHANGED delivery
    PROVE  RoadInvariant'
<1>1. goodsReturn[r] \in ReturnRow /\ DOMAIN goodsReturn = ReturnIds
  BY DEF TypeInvariant, TypeOK
<1>2. /\ goodsReturn'[r].status = to
      /\ goodsReturn'[r].delivery = goodsReturn[r].delivery
      /\ goodsReturn'[r].dispatched = goodsReturn[r].dispatched
      /\ goodsReturn'[r].restockable = goodsReturn[r].restockable
      /\ goodsReturn'[r].damaged = goodsReturn[r].damaged
      /\ \A s \in ReturnIds \ {r} : goodsReturn'[s] = goodsReturn[s]
  BY <1>1 DEF ReturnRow
<1>3. LiveReturn(r)
  BY DEF LiveReturn
<1>4. ReturnFollowsItsDelivery(r)
  BY <1>3 DEF RoadInvariant, ReturnsFollowTheirDelivery
<1>5. QED
  BY <1>2, <1>3, <1>4, ReturnMovesOn DEF ReturnFollowsItsDelivery

\* An inspection saves what comes to no more than went out, line by line.
LEMMA InspectionKeepsRoad ==
    ASSUME TypeInvariant, RoadInvariant, CompletedTasksStay, NEW r \in ReturnIds,
           NEW split, NEW all, inspectReturn(r, split, all)
    PROVE  RoadInvariant'
<1> DEFINE row == goodsReturn[r]
           to == IF all THEN "INSPECTED" ELSE row.status
           restockable == [p \in Products |-> IF p \in DOMAIN split THEN split[p].restockable
                                                                    ELSE row.restockable[p]]
           damaged == [p \in Products |-> IF p \in DOMAIN split THEN split[p].damaged
                                                                ELSE row.damaged[p]]
           new == [row EXCEPT !.restockable = restockable, !.damaged = damaged, !.status = to]
<1>1. row \in ReturnRow /\ DOMAIN goodsReturn = ReturnIds
  BY DEF TypeInvariant, TypeOK
<1>2. /\ row.status \in {"RECEIVED", "INSPECTED"}
      /\ assessInspection(r, split)
      /\ goodsReturn' = [goodsReturn EXCEPT ![r] = [SaveLines(r, split) EXCEPT
                                                        !.status = IF all THEN "INSPECTED" ELSE @]]
      /\ UNCHANGED delivery
  BY DEF inspectReturn, WriteReturn
<1>3. [SaveLines(r, split) EXCEPT !.status = IF all THEN "INSPECTED" ELSE @] = new
  BY <1>1 DEF SaveLines, ReturnRow
<1> HIDE DEF restockable, damaged, to
<1>4. /\ new.status = to /\ new.delivery = row.delivery /\ new.dispatched = row.dispatched
      /\ new.restockable = restockable /\ new.damaged = damaged
  BY <1>1 DEF ReturnRow
<1> HIDE DEF new, row
<1>5. goodsReturn'[r] = new /\ \A s \in ReturnIds \ {r} : goodsReturn'[s] = goodsReturn[s]
  BY <1>1, <1>2, <1>3 DEF row
<1>6. LiveReturn(r) /\ to # "ABSENT"
  BY <1>2 DEF LiveReturn, to, row
<1>7. \A p \in Products : restockable[p] + damaged[p] <= row.dispatched[p]
  <2> SUFFICES ASSUME NEW p \in Products
               PROVE  restockable[p] + damaged[p] <= row.dispatched[p]
    OBVIOUS
  <2>1. CASE p \in DOMAIN split
    BY <1>2, <2>1 DEF assessInspection, restockable, damaged, row
  <2>2. CASE p \notin DOMAIN split
    BY <1>6, <2>2 DEF RoadInvariant, ReturnsFollowTheirDelivery, ReturnFollowsItsDelivery,
                      restockable, damaged, row
  <2>3. QED
    BY <2>1, <2>2
<1>8. QED
  BY <1>2, <1>4, <1>5, <1>6, <1>7, ReturnMovesOn DEF row

\* A cancelled return leaves its delivery, which no other return is about, undecided.
LEMMA CancelReturnKeepsRoad ==
    ASSUME TypeInvariant, RoadInvariant, CompletedTasksStay, NEW r \in ReturnIds, cancelReturn(r)
    PROVE  RoadInvariant'
<1>1. /\ goodsReturn[r].status \in {"EXPECTED", "RECEIVED", "INSPECTED"}
      /\ goodsReturn' = [goodsReturn EXCEPT ![r] = [goodsReturn[r] EXCEPT !.status = "CANCELLED"]]
      /\ delivery' = [delivery EXCEPT ![goodsReturn[r].delivery].resolution = "NULL"]
  BY DEF cancelReturn, CanMove, RETURN_TRANSITIONS, WriteReturn
<1>2. LiveReturn(r) /\ ReturnFollowsItsDelivery(r)
  BY <1>1 DEF LiveReturn, RoadInvariant, ReturnsFollowTheirDelivery
<1>d. PICK d \in DeliveryIds : d = goodsReturn[r].delivery
  BY <1>2 DEF ReturnFollowsItsDelivery
<1>3. /\ DeliveriesFollowTheirTask' /\ OneHolder'
      /\ \A x \in DeliveryIds \ {d} : delivery'[x] = delivery[x]
  BY <1>1, <1>2, <1>d, DecisionOnDelivery DEF ReturnFollowsItsDelivery
<1>4. goodsReturn[r] \in ReturnRow /\ DOMAIN goodsReturn = ReturnIds
  BY DEF TypeInvariant, TypeOK
<1>5. /\ goodsReturn'[r].status = "CANCELLED"
      /\ \A s \in ReturnIds \ {r} : goodsReturn'[s] = goodsReturn[s]
  BY <1>1, <1>4 DEF ReturnRow
<1>6. ASSUME NEW s \in ReturnIds \ {r}, LiveReturn(s)
      PROVE  ReturnFollowsItsDelivery(s)'
  <2>1. ReturnFollowsItsDelivery(s)
    BY <1>6 DEF RoadInvariant, ReturnsFollowTheirDelivery
  <2>2. goodsReturn[s].delivery # d
    BY <1>2, <1>d, <1>6 DEF RoadInvariant, OneReturn
  <2>3. delivery'[goodsReturn[s].delivery] = delivery[goodsReturn[s].delivery]
    BY <1>3, <2>1, <2>2 DEF ReturnFollowsItsDelivery
  <2>4. QED
    BY <1>5, <1>6, <2>1, <2>3, ReturnStillFollows DEF ReturnFollowsItsDelivery
<1>7. ReturnsFollowTheirDelivery' /\ OneReturn'
  BY <1>5, <1>6 DEF RoadInvariant, ReturnsFollowTheirDelivery, OneReturn, LiveReturn
<1>8. QED
  BY <1>3, <1>7 DEF RoadInvariant

\* Every step of what follows a failed delivery.
LEMMA ReturnStepKeepsRoad ==
    ASSUME TypeInvariant, RoadInvariant, CompletedTasksStay, ReturnStep
    PROVE  RoadInvariant'
<1>1. ASSUME NEW r \in ReturnIds, receiveReturn(r)
      PROVE  RoadInvariant'
  BY <1>1, StatusKeepsRoad DEF receiveReturn, CanMove, RETURN_TRANSITIONS, WriteReturn
<1>2. ASSUME NEW r \in ReturnIds, completeReturn(r)
      PROVE  RoadInvariant'
  <2>1. goodsReturn[r].status \in {"EXPECTED", "RECEIVED", "INSPECTED"}
    BY <1>2 DEF completeReturn, CanMove, RETURN_TRANSITIONS
  <2>2. goodsReturn' = [goodsReturn EXCEPT ![r] = [goodsReturn[r] EXCEPT !.status = "COMPLETED"]]
    BY <1>2 DEF completeReturn
  <2>3. UNCHANGED delivery
    BY <1>2 DEF completeReturn
  <2>4. QED
    BY <2>1, <2>2, <2>3, StatusKeepsRoad
<1>3. QED
  BY <1>1, <1>2, CreateRetryKeepsRoad, LossKeepsRoad, CreateReturnKeepsRoad, InspectionKeepsRoad,
     CancelReturnKeepsRoad
     DEF ReturnStep

\* Every step of the core keeps the road in order.
LEMMA RoadStep == TypeInvariant /\ RoadInvariant /\ [Next]_vars => RoadInvariant'
<1> SUFFICES ASSUME TypeInvariant, RoadInvariant, [Next]_vars PROVE RoadInvariant'
  OBVIOUS
<1>1. CompletedTasksStay
  BY TasksStayCompleted
<1>2. CASE FulfillmentStep
  <2>1. \/ UNCHANGED <<delivery, goodsReturn>>
        \/ \E t \in TaskIds : FinishHandover(t)
        \/ \E d \in DeliveryIds :
              \/ MoveDelivery(d, {"PENDING", "ASSIGNED"}, "ASSIGNED")
              \/ MoveDelivery(d, {"PENDING", "ASSIGNED"}, "DISPATCHED")
              \/ MoveDelivery(d, {"DISPATCHED"}, "DELIVERED")
              \/ MoveDelivery(d, {"DISPATCHED"}, "FAILED")
    BY <1>2 DEF FulfillmentStep, createWarehouseTask, startWarehouseTask, markItemPrepared,
                markTaskPrepared, cancelWarehouseTask, MoveTask, BeginHandover, GiveUpHandover,
                recordPickup, assignDelivery, dispatchDelivery, completeDelivery, failDelivery
  <2>2. QED
    BY <1>1, <2>1, RoadUnwritten, HandoverKeepsRoad, MoveDeliveryKeepsRoad
<1>3. CASE ReturnStep
  BY <1>1, <1>3, ReturnStepKeepsRoad
<1>4. CASE OrderStep \/ InventoryStep
  <2>1. UNCHANGED <<delivery, goodsReturn>>
    BY <1>4, ZenonT(60) DEF OrderStep, CheckQuotation, ReserveAndCreate, GiveUpCreation, CancelOrder,
                UpdateCustomer, InventoryStep, adjustStock, CountShelf, FileCount,
                reviewDiscrepancy, cancelDiscrepancy, ConfirmCount, FlagShortfall, ApplyCount,
                WriteDiscrepancy, resolveReservationShortfall
  <2>2. QED
    BY <1>1, <2>1, RoadUnwritten
<1>5. CASE PaymentStep
  <2>1. UNCHANGED <<delivery, goodsReturn>>
    BY <1>5, PaymentStepsMoveNoGoods
  <2>2. QED
    BY <1>1, <2>1, RoadUnwritten
<1>6. CASE UNCHANGED vars
  BY <1>1, <1>6, RoadUnwritten DEF vars
<1>7. QED
  BY <1>2, <1>3, <1>4, <1>5, <1>6 DEF Next

\* In every reachable state the deliveries, the returns and the tasks tell one story.
LEMMA RoadHolds == Spec => []RoadInvariant
BY RoadInit, RoadStep, RowsAndLocks, PTL DEF Spec

\* Whatever fails, is tried again, comes back or is lost, in whatever order: of the
\* attempts to deliver a task's goods one has them, and if some came back into stock
\* that is the failed attempt they came back from.
THEOREM OneLoadInOnePlace == Spec => []GoodsInOnePlace
<1>1. ASSUME TypeInvariant, RoadInvariant, NEW t \in TaskIds
      PROVE  LET holders == {d \in TaskDeliveries(t) : Carrying(d)}
             IN  /\ Cardinality(holders) <= 1
                 /\ \A d \in TaskDeliveries(t) : GoodsRestocked(d) =>
                        /\ holders = {d}
                        /\ delivery[d].status = "FAILED"
                        /\ delivery[d].resolution = "RETURNED_TO_WAREHOUSE"
  <2> DEFINE holders == {d \in TaskDeliveries(t) : Carrying(d)}
  <2>1. \A d, e \in holders : d = e
    BY <1>1, NoneIsNoRow DEF RoadInvariant, OneHolder, TaskDeliveries
  <2>2. ASSUME NEW d \in TaskDeliveries(t), GoodsRestocked(d)
        PROVE  /\ holders = {d}
               /\ delivery[d].status = "FAILED"
               /\ delivery[d].resolution = "RETURNED_TO_WAREHOUSE"
    <3>1. PICK r \in ReturnIds : goodsReturn[r].delivery = d /\ goodsReturn[r].status = "COMPLETED"
      BY <2>2 DEF GoodsRestocked, ReturnsOf
    <3>2. ReturnFollowsItsDelivery(r)
      BY <1>1, <3>1 DEF RoadInvariant, ReturnsFollowTheirDelivery, LiveReturn
    <3>3. d \in holders
      BY <2>2, <3>1, <3>2 DEF ReturnFollowsItsDelivery, Carrying
    <3>4. QED
      BY <2>1, <3>1, <3>2, <3>3 DEF ReturnFollowsItsDelivery
  <2> HIDE DEF holders
  <2>3. Cardinality(holders) <= 1
    <3>1. CASE holders = {}
      BY <3>1, FS_EmptySet
    <3>2. CASE holders # {}
      <4>1. PICK d : holders = {d}
        BY <2>1, <3>2
      <4>2. QED
        BY <4>1, FS_Singleton
    <3>3. QED
      BY <3>1, <3>2
  <2>4. QED
    BY <2>2, <2>3 DEF holders
<1>2. TypeInvariant /\ RoadInvariant => GoodsInOnePlace
  BY <1>1 DEF GoodsInOnePlace
<1>3. QED
  BY <1>2, RoadHolds, RowsAndLocks, PTL

\* The returns of a task bring back no more than it took out: at most one of them is
\* completed, because at most one attempt to deliver the task's goods was given up.
THEOREM ReturnsAreBounded == Spec => []RestockBounded
<1>1. ASSUME TypeInvariant, RoadInvariant, NEW t \in TaskIds, NEW p \in Products
      PROVE  Total([r \in ReturnIds |->
                 IF r \in CompletedReturns /\ delivery[goodsReturn[r].delivery].task = t
                 THEN goodsReturn[r].restockable[p] + goodsReturn[r].damaged[p] ELSE 0])
             <= task[t].required[p]
  <2> DEFINE OfTask(r) == r \in CompletedReturns /\ delivery[goodsReturn[r].delivery].task = t
             back(r) == goodsReturn[r].restockable[p] + goodsReturn[r].damaged[p]
             zero == [r \in ReturnIds |-> 0]
             f == [r \in ReturnIds |-> IF OfTask(r) THEN back(r) ELSE 0]
  <2>1. \A r \in ReturnIds : back(r) \in Nat
    BY <1>1, ReturnRowTyped DEF TypeInvariant, Quantities
  <2>2. task[t].required[p] \in Nat
    BY <1>1 DEF TypeInvariant, TypeOK, TaskRow, Quantities
  <2>3. \A r \in ReturnIds : OfTask(r) => LiveReturn(r) /\ ReturnFollowsItsDelivery(r)
    BY <1>1 DEF CompletedReturns, RoadInvariant, ReturnsFollowTheirDelivery, LiveReturn
  <2>4. \A r, s \in ReturnIds : OfTask(r) /\ OfTask(s) => r = s
    <3> SUFFICES ASSUME NEW r \in ReturnIds, NEW s \in ReturnIds, OfTask(r), OfTask(s)
                 PROVE  r = s
      OBVIOUS
    <3>1. goodsReturn[r].delivery = goodsReturn[s].delivery
      BY <1>1, <2>3, NoneIsNoRow DEF RoadInvariant, OneHolder, ReturnFollowsItsDelivery, Carrying
    <3>2. QED
      BY <1>1, <2>3, <3>1 DEF RoadInvariant, OneReturn
  <2>5. \A r \in ReturnIds : OfTask(r) => back(r) <= task[t].required[p]
    BY <2>3 DEF ReturnFollowsItsDelivery
  <2>6. f \in [ReturnIds -> Nat] /\ zero \in [ReturnIds -> Nat]
    BY <2>1
  <2>7. Total(zero) = 0
    BY <2>6, TotalOfZeros
  <2>8. CASE \A r \in ReturnIds : ~OfTask(r)
    <3>1. f = zero
      BY <2>8
    <3>2. QED
      BY <2>2, <2>7, <3>1
  <2>9. ASSUME NEW r \in ReturnIds, OfTask(r)
        PROVE  Total(f) <= task[t].required[p]
    <3>1. f[r] = back(r) /\ zero[r] = 0
      BY <2>9
    <3>2. \A s \in ReturnIds \ {r} : f[s] = zero[s]
      BY <2>4, <2>9
    <3>3. back(r) \in Nat /\ back(r) <= task[t].required[p]
      BY <2>1, <2>5, <2>9
    <3> HIDE DEF f, zero, back
    <3>4. Total(f) = Total(zero) - zero[r] + f[r]
      BY <2>6, <3>2, RowIdsAreFinite, TotalUpdate
    <3>5. QED
      BY <2>2, <2>7, <3>1, <3>3, <3>4
  <2>10. QED
    BY <2>8, <2>9
<1>2. TypeInvariant /\ RoadInvariant => RestockBounded
  BY <1>1 DEF RestockBounded
<1>3. QED
  BY <1>2, RoadHolds, RowsAndLocks, PTL

-----------------------------------------------------------------------------
(* The ledger                                                              *)

\* What was shipped and what came back are natural numbers.
LEMMA ShippedType ==
    ASSUME TypeOK, NEW p \in Products
    PROVE  Shipped(p) \in Nat /\ Restocked(p) \in Nat
<1>1. [t \in TaskIds |-> IF t \in CompletedTasks THEN task[t].required[p] ELSE 0]
          \in [TaskIds -> Nat]
  <2>1. \A t \in TaskIds : task[t].required[p] \in Nat
    BY DEF TypeOK, TaskRow, Quantities
  <2>2. QED
    BY <2>1
<1>2. [r \in ReturnIds |-> IF r \in CompletedReturns THEN goodsReturn[r].restockable[p] ELSE 0]
          \in [ReturnIds -> Nat]
  <2>1. \A r \in ReturnIds : goodsReturn[r].restockable[p] \in Nat
    BY ReturnRowTyped DEF Quantities
  <2>2. QED
    BY <2>1
<1>3. QED
  BY <1>1, <1>2, TotalType, RowIdsAreFinite DEF Shipped, Restocked

\* No task is completed by the step.
LEMMA NothingShipped ==
    ASSUME CompletedTasksStay, NEW p,
           \A t \in TaskIds : task'[t].status = "COMPLETED" => task[t].status = "COMPLETED"
    PROVE  Shipped(p)' = Shipped(p)
<1>1. \A t \in TaskIds : /\ t \in CompletedTasks' <=> t \in CompletedTasks
                         /\ t \in CompletedTasks => task'[t].required = task[t].required
  BY DEF CompletedTasks, CompletedTasksStay
<1>2. [t \in TaskIds |-> IF t \in CompletedTasks' THEN task'[t].required[p] ELSE 0]
          = [t \in TaskIds |-> IF t \in CompletedTasks THEN task[t].required[p] ELSE 0]
  BY <1>1
<1>3. QED
  BY <1>2 DEF Shipped

\* No return is completed by the step, and the lines of the completed ones stay.
ReturnsAsBefore ==
    \A r \in ReturnIds :
        /\ goodsReturn'[r].status = "COMPLETED" <=> goodsReturn[r].status = "COMPLETED"
        /\ goodsReturn[r].status = "COMPLETED" =>
               goodsReturn'[r].restockable = goodsReturn[r].restockable

LEMMA NothingRestocked ==
    ASSUME ReturnsAsBefore, NEW p
    PROVE  Restocked(p)' = Restocked(p)
<1>1. \A r \in ReturnIds :
          /\ r \in CompletedReturns' <=> r \in CompletedReturns
          /\ r \in CompletedReturns => goodsReturn'[r].restockable = goodsReturn[r].restockable
  BY DEF CompletedReturns, ReturnsAsBefore
<1>2. [r \in ReturnIds |-> IF r \in CompletedReturns' THEN goodsReturn'[r].restockable[p] ELSE 0]
          = [r \in ReturnIds |-> IF r \in CompletedReturns THEN goodsReturn[r].restockable[p] ELSE 0]
  BY <1>1
<1>3. QED
  BY <1>2 DEF Restocked

\* The rows of the ledger.
LEMMA LedgerTyped ==
    ASSUME TypeOK, NEW p \in Products
    PROVE  /\ movements[p] \in [adjusted : Int, reconciled : Int, consumed : Nat, restocked : Nat]
           /\ stock[p] \in [available : Nat, reserved : Nat]
           /\ Opening[p] \in Nat
BY QuotationsAreTyped DEF TypeOK

\* A step that moves no goods: it writes at most what is reserved of a product.
LEMMA NothingMoved ==
    ASSUME StockAccountedFor, CompletedTasksStay, ReturnsAsBefore, UNCHANGED movements,
           \A t \in TaskIds : task'[t].status = "COMPLETED" => task[t].status = "COMPLETED",
           \A p \in Products : stock'[p].available = stock[p].available
    PROVE  StockAccountedFor'
BY NothingShipped, NothingRestocked DEF StockAccountedFor

\* A correction of one product's shelf is written to the ledger with it.
LEMMA CorrectionIsAccounted ==
    ASSUME TypeOK, StockAccountedFor, CompletedTasksStay, UNCHANGED <<task, goodsReturn>>,
           NEW p, NEW delta, p \in Products => delta \in Int,
           WriteStock([stock EXCEPT ![p].available = @ + delta]),
           \/ movements' = [movements EXCEPT ![p].adjusted = @ + delta]
           \/ movements' = [movements EXCEPT ![p].reconciled = @ + delta]
    PROVE  StockAccountedFor'
<1> SUFFICES ASSUME NEW x \in Products
             PROVE  /\ movements'[x].consumed = Shipped(x)'
                    /\ movements'[x].restocked = Restocked(x)'
                    /\ stock'[x].available = Opening[x] + movements'[x].adjusted
                           + movements'[x].reconciled - Shipped(x)' + Restocked(x)'
  BY DEF StockAccountedFor
<1>1. Shipped(x)' = Shipped(x) /\ Restocked(x)' = Restocked(x)
  BY NothingShipped, NothingRestocked DEF ReturnsAsBefore
<1>2. stock' = [stock EXCEPT ![p].available = @ + delta]
  BY DEF WriteStock
<1>3. DOMAIN stock = Products /\ DOMAIN movements = Products
  BY DEF TypeOK
<1>4. /\ movements[x] \in [adjusted : Int, reconciled : Int, consumed : Nat, restocked : Nat]
      /\ stock[x] \in [available : Nat, reserved : Nat]
      /\ Opening[x] \in Nat /\ Shipped(x) \in Nat /\ Restocked(x) \in Nat
  BY LedgerTyped, ShippedType
<1>5. /\ movements[x].consumed = Shipped(x) /\ movements[x].restocked = Restocked(x)
      /\ stock[x].available = Opening[x] + movements[x].adjusted + movements[x].reconciled
                                  - Shipped(x) + Restocked(x)
  BY DEF StockAccountedFor
<1>6. CASE x # p
  BY <1>1, <1>2, <1>3, <1>5, <1>6
<1>7. CASE x = p
  <2>1. stock'[x].available = stock[x].available + delta /\ delta \in Int
    BY <1>2, <1>3, <1>4, <1>7
  <2>2. /\ movements'[x].consumed = movements[x].consumed
        /\ movements'[x].restocked = movements[x].restocked
        /\ \/ /\ movements'[x].adjusted = movements[x].adjusted + delta
              /\ movements'[x].reconciled = movements[x].reconciled
           \/ /\ movements'[x].adjusted = movements[x].adjusted
              /\ movements'[x].reconciled = movements[x].reconciled + delta
    BY <1>3, <1>4, <1>7
  <2>3. QED
    BY <1>1, <1>4, <1>5, <2>1, <2>2
<1>8. QED
  BY <1>6, <1>7

\* A handover ships what its task lists, once: the task was not completed before.
LEMMA HandoverIsAccounted ==
    ASSUME TypeInvariant, TypeInvariant', StockAccountedFor, CompletedTasksStay,
           NEW t \in TaskIds, FinishHandover(t)
    PROVE  StockAccountedFor'
<1>1. /\ task[t].status = "PREPARED"
      /\ task' = [task EXCEPT ![t].status = "COMPLETED"]
      /\ UNCHANGED goodsReturn
  BY DEF FinishHandover, TypeInvariant, WorkInFlight
<1>2. task[t] \in TaskRow /\ DOMAIN task = TaskIds
  BY DEF TypeInvariant, TypeOK
<1>3. /\ task'[t].status = "COMPLETED" /\ task'[t].required = task[t].required
      /\ \A u \in TaskIds \ {t} : task'[u] = task[u]
  BY <1>1, <1>2 DEF TaskRow
<1> SUFFICES ASSUME NEW p \in Products
             PROVE  /\ movements'[p].consumed = Shipped(p)'
                    /\ movements'[p].restocked = Restocked(p)'
                    /\ stock'[p].available = Opening[p] + movements'[p].adjusted
                           + movements'[p].reconciled - Shipped(p)' + Restocked(p)'
  BY DEF StockAccountedFor
<1> DEFINE out == task[t].required[p]
           f == [u \in TaskIds |-> IF u \in CompletedTasks THEN task[u].required[p] ELSE 0]
           g == [u \in TaskIds |-> IF u \in CompletedTasks' THEN task'[u].required[p] ELSE 0]
<1>4. out \in Nat
  BY <1>2 DEF TaskRow, Quantities
<1>5. f \in [TaskIds -> Nat] /\ g \in [TaskIds -> Nat]
  BY DEF TypeInvariant, TypeOK, TaskRow, Quantities
<1>6. f[t] = 0 /\ g[t] = out /\ \A u \in TaskIds \ {t} : g[u] = f[u]
  BY <1>1, <1>3 DEF CompletedTasks
<1>7. Shipped(p) = Total(f) /\ Shipped(p)' = Total(g)
  BY DEF Shipped
<1>8. Restocked(p)' = Restocked(p)
  BY <1>1, NothingRestocked DEF ReturnsAsBefore
<1>9. /\ stock'[p].available = stock[p].available - out
      /\ movements' = [x \in Products |-> [movements[x] EXCEPT !.consumed = @ + task[t].required[x]]]
  BY DEF FinishHandover, WriteStock
<1>10. /\ movements[p] \in [adjusted : Int, reconciled : Int, consumed : Nat, restocked : Nat]
       /\ stock[p] \in [available : Nat, reserved : Nat]
       /\ Opening[p] \in Nat /\ Shipped(p) \in Nat /\ Restocked(p) \in Nat
  BY LedgerTyped, ShippedType DEF TypeInvariant
<1> HIDE DEF f, g
<1>11. Shipped(p)' = Shipped(p) - f[t] + g[t]
  BY <1>5, <1>6, <1>7, RowIdsAreFinite, TotalUpdate
<1>12. /\ movements'[p].consumed = movements[p].consumed + out
       /\ movements'[p].restocked = movements[p].restocked
       /\ movements'[p].adjusted = movements[p].adjusted
       /\ movements'[p].reconciled = movements[p].reconciled
  BY <1>9, <1>10
<1>13. /\ movements[p].consumed = Shipped(p) /\ movements[p].restocked = Restocked(p)
       /\ stock[p].available = Opening[p] + movements[p].adjusted + movements[p].reconciled
                                   - Shipped(p) + Restocked(p)
  BY DEF StockAccountedFor
<1> HIDE DEF out
<1>14. QED
  BY <1>4, <1>6, <1>8, <1>9, <1>10, <1>11, <1>12, <1>13

\* A completed return brings back its sellable goods, once.
LEMMA ReturnIsAccounted ==
    ASSUME TypeInvariant, TypeInvariant', StockAccountedFor, CompletedTasksStay,
           NEW r \in ReturnIds, completeReturn(r)
    PROVE  StockAccountedFor'
<1>1. /\ goodsReturn[r].status = "INSPECTED"
      /\ goodsReturn' = [goodsReturn EXCEPT ![r].status = "COMPLETED"]
      /\ UNCHANGED task
  BY DEF completeReturn, CanMove, RETURN_TRANSITIONS
<1>2. goodsReturn[r] \in ReturnRow /\ DOMAIN goodsReturn = ReturnIds
  BY DEF TypeInvariant, TypeOK
<1>3. /\ goodsReturn'[r].status = "COMPLETED"
      /\ goodsReturn'[r].restockable = goodsReturn[r].restockable
      /\ \A s \in ReturnIds \ {r} : goodsReturn'[s] = goodsReturn[s]
  BY <1>1, <1>2 DEF ReturnRow
<1> SUFFICES ASSUME NEW p \in Products
             PROVE  /\ movements'[p].consumed = Shipped(p)'
                    /\ movements'[p].restocked = Restocked(p)'
                    /\ stock'[p].available = Opening[p] + movements'[p].adjusted
                           + movements'[p].reconciled - Shipped(p)' + Restocked(p)'
  BY DEF StockAccountedFor
<1> DEFINE back == goodsReturn[r].restockable[p]
           f == [s \in ReturnIds |-> IF s \in CompletedReturns THEN goodsReturn[s].restockable[p] ELSE 0]
           g == [s \in ReturnIds |->
                    IF s \in CompletedReturns' THEN goodsReturn'[s].restockable[p] ELSE 0]
<1>4. back \in Nat
  BY <1>2 DEF ReturnRow, Quantities
<1>5. f \in [ReturnIds -> Nat] /\ g \in [ReturnIds -> Nat]
  BY DEF TypeInvariant, TypeOK, ReturnRow, Quantities
<1>6. f[r] = 0 /\ g[r] = back /\ \A s \in ReturnIds \ {r} : g[s] = f[s]
  BY <1>1, <1>3 DEF CompletedReturns
<1>7. Restocked(p) = Total(f) /\ Restocked(p)' = Total(g)
  BY DEF Restocked
<1>8. Shipped(p)' = Shipped(p)
  BY <1>1, NothingShipped
<1>9. /\ stock' = [x \in Products |->
                      [stock[x] EXCEPT !.available = @ + goodsReturn[r].restockable[x]]]
      /\ movements' = [x \in Products |->
                          [movements[x] EXCEPT !.restocked = @ + goodsReturn[r].restockable[x]]]
  BY DEF completeReturn, WriteStock
<1>10. /\ movements[p] \in [adjusted : Int, reconciled : Int, consumed : Nat, restocked : Nat]
       /\ stock[p] \in [available : Nat, reserved : Nat]
       /\ Opening[p] \in Nat /\ Shipped(p) \in Nat /\ Restocked(p) \in Nat
  BY LedgerTyped, ShippedType DEF TypeInvariant
<1> HIDE DEF f, g
<1>11. Restocked(p)' = Restocked(p) - f[r] + g[r]
  BY <1>5, <1>6, <1>7, RowIdsAreFinite, TotalUpdate
<1>12. /\ movements'[p].restocked = movements[p].restocked + back
       /\ movements'[p].consumed = movements[p].consumed
       /\ movements'[p].adjusted = movements[p].adjusted
       /\ movements'[p].reconciled = movements[p].reconciled
       /\ stock'[p].available = stock[p].available + back
  BY <1>9, <1>10
<1>13. /\ movements[p].consumed = Shipped(p) /\ movements[p].restocked = Restocked(p)
       /\ stock[p].available = Opening[p] + movements[p].adjusted + movements[p].reconciled
                                   - Shipped(p) + Restocked(p)
  BY DEF StockAccountedFor
<1> HIDE DEF back
<1>14. QED
  BY <1>4, <1>6, <1>8, <1>10, <1>11, <1>12, <1>13

\* At the start nothing was shipped, brought back or corrected.
LEMMA LedgerInit == Init => StockAccountedFor
<1> SUFFICES ASSUME Init, NEW p \in Products
             PROVE  /\ movements[p].consumed = Shipped(p)
                    /\ movements[p].restocked = Restocked(p)
                    /\ stock[p].available = Opening[p] + movements[p].adjusted
                           + movements[p].reconciled - Shipped(p) + Restocked(p)
  BY DEF StockAccountedFor
<1> DEFINE f == [t \in TaskIds |-> IF t \in CompletedTasks THEN task[t].required[p] ELSE 0]
           g == [r \in ReturnIds |-> IF r \in CompletedReturns THEN goodsReturn[r].restockable[p] ELSE 0]
<1>1. /\ f \in [TaskIds -> Nat] /\ \A t \in TaskIds : f[t] = 0
      /\ g \in [ReturnIds -> Nat] /\ \A r \in ReturnIds : g[r] = 0
  BY DEF Init, CompletedTasks, CompletedReturns, NoTask, NoReturn
<1>2. Shipped(p) = Total(f) /\ Restocked(p) = Total(g)
  BY DEF Shipped, Restocked
<1> HIDE DEF f, g
<1>3. Shipped(p) = 0 /\ Restocked(p) = 0
  BY <1>1, <1>2, TotalOfZeros
<1>4. QED
  BY <1>3, QuotationsAreTyped DEF Init

\* A step that completes no task and writes neither the ledger nor a return.
LEMMA LedgerUnwritten ==
    ASSUME TypeInvariant, StockAccountedFor, CompletedTasksStay, UNCHANGED <<movements, goodsReturn>>,
           \A t \in TaskIds : ~FinishHandover(t), [Next]_vars,
           \A p \in Products : stock'[p].available = stock[p].available
    PROVE  StockAccountedFor'
<1>1. \A t \in TaskIds : task'[t].status = "COMPLETED" => task[t].status = "COMPLETED"
  <2> SUFFICES ASSUME NEW t \in TaskIds, task'[t].status = "COMPLETED"
               PROVE  task[t].status = "COMPLETED"
    OBVIOUS
  <2>1. task[t] \in TaskRow /\ DOMAIN task = TaskIds
    BY DEF TypeInvariant, TypeOK
  <2>2. ~\E o \in OrderIds : createWarehouseTask(o, t)
    BY <2>1 DEF createWarehouseTask
  <2>3. ~\E to \in {"IN_PROGRESS", "PREPARED", "CANCELLED"} : MoveTask(t, to)
    BY <2>1 DEF MoveTask, TaskRow
  <2>4. QED
    BY <2>2, <2>3, TaskLife
<1>2. QED
  BY <1>1, NothingMoved DEF ReturnsAsBefore

\* Every step keeps the ledger's account of the shelf.
LEMMA LedgerStep ==
    TypeInvariant /\ TypeInvariant' /\ StockAccountedFor /\ [Next]_vars => StockAccountedFor'
<1> SUFFICES ASSUME TypeInvariant, TypeInvariant', StockAccountedFor, [Next]_vars
             PROVE  StockAccountedFor'
  OBVIOUS
<1>1. CompletedTasksStay
  BY TasksStayCompleted
<1>2. CASE UNCHANGED <<stock, movements, goodsReturn>>
  <2>1. \A t \in TaskIds : ~FinishHandover(t) \/ StockAccountedFor'
    BY <1>1, HandoverIsAccounted
  <2>2. QED
    BY <1>1, <1>2, <2>1, LedgerUnwritten
<1>3. CASE OrderStep
  <2>0. \A t \in TaskIds : ~FinishHandover(t) \/ StockAccountedFor'
    BY <1>1, HandoverIsAccounted
  <2>1. ASSUME NEW r \in Requests, NEW o \in OrderIds, ReserveAndCreate(r, o)
        PROVE  StockAccountedFor'
    <3>1. stock' = [p \in Products |-> [stock[p] EXCEPT
                      !.reserved = @ + QuantityOf(creating[r].quotation, p)]]
      BY <2>1 DEF ReserveAndCreate, WriteStock
    <3>2. \A p \in Products : stock'[p].available = stock[p].available
      BY <3>1, LedgerTyped DEF TypeInvariant
    <3>3. UNCHANGED <<movements, goodsReturn>>
      BY <2>1 DEF ReserveAndCreate
    <3>4. QED
      BY <1>1, <2>0, <3>2, <3>3, LedgerUnwritten
  <2>2. ASSUME NEW o \in OrderIds, CancelOrder(o)
        PROVE  StockAccountedFor'
    <3>1. stock' = [p \in Products |-> [stock[p] EXCEPT !.reserved = @ - Held(o, p)]]
      BY <2>2 DEF CancelOrder, WriteStock
    <3>2. \A p \in Products : stock'[p].available = stock[p].available
      BY <3>1, LedgerTyped DEF TypeInvariant
    <3>3. UNCHANGED <<movements, goodsReturn>>
      BY <2>2 DEF CancelOrder
    <3>4. QED
      BY <1>1, <2>0, <3>2, <3>3, LedgerUnwritten
  <2>3. \/ UNCHANGED <<stock, movements, goodsReturn>>
        \/ \E r \in Requests, o \in OrderIds : ReserveAndCreate(r, o)
        \/ \E o \in OrderIds : CancelOrder(o)
    BY <1>3 DEF OrderStep, CheckQuotation, GiveUpCreation, UpdateCustomer
  <2>4. QED
    BY <1>2, <2>1, <2>2, <2>3
<1>4. CASE FulfillmentStep
  <2>1. \/ UNCHANGED <<stock, movements, goodsReturn>>
        \/ \E t \in TaskIds : FinishHandover(t)
    BY <1>4 DEF FulfillmentStep, createWarehouseTask, startWarehouseTask, markItemPrepared,
                markTaskPrepared, cancelWarehouseTask, MoveTask, BeginHandover, GiveUpHandover,
                recordPickup, assignDelivery, dispatchDelivery, completeDelivery, failDelivery,
                MoveDelivery
  <2>2. QED
    BY <1>1, <1>2, <2>1, HandoverIsAccounted
<1>5. CASE InventoryStep
  <2>1. ASSUME NEW p \in Products, NEW n \in Deltas, adjustStock(p, n)
        PROVE  StockAccountedFor'
    BY <1>1, <2>1, InventoryBounds, CorrectionIsAccounted DEF adjustStock, TypeInvariant
  <2>2. ASSUME NEW d \in DiscrepancyIds, ApplyCount(d)
        PROVE  StockAccountedFor'
    <3> DEFINE p == discrepancy[d].product
               delta == discrepancy[d].counted - stock[p].available
    <3>1. discrepancy[d].counted \in Nat
      BY DEF TypeInvariant, TypeOK, DiscrepancyRow
    <3>2. p \in Products => delta \in Int
      BY <3>1, LedgerTyped DEF TypeInvariant
    <3>3. /\ WriteStock([stock EXCEPT ![p].available = @ + delta])
          /\ movements' = [movements EXCEPT ![p].reconciled = @ + delta]
          /\ UNCHANGED <<task, goodsReturn>>
      BY <2>2 DEF ApplyCount
    <3> HIDE DEF p, delta
    <3>4. QED
      BY <1>1, <3>2, <3>3, CorrectionIsAccounted DEF TypeInvariant
  <2>3. ASSUME NEW o \in OrderIds, NEW p \in Products, NEW n, resolveReservationShortfall(o, p, n)
        PROVE  StockAccountedFor'
    <3>1. stock' = [stock EXCEPT ![p].reserved = @ - (reservation[o][p].quantity - n)]
      BY <2>3 DEF resolveReservationShortfall, WriteStock
    <3>2. \A x \in Products : stock'[x].available = stock[x].available
      BY <3>1, LedgerTyped DEF TypeInvariant, TypeOK
    <3>3. UNCHANGED <<movements, task, goodsReturn>>
      BY <2>3 DEF resolveReservationShortfall
    <3>4. QED
      BY <1>1, <3>2, <3>3, NothingMoved DEF ReturnsAsBefore
  <2>4. \/ UNCHANGED <<stock, movements, goodsReturn>>
        \/ \E p \in Products, n \in Deltas : adjustStock(p, n)
        \/ \E d \in DiscrepancyIds : ApplyCount(d)
        \/ \E o \in OrderIds, p \in Products, n \in 0..MaxStock : resolveReservationShortfall(o, p, n)
    BY <1>5 DEF InventoryStep, CountShelf, FileCount, reviewDiscrepancy, cancelDiscrepancy,
                ConfirmCount, FlagShortfall, WriteDiscrepancy
  <2>5. QED
    BY <1>2, <2>1, <2>2, <2>3, <2>4
<1>6. CASE ReturnStep
  <2>1. ASSUME NEW r \in ReturnIds,
               \/ receiveReturn(r)
               \/ \E split \in Splits(r), all \in BOOLEAN : inspectReturn(r, split, all)
               \/ cancelReturn(r)
        PROVE  StockAccountedFor'
    <3>1. /\ UNCHANGED <<stock, movements, task>>
          /\ goodsReturn[r].status # "COMPLETED"
      BY <2>1 DEF receiveReturn, inspectReturn, cancelReturn, CanMove, RETURN_TRANSITIONS,
                  WriteReturn
    <3>2. goodsReturn[r] \in ReturnRow /\ DOMAIN goodsReturn = ReturnIds
      BY DEF TypeInvariant, TypeOK
    <3>3. \E row : row.status # "COMPLETED" /\ goodsReturn' = [goodsReturn EXCEPT ![r] = row]
      <4>1. CASE receiveReturn(r) \/ cancelReturn(r)
        BY <3>2, <4>1 DEF receiveReturn, cancelReturn, WriteReturn, ReturnRow
      <4>2. ASSUME NEW split, NEW all, inspectReturn(r, split, all)
            PROVE  \E row : row.status # "COMPLETED" /\ goodsReturn' = [goodsReturn EXCEPT ![r] = row]
        <5> DEFINE row == [SaveLines(r, split) EXCEPT !.status = IF all THEN "INSPECTED" ELSE @]
        <5>1. row.status = IF all THEN "INSPECTED" ELSE goodsReturn[r].status
          BY <3>2 DEF SaveLines, ReturnRow
        <5>2. goodsReturn' = [goodsReturn EXCEPT ![r] = row]
          BY <4>2 DEF inspectReturn, WriteReturn
        <5> HIDE DEF row
        <5>3. QED
          BY <3>1, <5>1, <5>2
      <4>3. QED
        BY <2>1, <4>1, <4>2
    <3>4. ReturnsAsBefore
      BY <3>1, <3>2, <3>3 DEF ReturnsAsBefore
    <3>5. QED
      BY <1>1, <3>1, <3>4, NothingMoved
  <2>2. ASSUME NEW d \in DeliveryIds, NEW r \in ReturnIds, createReturn(d, r)
        PROVE  StockAccountedFor'
    <3>1. ReturnsAsBefore
      BY <2>2 DEF createReturn, ReturnsAsBefore, TypeInvariant, TypeOK
    <3>2. UNCHANGED <<stock, movements, task>>
      BY <2>2 DEF createReturn
    <3>3. QED
      BY <1>1, <3>1, <3>2, NothingMoved
  <2>3. \/ UNCHANGED <<stock, movements, goodsReturn>>
        \/ \E d \in DeliveryIds, r \in ReturnIds : createReturn(d, r)
        \/ \E r \in ReturnIds :
              \/ completeReturn(r)
              \/ receiveReturn(r)
              \/ \E split \in Splits(r), all \in BOOLEAN : inspectReturn(r, split, all)
              \/ cancelReturn(r)
    BY <1>6 DEF ReturnStep, createDeliveryRetry, resolveDeliveryLoss
  <2>4. QED
    BY <1>1, <1>2, <2>1, <2>2, <2>3, ReturnIsAccounted
<1>7. CASE PaymentStep
  <2>1. UNCHANGED <<stock, movements, goodsReturn>>
    BY <1>7, PaymentStepsMoveNoGoods
  <2>2. QED
    BY <1>2, <2>1
<1>8. CASE UNCHANGED vars
  BY <1>2, <1>8 DEF vars
<1>9. QED
  BY <1>3, <1>4, <1>5, <1>6, <1>7, <1>8 DEF Next

\* The ledger explains the shelf: what is on hand is the opening stock and the
\* corrections, less what every completed task took and plus what every completed
\* return brought back, each counted once.
THEOREM ShelfIsExplained == Spec => []StockAccountedFor
BY LedgerInit, LedgerStep, RowsAndLocks, PTL DEF Spec

-----------------------------------------------------------------------------
(* Completed orders                                                        *)

\* What an order was completed for: the goods went out, and arrived or were collected.
Served(o) ==
    /\ \E t \in TaskIds : task[t].status = "COMPLETED" /\ task[t].order = o
    /\ IF order[o].deliveryRequired
       THEN \E d \in DeliveryIds : delivery[d].status = "DELIVERED" /\ delivery[d].order = o
       ELSE order[o].pickedUp

\* What a completion or an operational exception leaves of an order's row.
LEMMA CompletionKeepsService ==
    ASSUME TypeOK, NEW x, NEW taskStatus, NEW deliveryStatus, NEW pickedUp, NEW o \in OrderIds,
           order' = AfterCompletion(x, taskStatus, deliveryStatus, pickedUp)
    PROVE  /\ order'[o].deliveryRequired = order[o].deliveryRequired
           /\ order'[o].pickedUp = IF o = x THEN pickedUp ELSE order[o].pickedUp
           /\ (order'[o].status = "COMPLETED" /\ order[o].status # "COMPLETED") =>
                  o = x /\ assessCompletion(o, taskStatus, deliveryStatus, pickedUp)
<1>1. order[o] \in OrderRow /\ DOMAIN order = OrderIds
  BY DEF TypeOK
<1>2. QED
  BY <1>1 DEF AfterCompletion, OrderRow

\* The steps that complete an order, and what the other ones keep of every order.
LEMMA ServiceLife ==
    ASSUME TypeInvariant, [Next]_vars, NEW o \in OrderIds
    PROVE  \/ /\ order'[o].deliveryRequired = order[o].deliveryRequired
              /\ order'[o].pickedUp = order[o].pickedUp
              /\ order'[o].status = "COMPLETED" => order[o].status = "COMPLETED"
           \/ \E r \in Requests : ReserveAndCreate(r, o)
           \/ recordPickup(o)
           \/ \E t \in TaskIds : FinishHandover(t) /\ task[t].order = o
           \/ \E d \in DeliveryIds : completeDelivery(d) /\ delivery[d].order = o
<1> DEFINE Stays == /\ order'[o].deliveryRequired = order[o].deliveryRequired
                    /\ order'[o].pickedUp = order[o].pickedUp
                    /\ order'[o].status = "COMPLETED" => order[o].status = "COMPLETED"
<1>t. TypeOK /\ order[o] \in OrderRow /\ DOMAIN order = OrderIds
  BY DEF TypeInvariant, TypeOK
<1>1. CASE UNCHANGED order
  BY <1>1
<1>2. ASSUME NEW x, NEW e, order' = [order EXCEPT ![x].exception = e]
      PROVE  Stays
  BY <1>t, <1>2 DEF OrderRow
<1>3. ASSUME NEW x, x # o, NEW ts, NEW ds, NEW pickedUp, order' = AfterCompletion(x, ts, ds, pickedUp)
      PROVE  Stays
  BY <1>t, <1>3, CompletionKeepsService
<1>4. CASE OrderStep
  <2>1. ASSUME NEW x \in OrderIds, CancelOrder(x)
        PROVE  Stays
    BY <1>t, <2>1 DEF CancelOrder, OrderRow
  <2>2. ASSUME NEW x \in OrderIds \ {o}, NEW r \in Requests, ReserveAndCreate(r, x)
        PROVE  Stays
    BY <1>t, <2>2 DEF ReserveAndCreate
  <2>3. QED
    BY <1>1, <1>4, <2>1, <2>2 DEF OrderStep, CheckQuotation, GiveUpCreation, UpdateCustomer
<1>5. CASE FulfillmentStep
  <2>1. \/ UNCHANGED order
        \/ \E x \in OrderIds : recordPickup(x)
        \/ \E t \in TaskIds : FinishHandover(t)
        \/ \E d \in DeliveryIds : completeDelivery(d)
    BY <1>5 DEF FulfillmentStep, createWarehouseTask, startWarehouseTask, markItemPrepared,
                markTaskPrepared, cancelWarehouseTask, MoveTask, BeginHandover, GiveUpHandover,
                assignDelivery, dispatchDelivery, failDelivery
  <2>2. ASSUME NEW x \in OrderIds, recordPickup(x), x # o
        PROVE  Stays
    BY <1>3, <2>2 DEF recordPickup
  <2>3. ASSUME NEW t \in TaskIds, FinishHandover(t), task[t].order # o
        PROVE  Stays
    BY <1>3, <2>3 DEF FinishHandover
  <2>4. ASSUME NEW d \in DeliveryIds, completeDelivery(d), delivery[d].order # o
        PROVE  Stays
    BY <1>3, <2>4 DEF completeDelivery
  <2>5. QED
    BY <1>1, <2>1, <2>2, <2>3, <2>4
<1>6. CASE InventoryStep
  <2>1. \/ UNCHANGED order
        \/ \E x \in OrderIds, p \in Products, n \in 0..MaxStock : resolveReservationShortfall(x, p, n)
    BY <1>6 DEF InventoryStep, adjustStock, CountShelf, FileCount, reviewDiscrepancy,
                cancelDiscrepancy, ConfirmCount, FlagShortfall, ApplyCount, WriteDiscrepancy
  <2>2. ASSUME NEW x \in OrderIds, NEW p \in Products, NEW n, resolveReservationShortfall(x, p, n)
        PROVE  \E e : order' = [order EXCEPT ![x].exception = e]
    BY <2>2 DEF resolveReservationShortfall
  <2>3. QED
    BY <1>1, <1>2, <2>1, <2>2
<1>7. CASE ReturnStep
  <2>1. ASSUME NEW d \in DeliveryIds, resolveDeliveryLoss(d) \/ \E r \in ReturnIds : createReturn(d, r)
        PROVE  Stays
    <3>1. PICK x, e : order' = [order EXCEPT ![x].exception = e]
      BY <2>1 DEF resolveDeliveryLoss, createReturn
    <3>2. QED
      BY <1>2, <3>1
  <2>2. \/ UNCHANGED order
        \/ \E d \in DeliveryIds : resolveDeliveryLoss(d) \/ \E r \in ReturnIds : createReturn(d, r)
    BY <1>7 DEF ReturnStep, createDeliveryRetry, receiveReturn, inspectReturn, completeReturn,
                cancelReturn, WriteReturn
  <2>3. QED
    BY <1>1, <2>1, <2>2
<1>8. CASE PaymentStep
  <2>1. UNCHANGED order \/ \E c \in PaymentIds : CommitConfirm(c)
    BY <1>8, PaymentStepsConfirmOrders
  <2>2. ASSUME NEW c \in PaymentIds, CommitConfirm(c)
        PROVE  Stays
    BY <1>t, <2>2 DEF CommitConfirm, OrderRow
  <2>3. QED
    BY <1>1, <2>1, <2>2
<1>9. QED
  BY <1>1, <1>4, <1>5, <1>6, <1>7, <1>8 DEF Next, vars

\* A delivered delivery stays delivered, and its order's.
LEMMA DeliveredStays ==
    ASSUME TypeInvariant, [Next]_vars, NEW d \in DeliveryIds, delivery[d].status = "DELIVERED"
    PROVE  delivery'[d].status = "DELIVERED" /\ delivery'[d].order = delivery[d].order
<1>t. delivery[d] \in DeliveryRow /\ DOMAIN delivery = DeliveryIds
  BY DEF TypeInvariant, TypeOK
<1>1. CASE UNCHANGED delivery
  BY <1>1
<1>2. ASSUME NEW x, NEW resolution, delivery' = [delivery EXCEPT ![x].resolution = resolution]
      PROVE  delivery'[d].status = "DELIVERED" /\ delivery'[d].order = delivery[d].order
  BY <1>t, <1>2 DEF DeliveryRow
<1>3. ASSUME NEW e, NEW row, delivery[e].status = "ABSENT", delivery' = [delivery EXCEPT ![e] = row]
      PROVE  delivery'[d] = delivery[d]
  BY <1>3
<1>4. CASE FulfillmentStep
  <2>1. ASSUME NEW x, NEW from, NEW to, MoveDelivery(x, from, to), "DELIVERED" \notin from
        PROVE  delivery'[d] = delivery[d]
    BY <1>t, <2>1 DEF MoveDelivery
  <2>2. ASSUME NEW t \in TaskIds, FinishHandover(t)
        PROVE  delivery'[d] = delivery[d]
    BY <1>3, <2>2 DEF FinishHandover, RaiseDelivery
  <2>3. \/ UNCHANGED delivery
        \/ \E t \in TaskIds : FinishHandover(t)
        \/ \E x \in DeliveryIds :
              \/ MoveDelivery(x, {"PENDING", "ASSIGNED"}, "ASSIGNED")
              \/ MoveDelivery(x, {"PENDING", "ASSIGNED"}, "DISPATCHED")
              \/ MoveDelivery(x, {"DISPATCHED"}, "DELIVERED")
              \/ MoveDelivery(x, {"DISPATCHED"}, "FAILED")
    BY <1>4 DEF FulfillmentStep, createWarehouseTask, startWarehouseTask, markItemPrepared,
                markTaskPrepared, cancelWarehouseTask, MoveTask, BeginHandover, GiveUpHandover,
                recordPickup, assignDelivery, dispatchDelivery, completeDelivery, failDelivery
  <2>4. QED
    BY <2>1, <2>2, <2>3
<1>5. CASE ReturnStep
  <2>1. ASSUME NEW x \in DeliveryIds, NEW e \in DeliveryIds, createDeliveryRetry(x, e)
        PROVE  delivery'[d].status = "DELIVERED" /\ delivery'[d].order = delivery[d].order
    <3>1. PICK row : /\ delivery[e].status = "ABSENT" /\ delivery[x].status = "FAILED"
                     /\ delivery' = [delivery EXCEPT ![x].resolution = "RETRY_DELIVERY", ![e] = row]
      BY <2>1 DEF createDeliveryRetry, assessRetryEligibility
    <3>2. QED
      BY <1>t, <3>1
  <2>2. ASSUME NEW r \in ReturnIds, cancelReturn(r)
        PROVE  delivery'[d].status = "DELIVERED" /\ delivery'[d].order = delivery[d].order
    <3>1. delivery' = [delivery EXCEPT ![goodsReturn[r].delivery].resolution = "NULL"]
      BY <2>2 DEF cancelReturn
    <3>2. QED
      BY <1>2, <3>1
  <2>3. ASSUME NEW r \in ReturnIds, NEW x \in DeliveryIds, createReturn(x, r)
        PROVE  delivery'[d].status = "DELIVERED" /\ delivery'[d].order = delivery[d].order
    <3>1. delivery' = [delivery EXCEPT ![x].resolution = "RETURNED_TO_WAREHOUSE"]
      BY <2>3 DEF createReturn
    <3>2. QED
      BY <1>2, <3>1
  <2>4. ASSUME NEW x \in DeliveryIds, resolveDeliveryLoss(x)
        PROVE  delivery'[d].status = "DELIVERED" /\ delivery'[d].order = delivery[d].order
    BY <1>2, <2>4 DEF resolveDeliveryLoss
  <2>5. \/ UNCHANGED delivery
        \/ \E x \in DeliveryIds : resolveDeliveryLoss(x)
        \/ \E x \in DeliveryIds, r \in ReturnIds : createReturn(x, r)
        \/ \E r \in ReturnIds : cancelReturn(r)
        \/ \E x, e \in DeliveryIds : createDeliveryRetry(x, e)
    BY <1>5 DEF ReturnStep, receiveReturn, inspectReturn, completeReturn
  <2>6. QED
    BY <1>1, <2>1, <2>2, <2>3, <2>4, <2>5
<1>6. CASE OrderStep \/ InventoryStep
  BY <1>1, <1>6, StockStepsSendNothing
<1>7. CASE PaymentStep
  BY <1>1, <1>7, PaymentStepsMoveNoGoods
<1>8. QED
  BY <1>1, <1>4, <1>5, <1>6, <1>7 DEF Next, vars

\* The task an order's status is read from is one that exists.
LEMMA CompletedTaskOf ==
    ASSUME NEW o, TaskStatusOf(o) = "COMPLETED"
    PROVE  \E t \in TaskIds : task[t].status = "COMPLETED" /\ task[t].order = o
<1>1. LiveTasks(o) # {}
  BY DEF TaskStatusOf
<1>2. (CHOOSE t \in LiveTasks(o) : TRUE) \in LiveTasks(o)
  BY <1>1
<1>3. QED
  BY <1>1, <1>2 DEF TaskStatusOf, LiveTasks

\* Whoever completes an order has seen its goods handed over and delivered or collected.
LEMMA CompletionServes ==
    ASSUME TypeInvariant, [Next]_vars, NEW o \in OrderIds,
           order[o].status # "COMPLETED", order'[o].status = "COMPLETED"
    PROVE  Served(o)'
<1>t. TypeOK /\ CompletedTasksStay
  BY TasksStayCompleted DEF TypeInvariant
<1>1. ASSUME recordPickup(o)
      PROVE  Served(o)'
  <2> DEFINE collected == TRUE
  <2>1. /\ order' = AfterCompletion(o, "COMPLETED", "ABSENT", collected)
        /\ ~order[o].deliveryRequired
    BY <1>1 DEF recordPickup
  <2> HIDE DEF collected
  <2>2. /\ order'[o].pickedUp = collected
        /\ order'[o].deliveryRequired = order[o].deliveryRequired
    BY <1>t, <2>1, CompletionKeepsService
  <2>3. \E t \in TaskIds : task'[t].status = "COMPLETED" /\ task'[t].order = o
    BY <1>1, CompletedTaskOf DEF recordPickup
  <2>4. QED
    BY <2>1, <2>2, <2>3 DEF Served, collected
<1>2. ASSUME NEW t \in TaskIds, FinishHandover(t), task[t].order = o
      PROVE  Served(o)'
  <2>1. order' = AfterCompletion(o, "COMPLETED", "PENDING", order[o].pickedUp)
    BY <1>2 DEF FinishHandover
  <2>2. /\ assessCompletion(o, "COMPLETED", "PENDING", order[o].pickedUp)
        /\ order'[o].deliveryRequired = order[o].deliveryRequired
        /\ order'[o].pickedUp = order[o].pickedUp
    BY <1>t, <2>1, CompletionKeepsService
  <2>3. task'[t].status = "COMPLETED" /\ task'[t].order = o
    <3>1. task[t] \in TaskRow /\ DOMAIN task = TaskIds
      BY DEF TypeInvariant, TypeOK
    <3>2. QED
      BY <1>2, <3>1 DEF FinishHandover, TaskRow
  <2>4. QED
    BY <2>2, <2>3 DEF Served, assessCompletion
<1>3. ASSUME NEW d \in DeliveryIds, completeDelivery(d), delivery[d].order = o
      PROVE  Served(o)'
  <2>1. order' = AfterCompletion(o, TaskStatusOf(o), "DELIVERED", order[o].pickedUp)
    BY <1>3 DEF completeDelivery
  <2>2. /\ assessCompletion(o, TaskStatusOf(o), "DELIVERED", order[o].pickedUp)
        /\ order'[o].deliveryRequired = order[o].deliveryRequired
        /\ order'[o].pickedUp = order[o].pickedUp
    BY <1>t, <2>1, CompletionKeepsService
  <2>3. \E t \in TaskIds : task'[t].status = "COMPLETED" /\ task'[t].order = o
    BY <1>3, <2>2, CompletedTaskOf DEF assessCompletion, completeDelivery, MoveDelivery
  <2>4. delivery'[d].status = "DELIVERED" /\ delivery'[d].order = o
    <3>1. delivery[d] \in DeliveryRow /\ DOMAIN delivery = DeliveryIds
      BY DEF TypeInvariant, TypeOK
    <3>2. QED
      BY <1>3, <3>1 DEF completeDelivery, MoveDelivery, DeliveryRow
  <2>5. QED
    BY <2>2, <2>3, <2>4 DEF Served, assessCompletion
<1>4. ~\E r \in Requests : ReserveAndCreate(r, o)
  <2> SUFFICES ASSUME NEW r \in Requests, ReserveAndCreate(r, o) PROVE FALSE
    OBVIOUS
  <2>1. order'[o] = NewOrder(creating[r])
    BY <1>t DEF ReserveAndCreate, TypeOK
  <2>2. NewOrder(creating[r]).status = "OPEN"
    BY DEF NewOrder, NoOrder
  <2>3. QED
    BY <2>1, <2>2
<1>5. QED
  BY <1>1, <1>2, <1>3, <1>4, ServiceLife

\* A service once given stays given.
LEMMA ServiceStays ==
    ASSUME TypeInvariant, [Next]_vars, NEW o \in OrderIds, order[o].status = "COMPLETED", Served(o)
    PROVE  Served(o)'
<1>t. TypeOK /\ CompletedTasksStay
  BY TasksStayCompleted DEF TypeInvariant
<1>1. \E t \in TaskIds : task'[t].status = "COMPLETED" /\ task'[t].order = o
  BY <1>t DEF Served, CompletedTasksStay
<1>2. order'[o].deliveryRequired = order[o].deliveryRequired /\ (order[o].pickedUp => order'[o].pickedUp)
  <2>1. ~\E r \in Requests : ReserveAndCreate(r, o)
    BY DEF ReserveAndCreate
  <2>2. ASSUME NEW taskStatus, NEW deliveryStatus, NEW pickedUp, NEW x,
               order' = AfterCompletion(x, taskStatus, deliveryStatus, pickedUp),
               order[o].pickedUp /\ x = o => pickedUp
        PROVE  /\ order'[o].deliveryRequired = order[o].deliveryRequired
               /\ order[o].pickedUp => order'[o].pickedUp
    BY <1>t, <2>2, CompletionKeepsService
  <2>3. ~recordPickup(o) \/ ~order[o].pickedUp
    BY DEF recordPickup
  <2>4. CASE recordPickup(o)
    <3>1. \E pickedUp : order' = AfterCompletion(o, "COMPLETED", "ABSENT", pickedUp)
      BY <2>4 DEF recordPickup
    <3>2. QED
      BY <2>2, <2>3, <2>4, <3>1
  <2>5. ASSUME NEW t \in TaskIds, FinishHandover(t), task[t].order = o
        PROVE  /\ order'[o].deliveryRequired = order[o].deliveryRequired
               /\ order[o].pickedUp => order'[o].pickedUp
    <3>1. order' = AfterCompletion(o, "COMPLETED", "PENDING", order[o].pickedUp)
      BY <2>5 DEF FinishHandover
    <3>2. QED
      BY <2>2, <3>1
  <2>6. ASSUME NEW d \in DeliveryIds, completeDelivery(d), delivery[d].order = o
        PROVE  /\ order'[o].deliveryRequired = order[o].deliveryRequired
               /\ order[o].pickedUp => order'[o].pickedUp
    <3>1. order' = AfterCompletion(o, TaskStatusOf(o), "DELIVERED", order[o].pickedUp)
      BY <2>6 DEF completeDelivery
    <3>2. QED
      BY <2>2, <3>1
  <2>7. QED
    BY <2>1, <2>4, <2>5, <2>6, ServiceLife
<1>3. \A d \in DeliveryIds : delivery[d].status = "DELIVERED" /\ delivery[d].order = o =>
          delivery'[d].status = "DELIVERED" /\ delivery'[d].order = o
  BY DeliveredStays
<1>4. QED
  BY <1>1, <1>2, <1>3 DEF Served

\* COMPLETED means the customer has the goods, and goes on meaning it: a completed
\* task, and the delivery delivered or the collection recorded.
THEOREM CompletionMeansService == Spec => []CompletedOrderWasServed
<1> DEFINE Inv == \A o \in OrderIds : order[o].status = "COMPLETED" => Served(o)
<1>1. Init => Inv
  BY DEF Init, NoOrder
<1>2. TypeInvariant /\ Inv /\ [Next]_vars => Inv'
  BY CompletionServes, ServiceStays
<1>3. Inv => CompletedOrderWasServed
  BY DEF CompletedOrderWasServed, Served, CompletedTasks, LiveDeliveries
<1> HIDE DEF Inv
<1>4. QED
  BY <1>1, <1>2, <1>3, RowsAndLocks, PTL DEF Spec

-----------------------------------------------------------------------------
(* The lists people work from                                              *)

\* A task that is not cancelled is of an order that was released, cash or not.
ReleasedTask(t) ==
    /\ task[t].status = "ABSENT" => task[t].order = None
    /\ Live(t) => order[task[t].order].fulfillmentStatus # "NOT_READY"

\* An attempt that has the goods of a task.
Holds(d, t) == delivery[d].status # "ABSENT" /\ delivery[d].task = t /\ Carrying(d)

\* Where a delivery's goods are can be told from its rows: an attempt has them, goods
\* to be returned have a return, and what was delivered closed its order.
Tracked(d) ==
    /\ delivery[d].order = task[delivery[d].task].order
    /\ \E e \in DeliveryIds : Holds(e, delivery[d].task)
    /\ delivery[d].resolution = "RETURNED_TO_WAREHOUSE"
           => \E r \in ReturnIds : LiveReturn(r) /\ goodsReturn[r].delivery = d
    /\ (delivery[d].status = "DELIVERED" /\ order[delivery[d].order].deliveryRequired)
           => order[delivery[d].order].status # "OPEN"

TasksAreReleased    == \A t \in TaskIds : ReleasedTask(t)
DeliveriesAreTracked == \A d \in DeliveryIds : delivery[d].status # "ABSENT" => Tracked(d)

ListsInvariant == TasksAreReleased /\ DeliveriesAreTracked

LEMMA ListsInit == Init => ListsInvariant
BY DEF Init, ListsInvariant, TasksAreReleased, DeliveriesAreTracked, ReleasedTask, Live,
       NoTask, NoDelivery

\* What a step does to the order of a task or of a delivery: it is not converted
\* again, not opened again and not taken back from release.
LEMMA OrderGoesOn ==
    ASSUME TypeInvariant, LockInvariant, [Next]_vars,
           NEW o \in OrderIds, order[o].status # "ABSENT"
    PROVE  /\ order[o].fulfillmentStatus # "NOT_READY" => order'[o].fulfillmentStatus # "NOT_READY"
           /\ order[o].status # "OPEN" => order'[o].status # "OPEN"
           /\ order'[o].deliveryRequired = order[o].deliveryRequired
<1>t. TypeOK /\ TypeInvariant'
  BY TypeInvariantStep DEF TypeInvariant
<1>1. ~\E r \in Requests : ReserveAndCreate(r, o)
  BY DEF ReserveAndCreate
<1>2. /\ order[o].fulfillmentStatus # "NOT_READY" => order'[o].fulfillmentStatus # "NOT_READY"
      /\ order[o].status # "OPEN" => order'[o].status # "OPEN"
  <2>1. CASE OrderStep \/ FulfillmentStep \/ InventoryStep \/ ReturnStep
    BY <1>t, <1>1, <2>1, OrderLife, CancelledRow DEF KeepsTerms, Completes
  <2>2. ASSUME NEW c \in PaymentIds, CommitConfirm(c)
        PROVE  /\ order[o].fulfillmentStatus # "NOT_READY" => order'[o].fulfillmentStatus # "NOT_READY"
               /\ order[o].status # "OPEN" => order'[o].status # "OPEN"
    BY <1>t, <2>2, ConfirmationOfOrder, CommittedOrder DEF KeepsTerms
  <2>3. CASE UNCHANGED order
    BY <2>3
  <2>4. CASE PaymentStep
    BY <2>2, <2>3, <2>4 DEF PaymentStep, submitPayment, StartExtraction, FinishExtraction,
                StartCorrection, FinishCorrection, GiveUpEdit, assessPayment, BeginConfirm,
                GiveUpConfirm, rejectPayment
  <2>5. QED
    BY <2>1, <2>3, <2>4 DEF Next, vars
<1>3. order'[o].deliveryRequired = order[o].deliveryRequired
  <2>1. ASSUME NEW x, NEW taskStatus, NEW deliveryStatus, NEW pickedUp,
               order' = AfterCompletion(x, taskStatus, deliveryStatus, pickedUp)
        PROVE  order'[o].deliveryRequired = order[o].deliveryRequired
    BY <1>t, <2>1, CompletionKeepsService
  <2>2. CASE recordPickup(o)
    <3>1. \E pickedUp : order' = AfterCompletion(o, "COMPLETED", "ABSENT", pickedUp)
      BY <2>2 DEF recordPickup
    <3>2. QED
      BY <2>1, <3>1
  <2>3. ASSUME NEW t \in TaskIds, FinishHandover(t), task[t].order = o
        PROVE  order'[o].deliveryRequired = order[o].deliveryRequired
    <3>1. order' = AfterCompletion(o, "COMPLETED", "PENDING", order[o].pickedUp)
      BY <2>3 DEF FinishHandover
    <3>2. QED
      BY <2>1, <3>1
  <2>4. ASSUME NEW d \in DeliveryIds, completeDelivery(d), delivery[d].order = o
        PROVE  order'[o].deliveryRequired = order[o].deliveryRequired
    <3>1. order' = AfterCompletion(o, TaskStatusOf(o), "DELIVERED", order[o].pickedUp)
      BY <2>4 DEF completeDelivery
    <3>2. QED
      BY <2>1, <3>1
  <2>5. QED
    BY <1>1, <2>2, <2>3, <2>4, ServiceLife
<1>4. QED
  BY <1>2, <1>3

\* A task is made for a released order, and release is not taken back.
LEMMA TasksStayReleased ==
    ASSUME TypeInvariant, LockInvariant, TasksAreReleased, [Next]_vars
    PROVE  TasksAreReleased'
<1> SUFFICES ASSUME NEW t \in TaskIds PROVE ReleasedTask(t)'
  BY DEF TasksAreReleased
<1>t. task[t] \in TaskRow /\ DOMAIN task = TaskIds
  BY DEF TypeInvariant, TypeOK
<1>0. ReleasedTask(t)
  BY DEF TasksAreReleased
<1>1. ASSUME Live(t), task'[t].order = task[t].order, task'[t].status # "ABSENT"
      PROVE  ReleasedTask(t)'
  <2>1. task[t].order \in OrderIds /\ order[task[t].order].status # "ABSENT"
    BY <1>1 DEF Live, TypeInvariant, ForeignKeys
  <2>2. QED
    BY <1>0, <1>1, <2>1, OrderGoesOn DEF ReleasedTask
<1>2. CASE task'[t].status = task[t].status /\ task'[t].order = task[t].order
  <2>1. CASE Live(t)
    BY <1>1, <1>2, <2>1 DEF Live
  <2>2. CASE ~Live(t)
    BY <1>0, <1>2, <2>2 DEF Live, ReleasedTask
  <2>3. QED
    BY <2>1, <2>2
<1>3. ASSUME NEW o \in OrderIds, createWarehouseTask(o, t)
      PROVE  ReleasedTask(t)'
  <2> DEFINE row == [status |-> "PENDING", order |-> o, required |-> item[o], prepared |-> {}]
  <2>1. task'[t] = row
    BY <1>t, <1>3 DEF createWarehouseTask
  <2>2. row.status = "PENDING" /\ row.order = o
    OBVIOUS
  <2>3. order'[o].fulfillmentStatus = "READY"
    BY <1>3 DEF createWarehouseTask, assessEligibility
  <2> HIDE DEF row
  <2>4. QED
    BY <2>1, <2>2, <2>3 DEF ReleasedTask
<1>4. ASSUME NEW to \in {"IN_PROGRESS", "PREPARED", "CANCELLED"}, MoveTask(t, to)
      PROVE  ReleasedTask(t)'
  <2>1. Live(t)
    BY <1>4 DEF MoveTask, TASK_TRANSITIONS, Live
  <2>2. task'[t].order = task[t].order /\ task'[t].status = to
    BY <1>t, <1>4 DEF MoveTask, TaskRow
  <2>3. QED
    BY <1>1, <2>1, <2>2
<1>5. CASE FinishHandover(t)
  <2>1. Live(t)
    BY <1>5 DEF FinishHandover, TypeInvariant, WorkInFlight, Live
  <2>2. task'[t].order = task[t].order /\ task'[t].status = "COMPLETED"
    BY <1>t, <1>5 DEF FinishHandover, TaskRow
  <2>3. QED
    BY <1>1, <2>1, <2>2
<1>6. QED
  BY <1>2, <1>3, <1>4, <1>5, TaskLife

\* A delivery keeps its story when its row stays about the same task, what it was
\* resolved to stays true, and whoever has the goods keeps them or hands them on.
LEMMA StillTracked ==
    ASSUME TypeInvariant, LockInvariant, CompletedTasksStay, RoadInvariant, DeliveriesAreTracked,
           [Next]_vars, NEW d \in DeliveryIds, delivery[d].status # "ABSENT",
           delivery'[d].order = delivery[d].order, delivery'[d].task = delivery[d].task,
           delivery'[d].status = "DELIVERED" => delivery[d].status = "DELIVERED",
           \E e \in DeliveryIds : Holds(e, delivery[d].task)',
           delivery'[d].resolution = "RETURNED_TO_WAREHOUSE"
               => \E r \in ReturnIds : LiveReturn(r)' /\ goodsReturn'[r].delivery = d
    PROVE  Tracked(d)'
<1>1. Tracked(d)
  BY DEF DeliveriesAreTracked
<1>2. /\ task'[delivery[d].task].order = task[delivery[d].task].order
      /\ delivery[d].task \in TaskIds /\ task[delivery[d].task].status = "COMPLETED"
  BY DeliveryTask DEF CompletedTasksStay
<1>3. delivery[d].order \in OrderIds /\ order[delivery[d].order].status # "ABSENT"
  BY <1>1, <1>2 DEF Tracked, TypeInvariant, ForeignKeys
<1>4. (delivery'[d].status = "DELIVERED" /\ order'[delivery[d].order].deliveryRequired)
          => order'[delivery[d].order].status # "OPEN"
  BY <1>1, <1>3, OrderGoesOn DEF Tracked
<1>5. QED
  BY <1>1, <1>2, <1>4 DEF Tracked

\* Whoever has a task's goods still has them, as long as no attempt gives them up.
LEMMA HoldersStay ==
    ASSUME NEW t, \E e \in DeliveryIds : Holds(e, t),
           \A e \in DeliveryIds : Holds(e, t) => \E x \in DeliveryIds : Holds(x, t)'
    PROVE  \E e \in DeliveryIds : Holds(e, t)'
OBVIOUS

\* A step that writes neither deliveries nor returns.
LEMMA TrackedUnwritten ==
    ASSUME TypeInvariant, LockInvariant, CompletedTasksStay, RoadInvariant, DeliveriesAreTracked,
           [Next]_vars, UNCHANGED <<delivery, goodsReturn>>
    PROVE  DeliveriesAreTracked'
<1> SUFFICES ASSUME NEW d \in DeliveryIds, delivery'[d].status # "ABSENT" PROVE Tracked(d)'
  BY DEF DeliveriesAreTracked
<1>1. Tracked(d)
  BY DEF DeliveriesAreTracked
<1>2. \E e \in DeliveryIds : Holds(e, delivery[d].task)'
  BY <1>1 DEF Tracked, Holds, Carrying
<1>3. delivery'[d].resolution = "RETURNED_TO_WAREHOUSE"
          => \E r \in ReturnIds : LiveReturn(r)' /\ goodsReturn'[r].delivery = d
  BY <1>1 DEF Tracked, LiveReturn
<1>4. QED
  BY <1>2, <1>3, StillTracked

\* A handover that raises a delivery gives it the goods.
LEMMA HandoverIsTracked ==
    ASSUME TypeInvariant, LockInvariant, CompletedTasksStay, RoadInvariant, DeliveriesAreTracked,
           [Next]_vars, NEW t \in TaskIds, FinishHandover(t)
    PROVE  DeliveriesAreTracked'
<1>1. CASE UNCHANGED delivery
  BY <1>1, TrackedUnwritten DEF FinishHandover
<1>2. ASSUME NEW n \in DeliveryIds, delivery[n].status = "ABSENT",
             delivery' = [delivery EXCEPT ![n] =
                 [NoDelivery EXCEPT !.status = "PENDING", !.order = task[t].order, !.task = t]]
      PROVE  DeliveriesAreTracked'
  <2>1. /\ delivery'[n].status = "PENDING" /\ delivery'[n].task = t
        /\ delivery'[n].order = task[t].order /\ delivery'[n].resolution = "NULL"
        /\ \A x \in DeliveryIds \ {n} : delivery'[x] = delivery[x]
    BY <1>2 DEF TypeInvariant, TypeOK, NoDelivery
  <2>2. task'[t].order = task[t].order /\ UNCHANGED goodsReturn
    <3>1. task[t] \in TaskRow /\ DOMAIN task = TaskIds
      BY DEF TypeInvariant, TypeOK
    <3>2. QED
      BY <3>1 DEF FinishHandover, TaskRow
  <2>3. Tracked(n)'
    BY <2>1, <2>2 DEF Tracked, Holds, Carrying
  <2>4. ASSUME NEW d \in DeliveryIds \ {n}, delivery'[d].status # "ABSENT"
        PROVE  Tracked(d)'
    <3>1. delivery'[d] = delivery[d] /\ Tracked(d)
      BY <2>1, <2>4 DEF DeliveriesAreTracked
    <3>2. \E e \in DeliveryIds : Holds(e, delivery[d].task)'
      BY <1>2, <2>1, <3>1 DEF Tracked, Holds, Carrying
    <3>3. delivery'[d].resolution = "RETURNED_TO_WAREHOUSE"
              => \E r \in ReturnIds : LiveReturn(r)' /\ goodsReturn'[r].delivery = d
      BY <2>2, <3>1 DEF Tracked, LiveReturn
    <3>4. QED
      BY <2>4, <3>1, <3>2, <3>3, StillTracked
  <2>5. QED
    BY <2>3, <2>4 DEF DeliveriesAreTracked
<1>3. QED
  BY <1>1, <1>2 DEF FinishHandover, RaiseDelivery

\* An attempt that moves on the road still has the goods; one that is delivered
\* completes its order, whose task is done and which was paid if it had to be.
LEMMA MoveDeliveryIsTracked ==
    ASSUME TypeInvariant, HandoverInvariant, LockInvariant, MoneyInvariant, CompletedTasksStay,
           RoadInvariant, ListsInvariant, [Next]_vars, NEW d \in DeliveryIds,
           NEW from \in SUBSET {"PENDING", "ASSIGNED", "DISPATCHED"},
           NEW to \in {"ASSIGNED", "DISPATCHED", "DELIVERED", "FAILED"}, MoveDelivery(d, from, to),
           to = "DELIVERED" => completeDelivery(d)
    PROVE  DeliveriesAreTracked'
<1>1. /\ delivery[d].status \in {"PENDING", "ASSIGNED", "DISPATCHED"}
      /\ delivery' = [delivery EXCEPT ![d].status = to]
      /\ UNCHANGED <<goodsReturn, task>>
  BY DEF MoveDelivery
<1>2. delivery[d] \in DeliveryRow /\ DOMAIN delivery = DeliveryIds
  BY DEF TypeInvariant, TypeOK
<1>3. /\ delivery'[d].status = to
      /\ delivery'[d].order = delivery[d].order
      /\ delivery'[d].task = delivery[d].task
      /\ delivery'[d].resolution = delivery[d].resolution
      /\ \A x \in DeliveryIds \ {d} : delivery'[x] = delivery[x]
  BY <1>1, <1>2 DEF DeliveryRow
<1>4. ASSUME NEW x \in DeliveryIds, delivery'[x].status # "ABSENT"
      PROVE  /\ delivery[x].status # "ABSENT" /\ Tracked(x)
             /\ delivery'[x].order = delivery[x].order /\ delivery'[x].task = delivery[x].task
             /\ \E e \in DeliveryIds : Holds(e, delivery[x].task)'
             /\ delivery'[x].resolution = "RETURNED_TO_WAREHOUSE"
                    => \E r \in ReturnIds : LiveReturn(r)' /\ goodsReturn'[r].delivery = x
  <2>1. delivery[x].status # "ABSENT" /\ Tracked(x)
    BY <1>1, <1>3, <1>4 DEF ListsInvariant, DeliveriesAreTracked
  <2>2. \A e \in DeliveryIds : Holds(e, delivery[x].task) => Holds(e, delivery[x].task)'
    BY <1>3 DEF Holds, Carrying
  <2>3. QED
    BY <1>1, <1>3, <2>1, <2>2 DEF Tracked, LiveReturn
<1>5. ASSUME to = "DELIVERED", order'[delivery[d].order].deliveryRequired
      PROVE  order'[delivery[d].order].status # "OPEN"
  <2> DEFINE o == delivery[d].order
             t == delivery[d].task
             collected == order[o].pickedUp
             taskStatus == TaskStatusOf(o)
  <2>1. /\ t \in TaskIds /\ task[t].status = "COMPLETED" /\ task[t].order = o
    BY <1>1, DeliveryTask DEF ListsInvariant, DeliveriesAreTracked, Tracked
  <2>2. o \in OrderIds /\ order[o].status # "ABSENT"
    BY <2>1 DEF TypeInvariant, ForeignKeys
  <2>3. LiveTasks(o) = {t}
    <3>1. \A u \in LiveTasks(o) : Live(u)
      BY <2>2, NoneIsNoRow DEF LiveTasks, Live, ListsInvariant, TasksAreReleased, ReleasedTask
    <3>2. Live(t) /\ t \in LiveTasks(o)
      BY <2>1 DEF Live, LiveTasks
    <3>3. \A u \in LiveTasks(o) : u = t
      BY <2>1, <3>1, <3>2 DEF HandoverInvariant, OneLiveTask, LiveTasks
    <3>4. QED
      BY <3>2, <3>3
  <2>4. taskStatus = "COMPLETED"
    BY <2>1, <2>3 DEF TaskStatusOf
  <2>5. order' = AfterCompletion(o, taskStatus, "DELIVERED", collected)
    BY <1>5 DEF completeDelivery
  <2>6. order'[o].deliveryRequired = order[o].deliveryRequired
    BY <2>2, OrderGoesOn
  <2>7. order[o].status = "OPEN" => CashSettled(o)
    <3>1. order[o] \in OrderRow
      BY <2>2 DEF TypeInvariant, TypeOK
    <3>2. order[o].status = "OPEN" => order[o].fulfillmentStatus = "READY"
      BY <2>1, <2>2, <3>1 DEF ListsInvariant, TasksAreReleased, ReleasedTask, Live, MoneyInvariant,
                        CancelledTogether, OrderRow
    <3>3. QED
      BY <2>2, <3>2 DEF MoneyInvariant, PaymentStatusIsEarned, CashSettled
  <2>8. order[o] \in OrderRow /\ DOMAIN order = OrderIds
    BY <2>2 DEF TypeInvariant, TypeOK
  <2> HIDE DEF collected, taskStatus
  <2>9. order[o].status = "OPEN" => assessCompletion(o, taskStatus, "DELIVERED", collected)
    BY <1>5, <2>4, <2>6, <2>7 DEF assessCompletion
  <2>10. QED
    BY <2>2, <2>5, <2>8, <2>9 DEF AfterCompletion, OrderRow
<1>6. Tracked(d)'
  <2>1. CASE to = "DELIVERED"
    <3>1. task'[delivery[d].task].order = delivery[d].order
      BY <1>1, DeliveryTask DEF ListsInvariant, DeliveriesAreTracked, Tracked
    <3>2. QED
      BY <1>3, <1>4, <1>5, <2>1, <3>1 DEF Tracked
  <2>2. CASE to # "DELIVERED"
    BY <1>1, <1>3, <1>4, <2>2, StillTracked DEF ListsInvariant
  <2>3. QED
    BY <2>1, <2>2
<1>7. ASSUME NEW x \in DeliveryIds \ {d}, delivery'[x].status # "ABSENT"
      PROVE  Tracked(x)'
  BY <1>3, <1>4, <1>7, StillTracked DEF ListsInvariant
<1>8. QED
  BY <1>6, <1>7 DEF DeliveriesAreTracked

\* A retry takes over what the attempt before it had.
LEMMA RetryIsTracked ==
    ASSUME TypeInvariant, LockInvariant, CompletedTasksStay, RoadInvariant, DeliveriesAreTracked,
           [Next]_vars, NEW d \in DeliveryIds, NEW n \in DeliveryIds, createDeliveryRetry(d, n)
    PROVE  DeliveriesAreTracked'
<1> DEFINE new == [status |-> "PENDING", order |-> delivery[d].order, task |-> delivery[d].task,
                   resolution |-> "NULL", retryOf |-> d]
<1>1. /\ delivery[d].status = "FAILED" /\ delivery[n].status = "ABSENT"
      /\ delivery' = [delivery EXCEPT ![d].resolution = "RETRY_DELIVERY", ![n] = new]
      /\ UNCHANGED goodsReturn
  BY DEF createDeliveryRetry, assessRetryEligibility
<1>2. delivery[d] \in DeliveryRow /\ DOMAIN delivery = DeliveryIds /\ d # n
  BY <1>1 DEF TypeInvariant, TypeOK
<1>3. /\ new.status = "PENDING" /\ new.order = delivery[d].order /\ new.task = delivery[d].task
      /\ new.resolution = "NULL"
  OBVIOUS
<1> HIDE DEF new
<1>4. /\ delivery'[d].status = "FAILED" /\ delivery'[d].task = delivery[d].task
      /\ delivery'[d].order = delivery[d].order /\ delivery'[d].resolution = "RETRY_DELIVERY"
      /\ delivery'[n] = new
      /\ \A x \in DeliveryIds \ {d, n} : delivery'[x] = delivery[x]
  BY <1>1, <1>2, SMTT(30) DEF DeliveryRow
<1>5. Holds(n, delivery[d].task)'
  BY <1>3, <1>4 DEF Holds, Carrying
<1>6. \A t : (\E e \in DeliveryIds : Holds(e, t)) => \E e \in DeliveryIds : Holds(e, t)'
  BY <1>1, <1>4, <1>5, ZenonT(40) DEF Holds, Carrying
<1>7. ASSUME NEW x \in DeliveryIds \ {n}, delivery[x].status # "ABSENT"
      PROVE  Tracked(x)'
  <2>1. Tracked(x)
    BY <1>7 DEF DeliveriesAreTracked
  <2>2. /\ delivery'[x].order = delivery[x].order /\ delivery'[x].task = delivery[x].task
        /\ delivery'[x].status = delivery[x].status
    BY <1>1, <1>4, <1>7
  <2>3. \E e \in DeliveryIds : Holds(e, delivery[x].task)'
    BY <1>6, <2>1, <2>2 DEF Tracked
  <2>4. delivery'[x].resolution = "RETURNED_TO_WAREHOUSE"
            => \E r \in ReturnIds : LiveReturn(r)' /\ goodsReturn'[r].delivery = x
    BY <1>1, <1>4, <2>1 DEF Tracked, LiveReturn
  <2>5. QED
    BY <1>7, <2>2, <2>3, <2>4, StillTracked
<1>8. Tracked(n)'
  <2>1. task'[delivery[d].task].order = delivery[d].order
    BY <1>1, DeliveryTask DEF CompletedTasksStay, DeliveriesAreTracked, Tracked
  <2>2. QED
    BY <1>3, <1>4, <1>5, <2>1 DEF Tracked
<1>9. \A x \in DeliveryIds \ {n} : delivery'[x].status # "ABSENT" => delivery[x].status # "ABSENT"
  BY <1>1, <1>4
<1>10. QED
  BY <1>7, <1>8, <1>9 DEF DeliveriesAreTracked

\* A decision about a failed attempt that is not to try again: the goods stay its own.
LEMMA DecisionIsTracked ==
    ASSUME TypeInvariant, LockInvariant, CompletedTasksStay, RoadInvariant, DeliveriesAreTracked,
           [Next]_vars, NEW d \in DeliveryIds, delivery[d].status = "FAILED",
           NEW resolution \in {"NULL", "RETURNED_TO_WAREHOUSE", "LOST_OR_UNRECOVERABLE"},
           delivery' = [delivery EXCEPT ![d].resolution = resolution],
           resolution = "RETURNED_TO_WAREHOUSE"
               => \E r \in ReturnIds : LiveReturn(r)' /\ goodsReturn'[r].delivery = d,
           \A r \in ReturnIds : LiveReturn(r) /\ goodsReturn[r].delivery # d
               => LiveReturn(r)' /\ goodsReturn'[r].delivery = goodsReturn[r].delivery
    PROVE  DeliveriesAreTracked'
<1>1. delivery[d] \in DeliveryRow /\ DOMAIN delivery = DeliveryIds
  BY DEF TypeInvariant, TypeOK
<1>2. /\ delivery'[d].status = "FAILED" /\ delivery'[d].task = delivery[d].task
      /\ delivery'[d].order = delivery[d].order /\ delivery'[d].resolution = resolution
      /\ \A x \in DeliveryIds \ {d} : delivery'[x] = delivery[x]
  BY <1>1 DEF DeliveryRow
<1>3. \A t, e : e \in DeliveryIds /\ Holds(e, t) => Holds(e, t)'
  BY <1>2 DEF Holds, Carrying
<1>4. ASSUME NEW x \in DeliveryIds, delivery'[x].status # "ABSENT"
      PROVE  Tracked(x)'
  <2>1. delivery[x].status # "ABSENT" /\ Tracked(x)
    BY <1>2, <1>4 DEF DeliveriesAreTracked
  <2>2. \E e \in DeliveryIds : Holds(e, delivery[x].task)'
    BY <1>3, <2>1 DEF Tracked
  <2>3. delivery'[x].resolution = "RETURNED_TO_WAREHOUSE"
            => \E r \in ReturnIds : LiveReturn(r)' /\ goodsReturn'[r].delivery = x
    BY <1>2, <2>1 DEF Tracked
  <2>4. /\ delivery'[x].order = delivery[x].order /\ delivery'[x].task = delivery[x].task
        /\ delivery'[x].status = delivery[x].status
    BY <1>2
  <2>5. QED
    BY <2>1, <2>2, <2>3, <2>4, StillTracked
<1>5. QED
  BY <1>4 DEF DeliveriesAreTracked

\* A return that moves on, or is inspected, is still there.
LEMMA ReturnIsTracked ==
    ASSUME TypeInvariant, LockInvariant, CompletedTasksStay, RoadInvariant, DeliveriesAreTracked,
           [Next]_vars, UNCHANGED delivery,
           \A r \in ReturnIds : LiveReturn(r)
               => LiveReturn(r)' /\ goodsReturn'[r].delivery = goodsReturn[r].delivery
    PROVE  DeliveriesAreTracked'
<1> SUFFICES ASSUME NEW d \in DeliveryIds, delivery'[d].status # "ABSENT" PROVE Tracked(d)'
  BY DEF DeliveriesAreTracked
<1>1. Tracked(d)
  BY DEF DeliveriesAreTracked
<1>2. \E e \in DeliveryIds : Holds(e, delivery[d].task)'
  BY <1>1 DEF Tracked, Holds, Carrying
<1>3. delivery'[d].resolution = "RETURNED_TO_WAREHOUSE"
          => \E r \in ReturnIds : LiveReturn(r)' /\ goodsReturn'[r].delivery = d
  BY <1>1 DEF Tracked
<1>4. QED
  BY <1>2, <1>3, StillTracked

\* Every step of what follows a failed delivery.
LEMMA ReturnStepIsTracked ==
    ASSUME TypeInvariant, LockInvariant, CompletedTasksStay, RoadInvariant, DeliveriesAreTracked,
           [Next]_vars, ReturnStep
    PROVE  DeliveriesAreTracked'
<1>t. DOMAIN goodsReturn = ReturnIds /\ \A r \in ReturnIds : goodsReturn[r] \in ReturnRow
  BY DEF TypeInvariant, TypeOK
<1>1. ASSUME NEW d \in DeliveryIds, resolveDeliveryLoss(d)
      PROVE  DeliveriesAreTracked'
  <2>1. /\ delivery[d].status = "FAILED"
        /\ delivery' = [delivery EXCEPT ![d].resolution = "LOST_OR_UNRECOVERABLE"]
        /\ UNCHANGED goodsReturn
    BY <1>1 DEF resolveDeliveryLoss
  <2>2. QED
    BY <2>1, DecisionIsTracked DEF LiveReturn
<1>2. ASSUME NEW d \in DeliveryIds, NEW r \in ReturnIds, createReturn(d, r)
      PROVE  DeliveriesAreTracked'
  <2> DEFINE new == [status |-> "EXPECTED", delivery |-> d,
                     dispatched |-> task[delivery[d].task].required,
                     restockable |-> Nothing, damaged |-> Nothing]
  <2>1. /\ delivery[d].status = "FAILED" /\ goodsReturn[r].status = "ABSENT"
        /\ goodsReturn' = [goodsReturn EXCEPT ![r] = new]
        /\ delivery' = [delivery EXCEPT ![d].resolution = "RETURNED_TO_WAREHOUSE"]
    BY <1>2 DEF createReturn
  <2>2. new.status = "EXPECTED" /\ new.delivery = d
    OBVIOUS
  <2> HIDE DEF new
  <2>3. goodsReturn'[r] = new /\ \A s \in ReturnIds \ {r} : goodsReturn'[s] = goodsReturn[s]
    BY <1>t, <2>1
  <2>4. QED
    BY <2>1, <2>2, <2>3, DecisionIsTracked DEF LiveReturn
<1>3. ASSUME NEW r \in ReturnIds, cancelReturn(r)
      PROVE  DeliveriesAreTracked'
  <2>1. /\ goodsReturn[r].status \in {"EXPECTED", "RECEIVED", "INSPECTED"}
        /\ goodsReturn' = [goodsReturn EXCEPT ![r] = [goodsReturn[r] EXCEPT !.status = "CANCELLED"]]
        /\ delivery' = [delivery EXCEPT ![goodsReturn[r].delivery].resolution = "NULL"]
    BY <1>3 DEF cancelReturn, CanMove, RETURN_TRANSITIONS, WriteReturn
  <2>2. goodsReturn[r].delivery \in DeliveryIds /\ delivery[goodsReturn[r].delivery].status = "FAILED"
    BY <2>1 DEF LiveReturn, RoadInvariant, ReturnsFollowTheirDelivery, ReturnFollowsItsDelivery
  <2>3. \A s \in ReturnIds \ {r} : goodsReturn'[s] = goodsReturn[s]
    BY <1>t, <2>1
  <2>4. QED
    BY <2>1, <2>2, <2>3, DecisionIsTracked DEF LiveReturn
<1>4. ASSUME NEW r \in ReturnIds, NEW row, UNCHANGED delivery,
             LiveReturn(r) => row.status \notin {"ABSENT", "CANCELLED"},
             row.delivery = goodsReturn[r].delivery,
             goodsReturn' = [goodsReturn EXCEPT ![r] = row]
      PROVE  DeliveriesAreTracked'
  <2>1. goodsReturn'[r] = row /\ \A s \in ReturnIds \ {r} : goodsReturn'[s] = goodsReturn[s]
    BY <1>t, <1>4
  <2>2. QED
    BY <1>4, <2>1, ReturnIsTracked DEF LiveReturn
<1>5. ASSUME NEW r \in ReturnIds, NEW to \in {"RECEIVED", "COMPLETED"}, UNCHANGED delivery,
             goodsReturn' = [goodsReturn EXCEPT ![r] = [goodsReturn[r] EXCEPT !.status = to]]
      PROVE  DeliveriesAreTracked'
  <2> DEFINE row == [goodsReturn[r] EXCEPT !.status = to]
  <2>1. row.status = to /\ row.delivery = goodsReturn[r].delivery
    BY <1>t DEF ReturnRow
  <2>2. goodsReturn' = [goodsReturn EXCEPT ![r] = row]
    BY <1>5
  <2> HIDE DEF row
  <2>3. QED
    BY <1>4, <1>5, <2>1, <2>2
<1>6. ASSUME NEW r \in ReturnIds, NEW split, NEW all, inspectReturn(r, split, all)
      PROVE  DeliveriesAreTracked'
  <2> DEFINE row == [SaveLines(r, split) EXCEPT !.status = IF all THEN "INSPECTED" ELSE @]
  <2>1. /\ goodsReturn[r].status \in {"RECEIVED", "INSPECTED"}
        /\ goodsReturn' = [goodsReturn EXCEPT ![r] = row]
        /\ UNCHANGED delivery
    BY <1>6 DEF inspectReturn, WriteReturn
  <2>2. /\ row.status = IF all THEN "INSPECTED" ELSE goodsReturn[r].status
        /\ row.delivery = goodsReturn[r].delivery
    BY <1>t DEF SaveLines, ReturnRow
  <2> HIDE DEF row
  <2>3. row.status \notin {"ABSENT", "CANCELLED"}
    BY <2>1, <2>2
  <2>4. QED
    BY <1>4, <2>1, <2>2, <2>3
<1>7. ASSUME NEW r \in ReturnIds, completeReturn(r)
      PROVE  DeliveriesAreTracked'
  <2>1. /\ goodsReturn' = [goodsReturn EXCEPT ![r] = [goodsReturn[r] EXCEPT !.status = "COMPLETED"]]
        /\ UNCHANGED delivery
    BY <1>7 DEF completeReturn
  <2>2. QED
    BY <1>5, <2>1
<1>8. ASSUME NEW r \in ReturnIds, receiveReturn(r)
      PROVE  DeliveriesAreTracked'
  <2>1. /\ goodsReturn' = [goodsReturn EXCEPT ![r] = [goodsReturn[r] EXCEPT !.status = "RECEIVED"]]
        /\ UNCHANGED delivery
    BY <1>8 DEF receiveReturn, WriteReturn
  <2>2. QED
    BY <1>5, <2>1
<1>9. QED
  BY <1>1, <1>2, <1>3, <1>6, <1>7, <1>8, RetryIsTracked DEF ReturnStep

\* Every step of the core leaves the tables such that the lists find what is open.
LEMMA ListsStep ==
    /\ TypeInvariant /\ HandoverInvariant /\ LockInvariant /\ MoneyInvariant /\ RoadInvariant
    /\ ListsInvariant /\ [Next]_vars
    => ListsInvariant'
<1> SUFFICES ASSUME TypeInvariant, HandoverInvariant, LockInvariant, MoneyInvariant, RoadInvariant,
                    ListsInvariant, [Next]_vars
             PROVE  ListsInvariant'
  OBVIOUS
<1>1. CompletedTasksStay /\ TasksAreReleased /\ DeliveriesAreTracked
  BY TasksStayCompleted DEF ListsInvariant
<1>2. TasksAreReleased'
  BY <1>1, TasksStayReleased
<1>3. CASE UNCHANGED <<delivery, goodsReturn>>
  BY <1>1, <1>2, <1>3, TrackedUnwritten DEF ListsInvariant
<1>4. CASE FulfillmentStep
  <2>1. \/ UNCHANGED <<delivery, goodsReturn>>
        \/ \E t \in TaskIds : FinishHandover(t)
        \/ \E d \in DeliveryIds :
              \/ MoveDelivery(d, {"PENDING", "ASSIGNED"}, "ASSIGNED")
              \/ MoveDelivery(d, {"PENDING", "ASSIGNED"}, "DISPATCHED")
              \/ MoveDelivery(d, {"DISPATCHED"}, "DELIVERED") /\ completeDelivery(d)
              \/ MoveDelivery(d, {"DISPATCHED"}, "FAILED")
    BY <1>4 DEF FulfillmentStep, createWarehouseTask, startWarehouseTask, markItemPrepared,
                markTaskPrepared, cancelWarehouseTask, MoveTask, BeginHandover, GiveUpHandover,
                recordPickup, assignDelivery, dispatchDelivery, completeDelivery, failDelivery
  <2>2. DeliveriesAreTracked'
    BY <1>1, <2>1, TrackedUnwritten, HandoverIsTracked, MoveDeliveryIsTracked
  <2>3. QED
    BY <1>2, <2>2 DEF ListsInvariant
<1>5. CASE ReturnStep
  BY <1>1, <1>2, <1>5, ReturnStepIsTracked DEF ListsInvariant
<1>6. CASE OrderStep \/ InventoryStep
  BY <1>3, <1>6, StockStepsSendNothing
<1>7. CASE PaymentStep
  BY <1>3, <1>7, PaymentStepsMoveNoGoods
<1>8. QED
  BY <1>3, <1>4, <1>5, <1>6, <1>7 DEF Next, vars

\* The attempt that has the goods of an order is on a list, or it is in one of the gaps.
LEMMA HolderIsShown ==
    ASSUME TypeInvariant, RoadInvariant, DeliveriesAreTracked, NEW o \in OrderIds,
           order[o].status = "OPEN", NEW d \in DeliveryIds,
           delivery[d].status # "ABSENT", delivery[d].order = o, Carrying(d)
    PROVE  \/ OnAList(o)
           \/ ~order[o].deliveryRequired
           \/ GoodsRestocked(d)
           \/ delivery[d].resolution = "LOST_OR_UNRECOVERABLE" /\ order[o].paymentStatus # "PAID"
<1>1. delivery[d] \in DeliveryRow /\ Tracked(d)
  BY DEF TypeInvariant, TypeOK, DeliveriesAreTracked
<1>2. CASE delivery[d].status \in {"PENDING", "ASSIGNED", "DISPATCHED"}
  BY <1>2 DEF OnAList, deliveriesPending, deliveriesDispatched
<1>3. CASE delivery[d].status = "DELIVERED"
  BY <1>1, <1>3 DEF Tracked
<1>4. CASE delivery[d].status = "FAILED" /\ delivery[d].resolution = "NULL"
  <2>1. d \in failedDeliveriesOpen
    BY <1>4 DEF failedDeliveriesOpen
  <2>2. [kind |-> "FAILED_DELIVERY_UNRESOLVED", entity |-> d] \in attentionQueue
    BY <2>1 DEF attentionQueue
  <2>3. \E a \in attentionQueue : a.entity = d
    BY <2>2
  <2>4. QED
    BY <2>3 DEF OnAList
<1>5. CASE /\ delivery[d].status = "FAILED" /\ delivery[d].resolution = "LOST_OR_UNRECOVERABLE"
           /\ order[o].paymentStatus = "PAID"
  <2>1. [kind |-> "PAID_ORDER_GOODS_LOST", entity |-> d] \in attentionQueue
    BY <1>5 DEF attentionQueue
  <2>2. \E a \in attentionQueue : a.entity = d
    BY <2>1
  <2>3. QED
    BY <2>2 DEF OnAList
<1>6. CASE delivery[d].resolution = "RETURNED_TO_WAREHOUSE"
  <2>1. PICK r \in ReturnIds : LiveReturn(r) /\ goodsReturn[r].delivery = d
    BY <1>1, <1>6 DEF Tracked
  <2>2. goodsReturn[r] \in ReturnRow
    BY DEF TypeInvariant, TypeOK
  <2>3. CASE goodsReturn[r].status = "COMPLETED"
    BY <2>1, <2>3 DEF GoodsRestocked, ReturnsOf
  <2>4. CASE goodsReturn[r].status \in {"EXPECTED", "RECEIVED", "INSPECTED"}
    BY <2>1, <2>4 DEF OnAList, returnsAwaitingProcessing
  <2>5. QED
    BY <2>1, <2>2, <2>3, <2>4 DEF LiveReturn, ReturnRow
<1>7. QED
  BY <1>1, <1>2, <1>3, <1>4, <1>5, <1>6 DEF DeliveryRow, Carrying

\* An open order whose goods may leave is not forgotten: through cancelled tasks, failed
\* attempts, retries, returns opened and withdrawn and write-offs, some list shows it until
\* it is completed, outside the gaps that Dashboard names.
THEOREM OpenOrdersAreShown == Spec => []ReadyOrdersAreOnAList
<1>1. ListsInvariant /\ TypeInvariant /\ RoadInvariant => ReadyOrdersAreOnAList
  <2> SUFFICES ASSUME ListsInvariant, TypeInvariant, RoadInvariant, NEW o \in OrderIds,
                      order[o].status = "OPEN", order[o].fulfillmentStatus = "READY",
                      ~OnAList(o)
               PROVE  KnownGaps(o)
    BY DEF ReadyOrdersAreOnAList
  <2>1. PICK t \in TaskIds : task[t].order = o /\ task[t].status # "CANCELLED"
    BY DEF OnAList, ordersAwaitingWarehouse, LiveTasks
  <2>2. task[t] \in TaskRow /\ task[t].status # "ABSENT"
    BY <2>1, NoneIsNoRow DEF TypeInvariant, TypeOK, ListsInvariant, TasksAreReleased, ReleasedTask
  <2>3. task[t].status = "COMPLETED"
    BY <2>1, <2>2 DEF OnAList, openTasks, TaskRow
  <2>4. ASSUME NEW d \in DeliveryIds, delivery[d].order = o
        PROVE  \/ ~order[o].deliveryRequired
               \/ \E e \in DeliveryIds : /\ delivery[e].order = o
                                         /\ \/ GoodsRestocked(e)
                                            \/ /\ delivery[e].resolution = "LOST_OR_UNRECOVERABLE"
                                               /\ order[o].paymentStatus # "PAID"
    <3>1. delivery[d].status # "ABSENT"
      BY <2>4, NoneIsNoRow
         DEF RoadInvariant, DeliveriesFollowTheirTask, FollowsItsTask, NoDelivery
    <3>2. Tracked(d)
      BY <3>1 DEF ListsInvariant, DeliveriesAreTracked
    <3>3. PICK e \in DeliveryIds : Holds(e, delivery[d].task)
      BY <3>2 DEF Tracked
    <3>4. delivery[e].status # "ABSENT" /\ Carrying(e) /\ delivery[e].task = delivery[d].task
      BY <3>3 DEF Holds
    <3>5. delivery[e].order = o
      BY <2>4, <3>2, <3>4 DEF ListsInvariant, DeliveriesAreTracked, Tracked
    <3>6. QED
      BY <3>4, <3>5, HolderIsShown DEF ListsInvariant
  <2>5. QED
    BY <2>1, <2>3, <2>4 DEF KnownGaps, CompletedTasks
<1>2. QED
  BY <1>1, ListsInit, ListsStep, RowsAndLocks, HandoverHolds, LocksAreExclusive, MoneyHolds,
     RoadHolds, PTL DEF Spec
=============================================================================
