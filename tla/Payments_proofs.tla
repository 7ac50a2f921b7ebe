--------------------------- MODULE Payments_proofs ---------------------------
(***************************************************************************)
(* The order lock, and what it protects: an order's payment status is what *)
(* its confirmed payments say, cash goods leave after the money, a         *)
(* cancelled order keeps nothing, and Finance confirms what it reviewed.   *)
(* Then what conversion promises: a quotation becomes one order, and the   *)
(* order-to-delivery core implements the abstract stock promise: every     *)
(* step takes a hold, lets go of some of it, hands it over, corrects the   *)
(* shelf without touching what is held, or does none of this.              *)
(***************************************************************************)
EXTENDS Stock_proofs


USE DEF stockTables, orderTables, yard, road, money

-----------------------------------------------------------------------------
(* The life of a row: what one step can do to it.                          *)

\* The columns that only conversion, a confirmation and a cancellation write.
KeepsTerms(o) ==
    /\ order'[o].quotation = order[o].quotation
    /\ order'[o].paymentStatus = order[o].paymentStatus
    /\ order'[o].fulfillmentStatus = order[o].fulfillmentStatus

\* Completion changes the status of an open order, and nothing of its terms.
LEMMA CompletionOfOrder ==
    ASSUME TypeOK, NEW o, NEW taskStatus, NEW deliveryStatus, NEW pickedUp,
           order' = AfterCompletion(o, taskStatus, deliveryStatus, pickedUp),
           NEW x \in OrderIds
    PROVE  /\ KeepsTerms(x)
           /\ \/ order'[x].status = order[x].status
              \/ x = o /\ order[o].status = "OPEN" /\ order'[o].status = "COMPLETED"
<1>1. order[x] \in OrderRow /\ DOMAIN order = OrderIds
  BY DEF TypeOK
<1>2. QED
  BY <1>1 DEF AfterCompletion, KeepsTerms, OrderRow

\* An operational exception changes neither.
LEMMA ExceptionOfOrder ==
    ASSUME TypeOK, NEW o, NEW exception, order' = [order EXCEPT ![o].exception = exception],
           NEW x \in OrderIds
    PROVE  KeepsTerms(x) /\ order'[x].status = order[x].status
<1>1. order[x] \in OrderRow /\ DOMAIN order = OrderIds
  BY DEF TypeOK
<1>2. QED
  BY <1>1 DEF KeepsTerms, OrderRow

\* A completion: by the pickup or the delivery of an order nobody has locked, or
\* by the handover that has it locked.
Completes(o) ==
    /\ order[o].status = "OPEN" /\ order'[o].status = "COMPLETED"
    /\ Unlocked(o) \/ \E t \in TaskIds : FinishHandover(t) /\ task[t].order = o

\* Outside the payments an order is converted, cancelled or completed, or its
\* status and its terms stay.
LEMMA OrderLife ==
    ASSUME TypeInvariant, OrderStep \/ FulfillmentStep \/ InventoryStep \/ ReturnStep,
           NEW o \in OrderIds
    PROVE  \/ KeepsTerms(o) /\ (order'[o].status = order[o].status \/ Completes(o))
           \/ CancelOrder(o)
           \/ \E r \in Requests : ReserveAndCreate(r, o)
<1> DEFINE Stays == KeepsTerms(o) /\ (order'[o].status = order[o].status \/ Completes(o))
<1>t. TypeOK /\ DOMAIN order = OrderIds
  BY DEF TypeInvariant, TypeOK
<1>1. CASE UNCHANGED order
  BY <1>1 DEF KeepsTerms
<1>2. ASSUME NEW x \in OrderIds, x # o, CancelOrder(x) \/ \E r \in Requests : ReserveAndCreate(r, x)
      PROVE  Stays
  BY <1>2, <1>t DEF CancelOrder, ReserveAndCreate, KeepsTerms
<1>3. CASE OrderStep
  BY <1>1, <1>2, <1>3 DEF OrderStep, CheckQuotation, GiveUpCreation, UpdateCustomer
<1>4. CASE FulfillmentStep
  <2>1. ASSUME NEW x \in OrderIds, recordPickup(x)
        PROVE  Stays
    BY <1>t, <2>1, CompletionOfOrder, ZenonT(40) DEF recordPickup, Completes
  <2>2. ASSUME NEW t \in TaskIds, FinishHandover(t)
        PROVE  Stays
    BY <1>t, <2>2, CompletionOfOrder, ZenonT(40) DEF FinishHandover, Completes
  <2>3. ASSUME NEW d \in DeliveryIds, completeDelivery(d)
        PROVE  Stays
    BY <1>t, <2>3, CompletionOfOrder, SMTT(90) DEF completeDelivery, MoveDelivery, Completes
  <2>4. \/ UNCHANGED order
        \/ \E x \in OrderIds : recordPickup(x)
        \/ \E t \in TaskIds : FinishHandover(t)
        \/ \E d \in DeliveryIds : completeDelivery(d)
    BY <1>4 DEF FulfillmentStep, createWarehouseTask, startWarehouseTask, markItemPrepared,
                markTaskPrepared, cancelWarehouseTask, MoveTask, BeginHandover, GiveUpHandover,
                assignDelivery, dispatchDelivery, failDelivery
  <2>5. QED
    BY <1>1, <2>1, <2>2, <2>3, <2>4
<1>5. CASE InventoryStep
  <2>1. ASSUME NEW x \in OrderIds, NEW p \in Products, NEW n, resolveReservationShortfall(x, p, n)
        PROVE  Stays
    <3>1. PICK e : order' = [order EXCEPT ![x].exception = e]
      BY <2>1 DEF resolveReservationShortfall
    <3>2. QED
      BY <1>t, <3>1, ExceptionOfOrder
  <2>2. UNCHANGED order \/ \E x \in OrderIds, p \in Products, n \in 0..MaxStock :
                               resolveReservationShortfall(x, p, n)
    BY <1>5 DEF InventoryStep, adjustStock, CountShelf, FileCount, reviewDiscrepancy,
                cancelDiscrepancy, ConfirmCount, FlagShortfall, ApplyCount, WriteDiscrepancy
  <2>3. QED
    BY <1>1, <2>1, <2>2
<1>6. CASE ReturnStep
  <2>1. ASSUME NEW d \in DeliveryIds, resolveDeliveryLoss(d) \/ \E r \in ReturnIds : createReturn(d, r)
        PROVE  Stays
    <3>1. PICK x, e : order' = [order EXCEPT ![x].exception = e]
      BY <2>1 DEF resolveDeliveryLoss, createReturn
    <3>2. QED
      BY <1>t, <3>1, ExceptionOfOrder
  <2>2. \/ UNCHANGED order
        \/ \E d \in DeliveryIds : resolveDeliveryLoss(d) \/ \E r \in ReturnIds : createReturn(d, r)
    BY <1>6 DEF ReturnStep, createDeliveryRetry, receiveReturn, inspectReturn, completeReturn,
                cancelReturn, WriteReturn
  <2>3. QED
    BY <1>1, <2>1, <2>2
<1>7. QED
  BY <1>3, <1>4, <1>5, <1>6

\* A task is created, handed over, moved without being completed, or it keeps its
\* status, its order and its quantities.
LEMMA TaskLife ==
    ASSUME TypeInvariant, [Next]_vars, NEW t \in TaskIds
    PROVE  \/ /\ task'[t].status = task[t].status
              /\ task'[t].order = task[t].order
              /\ task'[t].required = task[t].required
           \/ \E o \in OrderIds : createWarehouseTask(o, t)
           \/ \E to \in {"IN_PROGRESS", "PREPARED", "CANCELLED"} : MoveTask(t, to)
           \/ FinishHandover(t)
<1> DEFINE Stays == /\ task'[t].status = task[t].status
                    /\ task'[t].order = task[t].order
                    /\ task'[t].required = task[t].required
<1>t. task[t] \in TaskRow /\ DOMAIN task = TaskIds
  BY DEF TypeInvariant, TypeOK
<1>1. CASE UNCHANGED task
  BY <1>1
<1>2. ASSUME NEW u \in TaskIds, u # t,
             \/ \E o \in OrderIds : createWarehouseTask(o, u)
             \/ \E to : MoveTask(u, to)
             \/ FinishHandover(u)
      PROVE  Stays
  BY <1>2, <1>t DEF createWarehouseTask, MoveTask, FinishHandover
<1>3. ASSUME NEW u \in TaskIds, NEW p \in Products, NEW b \in BOOLEAN, markItemPrepared(u, p, b)
      PROVE  Stays
  BY <1>3, <1>t DEF markItemPrepared, TaskRow
<1>4. CASE FulfillmentStep
  <2>1. \/ UNCHANGED task
        \/ \E u \in TaskIds :
              \/ \E o \in OrderIds : createWarehouseTask(o, u)
              \/ \E to \in {"IN_PROGRESS", "PREPARED", "CANCELLED"} : MoveTask(u, to)
              \/ FinishHandover(u)
              \/ \E p \in Products, b \in BOOLEAN : markItemPrepared(u, p, b)
    BY <1>4 DEF FulfillmentStep, startWarehouseTask, markTaskPrepared, cancelWarehouseTask,
                BeginHandover, GiveUpHandover, recordPickup, assignDelivery, dispatchDelivery,
                completeDelivery, failDelivery, MoveDelivery
  <2>2. QED
    BY <1>1, <1>2, <1>3, <2>1
<1>5. CASE OrderStep \/ InventoryStep
  <2>1. UNCHANGED task
    BY <1>5 DEF OrderStep, CheckQuotation, ReserveAndCreate, GiveUpCreation, CancelOrder,
                UpdateCustomer, InventoryStep, adjustStock, CountShelf, FileCount,
                reviewDiscrepancy, cancelDiscrepancy, ConfirmCount, FlagShortfall, ApplyCount,
                WriteDiscrepancy, resolveReservationShortfall
  <2>2. QED
    BY <1>1, <2>1
<1>6. CASE ReturnStep
  <2>1. UNCHANGED task
    BY <1>6 DEF ReturnStep, createDeliveryRetry, resolveDeliveryLoss, createReturn,
                receiveReturn, inspectReturn, completeReturn, cancelReturn, WriteReturn
  <2>2. QED
    BY <1>1, <2>1
<1>7. CASE PaymentStep
  <2>1. UNCHANGED task
    BY <1>7, PaymentStepsMoveNoGoods
  <2>2. QED
    BY <1>1, <2>1
<1>8. QED
  BY <1>1, <1>4, <1>5, <1>6, <1>7 DEF Next, vars

\* Only the payments' own functions write their tables.
LEMMA PaymentsUnwritten ==
    ASSUME OrderStep \/ FulfillmentStep \/ InventoryStep \/ ReturnStep
    PROVE  UNCHANGED <<payment, confirming, reviewed>>
<1>1. CASE OrderStep
  BY <1>1 DEF OrderStep, CheckQuotation, ReserveAndCreate, GiveUpCreation, CancelOrder,
              UpdateCustomer
<1>2. CASE FulfillmentStep
  BY <1>2 DEF FulfillmentStep, createWarehouseTask, startWarehouseTask, markItemPrepared,
              markTaskPrepared, cancelWarehouseTask, MoveTask, BeginHandover, FinishHandover,
              GiveUpHandover, recordPickup, assignDelivery, dispatchDelivery, completeDelivery,
              failDelivery, MoveDelivery
<1>3. CASE InventoryStep
  BY <1>3 DEF InventoryStep, adjustStock, CountShelf, FileCount, reviewDiscrepancy,
              cancelDiscrepancy, ConfirmCount, FlagShortfall, ApplyCount, WriteDiscrepancy,
              resolveReservationShortfall
<1>4. CASE ReturnStep
  BY <1>4 DEF ReturnStep, createDeliveryRetry, resolveDeliveryLoss, createReturn, receiveReturn,
              inspectReturn, completeReturn, cancelReturn, WriteReturn
<1>5. QED
  BY <1>1, <1>2, <1>3, <1>4

\* A payment that is not locked and not confirmed is edited or decided, or a
\* confirmation of it commits; otherwise the row stays.
Edited(c) ==
    /\ payment[c].status # "CONFIRMED" /\ c \notin confirming
    /\ payment'[c].status # "CONFIRMED"
    /\ UNCHANGED <<order, task, handover, confirming, reviewed>>

LEMMA PaymentLife ==
    ASSUME TypeInvariant, [Next]_vars, NEW c \in PaymentIds
    PROVE  payment'[c] = payment[c] \/ Edited(c) \/ CommitConfirm(c)
<1>t. payment[c] \in PaymentRow /\ DOMAIN payment = PaymentIds
  BY DEF TypeInvariant, TypeOK
<1>0. payment[c].status = "ABSENT" => c \notin confirming
  BY DEF TypeInvariant, WorkInFlight
<1>1. CASE PaymentStep
  <2>1. PICK e \in PaymentIds :
            \/ UNCHANGED payment
            \/ \E o \in OrderIds, n \in Amounts, f \in References \cup {None} :
                   submitPayment(e, o, n, f)
            \/ \E f \in References \cup {None} : FinishExtraction(e, f)
            \/ \E n \in Amounts, f \in References \cup {None} : FinishCorrection(e, n, f)
            \/ CommitConfirm(e)
            \/ rejectPayment(e)
    BY <1>1 DEF PaymentStep, StartExtraction, StartCorrection, GiveUpEdit, assessPayment,
                BeginConfirm, GiveUpConfirm
  <2>2. CASE e # c
    BY <1>t, <2>1, <2>2 DEF submitPayment, FinishExtraction, FinishCorrection, CommitConfirm,
                            rejectPayment
  <2>3. CASE e = c
    <3>1. ASSUME NEW o \in OrderIds, NEW n \in Amounts, NEW f \in References \cup {None},
                 submitPayment(c, o, n, f)
          PROVE  Edited(c)
      BY <1>t, <1>0, <3>1 DEF submitPayment, Edited
    <3>2. ASSUME NEW f \in References \cup {None}, FinishExtraction(c, f)
          PROVE  Edited(c)
      BY <1>t, <3>2 DEF FinishExtraction, Edited, RowFree, Unconfirmed, PaymentRow
    <3>3. ASSUME NEW n \in Amounts, NEW f \in References \cup {None}, FinishCorrection(c, n, f)
          PROVE  Edited(c)
      BY <1>t, <3>3 DEF FinishCorrection, Edited, RowFree, Unconfirmed, PaymentRow
    <3>4. ASSUME rejectPayment(c)
          PROVE  Edited(c)
      BY <1>t, <3>4 DEF rejectPayment, Edited, RowFree, isReviewable, PaymentRow
    <3>5. QED
      BY <2>1, <2>3, <3>1, <3>2, <3>3, <3>4
  <2>4. QED
    BY <2>2, <2>3
<1>2. QED
  BY <1>1, PaymentsUnwritten DEF Next, vars

-----------------------------------------------------------------------------
(* The order lock                                                          *)

\* Whoever holds an order's lock holds it alone, and what it checked under the
\* lock, that the order is open and the payment undecided, still stands.
LockInvariant ==
    /\ \A c \in confirming : isReviewable(c) /\ order[payment[c].order].status = "OPEN"
    /\ \A t \in handover : order[task[t].order].status = "OPEN"
    /\ \A c, e \in confirming : payment[c].order = payment[e].order => c = e
    /\ \A t \in handover, c \in confirming : task[t].order # payment[c].order

\* A transaction takes the lock, or gives it back.
LEMMA LockLife ==
    ASSUME [Next]_vars
    PROVE  \/ \E t \in TaskIds : BeginHandover(t)
           \/ \E c \in PaymentIds : BeginConfirm(c)
           \/ handover' \subseteq handover /\ confirming' \subseteq confirming
<1>1. CASE UNCHANGED <<handover, confirming>>
  BY <1>1
<1>2. CASE FulfillmentStep
  BY <1>2 DEF FulfillmentStep, createWarehouseTask, startWarehouseTask, markItemPrepared,
              markTaskPrepared, cancelWarehouseTask, MoveTask, FinishHandover, GiveUpHandover,
              recordPickup, assignDelivery, dispatchDelivery, completeDelivery, failDelivery,
              MoveDelivery
<1>3. CASE PaymentStep
  BY <1>3, ZenonT(40) DEF PaymentStep, submitPayment, StartExtraction, FinishExtraction, StartCorrection,
              FinishCorrection, GiveUpEdit, assessPayment, CommitConfirm, GiveUpConfirm,
              rejectPayment
<1>4. CASE OrderStep \/ InventoryStep
  BY <1>1, <1>4, ZenonT(40) DEF OrderStep, CheckQuotation, ReserveAndCreate, GiveUpCreation, CancelOrder,
              UpdateCustomer, InventoryStep, adjustStock, CountShelf, FileCount,
              reviewDiscrepancy, cancelDiscrepancy, ConfirmCount, FlagShortfall, ApplyCount,
              WriteDiscrepancy, resolveReservationShortfall
<1>5. CASE ReturnStep
  BY <1>1, <1>5 DEF ReturnStep, createDeliveryRetry, resolveDeliveryLoss, createReturn,
              receiveReturn, inspectReturn, completeReturn, cancelReturn, WriteReturn
<1>6. QED
  BY <1>1, <1>2, <1>3, <1>4, <1>5 DEF Next, vars

\* A confirmation changes neither the status nor the quotation of an order, and
\* its terms only when the order is the payment's.
LEMMA ConfirmationOfOrder ==
    ASSUME TypeOK, NEW c \in PaymentIds, CommitConfirm(c), NEW x \in OrderIds
    PROVE  /\ order'[x].status = order[x].status
           /\ order'[x].quotation = order[x].quotation
           /\ x # payment[c].order => KeepsTerms(x)
<1>1. order[x] \in OrderRow /\ DOMAIN order = OrderIds
  BY DEF TypeOK
<1>2. QED
  BY <1>1 DEF CommitConfirm, KeepsTerms, OrderRow

\* An order that a transaction in flight goes on locking stays open.
LEMMA LockedOrderStaysOpen ==
    ASSUME TypeInvariant, HandoverInvariant, LockInvariant, [Next]_vars,
           NEW o \in OrderIds, order[o].status = "OPEN",
           \/ \E t \in handover \cap handover' : task[t].order = o
           \/ \E c \in confirming \cap confirming' : payment[c].order = o
    PROVE  order'[o].status = "OPEN"
<1>1. ~Unlocked(o)
  BY DEF Unlocked
<1>2. ASSUME NEW u \in TaskIds, FinishHandover(u)
      PROVE  task[u].order # o
  <2>1. u \in handover /\ handover' = handover \ {u} /\ UNCHANGED confirming
    BY <1>2 DEF FinishHandover
  <2>2. \A t \in handover : t \in TaskIds /\ Live(t)
    BY DEF TypeInvariant, TypeOK, WorkInFlight, Live
  <2>3. QED
    BY <2>1, <2>2 DEF LockInvariant, HandoverInvariant, OneLiveTask
<1>3. CASE OrderStep \/ FulfillmentStep \/ InventoryStep \/ ReturnStep
  BY <1>1, <1>2, <1>3, OrderLife DEF Completes, CancelOrder, ReserveAndCreate
<1>4. CASE PaymentStep
  <2>1. UNCHANGED order \/ \E c \in PaymentIds : CommitConfirm(c)
    BY <1>4, PaymentStepsConfirmOrders
  <2>2. QED
    BY <2>1, ConfirmationOfOrder DEF TypeInvariant
<1>5. QED
  BY <1>3, <1>4 DEF Next, vars

\* With nothing in flight no lock is held.
LEMMA LockInit == Init => LockInvariant
BY DEF Init, LockInvariant

\* Every step respects the locks.
LEMMA LockStep ==
    TypeInvariant /\ HandoverInvariant /\ LockInvariant /\ [Next]_vars => LockInvariant'
<1> SUFFICES ASSUME TypeInvariant, HandoverInvariant, LockInvariant, [Next]_vars
             PROVE  LockInvariant'
  OBVIOUS
<1>t. /\ handover \subseteq TaskIds /\ confirming \subseteq PaymentIds
      /\ \A t \in handover : task[t].status # "ABSENT" /\ task[t].order \in OrderIds
      /\ \A c \in confirming : payment[c].status # "ABSENT" /\ payment[c].order \in OrderIds
  BY DEF TypeInvariant, TypeOK, WorkInFlight, ForeignKeys
<1>1. ASSUME NEW t \in TaskIds, BeginHandover(t)
      PROVE  LockInvariant'
  BY <1>1 DEF BeginHandover, LockInvariant, Unlocked, isReviewable
<1>2. ASSUME NEW c \in PaymentIds, BeginConfirm(c)
      PROVE  LockInvariant'
  BY <1>2 DEF BeginConfirm, LockInvariant, Unlocked, isReviewable, blockingFactors
<1>3. CASE handover' \subseteq handover /\ confirming' \subseteq confirming
  <2>1. \A t \in handover' : task'[t].order = task[t].order
    BY <1>t, <1>3, StepKeepsRows DEF KeepsRows, KeepsTasks
  <2>2. \A c \in confirming' : payment'[c] = payment[c]
    BY <1>t, <1>3, PaymentLife DEF Edited, CommitConfirm
  <2>3. \A t \in handover' : order'[task[t].order].status = "OPEN"
    BY <1>t, <1>3, LockedOrderStaysOpen DEF LockInvariant
  <2>4. \A c \in confirming' : order'[payment[c].order].status = "OPEN"
    BY <1>t, <1>3, LockedOrderStaysOpen DEF LockInvariant
  <2>5. QED
    BY <1>3, <2>1, <2>2, <2>3, <2>4 DEF LockInvariant, isReviewable
<1>4. QED
  BY <1>1, <1>2, <1>3, LockLife

-----------------------------------------------------------------------------
(* Confirmed payments                                                      *)

\* A confirmed payment stays as it is.
LEMMA ConfirmedStays ==
    ASSUME TypeInvariant, LockInvariant, [Next]_vars,
           NEW c \in PaymentIds, payment[c].status = "CONFIRMED"
    PROVE  payment'[c] = payment[c]
<1>1. c \notin confirming
  BY DEF LockInvariant, isReviewable
<1>2. QED
  BY <1>1, PaymentLife DEF Edited, CommitConfirm

\* The row of a payment that is being confirmed.
LEMMA CommittedRow ==
    ASSUME TypeOK, NEW c \in PaymentIds, CommitConfirm(c)
    PROVE  /\ payment'[c] = [payment[c] EXCEPT !.status = "CONFIRMED"]
           /\ payment'[c].status = "CONFIRMED"
           /\ payment'[c].order = payment[c].order
           /\ payment'[c].amount = payment[c].amount
           /\ payment'[c].reference = payment[c].reference
           /\ \A e \in PaymentIds \ {c} : payment'[e] = payment[e]
<1>1. payment[c] \in PaymentRow /\ DOMAIN payment = PaymentIds
  BY DEF TypeOK
<1>2. /\ payment'[c] = [payment[c] EXCEPT !.status = "CONFIRMED"]
      /\ \A e \in PaymentIds \ {c} : payment'[e] = payment[e]
  BY <1>1 DEF CommitConfirm
<1>3. QED
  BY <1>1, <1>2 DEF PaymentRow

\* The money on an order is what it was, unless a payment of the order is confirmed.
LEMMA MoneyStays ==
    ASSUME TypeInvariant, [Next]_vars, NEW o \in OrderIds,
           \A c \in PaymentIds : CommitConfirm(c) => payment[c].order # o
    PROVE  /\ ConfirmedOn(o)' = ConfirmedOn(o)
           /\ ConfirmedAmount(payment, o)' = ConfirmedAmount(payment, o)
<1> DEFINE amount(row) == IF row.order = o /\ row.status = "CONFIRMED" THEN row.amount ELSE 0
<1>1. \A c \in PaymentIds :
          \/ payment'[c] = payment[c]
          \/ /\ payment[c].status # "CONFIRMED" /\ payment'[c].status # "CONFIRMED"
          \/ payment[c].order # o /\ payment'[c].order # o
  BY PaymentLife, CommittedRow DEF Edited, TypeInvariant
<1>2. ConfirmedOn(o)' = ConfirmedOn(o)
  BY <1>1 DEF ConfirmedOn
<1>3. \A c \in PaymentIds : amount(payment'[c]) = amount(payment[c])
  BY <1>1
<1>4. [c \in PaymentIds |-> amount(payment'[c])] = [c \in PaymentIds |-> amount(payment[c])]
  BY <1>3
<1>5. ConfirmedAmount(payment, o)' = ConfirmedAmount(payment, o)
  BY <1>4 DEF ConfirmedAmount
<1>6. QED
  BY <1>2, <1>5

\* A confirmation adds its payment to the money on its order.
LEMMA MoneyComesIn ==
    ASSUME TypeInvariant, TypeInvariant', LockInvariant,
           NEW c \in PaymentIds, CommitConfirm(c), NEW o \in OrderIds, o = payment[c].order
    PROVE  /\ c \in ConfirmedOn(o)'
           /\ ConfirmedAmount(payment, o)' = ConfirmedAmount(payment, o) + payment[c].amount
<1> DEFINE f == [e \in PaymentIds |->
                    IF payment[e].order = o /\ payment[e].status = "CONFIRMED"
                    THEN payment[e].amount ELSE 0]
           g == [e \in PaymentIds |->
                    IF payment'[e].order = o /\ payment'[e].status = "CONFIRMED"
                    THEN payment'[e].amount ELSE 0]
<1>t. TypeOK /\ TypeOK'
  BY DEF TypeInvariant
<1>1. /\ payment'[c].status = "CONFIRMED" /\ payment'[c].order = o
      /\ payment'[c].amount = payment[c].amount
      /\ \A e \in PaymentIds \ {c} : payment'[e] = payment[e]
  BY <1>t, CommittedRow
<1>2. payment[c].status # "CONFIRMED"
  BY DEF CommitConfirm, LockInvariant, isReviewable
<1>3. f \in [PaymentIds -> Nat]
  BY <1>t DEF TypeOK, PaymentRow
<1>4. g \in [PaymentIds -> Nat]
  BY <1>t DEF TypeOK, PaymentRow
<1>5. /\ \A e \in PaymentIds \ {c} : g[e] = f[e]
      /\ f[c] = 0 /\ g[c] = payment[c].amount
  BY <1>1, <1>2
<1>6. Total(f) = ConfirmedAmount(payment, o) /\ Total(g) = ConfirmedAmount(payment, o)'
  BY DEF ConfirmedAmount
<1> HIDE DEF f, g
<1>7. Total(g) = Total(f) - f[c] + g[c]
  BY <1>3, <1>4, <1>5, RowIdsAreFinite, TotalUpdate
<1>8. Total(f) \in Nat
  BY <1>3, RowIdsAreFinite, TotalType
<1>9. QED
  BY <1>1, <1>5, <1>6, <1>7, <1>8 DEF ConfirmedOn

-----------------------------------------------------------------------------
(* Finance's review                                                        *)

\* A payment that is being confirmed is the one on Finance's page, in amount,
\* reference and outstanding balance; and if the page has been opened again since
\* and shows a warning, then that warning, a duplicate reference, is still true.
ReviewStands ==
    \A c \in confirming :
        /\ reviewed[c].amount = payment[c].amount
        /\ reviewed[c].reference = payment[c].reference
        /\ reviewed[c].outstanding = Outstanding(payment[c].order)
        /\ reviewed[c].blocking = {} \/ DuplicateReference(c)

LEMMA ReviewInit == Init => ReviewStands
BY DEF Init, ReviewStands

\* What Finance has on screen changes when Finance opens the payment.
LEMMA ReviewLife ==
    ASSUME TypeInvariant, [Next]_vars, NEW c \in PaymentIds
    PROVE  reviewed'[c] = reviewed[c] \/ assessPayment(c)
<1>1. CASE PaymentStep
  <2>1. UNCHANGED reviewed \/ \E e \in PaymentIds : assessPayment(e)
    BY <1>1, ZenonT(40) DEF PaymentStep, submitPayment, StartExtraction, FinishExtraction, StartCorrection,
                FinishCorrection, GiveUpEdit, BeginConfirm, CommitConfirm, GiveUpConfirm,
                rejectPayment
  <2>2. QED
    BY <2>1 DEF assessPayment, TypeInvariant, TypeOK
<1>2. QED
  BY <1>1, PaymentsUnwritten DEF Next, vars

\* A duplicate stays one.
LEMMA DuplicateStays ==
    ASSUME TypeInvariant, LockInvariant, [Next]_vars,
           NEW c \in PaymentIds, payment'[c] = payment[c], DuplicateReference(c)
    PROVE  DuplicateReference(c)'
BY ConfirmedStays DEF DuplicateReference

\* What is outstanding on an order that a confirmation goes on locking stays.
LEMMA OutstandingStays ==
    ASSUME TypeInvariant, LockInvariant, [Next]_vars, NEW o \in OrderIds,
           NEW c \in confirming \cap confirming', payment[c].order = o
    PROVE  Outstanding(o)' = Outstanding(o)
<1>1. ASSUME NEW e \in PaymentIds, CommitConfirm(e)
      PROVE  payment[e].order # o
  BY <1>1 DEF CommitConfirm, LockInvariant
<1>2. order[o].status = "OPEN"
  BY DEF LockInvariant
<1>3. order'[o].quotation = order[o].quotation
  BY <1>2, StepKeepsRows DEF KeepsRows, KeepsOrders
<1>4. ConfirmedAmount(payment, o)' = ConfirmedAmount(payment, o)
  BY <1>1, MoneyStays
<1>5. QED
  BY <1>3, <1>4 DEF Outstanding, TotalOf

\* What a review shows.
LEMMA PayloadFields ==
    ASSUME NEW c \in PaymentIds
    PROVE  /\ buildConfirmationPayload(c).amount = payment[c].amount
           /\ buildConfirmationPayload(c).reference = payment[c].reference
           /\ buildConfirmationPayload(c).outstanding = Outstanding(payment[c].order)
           /\ buildConfirmationPayload(c).blocking = blockingFactors(c)
BY DEF buildConfirmationPayload

\* Every step keeps what is being confirmed as it was reviewed.
LEMMA ReviewStep ==
    TypeInvariant /\ LockInvariant /\ ReviewStands /\ [Next]_vars => ReviewStands'
<1> SUFFICES ASSUME TypeInvariant, LockInvariant, ReviewStands, [Next]_vars,
                    NEW c \in confirming'
             PROVE  /\ reviewed'[c].amount = payment'[c].amount
                    /\ reviewed'[c].reference = payment'[c].reference
                    /\ reviewed'[c].outstanding = Outstanding(payment[c].order)'
                    /\ reviewed'[c].blocking = {} \/ DuplicateReference(c)'
  BY DEF ReviewStands
<1>1. CASE c \in confirming
  <2>1. c \in PaymentIds /\ payment[c].status # "ABSENT"
    BY <1>1 DEF TypeInvariant, TypeOK, WorkInFlight
  <2>o. PICK o \in OrderIds : o = payment[c].order
    BY <2>1 DEF TypeInvariant, ForeignKeys
  <2>2. payment'[c] = payment[c]
    BY <1>1, <2>1, PaymentLife DEF Edited, CommitConfirm
  <2>3. Outstanding(payment[c].order)' = Outstanding(o)
    <3>1. Outstanding(o)' = Outstanding(o)
      BY <1>1, <2>o, OutstandingStays
    <3>2. payment'[c].order = o
      BY <2>o, <2>2
    <3>3. QED
      BY <3>1, <3>2
  <2>4. CASE reviewed'[c] = reviewed[c]
    BY <1>1, <2>o, <2>1, <2>2, <2>3, <2>4, DuplicateStays DEF ReviewStands
  <2>5. CASE assessPayment(c)
    <3>1. reviewed'[c] = buildConfirmationPayload(c)
      BY <2>1, <2>5 DEF assessPayment, TypeInvariant, TypeOK
    <3>2. blockingFactors(c) = {} \/ DuplicateReference(c)
      BY <1>1 DEF blockingFactors, LockInvariant
    <3>3. QED
      BY <2>o, <2>1, <2>2, <2>3, <3>1, <3>2, PayloadFields, DuplicateStays
  <2>6. QED
    BY <2>1, <2>4, <2>5, ReviewLife
<1>2. CASE c \notin confirming
  <2>1. c \in PaymentIds /\ BeginConfirm(c)
    BY <1>2, LockLife DEF BeginConfirm, BeginHandover
  <2>2. UNCHANGED <<payment, reviewed, order>> /\ reviewed[c] = buildConfirmationPayload(c)
    BY <2>1 DEF BeginConfirm
  <2>3. Outstanding(payment[c].order)' = Outstanding(payment[c].order)
    BY <2>2 DEF Outstanding, TotalOf, ConfirmedAmount
  <2>4. blockingFactors(c) = {}
    BY <2>1 DEF BeginConfirm
  <2>5. QED
    BY <2>1, <2>2, <2>3, <2>4, PayloadFields
<1>3. QED
  BY <1>1, <1>2

-----------------------------------------------------------------------------
(* What the money decides                                                  *)

\* Only a cancelled order has been taken out of fulfilment.
CancelledTogether ==
    \A o \in OrderIds : order[o].fulfillmentStatus = "CANCELLED" => order[o].status = "CANCELLED"

\* Every task of a cash order that is not cancelled, a PENDING one too, has the money
\* behind it.
CashTasksArePaid ==
    \A t \in TaskIds :
        Live(t) /\ TypeOfOrder(task[t].order) = "CASH"
            => ConfirmedAmount(payment, task[t].order) >= TotalOf(task[t].order)

MoneyInvariant ==
    /\ NoReferenceConfirmedTwice
    /\ PaymentStatusIsEarned
    /\ CancelledTogether
    /\ CashTasksArePaid
    /\ CancelledOrderHoldsNothing

LEMMA MoneyInit == Init => MoneyInvariant
<1> SUFFICES ASSUME Init PROVE MoneyInvariant
  OBVIOUS
<1>1. /\ \A o \in OrderIds : order[o] = NoOrder
      /\ \A t \in TaskIds : task[t] = NoTask
      /\ \A c \in PaymentIds : payment[c] = NoPayment
  BY DEF Init
<1>2. NoReferenceConfirmedTwice
  BY <1>1 DEF NoReferenceConfirmedTwice, NoPayment
<1>3. PaymentStatusIsEarned /\ CancelledTogether /\ CancelledOrderHoldsNothing
  BY <1>1 DEF PaymentStatusIsEarned, CancelledTogether, CancelledOrderHoldsNothing, NoOrder
<1>4. CashTasksArePaid
  BY <1>1 DEF CashTasksArePaid, Live, NoTask
<1>5. QED
  BY <1>2, <1>3, <1>4 DEF MoneyInvariant

\* The partial unique index on references: whatever two confirmations that share no
\* lock checked before, the second with the reference does not commit.
LEMMA ReferencesStayApart ==
    ASSUME TypeInvariant, LockInvariant, NoReferenceConfirmedTwice, [Next]_vars
    PROVE  NoReferenceConfirmedTwice'
<1>1. ASSUME NEW c \in PaymentIds, payment[c].status # "CONFIRMED", payment'[c].status = "CONFIRMED",
             NEW e \in PaymentIds \ {c}, payment'[e].status = "CONFIRMED",
             payment'[c].reference # None
      PROVE  payment'[c].reference # payment'[e].reference
  <2>1. CommitConfirm(c)
    BY <1>1, PaymentLife DEF Edited
  <2>2. payment'[e] = payment[e] /\ payment'[c].reference = payment[c].reference
    BY <2>1, CommittedRow DEF TypeInvariant
  <2>3. ~DuplicateReference(c)
    BY <2>1 DEF CommitConfirm, ReferenceIsFree
  <2>4. QED
    BY <1>1, <2>2, <2>3 DEF DuplicateReference
<1>2. \A c \in PaymentIds : payment[c].status = "CONFIRMED" => payment'[c] = payment[c]
  BY ConfirmedStays
<1>3. QED
  BY <1>1, <1>2 DEF NoReferenceConfirmedTwice

\* What a confirmation writes to its order.
LEMMA CommittedOrder ==
    ASSUME TypeInvariant, TypeInvariant', LockInvariant,
           NEW c \in PaymentIds, CommitConfirm(c), NEW o \in OrderIds, o = payment[c].order
    PROVE  /\ order[o].status = "OPEN"
           /\ order'[o].paymentStatus =
                  IF ConfirmedAmount(payment, o)' >= TotalOf(o) THEN "PAID" ELSE "PARTIALLY_PAID"
           /\ order'[o].fulfillmentStatus =
                  IF order'[o].paymentStatus = "PAID" /\ order[o].fulfillmentStatus = "NOT_READY"
                  THEN "READY" ELSE order[o].fulfillmentStatus
<1> DEFINE paid == paymentStatusFor(payment', o)
<1>1. order[o].status = "OPEN"
  BY DEF CommitConfirm, LockInvariant
<1>2. order[o] \in OrderRow /\ DOMAIN order = OrderIds
  BY DEF TypeInvariant, TypeOK
<1>3. order' = [order EXCEPT
                  ![o].paymentStatus = paid,
                  ![o].fulfillmentStatus = IF paid = "PAID" /\ @ = "NOT_READY" THEN "READY" ELSE @]
  BY DEF CommitConfirm
<1> HIDE DEF paid
<1>4. /\ order'[o].paymentStatus = paid
      /\ order'[o].fulfillmentStatus = IF paid = "PAID" /\ order[o].fulfillmentStatus = "NOT_READY"
                                       THEN "READY" ELSE order[o].fulfillmentStatus
  BY <1>2, <1>3 DEF OrderRow
<1>5. paid = IF ConfirmedAmount(payment, o)' >= TotalOf(o) THEN "PAID" ELSE "PARTIALLY_PAID"
  BY DEF paid, paymentStatusFor, ConfirmedAmount
<1>6. QED
  BY <1>1, <1>4, <1>5

\* Without a write to the payments the money stays.
LEMMA MoneyUnwritten ==
    ASSUME UNCHANGED payment, NEW o
    PROVE  /\ ConfirmedOn(o)' = ConfirmedOn(o)
           /\ ConfirmedAmount(payment, o)' = ConfirmedAmount(payment, o)
BY DEF ConfirmedOn, ConfirmedAmount

\* What a cancellation writes to its order.
LEMMA CancelledRow ==
    ASSUME TypeOK, NEW o \in OrderIds, CancelOrder(o)
    PROVE  /\ order'[o].status = "CANCELLED"
           /\ order'[o].fulfillmentStatus = "CANCELLED"
           /\ order'[o].quotation = order[o].quotation
           /\ order'[o].paymentStatus = order[o].paymentStatus
<1>1. order[o] \in OrderRow /\ DOMAIN order = OrderIds
  BY DEF TypeOK
<1>2. QED
  BY <1>1 DEF CancelOrder, OrderRow

\* What conversion writes to its order.
LEMMA ConvertedRow ==
    ASSUME TypeOK, NEW r \in Requests, NEW o \in OrderIds, ReserveAndCreate(r, o)
    PROVE  \E q \in Quotations :
               /\ order[o].status = "ABSENT"
               /\ order'[o].status = "OPEN"
               /\ order'[o].quotation = q
               /\ order'[o].paymentStatus = initialStatuses(q).paymentStatus
               /\ order'[o].fulfillmentStatus = initialStatuses(q).fulfillmentStatus
               /\ LiveOrders(q) = {}
<1>1. creating[r].quotation \in Quotations
  BY DEF ReserveAndCreate, TypeOK, CreationRow, NotCreating
<1>2. order'[o] = NewOrder(creating[r])
  BY DEF ReserveAndCreate, TypeOK
<1>3. /\ order[o].status = "ABSENT"
      /\ LiveOrders(creating[r].quotation) = {}
  BY DEF ReserveAndCreate, QuotationIsFree
<1>4. /\ NewOrder(creating[r]).status = "OPEN"
      /\ NewOrder(creating[r]).quotation = creating[r].quotation
      /\ NewOrder(creating[r]).paymentStatus = initialStatuses(creating[r].quotation).paymentStatus
      /\ NewOrder(creating[r]).fulfillmentStatus =
             initialStatuses(creating[r].quotation).fulfillmentStatus
  BY DEF NewOrder, NoOrder
<1>5. QED
  BY <1>1, <1>2, <1>3, <1>4

\* The statuses an order starts with.
LEMMA StartingStatuses ==
    ASSUME NEW q \in Quotations
    PROVE  /\ initialStatuses(q).paymentStatus \in {"UNPAID", "NOT_REQUIRED_YET"}
           /\ initialStatuses(q).fulfillmentStatus \in {"NOT_READY", "READY"}
           /\ PaymentType[q] = "CASH" => initialStatuses(q).fulfillmentStatus = "NOT_READY"
BY DEF initialStatuses

\* An order without money on it was never touched by a confirmation.
LEMMA NobodyPaysForNothing ==
    ASSUME TypeInvariant, NEW o \in OrderIds, order[o].status = "ABSENT"
    PROVE  ConfirmedOn(o) = {}
BY DEF ConfirmedOn, TypeInvariant, ForeignKeys

\* The order's part of PaymentStatusIsEarned and CancelledTogether.
StatusFollowsMoney(o) ==
    /\ order[o].status # "ABSENT" =>
        /\ order[o].paymentStatus =
               IF ConfirmedOn(o) = {} THEN initialStatuses(order[o].quotation).paymentStatus
               ELSE IF ConfirmedAmount(payment, o) >= TotalOf(o) THEN "PAID"
               ELSE "PARTIALLY_PAID"
        /\ (TypeOfOrder(o) = "CASH" /\ order[o].status # "CANCELLED")
               => (order[o].fulfillmentStatus = "READY" <=> order[o].paymentStatus = "PAID")
    /\ order[o].fulfillmentStatus = "CANCELLED" => order[o].status = "CANCELLED"

LEMMA StatusOrderByOrder ==
    PaymentStatusIsEarned /\ CancelledTogether <=> \A o \in OrderIds : StatusFollowsMoney(o)
BY DEF PaymentStatusIsEarned, CancelledTogether, StatusFollowsMoney

\* An order whose terms and money stay.
LEMMA StatusStays ==
    ASSUME NEW o \in OrderIds, StatusFollowsMoney(o), KeepsTerms(o),
           order'[o].status = order[o].status \/ Completes(o),
           ConfirmedOn(o)' = ConfirmedOn(o),
           ConfirmedAmount(payment, o)' = ConfirmedAmount(payment, o)
    PROVE  StatusFollowsMoney(o)'
<1>1. /\ order'[o].quotation = order[o].quotation
      /\ order'[o].paymentStatus = order[o].paymentStatus
      /\ order'[o].fulfillmentStatus = order[o].fulfillmentStatus
      /\ TotalOf(o)' = TotalOf(o)
      /\ TypeOfOrder(o)' = TypeOfOrder(o)
  BY DEF KeepsTerms, TotalOf, TypeOfOrder
<1>2. \/ order'[o].status = order[o].status
      \/ order[o].status = "OPEN" /\ order'[o].status = "COMPLETED"
  BY DEF Completes
<1>3. QED
  BY <1>1, <1>2 DEF StatusFollowsMoney

\* A cancelled order keeps its payment status; what it was released for is undone.
LEMMA CancellationKeepsStatus ==
    ASSUME TypeInvariant, NEW o \in OrderIds, StatusFollowsMoney(o), CancelOrder(o)
    PROVE  StatusFollowsMoney(o)'
<1>1. /\ order'[o].status = "CANCELLED"
      /\ order'[o].fulfillmentStatus = "CANCELLED"
      /\ order'[o].quotation = order[o].quotation
      /\ order'[o].paymentStatus = order[o].paymentStatus
  BY CancelledRow DEF TypeInvariant
<1>2. TotalOf(o)' = TotalOf(o)
  BY <1>1 DEF TotalOf
<1>3. UNCHANGED payment /\ order[o].status # "ABSENT"
  BY DEF CancelOrder
<1>4. QED
  BY <1>1, <1>2, <1>3, MoneyUnwritten DEF StatusFollowsMoney

\* A converted order starts unpaid, and a cash order unreleased.
LEMMA ConversionSetsStatus ==
    ASSUME TypeInvariant, NEW r \in Requests, NEW o \in OrderIds, ReserveAndCreate(r, o)
    PROVE  StatusFollowsMoney(o)'
<1>1. PICK q \in Quotations :
          /\ order[o].status = "ABSENT"
          /\ order'[o].status = "OPEN"
          /\ order'[o].quotation = q
          /\ order'[o].paymentStatus = initialStatuses(q).paymentStatus
          /\ order'[o].fulfillmentStatus = initialStatuses(q).fulfillmentStatus
  BY ConvertedRow DEF TypeInvariant
<1>2. ConfirmedOn(o)' = {}
  BY <1>1, NobodyPaysForNothing, MoneyUnwritten DEF ReserveAndCreate
<1>3. TypeOfOrder(o)' = PaymentType[q]
  BY <1>1 DEF TypeOfOrder
<1>4. QED
  BY <1>1, <1>2, <1>3, StartingStatuses DEF StatusFollowsMoney

\* A confirmation only adds money: an order that was paid stays paid, and one that
\* becomes paid is released.
LEMMA ConfirmationKeepsStatus ==
    ASSUME TypeInvariant, TypeInvariant', LockInvariant,
           NEW c \in PaymentIds, CommitConfirm(c), NEW o \in OrderIds, o = payment[c].order,
           StatusFollowsMoney(o)
    PROVE  StatusFollowsMoney(o)'
<1>1. /\ order[o].status = "OPEN" /\ order'[o].status = "OPEN"
      /\ order'[o].quotation = order[o].quotation /\ order[o].quotation \in Quotations
  BY CommittedOrder, ConfirmationOfOrder DEF TypeInvariant, ForeignKeys
<1>2. TotalOf(o)' = TotalOf(o) /\ TypeOfOrder(o)' = TypeOfOrder(o)
  BY <1>1 DEF TotalOf, TypeOfOrder
<1>3. /\ ConfirmedOn(o)' # {}
      /\ ConfirmedAmount(payment, o)' >= ConfirmedAmount(payment, o)
      /\ ConfirmedAmount(payment, o) \in Nat /\ ConfirmedAmount(payment, o)' \in Nat
      /\ TotalOf(o) \in Nat
  <2>1. payment[c].amount \in Nat
    BY DEF TypeInvariant, TypeOK, PaymentRow
  <2>2. ConfirmedAmount(payment, o) \in Nat
    BY ConfirmedAmountTyped DEF TypeInvariant
  <2>3. TotalOf(o) \in Nat
    BY <1>1, QuotationsAreTyped DEF TotalOf
  <2>4. QED
    BY <2>1, <2>2, <2>3, MoneyComesIn
<1>4. /\ order'[o].paymentStatus =
             IF ConfirmedAmount(payment, o)' >= TotalOf(o) THEN "PAID" ELSE "PARTIALLY_PAID"
      /\ order'[o].fulfillmentStatus =
             IF order'[o].paymentStatus = "PAID" /\ order[o].fulfillmentStatus = "NOT_READY"
             THEN "READY" ELSE order[o].fulfillmentStatus
  BY CommittedOrder
<1>5. /\ order[o].fulfillmentStatus \in {"NOT_READY", "READY"}
      /\ order'[o].fulfillmentStatus # "CANCELLED"
  <2>1. order[o].fulfillmentStatus \in {"NOT_READY", "READY", "CANCELLED"}
    BY DEF TypeInvariant, TypeOK, OrderRow
  <2>2. QED
    BY <1>1, <1>4, <2>1 DEF StatusFollowsMoney
<1>6. order[o].paymentStatus = "PAID" => order'[o].paymentStatus = "PAID"
  <2>1. CASE ConfirmedOn(o) = {}
    <3>1. order[o].paymentStatus # "PAID"
      BY <1>1, <2>1, StartingStatuses DEF StatusFollowsMoney
    <3>2. QED
      BY <3>1
  <2>2. CASE ConfirmedOn(o) # {}
    <3>1. order[o].paymentStatus = "PAID" => ConfirmedAmount(payment, o) >= TotalOf(o)
      BY <1>1, <2>2 DEF StatusFollowsMoney
    <3>2. QED
      BY <1>3, <1>4, <3>1
  <2>3. QED
    BY <2>1, <2>2
<1>7. TypeOfOrder(o) = "CASH" =>
          (order'[o].fulfillmentStatus = "READY" <=> order'[o].paymentStatus = "PAID")
  <2>1. TypeOfOrder(o) = "CASH" =>
            (order[o].fulfillmentStatus = "READY" <=> order[o].paymentStatus = "PAID")
    BY <1>1 DEF StatusFollowsMoney
  <2>2. QED
    BY <1>4, <1>5, <1>6, <2>1
<1>8. QED
  BY <1>1, <1>2, <1>3, <1>4, <1>5, <1>7 DEF StatusFollowsMoney

\* The payment status of an order follows its confirmed payments.
LEMMA StatusStaysEarned ==
    ASSUME TypeInvariant, TypeInvariant', LockInvariant, PaymentStatusIsEarned, CancelledTogether,
           [Next]_vars
    PROVE  PaymentStatusIsEarned' /\ CancelledTogether'
<1> SUFFICES ASSUME NEW o \in OrderIds
             PROVE  StatusFollowsMoney(o)'
  BY StatusOrderByOrder DEF PaymentStatusIsEarned, CancelledTogether, StatusFollowsMoney
<1>1. StatusFollowsMoney(o)
  BY StatusOrderByOrder
<1>2. CASE OrderStep \/ FulfillmentStep \/ InventoryStep \/ ReturnStep
  <2>1. UNCHANGED payment
    BY <1>2, PaymentsUnwritten
  <2>2. QED
    BY <1>1, <1>2, <2>1, OrderLife, MoneyUnwritten, StatusStays, CancellationKeepsStatus,
       ConversionSetsStatus
<1>3. CASE \E c \in PaymentIds : CommitConfirm(c) /\ payment[c].order = o
  BY <1>1, <1>3, ConfirmationKeepsStatus
<1>4. CASE PaymentStep /\ ~\E c \in PaymentIds : CommitConfirm(c) /\ payment[c].order = o
  <2>1. UNCHANGED order \/ \E c \in PaymentIds : CommitConfirm(c)
    BY <1>4, PaymentStepsConfirmOrders
  <2>2. KeepsTerms(o) /\ order'[o].status = order[o].status
    BY <1>4, <2>1, ConfirmationOfOrder DEF KeepsTerms, TypeInvariant
  <2>3. QED
    BY <1>1, <1>4, <2>2, MoneyStays, StatusStays
<1>5. CASE UNCHANGED vars
  <2>1. UNCHANGED <<order, payment>>
    BY <1>5 DEF vars
  <2>2. KeepsTerms(o) /\ order'[o].status = order[o].status
    BY <2>1 DEF KeepsTerms
  <2>3. QED
    BY <1>1, <2>1, <2>2, MoneyUnwritten, StatusStays
<1>6. QED
  BY <1>2, <1>3, <1>4, <1>5 DEF Next

-----------------------------------------------------------------------------
(* Cash before goods, and nothing for a cancelled order                    *)

\* Money on an order never goes away.
LEMMA MoneyNeverGoesAway ==
    ASSUME TypeInvariant, TypeInvariant', LockInvariant, [Next]_vars, NEW o \in OrderIds
    PROVE  /\ ConfirmedAmount(payment, o) \in Nat /\ ConfirmedAmount(payment, o)' \in Nat
           /\ ConfirmedAmount(payment, o)' >= ConfirmedAmount(payment, o)
<1>1. ConfirmedAmount(payment, o) \in Nat
  BY ConfirmedAmountTyped DEF TypeInvariant
<1>2. \A c \in PaymentIds : payment[c].amount \in Nat
  BY DEF TypeInvariant, TypeOK, PaymentRow
<1>3. QED
  BY <1>1, <1>2, MoneyStays, MoneyComesIn

\* createWarehouseTask asks for the payment status PAID, which stands for money that
\* covers the total; from then on nothing takes it away.
LEMMA CashTasksStayPaid ==
    ASSUME TypeInvariant, TypeInvariant', LockInvariant, PaymentStatusIsEarned, CashTasksArePaid,
           [Next]_vars
    PROVE  CashTasksArePaid'
<1> SUFFICES ASSUME NEW t \in TaskIds, Live(t)', NEW o, o = task'[t].order,
                    TypeOfOrder(o)' = "CASH"
             PROVE  ConfirmedAmount(payment, o)' >= TotalOf(o)'
  BY DEF CashTasksArePaid
<1>1. CASE Live(t) /\ task[t].order = o
  <2>1. o \in OrderIds /\ order[o].status # "ABSENT" /\ order[o].quotation \in Quotations
    BY <1>1 DEF Live, TypeInvariant, ForeignKeys
  <2>2. order'[o].quotation = order[o].quotation
    BY <2>1, StepKeepsRows DEF KeepsRows, KeepsOrders
  <2>3. TypeOfOrder(o) = "CASH" /\ TotalOf(o)' = TotalOf(o) /\ TotalOf(o) \in Nat
    BY <2>1, <2>2, QuotationsAreTyped DEF TypeOfOrder, TotalOf
  <2>4. ConfirmedAmount(payment, o) >= TotalOf(o)
    BY <1>1, <2>3 DEF CashTasksArePaid
  <2>5. QED
    BY <2>1, <2>3, <2>4, MoneyNeverGoesAway
<1>2. ASSUME NEW x \in OrderIds, createWarehouseTask(x, t)
      PROVE  ConfirmedAmount(payment, o)' >= TotalOf(o)'
  <2>1. x = o
    BY <1>2 DEF createWarehouseTask, TypeInvariant, TypeOK
  <2>2. UNCHANGED <<order, payment>>
    BY <1>2 DEF createWarehouseTask
  <2>3. order[o].status = "OPEN" /\ (TypeOfOrder(o) = "CASH" => order[o].paymentStatus = "PAID")
    BY <1>2, <2>1 DEF createWarehouseTask, assessEligibility, CashSettled
  <2>4. order[o].quotation \in Quotations
    BY <1>2, <2>1, <2>3 DEF TypeInvariant, ForeignKeys
  <2>5. TypeOfOrder(o) = "CASH" /\ TotalOf(o)' = TotalOf(o)
    BY <2>2 DEF TypeOfOrder, TotalOf
  <2>6. ConfirmedAmount(payment, o) >= TotalOf(o)
    BY <1>2, <2>1, <2>3, <2>4, <2>5, StartingStatuses DEF PaymentStatusIsEarned
  <2>7. QED
    BY <2>2, <2>5, <2>6, MoneyUnwritten
<1>3. ASSUME NEW to \in {"IN_PROGRESS", "PREPARED", "CANCELLED"}, MoveTask(t, to)
      PROVE  Live(t) /\ task[t].order = o
  <2>1. task[t] \in TaskRow
    BY DEF TypeInvariant, TypeOK
  <2>2. task'[t].order = task[t].order
    BY <1>3, <2>1 DEF MoveTask, TypeInvariant, TypeOK, TaskRow
  <2>3. QED
    BY <1>3, <2>2 DEF MoveTask, TASK_TRANSITIONS, Live
<1>4. ASSUME FinishHandover(t)
      PROVE  Live(t) /\ task[t].order = o
  <2>1. task[t] \in TaskRow
    BY DEF TypeInvariant, TypeOK
  <2>2. task'[t].order = task[t].order
    BY <1>4, <2>1 DEF FinishHandover, TypeInvariant, TypeOK, TaskRow
  <2>3. QED
    BY <1>4, <2>2 DEF FinishHandover, TypeInvariant, WorkInFlight, Live
<1>5. CASE task'[t].status = task[t].status /\ task'[t].order = task[t].order
  BY <1>1, <1>5 DEF Live
<1>6. QED
  BY <1>1, <1>2, <1>3, <1>4, <1>5, TaskLife

\* Only conversion takes a hold on stock.
LEMMA HoldsLife ==
    ASSUME TypeInvariant, [Next]_vars, NEW o \in OrderIds, NEW p \in Products, Active(o, p)'
    PROVE  Active(o, p) \/ \E r \in Requests : ReserveAndCreate(r, o)
<1>t. /\ DOMAIN reservation = OrderIds
      /\ \A x \in OrderIds : DOMAIN reservation[x] = Products
      /\ \A x \in OrderIds, i \in Products : reservation[x][i] \in ReservationRow
  BY DEF TypeInvariant, TypeOK
<1>1. CASE UNCHANGED reservation
  BY <1>1 DEF Active
<1>2. ASSUME NEW x \in OrderIds, x # o, NEW rows, reservation' = [reservation EXCEPT ![x] = rows]
      PROVE  Active(o, p)
  BY <1>2, <1>t DEF Active
<1>3. ASSUME NEW x \in OrderIds, CancelOrder(x)
      PROVE  Active(o, p)
  <2>1. reservation' = [reservation EXCEPT ![x] = ReleaseAll(reservation[x])]
    BY <1>3 DEF CancelOrder
  <2>2. CASE x = o
    BY <1>t, <2>1, <2>2 DEF Active, ReleaseAll, ReservationRow
  <2>3. QED
    BY <1>2, <2>1, <2>2
<1>4. ASSUME NEW t \in TaskIds, FinishHandover(t)
      PROVE  Active(o, p)
  <2> DEFINE x == task[t].order
  <2>1. reservation' = [reservation EXCEPT ![x] = ConsumeAll(reservation[x])]
    BY <1>4 DEF FinishHandover
  <2>2. CASE x = o
    BY <1>t, <2>1, <2>2 DEF Active, ConsumeAll, ReservationRow
  <2>3. x \in OrderIds
    BY <1>4 DEF FinishHandover, TypeInvariant, WorkInFlight, ForeignKeys
  <2> HIDE DEF x
  <2>4. QED
    BY <1>2, <2>1, <2>2, <2>3
<1>5. ASSUME NEW x \in OrderIds, NEW i \in Products, NEW n, resolveReservationShortfall(x, i, n)
      PROVE  Active(o, p)
  <2>1. PICK row : reservation' = [reservation EXCEPT ![x][i] = row]
    BY <1>5 DEF resolveReservationShortfall
  <2>2. reservation[x][i].status = "ACTIVE"
    BY <1>5 DEF resolveReservationShortfall
  <2>3. QED
    BY <1>t, <2>1, <2>2 DEF Active
<1>6. CASE OrderStep \/ InventoryStep
  <2>1. \/ UNCHANGED reservation
        \/ \E r \in Requests, x \in OrderIds : ReserveAndCreate(r, x)
        \/ \E x \in OrderIds : CancelOrder(x)
        \/ \E x \in OrderIds, i \in Products, n \in 0..MaxStock :
               resolveReservationShortfall(x, i, n)
    BY <1>6 DEF OrderStep, CheckQuotation, GiveUpCreation, UpdateCustomer, InventoryStep,
                adjustStock, CountShelf, FileCount, reviewDiscrepancy, cancelDiscrepancy,
                ConfirmCount, FlagShortfall, ApplyCount, WriteDiscrepancy
  <2>2. ASSUME NEW r \in Requests, NEW x \in OrderIds \ {o}, ReserveAndCreate(r, x)
        PROVE  Active(o, p)
    BY <2>2, <1>2 DEF ReserveAndCreate
  <2>3. QED
    BY <1>1, <1>3, <1>5, <2>1, <2>2
<1>7. CASE FulfillmentStep
  <2>1. UNCHANGED reservation \/ \E t \in TaskIds : FinishHandover(t)
    BY <1>7 DEF FulfillmentStep, createWarehouseTask, startWarehouseTask, markItemPrepared,
                markTaskPrepared, cancelWarehouseTask, MoveTask, BeginHandover, GiveUpHandover,
                recordPickup, assignDelivery, dispatchDelivery, completeDelivery, failDelivery,
                MoveDelivery
  <2>2. QED
    BY <1>1, <1>4, <2>1
<1>8. CASE ReturnStep
  <2>1. UNCHANGED reservation
    BY <1>8 DEF ReturnStep, createDeliveryRetry, resolveDeliveryLoss, createReturn, receiveReturn,
                inspectReturn, completeReturn, cancelReturn, WriteReturn
  <2>2. QED
    BY <1>1, <2>1
<1>9. CASE PaymentStep
  <2>1. UNCHANGED reservation
    BY <1>9, PaymentStepsMoveNoGoods
  <2>2. QED
    BY <1>1, <2>1
<1>10. QED
  BY <1>1, <1>6, <1>7, <1>8, <1>9 DEF Next, vars

\* Cancelling takes the order's lock when nothing is confirmed and nothing picked;
\* afterwards no confirmation and no handover finds the order open.
LEMMA CancelledStaysEmpty ==
    ASSUME TypeInvariant, HandoverInvariant, LockInvariant, CancelledOrderHoldsNothing, [Next]_vars
    PROVE  CancelledOrderHoldsNothing'
<1> SUFFICES ASSUME NEW o \in OrderIds, order'[o].status = "CANCELLED"
             PROVE  /\ \A p \in Products : ~Active(o, p)'
                    /\ ConfirmedOn(o)' = {}
                    /\ \A t \in TaskIds : task'[t].order = o => task'[t].status # "COMPLETED"
  BY DEF CancelledOrderHoldsNothing, Active
<1>1. \A r \in Requests : ~ReserveAndCreate(r, o)
  BY ConvertedRow DEF TypeInvariant
<1>2. ASSUME NEW c \in PaymentIds, CommitConfirm(c)
      PROVE  payment[c].order # o
  BY <1>2, ConfirmationOfOrder DEF CommitConfirm, LockInvariant, TypeInvariant
<1>3. ASSUME NEW t \in TaskIds, FinishHandover(t)
      PROVE  task[t].order # o
  <2>1. t \in handover
    BY <1>3 DEF FinishHandover
  <2>2. task[t].order \in OrderIds /\ order[task[t].order].status = "OPEN"
    BY <2>1 DEF LockInvariant, TypeInvariant, WorkInFlight, ForeignKeys
  <2>3. ~Unlocked(task[t].order)
    BY <2>1 DEF Unlocked
  <2>4. FulfillmentStep
    BY <1>3 DEF FulfillmentStep
  <2>5. order'[task[t].order].status # "CANCELLED"
    BY <2>2, <2>3, <2>4, OrderLife DEF Completes, CancelOrder, ReserveAndCreate
  <2>6. QED
    BY <2>5
<1>4. \/ order[o].status = "CANCELLED"
      \/ CancelOrder(o)
  <2>1. CASE OrderStep \/ FulfillmentStep \/ InventoryStep \/ ReturnStep
    BY <1>1, <2>1, OrderLife DEF Completes
  <2>2. CASE PaymentStep
    <3>1. UNCHANGED order \/ \E c \in PaymentIds : CommitConfirm(c)
      BY <2>2, PaymentStepsConfirmOrders
    <3>2. QED
      BY <3>1, ConfirmationOfOrder DEF TypeInvariant
  <2>3. QED
    BY <2>1, <2>2 DEF Next, vars
<1>5. ConfirmedOn(o)' = {}
  <2>1. ConfirmedOn(o) = {}
    BY <1>4 DEF CancelledOrderHoldsNothing, CancelOrder
  <2>2. QED
    BY <1>2, <2>1, MoneyStays
<1>6. \A p \in Products : ~Active(o, p)'
  <2>1. CASE CancelOrder(o)
    <3>1. \A p \in Products : reservation[o][p] \in ReservationRow
      BY DEF TypeInvariant, TypeOK
    <3>2. \A p \in Products : reservation'[o][p].status # "ACTIVE"
      BY <2>1, <3>1 DEF CancelOrder, ReleaseAll, TypeInvariant, TypeOK, ReservationRow
    <3>3. QED
      BY <3>2 DEF Active
  <2>2. CASE order[o].status = "CANCELLED"
    BY <1>1, <2>2, HoldsLife DEF CancelledOrderHoldsNothing, Active
  <2>3. QED
    BY <1>4, <2>1, <2>2
<1>7. ASSUME NEW t \in TaskIds, task'[t].order = o, task'[t].status = "COMPLETED"
      PROVE  FALSE
  <2>1. task[t] \in TaskRow /\ DOMAIN task = TaskIds
    BY DEF TypeInvariant, TypeOK
  <2>2. ~FinishHandover(t)
    <3>1. FinishHandover(t) => task'[t].order = task[t].order
      BY <2>1 DEF FinishHandover, TaskRow
    <3>2. QED
      BY <1>3, <1>7, <3>1
  <2>3. \A to \in {"IN_PROGRESS", "PREPARED", "CANCELLED"} : ~MoveTask(t, to)
    BY <1>7, <2>1 DEF MoveTask, TaskRow
  <2>4. \A x \in OrderIds : ~createWarehouseTask(x, t)
    BY <1>7, <2>1 DEF createWarehouseTask
  <2>5. task[t].order = o /\ task[t].status = "COMPLETED"
    BY <1>7, <2>2, <2>3, <2>4, TaskLife
  <2>6. QED
    BY <1>4, <2>5 DEF CancelledOrderHoldsNothing, CancelOrder, CancellationBlocked
<1>8. QED
  BY <1>5, <1>6, <1>7

-----------------------------------------------------------------------------

LEMMA MoneyStep ==
    /\ TypeInvariant /\ TypeInvariant' /\ HandoverInvariant /\ LockInvariant /\ MoneyInvariant
    /\ [Next]_vars
    => MoneyInvariant'
BY ReferencesStayApart, StatusStaysEarned, CashTasksStayPaid, CancelledStaysEmpty
   DEF MoneyInvariant

\* A lock on an order has one holder, a handover or a confirmation, and until it is
\* given back the order stays open and the payment undecided.
THEOREM LocksAreExclusive == Spec => []LockInvariant
BY LockInit, LockStep, RowsAndLocks, HandoverHolds, PTL DEF Spec

-----------------------------------------------------------------------------
(* Counts and handovers                                                    *)

\* No count stands against a task whose handover is past its check.
NoCountInFlight == \A t \in handover : OpenCounts(t) = {}

\* A count that is open after a step was open before it, or has just been filed,
\* which waited for the order of its task.
LEMMA CountLife ==
    ASSUME TypeInvariant, [Next]_vars, NEW d \in DiscrepancyIds,
           discrepancy'[d].status \in {"OPEN", "UNDER_REVIEW"}
    PROVE  /\ discrepancy'[d].task = discrepancy[d].task
           /\ IsOpen(d) \/ DiscrepancyUnlocked(d)
<1>t. DOMAIN discrepancy = DiscrepancyIds /\ discrepancy[d] \in DiscrepancyRow
  BY DEF TypeInvariant, TypeOK
<1>1. CASE UNCHANGED discrepancy
  BY <1>1 DEF IsOpen
<1>2. CASE InventoryStep
  <2>1. \/ UNCHANGED discrepancy
        \/ \E e \in DiscrepancyIds, p \in Products, u \in TaskIds \cup {None}, n \in 0..MaxStock :
              CountShelf(e, p, u, n)
        \/ \E e \in DiscrepancyIds : FileCount(e)
        \/ \E e \in DiscrepancyIds, to \in {"UNDER_REVIEW", "CANCELLED", "RESOLVED"} :
              IsOpen(e) /\ discrepancy' = [discrepancy EXCEPT ![e].status = to]
    BY <1>2 DEF InventoryStep, adjustStock, reviewDiscrepancy, cancelDiscrepancy, ConfirmCount,
                FlagShortfall, ApplyCount, WriteDiscrepancy, resolveReservationShortfall, IsOpen
  <2>2. ASSUME NEW e \in DiscrepancyIds, NEW p \in Products, NEW u \in TaskIds \cup {None},
               NEW n \in 0..MaxStock, CountShelf(e, p, u, n)
        PROVE  discrepancy'[d] = discrepancy[d]
    BY <1>t, <2>2 DEF CountShelf, WriteDiscrepancy
  <2>3. ASSUME NEW e \in DiscrepancyIds, FileCount(e)
        PROVE  \/ discrepancy'[d] = discrepancy[d]
               \/ d = e /\ DiscrepancyUnlocked(d) /\ discrepancy'[d].task = discrepancy[d].task
    BY <1>t, <2>3 DEF FileCount, WriteDiscrepancy, DiscrepancyRow
  <2>4. ASSUME NEW e \in DiscrepancyIds, NEW to \in {"UNDER_REVIEW", "CANCELLED", "RESOLVED"},
               IsOpen(e), discrepancy' = [discrepancy EXCEPT ![e].status = to]
        PROVE  \/ discrepancy'[d] = discrepancy[d]
               \/ d = e /\ IsOpen(d) /\ discrepancy'[d].task = discrepancy[d].task
    BY <1>t, <2>4 DEF DiscrepancyRow
  <2>5. QED
    BY <1>1, <2>1, <2>2, <2>3, <2>4 DEF IsOpen
<1>3. CASE OrderStep \/ FulfillmentStep \/ ReturnStep \/ PaymentStep
  <2>1. UNCHANGED discrepancy
    BY <1>3 DEF OrderStep, CheckQuotation, ReserveAndCreate, GiveUpCreation, CancelOrder,
                UpdateCustomer, FulfillmentStep, createWarehouseTask, startWarehouseTask,
                markTaskPrepared, cancelWarehouseTask, MoveTask, markItemPrepared, BeginHandover,
                FinishHandover, GiveUpHandover, recordPickup, assignDelivery, dispatchDelivery,
                completeDelivery, failDelivery, MoveDelivery, ReturnStep, createDeliveryRetry,
                resolveDeliveryLoss, createReturn, receiveReturn, inspectReturn, completeReturn,
                cancelReturn, WriteReturn, PaymentStep, submitPayment, StartExtraction,
                FinishExtraction, StartCorrection, FinishCorrection, GiveUpEdit, assessPayment,
                BeginConfirm, CommitConfirm, GiveUpConfirm, rejectPayment
  <2>2. QED
    BY <1>1, <2>1
<1>4. QED
  BY <1>1, <1>2, <1>3 DEF Next, vars

\* A handover under way keeps counts against its task out, because they wait for
\* the lock of its order.
LEMMA CountsStayOut ==
    TypeInvariant /\ NoCountInFlight /\ [Next]_vars => NoCountInFlight'
<1> SUFFICES ASSUME TypeInvariant, NoCountInFlight, [Next]_vars,
                    NEW t \in handover', NEW d \in DiscrepancyIds,
                    discrepancy'[d].task = t, discrepancy'[d].status \in {"OPEN", "UNDER_REVIEW"}
             PROVE  FALSE
  BY DEF NoCountInFlight, OpenCounts
<1>1. /\ discrepancy[d].task = t
      /\ IsOpen(d) \/ DiscrepancyUnlocked(d)
  BY CountLife
<1>2. ASSUME NEW u \in TaskIds, BeginHandover(u)
      PROVE  FALSE
  BY <1>2 DEF BeginHandover, NoCountInFlight, OpenCounts
<1>3. CASE handover' \subseteq handover
  <2>1. t \in handover /\ t # None
    BY <1>3, NoneIsNoRow DEF TypeInvariant, TypeOK
  <2>2. ~IsOpen(d)
    BY <1>1, <2>1 DEF NoCountInFlight, OpenCounts, IsOpen
  <2>3. Unlocked(task[t].order)
    BY <1>1, <2>1, <2>2 DEF DiscrepancyUnlocked
  <2>4. QED
    BY <2>1, <2>3 DEF Unlocked
<1>4. CASE \E c \in PaymentIds : BeginConfirm(c)
  BY <1>3, <1>4 DEF BeginConfirm
<1>5. QED
  BY <1>2, <1>3, <1>4, LockLife

\* Goods never leave while a count stands against their task: the one look at the
\* open counts before the consumption is enough, since a count that is reported
\* meanwhile waits, by its foreign keys, for the handover to end.
THEOREM CountsStopHandovers == Spec => NoHandoverOverAnOpenCount
<1>1. Init => NoCountInFlight
  BY DEF Init, NoCountInFlight
<1>2. TypeInvariant /\ NoCountInFlight /\ [Next]_vars =>
        [\A t \in TaskIds : (task[t].status # "COMPLETED" /\ task'[t].status = "COMPLETED")
            => OpenCounts(t) = {} /\ OpenCounts(t)' = {}]_vars
  <2> SUFFICES ASSUME TypeInvariant, NoCountInFlight, [Next]_vars, NEW t \in TaskIds,
                      task[t].status # "COMPLETED", task'[t].status = "COMPLETED"
               PROVE  OpenCounts(t) = {} /\ OpenCounts(t)' = {}
    OBVIOUS
  <2>t. DOMAIN task = TaskIds /\ task[t] \in TaskRow
    BY DEF TypeInvariant, TypeOK
  <2>1. ~\E o \in OrderIds : createWarehouseTask(o, t)
    BY <2>t DEF createWarehouseTask
  <2>2. ASSUME NEW to \in {"IN_PROGRESS", "PREPARED", "CANCELLED"}, MoveTask(t, to)
        PROVE  FALSE
    <3>1. task'[t].status = to
      BY <2>t, <2>2 DEF MoveTask, TaskRow
    <3>2. QED
      BY <3>1
  <2>3. FinishHandover(t)
    BY <2>1, <2>2, TaskLife
  <2>4. t \in handover /\ UNCHANGED discrepancy
    BY <2>3 DEF FinishHandover
  <2>5. QED
    BY <2>4 DEF NoCountInFlight, OpenCounts
<1>3. QED
  BY <1>1, <1>2, CountsStayOut, RowsAndLocks, PTL DEF Spec, NoHandoverOverAnOpenCount

-----------------------------------------------------------------------------

\* While a confirmation is under way, the payment is what Finance reviewed.
LEMMA ReviewsStand == Spec => []ReviewStands
BY ReviewInit, ReviewStep, RowsAndLocks, LocksAreExclusive, PTL DEF Spec

\* The conjuncts of MoneyInvariant in every reachable state.
LEMMA MoneyHolds == Spec => []MoneyInvariant
BY MoneyInit, MoneyStep, RowsAndLocks, HandoverHolds, LocksAreExclusive, PTL DEF Spec

\* Two confirmations on different orders share no lock, and both may have found the
\* reference free; one transfer still settles one claim.
THEOREM OneClaimPerTransfer == Spec => []NoReferenceConfirmedTwice
<1>1. MoneyInvariant => NoReferenceConfirmedTwice
  BY DEF MoneyInvariant
<1>2. QED
  BY <1>1, MoneyHolds, PTL

\* salesOrders.paymentStatus is what the confirmed payments come to, and a cash order
\* is released exactly when they cover its total.
THEOREM StatusIsEarned == Spec => []PaymentStatusIsEarned
<1>1. MoneyInvariant => PaymentStatusIsEarned
  BY DEF MoneyInvariant
<1>2. QED
  BY <1>1, MoneyHolds, PTL

\* Nobody picks goods of a cash order before its money is confirmed.
THEOREM CashBeforeGoods == Spec => []CashGoodsAfterPayment
<1>1. MoneyInvariant => CashGoodsAfterPayment
  BY DEF MoneyInvariant, CashTasksArePaid, CashGoodsAfterPayment, Live
<1>2. QED
  BY <1>1, MoneyHolds, PTL

\* A cancellation that races a confirmation or a handover leaves an order without
\* money, stock or completed work, whichever of them takes the lock first.
THEOREM CancellationIsClean == Spec => []CancelledOrderHoldsNothing
<1>1. MoneyInvariant => CancelledOrderHoldsNothing
  BY DEF MoneyInvariant
<1>2. QED
  BY <1>1, MoneyHolds, PTL

\* What becomes CONFIRMED is what Finance saw when it pressed the button, although
\* extraction and correction write the payment without looking at its status; and a
\* confirmed payment never changes again.
THEOREM FinanceConfirmsWhatItSaw == Spec => ConfirmedAsReviewed
<1> DEFINE Decided(c) ==
        /\ (payment[c].status # "CONFIRMED" /\ payment'[c].status = "CONFIRMED")
             => /\ reviewed[c] = [buildConfirmationPayload(c) EXCEPT !.blocking = {}]
                /\ payment'[c] = [payment[c] EXCEPT !.status = "CONFIRMED"]
        /\ payment[c].status = "CONFIRMED" => payment'[c] = payment[c]
<1>1. ASSUME TypeInvariant, LockInvariant, ReviewStands, [Next]_vars, NEW c \in PaymentIds
      PROVE  Decided(c)
  <2>1. ASSUME payment[c].status # "CONFIRMED", payment'[c].status = "CONFIRMED"
        PROVE  /\ reviewed[c] = [buildConfirmationPayload(c) EXCEPT !.blocking = {}]
               /\ payment'[c] = [payment[c] EXCEPT !.status = "CONFIRMED"]
    <3>1. CommitConfirm(c)
      BY <1>1, <2>1, PaymentLife DEF Edited
    <3>2. /\ reviewed[c].amount = payment[c].amount
          /\ reviewed[c].reference = payment[c].reference
          /\ reviewed[c].outstanding = Outstanding(payment[c].order)
          /\ reviewed[c].blocking = {}
      BY <1>1, <3>1 DEF CommitConfirm, ReviewStands, ReferenceIsFree
    <3>3. reviewed[c] \in PayloadRow
      BY <1>1 DEF TypeInvariant, TypeOK
    <3>4. reviewed[c] = [buildConfirmationPayload(c) EXCEPT !.blocking = {}]
      BY <3>2, <3>3 DEF PayloadRow, buildConfirmationPayload
    <3>5. QED
      BY <1>1, <3>1, <3>4, CommittedRow DEF TypeInvariant
  <2>2. QED
    BY <1>1, <2>1, ConfirmedStays
<1>2. TypeInvariant /\ LockInvariant /\ ReviewStands /\ [Next]_vars
          => [\A c \in PaymentIds : Decided(c)]_vars
  BY <1>1
<1>3. QED
  BY <1>2, RowsAndLocks, LocksAreExclusive, ReviewsStand, PTL DEF Spec, ConfirmedAsReviewed

-----------------------------------------------------------------------------
(* One order per quotation                                                 *)

\* An order row that was not inserted names no quotation, so the live orders of a
\* quotation are orders that exist.
OrdersInvariant ==
    /\ \A o \in OrderIds : order[o].status = "ABSENT" => order[o].quotation \notin Quotations
    /\ \A q \in Quotations : \A o, x \in LiveOrders(q) : o = x

LEMMA OrdersInit == Init => OrdersInvariant
BY NoneIsNoRow DEF Init, OrdersInvariant, LiveOrders, NoOrder

\* The partial unique index: of two conversions that both read "no order yet", the
\* second does not commit; and a cancelled order stays cancelled.
LEMMA OrdersStep == TypeInvariant /\ OrdersInvariant /\ [Next]_vars => OrdersInvariant'
<1> SUFFICES ASSUME TypeInvariant, OrdersInvariant, [Next]_vars PROVE OrdersInvariant'
  OBVIOUS
<1>1. ASSUME NEW r \in Requests, NEW o \in OrderIds, ReserveAndCreate(r, o)
      PROVE  OrdersInvariant'
  <2>1. PICK q \in Quotations :
            /\ order'[o].status = "OPEN" /\ order'[o].quotation = q
            /\ LiveOrders(q) = {}
    BY <1>1, ConvertedRow DEF TypeInvariant
  <2>2. \A x \in OrderIds \ {o} : order'[x] = order[x]
    BY <1>1 DEF ReserveAndCreate, TypeInvariant, TypeOK
  <2>3. QED
    BY <2>1, <2>2 DEF OrdersInvariant, LiveOrders
<1>2. ASSUME \A o \in OrderIds : /\ order'[o].quotation = order[o].quotation
                                 /\ order'[o].status = "ABSENT" => order[o].status = "ABSENT"
                                 /\ order[o].status = "CANCELLED" => order'[o].status = "CANCELLED"
      PROVE  OrdersInvariant'
  BY <1>2 DEF OrdersInvariant, LiveOrders
<1>3. CASE /\ OrderStep \/ FulfillmentStep \/ InventoryStep \/ ReturnStep
           /\ ~\E r \in Requests, o \in OrderIds : ReserveAndCreate(r, o)
  BY <1>2, <1>3, OrderLife, CancelledRow DEF KeepsTerms, Completes, TypeInvariant
<1>4. CASE PaymentStep
  <2>1. UNCHANGED order \/ \E c \in PaymentIds : CommitConfirm(c)
    BY <1>4, PaymentStepsConfirmOrders
  <2>2. QED
    BY <1>2, <2>1, ConfirmationOfOrder DEF TypeInvariant
<1>5. CASE UNCHANGED vars
  BY <1>2, <1>5 DEF vars
<1>6. QED
  BY <1>1, <1>3, <1>4, <1>5 DEF Next

\* However often a conversion is tried again, raced by another or followed by a
\* cancellation, a quotation has at most one order that is not cancelled.
THEOREM QuotationsConvertOnce == Spec => []OneLiveOrderPerQuotation
<1>1. OrdersInvariant => OneLiveOrderPerQuotation
  <2> SUFFICES ASSUME OrdersInvariant, NEW q \in Quotations
               PROVE  Cardinality(LiveOrders(q)) <= 1
    BY DEF OneLiveOrderPerQuotation
  <2>1. CASE LiveOrders(q) = {}
    BY <2>1, FS_EmptySet
  <2>2. CASE LiveOrders(q) # {}
    <3>1. PICK o : LiveOrders(q) = {o}
      BY <2>2 DEF OrdersInvariant
    <3>2. QED
      BY <3>1, FS_Singleton
  <2>3. QED
    BY <2>1, <2>2
<1>2. QED
  BY <1>1, OrdersInit, OrdersStep, RowsAndLocks, PTL DEF Spec

-----------------------------------------------------------------------------
(* The abstract specification                                              *)

\* What it sees of the tables.
shelf == [p \in Products |-> stock[p].available]
holds == [o \in OrderIds |-> [p \in Products |-> Held(o, p)]]
gone  == [p \in Products |-> movements[p].consumed]

\* The shelf covers the abstract holds when it covers the reservations.
LEMMA HoldsAreCovered == PromisesAreCovered <=> Stock!Covered
<1>1. ASSUME NEW p \in Products
      PROVE  Stock!Committed(p) = Promised(p) /\ shelf[p] = stock[p].available
  <2> DEFINE f == [o \in OrderIds |-> holds[o][p]]
  <2>1. f = [o \in OrderIds |-> Held(o, p)]
    BY DEF holds
  <2>2. Stock!Committed(p) = Stock!Total(f)
    BY DEF Stock!Committed, holds
  <2> HIDE DEF f
  <2>3. Stock!Total(f) = Total(f)
    <3>1. UNION {Stock!Units(f, x) : x \in DOMAIN f} = UNION {Units(f, x) : x \in DOMAIN f}
      BY DEF Stock!Units, Units
    <3>2. QED
      BY <3>1, Zenon DEF Stock!Total, Total, Stock!Cardinality, Cardinality, Stock!IsFiniteSet, IsFiniteSet
  <2>4. QED
    BY <2>1, <2>2, <2>3 DEF Promised, shelf
<1>2. QED
  BY <1>1 DEF PromisesAreCovered, Stock!Covered, shelf

LEMMA PromiseStarts == Init => Stock!PromiseInit
BY DEF Init, Stock!PromiseInit, Stock!HoldsNothing, Held, NoReservation

\* After every step the shelf covers what is held.
LEMMA CoveredAfter == StockInvariant' => Stock!Covered'
<1>1. StockInvariant => Stock!Covered
  BY HoldsAreCovered
     DEF StockInvariant, AggregateMatchesRows, ReservedWithinAvailable, PromisesAreCovered
<1>2. QED
  BY <1>1, PTL

\* The reservations of the other orders are what they were.
LEMMA OnlyOneHolder ==
    ASSUME NEW o \in OrderIds, \A x \in OrderIds \ {o} : reservation'[x] = reservation[x]
    PROVE  Stock!OnlyHolder(o)
BY DEF Stock!OnlyHolder, Held

\* The shelf and what has left it, when the products are written but for what is
\* reserved, and no goods are consumed.
LEMMA ShelfUnchanged ==
    ASSUME \A p \in Products : stock'[p].available = stock[p].available, UNCHANGED movements
    PROVE  UNCHANGED <<shelf, gone>>
BY DEF shelf, gone

\* Conversion takes the hold of an order that held nothing.
LEMMA ConversionHolds ==
    ASSUME TypeInvariant, StockInvariant, StockInvariant',
           NEW r \in Requests, NEW o \in OrderIds, ReserveAndCreate(r, o)
    PROVE  Stock!Hold(o)
<1>1. /\ order[o].status = "ABSENT"
      /\ UNCHANGED movements
      /\ \A x \in OrderIds \ {o} : reservation'[x] = reservation[x]
  BY DEF ReserveAndCreate, TypeInvariant, TypeOK
<1>2. Stock!HoldsNothing(o)
  BY <1>1 DEF StockInvariant, ReservationsBelongToOrders, Stock!HoldsNothing, Held
<1>3. \A p \in Products : stock'[p].available = stock[p].available
  <2>1. stock' = [p \in Products |-> [stock[p] EXCEPT
                    !.reserved = @ + QuantityOf(creating[r].quotation, p)]]
    BY DEF ReserveAndCreate, WriteStock
  <2>2. QED
    BY <2>1, StockTyped DEF TypeInvariant
<1>4. QED
  BY <1>1, <1>2, <1>3, CoveredAfter, OnlyOneHolder, ShelfUnchanged DEF Stock!Hold, shelf, gone

\* A cancellation lets go of everything.
LEMMA CancellationLetsGo ==
    ASSUME TypeInvariant, NEW o \in OrderIds, CancelOrder(o)
    PROVE  Stock!LetGo(o)
<1>1. /\ UNCHANGED movements
      /\ reservation' = [reservation EXCEPT ![o] = ReleaseAll(@)]
      /\ DOMAIN reservation = OrderIds
      /\ \A p \in Products : reservation[o][p] \in ReservationRow
  BY DEF CancelOrder, TypeInvariant, TypeOK
<1>2. \A p \in Products : reservation'[o][p].status # "ACTIVE"
  BY <1>1 DEF ReleaseAll, ReservationRow
<1>3. \A p \in Products : Held(o, p)' <= Held(o, p)
  BY <1>2, HeldType DEF Held, TypeInvariant
<1>4. \A p \in Products : stock'[p].available = stock[p].available
  <2>1. stock' = [p \in Products |-> [stock[p] EXCEPT !.reserved = @ - Held(o, p)]]
    BY DEF CancelOrder, WriteStock
  <2>2. QED
    BY <2>1, StockTyped DEF TypeInvariant
<1>5. \A x \in OrderIds \ {o} : reservation'[x] = reservation[x]
  BY <1>1
<1>6. QED
  BY <1>1, <1>3, <1>4, <1>5, OnlyOneHolder, ShelfUnchanged DEF Stock!LetGo, shelf, gone

\* A shortfall lets go of a part of what is held of one product.
LEMMA ShortfallLetsGo ==
    ASSUME TypeInvariant, NEW o \in OrderIds, NEW p \in Products, NEW n \in Nat,
           resolveReservationShortfall(o, p, n)
    PROVE  Stock!LetGo(o)
<1> DEFINE row == reservation[o][p]
           new == IF n = 0 THEN [row EXCEPT !.status = "RELEASED"] ELSE [row EXCEPT !.quantity = n]
<1>1. row \in ReservationRow /\ row.status = "ACTIVE" /\ n < row.quantity
  BY DEF TypeInvariant, TypeOK, resolveReservationShortfall
<1>2. /\ row.quantity \in Nat
      /\ new.status = IF n = 0 THEN "RELEASED" ELSE "ACTIVE"
      /\ n # 0 => new.quantity = n
  BY <1>1 DEF ReservationRow
<1>3. reservation' = [reservation EXCEPT ![o][p] = new] /\ UNCHANGED movements
  BY DEF resolveReservationShortfall
<1> HIDE DEF new
<1>4. /\ \A x \in OrderIds \ {o} : reservation'[x] = reservation[x]
      /\ \A r \in Products : reservation'[o][r] = IF r = p THEN new ELSE reservation[o][r]
  BY <1>3 DEF TypeInvariant, TypeOK
<1>5. ASSUME NEW r \in Products
      PROVE  Held(o, r)' <= Held(o, r)
  <2>1. CASE r = p
    <3>1. Held(o, r) = row.quantity /\ Held(o, r)' = n
      BY <1>1, <1>2, <1>4, <2>1 DEF Held
    <3> HIDE DEF row
    <3>2. QED
      BY <1>1, <1>2, <3>1
  <2>2. CASE r # p
    BY <1>4, <2>2, HeldType DEF Held, TypeInvariant
  <2>3. QED
    BY <2>1, <2>2
<1>6. \A r \in Products : stock'[r].available = stock[r].available
  <2>1. stock' = [stock EXCEPT ![p].reserved = @ - (row.quantity - n)]
    BY DEF resolveReservationShortfall, WriteStock
  <2>2. stock \in StockRows
    BY DEF TypeInvariant, TypeOK, StockRows
  <2> HIDE DEF row
  <2>3. QED
    BY <2>1, <2>2 DEF StockRows
<1>7. QED
  BY <1>3, <1>4, <1>5, <1>6, OnlyOneHolder, ShelfUnchanged DEF Stock!LetGo, shelf, gone

\* A handover takes from the shelf what the order holds, all of it and nothing else,
\* although it takes the quantities its task copied.
LEMMA HandoverHandsOver ==
    ASSUME TypeInvariant, StockInvariant, NEW t \in TaskIds, FinishHandover(t)
    PROVE  \E o \in OrderIds : Stock!HandOver(o)
<1> DEFINE out == task[t].required
<1>o. PICK o \in OrderIds : o = task[t].order
  BY HandoverTakesWhatIsHeld
<1>1. \A p \in Products : Held(o, p) = out[p]
  BY <1>o, HandoverTakesWhatIsHeld
<1>2. /\ reservation' = [reservation EXCEPT ![o] = ConsumeAll(@)]
      /\ DOMAIN reservation = OrderIds
      /\ \A p \in Products : reservation[o][p] \in ReservationRow
  BY <1>o DEF FinishHandover, TypeInvariant, TypeOK
<1>3. \A p \in Products : stock'[p].available = stock[p].available - out[p]
  BY DEF FinishHandover, WriteStock
<1>4. \A p \in Products : movements'[p].consumed = movements[p].consumed + out[p]
  <2>1. movements' = [p \in Products |-> [movements[p] EXCEPT !.consumed = @ + out[p]]]
    BY DEF FinishHandover
  <2>2. \A p \in Products : movements[p] \in [adjusted : Int, reconciled : Int,
                                              consumed : Nat, restocked : Nat]
    BY DEF TypeInvariant, TypeOK
  <2>3. QED
    BY <2>1, <2>2
<1> HIDE DEF out
<1>5. \A p \in Products : Held(o, p)' = 0
  BY <1>2 DEF ConsumeAll, Held, ReservationRow
<1>6. \A x \in OrderIds \ {o} : reservation'[x] = reservation[x]
  BY <1>2
<1>7. /\ Stock!OnlyHolder(o)
      /\ Stock!HoldsNothing(o)'
      /\ \A p \in Products : /\ shelf'[p] = shelf[p] - holds[o][p]
                             /\ gone'[p] = gone[p] + holds[o][p]
  BY <1>1, <1>3, <1>4, <1>5, <1>6, OnlyOneHolder DEF Stock!HoldsNothing, shelf, holds, gone
<1>8. QED
  BY <1>7 DEF Stock!HandOver, shelf, holds, gone

\* Nothing else touches a reservation or ships goods: it corrects the shelf, or
\* leaves it alone.
LEMMA OtherStepsCorrect ==
    ASSUME StockInvariant', UNCHANGED reservation,
           \A p \in Products : movements'[p].consumed = movements[p].consumed
    PROVE  Stock!Correct
BY CoveredAfter DEF Stock!Correct, Held

\* Every step of the core is one of the abstract ones.
LEMMA PromiseStep ==
    TypeInvariant /\ TypeInvariant' /\ StockInvariant /\ StockInvariant' /\ [Next]_vars
        => [Stock!PromiseNext]_<<shelf, holds, gone>>
<1> SUFFICES ASSUME TypeInvariant, TypeInvariant', StockInvariant, StockInvariant', [Next]_vars
             PROVE  Stock!PromiseNext
  OBVIOUS
<1>0. movements \in [Products -> [adjusted : Int, reconciled : Int, consumed : Nat, restocked : Nat]]
  BY DEF TypeInvariant, TypeOK
<1>1. CASE UNCHANGED <<reservation, movements>>
  BY <1>1, OtherStepsCorrect DEF Stock!PromiseNext
<1>2. CASE OrderStep
  <2>1. \/ UNCHANGED <<reservation, movements>>
        \/ \E r \in Requests, o \in OrderIds : ReserveAndCreate(r, o)
        \/ \E o \in OrderIds : CancelOrder(o)
    BY <1>2 DEF OrderStep, CheckQuotation, GiveUpCreation, UpdateCustomer
  <2>2. QED
    BY <1>1, <2>1, ConversionHolds, CancellationLetsGo DEF Stock!PromiseNext
<1>3. CASE FulfillmentStep
  <2>1. \/ UNCHANGED <<reservation, movements>>
        \/ \E t \in TaskIds : FinishHandover(t)
    BY <1>3 DEF FulfillmentStep, createWarehouseTask, startWarehouseTask, markItemPrepared,
                markTaskPrepared, cancelWarehouseTask, MoveTask, BeginHandover, GiveUpHandover,
                recordPickup, assignDelivery, dispatchDelivery, completeDelivery, failDelivery,
                MoveDelivery
  <2>2. ASSUME NEW t \in TaskIds, FinishHandover(t)
        PROVE  Stock!PromiseNext
    BY <2>2, HandoverHandsOver DEF Stock!PromiseNext
  <2>3. QED
    BY <1>1, <2>1, <2>2
<1>4. CASE InventoryStep
  <2>1. ASSUME NEW p, NEW delta, UNCHANGED reservation,
               \/ movements' = [movements EXCEPT ![p].adjusted = @ + delta]
               \/ movements' = [movements EXCEPT ![p].reconciled = @ + delta]
        PROVE  Stock!PromiseNext
    <3>1. \A x \in Products : movements'[x].consumed = movements[x].consumed
      BY <1>0, <2>1
    <3>2. QED
      BY <2>1, <3>1, OtherStepsCorrect DEF Stock!PromiseNext
  <2>2. \/ UNCHANGED <<reservation, movements>>
        \/ \E p \in Products, n \in Deltas : adjustStock(p, n)
        \/ \E d \in DiscrepancyIds : ApplyCount(d)
        \/ \E o \in OrderIds, p \in Products, n \in 0..MaxStock : resolveReservationShortfall(o, p, n)
    BY <1>4 DEF InventoryStep, CountShelf, FileCount, reviewDiscrepancy, cancelDiscrepancy,
                ConfirmCount, FlagShortfall, WriteDiscrepancy
  <2>3. ASSUME NEW o \in OrderIds, NEW p \in Products, NEW n \in 0..MaxStock,
               resolveReservationShortfall(o, p, n)
        PROVE  Stock!PromiseNext
    BY <2>3, InventoryBounds, ShortfallLetsGo DEF Stock!PromiseNext
  <2>4. QED
    BY <1>1, <2>1, <2>2, <2>3 DEF adjustStock, ApplyCount
<1>5. CASE ReturnStep
  <2>1. \/ UNCHANGED <<reservation, movements>>
        \/ \E r \in ReturnIds : completeReturn(r)
    BY <1>5 DEF ReturnStep, createDeliveryRetry, resolveDeliveryLoss, createReturn, receiveReturn,
                inspectReturn, cancelReturn, WriteReturn
  <2>2. ASSUME NEW r \in ReturnIds, completeReturn(r)
        PROVE  Stock!PromiseNext
    <3>1. /\ movements' = [p \in Products |->
                              [movements[p] EXCEPT !.restocked = @ + goodsReturn[r].restockable[p]]]
          /\ UNCHANGED reservation
      BY <2>2 DEF completeReturn
    <3>2. \A x \in Products : movements'[x].consumed = movements[x].consumed
      BY <1>0, <3>1
    <3>3. QED
      BY <3>1, <3>2, OtherStepsCorrect DEF Stock!PromiseNext
  <2>3. QED
    BY <1>1, <2>1, <2>2
<1>6. CASE PaymentStep
  <2>1. UNCHANGED <<reservation, movements>>
    BY <1>6, PaymentStepsMoveNoGoods
  <2>2. QED
    BY <1>1, <2>1
<1>7. CASE UNCHANGED vars
  BY <1>1, <1>7 DEF vars
<1>8. QED
  BY <1>2, <1>3, <1>4, <1>5, <1>6, <1>7 DEF Next

\* The order-to-delivery core implements the abstract stock promise.
THEOREM StockPromiseIsKept == Spec => KeepsStockPromise
<1>1. [Stock!PromiseNext]_<<shelf, holds, gone>> =>
        [Stock!PromiseNext]_<<[p \in Products |-> stock[p].available],
                              [o \in OrderIds |-> [p \in Products |-> Held(o, p)]],
                              [p \in Products |-> movements[p].consumed]>>
  BY DEF shelf, holds, gone
<1>2. QED
  BY <1>1, PromiseStarts, PromiseStep, RowsAndLocks, StockIsConsistent, PTL
     DEF Spec, KeepsStockPromise, Stock!PromiseSpec
==============================================================================
