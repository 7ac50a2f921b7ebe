---------------------------- MODULE Stock_proofs ----------------------------
(***************************************************************************)
(* Type correctness of Distributor, after some facts about Total: what     *)
(* changing one entry does to the sum, and when the sum is zero or at      *)
(* least one of its entries.  Then the stock: the aggregate reserved stock *)
(* of a product is the sum of its ACTIVE reservations, the shelf covers    *)
(* it, and a handover takes exactly what its order held, for any number of *)
(* orders, tasks, products and transactions in flight.                     *)
(***************************************************************************)
EXTENDS Distributor, FiniteSetTheorems, TLAPS

\* The units counted for one entry are as many as the entry says.
LEMMA UnitsOfOneEntry ==
    ASSUME NEW f, NEW x, f[x] \in Nat
    PROVE  /\ IsFiniteSet(Units(f, x))
           /\ Cardinality(Units(f, x)) = f[x]
<1>1. IsFiniteSet({x}) /\ Cardinality({x}) = 1
  BY FS_Singleton
<1>2. IsFiniteSet(1..f[x]) /\ Cardinality(1..f[x]) = f[x]
  BY FS_Interval, SMTT(30)
<1> DEFINE one == {x}
           many == 1..f[x]
<1> HIDE DEF one, many
<1>3. /\ IsFiniteSet(one \X many)
      /\ Cardinality(one \X many) = Cardinality(one) * Cardinality(many)
  BY <1>1, <1>2, FS_Product DEF one, many
<1>4. Cardinality(one) * Cardinality(many) = f[x]
  BY <1>1, <1>2 DEF one, many
<1>5. QED
  BY <1>3, <1>4 DEF Units, one, many

\* The units of a finite set of entries are finitely many.
LEMMA UnitsAreFinite ==
    ASSUME NEW S, IsFiniteSet(S), NEW f, \A x \in S : f[x] \in Nat
    PROVE  IsFiniteSet(UNION {Units(f, x) : x \in S})
<1> DEFINE g == [x \in S |-> Units(f, x)]
           T == {Units(f, x) : x \in S}
<1>1. g \in Surjection(S, T)
  BY DEF Surjection
<1>2. IsFiniteSet(T)
  BY <1>1, FS_Surjection
<1>3. \A U \in T : IsFiniteSet(U)
  BY UnitsOfOneEntry
<1> HIDE DEF T
<1>4. QED
  BY <1>2, <1>3, FS_UNION DEF T

\* The sum is a natural number.
LEMMA TotalType ==
    ASSUME NEW S, IsFiniteSet(S), NEW f \in [S -> Nat]
    PROVE  Total(f) \in Nat
BY UnitsAreFinite, FS_CardinalityType DEF Total

\* One entry can be split off the sum.
LEMMA TotalSplit ==
    ASSUME NEW S, IsFiniteSet(S), NEW f \in [S -> Nat], NEW x \in S
    PROVE  /\ Cardinality(UNION {Units(f, y) : y \in S \ {x}}) \in Nat
           /\ Total(f) = Cardinality(UNION {Units(f, y) : y \in S \ {x}}) + f[x]
<1> DEFINE rest == UNION {Units(f, y) : y \in S \ {x}}
<1>1. IsFiniteSet(S \ {x})
  BY FS_RemoveElement
<1>2. IsFiniteSet(rest)
  BY <1>1, UnitsAreFinite
<1>3. IsFiniteSet(Units(f, x)) /\ Cardinality(Units(f, x)) = f[x]
  BY UnitsOfOneEntry
<1>4. rest \cap Units(f, x) = {}
  BY DEF Units
<1>5. UNION {Units(f, y) : y \in DOMAIN f} = rest \cup Units(f, x)
  OBVIOUS
<1>6. Cardinality({}) = 0
  BY FS_EmptySet
<1>7. Cardinality(rest) \in Nat
  BY <1>2, FS_CardinalityType
<1> HIDE DEF rest
<1>8. Cardinality(rest \cup Units(f, x)) = Cardinality(rest) + f[x] - 0
  BY <1>2, <1>3, <1>4, <1>6, FS_Union
<1>9. Total(f) = Cardinality(rest \cup Units(f, x))
  BY <1>5 DEF Total
<1>10. Total(f) = Cardinality(rest) + f[x]
  BY <1>7, <1>8, <1>9
<1>11. QED
  BY <1>7, <1>10 DEF rest

\* An entry is at most the sum.
LEMMA TotalAtLeast ==
    ASSUME NEW S, IsFiniteSet(S), NEW f \in [S -> Nat], NEW x \in S
    PROVE  f[x] <= Total(f)
<1> DEFINE rest == Cardinality(UNION {Units(f, y) : y \in S \ {x}})
<1>1. rest \in Nat /\ Total(f) = rest + f[x]
  BY TotalSplit
<1>2. f[x] \in Nat
  OBVIOUS
<1> HIDE DEF rest
<1>3. QED
  BY <1>1, <1>2

\* When one entry changes, the sum changes by as much.
LEMMA TotalUpdate ==
    ASSUME NEW S, IsFiniteSet(S), NEW f \in [S -> Nat], NEW g \in [S -> Nat], NEW x \in S,
           \A y \in S \ {x} : g[y] = f[y]
    PROVE  Total(g) = Total(f) - f[x] + g[x]
<1>1. {Units(g, y) : y \in S \ {x}} = {Units(f, y) : y \in S \ {x}}
  BY DEF Units
<1> DEFINE rest(h) == Cardinality(UNION {Units(h, y) : y \in S \ {x}})
<1>2. rest(g) = rest(f)
  BY <1>1
<1>3. rest(f) \in Nat /\ Total(f) = rest(f) + f[x]
  BY TotalSplit
<1>4. Total(g) = rest(g) + g[x]
  BY TotalSplit
<1>5. f[x] \in Nat /\ g[x] \in Nat
  OBVIOUS
<1> HIDE DEF rest
<1>6. QED
  BY <1>2, <1>3, <1>4, <1>5

\* A sum of zeros is zero.
LEMMA TotalOfZeros ==
    ASSUME NEW S, NEW f \in [S -> Nat], \A x \in S : f[x] = 0
    PROVE  Total(f) = 0
<1>1. \A x \in S : Units(f, x) = {}
  BY DEF Units
<1>2. UNION {Units(f, x) : x \in DOMAIN f} = {}
  BY <1>1
<1>3. QED
  BY <1>2, FS_EmptySet DEF Total

-----------------------------------------------------------------------------
(* The types of the tables                                                 *)

\* What the tables that an action can change look like one by one.
USE DEF stockTables, orderTables, yard, road, money

\* The quantity of a product on a quotation is a natural number.
LEMMA QuantityType ==
    ASSUME NEW q \in Quotations, NEW p
    PROVE  QuantityOf(q, p) \in Nat
<1> DEFINE f == [i \in DOMAIN Items[q] |->
                    IF Items[q][i].product = p THEN Items[q][i].quantity ELSE 0]
<1>1. Items[q] \in Seq(Line)
  BY QuotationsAreTyped
<1>2. IsFiniteSet(DOMAIN Items[q])
  BY <1>1, FS_Interval
<1>3. \A i \in DOMAIN Items[q] : Items[q][i].quantity \in Nat
  <2>1. \A i \in DOMAIN Items[q] : Items[q][i] \in Line
    BY <1>1
  <2>2. QED
    BY <2>1 DEF Line
<1>4. QED
  BY <1>2, <1>3, TotalType DEF QuantityOf

\* What is held of a product is a natural number.
LEMMA HeldType ==
    ASSUME TypeOK, NEW o \in OrderIds, NEW p \in Products
    PROVE  Held(o, p) \in Nat
BY DEF TypeOK, Held, ReservationRow

\* The empty tables are typed.
THEOREM InitTyped == Init => TypeOK
<1> SUFFICES ASSUME Init
             PROVE  TypeOK
  OBVIOUS
<1>1. addressed \in BOOLEAN
  BY Zenon DEF Init
<1>2. stock \in [Products -> [available : Nat, reserved : Nat]]
  BY QuotationsAreTyped DEF Init
<1>3. movements \in [Products -> [adjusted : Int, reconciled : Int,
                                  consumed : Nat, restocked : Nat]]
  BY DEF Init
<1>4. /\ order \in [OrderIds -> OrderRow]
      /\ item \in [OrderIds -> Quantities]
      /\ reservation \in [OrderIds -> [Products -> ReservationRow]]
  BY DEF Init, NoOrder, OrderRow, Nothing, Quantities, NoReservation, ReservationRow
<1>5. /\ task \in [TaskIds -> TaskRow]
      /\ delivery \in [DeliveryIds -> DeliveryRow]
  BY DEF Init, NoTask, TaskRow, NoDelivery, DeliveryRow, Nothing, Quantities
<1>6. /\ goodsReturn \in [ReturnIds -> ReturnRow]
      /\ discrepancy \in [DiscrepancyIds -> DiscrepancyRow]
  BY DEF Init, NoReturn, ReturnRow, NoDiscrepancy, DiscrepancyRow, Nothing, Quantities
<1>7. /\ payment \in [PaymentIds -> PaymentRow]
      /\ reviewed \in [PaymentIds -> PayloadRow]
  BY DEF Init, NoPayment, PaymentRow, NotReviewed, PayloadRow
<1>8. creating \in [Requests -> CreationRow]
  BY DEF Init, CreationRow
<1>9. /\ handover \subseteq TaskIds /\ confirming \subseteq PaymentIds
      /\ extracting \subseteq PaymentIds /\ correcting \subseteq PaymentIds
  BY DEF Init
<1>10. QED
  BY <1>1, <1>2, <1>3, <1>4, <1>5, <1>6, <1>7, <1>8, <1>9 DEF TypeOK

StockRows == [Products -> [available : Nat, reserved : Nat]]

\* The CHECK constraint keeps the products typed, whatever was computed.
LEMMA WriteStockTyped ==
    ASSUME NEW rows \in [Products -> [available : Int, reserved : Int]], WriteStock(rows)
    PROVE  stock' \in StockRows
<1>1. stock' = rows /\ \A p \in Products : rows[p].reserved \in 0..rows[p].available
  BY DEF WriteStock
<1>2. \A p \in Products : rows[p] \in [available : Nat, reserved : Nat]
  <2>1. TAKE p \in Products
  <2>2. rows[p] \in [available : Int, reserved : Int]
    OBVIOUS
  <2>3. rows[p].reserved >= 0 /\ rows[p].available >= rows[p].reserved
    BY <1>1, <2>2
  <2>4. QED
    BY <2>2, <2>3
<1>3. QED
  BY <1>1, <1>2 DEF StockRows

\* Orders: every step keeps the types.
LEMMA OrderStepTyped == TypeOK /\ OrderStep => TypeOK'
<1> SUFFICES ASSUME TypeOK, OrderStep PROVE TypeOK'
  OBVIOUS
<1>1. ASSUME NEW r \in Requests, NEW q \in Quotations, NEW b \in DeliveryChoices, CheckQuotation(r, q, b)
      PROVE  TypeOK'
  BY <1>1, DeliveryBounds DEF CheckQuotation, TypeOK, CreationRow
<1>2. ASSUME NEW r \in Requests, NEW o \in OrderIds, ReserveAndCreate(r, o)
      PROVE  TypeOK'
  <2> DEFINE q == creating[r].quotation
  <2>1. /\ q \in Quotations
        /\ creating[r].deliveryRequired \in BOOLEAN
        /\ creating[r].destination \in BOOLEAN
    BY <1>2 DEF ReserveAndCreate, TypeOK, CreationRow, NotCreating
  <2>2. \A p \in Products : QuantityOf(q, p) \in Nat
    BY <2>1, QuantityType
  <2> HIDE DEF q
  <2>3. order' \in [OrderIds -> OrderRow]
    <3>1. NewOrder(creating[r]) \in OrderRow
      BY <2>1 DEF NewOrder, NoOrder, OrderRow, initialStatuses, q
    <3>2. QED
      BY <1>2, <3>1 DEF ReserveAndCreate, TypeOK
  <2>4. item' \in [OrderIds -> Quantities]
    BY <1>2, <2>2 DEF ReserveAndCreate, TypeOK, Quantities, q
  <2>5. reservation' \in [OrderIds -> [Products -> ReservationRow]]
    BY <1>2, <2>2 DEF ReserveAndCreate, TypeOK, ReservationRow, NoReservation, q
  <2>6. stock' \in [Products -> [available : Nat, reserved : Nat]]
    BY <1>2, <2>2 DEF ReserveAndCreate, TypeOK, WriteStock, q
  <2>7. creating' \in [Requests -> CreationRow]
    BY <1>2 DEF ReserveAndCreate, TypeOK, CreationRow
  <2>8. QED
    BY <1>2, <2>3, <2>4, <2>5, <2>6, <2>7 DEF ReserveAndCreate, TypeOK
<1>3. ASSUME NEW r \in Requests, GiveUpCreation(r)
      PROVE  TypeOK'
  BY <1>3 DEF GiveUpCreation, TypeOK, CreationRow
<1>4. ASSUME NEW o \in OrderIds, CancelOrder(o)
      PROVE  TypeOK'
  <2>1. order' \in [OrderIds -> OrderRow]
    <3>1. [order[o] EXCEPT !.status = "CANCELLED", !.fulfillmentStatus = "CANCELLED"] \in OrderRow
      <4>1. order[o] \in OrderRow
        BY DEF TypeOK
      <4>2. QED
        BY <4>1 DEF OrderRow
    <3>2. order' = [order EXCEPT ![o] =
                        [@ EXCEPT !.status = "CANCELLED", !.fulfillmentStatus = "CANCELLED"]]
      BY <1>4 DEF CancelOrder, TypeOK
    <3>3. QED
      BY <3>1, <3>2 DEF TypeOK
  <2>2. item' \in [OrderIds -> Quantities]
    BY <1>4 DEF CancelOrder, ReleasedLines, TypeOK, Quantities, Nothing
  <2>3. reservation' \in [OrderIds -> [Products -> ReservationRow]]
    <3>1. ReleaseAll(reservation[o]) \in [Products -> ReservationRow]
      <4>1. \A p \in Products : reservation[o][p] \in ReservationRow
        BY DEF TypeOK
      <4>2. \A p \in Products : [reservation[o][p] EXCEPT !.status = "RELEASED"] \in ReservationRow
        BY <4>1 DEF ReservationRow
      <4>3. QED
        BY <4>1, <4>2 DEF ReleaseAll
    <3>2. QED
      BY <1>4, <3>1 DEF CancelOrder, TypeOK
  <2>4. stock' \in [Products -> [available : Nat, reserved : Nat]]
    <3>1. \A p \in Products : Held(o, p) \in Nat
      BY HeldType
    <3> DEFINE rows == [p \in Products |-> [stock[p] EXCEPT !.reserved = @ - Held(o, p)]]
    <3>2. rows \in [Products -> [available : Int, reserved : Int]]
      <4>1. \A p \in Products : stock[p] \in [available : Nat, reserved : Nat]
        BY DEF TypeOK
      <4>2. QED
        BY <3>1, <4>1
    <3>3. WriteStock(rows)
      BY <1>4 DEF CancelOrder
    <3>4. QED
      BY <3>2, <3>3, WriteStockTyped DEF StockRows
  <2>5. QED
    BY <1>4, <2>1, <2>2, <2>3, <2>4 DEF CancelOrder, TypeOK
<1>5. ASSUME UpdateCustomer
      PROVE  TypeOK'
  BY <1>5 DEF UpdateCustomer, TypeOK
<1>6. QED
  BY <1>1, <1>2, <1>3, <1>4, <1>5 DEF OrderStep

-----------------------------------------------------------------------------

\* The collection of an order is recorded or not.
LEMMA PickedUpIsBoolean ==
    ASSUME TypeOK, NEW o \in OrderIds
    PROVE  order[o].pickedUp \in BOOLEAN
<1>1. order[o] \in OrderRow
  BY DEF TypeOK
<1>2. QED
  BY <1>1 DEF OrderRow

\* Completion only touches the order's status and its collection.
LEMMA AfterCompletionTyped ==
    ASSUME TypeOK, NEW o, NEW taskStatus, NEW deliveryStatus, NEW pickedUp \in BOOLEAN
    PROVE  AfterCompletion(o, taskStatus, deliveryStatus, pickedUp) \in [OrderIds -> OrderRow]
<1> DEFINE done == assessCompletion(o, taskStatus, deliveryStatus, pickedUp)
           row(r) == [r EXCEPT !.pickedUp = pickedUp,
                               !.status = IF @ = "OPEN" /\ done THEN "COMPLETED" ELSE @]
<1> HIDE DEF done
<1>1. \A r \in OrderRow : row(r) \in OrderRow
  BY ZenonT(40) DEF OrderRow
<1>2. AfterCompletion(o, taskStatus, deliveryStatus, pickedUp) = [order EXCEPT ![o] = row(@)]
  <2>1. order \in [OrderIds -> OrderRow]
    BY DEF TypeOK
  <2>2. QED
    BY <2>1 DEF AfterCompletion, done, OrderRow
<1>3. order \in [OrderIds -> OrderRow]
  BY DEF TypeOK
<1> HIDE DEF row
<1>4. [order EXCEPT ![o] = row(@)] \in [OrderIds -> OrderRow]
  BY <1>1, <1>3
<1>5. QED
  BY <1>2, <1>4

\* Moving a task to another status keeps the types.
LEMMA MoveTaskTyped ==
    ASSUME TypeOK, NEW t \in TaskIds, NEW to, MoveTask(t, to)
    PROVE  TypeOK'
<1>1. to \in {"IN_PROGRESS", "PREPARED", "COMPLETED", "CANCELLED"}
  BY DEF MoveTask, TASK_TRANSITIONS
<1>2. task[t] \in TaskRow
  BY DEF TypeOK
<1>3. [task[t] EXCEPT !.status = to] \in TaskRow
  BY <1>1, <1>2 DEF TaskRow
<1>4. task' \in [TaskIds -> TaskRow]
  BY <1>3 DEF MoveTask, TypeOK
<1>5. QED
  BY <1>4 DEF MoveTask, TypeOK

\* Moving a delivery to another status keeps the types.
LEMMA MoveDeliveryTyped ==
    ASSUME TypeOK, NEW d \in DeliveryIds, NEW from,
           NEW to \in {"ASSIGNED", "DISPATCHED", "DELIVERED", "FAILED"},
           MoveDelivery(d, from, to), order' \in [OrderIds -> OrderRow]
    PROVE  TypeOK'
<1>1. delivery' = [delivery EXCEPT ![d].status = to]
  BY DEF MoveDelivery
<1>2. delivery[d] \in DeliveryRow
  BY DEF TypeOK
<1>3. [delivery[d] EXCEPT !.status = to] \in DeliveryRow
  BY <1>2 DEF DeliveryRow
<1>4. delivery' \in [DeliveryIds -> DeliveryRow]
  BY <1>1, <1>3 DEF TypeOK
<1>5. QED
  BY <1>4 DEF MoveDelivery, TypeOK

\* Handing over: the products, the ledger, the reservations, the task, the
\* delivery and the order are all written.
LEMMA FinishHandoverTyped ==
    ASSUME TypeOK, NEW t \in TaskIds, FinishHandover(t)
    PROVE  TypeOK'
<1> DEFINE o == task[t].order
           out == task[t].required
<1>1. o \in OrderIds \cup {None} /\ out \in [Products -> Nat]
  <2>1. task[t] \in TaskRow
    BY DEF TypeOK
  <2>2. QED
    BY <2>1 DEF TaskRow, Quantities
<1>2. stock' \in StockRows
  <2> DEFINE rows == [p \in Products |-> [available |-> stock[p].available - out[p],
                                          reserved  |-> stock[p].reserved - out[p]]]
  <2>1. \A p \in Products : stock[p] \in [available : Nat, reserved : Nat]
    BY DEF TypeOK
  <2>2. rows \in [Products -> [available : Int, reserved : Int]]
    BY <1>1, <2>1
  <2>3. WriteStock(rows)
    BY DEF FinishHandover
  <2>4. QED
    BY <2>2, <2>3, WriteStockTyped
<1>3. movements' \in [Products -> [adjusted : Int, reconciled : Int,
                                   consumed : Nat, restocked : Nat]]
  <2>1. \A p \in Products : movements[p] \in [adjusted : Int, reconciled : Int,
                                              consumed : Nat, restocked : Nat]
    BY DEF TypeOK
  <2>2. \A p \in Products : [movements[p] EXCEPT !.consumed = @ + out[p]]
                                \in [adjusted : Int, reconciled : Int,
                                     consumed : Nat, restocked : Nat]
    BY <1>1, <2>1
  <2>3. QED
    BY <2>2 DEF FinishHandover
<1>4. reservation' \in [OrderIds -> [Products -> ReservationRow]]
  <2>1. \A x \in OrderIds, p \in Products : reservation[x][p] \in ReservationRow
    BY DEF TypeOK
  <2>2. \A x \in OrderIds, p \in Products :
            [reservation[x][p] EXCEPT !.status = "CONSUMED"] \in ReservationRow
    BY <2>1 DEF ReservationRow
  <2>3. \A x \in OrderIds : ConsumeAll(reservation[x]) \in [Products -> ReservationRow]
    BY <2>1, <2>2 DEF ConsumeAll
  <2>4. QED
    BY <2>3 DEF FinishHandover, TypeOK
<1>5. task' \in [TaskIds -> TaskRow]
  <2>1. task[t] \in TaskRow
    BY DEF TypeOK
  <2>2. [task[t] EXCEPT !.status = "COMPLETED"] \in TaskRow
    BY <2>1 DEF TaskRow
  <2>3. QED
    BY <2>2 DEF FinishHandover, TypeOK
<1>6. delivery' \in [DeliveryIds -> DeliveryRow]
  <2>1. RaiseDelivery(o, t)
    BY DEF FinishHandover
  <2>2. CASE UNCHANGED delivery
    BY <2>2 DEF TypeOK
  <2>3. CASE \E d \in DeliveryIds :
                delivery' = [delivery EXCEPT ![d] =
                    [NoDelivery EXCEPT !.status = "PENDING", !.order = o, !.task = t]]
    <3>1. [NoDelivery EXCEPT !.status = "PENDING", !.order = o, !.task = t] \in DeliveryRow
      BY <1>1 DEF NoDelivery, DeliveryRow
    <3>2. QED
      BY <2>3, <3>1 DEF TypeOK
  <2>4. QED
    BY <2>1, <2>2, <2>3 DEF RaiseDelivery
<1>7. order' \in [OrderIds -> OrderRow]
  <2>1. CASE o \in OrderIds
    <3>1. order[o].pickedUp \in BOOLEAN
      BY <2>1, PickedUpIsBoolean
    <3>2. QED
      BY <3>1, AfterCompletionTyped DEF FinishHandover
  <2>2. CASE o \notin OrderIds
    BY <2>2 DEF FinishHandover, AfterCompletion, TypeOK
  <2>3. QED
    BY <2>1, <2>2
<1>8. handover' \subseteq TaskIds
  BY DEF FinishHandover, TypeOK
<1>9. QED
  BY <1>2, <1>3, <1>4, <1>5, <1>6, <1>7, <1>8 DEF FinishHandover, TypeOK, StockRows

\* Fulfilment: every step keeps the types.
LEMMA FulfillmentStepTyped == TypeOK /\ FulfillmentStep => TypeOK'
<1> SUFFICES ASSUME TypeOK, FulfillmentStep PROVE TypeOK'
  OBVIOUS
<1>1. ASSUME NEW o \in OrderIds, NEW t \in TaskIds, createWarehouseTask(o, t)
      PROVE  TypeOK'
  <2>1. item[o] \in Quantities
    BY DEF TypeOK
  <2>2. [status |-> "PENDING", order |-> o, required |-> item[o], prepared |-> {}] \in TaskRow
    BY <2>1 DEF TaskRow
  <2>3. task' \in [TaskIds -> TaskRow]
    BY <1>1, <2>2 DEF createWarehouseTask, TypeOK
  <2>4. QED
    BY <1>1, <2>3 DEF createWarehouseTask, TypeOK
<1>2. ASSUME NEW t \in TaskIds, startWarehouseTask(t) \/ markTaskPrepared(t) \/ cancelWarehouseTask(t)
      PROVE  TypeOK'
  BY <1>2, MoveTaskTyped DEF startWarehouseTask, markTaskPrepared, cancelWarehouseTask
<1>3. ASSUME NEW t \in TaskIds, NEW p \in Products, NEW b \in BOOLEAN, markItemPrepared(t, p, b)
      PROVE  TypeOK'
  <2> DEFINE prepared == IF b THEN task[t].prepared \cup {p} ELSE task[t].prepared \ {p}
  <2>1. task[t] \in TaskRow
    BY DEF TypeOK
  <2>2. prepared \in SUBSET Products
    BY <2>1 DEF TaskRow
  <2>3. task' = [task EXCEPT ![t].prepared = prepared]
    BY <1>3 DEF markItemPrepared
  <2> HIDE DEF prepared
  <2>4. [task[t] EXCEPT !.prepared = prepared] \in TaskRow
    BY <2>1, <2>2 DEF TaskRow
  <2>5. task' \in [TaskIds -> TaskRow]
    BY <2>3, <2>4 DEF TypeOK
  <2>6. QED
    BY <1>3, <2>5 DEF markItemPrepared, TypeOK
<1>4. ASSUME NEW t \in TaskIds, BeginHandover(t) \/ GiveUpHandover(t)
      PROVE  TypeOK'
  BY <1>4 DEF BeginHandover, GiveUpHandover, TypeOK
<1>5. ASSUME NEW t \in TaskIds, FinishHandover(t)
      PROVE  TypeOK'
  BY <1>5, FinishHandoverTyped
<1>6. ASSUME NEW o \in OrderIds, recordPickup(o)
      PROVE  TypeOK'
  <2>1. order' \in [OrderIds -> OrderRow]
    BY <1>6, AfterCompletionTyped DEF recordPickup
  <2>2. QED
    BY <1>6, <2>1 DEF recordPickup, TypeOK
<1>7. ASSUME NEW d \in DeliveryIds, assignDelivery(d) \/ dispatchDelivery(d) \/ failDelivery(d)
      PROVE  TypeOK'
  <2>1. order' \in [OrderIds -> OrderRow]
    BY <1>7 DEF assignDelivery, dispatchDelivery, failDelivery, TypeOK
  <2>2. CASE assignDelivery(d)
    BY <2>1, <2>2, MoveDeliveryTyped DEF assignDelivery
  <2>3. CASE dispatchDelivery(d)
    BY <2>1, <2>3, MoveDeliveryTyped DEF dispatchDelivery
  <2>4. CASE failDelivery(d)
    BY <2>1, <2>4, MoveDeliveryTyped DEF failDelivery
  <2>5. QED
    BY <1>7, <2>2, <2>3, <2>4
<1>8. ASSUME NEW d \in DeliveryIds, completeDelivery(d)
      PROVE  TypeOK'
  <2> DEFINE o == delivery[d].order
  <2>1. order' \in [OrderIds -> OrderRow]
    <3>1. CASE o \in OrderIds
      <4>1. order[o].pickedUp \in BOOLEAN
        BY <3>1, PickedUpIsBoolean
      <4>2. QED
        BY <1>8, <4>1, AfterCompletionTyped DEF completeDelivery
    <3>2. CASE o \notin OrderIds
      BY <1>8, <3>2 DEF completeDelivery, AfterCompletion, TypeOK
    <3>3. QED
      BY <3>1, <3>2
  <2>2. QED
    BY <1>8, <2>1, MoveDeliveryTyped DEF completeDelivery
<1>9. QED
  BY <1>1, <1>2, <1>3, <1>4, <1>5, <1>6, <1>7, <1>8 DEF FulfillmentStep

-----------------------------------------------------------------------------

\* A product row.
LEMMA StockTyped ==
    ASSUME TypeOK, NEW p \in Products
    PROVE  stock[p] \in [available : Nat, reserved : Nat]
BY DEF TypeOK

\* A change of one product's shelf, behind the CHECK constraint.
LEMMA ShelfChangeTyped ==
    ASSUME TypeOK, NEW p \in Products, NEW delta \in Int,
           WriteStock([stock EXCEPT ![p].available = @ + delta])
    PROVE  stock' \in StockRows
<1> DEFINE rows == [stock EXCEPT ![p].available = @ + delta]
<1>1. rows \in [Products -> [available : Int, reserved : Int]]
  <2>1. \A x \in Products : stock[x] \in [available : Int, reserved : Int]
    BY StockTyped
  <2>2. [stock[p] EXCEPT !.available = @ + delta] \in [available : Int, reserved : Int]
    BY <2>1
  <2>3. DOMAIN stock = Products /\ stock = [x \in Products |-> stock[x]]
    BY DEF TypeOK
  <2>4. QED
    BY <2>1, <2>2, <2>3
<1>2. WriteStock(rows)
  OBVIOUS
<1> HIDE DEF rows
<1>3. QED
  BY <1>1, <1>2, WriteStockTyped

LedgerRow == [adjusted : Int, reconciled : Int, consumed : Nat, restocked : Nat]

\* Writing a typed discrepancy keeps the types.
LEMMA WriteDiscrepancyTyped ==
    ASSUME TypeOK, NEW d \in DiscrepancyIds, NEW row \in DiscrepancyRow, WriteDiscrepancy(d, row)
    PROVE  TypeOK'
<1>1. discrepancy' \in [DiscrepancyIds -> DiscrepancyRow]
  BY DEF WriteDiscrepancy, TypeOK
<1>2. QED
  BY <1>1 DEF WriteDiscrepancy, TypeOK

\* A discrepancy with another status is still one.
LEMMA DiscrepancyStatusTyped ==
    ASSUME TypeOK, NEW d \in DiscrepancyIds,
           NEW to \in {"OPEN", "UNDER_REVIEW", "RESOLVED", "CANCELLED"}
    PROVE  [discrepancy[d] EXCEPT !.status = to] \in DiscrepancyRow
<1>1. discrepancy[d] \in DiscrepancyRow
  BY DEF TypeOK
<1>2. QED
  BY <1>1 DEF DiscrepancyRow

\* Applying a count keeps the types: the shelf cannot become negative.
LEMMA ApplyCountTyped ==
    ASSUME TypeOK, NEW d \in DiscrepancyIds, ApplyCount(d)
    PROVE  TypeOK'
<1> DEFINE p == discrepancy[d].product
           delta == discrepancy[d].counted - stock[p].available
<1> HIDE DEF p, delta
<1>1. stock' \in StockRows /\ movements' \in [Products -> LedgerRow]
  <2>1. discrepancy[d].counted \in Nat
    <3>1. discrepancy[d] \in DiscrepancyRow
      BY DEF TypeOK
    <3>2. QED
      BY <3>1 DEF DiscrepancyRow
  <2>2. movements \in [Products -> LedgerRow]
    BY DEF TypeOK, LedgerRow
  <2>3. WriteStock([stock EXCEPT ![p].available = @ + delta])
    BY DEF ApplyCount, p, delta
  <2>4. movements' = [movements EXCEPT ![p].reconciled = @ + delta]
    BY DEF ApplyCount, p, delta
  <2>5. CASE p \in Products
    <3>1. delta \in Int
      <4>1. stock[p] \in [available : Nat, reserved : Nat]
        BY <2>5, StockTyped
      <4>2. stock[p].available \in Nat
        BY <4>1
      <4>3. QED
        BY <2>1, <4>2 DEF delta
    <3>2. stock' \in StockRows
      BY <2>3, <2>5, <3>1, ShelfChangeTyped
    <3>3. movements[p] \in LedgerRow
      BY <2>2, <2>5
    <3>4. [movements[p] EXCEPT !.reconciled = @ + delta] \in LedgerRow
      BY <3>1, <3>3 DEF LedgerRow
    <3>5. QED
      BY <2>2, <2>4, <3>2, <3>4
  <2>6. CASE p \notin Products
    <3>1. stock \in StockRows
      BY DEF TypeOK, StockRows
    <3>2. stock' = stock
      BY <2>3, <2>6, <3>1 DEF WriteStock, StockRows
    <3>3. movements' = movements
      BY <2>2, <2>4, <2>6
    <3>4. QED
      BY <2>2, <3>1, <3>2, <3>3
  <2>7. QED
    BY <2>5, <2>6
<1>2. discrepancy' = [discrepancy EXCEPT ![d] = [@ EXCEPT !.status = "RESOLVED"]]
  BY DEF ApplyCount
<1>3. [discrepancy[d] EXCEPT !.status = "RESOLVED"] \in DiscrepancyRow
  BY DiscrepancyStatusTyped
<1>4. discrepancy' \in [DiscrepancyIds -> DiscrepancyRow]
  BY <1>2, <1>3 DEF TypeOK
<1>5. QED
  BY <1>1, <1>4 DEF ApplyCount, TypeOK, StockRows, LedgerRow

\* Giving way to a shortage keeps the types.
LEMMA ShortfallTyped ==
    ASSUME TypeOK, NEW o \in OrderIds, NEW p \in Products, NEW n \in Nat,
           resolveReservationShortfall(o, p, n)
    PROVE  TypeOK'
<1> DEFINE row == reservation[o][p]
<1>1. row \in ReservationRow
  BY DEF TypeOK
<1>2. stock' \in StockRows
  <2> DEFINE rows == [stock EXCEPT ![p].reserved = @ - (row.quantity - n)]
  <2>1. row.quantity \in Nat
    BY <1>1 DEF ReservationRow
  <2>2. [stock[p] EXCEPT !.reserved = @ - (row.quantity - n)] \in [available : Int, reserved : Int]
    BY <2>1, StockTyped
  <2>3. stock \in [Products -> [available : Nat, reserved : Nat]]
    BY DEF TypeOK
  <2>4. rows \in [Products -> [available : Int, reserved : Int]]
    BY <2>2, <2>3
  <2>5. WriteStock(rows)
    BY DEF resolveReservationShortfall
  <2> HIDE DEF rows
  <2>6. QED
    BY <2>4, <2>5, WriteStockTyped
<1>3. reservation' \in [OrderIds -> [Products -> ReservationRow]]
  <2> DEFINE new == IF n = 0 THEN [row EXCEPT !.status = "RELEASED"] ELSE [row EXCEPT !.quantity = n]
  <2>1. new \in ReservationRow
    BY <1>1 DEF ReservationRow
  <2>2. reservation' = [reservation EXCEPT ![o][p] = new]
    BY DEF resolveReservationShortfall
  <2> HIDE DEF new
  <2>3. QED
    BY <2>1, <2>2 DEF TypeOK
<1>4. item' \in [OrderIds -> Quantities]
  <2>1. item' = [item EXCEPT ![o][p] = n]
    BY DEF resolveReservationShortfall
  <2>2. QED
    BY <2>1 DEF TypeOK, Quantities
<1>5. order' \in [OrderIds -> OrderRow]
  <2> DEFINE x == IF n < QuantityOf(order[o].quotation, p) THEN "STOCK_SHORTFALL" ELSE order[o].exception
  <2>1. order[o] \in OrderRow
    BY DEF TypeOK
  <2>2. [order[o] EXCEPT !.exception = x] \in OrderRow
    BY <2>1 DEF OrderRow
  <2>3. order' = [order EXCEPT ![o] = [@ EXCEPT !.exception = x]]
    BY DEF resolveReservationShortfall
  <2> HIDE DEF x
  <2>4. QED
    BY <2>2, <2>3 DEF TypeOK
<1>6. QED
  BY <1>2, <1>3, <1>4, <1>5 DEF resolveReservationShortfall, TypeOK, StockRows

\* Inventory: every step keeps the types.
LEMMA InventoryStepTyped == TypeOK /\ InventoryStep => TypeOK'
<1> SUFFICES ASSUME TypeOK, InventoryStep PROVE TypeOK'
  OBVIOUS
<1>1. ASSUME NEW p \in Products, NEW delta \in Deltas, adjustStock(p, delta)
      PROVE  TypeOK'
  <2>1. delta \in Int
    BY InventoryBounds
  <2>2. stock' \in StockRows
    BY <1>1, <2>1, ShelfChangeTyped DEF adjustStock
  <2>3. movements \in [Products -> LedgerRow]
    BY DEF TypeOK, LedgerRow
  <2>4. [movements[p] EXCEPT !.adjusted = @ + delta] \in LedgerRow
    BY <2>1, <2>3 DEF LedgerRow
  <2>5. movements' \in [Products -> LedgerRow]
    BY <1>1, <2>3, <2>4 DEF adjustStock
  <2>6. QED
    BY <1>1, <2>2, <2>5 DEF adjustStock, TypeOK, StockRows, LedgerRow
<1>2. ASSUME NEW d \in DiscrepancyIds, NEW p \in Products, NEW t \in TaskIds \cup {None},
             NEW n \in 0..MaxStock, CountShelf(d, p, t, n)
      PROVE  TypeOK'
  <2>1. n \in Nat /\ stock[p].available \in Nat
    BY InventoryBounds, StockTyped
  <2>2. [status |-> "COUNTING", product |-> p, task |-> t,
         onHand |-> stock[p].available, counted |-> n] \in DiscrepancyRow
    BY <2>1 DEF DiscrepancyRow
  <2>3. QED
    BY <1>2, <2>2, WriteDiscrepancyTyped DEF CountShelf
<1>3. ASSUME NEW d \in DiscrepancyIds,
             \/ FileCount(d) \/ reviewDiscrepancy(d) \/ cancelDiscrepancy(d)
             \/ ConfirmCount(d) \/ FlagShortfall(d)
      PROVE  TypeOK'
  <2>1. \E to \in {"OPEN", "UNDER_REVIEW", "RESOLVED", "CANCELLED"} :
            WriteDiscrepancy(d, [discrepancy[d] EXCEPT !.status = to])
    BY <1>3 DEF FileCount, reviewDiscrepancy, cancelDiscrepancy, ConfirmCount, FlagShortfall
  <2>2. QED
    BY <2>1, DiscrepancyStatusTyped, WriteDiscrepancyTyped
<1>4. ASSUME NEW d \in DiscrepancyIds, ApplyCount(d)
      PROVE  TypeOK'
  BY <1>4, ApplyCountTyped
<1>5. ASSUME NEW o \in OrderIds, NEW p \in Products, NEW n \in 0..MaxStock,
             resolveReservationShortfall(o, p, n)
      PROVE  TypeOK'
  BY <1>5, ShortfallTyped, InventoryBounds
<1>6. QED
  BY <1>1, <1>2, <1>3, <1>4, <1>5 DEF InventoryStep

-----------------------------------------------------------------------------
(* Foreign keys.  The types alone are not inductive: what a return may     *)
(* claim is read off the task of its delivery, and what is outstanding off *)
(* the quotation of a payment's order.                                     *)

\* A row that exists names rows that exist.
ForeignKeys ==
    /\ \A o \in OrderIds : order[o].status # "ABSENT" => order[o].quotation \in Quotations
    /\ \A t \in TaskIds : task[t].status # "ABSENT" =>
           task[t].order \in OrderIds /\ order[task[t].order].status # "ABSENT"
    /\ \A d \in DeliveryIds : delivery[d].status # "ABSENT" => delivery[d].task \in TaskIds
    /\ \A c \in PaymentIds : payment[c].status # "ABSENT" =>
           payment[c].order \in OrderIds /\ order[payment[c].order].status # "ABSENT"

\* What a step may do to a table: keep a row and the row it names, or insert one.
KeepsOrders == \A o \in OrderIds :
    \/ /\ order'[o].status = "ABSENT" <=> order[o].status = "ABSENT"
       /\ order'[o].quotation = order[o].quotation
    \/ /\ order[o].status = "ABSENT"
       /\ order'[o].status # "ABSENT"
       /\ order'[o].quotation \in Quotations
KeepsTasks == \A t \in TaskIds :
    \/ /\ task'[t].status = "ABSENT" <=> task[t].status = "ABSENT"
       /\ task'[t].order = task[t].order
    \/ /\ task[t].status = "ABSENT"
       /\ task'[t].order \in OrderIds
       /\ order[task'[t].order].status # "ABSENT"
KeepsDeliveries == \A d \in DeliveryIds :
    \/ /\ delivery'[d].status = "ABSENT" <=> delivery[d].status = "ABSENT"
       /\ delivery'[d].task = delivery[d].task
    \/ /\ delivery[d].status = "ABSENT"
       /\ delivery'[d].task \in TaskIds
KeepsPayments == \A c \in PaymentIds :
    \/ /\ payment'[c].status = "ABSENT" <=> payment[c].status = "ABSENT"
       /\ payment'[c].order = payment[c].order
    \/ /\ payment[c].status = "ABSENT"
       /\ payment'[c].order \in OrderIds
       /\ order[payment'[c].order].status # "ABSENT"

KeepsRows == KeepsOrders /\ KeepsTasks /\ KeepsDeliveries /\ KeepsPayments

\* If no row is deleted or made to name another one, the keys stay valid.
LEMMA RowsKeepTheirKeys == ForeignKeys /\ KeepsRows => ForeignKeys'
BY DEF ForeignKeys, KeepsRows, KeepsOrders, KeepsTasks, KeepsDeliveries, KeepsPayments

\* A table that is not written keeps its rows.
LEMMA UnwrittenTables ==
    /\ UNCHANGED order => KeepsOrders
    /\ UNCHANGED task => KeepsTasks
    /\ UNCHANGED delivery => KeepsDeliveries
    /\ UNCHANGED payment => KeepsPayments
BY DEF KeepsOrders, KeepsTasks, KeepsDeliveries, KeepsPayments

\* Writing anything but the quotation of an order that exists keeps it.
LEMMA OrderUpdateKeeps ==
    ASSUME TypeOK, NEW o, NEW row, row.status # "ABSENT", order' = [order EXCEPT ![o] = row],
           o \in OrderIds => /\ order[o].status # "ABSENT"
                             /\ row.quotation = order[o].quotation
    PROVE  KeepsOrders
BY DEF TypeOK, KeepsOrders

\* Writing anything but the order of a task that exists keeps it.
LEMMA TaskUpdateKeeps ==
    ASSUME TypeOK, NEW t \in TaskIds, NEW row, row.status # "ABSENT", task[t].status # "ABSENT",
           task' = [task EXCEPT ![t] = row], row.order = task[t].order
    PROVE  KeepsTasks
BY DEF TypeOK, KeepsTasks

\* The order keeps its quotation when it is completed.
LEMMA CompletionKeeps ==
    ASSUME TypeOK, NEW o, NEW taskStatus, NEW deliveryStatus, NEW pickedUp,
           order' = AfterCompletion(o, taskStatus, deliveryStatus, pickedUp)
    PROVE  KeepsOrders
<1>1. \A x \in OrderIds : order[x] \in OrderRow /\ DOMAIN order = OrderIds
  BY DEF TypeOK
<1>2. \A x \in OrderIds : /\ order'[x].quotation = order[x].quotation
                          /\ \/ order'[x].status = order[x].status
                             \/ order[x].status = "OPEN" /\ order'[x].status = "COMPLETED"
  BY <1>1 DEF AfterCompletion, OrderRow
<1>3. QED
  BY <1>2 DEF KeepsOrders

\* Conversion inserts an order with its quotation; cancellation keeps it.
LEMMA OrderStepKeeps == TypeOK /\ OrderStep => KeepsRows
<1> SUFFICES ASSUME TypeOK, OrderStep PROVE KeepsRows
  OBVIOUS
<1>1. KeepsTasks /\ KeepsDeliveries /\ KeepsPayments
  BY UnwrittenTables
     DEF OrderStep, CheckQuotation, ReserveAndCreate, GiveUpCreation, CancelOrder, UpdateCustomer
<1>2. KeepsOrders
  <2>1. ASSUME NEW r \in Requests, NEW o \in OrderIds, ReserveAndCreate(r, o)
        PROVE  KeepsOrders
    <3>1. creating[r].quotation \in Quotations
      BY <2>1 DEF ReserveAndCreate, TypeOK, CreationRow, NotCreating
    <3>2. /\ NewOrder(creating[r]).quotation = creating[r].quotation
          /\ NewOrder(creating[r]).status = "OPEN"
      BY DEF NewOrder, NoOrder
    <3>3. order' = [order EXCEPT ![o] = NewOrder(creating[r])] /\ order[o].status = "ABSENT"
      BY <2>1 DEF ReserveAndCreate
    <3>4. QED
      BY <3>1, <3>2, <3>3 DEF KeepsOrders, TypeOK
  <2>2. ASSUME NEW o \in OrderIds, CancelOrder(o)
        PROVE  KeepsOrders
    <3>1. order[o] \in OrderRow
      BY DEF TypeOK
    <3> DEFINE row == [order[o] EXCEPT !.status = "CANCELLED", !.fulfillmentStatus = "CANCELLED"]
    <3>2. row.status = "CANCELLED" /\ row.quotation = order[o].quotation
      BY <3>1 DEF OrderRow
    <3>3. order' = [order EXCEPT ![o] = row] /\ order[o].status = "OPEN"
      BY <2>2, <3>1 DEF CancelOrder, TypeOK
    <3> HIDE DEF row
    <3>4. QED
      BY <3>2, <3>3, OrderUpdateKeeps
  <2>3. QED
    BY <2>1, <2>2, UnwrittenTables DEF OrderStep, CheckQuotation, GiveUpCreation, UpdateCustomer
<1>3. QED
  BY <1>1, <1>2 DEF KeepsRows

-----------------------------------------------------------------------------

\* The row of a return.
LEMMA ReturnRowTyped ==
    ASSUME TypeOK, NEW r \in ReturnIds
    PROVE  /\ goodsReturn[r] \in ReturnRow
           /\ goodsReturn[r].dispatched \in Quantities
           /\ goodsReturn[r].restockable \in Quantities
           /\ goodsReturn[r].damaged \in Quantities
<1>1. goodsReturn[r] \in ReturnRow
  BY DEF TypeOK
<1>2. QED
  BY <1>1 DEF ReturnRow

\* Writing a typed return, and a typed delivery with it, keeps the types.
LEMMA WriteReturnTyped ==
    ASSUME TypeOK, NEW r \in ReturnIds, NEW row \in ReturnRow, WriteReturn(r, row),
           delivery' \in [DeliveryIds -> DeliveryRow]
    PROVE  TypeOK'
<1>1. goodsReturn' \in [ReturnIds -> ReturnRow]
  BY DEF WriteReturn, TypeOK
<1>2. QED
  BY <1>1 DEF WriteReturn, TypeOK

\* A return with another status is still one.
LEMMA ReturnStatusTyped ==
    ASSUME TypeOK, NEW r \in ReturnIds,
           NEW to \in {"RECEIVED", "INSPECTED", "COMPLETED", "CANCELLED"}
    PROVE  [goodsReturn[r] EXCEPT !.status = to] \in ReturnRow
BY ReturnRowTyped DEF ReturnRow

\* A delivery with another resolution is still one.
LEMMA ResolutionTyped ==
    ASSUME TypeOK, NEW d,
           NEW to \in {"NULL", "RETRY_DELIVERY", "RETURNED_TO_WAREHOUSE", "LOST_OR_UNRECOVERABLE"}
    PROVE  [delivery EXCEPT ![d].resolution = to] \in [DeliveryIds -> DeliveryRow]
<1>1. \A x \in DeliveryIds : [delivery[x] EXCEPT !.resolution = to] \in DeliveryRow
  <2>1. \A x \in DeliveryIds : delivery[x] \in DeliveryRow
    BY DEF TypeOK
  <2>2. QED
    BY <2>1 DEF DeliveryRow
<1>2. QED
  BY <1>1 DEF TypeOK

\* An order with another exception is still one.
LEMMA ExceptionTyped ==
    ASSUME TypeOK, NEW o,
           NEW to \in {"STOCK_SHORTFALL", "GOODS_RETURNED", "DELIVERY_LOST", "NULL"}
    PROVE  [order EXCEPT ![o].exception = to] \in [OrderIds -> OrderRow]
<1>1. \A x \in OrderIds : [order[x] EXCEPT !.exception = to] \in OrderRow
  <2>1. \A x \in OrderIds : order[x] \in OrderRow
    BY DEF TypeOK
  <2>2. QED
    BY <2>1 DEF OrderRow
<1>2. QED
  BY <1>1 DEF TypeOK

\* A retry inserts a typed delivery.
LEMMA CreateRetryTyped ==
    ASSUME TypeOK, NEW d \in DeliveryIds, NEW e \in DeliveryIds, createDeliveryRetry(d, e)
    PROVE  TypeOK'
<1> DEFINE new == [status |-> "PENDING", order |-> delivery[d].order, task |-> delivery[d].task,
                   resolution |-> "NULL", retryOf |-> d]
           marked == [delivery EXCEPT ![d].resolution = "RETRY_DELIVERY"]
<1>1. new \in DeliveryRow
  <2>1. delivery[d] \in DeliveryRow
    BY DEF TypeOK
  <2>2. delivery[d].order \in OrderIds \cup {None} /\ delivery[d].task \in TaskIds \cup {None}
    BY <2>1 DEF DeliveryRow
  <2>3. QED
    BY <2>2 DEF DeliveryRow
<1>2. marked \in [DeliveryIds -> DeliveryRow]
  BY ResolutionTyped
<1>3. delivery' = [marked EXCEPT ![e] = new]
  BY DEF createDeliveryRetry
<1> HIDE DEF new, marked
<1>4. delivery' \in [DeliveryIds -> DeliveryRow]
  BY <1>1, <1>2, <1>3
<1>5. QED
  BY <1>4 DEF createDeliveryRetry, TypeOK

\* A return copies the quantities of its delivery's task, which exists.
LEMMA CreateReturnTyped ==
    ASSUME TypeOK, NEW d \in DeliveryIds, NEW r \in ReturnIds, createReturn(d, r),
           delivery[d].task \in TaskIds
    PROVE  TypeOK'
<1> DEFINE new == [status |-> "EXPECTED", delivery |-> d,
                   dispatched |-> task[delivery[d].task].required,
                   restockable |-> Nothing, damaged |-> Nothing]
<1>1. new \in ReturnRow
  <2>1. task[delivery[d].task] \in TaskRow
    BY DEF TypeOK
  <2>2. task[delivery[d].task].required \in Quantities
    BY <2>1 DEF TaskRow
  <2>3. Nothing \in Quantities
    BY DEF Nothing, Quantities
  <2>4. QED
    BY <2>2, <2>3 DEF ReturnRow
<1>2. goodsReturn' = [goodsReturn EXCEPT ![r] = new]
  BY DEF createReturn
<1> HIDE DEF new
<1>3. goodsReturn' \in [ReturnIds -> ReturnRow]
  BY <1>1, <1>2 DEF TypeOK
<1>4. delivery' \in [DeliveryIds -> DeliveryRow]
  BY ResolutionTyped DEF createReturn
<1>5. order' \in [OrderIds -> OrderRow]
  BY ExceptionTyped DEF createReturn
<1>6. QED
  BY <1>3, <1>4, <1>5 DEF createReturn, TypeOK

\* The lines an inspection saves are natural numbers.
LEMMA InspectReturnTyped ==
    ASSUME TypeOK, NEW r \in ReturnIds, NEW split \in Splits(r), NEW all \in BOOLEAN,
           inspectReturn(r, split, all)
    PROVE  TypeOK'
<1> DEFINE out == goodsReturn[r].dispatched
           to == IF all THEN "INSPECTED" ELSE goodsReturn[r].status
           new == [SaveLines(r, split) EXCEPT !.status = to]
<1>1. out \in [Products -> Nat]
  BY ReturnRowTyped DEF Quantities
<1>2. \A p \in DOMAIN split : split[p].restockable \in Nat /\ split[p].damaged \in Nat
  <2>1. PICK lines \in (SUBSET OnReturn(r)) \ {{}} :
            split \in [lines -> UNION {[restockable : 0..out[p], damaged : 0..out[p]] : p \in lines}]
    BY DEF Splits
  <2>2. TAKE p \in DOMAIN split
  <2>3. PICK x \in lines : split[p] \in [restockable : 0..out[x], damaged : 0..out[x]]
    BY <2>1
  <2>4. out[x] \in Nat
    BY <1>1, <2>1 DEF OnReturn
  <2>5. QED
    BY <2>3, <2>4
<1>3. [p \in Products |-> IF p \in DOMAIN split THEN split[p].restockable
                                                ELSE goodsReturn[r].restockable[p]] \in Quantities
  BY <1>2, ReturnRowTyped DEF Quantities
<1>4. [p \in Products |-> IF p \in DOMAIN split THEN split[p].damaged
                                                ELSE goodsReturn[r].damaged[p]] \in Quantities
  BY <1>2, ReturnRowTyped DEF Quantities
<1>5. SaveLines(r, split) \in ReturnRow
  BY <1>3, <1>4, ReturnRowTyped DEF SaveLines, ReturnRow
<1>6. to \in {"RECEIVED", "INSPECTED"}
  BY DEF inspectReturn
<1>7. SaveLines(r, split).status = goodsReturn[r].status
  BY ReturnRowTyped DEF SaveLines, ReturnRow
<1>8. new \in ReturnRow
  BY <1>5, <1>6 DEF ReturnRow
<1>9. WriteReturn(r, new)
  BY <1>7 DEF inspectReturn
<1>10. delivery' \in [DeliveryIds -> DeliveryRow]
  BY DEF inspectReturn, TypeOK
<1> HIDE DEF new
<1>11. QED
  BY <1>8, <1>9, <1>10, WriteReturnTyped

\* Restocking keeps the types.
LEMMA CompleteReturnTyped ==
    ASSUME TypeOK, NEW r \in ReturnIds, completeReturn(r)
    PROVE  TypeOK'
<1> DEFINE back == goodsReturn[r].restockable
<1>1. back \in [Products -> Nat]
  BY ReturnRowTyped DEF Quantities
<1>2. stock' \in StockRows
  <2> DEFINE rows == [p \in Products |-> [stock[p] EXCEPT !.available = @ + back[p]]]
  <2>1. rows \in [Products -> [available : Int, reserved : Int]]
    BY <1>1, StockTyped
  <2>2. WriteStock(rows)
    BY DEF completeReturn
  <2>3. QED
    BY <2>1, <2>2, WriteStockTyped
<1>3. movements' \in [Products -> LedgerRow]
  <2>1. \A p \in Products : movements[p] \in LedgerRow
    BY DEF TypeOK, LedgerRow
  <2>2. \A p \in Products : [movements[p] EXCEPT !.restocked = @ + back[p]] \in LedgerRow
    BY <1>1, <2>1 DEF LedgerRow
  <2>3. QED
    BY <2>2 DEF completeReturn
<1>4. goodsReturn' \in [ReturnIds -> ReturnRow]
  <2>1. goodsReturn' = [goodsReturn EXCEPT ![r] = [@ EXCEPT !.status = "COMPLETED"]]
    BY DEF completeReturn
  <2>2. QED
    BY <2>1, ReturnStatusTyped DEF TypeOK
<1>5. QED
  BY <1>2, <1>3, <1>4 DEF completeReturn, TypeOK, StockRows, LedgerRow

\* Returns: every step keeps the types.
LEMMA ReturnStepTyped == TypeOK /\ ForeignKeys /\ ReturnStep => TypeOK'
<1> SUFFICES ASSUME TypeOK, ForeignKeys, ReturnStep PROVE TypeOK'
  OBVIOUS
<1>1. ASSUME NEW d \in DeliveryIds, NEW e \in DeliveryIds, createDeliveryRetry(d, e)
      PROVE  TypeOK'
  BY <1>1, CreateRetryTyped
<1>2. ASSUME NEW d \in DeliveryIds, resolveDeliveryLoss(d)
      PROVE  TypeOK'
  <2>1. delivery' \in [DeliveryIds -> DeliveryRow]
    BY <1>2, ResolutionTyped DEF resolveDeliveryLoss
  <2>2. order' \in [OrderIds -> OrderRow]
    BY <1>2, ExceptionTyped DEF resolveDeliveryLoss
  <2>3. QED
    BY <1>2, <2>1, <2>2 DEF resolveDeliveryLoss, TypeOK
<1>3. ASSUME NEW d \in DeliveryIds, NEW r \in ReturnIds, createReturn(d, r)
      PROVE  TypeOK'
  <2>1. delivery[d].task \in TaskIds
    BY <1>3 DEF ForeignKeys, createReturn
  <2>2. QED
    BY <1>3, <2>1, CreateReturnTyped
<1>4. ASSUME NEW r \in ReturnIds, receiveReturn(r)
      PROVE  TypeOK'
  <2>1. delivery' \in [DeliveryIds -> DeliveryRow]
    BY <1>4 DEF receiveReturn, TypeOK
  <2>2. QED
    BY <1>4, <2>1, ReturnStatusTyped, WriteReturnTyped DEF receiveReturn
<1>5. ASSUME NEW r \in ReturnIds, cancelReturn(r)
      PROVE  TypeOK'
  <2>1. delivery' \in [DeliveryIds -> DeliveryRow]
    BY <1>5, ResolutionTyped DEF cancelReturn
  <2>2. QED
    BY <1>5, <2>1, ReturnStatusTyped, WriteReturnTyped DEF cancelReturn
<1>6. QED
  BY <1>1, <1>2, <1>3, <1>4, <1>5, InspectReturnTyped, CompleteReturnTyped DEF ReturnStep

-----------------------------------------------------------------------------

\* The confirmed amount of an order is a natural number.
LEMMA ConfirmedAmountTyped ==
    ASSUME TypeOK, NEW o
    PROVE  ConfirmedAmount(payment, o) \in Nat
<1> DEFINE f == [c \in PaymentIds |->
        IF payment[c].order = o /\ payment[c].status = "CONFIRMED" THEN payment[c].amount ELSE 0]
<1>1. \A c \in PaymentIds : payment[c] \in PaymentRow
  BY DEF TypeOK
<1>2. f \in [PaymentIds -> Nat]
  BY <1>1 DEF PaymentRow
<1>3. QED
  BY <1>2, RowIdsAreFinite, TotalType DEF ConfirmedAmount

\* What Finance is shown of a payment is typed.
LEMMA PayloadTyped ==
    ASSUME TypeOK, ForeignKeys, NEW c \in PaymentIds, payment[c].status # "ABSENT"
    PROVE  buildConfirmationPayload(c) \in PayloadRow
<1> DEFINE o == payment[c].order
<1>1. /\ payment[c].amount \in Nat
      /\ payment[c].reference \in References \cup {None}
  <2>1. payment[c] \in PaymentRow
    BY DEF TypeOK
  <2>2. QED
    BY <2>1 DEF PaymentRow
<1>2. TotalOf(o) \in Nat
  <2>1. order[o].quotation \in Quotations
    BY DEF ForeignKeys
  <2>2. QED
    BY <2>1, QuotationsAreTyped DEF TotalOf
<1>3. Outstanding(o) \in Nat
  <2>1. ConfirmedAmount(payment, o) \in Nat
    BY ConfirmedAmountTyped
  <2>2. QED
    BY <1>2, <2>1 DEF Outstanding
<1>4. blockingFactors(c) \in SUBSET {"ORDER_NOT_OPEN", "DUPLICATE_REFERENCE"}
  BY DEF blockingFactors
<1>5. QED
  BY <1>1, <1>3, <1>4 DEF buildConfirmationPayload, PayloadRow

\* The row of a payment.
LEMMA PaymentRowTyped ==
    ASSUME TypeOK, NEW c \in PaymentIds,
           NEW to \in {"SUBMITTED", "NEEDS_REVIEW", "CONFIRMED", "REJECTED"},
           NEW n \in Nat, NEW f \in References \cup {None}
    PROVE  /\ [payment[c] EXCEPT !.status = to] \in PaymentRow
           /\ [payment[c] EXCEPT !.status = to, !.reference = f] \in PaymentRow
           /\ [payment[c] EXCEPT !.status = to, !.amount = n, !.reference = f] \in PaymentRow
           /\ payment[c].reference \in References \cup {None}
<1>1. payment[c] \in PaymentRow
  BY DEF TypeOK
<1>2. QED
  BY <1>1 DEF PaymentRow

\* Confirming a payment and settling its order keep the types.
LEMMA CommitConfirmTyped ==
    ASSUME TypeOK, NEW c \in PaymentIds, CommitConfirm(c)
    PROVE  TypeOK'
<1> DEFINE o == payment[c].order
           rows == [payment EXCEPT ![c].status = "CONFIRMED"]
           status == paymentStatusFor(rows, o)
           row(r) == [r EXCEPT !.paymentStatus = status,
                               !.fulfillmentStatus =
                                   IF status = "PAID" /\ @ = "NOT_READY" THEN "READY" ELSE @]
<1>1. payment' \in [PaymentIds -> PaymentRow]
  <2>1. payment' = [payment EXCEPT ![c] = [@ EXCEPT !.status = "CONFIRMED"]]
    BY DEF CommitConfirm
  <2>2. [payment[c] EXCEPT !.status = "CONFIRMED"] \in PaymentRow
    <3>1. payment[c] \in PaymentRow
      BY DEF TypeOK
    <3>2. QED
      BY <3>1 DEF PaymentRow
  <2>3. QED
    BY <2>1, <2>2 DEF TypeOK
<1>2. status \in {"PAID", "PARTIALLY_PAID"}
  BY DEF paymentStatusFor
<1>3. order \in [OrderIds -> OrderRow]
  BY DEF TypeOK
<1>4. order' = [order EXCEPT ![o] = row(@)]
  <2>1. order' = [order EXCEPT
                ![o].paymentStatus = status,
                ![o].fulfillmentStatus = IF status = "PAID" /\ @ = "NOT_READY" THEN "READY" ELSE @]
    BY DEF CommitConfirm
  <2> HIDE DEF status
  <2>2. QED
    BY <1>3, <2>1 DEF OrderRow
<1> HIDE DEF status
<1>5. \A r \in OrderRow : row(r) \in OrderRow
  BY <1>2, ZenonT(40) DEF OrderRow
<1> HIDE DEF row
<1>6. order' \in [OrderIds -> OrderRow]
  BY <1>3, <1>4, <1>5
<1>7. QED
  BY <1>1, <1>6 DEF CommitConfirm, TypeOK

\* Payments: every step keeps the types.
LEMMA PaymentStepTyped == TypeOK /\ ForeignKeys /\ PaymentStep => TypeOK'
<1> SUFFICES ASSUME TypeOK, ForeignKeys, NEW c \in PaymentIds,
                    \/ \E o \in OrderIds, n \in Amounts, f \in References \cup {None} :
                            submitPayment(c, o, n, f)
                    \/ StartExtraction(c)
                    \/ \E f \in References \cup {None} : FinishExtraction(c, f)
                    \/ StartCorrection(c)
                    \/ \E n \in Amounts, f \in References \cup {None} : FinishCorrection(c, n, f)
                    \/ GiveUpEdit(c)
                    \/ assessPayment(c)
                    \/ BeginConfirm(c)
                    \/ CommitConfirm(c)
                    \/ GiveUpConfirm(c)
                    \/ rejectPayment(c)
             PROVE  TypeOK'
  BY DEF PaymentStep
<1>1. ASSUME NEW o \in OrderIds, NEW n \in Amounts, NEW f \in References \cup {None},
             submitPayment(c, o, n, f)
      PROVE  TypeOK'
  <2>1. [status |-> "SUBMITTED", order |-> o, amount |-> n, reference |-> f] \in PaymentRow
    BY PaymentBounds DEF PaymentRow
  <2>2. payment' \in [PaymentIds -> PaymentRow]
    BY <1>1, <2>1 DEF submitPayment, TypeOK
  <2>3. QED
    BY <1>1, <2>2 DEF submitPayment, TypeOK
<1>2. CASE StartExtraction(c) \/ StartCorrection(c) \/ GiveUpEdit(c) \/ BeginConfirm(c) \/ GiveUpConfirm(c)
  BY <1>2 DEF StartExtraction, StartCorrection, GiveUpEdit, BeginConfirm, GiveUpConfirm, TypeOK
<1>3. ASSUME NEW f \in References \cup {None}, FinishExtraction(c, f)
      PROVE  TypeOK'
  <2> DEFINE ref == IF payment[c].reference = None THEN f ELSE payment[c].reference
  <2>1. ref \in References \cup {None}
    BY PaymentRowTyped
  <2>2. payment' = [payment EXCEPT ![c].status = "NEEDS_REVIEW", ![c].reference = ref]
    BY <1>3 DEF FinishExtraction
  <2> HIDE DEF ref
  <2>3. [payment[c] EXCEPT !.status = "NEEDS_REVIEW", !.reference = ref] \in PaymentRow
    BY <2>1, PaymentRowTyped
  <2>4. payment' = [payment EXCEPT ![c] = [@ EXCEPT !.status = "NEEDS_REVIEW", !.reference = ref]]
    BY <2>2 DEF TypeOK
  <2>5. payment' \in [PaymentIds -> PaymentRow]
    BY <2>3, <2>4 DEF TypeOK
  <2>6. QED
    BY <1>3, <2>5 DEF FinishExtraction, TypeOK
<1>4. ASSUME NEW n \in Amounts, NEW f \in References \cup {None}, FinishCorrection(c, n, f)
      PROVE  TypeOK'
  <2>1. [payment[c] EXCEPT !.status = "NEEDS_REVIEW", !.amount = n, !.reference = f] \in PaymentRow
    BY PaymentBounds, PaymentRowTyped
  <2>2. payment' = [payment EXCEPT ![c] =
                        [@ EXCEPT !.status = "NEEDS_REVIEW", !.amount = n, !.reference = f]]
    BY <1>4 DEF FinishCorrection, TypeOK
  <2>3. payment' \in [PaymentIds -> PaymentRow]
    BY <2>1, <2>2 DEF TypeOK
  <2>4. QED
    BY <1>4, <2>3 DEF FinishCorrection, TypeOK
<1>5. CASE assessPayment(c)
  <2>1. payment[c].status # "ABSENT"
    BY <1>5 DEF assessPayment, isReviewable
  <2>2. reviewed' \in [PaymentIds -> PayloadRow]
    BY <1>5, <2>1, PayloadTyped DEF assessPayment, TypeOK
  <2>3. QED
    BY <1>5, <2>2 DEF assessPayment, TypeOK
<1>6. CASE CommitConfirm(c)
  BY <1>6, CommitConfirmTyped
<1>7. CASE rejectPayment(c)
  <2>1. payment[c] \in PaymentRow
    BY DEF TypeOK
  <2>2. [payment[c] EXCEPT !.status = "REJECTED"] \in PaymentRow
    BY <2>1 DEF PaymentRow
  <2>3. payment' \in [PaymentIds -> PaymentRow]
    BY <1>7, <2>2 DEF rejectPayment, TypeOK
  <2>4. QED
    BY <1>7, <2>3 DEF rejectPayment, TypeOK
<1>8. QED
  BY <1>1, <1>2, <1>3, <1>4, <1>5, <1>6, <1>7

-----------------------------------------------------------------------------
(* The steps keep the keys.                                                *)

\* A transaction in flight holds the locks of what it read: a task that is being
\* handed over is still PREPARED, and the payments being edited exist.
WorkInFlight ==
    /\ \A t \in handover : task[t].status = "PREPARED"
    /\ \A c \in confirming \cup extracting \cup correcting : payment[c].status # "ABSENT"

\* A moved task keeps its order.
LEMMA MoveTaskKeeps ==
    ASSUME TypeOK, NEW t \in TaskIds, NEW to, MoveTask(t, to)
    PROVE  KeepsTasks
<1>1. to # "ABSENT" /\ task[t].status # "ABSENT"
  BY DEF MoveTask, TASK_TRANSITIONS
<1>2. task[t] \in TaskRow
  BY DEF TypeOK
<1> DEFINE row == [task[t] EXCEPT !.status = to]
<1>3. row.status = to /\ row.order = task[t].order
  BY <1>2 DEF TaskRow
<1>4. task' = [task EXCEPT ![t] = row]
  BY DEF MoveTask
<1> HIDE DEF row
<1>5. QED
  BY <1>1, <1>3, <1>4, TaskUpdateKeeps

\* The handover keeps the task and the order and inserts at most a delivery of them.
LEMMA FinishHandoverKeeps ==
    ASSUME TypeOK, WorkInFlight, NEW t \in TaskIds, FinishHandover(t)
    PROVE  KeepsTasks /\ KeepsDeliveries /\ KeepsOrders
<1>1. KeepsTasks
  <2>1. task[t].status # "ABSENT"
    BY DEF FinishHandover, WorkInFlight
  <2>2. task[t] \in TaskRow
    BY DEF TypeOK
  <2> DEFINE row == [task[t] EXCEPT !.status = "COMPLETED"]
  <2>3. row.status = "COMPLETED" /\ row.order = task[t].order
    BY <2>2 DEF TaskRow
  <2>4. task' = [task EXCEPT ![t] = row]
    BY DEF FinishHandover
  <2> HIDE DEF row
  <2>5. QED
    BY <2>1, <2>3, <2>4, TaskUpdateKeeps
<1>2. KeepsDeliveries
  <2> DEFINE new == [NoDelivery EXCEPT !.status = "PENDING", !.order = task[t].order, !.task = t]
  <2>1. new.task = t
    BY DEF NoDelivery
  <2>2. \/ UNCHANGED delivery
        \/ \E d \in DeliveryIds : /\ delivery[d].status = "ABSENT"
                                  /\ delivery' = [delivery EXCEPT ![d] = new]
    BY DEF FinishHandover, RaiseDelivery
  <2> HIDE DEF new
  <2>3. QED
    BY <2>1, <2>2, UnwrittenTables DEF TypeOK, KeepsDeliveries
<1>3. KeepsOrders
  BY CompletionKeeps DEF FinishHandover
<1>4. QED
  BY <1>1, <1>2, <1>3

\* A moved delivery keeps its task.
LEMMA MoveDeliveryKeeps ==
    ASSUME TypeOK, NEW d \in DeliveryIds, NEW from, NEW to, MoveDelivery(d, from, to),
           to # "ABSENT", "ABSENT" \notin from
    PROVE  KeepsDeliveries
<1>1. \A x \in DeliveryIds : delivery[x] \in DeliveryRow
  BY DEF TypeOK
<1>2. delivery[d].status # "ABSENT" /\ delivery' = [delivery EXCEPT ![d].status = to]
  BY DEF MoveDelivery
<1>3. \A x \in DeliveryIds : /\ delivery'[x].task = delivery[x].task
                             /\ delivery'[x].status = IF x = d THEN to ELSE delivery[x].status
  BY <1>1, <1>2 DEF DeliveryRow, TypeOK
<1>4. QED
  BY <1>2, <1>3 DEF KeepsDeliveries

\* Fulfilment deletes no row and makes none name another one.
LEMMA FulfillmentStepKeeps == TypeOK /\ WorkInFlight /\ FulfillmentStep => KeepsRows
<1> SUFFICES ASSUME TypeOK, WorkInFlight, FulfillmentStep PROVE KeepsRows
  OBVIOUS
<1>1. ASSUME NEW o \in OrderIds, NEW t \in TaskIds, createWarehouseTask(o, t)
      PROVE  KeepsRows
  <2> DEFINE new == [status |-> "PENDING", order |-> o, required |-> item[o], prepared |-> {}]
  <2>1. task[t].status = "ABSENT" /\ task' = [task EXCEPT ![t] = new] /\ order[o].status # "ABSENT"
    BY <1>1 DEF createWarehouseTask, assessEligibility
  <2>2. new.order = o
    OBVIOUS
  <2> HIDE DEF new
  <2>3. KeepsTasks
    BY <2>1, <2>2 DEF TypeOK, KeepsTasks
  <2>4. QED
    BY <1>1, <2>3, UnwrittenTables DEF createWarehouseTask, KeepsRows
<1>2. ASSUME NEW t \in TaskIds, startWarehouseTask(t) \/ markTaskPrepared(t) \/ cancelWarehouseTask(t)
      PROVE  KeepsRows
  <2>1. PICK to : MoveTask(t, to)
    BY <1>2 DEF startWarehouseTask, markTaskPrepared, cancelWarehouseTask
  <2>2. QED
    BY <2>1, MoveTaskKeeps, UnwrittenTables DEF MoveTask, KeepsRows
<1>3. ASSUME NEW t \in TaskIds, NEW p \in Products, NEW b \in BOOLEAN, markItemPrepared(t, p, b)
      PROVE  KeepsRows
  <2> DEFINE prepared == IF b THEN task[t].prepared \cup {p} ELSE task[t].prepared \ {p}
             row == [task[t] EXCEPT !.prepared = prepared]
  <2>1. task[t] \in TaskRow
    BY DEF TypeOK
  <2>2. row.status = task[t].status /\ row.order = task[t].order
    BY <2>1 DEF TaskRow
  <2>3. task' = [task EXCEPT ![t] = row] /\ task[t].status = "IN_PROGRESS"
    BY <1>3 DEF markItemPrepared
  <2> HIDE DEF row
  <2>4. KeepsTasks
    BY <2>2, <2>3, TaskUpdateKeeps
  <2>5. QED
    BY <1>3, <2>4, UnwrittenTables DEF markItemPrepared, KeepsRows
<1>4. ASSUME NEW t \in TaskIds, BeginHandover(t) \/ GiveUpHandover(t)
      PROVE  KeepsRows
  BY <1>4, UnwrittenTables DEF BeginHandover, GiveUpHandover, KeepsRows
<1>5. ASSUME NEW t \in TaskIds, FinishHandover(t)
      PROVE  KeepsRows
  BY <1>5, FinishHandoverKeeps, UnwrittenTables DEF FinishHandover, KeepsRows
<1>6. ASSUME NEW o \in OrderIds, recordPickup(o)
      PROVE  KeepsRows
  BY <1>6, CompletionKeeps, UnwrittenTables DEF recordPickup, KeepsRows
<1>7. ASSUME NEW d \in DeliveryIds,
             assignDelivery(d) \/ dispatchDelivery(d) \/ completeDelivery(d) \/ failDelivery(d)
      PROVE  KeepsRows
  <2>1. KeepsOrders
    BY <1>7, CompletionKeeps, UnwrittenTables
       DEF assignDelivery, dispatchDelivery, completeDelivery, failDelivery
  <2>2. KeepsDeliveries
    BY <1>7, MoveDeliveryKeeps DEF assignDelivery, dispatchDelivery, completeDelivery, failDelivery
  <2>3. UNCHANGED <<task, payment>>
    BY <1>7 DEF assignDelivery, dispatchDelivery, completeDelivery, failDelivery, MoveDelivery
  <2>4. QED
    BY <2>1, <2>2, <2>3, UnwrittenTables DEF KeepsRows
<1>8. QED
  BY <1>1, <1>2, <1>3, <1>4, <1>5, <1>6, <1>7 DEF FulfillmentStep

\* An order keeps its quotation when its exception is written.
LEMMA ExceptionKeeps ==
    ASSUME TypeOK, NEW o, NEW x, order' = [order EXCEPT ![o].exception = x]
    PROVE  KeepsOrders
<1>1. \A y \in OrderIds : order[y] \in OrderRow /\ DOMAIN order = OrderIds
  BY DEF TypeOK
<1>2. \A y \in OrderIds : /\ order'[y].status = order[y].status
                          /\ order'[y].quotation = order[y].quotation
  BY <1>1 DEF OrderRow
<1>3. QED
  BY <1>2 DEF KeepsOrders

\* Stock corrections delete no row and make none name another one.
LEMMA InventoryStepKeeps == TypeOK /\ InventoryStep => KeepsRows
<1> SUFFICES ASSUME TypeOK, InventoryStep PROVE KeepsRows
  OBVIOUS
<1>1. UNCHANGED <<task, delivery, payment>>
  BY ZenonT(60) DEF InventoryStep, adjustStock, CountShelf, FileCount, reviewDiscrepancy, cancelDiscrepancy,
         ConfirmCount, FlagShortfall, ApplyCount, WriteDiscrepancy, resolveReservationShortfall
<1>2. \/ UNCHANGED order
      \/ \E o \in OrderIds, p \in Products, n \in 0..MaxStock : resolveReservationShortfall(o, p, n)
  BY DEF InventoryStep, adjustStock, CountShelf, FileCount, reviewDiscrepancy, cancelDiscrepancy,
         ConfirmCount, FlagShortfall, ApplyCount, WriteDiscrepancy
<1>3. ASSUME NEW o \in OrderIds, NEW p \in Products, NEW n \in 0..MaxStock,
             resolveReservationShortfall(o, p, n)
      PROVE  KeepsOrders
  <2>1. PICK x : order' = [order EXCEPT ![o].exception = x]
    BY <1>3 DEF resolveReservationShortfall
  <2>2. QED
    BY <2>1, ExceptionKeeps
<1>4. QED
  BY <1>1, <1>2, <1>3, UnwrittenTables DEF KeepsRows

\* A delivery keeps its task when its resolution is written.
LEMMA ResolutionKeeps ==
    ASSUME TypeOK, NEW d, NEW x, delivery' = [delivery EXCEPT ![d].resolution = x]
    PROVE  KeepsDeliveries
<1>1. \A y \in DeliveryIds : delivery[y] \in DeliveryRow /\ DOMAIN delivery = DeliveryIds
  BY DEF TypeOK
<1>2. \A y \in DeliveryIds : /\ delivery'[y].status = delivery[y].status
                             /\ delivery'[y].task = delivery[y].task
  BY <1>1 DEF DeliveryRow
<1>3. QED
  BY <1>2 DEF KeepsDeliveries

\* Returns and retries delete no row and make none name another one.
LEMMA ReturnStepKeeps == TypeOK /\ ForeignKeys /\ ReturnStep => KeepsRows
<1> SUFFICES ASSUME TypeOK, ForeignKeys, ReturnStep PROVE KeepsRows
  OBVIOUS
<1>1. UNCHANGED <<task, payment>>
  BY DEF ReturnStep, createDeliveryRetry, resolveDeliveryLoss, createReturn, receiveReturn,
         inspectReturn, completeReturn, cancelReturn, WriteReturn
<1>2. KeepsOrders
  <2>1. ASSUME NEW d \in DeliveryIds, resolveDeliveryLoss(d)
        PROVE  KeepsOrders
    BY <2>1, ExceptionKeeps DEF resolveDeliveryLoss
  <2>2. ASSUME NEW d \in DeliveryIds, NEW r \in ReturnIds, createReturn(d, r)
        PROVE  KeepsOrders
    BY <2>2, ExceptionKeeps DEF createReturn
  <2>3. \/ UNCHANGED order
        \/ \E d \in DeliveryIds : resolveDeliveryLoss(d)
        \/ \E d \in DeliveryIds, r \in ReturnIds : createReturn(d, r)
    BY DEF ReturnStep, createDeliveryRetry, receiveReturn,
           inspectReturn, completeReturn, cancelReturn, WriteReturn
  <2>4. QED
    BY <2>1, <2>2, <2>3, UnwrittenTables
<1>3. KeepsDeliveries
  <2>1. \/ UNCHANGED delivery
        \/ \E d, x : delivery' = [delivery EXCEPT ![d].resolution = x]
        \/ \E d, e \in DeliveryIds : createDeliveryRetry(d, e)
    BY ZenonT(40) DEF ReturnStep, resolveDeliveryLoss, createReturn, receiveReturn,
           inspectReturn, completeReturn, cancelReturn
  <2>2. ASSUME NEW d \in DeliveryIds, NEW e \in DeliveryIds, createDeliveryRetry(d, e)
        PROVE  KeepsDeliveries
    <3> DEFINE new == [status |-> "PENDING", order |-> delivery[d].order, task |-> delivery[d].task,
                       resolution |-> "NULL", retryOf |-> d]
               marked == [delivery EXCEPT ![d].resolution = "RETRY_DELIVERY"]
    <3>1. /\ delivery' = [marked EXCEPT ![e] = new]
          /\ delivery[e].status = "ABSENT"
          /\ delivery[d].status = "FAILED"
      BY <2>2 DEF createDeliveryRetry, assessRetryEligibility
    <3>2. new.task \in TaskIds
      BY <3>1 DEF ForeignKeys
    <3>3. \A x \in DeliveryIds : delivery[x] \in DeliveryRow /\ DOMAIN delivery = DeliveryIds
      BY DEF TypeOK
    <3>4. \A x \in DeliveryIds : /\ marked[x].status = delivery[x].status
                                 /\ marked[x].task = delivery[x].task
      BY <3>3 DEF DeliveryRow
    <3>5. DOMAIN marked = DeliveryIds
      BY <3>3
    <3> HIDE DEF new, marked
    <3>6. QED
      BY <3>1, <3>2, <3>4, <3>5 DEF KeepsDeliveries
  <2>3. QED
    BY <2>1, <2>2, ResolutionKeeps, UnwrittenTables
<1>4. QED
  BY <1>1, <1>2, <1>3, UnwrittenTables DEF KeepsRows

\* Writing a payment that exists keeps it, whatever else is written.
LEMMA PaymentUpdateKeeps ==
    ASSUME TypeOK, NEW c \in PaymentIds, NEW row, row.status # "ABSENT", payment[c].status # "ABSENT",
           payment' = [payment EXCEPT ![c] = row], row.order = payment[c].order
    PROVE  KeepsPayments
BY DEF TypeOK, KeepsPayments

\* No payment step moves goods, and only a confirmation writes an order.
LEMMA PaymentStepsMoveNoGoods ==
    PaymentStep =>
        UNCHANGED <<stock, movements, item, reservation, task, handover, delivery, goodsReturn>>
<1> SUFFICES ASSUME NEW c \in PaymentIds,
                    \/ \E o \in OrderIds, n \in Amounts, f \in References \cup {None} :
                          submitPayment(c, o, n, f)
                    \/ StartExtraction(c)
                    \/ \E f \in References \cup {None} : FinishExtraction(c, f)
                    \/ StartCorrection(c)
                    \/ \E n \in Amounts, f \in References \cup {None} : FinishCorrection(c, n, f)
                    \/ GiveUpEdit(c) \/ assessPayment(c) \/ BeginConfirm(c)
                    \/ CommitConfirm(c) \/ GiveUpConfirm(c) \/ rejectPayment(c)
             PROVE  UNCHANGED <<stock, movements, item, reservation, task, handover, delivery,
                                goodsReturn>>
  BY DEF PaymentStep
<1>1. CASE \E o \in OrderIds, n \in Amounts, f \in References \cup {None} :
              submitPayment(c, o, n, f)
  BY <1>1 DEF submitPayment
<1>2. CASE StartExtraction(c) \/ \E f \in References \cup {None} : FinishExtraction(c, f)
  BY <1>2 DEF StartExtraction, FinishExtraction
<1>3. CASE StartCorrection(c) \/ \E n \in Amounts, f \in References \cup {None} :
                                    FinishCorrection(c, n, f)
  BY <1>3 DEF StartCorrection, FinishCorrection
<1>4. CASE GiveUpEdit(c) \/ assessPayment(c)
  BY <1>4 DEF GiveUpEdit, assessPayment
<1>5. CASE BeginConfirm(c) \/ CommitConfirm(c)
  BY <1>5 DEF BeginConfirm, CommitConfirm
<1>6. CASE GiveUpConfirm(c) \/ rejectPayment(c)
  BY <1>6 DEF GiveUpConfirm, rejectPayment
<1>7. QED
  BY <1>1, <1>2, <1>3, <1>4, <1>5, <1>6

LEMMA PaymentStepsConfirmOrders ==
    PaymentStep => UNCHANGED order \/ \E c \in PaymentIds : CommitConfirm(c)
BY DEF PaymentStep, submitPayment, StartExtraction, FinishExtraction, StartCorrection,
       FinishCorrection, GiveUpEdit, assessPayment, BeginConfirm, GiveUpConfirm, rejectPayment

\* Orders and the stock room send nothing out and take nothing back.
LEMMA StockStepsSendNothing ==
    OrderStep \/ InventoryStep => UNCHANGED <<delivery, goodsReturn>>
<1>1. OrderStep => UNCHANGED <<delivery, goodsReturn>>
  BY DEF OrderStep, CheckQuotation, ReserveAndCreate, GiveUpCreation, CancelOrder, UpdateCustomer
<1>2. InventoryStep => UNCHANGED <<delivery, goodsReturn>>
  BY DEF InventoryStep, adjustStock, CountShelf, FileCount, reviewDiscrepancy, cancelDiscrepancy,
         ConfirmCount, FlagShortfall, ApplyCount, WriteDiscrepancy, resolveReservationShortfall
<1>3. QED
  BY <1>1, <1>2

\* Payment steps delete no row and make none name another one.
LEMMA PaymentStepKeeps == TypeOK /\ WorkInFlight /\ PaymentStep => KeepsRows
<1> SUFFICES ASSUME TypeOK, WorkInFlight, PaymentStep PROVE KeepsRows
  OBVIOUS
<1>1. UNCHANGED <<task, delivery>>
  BY PaymentStepsMoveNoGoods
<1>2. KeepsOrders
  <2>1. \/ UNCHANGED order
        \/ \E c \in PaymentIds : CommitConfirm(c)
    BY DEF PaymentStep, submitPayment, StartExtraction, FinishExtraction, StartCorrection,
           FinishCorrection, GiveUpEdit, assessPayment, BeginConfirm, GiveUpConfirm, rejectPayment
  <2>2. ASSUME NEW o, NEW x, NEW y,
               order' = [order EXCEPT ![o].paymentStatus = x, ![o].fulfillmentStatus = y]
        PROVE  KeepsOrders
    <3>1. \A z \in OrderIds : order[z] \in OrderRow /\ DOMAIN order = OrderIds
      BY DEF TypeOK
    <3>2. \A z \in OrderIds : /\ order'[z].status = order[z].status
                              /\ order'[z].quotation = order[z].quotation
      BY <2>2, <3>1 DEF OrderRow
    <3>3. QED
      BY <3>2 DEF KeepsOrders
  <2>3. ASSUME NEW c \in PaymentIds, CommitConfirm(c)
        PROVE  KeepsOrders
    BY <2>2, <2>3 DEF CommitConfirm
  <2>4. QED
    BY <2>1, <2>3, UnwrittenTables
<1>3. KeepsPayments
  <2>1. ASSUME NEW c \in PaymentIds, NEW o \in OrderIds, NEW n \in Amounts,
               NEW f \in References \cup {None}, submitPayment(c, o, n, f)
        PROVE  KeepsPayments
    <3> DEFINE new == [status |-> "SUBMITTED", order |-> o, amount |-> n, reference |-> f]
    <3>1. /\ payment[c].status = "ABSENT" /\ order[o].status # "ABSENT"
          /\ payment' = [payment EXCEPT ![c] = new]
      BY <2>1 DEF submitPayment
    <3>2. new.order = o
      OBVIOUS
    <3> HIDE DEF new
    <3>3. QED
      BY <3>1, <3>2 DEF TypeOK, KeepsPayments
  <2>2. ASSUME NEW c \in confirming \cup extracting \cup correcting, NEW x, NEW n, NEW f,
               x # "ABSENT",
               \/ payment' = [payment EXCEPT ![c].status = x]
               \/ payment' = [payment EXCEPT ![c].status = x, ![c].reference = f]
               \/ payment' = [payment EXCEPT ![c].status = x, ![c].amount = n, ![c].reference = f]
        PROVE  KeepsPayments
    <3>1. \A y \in PaymentIds : payment[y] \in PaymentRow /\ DOMAIN payment = PaymentIds
      BY DEF TypeOK
    <3>2. payment[c].status # "ABSENT"
      BY DEF WorkInFlight
    <3>3. \A y \in PaymentIds : /\ payment'[y].order = payment[y].order
                                /\ payment'[y].status = IF y = c THEN x ELSE payment[y].status
      BY <2>2, <3>1 DEF PaymentRow
    <3>4. QED
      BY <2>2, <3>2, <3>3 DEF KeepsPayments
  <2>3. ASSUME NEW c \in PaymentIds, CommitConfirm(c)
        PROVE  KeepsPayments
    BY <2>2, <2>3 DEF CommitConfirm
  <2>4. ASSUME NEW c \in PaymentIds, NEW f, FinishExtraction(c, f)
        PROVE  KeepsPayments
    BY <2>2, <2>4 DEF FinishExtraction
  <2>5. ASSUME NEW c \in PaymentIds, NEW n, NEW f, FinishCorrection(c, n, f)
        PROVE  KeepsPayments
    BY <2>2, <2>5 DEF FinishCorrection
  <2>6. ASSUME NEW c \in PaymentIds, rejectPayment(c)
        PROVE  KeepsPayments
    <3>1. payment[c] \in PaymentRow
      BY DEF TypeOK
    <3> DEFINE row == [payment[c] EXCEPT !.status = "REJECTED"]
    <3>2. row.status = "REJECTED" /\ row.order = payment[c].order
      BY <3>1 DEF PaymentRow
    <3>3. payment' = [payment EXCEPT ![c] = row] /\ payment[c].status # "ABSENT"
      BY <2>6 DEF rejectPayment, isReviewable
    <3> HIDE DEF row
    <3>4. QED
      BY <3>2, <3>3, PaymentUpdateKeeps
  <2>7. ASSUME NEW c \in PaymentIds,
               \/ StartExtraction(c) \/ StartCorrection(c) \/ GiveUpEdit(c) \/ assessPayment(c)
               \/ BeginConfirm(c) \/ GiveUpConfirm(c)
        PROVE  KeepsPayments
    BY <2>7, UnwrittenTables DEF StartExtraction, StartCorrection, GiveUpEdit, assessPayment,
       BeginConfirm, GiveUpConfirm
  <2>8. QED
    BY <2>1, <2>3, <2>4, <2>5, <2>6, <2>7 DEF PaymentStep
<1>4. QED
  BY <1>1, <1>2, <1>3, UnwrittenTables DEF KeepsRows

-----------------------------------------------------------------------------
(* Locks.                                                                  *)

\* A task that is being handed over stays PREPARED: whatever would move it needs
\* the lock of its order.
LEMMA FulfillmentStepInFlight ==
    TypeOK /\ WorkInFlight /\ FulfillmentStep => WorkInFlight'
<1> SUFFICES ASSUME TypeOK, WorkInFlight, FulfillmentStep PROVE WorkInFlight'
  OBVIOUS
<1>1. UNCHANGED <<payment, confirming, extracting, correcting>>
  BY DEF FulfillmentStep, createWarehouseTask, startWarehouseTask, markItemPrepared,
         markTaskPrepared, cancelWarehouseTask, MoveTask, BeginHandover, FinishHandover,
         GiveUpHandover, recordPickup, assignDelivery, dispatchDelivery, completeDelivery,
         failDelivery, MoveDelivery
<1> SUFFICES \A t \in handover' : task'[t].status = "PREPARED"
  BY <1>1 DEF WorkInFlight
<1>2. handover \subseteq TaskIds /\ DOMAIN task = TaskIds
  BY DEF TypeOK
<1>3. ASSUME NEW u \in TaskIds, NEW row, task' = [task EXCEPT ![u] = row],
             handover' \subseteq handover \ {u}
      PROVE  \A t \in handover' : task'[t].status = "PREPARED"
  BY <1>2, <1>3 DEF WorkInFlight
<1>4. ASSUME NEW o \in OrderIds, NEW u \in TaskIds, createWarehouseTask(o, u)
      PROVE  \A t \in handover' : task'[t].status = "PREPARED"
  <2>1. u \notin handover /\ handover' = handover
    BY <1>4 DEF createWarehouseTask, WorkInFlight
  <2>2. QED
    BY <1>3, <1>4, <2>1 DEF createWarehouseTask
<1>5. ASSUME NEW u \in TaskIds, Unlocked(task[u].order)
      PROVE  u \notin handover
  BY <1>5 DEF Unlocked
<1>6. ASSUME NEW u \in TaskIds, NEW to, MoveTask(u, to)
      PROVE  \A t \in handover' : task'[t].status = "PREPARED"
  <2>1. u \notin handover /\ handover' = handover
    BY <1>5, <1>6 DEF MoveTask
  <2>2. task' = [task EXCEPT ![u] = [@ EXCEPT !.status = to]]
    BY <1>6 DEF MoveTask
  <2>3. QED
    BY <1>3, <2>1, <2>2, ZenonT(40)
<1>7. ASSUME NEW u \in TaskIds, NEW p \in Products, NEW b \in BOOLEAN, markItemPrepared(u, p, b)
      PROVE  \A t \in handover' : task'[t].status = "PREPARED"
  <2>1. u \notin handover /\ handover' = handover
    BY <1>5, <1>7 DEF markItemPrepared
  <2>2. PICK row : task' = [task EXCEPT ![u] = row]
    BY <1>7 DEF markItemPrepared
  <2>3. handover' \subseteq handover \ {u}
    BY <2>1
  <2>4. QED
    BY <1>3, <2>2, <2>3
<1>8. ASSUME NEW u \in TaskIds, BeginHandover(u) \/ GiveUpHandover(u)
      PROVE  \A t \in handover' : task'[t].status = "PREPARED"
  BY <1>8 DEF BeginHandover, GiveUpHandover, WorkInFlight
<1>9. ASSUME NEW u \in TaskIds, FinishHandover(u)
      PROVE  \A t \in handover' : task'[t].status = "PREPARED"
  BY <1>3, <1>9 DEF FinishHandover
<1>10. \/ UNCHANGED <<task, handover>>
       \/ \E o \in OrderIds, t \in TaskIds : createWarehouseTask(o, t)
       \/ \E t \in TaskIds : \/ \E to : MoveTask(t, to)
                             \/ \E p \in Products, b \in BOOLEAN : markItemPrepared(t, p, b)
                             \/ BeginHandover(t) \/ GiveUpHandover(t)
                             \/ FinishHandover(t)
  BY DEF FulfillmentStep, startWarehouseTask, markTaskPrepared, cancelWarehouseTask, recordPickup,
         assignDelivery, dispatchDelivery, completeDelivery, failDelivery, MoveDelivery
<1>11. QED
  BY <1>4, <1>6, <1>7, <1>8, <1>9, <1>10 DEF WorkInFlight

\* A payment that is being edited or confirmed goes on existing.
LEMMA PaymentStepInFlight ==
    TypeOK /\ WorkInFlight /\ KeepsPayments /\ PaymentStep => WorkInFlight'
<1> SUFFICES ASSUME TypeOK, WorkInFlight, KeepsPayments, PaymentStep PROVE WorkInFlight'
  OBVIOUS
<1>1. UNCHANGED <<task, handover>>
  BY ZenonT(40) DEF PaymentStep, submitPayment, StartExtraction, FinishExtraction, StartCorrection,
         FinishCorrection, GiveUpEdit, assessPayment, BeginConfirm, CommitConfirm, GiveUpConfirm,
         rejectPayment
<1>2. PICK c \in PaymentIds :
          \/ /\ confirming' \subseteq confirming
             /\ extracting' \subseteq extracting
             /\ correcting' \subseteq correcting
          \/ /\ payment[c].status # "ABSENT"
             /\ confirming' \subseteq confirming \cup {c}
             /\ extracting' \subseteq extracting \cup {c}
             /\ correcting' \subseteq correcting \cup {c}
  <2>1. PICK c \in PaymentIds :
            \/ \E o \in OrderIds, n \in Amounts, f \in References \cup {None} :
                    submitPayment(c, o, n, f)
            \/ StartExtraction(c)
            \/ \E f \in References \cup {None} : FinishExtraction(c, f)
            \/ StartCorrection(c)
            \/ \E n \in Amounts, f \in References \cup {None} : FinishCorrection(c, n, f)
            \/ GiveUpEdit(c)
            \/ assessPayment(c)
            \/ BeginConfirm(c)
            \/ CommitConfirm(c)
            \/ GiveUpConfirm(c)
            \/ rejectPayment(c)
    BY DEF PaymentStep
  <2>2. CASE StartExtraction(c) \/ StartCorrection(c) \/ BeginConfirm(c)
    BY <2>2 DEF StartExtraction, StartCorrection, BeginConfirm, isReviewable
  <2>3. CASE ~(StartExtraction(c) \/ StartCorrection(c) \/ BeginConfirm(c))
    BY <2>1, <2>3 DEF submitPayment, FinishExtraction, FinishCorrection, GiveUpEdit, assessPayment,
                      CommitConfirm, GiveUpConfirm, rejectPayment
  <2>4. QED
    BY <2>2, <2>3
<1>3. \A x \in PaymentIds : payment[x].status # "ABSENT" => payment'[x].status # "ABSENT"
  BY DEF KeepsPayments
<1>4. QED
  BY <1>1, <1>2, <1>3 DEF WorkInFlight, TypeOK

-----------------------------------------------------------------------------

TypeInvariant == TypeOK /\ ForeignKeys /\ WorkInFlight

\* The initial tables are typed, and nothing is in flight.
LEMMA TypeInvariantInit == Init => TypeInvariant
<1>1. Init => ForeignKeys /\ WorkInFlight
  BY DEF Init, ForeignKeys, WorkInFlight, NoOrder, NoTask, NoDelivery, NoPayment
<1>2. QED
  BY <1>1, InitTyped DEF TypeInvariant

\* No step deletes a row or makes it name another one.
LEMMA StepKeepsRows == TypeInvariant /\ [Next]_vars => KeepsRows
<1>1. UNCHANGED vars => KeepsRows
  BY UnwrittenTables DEF vars, KeepsRows
<1>2. QED
  BY <1>1, OrderStepKeeps, FulfillmentStepKeeps, InventoryStepKeeps, ReturnStepKeeps, PaymentStepKeeps
     DEF TypeInvariant, Next

\* Every step keeps the types, the keys and the locks.
LEMMA TypeInvariantStep == TypeInvariant /\ [Next]_vars => TypeInvariant'
<1> SUFFICES ASSUME TypeInvariant, [Next]_vars PROVE TypeInvariant'
  OBVIOUS
<1>1. KeepsPayments /\ ForeignKeys'
  BY StepKeepsRows, RowsKeepTheirKeys DEF TypeInvariant, KeepsRows
<1>2. TypeOK'
  <2>1. CASE UNCHANGED vars
    <3>1. TypeOK
      BY DEF TypeInvariant
    <3>2. QED
      BY <2>1, <3>1 DEF vars, TypeOK
  <2>2. QED
    BY <2>1, OrderStepTyped, FulfillmentStepTyped, InventoryStepTyped, ReturnStepTyped, PaymentStepTyped
       DEF TypeInvariant, Next
<1>3. WorkInFlight'
  <2>1. CASE UNCHANGED <<task, handover, payment, confirming, extracting, correcting>>
    BY <2>1 DEF TypeInvariant, WorkInFlight
  <2>2. CASE OrderStep
    <3>1. UNCHANGED <<task, handover, payment, confirming, extracting, correcting>>
      BY <2>2 DEF OrderStep, CheckQuotation, ReserveAndCreate, GiveUpCreation, CancelOrder,
                      UpdateCustomer
    <3>2. QED
      BY <2>1, <3>1
  <2>3. CASE FulfillmentStep
    BY <2>3, FulfillmentStepInFlight DEF TypeInvariant
  <2>4. CASE InventoryStep
    <3>1. UNCHANGED <<task, handover, payment, confirming, extracting, correcting>>
      BY <2>4 DEF InventoryStep, adjustStock, CountShelf, FileCount, reviewDiscrepancy,
                      cancelDiscrepancy, ConfirmCount, FlagShortfall, ApplyCount, WriteDiscrepancy,
                      resolveReservationShortfall
    <3>2. QED
      BY <2>1, <3>1
  <2>5. CASE ReturnStep
    <3>1. UNCHANGED <<task, handover, payment, confirming, extracting, correcting>>
      BY <2>5 DEF ReturnStep, createDeliveryRetry, resolveDeliveryLoss, createReturn,
                      receiveReturn, inspectReturn, completeReturn, cancelReturn, WriteReturn
    <3>2. QED
      BY <2>1, <3>1
  <2>6. CASE PaymentStep
    BY <1>1, <2>6, PaymentStepInFlight DEF TypeInvariant
  <2>7. CASE UNCHANGED vars
    BY <2>1, <2>7 DEF vars
  <2>8. QED
    BY <2>2, <2>3, <2>4, <2>5, <2>6, <2>7 DEF Next
<1>4. QED
  BY <1>1, <1>2, <1>3 DEF TypeInvariant

\* Whatever the interleaving, every table and every transaction in flight keeps
\* its type, every row that exists names rows that exist, and nothing that a
\* transaction in flight has locked is changed under it.
THEOREM RowsAndLocks == Spec => []TypeInvariant
BY TypeInvariantInit, TypeInvariantStep, PTL DEF Spec

\* In every reachable state the tables hold rows of their types: no stock figure,
\* quantity or amount is negative, and every reference is to a possible row.
THEOREM TypeCorrect == Spec => []TypeOK
<1>1. TypeInvariant => TypeOK
  BY DEF TypeInvariant
<1>2. QED
  BY <1>1, RowsAndLocks, PTL

-----------------------------------------------------------------------------
(* The stock                                                               *)

Active(o, p)   == reservation[o][p].status = "ACTIVE"
Consumed(o, p) == reservation[o][p].status = "CONSUMED"

\* The CHECK constraint on products.
ReservedWithinAvailable == \A p \in Products : stock[p].reserved <= stock[p].available

\* An order that is not there has no reservations, and an ACTIVE one holds goods.
ReservationsBelongToOrders ==
    \A o \in OrderIds, p \in Products :
        /\ order[o].status = "ABSENT" => reservation[o][p].status = "ABSENT"
        /\ Active(o, p) => reservation[o][p].quantity > 0

\* A task that is still being worked on lists every product its order holds: the
\* handover, which consumes whatever the order holds, takes nothing unlisted.
TasksListWhatIsHeld ==
    \A t \in TaskIds, p \in Products :
        (/\ task[t].status \in {"PENDING", "IN_PROGRESS", "PREPARED"}
         /\ Active(task[t].order, p))
        => task[t].required[p] > 0

\* Consumed goods went out with a task.
ConsumedByATask ==
    \A o \in OrderIds, p \in Products :
        Consumed(o, p) => \E t \in TaskIds : task[t].order = o /\ task[t].status = "COMPLETED"

StockInvariant ==
    /\ AggregateMatchesRows
    /\ ReservedWithinAvailable
    /\ ItemMirrorsReservation
    /\ ReservationsBelongToOrders
    /\ TasksListWhatIsHeld
    /\ ConsumedByATask

-----------------------------------------------------------------------------
(* Sums of reservations                                                    *)

\* When only the reservations of one order change, the sum changes by as much as
\* that order's part.
LEMMA PromisedChange ==
    ASSUME TypeOK, TypeOK', NEW o \in OrderIds, NEW p \in Products,
           \A x \in OrderIds \ {o} : reservation'[x][p] = reservation[x][p]
    PROVE  Promised(p)' = Promised(p) - Held(o, p) + Held(o, p)'
<1> DEFINE f == [x \in OrderIds |-> Held(x, p)]
           g == [x \in OrderIds |-> Held(x, p)']
<1>1. f \in [OrderIds -> Nat]
  BY HeldType
<1>2. g \in [OrderIds -> Nat]
  <2>1. \A x \in OrderIds : reservation'[x][p] \in ReservationRow
    BY DEF TypeOK
  <2>2. QED
    BY <2>1 DEF Held, ReservationRow
<1>3. \A x \in OrderIds \ {o} : g[x] = f[x]
  BY DEF Held
<1>4. Total(g) = Total(f) - f[o] + g[o]
  <2> HIDE DEF f, g
  <2>1. QED
    BY <1>1, <1>2, <1>3, RowIdsAreFinite, TotalUpdate
<1>5. QED
  BY <1>4 DEF Promised

\* What is promised is read off the reservations alone.
LEMMA PromisedUnchanged ==
    ASSUME UNCHANGED reservation, NEW p
    PROVE  Promised(p)' = Promised(p)
BY DEF Promised, Held

\* What is promised of a product is a natural number.
LEMMA PromisedType ==
    ASSUME TypeOK, NEW p \in Products
    PROVE  Promised(p) \in Nat
<1>1. [o \in OrderIds |-> Held(o, p)] \in [OrderIds -> Nat]
  BY HeldType
<1>2. QED
  BY <1>1, RowIdsAreFinite, TotalType DEF Promised

\* A quotation asks for more than nothing of the products on its lines, and for
\* nothing of the others.
LEMMA QuantityOfLines ==
    ASSUME NEW q \in Quotations, NEW p
    PROVE  /\ p \in ProductsOf(q) => QuantityOf(q, p) > 0
           /\ p \notin ProductsOf(q) => QuantityOf(q, p) = 0
<1> DEFINE f == [i \in DOMAIN Items[q] |->
                    IF Items[q][i].product = p THEN Items[q][i].quantity ELSE 0]
<1>1. Items[q] \in Seq(Line)
  BY QuotationsAreTyped
<1>2. IsFiniteSet(DOMAIN Items[q])
  BY <1>1, FS_Interval
<1>3. \A i \in DOMAIN Items[q] : Items[q][i].quantity \in Nat /\ Items[q][i].quantity > 0
  <2>1. \A i \in DOMAIN Items[q] : Items[q][i] \in Line
    BY <1>1
  <2>2. QED
    BY <2>1 DEF Line
<1>4. f \in [DOMAIN Items[q] -> Nat]
  BY <1>3
<1>5. CASE p \in ProductsOf(q)
  <2>1. PICK i \in DOMAIN Items[q] : Items[q][i].product = p
    BY <1>5 DEF ProductsOf
  <2>2. f[i] > 0 /\ f[i] \in Nat
    BY <1>3, <2>1
  <2> HIDE DEF f
  <2>3. f[i] <= Total(f) /\ Total(f) \in Nat
    BY <1>2, <1>4, TotalAtLeast, TotalType
  <2>4. Total(f) > 0
    BY <2>2, <2>3
  <2>5. QED
    BY <1>5, <2>4 DEF QuantityOf, f
<1>6. CASE p \notin ProductsOf(q)
  <2>1. \A i \in DOMAIN Items[q] : f[i] = 0
    BY <1>6 DEF ProductsOf
  <2> HIDE DEF f
  <2>2. Total(f) = 0
    BY <1>4, <2>1, TotalOfZeros
  <2>3. QED
    BY <1>6, <2>2 DEF QuantityOf, f
<1>7. QED
  BY <1>5, <1>6

-----------------------------------------------------------------------------

\* With nothing reserved the stock tables are consistent.
LEMMA StockInit == Init => StockInvariant
<1> SUFFICES ASSUME Init PROVE StockInvariant
  OBVIOUS
<1>1. \A o \in OrderIds, p \in Products : reservation[o][p] = NoReservation
  BY DEF Init
<1>2. AggregateMatchesRows
  <2> SUFFICES ASSUME NEW p \in Products PROVE stock[p].reserved = Promised(p)
    BY DEF AggregateMatchesRows
  <2> DEFINE f == [o \in OrderIds |-> Held(o, p)]
  <2>2. f \in [OrderIds -> Nat] /\ \A o \in OrderIds : f[o] = 0
    BY <1>1 DEF Held, NoReservation
  <2> HIDE DEF f
  <2>3. Total(f) = 0
    BY <2>2, TotalOfZeros
  <2>4. QED
    BY <2>3 DEF Promised, Init, f
<1>3. ReservedWithinAvailable
  BY QuotationsAreTyped DEF Init, ReservedWithinAvailable
<1>4. ItemMirrorsReservation
  BY <1>1 DEF Init, ItemMirrorsReservation, NoReservation, Nothing
<1>5. ReservationsBelongToOrders /\ ConsumedByATask
  BY <1>1 DEF ReservationsBelongToOrders, ConsumedByATask, Active, Consumed, NoReservation
<1>6. TasksListWhatIsHeld
  BY DEF Init, TasksListWhatIsHeld, NoTask
<1>7. QED
  BY <1>2, <1>3, <1>4, <1>5, <1>6 DEF StockInvariant

\* After a write to the products the CHECK constraint holds.
LEMMA WriteStockWithin ==
    ASSUME NEW rows, WriteStock(rows), stock' \in StockRows
    PROVE  ReservedWithinAvailable'
BY DEF WriteStock, ReservedWithinAvailable, StockRows

\* A step that writes neither reservations nor tasks and changes at most what is
\* on the shelf keeps the invariant.
LEMMA ShelfStep ==
    ASSUME TypeInvariant, TypeInvariant', StockInvariant, KeepsRows,
           UNCHANGED <<item, reservation, task>>, ReservedWithinAvailable',
           \A p \in Products : stock'[p].reserved = stock[p].reserved
    PROVE  StockInvariant'
<1>1. AggregateMatchesRows'
  BY PromisedUnchanged DEF StockInvariant, AggregateMatchesRows
<1>2. ItemMirrorsReservation'
  BY DEF StockInvariant, ItemMirrorsReservation
<1>3. ReservationsBelongToOrders'
  BY DEF StockInvariant, ReservationsBelongToOrders, Active, KeepsRows, KeepsOrders
<1>4. TasksListWhatIsHeld' /\ ConsumedByATask'
  BY DEF StockInvariant, TasksListWhatIsHeld, ConsumedByATask, Active, Consumed
<1>5. QED
  BY <1>1, <1>2, <1>3, <1>4 DEF StockInvariant

\* The task rows of a step that leaves the products, the lines and the
\* reservations alone.
LEMMA TaskStep ==
    ASSUME TypeInvariant, TypeInvariant', StockInvariant, KeepsRows,
           UNCHANGED <<stock, item, reservation>>, TasksListWhatIsHeld', ConsumedByATask'
    PROVE  StockInvariant'
<1>1. AggregateMatchesRows' /\ ReservedWithinAvailable'
  BY PromisedUnchanged DEF StockInvariant, AggregateMatchesRows, ReservedWithinAvailable
<1>2. ItemMirrorsReservation'
  BY DEF StockInvariant, ItemMirrorsReservation
<1>3. ReservationsBelongToOrders'
  BY DEF StockInvariant, ReservationsBelongToOrders, Active, KeepsRows, KeepsOrders
<1>4. QED
  BY <1>1, <1>2, <1>3 DEF StockInvariant

\* Conversion: the rows, the lines and the aggregate of a new order go up together.
LEMMA ReserveAndCreateKeepsStock ==
    ASSUME TypeInvariant, TypeInvariant', StockInvariant, KeepsRows,
           NEW r \in Requests, NEW o \in OrderIds, ReserveAndCreate(r, o)
    PROVE  StockInvariant'
<1> DEFINE q == creating[r].quotation
           rows == [p \in Products |->
                IF p \in ProductsOf(q) THEN [status |-> "ACTIVE", quantity |-> QuantityOf(q, p)]
                                       ELSE NoReservation]
<1>1. q \in Quotations
  BY DEF ReserveAndCreate, TypeInvariant, TypeOK, CreationRow, NotCreating
<1>2. /\ reservation' = [reservation EXCEPT ![o] = rows]
      /\ item' = [item EXCEPT ![o] = [p \in Products |-> QuantityOf(q, p)]]
      /\ order[o].status = "ABSENT"
      /\ order' = [order EXCEPT ![o] = NewOrder(creating[r])]
      /\ UNCHANGED task
  BY DEF ReserveAndCreate
<1>3. \A p \in Products : /\ QuantityOf(q, p) \in Nat
                          /\ p \in ProductsOf(q) => QuantityOf(q, p) > 0
                          /\ p \notin ProductsOf(q) => QuantityOf(q, p) = 0
  BY <1>1, QuantityType, QuantityOfLines
<1>4. DOMAIN reservation = OrderIds /\ DOMAIN item = OrderIds /\ DOMAIN order = OrderIds
  BY DEF TypeInvariant, TypeOK
<1>5. \A p \in Products : stock'[p].reserved = stock[p].reserved + QuantityOf(q, p)
  <2>1. stock' = [p \in Products |-> [stock[p] EXCEPT !.reserved = @ + QuantityOf(q, p)]]
    BY DEF ReserveAndCreate, WriteStock
  <2>2. \A p \in Products : stock[p] \in [available : Nat, reserved : Nat]
    BY StockTyped DEF TypeInvariant
  <2> HIDE DEF q
  <2>3. QED
    BY <2>1, <2>2
<1> HIDE DEF q
<1>6. \A p \in Products :
          /\ reservation[o][p].status = "ABSENT"
          /\ item'[o][p] = QuantityOf(q, p)
          /\ reservation'[o][p].status = IF p \in ProductsOf(q) THEN "ACTIVE" ELSE "ABSENT"
          /\ reservation'[o][p].quantity = QuantityOf(q, p)
  <2>1. \A p \in Products : reservation'[o][p] = rows[p] /\ item'[o][p] = QuantityOf(q, p)
    BY <1>2, <1>4
  <2>2. \A p \in Products : /\ rows[p].status = IF p \in ProductsOf(q) THEN "ACTIVE" ELSE "ABSENT"
                            /\ rows[p].quantity = QuantityOf(q, p)
    BY <1>3 DEF NoReservation
  <2>3. \A p \in Products : reservation[o][p].status = "ABSENT"
    BY <1>2 DEF StockInvariant, ReservationsBelongToOrders
  <2> HIDE DEF rows
  <2>4. QED
    BY <2>1, <2>2, <2>3
<1>7. \A x \in OrderIds \ {o} : reservation'[x] = reservation[x] /\ item'[x] = item[x]
  BY <1>2, <1>4
<1>8. AggregateMatchesRows'
  <2> SUFFICES ASSUME NEW p \in Products PROVE stock'[p].reserved = Promised(p)'
    BY DEF AggregateMatchesRows
  <2>1. Held(o, p) = 0
    BY <1>6 DEF Held
  <2>2. Held(o, p)' = QuantityOf(q, p)
    BY <1>3, <1>6 DEF Held
  <2>3. Promised(p)' = Promised(p) - Held(o, p) + Held(o, p)'
    BY <1>7, PromisedChange DEF TypeInvariant
  <2>4. stock[p].reserved = Promised(p) /\ Promised(p) \in Nat
    BY PromisedType DEF StockInvariant, AggregateMatchesRows, TypeInvariant
  <2>5. QED
    BY <1>3, <1>5, <2>1, <2>2, <2>3, <2>4
<1>9. ReservedWithinAvailable'
  BY WriteStockWithin DEF ReserveAndCreate, TypeInvariant, TypeOK, StockRows
<1>10. ItemMirrorsReservation'
  BY <1>3, <1>6, <1>7 DEF StockInvariant, ItemMirrorsReservation
<1>11. ReservationsBelongToOrders'
  <2>1. order'[o].status # "ABSENT"
    BY <1>2, <1>4 DEF NewOrder, NoOrder
  <2>2. \A x \in OrderIds \ {o} : order'[x] = order[x]
    BY <1>2, <1>4
  <2>3. QED
    BY <1>3, <1>6, <1>7, <2>1, <2>2
       DEF StockInvariant, ReservationsBelongToOrders, Active
<1>12. TasksListWhatIsHeld'
  <2>1. \A t \in TaskIds : task[t].status # "ABSENT" => task[t].order # o /\ task[t].order \in OrderIds
    BY <1>2 DEF TypeInvariant, ForeignKeys
  <2>2. QED
    BY <1>2, <1>7, <2>1 DEF StockInvariant, TasksListWhatIsHeld, Active
<1>13. ConsumedByATask'
  BY <1>2, <1>6, <1>7 DEF StockInvariant, ConsumedByATask, Consumed
<1>14. QED
  BY <1>8, <1>9, <1>10, <1>11, <1>12, <1>13 DEF StockInvariant

\* Cancellation: the rows, the lines and the aggregate go down together, and no
\* line of the order was consumed.
LEMMA CancelOrderKeepsStock ==
    ASSUME TypeInvariant, TypeInvariant', StockInvariant, KeepsRows,
           NEW o \in OrderIds, CancelOrder(o)
    PROVE  StockInvariant'
<1>1. /\ reservation' = [reservation EXCEPT ![o] = ReleaseAll(@)]
      /\ item' = [item EXCEPT ![o] = Nothing]
      /\ ~CancellationBlocked(o)
      /\ UNCHANGED task
  BY DEF CancelOrder, ReleasedLines
<1>2. /\ DOMAIN reservation = OrderIds /\ DOMAIN item = OrderIds
      /\ \A p \in Products : reservation[o][p] \in ReservationRow
  BY DEF TypeInvariant, TypeOK
<1>3. \A p \in Products : stock'[p].reserved = stock[p].reserved - Held(o, p)
  <2>1. stock' = [p \in Products |-> [stock[p] EXCEPT !.reserved = @ - Held(o, p)]]
    BY DEF CancelOrder, WriteStock
  <2>2. \A p \in Products : stock[p] \in [available : Nat, reserved : Nat]
    BY StockTyped DEF TypeInvariant
  <2>3. QED
    BY <2>1, <2>2
<1>4. \A p \in Products :
          /\ ~Consumed(o, p)
          /\ item'[o][p] = 0
          /\ reservation'[o][p].status = IF Active(o, p) THEN "RELEASED" ELSE reservation[o][p].status
  <2>1. \A p \in Products : ~Consumed(o, p)
    BY <1>1 DEF StockInvariant, ConsumedByATask, CancellationBlocked
  <2>2. \A p \in Products : item'[o][p] = 0
    BY <1>1, <1>2 DEF Nothing
  <2>3. \A p \in Products :
            reservation'[o][p].status = IF Active(o, p) THEN "RELEASED" ELSE reservation[o][p].status
    BY <1>1, <1>2 DEF ReleaseAll, Active, ReservationRow
  <2>4. QED
    BY <2>1, <2>2, <2>3
<1>5. \A x \in OrderIds \ {o} : reservation'[x] = reservation[x] /\ item'[x] = item[x]
  BY <1>1, <1>2
<1>6. AggregateMatchesRows'
  <2> SUFFICES ASSUME NEW p \in Products PROVE stock'[p].reserved = Promised(p)'
    BY DEF AggregateMatchesRows
  <2>1. Held(o, p)' = 0
    BY <1>4 DEF Held, Active
  <2>2. Promised(p)' = Promised(p) - Held(o, p) + Held(o, p)'
    BY <1>5, PromisedChange DEF TypeInvariant
  <2>3. stock[p].reserved = Promised(p) /\ Promised(p) \in Nat /\ Held(o, p) \in Nat
    BY PromisedType, HeldType DEF StockInvariant, AggregateMatchesRows, TypeInvariant
  <2>4. QED
    BY <1>3, <2>1, <2>2, <2>3
<1>7. ReservedWithinAvailable'
  BY WriteStockWithin DEF CancelOrder, TypeInvariant, TypeOK, StockRows
<1>8. ItemMirrorsReservation'
  BY <1>4, <1>5 DEF StockInvariant, ItemMirrorsReservation, Active, Consumed
<1>9. ReservationsBelongToOrders'
  BY <1>4, <1>5 DEF StockInvariant, ReservationsBelongToOrders, Active, KeepsRows, KeepsOrders
<1>10. TasksListWhatIsHeld'
  <2>1. \A x \in OrderIds, p \in Products : Active(x, p)' => Active(x, p)
    BY <1>4, <1>5 DEF Active
  <2>2. \A t \in TaskIds : task[t].status # "ABSENT" => task[t].order \in OrderIds
    BY DEF TypeInvariant, ForeignKeys
  <2>3. QED
    BY <1>1, <2>1, <2>2 DEF StockInvariant, TasksListWhatIsHeld
<1>11. ConsumedByATask'
  BY <1>1, <1>4, <1>5 DEF StockInvariant, ConsumedByATask, Consumed
<1>12. QED
  BY <1>6, <1>7, <1>8, <1>9, <1>10, <1>11 DEF StockInvariant

\* A shortfall: one row, its line and the aggregate go down by the same amount.
LEMMA ShortfallKeepsStock ==
    ASSUME TypeInvariant, TypeInvariant', StockInvariant, KeepsRows,
           NEW o \in OrderIds, NEW p \in Products, NEW n \in Nat,
           resolveReservationShortfall(o, p, n)
    PROVE  StockInvariant'
<1> DEFINE row == reservation[o][p]
           new == IF n = 0 THEN [row EXCEPT !.status = "RELEASED"] ELSE [row EXCEPT !.quantity = n]
<1>1. row \in ReservationRow /\ row.status = "ACTIVE" /\ n < row.quantity
  BY DEF TypeInvariant, TypeOK, resolveReservationShortfall
<1>2. /\ row.quantity \in Nat
      /\ new.status = IF n = 0 THEN "RELEASED" ELSE "ACTIVE"
      /\ n # 0 => new.quantity = n
  BY <1>1 DEF ReservationRow
<1>3. /\ reservation' = [reservation EXCEPT ![o][p] = new]
      /\ item' = [item EXCEPT ![o][p] = n]
      /\ UNCHANGED task
  BY DEF resolveReservationShortfall
<1> HIDE DEF new
<1>4. \A x \in OrderIds, r \in Products :
          /\ reservation'[x][r] = IF x = o /\ r = p THEN new ELSE reservation[x][r]
          /\ item'[x][r] = IF x = o /\ r = p THEN n ELSE item[x][r]
  BY <1>3 DEF TypeInvariant, TypeOK, Quantities
<1>5. \A r \in Products : stock'[r].reserved =
          IF r = p THEN stock[r].reserved - (row.quantity - n) ELSE stock[r].reserved
  <2>1. stock' = [stock EXCEPT ![p].reserved = @ - (row.quantity - n)]
    BY DEF resolveReservationShortfall, WriteStock
  <2>2. stock \in StockRows
    BY DEF TypeInvariant, TypeOK, StockRows
  <2> HIDE DEF row
  <2>3. QED
    BY <2>1, <2>2 DEF StockRows
<1>6. AggregateMatchesRows'
  <2> SUFFICES ASSUME NEW r \in Products PROVE stock'[r].reserved = Promised(r)'
    BY DEF AggregateMatchesRows
  <2>1. Promised(r)' = Promised(r) - Held(o, r) + Held(o, r)'
    BY <1>4, PromisedChange DEF TypeInvariant
  <2>2. stock[r].reserved = Promised(r) /\ Promised(r) \in Nat /\ Held(o, r) \in Nat
    BY PromisedType, HeldType DEF StockInvariant, AggregateMatchesRows, TypeInvariant
  <2>3. CASE r = p
    <3>1. Held(o, r) = row.quantity
      BY <1>1, <2>3 DEF Held
    <3>2. Held(o, r)' = n
      BY <1>2, <1>4, <2>3 DEF Held
    <3> HIDE DEF row
    <3>3. QED
      BY <1>2, <1>5, <2>1, <2>2, <2>3, <3>1, <3>2
  <2>4. CASE r # p
    <3>1. Held(o, r)' = Held(o, r)
      BY <1>4, <2>4 DEF Held
    <3>2. QED
      BY <1>5, <2>1, <2>2, <2>4, <3>1
  <2>5. QED
    BY <2>3, <2>4
<1>7. ReservedWithinAvailable'
  BY WriteStockWithin DEF resolveReservationShortfall, TypeInvariant, TypeOK, StockRows
<1>8. ItemMirrorsReservation'
  BY <1>2, <1>4 DEF StockInvariant, ItemMirrorsReservation
<1>9. \A x \in OrderIds, r \in Products :
          /\ Active(x, r)' => Active(x, r)
          /\ Consumed(x, r)' => Consumed(x, r)
  BY <1>1, <1>2, <1>4 DEF Active, Consumed
<1>10. ReservationsBelongToOrders'
  <2>1. order[o].status # "ABSENT"
    BY <1>1 DEF StockInvariant, ReservationsBelongToOrders
  <2>2. \A x \in OrderIds : order'[x].status = "ABSENT" => order[x].status = "ABSENT"
    BY DEF KeepsRows, KeepsOrders
  <2>3. QED
    BY <1>2, <1>4, <2>1, <2>2 DEF StockInvariant, ReservationsBelongToOrders, Active
<1>11. TasksListWhatIsHeld'
  <2>1. \A t \in TaskIds : task[t].status # "ABSENT" => task[t].order \in OrderIds
    BY DEF TypeInvariant, ForeignKeys
  <2>2. QED
    BY <1>3, <1>9, <2>1 DEF StockInvariant, TasksListWhatIsHeld
<1>12. ConsumedByATask'
  BY <1>3, <1>9 DEF StockInvariant, ConsumedByATask
<1>13. QED
  BY <1>6, <1>7, <1>8, <1>10, <1>11, <1>12 DEF StockInvariant

\* The handover takes from every product what the order holds of it: the task lists
\* whatever is held, and planConsumption has compared the two.
LEMMA HandoverTakesWhatIsHeld ==
    ASSUME TypeInvariant, StockInvariant, NEW t \in TaskIds, FinishHandover(t)
    PROVE  /\ task[t].order \in OrderIds
           /\ task[t].status = "PREPARED"
           /\ task[t] \in TaskRow
           /\ \A p \in Products : Held(task[t].order, p) = task[t].required[p]
<1>1. task[t].status = "PREPARED" /\ task[t] \in TaskRow
  BY DEF FinishHandover, TypeInvariant, WorkInFlight, TypeOK
<1>2. task[t].order \in OrderIds
  BY <1>1 DEF TypeInvariant, ForeignKeys
<1>3. ASSUME NEW p \in Products
      PROVE  Held(task[t].order, p) = task[t].required[p]
  <2>1. task[t].required[p] \in Nat
    BY <1>1 DEF TaskRow, Quantities
  <2>2. CASE task[t].required[p] > 0
    BY <2>2 DEF FinishHandover, planConsumption
  <2>3. CASE task[t].required[p] = 0
    <3>1. ~Active(task[t].order, p)
      BY <1>1, <2>3 DEF StockInvariant, TasksListWhatIsHeld
    <3>2. QED
      BY <2>3, <3>1 DEF Held, Active
  <2>4. QED
    BY <2>1, <2>2, <2>3
<1>4. QED
  BY <1>1, <1>2, <1>3

\* The handover: the rows are consumed, and the aggregate goes down by as much.
LEMMA FinishHandoverKeepsStock ==
    ASSUME TypeInvariant, TypeInvariant', StockInvariant, KeepsRows,
           NEW t \in TaskIds, FinishHandover(t)
    PROVE  StockInvariant'
<1> DEFINE out == task[t].required
<1>o. PICK o \in OrderIds : o = task[t].order
  BY HandoverTakesWhatIsHeld
<1>1. /\ task[t].status = "PREPARED"
      /\ task[t] \in TaskRow
      /\ \A p \in Products : Held(o, p) = out[p]
  BY <1>o, HandoverTakesWhatIsHeld
<1>2. /\ reservation' = [reservation EXCEPT ![o] = ConsumeAll(@)]
      /\ task' = [task EXCEPT ![t].status = "COMPLETED"]
      /\ UNCHANGED item
  BY <1>o DEF FinishHandover
<1>3. \A p \in Products : stock'[p].reserved = stock[p].reserved - out[p]
  BY DEF FinishHandover, WriteStock
<1>4. /\ DOMAIN reservation = OrderIds /\ DOMAIN task = TaskIds
      /\ \A p \in Products : reservation[o][p] \in ReservationRow
  BY <1>1 DEF TypeInvariant, TypeOK
<1>5. /\ task'[t].status = "COMPLETED" /\ task'[t].order = o
      /\ \A u \in TaskIds \ {t} : task'[u] = task[u]
  BY <1>o, <1>1, <1>2, <1>4 DEF TaskRow
<1> HIDE DEF out
<1>6. \A p \in Products :
          /\ reservation'[o][p].quantity = reservation[o][p].quantity
          /\ reservation'[o][p].status = IF Active(o, p) THEN "CONSUMED" ELSE reservation[o][p].status
  BY <1>1, <1>2, <1>4 DEF ConsumeAll, Active, ReservationRow
<1>7. \A x \in OrderIds \ {o} : reservation'[x] = reservation[x]
  BY <1>1, <1>2, <1>4
<1>8. AggregateMatchesRows'
  <2> SUFFICES ASSUME NEW p \in Products PROVE stock'[p].reserved = Promised(p)'
    BY DEF AggregateMatchesRows
  <2>1. Held(o, p)' = 0
    BY <1>1, <1>6 DEF Held, Active
  <2>2. Promised(p)' = Promised(p) - Held(o, p) + Held(o, p)'
    BY <1>1, <1>7, PromisedChange DEF TypeInvariant
  <2>3. stock[p].reserved = Promised(p) /\ Promised(p) \in Nat /\ Held(o, p) \in Nat
    BY <1>1, PromisedType, HeldType DEF StockInvariant, AggregateMatchesRows, TypeInvariant
  <2>4. QED
    BY <1>1, <1>3, <2>1, <2>2, <2>3
<1>9. ReservedWithinAvailable'
  BY WriteStockWithin DEF FinishHandover, TypeInvariant, TypeOK, StockRows
<1>10. ItemMirrorsReservation'
  BY <1>2, <1>6, <1>7 DEF StockInvariant, ItemMirrorsReservation, Active
<1>11. \A x \in OrderIds, p \in Products : Active(x, p)' => Active(x, p) /\ x # o
  BY <1>6, <1>7 DEF Active
<1>12. ReservationsBelongToOrders'
  <2>1. \A x \in OrderIds : order'[x].status = "ABSENT" => order[x].status = "ABSENT"
    BY DEF KeepsRows, KeepsOrders
  <2>2. \A p \in Products : reservation[o][p].status = "ABSENT" => reservation'[o][p].status = "ABSENT"
    BY <1>6 DEF Active
  <2>3. QED
    BY <1>6, <1>7, <1>11, <2>1, <2>2 DEF StockInvariant, ReservationsBelongToOrders, Active
<1>13. TasksListWhatIsHeld'
  <2>1. \A u \in TaskIds : task[u].status # "ABSENT" => task[u].order \in OrderIds
    BY DEF TypeInvariant, ForeignKeys
  <2>2. QED
    BY <1>5, <1>11, <2>1 DEF StockInvariant, TasksListWhatIsHeld
<1>14. ConsumedByATask'
  <2>1. \A x \in OrderIds \ {o}, p \in Products : Consumed(x, p)' => Consumed(x, p)
    BY <1>7 DEF Consumed
  <2>2. QED
    BY <1>1, <1>5, <2>1 DEF StockInvariant, ConsumedByATask
<1>15. QED
  BY <1>8, <1>9, <1>10, <1>12, <1>13, <1>14 DEF StockInvariant

-----------------------------------------------------------------------------
(* The other steps                                                         *)

\* A step that writes none of the stock tables.
LEMMA StockUnwritten ==
    ASSUME TypeInvariant, TypeInvariant', StockInvariant, KeepsRows,
           UNCHANGED <<stock, item, reservation, task>>
    PROVE  StockInvariant'
BY ShelfStep DEF StockInvariant, ReservedWithinAvailable

\* A new task copies the lines, so it lists whatever its order holds.
LEMMA CreateTaskKeepsStock ==
    ASSUME TypeInvariant, TypeInvariant', StockInvariant, KeepsRows,
           NEW o \in OrderIds, NEW t \in TaskIds, createWarehouseTask(o, t)
    PROVE  StockInvariant'
<1> DEFINE new == [status |-> "PENDING", order |-> o, required |-> item[o], prepared |-> {}]
<1>1. /\ task[t].status = "ABSENT"
      /\ task' = [task EXCEPT ![t] = new]
      /\ UNCHANGED <<stock, item, reservation>>
  BY DEF createWarehouseTask
<1>2. DOMAIN task = TaskIds
  BY DEF TypeInvariant, TypeOK
<1>3. new.status = "PENDING" /\ new.order = o /\ new.required = item[o]
  OBVIOUS
<1> HIDE DEF new
<1>4. task'[t] = new /\ \A u \in TaskIds \ {t} : task'[u] = task[u]
  BY <1>1, <1>2
<1>5. TasksListWhatIsHeld'
  <2>1. \A p \in Products : Active(o, p) => item[o][p] > 0
    BY DEF StockInvariant, ItemMirrorsReservation, ReservationsBelongToOrders, Active
  <2>2. QED
    BY <1>1, <1>3, <1>4, <2>1 DEF StockInvariant, TasksListWhatIsHeld, Active
<1>6. ConsumedByATask'
  BY <1>1, <1>4 DEF StockInvariant, ConsumedByATask, Consumed
<1>7. QED
  BY <1>1, <1>5, <1>6, TaskStep

\* Moving a task keeps what it lists, and a COMPLETED one never moves.
LEMMA MoveTaskKeepsStock ==
    ASSUME TypeInvariant, TypeInvariant', StockInvariant, KeepsRows,
           NEW t \in TaskIds, NEW to, MoveTask(t, to)
    PROVE  StockInvariant'
<1>1. /\ task' = [task EXCEPT ![t].status = to]
      /\ task[t].status \in {"PENDING", "IN_PROGRESS", "PREPARED"}
      /\ UNCHANGED <<stock, item, reservation>>
  BY DEF MoveTask, TASK_TRANSITIONS
<1>2. task[t] \in TaskRow /\ DOMAIN task = TaskIds
  BY DEF TypeInvariant, TypeOK
<1>3. /\ task'[t].order = task[t].order /\ task'[t].required = task[t].required
      /\ \A u \in TaskIds \ {t} : task'[u] = task[u]
  BY <1>1, <1>2 DEF TaskRow
<1>4. TasksListWhatIsHeld'
  BY <1>1, <1>3 DEF StockInvariant, TasksListWhatIsHeld, Active
<1>5. ConsumedByATask'
  BY <1>1, <1>3 DEF StockInvariant, ConsumedByATask, Consumed
<1>6. QED
  BY <1>1, <1>4, <1>5, TaskStep

\* Ticking an item off changes neither what the task lists nor its status.
LEMMA MarkItemKeepsStock ==
    ASSUME TypeInvariant, TypeInvariant', StockInvariant, KeepsRows,
           NEW t \in TaskIds, NEW p, NEW prepared, markItemPrepared(t, p, prepared)
    PROVE  StockInvariant'
<1>1. PICK x : task' = [task EXCEPT ![t].prepared = x]
  BY DEF markItemPrepared
<1>2. UNCHANGED <<stock, item, reservation>>
  BY DEF markItemPrepared
<1>3. task[t] \in TaskRow /\ DOMAIN task = TaskIds
  BY DEF TypeInvariant, TypeOK
<1>4. \A u \in TaskIds : /\ task'[u].status = task[u].status
                         /\ task'[u].order = task[u].order
                         /\ task'[u].required = task[u].required
  BY <1>1, <1>3 DEF TaskRow
<1>5. TasksListWhatIsHeld' /\ ConsumedByATask'
  BY <1>2, <1>4 DEF StockInvariant, TasksListWhatIsHeld, ConsumedByATask, Active, Consumed
<1>6. QED
  BY <1>2, <1>5, TaskStep

\* Every step of the warehouse and the road keeps the stock tables consistent.
LEMMA FulfillmentStepKeepsStock ==
    ASSUME TypeInvariant, TypeInvariant', StockInvariant, KeepsRows, FulfillmentStep
    PROVE  StockInvariant'
<1>1. ASSUME NEW t \in TaskIds, BeginHandover(t) \/ GiveUpHandover(t)
      PROVE  StockInvariant'
  BY <1>1, StockUnwritten DEF BeginHandover, GiveUpHandover
<1>2. ASSUME NEW o \in OrderIds, recordPickup(o)
      PROVE  StockInvariant'
  BY <1>2, StockUnwritten DEF recordPickup
<1>3. ASSUME NEW d \in DeliveryIds,
             assignDelivery(d) \/ dispatchDelivery(d) \/ completeDelivery(d) \/ failDelivery(d)
      PROVE  StockInvariant'
  BY <1>3, StockUnwritten
     DEF assignDelivery, dispatchDelivery, completeDelivery, failDelivery, MoveDelivery
<1>4. ASSUME NEW t \in TaskIds,
             startWarehouseTask(t) \/ markTaskPrepared(t) \/ cancelWarehouseTask(t)
      PROVE  StockInvariant'
  BY <1>4, MoveTaskKeepsStock DEF startWarehouseTask, markTaskPrepared, cancelWarehouseTask
<1>5. QED
  BY <1>1, <1>2, <1>3, <1>4, CreateTaskKeepsStock, MarkItemKeepsStock, FinishHandoverKeepsStock
     DEF FulfillmentStep

\* A correction of one product's shelf, behind the CHECK constraint.
LEMMA ShelfChangeKeepsStock ==
    ASSUME TypeInvariant, TypeInvariant', StockInvariant, KeepsRows, NEW p, NEW delta,
           WriteStock([stock EXCEPT ![p].available = @ + delta]),
           UNCHANGED <<item, reservation, task>>
    PROVE  StockInvariant'
<1>1. stock' = [stock EXCEPT ![p].available = @ + delta]
  BY DEF WriteStock
<1>2. stock \in StockRows
  BY DEF TypeInvariant, TypeOK, StockRows
<1>3. \A x \in Products : stock'[x].reserved = stock[x].reserved
  BY <1>1, <1>2 DEF StockRows
<1>4. ReservedWithinAvailable'
  BY WriteStockWithin DEF TypeInvariant, TypeOK, StockRows
<1>5. QED
  BY <1>3, <1>4, ShelfStep

\* Every adjustment, count and shortfall keeps the stock tables consistent.
LEMMA InventoryStepKeepsStock ==
    ASSUME TypeInvariant, TypeInvariant', StockInvariant, KeepsRows, InventoryStep
    PROVE  StockInvariant'
<1>1. ASSUME NEW p \in Products, NEW n \in Deltas, adjustStock(p, n)
      PROVE  StockInvariant'
  BY <1>1, ShelfChangeKeepsStock DEF adjustStock
<1>2. ASSUME NEW d \in DiscrepancyIds, ApplyCount(d)
      PROVE  StockInvariant'
  BY <1>2, ShelfChangeKeepsStock DEF ApplyCount
<1>3. ASSUME NEW d \in DiscrepancyIds, NEW row, WriteDiscrepancy(d, row)
      PROVE  StockInvariant'
  BY <1>3, StockUnwritten DEF WriteDiscrepancy
<1>4. ASSUME NEW o \in OrderIds, NEW p \in Products, NEW n \in 0..MaxStock,
             resolveReservationShortfall(o, p, n)
      PROVE  StockInvariant'
  BY <1>4, InventoryBounds, ShortfallKeepsStock
<1>5. QED
  BY <1>1, <1>2, <1>3, <1>4
     DEF InventoryStep, CountShelf, FileCount, reviewDiscrepancy, cancelDiscrepancy, ConfirmCount,
         FlagShortfall

\* Of what happens to goods after a failed delivery only restocking touches the
\* products, and it only adds to the shelf.
LEMMA ReturnStepKeepsStock ==
    ASSUME TypeInvariant, TypeInvariant', StockInvariant, KeepsRows, ReturnStep
    PROVE  StockInvariant'
<1>1. ASSUME NEW r \in ReturnIds, completeReturn(r)
      PROVE  StockInvariant'
  <2>1. stock' = [p \in Products |->
                     [stock[p] EXCEPT !.available = @ + goodsReturn[r].restockable[p]]]
    BY <1>1 DEF completeReturn, WriteStock
  <2>2. \A p \in Products : stock'[p].reserved = stock[p].reserved
    BY <2>1, StockTyped DEF TypeInvariant
  <2>3. ReservedWithinAvailable'
    BY <1>1, WriteStockWithin DEF completeReturn, TypeInvariant, TypeOK, StockRows
  <2>4. QED
    BY <1>1, <2>2, <2>3, ShelfStep DEF completeReturn
<1>2. CASE UNCHANGED <<stock, item, reservation, task>>
  BY <1>2, StockUnwritten
<1>3. QED
  BY <1>1, <1>2
     DEF ReturnStep, createDeliveryRetry, resolveDeliveryLoss, createReturn, receiveReturn,
         inspectReturn, cancelReturn, WriteReturn

-----------------------------------------------------------------------------

\* Every step keeps the stock tables consistent.
LEMMA StockInvariantStep ==
    TypeInvariant /\ TypeInvariant' /\ StockInvariant /\ [Next]_vars => StockInvariant'
<1> SUFFICES ASSUME TypeInvariant, TypeInvariant', StockInvariant, [Next]_vars
             PROVE  StockInvariant'
  OBVIOUS
<1>1. KeepsRows
  BY StepKeepsRows
<1>2. CASE OrderStep
  <2>1. \/ UNCHANGED <<stock, item, reservation, task>>
        \/ \E r \in Requests, o \in OrderIds : ReserveAndCreate(r, o)
        \/ \E o \in OrderIds : CancelOrder(o)
    BY <1>2 DEF OrderStep, CheckQuotation, GiveUpCreation, UpdateCustomer
  <2>2. QED
    BY <1>1, <2>1, StockUnwritten, ReserveAndCreateKeepsStock, CancelOrderKeepsStock
<1>3. CASE FulfillmentStep
  BY <1>1, <1>3, FulfillmentStepKeepsStock
<1>4. CASE InventoryStep
  BY <1>1, <1>4, InventoryStepKeepsStock
<1>5. CASE ReturnStep
  BY <1>1, <1>5, ReturnStepKeepsStock
<1>6. CASE PaymentStep
  <2>1. UNCHANGED <<stock, item, reservation, task>>
    BY <1>6, PaymentStepsMoveNoGoods
  <2>2. QED
    BY <1>1, <2>1, StockUnwritten
<1>7. CASE UNCHANGED vars
  <2>1. UNCHANGED <<stock, item, reservation, task>>
    BY <1>7 DEF vars
  <2>2. QED
    BY <1>1, <2>1, StockUnwritten
<1>8. QED
  BY <1>2, <1>3, <1>4, <1>5, <1>6, <1>7 DEF Next

\* In every reachable state the stock tables, the lines, the reservations and the
\* tasks tell one story: the conjuncts of StockInvariant.
THEOREM StockIsConsistent == Spec => []StockInvariant
BY StockInit, StockInvariantStep, RowsAndLocks, PTL DEF Spec

\* products.reserved_stock is the sum of the ACTIVE reservations of the product:
\* the two are written by four functions in three modules, and never differ.
THEOREM AggregateIsExact == Spec => []AggregateMatchesRows
<1>1. StockInvariant => AggregateMatchesRows
  BY DEF StockInvariant
<1>2. QED
  BY <1>1, StockIsConsistent, PTL

\* What is promised to orders is on the shelf, whatever is adjusted, counted,
\* handed over or brought back.
THEOREM PromisesHold == Spec => []PromisesAreCovered
<1>1. StockInvariant => PromisesAreCovered
  BY DEF StockInvariant, AggregateMatchesRows, ReservedWithinAvailable, PromisesAreCovered
<1>2. QED
  BY <1>1, StockIsConsistent, PTL

\* The quantity the warehouse picks from, reservedQuantity of an order line, is
\* what the line's reservation holds or held.
THEOREM LinesMirrorReservations == Spec => []ItemMirrorsReservation
<1>1. StockInvariant => ItemMirrorsReservation
  BY DEF StockInvariant
<1>2. QED
  BY <1>1, StockIsConsistent, PTL

-----------------------------------------------------------------------------
(***************************************************************************)
(* A handover takes what its order held, to the unit, and an order is      *)
(* handed over at most once, for any number of orders, tasks and products. *)
(***************************************************************************)

Live(t) == task[t].status \notin {"ABSENT", "CANCELLED"}

\* The unique index on tasks: an order has one task that is not cancelled.  Two of
\* them could both hand over, and the second would find nothing left to consume.
OneLiveTask ==
    \A t, u \in TaskIds : Live(t) /\ Live(u) /\ task[t].order = task[u].order => t = u

HandoverInvariant == HandoverConsumedTheReservation /\ OneLiveTask

\* Nothing is completed by the step, and the rows of what was completed stay.
LEMMA HandedOverStays ==
    ASSUME HandoverConsumedTheReservation,
           \A t \in TaskIds : task'[t].status = "COMPLETED" =>
               /\ task[t].status = "COMPLETED"
               /\ task'[t].order = task[t].order
               /\ task'[t].required = task[t].required
               /\ reservation'[task[t].order] = reservation[task[t].order]
    PROVE  HandoverConsumedTheReservation'
BY DEF HandoverConsumedTheReservation, CompletedTasks

\* No task comes to life.
LEMMA LiveTasksStay ==
    ASSUME OneLiveTask,
           \A t \in TaskIds : Live(t)' => Live(t) /\ task'[t].order = task[t].order
    PROVE  OneLiveTask'
BY DEF OneLiveTask

\* A step that writes neither tasks nor reservations.
LEMMA HandoverUnwritten ==
    ASSUME HandoverInvariant, UNCHANGED <<reservation, task>>
    PROVE  HandoverInvariant'
BY HandedOverStays, LiveTasksStay DEF HandoverInvariant, Live

\* A step that writes the reservations of an order no completed task is about.
LEMMA OtherOrder ==
    ASSUME TypeInvariant, HandoverInvariant, NEW o \in OrderIds, UNCHANGED task,
           \A x \in OrderIds \ {o} : reservation'[x] = reservation[x],
           \A t \in TaskIds : task[t].status = "COMPLETED" => task[t].order # o
    PROVE  HandoverInvariant'
<1>1. \A t \in TaskIds : task[t].status = "COMPLETED" => task[t].order \in OrderIds
  BY DEF TypeInvariant, ForeignKeys
<1>2. HandoverConsumedTheReservation'
  BY <1>1, HandedOverStays DEF HandoverInvariant
<1>3. OneLiveTask'
  BY LiveTasksStay DEF HandoverInvariant, Live
<1>4. QED
  BY <1>2, <1>3 DEF HandoverInvariant

\* Conversion writes the reservations of an order that no task is about.
LEMMA ConversionKeepsHandover ==
    ASSUME TypeInvariant, HandoverInvariant,
           NEW r \in Requests, NEW o \in OrderIds, ReserveAndCreate(r, o)
    PROVE  HandoverInvariant'
<1>1. /\ order[o].status = "ABSENT"
      /\ UNCHANGED task
      /\ \A x \in OrderIds \ {o} : reservation'[x] = reservation[x]
  BY DEF ReserveAndCreate, TypeInvariant, TypeOK
<1>2. \A t \in TaskIds : task[t].status = "COMPLETED" => task[t].order # o
  BY <1>1 DEF TypeInvariant, ForeignKeys
<1>3. QED
  BY <1>1, <1>2, OtherOrder

\* A cancellation writes those of an order that no completed task is about.
LEMMA CancellationKeepsHandover ==
    ASSUME TypeInvariant, HandoverInvariant, NEW o \in OrderIds, CancelOrder(o)
    PROVE  HandoverInvariant'
<1>1. /\ ~CancellationBlocked(o)
      /\ UNCHANGED task
      /\ \A x \in OrderIds \ {o} : reservation'[x] = reservation[x]
  BY DEF CancelOrder, TypeInvariant, TypeOK
<1>2. \A t \in TaskIds : task[t].status = "COMPLETED" => task[t].order # o
  BY <1>1 DEF CancellationBlocked
<1>3. QED
  BY <1>1, <1>2, OtherOrder

\* A shortfall writes those of an order that still holds something.
LEMMA ShortfallKeepsHandover ==
    ASSUME TypeInvariant, HandoverInvariant, NEW o \in OrderIds, NEW p \in Products, NEW n,
           resolveReservationShortfall(o, p, n)
    PROVE  HandoverInvariant'
<1>1. /\ reservation[o][p].status = "ACTIVE"
      /\ UNCHANGED task
      /\ \A x \in OrderIds \ {o} : reservation'[x] = reservation[x]
  BY DEF resolveReservationShortfall, TypeInvariant, TypeOK
<1>2. \A t \in TaskIds : task[t].status = "COMPLETED" => task[t].order # o
  BY <1>1 DEF HandoverInvariant, HandoverConsumedTheReservation, CompletedTasks
<1>3. QED
  BY <1>1, <1>2, OtherOrder

\* A task is created for an order without a live one.
LEMMA CreateTaskKeepsHandover ==
    ASSUME TypeInvariant, HandoverInvariant,
           NEW o \in OrderIds, NEW t \in TaskIds, createWarehouseTask(o, t)
    PROVE  HandoverInvariant'
<1> DEFINE new == [status |-> "PENDING", order |-> o, required |-> item[o], prepared |-> {}]
<1>1. task' = [task EXCEPT ![t] = new] /\ UNCHANGED reservation /\ LiveTasks(o) = {}
  BY DEF createWarehouseTask
<1>2. DOMAIN task = TaskIds
  BY DEF TypeInvariant, TypeOK
<1>3. new.status = "PENDING" /\ new.order = o
  OBVIOUS
<1> HIDE DEF new
<1>4. task'[t] = new /\ \A u \in TaskIds \ {t} : task'[u] = task[u]
  BY <1>1, <1>2
<1>5. HandoverConsumedTheReservation'
  BY <1>1, <1>3, <1>4, HandedOverStays DEF HandoverInvariant
<1>6. OneLiveTask'
  BY <1>1, <1>3, <1>4 DEF HandoverInvariant, OneLiveTask, Live, LiveTasks
<1>7. QED
  BY <1>5, <1>6 DEF HandoverInvariant

\* Moving a task without completing it, or ticking an item off.
LEMMA TaskRowKeepsHandover ==
    ASSUME TypeInvariant, HandoverInvariant, NEW t \in TaskIds,
           \/ \E to \in {"IN_PROGRESS", "PREPARED", "CANCELLED"} : MoveTask(t, to)
           \/ \E p \in Products, b \in BOOLEAN : markItemPrepared(t, p, b)
    PROVE  HandoverInvariant'
<1>1. /\ UNCHANGED reservation
      /\ task[t].status \notin {"ABSENT", "CANCELLED"}
      /\ \/ \E to \in {"IN_PROGRESS", "PREPARED", "CANCELLED"} : task' = [task EXCEPT ![t].status = to]
         \/ \E x : task' = [task EXCEPT ![t].prepared = x]
  BY DEF MoveTask, markItemPrepared, TASK_TRANSITIONS
<1>2. task[t] \in TaskRow /\ DOMAIN task = TaskIds
  BY DEF TypeInvariant, TypeOK
<1>3. \A u \in TaskIds : /\ task'[u].order = task[u].order
                         /\ task'[u].required = task[u].required
                         /\ u # t => task'[u] = task[u]
                         /\ task'[u].status = "COMPLETED" => task[u].status = "COMPLETED"
  BY <1>1, <1>2 DEF TaskRow
<1>4. HandoverConsumedTheReservation'
  BY <1>1, <1>3, HandedOverStays DEF HandoverInvariant
<1>5. OneLiveTask'
  BY <1>1, <1>3, LiveTasksStay DEF HandoverInvariant, Live
<1>6. QED
  BY <1>4, <1>5 DEF HandoverInvariant

\* The handover: no other task of the order is completed, so none of its rows is
\* consumed yet, and each becomes so with the quantity the task takes.
LEMMA FinishHandoverKeepsHandover ==
    ASSUME TypeInvariant, StockInvariant, HandoverInvariant,
           NEW t \in TaskIds, FinishHandover(t)
    PROVE  HandoverInvariant'
<1>o. PICK o \in OrderIds : o = task[t].order
  BY HandoverTakesWhatIsHeld
<1>1. /\ task[t].status = "PREPARED"
      /\ task[t] \in TaskRow
      /\ \A p \in Products : Held(o, p) = task[t].required[p]
  BY <1>o, HandoverTakesWhatIsHeld
<1>2. /\ reservation' = [reservation EXCEPT ![o] = ConsumeAll(@)]
      /\ task' = [task EXCEPT ![t].status = "COMPLETED"]
  BY <1>o DEF FinishHandover
<1>3. /\ DOMAIN reservation = OrderIds /\ DOMAIN task = TaskIds
      /\ \A p \in Products : reservation[o][p] \in ReservationRow
  BY DEF TypeInvariant, TypeOK
<1>4. /\ task'[t].order = o /\ task'[t].required = task[t].required
      /\ \A u \in TaskIds \ {t} : task'[u] = task[u]
  BY <1>o, <1>1, <1>2, <1>3 DEF TaskRow
<1>5. /\ \A x \in OrderIds \ {o} : reservation'[x] = reservation[x]
      /\ \A p \in Products :
            /\ reservation'[o][p].quantity = reservation[o][p].quantity
            /\ reservation'[o][p].status = IF Active(o, p) THEN "CONSUMED" ELSE reservation[o][p].status
  BY <1>2, <1>3 DEF ConsumeAll, Active, ReservationRow
<1>6. \A u \in TaskIds \ {t} : Live(u) => task[u].order # o
  BY <1>o, <1>1 DEF HandoverInvariant, OneLiveTask, Live
<1>7. \A p \in Products : ~Consumed(o, p)
  BY <1>1, <1>6 DEF StockInvariant, ConsumedByATask, Live
<1>8. \A p \in Products :
          /\ task[t].required[p] = IF reservation'[o][p].status = "CONSUMED"
                                   THEN reservation'[o][p].quantity ELSE 0
          /\ reservation'[o][p].status # "ACTIVE"
  BY <1>1, <1>5, <1>7 DEF Held, Active, Consumed
<1>9. \A u \in TaskIds \ {t} : task[u].status = "COMPLETED" =>
          task[u].order \in OrderIds \ {o}
  BY <1>6 DEF Live, TypeInvariant, ForeignKeys
<1>10. HandoverConsumedTheReservation'
  BY <1>4, <1>5, <1>8, <1>9
     DEF HandoverInvariant, HandoverConsumedTheReservation, CompletedTasks
<1>11. OneLiveTask'
  BY <1>o, <1>1, <1>4, LiveTasksStay DEF HandoverInvariant, Live
<1>12. QED
  BY <1>10, <1>11 DEF HandoverInvariant

-----------------------------------------------------------------------------

\* Without tasks nothing is handed over.
LEMMA HandoverInit == Init => HandoverInvariant
BY DEF Init, HandoverInvariant, HandoverConsumedTheReservation, CompletedTasks, OneLiveTask, Live,
       NoTask

\* Every step keeps what was handed over.
LEMMA HandoverStep ==
    TypeInvariant /\ StockInvariant /\ HandoverInvariant /\ [Next]_vars => HandoverInvariant'
<1> SUFFICES ASSUME TypeInvariant, StockInvariant, HandoverInvariant, [Next]_vars
             PROVE  HandoverInvariant'
  OBVIOUS
<1>1. CASE OrderStep
  <2>1. \/ UNCHANGED <<reservation, task>>
        \/ \E r \in Requests, o \in OrderIds : ReserveAndCreate(r, o)
        \/ \E o \in OrderIds : CancelOrder(o)
    BY <1>1 DEF OrderStep, CheckQuotation, GiveUpCreation, UpdateCustomer
  <2>2. QED
    BY <2>1, HandoverUnwritten, ConversionKeepsHandover, CancellationKeepsHandover
<1>2. CASE FulfillmentStep
  <2>1. \/ UNCHANGED <<reservation, task>>
        \/ \E o \in OrderIds, t \in TaskIds : createWarehouseTask(o, t)
        \/ \E t \in TaskIds :
              \/ \E to \in {"IN_PROGRESS", "PREPARED", "CANCELLED"} : MoveTask(t, to)
              \/ \E p \in Products, b \in BOOLEAN : markItemPrepared(t, p, b)
              \/ FinishHandover(t)
    BY <1>2 DEF FulfillmentStep, startWarehouseTask, markTaskPrepared, cancelWarehouseTask,
                BeginHandover, GiveUpHandover, recordPickup, assignDelivery, dispatchDelivery,
                completeDelivery, failDelivery, MoveDelivery
  <2>2. QED
    BY <2>1, HandoverUnwritten, CreateTaskKeepsHandover, TaskRowKeepsHandover,
       FinishHandoverKeepsHandover
<1>3. CASE InventoryStep
  <2>1. \/ UNCHANGED <<reservation, task>>
        \/ \E o \in OrderIds, p \in Products, n \in 0..MaxStock : resolveReservationShortfall(o, p, n)
    BY <1>3
       DEF InventoryStep, adjustStock, CountShelf, FileCount, reviewDiscrepancy,
           cancelDiscrepancy, ConfirmCount, FlagShortfall, ApplyCount, WriteDiscrepancy
  <2>2. QED
    BY <2>1, HandoverUnwritten, ShortfallKeepsHandover
<1>4. CASE ReturnStep
  <2>1. UNCHANGED <<reservation, task>>
    BY <1>4 DEF ReturnStep, createDeliveryRetry, resolveDeliveryLoss, createReturn, receiveReturn,
                inspectReturn, completeReturn, cancelReturn, WriteReturn
  <2>2. QED
    BY <2>1, HandoverUnwritten
<1>5. CASE PaymentStep
  <2>1. UNCHANGED <<reservation, task>>
    BY <1>5, PaymentStepsMoveNoGoods
  <2>2. QED
    BY <2>1, HandoverUnwritten
<1>6. CASE UNCHANGED vars
  BY <1>6, HandoverUnwritten DEF vars
<1>7. QED
  BY <1>1, <1>2, <1>3, <1>4, <1>5, <1>6 DEF Next

\* What went out with a completed task is what its order's reservations held, to
\* the unit, and the order holds nothing more; and an order has one live task.
LEMMA HandoverHolds == Spec => []HandoverInvariant
BY HandoverInit, HandoverStep, RowsAndLocks, StockIsConsistent, PTL DEF Spec

\* completeWarehouseTask takes the quantities the task copied when it was created;
\* whatever shrank, was cancelled or was recreated since, they are exactly what the
\* reservations held.
THEOREM HandoverIsExact == Spec => []HandoverConsumedTheReservation
<1>1. HandoverInvariant => HandoverConsumedTheReservation
  BY DEF HandoverInvariant
<1>2. QED
  BY <1>1, HandoverHolds, PTL

\* An order's goods leave once: however often a handover is tried again and a task
\* cancelled and made anew, at most one task of an order is ever completed, and
\* nothing is consumed without one.
THEOREM GoodsLeaveOnce == Spec => []OneHandoverPerOrder
<1>1. StockInvariant /\ HandoverInvariant => OneHandoverPerOrder
  <2> SUFFICES ASSUME StockInvariant, HandoverInvariant, NEW o \in OrderIds
               PROVE  /\ Cardinality({t \in CompletedTasks : task[t].order = o}) <= 1
                      /\ (\E p \in Products : reservation[o][p].status = "CONSUMED")
                             => \E t \in CompletedTasks : task[t].order = o
    BY DEF OneHandoverPerOrder
  <2> DEFINE S == {t \in CompletedTasks : task[t].order = o}
  <2>1. \A t, u \in S : t = u
    BY DEF HandoverInvariant, OneLiveTask, Live, CompletedTasks
  <2>2. Cardinality(S) <= 1
    <3> HIDE DEF S
    <3>1. CASE S = {}
      BY <3>1, FS_EmptySet
    <3>2. CASE S # {}
      <4>1. PICK t : S = {t}
        BY <2>1, <3>2
      <4>2. QED
        BY <4>1, FS_Singleton, SMTT(30)
    <3>3. QED
      BY <3>1, <3>2
  <2>3. QED
    BY <2>2 DEF StockInvariant, ConsumedByATask, Consumed, CompletedTasks
<1>2. QED
  BY <1>1, HandoverHolds, StockIsConsistent, PTL
=============================================================================
