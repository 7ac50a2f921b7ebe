------------------------------ MODULE MCOffice ------------------------------
(* A small office for TLC, and the desks' properties by their names.        *)
EXTENDS Office, Integers, TLC

CONSTANTS p

Unit == p :> "bag"

\* Two orders whose lines name the products in opposite orders.
OrderLines == ("o1" :> <<2, 1>>) @@ ("o2" :> <<1, 2>>)

Operation ==
    {"createFromInquiry", "createFromQuotation", "cancelOrder", "confirmPayment",
     "createWarehouseTask", "completeWarehouseTask", "createDeliveryRetry", "createReturn",
     "reportDiscrepancy", "reconcileDiscrepancy"}

\* Two files that overlap, one that counts a product twice, one with a negative count.
Rows(first, n, second, m) == <<[sku |-> first, quantity |-> n], [sku |-> second, quantity |-> m]>>
Sheets == ("a" :> Rows(2, 1, 1, 2)) @@ ("b" :> Rows(1, 1, 2, 0))
              @@ ("twice" :> Rows(1, 1, 1, 2)) @@ ("bad" :> Rows(1, -1, 2, 1))

Change == {1, -1}

\* Whoever waits for a lock, a number, a product's row or a connection goes on: every
\* transaction ends, every import that writes ends, every request is answered.
NobodyWaitsForEver == CallsEnd /\ ImportsEnd /\ RequestsAreAnswered
=============================================================================
