---------------------------- MODULE Expectations ----------------------------
(***************************************************************************)
(* What comments and documents of the repository say of the core and the   *)
(* code does not do.  Each is checked by a run of its own, which TLC ends  *)
(* with a counterexample; the README tells each story.                     *)
(***************************************************************************)
EXTENDS Distributor

\* completeWarehouseTask: handing over and raising the delivery are one
\* transaction.  Without an address the goods leave and no delivery follows, and
\* nothing can ever move the order again.
ShippedOrderHasADelivery ==
    \A t \in CompletedTasks :
        order[task[t].order].deliveryRequired => TaskDeliveries(t) # {}

\* maybeCompleteOrder and docs/phase-6: a delivered credit order stays in
\* receivables until Finance confirms a payment.  Once COMPLETED, no payment on it
\* can be confirmed.
DebtCanBePaid ==
    \A c \in PaymentIds :
        (/\ isReviewable(c)
         /\ Outstanding(payment[c].order) > 0
         /\ order[payment[c].order].status # "CANCELLED")
        => "ORDER_NOT_OPEN" \notin blockingFactors(c)

\* payments/index.ts: REJECTED is terminal.  An extraction or a correction that
\* was under way at the rejection reopens the payment.
RejectedIsFinal ==
    [][\A c \in PaymentIds :
          payment[c].status = "REJECTED" => payment'[c].status = "REJECTED"]_vars
=============================================================================
