------------------------------ MODULE Payments ------------------------------
(***************************************************************************)
(* Claims that a customer paid, and Finance's decision about them          *)
(* (src/src/modules/payments/index.ts, matching.ts, balance.ts and         *)
(* payload.ts).                                                            *)
(*                                                                         *)
(* Confirming locks the payment and then the order.  Two confirmations on  *)
(* different orders share no lock, so one is split at its assessment.      *)
(* Extraction calls a provider between two transactions, and neither it    *)
(* nor a correction locks the payment before it reads it.                  *)
(***************************************************************************)
EXTENDS Records

CONSTANT Amounts   \* amounts a claim can state (bound)

ASSUME PaymentBounds == Amounts \subseteq Nat \ {0}

isReviewable(c) == payment[c].status \in {"SUBMITTED", "NEEDS_REVIEW"}

\* A mutated form: no lock.
RowFree_Always(c) == TRUE

\* The payment row is locked by a confirmation in flight.
RowFree(c) == c \notin confirming

\* The order was read OPEN, without a lock, at some earlier moment: every order
\* that exists was.  The insert names it, and waits for its lock.
submitPayment(c, o, amount, reference) ==
    /\ payment[c].status = "ABSENT"
    /\ order[o].status # "ABSENT" /\ Unlocked(o)
    /\ payment' = [payment EXCEPT ![c] = [status |-> "SUBMITTED", order |-> o,
                                          amount |-> amount, reference |-> reference]]
    /\ UNCHANGED <<stockTables, addressed, orderTables, yard, road, discrepancy, creating,
                   confirming, reviewed, extracting, correcting>>

\* The trigger that keeps a CONFIRMED row as it is.
Unconfirmed(c) == payment[c].status # "CONFIRMED"

-----------------------------------------------------------------------------
(* Extraction and correction                                               *)

\* First transaction: still undecided.
StartExtraction(c) ==
    /\ isReviewable(c)
    /\ c \notin extracting
    /\ extracting' = extracting \cup {c}
    /\ UNCHANGED <<stockTables, addressed, orderTables, yard, road, discrepancy, creating,
                   payment, confirming, reviewed, correcting>>

\* Last transaction, after the provider answered: the status is not read again,
\* and only a blank reference is filled in (None: nothing extracted).
FinishExtraction(c, extracted) ==
    /\ c \in extracting
    /\ RowFree(c)
    /\ Unconfirmed(c)
    /\ payment' = [payment EXCEPT ![c].status = "NEEDS_REVIEW",
                                  ![c].reference = IF @ = None THEN extracted ELSE @]
    /\ extracting' = extracting \ {c}
    /\ UNCHANGED <<stockTables, addressed, orderTables, yard, road, discrepancy, creating,
                   confirming, reviewed, correcting>>

StartCorrection(c) ==
    /\ isReviewable(c)
    /\ c \notin correcting
    /\ correcting' = correcting \cup {c}
    /\ UNCHANGED <<stockTables, addressed, orderTables, yard, road, discrepancy, creating,
                   payment, confirming, reviewed, extracting>>

FinishCorrection(c, amount, reference) ==
    /\ c \in correcting
    /\ RowFree(c)
    /\ Unconfirmed(c)
    /\ payment' = [payment EXCEPT ![c].status = "NEEDS_REVIEW",
                                  ![c].amount = amount,
                                  ![c].reference = reference]
    /\ correcting' = correcting \ {c}
    /\ UNCHANGED <<stockTables, addressed, orderTables, yard, road, discrepancy, creating,
                   confirming, reviewed, extracting>>

\* The trigger raised, the provider never answered, or the connection was lost.
GiveUpEdit(c) ==
    /\ c \in extracting \cup correcting
    /\ \/ extracting' = extracting \ {c} /\ UNCHANGED correcting
       \/ correcting' = correcting \ {c} /\ UNCHANGED extracting
    /\ UNCHANGED <<stockTables, addressed, orderTables, yard, road, discrepancy, creating,
                   payment, confirming, reviewed>>

-----------------------------------------------------------------------------
(* The decision                                                            *)

TotalOf(o) == GrandTotal[order[o].quotation]

\* What the confirmed payments in rows come to for an order.
ConfirmedAmount(rows, o) ==
    Total([c \in PaymentIds |->
        IF rows[c].order = o /\ rows[c].status = "CONFIRMED" THEN rows[c].amount ELSE 0])

Outstanding(o) ==
    LET difference == TotalOf(o) - ConfirmedAmount(payment, o)
    IN  IF difference > 0 THEN difference ELSE 0

DuplicateReference(c) ==
    /\ payment[c].reference # None
    /\ \E e \in PaymentIds \ {c} : /\ payment[e].status = "CONFIRMED"
                                   /\ payment[e].reference = payment[c].reference

\* A payment's currency is copied from its order, so CURRENCY_MISMATCH cannot arise.
blockingFactors(c) ==
    (IF order[payment[c].order].status # "OPEN" THEN {"ORDER_NOT_OPEN"} ELSE {})
        \cup (IF DuplicateReference(c) THEN {"DUPLICATE_REFERENCE"} ELSE {})

buildConfirmationPayload(c) ==
    [amount |-> payment[c].amount, reference |-> payment[c].reference,
     outstanding |-> Outstanding(payment[c].order), blocking |-> blockingFactors(c)]

\* Finance opens the payment; the form carries the hash of what it shows.
assessPayment(c) ==
    /\ isReviewable(c)
    /\ reviewed' = [reviewed EXCEPT ![c] = buildConfirmationPayload(c)]
    /\ UNCHANGED <<stockTables, addressed, orderTables, yard, road, discrepancy, creating,
                   payment, confirming, extracting, correcting>>

BeginConfirm(c) ==
    /\ isReviewable(c)
    /\ RowFree(c)
    /\ Unlocked(payment[c].order)
    /\ reviewed[c] = buildConfirmationPayload(c)
    /\ blockingFactors(c) = {}
    /\ confirming' = confirming \cup {c}
    /\ UNCHANGED <<stockTables, addressed, orderTables, yard, road, discrepancy, creating,
                   payment, reviewed, extracting, correcting>>

\* A mutated form: no index.
ReferenceIsFree_Always(c) == TRUE

\* The partial unique index: a reference is confirmed once.
ReferenceIsFree(c) == ~DuplicateReference(c)

\* Mutated forms: any payment settles; exactly the total does not.
paymentStatusFor_Any(rows, o) == "PAID"
paymentStatusFor_Strict(rows, o) ==
    IF ConfirmedAmount(rows, o) > TotalOf(o) THEN "PAID" ELSE "PARTIALLY_PAID"

paymentStatusFor(rows, o) ==
    IF ConfirmedAmount(rows, o) >= TotalOf(o) THEN "PAID" ELSE "PARTIALLY_PAID"

CommitConfirm(c) ==
    LET o == payment[c].order
        rows == [payment EXCEPT ![c].status = "CONFIRMED"]
        status == paymentStatusFor(rows, o)
    IN  /\ c \in confirming
        /\ ReferenceIsFree(c)
        /\ payment' = rows
        /\ order' = [order EXCEPT
                ![o].paymentStatus = status,
                ![o].fulfillmentStatus = IF status = "PAID" /\ @ = "NOT_READY" THEN "READY" ELSE @]
        /\ confirming' = confirming \ {c}
        /\ UNCHANGED <<stockTables, addressed, item, reservation, yard, road, discrepancy,
                       creating, reviewed, extracting, correcting>>

GiveUpConfirm(c) ==
    /\ c \in confirming
    /\ confirming' = confirming \ {c}
    /\ UNCHANGED <<stockTables, addressed, orderTables, yard, road, discrepancy, creating,
                   payment, reviewed, extracting, correcting>>

rejectPayment(c) ==
    /\ RowFree(c)
    /\ isReviewable(c)
    /\ payment' = [payment EXCEPT ![c].status = "REJECTED"]
    /\ UNCHANGED <<stockTables, addressed, orderTables, yard, road, discrepancy, creating,
                   confirming, reviewed, extracting, correcting>>

PaymentStep ==
    \E c \in PaymentIds :
        \/ \E o \in OrderIds, n \in Amounts, f \in References \cup {None} : submitPayment(c, o, n, f)
        \/ StartExtraction(c)
        \/ \E f \in References \cup {None} : FinishExtraction(c, f)
        \/ StartCorrection(c)
        \/ \E n \in Amounts, f \in References \cup {None} : FinishCorrection(c, n, f)
        \/ GiveUpEdit(c)
        \/ assessPayment(c)
        \/ BeginConfirm(c)
        \/ CommitConfirm(c)
        \/ GiveUpConfirm(c)
        \/ rejectPayment(c)
=============================================================================
