---------------------------- MODULE Quotations ----------------------------
(***************************************************************************)
(* One quotation (modules/quotations) from its inquiry to the customer's   *)
(* answer.  Every operation locks the quotation row.  What it reads beside *)
(* that row is not locked: the customer, whose standing goes into the      *)
(* hash, and the follow-ups.  So a send or an answer is two steps, the     *)
(* reads and the commit; the others store what they read and have no       *)
(* second look at it, and are one step at their reads.                     *)
(* A payload hash is the payload: the figures and the customer's credit    *)
(* standing.  Totals are functions of the figures and are left out of it.  *)
(***************************************************************************)
EXTENDS FollowUps, ApprovalRules

CONSTANTS
    Customers,
    InquiryLines,   \* the decided lines of the inquiry, priced from the catalogue
    CataloguePrices, TaxRate,
    Quantities, Discounts, Fees, Dates,
    GrantedDays,    \* payment terms a customer may have been granted
    Standings,      \* credit standings a customer may be moved to
    TermDays,       \* credit terms that are asked for
    Approvers,      \* roles with an approval form open
    MaxLines, MaxEdits

\* What the forms offer, and the catalogue has.
ASSUME ChoicesAreTheForms ==
    /\ TermDays \subseteq {7, 15, 30} /\ Approvers \subseteq Roles
    /\ Standings \subseteq CreditStatuses /\ PolicyIsInBasisPoints
    /\ Quantities \subseteq Nat \ {0} /\ Discounts \subseteq 0..BASIS_POINTS
    /\ GrantedDays \subseteq Nat
ASSUME LinesArePriced ==
    /\ InquiryLines \in Seq(PricedLine)
    /\ CataloguePrices \subseteq Nat /\ TaxRate \in Nat

VARIABLES
    customer,       \* [creditStatus, paymentTermsDays]
    approval,       \* the latest approval row: None, or [payload, role]
    shown,          \* by approver: the hash in the approval form, or None; not kept
                    \* once the quotation is decided, when the form can only fail
    today,
    edits           \* edits so far, bounded by MaxEdits; not counted once it is sent

quotationVars == <<quotation, followUp, chase, deciding, customer, approval, shown, today, edits>>

Cash  == [type |-> "CASH", days |-> 0]
Terms == {Cash} \cup [type : {"CREDIT"}, days : TermDays]

QUOTATION_TRANSITIONS ==
    [NONE             |-> {},
     DRAFT            |-> {"PENDING_APPROVAL", "CANCELLED", "EXPIRED"},
     PENDING_APPROVAL |-> {"APPROVED", "REJECTED", "DRAFT", "CANCELLED"},
     APPROVED         |-> {"SENT", "DRAFT", "CANCELLED", "EXPIRED"},
     SENT             |-> {"ACCEPTED", "REJECTED", "EXPIRED", "SUPERSEDED"},
     ACCEPTED         |-> {"SUPERSEDED"},
     REJECTED         |-> {"SUPERSEDED"},
     CANCELLED        |-> {}]

isEditable(status)       == status \in {"DRAFT", "PENDING_APPROVAL", "APPROVED"}
withdrawsApproval(status) == status \in {"PENDING_APPROVAL", "APPROVED"}

NewLine(price, quantity) ==
    [quantity |-> quantity, listPrice |-> price, quotedPrice |-> price,
     discount |-> 0, taxRate |-> TaxRate]

buildApprovalPayload(figures) ==
    [figures |-> figures, creditStatus |-> customer[figures.customer].creditStatus]

RequiredLevel(figures) ==
    evaluateApproval(figures.lines, figures.terms, customer[figures.customer])

\* recalculate: the stored hash follows the figures and today's credit standing.
recalculate(row) == [row EXCEPT !.current = buildApprovalPayload(row.figures)]

LockFree  == ~Locked /\ quotation.status # "NONE"

QuotationInit ==
    /\ quotation = [status |-> "NONE", figures |-> None, current |-> None, approved |-> None]
    /\ followUp = [f \in FollowUps |-> None]
    /\ chase = [r \in Chases |-> None]
    /\ customer \in [Customers -> [creditStatus : {"CREDIT_ALLOWED"}, paymentTermsDays : GrantedDays]]
    /\ approval = None
    /\ shown = [role \in Approvers |-> None]
    /\ deciding = None
    /\ today = 1
    /\ edits = 0

-----------------------------------------------------------------------------
(* Figures                                                                 *)

\* A mutated form: the days of dropped credit are left behind.
Granted_TypeOnly(terms, c) ==
    IF customer[c].creditStatus = "CREDIT_ALLOWED" THEN terms ELSE [terms EXCEPT !.type = "CASH"]

\* Credit is dropped for a customer who may not have it.
Granted(terms, c) == IF customer[c].creditStatus = "CREDIT_ALLOWED" THEN terms ELSE Cash

\* The days are not limited yet.
createFromInquiry ==
    /\ quotation.status = "NONE"
    /\ \E c \in Customers, terms \in Terms :
          LET figures == [lines |-> InquiryLines, fee |-> 0, terms |-> Granted(terms, c),
                          customer |-> c, validity |-> 1]
          IN  quotation' = [status |-> "DRAFT", figures |-> figures, approved |-> None,
                            current |-> buildApprovalPayload(figures)]
    /\ UNCHANGED <<followUp, chase, customer, approval, shown, deciding, today, edits>>

Withdrawn(row, before) ==
    IF withdrawsApproval(before.status) /\ row.current # before.current
    THEN [row EXCEPT !.status = "DRAFT", !.approved = None] ELSE row

mutate(figures) ==
    /\ LockFree /\ isEditable(quotation.status)
    /\ edits < MaxEdits /\ edits' = edits + 1
    /\ quotation' = Withdrawn(recalculate([quotation EXCEPT !.figures = figures]), quotation)
    /\ UNCHANGED <<followUp, chase, customer, approval, shown, deciding, today>>

WithLine(i, line) == [quotation.figures EXCEPT !.lines[i] = line]
LineNumbers       == IF quotation.figures = None THEN {} ELSE DOMAIN quotation.figures.lines

setLineQuantity ==
    \E i \in LineNumbers, n \in Quantities :
        mutate(WithLine(i, [quotation.figures.lines[i] EXCEPT !.quantity = n]))

setLineDiscount ==
    \E i \in LineNumbers, d \in Discounts :
        mutate(WithLine(i, [quotation.figures.lines[i] EXCEPT !.discount = d]))

removeLine ==
    \E i \in LineNumbers :
        /\ Len(quotation.figures.lines) > 1
        /\ mutate([quotation.figures EXCEPT !.lines = RemoveAt(@, i)])

addLine ==
    \E price \in CataloguePrices, n \in Quantities :
        /\ LineNumbers # {} /\ Len(quotation.figures.lines) < MaxLines
        /\ mutate([quotation.figures EXCEPT !.lines = Append(@, NewLine(price, n))])

setDeliveryFee ==
    \E fee \in Fees : LineNumbers # {} /\ mutate([quotation.figures EXCEPT !.fee = fee])

setPaymentTerms ==
    \E terms \in Terms : LineNumbers # {} /\ mutate([quotation.figures EXCEPT !.terms = terms])

\* The days of kept credit are capped by what the new customer was granted.
setCustomer ==
    \E c \in Customers :
        /\ LineNumbers # {}
        /\ LET limit == customer[c].paymentTermsDays
               terms == Granted(quotation.figures.terms, c)
           IN  mutate([quotation.figures EXCEPT !.customer = c,
                          !.terms = [terms EXCEPT !.days = IF limit < @ THEN limit ELSE @]])

setValidityDate ==
    \E day \in Dates : LineNumbers # {} /\ mutate([quotation.figures EXCEPT !.validity = day])

\* updateCustomer and the customer import: no lock that a quotation waits for.
SetStanding ==
    /\ \E c \in Customers, standing \in Standings, days \in GrantedDays :
          customer' = [customer EXCEPT ![c] = [creditStatus |-> standing,
                                               paymentTermsDays |-> days]]
    /\ UNCHANGED <<quotation, followUp, chase, approval, shown, deciding, today, edits>>

-----------------------------------------------------------------------------
(* Approval: the recalculated hash is stored even by a call that fails     *)

MaySubmit(row) ==
    /\ RequiredLevel(row.figures) # "BLOCKED"
    /\ "PENDING_APPROVAL" \in QUOTATION_TRANSITIONS[row.status]

submitForApproval ==
    /\ LockFree
    /\ LET row == recalculate(quotation)
       IN  quotation' = IF MaySubmit(row) THEN [row EXCEPT !.status = "PENDING_APPROVAL"] ELSE row
    /\ UNCHANGED <<followUp, chase, customer, approval, shown, deciding, today, edits>>

\* The page offers the form while approval is pending, with the stored hash in it.
OpenApprovalForm(role) ==
    /\ quotation.status = "PENDING_APPROVAL"
    /\ shown' = [shown EXCEPT ![role] = quotation.current]
    /\ UNCHANGED <<quotation, followUp, chase, customer, approval, deciding, today, edits>>

\* A mutated form: any role may sign what can be signed at all.
Signable_AnyRole(row, role) ==
    row.status = "PENDING_APPROVAL" /\ RequiredLevel(row.figures) # "BLOCKED"

Signable(row, role) ==
    /\ row.status = "PENDING_APPROVAL"
    /\ role \in rolesSatisfying(RequiredLevel(row.figures))

MayApprove(row, role) == Signable(row, role) /\ shown[role] = row.current

approve(role) ==
    /\ LockFree /\ shown[role] # None
    /\ LET row == recalculate(quotation)
       IN  IF MayApprove(row, role)
           THEN /\ quotation' = [row EXCEPT !.status = "APPROVED", !.approved = row.current]
                /\ approval' = [payload |-> row.current, role |-> role]
           ELSE quotation' = row /\ UNCHANGED approval
    /\ shown' = [shown EXCEPT ![role] = None]
    /\ UNCHANGED <<followUp, chase, customer, deciding, today, edits>>

\* A role that may not sign may not refuse either; the recalculation stays.
reject(role) ==
    /\ LockFree /\ shown[role] # None /\ quotation.status = "PENDING_APPROVAL"
    /\ LET row == recalculate(quotation)
       IN  quotation' = IF Signable(row, role) THEN [row EXCEPT !.status = "DRAFT"] ELSE row
    /\ shown' = [shown EXCEPT ![role] = None]
    /\ UNCHANGED <<followUp, chase, customer, approval, deciding, today, edits>>

\* A mutated form: approved once is approved for good.
MaySend_Approved(row) == row.status = "APPROVED"

MaySend(row) == row.status = "APPROVED" /\ row.approved = row.current

\* The checks of markSent; a refused one leaves its recalculation behind.
BeginSend ==
    /\ LockFree
    /\ LET row == recalculate(quotation)
       IN  IF MaySend(row)
           THEN /\ deciding' = [to |-> "SENT", row |-> row, open |-> {}]
                /\ UNCHANGED quotation
           ELSE quotation' = row /\ UNCHANGED deciding
    /\ UNCHANGED <<followUp, chase, customer, approval, shown, today, edits>>

\* The commit, with the first follow-up.
markSent ==
    /\ Locked /\ deciding.to = "SENT"
    /\ quotation' = [deciding.row EXCEPT !.status = "SENT"]
    /\ scheduleFirstFollowUp
    /\ shown' = [role \in Approvers |-> None]
    /\ deciding' = None /\ edits' = 0
    /\ UNCHANGED <<chase, customer, approval, today>>

cancelQuotation ==
    /\ LockFree /\ "CANCELLED" \in QUOTATION_TRANSITIONS[quotation.status]
    /\ quotation' = [quotation EXCEPT !.status = "CANCELLED"]
    /\ shown' = [role \in Approvers |-> None]
    /\ UNCHANGED <<followUp, chase, customer, approval, deciding, today, edits>>

-----------------------------------------------------------------------------
(* The answer                                                              *)

isExpired(row) == today > row.figures.validity

acceptanceEligibility(row) ==
    /\ row.status = "SENT"
    /\ row.approved # None /\ row.approved = row.current
    /\ ~isExpired(row)

\* An acceptance that is not eligible leaves its recalculation behind.
BeginAcceptance ==
    /\ LockFree
    /\ LET row == recalculate(quotation)
       IN  IF acceptanceEligibility(row)
           THEN /\ deciding' = [to |-> "ACCEPTED", row |-> row, open |-> Open]
                /\ UNCHANGED quotation
           ELSE quotation' = row /\ UNCHANGED deciding
    /\ UNCHANGED <<followUp, chase, customer, approval, shown, today, edits>>

BeginRejection ==
    /\ LockFree /\ quotation.status = "SENT"
    /\ deciding' = [to |-> "REJECTED", row |-> quotation, open |-> Open]
    /\ UNCHANGED <<quotation, followUp, chase, customer, approval, shown, today, edits>>

\* recordAcceptance, recordRejection: the commit.
RecordAnswer ==
    /\ Locked /\ deciding.to # "SENT"
    /\ quotation' = [deciding.row EXCEPT !.status = deciding.to]
    /\ cancelOpenFollowUps(deciding.open)
    /\ deciding' = None
    /\ UNCHANGED <<chase, customer, approval, shown, today, edits>>

\* A send or an answer that is rolled back, as the victim of a deadlock with a
\* completed follow-up, or lost with its connection.
AbandonDecision ==
    /\ Locked /\ deciding' = None
    /\ UNCHANGED <<quotation, followUp, chase, customer, approval, shown, today, edits>>

NextDay ==
    /\ today = 1 /\ today' = 2
    /\ UNCHANGED <<quotation, followUp, chase, customer, approval, shown, deciding, edits>>

Chasing ==
    /\ \E r \in Chases :
          BeginChase(r) \/ completeFollowUp(r) \/ snoozeFollowUp(r) \/ AbandonChase(r)
    /\ UNCHANGED <<customer, approval, shown, today, edits>>

QuotationNext ==
    \/ createFromInquiry
    \/ setLineQuantity \/ setLineDiscount \/ removeLine \/ addLine
    \/ setDeliveryFee \/ setPaymentTerms \/ setCustomer \/ setValidityDate
    \/ SetStanding
    \/ submitForApproval \/ BeginSend \/ markSent \/ cancelQuotation
    \/ \E role \in Approvers : OpenApprovalForm(role) \/ approve(role) \/ reject(role)
    \/ BeginAcceptance \/ BeginRejection \/ RecordAnswer \/ AbandonDecision
    \/ NextDay
    \/ Chasing

QuotationSpec == QuotationInit /\ [][QuotationNext]_quotationVars

-----------------------------------------------------------------------------
(* Properties                                                              *)

QuotationTypeOK ==
    /\ quotation.status \in DOMAIN QUOTATION_TRANSITIONS
    /\ quotation.figures # None =>
          /\ \A i \in LineNumbers : quotation.figures.lines[i] \in PricedLine
          /\ quotation.figures.terms.type = "CASH" => quotation.figures.terms.days = 0
    /\ \A f \in FollowUps : followUp[f] \in FollowUpRow \cup {None}
    /\ \A c \in Customers : customer[c].creditStatus \in CreditStatuses

Answered == quotation.status \in {"SENT", "ACCEPTED", "REJECTED"}

\* payload.ts and approval-rules.ts: what the customer was sent is, to the figure,
\* what somebody whose role may sign it approved, whatever was edited, recalculated
\* or changed on the customer since; an approval never stands for other figures; and
\* nothing is sent that nobody may sign.
SentAsApproved ==
    /\ Answered \/ quotation.status = "APPROVED" =>
        quotation.approved.figures = quotation.figures
    /\ Answered =>
        /\ approval.payload = quotation.approved
        /\ deepestDiscount(quotation.figures.lines) > Policy.salespersonDiscountLimit
               => approval.role \in {"SALES_MANAGER", "OWNER_ADMIN"}
        /\ ~(deepestDiscount(quotation.figures.lines) > Policy.salesManagerDiscountLimit)
        /\ linesBelowFloor(quotation.figures.lines, Policy.minimumPriceFloor) = {}

\* payload.ts and approval-rules.ts, rules E and F: the customer's credit standing
\* changes at any moment and waits for no lock.  A send or an acceptance is decided only
\* on the standing it was approved on, read when its checks are made, and on credit only
\* for a customer who may have it; and what it commits then is what was approved, to the
\* hash, though the standing may change again before the commit.
SentOnAStandingApproval ==
    [][/\ ~Locked /\ Locked' /\ deciding'.to \in {"SENT", "ACCEPTED"} =>
            LET standing == customer[quotation.figures.customer].creditStatus
            IN  /\ quotation.approved.creditStatus = standing
                /\ quotation.figures.terms.type = "CREDIT" => standing = "CREDIT_ALLOWED"
       /\ quotation'.status # quotation.status /\ quotation'.status \in {"SENT", "ACCEPTED"} =>
            /\ Locked /\ deciding.to = quotation'.status
            /\ quotation.status = IF quotation'.status = "SENT" THEN "APPROVED" ELSE "SENT"
            /\ quotation'.figures = quotation.figures
            /\ quotation'.current = quotation.approved /\ quotation'.approved = quotation.approved
      ]_quotationVars

\* followups/index.ts, where scheduling twice would double the queue: a quotation has
\* follow-ups exactly from its sending on, one first and the others each after one that
\* was dealt with, up to the cap; and two come after the same one only if two requests
\* on it overlapped, whatever is snoozed, completed, answered or rolled back meanwhile.
ChasesAreAccountedFor ==
    /\ Scheduled # {} <=> Answered
    /\ \A f \in Scheduled :
          /\ followUp[f].after \in Scheduled \cup {None}
          /\ followUp[f].sequence <= MaxFollowUpCount
    /\ \A f, g \in ScheduledAfter(None) : f = g /\ followUp[f].sequence = 1
    /\ \A f \in Scheduled : \A g, h \in ScheduledAfter(f) :
          /\ followUp[g].sequence = followUp[f].sequence + 1
          /\ followUp[f].status # "DUE"
          /\ g = h \/ followUp[f].contested
=============================================================================
