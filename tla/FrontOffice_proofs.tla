------------------------- MODULE FrontOffice_proofs -------------------------
(***************************************************************************)
(* Proofs about the front office, for any number of lines, edits, parses,  *)
(* reviewers, approvers, chases, users and requests: what is quoted was    *)
(* decided by somebody, what is sent was approved as it stands, what was   *)
(* sent is chased in sequence, and separated acts stay in different hands. *)
(***************************************************************************)
EXTENDS FrontOffice, Inquiries_proofs, Figures_proofs, FiniteSetTheorems

USE DEF inquiryVars, quotationVars, accessVars

-----------------------------------------------------------------------------
(* Quotations: the types of the row                                        *)

TermsRow   == [type : {"CASH", "CREDIT"}, days : Nat]
FiguresRow == [lines : Seq(PricedLine), fee : Fees \cup {0}, terms : TermsRow,
               customer : Customers, validity : Dates \cup {1}]
Payload    == [figures : FiguresRow, creditStatus : CreditStatuses]
QuotationRow ==
    [status : DOMAIN QUOTATION_TRANSITIONS, figures : FiguresRow \cup {None},
     current : Payload \cup {None}, approved : Payload \cup {None}]
CustomerRow == [creditStatus : CreditStatuses, paymentTermsDays : Nat]

\* Cash is paid at once.
TermsAgree(figures) == figures.terms.type = "CASH" => figures.terms.days = 0

\* A quotation has figures from its creation on, and its stored hash is of them: the
\* customer's standing may have changed since, the figures have not.
HashFollowsFigures ==
    IF quotation.status = "NONE" THEN quotation.figures = None
    ELSE /\ quotation.figures \in FiguresRow /\ TermsAgree(quotation.figures)
         /\ quotation.current \in Payload
         /\ quotation.current.figures = quotation.figures

QuotationTyped ==
    /\ quotation \in QuotationRow
    /\ customer \in [Customers -> CustomerRow]
    /\ HashFollowsFigures

\* What may be signed by a role: no line beyond the policy, and a manager for a deep
\* discount.
SignedFor(figures, role) ==
    /\ ~DiscountRefused(figures.lines)
    /\ deepestDiscount(figures.lines) > Policy.salespersonDiscountLimit
           => role \in {"SALES_MANAGER", "OWNER_ADMIN"}

\* From the approval on, the row carries what was approved, and that was signed for.
ApprovalStands ==
    quotation.status = "APPROVED" \/ Answered =>
        /\ quotation.approved \in Payload
        /\ quotation.approved.figures = quotation.figures
        /\ approval.payload = quotation.approved
        /\ SignedFor(quotation.figures, approval.role)
        /\ quotation.figures.terms.type = "CREDIT"
               => quotation.approved.creditStatus = "CREDIT_ALLOWED"

\* While a send or an answer is under way nobody else moves the quotation: the row that
\* was read still has its figures and its approval.
DecisionIsPending ==
    deciding # None =>
        /\ deciding.to \in {"SENT", "ACCEPTED", "REJECTED"}
        /\ quotation.status = IF deciding.to = "SENT" THEN "APPROVED" ELSE "SENT"
        /\ deciding.row \in QuotationRow /\ deciding.row.current \in Payload
        /\ deciding.row.figures = quotation.figures
        /\ deciding.row.current.figures = quotation.figures
        /\ deciding.row.approved = quotation.approved
        /\ deciding.to # "REJECTED" => deciding.row.current = quotation.approved

QuotationInvariant == QuotationTyped /\ ApprovalStands /\ DecisionIsPending

LEMMA QuotationStarts == QuotationInit => QuotationInvariant
BY ChoicesAreTheForms DEF QuotationInit, QuotationInvariant, QuotationTyped, QuotationRow, QUOTATION_TRANSITIONS,
       CustomerRow, CreditStatuses, HashFollowsFigures, ApprovalStands, Answered, DecisionIsPending

-----------------------------------------------------------------------------
(* What recalculation keeps                                                *)

LEMMA PayloadOf ==
    ASSUME QuotationTyped, NEW figures \in FiguresRow
    PROVE  /\ buildApprovalPayload(figures) \in Payload
           /\ buildApprovalPayload(figures).figures = figures
           /\ buildApprovalPayload(figures).creditStatus = customer[figures.customer].creditStatus
BY DEF QuotationTyped, buildApprovalPayload, Payload, FiguresRow, CustomerRow

\* The hash is made of the figures; nothing else of the row changes.
LEMMA Recalculated ==
    ASSUME QuotationTyped, NEW row \in QuotationRow, row.figures \in FiguresRow
    PROVE  /\ recalculate(row) \in QuotationRow
           /\ recalculate(row).status = row.status
           /\ recalculate(row).figures = row.figures
           /\ recalculate(row).approved = row.approved
           /\ recalculate(row).current = buildApprovalPayload(row.figures)
<1>1. buildApprovalPayload(row.figures) \in Payload
  BY PayloadOf
<1>2. QED
  BY <1>1 DEF recalculate, QuotationRow

\* The row as every operation that recalculates finds it.
LEMMA RecalculatedRow ==
    ASSUME QuotationTyped, quotation.status # "NONE"
    PROVE  /\ recalculate(quotation) \in QuotationRow
           /\ recalculate(quotation).status = quotation.status
           /\ recalculate(quotation).figures = quotation.figures
           /\ recalculate(quotation).approved = quotation.approved
           /\ recalculate(quotation).current \in Payload
           /\ recalculate(quotation).current = buildApprovalPayload(quotation.figures)
           /\ recalculate(quotation).current.figures = quotation.figures
<1>1. quotation \in QuotationRow /\ quotation.figures \in FiguresRow
  BY DEF QuotationTyped, HashFollowsFigures
<1>2. QED
  BY <1>1, PayloadOf, Recalculated

\* Every change of the figures on offer leaves figures of their type.
LEMMA FiguresStayTyped ==
    ASSUME QuotationTyped, quotation.status # "NONE"
    PROVE  /\ \A i \in LineNumbers, n \in Quantities :
                  WithLine(i, [quotation.figures.lines[i] EXCEPT !.quantity = n]) \in FiguresRow
           /\ \A i \in LineNumbers, d \in Discounts :
                  WithLine(i, [quotation.figures.lines[i] EXCEPT !.discount = d]) \in FiguresRow
           /\ \A i \in LineNumbers :
                  [quotation.figures EXCEPT !.lines = RemoveAt(@, i)] \in FiguresRow
           /\ \A price \in CataloguePrices, n \in Quantities :
                  [quotation.figures EXCEPT !.lines = Append(@, NewLine(price, n))] \in FiguresRow
<1> DEFINE lines == quotation.figures.lines
<1>1. quotation.figures \in FiguresRow /\ lines \in Seq(PricedLine)
  BY DEF QuotationTyped, HashFollowsFigures, FiguresRow
<1>2. LineNumbers \subseteq 1..Len(lines) /\ \A i \in 1..Len(lines) : lines[i] \in PricedLine
  BY <1>1, LenProperties, ElementOfSeq DEF LineNumbers
<1>3. ASSUME NEW i \in LineNumbers, NEW line \in PricedLine
      PROVE  WithLine(i, line) \in FiguresRow
  <2>1. [lines EXCEPT ![i] = line] \in Seq(PricedLine)
    BY <1>1, <1>2, ExceptSeq
  <2>2. QED
    BY <1>1, <2>1 DEF WithLine, FiguresRow
<1>4. ASSUME NEW i \in LineNumbers
      PROVE  [quotation.figures EXCEPT !.lines = RemoveAt(@, i)] \in FiguresRow
  <2>1. i \in 1..Len(lines) /\ Len(lines) \in Nat
    BY <1>1, <1>2, LenProperties
  <2>2. /\ SubSeq(lines, 1, i - 1) \in Seq(PricedLine)
        /\ SubSeq(lines, i + 1, Len(lines)) \in Seq(PricedLine)
    <3>1. \A k \in 1..(i - 1) : lines[k] \in PricedLine
      BY <1>2, <2>1
    <3>2. \A k \in (i + 1)..Len(lines) : lines[k] \in PricedLine
      BY <1>2, <2>1
    <3>3. i - 1 \in Int /\ i + 1 \in Int /\ 1 \in Int /\ Len(lines) \in Int
      BY <2>1
    <3>4. QED
      BY <3>1, <3>2, <3>3, SubSeqProperties
  <2>3. RemoveAt(lines, i) \in Seq(PricedLine)
    BY <2>2, ConcatProperties DEF RemoveAt
  <2>4. QED
    BY <1>1, <2>3 DEF FiguresRow
<1>5. ASSUME NEW price \in CataloguePrices, NEW n \in Quantities
      PROVE  [quotation.figures EXCEPT !.lines = Append(@, NewLine(price, n))] \in FiguresRow
  <2>1. NewLine(price, n) \in PricedLine
    <3>1. price \in Nat /\ n \in Nat \ {0} /\ TaxRate \in Nat /\ 0 \in 0..BASIS_POINTS
      <4>1. price \in Nat /\ TaxRate \in Nat
        BY LinesArePriced
      <4>2. n \in Nat \ {0} /\ 0 \in 0..BASIS_POINTS
        BY ChoicesAreTheForms, SMTT(30) DEF BASIS_POINTS
      <4>3. QED
        BY <4>1, <4>2
    <3>2. QED
      BY <3>1 DEF NewLine, PricedLine
  <2>2. Append(lines, NewLine(price, n)) \in Seq(PricedLine)
    BY <1>1, <2>1, AppendProperties
  <2>3. QED
    BY <1>1, <2>2 DEF FiguresRow
<1>6. \A i \in LineNumbers :
        /\ \A n \in Quantities : [lines[i] EXCEPT !.quantity = n] \in PricedLine
        /\ \A d \in Discounts : [lines[i] EXCEPT !.discount = d] \in PricedLine
  <2>1. \A line \in PricedLine :
          /\ \A n \in Nat \ {0} : [line EXCEPT !.quantity = n] \in PricedLine
          /\ \A d \in 0..BASIS_POINTS : [line EXCEPT !.discount = d] \in PricedLine
    BY ZenonT(40) DEF PricedLine
  <2>2. Quantities \subseteq Nat \ {0} /\ Discounts \subseteq 0..BASIS_POINTS
    BY ChoicesAreTheForms
  <2>3. QED
    BY <1>2, <2>1, <2>2
<1>7. QED
  BY <1>3, <1>4, <1>5, <1>6

-----------------------------------------------------------------------------
(* Quotations: one step                                                    *)

\* An edit of an approved quotation takes the approval back, unless it changed nothing.
LEMMA MutateKeeps ==
    ASSUME QuotationInvariant, NEW figures \in FiguresRow, TermsAgree(figures), mutate(figures)
    PROVE  QuotationInvariant'
<1> DEFINE edited == [quotation EXCEPT !.figures = figures]
           row    == recalculate(edited)
<1>1. /\ quotation \in QuotationRow /\ quotation.status \in {"DRAFT", "PENDING_APPROVAL", "APPROVED"}
      /\ UNCHANGED <<customer, approval, deciding>>
      /\ quotation' = Withdrawn(row, quotation)
      /\ deciding = None
  BY DEF QuotationInvariant, QuotationTyped, mutate, LockFree, Locked, isEditable
<1>2. /\ edited \in QuotationRow /\ edited.figures = figures
      /\ edited.status = quotation.status /\ edited.approved = quotation.approved
  BY <1>1 DEF QuotationRow
<1> HIDE DEF edited
<1>3. /\ row \in QuotationRow /\ row.status = quotation.status /\ row.figures = figures
      /\ row.approved = quotation.approved
      /\ row.current = buildApprovalPayload(figures)
  BY <1>2, Recalculated DEF QuotationInvariant
<1>4. buildApprovalPayload(figures) \in Payload /\ buildApprovalPayload(figures).figures = figures
  BY PayloadOf DEF QuotationInvariant
<1> HIDE DEF row
<1>5. CASE withdrawsApproval(quotation.status) /\ row.current # quotation.current
  <2>1. quotation' = [row EXCEPT !.status = "DRAFT", !.approved = None]
    BY <1>1, <1>5 DEF Withdrawn
  <2>2. /\ quotation' \in QuotationRow /\ quotation'.status = "DRAFT" /\ quotation'.figures = figures
        /\ quotation'.current = row.current
    BY <1>3, <2>1 DEF QuotationRow, QUOTATION_TRANSITIONS
  <2>3. QED
    BY <1>1, <1>3, <1>4, <2>2 DEF QuotationInvariant, QuotationTyped, HashFollowsFigures,
       ApprovalStands, Answered, DecisionIsPending
<1>6. CASE ~(withdrawsApproval(quotation.status) /\ row.current # quotation.current)
  <2>1. quotation' = row
    BY <1>1, <1>6 DEF Withdrawn
  <2>2. QuotationTyped'
    BY <1>1, <1>3, <1>4, <2>1 DEF QuotationInvariant, QuotationTyped, HashFollowsFigures
  <2>3. quotation.status = "APPROVED" => figures = quotation.figures
    <3>1. quotation.status = "APPROVED" => quotation.current = row.current
      BY <1>6 DEF withdrawsApproval
    <3>2. quotation.status # "NONE" => quotation.current.figures = quotation.figures
      BY DEF QuotationInvariant, QuotationTyped, HashFollowsFigures
    <3>3. QED
      BY <1>3, <1>4, <3>1, <3>2
  <2>4. ApprovalStands'
    BY <1>1, <1>3, <2>1, <2>3 DEF QuotationInvariant, ApprovalStands, Answered
  <2>5. QED
    BY <1>1, <2>2, <2>4 DEF QuotationInvariant, DecisionIsPending
<1>7. QED
  BY <1>5, <1>6

\* The figures keep the agreement of type and days of the terms.
LEMMA EditKeeps ==
    ASSUME QuotationInvariant,
           \/ setLineQuantity \/ setLineDiscount \/ removeLine \/ addLine
           \/ setDeliveryFee \/ setPaymentTerms \/ setCustomer \/ setValidityDate
    PROVE  QuotationInvariant'
<1> DEFINE Allowed(f) == f \in FiguresRow /\ TermsAgree(f)
<1>0. ASSUME NEW f, Allowed(f), mutate(f) PROVE QuotationInvariant'
  BY <1>0, MutateKeeps
<1>1. /\ QuotationTyped /\ quotation.status # "NONE"
      /\ quotation.figures \in FiguresRow /\ TermsAgree(quotation.figures)
  <2>1. QuotationTyped /\ \E f : mutate(f)
    BY DEF QuotationInvariant, setLineQuantity, setLineDiscount, removeLine, addLine,
           setDeliveryFee, setPaymentTerms, setCustomer, setValidityDate
  <2>2. QED
    BY <2>1 DEF mutate, LockFree, QuotationTyped, HashFollowsFigures
<1>2. CASE setLineQuantity
  <2>1. PICK i \in LineNumbers, n \in Quantities :
            mutate(WithLine(i, [quotation.figures.lines[i] EXCEPT !.quantity = n]))
    BY <1>2 DEF setLineQuantity
  <2>2. Allowed(WithLine(i, [quotation.figures.lines[i] EXCEPT !.quantity = n]))
    BY <1>1, FiguresStayTyped DEF WithLine, TermsAgree, FiguresRow
  <2>3. QED
    BY <1>0, <2>1, <2>2
<1>3. CASE setLineDiscount
  <2>1. PICK i \in LineNumbers, d \in Discounts :
            mutate(WithLine(i, [quotation.figures.lines[i] EXCEPT !.discount = d]))
    BY <1>3 DEF setLineDiscount
  <2>2. Allowed(WithLine(i, [quotation.figures.lines[i] EXCEPT !.discount = d]))
    BY <1>1, FiguresStayTyped DEF WithLine, TermsAgree, FiguresRow
  <2>3. QED
    BY <1>0, <2>1, <2>2
<1>4. CASE removeLine
  <2>1. PICK i \in LineNumbers : mutate([quotation.figures EXCEPT !.lines = RemoveAt(@, i)])
    BY <1>4 DEF removeLine
  <2>2. Allowed([quotation.figures EXCEPT !.lines = RemoveAt(@, i)])
    BY <1>1, FiguresStayTyped DEF TermsAgree, FiguresRow
  <2>3. QED
    BY <1>0, <2>1, <2>2
<1>5. CASE addLine
  <2>1. PICK price \in CataloguePrices, n \in Quantities :
            mutate([quotation.figures EXCEPT !.lines = Append(@, NewLine(price, n))])
    BY <1>5 DEF addLine
  <2>2. Allowed([quotation.figures EXCEPT !.lines = Append(@, NewLine(price, n))])
    BY <1>1, FiguresStayTyped DEF TermsAgree, FiguresRow
  <2>3. QED
    BY <1>0, <2>1, <2>2
<1>6. CASE setDeliveryFee
  <2>1. PICK fee \in Fees : mutate([quotation.figures EXCEPT !.fee = fee])
    BY <1>6 DEF setDeliveryFee
  <2>2. Allowed([quotation.figures EXCEPT !.fee = fee])
    BY <1>1 DEF TermsAgree, FiguresRow
  <2>3. QED
    BY <1>0, <2>1, <2>2
<1>7. CASE setPaymentTerms
  <2>1. PICK terms \in Terms : mutate([quotation.figures EXCEPT !.terms = terms])
    BY <1>7 DEF setPaymentTerms
  <2>2. terms \in TermsRow /\ (terms.type = "CASH" => terms.days = 0)
    <3>1. TermDays \subseteq Nat
      BY ChoicesAreTheForms
    <3>2. CASE terms = Cash
      BY <3>2 DEF Cash, TermsRow
    <3>3. CASE terms \in [type : {"CREDIT"}, days : TermDays]
      BY <3>1, <3>3 DEF TermsRow
    <3>4. QED
      BY <3>2, <3>3 DEF Terms
  <2>3. Allowed([quotation.figures EXCEPT !.terms = terms])
    BY <1>1, <2>2 DEF TermsAgree, FiguresRow
  <2>4. QED
    BY <1>0, <2>1, <2>3
<1>8. CASE setCustomer
  <2>1. PICK c \in Customers :
          LET limit == customer[c].paymentTermsDays
              terms == Granted(quotation.figures.terms, c)
          IN  mutate([quotation.figures EXCEPT !.customer = c,
                         !.terms = [terms EXCEPT !.days = IF limit < @ THEN limit ELSE @]])
    BY <1>8 DEF setCustomer
  <2> DEFINE limit == customer[c].paymentTermsDays
             terms == Granted(quotation.figures.terms, c)
             days  == IF limit < terms.days THEN limit ELSE terms.days
             new   == [terms EXCEPT !.days = days]
             f     == [quotation.figures EXCEPT !.customer = c, !.terms = new]
  <2>2. limit \in Nat
    BY <1>1 DEF QuotationTyped, CustomerRow
  <2>3. quotation.figures.terms \in TermsRow
    BY <1>1 DEF FiguresRow
  <2>4. terms \in TermsRow /\ (terms.type = "CASH" => terms.days = 0)
    BY <1>1, <2>3 DEF Granted, Cash, TermsAgree, TermsRow
  <2> HIDE DEF terms, limit
  <2>5. new \in TermsRow /\ (new.type = "CASH" => new.days = 0)
    BY <2>2, <2>4 DEF TermsRow
  <2>6. mutate(f)
    BY <2>1 DEF terms, limit
  <2> HIDE DEF new
  <2>7. Allowed(f)
    BY <1>1, <2>5 DEF TermsAgree, FiguresRow
  <2>8. QED
    BY <1>0, <2>6, <2>7
<1>9. CASE setValidityDate
  <2>1. PICK day \in Dates : mutate([quotation.figures EXCEPT !.validity = day])
    BY <1>9 DEF setValidityDate
  <2>2. Allowed([quotation.figures EXCEPT !.validity = day])
    BY <1>1 DEF TermsAgree, FiguresRow
  <2>3. QED
    BY <1>0, <2>1, <2>2
<1>10. QED
  BY <1>2, <1>3, <1>4, <1>5, <1>6, <1>7, <1>8, <1>9

\* A recalculation that is followed by a refusal.
LEMMA RecalculationKeeps ==
    ASSUME QuotationInvariant, quotation.status # "NONE", quotation' = recalculate(quotation),
           deciding = None, UNCHANGED <<customer, approval, deciding>>
    PROVE  QuotationInvariant'
<1> DEFINE row == recalculate(quotation)
<1>1. /\ row \in QuotationRow /\ row.status = quotation.status
      /\ row.figures = quotation.figures /\ row.approved = quotation.approved
      /\ row.current \in Payload /\ row.current.figures = quotation.figures
  BY RecalculatedRow DEF QuotationInvariant
<1> HIDE DEF row
<1>2. quotation' = row
  BY DEF row
<1>3. QED
  BY <1>1, <1>2 DEF QuotationInvariant, QuotationTyped, HashFollowsFigures, ApprovalStands,
     Answered, DecisionIsPending

\* A move to a status in which nothing is approved.
LEMMA UnapprovedKeeps ==
    ASSUME QuotationInvariant, quotation.status # "NONE", deciding = None, NEW row \in QuotationRow,
           row.figures = quotation.figures, row.current \in Payload,
           row.current.figures = quotation.figures,
           NEW status \in {"DRAFT", "PENDING_APPROVAL", "CANCELLED"},
           quotation' = [row EXCEPT !.status = status],
           UNCHANGED <<customer, approval, deciding>>
    PROVE  QuotationInvariant'
<1>1. /\ quotation' \in QuotationRow /\ quotation'.status = status
      /\ quotation'.figures = quotation.figures
      /\ quotation'.current = row.current
  BY DEF QuotationRow, QUOTATION_TRANSITIONS
<1>2. QED
  BY <1>1 DEF QuotationInvariant, QuotationTyped, HashFollowsFigures, ApprovalStands,
     Answered, DecisionIsPending

\* What a signature vouches for.
LEMMA SignatureCovers ==
    ASSUME QuotationTyped, NEW figures \in FiguresRow, NEW role,
           role \in rolesSatisfying(RequiredLevel(figures))
    PROVE  /\ SignedFor(figures, role)
           /\ figures.terms.type = "CREDIT"
                  => customer[figures.customer].creditStatus = "CREDIT_ALLOWED"
<1>1. RequiredLevel(figures) \in {"SALESPERSON", "SALES_MANAGER", "BLOCKED"}
  BY DEF RequiredLevel, evaluateApproval
<1>2. RequiredLevel(figures) # "BLOCKED"
  BY <1>1 DEF rolesSatisfying
<1>3. ~DiscountRefused(figures.lines) /\ ~CreditRefused(figures.terms, customer[figures.customer])
  BY <1>2 DEF RequiredLevel, evaluateApproval
<1>4. deepestDiscount(figures.lines) > Policy.salespersonDiscountLimit
          => RequiredLevel(figures) = "SALES_MANAGER"
  BY <1>3 DEF RequiredLevel, evaluateApproval
<1>5. RequiredLevel(figures) = "SALES_MANAGER" => role \in {"SALES_MANAGER", "OWNER_ADMIN"}
  BY DEF rolesSatisfying
<1>6. QED
  BY <1>3, <1>4, <1>5 DEF SignedFor, CreditRefused

LEMMA ApprovalKeeps ==
    ASSUME QuotationInvariant, NEW role \in Approvers, approve(role) \/ reject(role)
    PROVE  QuotationInvariant'
<1> DEFINE row == recalculate(quotation)
<1>1. QuotationTyped /\ quotation.status # "NONE" /\ deciding = None
      /\ UNCHANGED <<customer, deciding>>
  BY DEF approve, reject, LockFree, Locked, QuotationInvariant
<1>2. /\ row \in QuotationRow /\ row.status = quotation.status
      /\ row.figures = quotation.figures /\ row.approved = quotation.approved
      /\ row.current \in Payload /\ row.current.figures = quotation.figures
      /\ row.current = buildApprovalPayload(quotation.figures)
  BY <1>1, RecalculatedRow
<1>3. \/ quotation' = row /\ UNCHANGED approval
      \/ quotation' = [row EXCEPT !.status = "DRAFT"] /\ UNCHANGED approval
      \/ /\ MayApprove(row, role)
         /\ quotation' = [row EXCEPT !.status = "APPROVED", !.approved = row.current]
         /\ approval' = [payload |-> row.current, role |-> role]
  BY DEF approve, reject
<1>4. CASE quotation' = row /\ UNCHANGED approval
  BY <1>1, <1>4, RecalculationKeeps
<1> HIDE DEF row
<1>5. CASE quotation' = [row EXCEPT !.status = "DRAFT"] /\ UNCHANGED approval
  BY <1>1, <1>2, <1>5, UnapprovedKeeps
<1>6. CASE /\ MayApprove(row, role)
           /\ quotation' = [row EXCEPT !.status = "APPROVED", !.approved = row.current]
           /\ approval' = [payload |-> row.current, role |-> role]
  <2>1. quotation.figures \in FiguresRow /\ TermsAgree(quotation.figures)
    BY <1>1 DEF QuotationTyped, HashFollowsFigures
  <2>2. /\ quotation' \in QuotationRow /\ quotation'.status = "APPROVED"
        /\ quotation'.figures = quotation.figures
        /\ quotation'.current = row.current /\ quotation'.approved = row.current
    BY <1>2, <1>6 DEF QuotationRow, QUOTATION_TRANSITIONS
  <2>3. role \in rolesSatisfying(RequiredLevel(quotation.figures))
    BY <1>2, <1>6 DEF MayApprove, Signable
  <2>4. /\ SignedFor(quotation.figures, role)
        /\ quotation.figures.terms.type = "CREDIT"
               => row.current.creditStatus = "CREDIT_ALLOWED"
    BY <1>1, <1>2, <2>1, <2>3, SignatureCovers, PayloadOf
  <2>5. QuotationTyped'
    BY <1>1, <1>2, <2>1, <2>2 DEF QuotationTyped, HashFollowsFigures
  <2>6. ApprovalStands'
    BY <1>2, <1>6, <2>2, <2>4 DEF ApprovalStands, SignedFor
  <2>7. QED
    BY <1>1, <2>2, <2>5, <2>6 DEF QuotationInvariant, DecisionIsPending
<1>7. QED
  BY <1>3, <1>4, <1>5, <1>6

\* The commit of a send or of an answer: what was read is what is there.
LEMMA CommitKeeps ==
    ASSUME QuotationInvariant, markSent \/ RecordAnswer
    PROVE  /\ QuotationInvariant' /\ Locked
           /\ quotation'.status = deciding.to
           /\ deciding.to \in {"SENT", "ACCEPTED", "REJECTED"}
           /\ quotation.status = IF deciding.to = "SENT" THEN "APPROVED" ELSE "SENT"
           /\ quotation'.figures = quotation.figures
           /\ quotation'.approved = quotation.approved
           /\ deciding.to # "REJECTED" => quotation'.current = quotation.approved
<1>1. /\ deciding # None /\ deciding' = None /\ UNCHANGED <<customer, approval>>
      /\ quotation' = [deciding.row EXCEPT !.status = deciding.to]
  BY DEF markSent, RecordAnswer, Locked
<1>2. /\ QuotationTyped /\ ApprovalStands
      /\ deciding.to \in {"SENT", "ACCEPTED", "REJECTED"}
      /\ quotation.status = IF deciding.to = "SENT" THEN "APPROVED" ELSE "SENT"
      /\ deciding.row \in QuotationRow /\ deciding.row.current \in Payload
      /\ deciding.row.figures = quotation.figures
      /\ deciding.row.current.figures = quotation.figures
      /\ deciding.row.approved = quotation.approved
      /\ deciding.to # "REJECTED" => deciding.row.current = quotation.approved
  BY <1>1 DEF QuotationInvariant, DecisionIsPending
<1>3. /\ quotation' \in QuotationRow /\ quotation'.status = deciding.to
      /\ quotation'.figures = quotation.figures
      /\ quotation'.current = deciding.row.current
      /\ quotation'.approved = quotation.approved
  BY <1>1, <1>2 DEF QuotationRow, QUOTATION_TRANSITIONS
<1>4. quotation.figures \in FiguresRow /\ TermsAgree(quotation.figures)
  BY <1>2 DEF QuotationTyped, HashFollowsFigures
<1>5. QuotationTyped'
  BY <1>1, <1>2, <1>3, <1>4 DEF QuotationTyped, HashFollowsFigures
<1>6. ApprovalStands'
  BY <1>1, <1>2, <1>3 DEF ApprovalStands, Answered
<1>7. QED
  BY <1>1, <1>2, <1>3, <1>5, <1>6 DEF QuotationInvariant, DecisionIsPending, Locked

\* The steps that decide nothing about the figures.
LEMMA MovesKeep ==
    ASSUME QuotationInvariant,
           \/ createFromInquiry \/ SetStanding \/ submitForApproval \/ cancelQuotation
           \/ BeginSend \/ BeginAcceptance \/ BeginRejection \/ AbandonDecision
           \/ UNCHANGED <<quotation, customer, approval, deciding>>
    PROVE  QuotationInvariant'
<1>t. QuotationTyped /\ quotation \in QuotationRow /\ customer \in [Customers -> CustomerRow]
  BY DEF QuotationInvariant, QuotationTyped
<1>r. quotation.status # "NONE" =>
        /\ recalculate(quotation) \in QuotationRow
        /\ recalculate(quotation).status = quotation.status
        /\ recalculate(quotation).figures = quotation.figures
        /\ recalculate(quotation).approved = quotation.approved
        /\ recalculate(quotation).current \in Payload
        /\ recalculate(quotation).current.figures = quotation.figures
  BY <1>t, RecalculatedRow
<1>1. CASE createFromInquiry
  <2>1. PICK c \in Customers, terms \in Terms :
          LET figures == [lines |-> InquiryLines, fee |-> 0, terms |-> Granted(terms, c),
                          customer |-> c, validity |-> 1]
          IN  quotation' = [status |-> "DRAFT", figures |-> figures, approved |-> None,
                            current |-> buildApprovalPayload(figures)]
    BY <1>1 DEF createFromInquiry
  <2> DEFINE figures == [lines |-> InquiryLines, fee |-> 0, terms |-> Granted(terms, c),
                         customer |-> c, validity |-> 1]
  <2>2. quotation' = [status |-> "DRAFT", figures |-> figures, approved |-> None,
                      current |-> buildApprovalPayload(figures)]
    BY <2>1
  <2>3. TermDays \subseteq Nat /\ InquiryLines \in Seq(PricedLine)
    BY ChoicesAreTheForms, LinesArePriced
  <2>4. Granted(terms, c) \in TermsRow
          /\ (Granted(terms, c).type = "CASH" => Granted(terms, c).days = 0)
    <3>1. CASE terms = Cash
      BY <3>1 DEF Granted, Cash, TermsRow
    <3>2. CASE terms \in [type : {"CREDIT"}, days : TermDays]
      BY <2>3, <3>2 DEF Granted, Cash, TermsRow
    <3>3. QED
      BY <3>1, <3>2 DEF Terms
  <2>5. figures \in FiguresRow /\ TermsAgree(figures)
    BY <2>3, <2>4 DEF FiguresRow, TermsAgree
  <2> HIDE DEF figures
  <2>6. buildApprovalPayload(figures) \in Payload /\ buildApprovalPayload(figures).figures = figures
    BY <1>t, <2>5, PayloadOf
  <2>7. quotation' \in QuotationRow
    BY <2>2, <2>5, <2>6 DEF QuotationRow, QUOTATION_TRANSITIONS
  <2>8. UNCHANGED <<customer, approval, deciding>> /\ quotation.status = "NONE"
    BY <1>1 DEF createFromInquiry
  <2>9. QED
    BY <1>t, <2>2, <2>5, <2>6, <2>7, <2>8 DEF QuotationInvariant, QuotationTyped,
       HashFollowsFigures, ApprovalStands, Answered, DecisionIsPending
<1>2. CASE SetStanding
  <2>1. PICK c \in Customers, standing \in Standings, days \in GrantedDays :
          customer' = [customer EXCEPT ![c] = [creditStatus |-> standing,
                                               paymentTermsDays |-> days]]
    BY <1>2 DEF SetStanding
  <2>2. Standings \subseteq CreditStatuses /\ GrantedDays \subseteq Nat
    BY ChoicesAreTheForms
  <2>3. customer' \in [Customers -> CustomerRow]
    BY <1>t, <2>1, <2>2 DEF CustomerRow
  <2>4. UNCHANGED <<quotation, approval, deciding>>
    BY <1>2 DEF SetStanding
  <2>5. QED
    BY <2>3, <2>4 DEF QuotationInvariant, QuotationTyped, HashFollowsFigures, ApprovalStands,
       Answered, DecisionIsPending
<1>3. CASE submitForApproval
  <2> DEFINE row == recalculate(quotation)
  <2>1. /\ quotation.status # "NONE" /\ deciding = None
        /\ UNCHANGED <<customer, approval, deciding>>
        /\ quotation' = row \/ quotation' = [row EXCEPT !.status = "PENDING_APPROVAL"]
    BY <1>3 DEF submitForApproval, LockFree, Locked
  <2>2. CASE quotation' = row
    BY <2>1, <2>2, RecalculationKeeps
  <2>3. CASE quotation' = [row EXCEPT !.status = "PENDING_APPROVAL"]
    <3> HIDE DEF row
    <3>1. row \in QuotationRow /\ row.figures = quotation.figures /\ row.current \in Payload
            /\ row.current.figures = quotation.figures
      BY <1>r, <2>1 DEF row
    <3>2. QED
      BY <2>1, <2>3, <3>1, UnapprovedKeeps
  <2>4. QED
    BY <2>1, <2>2, <2>3
<1>4. CASE cancelQuotation
  <2>1. /\ quotation.status # "NONE" /\ deciding = None
        /\ UNCHANGED <<customer, approval, deciding>>
        /\ quotation' = [quotation EXCEPT !.status = "CANCELLED"]
    BY <1>4 DEF cancelQuotation, LockFree, Locked
  <2>2. quotation.current \in Payload /\ quotation.current.figures = quotation.figures
    BY <1>t, <2>1 DEF QuotationTyped, HashFollowsFigures
  <2>3. QED
    BY <1>t, <2>1, <2>2, UnapprovedKeeps
<1>5. CASE BeginSend \/ BeginAcceptance
  <2> DEFINE row == recalculate(quotation)
  <2>1. quotation.status # "NONE" /\ deciding = None /\ UNCHANGED <<customer, approval>>
    BY <1>5 DEF BeginSend, BeginAcceptance, LockFree, Locked
  <2>2. \/ quotation' = row /\ UNCHANGED deciding
        \/ /\ UNCHANGED quotation /\ deciding'.row = row
           /\ \/ deciding'.to = "SENT" /\ MaySend(row)
              \/ deciding'.to = "ACCEPTED" /\ acceptanceEligibility(row)
    BY <1>5 DEF BeginSend, BeginAcceptance
  <2>3. CASE quotation' = row /\ UNCHANGED deciding
    BY <2>1, <2>3, RecalculationKeeps
  <2>4. CASE /\ UNCHANGED quotation /\ deciding'.row = row
             /\ \/ deciding'.to = "SENT" /\ MaySend(row)
                \/ deciding'.to = "ACCEPTED" /\ acceptanceEligibility(row)
    <3>1. /\ row \in QuotationRow /\ row.status = quotation.status
          /\ row.figures = quotation.figures /\ row.approved = quotation.approved
          /\ row.current \in Payload /\ row.current.figures = quotation.figures
      BY <1>r, <2>1
    <3> HIDE DEF row
    <3>2. /\ deciding'.to \in {"SENT", "ACCEPTED"} /\ quotation.approved = row.current
          /\ quotation.status = IF deciding'.to = "SENT" THEN "APPROVED" ELSE "SENT"
      BY <2>4, <3>1 DEF MaySend, acceptanceEligibility
    <3>3. DecisionIsPending'
      BY <2>4, <3>1, <3>2 DEF DecisionIsPending
    <3>4. QED
      BY <2>1, <2>4, <3>3 DEF QuotationInvariant, QuotationTyped, HashFollowsFigures,
         ApprovalStands, Answered
  <2>5. QED
    BY <2>2, <2>3, <2>4
<1>6. CASE BeginRejection
  <2>1. /\ UNCHANGED <<quotation, customer, approval>> /\ quotation.status = "SENT"
        /\ deciding'.to = "REJECTED" /\ deciding'.row = quotation
    BY <1>6 DEF BeginRejection
  <2>2. quotation.current \in Payload /\ quotation.current.figures = quotation.figures
    BY <1>t, <2>1 DEF QuotationTyped, HashFollowsFigures
  <2>3. DecisionIsPending'
    BY <1>t, <2>1, <2>2 DEF DecisionIsPending
  <2>4. QED
    BY <2>1, <2>3 DEF QuotationInvariant, QuotationTyped, HashFollowsFigures, ApprovalStands,
       Answered
<1>7. CASE AbandonDecision
  <2>1. UNCHANGED <<quotation, customer, approval>> /\ deciding' = None
    BY <1>7 DEF AbandonDecision
  <2>2. QED
    BY <2>1 DEF QuotationInvariant, QuotationTyped, HashFollowsFigures, ApprovalStands,
       Answered, DecisionIsPending
<1>8. CASE UNCHANGED <<quotation, customer, approval, deciding>>
  BY <1>8 DEF QuotationInvariant, QuotationTyped, HashFollowsFigures, ApprovalStands,
     Answered, DecisionIsPending
<1>9. QED
  BY <1>1, <1>2, <1>3, <1>4, <1>5, <1>6, <1>7, <1>8

LEMMA QuotationStep == QuotationInvariant /\ [QuotationNext]_quotationVars => QuotationInvariant'
<1> SUFFICES ASSUME QuotationInvariant, [QuotationNext]_quotationVars PROVE QuotationInvariant'
  OBVIOUS
<1>1. CASE \/ setLineQuantity \/ setLineDiscount \/ removeLine \/ addLine
           \/ setDeliveryFee \/ setPaymentTerms \/ setCustomer \/ setValidityDate
  BY <1>1, EditKeeps
<1>2. ASSUME NEW role \in Approvers, approve(role) \/ reject(role) PROVE QuotationInvariant'
  BY <1>2, ApprovalKeeps
<1>3. CASE markSent \/ RecordAnswer
  BY <1>3, CommitKeeps
<1>4. CASE \/ createFromInquiry \/ SetStanding \/ submitForApproval \/ cancelQuotation
           \/ BeginSend \/ BeginAcceptance \/ BeginRejection \/ AbandonDecision
           \/ UNCHANGED <<quotation, customer, approval, deciding>>
  BY <1>4, MovesKeep
<1>5. ASSUME NEW role \in Approvers, OpenApprovalForm(role) PROVE QuotationInvariant'
  BY <1>5, <1>4 DEF OpenApprovalForm
<1>6. CASE NextDay \/ Chasing \/ UNCHANGED quotationVars
  BY <1>6, <1>4 DEF NextDay, Chasing, BeginChase, completeFollowUp, snoozeFollowUp, AbandonChase
<1>7. QED
  BY <1>1, <1>2, <1>3, <1>4, <1>5, <1>6 DEF QuotationNext

LEMMA QuotationHolds == QuotationSpec => []QuotationInvariant
BY QuotationStarts, QuotationStep, PTL DEF QuotationSpec

\* Only markSent sends, and an answer is for good.
LEMMA StatusMoves ==
    ASSUME QuotationInvariant, [QuotationNext]_quotationVars, ~markSent
    PROVE  \/ quotation'.status = quotation.status
           \/ RecordAnswer /\ quotation.status = "SENT" /\ quotation'.status \in {"ACCEPTED", "REJECTED"}
           \/ /\ quotation.status \in {"NONE", "DRAFT", "PENDING_APPROVAL", "APPROVED"}
              /\ quotation'.status \in {"DRAFT", "PENDING_APPROVAL", "APPROVED", "CANCELLED"}
<1> DEFINE Goal ==
      \/ quotation'.status = quotation.status
      \/ RecordAnswer /\ quotation.status = "SENT" /\ quotation'.status \in {"ACCEPTED", "REJECTED"}
      \/ /\ quotation.status \in {"NONE", "DRAFT", "PENDING_APPROVAL", "APPROVED"}
         /\ quotation'.status \in {"DRAFT", "PENDING_APPROVAL", "APPROVED", "CANCELLED"}
<1>t. quotation \in QuotationRow
  BY DEF QuotationInvariant, QuotationTyped
<1>r. quotation.status # "NONE" =>
        recalculate(quotation) \in QuotationRow /\ recalculate(quotation).status = quotation.status
  BY RecalculatedRow DEF QuotationInvariant
<1>1. ASSUME NEW figures, mutate(figures) PROVE Goal
  <2> DEFINE edited == [quotation EXCEPT !.figures = figures]
             row    == [edited EXCEPT !.current = buildApprovalPayload(edited.figures)]
  <2>1. quotation' \in {row, [row EXCEPT !.status = "DRAFT", !.approved = None]}
    BY <1>1 DEF mutate, recalculate, Withdrawn
  <2>2. row.status = quotation.status /\ DOMAIN row = DOMAIN quotation
    BY <1>t DEF QuotationRow
  <2> HIDE DEF row
  <2>3. [row EXCEPT !.status = "DRAFT", !.approved = None].status = "DRAFT"
    BY <1>t, <2>2 DEF QuotationRow
  <2>4. QED
    BY <1>1, <2>1, <2>2, <2>3 DEF mutate, isEditable
<1>2. ASSUME NEW role \in Approvers, approve(role) \/ reject(role) PROVE Goal
  <2> DEFINE row == recalculate(quotation)
  <2>1. /\ quotation.status # "NONE"
        /\ \/ quotation' = row
           \/ quotation.status = "PENDING_APPROVAL" /\ quotation' = [row EXCEPT !.status = "DRAFT"]
           \/ /\ row.status = "PENDING_APPROVAL"
              /\ quotation' = [row EXCEPT !.status = "APPROVED", !.approved = row.current]
    BY <1>2 DEF approve, reject, LockFree, MayApprove, Signable
  <2>2. row \in QuotationRow /\ row.status = quotation.status
    BY <1>r, <2>1
  <2> HIDE DEF row
  <2>3. QED
    BY <2>1, <2>2 DEF QuotationRow
<1>3. createFromInquiry \/ cancelQuotation => Goal
  <2>1. createFromInquiry => quotation.status = "NONE" /\ quotation'.status = "DRAFT"
    BY DEF createFromInquiry
  <2>2. cancelQuotation => /\ quotation.status \in {"DRAFT", "PENDING_APPROVAL", "APPROVED"}
                           /\ quotation'.status = "CANCELLED"
    <3>1. SUFFICES ASSUME cancelQuotation
                   PROVE  /\ quotation.status \in {"DRAFT", "PENDING_APPROVAL", "APPROVED"}
                          /\ quotation'.status = "CANCELLED"
      OBVIOUS
    <3>2. "CANCELLED" \in QUOTATION_TRANSITIONS[quotation.status]
            /\ quotation.status \in DOMAIN QUOTATION_TRANSITIONS
      BY <1>t, <3>1 DEF cancelQuotation, QuotationRow
    <3>3. quotation.status \in {"DRAFT", "PENDING_APPROVAL", "APPROVED"}
      BY <3>2 DEF QUOTATION_TRANSITIONS
    <3>4. QED
      BY <1>t, <3>1, <3>3 DEF cancelQuotation, QuotationRow
  <2>3. QED
    BY <2>1, <2>2
<1>4. submitForApproval => Goal
  <2> DEFINE row == recalculate(quotation)
  <2>1. submitForApproval =>
          /\ quotation.status # "NONE"
          /\ \/ quotation' = row
             \/ /\ "PENDING_APPROVAL" \in QUOTATION_TRANSITIONS[row.status]
                /\ quotation' = [row EXCEPT !.status = "PENDING_APPROVAL"]
    BY DEF submitForApproval, LockFree, MaySubmit
  <2>2. quotation.status # "NONE" => row \in QuotationRow /\ row.status = quotation.status
    BY <1>r
  <2> HIDE DEF row
  <2>3. quotation.status # "NONE" /\ "PENDING_APPROVAL" \in QUOTATION_TRANSITIONS[row.status]
            => quotation.status = "DRAFT"
    BY <2>2 DEF QuotationRow, QUOTATION_TRANSITIONS
  <2>4. QED
    BY <2>1, <2>2, <2>3 DEF QuotationRow
<1>5. BeginSend \/ BeginAcceptance \/ BeginRejection \/ AbandonDecision => Goal
  BY <1>r DEF BeginSend, BeginAcceptance, BeginRejection, AbandonDecision, LockFree
<1>6. RecordAnswer => Goal
  <2>1. SUFFICES ASSUME RecordAnswer PROVE Goal
    OBVIOUS
  <2>2. deciding.to # "SENT"
    BY <2>1 DEF RecordAnswer
  <2>3. QED
    BY <2>1, <2>2, CommitKeeps
<1>7. UNCHANGED quotation => Goal
  OBVIOUS
<1> HIDE DEF Goal
<1>8. Goal
  <2>1. SetStanding \/ NextDay \/ Chasing \/ UNCHANGED quotationVars => UNCHANGED quotation
    BY DEF SetStanding, NextDay, Chasing, BeginChase, completeFollowUp, snoozeFollowUp, AbandonChase
  <2>2. \A role \in Approvers : OpenApprovalForm(role) => UNCHANGED quotation
    BY DEF OpenApprovalForm
  <2>3. \/ setLineQuantity \/ setLineDiscount \/ removeLine \/ addLine
        \/ setDeliveryFee \/ setPaymentTerms \/ setCustomer \/ setValidityDate
        => Goal
    BY <1>1 DEF setLineQuantity, setLineDiscount, removeLine, addLine,
                setDeliveryFee, setPaymentTerms, setCustomer, setValidityDate
  <2>4. QED
    BY <1>2, <1>3, <1>4, <1>5, <1>6, <1>7, <2>1, <2>2, <2>3 DEF QuotationNext
<1>9. QED
  BY <1>8 DEF Goal

-----------------------------------------------------------------------------
(* Chases                                                                  *)

UnderWay(f) == {r \in Chases : chase[r] # None /\ chase[r].followUp = f}

ChasesAreTyped ==
    /\ followUp \in [FollowUps -> FollowUpRow \cup {None}]
    /\ DOMAIN chase = Chases
    /\ \A r \in Chases : chase[r] # None => chase[r].followUp \in Scheduled
    /\ deciding # None => deciding.open \subseteq Scheduled

\* The rows form chains: one first row, and each other one after a row dealt with.
RowsAreChained ==
    /\ \A f \in Scheduled :
          /\ followUp[f].after \in Scheduled \cup {None}
          /\ followUp[f].sequence <= MaxFollowUpCount
    /\ \A f, g \in ScheduledAfter(None) : f = g /\ followUp[f].sequence = 1
    /\ \A f \in Scheduled : \A g \in ScheduledAfter(f) :
          /\ followUp[g].sequence = followUp[f].sequence + 1
          /\ followUp[f].status # "DUE"

\* A follow-up on which no two requests overlapped has no successor while it can still
\* be dealt with, and one at most after that.
SinglyChased(f) ==
    ~followUp[f].contested =>
        /\ \A q, r \in UnderWay(f) : q = r
        /\ followUp[f].status \in {"DUE", "SNOOZED"} \/ UnderWay(f) # {}
               => ScheduledAfter(f) = {}
        /\ \A g, h \in ScheduledAfter(f) : g = h

ChaseInvariant ==
    /\ ChasesAreTyped
    /\ RowsAreChained
    /\ \A f \in Scheduled : SinglyChased(f)
    /\ Scheduled # {} <=> Answered

LEMMA ChaseStarts == QuotationInit => ChaseInvariant
<1> SUFFICES ASSUME QuotationInit PROVE ChaseInvariant
  OBVIOUS
<1>1. Scheduled = {} /\ ScheduledAfter(None) = {}
  BY DEF QuotationInit, Scheduled, ScheduledAfter
<1>2. ChasesAreTyped
  BY DEF QuotationInit, ChasesAreTyped
<1>3. RowsAreChained
  BY <1>1 DEF RowsAreChained
<1>4. QED
  BY <1>1, <1>2, <1>3 DEF QuotationInit, ChaseInvariant, Answered

\* Rows of which at most the status and the memory of overlaps has moved.
Follows(rows) ==
    /\ rows \in [FollowUps -> FollowUpRow \cup {None}]
    /\ \A f \in FollowUps : followUp[f] = None => rows[f] = None
    /\ \A f \in Scheduled :
          /\ rows[f] \in FollowUpRow
          /\ rows[f].sequence = followUp[f].sequence /\ rows[f].after = followUp[f].after
          /\ rows[f].status = "DUE" => followUp[f].status = "DUE"

\* A step that schedules nothing moves no chain.
LEMMA DealtWith ==
    ASSUME RowsAreChained, Follows(followUp')
    PROVE  /\ Scheduled' = Scheduled
           /\ \A f : ScheduledAfter(f)' = ScheduledAfter(f)
           /\ RowsAreChained'
<1>1. Scheduled' = Scheduled
  BY NoneIsNoFollowUp DEF Follows, Scheduled
<1>2. \A f : ScheduledAfter(f)' = ScheduledAfter(f)
  BY <1>1 DEF Follows, ScheduledAfter
<1>3. \A f \in Scheduled : /\ followUp'[f].sequence = followUp[f].sequence
                           /\ followUp'[f].after = followUp[f].after
                           /\ followUp'[f].status = "DUE" => followUp[f].status = "DUE"
  BY DEF Follows
<1>4. \A f : ScheduledAfter(f) \subseteq Scheduled
  BY DEF ScheduledAfter
<1>5. RowsAreChained'
  BY <1>1, <1>2, <1>3, <1>4 DEF RowsAreChained
<1>6. QED
  BY <1>1, <1>2, <1>5

\* A new row comes after the one it was scheduled after, and nothing after it.
LEMMA ScheduledToo ==
    ASSUME ChasesAreTyped, RowsAreChained, NEW rows, Follows(rows), NEW sequence \in Nat \ {0},
           NEW after \in Scheduled \cup {None}, Schedule(rows, sequence, after)
    PROVE  \E new \in FollowUps :
              /\ followUp[new] = None /\ new \notin Scheduled
              /\ Scheduled' = Scheduled \cup {new}
              /\ followUp' \in [FollowUps -> FollowUpRow \cup {None}]
              /\ followUp'[new] = [sequence |-> sequence, status |-> "DUE", after |-> after,
                                   contested |-> FALSE]
              /\ \A f \in Scheduled : followUp'[f] = rows[f]
              /\ \A f : ScheduledAfter(f)'
                            = IF f = after THEN ScheduledAfter(f) \cup {new} ELSE ScheduledAfter(f)
              /\ ScheduledAfter(new) = {} /\ new # after
<1> DEFINE new == CHOOSE f \in {f \in FollowUps : rows[f] = None} : TRUE
           row == [sequence |-> sequence, status |-> "DUE", after |-> after, contested |-> FALSE]
<1>1. new \in FollowUps /\ rows[new] = None /\ followUp' = [rows EXCEPT ![new] = row]
  BY DEF Schedule
<1>2. after \in FollowUps \cup {None}
  BY DEF Scheduled
<1>3. row \in FollowUpRow /\ row # None /\ row.after = after
  <2>1. row \in FollowUpRow
    BY <1>2 DEF FollowUpRow, FollowUpStatuses
  <2>2. QED
    BY <2>1, NoneIsNoFollowUp
<1>4. rows \in [FollowUps -> FollowUpRow \cup {None}]
  BY DEF Follows
<1>5. new \notin Scheduled /\ followUp[new] = None
  <2>1. new \notin Scheduled
    BY <1>1, NoneIsNoFollowUp DEF Follows
  <2>2. QED
    BY <1>1, <2>1 DEF Scheduled
<1>n. new # after
  BY <1>1, <1>5, NoneIsNoFollowUp
<1> HIDE DEF new
<1>6. /\ followUp' \in [FollowUps -> FollowUpRow \cup {None}] /\ followUp'[new] = row
      /\ \A f \in FollowUps : f # new => followUp'[f] = rows[f]
  BY <1>1, <1>3, <1>4
<1>7. \A f \in FollowUps : f # new => (rows[f] # None <=> followUp[f] # None)
  BY <1>1, NoneIsNoFollowUp DEF Follows, Scheduled
<1> HIDE DEF row
<1>8. Scheduled' = Scheduled \cup {new}
  BY <1>1, <1>3, <1>6, <1>7 DEF Scheduled
<1>9. \A f \in Scheduled : followUp'[f] = rows[f] /\ rows[f].after = followUp[f].after
  BY <1>5, <1>6 DEF Follows, Scheduled
<1>10. \A f : ScheduledAfter(f)'
                  = IF f = after THEN ScheduledAfter(f) \cup {new} ELSE ScheduledAfter(f)
  BY <1>3, <1>6, <1>8, <1>9 DEF ScheduledAfter
<1>11. ScheduledAfter(new) = {}
  BY <1>1, <1>5, NoneIsNoFollowUp DEF RowsAreChained, ScheduledAfter
<1>12. QED
  BY <1>1, <1>5, <1>6, <1>8, <1>9, <1>10, <1>11, <1>n DEF row

\* A step that schedules nothing, and on nothing that can be dealt with again.
LEMMA ChasesKept ==
    ASSUME ChaseInvariant, Follows(followUp'),
           \A f \in Scheduled : UnderWay(f)' \subseteq UnderWay(f),
           \A f \in Scheduled :
              /\ followUp[f].contested => followUp'[f].contested
              /\ followUp'[f].status = "SNOOZED"
                     => followUp[f].status \in {"DUE", "SNOOZED"} \/ UnderWay(f) # {},
           Answered' <=> Answered, ChasesAreTyped'
    PROVE  ChaseInvariant'
<1>1. /\ Scheduled' = Scheduled
      /\ \A f : ScheduledAfter(f)' = ScheduledAfter(f)
      /\ RowsAreChained'
  BY DealtWith DEF ChaseInvariant
<1>2. ASSUME NEW f \in Scheduled PROVE SinglyChased(f)'
  <2>1. SinglyChased(f)
    BY DEF ChaseInvariant
  <2>2. SUFFICES ASSUME ~followUp'[f].contested
                 PROVE  /\ \A q, r \in UnderWay(f)' : q = r
                        /\ followUp'[f].status \in {"DUE", "SNOOZED"} \/ UnderWay(f)' # {}
                               => ScheduledAfter(f) = {}
                        /\ \A g, h \in ScheduledAfter(f) : g = h
    BY <1>1 DEF SinglyChased
  <2>3. followUp'[f].status \in {"DUE", "SNOOZED"}
            => followUp[f].status \in {"DUE", "SNOOZED"} \/ UnderWay(f) # {}
    BY DEF Follows
  <2>4. ~followUp[f].contested
    BY <2>2
  <2>5. UnderWay(f)' \subseteq UnderWay(f)
    OBVIOUS
  <2>6. QED
    BY <2>1, <2>3, <2>4, <2>5 DEF SinglyChased
<1>3. QED
  BY <1>1, <1>2 DEF ChaseInvariant

\* Nothing about a row but its status is touched.
LEMMA StatusFollows ==
    ASSUME ChasesAreTyped, NEW f \in Scheduled, NEW status \in FollowUpStatuses \ {"DUE"}
    PROVE  /\ Follows([followUp EXCEPT ![f].status = status])
           /\ [followUp EXCEPT ![f].status = status][f].status = status
           /\ \A g \in Scheduled :
                [followUp EXCEPT ![f].status = status][g].contested = followUp[g].contested
           /\ \A g \in Scheduled : g # f => [followUp EXCEPT ![f].status = status][g] = followUp[g]
<1> DEFINE row  == [followUp[f] EXCEPT !.status = status]
           rows == [followUp EXCEPT ![f].status = status]
<1>1. f \in FollowUps /\ followUp[f] \in FollowUpRow /\ followUp \in [FollowUps -> FollowUpRow \cup {None}]
  BY DEF ChasesAreTyped, Scheduled
<1>2. /\ row \in FollowUpRow /\ row.sequence = followUp[f].sequence /\ row.after = followUp[f].after
      /\ row.status = status /\ row.contested = followUp[f].contested
  BY <1>1 DEF FollowUpRow
<1>3. rows = [followUp EXCEPT ![f] = row]
  BY <1>1
<1> HIDE DEF row, rows
<1>4. rows[f] = row /\ \A g \in FollowUps : g # f => rows[g] = followUp[g]
  BY <1>1, <1>3
<1>5. rows \in [FollowUps -> FollowUpRow \cup {None}]
  BY <1>1, <1>2, <1>3
<1>6. \A g \in Scheduled : g \in FollowUps /\ followUp[g] \in FollowUpRow
  BY <1>1 DEF Scheduled
<1>7. Follows(rows)
  BY <1>2, <1>4, <1>5, <1>6, NoneIsNoFollowUp, <1>1 DEF Follows
<1>8. QED
  BY <1>2, <1>4, <1>6, <1>7 DEF rows

\* The request that begins remembers whether it overlaps another.
LEMMA BeginChaseKeeps ==
    ASSUME ChaseInvariant, NEW r \in Chases, BeginChase(r)
    PROVE  ChaseInvariant'
<1>t. ChasesAreTyped /\ RowsAreChained /\ UNCHANGED <<quotation, deciding>>
  BY DEF ChaseInvariant, BeginChase
<1>1. PICK f \in Scheduled, to \in {"COMPLETED", "SNOOZED"} :
        /\ canTransition(f, to)
        /\ chase' = [chase EXCEPT ![r] = [followUp |-> f, to |-> to,
                                          sent |-> quotation.status = "SENT"]]
        /\ followUp' = [followUp EXCEPT ![f].contested =
                            @ \/ \E q \in Chases : chase[q] # None /\ chase[q].followUp = f]
  BY DEF BeginChase
<1>2. chase[r] = None
  BY DEF BeginChase
<1> DEFINE overlaps == followUp[f].contested \/ UnderWay(f) # {}
           row == [followUp[f] EXCEPT !.contested = overlaps]
<1>3. f \in FollowUps /\ followUp[f] \in FollowUpRow /\ followUp \in [FollowUps -> FollowUpRow \cup {None}]
  BY <1>t DEF ChasesAreTyped, Scheduled
<1>4. overlaps \in BOOLEAN
  BY <1>3 DEF FollowUpRow
<1>5. followUp' = [followUp EXCEPT ![f] = row]
  <2>1. (followUp[f].contested \/ \E q \in Chases : chase[q] # None /\ chase[q].followUp = f) = overlaps
    BY <1>3 DEF UnderWay, FollowUpRow
  <2>2. QED
    BY <1>1, <1>3, <2>1
<1> HIDE DEF overlaps
<1>6. /\ row \in FollowUpRow /\ row.sequence = followUp[f].sequence /\ row.after = followUp[f].after
      /\ row.status = followUp[f].status /\ row.contested = overlaps
  BY <1>3, <1>4 DEF FollowUpRow
<1> HIDE DEF row
<1>7. followUp'[f] = row /\ \A g \in FollowUps : g # f => followUp'[g] = followUp[g]
  BY <1>3, <1>5
<1>8. \A g \in Scheduled : g \in FollowUps /\ followUp[g] \in FollowUpRow
  BY <1>3 DEF Scheduled
<1>9. Follows(followUp')
  <2>1. followUp' \in [FollowUps -> FollowUpRow \cup {None}]
    BY <1>3, <1>5, <1>6
  <2>2. QED
    BY <1>3, <1>6, <1>7, <1>8, <2>1, NoneIsNoFollowUp DEF Follows
<1>10. /\ Scheduled' = Scheduled
       /\ \A g : ScheduledAfter(g)' = ScheduledAfter(g)
       /\ RowsAreChained'
  BY <1>t, <1>9, DealtWith
<1>11. /\ DOMAIN chase' = Chases /\ chase'[r] = [followUp |-> f, to |-> to,
                                                 sent |-> quotation.status = "SENT"]
       /\ \A q \in Chases : q # r => chase'[q] = chase[q]
  BY <1>1, <1>t DEF ChasesAreTyped
<1>12. ChasesAreTyped'
  BY <1>t, <1>9, <1>10, <1>11 DEF ChasesAreTyped, Follows
<1>13. /\ UnderWay(f)' \subseteq UnderWay(f) \cup {r}
       /\ \A g : g # f => UnderWay(g)' = UnderWay(g)
  BY <1>2, <1>11 DEF UnderWay
<1>14. ASSUME NEW g \in Scheduled PROVE SinglyChased(g)'
  <2>1. SinglyChased(g)
    BY DEF ChaseInvariant
  <2>2. CASE g # f
    <3>1. followUp'[g] = followUp[g]
      BY <1>7, <1>8, <2>2
    <3>2. QED
      BY <1>10, <1>13, <2>1, <2>2, <3>1 DEF SinglyChased
  <2>3. CASE g = f
    <3>1. SUFFICES ASSUME ~overlaps PROVE SinglyChased(f)'
      BY <1>6, <1>7, <2>3 DEF SinglyChased
    <3>2. UnderWay(f) = {} /\ ~followUp[f].contested
      BY <3>1 DEF overlaps
    <3>3. followUp[f].status \in {"DUE", "SNOOZED"}
      BY <1>1, <1>3 DEF canTransition, FOLLOW_UP_TRANSITIONS, FollowUpRow, FollowUpStatuses
    <3>4. ScheduledAfter(f) = {}
      BY <2>1, <2>3, <3>2, <3>3 DEF SinglyChased
    <3>5. \A q, s \in UnderWay(f)' : q = s
      BY <1>13, <3>2
    <3>6. QED
      BY <1>10, <3>4, <3>5 DEF SinglyChased
  <2>4. QED
    BY <2>2, <2>3
<1>15. Answered' <=> Answered
  BY <1>t DEF Answered
<1>16. QED
  BY <1>10, <1>12, <1>14, <1>15 DEF ChaseInvariant

\* A completion or a snooze of what was read, or neither.
LEMMA EndChaseKeeps ==
    ASSUME ChaseInvariant, NEW r \in Chases,
           completeFollowUp(r) \/ snoozeFollowUp(r) \/ AbandonChase(r)
    PROVE  ChaseInvariant'
<1>t. ChasesAreTyped /\ RowsAreChained /\ UNCHANGED <<quotation, deciding>>
  BY DEF ChaseInvariant, completeFollowUp, snoozeFollowUp, AbandonChase
<1>1. chase[r] # None /\ chase' = [chase EXCEPT ![r] = None]
  BY DEF completeFollowUp, snoozeFollowUp, AbandonChase
<1>f. PICK f : f = chase[r].followUp
  OBVIOUS
<1>2. f \in Scheduled
  BY <1>1, <1>t, <1>f DEF ChasesAreTyped
<1>3. DOMAIN chase' = Chases /\ chase'[r] = None /\ \A q \in Chases : q # r => chase'[q] = chase[q]
  BY <1>1, <1>t DEF ChasesAreTyped
<1>4. r \in UnderWay(f) /\ UnderWay(f)' = UnderWay(f) \ {r} /\ \A g : UnderWay(g)' \subseteq UnderWay(g)
  <2>1. r \in UnderWay(f)
    BY <1>1, <1>f DEF UnderWay
  <2>2. UnderWay(f)' = UnderWay(f) \ {r}
    BY <1>3 DEF UnderWay
  <2>3. \A g : UnderWay(g)' \subseteq UnderWay(g)
    BY <1>3 DEF UnderWay
  <2>4. QED
    BY <2>1, <2>2, <2>3
<1>5. Answered' <=> Answered
  BY <1>t DEF Answered
<1>6. \/ UNCHANGED followUp
      \/ followUp' = [followUp EXCEPT ![f].status = "COMPLETED"]
      \/ followUp' = [followUp EXCEPT ![f].status = "SNOOZED"]
      \/ /\ mayScheduleAnother(followUp[f].sequence)
         /\ Schedule([followUp EXCEPT ![f].status = "COMPLETED"], followUp[f].sequence + 1, f)
  BY <1>f DEF completeFollowUp, snoozeFollowUp, AbandonChase
<1>7. CASE UNCHANGED followUp
  <2>1. Follows(followUp')
    BY <1>7, <1>t DEF ChasesAreTyped, Follows, Scheduled
  <2>2. ChasesAreTyped'
    BY <1>7, <1>t, <1>3 DEF ChasesAreTyped, Scheduled
  <2>3. QED
    BY <1>4, <1>5, <1>7, <2>1, <2>2, ChasesKept
<1>8. ASSUME NEW status \in {"COMPLETED", "SNOOZED"}, followUp' = [followUp EXCEPT ![f].status = status]
      PROVE  ChaseInvariant'
  <2>1. status \in FollowUpStatuses \ {"DUE"}
    BY DEF FollowUpStatuses
  <2>2. /\ Follows(followUp')
        /\ \A g \in Scheduled : followUp'[g].contested = followUp[g].contested
        /\ \A g \in Scheduled : g # f => followUp'[g] = followUp[g]
    <3> DEFINE rows == [followUp EXCEPT ![f].status = status]
    <3>1. /\ Follows(rows)
          /\ \A g \in Scheduled : rows[g].contested = followUp[g].contested
          /\ \A g \in Scheduled : g # f => rows[g] = followUp[g]
      BY <1>t, <1>2, <2>1, StatusFollows
    <3>2. followUp' = rows
      BY <1>8
    <3> HIDE DEF rows
    <3>3. QED
      BY <3>1, <3>2, Zenon
  <2>3. Scheduled' = Scheduled
    BY <1>t, <2>2, DealtWith
  <2>4. ChasesAreTyped'
    BY <1>t, <1>3, <2>2, <2>3 DEF ChasesAreTyped, Follows
  <2>5. \A g \in Scheduled :
          followUp'[g].status = "SNOOZED"
              => followUp[g].status \in {"DUE", "SNOOZED"} \/ UnderWay(g) # {}
    BY <1>4, <2>2
  <2>6. QED
    BY <1>4, <1>5, <2>2, <2>4, <2>5, ChasesKept
<1>9. CASE /\ mayScheduleAnother(followUp[f].sequence)
           /\ Schedule([followUp EXCEPT ![f].status = "COMPLETED"], followUp[f].sequence + 1, f)
  <2> DEFINE rows == [followUp EXCEPT ![f].status = "COMPLETED"]
             k == followUp[f].sequence
  <2>1. "COMPLETED" \in FollowUpStatuses \ {"DUE"}
    BY DEF FollowUpStatuses
  <2>2. /\ Follows(rows) /\ rows[f].status = "COMPLETED"
        /\ \A g \in Scheduled : rows[g].contested = followUp[g].contested
        /\ \A g \in Scheduled : g # f => rows[g] = followUp[g]
    BY <1>t, <1>2, <2>1, StatusFollows
  <2>3. k \in Nat \ {0} /\ k + 1 \in Nat \ {0} /\ k + 1 <= MaxFollowUpCount
    <3>1. followUp[f] \in FollowUpRow
      BY <1>t, <1>2 DEF ChasesAreTyped, Scheduled
    <3>2. k \in Nat \ {0} /\ k < MaxFollowUpCount
      BY <3>1, <1>9 DEF FollowUpRow, mayScheduleAnother
    <3>3. QED
      BY <3>2, SomebodyIsChased
  <2>4. Schedule(rows, k + 1, f)
    BY <1>9
  <2> HIDE DEF rows
  <2>5. PICK new \in FollowUps :
              /\ followUp[new] = None /\ new \notin Scheduled
              /\ Scheduled' = Scheduled \cup {new}
              /\ followUp' \in [FollowUps -> FollowUpRow \cup {None}]
              /\ followUp'[new] = [sequence |-> k + 1, status |-> "DUE", after |-> f,
                                   contested |-> FALSE]
              /\ \A g \in Scheduled : followUp'[g] = rows[g]
              /\ \A g : ScheduledAfter(g)'
                            = IF g = f THEN ScheduledAfter(g) \cup {new} ELSE ScheduledAfter(g)
              /\ ScheduledAfter(new) = {} /\ new # f
    <3> HIDE DEF k
    <3>1. k + 1 \in Nat \ {0} /\ f \in Scheduled \cup {None} /\ RowsAreChained /\ ChasesAreTyped
            /\ Follows(rows) /\ Schedule(rows, k + 1, f)
      BY <1>t, <1>2, <2>2, <2>3, <2>4
    <3>2. QED
      BY <3>1, ScheduledToo
  <2>6. followUp'[new].sequence = k + 1 /\ followUp'[new].status = "DUE" /\ followUp'[new].after = f
    BY <2>5
  <2>7. \A g \in Scheduled : /\ followUp'[g].sequence = followUp[g].sequence
                             /\ followUp'[g].after = followUp[g].after
                             /\ followUp'[g].status = "DUE" => followUp[g].status = "DUE"
                             /\ followUp'[g].contested = followUp[g].contested
    BY <2>2, <2>5 DEF Follows
  <2>8. followUp'[f].status = "COMPLETED"
    BY <1>2, <2>2, <2>5
  <2>n. None \notin FollowUps /\ f # None
    BY <1>2, NoneIsNoFollowUp DEF Scheduled
  <2>9. RowsAreChained'
    <3>1. \A g \in Scheduled' : followUp'[g].after \in Scheduled' \cup {None}
                                  /\ followUp'[g].sequence <= MaxFollowUpCount
      BY <1>t, <1>2, <2>3, <2>5, <2>6, <2>7 DEF RowsAreChained
    <3>2. \A g, h \in ScheduledAfter(None)' : g = h /\ followUp'[g].sequence = 1
      <4>1. ScheduledAfter(None)' = ScheduledAfter(None) /\ ScheduledAfter(None) \subseteq Scheduled
        BY <2>5, <2>n DEF ScheduledAfter
      <4>2. QED
        BY <1>t, <2>7, <4>1 DEF RowsAreChained
    <3>3. ASSUME NEW g \in Scheduled', NEW h \in ScheduledAfter(g)'
          PROVE  followUp'[h].sequence = followUp'[g].sequence + 1 /\ followUp'[g].status # "DUE"
      <4>1. CASE h = new
        <5>1. g = f
          BY <2>5, <4>1 DEF ScheduledAfter
        <5>2. QED
          BY <1>2, <2>6, <2>7, <2>8, <4>1, <5>1
      <4>2. CASE h # new
        <5>1. h \in ScheduledAfter(g) /\ h \in Scheduled /\ g # new
          BY <2>5, <4>2 DEF ScheduledAfter
        <5>2. g \in Scheduled
          BY <2>5, <5>1
        <5>3. QED
          BY <1>t, <2>7, <5>1, <5>2 DEF RowsAreChained
      <4>3. QED
        BY <4>1, <4>2
    <3>4. QED
      BY <3>1, <3>2, <3>3 DEF RowsAreChained
  <2>10. ASSUME NEW g \in Scheduled' PROVE SinglyChased(g)'
    <3>1. CASE g = new
      <4>1. ScheduledAfter(new)' = {}
        BY <2>5
      <4>2. UnderWay(new) = {}
        BY <1>t, <2>5 DEF ChasesAreTyped, UnderWay
      <4>3. UnderWay(new)' = {}
        BY <1>4, <4>2
      <4>4. SinglyChased(new)'
        BY <4>1, <4>3 DEF SinglyChased
      <4>5. QED
        BY <3>1, <4>4
    <3>2. CASE g = f
      <4>1. SUFFICES ASSUME ~followUp[f].contested PROVE SinglyChased(f)'
        BY <1>2, <2>7, <3>2 DEF SinglyChased
      <4>2. SinglyChased(f)
        BY <1>2 DEF ChaseInvariant
      <4>3. ScheduledAfter(f) = {} /\ \A q, s \in UnderWay(f) : q = s
        BY <1>4, <4>1, <4>2 DEF SinglyChased
      <4>4. UnderWay(f)' = {}
        BY <1>4, <4>3
      <4>5. ScheduledAfter(f)' = {new}
        BY <2>5, <4>3
      <4>6. QED
        BY <2>8, <4>4, <4>5 DEF SinglyChased
    <3>3. CASE g # new /\ g # f
      <4>1. g \in Scheduled /\ ScheduledAfter(g)' = ScheduledAfter(g) /\ followUp'[g] = followUp[g]
        BY <2>2, <2>5, <3>3
      <4>2. SinglyChased(g) /\ UnderWay(g)' \subseteq UnderWay(g)
        BY <1>4, <4>1 DEF ChaseInvariant
      <4>3. QED
        BY <4>1, <4>2 DEF SinglyChased
    <3>4. QED
      BY <3>1, <3>2, <3>3
  <2>11. ChasesAreTyped'
    BY <1>t, <1>3, <2>5 DEF ChasesAreTyped
  <2>12. Answered' /\ Scheduled' # {}
    BY <1>2, <1>5, <2>5 DEF ChaseInvariant
  <2>13. QED
    BY <2>9, <2>10, <2>11, <2>12 DEF ChaseInvariant
<1>10. QED
  BY <1>6, <1>7, <1>8, <1>9

\* Sending schedules the first follow-up: there was none before.
LEMMA SendingSchedules ==
    ASSUME QuotationInvariant, ChaseInvariant, markSent
    PROVE  ChaseInvariant'
<1>t. ChasesAreTyped /\ RowsAreChained /\ deciding' = None /\ UNCHANGED chase
  BY DEF ChaseInvariant, markSent
<1>1. Scheduled = {} /\ Schedule(followUp, 1, None) /\ deciding.to = "SENT"
  BY DEF markSent, scheduleFirstFollowUp
<1>2. Answered'
  BY <1>1, CommitKeeps DEF Answered
<1>3. Follows(followUp)
  BY <1>t, <1>1 DEF ChasesAreTyped, Follows
<1>4. 1 \in Nat \ {0} /\ None \in Scheduled \cup {None}
  OBVIOUS
<1>5. PICK new \in FollowUps :
              /\ followUp[new] = None /\ new \notin Scheduled
              /\ Scheduled' = Scheduled \cup {new}
              /\ followUp' \in [FollowUps -> FollowUpRow \cup {None}]
              /\ followUp'[new] = [sequence |-> 1, status |-> "DUE", after |-> None,
                                   contested |-> FALSE]
              /\ \A g \in Scheduled : followUp'[g] = followUp[g]
              /\ \A g : ScheduledAfter(g)'
                            = IF g = None THEN ScheduledAfter(g) \cup {new} ELSE ScheduledAfter(g)
              /\ ScheduledAfter(new) = {} /\ new # None
  BY <1>t, <1>1, <1>3, <1>4, ScheduledToo
<1>6. Scheduled' = {new} /\ followUp'[new].sequence = 1 /\ followUp'[new].after = None
  BY <1>1, <1>5
<1>7. ScheduledAfter(new)' = {} /\ ScheduledAfter(None)' = {new}
  <2>1. ScheduledAfter(None) = {}
    BY <1>1 DEF ScheduledAfter
  <2>2. QED
    BY <1>5, <2>1
<1>8. UnderWay(new)' = {}
  BY <1>t, <1>1 DEF ChasesAreTyped, UnderWay
<1>9. 1 <= MaxFollowUpCount
  BY SomebodyIsChased
<1>10. RowsAreChained'
  BY <1>6, <1>7, <1>9 DEF RowsAreChained
<1>11. SinglyChased(new)'
  BY <1>7, <1>8 DEF SinglyChased
<1>12. ChasesAreTyped'
  BY <1>t, <1>1, <1>5 DEF ChasesAreTyped
<1>13. QED
  BY <1>2, <1>6, <1>10, <1>11, <1>12 DEF ChaseInvariant

\* An answer cancels rows that were open when they were read.
LEMMA AnswerCancels ==
    ASSUME QuotationInvariant, ChaseInvariant, RecordAnswer
    PROVE  ChaseInvariant'
<1>t. ChasesAreTyped /\ deciding' = None /\ UNCHANGED chase /\ deciding # None
  BY DEF ChaseInvariant, RecordAnswer, Locked
<1> DEFINE open == deciding.open
           cancelled(f) == [followUp[f] EXCEPT !.status = "CANCELLED"]
<1>1. /\ open \subseteq Scheduled
      /\ followUp' = [f \in FollowUps |-> IF f \in open THEN cancelled(f) ELSE followUp[f]]
  BY <1>t DEF RecordAnswer, cancelOpenFollowUps, ChasesAreTyped
<1>2. \A f \in Scheduled : f \in FollowUps /\ followUp[f] \in FollowUpRow
  BY <1>t DEF ChasesAreTyped, Scheduled
<1>3. \A f \in Scheduled :
        /\ cancelled(f) \in FollowUpRow /\ cancelled(f).sequence = followUp[f].sequence
        /\ cancelled(f).after = followUp[f].after /\ cancelled(f).status = "CANCELLED"
        /\ cancelled(f).contested = followUp[f].contested
  BY <1>2 DEF FollowUpRow, FollowUpStatuses
<1> HIDE DEF open, cancelled
<1>4. \A f \in FollowUps : \/ f \in open /\ f \in Scheduled /\ followUp'[f] = cancelled(f)
                           \/ followUp'[f] = followUp[f]
  BY <1>1
<1>5. followUp' \in [FollowUps -> FollowUpRow \cup {None}]
  BY <1>t, <1>1, <1>3 DEF ChasesAreTyped
<1>6. Follows(followUp')
  BY <1>2, <1>3, <1>4, <1>5 DEF Follows, Scheduled
<1>7. \A f \in Scheduled :
        /\ followUp[f].contested => followUp'[f].contested
        /\ followUp'[f].status = "SNOOZED" => followUp[f].status \in {"DUE", "SNOOZED"}
  BY <1>2, <1>3, <1>4
<1>8. UNCHANGED Scheduled
  BY <1>6, DealtWith DEF ChaseInvariant
<1>9. ChasesAreTyped'
  BY <1>t, <1>5, <1>8 DEF ChasesAreTyped
<1>10. Answered /\ Answered'
  <2>1. deciding.to # "SENT"
    BY DEF RecordAnswer
  <2>2. QED
    BY <2>1, CommitKeeps DEF Answered
<1>11. \A f \in Scheduled : UnderWay(f)' \subseteq UnderWay(f)
  BY <1>t DEF UnderWay
<1>12. QED
  BY <1>6, <1>7, <1>9, <1>10, <1>11, ChasesKept

LEMMA ChaseStep ==
    ASSUME QuotationInvariant, ChaseInvariant, [QuotationNext]_quotationVars
    PROVE  ChaseInvariant'
<1>1. CASE Chasing
  BY <1>1, BeginChaseKeeps, EndChaseKeeps DEF Chasing
<1>2. CASE markSent
  BY <1>2, SendingSchedules
<1>3. CASE RecordAnswer
  BY <1>3, AnswerCancels
<1>4. CASE ~Chasing /\ ~markSent /\ ~RecordAnswer
  <2>1. UNCHANGED <<followUp, chase>>
          /\ (deciding' \in {deciding, None} \/ deciding'.open \in {Open, {}})
    <3>1. ASSUME NEW role \in Approvers, OpenApprovalForm(role) \/ approve(role) \/ reject(role)
          PROVE  UNCHANGED <<followUp, chase, deciding>>
      BY <3>1 DEF OpenApprovalForm, approve, reject
    <3>2. ASSUME NEW figures, mutate(figures) PROVE UNCHANGED <<followUp, chase, deciding>>
      BY <3>2 DEF mutate
    <3>3. \/ setLineQuantity \/ setLineDiscount \/ removeLine \/ addLine
          \/ setDeliveryFee \/ setPaymentTerms \/ setCustomer \/ setValidityDate
          => UNCHANGED <<followUp, chase, deciding>>
      BY <3>2 DEF setLineQuantity, setLineDiscount, removeLine, addLine, setDeliveryFee,
                  setPaymentTerms, setCustomer, setValidityDate
    <3>4. createFromInquiry \/ SetStanding \/ submitForApproval \/ cancelQuotation \/ NextDay
          => UNCHANGED <<followUp, chase, deciding>>
      BY DEF createFromInquiry, SetStanding, submitForApproval, cancelQuotation, NextDay
    <3>5. BeginSend \/ BeginAcceptance \/ BeginRejection \/ AbandonDecision
          => UNCHANGED <<followUp, chase>>
                 /\ (deciding' \in {deciding, None} \/ deciding'.open \in {Open, {}})
      BY DEF BeginSend, BeginAcceptance, BeginRejection, AbandonDecision
    <3>6. UNCHANGED quotationVars => UNCHANGED <<followUp, chase, deciding>>
      OBVIOUS
    <3>7. QED
      BY <1>4, <3>1, <3>3, <3>4, <3>5, <3>6 DEF QuotationNext
  <2>2. Answered' <=> Answered
    BY <1>4, StatusMoves DEF Answered
  <2>3. ChasesAreTyped'
    BY <2>1 DEF ChaseInvariant, ChasesAreTyped, Scheduled, Open
  <2>4. Follows(followUp')
    BY <2>1 DEF ChaseInvariant, ChasesAreTyped, Follows, Scheduled
  <2>5. \A f : UnderWay(f)' = UnderWay(f)
    BY <2>1 DEF UnderWay
  <2>6. QED
    BY <2>1, <2>2, <2>3, <2>4, <2>5, ChasesKept
<1>5. QED
  BY <1>1, <1>2, <1>3, <1>4

LEMMA ChasesHold == QuotationSpec => [](QuotationInvariant /\ ChaseInvariant)
<1>1. QuotationInvariant /\ ChaseInvariant /\ [QuotationNext]_quotationVars
          => (QuotationInvariant /\ ChaseInvariant)'
  BY QuotationStep, ChaseStep
<1>2. QED
  BY <1>1, QuotationStarts, ChaseStarts, PTL DEF QuotationSpec

-----------------------------------------------------------------------------
(* Access                                                                  *)

\* Whoever acts, or acted, was of a role with the permission that the act asks for.
AccessInvariant ==
    /\ AccessTypeOK
    /\ matter \in SeparatedActs
    /\ DOMAIN login = Logins /\ DOMAIN session = Sessions /\ DOMAIN request = Requests
    /\ \A l \in Logins : login[l] # Nobody => login[l].user \in Users
    /\ \A q \in Requests : request[q] # Nobody =>
          request[q].act \in matter /\ request[q].role \in ROLES
              /\ can(request[q].role, requirePermission[request[q].act])
    /\ DOMAIN done = matter
    /\ \A act \in matter : done[act] # Nobody =>
          done[act].role \in ROLES /\ can(done[act].role, requirePermission[act])

\* The matrix: no role but the owner's has the permissions of both acts.
LEMMA NoRoleDoesBoth ==
    ASSUME NEW pair \in SeparatedActs, NEW a \in pair, NEW b \in pair, a # b,
           NEW role \in ROLES, can(role, requirePermission[a]), can(role, requirePermission[b])
    PROVE  role = "OWNER_ADMIN"
<1>1. /\ requirePermission["submitPaymentAction"] = "submit:payment-evidence"
      /\ requirePermission["confirmAction"] = "confirm:payment"
      /\ requirePermission["reportAction"] = "report:inventory-discrepancy"
      /\ requirePermission["reconcileAction"] = "resolve:inventory-discrepancy"
      /\ requirePermission["completeTaskAction"] = "complete:warehouse-task"
      /\ requirePermission["completeAction"] = "complete:delivery"
      /\ requirePermission["editQuotationAction"] = "edit:quotation"
      /\ requirePermission["adjustStockAction"] = "adjust:stock"
      /\ requirePermission["createProductAction"] = "write:product"
      /\ requirePermission["reduceReservationAction"] = "resolve:reservation-shortfall"
      /\ requirePermission["returnAction"] = "create:return"
      /\ requirePermission["completeReturnAction"] = "complete:return"
  BY ZenonT(40) DEF requirePermission, Joined, salesActions, orderActions, paymentActions, warehouseActions,
     deliveryActions, exceptionActions, catalogueActions, customerActions, inquiryActions,
     followUpActions
<1>2. QED
  BY <1>1 DEF SeparatedActs, can, ROLES, ROLE_PERMISSIONS, Managing, Selling, SALES_READS, Finance,
     Warehouse

LEMMA AccessStarts == AccessInit => AccessInvariant
BY NobodyIsNobody DEF AccessInit, AccessInvariant, AccessTypeOK

LEMMA AccessStep == AccessInvariant /\ [AccessNext]_accessVars => AccessInvariant'
<1> SUFFICES ASSUME AccessInvariant, [AccessNext]_accessVars PROVE AccessInvariant'
  OBVIOUS
<1>t. /\ AccessTypeOK
      /\ DOMAIN login = Logins /\ DOMAIN session = Sessions /\ DOMAIN request = Requests
  BY DEF AccessInvariant
<1>l. Limit \in Nat /\ 0 \in 0..Limit
  BY NobodyIsNobody
<1>1. ASSUME NEW u \in Users, forget(u) PROVE AccessInvariant'
  <2>1. window' \in [Users -> 0..Limit]
    BY <1>1, <1>t, <1>l DEF forget, AccessTypeOK
  <2>2. QED
    BY <1>1, <2>1 DEF forget, AccessInvariant, AccessTypeOK
<1>2. ASSUME NEW u \in Users, administer(u) PROVE AccessInvariant'
  <2>1. member' \in [Users -> Staffed \cup {Nobody}] /\ active' \subseteq Users
    BY <1>2, <1>t DEF administer, AccessTypeOK
  <2>2. QED
    BY <1>2, <2>1 DEF administer, AccessInvariant, AccessTypeOK
<1>3. ASSUME NEW u \in Users, NEW l \in Logins, signIn(l, u) PROVE AccessInvariant'
  <2>1. window' \in [Users -> 0..Limit]
    <3>1. window \in [Users -> 0..Limit] /\ window[u] < Limit
      BY <1>3, <1>t DEF signIn, consume, AccessTypeOK
    <3>2. window[u] + 1 \in 0..Limit
      BY <1>l, <3>1
    <3>3. QED
      BY <1>3, <3>1, <3>2 DEF signIn, consume
  <2>2. DOMAIN login' = Logins /\ \A k \in Logins : login'[k] # Nobody => login'[k].user \in Users
    <3>1. PICK right \in BOOLEAN :
              login' = [login EXCEPT ![l] = [user |-> u, right |-> right,
                                             role |-> IF u \in active THEN member[u] ELSE Nobody]]
      BY <1>3 DEF signIn
    <3>2. \A k \in Logins : login'[k] = login[k] \/ login'[k].user = u
      BY <1>t, <3>1
    <3>3. QED
      BY <1>t, <3>1, <3>2 DEF AccessInvariant
  <2>3. QED
    BY <1>3, <2>1, <2>2 DEF signIn, AccessInvariant, AccessTypeOK
<1>4. ASSUME NEW l \in Logins, refuseLogin(l) PROVE AccessInvariant'
  BY <1>4, <1>t DEF refuseLogin, AccessInvariant, AccessTypeOK
<1>5. ASSUME NEW l \in Logins, acceptLogin(l) PROVE AccessInvariant'
  <2>1. login[l].user \in Users
    BY <1>5 DEF acceptLogin, AccessInvariant
  <2>2. window' \in [Users -> 0..Limit]
    BY <1>5, <1>t, <1>l DEF acceptLogin, AccessTypeOK
  <2>3. PICK s \in Sessions :
          session' = [session EXCEPT ![s] = [user |-> login[l].user, role |-> login[l].role,
                                             live |-> TRUE]]
    BY <1>5 DEF acceptLogin
  <2>4. DOMAIN session' = Sessions
          /\ \A z \in Sessions : session'[z] = Nobody \/ session'[z].user \in Users
    BY <1>t, <2>1, <2>3 DEF AccessTypeOK
  <2>5. DOMAIN login' = Logins /\ \A k \in Logins : login'[k] # Nobody => login'[k].user \in Users
    BY <1>5, <1>t DEF acceptLogin, AccessInvariant
  <2>6. QED
    BY <1>5, <2>2, <2>4, <2>5 DEF acceptLogin, AccessInvariant, AccessTypeOK
<1>6. ASSUME NEW s \in Sessions, revokeSession(s) PROVE AccessInvariant'
  <2>1. DOMAIN session' = Sessions
          /\ \A z \in Sessions : session'[z] = Nobody \/ session'[z].user \in Users
    <3>1. session[s] # Nobody /\ session' = [session EXCEPT ![s] = [session[s] EXCEPT !.live = FALSE]]
      BY <1>6 DEF revokeSession
    <3>2. [session[s] EXCEPT !.live = FALSE].user = session[s].user
      OBVIOUS
    <3>3. QED
      BY <1>t, <3>1, <3>2 DEF AccessTypeOK
  <2>2. QED
    BY <1>6, <2>1 DEF revokeSession, AccessInvariant, AccessTypeOK
<1>7. ASSUME NEW s \in Sessions, NEW q \in Requests, beginAction(q, s) PROVE AccessInvariant'
  <2>1. resolveSession(s) \in ROLES
    BY <1>7, <1>t, StaffHasARole DEF beginAction, resolveSession, AccessTypeOK
  <2>2. PICK act \in matter :
          /\ can(resolveSession(s), requirePermission[act])
          /\ request' = [request EXCEPT ![q] = [user |-> session[s].user, act |-> act,
                                                role |-> resolveSession(s)]]
    BY <1>7 DEF beginAction
  <2>3. /\ request'[q].act = act /\ request'[q].role = resolveSession(s)
        /\ DOMAIN request' = Requests
        /\ \A k \in Requests : k # q => request'[k] = request[k]
    BY <1>t, <2>2
  <2>4. \A k \in Requests : request'[k] # Nobody =>
          request'[k].act \in matter /\ request'[k].role \in ROLES
              /\ can(request'[k].role, requirePermission[request'[k].act])
    BY <2>1, <2>2, <2>3 DEF AccessInvariant
  <2>5. QED
    BY <1>7, <2>3, <2>4 DEF beginAction, AccessInvariant, AccessTypeOK
<1>8. ASSUME NEW q \in Requests, performAction(q) PROVE AccessInvariant'
  <2>1. /\ request[q].act \in matter /\ request[q].role \in ROLES
        /\ can(request[q].role, requirePermission[request[q].act])
    BY <1>8 DEF performAction, AccessInvariant
  <2>2. DOMAIN done' = matter /\ \A act \in matter : done'[act] # Nobody =>
          done'[act].role \in ROLES /\ can(done'[act].role, requirePermission[act])
    <3>1. done' = [done EXCEPT ![request[q].act] =
                      [user |-> request[q].user, role |-> request[q].role]]
      BY <1>8 DEF performAction
    <3>2. \A act \in matter : \/ done'[act] = done[act]
                              \/ act = request[q].act /\ done'[act].role = request[q].role
      BY <3>1 DEF AccessInvariant
    <3>3. QED
      BY <2>1, <3>1, <3>2 DEF AccessInvariant
  <2>3. QED
    BY <1>8, <1>t, <2>2 DEF performAction, AccessInvariant, AccessTypeOK
<1>9. CASE UNCHANGED accessVars
  BY <1>9 DEF AccessInvariant, AccessTypeOK
<1>10. QED
  BY <1>1, <1>2, <1>3, <1>4, <1>5, <1>6, <1>7, <1>8, <1>9 DEF AccessNext

LEMMA AccessHolds == AccessSpec => []AccessInvariant
BY AccessStarts, AccessStep, PTL DEF AccessSpec

-----------------------------------------------------------------------------
(* The front office                                                        *)

\* The desks share no state: a behaviour of the front office is one of each desk.
LEMMA DesksAreApart == Spec => InquirySpec /\ QuotationSpec /\ AccessSpec
<1>1. Init => InquiryInit /\ QuotationInit /\ AccessInit
  BY DEF Init
<1>2. [Next]_vars => /\ [InquiryNext]_inquiryVars
                     /\ [QuotationNext]_quotationVars
                     /\ [AccessNext]_accessVars
  BY DEF Next, vars, AtInquiries, AtQuotations, AtAccess, AtFigures
<1>3. QED
  BY <1>1, <1>2, PTL DEF Spec, InquirySpec, QuotationSpec, AccessSpec

\* The types of the quotation's and the identity's variables (FrontOffice): credit and
\* its days, the chases' rows, the sign-in window within its limit.
THEOREM FrontOfficeTypesHold == Spec => []FrontOfficeTypeOK
<1>1. QuotationInvariant /\ ChaseInvariant /\ AccessInvariant => FrontOfficeTypeOK
  <2>1. ASSUME QuotationInvariant, ChaseInvariant PROVE QuotationTypeOK
    <3>1. quotation.status \in DOMAIN QUOTATION_TRANSITIONS
      BY <2>1 DEF QuotationInvariant, QuotationTyped, QuotationRow
    <3>2. \A f \in FollowUps : followUp[f] \in FollowUpRow \cup {None}
      BY <2>1 DEF ChaseInvariant, ChasesAreTyped
    <3>3. \A c \in Customers : customer[c].creditStatus \in CreditStatuses
      BY <2>1 DEF QuotationInvariant, QuotationTyped, CustomerRow
    <3>4. quotation.figures # None =>
            /\ quotation.figures \in FiguresRow
            /\ quotation.figures.terms.type = "CASH" => quotation.figures.terms.days = 0
      BY <2>1 DEF QuotationInvariant, QuotationTyped, HashFollowsFigures, TermsAgree
    <3>5. quotation.figures # None =>
            \A i \in LineNumbers : quotation.figures.lines[i] \in PricedLine
      BY <3>4 DEF LineNumbers, FiguresRow
    <3>6. QED
      BY <3>1, <3>2, <3>3, <3>4, <3>5 DEF QuotationTypeOK
  <2>2. QED
    BY <2>1 DEF FrontOfficeTypeOK, AccessInvariant
<1>2. QED
  BY <1>1, ChasesHold, AccessHolds, DesksAreApart, PTL

\* inquiries/index.ts and quotations/index.ts: a quotation line stands for a product that
\* somebody confirmed, corrected or added, whatever the parser proposes and however
\* parses, reviews and the step to the quotation overlap.
THEOREM QuotedLinesAlwaysDecided == Spec => []QuotedLinesAreDecided
<1>1. InquiryInvariant => QuotedLinesAreDecided
  BY DEF InquiryInvariant
<1>2. QED
  BY <1>1, InquiryHolds, DesksAreApart, PTL

\* payload.ts and approval-rules.ts: what the customer was sent is, to the figure, what
\* somebody whose role may sign it approved, whatever was edited in between.
THEOREM AlwaysSentAsApproved == Spec => []SentAsApproved
<1>1. QuotationInvariant => SentAsApproved
  <2>1. SUFFICES ASSUME QuotationInvariant PROVE SentAsApproved
    OBVIOUS
  <2>2. quotation.status = "APPROVED" \/ Answered =>
          /\ quotation.approved.figures = quotation.figures
          /\ approval.payload = quotation.approved
          /\ SignedFor(quotation.figures, approval.role)
    BY <2>1 DEF QuotationInvariant, ApprovalStands
  <2>3. QED
    BY <2>2 DEF SentAsApproved, SignedFor, DiscountRefused
<1>2. QED
  BY <1>1, QuotationHolds, DesksAreApart, PTL

\* Who takes the lock to send or to accept has read the customer's standing as it is.
LEMMA DecisionsBegin ==
    ASSUME QuotationInvariant, [QuotationNext]_quotationVars, ~Locked, Locked',
           deciding'.to \in {"SENT", "ACCEPTED"}
    PROVE  /\ quotation.status \in {"APPROVED", "SENT"}
           /\ quotation.approved.creditStatus = customer[quotation.figures.customer].creditStatus
<1> DEFINE row == recalculate(quotation)
<1>1. BeginSend \/ BeginAcceptance
  <2>1. ASSUME NEW role \in Approvers, OpenApprovalForm(role) \/ approve(role) \/ reject(role)
        PROVE  UNCHANGED deciding
    BY <2>1 DEF OpenApprovalForm, approve, reject
  <2>2. ASSUME NEW figures, mutate(figures) PROVE UNCHANGED deciding
    BY <2>2 DEF mutate
  <2>3. \/ setLineQuantity \/ setLineDiscount \/ removeLine \/ addLine
        \/ setDeliveryFee \/ setPaymentTerms \/ setCustomer \/ setValidityDate
        => UNCHANGED deciding
    BY <2>2 DEF setLineQuantity, setLineDiscount, removeLine, addLine, setDeliveryFee,
                setPaymentTerms, setCustomer, setValidityDate
  <2>4. \/ createFromInquiry \/ SetStanding \/ submitForApproval \/ cancelQuotation \/ NextDay
        \/ Chasing \/ UNCHANGED quotationVars
        => UNCHANGED deciding
    BY DEF createFromInquiry, SetStanding, submitForApproval, cancelQuotation, NextDay, Chasing,
           BeginChase, completeFollowUp, snoozeFollowUp, AbandonChase
  <2>5. markSent \/ RecordAnswer \/ AbandonDecision => ~Locked'
    BY DEF markSent, RecordAnswer, AbandonDecision, Locked
  <2>6. BeginRejection => deciding'.to = "REJECTED"
    BY DEF BeginRejection
  <2>7. QED
    BY <2>1, <2>3, <2>4, <2>5, <2>6 DEF QuotationNext, Locked
<1>2. quotation.status # "NONE" /\ QuotationTyped
  BY <1>1 DEF BeginSend, BeginAcceptance, LockFree, QuotationInvariant
<1>3. MaySend(row) \/ acceptanceEligibility(row)
  BY <1>1 DEF BeginSend, BeginAcceptance, Locked
<1>4. /\ row.status = quotation.status /\ row.approved = quotation.approved
      /\ row.current = buildApprovalPayload(quotation.figures)
  BY <1>2, RecalculatedRow
<1> HIDE DEF row
<1>5. quotation.figures \in FiguresRow
  BY <1>2 DEF QuotationTyped, HashFollowsFigures
<1>6. QED
  BY <1>2, <1>3, <1>4, <1>5, PayloadOf DEF MaySend, acceptanceEligibility

\* payload.ts, rules E and F: a send or an acceptance is decided on the credit standing
\* the quotation was approved on and the customer has, and commits what was approved to
\* the hash, however the standing changes, figures are edited or chases run beside it.
THEOREM AlwaysSentOnAStandingApproval == Spec => SentOnAStandingApproval
<1>1. QuotationInvariant /\ [QuotationNext]_quotationVars =>
       [/\ ~Locked /\ Locked' /\ deciding'.to \in {"SENT", "ACCEPTED"} =>
            LET standing == customer[quotation.figures.customer].creditStatus
            IN  /\ quotation.approved.creditStatus = standing
                /\ quotation.figures.terms.type = "CREDIT" => standing = "CREDIT_ALLOWED"
        /\ quotation'.status # quotation.status /\ quotation'.status \in {"SENT", "ACCEPTED"} =>
            /\ Locked /\ deciding.to = quotation'.status
            /\ quotation.status = IF quotation'.status = "SENT" THEN "APPROVED" ELSE "SENT"
            /\ quotation'.figures = quotation.figures
            /\ quotation'.current = quotation.approved /\ quotation'.approved = quotation.approved
       ]_quotationVars
  <2> SUFFICES ASSUME QuotationInvariant, [QuotationNext]_quotationVars
               PROVE  /\ ~Locked /\ Locked' /\ deciding'.to \in {"SENT", "ACCEPTED"} =>
                           LET standing == customer[quotation.figures.customer].creditStatus
                           IN  /\ quotation.approved.creditStatus = standing
                               /\ quotation.figures.terms.type = "CREDIT"
                                      => standing = "CREDIT_ALLOWED"
                      /\ quotation'.status # quotation.status
                            /\ quotation'.status \in {"SENT", "ACCEPTED"} =>
                           /\ Locked /\ deciding.to = quotation'.status
                           /\ quotation.status = IF quotation'.status = "SENT" THEN "APPROVED" ELSE "SENT"
                           /\ quotation'.figures = quotation.figures
                           /\ quotation'.current = quotation.approved
                           /\ quotation'.approved = quotation.approved
    OBVIOUS
  <2>1. ASSUME ~Locked, Locked', deciding'.to \in {"SENT", "ACCEPTED"}
        PROVE  /\ quotation.approved.creditStatus = customer[quotation.figures.customer].creditStatus
               /\ quotation.figures.terms.type = "CREDIT"
                      => customer[quotation.figures.customer].creditStatus = "CREDIT_ALLOWED"
    <3>1. /\ quotation.status \in {"APPROVED", "SENT"}
          /\ quotation.approved.creditStatus = customer[quotation.figures.customer].creditStatus
      BY <2>1, DecisionsBegin
    <3>2. QED
      BY <3>1 DEF QuotationInvariant, ApprovalStands, Answered
  <2>2. ASSUME quotation'.status # quotation.status, quotation'.status \in {"SENT", "ACCEPTED"}
        PROVE  /\ Locked /\ deciding.to = quotation'.status
               /\ quotation.status = IF quotation'.status = "SENT" THEN "APPROVED" ELSE "SENT"
               /\ quotation'.figures = quotation.figures
               /\ quotation'.current = quotation.approved
               /\ quotation'.approved = quotation.approved
    <3>1. markSent \/ RecordAnswer
      BY <2>2, StatusMoves
    <3>2. QED
      BY <2>2, <3>1, CommitKeeps
  <2>3. QED
    BY <2>1, <2>2
<1>2. QED
  BY <1>1, QuotationHolds, DesksAreApart, PTL DEF SentOnAStandingApproval, QuotationSpec

\* followups/index.ts: a quotation is chased exactly from its sending on, in chains from
\* one first follow-up and up to the cap; a follow-up is succeeded twice only if two
\* requests on it overlapped.
THEOREM ChasesAlwaysAccountedFor == Spec => []ChasesAreAccountedFor
<1>1. ChaseInvariant => ChasesAreAccountedFor
  <2>1. SUFFICES ASSUME ChaseInvariant PROVE ChasesAreAccountedFor
    OBVIOUS
  <2>2. RowsAreChained /\ (Scheduled # {} <=> Answered)
    BY <2>1 DEF ChaseInvariant
  <2>3. \A f \in Scheduled : \A g, h \in ScheduledAfter(f) : g = h \/ followUp[f].contested
    BY <2>1 DEF ChaseInvariant, SinglyChased
  <2>4. QED
    BY <2>2, <2>3 DEF ChasesAreAccountedFor, RowsAreChained
<1>2. QED
  BY <1>1, ChasesHold, DesksAreApart, PTL

\* platform/rbac: a claim and its confirmation, a count and its correction, handing
\* goods out and calling them delivered are in different hands: nobody but the owner
\* does both without a change of role in between.
THEOREM HandsAlwaysSeparate == Spec => []SeparateHands
<1>1. AccessInvariant => SeparateHands
  <2>1. SUFFICES ASSUME AccessInvariant, NEW a \in matter, NEW b \in matter, a # b,
                        done[a] # Nobody, done[a] = done[b]
                 PROVE  done[a].role = "OWNER_ADMIN"
    BY DEF SeparateHands
  <2>2. /\ done[a].role \in ROLES /\ can(done[a].role, requirePermission[a])
        /\ can(done[a].role, requirePermission[b]) /\ matter \in SeparatedActs
    BY <2>1 DEF AccessInvariant
  <2>3. QED
    BY <2>1, <2>2, NoRoleDoesBoth
<1>2. QED
  BY <1>1, AccessHolds, DesksAreApart, PTL

-----------------------------------------------------------------------------
(* The figures                                                             *)

\* Whatever is asked is one of the samples.
LEMMA QuestionsAreTyped == Spec => []QuestionTyped
<1>1. Init => QuestionTyped
  BY AskedTyped DEF Init
<1>2. QuestionTyped /\ [Next]_vars => QuestionTyped'
  <2>1. CASE AtFigures
    BY <2>1, AskedTyped DEF AtFigures
  <2>2. CASE UNCHANGED question
    BY <2>2 DEF QuestionTyped, Topics
  <2>3. QED
    BY <2>1, <2>2 DEF Next, vars, AtInquiries, AtQuotations, AtAccess
<1>3. QED
  BY <1>1, <1>2, PTL DEF Spec

\* money/index.ts and pricing.ts: every division is rounded as its mode says, a split
\* amount loses no minor unit, each share is within one of its exact part and is read
\* again as it was written, and the printed lines, delivery and tax add up to the total.
THEOREM AmountsAlwaysExact == Spec => []AmountsAreExact
<1>1. QuestionTyped => AmountsAreExact
  BY AmountsHold
<1>2. QED
  BY <1>1, QuestionsAreTyped, PTL

\* time/reporting.ts and definitions.ts: in any zone whose clock changes once and by an hour
\* at most, local days cover the time line without a gap or an overlap, and a day holds the
\* instants of its date but for the one hour that a change at midnight puts astray; two
\* windows count what their union counts, and the bars of the chart add up to its figures.
THEOREM DaysAndWindowsAlwaysTile == Spec => []DaysAndWindowsTile
<1>1. QuestionTyped => DaysAndWindowsTile
  BY DaysAndWindowsHold
<1>2. QED
  BY <1>1, QuestionsAreTyped, PTL

\* receivables.ts and definitions.ts: the list by order, the list by customer and the
\* totals are about the same debts, the most urgent first; what is overdue differs by what
\* was due between the two dates they ask it on.
THEOREM DebtListsAlwaysAgree == Spec => []DebtListsAgree
<1>1. QuestionTyped => DebtListsAgree
  BY DebtListsHold
<1>2. QED
  BY <1>1, QuestionsAreTyped, PTL

\* brief.ts, narration.ts and brief-contract.ts: whatever the tables hold and the provider
\* answers, no text of the brief states a numeral that its reader's sections and list do
\* not have, the small whole numbers of a provider's prose aside.
THEOREM BriefAlwaysGrounded == Spec => []BriefSaysOnlyItsFigures
<1>1. QuestionTyped => BriefSaysOnlyItsFigures
  BY BriefHolds
<1>2. QED
  BY <1>1, QuestionsAreTyped, PTL

\* matching.ts: what is proposed for a name is evidence of the product, the best first,
\* and only an exact name or alias is strong.
THEOREM ProposalsAlwaysEvidence == Spec => []ProposalsAreEvidence
<1>1. QuestionTyped => ProposalsAreEvidence
  BY ProposalsHold
<1>2. QED
  BY <1>1, QuestionsAreTyped, PTL

\* csv.ts and templates.ts: what a spreadsheet wrote is read again cell by cell, however it
\* ends its lines, and a price, a limit or a count that could be two figures is an error;
\* the column of the tax rates is not covered.
THEOREM CellsAndAmountsAlwaysKept == Spec => []CellsAndAmountsAreKept
<1>1. QuestionTyped => CellsAndAmountsAreKept
  BY FilesHold
<1>2. QED
  BY <1>1, QuestionsAreTyped, PTL
=============================================================================
