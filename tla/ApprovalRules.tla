--------------------------- MODULE ApprovalRules ---------------------------
(***************************************************************************)
(* Who may approve a quotation (quotations/approval-rules.ts).  The policy *)
(* is the organisation's settings; nothing in src writes them.             *)
(***************************************************************************)
EXTENDS Pricing

\* salespersonDiscountLimit, salesManagerDiscountLimit and minimumPriceFloor.
CONSTANT Policy

PolicyIsInBasisPoints ==
    /\ Policy.salespersonDiscountLimit \in 0..BASIS_POINTS
    /\ Policy.salesManagerDiscountLimit \in 0..BASIS_POINTS
    /\ Policy.minimumPriceFloor \in 0..BASIS_POINTS

CreditStatuses == {"CASH_ONLY", "CREDIT_ALLOWED", "SUSPENDED"}
Roles          == {"SALESPERSON", "SALES_MANAGER", "OWNER_ADMIN"}

\* Rules E and F, and the agreed days: a customer with 0 agreed days has no limit.
CreditRefused(terms, customer) ==
    /\ terms.type = "CREDIT"
    /\ \/ customer.creditStatus # "CREDIT_ALLOWED"
       \/ customer.paymentTermsDays > 0 /\ terms.days > customer.paymentTermsDays

\* Rules A to D.
DiscountRefused(lines) ==
    \/ lines = <<>>
    \/ deepestDiscount(lines) > Policy.salesManagerDiscountLimit
    \/ linesBelowFloor(lines, Policy.minimumPriceFloor) # {}

evaluateApproval(lines, terms, customer) ==
    IF DiscountRefused(lines) \/ CreditRefused(terms, customer) THEN "BLOCKED"
    ELSE IF deepestDiscount(lines) > Policy.salespersonDiscountLimit THEN "SALES_MANAGER"
    ELSE "SALESPERSON"

rolesSatisfying(level) ==
    [SALESPERSON   |-> Roles,
     SALES_MANAGER |-> {"SALES_MANAGER", "OWNER_ADMIN"},
     BLOCKED       |-> {}][level]
=============================================================================
