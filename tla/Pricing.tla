------------------------------ MODULE Pricing ------------------------------
(***************************************************************************)
(* Quotation arithmetic (quotations/pricing.ts): a line is rounded at the  *)
(* discount and at the tax, and the totals are sums of rounded lines.      *)
(***************************************************************************)
EXTENDS Money

\* The quoted price is the list price of the day the line was made: no code
\* writes the one without the other.
PricedLine == [quantity : Nat \ {0}, listPrice : Nat, quotedPrice : Nat,
               discount : 0..BASIS_POINTS, taxRate : Nat]

priceLine(line) ==
    LET gross    == line.quotedPrice * line.quantity
        discount == multiplyByBasisPoints(gross, line.discount)
        tax      == multiplyByBasisPoints(gross - discount, line.taxRate)
    IN  [subtotal |-> gross, discount |-> discount, taxable |-> gross - discount,
         tax |-> tax, total |-> (gross - discount) + tax]

SumOver(lines, amount(_)) == SumOf([i \in DOMAIN lines |-> amount(lines[i])])

calculateTotals(lines, deliveryFee, feeTaxable, vatRate) ==
    LET priced      == [i \in DOMAIN lines |-> priceLine(lines[i])]
        deliveryTax == IF feeTaxable THEN multiplyByBasisPoints(deliveryFee, vatRate) ELSE 0
    IN  [subtotal      |-> SumOver(priced, LAMBDA l : l.subtotal),
         discountTotal |-> SumOver(priced, LAMBDA l : l.discount),
         deliveryFee   |-> deliveryFee,
         deliveryTax   |-> deliveryTax,
         taxTotal      |-> SumOver(priced, LAMBDA l : l.tax) + deliveryTax,
         grandTotal    |-> SumOver(priced, LAMBDA l : l.total) + deliveryFee + deliveryTax]

\* A quotation whose parts do not add up raises instead of being stored.
reconciles(totals) ==
    totals.grandTotal = totals.subtotal - totals.discountTotal
                        + totals.taxTotal + totals.deliveryFee

deepestDiscount(lines) ==
    FoldSeq(LAMBDA line, worst : IF line.discount > worst THEN line.discount ELSE worst, 0, lines)

\* Each line against its own list price.  Both sides of the code's comparison
\* carry one more factor of BASIS_POINTS, which is left out.
linesBelowFloor(lines, floor) ==
    {i \in DOMAIN lines :
        /\ lines[i].listPrice # 0
        /\ lines[i].quotedPrice * (BASIS_POINTS - lines[i].discount)
               < lines[i].listPrice * floor}
=============================================================================
