--------------------------- MODULE MCDistributor ---------------------------
(***************************************************************************)
(* Small instances of Distributor for TLC.                                 *)
(***************************************************************************)
EXTENDS Expectations, Dashboard, TLC

CONSTANTS p1, p2, q1, q2

Lines(p, n) == [product |-> p, quantity |-> n]

\* Two quotations compete for p1; the first also needs p2.
CompetingItems == (q1 :> <<Lines(p1, 1), Lines(p2, 1)>>) @@ (q2 :> <<Lines(p1, 2)>>)
\* One quotation of two units of one product.
SingleItem     == (q1 :> <<Lines(p1, 2)>>)
\* One or two quotations of one unit each.
UnitItem       == (q1 :> <<Lines(p1, 1)>>)
UnitItems      == (q1 :> <<Lines(p1, 1)>>) @@ (q2 :> <<Lines(p1, 1)>>)
\* One quotation of two products.
PairItems      == (q1 :> <<Lines(p1, 1), Lines(p2, 1)>>)

AllCredit  == [q \in Quotations |-> "CREDIT"]
AllCash    == [q \in Quotations |-> "CASH"]
TotalTwo   == [q \in Quotations |-> 2]
OpeningOne == [p \in Products |-> 1]
OpeningTwo == [p \in Products |-> 2]

EitherWay  == BOOLEAN
PickupOnly == {FALSE}
DeliverOnly == {TRUE}
NoDeltas == {}
OneUpOrDown == {-1, 1}
OneDown == {-1}

\* Row identities and requests are interchangeable.
Symmetry ==
    Permutations(OrderIds) \cup Permutations(TaskIds) \cup Permutations(DeliveryIds)
        \cup Permutations(ReturnIds) \cup Permutations(DiscrepancyIds)
        \cup Permutations(PaymentIds) \cup Permutations(Requests)
        \cup Permutations(References)

\* ... and so are quotations that ask for the same on the same terms.
QuotationSymmetry == Symmetry \cup Permutations(Quotations)
=============================================================================
