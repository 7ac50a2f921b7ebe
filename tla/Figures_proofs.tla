----------------------------- MODULE Figures_proofs -----------------------------
(***************************************************************************)
(* The pure functions of money, days, debts, the brief, matching and files *)
(* answer every question as Figures says, for any samples of their types.  *)
(***************************************************************************)
EXTENDS Figures, Sums_proofs, SequenceTheorems

-----------------------------------------------------------------------------
(* The question is one of the samples                                      *)

QuestionTyped ==
    question # None =>
        /\ question.about \in DOMAIN Topics
        /\ question.input \in Topics[question.about]

\* Nothing but a sample of its topic is asked.
LEMMA AskedTyped ==
    ASSUME FiguresInit \/ Ask
    PROVE  (FiguresInit => QuestionTyped) /\ (Ask => QuestionTyped')
BY DEF FiguresInit, Ask, QuestionTyped, Topics

\* A question is about one of its samples.
LEMMA Asked ==
    ASSUME QuestionTyped, NEW topic, About(topic)
    PROVE  topic \in DOMAIN Topics /\ input \in Topics[topic]
BY DEF QuestionTyped, About, input

\* Integer division.
LEMMA Quotient ==
    ASSUME NEW n \in Int, NEW d \in Nat \ {0}
    PROVE  /\ n \div d \in Int /\ (n % d) \in 0..(d - 1)
           /\ n = (n \div d) * d + (n % d)
<1>1. n \div d \in Int
  OBVIOUS
<1>2. (n % d) \in 0..(d - 1)
  OBVIOUS
<1>3. n = (n \div d) * d + (n % d)
  OBVIOUS
<1> QED BY <1>1, <1>2, <1>3

\* A quotient is known by the remainder it leaves.
LEMMA QuotientIs ==
    ASSUME NEW n \in Int, NEW d \in Nat \ {0}, NEW q \in Int, q * d <= n, n < q * d + d
    PROVE  n \div d = q /\ (n % d) = n - q * d
<1>1. \A x \in Int : x >= 1 => x * d >= d
  OBVIOUS
<1>2. \A x \in Int : x <= -1 => x * d <= -d
  OBVIOUS
<1>3. \A x \in Int : -d < x * d /\ x * d < d => x = 0
  BY <1>1, <1>2
<1>4. PICK p \in Int, r \in 0..(d-1) : n = p * d + r /\ p = n \div d /\ r = (n % d)
  BY Quotient
<1>5. (q - p) * d = q * d - p * d /\ q - p \in Int
  OBVIOUS
<1>6. q - p = 0
  BY <1>3, <1>4, <1>5
<1>7. p = q
  BY <1>6
<1>8. r = n - p * d
  BY <1>4
<1> QED BY <1>4, <1>7, <1>8

\* What a division does to the magnitudes.
LEMMA Rounding ==
    ASSUME NEW n \in Int, NEW d \in Int \ {0}, NEW mode
    PROVE  LET N   == Pricing!Magnitude(n)
               D   == Pricing!Magnitude(d)
               r   == Pricing!roundDivision(n, d, mode)
               neg == (n < 0) # (d < 0)
           IN  /\ N \in Nat /\ D \in Nat \ {0} /\ r \in Int
               /\ \E q, rem, up \in Nat :
                     /\ N = q * D + rem /\ rem < D
                     /\ up = IF Pricing!RoundsAway(q, rem, D, neg, mode) THEN 1 ELSE 0
                     /\ r = IF neg THEN -(q + up) ELSE q + up
                     /\ r * d = IF n < 0 THEN -(q * D + up * D) ELSE q * D + up * D
<1> DEFINE N   == Pricing!Magnitude(n)
           D   == Pricing!Magnitude(d)
           r   == Pricing!roundDivision(n, d, mode)
           neg == (n < 0) # (d < 0)
           q   == N \div D
           rem == N % D
           up  == IF Pricing!RoundsAway(q, rem, D, neg, mode) THEN 1 ELSE 0
<1>1. /\ N \in Nat /\ D \in Nat \ {0}
      /\ N = IF n < 0 THEN -n ELSE n
      /\ D = IF d < 0 THEN -d ELSE d
  BY DEF Pricing!Magnitude
<1>2. r = IF neg THEN -(q + up) ELSE q + up
  BY DEF Pricing!roundDivision
<1> HIDE DEF N, D, r
<1> HIDE DEF q, rem
<1>3. q \in Int /\ rem \in 0..(D - 1) /\ N = q * D + rem
  <2>1. N \in Int /\ D \in Nat \ {0}
    BY <1>1
  <2>2. /\ N \div D \in Int /\ (N % D) \in 0..(D - 1)
        /\ N = (N \div D) * D + (N % D)
    BY <2>1, Quotient
  <2>3. QED
    BY <2>2, Zenon DEF q, rem
<1>4. q \in Nat
  <2>1. ASSUME q <= -1 PROVE FALSE
    <3>1. \A x \in Int : x <= -1 => x * D <= -D
      BY <1>1
    <3>2. q * D <= -D
      BY <1>3, <2>1, <3>1
    <3>3. q * D \in Int
      BY <1>1, <1>3
    <3>4. QED
      BY <1>1, <1>3, <3>2, <3>3
  <2>2. QED
    BY <1>3, <2>1
<1>5. up \in {0, 1}
  OBVIOUS
<1> HIDE DEF up
<1>6. (n = 0 => q = 0 /\ up = 0)
  <2>1. ASSUME n = 0 PROVE q * D + rem = 0
    BY <1>1, <1>3, <2>1
  <2>2. ASSUME n = 0 PROVE q = 0 /\ rem = 0
    <3>1. \A x \in Nat : x >= 1 => x * D >= D
      BY <1>1
    <3>2. q * D \in Nat /\ rem \in Nat
      BY <1>1, <1>3, <1>4
    <3>3. q * D = 0 /\ rem = 0
      BY <2>1, <2>2, <3>2
    <3>4. QED
      BY <1>1, <1>4, <3>1, <3>3
  <2>3. QED
    BY <2>2 DEF up, Pricing!RoundsAway
<1>7. r * d = IF n < 0 THEN -(q * D + up * D) ELSE q * D + up * D
  <2>1. \A x, y, z \in Int : (x + y) * z = x * z + y * z /\ (-x) * z = -(x * z) /\ x * (-z) = -(x * z)
    OBVIOUS
  <2>2. (q + up) * D = q * D + up * D /\ (q + up) * D \in Int /\ q + up \in Int
    BY <1>1, <1>4, <1>5
  <2>3. CASE d < 0
    <3>1. d = -D /\ D \in Int
      BY <1>1, <2>3
    <3>2. (q + up) * d = -((q + up) * D) /\ (-(q + up)) * d = (q + up) * D
      BY <2>1, <2>2, <3>1
    <3>3. QED
      BY <1>2, <2>2, <2>3, <3>2
  <2>4. CASE ~ (d < 0)
    <3>1. d = D /\ D \in Int
      BY <1>1, <2>4
    <3>2. (-(q + up)) * D = -((q + up) * D)
      BY <2>1, <2>2, <3>1
    <3>3. QED
      BY <1>2, <2>2, <2>4, <3>1, <3>2
  <2>5. QED
    BY <2>3, <2>4
<1>8. rem \in Nat /\ rem < D /\ up \in Nat
  BY <1>1, <1>3, <1>5
<1>9. up = IF Pricing!RoundsAway(q, rem, D, neg, mode) THEN 1 ELSE 0
  BY DEF up
<1>10. r \in Int
  BY <1>2, <1>4, <1>5
<1> HIDE DEF neg
<1>11. \E q_1, rem_1, up_1 \in Nat :
                     /\ N = q_1 * D + rem_1 /\ rem_1 < D
                     /\ up_1 = IF Pricing!RoundsAway(q_1, rem_1, D, neg, mode) THEN 1 ELSE 0
                     /\ r = IF neg THEN -(q_1 + up_1) ELSE q_1 + up_1
                     /\ r * d = IF n < 0 THEN -(q_1 * D + up_1 * D) ELSE q_1 * D + up_1 * D
  BY <1>2, <1>3, <1>4, <1>7, <1>8, <1>9
<1> QED
  BY <1>1, <1>10, <1>11 DEF N, D, r, neg

\* money/index.ts rounds to the nearest integer by the rule it is asked for.
LEMMA DivisionsAreNearest ==
    ASSUME NEW n \in Int, NEW d \in Int \ {0},
           NEW mode \in {"trunc", "floor", "ceil", "half-up", "half-even"}
    PROVE  LET r     == Pricing!roundDivision(n, d, mode)
               error == Pricing!Magnitude(n - r * d)
               tie   == 2 * error = Pricing!Magnitude(d)
           IN  /\ error < Pricing!Magnitude(d)
               /\ mode \in {"half-up", "half-even"} => 2 * error <= Pricing!Magnitude(d)
               /\ mode = "half-up" /\ tie => Pricing!Magnitude(r * d) > Pricing!Magnitude(n)
               /\ mode = "half-even" /\ tie => r % 2 = 0
               /\ mode = "trunc" => Pricing!Magnitude(r * d) <= Pricing!Magnitude(n)
               /\ mode = "floor" => (n - r * d) * d >= 0
               /\ mode = "ceil"  => (n - r * d) * d <= 0
<1> DEFINE N   == Pricing!Magnitude(n)
           D   == Pricing!Magnitude(d)
           r   == Pricing!roundDivision(n, d, mode)
           neg == (n < 0) # (d < 0)
           error == Pricing!Magnitude(n - r * d)
<1>1. N \in Nat /\ D \in Nat \ {0} /\ r \in Int
  BY Rounding
<1>2. PICK q, rem, up \in Nat :
         /\ N = q * D + rem /\ rem < D
         /\ up = IF Pricing!RoundsAway(q, rem, D, neg, mode) THEN 1 ELSE 0
         /\ r = IF neg THEN -(q + up) ELSE q + up
         /\ r * d = IF n < 0 THEN -(q * D + up * D) ELSE q * D + up * D
  BY Rounding
<1>3. /\ N = IF n < 0 THEN -n ELSE n
      /\ D = IF d < 0 THEN -d ELSE d
  BY DEF Pricing!Magnitude
<1> HIDE DEF N, D, r
<1> DEFINE P == q * D
<1>4. P \in Nat
  BY <1>1
<1>5. up * D = (IF up = 1 THEN D ELSE 0) /\ up \in {0, 1}
  BY <1>1, <1>2
<1>6. /\ N = P + rem
      /\ r * d = LET m == P + (IF up = 1 THEN D ELSE 0) IN IF n < 0 THEN -m ELSE m
      /\ r * d \in Int
  BY <1>1, <1>2, <1>5
<1> HIDE DEF P
<1>7. /\ up = 1 => rem # 0
      /\ mode = "half-up" => (up = 1 <=> rem # 0 /\ rem * 2 >= D)
      /\ mode = "half-even" => (up = 1 <=> rem # 0 /\ (rem * 2 > D \/ (rem * 2 = D /\ q % 2 = 1)))
      /\ mode = "trunc" => up = 0
      /\ mode = "floor" => (up = 1 <=> rem # 0 /\ neg)
      /\ mode = "ceil" => (up = 1 <=> rem # 0 /\ ~neg)
  BY <1>2, <1>5 DEF Pricing!RoundsAway
<1> HIDE DEF neg
<1>8. error = IF up = 1 THEN D - rem ELSE rem
  BY <1>1, <1>2, <1>3, <1>4, <1>5, <1>6, <1>7 DEF Pricing!Magnitude
<1>9. Pricing!Magnitude(r * d) = P + (IF up = 1 THEN D ELSE 0)
  BY <1>1, <1>3, <1>4, <1>6 DEF Pricing!Magnitude
<1>10. n - r * d = IF n < 0 THEN -(rem - (IF up = 1 THEN D ELSE 0))
                   ELSE rem - (IF up = 1 THEN D ELSE 0)
  BY <1>1, <1>2, <1>3, <1>4, <1>5, <1>6
<1> HIDE DEF error
<1>11. error < D
  BY <1>1, <1>2, <1>5, <1>7, <1>8
<1>12. mode \in {"half-up", "half-even"} => 2 * error <= D
  BY <1>1, <1>2, <1>5, <1>7, <1>8
<1>13. mode = "half-up" /\ 2 * error = D => P + (IF up = 1 THEN D ELSE 0) > N
  <2>1. mode = "half-up" /\ 2 * error = D => up = 1
    BY <1>1, <1>2, <1>5, <1>7, <1>8
  <2>2. QED
    BY <1>1, <1>2, <1>4, <1>6, <2>1
<1>14. ASSUME mode = "half-even", 2 * error = D PROVE r % 2 = 0
  <2>1. rem * 2 = D /\ rem # 0
    BY <1>1, <1>2, <1>5, <1>7, <1>8, <1>14
  <2>2. (q + up) % 2 = 0
    BY <1>1, <1>2, <1>5, <1>7, <1>14, <2>1
  <2>3. QED
    BY <1>2, <1>5, <2>2
<1>15. mode = "trunc" => P + (IF up = 1 THEN D ELSE 0) <= N
  BY <1>1, <1>2, <1>4, <1>5, <1>6, <1>7
<1>16. \A a, b \in Int : /\ (a >= 0 /\ b >= 0) \/ (a <= 0 /\ b <= 0) => a * b >= 0
                         /\ (a >= 0 /\ b <= 0) \/ (a <= 0 /\ b >= 0) => a * b <= 0
  OBVIOUS
<1>20. /\ neg => (n < 0 /\ ~(d < 0)) \/ (~(n < 0) /\ d < 0)
       /\ ~neg => (n < 0 /\ d < 0) \/ (~(n < 0) /\ ~(d < 0))
  <2>1. (n < 0) \in BOOLEAN /\ (d < 0) \in BOOLEAN
    OBVIOUS
  <2>2. \A a, b \in BOOLEAN : (a # b) <=> ((a /\ ~b) \/ (~a /\ b))
    OBVIOUS
  <2>3. neg <=> ((n < 0 /\ ~(d < 0)) \/ (~(n < 0) /\ d < 0))
    BY <2>1, <2>2, Zenon DEF neg
  <2>4. QED
    BY <2>3
<1> DEFINE gap == n - r * d
<1>17. gap \in Int /\ (gap >= 0 \/ gap <= 0)
  BY <1>6
<1>18. mode = "floor" => gap * d >= 0
  <2>1. mode = "floor" => ((gap >= 0 /\ d >= 0) \/ (gap <= 0 /\ d <= 0))
    BY <1>1, <1>2, <1>5, <1>7, <1>10, <1>20
  <2> HIDE DEF gap
  <2>2. QED
    BY <1>16, <1>17, <2>1
<1>19. mode = "ceil" => gap * d <= 0
  <2>1. mode = "ceil" => ((gap >= 0 /\ d <= 0) \/ (gap <= 0 /\ d >= 0))
    BY <1>1, <1>2, <1>5, <1>7, <1>10, <1>20
  <2> HIDE DEF gap
  <2>2. QED
    BY <1>16, <1>17, <2>1
<1> QED
  BY <1>9, <1>11, <1>12, <1>13, <1>14, <1>15, <1>18, <1>19 DEF N, D, r, error

\* RoundedToNearest, for every division of integers.
LEMMA RoundedToNearestHolds ==
    ASSUME QuestionTyped
    PROVE  RoundedToNearest
<1> SUFFICES ASSUME About("division") PROVE RoundedToNearest
  BY DEF RoundedToNearest
<1>1. input \in Division
  <2>1. input \in Topics["division"]
    BY Asked
  <2>2. QED
    BY <2>1, SamplesAreRows DEF Topics
<1>2. /\ input.numerator \in Int /\ input.denominator \in Int \ {0}
      /\ input.mode \in {"trunc", "floor", "ceil", "half-up", "half-even"}
  BY <1>1 DEF Division
<1>3. QED
  BY <1>2, DivisionsAreNearest DEF RoundedToNearest

\* The sums of money/index.ts.
LEMMA SumOfIsSumOn ==
    ASSUME NEW f
    PROVE  Pricing!SumOf(f) = SumOn(f, DOMAIN f)
BY DEF SumOn, SumFunctionOnSet, Pricing!SumOf, Pricing!SumFunction, Pricing!SumFunctionOnSet,
       FoldFunctionOnSet, Pricing!FoldFunctionOnSet, MapThenFoldSet, Pricing!MapThenFoldSet

\* A line is rounded at its discount and at its tax, and nowhere else.
LEMMA LineAdds ==
    ASSUME NEW line \in Pricing!PricedLine
    PROVE  LET p == Pricing!priceLine(line)
           IN  /\ p.subtotal \in Int /\ p.discount \in Int /\ p.tax \in Int
               /\ p.taxable = p.subtotal - p.discount
               /\ p.total = (p.subtotal - p.discount) + p.tax
               /\ 2 * Pricing!Magnitude(p.taxable * Pricing!BASIS_POINTS
                          - line.quantity * line.quotedPrice
                                * (Pricing!BASIS_POINTS - line.discount))
                      <= Pricing!BASIS_POINTS
<1> DEFINE gross == line.quotedPrice * line.quantity
           discount == Pricing!roundDivision(gross * line.discount, 10000, "half-up")
           tax == Pricing!roundDivision((gross - discount) * line.taxRate, 10000, "half-up")
           p == Pricing!priceLine(line)
<1>1. /\ line.quotedPrice \in Int /\ line.quantity \in Int /\ line.discount \in Int
      /\ line.taxRate \in Int
  BY DEF Pricing!PricedLine
<1>2. gross \in Int /\ gross * line.discount \in Int
  BY <1>1
<1>3. 10000 \in Int \ {0} /\ Pricing!Magnitude(10000) = 10000
  BY DEF Pricing!Magnitude
<1>4. p = [subtotal |-> gross, discount |-> discount, taxable |-> gross - discount,
           tax |-> tax, total |-> (gross - discount) + tax]
  BY DEF Pricing!priceLine, Pricing!multiplyByBasisPoints, Pricing!BASIS_POINTS
<1> HIDE DEF p
<1>5. discount \in Int
  BY <1>2, <1>3, Rounding
<1>6. 2 * Pricing!Magnitude(gross * line.discount - discount * 10000) <= 10000
  <2> HIDE DEF gross
  <2> DEFINE m == gross * line.discount
  <2>1. m \in Int
    BY <1>2
  <2> HIDE DEF m
  <2>2. 2 * Pricing!Magnitude(m - Pricing!roundDivision(m, 10000, "half-up") * 10000) <= 10000
    BY <2>1, <1>3, DivisionsAreNearest
  <2>3. QED
    BY <2>2 DEF m
<1> HIDE DEF discount
<1>7. tax \in Int
  <2> DEFINE m == (gross - discount) * line.taxRate
  <2>1. m \in Int
    BY <1>1, <1>2, <1>5
  <2> HIDE DEF m
  <2>2. Pricing!roundDivision(m, 10000, "half-up") \in Int
    BY <2>1, <1>3, Rounding
  <2>3. QED
    BY <2>2 DEF m
<1> HIDE DEF tax
<1>8. (gross - discount) * 10000 - line.quantity * line.quotedPrice * (10000 - line.discount)
         = gross * line.discount - discount * 10000
  <2>1. line.quantity * line.quotedPrice = gross
    BY <1>1
  <2> HIDE DEF gross
  <2>2. gross * (10000 - line.discount) = gross * 10000 - gross * line.discount
    BY <1>1, <1>2
  <2>3. gross * line.discount \in Int
    BY <1>2
  <2>4. QED
    BY <1>2, <1>5, <2>1, <2>2, <2>3
<1> HIDE DEF gross
<1>9. p.taxable = gross - discount
  BY <1>4
<1>10. QED
  BY <1>2, <1>4, <1>5, <1>6, <1>7, <1>8 DEF p, Pricing!BASIS_POINTS

\* Lines, delivery and tax add up to the total that is printed.
LEMMA CartsReconcile ==
    ASSUME NEW lines \in Seq(Pricing!PricedLine), NEW fee \in Nat, NEW taxable \in BOOLEAN, NEW rate \in Nat
    PROVE  LET totals  == Pricing!calculateTotals(lines, fee, taxable, rate)
               printed == [i \in DOMAIN lines |-> Pricing!priceLine(lines[i])]
               column(amount(_)) == Pricing!SumOf([i \in DOMAIN lines |-> amount(printed[i])])
           IN  /\ Pricing!reconciles(totals)
               /\ totals.subtotal - totals.discountTotal = column(LAMBDA l : l.taxable)
               /\ totals.grandTotal = column(LAMBDA l : l.total) + fee + totals.deliveryTax
<1> DEFINE I == DOMAIN lines
           printed == [i \in I |-> Pricing!priceLine(lines[i])]
           subtotal == [i \in I |-> printed[i].subtotal]
           discount == [i \in I |-> printed[i].discount]
           minus == [i \in I |-> -1 * discount[i]]
           net == [i \in I |-> printed[i].taxable]
           tax == [i \in I |-> printed[i].tax]
           total == [i \in I |-> printed[i].total]
           delivery == IF taxable THEN Pricing!multiplyByBasisPoints(fee, rate) ELSE 0
           totals == Pricing!calculateTotals(lines, fee, taxable, rate)
<1>1. IsFiniteSet(I)
  <2>1. Len(lines) \in Nat /\ I = 1..Len(lines)
    OBVIOUS
  <2>2. QED
    BY <2>1, FS_Interval
<1>2. \A i \in I :
         /\ subtotal[i] \in Int /\ discount[i] \in Int /\ tax[i] \in Int /\ net[i] \in Int
         /\ net[i] = subtotal[i] + minus[i] /\ minus[i] = -1 * discount[i] /\ minus[i] \in Int
         /\ total[i] = net[i] + tax[i]
  <2>1. ASSUME NEW i \in I
        PROVE  /\ subtotal[i] \in Int /\ discount[i] \in Int /\ tax[i] \in Int
               /\ net[i] = subtotal[i] - discount[i]
               /\ total[i] = (subtotal[i] - discount[i]) + tax[i]
    BY LineAdds
  <2> HIDE DEF printed
  <2>2. QED
    BY <2>1
<1>3. /\ totals.subtotal = Pricing!SumOf(subtotal) /\ totals.discountTotal = Pricing!SumOf(discount)
      /\ totals.taxTotal = Pricing!SumOf(tax) + delivery
      /\ totals.grandTotal = Pricing!SumOf(total) + fee + delivery
      /\ totals.deliveryFee = fee /\ totals.deliveryTax = delivery
  BY DEF Pricing!calculateTotals, Pricing!SumOver
<1>4. DOMAIN subtotal = I /\ DOMAIN discount = I /\ DOMAIN tax = I /\ DOMAIN net = I /\ DOMAIN total = I
  OBVIOUS
<1>5. delivery \in Int
  <2>1. fee * rate \in Int /\ 10000 \in Int \ {0}
    OBVIOUS
  <2>2. \A m \in Int : Pricing!roundDivision(m, 10000, "half-up") \in Int
    BY <2>1, Rounding
  <2>3. Pricing!roundDivision(fee * rate, 10000, "half-up") \in Int
    BY <2>1, <2>2
  <2>4. QED
    BY <2>3 DEF Pricing!multiplyByBasisPoints, Pricing!BASIS_POINTS
<1> HIDE DEF printed, subtotal, discount, minus, net, tax, total, delivery, totals
<1>6. /\ Amounts(subtotal, I) /\ Amounts(discount, I) /\ Amounts(tax, I) /\ Amounts(net, I)
      /\ Amounts(minus, I)
  BY <1>1, <1>2 DEF Amounts
<1> HIDE DEF I
<1>7. SumOn(minus, I) = -1 * SumOn(discount, I)
  <2>1. PICK c \in Int : c = -1
    OBVIOUS
  <2>2. \A i \in I : minus[i] = c * discount[i]
    BY <1>2, <2>1
  <2>3. SumOn(minus, I) = c * SumOn(discount, I)
    BY <1>6, <2>2, SumScales
  <2>4. SumOn(discount, I) \in Int
    BY <1>6, SumType
  <2>5. QED
    BY <2>1, <2>3, <2>4
<1>8. SumOn(net, I) = SumOn(subtotal, I) + SumOn(minus, I)
  BY <1>2, <1>6, SumsAdd
<1>9. SumOn(total, I) = SumOn(net, I) + SumOn(tax, I)
  BY <1>2, <1>6, SumsAdd
<1>10. SumOn(subtotal, I) \in Int /\ SumOn(discount, I) \in Int /\ SumOn(tax, I) \in Int
  BY <1>6, SumType
<1>11. /\ totals.subtotal = SumOn(subtotal, I) /\ totals.discountTotal = SumOn(discount, I)
       /\ totals.taxTotal = SumOn(tax, I) + delivery
       /\ totals.grandTotal = SumOn(total, I) + fee + delivery
       /\ Pricing!SumOf(net) = SumOn(net, I) /\ Pricing!SumOf(total) = SumOn(total, I)
  BY <1>3, <1>4, SumOfIsSumOn
<1>12. Pricing!reconciles(totals)
  BY <1>3, <1>5, <1>7, <1>8, <1>9, <1>10, <1>11 DEF Pricing!reconciles
<1>13. totals.subtotal - totals.discountTotal = Pricing!SumOf(net)
  BY <1>7, <1>8, <1>10, <1>11
<1>14. totals.grandTotal = Pricing!SumOf(total) + fee + totals.deliveryTax
  BY <1>3, <1>11
<1>15. QED
  BY <1>12, <1>13, <1>14 DEF totals, net, total, printed, I

\* TotalsReconcile, for every quotation.
LEMMA TotalsReconcileHolds ==
    ASSUME QuestionTyped
    PROVE  TotalsReconcile
<1> SUFFICES ASSUME About("cart") PROVE TotalsReconcile
  BY DEF TotalsReconcile
<1>1. input \in Cart
  <2>1. input \in Topics["cart"]
    BY Asked
  <2>2. QED
    BY <2>1, SamplesAreRows DEF Topics
<1>2. /\ input.lines \in Seq(Pricing!PricedLine) /\ input.fee \in Nat
      /\ input.taxable \in BOOLEAN /\ input.rate \in Nat
  BY <1>1 DEF Cart
<1> DEFINE lines == input.lines
           printed == [i \in DOMAIN lines |-> Pricing!priceLine(lines[i])]
<1>3. \A i \in DOMAIN lines :
         2 * Pricing!Magnitude(printed[i].taxable * Pricing!BASIS_POINTS
                - lines[i].quantity * lines[i].quotedPrice
                      * (Pricing!BASIS_POINTS - lines[i].discount))
             <= Pricing!BASIS_POINTS
  <2>1. ASSUME NEW i \in DOMAIN lines PROVE lines[i] \in Pricing!PricedLine
    BY <1>2
  <2>2. QED
    BY <2>1, LineAdds
<1>4. QED
  BY <1>2, <1>3, CartsReconcile DEF TotalsReconcile

\* The instances count as this module does.
LEMMA PricingCounts == \A S : Pricing!Cardinality(S) = Cardinality(S)
BY DEF Cardinality, Pricing!Cardinality

-----------------------------------------------------------------------------
(* Splitting an amount                                                     *)

\* The shares that are served before share i.
Served(rem, i) ==
    {j \in DOMAIN rem : rem[j] > rem[i] \/ (rem[j] = rem[i] /\ j < i)}

\* Every share has a turn of its own, and what remains of it comes before nothing.
LEMMA TurnsAreTaken ==
    ASSUME NEW n \in Nat, NEW rem \in [1..n -> Nat]
    PROVE  /\ [i \in 1..n |-> Pricing!Rank(rem, i)] \in Bijection(1..n, 0..(n - 1))
           /\ \A i \in 1..n : rem[i] = 0 =>
                  Pricing!Rank(rem, i) >= Cardinality({j \in 1..n : rem[j] > 0})
<1> DEFINE I == 1..n
           rank == [i \in I |-> Pricing!Rank(rem, i)]
<1>1. IsFiniteSet(I) /\ Cardinality(I) = n
  BY FS_Interval
<1>2. IsFiniteSet(0..(n - 1)) /\ Cardinality(0..(n - 1)) = n
  <2>1. n - 1 \in Int /\ 0 \in Int
    OBVIOUS
  <2>2. /\ IsFiniteSet(0..(n - 1))
        /\ Cardinality(0..(n - 1)) = IF 0 > n - 1 THEN 0 ELSE (n - 1) - 0 + 1
    BY <2>1, FS_Interval, Zenon
  <2>3. QED
    BY <2>2
<1> HIDE DEF I
<1>3. \A i \in I : rank[i] = Cardinality(Served(rem, i))
  <2>1. ASSUME NEW i PROVE Pricing!Rank(rem, i) = Cardinality(Served(rem, i))
    BY PricingCounts, Zenon DEF Pricing!Rank, Served
  <2>2. QED
    BY <2>1
<1>4. ASSUME NEW i \in I
      PROVE  /\ Served(rem, i) \in SUBSET (I \ {i})
             /\ IsFiniteSet(Served(rem, i)) /\ Cardinality(Served(rem, i)) \in 0..(n - 1)
  <2>1. Served(rem, i) \in SUBSET (I \ {i})
    BY DEF Served, I
  <2>2. IsFiniteSet(I \ {i}) /\ Cardinality(I \ {i}) = n - 1
    BY <1>1, FS_RemoveElement
  <2>3. IsFiniteSet(Served(rem, i)) /\ Cardinality(Served(rem, i)) <= n - 1
    BY <2>1, <2>2, FS_Subset
  <2>4. Cardinality(Served(rem, i)) \in Nat
    BY <2>3, FS_CardinalityType
  <2>5. QED
    BY <2>1, <2>3, <2>4
<1>5. rank \in [I -> 0..(n - 1)]
  <2> HIDE DEF rank
  <2>1. \A i \in I : rank[i] \in 0..(n - 1)
    BY <1>3, <1>4
  <2>2. QED
    BY <2>1 DEF rank
<1> HIDE DEF rank
<1>6. ASSUME NEW i \in I, NEW j \in Served(rem, i)
      PROVE  rank[j] < rank[i]
  <2>1. j \in I /\ Served(rem, j) \in SUBSET (Served(rem, i) \ {j})
    BY DEF Served, I
  <2>2. IsFiniteSet(Served(rem, i) \ {j})
        /\ Cardinality(Served(rem, i) \ {j}) = Cardinality(Served(rem, i)) - 1
    BY <1>4, FS_RemoveElement
  <2>3. Cardinality(Served(rem, j)) <= Cardinality(Served(rem, i)) - 1
    BY <2>1, <2>2, FS_Subset
  <2>4. /\ rank[i] = Cardinality(Served(rem, i)) /\ rank[j] = Cardinality(Served(rem, j))
        /\ rank[i] \in Int /\ rank[j] \in Int
    BY <1>3, <1>5, <2>1
  <2>5. QED
    BY <2>3, <2>4
<1>7. ASSUME NEW i \in I, NEW j \in I, rank[i] = rank[j] PROVE i = j
  <2>1. i # j => i \in Served(rem, j) \/ j \in Served(rem, i)
    BY DEF Served, I
  <2>2. i \notin Served(rem, j) /\ j \notin Served(rem, i)
    <3>1. rank[i] \in Int /\ rank[j] \in Int
      BY <1>5
    <3>2. QED
      BY <1>6, <1>7, <3>1
  <2>3. QED
    BY <2>1, <2>2
<1>8. rank \in Injection(I, 0..(n - 1))
  BY <1>5, <1>7 DEF Injection, IsInjective
<1>9. rank \in Surjection(I, 0..(n - 1))
  <2> DEFINE J == 0..(n - 1)
  <2>1. IsFiniteSet(J) /\ Cardinality(I) = Cardinality(J) /\ rank \in Injection(I, J)
    BY <1>1, <1>2, <1>8
  <2> HIDE DEF J
  <2>2. rank \in Surjection(I, J)
    BY <2>1, FS_Injection
  <2>3. QED
    BY <2>2 DEF J
<1>10. rank \in Bijection(I, 0..(n - 1))
  BY <1>8, <1>9 DEF Bijection
<1>11. ASSUME NEW i \in I, rem[i] = 0
       PROVE  Pricing!Rank(rem, i) >= Cardinality({j \in I : rem[j] > 0})
  <2> DEFINE Z == {j \in I : rem[j] > 0}
  <2>1. Z \in SUBSET Served(rem, i)
    BY <1>11 DEF Served, I
  <2>2. Cardinality(Z) <= Cardinality(Served(rem, i))
    <3> HIDE DEF Z
    <3>1. QED
      BY <1>4, <2>1, FS_Subset
  <2>3. Cardinality(Z) \in Nat
    <3>1. Z \in SUBSET I
      OBVIOUS
    <3> HIDE DEF Z
    <3>2. IsFiniteSet(Z)
      BY <1>1, <3>1, FS_Subset
    <3>3. QED
      BY <3>2, FS_CardinalityType
  <2> HIDE DEF Z
  <2>4. Pricing!Rank(rem, i) = Cardinality(Served(rem, i)) /\ Cardinality(Served(rem, i)) \in Int
    BY <1>3, <1>4 DEF rank
  <2>5. Pricing!Rank(rem, i) >= Cardinality(Z)
    BY <2>2, <2>3, <2>4
  <2>6. QED
    BY <2>5 DEF Z
<1>12. QED
  BY <1>10, <1>11 DEF rank, I

\* A non-negative product of a positive factor.
LEMMA OtherFactor ==
    ASSUME NEW a \in Nat \ {0}, NEW b \in Int
    PROVE  /\ a * b >= 0 => b >= 0
           /\ \A c \in Int : a * b < a * c => b < c
           /\ \A c \in Int : a * b = a * c => b = c
<1>1. \A x \in Int : x <= -1 => a * x <= -a
  OBVIOUS
<1>2. a * b >= 0 => b >= 0
  BY <1>1
<1>3. ASSUME NEW c \in Int PROVE a * (b - c) = a * b - a * c
  OBVIOUS
<1>4. \A x \in Int : x >= 0 => a * x >= 0
  OBVIOUS
<1>5. \A x \in Int : x >= 1 => a * x >= a
  OBVIOUS
<1>6. ASSUME NEW c \in Int, a * b < a * c PROVE b < c
  <2>1. a * (b - c) < 0
    BY <1>3, <1>6
  <2>2. QED
    BY <1>4, <2>1
<1>7. ASSUME NEW c \in Int, a * b = a * c PROVE b = c
  <2>1. a * (b - c) = 0
    BY <1>3, <1>7
  <2>2. QED
    BY <1>1, <1>5, <2>1
<1> QED
  BY <1>2, <1>6, <1>7

\* The least of k..l turns falls to a share once when there is a turn for each.
LEMMA OneTurnEach ==
    ASSUME NEW n \in Nat, NEW L \in Nat, L <= n, NEW r \in 0..(n - 1)
    PROVE  Cardinality({k \in 0..(L - 1) : (k % n) = r}) = IF r < L THEN 1 ELSE 0
<1>1. \A k \in 0..(L - 1) : (k % n) = k
  <2>1. ASSUME NEW k \in 0..(L - 1) PROVE (k % n) = k
    <3>1. n \in Nat \ {0} /\ k \in Int /\ 0 * n <= k /\ k < 0 * n + n /\ 0 \in Int
      OBVIOUS
    <3>2. (k % n) = k - 0 * n
      BY <3>1, QuotientIs
    <3>3. QED
      BY <3>1, <3>2
  <2>2. QED
    BY <2>1
<1>2. {k \in 0..(L - 1) : (k % n) = r} = {k \in 0..(L - 1) : k = r}
  BY <1>1
<1>3. CASE r < L
  <2>1. {k \in 0..(L - 1) : k = r} = {r}
    BY <1>3
  <2>2. QED
    BY <1>2, <1>3, <2>1, FS_Singleton
<1>4. CASE ~ (r < L)
  <2>1. {k \in 0..(L - 1) : k = r} = {}
    BY <1>4
  <2>2. QED
    BY <1>2, <1>4, <2>1, FS_EmptySet
<1> QED
  BY <1>3, <1>4

\* The turns below L are taken by L shares.
LEMMA TurnsAddUp ==
    ASSUME NEW n \in Nat, NEW L \in Nat, L <= n, NEW b \in Bijection(1..n, 0..(n - 1)),
           NEW extra, \A i \in 1..n : extra[i] = IF b[i] < L THEN 1 ELSE 0
    PROVE  Amounts(extra, 1..n) /\ SumOn(extra, 1..n) = L
<1> DEFINE I == 1..n
           J == 0..(n - 1)
           K == 0..(L - 1)
           h == [k \in J |-> IF k < L THEN 1 ELSE 0]
<1>1. n - 1 \in Int /\ L - 1 \in Int /\ 0 \in Int
  OBVIOUS
<1>2. /\ IsFiniteSet(J) /\ IsFiniteSet(K)
      /\ Cardinality(K) = IF 0 > L - 1 THEN 0 ELSE (L - 1) - 0 + 1
  BY <1>1, FS_Interval, Zenon
<1>3. Cardinality(K) = L
  BY <1>2
<1>4. /\ \A k \in J : h[k] \in Int
      /\ K \in SUBSET J /\ \A k \in K : h[k] = 1
      /\ \A k \in J \ K : h[k] = 0
  OBVIOUS
<1>5. \A i \in I : extra[i] = h[b[i]]
  BY DEF Bijection, Injection
<1>6. b \in Bijection(I, J)
  OBVIOUS
<1> HIDE DEF I, J, K, h
<1>7. Amounts(h, J)
  BY <1>2, <1>4 DEF Amounts
<1>8. SumOn(h, J) = SumOn(h, K)
  BY <1>4, <1>7, SumOverPart
<1>9. SumOn(h, K) = L
  BY <1>2, <1>3, <1>4, SumOfOnes
<1>10. Amounts(extra, I) /\ SumOn(extra, I) = SumOn(h, J)
  BY <1>5, <1>6, <1>7, SumRenamed
<1> QED
  BY <1>8, <1>9, <1>10 DEF I

\* Entries below a bound that are zero outside of Z.
LEMMA FewUnitsRemain ==
    ASSUME NEW S, IsFiniteSet(S), NEW W \in Nat \ {0}, NEW rem, \A i \in S : rem[i] \in 0..(W - 1)
    PROVE  /\ Amounts(rem, S)
           /\ \A L \in Int : SumOn(rem, S) = W * L =>
                 /\ L \in Nat
                 /\ L <= Cardinality({i \in S : rem[i] > 0})
<1> DEFINE Z == {i \in S : rem[i] > 0}
           one == [i \in S |-> IF i \in Z THEN 1 ELSE 0]
           top == [i \in S |-> W * one[i]]
<1>1. Amounts(rem, S) /\ SumOn(rem, S) \in Nat
  <2>1. \A i \in S : rem[i] \in Nat
    OBVIOUS
  <2>2. QED
    BY <2>1, SumOfNaturals
<1>2. /\ Z \in SUBSET S /\ \A i \in Z : one[i] = 1
      /\ \A i \in S \ Z : one[i] = 0
      /\ \A i \in S : one[i] \in Int /\ top[i] = W * one[i] /\ rem[i] <= top[i]
  OBVIOUS
<1> HIDE DEF Z, one, top
<1>3. IsFiniteSet(Z)
  BY <1>2, FS_Subset
<1>4. Amounts(one, S)
  BY <1>2 DEF Amounts
<1>5. SumOn(one, S) = SumOn(one, Z)
  BY <1>2, <1>4, SumOverPart
<1>6. SumOn(one, Z) = Cardinality(Z)
  BY <1>2, <1>3, SumOfOnes
<1>7. Amounts(top, S) /\ SumOn(top, S) = W * SumOn(one, S)
  BY <1>2, <1>4, SumScales
<1>8. SumOn(rem, S) <= SumOn(top, S)
  BY <1>1, <1>2, <1>7, SumsCompare
<1>9. Cardinality(Z) \in Nat
  BY <1>3, FS_CardinalityType
<1>10. ASSUME NEW L \in Int, SumOn(rem, S) = W * L PROVE L \in Nat /\ L <= Cardinality(Z)
  <2> DEFINE c == Cardinality(Z)
  <2>1. W * L <= W * c
    BY <1>5, <1>6, <1>7, <1>8, <1>10
  <2>2. W * L >= 0
    BY <1>1, <1>10
  <2> HIDE DEF c
  <2>3. c \in Int /\ W * c \in Int /\ W * L \in Int
    BY <1>9 DEF c
  <2>4. ~ (W * c < W * L)
    BY <2>1, <2>3
  <2>5. ~ (c < L)
    <3>1. \A x \in Int : x >= 1 => W * x >= W
      OBVIOUS
    <3>2. W * (L - c) = W * L - W * c
      BY <2>3
    <3>3. QED
      BY <2>1, <2>3, <3>1, <3>2
  <2>6. L >= 0
    BY <2>2, OtherFactor
  <2>7. QED
    BY <2>3, <2>5, <2>6 DEF c
<1> QED
  BY <1>1, <1>10 DEF Z

\* The three columns of a split: the floors, what they discard, and the extra units.
Columns(total, weights, floors, rem, extra) ==
    LET W == SumOn(weights, DOMAIN weights) IN
    /\ floors = [i \in DOMAIN weights |-> (total * weights[i]) \div W]
    /\ rem = [i \in DOMAIN weights |-> (total * weights[i]) % W]
    /\ \A i \in DOMAIN weights :
          extra[i] = Cardinality({k \in 0..((total - SumOn(floors, DOMAIN weights)) - 1) :
                                     (k % Len(weights)) = Pricing!Rank(rem, i)})

\* A share is its floor and one unit more if its turn comes.
LEMMA SharesAreFair ==
    ASSUME NEW total \in Nat, NEW weights \in Seq(Nat),
           NEW W \in Nat \ {0}, W = SumOn(weights, DOMAIN weights),
           NEW floors, NEW rem, NEW extra, Columns(total, weights, floors, rem, extra)
    PROVE  /\ Amounts(floors, DOMAIN weights) /\ Amounts(extra, DOMAIN weights)
           /\ SumOn(floors, DOMAIN weights) + SumOn(extra, DOMAIN weights) = total
           /\ \A i \in DOMAIN weights :
                 /\ floors[i] \in Int /\ extra[i] \in Int
                 /\ -W < (floors[i] + extra[i]) * W - total * weights[i]
                 /\ (floors[i] + extra[i]) * W - total * weights[i] < W
                 /\ weights[i] = 0 => floors[i] = 0 /\ extra[i] = 0
<1> DEFINE I == DOMAIN weights
           n == Len(weights)
           whole == [i \in I |-> total * weights[i]]
           back  == [i \in I |-> W * floors[i]]
           F == SumOn(floors, I)
           L == total - F
           Z == {i \in I : rem[i] > 0}
           rank == [i \in 1..n |-> Pricing!Rank(rem, i)]
<1>1. n \in Nat /\ I = 1..n /\ IsFiniteSet(I)
  <2>1. n \in Nat /\ I = 1..n
    OBVIOUS
  <2>2. QED
    BY <2>1, FS_Interval
<1>2. ASSUME NEW i \in I
      PROVE  /\ weights[i] \in Nat /\ floors[i] \in Int /\ rem[i] \in 0..(W - 1)
             /\ total * weights[i] = floors[i] * W + rem[i]
  <2> DEFINE m == total * weights[i]
  <2>1. weights[i] \in Nat /\ m \in Int
    OBVIOUS
  <2>2. floors[i] = m \div W /\ rem[i] = (m % W)
    BY <2>1 DEF Columns
  <2> HIDE DEF m
  <2>3. m \div W \in Int /\ (m % W) \in 0..(W - 1) /\ m = (m \div W) * W + (m % W)
    BY <2>1, Quotient
  <2>4. QED
    BY <2>1, <2>2, <2>3 DEF m
<1>3. /\ Amounts(floors, I) /\ Amounts(weights, I) /\ F \in Int
  <2>1. Amounts(floors, I) /\ Amounts(weights, I)
    BY <1>1, <1>2 DEF Amounts
  <2>2. QED
    BY <2>1, SumType
<1>4. /\ \A i \in I : /\ whole[i] = total * weights[i] /\ back[i] = W * floors[i]
                      /\ whole[i] = back[i] + rem[i]
      /\ rem \in [1..n -> Nat]
      /\ \A i \in I : rem[i] \in 0..(W - 1)
  <2>1. ASSUME NEW i \in I PROVE whole[i] = back[i] + rem[i]
    <3>1. floors[i] * W = W * floors[i]
      BY <1>2
    <3>2. QED
      BY <1>2, <3>1
  <2>2. rem \in [1..n -> Nat]
    <3>1. DOMAIN rem = I /\ rem = [i \in I |-> rem[i]] /\ \A i \in I : rem[i] \in Nat
      BY <1>2 DEF Columns
    <3>2. QED
      BY <1>1, <3>1
  <2>3. QED
    BY <1>2, <2>1, <2>2
<1> HIDE DEF whole, back, F
<1> HIDE DEF I
<1>5. SumOn(whole, I) = total * W /\ Amounts(whole, I)
  <2>1. total \in Int /\ Amounts(weights, I) /\ SumOn(weights, I) = W
    BY <1>3 DEF I
  <2>2. \A i \in I : whole[i] = total * weights[i]
    BY <1>4
  <2>3. Amounts(whole, I) /\ SumOn(whole, I) = total * SumOn(weights, I)
    BY <2>1, <2>2, SumScales
  <2>4. QED
    BY <2>1, <2>3
<1>6. SumOn(back, I) = W * F /\ Amounts(back, I)
  <2>1. W \in Int /\ Amounts(floors, I)
    BY <1>3
  <2>2. \A i \in I : back[i] = W * floors[i]
    BY <1>4
  <2>3. Amounts(back, I) /\ SumOn(back, I) = W * SumOn(floors, I)
    BY <2>1, <2>2, SumScales
  <2>4. QED
    BY <2>3 DEF F
<1>7. Amounts(rem, I)
  BY <1>1, <1>2 DEF Amounts
<1>8. SumOn(whole, I) = SumOn(back, I) + SumOn(rem, I) /\ SumOn(rem, I) \in Int
  <2>1. \A i \in I : whole[i] = back[i] + rem[i]
    BY <1>4
  <2>2. QED
    BY <1>6, <1>7, <2>1, SumsAdd, SumType
<1>9. SumOn(rem, I) = W * L /\ L \in Int
  <2>1. W * (total - F) = W * total - W * F /\ W * total = total * W /\ W * F \in Int /\ W * total \in Int
    BY <1>3
  <2>2. SumOn(rem, I) = W * total - W * F
    <3> DEFINE p == W * total
               q == W * F
    <3>1. /\ p \in Int /\ q \in Int /\ SumOn(whole, I) = p /\ SumOn(back, I) = q
      BY <1>5, <1>6, <2>1
    <3> HIDE DEF p, q
    <3>2. SumOn(rem, I) = p - q
      BY <1>8, <3>1
    <3>3. QED
      BY <3>2 DEF p, q
  <2>3. W * L = W * total - W * F /\ L \in Int
    BY <1>3, <2>1
  <2>4. QED
    BY <2>2, <2>3, Zenon
<1>10. L \in Nat /\ L <= Cardinality(Z)
  <2> HIDE DEF L
  <2>1. \A i \in I : rem[i] \in 0..(W - 1)
    BY <1>4
  <2>2. \A l \in Int : SumOn(rem, I) = W * l =>
            l \in Nat /\ l <= Cardinality({i \in I : rem[i] > 0})
    BY <1>1, <2>1, FewUnitsRemain, Zenon
  <2>3. QED
    BY <1>9, <2>2
<1>11. Cardinality(Z) <= n /\ Cardinality(Z) \in Nat
  <2>1. Cardinality(1..n) = n /\ IsFiniteSet(1..n)
    <3> HIDE DEF n
    <3>1. n \in Int /\ 1 \in Int
      BY <1>1
    <3>2. IsFiniteSet(1..n) /\ Cardinality(1..n) = IF 1 > n THEN 0 ELSE n - 1 + 1
      BY <3>1, FS_Interval, Zenon
    <3>3. QED
      BY <1>1, <3>2
  <2>2. Z \in SUBSET (1..n)
    BY <1>1
  <2> HIDE DEF Z, n
  <2>3. IsFiniteSet(Z) /\ Cardinality(Z) <= n
    <3> DEFINE J == 1..n
    <3>1. Cardinality(J) = n /\ IsFiniteSet(J) /\ Z \in SUBSET J
      BY <2>1, <2>2
    <3> HIDE DEF J
    <3>2. QED
      BY <3>1, FS_Subset
  <2>4. QED
    BY <2>3, FS_CardinalityType
<1>12. rank \in Bijection(1..n, 0..(n - 1))
  BY <1>1, <1>4, TurnsAreTaken
<1>13. \A i \in 1..n : rem[i] = 0 => rank[i] >= Cardinality(Z)
  BY <1>1, <1>4, TurnsAreTaken
<1>14. \A i \in I : rank[i] \in 0..(n - 1) /\ rank[i] = Pricing!Rank(rem, i)
  BY <1>1, <1>12 DEF Bijection, Injection
<1> HIDE DEF L, Z, rank
<1>15. L <= n /\ L \in Nat
  BY <1>1, <1>10, <1>11
<1>16. ASSUME NEW i \in I
       PROVE  extra[i] = IF rank[i] < L THEN 1 ELSE 0
  <2>1. extra[i] = Cardinality({k \in 0..(L - 1) : (k % n) = rank[i]})
    BY <1>14 DEF Columns, L, F, I
  <2>2. QED
    BY <1>1, <1>14, <1>15, <2>1, OneTurnEach
<1>17. Amounts(extra, I) /\ SumOn(extra, I) = L
  <2> HIDE DEF n
  <2>1. \A i \in 1..n : extra[i] = IF rank[i] < L THEN 1 ELSE 0
    BY <1>1, <1>16
  <2>2. Amounts(extra, 1..n) /\ SumOn(extra, 1..n) = L
    BY <1>1, <1>12, <1>15, <2>1, TurnsAddUp
  <2>3. QED
    BY <1>1, <2>2
<1>18. ASSUME NEW i \in I
       PROVE  /\ floors[i] \in Int /\ extra[i] \in Int
              /\ -W < (floors[i] + extra[i]) * W - total * weights[i]
              /\ (floors[i] + extra[i]) * W - total * weights[i] < W
              /\ weights[i] = 0 => floors[i] = 0 /\ extra[i] = 0
  <2> DEFINE f == floors[i]
             e == extra[i]
             r == rem[i]
             w == weights[i]
  <2>1. f \in Int /\ r \in 0..(W - 1) /\ w \in Nat /\ total * w = f * W + r /\ total * w \in Int
    BY <1>2 DEF I
  <2>2. e \in {0, 1} /\ (r = 0 => e = 0)
    <3> HIDE DEF n
    <3>1. e = IF rank[i] < L THEN 1 ELSE 0
      BY <1>16
    <3>2. r = 0 => rank[i] >= Cardinality(Z)
      BY <1>1, <1>13
    <3>3. rank[i] \in Int
      BY <1>1, <1>14
    <3>4. QED
      BY <1>10, <1>11, <3>1, <3>2, <3>3
  <2> HIDE DEF f, e, r, w
  <2>3. (f + e) * W = f * W + (IF e = 1 THEN W ELSE 0) /\ f * W \in Int
    <3>1. (f + 0) * W = f * W /\ (f + 1) * W = f * W + W /\ f * W \in Int /\ W \in Int
      BY <2>1
    <3>2. CASE e = 0
      BY <3>1, <3>2
    <3>3. CASE e = 1
      BY <3>1, <3>3
    <3>4. QED
      BY <2>2, <3>2, <3>3
  <2>4. -W < (f + e) * W - total * w /\ (f + e) * W - total * w < W
    <3> DEFINE P == f * W
               Q == total * w
    <3> HIDE DEF P, Q
    <3>1. P \in Int /\ Q = P + r /\ (f + e) * W = P + (IF e = 1 THEN W ELSE 0)
      BY <2>1, <2>3 DEF P, Q
    <3>2. -W < (f + e) * W - Q /\ (f + e) * W - Q < W
      <4> DEFINE S == (f + e) * W
      <4>1. S = P + (IF e = 1 THEN W ELSE 0)
        BY <3>1
      <4> HIDE DEF S
      <4>2. r \in 0..(W - 1) /\ e \in {0, 1} /\ (r = 0 => e = 0) /\ P \in Int /\ Q = P + r
        BY <2>1, <2>2, <3>1
      <4>3. -W < S - Q /\ S - Q < W
        BY <4>1, <4>2
      <4>4. QED
        BY <4>3 DEF S
    <3>3. QED
      BY <3>2 DEF P, Q
  <2>5. ASSUME w = 0 PROVE f = 0 /\ e = 0
    <3>1. total * w = 0
      BY <2>5
    <3>2. f * W + r = 0
      BY <2>1, <3>1
    <3>3. f = 0 /\ r = 0
      <4>1. f \in Int /\ W \in Nat \ {0} /\ f * W \in Int
        BY <2>1, <2>3
      <4>2. f >= 1 => f * W >= W
        BY <4>1
      <4>3. f <= -1 => f * W <= -W
        BY <4>1
      <4>4. f = 0
        BY <2>1, <3>2, <4>1, <4>2, <4>3
      <4>5. QED
        BY <2>1, <3>2, <4>4
    <3>4. QED
      BY <2>2, <3>3
  <2>6. f \in Int /\ e \in Int
    BY <2>1, <2>2
  <2>7. QED
    BY <2>4, <2>5, <2>6 DEF f, e, r, w
<1>19. F + SumOn(extra, I) = total
  BY <1>3, <1>17 DEF L
<1>20. QED
  BY <1>3, <1>17, <1>18, <1>19 DEF F, I

\* A split is one of the whole amount, on either side of zero.
LEMMA SplitsAreFair ==
    ASSUME NEW split \in Split
    PROVE  LET weights == split.weights
               weight  == Pricing!SumOf(weights)
               shares  == Pricing!allocate(split.amount, weights)
           IN  /\ Pricing!SumOf(shares) = split.amount
               /\ \A i \in DOMAIN weights :
                     /\ shares[i] \in Int
                     /\ Pricing!Magnitude(shares[i] * weight - split.amount * weights[i]) < weight
                     /\ weights[i] = 0 => shares[i] = 0
<1> DEFINE weights == split.weights
           amount == split.amount
           I == DOMAIN weights
           n == Len(weights)
           W == Pricing!SumOf(weights)
           total == Pricing!Magnitude(amount)
           floors == [i \in I |-> (total * weights[i]) \div W]
           rem == [i \in I |-> (total * weights[i]) % W]
           L == total - Pricing!SumOf(floors)
           extra == [i \in I |-> Cardinality({k \in 0..(L - 1) : (k % n) = Pricing!Rank(rem, i)})]
           share == [i \in I |-> floors[i] + extra[i]]
           shares == Pricing!allocate(amount, weights)
<1>1. weights \in Seq(Nat) /\ amount \in Int /\ W > 0
  BY DEF Split
<1>2. IsFiniteSet(I)
  <2>1. n \in Nat /\ I = 1..n
    BY <1>1
  <2>2. QED
    BY <2>1, FS_Interval
<1>3. W = SumOn(weights, I) /\ W \in Nat \ {0} /\ \A i \in I : weights[i] \in Nat
  <2>1. W = SumOn(weights, I)
    BY SumOfIsSumOn
  <2>2. \A i \in I : weights[i] \in Nat
    BY <1>1
  <2>3. SumOn(weights, I) \in Nat
    BY <1>2, <2>2, SumOfNaturals
  <2>4. QED
    BY <1>1, <2>1, <2>2, <2>3
<1>4. total \in Nat /\ total = IF amount < 0 THEN -amount ELSE amount
  BY <1>1 DEF Pricing!Magnitude
<1>5. DOMAIN floors = I /\ Pricing!SumOf(floors) = SumOn(floors, I)
  BY SumOfIsSumOn
<1>6. Columns(total, weights, floors, rem, extra)
  BY <1>3, <1>5, Zenon DEF Columns
<1>7. shares = [i \in I |-> IF amount < 0 THEN -share[i] ELSE share[i]]
  BY PricingCounts DEF Pricing!allocate
<1> HIDE DEF total, floors, rem, extra, shares, W, I, weights, amount
<1>8. /\ Amounts(floors, I) /\ Amounts(extra, I)
      /\ SumOn(floors, I) + SumOn(extra, I) = total
      /\ \A i \in I :
             /\ floors[i] \in Int /\ extra[i] \in Int
             /\ -W < (floors[i] + extra[i]) * W - total * weights[i]
             /\ (floors[i] + extra[i]) * W - total * weights[i] < W
             /\ weights[i] = 0 => floors[i] = 0 /\ extra[i] = 0
  BY <1>1, <1>3, <1>4, <1>6, SharesAreFair DEF I
<1>9. Amounts(share, I) /\ SumOn(share, I) = total
  <2>1. \A i \in I : share[i] = floors[i] + extra[i]
    OBVIOUS
  <2> HIDE DEF share
  <2>2. QED
    BY <1>8, <2>1, SumsAdd
<1>10. Pricing!SumOf(shares) = amount
  <2>1. DOMAIN shares = I /\ Pricing!SumOf(shares) = SumOn(shares, I)
    BY <1>7, SumOfIsSumOn
  <2>2. PICK c \in Int : c = IF amount < 0 THEN -1 ELSE 1
    OBVIOUS
  <2>3. \A i \in I : shares[i] = c * share[i]
    <3>1. \A i \in I : share[i] \in Int
      BY <1>9 DEF Amounts
    <3> HIDE DEF share
    <3>2. QED
      BY <1>7, <2>2, <3>1
  <2> HIDE DEF share
  <2>4. SumOn(shares, I) = c * SumOn(share, I)
    BY <1>9, <2>3, SumScales
  <2>5. QED
    BY <1>1, <1>4, <1>9, <2>1, <2>2, <2>4
<1>11. ASSUME NEW i \in I
       PROVE  /\ shares[i] \in Int
              /\ Pricing!Magnitude(shares[i] * W - amount * weights[i]) < W
              /\ weights[i] = 0 => shares[i] = 0
  <2> DEFINE s == share[i]
             w == weights[i]
             gap == s * W - total * w
  <2>1. s = floors[i] + extra[i] /\ s \in Int /\ w \in Int
    BY <1>3, <1>8
  <2>2. -W < gap /\ gap < W /\ (w = 0 => s = 0)
    BY <1>8
  <2>3. shares[i] = IF amount < 0 THEN -s ELSE s
    BY <1>7
  <2> HIDE DEF s, w
  <2>4. s * W \in Int /\ total * w \in Int
    BY <1>3, <1>4, <2>1
  <2>5. (-s) * W = -(s * W) /\ (-total) * w = -(total * w)
    BY <1>3, <1>4, <2>1
  <2>6. shares[i] * W - amount * w = IF amount < 0 THEN -gap ELSE gap
    <3>1. CASE amount < 0
      <4>1. amount = -total /\ shares[i] = -s
        BY <1>1, <1>4, <2>3, <3>1
      <4>2. shares[i] * W = -(s * W) /\ amount * w = -(total * w)
        BY <2>5, <4>1
      <4>3. QED
        BY <2>4, <3>1, <4>2
    <3>2. CASE ~ (amount < 0)
      BY <1>4, <2>3, <3>2
    <3>3. QED
      BY <3>1, <3>2
  <2>7. gap \in Int
    BY <2>4
  <2> HIDE DEF gap
  <2>8. Pricing!Magnitude(shares[i] * W - amount * w) < W
    BY <1>3, <2>2, <2>6, <2>7 DEF Pricing!Magnitude
  <2>9. QED
    BY <2>1, <2>2, <2>3, <2>8 DEF s, w
<1> QED
  BY <1>10, <1>11 DEF shares, W, I, weights, amount

-----------------------------------------------------------------------------
(* Writing an amount and reading it again                                  *)

\* Powers of ten grow beyond every number.
LEMMA PowersOfTen ==
    /\ Pricing!Ten \in [Nat -> Nat \ {0}] /\ Pricing!Ten[0] = 1
    /\ \A k \in Nat : Pricing!Ten[k + 1] = 10 * Pricing!Ten[k] /\ Pricing!Ten[k] > k
<1> DEFINE t == Pricing!Ten
<1>1. t = CHOOSE g : Powers(10, Nat, g)
  BY DEF Pricing!Ten, Powers
<1>2. Powers(10, Nat, t)
  <2>1. \E g : Powers(10, Nat, g)
    BY PowersAreDefined
  <2>2. QED
    BY <1>1, <2>1, Zenon
<1> HIDE DEF t
<1>3. t[0] = 1 /\ \A k \in Nat : t[k + 1] = 10 * t[k]
  <2>1. \A k \in Nat : k + 1 \in Nat /\ k + 1 # 0 /\ (k + 1) - 1 = k
    OBVIOUS
  <2>2. t[0] = 1
    BY <1>2 DEF Powers
  <2>3. QED
    BY <1>2, <2>1, <2>2 DEF Powers
<1> DEFINE G == {k \in Nat : t[k] \in Nat /\ t[k] > k}
<1>4. Nat \subseteq G
  <2>1. 0 \in G
    BY <1>3
  <2>2. ASSUME NEW k \in Nat, k \in G PROVE k + 1 \in G
    BY <1>3, <2>2
  <2> HIDE DEF G
  <2>3. QED
    BY <2>1, <2>2, NaturalInduction
<1>5. DOMAIN t = Nat /\ t = [k \in Nat |-> t[k]]
  BY <1>2 DEF Powers
<1>6. t \in [Nat -> Nat \ {0}]
  BY <1>4, <1>5
<1> QED
  BY <1>3, <1>4, <1>6 DEF t

\* Division by ten times a number is division by the number and then by ten.
LEMMA TenTimes ==
    ASSUME NEW n \in Nat, NEW t \in Nat \ {0}
    PROVE  /\ n \div t \in Nat /\ n \div (10 * t) \in Nat
           /\ 10 * (n \div (10 * t)) + ((n \div t) % 10) = n \div t
<1> DEFINE q == n \div t
           r == (n % t)
           u == q \div 10
           v == (q % 10)
<1>1. q \in Int /\ r \in 0..(t - 1) /\ n = q * t + r
  BY Quotient
<1> HIDE DEF q, r
<1>2. q \in Nat
  <2>1. q <= -1 => q * t <= -t
    BY <1>1
  <2>2. q * t \in Int
    BY <1>1
  <2>3. QED
    BY <1>1, <2>1, <2>2
<1>3. u \in Nat /\ v \in 0..9 /\ q = u * 10 + v
  BY <1>2
<1> HIDE DEF u, v
<1>4. n \div (10 * t) = u
  <2> DEFINE d == 10 * t
             P == u * t
             Q == q * t
  <2>1. d \in Nat \ {0} /\ P \in Int /\ Q \in Int
    BY <1>2, <1>3
  <2>2. u * d = 10 * P /\ Q = 10 * P + v * t
    BY <1>3
  <2>3. v * t >= 0 /\ v * t <= 9 * t /\ v * t \in Int
    <3>1. v \in {0, 1, 2, 3, 4, 5, 6, 7, 8, 9}
      BY <1>3
    <3>2. QED
      BY <3>1
  <2>4. u * d <= n /\ n < u * d + d
    <3> DEFINE w == v * t
    <3>1. /\ n = Q + r /\ r \in 0..(t - 1) /\ w >= 0 /\ w <= 9 * t /\ w \in Int
          /\ u * d = 10 * P /\ Q = 10 * P + w /\ d = 10 * t
      BY <1>1, <2>2, <2>3
    <3> HIDE DEF w, P, Q, d
    <3>2. QED
      BY <2>1, <3>1
  <2> HIDE DEF d
  <2>5. n \div d = u
    BY <1>3, <2>1, <2>4, QuotientIs
  <2>6. QED
    BY <2>5 DEF d
<1> QED
  BY <1>2, <1>3, <1>4 DEF q, u, v

\* A finite set of integers has a greatest one.
LEMMA GreatestInteger ==
    ASSUME NEW T, IsFiniteSet(T), T # {}, T \subseteq Int
    PROVE  Pricing!Max(T) \in T /\ \A y \in T : Pricing!Max(T) >= y
<1> DEFINE R == {p \in T \X T : p[1] > p[2]}
<1>1. Ranks(R, T)
  <2>1. \A x, y \in T : <<x, y>> \in R <=> x > y
    OBVIOUS
  <2>2. \A x \in T : <<x, x>> \notin R
    BY <2>1
  <2>3. \A x, y \in T : x # y => <<x, y>> \in R \/ <<y, x>> \in R
    BY <2>1
  <2>4. \A x, y, z \in T : <<x, y>> \in R /\ <<y, z>> \in R => <<x, z>> \in R
    BY <2>1
  <2> HIDE DEF R
  <2>5. QED
    BY <2>2, <2>3, <2>4 DEF Ranks
<1>2. PICK x \in T : \A y \in T \ {x} : <<x, y>> \in R
  <2> HIDE DEF R
  <2>1. QED
    BY <1>1, FirstOfAll
<1>3. \A y \in T : x >= y
  <2>1. \A y \in T \ {x} : x > y
    BY <1>2
  <2>2. x \in Int /\ \A y \in T : y \in Int
    OBVIOUS
  <2>3. QED
    BY <2>1, <2>2
<1> QED
  BY <1>3 DEF Pricing!Max

\* The equation of NumberOf over the sets of positions in D.
Reads(D, digits, g) ==
    g = [T \in D |-> IF T = {} THEN 0
                     ELSE 10 * g[T \ {Pricing!Max(T)}] + digits[Pricing!Max(T)]]

\* A number is read from the left, digit by digit.
LEMMA NumberIsRead ==
    ASSUME NEW L \in Nat, NEW digits \in [1..L -> Nat]
    PROVE  \E g \in [0..L -> Nat] :
              /\ g[0] = 0 /\ \A k \in 1..L : g[k] = 10 * g[k - 1] + digits[k]
              /\ Pricing!NumberOf(digits) = g[L]
<1> DEFINE S == 1..L
           pick == [T \in SUBSET S |-> Pricing!Max(T)]
           op == [p \in S \X Nat |-> 10 * p[2] + digits[p[1]]]
<1>1. IsFiniteSet(S) /\ S \subseteq Int
  <2>1. 1 \in Int /\ L \in Int
    OBVIOUS
  <2>2. QED
    BY <2>1, FS_Interval
<1>2. \A T \in SUBSET S : T # {} => Pricing!Max(T) \in T /\ \A y \in T : Pricing!Max(T) >= y
  <2> HIDE DEF S
  <2>1. QED
    BY <1>1, FS_Subset, GreatestInteger
<1>3. \A T \in SUBSET S : T # {} => pick[T] \in T /\ pick[T] = Pricing!Max(T)
  BY <1>2
<1>4. op \in [S \X Nat -> Nat] /\ \A x \in S : \A v \in Nat : op[<<x, v>>] = 10 * v + digits[x]
  BY SMTT(30)
<1> HIDE DEF pick, op
<1>5. PICK g \in [SUBSET S -> Nat] : Folds(SUBSET S, 0, pick, op, g)
  <2> HIDE DEF S
  <2>1. 0 \in Nat
    OBVIOUS
  <2>2. QED
    BY <1>1, <1>3, <1>4, <2>1, FoldsAreDefined
<1>6. Reads(SUBSET S, digits, g)
  <2>1. ASSUME NEW T \in SUBSET S, T # {}
        PROVE  op[<<pick[T], g[T \ {pick[T]}]>>]
                  = 10 * g[T \ {Pricing!Max(T)}] + digits[Pricing!Max(T)]
    <3>1. Pricing!Max(T) \in S /\ g[T \ {Pricing!Max(T)}] \in Nat /\ pick[T] = Pricing!Max(T)
      BY <1>2, <1>3, <2>1
    <3>2. QED
      BY <1>4, <3>1
  <2>2. QED
    BY <1>5, <2>1 DEF Folds, Reads
<1> DEFINE iter == CHOOSE h : Reads(SUBSET S, digits, h)
<1>7. DOMAIN digits = S
  OBVIOUS
<1>8. Pricing!NumberOf(digits) = iter[S]
  BY <1>7 DEF Pricing!NumberOf, Pricing!FoldLeft, Pricing!MapThenFoldSet, Reads
<1>9. Reads(SUBSET S, digits, iter)
  BY <1>6
<1> HIDE DEF iter
<1> DEFINE read == [k \in 0..L |-> iter[1..k]]
<1>10. \A k \in 1..L : /\ 1..k \in SUBSET S /\ 1..k # {} /\ Pricing!Max(1..k) = k
                       /\ (1..k) \ {k} = 1..(k - 1)
  <2>1. ASSUME NEW k \in 1..L
        PROVE  1..k \in SUBSET S /\ 1..k # {} /\ (1..k) \ {k} = 1..(k - 1) /\ k \in 1..k
    <3>1. k \in 1..k /\ \A x \in 1..k : x \in 1..L
      OBVIOUS
    <3>2. \A x : x \in (1..k) \ {k} <=> x \in 1..(k - 1)
      OBVIOUS
    <3>3. (1..k) \ {k} = 1..(k - 1)
      BY <3>2
    <3>4. QED
      BY <3>1, <3>3
  <2>2. ASSUME NEW k \in 1..L
        PROVE  Pricing!Max(1..k) = k
    <3> DEFINE m == Pricing!Max(1..k)
    <3>1. m \in 1..k /\ m >= k
      BY <1>2, <2>1
    <3> HIDE DEF m
    <3>2. m = k
      BY <3>1
    <3>3. QED
      BY <3>2 DEF m
  <2>3. QED
    BY <2>1, <2>2
<1>11. 1..0 = {} /\ {} \in SUBSET S
  OBVIOUS
<1> HIDE DEF S
<1>12. read[0] = 0
  BY <1>9, <1>11 DEF Reads
<1>13. ASSUME NEW k \in 1..L PROVE read[k] = 10 * read[k - 1] + digits[k]
  <2>1. iter[1..k] = 10 * iter[1..(k - 1)] + digits[k]
    <3> DEFINE T == 1..k
               U == 1..(k - 1)
    <3>1. T \in SUBSET S /\ T # {} /\ Pricing!Max(T) = k /\ T \ {k} = U
      BY <1>10
    <3> HIDE DEF T, U
    <3>2. iter[T] = 10 * iter[U] + digits[k]
      BY <1>9, <3>1 DEF Reads
    <3>3. QED
      BY <3>2 DEF T, U
  <2>2. k \in 0..L /\ k - 1 \in 0..L
    OBVIOUS
  <2>3. QED
    BY <2>1, <2>2
<1> HIDE DEF read
<1>14. \A k \in 0..L : read[k] \in Nat
  <2> DEFINE G == {k \in Nat : k \in 0..L => read[k] \in Nat}
  <2>1. 0 \in G
    BY <1>12
  <2>2. ASSUME NEW k \in Nat, k \in G PROVE k + 1 \in G
    <3>1. ASSUME k + 1 \in 0..L PROVE read[k + 1] \in Nat
      <4>1. k \in 0..L /\ k + 1 \in 1..L /\ (k + 1) - 1 = k
        BY <3>1
      <4>2. read[k + 1] = 10 * read[k] + digits[k + 1] /\ read[k] \in Nat
        BY <1>13, <2>2, <4>1
      <4>3. QED
        BY <4>1, <4>2
    <3>2. QED
      BY <3>1
  <2>3. Nat \subseteq G
    <3> HIDE DEF G
    <3>1. QED
      BY <2>1, <2>2, NaturalInduction
  <2>4. QED
    BY <2>3
<1>15. read \in [0..L -> Nat] /\ read[L] = iter[S]
  BY <1>14 DEF read, S
<1> QED
  BY <1>8, <1>12, <1>13, <1>15

\* Enough digits are printed for every amount.
LEMMA EnoughDigits ==
    ASSUME NEW n \in Nat, NEW least \in Nat
    PROVE  /\ Pricing!MinDigits(n, least) \in Nat /\ Pricing!MinDigits(n, least) >= least
           /\ n < Pricing!Ten[Pricing!MinDigits(n, least)]
<1> DEFINE t == Pricing!Ten
           Long == {k \in Nat : k >= least /\ n < t[k]}
           Fits(k) == n < t[k] /\ (k = least \/ n >= t[k - 1])
<1>1. /\ \A k \in Nat : t[k] \in Nat /\ t[k] > k
  BY PowersOfTen
<1>2. least + n \in Long
  BY <1>1
<1>3. PICK m \in Long : \A k \in Long : m <= k
  <2>1. Long # {} /\ Long \in SUBSET Nat
    BY <1>2
  <2> HIDE DEF Long
  <2>2. QED
    BY <2>1, LeastNatural
<1>4. m \in least..(least + n) /\ n < t[m]
  BY <1>2, <1>3
<1>5. m # least => n >= t[m - 1]
  <2>1. m # least => m - 1 \in Nat /\ m - 1 >= least /\ m - 1 \notin Long
    BY <1>3
  <2>2. m # least => t[m - 1] \in Nat
    BY <1>1, <2>1
  <2>3. QED
    BY <2>1, <2>2
<1>6. \E k \in least..(least + n) : Fits(k)
  BY <1>4, <1>5
<1>7. Pricing!MinDigits(n, least) = CHOOSE k \in least..(least + n) : Fits(k)
  BY DEF Pricing!MinDigits
<1>8. Pricing!MinDigits(n, least) \in least..(least + n) /\ Fits(Pricing!MinDigits(n, least))
  <2> HIDE DEF Fits
  <2>1. QED
    BY <1>6, <1>7
<1> QED
  BY <1>8

\* Enough digits of a number stand for the number.
LEMMA DigitsAreTheNumber ==
    ASSUME NEW n \in Nat, NEW L \in Nat, n < Pricing!Ten[L],
           NEW digits, digits = [i \in 1..L |-> (n \div Pricing!Ten[L - i]) % 10]
    PROVE  digits \in [1..L -> Nat] /\ Pricing!NumberOf(digits) = n
<1> DEFINE t == Pricing!Ten
<1>1. t \in [Nat -> Nat \ {0}] /\ t[0] = 1 /\ \A k \in Nat : t[k + 1] = 10 * t[k]
  BY PowersOfTen
<1>11. n < t[L] /\ \A k \in Nat : t[k] \in Nat \ {0} /\ t[k + 1] = 10 * t[k] /\ k + 1 \in Nat
  <2>1. n < t[L]
    OBVIOUS
  <2> HIDE DEF t
  <2>2. \A k \in Nat : t[k] \in Nat \ {0}
    BY <1>1
  <2>3. \A k \in Nat : t[k + 1] = 10 * t[k]
    BY <1>1
  <2>4. \A k \in Nat : k + 1 \in Nat
    OBVIOUS
  <2>5. QED
    BY <2>1, <2>2, <2>3, <2>4, Zenon
<1>2. \A k \in Nat : n \div t[k] \in Nat
  <2>1. ASSUME NEW k \in Nat PROVE n \div t[k] \in Nat
    <3>1. t[k] \in Nat \ {0}
      BY <1>1
    <3>2. QED
      BY <3>1, TenTimes
  <2>2. QED
    BY <2>1
<1> DEFINE cut == [k \in Nat |-> n \div t[k]]
<1>3. \A k \in Nat : cut[k] \in Nat /\ 10 * cut[k + 1] + (cut[k] % 10) = cut[k]
  <2>1. ASSUME NEW k \in Nat PROVE 10 * cut[k + 1] + (cut[k] % 10) = cut[k]
    <3>1. t[k] \in Nat \ {0} /\ t[k + 1] = 10 * t[k] /\ k + 1 \in Nat
      <4> HIDE DEF t
      <4>1. QED
        BY <1>11
    <3>2. 10 * (n \div (10 * t[k])) + ((n \div t[k]) % 10) = n \div t[k]
      BY <3>1, TenTimes
    <3>3. cut[k] = n \div t[k] /\ cut[k + 1] = n \div (10 * t[k])
      BY <3>1
    <3>4. QED
      BY <3>2, <3>3
  <2>2. QED
    BY <1>2, <2>1
<1>4. cut[0] = n
  <2>1. 1 \in Nat \ {0} /\ n \in Int /\ n * 1 <= n /\ n < n * 1 + 1
    OBVIOUS
  <2>2. n \div 1 = n
    BY <2>1, QuotientIs
  <2>3. QED
    BY <1>1, <2>2
<1>5. cut[L] = 0
  <2>1. t[L] \in Nat \ {0} /\ 0 \in Int /\ 0 * t[L] <= n /\ n < 0 * t[L] + t[L] /\ n \in Int
    <3> HIDE DEF t
    <3>1. t[L] \in Nat \ {0} /\ n < t[L]
      BY <1>11
    <3>2. \A x \in Nat : 0 * x = 0
      OBVIOUS
    <3>3. 0 * t[L] = 0
      BY <3>1, <3>2
    <3>4. QED
      BY <3>1, <3>3
  <2>2. n \div t[L] = 0
    BY <2>1, QuotientIs
  <2>3. QED
    BY <2>2
<1>6. \A i \in 1..L : digits[i] = cut[L - i] % 10 /\ L - i \in Nat
  OBVIOUS
<1> HIDE DEF cut, t
<1>7. digits \in [1..L -> Nat]
  <2>1. \A i \in 1..L : digits[i] \in Nat
    <3>1. \A x \in Nat : x % 10 \in Nat
      OBVIOUS
    <3>2. QED
      BY <1>3, <1>6, <3>1
  <2>2. digits = [i \in 1..L |-> digits[i]]
    OBVIOUS
  <2>3. QED
    BY <2>1, <2>2
<1>8. PICK g \in [0..L -> Nat] :
          /\ g[0] = 0 /\ \A k \in 1..L : g[k] = 10 * g[k - 1] + digits[k]
          /\ Pricing!NumberOf(digits) = g[L]
  BY <1>7, NumberIsRead
<1> DEFINE G == {k \in Nat : k \in 0..L => g[k] = cut[L - k]}
<1>9. Nat \subseteq G
  <2>1. 0 \in G
    BY <1>5, <1>8
  <2>2. ASSUME NEW k \in Nat, k \in G PROVE k + 1 \in G
    <3>1. ASSUME k + 1 \in 0..L PROVE g[k + 1] = cut[L - (k + 1)]
      <4> DEFINE j == L - (k + 1)
      <4>1. k + 1 \in 1..L /\ (k + 1) - 1 = k /\ k \in 0..L /\ j \in Nat /\ j + 1 = L - k
        BY <3>1
      <4>2. g[k + 1] = 10 * g[k] + digits[k + 1]
        BY <1>8, <4>1
      <4>3. g[k] = cut[j + 1] /\ digits[k + 1] = cut[j] % 10
        BY <1>6, <2>2, <4>1
      <4>4. 10 * cut[j + 1] + (cut[j] % 10) = cut[j]
        BY <1>3, <4>1
      <4>5. g[k + 1] = cut[j]
        BY <4>2, <4>3, <4>4
      <4>6. QED
        BY <4>5
    <3>2. QED
      BY <3>1
  <2>3. QED
    <3> HIDE DEF G
    <3>1. QED
      BY <2>1, <2>2, NaturalInduction
<1>10. g[L] = cut[L - L] /\ L - L = 0
  BY <1>9
<1> QED
  BY <1>4, <1>7, <1>8, <1>10

\* What is written of an amount is read as the amount.
LEMMA AmountsAreReadAgain ==
    ASSUME NEW amount \in Int, NEW exponent \in Nat
    PROVE  LET written == Pricing!toDecimalString(amount, exponent)
           IN  /\ Pricing!CanParse(written, exponent)
               /\ Pricing!parseDecimal(written, exponent) = amount
<1> DEFINE n == Pricing!Magnitude(amount)
           L == Pricing!MinDigits(n, exponent + 1)
           digits == [i \in 1..L |-> (n \div Pricing!Ten[L - i]) % 10]
           whole == SubSeq(digits, 1, L - exponent)
           fraction == SubSeq(digits, L - exponent + 1, L)
           written == Pricing!toDecimalString(amount, exponent)
<1>1. n \in Nat /\ n = IF amount < 0 THEN -amount ELSE amount
  BY DEF Pricing!Magnitude
<1>2. L \in Nat /\ L >= exponent + 1 /\ n < Pricing!Ten[L]
  <2> HIDE DEF n
  <2>1. exponent + 1 \in Nat
    OBVIOUS
  <2>2. QED
    BY <1>1, <2>1, EnoughDigits
<1>3. written = [negative |-> amount < 0, whole |-> whole, fraction |-> fraction]
  BY DEF Pricing!toDecimalString
<1> HIDE DEF n, L
<1>4. digits \in [1..L -> Nat] /\ Pricing!NumberOf(digits) = n
  <2> DEFINE d == digits
  <2>1. d = [i \in 1..L |-> (n \div Pricing!Ten[L - i]) % 10]
    OBVIOUS
  <2> HIDE DEF digits
  <2>2. QED
    BY <1>1, <1>2, <2>1, DigitsAreTheNumber
<1> HIDE DEF digits
<1>5. digits \in Seq(Nat) /\ Len(digits) = L
  BY <1>2, <1>4
<1>6. /\ whole \in Seq(Nat) /\ Len(whole) = L - exponent
      /\ fraction \in Seq(Nat) /\ Len(fraction) = exponent
      /\ \A i \in 1..(L - exponent) : whole[i] = digits[i]
      /\ \A i \in 1..exponent : fraction[i] = digits[L - exponent + i]
  <2>1. /\ whole \in Seq(Nat) /\ Len(whole) = L - exponent
        /\ \A i \in 1..(L - exponent) : whole[i] = digits[i]
    BY <1>2, <1>4, <1>5
  <2>2. /\ fraction \in Seq(Nat) /\ Len(fraction) = exponent
        /\ \A i \in 1..exponent : fraction[i] = digits[L - exponent + i]
    BY <1>2, <1>4, <1>5
  <2>3. QED
    BY <2>1, <2>2
<1> HIDE DEF whole, fraction
<1>7. Pricing!Zeroes(exponent - Len(fraction)) = <<>>
  <2>1. exponent - Len(fraction) = 0
    BY <1>6
  <2>2. Pricing!Zeroes(0) = <<>>
    BY DEF Pricing!Zeroes
  <2>3. QED
    BY <2>1, <2>2
<1>8. whole \o (fraction \o <<>>) = digits
  <2>1. fraction \o <<>> = fraction
    BY <1>6, ConcatEmptySeq
  <2>2. 1 \in 1..(Len(digits) + 1) /\ L - exponent \in 0..Len(digits) /\ L \in (L - exponent)..Len(digits)
        /\ 1 - 1 = 0
    BY <1>2, <1>5
  <2>3. SubSeq(digits, 1, L - exponent) \o SubSeq(digits, L - exponent + 1, L) = SubSeq(digits, 1, L)
    BY <1>5, <2>2, ConcatAdjacentSubSeq
  <2>4. SubSeq(digits, 1, L) = digits
    BY <1>5, SubSeqFull
  <2>5. QED
    BY <2>1, <2>3, <2>4 DEF whole, fraction
<1>9. Pricing!CanParse(written, exponent)
  BY <1>2, <1>3, <1>6 DEF Pricing!CanParse
<1>10. Pricing!parseDecimal(written, exponent) = IF amount < 0 THEN -n ELSE n
  <2> HIDE DEF written
  <2>1. written.whole = whole /\ written.fraction = fraction /\ (written.negative <=> amount < 0)
    BY <1>3
  <2>2. written.whole \o (written.fraction \o Pricing!Zeroes(exponent - Len(written.fraction))) = digits
    BY <1>7, <1>8, <2>1
  <2>3. QED
    BY <1>4, <2>1, <2>2 DEF Pricing!parseDecimal
<1> QED
  BY <1>1, <1>9, <1>10 DEF written

\* NoMinorUnitIsLost, for every amount that is split.
LEMMA NoMinorUnitIsLostHolds ==
    ASSUME QuestionTyped
    PROVE  NoMinorUnitIsLost
<1> SUFFICES ASSUME About("split") PROVE NoMinorUnitIsLost
  BY DEF NoMinorUnitIsLost
<1>1. input \in Split
  <2>1. input \in Topics["split"]
    BY Asked
  <2>2. QED
    BY <2>1, SamplesAreRows DEF Topics
<1> DEFINE weights == input.weights
           weight  == Pricing!SumOf(weights)
           shares  == Pricing!allocate(input.amount, weights)
<1>2. /\ Pricing!SumOf(shares) = input.amount
      /\ \A i \in DOMAIN weights :
            /\ shares[i] \in Int
            /\ Pricing!Magnitude(shares[i] * weight - input.amount * weights[i]) < weight
            /\ weights[i] = 0 => shares[i] = 0
  BY <1>1, SplitsAreFair
<1>3. ASSUME NEW i \in DOMAIN weights, NEW exponent \in {0, 2}
      PROVE  LET written == Pricing!toDecimalString(shares[i], exponent)
             IN  /\ Pricing!CanParse(written, exponent)
                 /\ Pricing!parseDecimal(written, exponent) = shares[i]
  <2>1. shares[i] \in Int /\ exponent \in Nat
    BY <1>2, <1>3
  <2> HIDE DEF shares
  <2>2. QED
    BY <2>1, AmountsAreReadAgain
<1> QED
  BY <1>2, <1>3 DEF NoMinorUnitIsLost

\* AmountsAreExact, for every division, split and quotation.
LEMMA AmountsHold ==
    ASSUME QuestionTyped
    PROVE  AmountsAreExact
BY RoundedToNearestHolds, NoMinorUnitIsLostHolds, TotalsReconcileHolds DEF AmountsAreExact

-----------------------------------------------------------------------------
(* The brief                                                               *)

SalesNames == {"ordersCreated", "quotationsCreated", "quotationsAccepted", "quotationsRejected"}
SalesWorths == {"orderValue", "quotationValue", "acceptedValue"}
CashNames ==
    {"paymentsConfirmedToday", "paymentsAwaitingReview", "overdueCount", "partiallyPaidCashOrders"}
CashWorths == {"paymentsConfirmedToday", "outstanding", "overdue", "dueToday"}
PipelineNames == {"followUpsOverdue", "quotationsAwaitingApproval", "inquiriesAwaitingReview"}
YardNames == {"ordersAwaitingWarehouse", "deliveriesPending", "failedDeliveriesOpen"}
StockNames ==
    {"lowStockProducts", "openDiscrepancies", "reservationShortfalls", "returnsAwaitingProcessing"}

\* A section that is there has figures of these names.
Has(section, counts, amounts) ==
    section # None => counts \subseteq DOMAIN section.counts /\ amounts \subseteq DOMAIN section.amounts

\* The sections of a snapshot have the figures the brief speaks of.
Sections(snapshot) ==
    /\ Has(snapshot.sales, SalesNames, SalesWorths) /\ Has(snapshot.cash, CashNames, CashWorths)
    /\ Has(snapshot.pipeline, PipelineNames, {}) /\ Has(snapshot.operations, YardNames, {})
    /\ Has(snapshot.inventory, StockNames, {})

\* Figures that a section has are among all of them.
LEMMA StatedIsOfAll ==
    ASSUME NEW section, NEW counts, NEW amounts, Has(section, counts, amounts)
    PROVE  Reporting!Stated(section, counts, amounts) \subseteq AllOf(section)
<1>1. CASE section = None
  BY <1>1 DEF Reporting!Stated
<1>2. CASE section # None
  BY <1>2 DEF Reporting!Stated, AllOf, Has
<1> QED
  BY <1>1, <1>2

\* A role's dashboard has the sections of its scope, with all their figures.
LEMMA SnapshotHasItsSections ==
    ASSUME NEW role, NEW tables \in Reporting!QueriedTables, NEW zone, NEW asOf
    PROVE  Sections(Reporting!getDashboardSnapshot(role, tables, zone, asOf))
<1> DEFINE snapshot == Reporting!getDashboardSnapshot(role, tables, zone, asOf)
           scope == Reporting!dashboardScopeFor(role)
           today == Reporting!localDay(zone, asOf)
           sales == Reporting!SalesSection(tables.quotations, tables.orders, scope.money, today)
           cash  == Reporting!CashSection(tables.payments, tables.debts, tables.review, today, zone, asOf)
<1>1. /\ snapshot.sales = IF scope.sales THEN sales ELSE None
      /\ snapshot.cash = IF scope.money THEN cash ELSE None
      /\ snapshot.pipeline = IF scope.sales THEN Reporting!Counted(tables.pipeline) ELSE None
      /\ snapshot.operations = IF scope.operations THEN Reporting!Counted(tables.fulfilment) ELSE None
      /\ snapshot.inventory = IF scope.operations THEN Reporting!Counted(tables.inventory) ELSE None
  BY DEF Reporting!getDashboardSnapshot
<1>2. SalesNames \subseteq DOMAIN sales.counts /\ SalesWorths \subseteq DOMAIN sales.amounts
  BY DEF Reporting!SalesSection, SalesNames, SalesWorths
<1>3. CashNames \subseteq DOMAIN cash.counts /\ CashWorths \subseteq DOMAIN cash.amounts
  BY DEF Reporting!CashSection, CashNames, CashWorths
<1>4. /\ PipelineNames \subseteq DOMAIN tables.pipeline /\ YardNames \subseteq DOMAIN tables.fulfilment
      /\ StockNames \subseteq DOMAIN tables.inventory
  <2>1. /\ tables.pipeline \in Reporting!PipelineCounts /\ tables.fulfilment \in Reporting!FulfilmentCounts
        /\ tables.inventory \in Reporting!InventoryCounts
    BY DEF Reporting!QueriedTables
  <2>2. QED
    BY <2>1 DEF Reporting!PipelineCounts, Reporting!FulfilmentCounts, Reporting!InventoryCounts,
       PipelineNames, YardNames, StockNames
<1>5. \A counts : Reporting!Counted(counts).counts = counts
  BY DEF Reporting!Counted
<1> HIDE DEF snapshot, sales, cash
<1>6. Has(snapshot.sales, SalesNames, SalesWorths) /\ Has(snapshot.cash, CashNames, CashWorths)
  BY <1>1, <1>2, <1>3 DEF Has
<1>7. /\ Has(snapshot.pipeline, PipelineNames, {}) /\ Has(snapshot.operations, YardNames, {})
      /\ Has(snapshot.inventory, StockNames, {})
  BY <1>1, <1>4, <1>5 DEF Has
<1> QED
  BY <1>6, <1>7 DEF Sections, snapshot

\* A provider may repeat only what the dashboard shows.
LEMMA PermittedIsShown ==
    ASSUME NEW snapshot, Sections(snapshot)
    PROVE  Reporting!buildNarrationInput(snapshot) \subseteq Shown(snapshot)
<1> DEFINE sales == Reporting!Stated(snapshot.sales,
               {"ordersCreated", "quotationsCreated", "quotationsAccepted", "quotationsRejected"},
               {"orderValue", "quotationValue", "acceptedValue"})
           cash == Reporting!Stated(snapshot.cash,
               {"paymentsConfirmedToday", "paymentsAwaitingReview", "overdueCount"},
               {"paymentsConfirmedToday", "outstanding", "overdue"})
           pipeline == Reporting!Stated(snapshot.pipeline,
               {"followUpsOverdue", "quotationsAwaitingApproval", "inquiriesAwaitingReview"}, {})
           yard == Reporting!Stated(snapshot.operations,
               {"ordersAwaitingWarehouse", "deliveriesPending", "failedDeliveriesOpen"}, {})
           stock == Reporting!Stated(snapshot.inventory,
               {"lowStockProducts", "openDiscrepancies", "reservationShortfalls",
                "returnsAwaitingProcessing"}, {})
<1>1. Reporting!buildNarrationInput(snapshot)
         = sales \cup Reporting!Percent(snapshot.sales) \cup cash \cup pipeline \cup yard
               \cup Reporting!Completed(snapshot) \cup stock \cup Reporting!Tallies(snapshot.attention)
  BY DEF Reporting!buildNarrationInput
<1>2. sales \subseteq AllOf(snapshot.sales)
  BY StatedIsOfAll DEF Sections, Has, SalesNames, SalesWorths
<1>3. cash \subseteq AllOf(snapshot.cash)
  BY StatedIsOfAll DEF Sections, Has, CashNames, CashWorths
<1>4. pipeline \subseteq AllOf(snapshot.pipeline)
  BY StatedIsOfAll DEF Sections, Has, PipelineNames
<1>5. yard \subseteq AllOf(snapshot.operations)
  BY StatedIsOfAll DEF Sections, Has, YardNames
<1>6. stock \subseteq AllOf(snapshot.inventory)
  BY StatedIsOfAll DEF Sections, Has, StockNames
<1> HIDE DEF sales, cash, pipeline, yard, stock
<1> QED
  BY <1>1, <1>2, <1>3, <1>4, <1>5, <1>6 DEF Shown

\* A line of the template states figures of its section, or nothing.
LEMMA LinesAreOfAll ==
    ASSUME NEW section, NEW counts, NEW amounts, Has(section, counts, amounts)
    PROVE  /\ \A c \in counts : \A A \in SUBSET amounts :
                  Reporting!CountLine(section, c, A) \subseteq AllOf(section)
           /\ \A a \in amounts : \A C \in SUBSET counts :
                  Reporting!DebtLine(section, a, C) \subseteq AllOf(section)
           /\ \A C \in SUBSET counts : Reporting!CountLines(section, C) \subseteq AllOf(section)
<1>1. ASSUME NEW c \in counts, NEW A \in SUBSET amounts
      PROVE  Reporting!CountLine(section, c, A) \subseteq AllOf(section)
  <2>1. Has(section, {c}, A)
    BY <1>1 DEF Has
  <2>2. Reporting!Stated(section, {c}, A) \subseteq AllOf(section)
    BY <2>1, StatedIsOfAll
  <2>3. QED
    BY <2>2 DEF Reporting!CountLine
<1>2. ASSUME NEW a \in amounts, NEW C \in SUBSET counts
      PROVE  Reporting!DebtLine(section, a, C) \subseteq AllOf(section)
  <2>1. Has(section, C, {a})
    BY <1>2 DEF Has
  <2>2. Reporting!Stated(section, C, {a}) \subseteq AllOf(section)
    BY <2>1, StatedIsOfAll
  <2>3. QED
    BY <2>2 DEF Reporting!DebtLine
<1>3. ASSUME NEW C \in SUBSET counts PROVE Reporting!CountLines(section, C) \subseteq AllOf(section)
  <2>1. \A c \in C : Reporting!CountLine(section, c, {}) \subseteq AllOf(section)
    BY <1>1
  <2>2. QED
    BY <2>1 DEF Reporting!CountLines
<1> QED
  BY <1>1, <1>2, <1>3

\* The template states only what the dashboard shows.
LEMMA TemplateIsShown ==
    ASSUME NEW snapshot, Sections(snapshot)
    PROVE  LET brief == Reporting!deterministicBrief(snapshot)
           IN  brief.summary \cup brief.highlights \cup brief.attention \subseteq Shown(snapshot)
<1> DEFINE brief == Reporting!deterministicBrief(snapshot)
           sales == snapshot.sales
           cash  == snapshot.cash
           paid  == IF cash # None /\ cash.counts.paymentsConfirmedToday > 0
                    THEN Reporting!Stated(cash, {}, {"paymentsConfirmedToday"}) ELSE {}
           done  == IF snapshot.completed = 0 THEN {} ELSE Reporting!Completed(snapshot)
<1>1. brief.summary =
            Reporting!CountLine(sales, "ordersCreated", {"orderValue"})
            \cup Reporting!CountLine(sales, "quotationsCreated", {"quotationValue"}) \cup paid
  BY DEF Reporting!deterministicBrief
<1>2. brief.highlights =
            Reporting!CountLine(sales, "quotationsAccepted", {"acceptedValue"})
            \cup Reporting!CountLine(sales, "quotationsRejected", {})
            \cup Reporting!Percent(sales) \cup Reporting!Largest(sales) \cup done
  BY DEF Reporting!deterministicBrief
<1>3. brief.attention =
            Reporting!DebtLine(cash, "overdue", {"overdueCount"})
            \cup Reporting!DebtLine(cash, "dueToday", {})
            \cup Reporting!CountLines(cash, {"paymentsAwaitingReview", "partiallyPaidCashOrders"})
            \cup Reporting!CountLines(snapshot.pipeline,
                     {"followUpsOverdue", "quotationsAwaitingApproval", "inquiriesAwaitingReview"})
            \cup Reporting!CountLines(snapshot.operations,
                     {"ordersAwaitingWarehouse", "deliveriesPending", "failedDeliveriesOpen"})
            \cup Reporting!CountLines(snapshot.inventory,
                     {"lowStockProducts", "reservationShortfalls", "openDiscrepancies",
                      "returnsAwaitingProcessing"})
  BY DEF Reporting!deterministicBrief
<1>4. paid \subseteq AllOf(cash)
  <2>1. Has(cash, {}, {"paymentsConfirmedToday"})
    BY DEF Sections, Has, CashWorths
  <2>2. Reporting!Stated(cash, {}, {"paymentsConfirmedToday"}) \subseteq AllOf(cash)
    BY <2>1, StatedIsOfAll
  <2>3. QED
    BY <2>2
<1>5. done \subseteq Reporting!Completed(snapshot)
  OBVIOUS
<1>6. /\ Reporting!CountLine(sales, "ordersCreated", {"orderValue"}) \subseteq AllOf(sales)
      /\ Reporting!CountLine(sales, "quotationsCreated", {"quotationValue"}) \subseteq AllOf(sales)
      /\ Reporting!CountLine(sales, "quotationsAccepted", {"acceptedValue"}) \subseteq AllOf(sales)
      /\ Reporting!CountLine(sales, "quotationsRejected", {}) \subseteq AllOf(sales)
  <2>1. Has(sales, SalesNames, SalesWorths)
    BY DEF Sections
  <2> HIDE DEF sales
  <2>2. \A c \in SalesNames : \A A \in SUBSET SalesWorths :
            Reporting!CountLine(sales, c, A) \subseteq AllOf(sales)
    BY <2>1, LinesAreOfAll
  <2>3. QED
    BY <2>2 DEF SalesNames, SalesWorths
<1>7. /\ Reporting!DebtLine(cash, "overdue", {"overdueCount"}) \subseteq AllOf(cash)
      /\ Reporting!DebtLine(cash, "dueToday", {}) \subseteq AllOf(cash)
      /\ Reporting!CountLines(cash, {"paymentsAwaitingReview", "partiallyPaidCashOrders"}) \subseteq AllOf(cash)
  <2>1. Has(cash, CashNames, CashWorths)
    BY DEF Sections
  <2> HIDE DEF cash
  <2>2. /\ \A a \in CashWorths : \A C \in SUBSET CashNames :
               Reporting!DebtLine(cash, a, C) \subseteq AllOf(cash)
        /\ \A C \in SUBSET CashNames : Reporting!CountLines(cash, C) \subseteq AllOf(cash)
    BY <2>1, LinesAreOfAll
  <2>3. QED
    BY <2>2 DEF CashNames, CashWorths
<1>8. /\ Reporting!CountLines(snapshot.pipeline,
             {"followUpsOverdue", "quotationsAwaitingApproval", "inquiriesAwaitingReview"})
                 \subseteq AllOf(snapshot.pipeline)
      /\ Reporting!CountLines(snapshot.operations,
             {"ordersAwaitingWarehouse", "deliveriesPending", "failedDeliveriesOpen"})
                 \subseteq AllOf(snapshot.operations)
      /\ Reporting!CountLines(snapshot.inventory,
             {"lowStockProducts", "reservationShortfalls", "openDiscrepancies",
              "returnsAwaitingProcessing"}) \subseteq AllOf(snapshot.inventory)
  <2>1. /\ \A C \in SUBSET PipelineNames :
               Reporting!CountLines(snapshot.pipeline, C) \subseteq AllOf(snapshot.pipeline)
        /\ \A C \in SUBSET YardNames :
               Reporting!CountLines(snapshot.operations, C) \subseteq AllOf(snapshot.operations)
        /\ \A C \in SUBSET StockNames :
               Reporting!CountLines(snapshot.inventory, C) \subseteq AllOf(snapshot.inventory)
    BY LinesAreOfAll DEF Sections
  <2>2. QED
    BY <2>1 DEF PipelineNames, YardNames, StockNames
<1> HIDE DEF brief, paid, done
<1>9. brief.summary \subseteq Shown(snapshot)
  BY <1>1, <1>4, <1>6 DEF Shown
<1>10. brief.highlights \subseteq Shown(snapshot)
  BY <1>2, <1>5, <1>6 DEF Shown
<1>11. brief.attention \subseteq Shown(snapshot)
  BY <1>3, <1>7, <1>8 DEF Shown
<1> QED
  BY <1>9, <1>10, <1>11 DEF brief

\* Whatever the provider answers, the brief states nothing else but small whole numbers.
LEMMA BriefIsGrounded ==
    ASSUME NEW snapshot, Sections(snapshot), NEW outcome
    PROVE  LET brief == Reporting!narrateBrief(snapshot, outcome).brief
           IN  \A numeral \in brief.summary \cup brief.highlights \cup brief.attention :
                    \/ numeral \in Shown(snapshot)
                    \/ brief.source = "AI" /\ Reporting!IsProse(numeral)
<1> DEFINE brief == Reporting!narrateBrief(snapshot, outcome).brief
           given == Reporting!buildNarrationInput(snapshot)
           told == outcome.kind = "ANSWER" /\ Reporting!verifyGrounding(outcome, given)
<1>1. CASE told
  <2>1. brief = [source |-> "AI", summary |-> outcome.summary, highlights |-> outcome.highlights,
                 attention |-> outcome.attention]
    BY <1>1 DEF Reporting!narrateBrief
  <2>2. \A numeral \in outcome.summary \cup outcome.highlights \cup outcome.attention :
            numeral \in given \/ Reporting!IsProse(numeral)
    BY <1>1 DEF Reporting!verifyGrounding
  <2>3. given \subseteq Shown(snapshot)
    BY PermittedIsShown
  <2> HIDE DEF given, brief
  <2>4. QED
    BY <2>1, <2>2, <2>3 DEF brief
<1>2. CASE ~told
  <2>1. brief = Reporting!deterministicBrief(snapshot)
    BY <1>2 DEF Reporting!narrateBrief
  <2>2. QED
    BY <2>1, TemplateIsShown
<1> QED
  BY <1>1, <1>2

\* BriefSaysOnlyItsFigures, for every set of figures.
LEMMA BriefHolds ==
    ASSUME QuestionTyped
    PROVE  BriefSaysOnlyItsFigures
<1> SUFFICES ASSUME About("morning") PROVE BriefSaysOnlyItsFigures
  BY DEF BriefSaysOnlyItsFigures
<1>1. input \in Mornings
  BY Asked DEF Topics
<1>2. input.tables \in Reporting!QueriedTables
  BY <1>1, SamplesAreRows
<1>3. ASSUME NEW role \in Reporting!Rbac!ROLES
      PROVE  LET snapshot == Reporting!getDashboardSnapshot(role, input.tables, input.zone, input.asOf)
                 brief    == Reporting!narrateBrief(snapshot, input.outcome).brief
             IN  \A numeral \in brief.summary \cup brief.highlights \cup brief.attention :
                     \/ numeral \in Shown(snapshot)
                     \/ brief.source = "AI" /\ Reporting!IsProse(numeral)
  <2> DEFINE snapshot == Reporting!getDashboardSnapshot(role, input.tables, input.zone, input.asOf)
             outcome == input.outcome
  <2>1. Sections(snapshot)
    BY <1>2, SnapshotHasItsSections
  <2> HIDE DEF snapshot, outcome
  <2>2. LET brief == Reporting!narrateBrief(snapshot, outcome).brief
        IN  \A numeral \in brief.summary \cup brief.highlights \cup brief.attention :
                \/ numeral \in Shown(snapshot)
                \/ brief.source = "AI" /\ Reporting!IsProse(numeral)
    BY <2>1, BriefIsGrounded
  <2>3. QED
    BY <2>2 DEF snapshot, outcome
<1> QED
  BY <1>3 DEF BriefSaysOnlyItsFigures

-----------------------------------------------------------------------------
(* Matching                                                                *)

\* An instance counts as this module does.
LEMMA MatchingCounts == \A S : Matching!Cardinality(S) = Cardinality(S)
BY DEF Cardinality, Matching!Cardinality

\* A score is a fraction from zero to one.
Score == {s \in Nat \X (Nat \ {0}) : s[1] <= s[2]}

\* The names that can be compared.
Named(query) ==
    /\ query \in Names /\ Grams[query] # {}
    /\ IsFiniteSet(Names) /\ \A n \in Names : IsFiniteSet(Grams[n])

\* The resemblance of two names is a fraction between zero and one.
LEMMA DiceIsAScore ==
    ASSUME NEW query, Named(query), NEW t \in Names
    PROVE  Matching!trigramDice(query, t) \in Score
<1>1. CASE query = t
  BY <1>1 DEF Matching!trigramDice, Score
<1>2. CASE query # t
  <2> DEFINE A == Grams[query]
             B == Grams[t]
  <2>1. IsFiniteSet(A) /\ IsFiniteSet(B) /\ A # {}
    BY DEF Named
  <2> HIDE DEF A, B
  <2>2. IsFiniteSet(A \cap B) /\ Cardinality(A \cap B) <= Cardinality(A)
    BY <2>1, FS_Intersection
  <2>3. Cardinality(A \cap B) <= Cardinality(B)
    BY <2>1, FS_Intersection
  <2>4. Cardinality(A) \in Nat /\ Cardinality(B) \in Nat /\ Cardinality(A \cap B) \in Nat
    BY <2>1, <2>2, FS_CardinalityType
  <2>5. Cardinality(A) # 0
    BY <2>1, FS_EmptySet
  <2>6. Matching!trigramDice(query, t)
           = <<2 * Cardinality(A \cap B), Cardinality(A) + Cardinality(B)>>
    BY <1>2, MatchingCounts DEF Matching!trigramDice, A, B
  <2>7. QED
    BY <2>2, <2>3, <2>4, <2>5, <2>6 DEF Score
<1> QED
  BY <1>1, <1>2

\* Fractions are compared as fractions.
LEMMA ComparedThrough ==
    ASSUME NEW s \in Score, NEW t \in Score, NEW u \in Score,
           ~ Matching!Below(s, t), ~ Matching!Below(t, u)
    PROVE  ~ Matching!Below(s, u)
<1> DEFINE a == s[1]
           b == s[2]
           c == t[1]
           d == t[2]
           e == u[1]
           f == u[2]
<1>1. /\ a \in Nat /\ b \in Nat \ {0} /\ c \in Nat /\ d \in Nat \ {0}
      /\ e \in Nat /\ f \in Nat \ {0}
  BY DEF Score
<1>2. ~ (a * d < c * b) /\ ~ (c * f < e * d)
  BY DEF Matching!Below
<1>3. Matching!Below(s, u) <=> a * f < e * b
  BY DEF Matching!Below
<1> HIDE DEF a, b, c, d, e, f
<1>4. a * d \in Int /\ c * b \in Int /\ c * f \in Int /\ e * d \in Int /\ a * f \in Int /\ e * b \in Int
  BY <1>1
<1>5. \A x, y, z \in Nat : x <= y => z * x <= z * y
  OBVIOUS
<1>6. f * (c * b) <= f * (a * d)
  <2>1. c * b \in Nat /\ a * d \in Nat /\ f \in Nat /\ c * b <= a * d
    BY <1>1, <1>2, <1>4
  <2>2. QED
    BY <1>5, <2>1
<1>7. b * (e * d) <= b * (c * f)
  <2>1. e * d \in Nat /\ c * f \in Nat /\ b \in Nat /\ e * d <= c * f
    BY <1>1, <1>2, <1>4
  <2>2. QED
    BY <1>5, <2>1
<1>8. f * (c * b) = b * (c * f) /\ f * (a * d) = d * (a * f) /\ b * (e * d) = d * (e * b)
  BY <1>1
<1>9. d * (e * b) <= d * (a * f)
  <2>1. \A x, y, z \in Int : x <= y /\ y <= z => x <= z
    OBVIOUS
  <2>2. f * (a * d) \in Int /\ b * (c * f) \in Int /\ b * (e * d) \in Int
    BY <1>1
  <2>3. b * (e * d) <= f * (a * d)
    BY <1>6, <1>7, <1>8, <2>1, <2>2
  <2>4. QED
    BY <1>8, <2>3
<1>10. ~ (a * f < e * b)
  <2> DEFINE x == a * f
             y == e * b
  <2>1. x \in Int /\ y \in Int /\ d * y <= d * x
    BY <1>4, <1>9
  <2> HIDE DEF x, y
  <2>2. ASSUME x < y PROVE FALSE
    <3>1. y - x \in Int /\ y - x >= 1
      BY <2>1, <2>2
    <3>2. d * (y - x) >= d
      BY <1>1, <3>1
    <3>3. d * (y - x) = d * y - d * x /\ d * y \in Int /\ d * x \in Int
      BY <1>1, <2>1
    <3>4. QED
      BY <1>1, <2>1, <3>2, <3>3
  <2>3. QED
    BY <2>2 DEF x, y
<1> QED
  BY <1>3, <1>10

\* A product resembles what was asked for as much as the best of its names.
LEMMA ResemblanceIsAScore ==
    ASSUME NEW query, Named(query), NEW p \in Matching!MatchableProduct
    PROVE  Matching!Resemblance(query, p) \in Score
<1> DEFINE N == Matching!Targets(p)
           score == [t \in N |-> Matching!trigramDice(query, t)]
           scores == {Matching!trigramDice(query, t) : t \in N}
           Best(T) == \E s \in T : \A t \in T : ~ Matching!Below(score[s], score[t])
           G == {T \in SUBSET N : T # {} => Best(T)}
<1>1. N \subseteq Names /\ N # {} /\ IsFiniteSet(N)
  <2>1. N \subseteq Names /\ N # {}
    BY DEF Matching!Targets, Matching!MatchableProduct
  <2>2. IsFiniteSet(Names)
    BY DEF Named
  <2> HIDE DEF N
  <2>3. QED
    BY <2>1, <2>2, FS_Subset
<1>2. \A t \in N : score[t] \in Score /\ score[t] = Matching!trigramDice(query, t)
  BY <1>1, DiceIsAScore
<1> HIDE DEF N, score
<1>3. \A s \in Score : ~ Matching!Below(s, s)
  <2>1. ASSUME NEW s \in Score PROVE ~ Matching!Below(s, s)
    <3>1. s[1] \in Int /\ s[2] \in Int /\ s[1] * s[2] \in Int
      BY DEF Score
    <3>2. QED
      BY <3>1 DEF Matching!Below
  <2>2. QED
    BY <2>1
<1>4. \A s, t \in Score : Matching!Below(s, t) => ~ Matching!Below(t, s)
  <2>1. ASSUME NEW s \in Score, NEW t \in Score, Matching!Below(s, t) PROVE ~ Matching!Below(t, s)
    <3>1. s[1] * t[2] \in Int /\ t[1] * s[2] \in Int
      BY DEF Score
    <3>2. QED
      BY <2>1, <3>1 DEF Matching!Below
  <2>2. QED
    BY <2>1
<1>5. {} \in G
  OBVIOUS
<1>6. ASSUME NEW T \in SUBSET N, NEW x \in T, T \ {x} \in G
      PROVE  T \in G
  <2>1. CASE T \ {x} = {}
    BY <1>2, <1>3, <2>1
  <2>2. CASE T \ {x} # {}
    <3>1. Best(T \ {x})
      BY <1>6, <2>2
    <3>2. PICK m \in T \ {x} : \A t \in T \ {x} : ~ Matching!Below(score[m], score[t])
      BY <3>1
    <3>3. score[m] \in Score /\ score[x] \in Score /\ \A t \in T : score[t] \in Score
      BY <1>2
    <3>4. CASE ~ Matching!Below(score[m], score[x])
      <4>1. \A t \in T : ~ Matching!Below(score[m], score[t])
        BY <3>2, <3>4
      <4>2. QED
        BY <4>1
    <3>5. CASE Matching!Below(score[m], score[x])
      <4>1. ~ Matching!Below(score[x], score[m])
        BY <1>4, <3>3, <3>5
      <4>2. \A t \in T \ {x} : ~ Matching!Below(score[x], score[t])
        BY <3>2, <3>3, <4>1, ComparedThrough
      <4>3. \A t \in T : ~ Matching!Below(score[x], score[t])
        BY <1>3, <3>3, <4>2
      <4>4. QED
        BY <4>3
    <3>6. QED
      BY <3>4, <3>5
  <2>3. QED
    BY <2>1, <2>2
<1>7. N \in G
  <2> HIDE DEF G
  <2>1. QED
    BY <1>1, <1>5, <1>6, SumInduction
<1>8. PICK n \in N : \A t \in N : ~ Matching!Below(score[n], score[t])
  BY <1>1, <1>7
<1>9. \E s \in scores : \A t \in scores : ~ Matching!Below(s, t)
  <2>1. score[n] \in scores /\ \A t \in scores : ~ Matching!Below(score[n], t)
    BY <1>2, <1>8
  <2>2. QED
    BY <2>1
<1>10. Matching!Resemblance(query, p)
         = CHOOSE s \in scores : \A t \in scores : ~ Matching!Below(s, t)
  BY DEF Matching!Resemblance, N
<1>11. Matching!Resemblance(query, p) \in scores
  BY <1>9, <1>10
<1> QED
  BY <1>2, <1>11

\* What is weighed by size is a score again, and a lower one where the sizes differ.
LEMMA EvidenceIsAScore ==
    ASSUME NEW query, Named(query), NEW p \in Matching!MatchableProduct
    PROVE  LET e == Matching!bestEvidence(query, p)
           IN  /\ e.method \in {"CANONICAL", "ALIAS", "FUZZY"} /\ e.score \in Score
               /\ e.method = "CANONICAL" <=> query = p.name
               /\ e.method # "FUZZY" => e.score = <<1, 1>>
               /\ e.method = "FUZZY" /\ SizesDiffer(query, p)
                      => Matching!Below(e.score, Matching!FUZZY_SCORE_FLOOR)
<1> DEFINE e == Matching!bestEvidence(query, p)
           r == Matching!Resemblance(query, p)
           w == Matching!SizeFactor(query, p)
           fuzzy == query # p.name /\ query \notin p.aliases
<1>1. /\ query = p.name => e = [method |-> "CANONICAL", score |-> <<1, 1>>]
      /\ query # p.name /\ query \in p.aliases => e = [method |-> "ALIAS", score |-> <<1, 1>>]
      /\ fuzzy => e = [method |-> "FUZZY", score |-> Matching!AtMostOne(Matching!Times(r, w))]
  BY DEF Matching!bestEvidence
<1>2. r \in Score
  BY ResemblanceIsAScore
<1>3. w \in {<<1, 1>>, <<6, 5>>, <<7, 20>>}
  BY DEF Matching!SizeFactor, Matching!SPEC_MATCH_BONUS, Matching!SPEC_MISMATCH_PENALTY
<1>4. SizesDiffer(query, p) => w = <<7, 20>>
  BY DEF SizesDiffer, Matching!SizeFactor, Matching!SPEC_MISMATCH_PENALTY
<1> HIDE DEF e, r, w
<1> DEFINE a == r[1]
           b == r[2]
           s == Matching!AtMostOne(Matching!Times(r, w))
<1>5. a \in Nat /\ b \in Nat \ {0} /\ a <= b
  BY <1>2 DEF Score
<1>6. /\ w = <<1, 1>> => Matching!Times(r, w) = <<a * 1, b * 1>>
      /\ w = <<6, 5>> => Matching!Times(r, w) = <<a * 6, b * 5>>
      /\ w = <<7, 20>> => Matching!Times(r, w) = <<a * 7, b * 20>>
  BY DEF Matching!Times
<1> HIDE DEF a, b
<1>7. s \in Score
  BY <1>3, <1>5, <1>6 DEF Matching!AtMostOne, Score
<1>8. w = <<7, 20>> => s = <<a * 7, b * 20>>
  BY <1>5, <1>6 DEF Matching!AtMostOne
<1>9. w = <<7, 20>> => Matching!Below(s, Matching!FUZZY_SCORE_FLOOR)
  BY <1>5, <1>8 DEF Matching!Below, Matching!FUZZY_SCORE_FLOOR
<1>10. <<1, 1>> \in Score
  BY DEF Score
<1> HIDE DEF s
<1>11. fuzzy => e = [method |-> "FUZZY", score |-> s]
  BY <1>1 DEF s
<1>12. CASE fuzzy
  <2>1. e.method = "FUZZY" /\ e.score = s
    BY <1>11, <1>12
  <2>2. QED
    BY <1>4, <1>7, <1>9, <1>12, <2>1 DEF e
<1>13. CASE ~fuzzy
  BY <1>1, <1>10, <1>13 DEF e
<1> QED
  BY <1>12, <1>13

\* From the floor up, a score is mapped into the review band.
LEMMA FuzzyConfidence ==
    ASSUME NEW s \in Score, ~ Matching!Below(s, Matching!FUZZY_SCORE_FLOOR)
    PROVE  /\ Matching!mapFuzzyConfidence(s) \in Int
           /\ Matching!mapFuzzyConfidence(s) >= 7000 /\ Matching!mapFuzzyConfidence(s) <= 8900
<1> DEFINE a == s[1]
           b == s[2]
           m == 20 * a - 9 * b
           d == 11 * b
           q == (2 * (1900 * m) + d) \div (2 * d)
<1>1. a \in Nat /\ b \in Nat \ {0} /\ a <= b
  BY DEF Score
<1>2. ~ (a * 20 < 9 * b)
  BY DEF Matching!Below, Matching!FUZZY_SCORE_FLOOR
<1> HIDE DEF a, b
<1>3. m \in Nat /\ d \in Nat \ {0} /\ m <= d
  BY <1>1, <1>2
<1>4. Matching!mapFuzzyConfidence(s) = 7000 + q
  BY DEF Matching!mapFuzzyConfidence, Matching!Rounded, Matching!REVIEW_THRESHOLD,
         Matching!FUZZY_MAX_CONFIDENCE, a, b
<1> HIDE DEF m, d
<1> DEFINE n == 2 * (1900 * m) + d
           c == 2 * d
<1>5. n \in Nat /\ c \in Nat \ {0} /\ n <= 3801 * d /\ c = 2 * d
  BY <1>3
<1> HIDE DEF n, c
<1>6. n \div c \in Int /\ (n % c) \in 0..(c - 1) /\ n = (n \div c) * c + (n % c)
  <2>1. n \in Int /\ c \in Nat \ {0}
    BY <1>5
  <2>2. QED
    BY <2>1, Quotient
<1> DEFINE k == n \div c
           t == (n % c)
<1>7. k \in Int /\ t \in 0..(c - 1) /\ n = k * c + t
  BY <1>6
<1> HIDE DEF k, t
<1>8. k >= 0
  <2>1. k <= -1 => k * c <= -c
    BY <1>5, <1>7
  <2>2. k * c \in Int
    BY <1>5, <1>7
  <2>3. QED
    BY <1>5, <1>7, <2>1, <2>2
<1>9. k <= 1900
  <2>1. k >= 1901 => k * c >= 1901 * c
    BY <1>5, <1>7
  <2>2. k * c \in Int
    BY <1>5, <1>7
  <2>3. 1901 * c = 3802 * d
    BY <1>3, <1>5
  <2>4. QED
    BY <1>3, <1>5, <1>7, <2>1, <2>2, <2>3
<1>10. q = k
  BY DEF k, n, c
<1> HIDE DEF q
<1>11. 7000 + q \in Int /\ 7000 + q >= 7000 /\ 7000 + q <= 8900
  BY <1>7, <1>8, <1>9, <1>10
<1> QED
  BY <1>4, <1>11

\* What may be asked.
Asking(query, corpus) ==
    /\ Named(query)
    /\ corpus \subseteq Matching!MatchableProduct
    /\ IsFiniteSet(corpus) /\ \A p, q \in corpus : p.sku = q.sku => p = q

\* The candidates, before they are sorted.
Candidates(query, corpus) ==
    {Matching!Candidate(query, p) :
        p \in {p \in corpus : ~ Matching!Below(Matching!bestEvidence(query, p).score,
                                               Matching!FUZZY_SCORE_FLOOR)}}

\* A candidate is good evidence, and stronger evidence by name than by resemblance.
Evident(c, query) ==
    /\ c.method \in {"CANONICAL", "ALIAS", "FUZZY"}
    /\ c.confidence \in Int /\ c.confidence >= 7000 /\ c.confidence <= 10000
    /\ c.method = "CANONICAL" <=> c.confidence >= 10000
    /\ c.method = "FUZZY" => c.confidence <= 8900 /\ ~SizesDiffer(query, c.product)

\* A candidate is a product of the corpus that its evidence reaches.
LEMMA CandidatesAreEvident ==
    ASSUME NEW query, NEW corpus, Asking(query, corpus),
           NEW c \in Candidates(query, corpus)
    PROVE  Evident(c, query) /\ c.product \in corpus /\ c = Matching!Candidate(query, c.product)
<1>1. PICK p \in corpus :
          /\ ~ Matching!Below(Matching!bestEvidence(query, p).score, Matching!FUZZY_SCORE_FLOOR)
          /\ c = Matching!Candidate(query, p)
  BY DEF Candidates
<1> DEFINE e == Matching!bestEvidence(query, p)
<1>2. Named(query) /\ p \in Matching!MatchableProduct
  BY DEF Asking
<1>3. /\ e.method \in {"CANONICAL", "ALIAS", "FUZZY"} /\ e.score \in Score
      /\ e.method = "CANONICAL" <=> query = p.name
      /\ e.method = "FUZZY" /\ SizesDiffer(query, p)
             => Matching!Below(e.score, Matching!FUZZY_SCORE_FLOOR)
  BY <1>2, EvidenceIsAScore
<1> DEFINE m == Matching!mapFuzzyConfidence(e.score)
<1>4. m \in Int /\ m >= 7000 /\ m <= 8900
  BY <1>1, <1>3, FuzzyConfidence
<1>5. c = [product |-> p, method |-> e.method,
           confidence |-> IF e.method = "FUZZY" THEN m
                          ELSE Matching!Exact[e.method]]
  BY <1>1 DEF Matching!Candidate
<1> HIDE DEF e, m
<1>6. /\ c.product = p /\ c.method = e.method
      /\ e.method = "FUZZY" => c.confidence = m
      /\ e.method = "CANONICAL" => c.confidence = 10000
      /\ e.method = "ALIAS" => c.confidence = 9800
  BY <1>4, <1>5 DEF Matching!Exact
<1>7. ~ (e.method = "FUZZY" /\ SizesDiffer(query, p))
  BY <1>1, <1>3 DEF e
<1>8. /\ c.confidence \in Int /\ c.confidence >= 7000 /\ c.confidence <= 10000
      /\ c.method = "CANONICAL" <=> c.confidence >= 10000
  BY <1>3, <1>4, <1>6
<1>9. c.method = "FUZZY" => c.confidence <= 8900 /\ ~SizesDiffer(query, c.product)
  BY <1>4, <1>6, <1>7
<1>10. c.method \in {"CANONICAL", "ALIAS", "FUZZY"}
  BY <1>3, <1>6
<1> QED
  BY <1>1, <1>6, <1>8, <1>9, <1>10 DEF Evident

\* They can be listed in order, so the sorted list is one.
LEMMA CandidatesAreSorted ==
    ASSUME NEW query, NEW corpus, Asking(query, corpus)
    PROVE  LET C == Candidates(query, corpus)
               list == Matching!Sorted(C)
           IN  \E n \in Nat : /\ list \in [1..n -> C] /\ list \in Seq(C) /\ Len(list) = n
                              /\ \A i, j \in 1..n : i < j => Matching!Ranked(list[i], list[j])
                              /\ \A c \in C : \E i \in 1..n : list[i] = c
<1> DEFINE C == Candidates(query, corpus)
           R == {p \in C \X C : Matching!Ranked(p[1], p[2])}
           list == Matching!Sorted(C)
           n == Cardinality(C)
<1>1. IsFiniteSet(C)
  <2> DEFINE named == {p \in corpus : ~ Matching!Below(Matching!bestEvidence(query, p).score,
                                                       Matching!FUZZY_SCORE_FLOOR)}
             f == [p \in named |-> Matching!Candidate(query, p)]
  <2>1. IsFiniteSet(corpus) /\ named \in SUBSET corpus
    BY DEF Asking
  <2>2. C = {Matching!Candidate(query, p) : p \in named}
    BY DEF Candidates
  <2>3. f \in Surjection(named, C)
    BY <2>2 DEF Surjection
  <2> HIDE DEF named, f, C
  <2>4. IsFiniteSet(named)
    BY <2>1, FS_Subset
  <2>5. QED
    BY <2>3, <2>4, FS_Surjection
<1>2. \A c \in C : /\ Evident(c, query) /\ c.product \in corpus
                   /\ c = Matching!Candidate(query, c.product)
  BY CandidatesAreEvident
<1>3. \A c \in C : c.confidence \in Int /\ c.product.sku \in Int
  <2>1. ASSUME NEW c \in C PROVE c.confidence \in Int /\ c.product.sku \in Int
    <3>1. c.product \in Matching!MatchableProduct /\ c.confidence \in Int
      BY <1>2 DEF Evident, Asking
    <3>2. QED
      BY <3>1 DEF Matching!MatchableProduct
  <2>2. QED
    BY <2>1
<1>4. \A c, d \in C : c.product.sku = d.product.sku => c = d
  BY <1>2 DEF Asking
<1> HIDE DEF C
<1>5. \A c, d \in C : /\ <<c, d>> \in R <=> Matching!Ranked(c, d)
                      /\ Matching!Ranked(c, d) <=>
                            \/ c.confidence > d.confidence
                            \/ (c.confidence = d.confidence /\ c.product.sku < d.product.sku)
  BY DEF Matching!Ranked
<1> HIDE DEF R
<1>6. Ranks(R, C)
  <2>1. \A c \in C : <<c, c>> \notin R
    BY <1>3, <1>5
  <2>2. ASSUME NEW c \in C, NEW d \in C, c # d PROVE <<c, d>> \in R \/ <<d, c>> \in R
    <3>1. c.product.sku # d.product.sku
      BY <1>4, <2>2
    <3>2. QED
      BY <1>3, <1>5, <3>1
  <2>3. ASSUME NEW c \in C, NEW d \in C, NEW e \in C, <<c, d>> \in R, <<d, e>> \in R
        PROVE  <<c, e>> \in R
    BY <1>3, <1>5, <2>3
  <2>4. QED
    BY <2>1, <2>2, <2>3 DEF Ranks
<1>7. n \in Nat
  BY <1>1, FS_CardinalityType
<1>8. \E s : Lists(s, C, R)
  BY <1>1, <1>6, SetsAreListed
<1>9. /\ list \in [1..n -> C]
      /\ \A i, j \in 1..n : i < j => Matching!Ranked(list[i], list[j])
  <2> DEFINE Listed(s) == \A i, j \in DOMAIN s : i < j => Matching!Ranked(s[i], s[j])
  <2>1. PICK s : Lists(s, C, R)
    BY <1>8
  <2>2. s \in [1..n -> C] /\ Listed(s)
    BY <1>5, <2>1 DEF Lists
  <2>3. list = CHOOSE s_1 \in [1..n -> C] : Listed(s_1)
    BY MatchingCounts DEF Matching!Sorted
  <2>4. list \in [1..n -> C] /\ Listed(list)
    <3> HIDE DEF Listed, list
    <3>1. QED
      BY <2>2, <2>3
  <2>5. QED
    BY <2>4
<1> HIDE DEF list
<1>10. Lists(list, C, R)
  BY <1>5, <1>9 DEF Lists
<1>11. list \in Bijection(1..n, C)
  BY <1>1, <1>6, <1>10, ListsAreBijections
<1>12. \A c \in C : \E i \in 1..n : list[i] = c
  BY <1>11 DEF Bijection, Surjection
<1>13. list \in Seq(C) /\ Len(list) = n
  <2> HIDE DEF n
  <2>1. QED
    BY <1>7, <1>9
<1> QED
  BY <1>7, <1>9, <1>12, <1>13 DEF C, list

\* matching.ts proposes what its evidence supports, the best first.
LEMMA ProposalsAreSound ==
    ASSUME NEW query, NEW corpus, Asking(query, corpus)
    PROVE  LET found == Matching!matchProduct(query, corpus)
           IN  /\ Matching!confidenceBand(found.confidence) = "strong" => found.method # "FUZZY"
               /\ Matching!confidenceBand(found.confidence) = "unresolved" <=> found.candidates = <<>>
               /\ \A k \in DOMAIN found.candidates :
                     LET candidate == found.candidates[k] IN
                     /\ k > 1 => candidate.confidence <= found.candidates[k - 1].confidence
                     /\ candidate.confidence >= Matching!REVIEW_THRESHOLD
                     /\ candidate.method = "FUZZY" => ~SizesDiffer(query, candidate.product)
               /\ (\E p \in corpus : p.name = query) => found.method = "CANONICAL"
<1> DEFINE C == Candidates(query, corpus)
           list == Matching!Sorted(C)
           found == Matching!matchProduct(query, corpus)
           close == Len(list) > 1
                       /\ list[1].confidence - list[2].confidence < Matching!AMBIGUITY_MARGIN
           lowered == list[1].confidence - Matching!AMBIGUITY_PENALTY
           first == IF ~close THEN list[1].confidence
                    ELSE IF lowered < Matching!REVIEW_THRESHOLD THEN Matching!REVIEW_THRESHOLD
                    ELSE lowered
           shown == IF Len(list) < Matching!MAX_CANDIDATES THEN Len(list) ELSE Matching!MAX_CANDIDATES
<1>1. PICK n \in Nat :
          /\ list \in [1..n -> C] /\ list \in Seq(C) /\ Len(list) = n
          /\ \A i, j \in 1..n : i < j => Matching!Ranked(list[i], list[j])
          /\ \A c \in C : \E i \in 1..n : list[i] = c
  BY CandidatesAreSorted
<1>2. \A c \in C : Evident(c, query)
  BY CandidatesAreEvident
<1>3. /\ list = <<>> => found = [method |-> "UNRESOLVED", confidence |-> 0, ambiguous |-> FALSE,
                                 candidates |-> <<>>]
      /\ list # <<>> => found = [method |-> list[1].method, ambiguous |-> close,
                                 confidence |-> first, candidates |-> SubSeq(list, 1, shown)]
  BY DEF Matching!matchProduct, Candidates
<1>4. ASSUME NEW p \in corpus, p.name = query
      PROVE  \E c \in C : c.confidence >= 10000
  <2>1. Named(query) /\ p \in Matching!MatchableProduct
    BY DEF Asking
  <2> DEFINE e == Matching!bestEvidence(query, p)
             c == Matching!Candidate(query, p)
  <2>2. e.method = "CANONICAL" /\ e.score = <<1, 1>>
    BY <1>4, <2>1, EvidenceIsAScore
  <2>3. c.confidence = 10000
    <3> HIDE DEF e
    <3>1. c.confidence = IF e.method = "FUZZY" THEN Matching!mapFuzzyConfidence(e.score)
                         ELSE Matching!Exact[e.method]
      BY DEF Matching!Candidate, e
    <3>2. QED
      BY <2>2, <3>1 DEF Matching!Exact
  <2>4. ~ Matching!Below(e.score, Matching!FUZZY_SCORE_FLOOR)
    <3> HIDE DEF e
    <3>1. QED
      BY <2>2 DEF Matching!Below, Matching!FUZZY_SCORE_FLOOR
  <2>5. c \in C
    BY <2>4 DEF Candidates
  <2>6. QED
    BY <2>3, <2>5
<1> HIDE DEF C, list, found
<1>5. CASE list = <<>>
  <2>1. Len(list) = 0
    BY <1>5
  <2>2. 1..n = {}
    BY <1>1, <2>1
  <2>3. C = {}
    BY <1>1, <2>2
  <2>4. found.method = "UNRESOLVED" /\ found.confidence = 0 /\ found.candidates = <<>>
    BY <1>3, <1>5
  <2>5. Matching!confidenceBand(found.confidence) = "unresolved"
    BY <2>4 DEF Matching!confidenceBand, Matching!STRONG_THRESHOLD, Matching!REVIEW_THRESHOLD
  <2>6. DOMAIN found.candidates = {}
    BY <2>4
  <2>7. QED
    BY <1>4, <2>3, <2>4, <2>5, <2>6 DEF found
<1>6. CASE list # <<>>
  <2>1. n >= 1
    BY <1>1, <1>6
  <2>2. \A i \in 1..n : Evident(list[i], query)
    BY <1>1, <1>2
  <2>3. \A i \in 1..n : list[i].confidence \in Int /\ list[i].confidence >= 7000
    BY <2>2 DEF Evident
  <2>4. \A i, j \in 1..n : i < j => list[j].confidence <= list[i].confidence
    <3>1. ASSUME NEW i \in 1..n, NEW j \in 1..n, i < j PROVE list[j].confidence <= list[i].confidence
      <4>1. Matching!Ranked(list[i], list[j])
        BY <1>1, <3>1
      <4>2. QED
        BY <2>3, <4>1 DEF Matching!Ranked
    <3>2. QED
      BY <3>1
  <2>5. /\ found.method = list[1].method /\ found.confidence = first
        /\ found.candidates = SubSeq(list, 1, shown)
    BY <1>3, <1>6
  <2>6. 1 \in 1..n /\ list[1].confidence \in Int /\ list[1].confidence >= 7000
    BY <2>1, <2>3
  <2>7. first \in Int /\ first >= 7000 /\ (first <= list[1].confidence \/ first = 7000)
    BY <2>6 DEF Matching!REVIEW_THRESHOLD, Matching!AMBIGUITY_PENALTY
  <2>8. shown \in Int /\ 1 <= shown /\ shown <= n
    BY <1>1, <2>1 DEF Matching!MAX_CANDIDATES
  <2> DEFINE kept == SubSeq(list, 1, shown)
  <2> HIDE DEF first, shown
  <2>9. /\ Len(kept) = shown /\ DOMAIN kept = 1..shown
        /\ \A k \in 1..shown : kept[k] = list[k] /\ k \in 1..n
    <3>1. \A k \in 1..shown : list[k] \in C /\ k \in 1..n
      BY <1>1, <2>8
    <3>2. /\ kept \in Seq(C) /\ Len(kept) = IF 1 <= shown THEN shown - 1 + 1 ELSE 0
          /\ \A k \in 1..(shown - 1 + 1) : kept[k] = list[1 + k - 1]
      <4>1. 1 \in Int
        OBVIOUS
      <4>2. QED
        BY <2>8, <3>1, <4>1, SubSeqProperties
    <3>3. Len(kept) = shown /\ shown - 1 + 1 = shown
      BY <2>8, <3>2
    <3>4. \A k \in 1..shown : kept[k] = list[k]
      BY <2>8, <3>2, <3>3
    <3>5. DOMAIN kept = 1..Len(kept)
      BY <3>2
    <3>6. QED
      BY <3>1, <3>3, <3>4, <3>5
  <2> HIDE DEF kept
  <2>10. found.candidates = kept /\ kept # <<>>
    <3>1. kept # <<>>
      BY <2>8, <2>9
    <3>2. QED
      BY <2>5, <3>1 DEF kept
  <2>11. Matching!confidenceBand(found.confidence) # "unresolved"
    BY <2>5, <2>7 DEF Matching!confidenceBand, Matching!STRONG_THRESHOLD, Matching!REVIEW_THRESHOLD
  <2>12. Matching!confidenceBand(found.confidence) = "strong" => found.method # "FUZZY"
    <3>1. Matching!confidenceBand(found.confidence) = "strong" => first >= 9000
      BY <2>5, <2>7 DEF Matching!confidenceBand, Matching!STRONG_THRESHOLD, Matching!REVIEW_THRESHOLD
    <3>2. list[1].method = "FUZZY" => list[1].confidence <= 8900
      BY <2>2, <2>6 DEF Evident
    <3>3. QED
      BY <2>5, <2>6, <2>7, <3>1, <3>2
  <2>13. ASSUME NEW k \in 1..shown
         PROVE  /\ k > 1 => kept[k].confidence <= kept[k - 1].confidence
                /\ kept[k].confidence >= Matching!REVIEW_THRESHOLD
                /\ kept[k].method = "FUZZY" => ~SizesDiffer(query, kept[k].product)
    <3>1. kept[k] = list[k] /\ k \in 1..n
      BY <2>9
    <3>2. k > 1 => kept[k - 1] = list[k - 1] /\ k - 1 \in 1..n /\ k - 1 < k
      <4>1. k > 1 => k - 1 \in 1..shown /\ k - 1 < k
        BY <2>8
      <4>2. QED
        BY <2>9, <4>1
    <3>3. k > 1 => kept[k].confidence <= kept[k - 1].confidence
      BY <2>4, <3>1, <3>2
    <3>4. Evident(list[k], query)
      BY <2>2, <3>1
    <3>5. QED
      BY <3>1, <3>3, <3>4 DEF Evident, Matching!REVIEW_THRESHOLD
  <2>14. ASSUME NEW p \in corpus, p.name = query PROVE found.method = "CANONICAL"
    <3>1. PICK i \in 1..n : list[i].confidence >= 10000
      BY <1>1, <1>4, <2>14
    <3>2. list[1].confidence >= 10000
      <4>1. i # 1 => 1 < i
        OBVIOUS
      <4>2. QED
        BY <2>3, <2>4, <2>6, <3>1, <4>1
    <3>3. QED
      BY <2>2, <2>5, <2>6, <3>2 DEF Evident
  <2>15. QED
    BY <2>9, <2>10, <2>11, <2>12, <2>13, <2>14 DEF found
<1> QED
  BY <1>5, <1>6

\* ProposalsAreEvidence, for every query and corpus.
LEMMA ProposalsHold ==
    ASSUME QuestionTyped
    PROVE  ProposalsAreEvidence
<1> SUFFICES ASSUME About("query") PROVE ProposalsAreEvidence
  BY DEF ProposalsAreEvidence
<1>1. input \in Queries
  <2>1. input \in Topics["query"]
    BY Asked
  <2>2. QED
    BY <2>1 DEF Topics
<1>2. Asking(input.query, input.corpus)
  BY <1>1, SamplesAreRows DEF Asking, Named, Keyed
<1>3. QED
  BY <1>2, ProposalsAreSound DEF ProposalsAreEvidence

-----------------------------------------------------------------------------
(* Debts                                                                   *)

\* An instance counts as this module does.
LEMMA ReportingCounts == \A S : Reporting!Cardinality(S) = Cardinality(S)
BY DEF Cardinality, Reporting!Cardinality

\* The sums of receivables.ts and of the reports.
LEMMA SumFunctionIsSumOn ==
    ASSUME NEW f
    PROVE  SumFunction(f) = SumOn(f, DOMAIN f) /\ Reporting!SumFunction(f) = SumOn(f, DOMAIN f)
<1>1. SumFunction(f) = SumOn(f, DOMAIN f)
  BY DEF SumOn, SumFunction
<1>2. Reporting!SumFunction(f) = SumOn(f, DOMAIN f)
  BY DEF SumOn, SumFunctionOnSet, Reporting!SumFunction, Reporting!SumFunctionOnSet,
         FoldFunctionOnSet, Reporting!FoldFunctionOnSet, MapThenFoldSet, Reporting!MapThenFoldSet
<1> QED
  BY <1>1, <1>2

\* An order's row in the list: it is overdue in days when it is in the bucket.
Row(r) ==
    /\ r.outstanding \in Int /\ r.number \in Nat
    /\ r.daysOverdue \in Nat
    /\ r.bucket \in {"OVERDUE", "DUE_TODAY", "DUE_SOON", "NOT_DUE"}
    /\ r.daysOverdue > 0 <=> r.bucket = "OVERDUE"

\* A row of the list is about its order.
LEMMA RowsAreTyped ==
    ASSUME NEW o \in Reporting!OrderRow, NEW now \in Int
    PROVE  LET r == Reporting!ReceivableRow(o, now)
           IN  /\ Row(r) /\ r.number = o.number /\ r.customer = o.customer
               /\ r.outstanding = Reporting!outstanding(o)
               /\ r.bucket = "OVERDUE" <=>
                      /\ o.due # None
                      /\ Reporting!BucketOfDays(o.due - Reporting!DateOf(now)) = "OVERDUE"
<1> DEFINE r == Reporting!ReceivableRow(o, now)
           today == Reporting!DateOf(now)
<1>1. today \in Int
  BY DEF Reporting!DateOf, Reporting!HOURS
<1>2. r = [number |-> o.number, customer |-> o.customer, outstanding |-> Reporting!outstanding(o),
           bucket |-> Reporting!bucketFor(o.due, now), daysOverdue |-> Reporting!daysOverdue(o.due, now)]
  BY DEF Reporting!ReceivableRow
<1>3. o.number \in Nat /\ o.grandTotal \in Nat /\ o.payments \in Seq(Nat) /\ o.due \in Int \cup {None}
  BY DEF Reporting!OrderRow
<1>4. Reporting!outstanding(o) \in Int
  <2> DEFINE p == o.payments
             I == DOMAIN p
  <2>1. IsFiniteSet(I) /\ \A i \in I : p[i] \in Nat
    <3>1. Len(p) \in Nat /\ I = 1..Len(p) /\ \A i \in I : p[i] \in Nat
      BY <1>3
    <3>2. QED
      BY <3>1, FS_Interval
  <2> HIDE DEF p, I
  <2>2. SumOn(p, I) \in Nat
    BY <2>1, SumOfNaturals
  <2>3. Reporting!SumFunction(p) = SumOn(p, I)
    BY SumFunctionIsSumOn DEF I
  <2>4. QED
    BY <1>3, <2>2, <2>3 DEF Reporting!outstanding, p
<1> HIDE DEF today
<1> DEFINE late == o.due # None /\ Reporting!BucketOfDays(o.due - today) = "OVERDUE"
<1>5. o.due # None => (Reporting!BucketOfDays(o.due - today) = "OVERDUE" <=> o.due < today)
  BY <1>1, <1>3 DEF Reporting!BucketOfDays
<1>6. Reporting!bucketFor(o.due, now)
         = IF o.due = None THEN "NOT_DUE" ELSE Reporting!BucketOfDays(o.due - today)
  BY DEF Reporting!bucketFor, Reporting!daysBetweenDates, today
<1>7. Reporting!daysOverdue(o.due, now)
         = IF o.due = None \/ o.due >= today THEN 0 ELSE today - o.due
  BY DEF Reporting!daysOverdue, Reporting!daysBetweenDates, today
<1>8. Reporting!bucketFor(o.due, now) = "OVERDUE" <=> late
  BY <1>6
<1>9. Reporting!bucketFor(o.due, now) \in {"OVERDUE", "DUE_TODAY", "DUE_SOON", "NOT_DUE"}
  BY <1>6 DEF Reporting!BucketOfDays
<1>10. /\ Reporting!daysOverdue(o.due, now) \in Nat
       /\ Reporting!daysOverdue(o.due, now) > 0 <=> late
  BY <1>1, <1>3, <1>5, <1>7
<1> HIDE DEF late, r
<1>11. Row(r)
  BY <1>2, <1>3, <1>4, <1>8, <1>9, <1>10 DEF Row
<1> QED
  BY <1>2, <1>8, <1>11 DEF late, r, today

\* What is asked about debts.
Owed(orders, now) ==
    /\ orders \subseteq Reporting!OrderRow /\ IsFiniteSet(orders) /\ now \in Int
    /\ \A a, b \in orders : a.number = b.number => a = b

\* The rows of the list, one for each order that is owed for.
Rows(orders, now) == {Reporting!ReceivableRow(o, now) : o \in Reporting!Owing(orders)}

RowOf(orders, now) == [o \in Reporting!Owing(orders) |-> Reporting!ReceivableRow(o, now)]

\* The orders that are owed, and one row for each.
LEMMA OwingIsTyped ==
    ASSUME NEW orders, NEW now, Owed(orders, now)
    PROVE  LET W == Reporting!Owing(orders)
           IN  /\ W \subseteq Reporting!OrderRow /\ W \subseteq orders /\ IsFiniteSet(W)
               /\ W = {o \in {o \in orders : o.status # "CANCELLED"} : Reporting!outstanding(o) > 0}
               /\ RowOf(orders, now) \in Bijection(W, Rows(orders, now))
               /\ IsFiniteSet(Rows(orders, now))
               /\ \A r \in Rows(orders, now) : Row(r)
               /\ \A r, s \in Rows(orders, now) : r.number = s.number => r = s
<1> DEFINE W == Reporting!Owing(orders)
           b == RowOf(orders, now)
           R == Rows(orders, now)
<1>1. W \subseteq orders /\ W \subseteq Reporting!OrderRow
  BY DEF Reporting!Owing, Owed
<1>2. IsFiniteSet(W)
  <2> HIDE DEF W
  <2>1. QED
    BY <1>1, FS_Subset DEF Owed
<1>3. W = {o \in {o \in orders : o.status # "CANCELLED"} : Reporting!outstanding(o) > 0}
  <2>1. \A o \in orders : o.status \in {"OPEN", "COMPLETED", "CANCELLED"}
    BY DEF Owed, Reporting!OrderRow
  <2>2. QED
    BY <2>1 DEF Reporting!Owing
<1>4. ASSUME NEW o \in W
      PROVE  /\ b[o] = Reporting!ReceivableRow(o, now) /\ b[o] \in R
             /\ Row(b[o]) /\ b[o].number = o.number
  <2>1. b[o] = Reporting!ReceivableRow(o, now) /\ b[o] \in R
    BY DEF RowOf, Rows
  <2>2. o \in Reporting!OrderRow /\ now \in Int
    BY <1>1 DEF Owed
  <2> HIDE DEF b
  <2>3. QED
    BY <2>1, <2>2, RowsAreTyped
<1>5. b \in [W -> R]
  BY DEF RowOf, Rows
<1>6. \A r \in R : \E o \in W : b[o] = r
  BY DEF RowOf, Rows
<1>7. ASSUME NEW o \in W, NEW p \in W, b[o].number = b[p].number PROVE o = p
  <2>1. o.number = p.number
    BY <1>4, <1>7
  <2>2. QED
    BY <1>1, <2>1 DEF Owed
<1> HIDE DEF W, b, R
<1>8. b \in Bijection(W, R)
  <2>1. \A o, p \in W : b[o] = b[p] => o = p
    BY <1>7
  <2>2. b \in Injection(W, R)
    BY <1>5, <2>1 DEF Injection, IsInjective
  <2>3. b \in Surjection(W, R)
    BY <1>5, <1>6 DEF Surjection
  <2>4. QED
    BY <2>2, <2>3 DEF Bijection
<1>9. IsFiniteSet(R)
  <2>1. b \in Surjection(W, R)
    BY <1>8 DEF Bijection
  <2>2. QED
    BY <1>2, <2>1, FS_Surjection
<1>10. \A r \in R : Row(r)
  BY <1>4, <1>6
<1>11. \A r, s \in R : r.number = s.number => r = s
  BY <1>6, <1>7
<1> QED
  BY <1>1, <1>2, <1>3, <1>8, <1>9, <1>10, <1>11 DEF W, b, R

\* The rows have one order, so the list is the rows in that order.
LEMMA RowsAreListed ==
    ASSUME NEW orders, NEW now, Owed(orders, now)
    PROVE  LET R == Rows(orders, now)
               list == Reporting!receivables(orders, now)
           IN  \E n \in Nat : /\ list \in [1..n -> R] /\ list \in Bijection(1..n, R)
                              /\ \A i, j \in 1..n : i < j => Reporting!Before(list[i], list[j])
<1> DEFINE R == Rows(orders, now)
           O == {p \in R \X R : Reporting!Before(p[1], p[2])}
           list == Reporting!receivables(orders, now)
           n == Cardinality(R)
<1>1. IsFiniteSet(R) /\ (\A r \in R : Row(r)) /\ (\A r, s \in R : r.number = s.number => r = s)
  BY OwingIsTyped
<1>2. list = CHOOSE s \in [1..n -> R] : \A i, j \in DOMAIN s : i < j => Reporting!Before(s[i], s[j])
  BY ReportingCounts DEF Reporting!receivables, Reporting!prioritise, Rows
<1> HIDE DEF R
<1>3. \A r, s \in R : <<r, s>> \in O <=> Reporting!Before(r, s)
  OBVIOUS
<1> HIDE DEF O
<1> DEFINE rank(r) == Reporting!BUCKET_ORDER[r.bucket]
<1>4. ASSUME NEW r \in R, NEW s \in R
      PROVE  /\ rank(r) \in Int /\ rank(s) \in Int /\ (rank(r) = rank(s) <=> r.bucket = s.bucket)
             /\ r.daysOverdue \in Int /\ s.daysOverdue \in Int
             /\ r.outstanding \in Int /\ s.outstanding \in Int
             /\ r.number \in Int /\ s.number \in Int
             /\ Reporting!Before(r, s) <=>
                   \/ rank(r) < rank(s)
                   \/ /\ rank(r) = rank(s)
                      /\ \/ r.daysOverdue > s.daysOverdue
                         \/ /\ r.daysOverdue = s.daysOverdue
                            /\ \/ r.outstanding > s.outstanding
                               \/ (r.outstanding = s.outstanding /\ r.number < s.number)
  <2>1. Row(r) /\ Row(s)
    BY <1>1
  <2>2. /\ r.daysOverdue \in Int /\ s.daysOverdue \in Int
        /\ r.outstanding \in Int /\ s.outstanding \in Int
        /\ r.number \in Int /\ s.number \in Int
        /\ r.bucket \in {"OVERDUE", "DUE_TODAY", "DUE_SOON", "NOT_DUE"}
        /\ s.bucket \in {"OVERDUE", "DUE_TODAY", "DUE_SOON", "NOT_DUE"}
    BY <2>1 DEF Row
  <2>3. /\ Reporting!BUCKET_ORDER["OVERDUE"] = 1 /\ Reporting!BUCKET_ORDER["DUE_TODAY"] = 2
        /\ Reporting!BUCKET_ORDER["DUE_SOON"] = 3 /\ Reporting!BUCKET_ORDER["NOT_DUE"] = 4
    BY DEF Reporting!BUCKET_ORDER
  <2>4. rank(r) \in Int /\ rank(s) \in Int /\ (rank(r) = rank(s) <=> r.bucket = s.bucket)
    BY <2>2, <2>3
  <2> HIDE DEF rank
  <2>5. QED
    BY <2>2, <2>4 DEF Reporting!Before, rank
<1> HIDE DEF rank
<1>5. Ranks(O, R)
  <2>1. ASSUME NEW r \in R PROVE <<r, r>> \notin O
    BY <1>3, <1>4
  <2>2. ASSUME NEW r \in R, NEW s \in R, r # s PROVE <<r, s>> \in O \/ <<s, r>> \in O
    <3>1. r.number # s.number
      BY <1>1, <2>2
    <3>2. QED
      BY <1>3, <1>4, <3>1
  <2>3. ASSUME NEW r \in R, NEW s \in R, NEW t \in R, <<r, s>> \in O, <<s, t>> \in O
        PROVE  <<r, t>> \in O
    <3>1. Reporting!Before(r, s) /\ Reporting!Before(s, t)
      BY <1>3, <2>3
    <3>2. Reporting!Before(r, t)
      BY <1>4, <3>1
    <3>3. QED
      BY <1>3, <3>2
  <2>4. QED
    BY <2>1, <2>2, <2>3 DEF Ranks
<1>6. n \in Nat
  BY <1>1, FS_CardinalityType
<1>7. PICK s : Lists(s, R, O)
  BY <1>1, <1>5, SetsAreListed
<1>8. list \in [1..n -> R] /\ \A i, j \in 1..n : i < j => Reporting!Before(list[i], list[j])
  <2> DEFINE Listed(l) == \A i, j \in DOMAIN l : i < j => Reporting!Before(l[i], l[j])
  <2>1. s \in [1..n -> R] /\ Listed(s)
    BY <1>3, <1>7 DEF Lists
  <2>2. list = CHOOSE l \in [1..n -> R] : Listed(l)
    BY <1>2
  <2>3. list \in [1..n -> R] /\ Listed(list)
    <3> HIDE DEF Listed, list
    <3>1. QED
      BY <2>1, <2>2
  <2>4. QED
    BY <2>3
<1> HIDE DEF list
<1>9. Lists(list, R, O)
  BY <1>3, <1>8 DEF Lists
<1>10. list \in Bijection(1..n, R)
  BY <1>1, <1>5, <1>9, ListsAreBijections
<1> QED
  BY <1>6, <1>8, <1>10 DEF list, R

\* A list of all rows, each once.
Listing(list, n, R) ==
    /\ n \in Nat /\ list \in [1..n -> R] /\ list \in Bijection(1..n, R)
    /\ \A r \in R : Row(r)

\* What the rows at some positions owe.
Owes(list) == [i \in DOMAIN list |-> list[i].outstanding]

\* A sum over the entries of a function that is written with some of them only.
LEMMA SumOfSome ==
    ASSUME NEW S, NEW f, Amounts(f, S), NEW g, DOMAIN g = S, \A x \in S : g[x] = f[x]
    PROVE  SumFunction(g) = SumOn(f, S) /\ Reporting!SumFunction(g) = SumOn(f, S)
<1>1. SumOn(g, S) = SumOn(f, S)
  BY SumsAgree
<1> QED
  BY <1>1, SumFunctionIsSumOn

\* The amounts of a list.
LEMMA ListingAmounts ==
    ASSUME NEW list, NEW n, NEW R, Listing(list, n, R), NEW P \in SUBSET (1..n)
    PROVE  /\ DOMAIN list = 1..n /\ IsFiniteSet(1..n)
           /\ Amounts(Owes(list), 1..n) /\ Amounts(Owes(list), P)
           /\ \A i \in 1..n : list[i] \in R /\ Row(list[i]) /\ Owes(list)[i] = list[i].outstanding
<1>1. n \in Nat /\ DOMAIN list = 1..n /\ \A i \in 1..n : list[i] \in R /\ Row(list[i])
  BY DEF Listing
<1>2. IsFiniteSet(1..n)
  BY <1>1, FS_Interval
<1>3. \A i \in 1..n : Owes(list)[i] = list[i].outstanding /\ list[i].outstanding \in Int
  BY <1>1 DEF Owes, Row
<1>4. Amounts(Owes(list), 1..n)
  BY <1>2, <1>3 DEF Amounts
<1>5. Amounts(Owes(list), P)
  BY <1>4, SumOfPart
<1> QED
  BY <1>1, <1>2, <1>3, <1>4, <1>5

\* The customers of a list owe what its rows owe, at whatever positions.
LEMMA CustomersOweTheirRows ==
    ASSUME NEW list, NEW n, NEW R, Listing(list, n, R), NEW P \in SUBSET (1..n),
           NEW h, DOMAIN h = {list[i].customer : i \in DOMAIN list},
           \A c \in DOMAIN h : h[c] = Reporting!SumFunction(
               [i \in {i \in P : list[i].customer = c} |-> list[i].outstanding])
    PROVE  SumFunction(h) = SumOn(Owes(list), P)
<1> DEFINE K == DOMAIN h
           key == [i \in 1..n |-> list[i].customer]
           owe == Owes(list)
<1>1. /\ DOMAIN list = 1..n /\ IsFiniteSet(1..n) /\ Amounts(owe, P)
      /\ \A i \in 1..n : owe[i] = list[i].outstanding
  BY ListingAmounts
<1>2. K = {key[i] : i \in 1..n}
  BY <1>1
<1>3. IsFiniteSet(K)
  <2>1. key \in Surjection(1..n, K)
    <3>1. key \in [1..n -> K]
      BY <1>2
    <3>2. QED
      BY <1>2, <3>1 DEF Surjection
  <2> HIDE DEF K, key
  <2>2. QED
    BY <1>1, <2>1, FS_Surjection
<1>4. \A i \in P : key[i] \in K
  BY <1>2
<1>5. ASSUME NEW c \in K PROVE h[c] = SumOn(owe, {i \in P : key[i] = c})
  <2> DEFINE Q == {i \in P : list[i].customer = c}
             g == [i \in Q |-> list[i].outstanding]
  <2>1. Q \subseteq P /\ Q \subseteq 1..n /\ Q = {i \in P : key[i] = c}
    OBVIOUS
  <2>2. h[c] = Reporting!SumFunction(g)
    OBVIOUS
  <2>3. Amounts(owe, Q)
    <3> HIDE DEF Q, owe
    <3>1. QED
      BY <1>1, <2>1, SumOfPart
  <2>4. DOMAIN g = Q /\ \A i \in Q : g[i] = owe[i]
    BY <1>1, <2>1
  <2> HIDE DEF Q, g, owe
  <2>5. Reporting!SumFunction(g) = SumOn(owe, Q)
    BY <2>3, <2>4, SumOfSome
  <2> QED
    BY <2>1, <2>2, <2>5
<1>6. SumOn(h, K) = SumOn(owe, P)
  <2> HIDE DEF K, key, owe
  <2>1. QED
    BY <1>1, <1>3, <1>4, <1>5, SumByKey
<1> QED
  BY <1>6, SumFunctionIsSumOn

\* The rows owe what the orders owe.
LEMMA RowsOweTheirOrders ==
    ASSUME NEW orders, NEW now, Owed(orders, now),
           NEW list, NEW n, Listing(list, n, Rows(orders, now)),
           NEW h, DOMAIN h = Reporting!Owing(orders),
           \A o \in Reporting!Owing(orders) : h[o] = Reporting!outstanding(o)
    PROVE  /\ SumOn(h, Reporting!Owing(orders)) = SumOn(Owes(list), 1..n)
           /\ SumFunction(h) = SumOn(Owes(list), 1..n)
           /\ Reporting!SumFunction(h) = SumOn(Owes(list), 1..n)
<1> DEFINE W == Reporting!Owing(orders)
           R == Rows(orders, now)
           b == RowOf(orders, now)
           owe == Owes(list)
           g == [r \in R |-> r.outstanding]
<1>1. /\ W \subseteq Reporting!OrderRow /\ b \in Bijection(W, R) /\ IsFiniteSet(R)
      /\ \A r \in R : Row(r)
  BY OwingIsTyped
<1>2. Amounts(g, R)
  <2>1. \A r \in R : g[r] \in Int
    BY <1>1 DEF Row
  <2> HIDE DEF g, R
  <2>2. QED
    BY <1>1, <2>1 DEF Amounts
<1>3. ASSUME NEW o \in W PROVE h[o] = g[b[o]]
  <2>1. b[o] = Reporting!ReceivableRow(o, now) /\ b[o] \in R
    BY DEF RowOf, Rows
  <2>2. b[o].outstanding = Reporting!outstanding(o)
    BY <2>1 DEF Reporting!ReceivableRow
  <2> QED
    BY <2>1, <2>2
<1>4. list \in Bijection(1..n, R) /\ \A i \in 1..n : owe[i] = g[list[i]]
  <2>1. \A i \in 1..n : list[i] \in R /\ owe[i] = list[i].outstanding
    BY ListingAmounts
  <2>2. QED
    BY <2>1 DEF Listing
<1> HIDE DEF W, R, b, owe, g
<1>5. SumOn(h, W) = SumOn(g, R)
  BY <1>1, <1>2, <1>3, SumRenamed
<1>6. SumOn(owe, 1..n) = SumOn(g, R)
  <2> DEFINE I == 1..n
  <2>1. list \in Bijection(I, R) /\ \A i \in I : owe[i] = g[list[i]]
    BY <1>4
  <2> HIDE DEF I
  <2>2. SumOn(owe, I) = SumOn(g, R)
    BY <1>2, <2>1, SumRenamed
  <2>3. QED
    BY <2>2 DEF I
<1> QED
  BY <1>5, <1>6, SumFunctionIsSumOn DEF W, owe

\* A sum over a part is the sum of what is nothing elsewhere.
LEMMA SumOfMarked ==
    ASSUME NEW S, NEW f, Amounts(f, S), NEW T \in SUBSET S,
           NEW g, \A x \in S : g[x] = IF x \in T THEN f[x] ELSE 0
    PROVE  Amounts(g, S) /\ SumOn(g, S) = SumOn(f, T)
<1>1. Amounts(f, T)
  BY SumOfPart
<1>2. Amounts(g, S)
  BY DEF Amounts
<1>3. \A x \in S \ T : g[x] = 0
  OBVIOUS
<1>4. SumOn(g, S) = SumOn(g, T)
  BY <1>2, <1>3, SumOverPart
<1>5. SumOn(g, T) = SumOn(f, T)
  BY <1>1, SumsAgree
<1> QED
  BY <1>2, <1>4, <1>5

\* So do the overdue rows and the overdue orders.
LEMMA OverdueRowsOweTheirOrders ==
    ASSUME NEW orders, NEW now, Owed(orders, now),
           NEW list, NEW n, Listing(list, n, Rows(orders, now)),
           NEW D, D = {o \in Reporting!Owing(orders) : RowOf(orders, now)[o].bucket = "OVERDUE"},
           NEW h, DOMAIN h = D, \A o \in D : h[o] = Reporting!outstanding(o)
    PROVE  Reporting!SumFunction(h)
               = SumOn(Owes(list), {i \in 1..n : list[i].bucket = "OVERDUE"})
<1> DEFINE W == Reporting!Owing(orders)
           R == Rows(orders, now)
           b == RowOf(orders, now)
           owe == Owes(list)
           I == 1..n
           P == {i \in I : list[i].bucket = "OVERDUE"}
           owed == [o \in W |-> Reporting!outstanding(o)]
           g == [r \in R |-> IF r.bucket = "OVERDUE" THEN r.outstanding ELSE 0]
           hw == [o \in W |-> IF o \in D THEN owed[o] ELSE 0]
           hi == [i \in I |-> IF i \in P THEN owe[i] ELSE 0]
<1>1. /\ b \in Bijection(W, R) /\ IsFiniteSet(R) /\ IsFiniteSet(W)
      /\ \A r \in R : Row(r)
  BY OwingIsTyped
<1>2. Amounts(g, R)
  <2>1. \A r \in R : g[r] \in Int
    BY <1>1 DEF Row
  <2> HIDE DEF g, R
  <2>2. QED
    BY <1>1, <2>1 DEF Amounts
<1>3. \A o \in W : b[o] \in R /\ b[o].outstanding = owed[o]
  BY DEF RowOf, Rows, Reporting!ReceivableRow
<1>4. \A o \in W : hw[o] = g[b[o]]
  <2>1. \A o \in W : o \in D <=> b[o].bucket = "OVERDUE"
    OBVIOUS
  <2> HIDE DEF b, R, W, owed
  <2>2. QED
    BY <1>3, <2>1
<1>5. Amounts(owed, W)
  <2>1. \A o \in W : owed[o] \in Int
    BY <1>1, <1>3 DEF Row
  <2> HIDE DEF W, owed
  <2>2. QED
    BY <1>1, <2>1 DEF Amounts
<1>6. SumOn(hw, W) = SumOn(g, R)
  <2> HIDE DEF W, R, b, g, hw
  <2>1. QED
    BY <1>1, <1>2, <1>4, SumRenamed
<1>7. SumOn(hw, W) = SumOn(owed, D)
  <2>1. D \in SUBSET W /\ \A o \in W : hw[o] = IF o \in D THEN owed[o] ELSE 0
    OBVIOUS
  <2> HIDE DEF W, owed, hw
  <2>2. QED
    BY <1>5, <2>1, SumOfMarked
<1>8. Reporting!SumFunction(h) = SumOn(owed, D)
  <2>1. D \in SUBSET W /\ \A o \in D : h[o] = owed[o]
    OBVIOUS
  <2> HIDE DEF W, owed
  <2>2. Amounts(owed, D)
    BY <1>5, <2>1, SumOfPart
  <2>3. QED
    BY <2>1, <2>2, SumOfSome
<1>9. /\ list \in Bijection(I, R) /\ Amounts(owe, I)
      /\ \A i \in I : list[i] \in R /\ owe[i] = list[i].outstanding
  BY ListingAmounts DEF Listing
<1>10. \A i \in I : hi[i] = g[list[i]]
  <2>1. \A i \in I : i \in P <=> list[i].bucket = "OVERDUE"
    OBVIOUS
  <2> HIDE DEF I, R, P, owe
  <2>2. QED
    BY <1>9, <2>1
<1>11. SumOn(hi, I) = SumOn(g, R)
  <2> HIDE DEF I, R, g, hi
  <2>1. QED
    BY <1>2, <1>9, <1>10, SumRenamed
<1>12. SumOn(hi, I) = SumOn(owe, P)
  <2>1. P \in SUBSET I /\ \A i \in I : hi[i] = IF i \in P THEN owe[i] ELSE 0
    OBVIOUS
  <2> HIDE DEF I, owe, P, hi
  <2>2. QED
    BY <1>9, <2>1, SumOfMarked
<1> HIDE DEF W, R, owed, owe, hw, hi, g
<1>13. Reporting!SumFunction(h) = SumOn(owe, P)
  BY <1>6, <1>7, <1>8, <1>11, <1>12
<1> QED
  BY <1>13 DEF P, I, owe

\* What the list owes and in which order.
LEMMA ListIsInOrder ==
    ASSUME NEW list, NEW n, NEW R, Listing(list, n, R),
           \A r, s \in R : r.number = s.number => r = s,
           \A i, j \in 1..n : i < j => Reporting!Before(list[i], list[j])
    PROVE  \A i, j \in DOMAIN list : i < j =>
              /\ list[i].number # list[j].number
              /\ list[i].daysOverdue >= list[j].daysOverdue
              /\ list[i].daysOverdue = list[j].daysOverdue /\ list[i].bucket = list[j].bucket
                     => list[i].outstanding >= list[j].outstanding
<1>1. DOMAIN list = 1..n /\ \A i \in 1..n : list[i] \in R /\ Row(list[i])
  BY DEF Listing
<1>2. SUFFICES ASSUME NEW i \in 1..n, NEW j \in 1..n, i < j
               PROVE  /\ list[i].number # list[j].number
                      /\ list[i].daysOverdue >= list[j].daysOverdue
                      /\ list[i].daysOverdue = list[j].daysOverdue /\ list[i].bucket = list[j].bucket
                             => list[i].outstanding >= list[j].outstanding
  BY <1>1
<1> DEFINE a == list[i]
           z == list[j]
<1>3. a.number # z.number
  <2>1. i # j
    BY <1>2
  <2>2. a # z
    BY <2>1 DEF Listing, Bijection, Injection, IsInjective
  <2>3. QED
    BY <1>1, <2>2
<1>4. Row(a) /\ Row(z) /\ Reporting!Before(a, z)
  BY <1>1, <1>2
<1> HIDE DEF a, z
<1>5. /\ Reporting!BUCKET_ORDER["OVERDUE"] = 1 /\ Reporting!BUCKET_ORDER["DUE_TODAY"] = 2
      /\ Reporting!BUCKET_ORDER["DUE_SOON"] = 3 /\ Reporting!BUCKET_ORDER["NOT_DUE"] = 4
  BY DEF Reporting!BUCKET_ORDER
<1>6. /\ a.daysOverdue \in Int /\ z.daysOverdue \in Int /\ a.daysOverdue >= 0 /\ z.daysOverdue >= 0
      /\ a.outstanding \in Int /\ z.outstanding \in Int
      /\ z.daysOverdue > 0 <=> z.bucket = "OVERDUE"
  BY <1>4 DEF Row
<1>7. CASE a.bucket = z.bucket
  BY <1>3, <1>4, <1>5, <1>6, <1>7 DEF Reporting!Before, Row, a, z
<1>8. CASE a.bucket # z.bucket
  <2>1. Reporting!BUCKET_ORDER[a.bucket] < Reporting!BUCKET_ORDER[z.bucket]
    BY <1>4, <1>8 DEF Reporting!Before
  <2>2. z.bucket # "OVERDUE"
    <3>1. /\ a.bucket \in {"OVERDUE", "DUE_TODAY", "DUE_SOON", "NOT_DUE"}
          /\ z.bucket \in {"OVERDUE", "DUE_TODAY", "DUE_SOON", "NOT_DUE"}
      BY <1>4 DEF Row
    <3>2. QED
      BY <1>5, <2>1, <3>1
  <2>3. z.daysOverdue = 0
    BY <1>6, <2>2
  <2>4. QED
    BY <1>3, <1>6, <1>8, <2>3 DEF a, z
<1> QED
  BY <1>7, <1>8

\* The rows that are overdue in days are those in the bucket.
LateRows(list, n) == {i \in 1..n : list[i].bucket = "OVERDUE"}

\* What the customers of a list owe, and what of it is overdue.
LEMMA CustomersAddUp ==
    ASSUME NEW list, NEW n, NEW R, Listing(list, n, R)
    PROVE  LET customers == Reporting!aggregateByCustomer(list)
           IN  /\ DOMAIN customers = {list[i].customer : i \in DOMAIN list}
               /\ SumFunction([c \in DOMAIN customers |-> customers[c].outstanding])
                      = SumOn(Owes(list), 1..n)
               /\ SumFunction([c \in DOMAIN customers |-> customers[c].overdue])
                      = SumOn(Owes(list), LateRows(list, n))
<1> DEFINE customers == Reporting!aggregateByCustomer(list)
           K == {list[i].customer : i \in DOMAIN list}
           all == [c \in DOMAIN customers |-> customers[c].outstanding]
           over == [c \in DOMAIN customers |-> customers[c].overdue]
<1>1. DOMAIN list = 1..n
  BY DEF Listing
<1>2. DOMAIN customers = K /\ DOMAIN all = K /\ DOMAIN over = K
  BY DEF Reporting!aggregateByCustomer
<1>3. ASSUME NEW c \in K
      PROVE  /\ all[c] = Reporting!SumFunction(
                    [i \in {i \in 1..n : list[i].customer = c} |-> list[i].outstanding])
             /\ over[c] = Reporting!SumFunction(
                    [i \in {i \in LateRows(list, n) : list[i].customer = c} |-> list[i].outstanding])
  <2> DEFINE of == {i \in DOMAIN list : list[i].customer = c}
             late == {i \in of : list[i].bucket = "OVERDUE"}
             total(rows) == Reporting!SumFunction([i \in rows |-> list[i].outstanding])
  <2>1. all[c] = customers[c].outstanding /\ over[c] = customers[c].overdue
    BY <1>2
  <2>2. customers[c].outstanding = total(of) /\ customers[c].overdue = total(late)
    BY DEF Reporting!aggregateByCustomer
  <2>3. /\ of = {i \in 1..n : list[i].customer = c}
        /\ late = {i \in LateRows(list, n) : list[i].customer = c}
    BY <1>1 DEF LateRows
  <2> HIDE DEF of, late, all, over, customers
  <2>4. QED
    BY <2>1, <2>2, <2>3
<1>4. LateRows(list, n) \in SUBSET (1..n) /\ 1..n \in SUBSET (1..n)
  BY DEF LateRows
<1> HIDE DEF all, over, customers, K
<1>5. SumFunction(all) = SumOn(Owes(list), 1..n)
  BY <1>2, <1>3, <1>4, CustomersOweTheirRows DEF K
<1>6. SumFunction(over) = SumOn(Owes(list), LateRows(list, n))
  BY <1>2, <1>3, <1>4, CustomersOweTheirRows DEF K
<1> QED
  BY <1>2, <1>5, <1>6 DEF all, over, customers, K

\* The dashboard's totals are those of a list.
TotalsOf(totals, orders, list, n, zone, now) ==
    /\ totals.outstanding = SumOn(Owes(list), 1..n)
    /\ totals.customerCount = Cardinality({list[i].customer : i \in DOMAIN list})
    /\ LET date  == Reporting!DateOf(now)
           localDate == Reporting!localCalendarDate(now, zone)
       IN  totals.overdue + DueBetween(orders, localDate, date)
               = SumOn(Owes(list), LateRows(list, n)) + DueBetween(orders, date, localDate)

\* The totals of receivables.ts are those of any list of the rows.
LEMMA TotalsAreOfTheList ==
    ASSUME NEW orders, NEW now, Owed(orders, now), NEW zone \in Reporting!Zone,
           NEW list, NEW n, Listing(list, n, Rows(orders, now))
    PROVE  TotalsOf(Reporting!receivablesTotals(orders, zone, now), orders, list, n, zone, now)
<1> DEFINE W == Reporting!Owing(orders)
           totals == Reporting!receivablesTotals(orders, zone, now)
           b == RowOf(orders, now)
           today == Reporting!localCalendarDate(now, zone)
           date == Reporting!DateOf(now)
           D == {o \in W : o.due # None /\ Reporting!BucketOfDays(o.due - today) = "OVERDUE"}
           all == [o \in W |-> Reporting!outstanding(o)]
           over == [o \in D |-> Reporting!outstanding(o)]
<1>1. /\ totals.outstanding = Reporting!SumFunction(all)
      /\ totals.overdue = Reporting!SumFunction(over)
      /\ totals.customerCount = Cardinality({o.customer : o \in W})
  BY ReportingCounts DEF Reporting!receivablesTotals, Reporting!compareDateToLocalToday
<1>2. totals.outstanding = SumOn(Owes(list), 1..n)
  BY <1>1, RowsOweTheirOrders
<1>3. \A o \in W : /\ b[o] = Reporting!ReceivableRow(o, now) /\ b[o] \in Rows(orders, now)
                   /\ b[o].customer = o.customer
  BY DEF RowOf, Rows, Reporting!ReceivableRow
<1>4. {o.customer : o \in W} = {list[i].customer : i \in DOMAIN list}
  <2>1. /\ DOMAIN list = 1..n /\ list \in Surjection(1..n, Rows(orders, now))
        /\ \A i \in 1..n : list[i] \in Rows(orders, now)
    BY DEF Listing, Bijection
  <2>2. \A o \in W : \E i \in 1..n : list[i] = b[o]
    BY <1>3, <2>1 DEF Surjection
  <2>3. \A i \in 1..n : \E o \in W : list[i] = b[o]
    BY <1>3, <2>1 DEF Rows
  <2> HIDE DEF W, b
  <2>4. QED
    BY <1>3, <2>1, <2>2, <2>3
<1>5. totals.overdue + DueBetween(orders, today, date)
         = SumOn(Owes(list), LateRows(list, n)) + DueBetween(orders, date, today)
  <2> DEFINE L == {o \in W : o.due # None /\ o.due < today}
             U == {o \in W : o.due # None /\ o.due < date}
             A == {o \in W : o.due # None /\ today <= o.due /\ o.due < date}
             B == {o \in W : o.due # None /\ date <= o.due /\ o.due < today}
  <2>1. today \in Int /\ date \in Int /\ \A o \in W : o.due # None => o.due \in Int
    <3>1. now \in Int /\ zone.change \in Int /\ zone.before \in Int /\ zone.after \in Int
      BY DEF Owed, Reporting!Zone
    <3>2. W \subseteq Reporting!OrderRow
      BY OwingIsTyped
    <3> HIDE DEF W
    <3>3. QED
      BY <3>1, <3>2 DEF Reporting!localCalendarDate, Reporting!DateOf, Reporting!HOURS,
         Reporting!offsetHours, Reporting!OrderRow
  <2> HIDE DEF today, date
  <2>2. \A o \in W : o.due # None =>
           /\ Reporting!BucketOfDays(o.due - today) = "OVERDUE" <=> o.due < today
           /\ Reporting!BucketOfDays(o.due - date) = "OVERDUE" <=> o.due < date
    <3> HIDE DEF W
    <3>1. QED
      BY <2>1 DEF Reporting!BucketOfDays
  <2>3. Amounts(all, W)
    <3>1. IsFiniteSet(W) /\ \A o \in W : b[o] \in Rows(orders, now) /\ Row(b[o])
      BY <1>3, OwingIsTyped
    <3>2. ASSUME NEW o \in W PROVE all[o] = b[o].outstanding
      <4>1. all[o] = Reporting!outstanding(o)
        OBVIOUS
      <4>2. b[o] = Reporting!ReceivableRow(o, now)
        BY <1>3
      <4>3. Reporting!ReceivableRow(o, now).outstanding = Reporting!outstanding(o)
        BY DEF Reporting!ReceivableRow
      <4> HIDE DEF all, b
      <4>4. QED
        BY <4>1, <4>2, <4>3
    <3> HIDE DEF W, all, b
    <3>3. QED
      BY <3>1, <3>2 DEF Amounts, Row
  <2>4. /\ L \in SUBSET W /\ U \in SUBSET W /\ A \in SUBSET W /\ B \in SUBSET W
    OBVIOUS
  <2>5. L \cap A = {} /\ U \cap B = {} /\ L \cup A = U \cup B
    <3> HIDE DEF W
    <3>1. QED
      BY <2>1
  <2>6. totals.overdue = SumOn(all, L)
    <3>1. D = L
      BY <2>2
    <3>2. DOMAIN over = L /\ \A o \in L : over[o] = all[o]
      BY <2>4, <3>1
    <3> HIDE DEF W, L, D, all, over, totals
    <3>3. Amounts(all, L)
      BY <2>3, <2>4, SumOfPart
    <3>4. QED
      BY <1>1, <3>2, <3>3, SumOfSome
  <2>7. SumOn(all, U) = SumOn(Owes(list), LateRows(list, n))
    <3> DEFINE h == [o \in U |-> Reporting!outstanding(o)]
    <3>1. U = {o \in W : b[o].bucket = "OVERDUE"}
      <4>1. ASSUME NEW o \in W
            PROVE  b[o].bucket = "OVERDUE" <=> (o.due # None /\ o.due < date)
        <5>1. o \in Reporting!OrderRow /\ now \in Int
          BY OwingIsTyped DEF Owed
        <5>2. Reporting!ReceivableRow(o, now).bucket = "OVERDUE" <=>
                 (o.due # None /\ Reporting!BucketOfDays(o.due - date) = "OVERDUE")
          BY <5>1, RowsAreTyped DEF date
        <5>3. QED
          BY <1>3, <2>2, <5>2
      <4>2. QED
        BY <4>1
    <3>2. DOMAIN h = U /\ \A o \in U : h[o] = Reporting!outstanding(o) /\ h[o] = all[o]
      BY <2>4
    <3> HIDE DEF U, h, all
    <3>3. Reporting!SumFunction(h) = SumOn(Owes(list), LateRows(list, n))
      BY <3>1, <3>2, OverdueRowsOweTheirOrders DEF LateRows
    <3>4. Amounts(all, U)
      BY <2>3, <2>4, SumOfPart
    <3>5. Reporting!SumFunction(h) = SumOn(all, U)
      BY <3>2, <3>4, SumOfSome
    <3>6. QED
      BY <3>3, <3>5
  <2>8. ASSUME NEW first, NEW next
        PROVE  DueBetween(orders, first, next)
                   = SumOn(all, {o \in W : o.due # None /\ first <= o.due /\ o.due < next})
    <3> DEFINE M == {o \in orders : /\ o.status # "CANCELLED" /\ Reporting!outstanding(o) > 0
                                    /\ o.due # None /\ first <= o.due /\ o.due < next}
               N == {o \in W : o.due # None /\ first <= o.due /\ o.due < next}
               h == [o \in M |-> Reporting!outstanding(o)]
    <3>1. W = {o \in {o \in orders : o.status # "CANCELLED"} : Reporting!outstanding(o) > 0}
      BY OwingIsTyped
    <3>2. M = N
      <4> HIDE DEF W
      <4>1. QED
        BY <3>1
    <3>3. DueBetween(orders, first, next) = SumFunction(h)
      BY DEF DueBetween
    <3>4. N \in SUBSET W
      OBVIOUS
    <3>5. DOMAIN h = N /\ \A o \in N : h[o] = all[o]
      BY <3>2, <3>4
    <3> HIDE DEF M, N, h, all, W
    <3>6. Amounts(all, N)
      BY <2>3, <3>4, SumOfPart
    <3>7. SumFunction(h) = SumOn(all, N)
      BY <3>5, <3>6, SumOfSome
    <3>8. QED
      BY <3>3, <3>7 DEF N
  <2>9. DueBetween(orders, today, date) = SumOn(all, A) /\ DueBetween(orders, date, today) = SumOn(all, B)
    BY <2>8
  <2> HIDE DEF W, L, U, A, B, all, totals
  <2>10. /\ Amounts(all, L) /\ Amounts(all, U) /\ Amounts(all, A) /\ Amounts(all, B)
    BY <2>3, <2>4, SumOfPart
  <2>11. SumOn(all, L) + SumOn(all, A) = SumOn(all, U) + SumOn(all, B)
    <3>1. SumOn(all, L \cup A) = SumOn(all, L) + SumOn(all, A)
      BY <2>5, <2>10, SumOfUnion
    <3>2. SumOn(all, U \cup B) = SumOn(all, U) + SumOn(all, B)
      BY <2>5, <2>10, SumOfUnion
    <3>3. QED
      BY <2>5, <3>1, <3>2
  <2>12. QED
    BY <2>6, <2>7, <2>9, <2>11
<1> QED
  BY <1>1, <1>2, <1>4, <1>5 DEF TotalsOf

\* A book is orders that are owed for.
LEMMA BooksAreOwed ==
    ASSUME QuestionTyped, About("book")
    PROVE  Owed(input.orders, input.now) /\ input.zone \in Reporting!Zone
<1>1. input \in Books
  BY Asked DEF Topics
<1>2. /\ input.orders \subseteq Reporting!OrderRow /\ Keyed(input.orders, LAMBDA o : o.number)
      /\ input.now \in Int /\ input.zone \in Reporting!Zone
  BY <1>1, SamplesAreRows
<1> QED
  BY <1>2 DEF Keyed, Owed

\* The collections list and the dashboard agree.
LEMMA DebtListsHold ==
    ASSUME QuestionTyped
    PROVE  DebtListsAgree
<1> SUFFICES ASSUME About("book") PROVE DebtListsAgree
  BY DEF DebtListsAgree
<1> DEFINE orders    == input.orders
           now       == input.now
           list      == Reporting!receivables(orders, now)
           totals    == Reporting!receivablesTotals(orders, input.zone, now)
           customers == Reporting!aggregateByCustomer(list)
           W         == Reporting!Owing(orders)
           late      == {i \in DOMAIN list : list[i].daysOverdue > 0}
           whole     == SumFunction([i \in DOMAIN list |-> list[i].outstanding])
           behind    == SumFunction([i \in late |-> list[i].outstanding])
           allOfAll  == SumFunction([c \in DOMAIN customers |-> customers[c].outstanding])
           overOfAll == SumFunction([c \in DOMAIN customers |-> customers[c].overdue])
           ahead     == DueBetween(orders, Reporting!localCalendarDate(now, input.zone), Reporting!DateOf(now))
           behindHere == DueBetween(orders, Reporting!DateOf(now), Reporting!localCalendarDate(now, input.zone))
           owed      == SumFunction([o \in W |-> Reporting!outstanding(o)])
<1>1. Owed(orders, now)
  BY BooksAreOwed
<1> HIDE DEF orders, now
<1>2. PICK n \in Nat : /\ list \in [1..n -> Rows(orders, now)]
                       /\ list \in Bijection(1..n, Rows(orders, now))
                       /\ \A i, j \in 1..n : i < j => Reporting!Before(list[i], list[j])
  BY <1>1, RowsAreListed
<1>3. /\ \A r \in Rows(orders, now) : Row(r)
      /\ \A r, s \in Rows(orders, now) : r.number = s.number => r = s
      /\ W = {o \in {o \in orders : o.status # "CANCELLED"} : Reporting!outstanding(o) > 0}
  BY <1>1, OwingIsTyped
<1> HIDE DEF list
<1>4. Listing(list, n, Rows(orders, now))
  BY <1>2, <1>3 DEF Listing
<1>5. DOMAIN list = 1..n /\ \A i \in 1..n : Row(list[i])
  BY <1>4, <1>3 DEF Listing
<1>6. late = LateRows(list, n)
  BY <1>5 DEF LateRows, Row
<1>7. owed = SumOn(Owes(list), 1..n)
  <2> DEFINE h == [o \in W |-> Reporting!outstanding(o)]
  <2>1. DOMAIN h = W /\ \A o \in W : h[o] = Reporting!outstanding(o)
    OBVIOUS
  <2> HIDE DEF h
  <2>2. SumFunction(h) = SumOn(Owes(list), 1..n)
    BY <1>1, <1>4, <2>1, RowsOweTheirOrders
  <2>3. QED
    BY <2>2 DEF h
<1>8. ASSUME NEW P \in SUBSET (1..n)
      PROVE  SumFunction([i \in P |-> list[i].outstanding]) = SumOn(Owes(list), P)
  <2> DEFINE g == [i \in P |-> list[i].outstanding]
  <2>1. /\ Amounts(Owes(list), P) /\ DOMAIN g = P
        /\ \A i \in P : g[i] = Owes(list)[i]
    BY <1>4, ListingAmounts
  <2> HIDE DEF g
  <2>2. SumFunction(g) = SumOn(Owes(list), P)
    BY <2>1, SumOfSome
  <2>3. QED
    BY <2>2 DEF g
<1>9. whole = SumOn(Owes(list), 1..n)
  BY <1>5, <1>8
<1>10. behind = SumOn(Owes(list), LateRows(list, n))
  <2>1. LateRows(list, n) \in SUBSET (1..n)
    BY DEF LateRows
  <2>2. QED
    BY <1>6, <1>8, <2>1
<1>11. /\ DOMAIN customers = {list[i].customer : i \in DOMAIN list}
       /\ allOfAll = SumOn(Owes(list), 1..n)
       /\ overOfAll = SumOn(Owes(list), LateRows(list, n))
  BY <1>4, CustomersAddUp
<1>12. /\ totals.outstanding = SumOn(Owes(list), 1..n)
       /\ totals.customerCount = Cardinality({list[i].customer : i \in DOMAIN list})
       /\ totals.overdue + ahead = SumOn(Owes(list), LateRows(list, n)) + behindHere
  <2> DEFINE zone == input.zone
  <2>1. zone \in Reporting!Zone
    BY BooksAreOwed
  <2> HIDE DEF zone, totals
  <2>2. TotalsOf(Reporting!receivablesTotals(orders, zone, now), orders, list, n, zone, now)
    BY <1>1, <1>4, <2>1, TotalsAreOfTheList
  <2>3. TotalsOf(totals, orders, list, n, zone, now)
    BY <2>2 DEF totals, zone
  <2>4. QED
    BY <2>3 DEF TotalsOf, zone
<1>13. \A i, j \in DOMAIN list : i < j =>
          /\ list[i].number # list[j].number
          /\ list[i].daysOverdue >= list[j].daysOverdue
          /\ list[i].daysOverdue = list[j].daysOverdue /\ list[i].bucket = list[j].bucket
                 => list[i].outstanding >= list[j].outstanding
  BY <1>2, <1>3, <1>4, ListIsInOrder
<1>14. owed = SumFunction([o \in {o \in {o \in orders : o.status # "CANCELLED"} :
                                      Reporting!outstanding(o) > 0} |-> Reporting!outstanding(o)])
  <2> HIDE DEF W
  <2>1. QED
    BY <1>3
<1> HIDE DEF owed, whole, behind, allOfAll, overOfAll, ahead, behindHere, totals, customers, late, W
<1>15. /\ owed = totals.outstanding /\ owed = whole /\ owed = allOfAll
       /\ totals.customerCount = Cardinality(DOMAIN customers)
       /\ behind = overOfAll
       /\ totals.overdue + ahead = overOfAll + behindHere
  BY <1>7, <1>9, <1>10, <1>11, <1>12
<1> QED
  BY <1>13, <1>14, <1>15 DEF DebtListsAgree, OverdueOf, whole, behind, allOfAll, overOfAll,
     ahead, behindHere, totals, customers, late, list, orders, now

-----------------------------------------------------------------------------
(* Days                                                                    *)

Start(zone, date) == Reporting!startOfLocalDay(zone, date)
DateAt(zone, instant) == Reporting!localCalendarDate(instant, zone)

\* A clock that changes by an hour at most.
Ticks(zone) ==
    /\ zone.change \in Int /\ zone.before \in Int /\ zone.after \in Int
    /\ zone.after = zone.before \/ zone.after = zone.before + 1 \/ zone.after = zone.before - 1

\* The date of the day that an instant is counted in.
DayIn(zone, instant) ==
    IF instant \notin HourAstray(zone) THEN DateAt(zone, instant)
    ELSE IF zone.after = zone.before + 1 THEN DateAt(zone, instant) + 1
    ELSE DateAt(zone, instant) - 1

\* A zone of the samples is a clock that runs.
LEMMA ClocksTick ==
    ASSUME NEW zone \in LocalZone
    PROVE  Ticks(zone)
<1>1. /\ zone.change \in Int /\ zone.before \in Int /\ zone.after \in Int
      /\ zone.after - zone.before \in -1..1
  BY DEF LocalZone, Reporting!Zone
<1> QED
  BY <1>1 DEF Ticks

\* The hour astray is the last before a change at midnight.
LEMMA AstrayAtMidnight ==
    ASSUME NEW zone, Ticks(zone), NEW instant \in HourAstray(zone)
    PROVE  /\ instant = zone.change - 1
           /\ \/ /\ zone.after = zone.before + 1 /\ zone.before < 0
                 /\ \E D \in Int : zone.change + zone.before = D * 24
              \/ /\ zone.after = zone.before - 1 /\ zone.after >= 0
                 /\ \E D \in Int : zone.change + zone.after = D * 24
<1>1. \A n \in Int : (n % 24) = 0 => \E D \in Int : n = D * 24
  <2>1. ASSUME NEW n \in Int, (n % 24) = 0 PROVE \E D \in Int : n = D * 24
    <3>1. n \div 24 \in Int /\ n = (n \div 24) * 24 + (n % 24)
      BY Quotient
    <3> DEFINE D == n \div 24
    <3>2. D \in Int /\ n = D * 24
      BY <2>1, <3>1
    <3> HIDE DEF D
    <3>3. QED
      BY <3>2
  <2>2. QED
    BY <2>1
<1>2. /\ zone.change + zone.before \in Int /\ zone.change + zone.after \in Int
      /\ zone.after > zone.before <=> zone.after = zone.before + 1
      /\ zone.after < zone.before <=> zone.after = zone.before - 1
  BY DEF Ticks
<1>3. /\ instant = zone.change - 1
      /\ \/ /\ zone.after > zone.before /\ zone.before < 0
            /\ ((zone.change + zone.before) % 24) = 0
         \/ /\ zone.after < zone.before /\ zone.after >= 0
            /\ ((zone.change + zone.after) % 24) = 0
  BY DEF HourAstray, Reporting!HOURS
<1> QED
  BY <1>1, <1>2, <1>3

\* Every other hour is not.
LEMMA OthersAreNotAstray ==
    ASSUME NEW zone, Ticks(zone), NEW instant, instant \notin HourAstray(zone)
    PROVE  \/ instant # zone.change - 1
           \/ zone.after = zone.before
           \/ /\ zone.after = zone.before + 1
              /\ zone.before >= 0 \/ \A d \in Int : zone.change + zone.before # d * 24
           \/ /\ zone.after = zone.before - 1
              /\ zone.after < 0 \/ \A d \in Int : zone.change + zone.after # d * 24
<1>1. \A n, d \in Int : n = d * 24 => (n % 24) = 0
  <2>1. ASSUME NEW n \in Int, NEW d \in Int, n = d * 24 PROVE (n % 24) = 0
    BY <2>1, QuotientIs
  <2>2. QED
    BY <2>1
<1>2. /\ zone.change + zone.before \in Int /\ zone.change + zone.after \in Int
      /\ zone.before \in Int /\ zone.after \in Int
      /\ zone.after > zone.before <=> zone.after = zone.before + 1
      /\ zone.after < zone.before <=> zone.after = zone.before - 1
      /\ zone.after = zone.before \/ zone.after = zone.before + 1 \/ zone.after = zone.before - 1
  BY DEF Ticks
<1>3. \/ instant # zone.change - 1
      \/ ~ \/ /\ zone.after > zone.before /\ zone.before < 0
              /\ ((zone.change + zone.before) % 24) = 0
           \/ /\ zone.after < zone.before /\ zone.after >= 0
              /\ ((zone.change + zone.after) % 24) = 0
  BY DEF HourAstray, Reporting!HOURS
<1> DEFINE b == zone.before
           a == zone.after
           nb == zone.change + zone.before
           na == zone.change + zone.after
<1>4. (nb % 24) # 0 => \A d \in Int : nb # d * 24
  BY <1>1, <1>2
<1>5. (na % 24) # 0 => \A d \in Int : na # d * 24
  BY <1>1, <1>2
<1>6. (b < 0 \/ b >= 0) /\ (a < 0 \/ a >= 0)
  BY <1>2
<1>7. /\ a > b <=> a = b + 1
      /\ a < b <=> a = b - 1
      /\ a = b \/ a = b + 1 \/ a = b - 1
      /\ \/ instant # zone.change - 1
         \/ ~ (a > b /\ b < 0 /\ (nb % 24) = 0) /\ ~ (a < b /\ a >= 0 /\ (na % 24) = 0)
  BY <1>2, <1>3
<1> HIDE DEF a, b, nb, na
<1>8. \/ instant # zone.change - 1
      \/ a = b
      \/ a = b + 1 /\ (b >= 0 \/ \A d \in Int : nb # d * 24)
      \/ a = b - 1 /\ (a < 0 \/ \A d \in Int : na # d * 24)
  BY <1>4, <1>5, <1>6, <1>7
<1> QED
  BY <1>8 DEF a, b, nb, na

\* Days begin one after the other, and a date is that of a whole day.
LEMMA DaysBegin ==
    ASSUME NEW zone, Ticks(zone), NEW date \in Int
    PROVE  /\ Start(zone, date) \in Int
           /\ Start(zone, date + 1) - Start(zone, date) \in 23..25
<1> DEFINE C == zone.change
           b == zone.before
           a == zone.after
           N == date * 24
           M == (date + 1) * 24
           off(t) == IF t < C THEN b ELSE a
<1>1. C \in Int /\ b \in Int /\ a \in Int /\ (a = b \/ a = b + 1 \/ a = b - 1)
  BY DEF Ticks
<1>2. N \in Int /\ M \in Int /\ M = N + 24
  OBVIOUS
<1>3. /\ Start(zone, date) = N - off(N - off(N))
      /\ Start(zone, date + 1) = M - off(M - off(M))
  BY DEF Start, Reporting!startOfLocalDay, Reporting!offsetHours, Reporting!HOURS
<1> HIDE DEF C, b, a, N, M
<1>4. Start(zone, date) \in Int
  BY <1>1, <1>2, <1>3
<1>5. /\ Start(zone, date) = N - a \/ Start(zone, date) = N - b
      /\ Start(zone, date + 1) = M - a \/ Start(zone, date + 1) = M - b
  BY <1>3
<1>6. Start(zone, date + 1) - Start(zone, date) \in 23..25
  BY <1>1, <1>2, <1>5
<1> QED
  BY <1>4, <1>6

\* An instant is counted on a date or later when the day has started.
LEMMA DaysStart ==
    ASSUME NEW zone, Ticks(zone), NEW date \in Int, NEW instant \in Int
    PROVE  /\ Start(zone, date) \in Int /\ DateAt(zone, instant) \in Int
           /\ DayIn(zone, instant) \in Int
           /\ Start(zone, date) <= instant <=> date <= DayIn(zone, instant)
           /\ Start(zone, date + 1) - Start(zone, date) \in 23..25
<1> DEFINE C == zone.change
           b == zone.before
           a == zone.after
           N == date * 24
           off(t) == IF t < C THEN b ELSE a
           local == instant + off(instant)
           D == DateAt(zone, instant)
<1>1. C \in Int /\ b \in Int /\ a \in Int /\ (a = b \/ a = b + 1 \/ a = b - 1)
  BY DEF Ticks
<1>2. N \in Int
  OBVIOUS
<1>3. Start(zone, date) = N - off(N - off(N)) /\ D = local \div 24
  BY DEF Start, DateAt, Reporting!startOfLocalDay, Reporting!localCalendarDate,
         Reporting!offsetHours, Reporting!HOURS
<1>4. Start(zone, date) \in Int /\ Start(zone, date + 1) - Start(zone, date) \in 23..25
  BY DaysBegin
<1>5. local \in Int
  BY <1>1
<1>6. /\ D \in Int /\ D * 24 <= local /\ local < D * 24 + 24
      /\ N <= local <=> date <= D
  <2> DEFINE q == local \div 24
             r == local % 24
  <2> HIDE DEF local, D
  <2>1. q \in Int /\ r \in 0..23 /\ local = q * 24 + r
    BY <1>5, Quotient
  <2>2. D = q
    BY <1>3
  <2> HIDE DEF q, r
  <2>3. QED
    BY <1>5, <2>1, <2>2
<1> HIDE DEF D
<1>7. CASE instant \notin HourAstray(zone)
  <2>1. DayIn(zone, instant) = D
    BY <1>7 DEF DayIn, D
  <2>2. \/ instant # C - 1 \/ a = b
        \/ (a = b + 1 /\ (b >= 0 \/ C + b # N))
        \/ (a = b - 1 /\ (a < 0 \/ C + a # N))
    BY <1>7, OthersAreNotAstray
  <2> HIDE DEF C, b, a, N
  <2>3. Start(zone, date) <= instant <=> N <= local
    <3>1. CASE a = b
      BY <1>1, <1>2, <1>3, <3>1
    <3>2. CASE a = b + 1
      BY <1>1, <1>2, <1>3, <2>2, <3>2
    <3>3. CASE a = b - 1
      BY <1>1, <1>2, <1>3, <2>2, <3>3
    <3>4. QED
      BY <1>1, <3>1, <3>2, <3>3
  <2>4. QED
    BY <1>4, <1>6, <2>1, <2>3 DEF D
<1>8. CASE instant \in HourAstray(zone) /\ a = b + 1
  <2>1. instant = C - 1 /\ b < 0 /\ \E E \in Int : C + b = E * 24
    BY <1>1, <1>8, AstrayAtMidnight
  <2>2. PICK E \in Int : C + b = E * 24
    BY <2>1
  <2>3. DayIn(zone, instant) = D + 1
    BY <1>8 DEF DayIn, D
  <2>4. E * 24 \in Int
    OBVIOUS
  <2> DEFINE X == E * 24
  <2>5. /\ date <= E - 1 => N <= X - 24
        /\ date = E => N = X
        /\ date >= E + 1 => N >= X + 24
    BY <2>4
  <2>6. local = X - 1
    BY <1>1, <2>1, <2>2
  <2>7. D = E - 1
    BY <1>6, <2>6
  <2>8. X \in Int /\ C + b = X
    BY <2>2, <2>4
  <2> HIDE DEF C, b, a, N, X, local
  <2>9. Start(zone, date) <= instant <=> date <= E
    <3>1. CASE date <= E - 1
      BY <1>1, <1>2, <1>3, <1>8, <2>1, <2>5, <2>8, <3>1
    <3>2. CASE date = E
      BY <1>1, <1>2, <1>3, <1>8, <2>1, <2>5, <2>8, <3>2
    <3>3. CASE date >= E + 1
      BY <1>1, <1>2, <1>3, <1>8, <2>1, <2>5, <2>8, <3>3
    <3>4. QED
      BY <3>1, <3>2, <3>3
  <2>10. DayIn(zone, instant) = E
    BY <2>3, <2>7
  <2>11. QED
    BY <1>4, <1>6, <2>9, <2>10 DEF D
<1>9. CASE instant \in HourAstray(zone) /\ a # b + 1
  <2>1. instant = C - 1 /\ a = b - 1 /\ a >= 0 /\ \E E \in Int : C + a = E * 24
    BY <1>1, <1>9, AstrayAtMidnight
  <2>2. PICK E \in Int : C + a = E * 24
    BY <2>1
  <2>3. DayIn(zone, instant) = D - 1
    BY <1>9 DEF DayIn, D
  <2>4. E * 24 \in Int
    OBVIOUS
  <2> DEFINE X == E * 24
  <2>5. /\ date <= E - 1 => N <= X - 24
        /\ date = E => N = X
        /\ date >= E + 1 => N >= X + 24
    BY <2>4
  <2>6. local = X
    BY <1>1, <2>1, <2>2
  <2>7. D = E
    BY <1>6, <2>6
  <2>8. X \in Int /\ C + a = X
    BY <2>2, <2>4
  <2> HIDE DEF C, b, a, N, X, local
  <2>9. Start(zone, date) <= instant <=> date <= E - 1
    <3>1. CASE date <= E - 1
      BY <1>1, <1>2, <1>3, <2>1, <2>5, <2>8, <3>1
    <3>2. CASE date = E
      BY <1>1, <1>2, <1>3, <2>1, <2>5, <2>8, <3>2
    <3>3. CASE date >= E + 1
      BY <1>1, <1>2, <1>3, <2>1, <2>5, <2>8, <3>3
    <3>4. QED
      BY <3>1, <3>2, <3>3
  <2>10. DayIn(zone, instant) = E - 1
    BY <2>3, <2>7
  <2>11. QED
    BY <1>4, <1>6, <2>9, <2>10 DEF D
<1> QED
  BY <1>7, <1>8, <1>9

\* An hour astray is counted in the day next to its own.
LEMMA AstrayIsElsewhere ==
    ASSUME NEW zone, Ticks(zone), NEW instant \in Int
    PROVE  DayIn(zone, instant) = DateAt(zone, instant) <=> instant \notin HourAstray(zone)
<1>1. DateAt(zone, instant) \in Int
  BY DaysStart
<1> QED
  BY <1>1 DEF DayIn

\* An instant is in the days from one date up to another when its own is.
LEMMA DaysContain ==
    ASSUME NEW zone, Ticks(zone), NEW first \in Int, NEW next \in Int, NEW instant \in Int
    PROVE  Reporting!within(Reporting!Days(zone, first, next), instant)
               <=> first <= DayIn(zone, instant) /\ DayIn(zone, instant) < next
<1>1. /\ Start(zone, first) \in Int /\ Start(zone, next) \in Int /\ DayIn(zone, instant) \in Int
      /\ Start(zone, first) <= instant <=> first <= DayIn(zone, instant)
      /\ Start(zone, next) <= instant <=> next <= DayIn(zone, instant)
  BY DaysStart
<1>2. Reporting!within(Reporting!Days(zone, first, next), instant)
         <=> Start(zone, first) <= instant /\ instant < Start(zone, next)
  BY DEF Reporting!within, Reporting!Days, Start
<1> QED
  BY <1>1, <1>2

\* DaysTile, for every zone and instant.
LEMMA DaysTileHolds ==
    ASSUME QuestionTyped
    PROVE  DaysTile
<1> SUFFICES ASSUME About("clock") PROVE DaysTile
  BY DEF DaysTile
<1> DEFINE zone  == input.zone
           asOf  == input.asOf
           count == input.count
           days  == Reporting!localDaysIn(zone, asOf, count)
           last  == Reporting!lastLocalDays(zone, asOf, count)
           today == DateAt(zone, asOf)
           prec  == Reporting!precedingLocalDays(zone, asOf, count)
           prev  == Reporting!previousLocalDay(zone, asOf)
           day   == Reporting!localDay(zone, asOf)
<1>1. zone \in LocalZone /\ asOf \in Int /\ count \in Nat \ {0}
  <2>1. input \in Clocks
    BY Asked DEF Topics
  <2>2. input \in Window
    BY <2>1, SamplesAreRows
  <2>3. QED
    BY <2>2 DEF Window
<1> HIDE DEF zone, asOf, count
<1>2. Ticks(zone)
  BY <1>1, ClocksTick
<1>3. today \in Int
  BY <1>1, <1>2, DaysStart
<1>4. \A d \in Int : Start(zone, d) \in Int /\ Start(zone, d + 1) - Start(zone, d) \in 23..25
  BY <1>1, <1>2, DaysStart
<1>5. /\ day = Reporting!Days(zone, today, today + 1)
      /\ prev.end = Start(zone, today) /\ day.start = Start(zone, today)
      /\ prec.end = Start(zone, today - (count - 1))
      /\ last.start = Start(zone, today - (count - 1)) /\ last.end = Start(zone, today + 1)
      /\ \A k \in 1..count :
            /\ days[k] = Reporting!Days(zone, today - (count - k), today - (count - k) + 1)
            /\ days[k].start = Start(zone, today - (count - k))
            /\ days[k].end = Start(zone, today - (count - k) + 1)
  BY DEF Reporting!localDay, Reporting!previousLocalDay, Reporting!precedingLocalDays,
         Reporting!lastLocalDays, Reporting!localDaysIn, Reporting!Days, DateAt, Start
<1> HIDE DEF day, prev, prec, last, days
<1>6. Reporting!within(day, asOf) <=> asOf \notin HourAstray(zone)
  <2>1. today + 1 \in Int /\ DayIn(zone, asOf) \in Int
    BY <1>1, <1>2, <1>3, DaysStart
  <2>2. Reporting!within(day, asOf) <=> today <= DayIn(zone, asOf) /\ DayIn(zone, asOf) < today + 1
    BY <1>1, <1>2, <1>3, <1>5, <2>1, DaysContain
  <2>3. DayIn(zone, asOf) = today <=> asOf \notin HourAstray(zone)
    BY <1>1, <1>2, AstrayIsElsewhere
  <2>4. QED
    BY <1>3, <2>1, <2>2, <2>3
<1> DEFINE date(k) == today - (count - k)
<1>7. \A k \in 1..count : date(k) \in Int /\ (k > 1 => date(k - 1) + 1 = date(k))
  BY <1>1, <1>3
<1>8. ASSUME NEW k \in 1..count
      PROVE  /\ days[k].end - days[k].start \in 23..25
             /\ k > 1 => days[k - 1].end = days[k].start
             /\ \A instant \in days[k].start..(days[k].end - 1) :
                   Reporting!localDay(zone, instant) = days[k] <=> instant \notin HourAstray(zone)
  <2>1. /\ days[k] = Reporting!Days(zone, date(k), date(k) + 1)
        /\ days[k].start = Start(zone, date(k)) /\ days[k].end = Start(zone, date(k) + 1)
        /\ date(k) \in Int
    BY <1>5, <1>7
  <2>2. days[k].end - days[k].start \in 23..25
    BY <1>4, <2>1
  <2>3. ASSUME k > 1 PROVE days[k - 1].end = days[k].start
    <3>1. k - 1 \in 1..count
      BY <1>1, <2>3
    <3>2. days[k - 1].end = Start(zone, date(k - 1) + 1)
      BY <1>5, <3>1
    <3>3. date(k - 1) + 1 = date(k)
      BY <1>7, <2>3
    <3> HIDE DEF date
    <3>4. QED
      BY <2>1, <3>2, <3>3
  <2> HIDE DEF date
  <2>4. ASSUME NEW instant \in days[k].start..(days[k].end - 1)
        PROVE  Reporting!localDay(zone, instant) = days[k] <=> instant \notin HourAstray(zone)
    <3> DEFINE own == DateAt(zone, instant)
    <3>1. date(k) + 1 \in Int /\ days[k].start \in Int /\ days[k].end \in Int
      BY <1>4, <2>1
    <3>2. instant \in Int /\ days[k].start <= instant /\ instant < days[k].end
      BY <2>4, <3>1
    <3>3. /\ own \in Int /\ DayIn(zone, instant) \in Int
          /\ Start(zone, date(k)) <= instant <=> date(k) <= DayIn(zone, instant)
          /\ Start(zone, date(k) + 1) <= instant <=> date(k) + 1 <= DayIn(zone, instant)
      BY <1>2, <2>1, <3>1, <3>2, DaysStart
    <3>4. DayIn(zone, instant) = date(k)
      BY <2>1, <3>1, <3>2, <3>3
    <3>5. Reporting!localDay(zone, instant) = Reporting!Days(zone, own, own + 1)
      BY DEF Reporting!localDay, DateAt
    <3>6. own = date(k) <=> instant \notin HourAstray(zone)
      BY <1>2, <3>2, <3>4, AstrayIsElsewhere
    <3> HIDE DEF own
    <3>7. ASSUME instant \notin HourAstray(zone) PROVE Reporting!localDay(zone, instant) = days[k]
      BY <2>1, <3>5, <3>6, <3>7
    <3>8. ASSUME Reporting!localDay(zone, instant) = days[k] PROVE instant \notin HourAstray(zone)
      <4>1. Start(zone, own) <= instant /\ instant < Start(zone, own + 1)
        <5>1. Reporting!Days(zone, own, own + 1) = days[k]
          BY <3>5, <3>8
        <5>2. days[k].start = Start(zone, own) /\ days[k].end = Start(zone, own + 1)
          BY <5>1 DEF Reporting!Days, Start
        <5>3. QED
          BY <3>2, <5>2
      <4>2. own + 1 \in Int
        BY <3>3
      <4>3. /\ Start(zone, own) \in Int /\ Start(zone, own + 1) \in Int
            /\ Start(zone, own) <= instant <=> own <= DayIn(zone, instant)
            /\ Start(zone, own + 1) <= instant <=> own + 1 <= DayIn(zone, instant)
        BY <1>2, <3>2, <3>3, <4>2, DaysStart
      <4>4. own <= DayIn(zone, instant) /\ ~(own + 1 <= DayIn(zone, instant))
        BY <3>2, <4>1, <4>3
      <4>5. own = date(k)
        BY <3>3, <3>4, <4>4
      <4>6. QED
        BY <3>6, <4>5
    <3>9. QED
      BY <3>7, <3>8
  <2>5. QED
    BY <2>2, <2>3, <2>4
<1>9. days[1].start = last.start /\ days[count].end = last.end
  <2>1. 1 \in 1..count /\ count \in 1..count /\ today - (count - count) + 1 = today + 1
    BY <1>1, <1>3
  <2>2. days[count].end = Start(zone, today - (count - count) + 1)
    BY <1>5, <2>1
  <2>3. days[count].end = Start(zone, today + 1)
    BY <2>1, <2>2
  <2>4. QED
    BY <1>5, <2>1, <2>3
<1> QED
  BY <1>5, <1>6, <1>8, <1>9 DEF DaysTile, day, prev, prec, last, days, zone, asOf, count

\* Two windows that are one window, without a common instant.
TwoInOne(before, last, both) ==
    \A t \in Int : /\ Reporting!within(both, t)
                         <=> Reporting!within(before, t) \/ Reporting!within(last, t)
                   /\ ~(Reporting!within(before, t) /\ Reporting!within(last, t))

\* A window and the one before it are one window of twice the days.
LEMMA WindowsFollow ==
    ASSUME NEW zone, Ticks(zone), NEW asOf \in Int, NEW count \in Nat \ {0}
    PROVE  TwoInOne(Reporting!precedingLocalDays(zone, asOf, count),
                    Reporting!lastLocalDays(zone, asOf, count),
                    Reporting!lastLocalDays(zone, asOf, 2 * count))
<1> DEFINE today == DateAt(zone, asOf)
           first == today - (2 * count - 1)
           middle == today - (count - 1)
           next == today + 1
<1>1. today \in Int
  BY DaysStart
<1>2. /\ Reporting!precedingLocalDays(zone, asOf, count) = Reporting!Days(zone, first, middle)
      /\ Reporting!lastLocalDays(zone, asOf, count) = Reporting!Days(zone, middle, next)
      /\ Reporting!lastLocalDays(zone, asOf, 2 * count) = Reporting!Days(zone, first, next)
  BY DEF Reporting!precedingLocalDays, Reporting!lastLocalDays, DateAt
<1> HIDE DEF today
<1>3. first \in Int /\ middle \in Int /\ next \in Int /\ first <= middle /\ middle <= next
  BY <1>1
<1> HIDE DEF first, middle, next
<1>4. ASSUME NEW t \in Int
      PROVE  /\ DayIn(zone, t) \in Int
             /\ Reporting!within(Reporting!Days(zone, first, middle), t)
                    <=> first <= DayIn(zone, t) /\ DayIn(zone, t) < middle
             /\ Reporting!within(Reporting!Days(zone, middle, next), t)
                    <=> middle <= DayIn(zone, t) /\ DayIn(zone, t) < next
             /\ Reporting!within(Reporting!Days(zone, first, next), t)
                    <=> first <= DayIn(zone, t) /\ DayIn(zone, t) < next
  BY <1>3, DaysContain, DaysStart
<1>5. TwoInOne(Reporting!Days(zone, first, middle), Reporting!Days(zone, middle, next),
               Reporting!Days(zone, first, next))
  BY <1>3, <1>4 DEF TwoInOne
<1> QED
  BY <1>2, <1>5

\* The rows to which something happened in a period.
In(X, when, period) == {x \in X : Reporting!Happened(period, when[x])}

Instants(X, when) == IsFiniteSet(X) /\ \A x \in X : when[x] \in Int \cup {None}

\* What is counted in two windows is counted in the one that they are.
LEMMA WindowsCount ==
    ASSUME NEW X, NEW when, Instants(X, when),
           NEW before, NEW last, NEW both, TwoInOne(before, last, both)
    PROVE  /\ IsFiniteSet(In(X, when, last)) /\ IsFiniteSet(In(X, when, before))
           /\ In(X, when, both) = In(X, when, last) \cup In(X, when, before)
           /\ In(X, when, last) \cap In(X, when, before) = {}
           /\ Cardinality(In(X, when, last)) + Cardinality(In(X, when, before))
                  = Cardinality(In(X, when, both))
<1>1. \A p : In(X, when, p) \subseteq X
  BY DEF In
<1>2. IsFiniteSet(In(X, when, last)) /\ IsFiniteSet(In(X, when, before))
  BY <1>1, FS_Subset DEF Instants
<1>3. /\ In(X, when, both) = In(X, when, last) \cup In(X, when, before)
      /\ In(X, when, last) \cap In(X, when, before) = {}
  BY DEF In, Instants, TwoInOne, Reporting!Happened
<1> DEFINE A == In(X, when, last)
           B == In(X, when, before)
<1> HIDE DEF A, B
<1>4. /\ Cardinality(A \cup B) = Cardinality(A) + Cardinality(B) - Cardinality(A \cap B)
      /\ Cardinality(A) \in Nat /\ Cardinality(B) \in Nat
  BY <1>2, FS_Union, FS_CardinalityType DEF A, B
<1>5. Cardinality(A \cap B) = 0
  <2>1. A \cap B = {} /\ Cardinality({}) = 0
    BY <1>3, FS_EmptySet DEF A, B
  <2>2. QED
    BY <2>1
<1>6. Cardinality(A) + Cardinality(B) = Cardinality(A \cup B)
  <2> DEFINE n == Cardinality(A)
             m == Cardinality(B)
             u == Cardinality(A \cup B)
             i == Cardinality(A \cap B)
  <2>1. u = n + m - i /\ i = 0 /\ n \in Nat /\ m \in Nat
    BY <1>4, <1>5
  <2> HIDE DEF n, m, u, i
  <2>2. n + m = u
    BY <2>1
  <2>3. QED
    BY <2>2 DEF n, m, u
<1> QED
  BY <1>2, <1>3, <1>6 DEF A, B

\* The values of rows, and what a part of the rows is worth.
Values(X) == [x \in X |-> x.value]

\* What a set of rows is worth is a sum over it.
LEMMA WorthIsASum ==
    ASSUME NEW X, IsFiniteSet(X), \A x \in X : x.value \in Nat, NEW A \in SUBSET X
    PROVE  /\ Amounts(Values(X), X) /\ Amounts(Values(X), A)
           /\ Reporting!Worth(A) = SumOn(Values(X), A)
<1>1. Amounts(Values(X), X)
  BY DEF Amounts, Values
<1>2. Amounts(Values(X), A)
  BY <1>1, SumOfPart
<1> DEFINE g == [row \in A |-> row.value]
<1>3. \A x \in A : g[x] = Values(X)[x]
  BY DEF Values
<1>4. Reporting!Worth(A) = SumOn(g, A)
  BY DEF Reporting!Worth, SumOn, SumFunctionOnSet, Reporting!SumFunction,
         Reporting!SumFunctionOnSet, FoldFunctionOnSet, Reporting!FoldFunctionOnSet,
         MapThenFoldSet, Reporting!MapThenFoldSet
<1> HIDE DEF g
<1>5. SumOn(g, A) = SumOn(Values(X), A)
  BY <1>2, <1>3, SumsAgree
<1> QED
  BY <1>1, <1>2, <1>4, <1>5

\* What happened in two windows is worth what happened in both.
LEMMA WindowsAreWorth ==
    ASSUME NEW X, NEW when, Instants(X, when), \A x \in X : x.value \in Nat,
           NEW before, NEW last, NEW both, TwoInOne(before, last, both)
    PROVE  Reporting!Worth(In(X, when, last)) + Reporting!Worth(In(X, when, before))
               = Reporting!Worth(In(X, when, both))
<1> DEFINE A == In(X, when, last)
           B == In(X, when, before)
           U == In(X, when, both)
<1>1. A \in SUBSET X /\ B \in SUBSET X /\ U \in SUBSET X
  BY DEF In
<1>2. U = A \cup B /\ A \cap B = {}
  BY WindowsCount
<1> HIDE DEF A, B, U
<1>3. /\ Amounts(Values(X), A) /\ Amounts(Values(X), B)
      /\ Reporting!Worth(A) = SumOn(Values(X), A)
      /\ Reporting!Worth(B) = SumOn(Values(X), B)
      /\ Reporting!Worth(U) = SumOn(Values(X), U)
  BY <1>1, WorthIsASum DEF Instants
<1>4. SumOn(Values(X), A \cup B) = SumOn(Values(X), A) + SumOn(Values(X), B)
  BY <1>2, <1>3, SumOfUnion
<1>5. Reporting!Worth(A) + Reporting!Worth(B) = Reporting!Worth(U)
  BY <1>2, <1>3, <1>4
<1> QED
  BY <1>5 DEF A, B, U

\* The days of a window, one after the other.
DayOf(zone, asOf, count, k) ==
    Reporting!Days(zone, DateAt(zone, asOf) - (count - k), DateAt(zone, asOf) - (count - k) + 1)

\* A bar for each day: the bars add up to what the window is worth.
LEMMA BarsAddUp ==
    ASSUME NEW X, NEW when, Instants(X, when), \A x \in X : x.value \in Nat,
           NEW zone, Ticks(zone), NEW asOf \in Int, NEW count \in Nat \ {0},
           NEW sold, sold = In(X, when, Reporting!lastLocalDays(zone, asOf, count)),
           NEW bars, DOMAIN bars = 1..count,
           \A k \in 1..count : bars[k] = Reporting!Worth(
               {x \in sold : Reporting!within(DayOf(zone, asOf, count, k), when[x])})
    PROVE  Pricing!SumOf(bars) = Reporting!Worth(sold)
<1> DEFINE today == DateAt(zone, asOf)
           K == 1..count
           key == [x \in sold |-> DayIn(zone, when[x]) - (today - count)]
           v == Values(X)
<1>1. today \in Int /\ IsFiniteSet(K)
  <2>1. today \in Int
    BY DaysStart
  <2>2. 1 \in Int /\ count \in Int
    OBVIOUS
  <2>3. IsFiniteSet(K)
    BY <2>2, FS_Interval, Zenon
  <2>4. QED
    BY <2>1, <2>3
<1>2. Reporting!lastLocalDays(zone, asOf, count)
         = Reporting!Days(zone, today - (count - 1), today + 1)
  BY DEF Reporting!lastLocalDays, DateAt
<1>3. sold \in SUBSET X /\ Amounts(v, sold)
  <2>1. sold \in SUBSET X
    BY DEF In
  <2>2. QED
    BY <2>1, WorthIsASum DEF Instants
<1> HIDE DEF today
<1>4. ASSUME NEW x \in sold
      PROVE  /\ when[x] \in Int /\ key[x] \in K
             /\ \A k \in K : Reporting!within(DayOf(zone, asOf, count, k), when[x]) <=> key[x] = k
  <2>1. /\ when[x] \in Int
        /\ Reporting!within(Reporting!Days(zone, today - (count - 1), today + 1), when[x])
    BY <1>2, <1>3 DEF In, Instants, Reporting!Happened
  <2> DEFINE t == when[x]
             d == DayIn(zone, t)
  <2> HIDE DEF t
  <2>2. t \in Int /\ d \in Int
    BY <2>1, DaysStart DEF t
  <2>3. today - (count - 1) <= d /\ d < today + 1
    <3>1. today - (count - 1) \in Int /\ today + 1 \in Int
      BY <1>1
    <3>2. Reporting!within(Reporting!Days(zone, today - (count - 1), today + 1), t)
      BY <2>1 DEF t
    <3>3. QED
      BY <2>2, <3>1, <3>2, DaysContain
  <2>4. key[x] = d - (today - count)
    BY DEF t
  <2> HIDE DEF key
  <2>5. key[x] \in K
    BY <1>1, <2>2, <2>3, <2>4
  <2>6. ASSUME NEW k \in K
        PROVE  Reporting!within(DayOf(zone, asOf, count, k), t) <=> key[x] = k
    <3> DEFINE from == today - (count - k)
    <3>1. from \in Int /\ from + 1 \in Int
      BY <1>1
    <3> HIDE DEF from
    <3>2. Reporting!within(Reporting!Days(zone, from, from + 1), t) <=> from <= d /\ d < from + 1
      BY <2>2, <3>1, DaysContain
    <3>3. from <= d /\ d < from + 1 <=> d = from
      BY <2>2, <3>1
    <3>4. d = from <=> key[x] = k
      BY <1>1, <2>2, <2>4 DEF from
    <3>5. DayOf(zone, asOf, count, k) = Reporting!Days(zone, from, from + 1)
      BY DEF DayOf, from, today
    <3>6. QED
      BY <3>2, <3>3, <3>4, <3>5
  <2>7. QED
    BY <2>1, <2>5, <2>6 DEF t
<1> HIDE DEF key, v, K
<1>5. ASSUME NEW k \in K PROVE bars[k] = SumOn(v, {x \in sold : key[x] = k})
  <2> DEFINE A == {x \in sold : key[x] = k}
  <2>1. A = {x \in sold : Reporting!within(DayOf(zone, asOf, count, k), when[x])}
    BY <1>4
  <2>2. bars[k] = Reporting!Worth(A)
    BY <2>1 DEF K
  <2>3. A \in SUBSET X
    BY <1>3
  <2> HIDE DEF A
  <2>4. Reporting!Worth(A) = SumOn(v, A)
    BY <2>3, WorthIsASum DEF Instants, v
  <2>5. QED
    BY <2>2, <2>4 DEF A
<1>6. \A x \in sold : key[x] \in K
  BY <1>4
<1>7. SumOn(bars, K) = SumOn(v, sold)
  BY <1>1, <1>3, <1>5, <1>6, SumByKey
<1>8. Pricing!SumOf(bars) = SumOn(bars, K)
  BY SumOfIsSumOn DEF K
<1>9. Reporting!Worth(sold) = SumOn(v, sold)
  BY <1>3, WorthIsASum DEF Instants, v
<1> QED
  BY <1>7, <1>8, <1>9

\* What a week asks about.
Weekly(zone, asOf, count, quotations, orders, payments) ==
    /\ Ticks(zone) /\ asOf \in Int /\ count \in Nat \ {0}
    /\ quotations \subseteq Reporting!QuotationRow /\ IsFiniteSet(quotations)
    /\ orders \subseteq Reporting!SalesRow /\ IsFiniteSet(orders)
    /\ payments \subseteq Reporting!PaymentRow /\ IsFiniteSet(payments)

\* The rows of a sample.
LEMMA WeeksAreWeekly ==
    ASSUME QuestionTyped, About("week")
    PROVE  Weekly(input.zone, input.asOf, input.count, input.quotations, input.orders, input.payments)
<1>1. input \in Weeks
  BY Asked DEF Topics
<1>2. /\ input.zone \in LocalZone /\ input.asOf \in Int /\ input.count \in Nat \ {0}
      /\ input.quotations \subseteq Reporting!QuotationRow /\ IsFiniteSet(input.quotations)
      /\ input.orders \subseteq Reporting!SalesRow /\ Keyed(input.orders, LAMBDA o : o.number)
      /\ input.payments \subseteq Reporting!PaymentRow /\ IsFiniteSet(input.payments)
  BY <1>1, SamplesAreRows
<1>3. Ticks(input.zone)
  BY <1>2, ClocksTick
<1> QED
  BY <1>2, <1>3 DEF Keyed, Weekly

\* The orders that stand, and when they were created.
Standing(orders) == {o \in orders : ~o.cancelled}
CreatedAt(X) == [x \in X |-> x.created]
CompletedAt(X) == [x \in X |-> x.completed]

\* The orders of two windows are those of both.
LEMMA SalesAddUp ==
    ASSUME NEW orders, orders \subseteq Reporting!SalesRow, IsFiniteSet(orders),
           NEW before, NEW last, NEW both, TwoInOne(before, last, both)
    PROVE  \A field \in {"created", "value", "completed"} :
              Reporting!orderActivity(orders, last)[field]
                  + Reporting!orderActivity(orders, before)[field]
                      = Reporting!orderActivity(orders, both)[field]
<1> DEFINE Y == Standing(orders)
           created == CreatedAt(Y)
           completed == CompletedAt(orders)
           sold(p) == Reporting!orderActivity(orders, p)
<1>1. /\ Y \subseteq orders
      /\ \A o \in orders : o.value \in Nat /\ o.created \in Int /\ o.completed \in Int \cup {None}
  BY DEF Standing, Reporting!SalesRow
<1>2. IsFiniteSet(Y)
  <2> HIDE DEF Y
  <2>1. QED
    BY <1>1, FS_Subset
<1>3. Instants(Y, created) /\ Instants(orders, completed) /\ \A o \in Y : o.value \in Nat
  BY <1>1, <1>2 DEF Instants, CreatedAt, CompletedAt
<1>4. ASSUME NEW p
      PROVE  /\ Reporting!SoldIn(orders, p) = In(Y, created, p)
             /\ {o \in orders : Reporting!Happened(p, o.completed)} = In(orders, completed, p)
  BY DEF Reporting!SoldIn, In, Standing, CreatedAt, CompletedAt
<1>5. ASSUME NEW p
      PROVE  /\ sold(p)["created"] = Cardinality(In(Y, created, p))
             /\ sold(p)["value"] = Reporting!Worth(In(Y, created, p))
             /\ sold(p)["completed"] = Cardinality(In(orders, completed, p))
  BY <1>4, ReportingCounts DEF Reporting!orderActivity
<1> HIDE DEF Y, created, completed, sold
<1>6. sold(last)["created"] + sold(before)["created"] = sold(both)["created"]
  BY <1>3, <1>5, WindowsCount
<1>7. sold(last)["value"] + sold(before)["value"] = sold(both)["value"]
  BY <1>3, <1>5, WindowsAreWorth
<1>8. sold(last)["completed"] + sold(before)["completed"] = sold(both)["completed"]
  BY <1>3, <1>5, WindowsCount
<1> QED
  BY <1>6, <1>7, <1>8 DEF sold

\* The quotations of two windows are those of both.
LEMMA DealsAddUp ==
    ASSUME NEW quotations, quotations \subseteq Reporting!QuotationRow, IsFiniteSet(quotations),
           NEW before, NEW last, NEW both, TwoInOne(before, last, both)
    PROVE  \A field \in {"created", "sent", "accepted", "rejected", "acceptedValue"} :
              Reporting!quotationActivity(quotations, last)[field]
                  + Reporting!quotationActivity(quotations, before)[field]
                      = Reporting!quotationActivity(quotations, both)[field]
<1> DEFINE Q == quotations
           created == [q \in Q |-> q.created]
           sent == [q \in Q |-> q.sent]
           accepted == [q \in Q |-> q.accepted]
           rejected == [q \in Q |-> q.rejected]
           deals(p) == Reporting!quotationActivity(quotations, p)
<1>1. \A q \in Q : /\ q.value \in Nat /\ q.created \in Int /\ q.sent \in Int \cup {None}
                   /\ q.accepted \in Int \cup {None} /\ q.rejected \in Int \cup {None}
  BY DEF Reporting!QuotationRow
<1>2. /\ Instants(Q, created) /\ Instants(Q, sent) /\ Instants(Q, accepted)
      /\ Instants(Q, rejected) /\ \A q \in Q : q.value \in Nat
  BY <1>1 DEF Instants
<1>3. ASSUME NEW p
      PROVE  /\ {q \in Q : Reporting!Happened(p, q.created)} = In(Q, created, p)
             /\ {q \in Q : Reporting!Happened(p, q.sent)} = In(Q, sent, p)
             /\ {q \in Q : Reporting!Happened(p, q.accepted)} = In(Q, accepted, p)
             /\ {q \in Q : Reporting!Happened(p, q.rejected)} = In(Q, rejected, p)
  BY DEF In
<1>4. ASSUME NEW p
      PROVE  /\ deals(p)["created"] = Cardinality(In(Q, created, p))
             /\ deals(p)["sent"] = Cardinality(In(Q, sent, p))
             /\ deals(p)["accepted"] = Cardinality(In(Q, accepted, p))
             /\ deals(p)["rejected"] = Cardinality(In(Q, rejected, p))
             /\ deals(p)["acceptedValue"] = Reporting!Worth(In(Q, accepted, p))
  BY <1>3, ReportingCounts DEF Reporting!quotationActivity
<1> HIDE DEF Q, created, sent, accepted, rejected, deals
<1>5. deals(last)["created"] + deals(before)["created"] = deals(both)["created"]
  BY <1>2, <1>4, WindowsCount
<1>6. deals(last)["sent"] + deals(before)["sent"] = deals(both)["sent"]
  BY <1>2, <1>4, WindowsCount
<1>7. deals(last)["accepted"] + deals(before)["accepted"] = deals(both)["accepted"]
  BY <1>2, <1>4, WindowsCount
<1>8. deals(last)["rejected"] + deals(before)["rejected"] = deals(both)["rejected"]
  BY <1>2, <1>4, WindowsCount
<1>9. deals(last)["acceptedValue"] + deals(before)["acceptedValue"] = deals(both)["acceptedValue"]
  BY <1>2, <1>4, WindowsAreWorth
<1> QED
  BY <1>5, <1>6, <1>7, <1>8, <1>9 DEF deals

\* The bars of the orders, each day's for what was sold on it.
LEMMA OrderBars ==
    ASSUME NEW zone, NEW asOf, NEW count, NEW quotations, NEW orders, NEW payments,
           Weekly(zone, asOf, count, quotations, orders, payments)
    PROVE  LET series == Reporting!buildSeries(orders, payments, zone, asOf, count)
               last == Reporting!lastLocalDays(zone, asOf, count)
           IN  Pricing!SumOf([k \in DOMAIN series |-> series[k].orderValue])
                   = Reporting!orderActivity(orders, last).value
<1> DEFINE Y == Standing(orders)
           created == CreatedAt(Y)
           last == Reporting!lastLocalDays(zone, asOf, count)
           sold == Reporting!SoldIn(orders, last)
           series == Reporting!buildSeries(orders, payments, zone, asOf, count)
           bars == [k \in DOMAIN series |-> series[k].orderValue]
           day(k) == DayOf(zone, asOf, count, k)
<1>1. /\ Y \subseteq orders /\ IsFiniteSet(orders)
      /\ \A o \in orders : o.value \in Nat /\ o.created \in Int
  BY DEF Standing, Weekly, Reporting!SalesRow
<1>2. IsFiniteSet(Y)
  <2> HIDE DEF Y
  <2>1. QED
    BY <1>1, FS_Subset
<1>3. Instants(Y, created) /\ \A o \in Y : o.value \in Nat
  BY <1>1, <1>2 DEF Instants, CreatedAt
<1>4. sold = In(Y, created, last)
  BY DEF Reporting!SoldIn, In, Standing, CreatedAt
<1>5. /\ Ticks(zone) /\ asOf \in Int /\ count \in Nat \ {0}
  BY DEF Weekly
<1>6. DOMAIN bars = 1..count
  BY DEF Reporting!buildSeries
<1>7. ASSUME NEW k \in 1..count
      PROVE  bars[k] = Reporting!Worth({x \in sold : Reporting!within(day(k), created[x])})
  <2> DEFINE days == Reporting!localDaysIn(zone, asOf, count)
  <2>1. days[k] = day(k)
    BY DEF Reporting!localDaysIn, DayOf, DateAt
  <2>2. [start |-> days[1].start, end |-> days[count].end] = last
    <3>1. 1 \in 1..count /\ count \in 1..count
      BY <1>5
    <3>2. /\ days[1].start = Start(zone, DateAt(zone, asOf) - (count - 1))
          /\ days[count].end = Start(zone, DateAt(zone, asOf) - (count - count) + 1)
      BY <3>1 DEF Reporting!localDaysIn, Reporting!Days, DateAt, Start
    <3>3. DateAt(zone, asOf) - (count - count) + 1 = DateAt(zone, asOf) + 1
      BY <1>5, DaysStart
    <3>4. last = [start |-> Start(zone, DateAt(zone, asOf) - (count - 1)),
                  end |-> Start(zone, DateAt(zone, asOf) + 1)]
      BY DEF Reporting!lastLocalDays, Reporting!Days, DateAt, Start
    <3> HIDE DEF days, last
    <3>5. QED
      BY <3>2, <3>3, <3>4
  <2>3. series[k].orderValue
          = Reporting!Worth({o \in Reporting!SoldIn(orders, [start |-> days[1].start,
                                                             end |-> days[count].end]) :
                                 Reporting!within(days[k], o.created)})
    BY DEF Reporting!buildSeries
  <2>4. bars[k] = series[k].orderValue
    BY <1>6
  <2> HIDE DEF days, series, bars, last
  <2>5. bars[k] = Reporting!Worth({o \in sold : Reporting!within(day(k), o.created)})
    BY <2>1, <2>2, <2>3, <2>4
  <2>6. \A o \in sold : created[o] = o.created
    BY <1>4 DEF In, CreatedAt
  <2> HIDE DEF sold, created
  <2>7. {o \in sold : Reporting!within(day(k), o.created)}
          = {o \in sold : Reporting!within(day(k), created[o])}
    BY <2>6
  <2>8. QED
    BY <2>5, <2>7
<1> HIDE DEF bars, sold, created, Y
<1>8. Pricing!SumOf(bars) = Reporting!Worth(sold)
  BY <1>3, <1>4, <1>5, <1>6, <1>7, BarsAddUp
<1>9. Reporting!orderActivity(orders, last).value = Reporting!Worth(sold)
  BY DEF Reporting!orderActivity, sold
<1> QED
  BY <1>8, <1>9 DEF bars

\* The bars of the payments.  Only one that was confirmed is money.
LEMMA PaymentBars ==
    ASSUME NEW zone, NEW asOf, NEW count, NEW quotations, NEW orders, NEW payments,
           Weekly(zone, asOf, count, quotations, orders, payments)
    PROVE  LET series == Reporting!buildSeries(orders, payments, zone, asOf, count)
               last == Reporting!lastLocalDays(zone, asOf, count)
           IN  Pricing!SumOf([k \in DOMAIN series |-> series[k].confirmedPayments])
                   = Reporting!Worth({c \in payments : /\ c.confirmed /\ c.reviewed # None
                                                       /\ c.reviewed \in last.start..(last.end - 1)})
<1> DEFINE Y == {c \in payments : c.confirmed}
           reviewed == [c \in Y |-> c.reviewed]
           last == Reporting!lastLocalDays(zone, asOf, count)
           taken == Reporting!CollectedIn(payments, last)
           series == Reporting!buildSeries(orders, payments, zone, asOf, count)
           bars == [k \in DOMAIN series |-> series[k].confirmedPayments]
           day(k) == DayOf(zone, asOf, count, k)
           money == {c \in payments : /\ c.confirmed /\ c.reviewed # None
                                      /\ c.reviewed \in last.start..(last.end - 1)}
<1>1. /\ Y \subseteq payments /\ IsFiniteSet(payments)
      /\ \A c \in payments : c.value \in Nat /\ c.reviewed \in Int \cup {None}
  BY DEF Weekly, Reporting!PaymentRow
<1>2. IsFiniteSet(Y)
  <2> HIDE DEF Y
  <2>1. QED
    BY <1>1, FS_Subset
<1>3. Instants(Y, reviewed) /\ \A c \in Y : c.value \in Nat
  BY <1>1, <1>2 DEF Instants
<1>4. taken = In(Y, reviewed, last)
  BY DEF Reporting!CollectedIn, In
<1>5. /\ Ticks(zone) /\ asOf \in Int /\ count \in Nat \ {0}
  BY DEF Weekly
<1>6. DOMAIN bars = 1..count
  BY DEF Reporting!buildSeries
<1>a. last = [start |-> Start(zone, DateAt(zone, asOf) - (count - 1)),
              end |-> Start(zone, DateAt(zone, asOf) + 1)]
  BY DEF Reporting!lastLocalDays, Reporting!Days, DateAt, Start
<1>7. ASSUME NEW k \in 1..count
      PROVE  bars[k] = Reporting!Worth({x \in taken : Reporting!within(day(k), reviewed[x])})
  <2> DEFINE days == Reporting!localDaysIn(zone, asOf, count)
  <2>1. days[k] = day(k)
    BY DEF Reporting!localDaysIn, DayOf, DateAt
  <2>2. [start |-> days[1].start, end |-> days[count].end] = last
    <3>1. 1 \in 1..count /\ count \in 1..count
      BY <1>5
    <3>2. /\ days[1].start = Start(zone, DateAt(zone, asOf) - (count - 1))
          /\ days[count].end = Start(zone, DateAt(zone, asOf) - (count - count) + 1)
      BY <3>1 DEF Reporting!localDaysIn, Reporting!Days, DateAt, Start
    <3>3. DateAt(zone, asOf) - (count - count) + 1 = DateAt(zone, asOf) + 1
      BY <1>5, DaysStart
    <3> HIDE DEF days, last
    <3>4. QED
      BY <1>a, <3>2, <3>3
  <2>3. series[k].confirmedPayments
          = Reporting!Worth({c \in Reporting!CollectedIn(payments, [start |-> days[1].start,
                                                                    end |-> days[count].end]) :
                                 Reporting!within(days[k], c.reviewed)})
    BY DEF Reporting!buildSeries
  <2>4. bars[k] = series[k].confirmedPayments
    BY <1>6
  <2> HIDE DEF days, series, bars, last
  <2>5. bars[k] = Reporting!Worth({c \in taken : Reporting!within(day(k), c.reviewed)})
    BY <2>1, <2>2, <2>3, <2>4
  <2>6. \A c \in taken : reviewed[c] = c.reviewed
    BY <1>4 DEF In
  <2> HIDE DEF taken, reviewed
  <2>7. {c \in taken : Reporting!within(day(k), c.reviewed)}
          = {c \in taken : Reporting!within(day(k), reviewed[c])}
    BY <2>6
  <2>8. QED
    BY <2>5, <2>7
<1>8. taken = money
  <2>1. Start(zone, DateAt(zone, asOf) - (count - 1)) \in Int /\ Start(zone, DateAt(zone, asOf) + 1) \in Int
    <3>1. DateAt(zone, asOf) \in Int
      BY <1>5, DaysStart
    <3>2. DateAt(zone, asOf) - (count - 1) \in Int /\ DateAt(zone, asOf) + 1 \in Int
      BY <1>5, <3>1
    <3>3. QED
      BY <1>5, <3>2, DaysStart
  <2>2. last.start \in Int /\ last.end \in Int
    <3> HIDE DEF last
    <3>1. QED
      BY <1>a, <2>1
  <2> HIDE DEF last
  <2>3. \A c \in payments : c.reviewed # None =>
           (Reporting!within(last, c.reviewed) <=> c.reviewed \in last.start..(last.end - 1))
    BY <1>1, <2>2 DEF Reporting!within
  <2>4. QED
    BY <2>3 DEF Reporting!CollectedIn, Reporting!Happened
<1> HIDE DEF bars, taken, reviewed, Y
<1>9. Pricing!SumOf(bars) = Reporting!Worth(taken)
  BY <1>3, <1>4, <1>5, <1>6, <1>7, BarsAddUp
<1> QED
  BY <1>8, <1>9 DEF bars

\* The windows of the dashboard and its chart.
LEMMA WindowsHold ==
    ASSUME QuestionTyped
    PROVE  WindowsAddUp
<1> SUFFICES ASSUME About("week") PROVE WindowsAddUp
  BY DEF WindowsAddUp
<1> DEFINE zone       == input.zone
           asOf       == input.asOf
           count      == input.count
           quotations == input.quotations
           orders     == input.orders
           payments   == input.payments
           last   == Reporting!lastLocalDays(zone, asOf, count)
           before == Reporting!precedingLocalDays(zone, asOf, count)
           both   == Reporting!lastLocalDays(zone, asOf, 2 * count)
           series == Reporting!buildSeries(orders, payments, zone, asOf, count)
           money  == {c \in payments : /\ c.confirmed /\ c.reviewed # None
                                       /\ c.reviewed \in last.start..(last.end - 1)}
<1>1. Weekly(zone, asOf, count, quotations, orders, payments)
  BY WeeksAreWeekly
<1> HIDE DEF zone, asOf, count, quotations, orders, payments
<1>2. TwoInOne(before, last, both)
  BY <1>1, WindowsFollow DEF Weekly
<1>3. \A field \in {"created", "value", "completed"} :
         Reporting!orderActivity(orders, last)[field]
             + Reporting!orderActivity(orders, before)[field]
                 = Reporting!orderActivity(orders, both)[field]
  <2> HIDE DEF last, before, both
  <2>1. QED
    BY <1>1, <1>2, SalesAddUp DEF Weekly
<1>4. \A field \in {"created", "sent", "accepted", "rejected", "acceptedValue"} :
         Reporting!quotationActivity(quotations, last)[field]
             + Reporting!quotationActivity(quotations, before)[field]
                 = Reporting!quotationActivity(quotations, both)[field]
  <2> HIDE DEF last, before, both
  <2>1. QED
    BY <1>1, <1>2, DealsAddUp DEF Weekly
<1>5. Pricing!SumOf([k \in DOMAIN series |-> series[k].orderValue])
         = Reporting!orderActivity(orders, last).value
  BY <1>1, OrderBars
<1>6. Pricing!SumOf([k \in DOMAIN series |-> series[k].confirmedPayments]) = Reporting!Worth(money)
  BY <1>1, PaymentBars
<1> QED
  BY <1>3, <1>4, <1>5, <1>6
  DEF WindowsAddUp, zone, asOf, count, quotations, orders, payments

\* DaysAndWindowsTile, for every zone, instant and set of rows.
LEMMA DaysAndWindowsHold ==
    ASSUME QuestionTyped
    PROVE  DaysAndWindowsTile
BY DaysTileHolds, WindowsHold DEF DaysAndWindowsTile

-----------------------------------------------------------------------------
(* Files                                                                   *)

\* The digits of a number without separators.
LEMMA OneGroup ==
    ASSUME NEW groups, Len(groups) = 1
    PROVE  Templates!FlattenSeq(groups) = groups[1]
<1> DEFINE Step(flatten) == flatten = [i \in 1..1 |-> IF i = 1 THEN groups[i]
                                                      ELSE flatten[i - 1] \o groups[i]]
           f == [i \in 1..1 |-> groups[1]]
           g == CHOOSE flatten : Step(flatten)
<1>1. Step(f)
  OBVIOUS
<1>2. Step(g)
  BY <1>1
<1>3. Templates!FlattenSeq(groups) = g[1]
  BY DEF Templates!FlattenSeq
<1> HIDE DEF g
<1>4. g[1] = groups[1]
  BY <1>2
<1> QED
  BY <1>3, <1>4

\* A cell that is accepted stands for one amount.
LEMMA AcceptedIsUnambiguous ==
    ASSUME NEW cell \in Templates!NumericCell,
           Templates!IsAmount(cell) \/ Templates!IsWholeNumber(cell)
    PROVE  Unambiguous(cell)
<1> DEFINE groups == cell.groups
           amount(digits, fraction) ==
               Templates!NumberOf(digits \o fraction \o Templates!Zeroes(2 - Len(fraction)))
           plain == amount(groups[1], <<>>)
<1>1. /\ groups \in Seq(Seq(0..9)) /\ cell.fraction \in Seq(0..9) /\ Len(groups) \in Nat
      /\ cell.point \in BOOLEAN /\ cell.negative \in BOOLEAN /\ cell.spaced \in BOOLEAN
      /\ cell.point \/ cell.fraction = <<>>
  BY DEF Templates!NumericCell
<1>2. /\ Templates!Grouped(groups) \/ Len(groups) = 1
      /\ cell.point => Len(cell.fraction) \in 1..2
  BY DEF Templates!IsAmount, Templates!IsWholeNumber, Templates!Ungrouped, Templates!Fraction
<1>3. ~(Len(groups) = 2 /\ Len(groups[2]) \in 1..2)
  <2>1. Len(groups) = 2 => 2 \in 2..Len(groups)
    OBVIOUS
  <2>2. Len(groups) = 2 => Len(groups[2]) = 3
    BY <1>2, <2>1 DEF Templates!Grouped
  <2>3. 3 \notin 1..2
    OBVIOUS
  <2>4. QED
    BY <2>2, <2>3, Zenon
<1>4. Continental(cell) = IF cell.negative \/ cell.spaced THEN None
                          ELSE IF Len(groups) = 1 /\ ~cell.point /\ groups[1] # <<>> THEN plain
                          ELSE None
  <2>1. ~(Len(groups) = 2 /\ ~cell.point /\ groups[1] # <<>> /\ Len(groups[2]) \in 1..2)
    BY <1>3, Zenon
  <2>2. ~(Len(groups) = 1 /\ cell.point /\ Len(groups[1]) \in 1..3 /\ Len(cell.fraction) = 3)
    BY <1>2
  <2>3. QED
    BY <2>1, <2>2, Zenon DEF Continental
<1>5. ASSUME Len(groups) = 1, ~cell.point
      PROVE  Templates!parseMoneyToMinor(cell) = plain
  <2>1. Templates!Digits(cell) = groups[1] /\ cell.fraction = <<>>
    BY <1>1, <1>5, OneGroup DEF Templates!Digits
  <2>2. QED
    BY <2>1, Zenon DEF Templates!parseMoneyToMinor
<1>6. Continental(cell) \in {None, Templates!parseMoneyToMinor(cell)}
  <2> HIDE DEF plain, groups
  <2>1. QED
    BY <1>4, <1>5
<1> QED
  BY <1>6 DEF Unambiguous

\* A count that is accepted means the same on both sides of the border.
LEMMA CountIsUnambiguous ==
    ASSUME NEW cell \in Templates!NumericCell \cup {None},
           cell = None \/ Templates!IsCount(cell)
    PROVE  Unambiguous(cell)
<1>1. CASE cell = None
  BY <1>1 DEF Unambiguous
<1>2. CASE cell # None
  BY <1>2, AcceptedIsUnambiguous DEF Templates!IsCount
<1> QED
  BY <1>1, <1>2

\* Rows that have a name which none before them has are distinct.
NamedOnce(name) ==
    \A k \in DOMAIN name : /\ k \in Int /\ k >= 1 /\ name[k] # None
                           /\ \A j \in 1..(k - 1) : name[j] # name[k]

\* A column without a repeated name has distinct ones.
LEMMA NamesAreDistinct ==
    ASSUME NEW name, NamedOnce(name)
    PROVE  \A j, k \in DOMAIN name : j # k => name[j] # None /\ name[j] # name[k]
<1>1. SUFFICES ASSUME NEW j \in DOMAIN name, NEW k \in DOMAIN name, j # k
               PROVE  name[j] # name[k]
  BY DEF NamedOnce
<1>2. j \in Int /\ j >= 1 /\ k \in Int /\ k >= 1
  BY DEF NamedOnce
<1>3. CASE j < k
  <2>1. j \in 1..(k - 1)
    BY <1>2, <1>3
  <2>2. QED
    BY <2>1 DEF NamedOnce
<1>4. CASE k < j
  <2>1. k \in 1..(j - 1)
    BY <1>2, <1>4
  <2>2. QED
    BY <2>1 DEF NamedOnce
<1> QED
  BY <1>1, <1>2, <1>3, <1>4

\* The rows of a file are numbered, and their cells are cells.
LEMMA FilesAreRows ==
    ASSUME QuestionTyped, About("products") \/ About("customers") \/ About("stock")
    PROVE  /\ \A k \in DOMAIN input : k \in Int /\ k >= 1
           /\ \A k \in DOMAIN input : \A j \in 1..(k - 1) : j \in DOMAIN input
           /\ About("products") => \A k \in DOMAIN input :
                 /\ input[k].price \in Templates!NumericCell \cup {None}
                 /\ input[k].threshold \in Templates!NumericCell \cup {None}
           /\ About("customers") => \A k \in DOMAIN input :
                 /\ input[k].creditLimit \in Templates!NumericCell \cup {None}
                 /\ input[k].paymentTerms \in Templates!NumericCell \cup {None}
           /\ About("stock") => \A k \in DOMAIN input :
                 input[k].quantity \in Templates!NumericCell \cup {None}
<1>1. /\ About("products") => input \in ProductFiles
      /\ About("customers") => input \in CustomerFiles
      /\ About("stock") => input \in StockFiles
  BY Asked DEF Topics
<1>2. DOMAIN input = 1..Len(input)
  BY <1>1, SamplesAreRows
<1>3. \A k \in DOMAIN input : k \in Int /\ k >= 1
  BY <1>2
<1>4. \A k \in DOMAIN input : \A j \in 1..(k - 1) : j \in DOMAIN input
  BY <1>2, <1>3
<1> QED
  BY <1>1, <1>3, <1>4, SamplesAreRows

\* AmountsAreNotGuessed, for every file.
LEMMA AmountsAreNotGuessedHolds ==
    ASSUME QuestionTyped
    PROVE  AmountsAreNotGuessed
<1>1. ASSUME About("products"), Templates!parseProducts(input) = {}
      PROVE  /\ Distinct(input, LAMBDA row : row.sku)
             /\ \A k \in DOMAIN input :
                   Unambiguous(input[k].price) /\ Unambiguous(input[k].threshold)
  <2>1. ASSUME NEW k \in DOMAIN input
        PROVE  /\ input[k].sku # None
               /\ ~\E j \in 1..(k - 1) : input[j].sku = input[k].sku
               /\ input[k].price # None /\ Templates!IsAmount(input[k].price)
               /\ input[k].threshold = None \/ Templates!IsCount(input[k].threshold)
    <3>1. k \notin Templates!parseProducts(input)
      BY <1>1
    <3>2. QED
      BY <3>1, Zenon DEF Templates!parseProducts, Templates!Repeated
  <2>2. \A k \in DOMAIN input : Unambiguous(input[k].price) /\ Unambiguous(input[k].threshold)
    BY <1>1, <2>1, FilesAreRows, AcceptedIsUnambiguous, CountIsUnambiguous
  <2>3. Distinct(input, LAMBDA row : row.sku)
    <3> DEFINE name == [k \in DOMAIN input |-> input[k].sku]
    <3>1. NamedOnce(name)
      BY <1>1, <2>1, FilesAreRows DEF NamedOnce
    <3>2. \A j, k \in DOMAIN name : j # k => name[j] # None /\ name[j] # name[k]
      BY <3>1, NamesAreDistinct
    <3>3. QED
      BY <3>2 DEF Distinct
  <2>4. QED
    BY <2>2, <2>3
<1>2. ASSUME About("customers"), Templates!parseCustomers(input) = {}
      PROVE  /\ Distinct(input, LAMBDA row : row.companyName)
             /\ \A k \in DOMAIN input :
                   Unambiguous(input[k].creditLimit) /\ Unambiguous(input[k].paymentTerms)
  <2>1. ASSUME NEW k \in DOMAIN input
        PROVE  /\ input[k].companyName # None
               /\ ~\E j \in 1..(k - 1) : input[j].companyName = input[k].companyName
               /\ input[k].creditLimit = None \/ Templates!IsAmount(input[k].creditLimit)
               /\ input[k].paymentTerms = None \/ Templates!IsCount(input[k].paymentTerms)
    <3>1. k \notin Templates!parseCustomers(input)
      BY <1>2
    <3>2. QED
      BY <3>1, Zenon DEF Templates!parseCustomers, Templates!Repeated
  <2>2. ASSUME NEW k \in DOMAIN input
        PROVE  Unambiguous(input[k].creditLimit) /\ Unambiguous(input[k].paymentTerms)
    <3>1. Unambiguous(input[k].paymentTerms)
      BY <1>2, <2>1, FilesAreRows, CountIsUnambiguous
    <3>2. CASE input[k].creditLimit = None
      BY <3>1, <3>2 DEF Unambiguous
    <3>3. CASE input[k].creditLimit # None
      BY <1>2, <2>1, <3>1, <3>3, FilesAreRows, AcceptedIsUnambiguous
    <3>4. QED
      BY <3>2, <3>3
  <2>3. Distinct(input, LAMBDA row : row.companyName)
    <3> DEFINE name == [k \in DOMAIN input |-> input[k].companyName]
    <3>1. NamedOnce(name)
      BY <1>2, <2>1, FilesAreRows DEF NamedOnce
    <3>2. \A j, k \in DOMAIN name : j # k => name[j] # None /\ name[j] # name[k]
      BY <3>1, NamesAreDistinct
    <3>3. QED
      BY <3>2 DEF Distinct
  <2>4. QED
    BY <2>2, <2>3
<1>3. ASSUME About("stock"), Templates!parseOpeningStock(input) = {}
      PROVE  /\ Distinct(input, LAMBDA row : row.sku)
             /\ \A k \in DOMAIN input :
                   /\ Unambiguous(input[k].quantity)
                   /\ Templates!parseWholeNumber(input[k].quantity) >= 0
  <2>1. ASSUME NEW k \in DOMAIN input
        PROVE  /\ input[k].sku # None
               /\ ~\E j \in 1..(k - 1) : input[j].sku = input[k].sku
               /\ input[k].quantity # None
               /\ Templates!IsCount(input[k].quantity)
    <3>1. k \notin Templates!parseOpeningStock(input)
      BY <1>3
    <3>2. QED
      BY <3>1, Zenon DEF Templates!parseOpeningStock, Templates!Repeated
  <2>2. \A k \in DOMAIN input : /\ Unambiguous(input[k].quantity)
                                /\ Templates!parseWholeNumber(input[k].quantity) >= 0
    <3>1. \A k \in DOMAIN input : Unambiguous(input[k].quantity)
      BY <1>3, <2>1, FilesAreRows, CountIsUnambiguous
    <3>2. \A k \in DOMAIN input : Templates!parseWholeNumber(input[k].quantity) >= 0
      BY <2>1 DEF Templates!IsCount
    <3>3. QED
      BY <3>1, <3>2
  <2>3. Distinct(input, LAMBDA row : row.sku)
    <3> DEFINE name == [k \in DOMAIN input |-> input[k].sku]
    <3>1. NamedOnce(name)
      BY <1>3, <2>1, FilesAreRows DEF NamedOnce
    <3>2. \A j, k \in DOMAIN name : j # k => name[j] # None /\ name[j] # name[k]
      BY <3>1, NamesAreDistinct
    <3>3. QED
      BY <3>2 DEF Distinct
  <2>4. QED
    BY <2>2, <2>3
<1> QED
  BY <1>1, <1>2, <1>3, Zenon DEF AmountsAreNotGuessed

\* The characters of a text, and those that are told apart.
Chars == STRING \cup {Templates!Quote, Templates!Comma, Templates!NewLine, Templates!Return, "n", "a"}

\* The characters that are told apart are different ones.
LEMMA CharactersDiffer ==
    /\ Templates!Quote # Templates!NewLine /\ Templates!Quote # Templates!Comma
    /\ Templates!Quote # Templates!Blank /\ Templates!Comma # Templates!NewLine
    /\ Templates!Blank # Templates!Comma /\ Templates!Blank # Templates!NewLine
    /\ "n" # Templates!Blank /\ "n" # Templates!NewLine /\ "n" # "a"
    /\ "a" # Templates!Blank /\ "a" # Templates!NewLine
    /\ "n" # Templates!Quote /\ "a" # Templates!Quote
    /\ Templates!Return # Templates!NewLine /\ Templates!Return # Templates!Quote
    /\ Templates!Return # Templates!Comma /\ Templates!Return # Templates!Blank
    /\ "n" # Templates!Return /\ "a" # Templates!Return /\ Templates!Return \in Chars
    /\ Templates!Quote \in Chars /\ Templates!Comma \in Chars /\ Templates!NewLine \in Chars
    /\ "n" \in Chars /\ "a" \in Chars
BY DEF Templates!Quote, Templates!NewLine, Templates!Return, Templates!Comma, Templates!Blank, Chars

\* A scanner between two characters: outside of quotes, inside, at the second quote of a
\* double one, and at the new line of a return that ended a record.
Outside(r, c, l, b) ==
    [records |-> r, current |-> c, quoted |-> FALSE, skip |-> FALSE, line |-> l, startedAt |-> b]
Inside(r, c, l, b) ==
    [records |-> r, current |-> c, quoted |-> TRUE, skip |-> FALSE, line |-> l, startedAt |-> b]
Doubled(r, c, l, b) ==
    [records |-> r, current |-> c, quoted |-> TRUE, skip |-> TRUE, line |-> l, startedAt |-> b]
Returned(r, c, l, b) ==
    [records |-> r, current |-> c, quoted |-> FALSE, skip |-> TRUE, line |-> l, startedAt |-> b]

\* Its steps: inside of quotes a double quote is one, another ends them; a line break
\* outside of them ends the record, and what else there is belongs to it.
LEMMA QuoteIsOpened ==
    ASSUME NEW text, NEW k, NEW r, NEW c, NEW l, NEW b, text[k] = Templates!Quote
    PROVE  Templates!ScanRecord(text, Outside(r, c, l, b), k)
               = Inside(r, Append(c, Templates!Quote), l, b)
BY CharactersDiffer DEF Outside, Inside, Doubled, Templates!ScanRecord, Templates!EndsRecord,
   Templates!Take, Templates!Record

LEMMA QuoteIsClosed ==
    ASSUME NEW text, NEW k, NEW r, NEW c, NEW l, NEW b,
           text[k] = Templates!Quote, Templates!Ahead(text, k) # Templates!Quote
    PROVE  Templates!ScanRecord(text, Inside(r, c, l, b), k)
               = Outside(r, Append(c, Templates!Quote), l, b)
BY CharactersDiffer DEF Outside, Inside, Doubled, Templates!ScanRecord, Templates!EndsRecord,
   Templates!Take, Templates!Record

LEMMA QuoteIsDoubled ==
    ASSUME NEW text, NEW k, NEW r, NEW c, NEW l, NEW b,
           text[k] = Templates!Quote, Templates!Ahead(text, k) = Templates!Quote
    PROVE  Templates!ScanRecord(text, Inside(r, c, l, b), k)
               = Doubled(r, c \o <<Templates!Quote, Templates!Quote>>, l, b)
BY CharactersDiffer DEF Outside, Inside, Doubled, Templates!ScanRecord, Templates!EndsRecord,
   Templates!Take, Templates!Record

LEMMA QuoteIsSkipped ==
    ASSUME NEW text, NEW k, NEW r, NEW c, NEW l, NEW b
    PROVE  Templates!ScanRecord(text, Doubled(r, c, l, b), k) = Inside(r, c, l, b)
BY CharactersDiffer DEF Outside, Inside, Doubled, Templates!ScanRecord, Templates!EndsRecord,
   Templates!Take, Templates!Record

LEMMA CharacterIsQuoted ==
    ASSUME NEW text, NEW k, NEW r, NEW c, NEW l, NEW b, text[k] # Templates!Quote
    PROVE  Templates!ScanRecord(text, Inside(r, c, l, b), k)
               = Inside(r, Append(c, text[k]), IF text[k] = Templates!NewLine THEN l + 1 ELSE l, b)
BY CharactersDiffer DEF Outside, Inside, Doubled, Templates!ScanRecord, Templates!EndsRecord,
   Templates!Take, Templates!Record

LEMMA CommaIsRead ==
    ASSUME NEW text, NEW k, NEW r, NEW c, NEW l, NEW b, text[k] = Templates!Comma
    PROVE  Templates!ScanRecord(text, Outside(r, c, l, b), k)
               = Outside(r, Append(c, Templates!Comma), l, b)
BY CharactersDiffer DEF Outside, Inside, Doubled, Templates!ScanRecord, Templates!EndsRecord,
   Templates!Take, Templates!Record

LEMMA LineIsEnded ==
    ASSUME NEW text, NEW k, NEW r, NEW c, NEW l, NEW b,
           text[k] = Templates!NewLine
               \/ (text[k] = Templates!Return /\ Templates!Ahead(text, k) # Templates!NewLine)
    PROVE  Templates!ScanRecord(text, Outside(r, c, l, b), k)
               = Outside(Append(r, [line |-> c, number |-> b]), <<>>, l + 1, l + 1)
<1>1. ~Templates!ReturnsTwice(text, k) /\ text[k] # Templates!Quote
  BY CharactersDiffer DEF Templates!ReturnsTwice
<1>2. Templates!ReturnsTwice(text, k) = FALSE
  BY <1>1 DEF Templates!ReturnsTwice
<1> QED
  BY <1>1, <1>2 DEF Outside, Templates!ScanRecord, Templates!EndsRecord, Templates!Record

LEMMA LineIsReturned ==
    ASSUME NEW text, NEW k, NEW r, NEW c, NEW l, NEW b,
           text[k] = Templates!Return, Templates!Ahead(text, k) = Templates!NewLine
    PROVE  Templates!ScanRecord(text, Outside(r, c, l, b), k)
               = Returned(Append(r, [line |-> c, number |-> b]), <<>>, l + 1, l + 1)
<1>1. Templates!ReturnsTwice(text, k) = TRUE /\ text[k] # Templates!Quote
  BY CharactersDiffer DEF Templates!ReturnsTwice
<1> QED
  BY <1>1 DEF Outside, Returned, Templates!ScanRecord, Templates!EndsRecord, Templates!Record

LEMMA NewLineIsSkipped ==
    ASSUME NEW text, NEW k, NEW r, NEW c, NEW l, NEW b
    PROVE  Templates!ScanRecord(text, Returned(r, c, l, b), k) = Outside(r, c, l, b)
BY DEF Outside, Returned, Templates!ScanRecord

\* The states of the scanner, one for each character it has read.
StartOfText == Outside(<<>>, <<>>, 1, 1)
Scans(text, n, F) ==
    F = [k \in 0..n |-> IF k = 0 THEN StartOfText ELSE Templates!ScanRecord(text, F[k - 1], k)]

\* The records of a text are those of its last state.
LEMMA TextIsScanned ==
    ASSUME NEW text, Len(text) \in Nat
    PROVE  \E F : /\ F[0] = StartOfText
                  /\ \A k \in 1..Len(text) : F[k] = Templates!ScanRecord(text, F[k - 1], k)
                  /\ Templates!splitRecords(text)
                        = LET end == F[Len(text)]
                          IN  IF end.current = <<>> THEN end.records
                              ELSE Append(end.records, Templates!Record(end))
<1> DEFINE G == {n \in Nat : \E F : Scans(text, n, F)}
           L == Len(text)
<1>1. 0 \in G
  <2> DEFINE f == [k \in 0..0 |-> StartOfText]
  <2>1. Scans(text, 0, f)
    BY DEF Scans
  <2>2. QED
    BY <2>1
<1>2. ASSUME NEW n \in Nat, n \in G PROVE n + 1 \in G
  <2>1. PICK F : Scans(text, n, F)
    BY <1>2
  <2> DEFINE more == [k \in 0..(n + 1) |->
                         IF k <= n THEN F[k] ELSE Templates!ScanRecord(text, F[n], n + 1)]
  <2>2. ASSUME NEW k \in 0..(n + 1)
        PROVE  more[k] = IF k = 0 THEN StartOfText ELSE Templates!ScanRecord(text, more[k - 1], k)
    <3>1. CASE k = 0
      BY <2>1, <3>1 DEF Scans
    <3>2. CASE k # 0 /\ k <= n
      <4>1. k \in 0..n /\ k - 1 \in 0..(n + 1) /\ k - 1 <= n
        BY <3>2
      <4>2. more[k] = F[k] /\ more[k - 1] = F[k - 1]
        BY <4>1
      <4>3. F[k] = Templates!ScanRecord(text, F[k - 1], k)
        BY <2>1, <3>2, <4>1 DEF Scans
      <4>4. QED
        BY <3>2, <4>2, <4>3
    <3>3. CASE k = n + 1
      <4>1. more[n] = F[n] /\ more[k] = Templates!ScanRecord(text, F[n], n + 1) /\ k - 1 = n /\ k # 0
        BY <3>3
      <4>2. QED
        BY <3>3, <4>1
    <3>4. QED
      BY <3>1, <3>2, <3>3
  <2>3. more = [k \in 0..(n + 1) |->
                   IF k = 0 THEN StartOfText ELSE Templates!ScanRecord(text, more[k - 1], k)]
    <3>1. DOMAIN more = 0..(n + 1) /\ more = [k \in 0..(n + 1) |-> more[k]]
      OBVIOUS
    <3> HIDE DEF more
    <3>2. QED
      BY <2>2, <3>1
  <2>4. Scans(text, n + 1, more)
    BY <2>3 DEF Scans
  <2>5. QED
    BY <2>4
<1>3. Nat \subseteq G
  <2> HIDE DEF G
  <2>1. QED
    BY <1>1, <1>2, NaturalInduction
<1> DEFINE scan == CHOOSE F : Scans(text, L, F)
<1>4. Scans(text, L, scan)
  BY <1>3
<1>5. Templates!splitRecords(text)
         = LET end == scan[L]
           IN  IF end.current = <<>> THEN end.records
               ELSE Append(end.records, Templates!Record(end))
  BY DEF Templates!splitRecords, Scans, StartOfText, Outside
<1> HIDE DEF scan
<1>6. scan[0] = StartOfText /\ \A k \in 1..L : scan[k] = Templates!ScanRecord(text, scan[k - 1], k)
  BY <1>4 DEF Scans
<1> QED
  BY <1>5, <1>6

-----------------------------------------------------------------------------
\* The text holds u from the place p on.
Holds(text, p, u) ==
    /\ p \in Nat /\ Len(text) \in Nat /\ p + Len(u) <= Len(text)
    /\ \A i \in 1..Len(u) : text[p + i] = u[i]

\* A text that holds two parts holds each of them.
LEMMA HoldsParts ==
    ASSUME NEW text, NEW p \in Nat, NEW u \in Seq(Chars), NEW v \in Seq(Chars),
           Holds(text, p, u \o v)
    PROVE  /\ Holds(text, p, u) /\ p + Len(u) \in Nat /\ Holds(text, p + Len(u), v)
           /\ v # <<>> => text[p + Len(u) + 1] = v[1] /\ p + Len(u) + 1 <= Len(text)
<1>1. /\ Len(u) \in Nat /\ Len(v) \in Nat /\ Len(u \o v) = Len(u) + Len(v)
      /\ \A i \in 1..Len(u) : i \in 1..Len(u \o v) /\ (u \o v)[i] = u[i]
      /\ \A i \in 1..Len(v) : Len(u) + i \in 1..Len(u \o v) /\ (u \o v)[Len(u) + i] = v[i]
  OBVIOUS
<1>2. Holds(text, p, u)
  BY <1>1 DEF Holds
<1> DEFINE q == p + Len(u)
<1>3. q \in Nat /\ Holds(text, q, v)
  <2>1. \A i \in 1..Len(v) : q + i = p + (Len(u) + i)
    BY <1>1
  <2>2. QED
    BY <1>1, <2>1, SMTT(30) DEF Holds
<1>4. v # <<>> => 1 \in 1..Len(v)
  BY <1>1
<1> QED
  BY <1>1, <1>2, <1>3, <1>4 DEF Holds

\* A text that holds a character has it at that place.
LEMMA HoldsCharacter ==
    ASSUME NEW text, NEW p \in Nat, NEW char, Holds(text, p, <<char>>)
    PROVE  text[p + 1] = char /\ p + 1 \in 1..Len(text) /\ (p + 1) - 1 = p
<1>1. /\ Len(text) \in Nat /\ p + Len(<<char>>) <= Len(text)
      /\ \A i \in 1..Len(<<char>>) : text[p + i] = <<char>>[i]
  BY DEF Holds
<1>2. Len(<<char>>) = 1 /\ <<char>>[1] = char
  OBVIOUS
<1>3. 1 \in 1..1
  OBVIOUS
<1>4. text[p + 1] = char
  BY <1>1, <1>2, <1>3
<1> QED
  BY <1>1, <1>2, <1>4

\* The equation that a flattened sequence solves.
Flattens(seqs, n, h) ==
    h = [i \in 1..n |-> IF i = 1 THEN seqs[i] ELSE h[i - 1] \o seqs[i]]

\* Its parts one after the other.
LEMMA FlattenIsInSteps ==
    ASSUME NEW X, NEW n \in Nat, NEW seqs \in [1..n -> Seq(X)]
    PROVE  \E E \in [0..n -> Seq(X)] :
              /\ E[0] = <<>> /\ \A i \in 1..n : E[i] = E[i - 1] \o seqs[i]
              /\ FlattenSeq(seqs) = E[n]
<1> DEFINE G == {m \in Nat : \E h : Flattens(seqs, m, h)}
<1>1. 0 \in G
  <2> DEFINE f == [i \in 1..0 |-> 0]
  <2>1. Flattens(seqs, 0, f)
    BY DEF Flattens
  <2>2. QED
    BY <2>1
<1>2. ASSUME NEW m \in Nat, m \in G PROVE m + 1 \in G
  <2>1. PICK h : Flattens(seqs, m, h)
    BY <1>2
  <2> DEFINE more == [i \in 1..(m + 1) |->
                         IF i <= m THEN h[i]
                         ELSE IF i = 1 THEN seqs[i] ELSE h[m] \o seqs[i]]
  <2>2. ASSUME NEW i \in 1..(m + 1)
        PROVE  more[i] = IF i = 1 THEN seqs[i] ELSE more[i - 1] \o seqs[i]
    <3>1. CASE i <= m /\ i # 1
      <4>1. i \in 1..m /\ i - 1 \in 1..(m + 1) /\ i - 1 <= m
        BY <3>1
      <4>2. more[i] = h[i] /\ more[i - 1] = h[i - 1]
        BY <4>1
      <4>3. h[i] = h[i - 1] \o seqs[i]
        BY <2>1, <3>1, <4>1 DEF Flattens
      <4>4. QED
        BY <3>1, <4>2, <4>3
    <3>2. CASE i <= m /\ i = 1
      <4>1. i \in 1..m /\ more[i] = h[i]
        BY <3>2
      <4>2. QED
        BY <2>1, <3>2, <4>1 DEF Flattens
    <3>3. CASE i = m + 1 /\ i # 1
      <4>1. i - 1 = m /\ m \in 1..(m + 1) /\ m <= m /\ ~(i <= m)
        BY <3>3
      <4>2. more[m] = h[m] /\ more[i] = h[m] \o seqs[i]
        BY <3>3, <4>1
      <4>3. QED
        BY <3>3, <4>1, <4>2
    <3>4. CASE i = m + 1 /\ i = 1
      BY <3>4
    <3>5. QED
      BY <3>1, <3>2, <3>3, <3>4
  <2>3. more = [i \in 1..(m + 1) |-> IF i = 1 THEN seqs[i] ELSE more[i - 1] \o seqs[i]]
    <3>1. DOMAIN more = 1..(m + 1) /\ more = [i \in 1..(m + 1) |-> more[i]]
      OBVIOUS
    <3> HIDE DEF more
    <3>2. QED
      BY <2>2, <3>1
  <2>4. Flattens(seqs, m + 1, more)
    BY <2>3, Zenon DEF Flattens
  <2>5. QED
    BY <2>4
<1>3. Nat \subseteq G
  <2> HIDE DEF G
  <2>1. QED
    BY <1>1, <1>2, NaturalInduction
<1> DEFINE flatten == CHOOSE h : Flattens(seqs, n, h)
           E == [i \in 0..n |-> IF i = 0 THEN <<>> ELSE flatten[i]]
<1>4. Flattens(seqs, n, flatten)
  BY <1>3
<1>5. Len(seqs) = n /\ (n = 0 => seqs = <<>>)
  OBVIOUS
<1>6. FlattenSeq(seqs) = IF n = 0 THEN seqs ELSE flatten[n]
  BY <1>5 DEF FlattenSeq, Flattens
<1> HIDE DEF flatten
<1>7. FlattenSeq(seqs) = E[n]
  BY <1>5, <1>6
<1> DEFINE H == {m \in Nat : m <= n => E[m] \in Seq(X)}
<1>8. ASSUME NEW i \in 1..n, E[i - 1] \in Seq(X)
      PROVE  E[i] = E[i - 1] \o seqs[i] /\ E[i] \in Seq(X)
  <2>1. flatten[i] = IF i = 1 THEN seqs[i] ELSE flatten[i - 1] \o seqs[i]
    BY <1>4 DEF Flattens
  <2>2. seqs[i] \in Seq(X)
    OBVIOUS
  <2>3. CASE i = 1
    <3>1. E[i] = seqs[i] /\ E[i - 1] = <<>>
      BY <2>1, <2>3
    <3> HIDE DEF E
    <3>2. <<>> \o seqs[i] = seqs[i]
      BY <2>2
    <3>3. QED
      BY <2>2, <3>1, <3>2
  <2>4. CASE i # 1
    <3>1. i \in 0..n /\ i - 1 \in 0..n /\ i # 0 /\ i - 1 # 0
      BY <2>4
    <3>2. E[i] = flatten[i] /\ E[i - 1] = flatten[i - 1]
      BY <3>1
    <3> HIDE DEF E
    <3>3. E[i] = E[i - 1] \o seqs[i]
      BY <2>1, <2>4, <3>2
    <3>4. QED
      BY <1>8, <2>2, <3>3
  <2>5. QED
    BY <2>3, <2>4
<1>9. 0 \in H
  OBVIOUS
<1>10. ASSUME NEW m \in Nat, m \in H PROVE m + 1 \in H
  <2>1. CASE m + 1 <= n
    <3>1. m + 1 \in 1..n /\ m <= n /\ (m + 1) - 1 = m
      BY <2>1
    <3>2. E[(m + 1) - 1] \in Seq(X)
      BY <1>10, <3>1
    <3> HIDE DEF E
    <3>3. E[m + 1] \in Seq(X)
      BY <1>8, <3>1, <3>2
    <3>4. QED
      BY <3>3
  <2>2. CASE ~(m + 1 <= n)
    BY <2>2
  <2>3. QED
    BY <2>1, <2>2
<1>11. Nat \subseteq H
  <2> HIDE DEF H
  <2>1. QED
    BY <1>9, <1>10, NaturalInduction
<1>12. E[0] = <<>> /\ DOMAIN E = 0..n /\ E = [i \in 0..n |-> E[i]]
  OBVIOUS
<1> HIDE DEF E
<1>13. \A i \in 0..n : E[i] \in Seq(X)
  BY <1>11
<1>14. E \in [0..n -> Seq(X)]
  BY <1>12, <1>13
<1>15. \A i \in 1..n : E[i] = E[i - 1] \o seqs[i]
  <2>1. \A i \in 1..n : i - 1 \in 0..n
    OBVIOUS
  <2>2. QED
    BY <1>8, <1>13, <2>1
<1> QED
  BY <1>7, <1>12, <1>14, <1>15

\* A character as a spreadsheet writes it within its quotes.
Escaped(char) ==
    IF char = Templates!Quote THEN <<Templates!Quote, Templates!Quote>> ELSE <<char>>

\* The cell as it is written, character by character.
SpelledOut(cell, E) ==
    /\ E \in [0..Len(cell) -> Seq(Chars)] /\ E[0] = <<>>
    /\ \A i \in 1..Len(cell) : E[i] = E[i - 1] \o Escaped(cell[i])

\* A cell is written between quotes.
LEMMA CellsAreWritten ==
    ASSUME NEW cell \in Seq(Chars)
    PROVE  \E E : /\ SpelledOut(cell, E)
                  /\ CellText(cell) = <<Templates!Quote>> \o E[Len(cell)] \o <<Templates!Quote>>
<1> DEFINE n == Len(cell)
           seqs == [k \in 1..n |-> Escaped(cell[k])]
<1>1. n \in Nat /\ DOMAIN cell = 1..n /\ \A k \in 1..n : cell[k] \in Chars
  OBVIOUS
<1>2. seqs \in [1..n -> Seq(Chars)]
  <2>1. \A k \in 1..n : Escaped(cell[k]) \in Seq(Chars)
    <3>1. ASSUME NEW c \in Chars PROVE Escaped(c) \in Seq(Chars)
      <4>1. Templates!Quote \in Chars
        BY CharactersDiffer
      <4>2. <<c>> \in Seq(Chars) /\ <<Templates!Quote, Templates!Quote>> \in Seq(Chars)
        BY <4>1
      <4>3. QED
        BY <4>2 DEF Escaped
    <3>2. QED
      BY <1>1, <3>1
  <2>2. QED
    BY <2>1
<1>3. CellText(cell) = <<Templates!Quote>> \o FlattenSeq(seqs) \o <<Templates!Quote>>
  BY <1>1 DEF CellText, Escaped
<1>4. \A k \in 1..n : seqs[k] = Escaped(cell[k])
  OBVIOUS
<1> HIDE DEF seqs, n
<1>5. PICK E \in [0..n -> Seq(Chars)] :
         /\ E[0] = <<>> /\ \A i \in 1..n : E[i] = E[i - 1] \o seqs[i]
         /\ FlattenSeq(seqs) = E[n]
  BY <1>1, <1>2, FlattenIsInSteps
<1>6. SpelledOut(cell, E)
  BY <1>4, <1>5 DEF SpelledOut, n
<1> QED
  BY <1>3, <1>5, <1>6 DEF n

\* What is written is held part by part.
LEMMA PartsAreHeld ==
    ASSUME NEW text, NEW cell \in Seq(Chars), NEW E, SpelledOut(cell, E),
           NEW q \in Nat, Holds(text, q, E[Len(cell)])
    PROVE  \A i \in 1..Len(cell) : /\ Holds(text, q + Len(E[i - 1]), Escaped(cell[i]))
                                   /\ q + Len(E[i - 1]) \in Nat
<1> DEFINE n == Len(cell)
           G == {m \in Nat : m <= n => Holds(text, q, E[n - m])}
<1>1. /\ n \in Nat /\ \A i \in 1..n : cell[i] \in Chars
      /\ E \in [0..n -> Seq(Chars)] /\ \A i \in 1..n : E[i] = E[i - 1] \o Escaped(cell[i])
  BY SMTT(30) DEF SpelledOut
<1>2. \A c \in Chars : Escaped(c) \in Seq(Chars)
  <2>1. ASSUME NEW c \in Chars PROVE Escaped(c) \in Seq(Chars)
    <3>1. Templates!Quote \in Chars
      BY CharactersDiffer
    <3>2. <<c>> \in Seq(Chars) /\ <<Templates!Quote, Templates!Quote>> \in Seq(Chars)
      BY <3>1
    <3>3. QED
      BY <3>2 DEF Escaped
  <2>2. QED
    BY <2>1
<1> HIDE DEF n
<1>3. ASSUME NEW i \in 1..n, Holds(text, q, E[i])
      PROVE  /\ Holds(text, q, E[i - 1]) /\ Holds(text, q + Len(E[i - 1]), Escaped(cell[i]))
             /\ q + Len(E[i - 1]) \in Nat
  <2>1. i - 1 \in 0..n
    BY <1>1
  <2>2. E[i - 1] \in Seq(Chars) /\ Escaped(cell[i]) \in Seq(Chars)
    BY <1>1, <1>2, <2>1
  <2>3. Holds(text, q, E[i - 1] \o Escaped(cell[i]))
    BY <1>1, <1>3
  <2>4. QED
    BY <2>2, <2>3, HoldsParts
<1>4. 0 \in G
  <2>1. n - 0 = n /\ Holds(text, q, E[n])
    BY <1>1 DEF n
  <2>2. QED
    BY <2>1
<1>5. ASSUME NEW m \in Nat, m \in G PROVE m + 1 \in G
  <2>1. CASE m + 1 <= n
    <3>1. n - m \in 1..n /\ (n - m) - 1 = n - (m + 1) /\ m <= n
      BY <1>1, <2>1
    <3>2. Holds(text, q, E[n - m])
      BY <1>5, <3>1
    <3>3. Holds(text, q, E[(n - m) - 1])
      BY <1>3, <3>1, <3>2
    <3>4. QED
      BY <3>1, <3>3
  <2>2. CASE ~(m + 1 <= n)
    BY <2>2
  <2>3. QED
    BY <2>1, <2>2
<1>6. Nat \subseteq G
  <2> HIDE DEF G
  <2>1. QED
    BY <1>4, <1>5, NaturalInduction
<1>7. ASSUME NEW i \in 1..n PROVE Holds(text, q, E[i])
  <2>1. n - i \in Nat /\ n - i <= n /\ n - (n - i) = i
    BY <1>1
  <2>2. Holds(text, q, E[n - (n - i)])
    BY <1>6, <2>1
  <2>3. QED
    BY <2>1, <2>2
<1> QED
  BY <1>3, <1>7 DEF n

\* The line breaks among the first characters of a cell.
Breaks(cell, i) == Cardinality({k \in 1..i : cell[k] = Templates!NewLine})

\* Line breaks are counted character by character.
LEMMA BreaksAreCounted ==
    ASSUME NEW cell
    PROVE  /\ Breaks(cell, 0) = 0
           /\ \A i \in Nat \ {0} : /\ Breaks(cell, i - 1) \in Nat /\ Breaks(cell, i) \in Nat
                                   /\ Breaks(cell, i) = IF cell[i] = Templates!NewLine
                                                        THEN Breaks(cell, i - 1) + 1
                                                        ELSE Breaks(cell, i - 1)
<1> DEFINE B(i) == {k \in 1..i : cell[k] = Templates!NewLine}
<1>1. B(0) = {}
  OBVIOUS
<1>2. ASSUME NEW i \in Nat PROVE IsFiniteSet(B(i)) /\ Cardinality(B(i)) \in Nat
  <2>1. 1 \in Int /\ i \in Int
    OBVIOUS
  <2>2. IsFiniteSet(1..i)
    BY <2>1, FS_Interval, Zenon
  <2>3. B(i) \subseteq 1..i
    OBVIOUS
  <2> HIDE DEF B
  <2>4. QED
    BY <2>2, <2>3, FS_Subset, FS_CardinalityType
<1>3. ASSUME NEW i \in Nat \ {0}
      PROVE  B(i) = IF cell[i] = Templates!NewLine THEN B(i - 1) \cup {i} ELSE B(i - 1)
  <2>1. \A k : k \in 1..i <=> k \in 1..(i - 1) \/ k = i
    OBVIOUS
  <2>2. QED
    BY <2>1
<1>4. ASSUME NEW i \in Nat \ {0} PROVE i \notin B(i - 1) /\ i - 1 \in Nat
  OBVIOUS
<1>5. ASSUME NEW i \in Nat \ {0}
      PROVE  Cardinality(B(i)) = IF cell[i] = Templates!NewLine THEN Cardinality(B(i - 1)) + 1
                                 ELSE Cardinality(B(i - 1))
  <2>1. IsFiniteSet(B(i - 1)) /\ i \notin B(i - 1)
    BY <1>2, <1>4
  <2>2. B(i) = IF cell[i] = Templates!NewLine THEN B(i - 1) \cup {i} ELSE B(i - 1)
    BY <1>3
  <2> HIDE DEF B
  <2>3. Cardinality(B(i - 1) \cup {i}) = Cardinality(B(i - 1)) + 1
    BY <2>1, FS_AddElement
  <2>4. QED
    BY <2>2, <2>3
<1>6. \A i : Breaks(cell, i) = Cardinality(B(i))
  BY DEF Breaks
<1> HIDE DEF B
<1> QED
  BY <1>1, <1>2, <1>4, <1>5, <1>6, FS_EmptySet

\* The scanner reads the text from its beginning.
Scanned(text, F) ==
    /\ Len(text) \in Nat /\ F[0] = StartOfText
    /\ \A k \in 1..Len(text) : F[k] = Templates!ScanRecord(text, F[k - 1], k)

\* Inside of its quotes a cell is read up to its next character.
LEMMA CharacterIsScanned ==
    ASSUME NEW text, NEW F, Scanned(text, F), NEW char \in Chars,
           NEW p \in Nat, Holds(text, p, Escaped(char)),
           NEW r, NEW c \in Seq(Chars), NEW l \in Int, NEW b, F[p] = Inside(r, c, l, b)
    PROVE  F[p + Len(Escaped(char))]
               = Inside(r, c \o Escaped(char), IF char = Templates!NewLine THEN l + 1 ELSE l, b)
<1> DEFINE Q == Templates!Quote
<1>1. Q # Templates!NewLine /\ Q \in Chars
  BY CharactersDiffer
<1>2. \A k \in 1..Len(text) : F[k] = Templates!ScanRecord(text, F[k - 1], k)
  BY DEF Scanned
<1>3. CASE char = Q
  <2>1. Escaped(char) = <<Q, Q>> /\ Len(<<Q, Q>>) = 2
    BY <1>3 DEF Escaped
  <2>2. /\ text[p + 1] = Q /\ text[p + 2] = Q /\ p + 2 <= Len(text) /\ Len(text) \in Nat
    <3>1. /\ Len(text) \in Nat /\ p + 2 <= Len(text)
          /\ \A i \in 1..2 : text[p + i] = <<Q, Q>>[i]
      BY <2>1 DEF Holds
    <3>2. text[p + 1] = <<Q, Q>>[1] /\ text[p + 2] = <<Q, Q>>[2]
      BY <3>1
    <3>3. QED
      BY <3>1, <3>2
  <2>3. /\ p + 1 \in 1..Len(text) /\ p + 2 \in 1..Len(text) /\ p + 1 < Len(text)
        /\ (p + 1) - 1 = p /\ (p + 2) - 1 = p + 1 /\ (p + 1) + 1 = p + 2
    BY <2>2
  <2>4. Templates!Ahead(text, p + 1) = Q
    BY <2>2, <2>3 DEF Templates!Ahead
  <2>5. F[p + 1] = Doubled(r, c \o <<Q, Q>>, l, b)
    <3>1. F[p + 1] = Templates!ScanRecord(text, Inside(r, c, l, b), p + 1)
      BY <1>2, <2>3
    <3>2. QED
      BY <2>2, <2>4, <3>1, QuoteIsDoubled
  <2>6. F[p + 2] = Inside(r, c \o <<Q, Q>>, l, b)
    <3>1. F[p + 2] = Templates!ScanRecord(text, Doubled(r, c \o <<Q, Q>>, l, b), p + 2)
      BY <1>2, <2>3, <2>5
    <3>2. QED
      BY <3>1, QuoteIsSkipped
  <2>7. QED
    BY <1>1, <1>3, <2>1, <2>6
<1>4. CASE char # Q
  <2>1. Escaped(char) = <<char>> /\ Len(<<char>>) = 1
    BY <1>4 DEF Escaped
  <2>2. /\ text[p + 1] = char /\ p + 1 <= Len(text) /\ Len(text) \in Nat
    <3>1. /\ Len(text) \in Nat /\ p + 1 <= Len(text)
          /\ \A i \in 1..1 : text[p + i] = <<char>>[i]
      BY <2>1 DEF Holds
    <3>2. text[p + 1] = <<char>>[1]
      BY <3>1
    <3>3. QED
      BY <3>1, <3>2
  <2>3. p + 1 \in 1..Len(text) /\ (p + 1) - 1 = p
    BY <2>2
  <2>4. F[p + 1] = Templates!ScanRecord(text, Inside(r, c, l, b), p + 1)
    BY <1>2, <2>3
  <2>5. F[p + 1] = Inside(r, Append(c, char), IF char = Templates!NewLine THEN l + 1 ELSE l, b)
    BY <1>4, <2>2, <2>4, CharacterIsQuoted
  <2>6. Append(c, char) = c \o <<char>>
    OBVIOUS
  <2>7. QED
    BY <2>1, <2>5, <2>6
<1> QED
  BY <1>3, <1>4

\* What is written of a cell is a text.
LEMMA CellTextIsText ==
    ASSUME NEW cell \in Seq(Chars)
    PROVE  CellText(cell) \in Seq(Chars) /\ CellText(cell) # <<>>
<1>1. PICK E : /\ SpelledOut(cell, E)
               /\ CellText(cell) = <<Templates!Quote>> \o E[Len(cell)] \o <<Templates!Quote>>
  BY CellsAreWritten
<1> DEFINE e == E[Len(cell)]
           q == <<Templates!Quote>>
<1>2. e \in Seq(Chars)
  <2>1. Len(cell) \in 0..Len(cell)
    OBVIOUS
  <2>2. QED
    BY <1>1, <2>1 DEF SpelledOut
<1>3. q \in Seq(Chars) /\ Len(q) = 1
  BY CharactersDiffer
<1> HIDE DEF e, q
<1>4. q \o e \o q \in Seq(Chars) /\ Len(q \o e \o q) # 0
  <2>1. q \o e \in Seq(Chars) /\ Len(q \o e) = 1 + Len(e) /\ Len(e) \in Nat
    BY <1>2, <1>3, ConcatProperties, LenProperties, ZenonT(30)
  <2>2. q \o e \o q \in Seq(Chars) /\ Len(q \o e \o q) = Len(q \o e) + 1
    BY <1>3, <2>1, ConcatProperties
  <2>3. QED
    BY <2>1, <2>2
<1>5. CellText(cell) = q \o e \o q
  BY <1>1 DEF e, q
<1>6. q \o e \o q # <<>>
  <2>1. Len(<<>>) = 0
    OBVIOUS
  <2>2. QED
    BY <1>4, <2>1
<1> QED
  BY <1>4, <1>5, <1>6

\* A cell that is followed by something else than a quote is read whole.
LEMMA CellIsScanned ==
    ASSUME NEW text, NEW F, Scanned(text, F), NEW cell \in Seq(Chars),
           NEW p \in Nat, Holds(text, p, CellText(cell)),
           Templates!Ahead(text, p + Len(CellText(cell))) # Templates!Quote,
           NEW r, NEW c \in Seq(Chars), NEW l \in Int, NEW b, F[p] = Outside(r, c, l, b)
    PROVE  F[p + Len(CellText(cell))]
               = Outside(r, c \o CellText(cell), l + Breaks(cell, Len(cell)), b)
<1> DEFINE Q == Templates!Quote
           n == Len(cell)
           w == CellText(cell)
           q == p + 1
<1>1. PICK E : SpelledOut(cell, E) /\ w = <<Q>> \o E[n] \o <<Q>>
  BY CellsAreWritten
<1>2. /\ n \in Nat /\ \A i \in 1..n : cell[i] \in Chars
      /\ E \in [0..n -> Seq(Chars)] /\ E[0] = <<>>
      /\ \A i \in 1..n : E[i] = E[i - 1] \o Escaped(cell[i])
  <2>1. n \in Nat /\ \A i \in 1..n : cell[i] \in Chars
    OBVIOUS
  <2>2. QED
    BY <1>1, <2>1 DEF SpelledOut
<1> DEFINE d == c \o <<Q>>
           m == Len(E[n])
           body == E[n]
<1>3. /\ Q \in Chars /\ <<Q>> \in Seq(Chars) /\ Len(<<Q>>) = 1 /\ d \in Seq(Chars)
      /\ body \in Seq(Chars) /\ m \in Nat
  <2>1. Q \in Chars
    BY CharactersDiffer
  <2>2. n \in 0..n
    BY <1>2
  <2>3. QED
    BY <1>2, <2>1, <2>2
<1>4. /\ Holds(text, p, <<Q>>) /\ Holds(text, q, body) /\ q + m \in Nat /\ q \in Nat
      /\ Holds(text, q + m, <<Q>>) /\ Len(w) = m + 2
  <2> DEFINE u == <<Q>> \o body
  <2> HIDE DEF body, m
  <2>1. w = u \o <<Q>> /\ u \in Seq(Chars) /\ Len(u) = m + 1
    BY <1>1, <1>3 DEF body, m
  <2>2. Holds(text, p, u \o <<Q>>)
    BY <2>1
  <2> HIDE DEF u, w
  <2>3. Holds(text, p, u) /\ Holds(text, p + Len(u), <<Q>>)
    BY <1>3, <2>1, <2>2, HoldsParts
  <2>4. Holds(text, p, <<Q>> \o body)
    BY <2>3 DEF u
  <2>5. Holds(text, p, <<Q>>) /\ Holds(text, p + Len(<<Q>>), body)
    BY <1>3, <2>4, HoldsParts
  <2>6. Len(w) = m + 2
    BY <1>3, <2>1
  <2>7. p + Len(u) = q + m /\ q + m \in Nat /\ p + Len(<<Q>>) = q
    BY <1>3, <2>1
  <2>8. QED
    BY <1>3, <2>3, <2>5, <2>6, <2>7
<1>5. \A k \in 1..Len(text) : F[k] = Templates!ScanRecord(text, F[k - 1], k)
  BY DEF Scanned
<1>6. /\ text[q] = Q /\ q \in 1..Len(text) /\ q - 1 = p
      /\ text[q + m + 1] = Q /\ q + m + 1 \in 1..Len(text) /\ (q + m + 1) - 1 = q + m
      /\ q + m + 1 = p + Len(w)
  <2>1. text[p + 1] = Q /\ p + 1 \in 1..Len(text) /\ (p + 1) - 1 = p
    BY <1>4, HoldsCharacter
  <2> DEFINE z == q + m
  <2>2. z \in Nat /\ Holds(text, z, <<Q>>) /\ z + 1 = p + Len(w)
    <3>1. z \in Nat /\ Holds(text, z, <<Q>>)
      BY <1>4
    <3>2. z + 1 = p + Len(w)
      <4> HIDE DEF m, w
      <4>1. m \in Nat /\ Len(w) = m + 2
        BY <1>3, <1>4
      <4>2. QED
        BY <4>1
    <3>3. QED
      BY <3>1, <3>2
  <2> HIDE DEF z
  <2>3. text[z + 1] = Q /\ z + 1 \in 1..Len(text) /\ (z + 1) - 1 = z
    BY <2>2, HoldsCharacter
  <2>4. QED
    BY <2>1, <2>2, <2>3 DEF z
<1>7. F[q] = Inside(r, d, l, b)
  <2>1. F[q] = Templates!ScanRecord(text, Outside(r, c, l, b), q)
    BY <1>5, <1>6
  <2>2. F[q] = Inside(r, Append(c, Q), l, b)
    BY <1>6, <2>1, QuoteIsOpened
  <2>3. Append(c, Q) = d
    BY <1>3
  <2>4. QED
    BY <2>2, <2>3
<1> HIDE DEF d, w, body, m, q, n
<1> DEFINE Read(i) == F[q + Len(E[i])] = Inside(r, d \o E[i], l + Breaks(cell, i), b)
           G == {i \in Nat : i <= n => Read(i)}
<1>8. 0 \in G
  <2>1. Len(E[0]) = 0 /\ d \o E[0] = d
    BY <1>2, <1>3
  <2>2. Breaks(cell, 0) = 0 /\ l + 0 = l
    BY BreaksAreCounted
  <2>3. q + 0 = q
    BY <1>4
  <2>4. Read(0)
    BY <1>7, <2>1, <2>2, <2>3
  <2> HIDE DEF Read
  <2>5. QED
    BY <2>4
<1>9. ASSUME NEW i \in Nat, i \in G PROVE i + 1 \in G
  <2>1. SUFFICES ASSUME i + 1 <= n PROVE Read(i + 1)
    <3> HIDE DEF Read
    <3>1. QED
      OBVIOUS
  <2> DEFINE char == cell[i + 1]
             at == q + Len(E[i])
             so == d \o E[i]
             esc == Escaped(char)
  <2>2. i + 1 \in 1..n /\ i \in 0..n /\ (i + 1) - 1 = i /\ i <= n /\ i + 1 \in 0..n
    BY <1>2, <2>1
  <2>3. Read(i)
    BY <1>9, <2>2
  <2>4. char \in Chars /\ E[i] \in Seq(Chars) /\ E[i + 1] \in Seq(Chars) /\ E[i + 1] = E[i] \o esc
    BY <1>2, <2>2
  <2>5. at \in Nat /\ Holds(text, at, esc)
    <3>1. Holds(text, q, E[Len(cell)])
      BY <1>4 DEF body, n
    <3>2. \A j \in 1..Len(cell) : /\ Holds(text, q + Len(E[j - 1]), Escaped(cell[j]))
                                  /\ q + Len(E[j - 1]) \in Nat
      BY <1>1, <1>4, <3>1, PartsAreHeld
    <3>3. i + 1 \in 1..Len(cell)
      BY <2>2 DEF n
    <3>4. QED
      BY <2>2, <3>2, <3>3
  <2>6. so \in Seq(Chars)
    BY <1>3, <2>4
  <2>7. Breaks(cell, i) \in Int /\ Breaks(cell, i + 1) \in Int
        /\ Breaks(cell, i + 1) = IF char = Templates!NewLine THEN Breaks(cell, i) + 1
                                 ELSE Breaks(cell, i)
    <3>1. i + 1 \in Nat \ {0} /\ (i + 1) - 1 = i
      OBVIOUS
    <3>2. QED
      BY <3>1, BreaksAreCounted, SMTT(30)
  <2> DEFINE line == l + Breaks(cell, i)
  <2>8. line \in Int /\ F[at] = Inside(r, so, line, b)
    BY <2>3, <2>7
  <2>9. esc \in Seq(Chars)
    <3>1. <<char>> \in Seq(Chars) /\ <<Q, Q>> \in Seq(Chars)
      BY <1>3, <2>4
    <3>2. QED
      BY <3>1 DEF Escaped
  <2>10. /\ at + Len(esc) = q + Len(E[i + 1])
         /\ so \o esc = d \o E[i + 1]
    <3> HIDE DEF esc
    <3>1. Len(E[i + 1]) = Len(E[i]) + Len(esc) /\ Len(E[i]) \in Nat /\ Len(esc) \in Nat
      BY <2>4, <2>9
    <3>2. (d \o E[i]) \o esc = d \o (E[i] \o esc)
      <4> DEFINE e == E[i]
      <4>1. d \in Seq(Chars) /\ e \in Seq(Chars) /\ esc \in Seq(Chars)
        BY <1>3, <2>4, <2>9
      <4> HIDE DEF e
      <4>2. (d \o e) \o esc = d \o (e \o esc)
        BY <4>1, ConcatAssociative, SMTT(30)
      <4>3. QED
        BY <4>2 DEF e
    <3>3. QED
      BY <1>4, <2>4, <3>1, <3>2
  <2>11. (IF char = Templates!NewLine THEN line + 1 ELSE line) = l + Breaks(cell, i + 1)
    BY <2>7
  <2> HIDE DEF at, so, line, char
  <2>12. F[at + Len(Escaped(char))]
            = Inside(r, so \o Escaped(char), IF char = Templates!NewLine THEN line + 1 ELSE line, b)
    BY <2>4, <2>5, <2>6, <2>8, CharacterIsScanned
  <2>13. QED
    BY <2>10, <2>11, <2>12
<1>10. Nat \subseteq G
  <2> HIDE DEF G
  <2>1. QED
    BY <1>8, <1>9, NaturalInduction
<1>11. F[q + m] = Inside(r, d \o body, l + Breaks(cell, n), b)
  <2>1. n \in Nat /\ n <= n
    BY <1>2
  <2>2. Read(n)
    BY <1>10, <2>1
  <2>3. QED
    BY <2>2 DEF m, body
<1>12. F[q + m + 1] = Outside(r, Append(d \o body, Q), l + Breaks(cell, n), b)
  <2>1. F[q + m + 1] = Templates!ScanRecord(text, Inside(r, d \o body, l + Breaks(cell, n), b), q + m + 1)
    BY <1>5, <1>6, <1>11
  <2>2. Templates!Ahead(text, q + m + 1) # Q
    BY <1>6 DEF w
  <2>3. QED
    BY <1>6, <2>1, <2>2, QuoteIsClosed
<1>13. Append(d \o body, Q) = c \o w
  <2>1. w = <<Q>> \o body \o <<Q>>
    BY <1>1 DEF body, n
  <2> DEFINE one == <<Q>>
  <2>2. d \o body \in Seq(Chars) /\ one \in Seq(Chars) /\ one \o body \in Seq(Chars)
    BY <1>3
  <2>3. Append(d \o body, Q) = (d \o body) \o one
    BY <2>2, SMTT(30)
  <2> HIDE DEF one
  <2>4. d \o body = c \o (one \o body)
    BY <1>3, <2>2, ConcatAssociative DEF d, one
  <2>5. (c \o (one \o body)) \o one = c \o ((one \o body) \o one)
    <3> DEFINE e == one \o body
    <3>1. c \in Seq(Chars) /\ e \in Seq(Chars) /\ one \in Seq(Chars)
      BY <2>2
    <3> HIDE DEF e
    <3>2. (c \o e) \o one = c \o (e \o one)
      BY <3>1
    <3>3. QED
      BY <3>2 DEF e
  <2>6. QED
    BY <2>1, <2>3, <2>4, <2>5 DEF one
<1> QED
  BY <1>6, <1>12, <1>13 DEF w, n

\* The end of a line ends one record, however it is written.
LEMMA LineEndIsScanned ==
    ASSUME NEW text, NEW F, Scanned(text, F), NEW ending \in LineEnds,
           NEW p \in Nat, Holds(text, p, ending),
           Templates!Ahead(text, p + Len(ending)) # Templates!NewLine,
           NEW r, NEW c, NEW l, NEW b, F[p] = Outside(r, c, l, b)
    PROVE  F[p + Len(ending)] = Outside(Append(r, [line |-> c, number |-> b]), <<>>, l + 1, l + 1)
<1> DEFINE ended == Append(r, [line |-> c, number |-> b])
           new == <<Templates!NewLine>>
           return == <<Templates!Return>>
           both == <<Templates!Return, Templates!NewLine>>
<1>1. \A k \in 1..Len(text) : F[k] = Templates!ScanRecord(text, F[k - 1], k)
  BY DEF Scanned
<1>2. ending = new \/ ending = return \/ ending = both
  BY DEF LineEnds
<1>3. Len(new) = 1 /\ Len(return) = 1 /\ Len(both) = 2
  OBVIOUS
<1>4. CASE ending = new
  <2>1. text[p + 1] = Templates!NewLine /\ p + 1 \in 1..Len(text) /\ (p + 1) - 1 = p
    BY <1>4, HoldsCharacter
  <2>2. F[p + 1] = Templates!ScanRecord(text, Outside(r, c, l, b), p + 1)
    BY <1>1, <2>1
  <2>3. QED
    BY <1>3, <1>4, <2>1, <2>2, LineIsEnded
<1>5. CASE ending = return
  <2>1. text[p + 1] = Templates!Return /\ p + 1 \in 1..Len(text) /\ (p + 1) - 1 = p
    BY <1>5, HoldsCharacter
  <2>2. F[p + 1] = Templates!ScanRecord(text, Outside(r, c, l, b), p + 1)
    BY <1>1, <2>1
  <2>3. Templates!Ahead(text, p + 1) # Templates!NewLine
    BY <1>3, <1>5
  <2>4. QED
    BY <1>3, <1>5, <2>1, <2>2, <2>3, LineIsEnded
<1>6. CASE ending = both
  <2>1. /\ text[p + 1] = Templates!Return /\ text[p + 2] = Templates!NewLine
        /\ p + 2 <= Len(text) /\ Len(text) \in Nat
    <3>1. /\ Len(text) \in Nat /\ p + 2 <= Len(text) /\ \A i \in 1..2 : text[p + i] = both[i]
      BY <1>3, <1>6 DEF Holds
    <3>2. text[p + 1] = both[1] /\ text[p + 2] = both[2]
      BY <3>1
    <3>3. QED
      BY <3>1, <3>2
  <2>2. /\ p + 1 \in 1..Len(text) /\ p + 2 \in 1..Len(text) /\ p + 1 < Len(text)
        /\ (p + 1) - 1 = p /\ (p + 2) - 1 = p + 1 /\ (p + 1) + 1 = p + 2
    BY <2>1
  <2>3. Templates!Ahead(text, p + 1) = Templates!NewLine
    BY <2>1, <2>2 DEF Templates!Ahead
  <2>4. F[p + 1] = Returned(ended, <<>>, l + 1, l + 1)
    <3>1. F[p + 1] = Templates!ScanRecord(text, Outside(r, c, l, b), p + 1)
      BY <1>1, <2>2
    <3>2. QED
      BY <2>1, <2>3, <3>1, LineIsReturned
  <2>5. F[p + 2] = Outside(ended, <<>>, l + 1, l + 1)
    <3>1. F[p + 2] = Templates!ScanRecord(text, Returned(ended, <<>>, l + 1, l + 1), p + 2)
      BY <1>1, <2>2, <2>4
    <3>2. QED
      BY <3>1, NewLineIsSkipped
  <2>6. QED
    BY <1>3, <1>6, <2>5
<1> QED
  BY <1>2, <1>4, <1>5, <1>6

\* Texts one after the other.
LEMMA JoinedTexts ==
    ASSUME NEW u \in Seq(Chars), NEW v \in Seq(Chars)
    PROVE  /\ u \o v \in Seq(Chars) /\ Len(u \o v) = Len(u) + Len(v)
           /\ Len(u) \in Nat /\ Len(v) \in Nat
           /\ Len(v) # 0 => u \o v # <<>>
<1>1. /\ u \o v \in Seq(Chars) /\ Len(u \o v) = Len(u) + Len(v)
      /\ Len(u) \in Nat /\ Len(v) \in Nat
  OBVIOUS
<1>2. Len(<<>>) = 0
  OBVIOUS
<1> QED
  BY <1>1, <1>2

\* The order in which texts are put together does not matter.
LEMMA ThreeTexts ==
    ASSUME NEW u \in Seq(Chars), NEW v \in Seq(Chars), NEW w \in Seq(Chars)
    PROVE  (u \o v) \o w = u \o (v \o w)
OBVIOUS

\* A row of two cells, as one record.
RowLine(one, two) == CellText(one) \o (<<Templates!Comma>> \o CellText(two))

\* The end of a line is a text of one or two characters that does not begin like a cell.
LEMMA LineEndIsText ==
    ASSUME NEW ending \in LineEnds
    PROVE  /\ ending \in Seq(Chars) /\ Len(ending) \in 1..2 /\ ending # <<>>
           /\ ending[1] # Templates!Quote
<1> DEFINE new == <<Templates!NewLine>>
           return == <<Templates!Return>>
           both == <<Templates!Return, Templates!NewLine>>
<1>1. ending = new \/ ending = return \/ ending = both
  BY DEF LineEnds
<1>2. /\ new \in Seq(Chars) /\ Len(new) = 1 /\ new[1] # Templates!Quote
      /\ return \in Seq(Chars) /\ Len(return) = 1 /\ return[1] # Templates!Quote
      /\ both \in Seq(Chars) /\ Len(both) = 2 /\ both[1] # Templates!Quote
  BY CharactersDiffer
<1> HIDE DEF new, return, both
<1>3. ending \in Seq(Chars) /\ Len(ending) \in 1..2 /\ ending[1] # Templates!Quote
  BY <1>1, <1>2
<1>4. Len(<<>>) = 0
  OBVIOUS
<1> QED
  BY <1>3, <1>4

\* A row is written as one record and the end of a line.
LEMMA RowTextIs ==
    ASSUME NEW row \in Seq(Seq(Chars)), Len(row) = 2, NEW ending
    PROVE  /\ row[1] \in Seq(Chars) /\ row[2] \in Seq(Chars)
           /\ RowLine(row[1], row[2]) \in Seq(Chars)
           /\ RowText(row, ending) = RowLine(row[1], row[2]) \o ending
<1> DEFINE comma == <<Templates!Comma>>
           seqs == [k \in 1..2 |-> (IF k > 1 THEN comma ELSE <<>>) \o CellText(row[k])]
           a == CellText(row[1])
           z == CellText(row[2])
<1>1. row[1] \in Seq(Chars) /\ row[2] \in Seq(Chars) /\ DOMAIN row = 1..2
  <2> DEFINE Y == Seq(Chars)
  <2>1. row \in Seq(Y)
    OBVIOUS
  <2> HIDE DEF Y
  <2>2. DOMAIN row = 1..2 /\ \A k \in 1..2 : row[k] \in Y
    BY <2>1, ElementOfSeq, LenProperties
  <2>3. 1 \in 1..2 /\ 2 \in 1..2
    OBVIOUS
  <2>4. QED
    BY <2>2, <2>3 DEF Y
<1>2. a \in Seq(Chars) /\ z \in Seq(Chars) /\ comma \in Seq(Chars)
  BY <1>1, CellTextIsText, CharactersDiffer
<1>3. seqs[1] = <<>> \o a /\ seqs[2] = comma \o z
  OBVIOUS
<1>4. RowText(row, ending) = FlattenSeq(seqs) \o ending
  BY <1>1 DEF RowText
<1> HIDE DEF a, z, comma
<1>5. <<>> \o a = a /\ comma \o z \in Seq(Chars) /\ a \o (comma \o z) \in Seq(Chars)
  BY <1>2
<1>6. seqs \in [1..2 -> Seq(Chars)]
  <2>1. DOMAIN seqs = 1..2 /\ seqs = [k \in 1..2 |-> seqs[k]]
    OBVIOUS
  <2> HIDE DEF seqs
  <2>2. seqs[1] \in Seq(Chars) /\ seqs[2] \in Seq(Chars)
    BY <1>2, <1>3, <1>5
  <2>3. \A k \in 1..2 : seqs[k] \in Seq(Chars)
    BY <2>2
  <2>4. QED
    BY <2>1, <2>3
<1> HIDE DEF seqs
<1>7. FlattenSeq(seqs) = a \o (comma \o z)
  <2>1. PICK E \in [0..2 -> Seq(Chars)] :
           /\ E[0] = <<>> /\ \A i \in 1..2 : E[i] = E[i - 1] \o seqs[i]
           /\ FlattenSeq(seqs) = E[2]
    BY <1>6, FlattenIsInSteps, ZenonT(30)
  <2>2. E[1] = E[0] \o seqs[1] /\ E[2] = E[1] \o seqs[2]
    <3>1. 1 \in 1..2 /\ 2 \in 1..2 /\ 1 - 1 = 0 /\ 2 - 1 = 1
      OBVIOUS
    <3>2. E[1] = E[1 - 1] \o seqs[1] /\ E[2] = E[2 - 1] \o seqs[2]
      BY <2>1, <3>1, Zenon
    <3>3. QED
      BY <3>1, <3>2
  <2>3. E[1] = a
    BY <1>2, <1>3, <1>5, <2>1, <2>2
  <2>4. QED
    BY <1>3, <2>1, <2>2, <2>3
<1> QED
  BY <1>1, <1>4, <1>5, <1>7 DEF RowLine, a, z, comma

\* How many line breaks a row has within its cells.
BreaksIn(row) == Breaks(row[1], Len(row[1])) + Breaks(row[2], Len(row[2]))

\* The line that begins after a row that begins on line l.
LineAfter(row, l) == l + BreaksIn(row) + 1
RecordOf(row, l) == [line |-> RowLine(row[1], row[2]), number |-> l]

\* A row is read as one record, and the next one begins on a new line.
LEMMA RowIsScanned ==
    ASSUME NEW text, NEW F, Scanned(text, F), NEW row \in Seq(Seq(Chars)), Len(row) = 2,
           NEW ending \in LineEnds, NEW p \in Nat, Holds(text, p, RowText(row, ending)),
           Templates!Ahead(text, p + Len(RowText(row, ending))) # Templates!NewLine,
           NEW r, NEW l \in Int, F[p] = Outside(r, <<>>, l, l)
    PROVE  /\ F[p + Len(RowText(row, ending))]
                  = Outside(Append(r, RecordOf(row, l)), <<>>, LineAfter(row, l), LineAfter(row, l))
           /\ p + Len(RowText(row, ending)) \in Nat /\ LineAfter(row, l) \in Int
<1> DEFINE a == CellText(row[1])
           z == CellText(row[2])
           comma == <<Templates!Comma>>
           new == ending
           line == RowLine(row[1], row[2])
           ba == Breaks(row[1], Len(row[1]))
           bz == Breaks(row[2], Len(row[2]))
<1>1. /\ row[1] \in Seq(Chars) /\ row[2] \in Seq(Chars) /\ line \in Seq(Chars)
      /\ RowText(row, ending) = line \o new /\ line = a \o (comma \o z)
  BY RowTextIs DEF RowLine
<1>2. /\ a \in Seq(Chars) /\ z \in Seq(Chars) /\ comma \in Seq(Chars) /\ new \in Seq(Chars)
      /\ Len(comma) = 1 /\ Len(new) \in 1..2 /\ comma \o z \in Seq(Chars)
      /\ comma[1] = Templates!Comma /\ new[1] # Templates!Quote /\ new # <<>> /\ comma \o z # <<>>
  <2>1. a \in Seq(Chars) /\ z \in Seq(Chars)
    BY <1>1, CellTextIsText
  <2> HIDE DEF a, z
  <2>2. /\ comma \in Seq(Chars) /\ new \in Seq(Chars) /\ Len(comma) = 1 /\ Len(new) \in 1..2
        /\ comma[1] = Templates!Comma /\ new[1] # Templates!Quote /\ new # <<>>
    <3>1. comma \in Seq(Chars) /\ Len(comma) = 1 /\ comma[1] = Templates!Comma
      BY CharactersDiffer
    <3>2. QED
      BY <3>1, LineEndIsText
  <2> HIDE DEF comma, new
  <2>3. comma \o z \in Seq(Chars) /\ Len(z) \in Nat /\ Len(comma \o z) = 1 + Len(z)
    BY <2>1, <2>2, JoinedTexts, ZenonT(30)
  <2>4. comma \o z # <<>> /\ new # <<>>
    <3>1. Len(<<>>) = 0
      OBVIOUS
    <3> DEFINE v == comma \o z
    <3>2. Len(v) = 1 + Len(z) /\ Len(z) \in Nat
      BY <2>3
    <3> HIDE DEF v
    <3>3. v # <<>>
      BY <3>1, <3>2
    <3>4. new # <<>>
      BY <2>2
    <3>5. QED
      BY <3>3, <3>4, Zenon DEF v
  <2>5. QED
    BY <2>1, <2>2, <2>3, <2>4, Zenon
<1>3. ba \in Int /\ bz \in Int
  <2>1. /\ Len(row[1]) \in Nat /\ Len(row[2]) \in Nat
    BY <1>1
  <2>2. \A c : \A n \in Nat : Breaks(c, n) \in Int
    <3>1. ASSUME NEW c, NEW n \in Nat PROVE Breaks(c, n) \in Int
      <4>1. CASE n = 0
        BY <4>1, BreaksAreCounted
      <4>2. CASE n # 0
        <5>1. n \in Nat \ {0}
          BY <4>2
        <5>2. Breaks(c, n) \in Nat
          BY <5>1, BreaksAreCounted
        <5>3. QED
          BY <5>2
      <4>3. QED
        BY <4>1, <4>2
    <3>2. QED
      BY <3>1
  <2>3. QED
    BY <2>1, <2>2
<1>4. \A k \in 1..Len(text) : F[k] = Templates!ScanRecord(text, F[k - 1], k)
  BY DEF Scanned
<1> HIDE DEF a, z, comma, new, line, ba, bz
<1> DEFINE A == p + Len(a)
           B == A + 1
           C == B + Len(z)
<1>5. /\ Holds(text, p, line) /\ Holds(text, p + Len(line), new)
  <2>1. Holds(text, p, line \o new)
    BY <1>1
  <2>2. QED
    BY <1>1, <1>2, <2>1, HoldsParts, ZenonT(30)
<1>6. Holds(text, p, a \o (comma \o z))
  BY <1>1, <1>5
<1>7. Holds(text, p, a) /\ A \in Nat /\ Holds(text, A, comma \o z)
  BY <1>2, <1>6, HoldsParts
<1> HIDE DEF A
<1>8. Holds(text, A, comma) /\ A + Len(comma) \in Nat /\ Holds(text, A + Len(comma), z)
  BY <1>2, <1>7, HoldsParts
<1>9. B \in Nat /\ Holds(text, B, z)
  BY <1>2, <1>8
<1>10. Len(a) \in Nat /\ Len(z) \in Nat /\ C \in Nat /\ C = p + Len(line)
       /\ Len(RowText(row, ending)) = Len(line) + Len(new) /\ Len(new) \in Nat
  <2>1. Len(a) \in Nat /\ Len(z) \in Nat /\ Len(line) = Len(a) + (1 + Len(z)) /\ Len(line) \in Nat
    <3> DEFINE v == comma \o z
    <3>1. Len(v) = 1 + Len(z) /\ v \in Seq(Chars) /\ line = a \o v
      <4>1. Len(v) = Len(comma) + Len(z) /\ v \in Seq(Chars)
        BY <1>2, JoinedTexts
      <4>2. line = a \o v
        BY <1>1
      <4>3. QED
        BY <1>2, <4>1, <4>2, Zenon
    <3> HIDE DEF v
    <3>2. Len(line) = Len(a) + Len(v)
      BY <1>2, <3>1, JoinedTexts
    <3>3. QED
      BY <1>1, <1>2, <3>1, <3>2, LenProperties
  <2>2. Len(RowText(row, ending)) = Len(line) + Len(new) /\ Len(new) \in Nat
    BY <1>1, <1>2, JoinedTexts
  <2>3. QED
    BY <1>9, <2>1, <2>2 DEF A
<1>11. Holds(text, C, new)
  BY <1>5, <1>10
<1>12. /\ text[A + 1] = Templates!Comma /\ A + 1 \in 1..Len(text) /\ (A + 1) - 1 = A
       /\ text[C + 1] # Templates!Quote
  <2> HIDE DEF C
  <2>1. /\ text[A + 1] = Templates!Comma /\ A + 1 \in 1..Len(text) /\ (A + 1) - 1 = A
    BY <1>7, <1>8, HoldsCharacter DEF comma
  <2>2. text[C + 1] # Templates!Quote
    <3>1. text[C + 1] = new[1]
      BY <1>2, <1>10, <1>11 DEF Holds
    <3>2. QED
      BY <1>2, <3>1
  <2>3. QED
    BY <2>1, <2>2
<1> HIDE DEF C
<1>13. F[A] = Outside(r, <<>> \o a, l + ba, l)
  <2>1. Templates!Ahead(text, A) # Templates!Quote
    BY <1>12, CharactersDiffer DEF Templates!Ahead
  <2>2. <<>> \in Seq(Chars)
    OBVIOUS
  <2>3. Holds(text, p, CellText(row[1]))
        /\ Templates!Ahead(text, p + Len(CellText(row[1]))) # Templates!Quote
    BY <1>7, <2>1 DEF a, A
  <2> DEFINE cell == row[1]
             c0 == <<>>
  <2>4. /\ cell \in Seq(Chars) /\ c0 \in Seq(Chars) /\ Holds(text, p, CellText(cell))
        /\ Templates!Ahead(text, p + Len(CellText(cell))) # Templates!Quote
        /\ F[p] = Outside(r, c0, l, l)
    BY <1>1, <2>2, <2>3
  <2> HIDE DEF cell, c0
  <2>6. F[p + Len(CellText(cell))] = Outside(r, c0 \o CellText(cell), l + Breaks(cell, Len(cell)), l)
    BY <2>4, CellIsScanned
  <2>5. QED
    BY <2>6 DEF A, a, ba, cell, c0
<1>14. F[B] = Outside(r, Append(<<>> \o a, Templates!Comma), l + ba, l)
  <2>1. F[A + 1] = Templates!ScanRecord(text, Outside(r, <<>> \o a, l + ba, l), A + 1)
    BY <1>4, <1>12, <1>13
  <2>2. QED
    BY <1>12, <2>1, CommaIsRead
<1> DEFINE c == Append(<<>> \o a, Templates!Comma)
           la == l + ba
<1>15. c \in Seq(Chars) /\ la \in Int /\ c = a \o comma
  <2>1. <<>> \o a = a
    BY <1>2
  <2>2. Append(a, Templates!Comma) = a \o comma /\ a \o comma \in Seq(Chars)
    BY <1>2, CharactersDiffer DEF comma
  <2>3. QED
    BY <1>3, <2>1, <2>2
<1>16. F[B] = Outside(r, c, la, l)
  BY <1>14
<1> HIDE DEF c, la, B
<1>17. F[C] = Outside(r, c \o z, la + bz, l)
  <2>1. Templates!Ahead(text, C) # Templates!Quote
    BY <1>12, CharactersDiffer DEF Templates!Ahead
  <2>2. Holds(text, B, CellText(row[2]))
        /\ Templates!Ahead(text, B + Len(CellText(row[2]))) # Templates!Quote
    BY <1>9, <2>1 DEF z, C
  <2> DEFINE cell == row[2]
  <2>3. /\ cell \in Seq(Chars) /\ Holds(text, B, CellText(cell))
        /\ Templates!Ahead(text, B + Len(CellText(cell))) # Templates!Quote
    BY <1>1, <2>2
  <2> HIDE DEF cell
  <2>4. /\ cell \in Seq(Chars) /\ c \in Seq(Chars) /\ la \in Int /\ B \in Nat
        /\ Holds(text, B, CellText(cell))
        /\ Templates!Ahead(text, B + Len(CellText(cell))) # Templates!Quote
        /\ F[B] = Outside(r, c, la, l)
    BY <1>9, <1>15, <1>16, <2>3
  <2>5. F[B + Len(CellText(cell))] = Outside(r, c \o CellText(cell), la + Breaks(cell, Len(cell)), l)
    BY <2>4, CellIsScanned
  <2>6. QED
    BY <2>5 DEF C, z, bz, cell
<1>18. c \o z = line
  <2>1. a \in Seq(Chars) /\ comma \in Seq(Chars) /\ z \in Seq(Chars)
    BY <1>2
  <2>2. (a \o comma) \o z = a \o (comma \o z)
    BY <2>1, ThreeTexts
  <2>3. QED
    BY <1>1, <1>15, <2>2, Zenon
<1>19. F[C + Len(new)] = Outside(Append(r, [line |-> line, number |-> l]), <<>>, la + bz + 1, la + bz + 1)
  <2>1. F[C] = Outside(r, line, la + bz, l)
    BY <1>17, <1>18
  <2>2. C + Len(new) = p + Len(RowText(row, ending))
    BY <1>10
  <2>3. Templates!Ahead(text, C + Len(new)) # Templates!NewLine
    BY <2>2
  <2>4. new \in LineEnds /\ C \in Nat
    BY <1>10 DEF new
  <2>5. QED
    BY <1>11, <2>1, <2>3, <2>4, LineEndIsScanned
<1>20. C + Len(new) = p + Len(RowText(row, ending)) /\ C + Len(new) \in Nat
  BY <1>10
<1>21. la + bz + 1 = LineAfter(row, l) /\ la + bz + 1 \in Int
  BY <1>3 DEF la, ba, bz, BreaksIn, LineAfter
<1> QED
  BY <1>19, <1>20, <1>21 DEF line, RecordOf

\* The scanner of one record, between two characters.
BetweenCells(cells, c) == [cells |-> cells, current |-> c, quoted |-> FALSE, skip |-> FALSE]
WithinCell(cells, c) == [cells |-> cells, current |-> c, quoted |-> TRUE, skip |-> FALSE]
AtSecondQuote(cells, c) == [cells |-> cells, current |-> c, quoted |-> TRUE, skip |-> TRUE]

\* Its steps: the quotes of a cell are left out, a double one is read as one, and a comma
\* between two cells ends the first.
LEMMA CellIsOpened ==
    ASSUME NEW text, NEW k, NEW r, NEW c, text[k] = Templates!Quote
    PROVE  Templates!ScanCell(text, BetweenCells(r, c), k) = WithinCell(r, c)
BY CharactersDiffer DEF BetweenCells, WithinCell, AtSecondQuote, Templates!ScanCell, Templates!Take

LEMMA CellIsClosed ==
    ASSUME NEW text, NEW k, NEW r, NEW c,
           text[k] = Templates!Quote, Templates!Ahead(text, k) # Templates!Quote
    PROVE  Templates!ScanCell(text, WithinCell(r, c), k) = BetweenCells(r, c)
BY CharactersDiffer DEF BetweenCells, WithinCell, AtSecondQuote, Templates!ScanCell, Templates!Take

LEMMA QuoteIsRead ==
    ASSUME NEW text, NEW k, NEW r, NEW c,
           text[k] = Templates!Quote, Templates!Ahead(text, k) = Templates!Quote
    PROVE  Templates!ScanCell(text, WithinCell(r, c), k)
               = AtSecondQuote(r, Append(c, Templates!Quote))
BY CharactersDiffer DEF BetweenCells, WithinCell, AtSecondQuote, Templates!ScanCell, Templates!Take

LEMMA SecondQuoteIsSkipped ==
    ASSUME NEW text, NEW k, NEW r, NEW c
    PROVE  Templates!ScanCell(text, AtSecondQuote(r, c), k) = WithinCell(r, c)
BY CharactersDiffer DEF BetweenCells, WithinCell, AtSecondQuote, Templates!ScanCell, Templates!Take

LEMMA CharacterIsTaken ==
    ASSUME NEW text, NEW k, NEW r, NEW c, text[k] # Templates!Quote
    PROVE  Templates!ScanCell(text, WithinCell(r, c), k) = WithinCell(r, Append(c, text[k]))
BY CharactersDiffer DEF BetweenCells, WithinCell, AtSecondQuote, Templates!ScanCell, Templates!Take

LEMMA CommaEndsTheCell ==
    ASSUME NEW text, NEW k, NEW r, NEW c, text[k] = Templates!Comma
    PROVE  Templates!ScanCell(text, BetweenCells(r, c), k) = BetweenCells(Append(r, c), <<>>)
BY CharactersDiffer DEF BetweenCells, WithinCell, AtSecondQuote, Templates!ScanCell, Templates!Take

-----------------------------------------------------------------------------
\* The states of this scanner, one for each character it has read.
FirstCell == BetweenCells(<<>>, <<>>)
ScansCells(text, n, F) ==
    F = [k \in 0..n |-> IF k = 0 THEN FirstCell ELSE Templates!ScanCell(text, F[k - 1], k)]

LineScanned(text, F) ==
    /\ Len(text) \in Nat /\ F[0] = FirstCell
    /\ \A k \in 1..Len(text) : F[k] = Templates!ScanCell(text, F[k - 1], k)

\* The cells of a record are those of its last state.
LEMMA LineIsScanned ==
    ASSUME NEW text, Len(text) \in Nat
    PROVE  \E F : /\ LineScanned(text, F)
                  /\ Templates!splitLine(text)
                        = Append(F[Len(text)].cells, F[Len(text)].current)
<1> DEFINE G == {n \in Nat : \E F : ScansCells(text, n, F)}
           L == Len(text)
<1>1. 0 \in G
  <2> DEFINE f == [k \in 0..0 |-> FirstCell]
  <2>1. ScansCells(text, 0, f)
    BY DEF ScansCells
  <2>2. QED
    BY <2>1
<1>2. ASSUME NEW n \in Nat, n \in G PROVE n + 1 \in G
  <2>1. PICK F : ScansCells(text, n, F)
    BY <1>2
  <2> DEFINE more == [k \in 0..(n + 1) |->
                         IF k <= n THEN F[k] ELSE Templates!ScanCell(text, F[n], n + 1)]
  <2>2. ASSUME NEW k \in 0..(n + 1)
        PROVE  more[k] = IF k = 0 THEN FirstCell ELSE Templates!ScanCell(text, more[k - 1], k)
    <3>1. CASE k = 0
      BY <2>1, <3>1 DEF ScansCells
    <3>2. CASE k # 0 /\ k <= n
      <4>1. k \in 0..n /\ k - 1 \in 0..(n + 1) /\ k - 1 <= n
        BY <3>2
      <4>2. more[k] = F[k] /\ more[k - 1] = F[k - 1]
        BY <4>1
      <4>3. F[k] = Templates!ScanCell(text, F[k - 1], k)
        BY <2>1, <3>2, <4>1 DEF ScansCells
      <4>4. QED
        BY <3>2, <4>2, <4>3
    <3>3. CASE k = n + 1
      <4>1. more[n] = F[n] /\ more[k] = Templates!ScanCell(text, F[n], n + 1) /\ k - 1 = n /\ k # 0
        BY <3>3
      <4>2. QED
        BY <3>3, <4>1
    <3>4. QED
      BY <3>1, <3>2, <3>3
  <2>3. more = [k \in 0..(n + 1) |->
                   IF k = 0 THEN FirstCell ELSE Templates!ScanCell(text, more[k - 1], k)]
    <3>1. DOMAIN more = 0..(n + 1) /\ more = [k \in 0..(n + 1) |-> more[k]]
      OBVIOUS
    <3> HIDE DEF more
    <3>2. QED
      BY <2>2, <3>1
  <2>4. ScansCells(text, n + 1, more)
    BY <2>3 DEF ScansCells
  <2>5. QED
    BY <2>4
<1>3. Nat \subseteq G
  <2> HIDE DEF G
  <2>1. QED
    BY <1>1, <1>2, NaturalInduction
<1> DEFINE scan == CHOOSE F : ScansCells(text, L, F)
<1>4. ScansCells(text, L, scan)
  BY <1>3
<1>5. Templates!splitLine(text) = Append(scan[L].cells, scan[L].current)
  BY DEF Templates!splitLine, ScansCells, FirstCell, BetweenCells
<1> HIDE DEF scan
<1>6. scan[0] = FirstCell /\ \A k \in 1..L : scan[k] = Templates!ScanCell(text, scan[k - 1], k)
  BY <1>4 DEF ScansCells
<1>7. LineScanned(text, scan)
  BY <1>6 DEF LineScanned
<1> QED
  BY <1>5, <1>7

\* The next character of a cell is read.
LEMMA CharacterIsRead ==
    ASSUME NEW text, NEW F, LineScanned(text, F), NEW char \in Chars,
           NEW p \in Nat, Holds(text, p, Escaped(char)),
           NEW r, NEW c, F[p] = WithinCell(r, c)
    PROVE  F[p + Len(Escaped(char))] = WithinCell(r, Append(c, char))
<1> DEFINE Q == Templates!Quote
<1>2. \A k \in 1..Len(text) : F[k] = Templates!ScanCell(text, F[k - 1], k)
  BY DEF LineScanned
<1>3. CASE char = Q
  <2>1. Escaped(char) = <<Q, Q>> /\ Len(<<Q, Q>>) = 2
    BY <1>3 DEF Escaped
  <2>2. /\ text[p + 1] = Q /\ text[p + 2] = Q /\ p + 2 <= Len(text) /\ Len(text) \in Nat
    <3>1. /\ Len(text) \in Nat /\ p + 2 <= Len(text)
          /\ \A i \in 1..2 : text[p + i] = <<Q, Q>>[i]
      BY <2>1 DEF Holds
    <3>2. text[p + 1] = <<Q, Q>>[1] /\ text[p + 2] = <<Q, Q>>[2]
      BY <3>1
    <3>3. QED
      BY <3>1, <3>2
  <2>3. /\ p + 1 \in 1..Len(text) /\ p + 2 \in 1..Len(text) /\ p + 1 < Len(text)
        /\ (p + 1) - 1 = p /\ (p + 2) - 1 = p + 1 /\ (p + 1) + 1 = p + 2
    BY <2>2
  <2>4. Templates!Ahead(text, p + 1) = Q
    BY <2>2, <2>3 DEF Templates!Ahead
  <2>5. F[p + 1] = AtSecondQuote(r, Append(c, Q))
    <3>1. F[p + 1] = Templates!ScanCell(text, WithinCell(r, c), p + 1)
      BY <1>2, <2>3
    <3>2. QED
      BY <2>2, <2>4, <3>1, QuoteIsRead
  <2>6. F[p + 2] = WithinCell(r, Append(c, Q))
    <3>1. F[p + 2] = Templates!ScanCell(text, AtSecondQuote(r, Append(c, Q)), p + 2)
      BY <1>2, <2>3, <2>5
    <3>2. QED
      BY <3>1, SecondQuoteIsSkipped
  <2>7. QED
    BY <1>3, <2>1, <2>6
<1>4. CASE char # Q
  <2>1. Escaped(char) = <<char>> /\ Len(<<char>>) = 1
    BY <1>4 DEF Escaped
  <2>2. /\ text[p + 1] = char /\ p + 1 <= Len(text) /\ Len(text) \in Nat
    <3>1. /\ Len(text) \in Nat /\ p + 1 <= Len(text)
          /\ \A i \in 1..1 : text[p + i] = <<char>>[i]
      BY <2>1 DEF Holds
    <3>2. text[p + 1] = <<char>>[1]
      BY <3>1
    <3>3. QED
      BY <3>1, <3>2
  <2>3. p + 1 \in 1..Len(text) /\ (p + 1) - 1 = p
    BY <2>2
  <2>4. F[p + 1] = Templates!ScanCell(text, WithinCell(r, c), p + 1)
    BY <1>2, <2>3
  <2>5. F[p + 1] = WithinCell(r, Append(c, char))
    BY <1>4, <2>2, <2>4, CharacterIsTaken
  <2>6. QED
    BY <2>1, <2>5
<1> QED
  BY <1>3, <1>4

\* The first characters of a cell.
LEMMA FirstCharacters ==
    ASSUME NEW cell \in Seq(Chars)
    PROVE  /\ SubSeq(cell, 1, 0) = <<>> /\ SubSeq(cell, 1, Len(cell)) = cell
           /\ \A i \in 0..(Len(cell) - 1) :
                 SubSeq(cell, 1, i + 1) = Append(SubSeq(cell, 1, i), cell[i + 1])
<1>1. 1 \in Int /\ 0 \in Int /\ 0 < 1 /\ Len(cell) \in Nat
  OBVIOUS
<1>2. SubSeq(cell, 1, 0) = <<>>
  BY <1>1, SubSeqEmpty
<1>3. SubSeq(cell, 1, Len(cell)) = cell
  BY SubSeqFull
<1>4. ASSUME NEW i \in 0..(Len(cell) - 1)
      PROVE  SubSeq(cell, 1, i + 1) = Append(SubSeq(cell, 1, i), cell[i + 1])
  <2>1. 1 \in 1..Len(cell) /\ i + 1 \in 1..Len(cell) /\ (i + 1) - 1 = i
    BY <1>1
  <2>2. SubSeq(cell, 1, i + 1) = SubSeq(cell, 1, (i + 1) - 1) \o <<cell[i + 1]>>
    BY <2>1, SubSeqRecursiveSecond
  <2>3. SubSeq(cell, 1, i) \in Seq(Chars) /\ cell[i + 1] \in Chars
    <3>1. cell[i + 1] \in Chars
      BY <2>1
    <3>2. i \in Int /\ \A k \in 1..i : cell[k] \in Chars
      BY <1>1
    <3>3. QED
      BY <1>1, <3>1, <3>2, SubSeqProperties
  <2> DEFINE s == SubSeq(cell, 1, i)
             e == cell[i + 1]
  <2>4. SubSeq(cell, 1, i + 1) = s \o <<e>> /\ s \in Seq(Chars) /\ e \in Chars
    BY <2>1, <2>2, <2>3
  <2> HIDE DEF s, e
  <2>5. SubSeq(cell, 1, i + 1) = Append(s, e)
    BY <2>4, AppendIsConcat
  <2>6. QED
    BY <2>5 DEF s, e
<1> QED
  BY <1>2, <1>3, <1>4

\* What a spreadsheet wrote of a cell is read again as that cell.
LEMMA CellIsReadBack ==
    ASSUME NEW text, NEW F, LineScanned(text, F), NEW cell \in Seq(Chars),
           NEW p \in Nat, Holds(text, p, CellText(cell)),
           Templates!Ahead(text, p + Len(CellText(cell))) # Templates!Quote,
           NEW r, F[p] = BetweenCells(r, <<>>)
    PROVE  F[p + Len(CellText(cell))] = BetweenCells(r, cell)
<1> DEFINE Q == Templates!Quote
           n == Len(cell)
           w == CellText(cell)
           q == p + 1
           Part(i) == SubSeq(cell, 1, i)
<1>1. PICK E : SpelledOut(cell, E) /\ w = <<Q>> \o E[n] \o <<Q>>
  BY CellsAreWritten
<1>2. /\ n \in Nat /\ \A i \in 1..n : cell[i] \in Chars
      /\ E \in [0..n -> Seq(Chars)] /\ E[0] = <<>>
      /\ \A i \in 1..n : E[i] = E[i - 1] \o Escaped(cell[i])
  <2>1. n \in Nat /\ \A i \in 1..n : cell[i] \in Chars
    OBVIOUS
  <2>2. QED
    BY <1>1, <2>1 DEF SpelledOut
<1> DEFINE m == Len(E[n])
           body == E[n]
<1>3. /\ Q \in Chars /\ <<Q>> \in Seq(Chars) /\ Len(<<Q>>) = 1
      /\ body \in Seq(Chars) /\ m \in Nat
  <2>1. Q \in Chars
    BY CharactersDiffer
  <2>2. n \in 0..n
    BY <1>2
  <2>3. QED
    BY <1>2, <2>1, <2>2
<1>4. /\ Holds(text, p, <<Q>>) /\ Holds(text, q, body) /\ q + m \in Nat /\ q \in Nat
      /\ Holds(text, q + m, <<Q>>) /\ Len(w) = m + 2
  <2> DEFINE u == <<Q>> \o body
  <2> HIDE DEF body, m
  <2>1. w = u \o <<Q>> /\ u \in Seq(Chars) /\ Len(u) = m + 1
    BY <1>1, <1>3 DEF body, m
  <2>2. Holds(text, p, u \o <<Q>>)
    BY <2>1
  <2> HIDE DEF u, w
  <2>3. Holds(text, p, u) /\ Holds(text, p + Len(u), <<Q>>)
    BY <1>3, <2>1, <2>2, HoldsParts
  <2>4. Holds(text, p, <<Q>> \o body)
    BY <2>3 DEF u
  <2>5. Holds(text, p, <<Q>>) /\ Holds(text, p + Len(<<Q>>), body)
    BY <1>3, <2>4, HoldsParts
  <2>6. Len(w) = m + 2
    BY <1>3, <2>1
  <2>7. p + Len(u) = q + m /\ q + m \in Nat /\ p + Len(<<Q>>) = q
    BY <1>3, <2>1
  <2>8. QED
    BY <1>3, <2>3, <2>5, <2>6, <2>7
<1>5. \A k \in 1..Len(text) : F[k] = Templates!ScanCell(text, F[k - 1], k)
  BY DEF LineScanned
<1>6. /\ text[q] = Q /\ q \in 1..Len(text) /\ q - 1 = p
      /\ text[q + m + 1] = Q /\ q + m + 1 \in 1..Len(text) /\ (q + m + 1) - 1 = q + m
      /\ q + m + 1 = p + Len(w)
  <2>1. text[p + 1] = Q /\ p + 1 \in 1..Len(text) /\ (p + 1) - 1 = p
    BY <1>4, HoldsCharacter
  <2> DEFINE z == q + m
  <2>2. z \in Nat /\ Holds(text, z, <<Q>>) /\ z + 1 = p + Len(w)
    <3>1. z \in Nat /\ Holds(text, z, <<Q>>)
      BY <1>4
    <3>2. z + 1 = p + Len(w)
      <4> HIDE DEF m, w
      <4>1. m \in Nat /\ Len(w) = m + 2
        BY <1>3, <1>4
      <4>2. QED
        BY <4>1
    <3>3. QED
      BY <3>1, <3>2
  <2> HIDE DEF z
  <2>3. text[z + 1] = Q /\ z + 1 \in 1..Len(text) /\ (z + 1) - 1 = z
    BY <2>2, HoldsCharacter
  <2>4. QED
    BY <2>1, <2>2, <2>3 DEF z
<1>7. F[q] = WithinCell(r, Part(0))
  <2>1. F[q] = Templates!ScanCell(text, BetweenCells(r, <<>>), q)
    BY <1>5, <1>6
  <2>2. F[q] = WithinCell(r, <<>>)
    BY <1>6, <2>1, CellIsOpened
  <2>3. Part(0) = <<>>
    BY FirstCharacters
  <2>4. QED
    BY <2>2, <2>3
<1>8. Part(n) = cell /\ \A i \in 0..(n - 1) : Part(i + 1) = Append(Part(i), cell[i + 1])
  BY FirstCharacters
<1> HIDE DEF w, body, m, q, n, Part
<1> DEFINE Read(i) == F[q + Len(E[i])] = WithinCell(r, Part(i))
           G == {i \in Nat : i <= n => Read(i)}
<1>9. 0 \in G
  <2>1. Len(E[0]) = 0
    BY <1>2
  <2>2. q + 0 = q
    BY <1>4
  <2>3. Read(0)
    BY <1>7, <2>1, <2>2
  <2> HIDE DEF Read
  <2>4. QED
    BY <2>3
<1>10. ASSUME NEW i \in Nat, i \in G PROVE i + 1 \in G
  <2>1. SUFFICES ASSUME i + 1 <= n PROVE Read(i + 1)
    <3> HIDE DEF Read
    <3>1. QED
      OBVIOUS
  <2> DEFINE char == cell[i + 1]
             at == q + Len(E[i])
             esc == Escaped(char)
  <2>2. i + 1 \in 1..n /\ i \in 0..n /\ (i + 1) - 1 = i /\ i <= n /\ i \in 0..(n - 1)
    BY <1>2, <2>1
  <2>3. Read(i)
    BY <1>10, <2>2
  <2>4. char \in Chars /\ E[i] \in Seq(Chars) /\ E[i + 1] = E[i] \o esc
    BY <1>2, <2>2
  <2>5. at \in Nat /\ Holds(text, at, esc)
    <3>1. Holds(text, q, E[Len(cell)])
      BY <1>4 DEF body, n
    <3>2. \A j \in 1..Len(cell) : /\ Holds(text, q + Len(E[j - 1]), Escaped(cell[j]))
                                  /\ q + Len(E[j - 1]) \in Nat
      BY <1>1, <1>4, <3>1, PartsAreHeld
    <3>3. i + 1 \in 1..Len(cell)
      BY <2>2 DEF n
    <3>4. QED
      BY <2>2, <3>2, <3>3
  <2>6. esc \in Seq(Chars)
    <3>1. <<char>> \in Seq(Chars) /\ <<Q, Q>> \in Seq(Chars)
      BY <1>3, <2>4
    <3>2. QED
      BY <3>1 DEF Escaped
  <2>7. at + Len(esc) = q + Len(E[i + 1])
    <3> HIDE DEF esc
    <3>1. Len(E[i + 1]) = Len(E[i]) + Len(esc) /\ Len(E[i]) \in Nat /\ Len(esc) \in Nat
      BY <2>4, <2>6
    <3>2. QED
      BY <1>4, <3>1
  <2>8. Part(i + 1) = Append(Part(i), char)
    BY <1>8, <2>2
  <2>9. F[at] = WithinCell(r, Part(i))
    BY <2>3
  <2> HIDE DEF at, char
  <2>10. F[at + Len(Escaped(char))] = WithinCell(r, Append(Part(i), char))
    BY <2>4, <2>5, <2>9, CharacterIsRead
  <2>11. QED
    BY <2>7, <2>8, <2>10
<1>11. Nat \subseteq G
  <2> HIDE DEF G
  <2>1. QED
    BY <1>9, <1>10, NaturalInduction
<1>12. F[q + m] = WithinCell(r, cell)
  <2>1. n \in Nat /\ n <= n
    BY <1>2
  <2>2. Read(n)
    BY <1>11, <2>1
  <2>3. QED
    BY <1>8, <2>2 DEF m, body
<1>13. F[q + m + 1] = BetweenCells(r, cell)
  <2>1. F[q + m + 1] = Templates!ScanCell(text, WithinCell(r, cell), q + m + 1)
    BY <1>5, <1>6, <1>12
  <2>2. Templates!Ahead(text, q + m + 1) # Q
    BY <1>6 DEF w
  <2>3. QED
    BY <1>6, <2>1, <2>2, CellIsClosed
<1> QED
  BY <1>6, <1>13 DEF w

\* A sequence and one more.
LEMMA OneMoreHas ==
    ASSUME NEW S, NEW s \in Seq(S), NEW y \in S
    PROVE  /\ Append(s, y) \in Seq(S) /\ Len(Append(s, y)) = Len(s) + 1
           /\ \A i \in 1..Len(s) : Append(s, y)[i] = s[i]
           /\ Append(s, y)[Len(s) + 1] = y
BY AppendProperties

\* A sequence of one and one more is a sequence of two.
LEMMA OneMore ==
    ASSUME NEW S, NEW s \in Seq(S), NEW y \in S, NEW t \in Seq(S)
    PROVE  Len(s) = 1 /\ Len(t) = 2 /\ t[1] = s[1] /\ t[2] = y => Append(s, y) = t
<1> DEFINE u == Append(s, y)
<1>1. /\ u \in Seq(S) /\ Len(u) = Len(s) + 1
      /\ \A i \in 1..Len(s) : u[i] = s[i]
      /\ u[Len(s) + 1] = y
  BY OneMoreHas
<1> HIDE DEF u
<1> SUFFICES ASSUME Len(s) = 1, Len(t) = 2, t[1] = s[1], t[2] = y
             PROVE  u = t
  BY DEF u
<1>2. u \in Seq(S) /\ Len(u) = 2 /\ u[1] = s[1] /\ u[2] = y
  BY <1>1
<1>3. \A i \in 1..2 : u[i] = t[i]
  BY <1>2
<1>4. u = t
  BY <1>2, <1>3, SeqEqual
<1> QED
  BY <1>4

\* Sequences that are appended to, written out.
LEMMA OneAndTwo ==
    ASSUME NEW x, NEW y
    PROVE  Append(<<>>, x) = <<x>> /\ Append(<<x>>, y) = <<x, y>>
<1> DEFINE S == {x, y}
           s == <<x>>
           t == <<x, y>>
<1>1. x \in S /\ y \in S
  OBVIOUS
<1>2. s \in Seq(S) /\ Len(s) = 1 /\ s[1] = x
  OBVIOUS
<1>3. t \in Seq(S) /\ Len(t) = 2 /\ t[1] = x /\ t[2] = y
  OBVIOUS
<1>4. Append(<<>>, x) = s
  OBVIOUS
<1> HIDE DEF S, s, t
<1>5. Append(s, y) = t
  BY <1>1, <1>2, <1>3, OneMore, Zenon
<1> QED
  BY <1>4, <1>5 DEF s, t

\* A record of two cells is read as these two.
LEMMA RowIsReadBack ==
    ASSUME NEW one \in Seq(Chars), NEW two \in Seq(Chars)
    PROVE  Templates!splitLine(RowLine(one, two)) = <<one, two>>
<1> DEFINE a == CellText(one)
           z == CellText(two)
           comma == <<Templates!Comma>>
           rest == comma \o z
           text == RowLine(one, two)
<1>1. a \in Seq(Chars) /\ z \in Seq(Chars)
  BY CellTextIsText
<1>2. comma \in Seq(Chars) /\ Len(comma) = 1
  BY CharactersDiffer
<1>3. text = a \o rest
  BY DEF RowLine
<1> HIDE DEF a, z, comma, text
<1>4. rest \in Seq(Chars) /\ Len(rest) = 1 + Len(z) /\ Len(z) \in Nat
  BY <1>1, <1>2, JoinedTexts, Zenon
<1> DEFINE v == rest
<1>5. v \in Seq(Chars) /\ Len(v) = 1 + Len(z) /\ Len(z) \in Nat /\ text = a \o v
  BY <1>3, <1>4
<1> HIDE DEF v
<1>6. text \in Seq(Chars) /\ Len(text) = Len(a) + Len(v) /\ Len(a) \in Nat
  BY <1>1, <1>5, JoinedTexts
<1>7. Len(text) \in Nat
  BY <1>5, <1>6
<1>8. PICK F : /\ LineScanned(text, F)
               /\ Templates!splitLine(text) = Append(F[Len(text)].cells, F[Len(text)].current)
  BY <1>7, LineIsScanned
<1>9. Holds(text, 0, text)
  BY <1>7 DEF Holds
<1> DEFINE A == 0 + Len(a)
           B == A + 1
           C == B + Len(z)
<1>10. Holds(text, 0, a) /\ A \in Nat /\ Holds(text, A, v)
  <2>1. Holds(text, 0, a \o v) /\ 0 \in Nat
    BY <1>5, <1>9
  <2>2. QED
    BY <1>1, <1>5, <2>1, HoldsParts
<1>11. C = Len(text) /\ B \in Nat /\ C \in Nat
  BY <1>5, <1>6
<1> HIDE DEF A
<1>12. Holds(text, A, comma) /\ Holds(text, B, z)
  <2>1. Holds(text, A, comma \o z)
    BY <1>10 DEF v
  <2>2. Holds(text, A, comma) /\ Holds(text, A + Len(comma), z)
    BY <1>1, <1>2, <1>10, <2>1, HoldsParts
  <2>3. QED
    BY <1>2, <2>2
<1>13. text[A + 1] = Templates!Comma /\ A + 1 \in 1..Len(text) /\ (A + 1) - 1 = A
  BY <1>10, <1>12, HoldsCharacter DEF comma
<1>14. \A k \in 1..Len(text) : F[k] = Templates!ScanCell(text, F[k - 1], k)
  BY <1>8 DEF LineScanned
<1> DEFINE start == 0
           none == <<>>
<1>15. F[A] = BetweenCells(<<>>, one)
  <2>1. Templates!Ahead(text, A) # Templates!Quote
    BY <1>13, CharactersDiffer DEF Templates!Ahead
  <2>2. /\ Holds(text, start, CellText(one)) /\ start \in Nat /\ LineScanned(text, F)
        /\ Templates!Ahead(text, start + Len(CellText(one))) # Templates!Quote
        /\ F[start] = BetweenCells(none, <<>>)
    BY <1>8, <1>10, <2>1 DEF a, A, LineScanned, FirstCell
  <2> HIDE DEF start, none
  <2>3. F[start + Len(CellText(one))] = BetweenCells(none, one)
    BY <2>2, CellIsReadBack
  <2>4. QED
    BY <2>3 DEF start, none, A, a
<1>16. F[B] = BetweenCells(<<one>>, <<>>)
  <2>1. F[A + 1] = Templates!ScanCell(text, BetweenCells(none, one), A + 1)
    BY <1>13, <1>14, <1>15
  <2> HIDE DEF none
  <2>2. F[B] = BetweenCells(Append(none, one), <<>>)
    BY <1>13, <2>1, CommaEndsTheCell
  <2>3. Append(none, one) = <<one>>
    BY OneAndTwo DEF none
  <2>4. QED
    BY <2>2, <2>3
<1> DEFINE first == <<one>>
<1>17. F[C] = BetweenCells(<<one>>, two)
  <2>1. Templates!Ahead(text, C) # Templates!Quote
    BY <1>11, CharactersDiffer DEF Templates!Ahead
  <2>2. /\ Holds(text, B, CellText(two)) /\ B \in Nat /\ LineScanned(text, F)
        /\ Templates!Ahead(text, B + Len(CellText(two))) # Templates!Quote
        /\ F[B] = BetweenCells(first, <<>>)
    BY <1>8, <1>11, <1>12, <1>16, <2>1 DEF z
  <2> HIDE DEF B, first
  <2>3. F[B + Len(CellText(two))] = BetweenCells(first, two)
    BY <2>2, CellIsReadBack
  <2>4. QED
    BY <2>3 DEF first, z
<1>18. F[Len(text)].cells = <<one>> /\ F[Len(text)].current = two
  BY <1>11, <1>17 DEF BetweenCells
<1>19. Templates!splitLine(text) = Append(<<one>>, two)
  BY <1>8, <1>18
<1>20. Append(<<one>>, two) = <<one, two>>
  BY OneAndTwo
<1> QED
  BY <1>19, <1>20 DEF text

\* Some indices have a greatest one.
LEMMA GreatestIndex ==
    ASSUME NEW n \in Nat, NEW T, T \subseteq 1..n, T # {}
    PROVE  \E x \in T : \A y \in T : x >= y
<1> DEFINE U == {k \in Nat : k <= n /\ n - k \in T}
<1>1. PICK t \in T : t \in 1..n
  OBVIOUS
<1>2. n - t \in Nat /\ n - t <= n /\ n - (n - t) = t
  BY <1>1
<1>3. n - t \in U
  BY <1>1, <1>2
<1> HIDE DEF U
<1>4. U \in SUBSET Nat /\ U # {}
  BY <1>3 DEF U
<1>5. PICK u \in U : \A v \in U : u <= v
  BY <1>4, LeastNatural
<1>6. u \in Nat /\ u <= n /\ n - u \in T
  BY <1>5 DEF U
<1>7. ASSUME NEW y \in T PROVE n - u >= y
  <2>1. y \in 1..n /\ n - y \in Nat /\ n - y <= n /\ n - (n - y) = y
    OBVIOUS
  <2>2. n - y \in U
    BY <2>1 DEF U
  <2>3. u <= n - y
    BY <1>5, <2>2
  <2>4. QED
    BY <1>6, <2>1, <2>3
<1> QED
  BY <1>6, <1>7

\* Only blanks are trimmed away.
LEMMA TrimKeepsCharacters ==
    ASSUME NEW cell \in Seq(Chars), NEW j \in 1..Len(cell),
           cell[j] # Templates!Blank, cell[j] # Templates!NewLine, cell[j] # Templates!Return
    PROVE  Templates!Trim(cell) # <<>>
<1> DEFINE solid == {k \in DOMAIN cell : cell[k] \notin {Templates!Blank, Templates!NewLine, Templates!Return}}
           least == CHOOSE k \in solid : \A i \in solid : k <= i
           most == CHOOSE k \in solid : \A i \in solid : k >= i
<1>1. Len(cell) \in Nat /\ DOMAIN cell = 1..Len(cell) /\ \A k \in 1..Len(cell) : cell[k] \in Chars
  OBVIOUS
<1>2. j \in solid /\ solid \subseteq 1..Len(cell)
  BY <1>1
<1>3. Templates!Trim(cell) = SubSeq(cell, least, most)
  BY <1>2 DEF Templates!Trim
<1> HIDE DEF solid
<1>4. least \in solid /\ \A i \in solid : least <= i
  <2>1. solid \in SUBSET Nat /\ solid # {}
    BY <1>2
  <2>2. \E k \in solid : \A i \in solid : k <= i
    BY <2>1, LeastNatural
  <2>3. QED
    BY <2>2
<1>5. most \in solid /\ \A i \in solid : most >= i
  <2>1. \E k \in solid : \A i \in solid : k >= i
    BY <1>1, <1>2, GreatestIndex
  <2>2. QED
    BY <2>1
<1> HIDE DEF least, most
<1>6. least \in 1..Len(cell) /\ most \in 1..Len(cell) /\ least <= most
  BY <1>2, <1>4, <1>5
<1>7. least \in Int /\ most \in Int /\ \A i \in least..most : cell[i] \in Chars
  <2>1. \A i \in least..most : i \in 1..Len(cell)
    BY <1>1, <1>6
  <2>2. QED
    BY <1>1, <1>6, <2>1
<1> DEFINE s == SubSeq(cell, least, most)
<1>8. Len(s) = IF least <= most THEN most - least + 1 ELSE 0
  BY <1>7, SubSeqProperties
<1> HIDE DEF s
<1>9. Len(s) # 0
  BY <1>1, <1>6, <1>8
<1>10. Len(<<>>) = 0
  OBVIOUS
<1>11. s # <<>>
  BY <1>9, <1>10, Zenon
<1> QED
  BY <1>3, <1>11 DEF s

\* A cell of one character is left as it is.
LEMMA OneCharacterIsKept ==
    ASSUME NEW char \in Chars, char # Templates!Blank, char # Templates!NewLine,
           char # Templates!Return
    PROVE  Templates!Trim(<<char>>) = <<char>>
<1> DEFINE cell == <<char>>
           solid == {k \in DOMAIN cell : cell[k] \notin {Templates!Blank, Templates!NewLine, Templates!Return}}
<1>1. cell \in Seq(Chars) /\ Len(cell) = 1 /\ DOMAIN cell = {1} /\ cell[1] = char
  OBVIOUS
<1>2. solid = {1}
  BY <1>1
<1>3. (CHOOSE k \in solid : \A i \in solid : k <= i) = 1
      /\ (CHOOSE k \in solid : \A i \in solid : k >= i) = 1
  BY <1>2
<1>4. Templates!Trim(cell) = SubSeq(cell, 1, 1)
  BY <1>2, <1>3 DEF Templates!Trim
<1> HIDE DEF cell
<1>5. SubSeq(cell, 1, Len(cell)) = cell
  BY <1>1, SubSeqFull
<1> QED
  BY <1>1, <1>4, <1>5 DEF cell

\* So is an empty one.
LEMMA NothingIsTrimmed == Templates!Trim(<<>>) = <<>>
<1>1. DOMAIN <<>> = {}
  OBVIOUS
<1> QED
  BY <1>1 DEF Templates!Trim

-----------------------------------------------------------------------------
\* The equation that keeps the records that are not blank.
Keeps(records, n, h) ==
    h = [k \in 0..n |->
            IF k = 0 THEN <<>>
            ELSE IF Templates!Trim(records[k].line) = <<>> THEN h[k - 1]
            ELSE Append(h[k - 1], records[k])]

\* Where none is blank all are kept.
LEMMA AllAreKept ==
    ASSUME NEW X, NEW records \in Seq(X),
           \A k \in 1..Len(records) : Templates!Trim(records[k].line) # <<>>
    PROVE  Templates!Solid(records) = records
<1> DEFINE n == Len(records)
           h == [k \in 0..n |-> SubSeq(records, 1, k)]
<1>1. n \in Nat /\ n \in 0..n /\ \A k \in 1..n : records[k] \in X
  OBVIOUS
<1>2. h[0] = <<>>
  <2>1. SubSeq(records, 1, 0) = <<>>
    BY SubSeqEmpty
  <2>2. QED
    BY <1>1, <2>1
<1>3. ASSUME NEW k \in 1..n PROVE h[k] = Append(h[k - 1], records[k])
  <2>1. 1 \in 1..n /\ k - 1 \in 0..n /\ k \in 0..n /\ k \in 1..Len(records) /\ 1 \in 1..Len(records)
        /\ k - 1 \in Int
    BY <1>1
  <2>2. SubSeq(records, 1, k) = SubSeq(records, 1, k - 1) \o <<records[k]>>
    BY <2>1, SubSeqRecursiveSecond
  <2>3. SubSeq(records, 1, k - 1) \in Seq(X) /\ records[k] \in X
    <3>1. \A i \in 1..(k - 1) : records[i] \in X
      BY <1>1, <2>1
    <3>2. QED
      BY <1>1, <2>1, <3>1, SubSeqProperties
  <2> DEFINE s == SubSeq(records, 1, k - 1)
             e == records[k]
  <2>4. h[k] = s \o <<e>> /\ s \in Seq(X) /\ e \in X /\ h[k - 1] = s
    BY <2>1, <2>2, <2>3
  <2> HIDE DEF s, e, h
  <2>5. h[k] = Append(s, e)
    BY <2>4, AppendIsConcat
  <2>6. QED
    BY <2>4, <2>5 DEF e
<1>4. ASSUME NEW f, Keeps(records, n, f) PROVE \A k \in 0..n : f[k] = h[k]
  <2> DEFINE G == {k \in Nat : k <= n => f[k] = h[k]}
  <2>1. f[0] = <<>> /\ \A k \in 1..n : f[k] = Append(f[k - 1], records[k])
    <3>1. f[0] = <<>>
      BY <1>1, <1>4 DEF Keeps
    <3>2. ASSUME NEW k \in 1..n PROVE f[k] = Append(f[k - 1], records[k])
      <4>1. k \in 0..n /\ k # 0 /\ Templates!Trim(records[k].line) # <<>>
        OBVIOUS
      <4>2. QED
        BY <1>4, <4>1 DEF Keeps
    <3>3. QED
      BY <3>1, <3>2
  <2> HIDE DEF h
  <2>2. 0 \in G
    BY <1>2, <2>1
  <2>3. ASSUME NEW k \in Nat, k \in G PROVE k + 1 \in G
    <3>1. CASE k + 1 <= n
      <4>1. k + 1 \in 1..n /\ (k + 1) - 1 = k /\ k <= n
        BY <1>1, <3>1
      <4>2. f[k] = h[k]
        BY <2>3, <4>1
      <4>3. f[k + 1] = Append(f[k], records[k + 1]) /\ h[k + 1] = Append(h[k], records[k + 1])
        BY <1>3, <2>1, <4>1
      <4>4. f[k + 1] = h[k + 1]
        BY <4>2, <4>3, Zenon
      <4>5. QED
        BY <4>4
    <3>2. CASE ~(k + 1 <= n)
      BY <3>2
    <3>3. QED
      BY <3>1, <3>2
  <2>4. Nat \subseteq G
    <3> HIDE DEF G
    <3>1. QED
      BY <2>2, <2>3, NaturalInduction
  <2>5. QED
    BY <2>4
<1>5. Keeps(records, n, h)
  <2>1. ASSUME NEW k \in 0..n
        PROVE  h[k] = IF k = 0 THEN <<>>
                      ELSE IF Templates!Trim(records[k].line) = <<>> THEN h[k - 1]
                      ELSE Append(h[k - 1], records[k])
    <3>1. CASE k = 0
      BY <1>2, <3>1
    <3>2. CASE k # 0
      <4>1. k \in 1..n
        BY <1>1, <3>2
      <4> HIDE DEF h
      <4>2. QED
        BY <1>3, <3>2, <4>1
    <3>3. QED
      BY <3>1, <3>2
  <2>2. DOMAIN h = 0..n /\ h = [k \in 0..n |-> h[k]]
    OBVIOUS
  <2> HIDE DEF h
  <2>3. h = [k \in 0..n |->
               IF k = 0 THEN <<>>
               ELSE IF Templates!Trim(records[k].line) = <<>> THEN h[k - 1]
               ELSE Append(h[k - 1], records[k])]
    BY <2>1, <2>2
  <2>4. QED
    BY <2>3, Zenon DEF Keeps
<1> DEFINE kept == CHOOSE f : Keeps(records, n, f)
<1>6. Keeps(records, n, kept)
  <2> HIDE DEF h, n
  <2>1. QED
    BY <1>5
<1>7. Templates!Solid(records) = kept[n]
  BY DEF Templates!Solid, Keeps
<1>8. h[n] = records
  BY <1>1, SubSeqFull
<1> HIDE DEF kept, h
<1> QED
  BY <1>1, <1>4, <1>6, <1>7, <1>8

\* A record of two cells begins with a quote.
LEMMA LineBegins ==
    ASSUME NEW one \in Seq(Chars), NEW two \in Seq(Chars)
    PROVE  LET line == RowLine(one, two)
           IN  line \in Seq(Chars) /\ 1 \in 1..Len(line) /\ line[1] = Templates!Quote
<1> DEFINE quote == <<Templates!Quote>>
           z == <<Templates!Comma>> \o CellText(two)
           line == RowLine(one, two)
<1>1. PICK E : /\ SpelledOut(one, E)
               /\ CellText(one) = <<Templates!Quote>> \o E[Len(one)] \o <<Templates!Quote>>
  BY CellsAreWritten
<1> DEFINE e == E[Len(one)]
<1>2. e \in Seq(Chars)
  <2>1. Len(one) \in 0..Len(one)
    OBVIOUS
  <2>2. QED
    BY <1>1, <2>1 DEF SpelledOut
<1>3. quote \in Seq(Chars) /\ z \in Seq(Chars) /\ Len(quote) = 1 /\ quote[1] = Templates!Quote
  <2> DEFINE comma == <<Templates!Comma>>
             t == CellText(two)
  <2>1. quote \in Seq(Chars) /\ Len(quote) = 1 /\ quote[1] = Templates!Quote /\ comma \in Seq(Chars)
    BY CharactersDiffer
  <2>2. t \in Seq(Chars)
    BY CellTextIsText
  <2> HIDE DEF comma, t
  <2>3. comma \o t \in Seq(Chars)
    BY <2>1, <2>2, JoinedTexts
  <2>4. QED
    BY <2>1, <2>3 DEF comma, t
<1>4. line = ((quote \o e) \o quote) \o z
  BY <1>1 DEF RowLine
<1> HIDE DEF quote, e, z
<1> DEFINE rest == e \o (quote \o z)
<1>5. line = quote \o rest /\ rest \in Seq(Chars)
  <2> DEFINE qz == quote \o z
             qe == quote \o e
  <2>1. qz \in Seq(Chars) /\ qe \in Seq(Chars) /\ rest \in Seq(Chars)
    <3>1. qz \in Seq(Chars) /\ qe \in Seq(Chars)
      BY <1>2, <1>3, JoinedTexts
    <3> HIDE DEF qz
    <3>2. e \o qz \in Seq(Chars)
      BY <1>2, <3>1, JoinedTexts
    <3>3. QED
      BY <3>1, <3>2 DEF qz
  <2>2. (qe \o quote) \o z = qe \o (quote \o z)
    <3> HIDE DEF qe
    <3>1. QED
      BY <1>3, <2>1, ThreeTexts, SMTT(30)
  <2>3. (quote \o e) \o qz = quote \o (e \o qz)
    <3> HIDE DEF qz
    <3>1. quote \in Seq(Chars) /\ e \in Seq(Chars) /\ qz \in Seq(Chars)
      BY <1>2, <1>3, <2>1
    <3>2. QED
      BY <3>1, ThreeTexts, ZenonT(30)
  <2>4. line = quote \o rest
    BY <1>4, <2>2, <2>3, Zenon
  <2>5. QED
    BY <2>1, <2>4
<1> HIDE DEF rest, line
<1>6. line \in Seq(Chars) /\ Len(line) = 1 + Len(rest) /\ Len(rest) \in Nat
  <2>1. /\ quote \o rest \in Seq(Chars) /\ Len(quote \o rest) = Len(quote) + Len(rest)
        /\ Len(rest) \in Nat
    BY <1>3, <1>5, JoinedTexts
  <2>2. QED
    BY <1>3, <1>5, <2>1, Zenon
<1>7. line[1] = Templates!Quote
  <2>1. \A i \in 1..(Len(quote) + Len(rest)) :
           (quote \o rest)[i] = IF i <= Len(quote) THEN quote[i] ELSE rest[i - Len(quote)]
    BY <1>3, <1>5, ConcatProperties
  <2>2. 1 \in 1..(Len(quote) + Len(rest)) /\ 1 <= Len(quote)
    BY <1>3, <1>6
  <2>3. (quote \o rest)[1] = quote[1]
    BY <2>1, <2>2
  <2>4. QED
    BY <1>3, <1>5, <2>3
<1>8. 1 \in 1..Len(line)
  BY <1>6
<1> QED
  BY <1>6, <1>7, <1>8 DEF line

\* So does a row.
LEMMA RowBegins ==
    ASSUME NEW row \in Seq(Seq(Chars)), Len(row) = 2, NEW ending \in LineEnds
    PROVE  /\ RowText(row, ending) \in Seq(Chars) /\ RowText(row, ending) # <<>>
           /\ RowText(row, ending)[1] = Templates!Quote
<1> DEFINE line == RowLine(row[1], row[2])
           w == line \o ending
<1>1. row[1] \in Seq(Chars) /\ row[2] \in Seq(Chars) /\ RowText(row, ending) = w
  BY RowTextIs
<1>2. line \in Seq(Chars) /\ 1 \in 1..Len(line) /\ line[1] = Templates!Quote
  BY <1>1, LineBegins
<1>3. ending \in Seq(Chars) /\ ending # <<>> /\ Len(ending) \in 1..2
  BY LineEndIsText
<1> HIDE DEF line
<1>4. w \in Seq(Chars) /\ Len(w) = Len(line) + Len(ending) /\ Len(line) \in Nat
      /\ (Len(ending) # 0 => w # <<>>)
  BY <1>2, <1>3, JoinedTexts
<1>5. \A i \in 1..(Len(line) + Len(ending)) :
         w[i] = IF i <= Len(line) THEN line[i] ELSE ending[i - Len(line)]
  BY <1>2, <1>3, ConcatProperties
<1> HIDE DEF w
<1>6. w[1] = line[1]
  BY <1>2, <1>3, <1>4, <1>5
<1>7. Len(ending) # 0
  BY <1>3
<1> QED
  BY <1>1, <1>2, <1>4, <1>6, <1>7

\* Three rows are read as three records.
LEMMA RowsAreScanned ==
    ASSUME NEW a \in Seq(Seq(Chars)), Len(a) = 2, NEW b \in Seq(Seq(Chars)), Len(b) = 2,
           NEW c \in Seq(Seq(Chars)), Len(c) = 2, NEW ending \in LineEnds
    PROVE  Templates!splitRecords(RowText(a, ending) \o RowText(b, ending) \o RowText(c, ending))
               = Append(Append(Append(<<>>, RecordOf(a, 1)), RecordOf(b, LineAfter(a, 1))),
                        RecordOf(c, LineAfter(b, LineAfter(a, 1))))
<1> DEFINE u == RowText(a, ending)
           v == RowText(b, ending)
           w == RowText(c, ending)
           uv == u \o v
           text == uv \o w
           none == <<>>
           ra == Append(none, RecordOf(a, 1))
           rb == Append(ra, RecordOf(b, LineAfter(a, 1)))
           rc == Append(rb, RecordOf(c, LineAfter(b, LineAfter(a, 1))))
           la == LineAfter(a, 1)
           lb == LineAfter(b, la)
           lc == LineAfter(c, lb)
           one == 1
           start == 0
<1>1. /\ u \in Seq(Chars) /\ v \in Seq(Chars) /\ w \in Seq(Chars)
      /\ v # <<>> /\ v[1] = Templates!Quote /\ w # <<>> /\ w[1] = Templates!Quote
  <2>1. u \in Seq(Chars)
    BY RowBegins
  <2>2. v \in Seq(Chars) /\ v # <<>> /\ v[1] = Templates!Quote
    BY RowBegins
  <2>3. w \in Seq(Chars) /\ w # <<>> /\ w[1] = Templates!Quote
    BY RowBegins
  <2>4. QED
    BY <2>1, <2>2, <2>3
<1> HIDE DEF u, v, w
<1>2. uv \in Seq(Chars) /\ Len(uv) = Len(u) + Len(v) /\ Len(u) \in Nat /\ Len(v) \in Nat
  BY <1>1, JoinedTexts
<1> HIDE DEF uv
<1>3. text \in Seq(Chars) /\ Len(text) = Len(uv) + Len(w) /\ Len(w) \in Nat /\ Len(text) \in Nat
  BY <1>1, <1>2, JoinedTexts
<1>4. Holds(text, start, uv \o w)
  BY <1>3 DEF Holds
<1>5. start \in Nat /\ one \in Int
  OBVIOUS
<1> HIDE DEF text, start, one
<1>6. Holds(text, start, uv) /\ Holds(text, start + Len(uv), w)
  BY <1>1, <1>2, <1>4, <1>5, HoldsParts
<1>20. text[start + Len(uv) + 1] = Templates!Quote
  <2>1. uv \in Seq(Chars) /\ w \in Seq(Chars) /\ start \in Nat /\ Holds(text, start, uv \o w)
    BY <1>1, <1>2, <1>4, <1>5
  <2>2. w # <<>> => text[start + Len(uv) + 1] = w[1] /\ start + Len(uv) + 1 <= Len(text)
    BY <2>1, HoldsParts
  <2>3. QED
    BY <1>1, <2>2
<1>7. Holds(text, start, u \o v)
  BY <1>6 DEF uv
<1>8. Holds(text, start, u) /\ Holds(text, start + Len(u), v)
  BY <1>1, <1>5, <1>7, HoldsParts
<1>21. text[start + Len(u) + 1] = Templates!Quote
  BY <1>1, <1>5, <1>7, HoldsParts
<1>9. PICK F : /\ F[0] = StartOfText
               /\ \A k \in 1..Len(text) : F[k] = Templates!ScanRecord(text, F[k - 1], k)
               /\ Templates!splitRecords(text)
                     = LET end == F[Len(text)]
                       IN  IF end.current = <<>> THEN end.records
                           ELSE Append(end.records, Templates!Record(end))
  BY <1>3, TextIsScanned
<1>10. Scanned(text, F)
  BY <1>3, <1>9 DEF Scanned
<1>11. F[start] = Outside(none, <<>>, one, one)
  BY <1>9 DEF start, one, StartOfText
<1> DEFINE p == start + Len(u)
           q == p + Len(v)
<1> HIDE DEF none
<1>12. F[p] = Outside(ra, <<>>, la, la) /\ p \in Nat /\ la \in Int
  <2>1. Holds(text, start, RowText(a, ending))
    BY <1>8 DEF u
  <2>4. Templates!Ahead(text, start + Len(RowText(a, ending))) # Templates!NewLine
    BY <1>21, CharactersDiffer DEF u, Templates!Ahead
  <2>2. /\ F[start + Len(RowText(a, ending))]
              = Outside(Append(none, RecordOf(a, one)), <<>>, LineAfter(a, one), LineAfter(a, one))
        /\ start + Len(RowText(a, ending)) \in Nat /\ LineAfter(a, one) \in Int
    BY <1>5, <1>10, <1>11, <2>1, <2>4, RowIsScanned
  <2>3. QED
    BY <2>2 DEF u, one
<1> HIDE DEF ra, la
<1>13. Holds(text, p, RowText(b, ending))
  BY <1>8 DEF v
<1>22. p + Len(v) = start + Len(uv)
  BY <1>2 DEF start
<1> HIDE DEF p
<1>14. F[q] = Outside(rb, <<>>, lb, lb) /\ q \in Nat /\ lb \in Int
  <2>3. Templates!Ahead(text, p + Len(RowText(b, ending))) # Templates!NewLine
    BY <1>20, <1>22, CharactersDiffer DEF v, Templates!Ahead
  <2>1. /\ F[p + Len(RowText(b, ending))]
              = Outside(Append(ra, RecordOf(b, la)), <<>>, LineAfter(b, la), LineAfter(b, la))
        /\ p + Len(RowText(b, ending)) \in Nat /\ LineAfter(b, la) \in Int
    BY <1>10, <1>12, <1>13, <2>3, RowIsScanned
  <2>2. QED
    BY <2>1 DEF v, la
<1>15. Holds(text, q, RowText(c, ending)) /\ q + Len(w) = Len(text)
  <2>1. start + Len(uv) = q
    BY <1>2 DEF p, start
  <2>2. Holds(text, q, w)
    BY <1>6, <2>1
  <2>3. start + Len(uv) = Len(uv)
    BY <1>2 DEF start
  <2>4. QED
    BY <1>3, <2>1, <2>2, <2>3 DEF w
<1> HIDE DEF rb, lb, q
<1>16. F[q + Len(RowText(c, ending))] = Outside(Append(rb, RecordOf(c, lb)), <<>>, lc, lc)
  <2>1. Templates!Ahead(text, q + Len(RowText(c, ending))) # Templates!NewLine
    <3>1. ~(Len(text) < Len(text)) /\ q + Len(RowText(c, ending)) = Len(text)
      BY <1>3, <1>15 DEF w
    <3>2. QED
      BY <3>1, CharactersDiffer DEF Templates!Ahead
  <2>2. QED
    BY <1>10, <1>14, <1>15, <2>1, RowIsScanned
<1>17. F[Len(text)] = Outside(rc, <<>>, lc, lc)
  BY <1>15, <1>16 DEF w, lb, la
<1>18. F[Len(text)].current = <<>> /\ F[Len(text)].records = rc
  BY <1>17 DEF Outside
<1>19. Templates!splitRecords(text) = rc
  BY <1>9, <1>18
<1> QED
  BY <1>19 DEF text, uv, u, v, w, rb, ra, none

\* A sequence of three, appended one by one.
LEMMA ThreeHave ==
    ASSUME NEW S, NEW x \in S, NEW y \in S, NEW z \in S
    PROVE  LET three == Append(Append(Append(<<>>, x), y), z)
           IN  /\ three \in Seq(S) /\ Len(three) = 3
               /\ three[1] = x /\ three[2] = y /\ three[3] = z
<1> DEFINE s0 == <<>>
           s1 == Append(s0, x)
           s2 == Append(s1, y)
           s3 == Append(s2, z)
<1>1. s0 \in Seq(S) /\ Len(s0) = 0
  OBVIOUS
<1> HIDE DEF s0
<1>2. s1 \in Seq(S) /\ Len(s1) = Len(s0) + 1 /\ s1[Len(s0) + 1] = x
  BY <1>1, OneMoreHas, Zenon
<1> HIDE DEF s1
<1>3. /\ s2 \in Seq(S) /\ Len(s2) = Len(s1) + 1 /\ s2[Len(s1) + 1] = y
      /\ \A i \in 1..Len(s1) : s2[i] = s1[i]
  <2>1. s1 \in Seq(S)
    BY <1>2
  <2>2. QED
    BY <2>1, OneMoreHas
<1> HIDE DEF s2
<1>4. /\ s3 \in Seq(S) /\ Len(s3) = Len(s2) + 1 /\ s3[Len(s2) + 1] = z
      /\ \A i \in 1..Len(s2) : s3[i] = s2[i]
  <2>1. s2 \in Seq(S)
    BY <1>3
  <2>2. QED
    BY <2>1, OneMoreHas
<1> HIDE DEF s3
<1>5. Len(s1) = 1 /\ Len(s2) = 2 /\ Len(s3) = 3
  BY <1>1, <1>2, <1>3, <1>4
<1>6. s1[1] = x
  BY <1>1, <1>2
<1>7. s2[2] = y /\ s2[1] = s1[1]
  BY <1>3, <1>5
<1>8. s3[3] = z /\ s3[2] = s2[2] /\ s3[1] = s2[1]
  BY <1>4, <1>5
<1>9. s3 \in Seq(S) /\ Len(s3) = 3 /\ s3[1] = x /\ s3[2] = y /\ s3[3] = z
  BY <1>4, <1>5, <1>6, <1>7, <1>8
<1> QED
  BY <1>9, Zenon DEF s3, s2, s1, s0

\* A record of two cells is not blank.
LEMMA RowIsSolid ==
    ASSUME NEW one \in Seq(Chars), NEW two \in Seq(Chars)
    PROVE  Templates!Trim(RowLine(one, two)) # <<>>
<1> DEFINE line == RowLine(one, two)
<1>1. line \in Seq(Chars) /\ 1 \in 1..Len(line) /\ line[1] = Templates!Quote
  BY LineBegins
<1> HIDE DEF line
<1>2. Templates!Trim(line) # <<>>
  BY <1>1, CharactersDiffer, TrimKeepsCharacters
<1> QED
  BY <1>2 DEF line

\* A file of a header and two rows of two cells.
FileHeader == <<<<"n">>, <<"a">>>>
FileEnd == <<<<"n">>, <<>>>>
FileText(row, ending) ==
    RowText(FileHeader, ending) \o RowText(row, ending) \o RowText(FileEnd, ending)

\* A sequence of two.
LEMMA PairOf ==
    ASSUME NEW X, NEW x \in X, NEW y \in X
    PROVE  /\ <<x, y>> \in Seq(X) /\ Len(<<x, y>>) = 2 /\ DOMAIN <<x, y>> = 1..2
           /\ <<x, y>>[1] = x /\ <<x, y>>[2] = y
OBVIOUS

\* The rows around the one of the sample.
LEMMA FileRows ==
    /\ FileHeader \in Seq(Seq(Chars)) /\ Len(FileHeader) = 2
    /\ FileHeader[1] = <<"n">> /\ FileHeader[2] = <<"a">>
    /\ FileEnd \in Seq(Seq(Chars)) /\ Len(FileEnd) = 2
    /\ FileEnd[1] = <<"n">> /\ FileEnd[2] = <<>>
    /\ <<"n">> \in Seq(Chars) /\ <<"a">> \in Seq(Chars) /\ <<>> \in Seq(Chars)
<1> DEFINE X == Seq(Chars)
           n == <<"n">>
           a == <<"a">>
           none == <<>>
<1>1. n \in X /\ a \in X /\ none \in X
  BY CharactersDiffer
<1> HIDE DEF X, n, a, none
<1>2. /\ <<n, a>> \in Seq(X) /\ Len(<<n, a>>) = 2 /\ <<n, a>>[1] = n /\ <<n, a>>[2] = a
  BY <1>1, PairOf
<1>3. /\ <<n, none>> \in Seq(X) /\ Len(<<n, none>>) = 2
      /\ <<n, none>>[1] = n /\ <<n, none>>[2] = none
  BY <1>1, PairOf
<1> QED
  BY <1>1, <1>2, <1>3, Zenon DEF FileHeader, FileEnd, X, n, a, none

\* Its records: none is blank, each is read as its cells, and it has its line.
LEMMA FileRecords ==
    ASSUME NEW row \in Seq(Seq(Chars)), Len(row) = 2, NEW ending \in LineEnds
    PROVE  \E records :
              /\ Templates!Solid(Templates!splitRecords(FileText(row, ending))) = records
              /\ records # <<>> /\ Len(records) = 3
              /\ Templates!splitLine(records[1].line) = <<<<"n">>, <<"a">>>>
              /\ Templates!splitLine(records[2].line) = <<row[1], row[2]>>
              /\ Templates!splitLine(records[3].line) = <<<<"n">>, <<>>>>
              /\ records[2].number = LineAfter(FileHeader, 1)
              /\ records[3].number = LineAfter(row, LineAfter(FileHeader, 1))
<1> DEFINE x == RecordOf(FileHeader, 1)
           y == RecordOf(row, LineAfter(FileHeader, 1))
           z == RecordOf(FileEnd, LineAfter(row, LineAfter(FileHeader, 1)))
           records == Append(Append(Append(<<>>, x), y), z)
           X == {x, y, z}
<1>1. Templates!splitRecords(FileText(row, ending)) = records
  BY FileRows, RowsAreScanned DEF FileText
<1>2. /\ x.line = RowLine(<<"n">>, <<"a">>)
      /\ y.line = RowLine(row[1], row[2]) /\ y.number = LineAfter(FileHeader, 1)
      /\ z.line = RowLine(<<"n">>, <<>>) /\ z.number = LineAfter(row, LineAfter(FileHeader, 1))
  <2>1. /\ x.line = RowLine(FileHeader[1], FileHeader[2])
        /\ y.line = RowLine(row[1], row[2]) /\ y.number = LineAfter(FileHeader, 1)
        /\ z.line = RowLine(FileEnd[1], FileEnd[2])
        /\ z.number = LineAfter(row, LineAfter(FileHeader, 1))
    BY DEF RecordOf
  <2> HIDE DEF x, y, z
  <2>2. QED
    BY <2>1, FileRows, Zenon
<1>3. x \in X /\ y \in X /\ z \in X
  OBVIOUS
<1> HIDE DEF x, y, z, X
<1>4. /\ records \in Seq(X) /\ Len(records) = 3
      /\ records[1] = x /\ records[2] = y /\ records[3] = z
  BY <1>3, ThreeHave
<1> HIDE DEF records
<1>5. row[1] \in Seq(Chars) /\ row[2] \in Seq(Chars)
  BY RowTextIs
<1>6. /\ Templates!Trim(x.line) # <<>> /\ Templates!Trim(y.line) # <<>>
      /\ Templates!Trim(z.line) # <<>>
  BY <1>2, <1>5, FileRows, RowIsSolid
<1>7. \A k \in 1..Len(records) : Templates!Trim(records[k].line) # <<>>
  <2>1. \A k \in 1..3 : k = 1 \/ k = 2 \/ k = 3
    OBVIOUS
  <2>2. QED
    BY <1>4, <1>6, <2>1
<1>8. Templates!Solid(records) = records
  BY <1>4, <1>7, AllAreKept
<1>9. records # <<>>
  <2>1. Len(<<>>) = 0
    OBVIOUS
  <2>2. Len(records) # Len(<<>>)
    BY <1>4, <2>1
  <2>3. QED
    BY <2>2, Zenon
<1>10. /\ Templates!splitLine(x.line) = <<<<"n">>, <<"a">>>>
       /\ Templates!splitLine(y.line) = <<row[1], row[2]>>
       /\ Templates!splitLine(z.line) = <<<<"n">>, <<>>>>
  BY <1>2, <1>5, FileRows, RowIsReadBack
<1> QED
  BY <1>1, <1>2, <1>4, <1>8, <1>9, <1>10, Zenon

\* The line breaks the property counts.
LEMMA BreaksOfCell ==
    ASSUME NEW cell \in Seq(Chars)
    PROVE  /\ Breaks(cell, Len(cell)) = Cardinality({k \in DOMAIN cell : cell[k] = Templates!NewLine})
           /\ Breaks(cell, Len(cell)) \in Nat
<1>1. DOMAIN cell = 1..Len(cell) /\ Len(cell) \in Nat
  OBVIOUS
<1>2. Breaks(cell, Len(cell)) = Cardinality({k \in DOMAIN cell : cell[k] = Templates!NewLine})
  BY <1>1 DEF Breaks
<1>3. Breaks(cell, Len(cell)) \in Nat
  <2> DEFINE n == Len(cell)
  <2>1. n \in Nat
    BY <1>1
  <2> HIDE DEF n
  <2>2. CASE n = 0
    BY <2>2, BreaksAreCounted
  <2>3. CASE n # 0
    <3>1. n \in Nat \ {0}
      BY <2>1, <2>3
    <3>2. QED
      BY <3>1, BreaksAreCounted
  <2>4. QED
    BY <2>2, <2>3 DEF n
<1> QED
  BY <1>2, <1>3

\* The header takes one line.
LEMMA HeaderIsOneLine == LineAfter(FileHeader, 1) = 2
<1>1. \A char \in {"n", "a"} : Breaks(<<char>>, 1) = 0
  <2>1. ASSUME NEW char \in {"n", "a"} PROVE Breaks(<<char>>, 1) = 0
    <3>1. char # Templates!NewLine /\ <<char>>[1] = char
      BY CharactersDiffer
    <3>2. 1 \in Nat \ {0} /\ 1 - 1 = 0
      OBVIOUS
    <3>3. Breaks(<<char>>, 0) = 0
      BY BreaksAreCounted
    <3>4. Breaks(<<char>>, 1) = IF <<char>>[1] = Templates!NewLine THEN Breaks(<<char>>, 0) + 1
                                ELSE Breaks(<<char>>, 0)
      BY <3>2, BreaksAreCounted
    <3>5. QED
      BY <3>1, <3>3, <3>4
  <2>2. QED
    BY <2>1
<1>2. Len(<<"n">>) = 1 /\ Len(<<"a">>) = 1
  OBVIOUS
<1>3. BreaksIn(FileHeader) = Breaks(<<"n">>, 1) + Breaks(<<"a">>, 1)
  BY <1>2, FileRows, Zenon DEF BreaksIn
<1>4. Breaks(<<"n">>, 1) = 0 /\ Breaks(<<"a">>, 1) = 0
  BY <1>1
<1> QED
  BY <1>3, <1>4 DEF LineAfter

\* A sample is a row of two cells.
LEMMA CellsAreTexts ==
    ASSUME NEW table \in Seq(Seq(STRING)), Len(table) = 2
    PROVE  table \in Seq(Seq(Chars)) /\ DOMAIN table = 1..2
<1> DEFINE X == Seq(STRING)
           Y == Seq(Chars)
<1>1. STRING \subseteq Chars
  BY DEF Chars
<1>2. X \subseteq Y
  BY <1>1, SeqMonotonic
<1>3. table \in Seq(X)
  OBVIOUS
<1> HIDE DEF X, Y
<1>4. table \in Seq(Y)
  BY <1>2, <1>3, SeqMonotonic
<1>5. DOMAIN table = 1..2
  BY <1>3, LenProperties
<1> QED
  BY <1>4, <1>5 DEF Y

\* A sequence of two is known by its elements.
LEMMA PairIs ==
    ASSUME NEW f, NEW x, NEW y, f = [k \in 1..2 |-> f[k]], f[1] = x, f[2] = y
    PROVE  f = <<x, y>>
<1>1. <<x, y>> = [k \in 1..2 |-> <<x, y>>[k]] /\ <<x, y>>[1] = x /\ <<x, y>>[2] = y
  OBVIOUS
<1>2. \A k \in 1..2 : f[k] = <<x, y>>[k]
  BY <1>1
<1> QED
  BY <1>1, <1>2

\* What a spreadsheet wrote of a row is read again.
LEMMA FileIsReadBack ==
    ASSUME NEW row \in Seq(Seq(Chars)), Len(row) = 2, NEW ending \in LineEnds
    PROVE  LET table == Templates!parseCsv(FileText(row, ending), {<<"n">>, <<"a">>})
           IN  /\ table.ok
               /\ table.rows = <<[j \in DOMAIN row |-> Templates!Trim(row[j])], FileEnd>>
               /\ table.lineNumbers = <<LineAfter(FileHeader, 1),
                                        LineAfter(row, LineAfter(FileHeader, 1))>>
<1> DEFINE expected == {<<"n">>, <<"a">>}
           records == Templates!Solid(Templates!splitRecords(FileText(row, ending)))
           cellsOf(k) == Templates!splitLine(records[k].line)
           headers == [j \in DOMAIN cellsOf(1) |-> Templates!Trim(cellsOf(1)[j])]
           cells(k) == [j \in DOMAIN headers |->
                          IF j \in DOMAIN cellsOf(k) THEN Templates!Trim(cellsOf(k)[j]) ELSE <<>>]
           rows == [k \in 1..(Len(records) - 1) |-> cells(k + 1)]
           lines == [k \in 1..(Len(records) - 1) |-> records[k + 1].number]
           table == Templates!parseCsv(FileText(row, ending), expected)
<1>1. table = IF \/ records = <<>>
                 \/ \E header \in expected : \A j \in DOMAIN headers : headers[j] # header
                 \/ Len(records) - 1 > Templates!MAX_ROWS
              THEN Templates!Refusal
              ELSE [ok |-> TRUE, rows |-> rows, lineNumbers |-> lines]
  BY DEF Templates!parseCsv
<1>2. /\ records # <<>> /\ Len(records) = 3
      /\ cellsOf(1) = <<<<"n">>, <<"a">>>> /\ cellsOf(2) = <<row[1], row[2]>>
      /\ cellsOf(3) = <<<<"n">>, <<>>>>
      /\ records[2].number = LineAfter(FileHeader, 1)
      /\ records[3].number = LineAfter(row, LineAfter(FileHeader, 1))
  BY FileRecords, Zenon
<1> HIDE DEF records, table
<1>3. DOMAIN cellsOf(1) = 1..2 /\ DOMAIN cellsOf(2) = 1..2 /\ DOMAIN cellsOf(3) = 1..2
  BY <1>2
<1> DEFINE n == <<"n">>
           a == <<"a">>
           none == <<>>
<1>4. /\ cellsOf(1)[1] = n /\ cellsOf(1)[2] = a /\ cellsOf(2)[1] = row[1] /\ cellsOf(2)[2] = row[2]
      /\ cellsOf(3)[1] = n /\ cellsOf(3)[2] = none
  BY <1>2
<1>5. Templates!Trim(n) = n /\ Templates!Trim(a) = a /\ Templates!Trim(none) = none
  BY CharactersDiffer, OneCharacterIsKept, NothingIsTrimmed
<1> HIDE DEF cellsOf, n, a, none
<1>6. DOMAIN headers = 1..2 /\ headers[1] = n /\ headers[2] = a
  <2>1. 1 \in 1..2 /\ 2 \in 1..2
    OBVIOUS
  <2>2. QED
    BY <1>3, <1>4, <1>5, <2>1
<1> HIDE DEF headers
<1>7. \A k \in {2, 3} : /\ cells(k) = [j \in 1..2 |-> Templates!Trim(cellsOf(k)[j])]
  BY <1>3, <1>6
<1>8. expected = {n, a}
  BY DEF n, a
<1> HIDE DEF expected
<1>9. ~\E header \in expected : \A j \in DOMAIN headers : headers[j] # header
  <2>1. 1 \in DOMAIN headers /\ 2 \in DOMAIN headers
    BY <1>6
  <2>2. QED
    BY <1>6, <1>8, <2>1
<1>10. Len(records) - 1 = 2 /\ ~(Len(records) - 1 > Templates!MAX_ROWS)
  BY <1>2 DEF Templates!MAX_ROWS
<1> HIDE DEF rows, lines
<1>11. table = [ok |-> TRUE, rows |-> rows, lineNumbers |-> lines]
  BY <1>1, <1>2, <1>9, <1>10, Zenon
<1>12. table.ok /\ table.rows = rows /\ table.lineNumbers = lines
  BY <1>11
<1>13. rows = <<[j \in DOMAIN row |-> Templates!Trim(row[j])], FileEnd>>
  <2> DEFINE first == [j \in DOMAIN row |-> Templates!Trim(row[j])]
  <2>1. rows = [k \in 1..2 |-> rows[k]] /\ rows[1] = cells(1 + 1) /\ rows[2] = cells(2 + 1)
    <3>1. rows = [k \in 1..2 |-> cells(k + 1)]
      BY <1>10 DEF rows
    <3> HIDE DEF cells
    <3>2. QED
      BY <3>1
  <2>2. 1 + 1 = 2 /\ 2 + 1 = 3
    OBVIOUS
  <2> HIDE DEF cells
  <2>3. rows[1] = cells(2) /\ rows[2] = cells(3)
    BY <2>1, <2>2
  <2>4. cells(2) = first
    <3>1. DOMAIN row = 1..2
      <4> DEFINE X == Seq(Chars)
      <4>1. row \in Seq(X)
        OBVIOUS
      <4> HIDE DEF X
      <4>2. QED
        BY <4>1, LenProperties
    <3>2. \A j \in 1..2 : cellsOf(2)[j] = row[j]
      BY <1>4
    <3>3. cells(2) = [j \in 1..2 |-> Templates!Trim(cellsOf(2)[j])]
      BY <1>7
    <3>4. QED
      BY <3>1, <3>2, <3>3
  <2>5. cells(3) = FileEnd
    <3> DEFINE f == cells(3)
    <3>1. f = [j \in 1..2 |-> Templates!Trim(cellsOf(3)[j])]
      BY <1>7
    <3> HIDE DEF f
    <3>2. f = [j \in 1..2 |-> f[j]] /\ f[1] = n /\ f[2] = none
      BY <1>4, <1>5, <3>1
    <3>3. f = <<n, none>>
      BY <3>2, PairIs
    <3>4. QED
      BY <3>3 DEF f, n, none, FileEnd
  <2> HIDE DEF first
  <2>6. rows = <<first, FileEnd>>
    BY <2>1, <2>3, <2>4, <2>5, PairIs
  <2>7. QED
    BY <2>6 DEF first
<1>14. lines = <<LineAfter(FileHeader, 1), LineAfter(row, LineAfter(FileHeader, 1))>>
  <2>1. lines = [k \in 1..2 |-> records[k + 1].number]
    BY <1>10 DEF lines
  <2>2. lines = [k \in 1..2 |-> lines[k]]
    BY <2>1
  <2>3. lines[1] = records[2].number /\ lines[2] = records[3].number
    BY <2>1
  <2>4. QED
    BY <1>2, <2>2, <2>3, PairIs
<1> QED
  BY <1>12, <1>13, <1>14, Zenon DEF table, expected

\* FilesKeepTheirCells, for every row of two cells.
LEMMA FilesKeepTheirCellsHolds ==
    ASSUME QuestionTyped
    PROVE  FilesKeepTheirCells
<1> SUFFICES ASSUME About("table") PROVE FilesKeepTheirCells
  BY DEF FilesKeepTheirCells
<1>1. input.row \in Seq(Seq(STRING)) /\ Len(input.row) = 2 /\ input.ending \in LineEnds
  <2>1. input \in Topics["table"]
    BY Asked
  <2>2. QED
    BY <2>1, SamplesAreRows DEF Topics
<1> DEFINE row == input.row
           ending == input.ending
<1>2. row \in Seq(Seq(STRING)) /\ Len(row) = 2 /\ ending \in LineEnds
  BY <1>1
<1> DEFINE breaks(cell) == Cardinality({k \in DOMAIN cell : cell[k] = Templates!NewLine})
           table == Templates!parseCsv(FileText(row, ending), {<<"n">>, <<"a">>})
<1> HIDE DEF row, ending, table
<1>3. row \in Seq(Seq(Chars)) /\ Len(row) = 2
  BY <1>2, CellsAreTexts
<1>4. row[1] \in Seq(Chars) /\ row[2] \in Seq(Chars)
  BY <1>3, RowTextIs
<1>5. /\ Breaks(row[1], Len(row[1])) = breaks(row[1]) /\ Breaks(row[1], Len(row[1])) \in Nat
      /\ Breaks(row[2], Len(row[2])) = breaks(row[2]) /\ Breaks(row[2], Len(row[2])) \in Nat
  BY <1>4, BreaksOfCell
<1> HIDE DEF breaks
<1>6. LineAfter(row, LineAfter(FileHeader, 1)) = 3 + breaks(row[1]) + breaks(row[2])
  <2>1. LineAfter(row, 2) = 2 + (breaks(row[1]) + breaks(row[2])) + 1
    BY <1>5 DEF LineAfter, BreaksIn
  <2>2. breaks(row[1]) \in Nat /\ breaks(row[2]) \in Nat
    BY <1>5
  <2>3. QED
    BY <2>1, <2>2, HeaderIsOneLine
<1>7. /\ table.ok
      /\ table.rows = <<[j \in DOMAIN row |-> Templates!Trim(row[j])], FileEnd>>
      /\ table.lineNumbers = <<LineAfter(FileHeader, 1), LineAfter(row, LineAfter(FileHeader, 1))>>
  BY <1>2, <1>3, FileIsReadBack DEF table
<1>8. /\ table.ok
      /\ table.rows = <<[j \in DOMAIN row |-> Templates!Trim(row[j])], FileEnd>>
      /\ table.lineNumbers = <<2, 3 + breaks(row[1]) + breaks(row[2])>>
  BY <1>6, <1>7, HeaderIsOneLine, Zenon
<1> QED
  BY <1>8, Zenon DEF FilesKeepTheirCells, table, row, ending, breaks, FileText, FileHeader, FileEnd

\* CellsAndAmountsAreKept, for every file.
LEMMA FilesHold ==
    ASSUME QuestionTyped
    PROVE  CellsAndAmountsAreKept
BY FilesKeepTheirCellsHolds, AmountsAreNotGuessedHolds DEF CellsAndAmountsAreKept
=============================================================================
