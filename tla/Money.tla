------------------------------- MODULE Money -------------------------------
(***************************************************************************)
(* Money arithmetic (platform/money): amounts are integers of minor units, *)
(* so every operation below is exact except the divisions, which say how   *)
(* they round.  The currency is left out: one organisation has one, and    *)
(* mixing two raises.                                                      *)
(***************************************************************************)
EXTENDS Integers, Sequences, SequencesExt, FiniteSets

BASIS_POINTS == 10000

Magnitude(n) == IF n < 0 THEN -n ELSE n

\* One more than the quotient of the magnitudes?  Only when something remains.
RoundsAway(quotient, remainder, denominator, negative, mode) ==
    /\ remainder # 0
    /\ \/ mode = "floor" /\ negative
       \/ mode = "ceil" /\ ~negative
       \/ mode = "half-up" /\ remainder * 2 >= denominator
       \/ mode = "half-even" /\ \/ remainder * 2 > denominator
                                \/ remainder * 2 = denominator /\ quotient % 2 = 1

roundDivision(numerator, denominator, mode) ==
    LET n        == Magnitude(numerator)
        d        == Magnitude(denominator)
        negative == (numerator < 0) # (denominator < 0)
        rounded  == (n \div d) + (IF RoundsAway(n \div d, n % d, d, negative, mode)
                                  THEN 1 ELSE 0)
    IN  IF negative THEN -rounded ELSE rounded

multiplyByBasisPoints(amount, basisPoints) ==
    roundDivision(amount * basisPoints, BASIS_POINTS, "half-up")

SumOf(amounts) == SumFunction(amounts)

\* A mutated form: equal remainders are served together.
Rank_Tied(remainders, i) == Cardinality({j \in DOMAIN remainders : remainders[j] > remainders[i]})

\* Largest remainder: the floors first, then one unit each in the order of the
\* discarded remainders, ties to the earlier share, round and round.
Rank(remainders, i) ==
    Cardinality({j \in DOMAIN remainders :
                    \/ remainders[j] > remainders[i]
                    \/ remainders[j] = remainders[i] /\ j < i})

allocate(amount, weights) ==
    LET total      == Magnitude(amount)
        weight     == SumOf(weights)
        floors     == [i \in DOMAIN weights |-> (total * weights[i]) \div weight]
        remainders == [i \in DOMAIN weights |-> (total * weights[i]) % weight]
        leftover   == total - SumOf(floors)
        extra(i)   == Cardinality({k \in 0..(leftover - 1) :
                                      k % Len(weights) = Rank(remainders, i)})
        share(i)   == floors[i] + extra(i)
    IN  [i \in DOMAIN weights |-> IF amount < 0 THEN -share(i) ELSE share(i)]

\* A typed amount is the digits before and after the point, and the sign.  More
\* digits than the currency has are refused, fewer are padded with zeroes.
NumberOf(digits) == FoldLeft(LAMBDA n, d : 10 * n + d, 0, digits)
Zeroes(n)        == [i \in 1..n |-> 0]

CanParse(typed, exponent) == Len(typed.whole) > 0 /\ Len(typed.fraction) <= exponent

parseDecimal(typed, exponent) ==
    LET padded    == typed.fraction \o Zeroes(exponent - Len(typed.fraction))
        magnitude == NumberOf(typed.whole \o padded)
    IN  IF typed.negative THEN -magnitude ELSE magnitude

\* The powers of ten.
Ten[k \in Nat] == IF k = 0 THEN 1 ELSE 10 * Ten[k - 1]

\* The digits of n, at least one more than the currency's minor digits.
MinDigits(n, least) ==
    CHOOSE k \in least..(least + n) : /\ n < Ten[k]
                                      /\ k = least \/ n >= Ten[k - 1]
toDecimalString(amount, exponent) ==
    LET n      == Magnitude(amount)
        length == MinDigits(n, exponent + 1)
        digits == [i \in 1..length |-> (n \div Ten[length - i]) % 10]
    IN  [negative |-> amount < 0,
         whole    |-> SubSeq(digits, 1, length - exponent),
         fraction |-> SubSeq(digits, length - exponent + 1, length)]
=============================================================================
