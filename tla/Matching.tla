------------------------------ MODULE Matching ------------------------------
(***************************************************************************)
(* Which product a customer meant (catalog/matching.ts).  A normalised     *)
(* name is its trigrams and the numbers in it.  Confidences are counted in *)
(* ten-thousandths, as the code rounds them; similarities are fractions.   *)
(***************************************************************************)
EXTENDS Integers, Sequences, FiniteSets

CONSTANTS
    Names,   \* normalised names: what was asked for, and names and aliases of products
    Grams,   \* the trigrams of each
    Sizes    \* the numbers in each

STRONG_THRESHOLD     == 9000
REVIEW_THRESHOLD     == 7000
FUZZY_MAX_CONFIDENCE == 8900
AMBIGUITY_MARGIN     == 500
AMBIGUITY_PENALTY    == 1000
MAX_CANDIDATES       == 4
Exact                == [CANONICAL |-> 10000, ALIAS |-> 9800]

MatchableProduct == [sku : Nat, name : Names, aliases : SUBSET Names]

\* A fraction is <<numerator, denominator>>.
Below(s, t)   == s[1] * t[2] < t[1] * s[2]
Times(s, t)   == <<s[1] * t[1], s[2] * t[2]>>
AtMostOne(s)  == IF s[1] > s[2] THEN <<1, 1>> ELSE s
Rounded(n, d) == (2 * n + d) \div (2 * d)

FUZZY_SCORE_FLOOR     == <<9, 20>>
SPEC_MATCH_BONUS      == <<6, 5>>
SPEC_MISMATCH_PENALTY == <<7, 20>>

trigramDice(a, b) ==
    IF a = b THEN <<1, 1>>
    ELSE <<2 * Cardinality(Grams[a] \cap Grams[b]), Cardinality(Grams[a]) + Cardinality(Grams[b])>>

\* A mutated form: the whole scale is open to resemblance.
mapFuzzyConfidence_Uncapped(s) ==
    REVIEW_THRESHOLD + Rounded(3000 * (20 * s[1] - 9 * s[2]), 11 * s[2])

\* From the floor to 1, linearly onto the review band.
mapFuzzyConfidence(s) ==
    REVIEW_THRESHOLD
        + Rounded((FUZZY_MAX_CONFIDENCE - REVIEW_THRESHOLD) * (20 * s[1] - 9 * s[2]), 11 * s[2])

Targets(product)      == {product.name} \cup product.aliases
SizesOf(product)      == UNION {Sizes[t] : t \in Targets(product)}
Resemblance(query, p) ==
    LET scores == {trigramDice(query, t) : t \in Targets(p)}
    IN  CHOOSE s \in scores : \A t \in scores : ~Below(s, t)

\* Only when both name a size.
SizeFactor(query, p) ==
    IF Sizes[query] = {} \/ SizesOf(p) = {} THEN <<1, 1>>
    ELSE IF Sizes[query] \cap SizesOf(p) # {} THEN SPEC_MATCH_BONUS
    ELSE SPEC_MISMATCH_PENALTY

bestEvidence(query, p) ==
    IF query = p.name THEN [method |-> "CANONICAL", score |-> <<1, 1>>]
    ELSE IF query \in p.aliases THEN [method |-> "ALIAS", score |-> <<1, 1>>]
    ELSE [method |-> "FUZZY", score |-> AtMostOne(Times(Resemblance(query, p), SizeFactor(query, p)))]

Candidate(query, p) ==
    LET evidence == bestEvidence(query, p) IN
    [product |-> p, method |-> evidence.method,
     confidence |-> IF evidence.method = "FUZZY" THEN mapFuzzyConfidence(evidence.score)
                    ELSE Exact[evidence.method]]

Ranked(a, b) ==
    \/ a.confidence > b.confidence
    \/ a.confidence = b.confidence /\ a.product.sku < b.product.sku

Sorted(candidates) ==
    CHOOSE list \in [1..Cardinality(candidates) -> candidates] :
        \A i, j \in DOMAIN list : i < j => Ranked(list[i], list[j])

matchProduct(query, corpus) ==
    LET named  == {p \in corpus : ~Below(bestEvidence(query, p).score, FUZZY_SCORE_FLOOR)}
        scored == Sorted({Candidate(query, p) : p \in named})
        ambiguous == Len(scored) > 1
                        /\ scored[1].confidence - scored[2].confidence < AMBIGUITY_MARGIN
        lowered == scored[1].confidence - AMBIGUITY_PENALTY
    IN  IF scored = <<>>
        THEN [method |-> "UNRESOLVED", confidence |-> 0, ambiguous |-> FALSE, candidates |-> <<>>]
        ELSE [method     |-> scored[1].method,
              ambiguous  |-> ambiguous,
              confidence |-> IF ~ambiguous THEN scored[1].confidence
                             ELSE IF lowered < REVIEW_THRESHOLD THEN REVIEW_THRESHOLD ELSE lowered,
              candidates |-> SubSeq(scored, 1, IF Len(scored) < MAX_CANDIDATES
                                               THEN Len(scored) ELSE MAX_CANDIDATES)]

confidenceBand(confidence) ==
    IF confidence >= STRONG_THRESHOLD THEN "strong"
    ELSE IF confidence >= REVIEW_THRESHOLD THEN "review" ELSE "unresolved"
=============================================================================
