-------------------------------- MODULE Sums --------------------------------
(***************************************************************************)
(* The sum of a function with naturals as values.                          *)
(***************************************************************************)
EXTENDS Integers, FiniteSets

\* Counted unit by unit: entry x of the function contributes f[x] pairs.  The
\* definition needs no recursion, so facts about it can be proved.
Units(f, x) == {x} \X (1..f[x])

Total(f) == Cardinality(UNION {Units(f, x) : x \in DOMAIN f})
=============================================================================
