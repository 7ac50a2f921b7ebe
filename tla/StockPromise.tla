---------------------------- MODULE StockPromise ----------------------------
(***************************************************************************)
(* What the stock tables promise, whatever tasks, counts and returns do to *)
(* them: goods on the shelf, of which each order holds a part.  An order   *)
(* takes its hold in one step and only if the shelf covers it; it can let  *)
(* go of some or all of it; its goods leave only together, exactly as      *)
(* held; and no correction takes away goods an order holds.                *)
(***************************************************************************)
EXTENDS Sums

CONSTANTS Products, Holders

VARIABLES
    onHand,    \* goods on the shelf
    held,      \* the part of them each order holds
    shipped    \* goods that left for a customer so far

Committed(p) == Total([o \in Holders |-> held[o][p]])

Covered == \A p \in Products : Committed(p) <= onHand[p]

HoldsNothing(o) == \A p \in Products : held[o][p] = 0

\* Only the hold of o changes.
OnlyHolder(o) == \A x \in Holders \ {o} : held'[x] = held[x]

PromiseInit ==
    /\ \A o \in Holders : HoldsNothing(o)
    /\ shipped = [p \in Products |-> 0]

Hold(o) ==
    /\ HoldsNothing(o)
    /\ OnlyHolder(o)
    /\ Covered'
    /\ UNCHANGED <<onHand, shipped>>

LetGo(o) ==
    /\ \A p \in Products : held'[o][p] <= held[o][p]
    /\ OnlyHolder(o)
    /\ UNCHANGED <<onHand, shipped>>

HandOver(o) ==
    /\ \A p \in Products : /\ onHand'[p] = onHand[p] - held[o][p]
                           /\ shipped'[p] = shipped[p] + held[o][p]
    /\ HoldsNothing(o)'
    /\ OnlyHolder(o)

Correct ==
    /\ Covered'
    /\ UNCHANGED <<held, shipped>>

PromiseNext ==
    \/ \E o \in Holders : Hold(o) \/ LetGo(o) \/ HandOver(o)
    \/ Correct

PromiseSpec == PromiseInit /\ [][PromiseNext]_<<onHand, held, shipped>>
=============================================================================
