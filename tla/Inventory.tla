----------------------------- MODULE Inventory -----------------------------
(***************************************************************************)
(* Stock corrections: manual adjustments, counts that disagree with the    *)
(* system, and reservations that give way when there is less than was      *)
(* promised (src/src/modules/inventory/index.ts and discrepancy.ts,        *)
(* src/src/modules/catalog/index.ts).                                      *)
(*                                                                         *)
(* Reporting a count locks nothing itself: the product is read in          *)
(* CountShelf and the row inserted in FileCount.  The insert waits for     *)
(* whoever has locked the task and the order it names, which are foreign   *)
(* keys (FOR KEY SHARE against FOR UPDATE).                                *)
(***************************************************************************)
EXTENDS Records

CONSTANTS
    Deltas,    \* the changes a manual adjustment makes (bound)
    MaxStock   \* adjustments and counts go no higher (bound)

ASSUME InventoryBounds == Deltas \subseteq Int /\ MaxStock \in Nat

\* One conditional UPDATE; the CHECK constraint still stands behind it.
adjustStock(p, delta) ==
    /\ stock[p].available + delta \in 0..MaxStock
    /\ WriteStock([stock EXCEPT ![p].available = @ + delta])
    /\ movements' = [movements EXCEPT ![p].adjusted = @ + delta]
    /\ UNCHANGED <<addressed, orderTables, yard, road, discrepancy, creating, money>>

-----------------------------------------------------------------------------
(* Discrepancies                                                           *)

WriteDiscrepancy(d, row) ==
    /\ discrepancy' = [discrepancy EXCEPT ![d] = row]
    /\ UNCHANGED <<stockTables, addressed, orderTables, yard, road, creating, money>>

CountShelf(d, p, t, counted) ==
    /\ discrepancy[d].status = "ABSENT"
    /\ t # None => task[t].status # "ABSENT"
    /\ WriteDiscrepancy(d, [status |-> "COUNTING", product |-> p, task |-> t,
                            onHand |-> stock[p].available, counted |-> counted])

\* The order lock is waited for when the count was reported against a task.
DiscrepancyUnlocked(d) ==
    discrepancy[d].task # None => Unlocked(task[discrepancy[d].task].order)

\* A mutated form: the columns are plain columns, and the insert waits for nobody.
FileCount_NoForeignKey(d) ==
    /\ discrepancy[d].status = "COUNTING"
    /\ WriteDiscrepancy(d, [discrepancy[d] EXCEPT !.status = "OPEN"])

FileCount(d) ==
    /\ DiscrepancyUnlocked(d)
    /\ discrepancy[d].status = "COUNTING"
    /\ WriteDiscrepancy(d, [discrepancy[d] EXCEPT !.status = "OPEN"])

IsOpen(d) == discrepancy[d].status \in {"OPEN", "UNDER_REVIEW"}

reviewDiscrepancy(d) ==
    /\ DiscrepancyUnlocked(d)
    /\ discrepancy[d].status = "OPEN"
    /\ WriteDiscrepancy(d, [discrepancy[d] EXCEPT !.status = "UNDER_REVIEW"])

cancelDiscrepancy(d) ==
    /\ DiscrepancyUnlocked(d)
    /\ IsOpen(d)
    /\ WriteDiscrepancy(d, [discrepancy[d] EXCEPT !.status = "CANCELLED"])

StockHasNotMoved(d) == stock[discrepancy[d].product].available = discrepancy[d].onHand

CoversPromises(d) == discrepancy[d].counted >= Promised(discrepancy[d].product)

\* The outcomes of reconcileDiscrepancy that change a row, in the order
\* assessReconciliation decides them.
ConfirmCount(d) ==
    /\ DiscrepancyUnlocked(d)
    /\ IsOpen(d)
    /\ StockHasNotMoved(d)
    /\ discrepancy[d].counted = discrepancy[d].onHand
    /\ WriteDiscrepancy(d, [discrepancy[d] EXCEPT !.status = "RESOLVED"])

FlagShortfall(d) ==
    /\ DiscrepancyUnlocked(d)
    /\ IsOpen(d)
    /\ StockHasNotMoved(d)
    /\ discrepancy[d].counted # discrepancy[d].onHand
    /\ ~CoversPromises(d)
    /\ WriteDiscrepancy(d, [discrepancy[d] EXCEPT !.status = "UNDER_REVIEW"])

ApplyCount(d) ==
    LET p == discrepancy[d].product
        delta == discrepancy[d].counted - stock[p].available
    IN  /\ DiscrepancyUnlocked(d)
        /\ IsOpen(d)
        /\ StockHasNotMoved(d)
        /\ delta # 0
        /\ CoversPromises(d)
        /\ WriteStock([stock EXCEPT ![p].available = @ + delta])
        /\ movements' = [movements EXCEPT ![p].reconciled = @ + delta]
        /\ discrepancy' = [discrepancy EXCEPT ![d].status = "RESOLVED"]
        /\ UNCHANGED <<addressed, orderTables, yard, road, creating, money>>

-----------------------------------------------------------------------------

\* The order gives up part or all of one reservation; the accepted quantity
\* stays, the line's reserved quantity and the aggregate go down.
resolveReservationShortfall(o, p, newQuantity) ==
    LET row == reservation[o][p]
    IN  /\ Unlocked(o)
        /\ row.status = "ACTIVE"
        /\ newQuantity < row.quantity
        /\ reservation' = [reservation EXCEPT ![o][p] =
                IF newQuantity = 0 THEN [row EXCEPT !.status = "RELEASED"]
                                   ELSE [row EXCEPT !.quantity = newQuantity]]
        /\ WriteStock([stock EXCEPT ![p].reserved = @ - (row.quantity - newQuantity)])
        /\ item' = [item EXCEPT ![o][p] = newQuantity]
        /\ order' = [order EXCEPT ![o].exception =
                IF newQuantity < QuantityOf(order[o].quotation, p) THEN "STOCK_SHORTFALL" ELSE @]
        /\ UNCHANGED <<movements, addressed, yard, road, discrepancy, creating, money>>

InventoryStep ==
    \/ \E p \in Products, n \in Deltas : adjustStock(p, n)
    \/ \E d \in DiscrepancyIds, p \in Products, t \in TaskIds \cup {None}, n \in 0..MaxStock :
            CountShelf(d, p, t, n)
    \/ \E d \in DiscrepancyIds :
        \/ FileCount(d)
        \/ reviewDiscrepancy(d)
        \/ cancelDiscrepancy(d)
        \/ ConfirmCount(d)
        \/ FlagShortfall(d)
        \/ ApplyCount(d)
    \/ \E o \in OrderIds, p \in Products, n \in 0..MaxStock : resolveReservationShortfall(o, p, n)
=============================================================================
