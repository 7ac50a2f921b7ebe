------------------------------ MODULE Imports ------------------------------
(***************************************************************************)
(* Onboarding a distributor (modules/imports, scripts/import.ts) beside    *)
(* the office that already works with the same products: one transaction   *)
(* per file, written row by row under the row locks of its products, and   *)
(* given up whole when a row is refused.                                   *)
(***************************************************************************)
EXTENDS Null, Integers, Sequences, SequencesExt, FiniteSets

CONSTANTS
    Imports,     \* calls of the import command
    Files,       \* opening-stock files
    Content,     \* the rows of each file: [sku, quantity], -1 for a bad quantity
    Catalogue,   \* a catalogue file: the SKUs it lists
    Skus,
    Deltas,      \* what the office may change a stock figure by
    MaxStock,    \* bound on a stock figure
    MaxMovements \* bound on the ledger of one product

ASSUME ContentIsRows ==
    \A f \in Files : Content[f] \in Seq([sku : Skus, quantity : -1..MaxStock])
ASSUME ImportBounds ==
    Skus \subseteq Int /\ Deltas \subseteq Int /\ MaxStock \in Nat \ {0} /\ None \notin [stock : Nat, baseline : Nat]

VARIABLES
    product,     \* SKU -> [stock, baseline] or None: baseline is the stock it was created with
    movement,    \* SKU -> the ledger rows, in commit order
    jobs,        \* the stock files recorded as imported
    import       \* [step, file, todo, written]: the rows still to write, and the written ones

importVars == <<product, movement, jobs, import>>

Parsed == {"NEW", "WRITING", "IMPORTED", "REFUSED"}

ImportInit ==
    /\ product = [s \in Skus |-> None]
    /\ movement = [s \in Skus |-> <<>>]
    /\ jobs = {}
    /\ import = [i \in Imports |-> [step |-> "NEW", file |-> None, todo |-> {}, written |-> {}]]

Known(s) == product[s] # None
Stock(s) == product[s].stock

\* A row that a running import has written stays locked until its transaction ends.
LockedByImport(s) == \E i \in Imports : \E row \in import[i].written : row.sku = s

-----------------------------------------------------------------------------
(* The office                                                              *)

createProduct(s, stock) ==
    /\ ~Known(s)
    /\ product' = [product EXCEPT ![s] = [stock |-> stock, baseline |-> stock]]
    /\ UNCHANGED <<movement, jobs, import>>

Entry(type, delta, after) == [type |-> type, delta |-> delta, after |-> after]

\* adjustStock, and every other recordMovement: one statement on the locked row.
adjustStock(s, delta) ==
    /\ Known(s) /\ ~LockedByImport(s)
    /\ Stock(s) + delta \in 0..MaxStock /\ Len(movement[s]) < MaxMovements
    /\ product' = [product EXCEPT ![s].stock = @ + delta]
    /\ movement' = [movement EXCEPT ![s] =
            Append(@, Entry("MANUAL_ADJUSTMENT", delta, Stock(s) + delta))]
    /\ UNCHANGED <<jobs, import>>

-----------------------------------------------------------------------------
(* The command                                                             *)

\* commitProducts creates what is missing, and leaves every stock figure alone.
Catalogued ==
    [s \in Skus |-> IF s \in Catalogue /\ ~Known(s) THEN [stock |-> 0, baseline |-> 0] ELSE product[s]]

commitProducts(i) ==
    /\ import[i].step = "NEW"
    /\ \A s \in Catalogue : ~LockedByImport(s)
    /\ product' = Catalogued
    /\ import' = [import EXCEPT ![i].step = "IMPORTED"]
    /\ UNCHANGED <<movement, jobs>>

\* parseOpeningStock: a bad quantity or a SKU counted twice is an error.
WellFormed(rows) ==
    /\ \A k \in DOMAIN rows : rows[k].quantity >= 0
    /\ \A j, k \in DOMAIN rows : rows[j].sku = rows[k].sku => j = k

\* previewOpeningStock: known products that hold nothing.
CanCommit(rows) ==
    rows # <<>> /\ WellFormed(rows)
        /\ \A k \in DOMAIN rows : Known(rows[k].sku) /\ Stock(rows[k].sku) = 0

\* The rows are written in the order of their SKUs.
InLockOrder(row, rows) == \A other \in rows : row.sku <= other.sku

Refused(i) == import' = [import EXCEPT ![i].step = "REFUSED", ![i].todo = {}, ![i].written = {}]

previewOpeningStock(i, f) ==
    /\ import[i].step = "NEW"
    /\ IF f \in jobs \/ ~CanCommit(Content[f])
       THEN Refused(i)
       ELSE import' = [import EXCEPT ![i] = [step |-> "WRITING", file |-> f, written |-> {},
                todo |-> ToSet(Content[f])]]
    /\ UNCHANGED <<product, movement, jobs>>

\* A mutated form: the figure is set whatever it has become.
StillEmpty_Trusted(s) == TRUE

\* The UPDATE looks at the stock again.
StillEmpty(s) == Stock(s) = 0

WriteRow(i) ==
    /\ import[i].step = "WRITING"
    /\ \E row \in import[i].todo :
          /\ InLockOrder(row, import[i].todo)
          /\ ~LockedByImport(row.sku) /\ StillEmpty(row.sku)
          /\ import' = [import EXCEPT ![i].todo = @ \ {row}, ![i].written = @ \cup {row}]
    /\ UNCHANGED <<product, movement, jobs>>

\* What the rows written so far come to, once they are committed.
Balances(rows) ==
    /\ product' = [s \in Skus |->
            IF \E row \in rows : row.sku = s
            THEN [product[s] EXCEPT !.stock = (CHOOSE row \in rows : row.sku = s).quantity]
            ELSE product[s]]
    /\ movement' = [s \in Skus |->
            IF \E row \in rows : row.sku = s /\ row.quantity > 0
            THEN LET n == (CHOOSE row \in rows : row.sku = s).quantity
                 IN  Append(movement[s], Entry("OPENING_BALANCE", n, n))
            ELSE movement[s]]

commitOpeningStock(i) ==
    /\ import[i].step = "WRITING" /\ import[i].todo = {}
    /\ Balances(import[i].written)
    /\ jobs' = jobs \cup {import[i].file}
    /\ import' = [import EXCEPT ![i].step = "IMPORTED", ![i].written = {}]

\* A mutated form: the refusal is returned, and the transaction commits.
Abandon_Commits(i) == Balances(import[i].written) /\ Refused(i) /\ UNCHANGED jobs

\* The command exits inside the transaction, so the database rolls it back.
Abandon(i) == Refused(i) /\ UNCHANGED <<product, movement, jobs>>

RefuseRow(i) ==
    /\ import[i].step = "WRITING"
    /\ \E row \in import[i].todo :
          InLockOrder(row, import[i].todo) /\ ~LockedByImport(row.sku) /\ ~StillEmpty(row.sku)
    /\ Abandon(i)

ImportNext ==
    \/ \E s \in Skus : createProduct(s, 0) \/ createProduct(s, 1)
    \/ \E s \in Skus, delta \in Deltas : adjustStock(s, delta)
    \/ \E i \in Imports :
          \/ \E f \in Files : previewOpeningStock(i, f)
          \/ commitProducts(i) \/ WriteRow(i) \/ RefuseRow(i) \/ commitOpeningStock(i)

ImportSpec == ImportInit /\ [][ImportNext]_importVars

ImportFairness ==
    \A i \in Imports : WF_importVars(WriteRow(i) \/ RefuseRow(i) \/ commitOpeningStock(i))

-----------------------------------------------------------------------------
(* Properties                                                              *)

ImportTypeOK ==
    /\ product \in [Skus -> [stock : 0..MaxStock, baseline : 0..MaxStock] \cup {None}]
    /\ jobs \subseteq Files
    /\ \A i \in Imports : import[i].step \in Parsed /\ import[i].file \in Files \cup {None}

\* movements.ts: every physical stock change lands in one ledger.  Each movement
\* starts from the figure the previous one left, and the last one left the stock
\* the product has: a count that arrives during an import is not overwritten, and
\* a price list moves nothing.
LedgerExplainsStock ==
    \A s \in Skus : Known(s) =>
        LET left(k) == IF k = 0 THEN product[s].baseline ELSE movement[s][k].after
        IN  /\ \A k \in DOMAIN movement[s] :
                  movement[s][k].after = left(k - 1) + movement[s][k].delta
            /\ Stock(s) = left(Len(movement[s]))

\* imports/index.ts "Nothing has been imported": an opening balance in the ledger
\* is a row of a file that was recorded as imported, and all rows of that file are
\* in the ledger.
ImportedWhole ==
    LET opened(row) == row.quantity > 0 =>
            \E k \in DOMAIN movement[row.sku] :
                movement[row.sku][k] = Entry("OPENING_BALANCE", row.quantity, row.quantity)
    IN  /\ \A f \in jobs : \A k \in DOMAIN Content[f] : opened(Content[f][k])
        /\ \A s \in Skus : \A k \in DOMAIN movement[s] :
              movement[s][k].type = "OPENING_BALANCE" =>
                  \E f \in jobs : \E j \in DOMAIN Content[f] :
                      Content[f][j] = [sku |-> s, quantity |-> movement[s][k].delta]

\* Imports that have begun to write end, imported whole or refused: the rows that
\* two of them share are taken in one order, so neither waits for ever.
ImportsEnd ==
    (\E i \in Imports : import[i].step = "WRITING") ~> (\A i \in Imports : import[i].step # "WRITING")
=============================================================================
