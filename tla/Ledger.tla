------------------------------- MODULE Ledger -------------------------------
(***************************************************************************)
(* What the transactions of one organisation share: row locks, document    *)
(* numbers (modules/numbering) and the audit log (modules/audit).  A call  *)
(* takes locks, numbers and audit positions in the order of its code,      *)
(* waits for whoever has the next one, and keeps all of them until its     *)
(* transaction ends (platform/db/tenant.ts).  FOR UPDATE gives one         *)
(* transaction a row; the KEY SHARE that PostgreSQL takes on the row an    *)
(* insert refers to is shared, and only FOR UPDATE conflicts with it.      *)
(***************************************************************************)
EXTENDS Naturals, Sequences, SequencesExt, FiniteSetsExt

CONSTANTS
    Nobody,
    Requests,
    Orders,
    Lines,       \* the products of each order's lines, in line order
    Operations   \* the operations that requests may call

ASSUME NobodyIsNoRequest == Nobody \notin Requests
ASSUME LinesNameProducts == Lines \in [Orders -> Seq(Nat)]
ASSUME OperationsAreModelled ==
    Operations \subseteq {"createFromInquiry", "createFromQuotation", "cancelOrder", "confirmPayment",
        "createWarehouseTask", "completeWarehouseTask", "createDeliveryRetry", "createReturn",
        "reportDiscrepancy", "reconcileDiscrepancy"}

VARIABLES
    call,        \* [state, order, plan, drawn]: plan is what is still to take, drawn
                 \* the values drawn from each series
    holder,      \* which request holds each resource
    sharers,     \* the requests that hold a KEY SHARE lock on it
    nextValue,   \* number_sequences.next_value of each kind
    published    \* per series, the values of the committed rows in commit order

ledgerVars == <<call, holder, sharers, nextValue, published>>

SequenceKind == {"QUOTATION", "ORDER", "WAREHOUSE_TASK", "DELIVERY", "RETURN", "DISCREPANCY"}
Number(kind) == <<"number", kind>>
Audit == <<"audit", "log">>
Series == {Number(kind) : kind \in SequenceKind} \cup {Audit}

Row(table, o) == <<table, o>>
ProductRow(p) == <<"product", p>>
Stocked == UNION {ToSet(Lines[o]) : o \in Orders}
Resources ==
    Series \cup {ProductRow(p) : p \in Stocked}
        \cup ({"payment", "sales_order", "warehouse_task", "delivery", "discrepancy"} \X Orders)

\* An insert's KEY SHARE lock on the row its foreign key names.
Share(row) == <<"share", row>>
Shares == {Share(row) : row \in Resources \ Series}

-----------------------------------------------------------------------------
(* What each operation takes, in the order of its code                     *)

\* A mutated form: the products in the order of the lines.
lockOrder_AsWritten(o) == [k \in DOMAIN Lines[o] |-> ProductRow(Lines[o][k])]

\* The products of the lines, each once and ascending by id.
Sorted(ids) ==
    CHOOSE s \in [1..Cardinality(ids) -> ids] : \A j, k \in DOMAIN s : j < k => s[j] < s[k]
lockOrder(o) ==
    LET ids == Sorted(ToSet(Lines[o])) IN [k \in DOMAIN ids |-> ProductRow(ids[k])]

\* The inserted rows name the products line by line.
InsertedLines(o) == [k \in DOMAIN Lines[o] |-> Share(ProductRow(Lines[o][k]))]

\* Rows of one's own are locked already, so their foreign keys wait for nobody.  p is
\* the product of a count, which may be linked to a task of the order.
Plan(operation, o, p) ==
    LET order == Row("sales_order", o) IN
    CASE operation = "createFromInquiry"     ->
            <<Number("QUOTATION")>> \o InsertedLines(o) \o <<Audit>>
      [] operation = "createFromQuotation"   -> lockOrder(o) \o <<Number("ORDER"), Audit, Audit>>
      [] operation = "cancelOrder"           -> <<order>> \o lockOrder(o) \o <<Audit, Audit>>
      [] operation = "confirmPayment"        -> <<Row("payment", o), order, Audit, Audit>>
      [] operation = "createWarehouseTask"   ->
            <<order, Number("WAREHOUSE_TASK")>> \o InsertedLines(o) \o <<Audit>>
      [] operation = "completeWarehouseTask" ->
            <<order, Row("warehouse_task", o), Row("discrepancy", o)>> \o lockOrder(o)
                \o <<Audit, Number("DELIVERY"), Audit>>
      [] operation = "createDeliveryRetry"   ->
            <<order, Row("delivery", o), Number("DELIVERY"), Share(Row("warehouse_task", o)), Audit>>
      [] operation = "createReturn"          ->
            <<order, Row("delivery", o), Number("RETURN")>> \o InsertedLines(o) \o <<Audit>>
      [] operation = "reportDiscrepancy"     ->
            <<Number("DISCREPANCY"), Share(ProductRow(p)), Share(Row("warehouse_task", o)),
              Share(order), Audit>>
      [] operation = "reconcileDiscrepancy"  ->
            <<order, Row("discrepancy", o), ProductRow(p), Audit>>

-----------------------------------------------------------------------------
NothingDrawn == [s \in Series |-> <<>>]

LedgerInit ==
    /\ call = [r \in Requests |-> [state |-> "NEW", order |-> Nobody, plan |-> <<>>,
                                   drawn |-> NothingDrawn]]
    /\ holder = [res \in Resources |-> Nobody]
    /\ sharers = [res \in Resources |-> {}]
    /\ nextValue = [kind \in SequenceKind |-> 1]
    /\ published = [s \in Series |-> <<>>]

Running(r) == call[r].state = "RUNNING"

withTenant(r) ==
    /\ call[r].state = "NEW"
    /\ \E operation \in Operations, o \in Orders : \E p \in ToSet(Lines[o]) :
          call' = [call EXCEPT ![r] = [state |-> "RUNNING", order |-> o,
                                       plan |-> Plan(operation, o, p), drawn |-> NothingDrawn]]
    /\ UNCHANGED <<holder, sharers, nextValue, published>>

\* A mutated form: the audit lock is not taken.
MayTake_Unlocked(r, res) == res = Audit \/ (holder[res] \in {Nobody, r} /\ sharers[res] \subseteq {r})

\* One holder, and nobody else's insert refers to the row.
MayTake(r, res) == holder[res] \in {Nobody, r} /\ sharers[res] \subseteq {r}

\* Sharers do not exclude each other.
MayShare(r, row) == holder[row] \in {Nobody, r}

\* The upsert returns next_value - 1 of what it wrote.
allocateDocumentNumber(kind) == nextValue[kind]

\* One more than the highest sequence the transaction can see.
nextSequence(r) ==
    1 + Max({0} \cup ToSet(published[Audit]) \cup ToSet(call[r].drawn[Audit]))

\* The position or number a step draws.
NextOf(r, s) == IF s = Audit THEN nextSequence(r) ELSE allocateDocumentNumber(s[2])

\* What a call has drawn after it took res; a row lock draws nothing.
Drawn(r, res) ==
    IF res \in Series THEN [call[r].drawn EXCEPT ![res] = Append(@, NextOf(r, res))]
    ELSE call[r].drawn

Take(r) ==
    /\ Running(r) /\ call[r].plan # <<>> /\ Head(call[r].plan) \in Resources
    /\ LET res == Head(call[r].plan) IN
        /\ MayTake(r, res)
        /\ holder' = [holder EXCEPT ![res] = r]
        /\ nextValue' = [kind \in SequenceKind |->
                            nextValue[kind] + (IF res = Number(kind) THEN 1 ELSE 0)]
        /\ call' = [call EXCEPT ![r].plan = Tail(@), ![r].drawn = Drawn(r, res)]
    /\ UNCHANGED <<sharers, published>>

KeyShare(r) ==
    /\ Running(r) /\ call[r].plan # <<>> /\ Head(call[r].plan) \in Shares
    /\ LET row == Head(call[r].plan)[2] IN
        /\ MayShare(r, row)
        /\ sharers' = [sharers EXCEPT ![row] = @ \cup {r}]
        /\ call' = [call EXCEPT ![r].plan = Tail(@)]
    /\ UNCHANGED <<holder, nextValue, published>>

\* A mutated form: an advisory lock of the session, which outlives the transaction.
Released_Session(r) ==
    [res \in Resources |-> IF holder[res] = r /\ res # Audit THEN Nobody ELSE holder[res]]

\* Every lock lasts as long as its transaction.
Released(r) == [res \in Resources |-> IF holder[res] = r THEN Nobody ELSE holder[res]]
NoLongerShared(r) == [res \in Resources |-> sharers[res] \ {r}]

Commit(r) ==
    /\ Running(r) /\ call[r].plan = <<>>
    /\ call' = [call EXCEPT ![r].state = "COMMITTED"]
    /\ holder' = Released(r) /\ sharers' = NoLongerShared(r)
    /\ published' = [s \in Series |-> published[s] \o call[r].drawn[s]]
    /\ UNCHANGED nextValue

\* The transaction raised: its row of number_sequences goes back as well.
Rollback(r) ==
    /\ call' = [call EXCEPT ![r].state = "FAILED", ![r].plan = <<>>]
    /\ holder' = Released(r) /\ sharers' = NoLongerShared(r)
    /\ nextValue' = [kind \in SequenceKind |-> nextValue[kind] - Len(call[r].drawn[Number(kind)])]
    /\ UNCHANGED published

Fail(r) == Running(r) /\ Rollback(r)

\* Who keeps r from what it takes next.
WaitsFor(r) ==
    IF ~Running(r) \/ call[r].plan = <<>> THEN {}
    ELSE LET next == Head(call[r].plan)
         IN  (IF next \in Shares THEN {holder[next[2]]} ELSE {holder[next]} \cup sharers[next])
                 \ {Nobody, r}

\* Requests that wait for each other in a circle.
Closed == {S \in (SUBSET Requests) \ {{}} : \A r \in S : WaitsFor(r) \cap S # {}}
Circles == {S \in Closed : \A T \in Closed : T \subseteq S => T = S}

\* PostgreSQL ends one transaction of a circle; withTenant does not try again.
AbortDeadlock(r) == (\E S \in Circles : r \in S) /\ Rollback(r)

LedgerNext ==
    \E r \in Requests :
        withTenant(r) \/ Take(r) \/ KeyShare(r) \/ Commit(r) \/ Fail(r) \/ AbortDeadlock(r)

LedgerSpec == LedgerInit /\ [][LedgerNext]_ledgerVars

\* The database grants a free lock, commits, and looks for deadlocks.
LedgerFairness ==
    \A r \in Requests :
        /\ WF_ledgerVars(Take(r)) /\ WF_ledgerVars(KeyShare(r))
        /\ WF_ledgerVars(Commit(r)) /\ WF_ledgerVars(AbortDeadlock(r))

-----------------------------------------------------------------------------
(* Properties                                                              *)

LedgerTypeOK ==
    /\ \A r \in Requests : /\ call[r].state \in {"NEW", "RUNNING", "COMMITTED", "FAILED"}
                           /\ call[r].plan \in Seq(Resources \cup Shares)
                           /\ call[r].drawn \in [Series -> Seq(Nat \ {0})]
    /\ holder \in [Resources -> Requests \cup {Nobody}]
    /\ sharers \in [Resources -> SUBSET Requests]
    /\ nextValue \in [SequenceKind -> Nat \ {0}]
    /\ published \in [Series -> Seq(Nat \ {0})]

\* numbering/index.ts "Never a duplicate" and audit/index.ts "Ordering is
\* per-organization and gapless": in every series the committed rows are numbered
\* 1, 2, 3, ... in the order of their commits, whoever failed in between.
NumberedInCommitOrder ==
    \A s \in Series : \A k \in DOMAIN published[s] : published[s][k] = k

\* A foreign key's lock is part of the circle: somebody waits to share a row, or shares
\* the row that another one of them is to lock.
ThroughAForeignKey(S) ==
    \E r \in S : LET next == Head(call[r].plan)
                IN  next \in Shares \/ sharers[next] \cap (S \ {r}) # {}

\* fulfillment/index.ts, lock ordering: the rows are locked FOR UPDATE along one chain.
\* A circle that no foreign key's lock takes part in is therefore not one of rows alone,
\* nor one of requests over the same order: it needs the audit lock, a number and as
\* many orders as requests.
RowChainNeverDeadlocks ==
    \A S \in Circles : ~ThroughAForeignKey(S) =>
        /\ \E r \in S : Head(call[r].plan) = Audit
        /\ \E r \in S : Head(call[r].plan) \in Series \ {Audit}
        /\ \A q, r \in S : q # r => call[q].order # call[r].order

\* The calls under way all end, each in its commit or in an error, whatever it waits
\* for: the audit log's lock and the numbers' row locks are given back by every ending.
CallsEnd == (\E r \in Requests : Running(r)) ~> (\A r \in Requests : ~Running(r))
=============================================================================
