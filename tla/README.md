# A verification project for the distributor operating system

The repository under `src/` is a multi-tenant TypeScript application (Next.js, Prisma,
PostgreSQL) that takes a wholesale distributor from a customer's message to goods delivered
and paid for. This directory models it in TLA+ — the order-to-delivery core, the desks in
front of it, and what all of them share (locks, numbers, connections, privileges) —
model-checks small instances with TLC, and proves the central facts for every instance with
TLAPS.

All paths below are relative to the root of the repository as mounted (`src/...`), so
`src/src/modules/orders/index.ts` is the application's `src/modules/orders/index.ts`.

## 1. The system

### Components and what they keep

| Component | State (tables) | Operations that change it |
|---|---|---|
| inquiries (`inquiries/*.ts`) | `inquiries`, `inquiry_items` | parse, confirm/correct/reject/add an item, mark ready, cancel |
| quotations (`quotations/*.ts`) | `quotations`, items, `quotation_approvals` | create from an inquiry, edit, submit, approve, reject, send, cancel, record an answer |
| follow-ups (`followups/index.ts`) | `quotation_follow_ups` | schedule, complete, snooze, close |
| orders (`orders/index.ts`, `reservation.ts`) | `sales_orders`, `sales_order_items`, `stock_reservations`, `products.reserved_stock` | convert an accepted quotation, cancel an order |
| fulfilment (`fulfillment/index.ts`, `state.ts`, `consumption.ts`) | `warehouse_tasks` and items, `deliveries`, consumption movements | create/start/prepare/cancel a task, tick items, hand over, record a collection, assign/dispatch/complete/fail a delivery |
| inventory and catalogue (`inventory/index.ts`, `discrepancy.ts`, `catalog/index.ts`, `movements.ts`) | `products.available_stock`, `inventory_movements`, `inventory_discrepancies` | create a product, adjust stock, report/review/reconcile/cancel a count, give way to a shortage |
| failed deliveries and returns (`inventory/index.ts`, `returns-model.ts`) | `returns` and items, `deliveries.resolution`, `sales_orders.operationalException` | retry, write off, open/receive/inspect/complete/withdraw a return |
| payments and receivables (`payments/*.ts`) | `payments`, `sales_orders.paymentStatus` and `fulfillmentStatus` | submit, extract evidence, correct, review, confirm, reject; the list of debts is a query |
| imports (`imports/*.ts`) | `import_jobs` and the rows they create | preview and commit of products, customers, opening stock |
| numbering and audit (`numbering/`, `audit/`) | `number_sequences`, `audit_events` | draw a number, append to the chain |
| identity and roles (`identity/`, `platform/rbac`, rate limits) | `sessions`, memberships, the limiter's windows | sign in, sign out; every request resolves its session again |
| tenancy (`platform/db`) | the setting of each pooled connection | `withTenant` |
| database role (`scripts/provision-app-role.ts`, `maintenance-mode.ts`, migrations) | privileges of `distributor_app` | provision, enter and leave maintenance, create and protect a table |
| pure computations (`platform/money`, `platform/time`, pricing, approval rules, matching, csv, templates, reporting, brief) | none | none |

### How they interact

Services do not call each other's write functions (numbering, audit and follow-ups excepted)
and exchange no messages. They meet in the **tables**: fulfilment reads the order, its lines
and its reservations and writes all of them; inventory writes reservations and order lines
when stock runs short; payments writes the order's statuses, which fulfilment reads to decide
whether a cash order may leave; returns restock products; a quotation reads the customer's
credit standing each time it is recalculated. One user request is one `READ COMMITTED`
transaction (`withTenant`, `src/src/platform/db/tenant.ts`), and there are three mechanisms
between two transactions:

* **locks** — nearly every function locks the row it is about first, then tasks, deliveries,
  returns, discrepancies and products in id order; an audit record takes one advisory lock of
  the organisation and a number one row per kind;
* **constraints** — `CHECK (0 <= reserved <= available)`, partial unique indexes (one live
  order per quotation, one live task and delivery per order, one confirmed payment per
  reference), foreign keys, whose inserts wait for whoever has locked the row they name, and
  triggers that freeze decided rows; the follow-ups of a quotation have no such index;
* **stored figures that are compared before use** — a count remembers the stock it was taken
  against; Finance confirms a hash of what was on the page; an approval carries the hash of
  what was approved.

A service that *returns* a failure does not roll back: `withTenant` only rolls back when an
exception is thrown. Whatever was written before the failure is committed. This is modelled
wherever a function writes before its last check.

### What is hard about it

* reads before locks: conversion reads quotation and existing order first; reporting a count
  and submitting or correcting a payment lock nothing themselves; reviewing an inquiry and
  completing or snoozing a follow-up take no lock at all; a sending locks the quotation but not
  the customer whose standing it reads;
  extraction and parsing span two transactions around a slow provider call;
* copies that must agree: `reserved_stock` (of the reservation rows), `reservedQuantity` (of
  a reservation), a task's quantities (of the lines when it was made), the order's payment
  status (of the confirmed payments), the approved hash (of the figures), the ledger (of
  everything);
* long legal sequences: cancel and convert again, retry a failed delivery, open and withdraw
  a return, edit an approved quotation and edit it back, change a role in the middle;
* committed half-failures, scripts that can be cut short, transactions ended by a deadlock;
* arithmetic at boundaries: rounding, remainders, days of 23 and 25 hours, cells with line
  breaks.

`PROJECT.json` lists each of these as a hazard at the line where it bites, with the
properties aimed at it.

## 2. Modules

```
the yard         Sums, Records, Orders, Fulfillment, Inventory, Returns, Payments
                 Distributor    all five services interleaved, and their properties
                 Dashboard      the lists people work from, over Distributor
                 StockPromise   the abstract specification of the stock tables
                 Expectations   what the repository says and the code does not do
                 MCDistributor  values for the constants

front office     Inquiries      one inquiry: parses, reviews, readiness, conversion
                 Quotations     one quotation, with FollowUps, Pricing, ApprovalRules
                 Access         sign-in, sessions, requests, with Roles
                 Figures        questions put to the pure modules:
                                Money, Pricing, ReportingDays, Receivables, Matching,
                                Templates, Reporting
                 FrontOffice, MCFrontOffice    the four desks, and their instance

the office       Inquiries again (for its liveness), and
                 Ledger         locks, numbers and audit positions of ten operations
                 Imports        files, products, counts, movements one by one
                 TenantPool     organisations behind one pool of connections
                 Grants         privileges under migrations, provisioning, maintenance
                 Office, MCOffice              the five desks, and their instance

proofs           Stock_proofs                     types, reservations, handover
                 Payments_proofs                  the order lock, money, the refinement
                 Road_proofs                      deliveries, returns, the lists
                 Sums_proofs                      induction, sums, lists in an order
                 Figures_proofs                   about the pure modules
                 Inquiries_proofs                 about Inquiries, for both of the next
                 FrontOffice_proofs               about Quotations, FollowUps, Access, Figures
                 Office_proofs                    about Ledger, Imports, TenantPool, Grants
```

### The yard

`Records` declares one variable per table. A row that was not inserted has the status
`"ABSENT"`; the sets `OrderIds`, `TaskIds`, ... bound how many rows can ever be inserted.
Foreign keys, unique indexes and enumerations are the schema's. Timestamps, document numbers,
names, notes and the audit trail are left out. One organisation is modelled here; that two of
them share nothing but connections is `TenantPool`'s question.

**Atomicity.** A function that locks the order before it reads anything, and keeps the lock
to its commit, is one action. The functions for which that is not true are split, and the
progress of each is a variable:

| In flight | Between | Why |
|---|---|---|
| `creating` | `CheckQuotation` → `ReserveAndCreate` / `GiveUpCreation` | conversion reads quotation and existing order unlocked, then locks only the products |
| `handover` | `BeginHandover` → `FinishHandover` / `GiveUpHandover` | open counts are looked for once, and the consumption comes later; what happens in between is up to the locks, and a count waits for them only because its insert takes KEY SHARE on its task and order (`FileCount`) |
| `confirming` | `BeginConfirm` → `CommitConfirm` / `GiveUpConfirm` | the duplicate-reference check runs under the locks of one order; the index decides at the update |
| `extracting` | `StartExtraction` → `FinishExtraction` / `GiveUpEdit` | the provider call is between two transactions |
| `correcting` | `StartCorrection` → `FinishCorrection` / `GiveUpEdit` | the status is read without a lock |
| `reviewed` | `assessPayment` → `BeginConfirm` | the page Finance confirms may be old |
| a discrepancy in `COUNTING` | `CountShelf` → `FileCount` | the product is read, then the row inserted |

`Unlocked(o)` in the guards of the other actions is the order row's lock: while a handover or
confirmation on `o` is in flight, whoever needs the lock waits. `GiveUp...` stands for every
way a transaction ends without a commit (a refusal, a constraint, a lost connection); retries
are the same actions taken again.

Other modelling decisions a reader of the code should know:

* `WriteStock` carries the `CHECK` constraint as a guard: an update that breaks it raises and
  the transaction rolls back, so the step does not happen.
* `submitPayment` read the order `OPEN` at some earlier moment without a lock; every order
  that exists was `OPEN` once, so its guard is that the order exists.
* the confirmation hash is optional in the service, but the only form that calls it always
  posts it, so `BeginConfirm` always compares the payload.
* the fingerprint is modelled by the payload it covers: the fields that can change (amount,
  reference, outstanding balance, blocking factors). `blockingFactors` has two of the three
  factors; a currency mismatch cannot arise because a payment's currency is copied from its
  order.
* adjustments and restocked lines of zero write no movement in the code and change nothing in
  the model.
* movements are summed per product and type; their order is `Imports`' question.
* `idempotent` early returns (cancelling a cancelled order, confirming a confirmed payment,
  completing a completed task) change nothing and are stuttering steps.

`Dashboard` adds no state. It reads the dashboard's counts and the attention queue off the
tables as sets, so that one property can ask what no unit test does: whether an order that still
needs something done can be on none of them. Entries that appear only after some hours are
there from the start.

### The front office

The four desks of `FrontOffice` share no state; `desk` says which one a behaviour looks at, so
the state space is their sum and not their product. `FrontOffice` and `Office` extend the modules of
their desks, so a property checked by a run is the definition a theorem names; `Null` declares the
value of an empty column for those that share it.

* **Inquiries** — no operation of `inquiries/index.ts` locks the inquiry, so each is split
  between its reads and its writes: a parse into `ReadForParse`, `StartParse` (the first
  transaction commits PARSING), the provider, `ReceiveAnswer` (the proposals its second
  transaction can see), `WriteProposals`; a review into `BeginReview` and `FinishReview`; marking
  ready into `BeginMarkReady` and `markReadyForQuote`; conversion into `BeginQuote` and
  `FinishQuote`. A parse can fail (`FailParse`) or lose its process (`LoseParse`). What the
  provider says is any line the contract lets through.
* **Quotations** — every operation locks the quotation row and is one action, except sending
  (`BeginSend` → `markSent`), because the customer's standing it read can change before it commits,
  and recording an answer (`BeginAcceptance`/`BeginRejection` → `RecordAnswer`), because the
  follow-ups it closes can be completed meanwhile. `deciding` holds the row's lock in between, and
  either can be rolled back (`AbandonDecision`). `FollowUps` splits completing and snoozing between
  read and write (`chase`), with nothing to keep two of them apart: `Schedule` inserts whatever number
  the follow-up it read gives. A payload hash is the payload.
  `recalculate` stores it on every call, also on one that then refuses. The customer's standing
  changes at any moment (`SetStanding`), an approver may have an old form open (`shown`), days
  pass (`NextDay`). Totals are functions of the figures (`Pricing`), so the payload leaves them
  out. `setNotes` changes nothing that is approved.
* **Access** — sign-in reads the account and its membership, verifies the password, and opens a
  session for what it read; a request resolves its session, checks its permission and only then begins its transaction, and
  roles and accounts change in between. `Roles` is the permission table with the acts it keeps
  apart.
* **Figures** — one question is asked of one pure module per behaviour. `SamplesAreRows` says what a
  question may be; TLC asks samples chosen to straddle every boundary the code has, the theorems
  are about all of them. The pure modules are operators without state. Loops of the code are
  recursive functions (`scan` in `Templates`) or sums over sets; a comparator is an order (`Before`,
  `Ranked`) and the sorted list is the one in that order. A zone is whole hours before and after one
  change of its clock. A file is its characters, with three kinds of line ends; a numeric cell is its
  digits. The dashboard of a role is its sections, each by the names of its counts and amounts, and the
  list of what needs attention, cut off; the brief is the numerals in its three texts.

### The office

* **Ledger** — what ten operations lock and draw, in the order of their code (`Plan`). A call
  takes the next thing on its list when nobody else holds it (`MayTake`), commits and publishes
  what it drew, or is aborted; PostgreSQL ends one call of a circle (`AbortDeadlock`) and
  `withTenant` does not try again. What a call has drawn is kept per series. An insert's foreign keys
  are part of the plan (`Share`): they take KEY SHARE, which several calls may have (`sharers`) and
  which FOR UPDATE waits for. Rows a call has locked itself, or has just inserted, are left out of it,
  and so are organisations and users, which nobody locks.
* **Imports** — opening stock is previewed, then written row by row, the lowest sku of what is left first; a row that
  finds stock raises and takes the earlier rows back. Products are created and adjusted beside it, so
  movements are kept one by one.
* **TenantPool** — a call borrows a connection, sets its organisation for the transaction, runs
  statements of the ORM (filtered by the client extension) or raw SQL (filtered by the policies
  only), and gives it back. Calls outside `withTenant` set nothing.
* **Grants** — each statement of the scripts commits by itself and the script may be cut short
  after it; migrations come at any time.

Operators whose comment begins "A mutated form" are not used by the model. Each is a
plausible mistake in one definition, and TLC finds the property it breaks when the definition
is replaced by it (`PROJECT.json`, "mutants").


## 3. What is checked

| Run | Instance | Properties | Distinct states |
|---|---|---|---|
| `reserve` | 2 products, 2 competing quotations, 2 orders, 2 conversions at once, adjustments of ±1 | `AggregateMatchesRows`, `OneLiveOrderPerQuotation`, `ItemMirrorsReservation` | 355 k |
| `promise` | 2 orders on one product; a task, a delivery, a return, a count, an adjustment of −1 | `KeepsStockPromise` (refinement), `HandoverConsumedTheReservation`, `StockAccountedFor`, `NoHandoverOverAnOpenCount` | 781 k |
| `road` | a two-product load, 3 attempts, 2 returns | `TypeOK`, `GoodsInOnePlace`, `RestockBounded`, `CompletedOrderWasServed`, `ReadyOrdersAreOnAList` | 21 k |
| `cash` | a cash quotation converted up to twice, 2 tasks, 2 payments of 1 or 2 | `CashGoodsAfterPayment`, `CancelledOrderHoldsNothing`, `PaymentStatusIsEarned`, `OneHandoverPerOrder`, `ConfirmedAsReviewed` | 308 k |
| `transfers` | 2 orders, 2 payments that may carry one reference | `NoReferenceConfirmedTwice` | 651 k |
| `front_office` | one inquiry of up to 2 lines, 2 parses and a review; one quotation of up to 2 lines, 2 edits, 3 follow-ups with a cap of 2, 2 chases under way; one user, session, login and request; 12 families of samples | `QuotedLinesAreDecided`; `SentAsApproved`, `SentOnAStandingApproval`, `ChasesAreAccountedFor`; `SeparateHands`; `AmountsAreExact`, `DaysAndWindowsTile`, `DebtListsAgree`, `ProposalsAreEvidence`, `CellsAndAmountsAreKept`, `BriefSaysOnlyItsFigures`; `FrontOfficeTypeOK` | 1.78 M |
| `office` | one inquiry line, 2 parses, a review; 2 transactions of any of 10 operations on 2 orders whose lines name 2 products in opposite order; 2 imports of 4 files over 2 products with 3 movements each; 2 organisations, one connection, 3 calls; 4 tables | `ParsingEnds`; `NumberedInCommitOrder`, `RowChainNeverDeadlocks`; `LedgerExplainsStock`, `ImportedWhole`; `OwnRowsOnly`; `StatusIsTruthful`, `ProvisioningReprotects`; `NobodyWaitsForEver`; `OfficeTypeOK` | 126 k |

**Bounds.** Each run gives its question the actors the question needs and no rows to the rest:
two of whatever competes (orders, conversions, tasks, payments, parses, transactions, imports,
organisations), three delivery attempts so that a retry of a retry exists, two returns so that
one can be withdrawn and another opened, quantities up to two so that a reservation can shrink
without vanishing and a payment can be partial, and enough stock for one of two competitors but
not both. `MaxEdits` and the three follow-ups let a quotation be edited, approved, edited back and
sent, a chase run to the cap, and two requests on one follow-up overlap. One connection for three calls makes the next borrower follow
the last. The four tables stand for what the maintenance script treats differently: an ordinary
one, one it knows to be append-only, one it does not know, and one with DELETE revoked only. The
samples of `Figures` straddle every boundary of the code: ties of every rounding mode on both sides
of zero, zero weights, clocks that change by an hour forwards or backwards at each hour from midnight
to three, west and east of Greenwich and on it, moments at which the local date and the UTC date
differ and at which they do not, events on both edges of a window, cells made of quotes, commas, line
breaks and spaces under each kind of line end, amounts with every grouping of digits. Row identities, requests and
references are interchangeable, so symmetry is used in the safety runs of the yard; quotations only
where they ask for the same on the same terms. `Deltas`, `MaxStock`, `MaxMovements` bound
adjustments, counts and movements. The customer's address changes only where orders may be
delivered (`TRUE \in DeliveryChoices`), because nothing else reads it.

**Deadlock.** Every configuration says `CHECK_DEADLOCK FALSE`: when the finite row identities
are used up and everything has ended, nothing is left to do. Whether transactions can wait for each
other is a property instead: `RowChainNeverDeadlocks` says of every circle of waiting in `Ledger` that,
unless the KEY SHARE of a foreign key takes part in it, it is not one of rows alone, nor of one order:
it needs the audit lock, a number and as many orders as calls. Circles through foreign keys do exist
(below), and `NobodyWaitsForEver` says that all calls end nevertheless.

**Fairness.** Nothing in `src/src` schedules work, so no user ever *has* to act and no liveness is
claimed of orders, quotations or payments; "stuck for good" is stated as safety there
(`DebtCanBePaid`, `ShippedOrderHasADelivery`). Four things do go on by themselves, and only they are
fair (weakly), in `office`:

* `InquiryFairness` — a request of the server that started a parse runs on, until it has answered,
  failed, or its process is lost (`LoseParse`; the property excepts that case, in which the code has no
  recovery but another parse);
* `LedgerFairness` — PostgreSQL grants a free lock, a transaction with nothing left to do commits,
  and the deadlock detector ends one transaction of a circle;
* `ImportFairness` — an import that writes goes on to its next row or its refusal;
* `PoolFairness` — a waiting call gets a free connection or runs into the pool's timeout. A call that
  *has* a connection may keep it for ever, so `RequestsAreAnswered` rests on the timeout.

### Disagreements between the code and what it says of itself

Five runs each end with a counterexample (`PROJECT.json`, "findings"; `Expectations` and `Grants`):

* **`no_address`** — an order for delivery whose address is missing is handed over: stock,
  reservations and task are written, *then* the function returns a failure
  (`fulfillment/index.ts:703`), and a returned failure is committed. The goods are gone, no
  delivery exists, and no operation can create one. The comment calls the sequence one
  transaction.
* **`debt_locked`** — a credit order that was delivered or collected is COMPLETED, and payments
  can only be recorded and confirmed on an OPEN order, so the debt "stays in receivables" for
  good.
* **`rejected_reopens`** — an extraction or correction that was under way when Finance rejected
  the payment sets it back to NEEDS_REVIEW, although REJECTED is called terminal.
* **`grants_return`** — lifting maintenance (`scripts/maintenance-mode.ts:93`) takes back write
  privileges from four tables, while the migrations made seven append-only; the other three
  can be changed again, although the script says it restores "nothing more".
* **`overdue`** — the list of receivables asks what is overdue on the UTC date
  (`payments/receivables.ts:22-35`), the dashboard on the organisation's (`reporting/definitions.ts:270`).
  From midnight to three in the morning in Ethiopia a debt that was due yesterday is overdue on one
  screen and due today on the other, which is what `definitions.ts:8-15` was written to prevent.
  `DebtListsAgree` says that they differ by exactly such debts.

Met while modelling, visible in the definitions, and sequential enough not to need a run. In the
yard:

* a quotation that names one product on two lines can never be converted
  (`orders/index.ts:156` compares deduplicated ids with the number of lines), though
  `reservation.ts:68-70` sums such lines on purpose (`EveryLineHasItsProduct`);
* a count is refused only when the figure *differs* (`discrepancy.ts:142`), so stock that moved
  away and back lets a stale count through; `inventory/index.ts:270` says it is refused when
  stock has moved (`StockHasNotMoved`);
* an order shortened by a shortage is picked, shipped and completed with less than agreed,
  though `fulfillment/index.ts:289` says there is no partial fulfilment (`createWarehouseTask`);
* a PENDING task survives its order's cancellation and can be started and prepared
  (`fulfillment/index.ts:248` does not read the order's status; `state.ts:269-270` says cancelling
  releases it). The handover itself is refused;
* withdrawing a return leaves GOODS_RETURNED on the order, and the retry only clears
  DELIVERY_FAILED, which nothing sets (`inventory/index.ts:685-686`);
* an inspection refused at a later line leaves the earlier lines saved
  (`inventory/index.ts:1007`, `inspectReturn` with `all = FALSE`);
* `orders/index.ts:109` says the products are locked before the quotation is read; it is the
  other way round (`CheckQuotation` before `ReserveAndCreate`);
* `orders/index.ts:395` advises to record a refund; no such operation exists;
* a cash order whose total is zero (a selling price of zero is accepted, `catalog/index.ts:118`) is
  settled from the start but only a confirmed payment, which needs an amount, marks it READY; it can
  only be cancelled;
* the dashboard's lists forget an open order in the cases of `KnownGaps`: a collection nobody recorded,
  no address, goods restocked after a return, and a loss nobody had paid for.

In the front office:

* nothing locks an inquiry: two clicks start two parses, and an edit or a parse that races
  `markReadyForQuote` leaves a READY inquiry with lines nobody reviewed. `QuotedLinesAreDecided` holds
  because the conversion reads the lines again;
* a process lost during a parse leaves PARSING until somebody parses again; PARSE_FAILED and
  READY_FOR_QUOTE inquiries are in no queue of the pipeline; an inquiry without a customer can become
  READY and never be quoted;
* a unit nobody knows is stored as no unit (`inquiries/index.ts:266`) and then passes as assumed
  (`catalog/units.ts:142`), although the gate says an unknown unit does not; `ALLOWED_UNITS` has `box` and
  `set`, which the matcher's list of units lacks;
* a SENT quotation whose customer's standing has changed cannot be accepted (the recalculated hash
  differs, `quotations/index.ts:1243`) nor edited, until the standing is restored;
* a chase completed while the answer arrives can have scheduled the next before it, unseen by it, and
  nobody closes that one;
* two people who complete one follow-up at once both schedule the next one, though
  `followups/index.ts:89` says that this would double the queue entry; and a snooze that overlaps a
  completion reopens a follow-up that `followups/index.ts:37-38` calls terminal
  (`ChasesAreAccountedFor` excepts exactly the follow-ups on which two requests overlapped);
* a customer suspended while a quotation is being sent is sent it on credit: the standing is read
  without a lock before the writes (`quotations/index.ts:1115`, `SentOnAStandingApproval` is about
  what was read);
* the limiter of sign-in is per process, and snoozed follow-ups whose date has passed are not counted
  as due;
* in the table of roles the owner may submit and confirm one payment, WAREHOUSE may adjust stock, and
  SALES_MANAGER lacks `read:payment` while the dashboard's money scope shows it payment claims;
  `SeparateHands` is about the pairs the code's comments separate;
* `parseDecimal` (`money/index.ts:269`) and the tax column of a product file (`imports/templates.ts:329`)
  strip commas, so "7,5" becomes 75, although `templates.ts:108-121` explains why an imported amount
  must not (`CellsAndAmountsAreKept` is about prices, limits and counts); `allocate` has no caller;
* where the clock changes at midnight, or falls back onto it, `startOfLocalDay` puts one hour into the
  wrong day, although `time/reporting.ts:85-87` says that the offset is applied twice to be right
  beside a change; `HourAstray` in `Figures` is that hour;
* a carriage return alone inside a quoted cell breaks the line in the spreadsheet but not in the count
  of lines (`csv.ts:102` counts `\n` only), so later errors are reported too high up;
* two products that tie on an exact name leave the proposal at a confidence of 0.9, which is still
  the strong band, although it is flagged as ambiguous (`catalog/matching.ts:309`).

In the office:

* the audit lock and a number row are taken in opposite orders by a handover and a retry or a return,
  so two requests on two orders can be ended by the deadlock detector; nothing retries;
* so can two requests over rows alone, or over one order, through the locks of foreign keys: a task's
  items name their products in line order (`fulfillment/index.ts:176-191`) while a conversion, a
  cancellation or a handover locks products ascending, and a count names its task and its order
  (`inventory/index.ts:147`) while a handover of that order locks them the other way round.
  `fulfillment/index.ts:43-45` says that two such operations cannot take locks in opposite directions;
* numbers of transactions that roll back are issued again; `numbering/index.ts:20` says a rolled-back
  transaction consumes its number;
* a product whose stock is back at zero can receive a second opening balance, although the message
  says it is set once (`imports/index.ts:425`);
* a migration or a provisioning run during maintenance opens writes again; a provisioning run cut
  short between the grant and the revokes leaves append-only tables writable until it is run again;
* the dashboard's cards are separate statements at READ COMMITTED and may lie on either side of a commit.

## 4. What is proved

For **every** number of rows, organisations, tables and transactions in flight, and every value of
the other constants that meets the assumptions below:

| Theorem | Statement |
|---|---|
| `Stock_proofs!TypeCorrect` | `Spec => []TypeOK` |
| `Stock_proofs!RowsAndLocks` | `Spec => []TypeInvariant` |
| `Stock_proofs!StockIsConsistent` | `Spec => []StockInvariant` |
| `Stock_proofs!AggregateIsExact` | `Spec => []AggregateMatchesRows` |
| `Stock_proofs!PromisesHold` | `Spec => []PromisesAreCovered` |
| `Stock_proofs!LinesMirrorReservations` | `Spec => []ItemMirrorsReservation` |
| `Stock_proofs!HandoverIsExact` | `Spec => []HandoverConsumedTheReservation` |
| `Stock_proofs!GoodsLeaveOnce` | `Spec => []OneHandoverPerOrder` |
| `Payments_proofs!LocksAreExclusive` | `Spec => []LockInvariant` |
| `Payments_proofs!OneClaimPerTransfer` | `Spec => []NoReferenceConfirmedTwice` |
| `Payments_proofs!StatusIsEarned` | `Spec => []PaymentStatusIsEarned` |
| `Payments_proofs!CashBeforeGoods` | `Spec => []CashGoodsAfterPayment` |
| `Payments_proofs!CancellationIsClean` | `Spec => []CancelledOrderHoldsNothing` |
| `Payments_proofs!FinanceConfirmsWhatItSaw` | `Spec => ConfirmedAsReviewed` |
| `Payments_proofs!QuotationsConvertOnce` | `Spec => []OneLiveOrderPerQuotation` |
| `Payments_proofs!CountsStopHandovers` | `Spec => NoHandoverOverAnOpenCount` |
| `Payments_proofs!StockPromiseIsKept` | `Spec => KeepsStockPromise` (the refinement) |
| `Road_proofs!OneLoadInOnePlace` | `Spec => []GoodsInOnePlace` |
| `Road_proofs!ReturnsAreBounded` | `Spec => []RestockBounded` |
| `Road_proofs!ShelfIsExplained` | `Spec => []StockAccountedFor` |
| `Road_proofs!CompletionMeansService` | `Spec => []CompletedOrderWasServed` |
| `Road_proofs!OpenOrdersAreShown` | `Spec => []ReadyOrdersAreOnAList` |
| `FrontOffice_proofs!FrontOfficeTypesHold` | `Spec => []FrontOfficeTypeOK` |
| `FrontOffice_proofs!QuotedLinesAlwaysDecided` | `Spec => []QuotedLinesAreDecided` |
| `FrontOffice_proofs!AlwaysSentAsApproved` | `Spec => []SentAsApproved` |
| `FrontOffice_proofs!AlwaysSentOnAStandingApproval` | `Spec => SentOnAStandingApproval` |
| `FrontOffice_proofs!ChasesAlwaysAccountedFor` | `Spec => []ChasesAreAccountedFor` |
| `FrontOffice_proofs!HandsAlwaysSeparate` | `Spec => []SeparateHands` |
| `FrontOffice_proofs!AmountsAlwaysExact` | `Spec => []AmountsAreExact` |
| `FrontOffice_proofs!DaysAndWindowsAlwaysTile` | `Spec => []DaysAndWindowsTile` |
| `FrontOffice_proofs!DebtListsAlwaysAgree` | `Spec => []DebtListsAgree` |
| `FrontOffice_proofs!BriefAlwaysGrounded` | `Spec => []BriefSaysOnlyItsFigures` |
| `FrontOffice_proofs!ProposalsAlwaysEvidence` | `Spec => []ProposalsAreEvidence` |
| `FrontOffice_proofs!CellsAndAmountsAlwaysKept` | `Spec => []CellsAndAmountsAreKept` |
| `Office_proofs!NumbersFollowCommits` | `LedgerSpec => []NumberedInCommitOrder` |
| `Office_proofs!OnlyTwoOrdersDeadlock` | `LedgerSpec => []RowChainNeverDeadlocks` |
| `Office_proofs!LedgerAlwaysExplainsStock` | `ImportSpec => []LedgerExplainsStock` |
| `Office_proofs!AlwaysImportedWhole` | `ImportSpec => []ImportedWhole` |
| `Office_proofs!GrantsAreConsistent` | `GrantsSpec => []GrantsInvariant` |
| `Office_proofs!StatusCanBeTrusted` | `GrantsSpec => []StatusIsTruthful` |
| `Office_proofs!ProvisioningIsSafeToRepeat` | `GrantsSpec => ProvisioningReprotects` |
| `Office_proofs!OrganisationsAreApart` | `PoolSpec => []OwnRowsOnly` |
| `Office_proofs!OfficeTypesHold` | `Spec => []OfficeTypeOK` |
| `Office_proofs!OfficeIsSafe` | `Spec =>` all of the office's properties above |

With these, every safety property the passing runs check is a theorem: invariants, action properties
and the refinement.

**Assumptions.** `RowIdsAreFinite` (finitely many rows are ever inserted, so sums are defined),
`QuotationsAreTyped` (lines name products and positive quantities; totals and opening stock are
naturals), `NoneIsNoRow` (NULL is not an id), `DeliveryBounds`, `InventoryBounds`, `PaymentBounds`
(the enumerated inputs have their types), and `OrgsAreOrgs` (neither NULL nor what a setting holds
outside a transaction is an organisation). Of the front office: `NoneIsNoItem`, `NoneIsNoFollowUp`,
`NobodyIsNobody` (an empty column is not a row), `UnitsAreCanonical` (the catalogue stores canonical
units), `ChoicesAreTheForms` and `LinesArePriced` (what the forms offer and the catalogue has: credit
terms of 7, 15 or 30 days, discounts of at most 100 %, quantities above zero, prices of zero or more, a
policy in basis points), `SomebodyIsChased` (the cap is at least one), `StaffHasARole`. Of the figures,
`SamplesAreRows`: the rows are finitely many and have the types of their tables, no two with one number
or SKU; nothing is divided by zero and nothing split by weights of nothing, which raise; a clock changes
once, by an hour at most (`LocalZone`; offsets are whole hours); a name has finitely many trigrams, and what is asked for has some; a
table is a row of two cells of any text and one of three line ends; a numeric cell has digits after a point only if it has a point.
Of the office: `NobodyIsNoRequest`, `LinesNameProducts` (ids can be sorted: the lines of an order name products by
number), `OperationsAreModelled` (the calls are among the ten whose plans are written down),
`ContentIsRows` and `ImportBounds` (a file has rows of SKUs and quantities, and stock figures have a
bound). TLC evaluates them on every run.

**Sums of rows.** `Total(f)` is the cardinality of a disjoint union of `f[x]`-element sets, which needs no
recursion; `Stock_proofs` begins by deriving from the library's facts about finite sets that a
sum is a natural, that changing one entry changes it by the difference (`TotalUpdate`), and that it
bounds each entry.

**Types.** `TypeOK` is not inductive. What a return may claim is copied from the task its delivery
names, and what is outstanding from the quotation of a payment's order, so both must exist:
`ForeignKeys`. A transaction in flight writes to rows it checked earlier, so they must still be
there: `WorkInFlight` (a task being handed over is still PREPARED, because whatever would move it
needs the order's lock). `TypeInvariant` is the three together; `KeepsRows` says that a step only
inserts rows or leaves a row naming what it named, and gives `ForeignKeys'`. That the CHECK
constraint is a guard is what keeps `stock` in `Nat` (`WriteStockTyped`).

**Stock.** `AggregateMatchesRows` needs to know, for each action that changes reservations, that the
aggregate moves by the change of that order's part (`PromisedChange`). For the handover this is the
whole argument: the code subtracts the quantities of the *task* and consumes *every* ACTIVE
reservation of the order. They agree because `planConsumption` compares the products the task
lists, and — the part the code does not check — because a task that is being worked on lists every
product its order holds: `TasksListWhatIsHeld`. That holds from the task's creation
(`ItemMirrorsReservation`, and an ACTIVE reservation is never empty: `ReservationsBelongToOrders`)
and survives because reservations only shrink afterwards. `ConsumedByATask` says that a cancelled
order never had anything consumed, so zeroing its lines is right.

**Handover.** `HandoverConsumedTheReservation` needs that no other task of the order has consumed
before: `OneLiveTask`, the unique index. Once a task is complete, cancellation is blocked, a
shortfall needs an ACTIVE row, and conversion writes a fresh order, so the rows stay as they are.

**The order lock.** `LockInvariant` says what `FOR UPDATE` on the order buys and no line of the code
states: while a handover or a confirmation is in flight its order stays OPEN, nothing else in flight
works on that order, and the payment being confirmed can still be reviewed. `ReviewStands` adds that
the amount, the reference and the outstanding balance Finance saw still hold when the commit is taken,
and that nothing has come to block the payment except a payment confirmed since with its reference, in
which case the index refuses the commit. That gives `ConfirmedAsReviewed`.

**Money.** `MoneyInvariant` carries five facts that need each other. The payment status of an order is
what its confirmed payments add up to (`PaymentStatusIsEarned`; the sum changes by one entry, so
`TotalUpdate` gives the new balance), no reference is confirmed twice, every live task of a cash order
has its money behind it (`CashTasksArePaid`: a PENDING one too, because nothing between the task's
creation and the handover looks at the payment again), an order whose fulfilment is cancelled is
cancelled (`CancelledTogether`), and a cancelled order keeps nothing. The sums only grow: no operation
takes a confirmation back.

**Counts and handovers.** `CountsStopHandovers` needs one invariant beside the types: while a handover is
in flight no count stands against its task (`NoCountInFlight`). It holds when the handover begins because it
looks, and stays true because filing a count needs the order's lock that the handover has; reviewing or
reconciling one starts from an open count.

**One order per quotation.** `CheckQuotation` reads "no order yet" without a lock, so any number of
requests may believe it. `OrdersInvariant` needs only the partial unique index at the insert, that a
cancelled order stays cancelled, and that a row that was not inserted names no quotation.

**The refinement.** `PromiseStep` maps each step of the yard: conversion to a hold
(`ConversionHolds`), cancellation to letting go of it (`CancellationLetsGo`), a resolved shortfall to
letting go of part of it (`ShortfallLetsGo`), the handover to handing over exactly what is held
(`HandoverHandsOver`, where `TasksListWhatIsHeld` is needed once more), adjustments, applied counts and
restocking to corrections that spare what is held (the CHECK constraint), and everything else to a
stutter (`OtherStepsCorrect`).

**Goods on the road.** `RoadInvariant`: a delivery carries the goods of a completed task, and only a failed
one has been decided about (`DeliveriesFollowTheirTask`); of all attempts for one task at most one has
the goods (`OneHolder`: a retry takes them from the attempt it repeats); a return that was not
cancelled is about a failed delivery that is still to be returned, and claims exactly what its task
took (`ReturnsFollowTheirDelivery`); there is one such return (`OneReturn`). `CompletedTasksStay` makes the
copied quantities lasting. `GoodsInOnePlace` and `RestockBounded` follow without another induction.

**The ledger.** `StockAccountedFor` is four sums per product. Each step changes at most one entry of one
of them: an adjustment or an applied count (`CorrectionIsAccounted`), a handover, whose consumption is
counted by the completed task (`HandoverIsAccounted`), and a completed return (`ReturnIsAccounted`).
All others leave the sums alone (`NothingMoved`).

**Completion.** `Served` is what `assessCompletion` asks at the moment of completion: goods gone, and
delivered or picked up. It survives because a completed task, a recorded pickup and a DELIVERED row stay so
(`ServiceStays`), and no retry, decision or return starts from a delivered delivery.

**The lists.** That an order cannot fall off every list needs to know where it can be: an order with a
task that was not cancelled is released (`ReleasedTask`), and for each delivery some attempt at its task
has the goods; goods to be returned have a return that was not cancelled, and what was delivered closed
its order (`Tracked`). From that state each case is on a list by the definitions of `Dashboard`.

**Grants.** The status looks at INSERT alone. It can be trusted because of `InsertGoesLast`: every
list of privileges the migrations and scripts take back spares INSERT, except the switch, which takes
all three together; so a table without INSERT has nothing. `WorkedOffIsProtected` says that while
provisioning works through its list, what is no longer on it is either not protected or revoked,
also when a migration protects a table in between; an empty list then gives the action property.

**The pool.** `SettingIsTheBorrowers`: the setting of a lent connection is the organisation of the
call that has it, and no organisation if the call has none; a free connection is set to none, because
a local setting ends with its transaction. Together with `LentOnce` the row-level policy then compares
with the right organisation whether or not the client extension has filtered the statement.

**Inquiries.** That a quoted line was decided rests on the conversion reading the lines again, and on
`MatchIsDecided`: a product stands in the matched column of decided lines only. No operation locks the
inquiry, so this has to survive a review that writes what it read earlier: `ReviewTyped` says that a
review under way is about an item that was inserted, and carries a decision the form offers.

**Quotations.** `HashFollowsFigures`: the stored hash is of the figures on the row (the customer's
standing may have changed since, the figures have not). `ApprovalStands`: from the approval on, the row,
the stored approval and the approval record carry one payload, `SignedFor` by the role of the record.
Both are proved per kind of step: an edit withdraws the approval (`MutateKeeps`, `EditKeeps`), a
recalculation that then refuses changes the hash only (`RecalculationKeeps`), a signature is for what is
on the row (`SignatureCovers`, `ApprovalKeeps`). Sending compares the hash it has just recalculated with the
approved one; equal payloads have equal standings, so a sending begins on a standing approval
(`DecisionsBegin`). What it read is kept in `deciding`, and because the row is locked until the commit, the
commit (`CommitKeeps`) writes the figures that were approved, whatever the customer's standing is by then.

**Chases.** Nothing in the code keeps two chases apart, so the argument is about overlaps. `ChaseInvariant`:
a request under way is about a follow-up that was inserted (`ChasesAreTyped`); the rows form chains, with one
first row, each other one number on from a row that was dealt with, and no number above the cap
(`RowsAreChained`); and a follow-up that is not contested has at most one request under way, no successor
while it is open or while that request may still write one, and never two (`SinglyChased`). A chase that ends
leaves its follow-up terminal in the step that schedules the successor (`DealtWith`, `EndChaseKeeps`), so
nobody who begins afterwards finds it open. The first row is scheduled in the transaction of the sending,
under the lock of the quotation (`SendingSchedules`), so there are rows exactly when an answer was sent.

**Separation of duties.** `AccessInvariant` carries the permission a session had when its request was
let through, because the role may change before the act is done. `NoRoleDoesBoth` then reads the table of
roles: only the owner's has both permissions of a pair.

**Numbers.** `LedgerInvariant`: the lock of a series is held by a transaction under way, and whoever has
drawn from it holds it (`SeriesAreLocked`); so at most one transaction has drawn, its values go on where
the committed rows end (`DrawnFollows`), and a counter stands after both (`CountersFollow`). A rollback
puts the counter back to where the committed rows end, because nobody else has drawn meanwhile.

**Deadlock.** `PlansFollowed` says what is held: a transaction under way holds and shares exactly what its
operation's plan has taken so far, every other request nothing. `PlansAreInOrder` says how plans look once
the shared locks are taken out of them (which may come anywhere, so circles they take part in are left out
of the statement): rows come first, ascending along the chain that fulfillment/index.ts writes down (products ascending by
id, where `SetsCanBeSorted` shows that `lockOrder` has a value), then a number, then the audit log; only
the number of a delivery is drawn after an audit entry, and then under the row of the order. A circle of
waiting is minimal, so everybody in it is waited for (`EverybodyIsWaitedFor`). Were nobody waiting for
the audit log, take who waits for the earliest place along the chain: somebody waits for a row it holds,
and that place is earlier still (`AuditIsAwaited`). So somebody waits for the audit log; who holds it can only be
waiting for a delivery's number, and who holds that for the audit log. These two close the circle, and
each holds the row of its order, so the orders are different (`CirclesAreOfTwoOrders`).

**Imports.** `RowsAtHand`: a call that writes has exactly the rows of its file, no two for one product.
`WrittenIsHeld`: what it has written is still empty and written by nobody else, since the row locks last to
the end; so the commit adds one opening balance to each history. `HistoryExplains` includes the products
that do not exist yet, whose history is empty.

**The pure functions.** The state of `Figures` is one question, and `QuestionsAreTyped` says that it is
one of the samples; everything else is about what the operators compute, for every sample
`SamplesAreRows` allows. The functions that loop are reasoned about without a predicate variable: a set
of naturals, or of subsets, stands in its place (`LeastNatural`, `NaturalInduction`, `FiniteInduction`).
A recursive function is a CHOOSE over the solutions of an equation, so each proof shows that the
equation has a solution (`FoldsAreDefined`, `FlattenIsInSteps`), or writes down the one it expects
(`AllAreKept`), before it says what the function does.

* *Sums* (`Sums_proofs`): the community modules' `SumFunction` picks its entries in an order nobody
  knows. `SumIsTheSolution` ties it to its equation, `SumSplit` takes any entry off, and from there sums
  are added (`SumsAdd`), scaled, united, renamed along a bijection (`SumRenamed`) and gathered by a key
  (`SumByKey`). `SetsAreListed` and `ListsAreBijections` say that a sorted list exists and names every
  element once.
* *Amounts*: a division leaves a remainder below the divisor, and each mode moves it by at most one
  (`Rounding`). In a split each of the units that the rounding down leaves over is handed to one share,
  in the order of the remainders: `TurnsAreTaken` says that the order is a bijection, `FewUnitsRemain`
  that there are no more units than shares with a remainder, so no share without weight gets one. What
  is printed is read again because the digits of a number are the number (`DigitsAreTheNumber`).
* *Days*: `DaysStart` is the fact all others use: an instant is on a date or later exactly if the day of
  that date has started, also when the clock changes on it — except for the hour before a change that
  skips or repeats a midnight (`AstrayAtMidnight`; `OthersAreNotAstray`: no other hour, in no other zone).
  Windows follow each other (`WindowsFollow`),
  so what they count are disjoint parts of what their union counts, and the bars of the chart are sums
  gathered by day (`BarsAddUp`).
* *Debts*: the rows of the list are the orders that owe, one to one (`RowsAreListed`), so the list and
  the totals are one sum under two names, and the customers' is the same sum gathered by customer. The
  dashboard counts days from the local date and the list from the UTC date, so their overdue amounts are
  sums over two sets, of which one contains the other: the difference is what was due between the dates.
* *The brief*: what the template says in each of its three texts, and what the check of a provider's
  texts lets through, is among the figures of the sections and the list of its reader (`TemplateIsShown`,
  `PermittedIsShown`); the narration input names a part of the counts and amounts of each section, and
  `StatedIsOfAll` says that a part of them states a part of what all of them state.
* *Matching*: a resemblance lies between zero and one whatever the sizes do to it (`EvidenceIsAScore`),
  and `FUZZY_MAX_CONFIDENCE` keeps it below the strong threshold (`FuzzyConfidence`); the candidates are
  a sorted list cut off.
* *Files*: `TextIsScanned` says that what is true before a text, and stays true from each of its
  characters to the next, is true after it. A written cell is read to its end (`CellIsScanned` for the
  splitting into records, `CellIsReadBack` for the splitting into cells): inside the quotes the scanner
  is in its quoted state, and a doubled quote is one. A line break within a cell moves the line number
  and ends nothing (`BreaksAreCounted`). The character that ends a row is one of two, and of CR LF the
  second is skipped (`RowIsScanned`). That an accepted amount is not ambiguous is a case distinction
  over the groups of its digits (`AcceptedIsUnambiguous`).

**Only model-checked:** liveness, which is `ParsingEnds` and `NobodyWaitsForEver`. The five
disagreements of section 3 are counterexamples of TLC.

**Out of the prover's reach:** liveness under fairness, and ENABLED. The theorems over files are about
one row of two cells of any text between a header and a last row, which is what the property of the run
asks; the lemmas on cells are about any cell.

## 5. The abstract specification

`StockPromise` has goods on the shelf, a hold per order and the goods shipped. A hold is taken in
one step and only if the shelf covers it, can shrink, leaves only as a whole, and no correction
takes goods an order holds. `Distributor!Stock` reads it off the tables: `onHand` is
`available_stock`, `held` the ACTIVE reservations, `shipped` the consumption movements. Run
`promise` checks that every step of every function is one of its steps or a stutter, and
`Payments_proofs!StockPromiseIsKept` proves it for every instance. It is here that a handover which
consumed what the task lists instead of what the order holds, or an adjustment that slipped past the
constraint, would show.

## 6. Not modelled, and the plan

Not modelled because nothing is at stake that TLC can reach: rendering and wording, the read-only
queries that select columns for pages, the similarity of two strings beyond the sets of trigrams it
compares, hashing of passwords, tokens and payloads (a hash is what it covers), health and
configuration, the operational scripts that call programs outside the repository (backup, restore
drill, load test), the seeds, and external providers beyond the gap they open between two transactions
and the answers their contract lets through. Product and customer imports insert rows nothing else
has read yet; their validation is modelled (`Templates`), their writes are not. Contacts and tax numbers
of customers are record keeping.

Left out of what is modelled:

* of the dashboard's snapshot: trends (`compare`, `compareMoney`), the name and number of the largest
  order, names in general; the counts of pipeline, fulfilment and inventory, and the number of payments
  to review, are inputs of `Reporting` (`Dashboard` has what of them is about open orders);
* of the attention queue: how its entries are found in the money and sales sections, severities, ages and
  titles. `Reporting` takes the ordered queue as it is, filters it by role and cuts it off; `Dashboard`
  has the entries of the operations section without ages and without the limit, so an entry that
  `ReadyOrdersAreOnAList` counts on can be cut off the page by twelve more urgent ones;
* of the brief: words. The grounding check is about numerals, in the code too; a name or a trend that a
  provider made up is not caught by it;
* of the matcher: ties. A proposal among products that tie is flagged and not refused;
* of zones: offsets that are not whole hours, and a second change of the clock;
* of numbers in files: the forms `Number` reads beyond digits (`1e1`, `0x10`) in the tax column, and
  the rounding of its basis points;
* of locks: those of organisations and users, which are only shared.

Planned next, in this order:

1. **Composition** — the acceptance of a quotation of `Quotations` as the input of `Orders`, in place of
   the accepted quotations that are constants there.
2. **Larger files** — `FilesKeepTheirCells` for tables of any number of rows and columns; the lemmas on
   cells (`CellIsScanned`, `CellIsReadBack`) are about any cell already.
3. **Writes of product and customer imports**, once something else reads the rows they insert.
