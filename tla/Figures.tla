------------------------------ MODULE Figures ------------------------------
(***************************************************************************)
(* The pure computations of the system, each put to a sample of inputs:    *)
(* a behaviour asks one question.  The properties compare the answer with  *)
(* what the code's comments promise about it.                              *)
(***************************************************************************)
EXTENDS Null, Integers, Sequences, SequencesExt, FiniteSets, FiniteSetsExt

CONSTANTS
    Names, Grams, Sizes,
    Divisions,  \* [numerator, denominator, mode]
    Splits,     \* [amount, weights]
    Carts,      \* [lines, fee, taxable, rate]
    Clocks,     \* [zone, asOf, count]
    Books,      \* [orders, zone, now]
    Queries,    \* [query, corpus]
    Tables,     \* [row, ending]: two cells that are exported and read again
    ProductFiles, CustomerFiles, StockFiles,
    Weeks,      \* [quotations, orders, payments, zone, asOf, count]
    Mornings    \* [tables, zone, asOf, outcome]

VARIABLE question   \* None, or [about, input]

Pricing   == INSTANCE Pricing
Reporting == INSTANCE Reporting WITH NoDate <- None
Matching  == INSTANCE Matching
Templates == INSTANCE Templates

Topics ==
    [division |-> Divisions, split |-> Splits, cart |-> Carts, clock |-> Clocks, book |-> Books,
     query |-> Queries, table |-> Tables, products |-> ProductFiles,
     customers |-> CustomerFiles, stock |-> StockFiles, week |-> Weeks, morning |-> Mornings]

\* A division by zero, no weights and weights of nothing raise before they compute.
Division == [numerator : Int, denominator : Int \ {0},
             mode : {"trunc", "floor", "ceil", "half-up", "half-even"}]
Split    == {split \in [amount : Int, weights : Seq(Nat)] : Pricing!SumOf(split.weights) > 0}
Cart     == [lines : Seq(Pricing!PricedLine), fee : Nat, taxable : BOOLEAN, rate : Nat]

\* A clock changes once, by an hour at most.
LocalZone == {zone \in Reporting!Zone : zone.after - zone.before \in -1..1}
Window    == [zone : LocalZone, asOf : Int, count : Nat \ {0}]

\* The key of a table: no two rows have one number, one SKU.
Keyed(rows, key(_)) ==
    IsFiniteSet(rows) /\ \A a, b \in rows : key(a) = key(b) => a = b

\* What a provider may do; an answer is the numerals in its three texts.
OutcomeOf == [kind : {"DISABLED", "PROVIDER_FAILED", "SCHEMA_INVALID"}]
                 \cup [kind : {"ANSWER"}, summary : SUBSET Reporting!Numeral,
                       highlights : SUBSET Reporting!Numeral, attention : SUBSET Reporting!Numeral]

\* How a system ends a line.
LineEnds == {<<Templates!NewLine>>, <<Templates!Return>>, <<Templates!Return, Templates!NewLine>>}

\* The samples are rows as the tables and the files hold them.
ASSUME SamplesAreRows ==
    /\ Divisions \subseteq Division /\ Splits \subseteq Split /\ Carts \subseteq Cart
    /\ Clocks \subseteq Window
    /\ \A book \in Books :
          /\ book.orders \subseteq Reporting!OrderRow /\ Keyed(book.orders, LAMBDA o : o.number)
          /\ book.zone \in Reporting!Zone /\ book.now \in Int
    /\ \A q \in Queries :
          /\ q.query \in Names /\ Grams[q.query] # {}
          /\ q.corpus \subseteq Matching!MatchableProduct /\ Keyed(q.corpus, LAMBDA p : p.sku)
    /\ IsFiniteSet(Names) /\ \A n \in Names : IsFiniteSet(Grams[n])
    /\ \A table \in Tables : /\ table.row \in Seq(Seq(STRING)) /\ Len(table.row) = 2
                             /\ table.ending \in LineEnds
    /\ \A file \in ProductFiles : \A k \in DOMAIN file :
          {file[k].price, file[k].threshold, file[k].taxRate}
              \subseteq Templates!NumericCell \cup {None}
    /\ \A file \in CustomerFiles : \A k \in DOMAIN file :
          {file[k].creditLimit, file[k].paymentTerms} \subseteq Templates!NumericCell \cup {None}
    /\ \A file \in StockFiles : \A k \in DOMAIN file :
          file[k].quantity \in Templates!NumericCell \cup {None}
    /\ \A file \in ProductFiles \cup CustomerFiles \cup StockFiles :
          DOMAIN file = 1..Len(file)
    /\ \A week \in Weeks :
          /\ week.zone \in LocalZone /\ week.asOf \in Int /\ week.count \in Nat \ {0}
          /\ week.quotations \subseteq Reporting!QuotationRow /\ IsFiniteSet(week.quotations)
          /\ week.orders \subseteq Reporting!SalesRow /\ Keyed(week.orders, LAMBDA o : o.number)
          /\ week.payments \subseteq Reporting!PaymentRow /\ IsFiniteSet(week.payments)
    /\ \A morning \in Mornings :
          /\ morning.tables \in Reporting!QueriedTables /\ morning.outcome \in OutcomeOf
          /\ morning.zone \in Reporting!Zone /\ morning.asOf \in Int

FiguresInit == question = None

Ask ==
    /\ question = None
    /\ \E about \in DOMAIN Topics : \E input \in Topics[about] :
          question' = [about |-> about, input |-> input]

About(topic) == question # None /\ question.about = topic
input        == question.input

-----------------------------------------------------------------------------
(* Money                                                                   *)

\* platform/money: a division is exact to the nearest unit in the direction its mode
\* names, on both sides of zero; a half goes away from zero, or to the even unit.
RoundedToNearest ==
    About("division") =>
        LET n     == input.numerator
            d     == input.denominator
            r     == Pricing!roundDivision(n, d, input.mode)
            error == Pricing!Magnitude(n - r * d)
            tie   == 2 * error = Pricing!Magnitude(d)
        IN  /\ error < Pricing!Magnitude(d)
            /\ input.mode \in {"half-up", "half-even"} => 2 * error <= Pricing!Magnitude(d)
            /\ input.mode = "half-up" /\ tie
                   => Pricing!Magnitude(r * d) > Pricing!Magnitude(n)
            /\ input.mode = "half-even" /\ tie => r % 2 = 0
            /\ input.mode = "trunc" => Pricing!Magnitude(r * d) <= Pricing!Magnitude(n)
            /\ input.mode = "floor" => (n - r * d) * d >= 0
            /\ input.mode = "ceil"  => (n - r * d) * d <= 0

\* money/index.ts: a split is "without losing or inventing a single santim", each share
\* within one unit of its exact part, and what weighs nothing gets nothing; and a part
\* that is written out and typed again is the same part.
NoMinorUnitIsLost ==
    About("split") =>
        LET weights == input.weights
            weight  == Pricing!SumOf(weights)
            shares  == Pricing!allocate(input.amount, weights)
        IN  /\ Pricing!SumOf(shares) = input.amount
            /\ \A i \in DOMAIN weights :
                  /\ Pricing!Magnitude(shares[i] * weight - input.amount * weights[i]) < weight
                  /\ weights[i] = 0 => shares[i] = 0
                  /\ \A exponent \in {0, 2} :
                        LET written == Pricing!toDecimalString(shares[i], exponent)
                        IN  /\ Pricing!CanParse(written, exponent)
                            /\ Pricing!parseDecimal(written, exponent) = shares[i]

\* pricing.ts: the parts on the document add up, and the lines as they are printed
\* add up to the total: "a quotation that does not add up must never be saved".
TotalsReconcile ==
    About("cart") =>
        LET lines   == input.lines
            totals  == Pricing!calculateTotals(lines, input.fee, input.taxable, input.rate)
            printed == [i \in DOMAIN lines |-> Pricing!priceLine(lines[i])]
            column(amount(_)) == Pricing!SumOf([i \in DOMAIN lines |-> amount(printed[i])])
        IN  /\ Pricing!reconciles(totals)
            /\ totals.subtotal - totals.discountTotal = column(LAMBDA l : l.taxable)
            /\ totals.grandTotal = column(LAMBDA l : l.total) + input.fee + totals.deliveryTax
            /\ \A i \in DOMAIN lines :
                  2 * Pricing!Magnitude(printed[i].taxable * Pricing!BASIS_POINTS
                          - lines[i].quantity * lines[i].quotedPrice
                                * (Pricing!BASIS_POINTS - lines[i].discount))
                      <= Pricing!BASIS_POINTS

-----------------------------------------------------------------------------
(* Days and debts                                                          *)

\* The hour before a change that skips the first hour of a day west of Greenwich, or one
\* that repeats it elsewhere: the second pass of the code goes to the wrong side.
HourAstray(zone) ==
    IF \/ /\ zone.after > zone.before /\ zone.before < 0
          /\ (zone.change + zone.before) % Reporting!HOURS = 0
       \/ /\ zone.after < zone.before /\ zone.after >= 0
          /\ (zone.change + zone.after) % Reporting!HOURS = 0
    THEN {zone.change - 1} ELSE {}

\* time/reporting.ts: the days of a window follow each other without a gap or an
\* overlap, also over a change of the clock, and a day contains the instants of its
\* date, all but one hour of a clock that changes at midnight: there the second pass
\* does not correct the first, and that hour is counted in the day next to its own.
DaysTile ==
    About("clock") =>
        LET zone  == input.zone
            asOf  == input.asOf
            count == input.count
            days  == Reporting!localDaysIn(zone, asOf, count)
            last  == Reporting!lastLocalDays(zone, asOf, count)
        IN  /\ Reporting!within(Reporting!localDay(zone, asOf), asOf) <=> asOf \notin HourAstray(zone)
            /\ \A k \in 1..count :
                  /\ days[k].end - days[k].start \in 23..25
                  /\ k > 1 => days[k - 1].end = days[k].start
                  /\ \A instant \in days[k].start..(days[k].end - 1) :
                        Reporting!localDay(zone, instant) = days[k] <=> instant \notin HourAstray(zone)
            /\ days[1].start = last.start /\ days[count].end = last.end
            /\ Reporting!precedingLocalDays(zone, asOf, count).end = last.start
            /\ Reporting!previousLocalDay(zone, asOf).end = Reporting!localDay(zone, asOf).start

\* What orders that stand owe and should have paid on a date from the first to before
\* the next.
DueBetween(orders, first, next) ==
    LET due == {o \in orders : /\ o.status # "CANCELLED" /\ Reporting!outstanding(o) > 0
                               /\ o.due # None /\ first <= o.due /\ o.due < next}
    IN  SumFunction([o \in due |-> Reporting!outstanding(o)])

OverdueOf(customers) == SumFunction([c \in DOMAIN customers |-> customers[c].overdue])

\* receivables.ts and definitions.ts: the list, its customers and the dashboard owe
\* the same; every debt of an order that stands is in it once, delivered or not, the
\* most urgent first.  The list asks what is overdue on the date of UTC and the
\* dashboard on the organisation's: they differ by the debts due between the two dates.
DebtListsAgree ==
    About("book") =>
        LET orders    == input.orders
            list      == Reporting!receivables(orders, input.now)
            totals    == Reporting!receivablesTotals(orders, input.zone, input.now)
            customers == Reporting!aggregateByCustomer(list)
            standing  == {o \in orders : o.status # "CANCELLED"}
            rowsOf(positions) == SumFunction([i \in positions |-> list[i].outstanding])
            owed == SumFunction([o \in {o \in standing : Reporting!outstanding(o) > 0}
                                     |-> Reporting!outstanding(o)])
            late == {i \in DOMAIN list : list[i].daysOverdue > 0}
            date == Reporting!DateOf(input.now)
            localDate == Reporting!localCalendarDate(input.now, input.zone)
        IN  /\ owed = totals.outstanding
            /\ owed = rowsOf(DOMAIN list)
            /\ owed = SumFunction([c \in DOMAIN customers |-> customers[c].outstanding])
            /\ totals.customerCount = Cardinality(DOMAIN customers)
            /\ rowsOf(late) = OverdueOf(customers)
            /\ totals.overdue + DueBetween(orders, localDate, date)
                   = OverdueOf(customers) + DueBetween(orders, date, localDate)
            /\ \A i, j \in DOMAIN list : i < j =>
                  /\ list[i].number # list[j].number
                  /\ list[i].daysOverdue >= list[j].daysOverdue
                  /\ list[i].daysOverdue = list[j].daysOverdue /\ list[i].bucket = list[j].bucket
                         => list[i].outstanding >= list[j].outstanding

\* definitions.ts: "the dashboard says outstanding receivables are 1.4M, the receivables
\* page says 1.6M, and from that morning onwards the owner believes neither": what is
\* overdue is "derived from the same rule the receivables screen uses".
OverdueIsOneFigure ==
    About("book") =>
        Reporting!receivablesTotals(input.orders, input.zone, input.now).overdue
            = OverdueOf(Reporting!aggregateByCustomer(
                  Reporting!receivables(input.orders, input.now)))

\* definitions.ts and snapshot.ts: two windows of n days count what one of 2n days
\* counts, nothing twice; the chart adds up to the window; and only a confirmed
\* payment is money, on the day it was confirmed.
WindowsAddUp ==
    About("week") =>
        LET zone   == input.zone
            last   == Reporting!lastLocalDays(zone, input.asOf, input.count)
            before == Reporting!precedingLocalDays(zone, input.asOf, input.count)
            both   == Reporting!lastLocalDays(zone, input.asOf, 2 * input.count)
            sold(period)  == Reporting!orderActivity(input.orders, period)
            deals(period) == Reporting!quotationActivity(input.quotations, period)
            series == Reporting!buildSeries(input.orders, input.payments, zone, input.asOf, input.count)
            bars(amount(_)) == Pricing!SumOf([k \in DOMAIN series |-> amount(series[k])])
            money  == {c \in input.payments : c.confirmed /\ c.reviewed # None
                                               /\ c.reviewed \in last.start..(last.end - 1)}
        IN  /\ \A field \in {"created", "value", "completed"} :
                  sold(last)[field] + sold(before)[field] = sold(both)[field]
            /\ \A field \in {"created", "sent", "accepted", "rejected", "acceptedValue"} :
                  deals(last)[field] + deals(before)[field] = deals(both)[field]
            /\ bars(LAMBDA bar : bar.orderValue) = sold(last).value
            /\ bars(LAMBDA bar : bar.confirmedPayments) = Reporting!Worth(money)

\* Every figure of a section, and every figure of a snapshot.
AllOf(section) ==
    IF section = None THEN {}
    ELSE Reporting!Stated(section, DOMAIN section.counts, DOMAIN section.amounts)
Shown(snapshot) ==
    AllOf(snapshot.sales) \cup Reporting!Percent(snapshot.sales) \cup Reporting!Largest(snapshot.sales)
        \cup AllOf(snapshot.cash) \cup AllOf(snapshot.pipeline) \cup AllOf(snapshot.operations)
        \cup Reporting!Completed(snapshot) \cup AllOf(snapshot.inventory)
        \cup Reporting!Tallies(snapshot.attention)

\* brief-contract.ts: "does this text contain a number that was never given to the
\* model?"  Whatever a provider answers, no numeral in the three texts of the brief of a
\* role is other than a figure of the sections and of the list that role may read, the
\* smallest whole numbers in a provider's prose aside; the template has no exception.
BriefSaysOnlyItsFigures ==
    About("morning") =>
        \A role \in Reporting!Rbac!ROLES :
            LET snapshot == Reporting!getDashboardSnapshot(role, input.tables, input.zone, input.asOf)
                brief    == Reporting!narrateBrief(snapshot, input.outcome).brief
            IN  \A numeral \in brief.summary \cup brief.highlights \cup brief.attention :
                    \/ numeral \in Shown(snapshot)
                    \/ brief.source = "AI" /\ Reporting!IsProse(numeral)

-----------------------------------------------------------------------------
(* Names and files                                                         *)

SizesDiffer(query, product) ==
    /\ Sizes[query] # {} /\ Matching!SizesOf(product) # {}
    /\ Sizes[query] \cap Matching!SizesOf(product) = {}

\* catalog/matching.ts: only an exact name or alias is strong evidence; a product of
\* another size is not proposed for its resemblance; the best candidate comes first.
ProposalsAreEvidence ==
    About("query") =>
        LET query == input.query
            found == Matching!matchProduct(query, input.corpus)
        IN  /\ Matching!confidenceBand(found.confidence) = "strong" => found.method # "FUZZY"
            /\ Matching!confidenceBand(found.confidence) = "unresolved" <=> found.candidates = <<>>
            /\ \A k \in DOMAIN found.candidates :
                  LET candidate == found.candidates[k] IN
                  /\ k > 1 => candidate.confidence <= found.candidates[k - 1].confidence
                  /\ candidate.confidence >= Matching!REVIEW_THRESHOLD
                  /\ candidate.method = "FUZZY" => ~SizesDiffer(query, candidate.product)
            /\ (\E p \in input.corpus : p.name = query) => found.method = "CANONICAL"

\* A cell as a spreadsheet writes it.
CellText(cell) ==
    <<Templates!Quote>>
        \o FlattenSeq([k \in DOMAIN cell |->
               IF cell[k] = Templates!Quote THEN <<Templates!Quote, Templates!Quote>>
               ELSE <<cell[k]>>])
        \o <<Templates!Quote>>

RowText(cells, ending) ==
    FlattenSeq([k \in DOMAIN cells |->
        (IF k > 1 THEN <<Templates!Comma>> ELSE <<>>) \o CellText(cells[k])]) \o ending

\* imports/csv.ts: "an address with a line break survives": what a spreadsheet wrote
\* is read again cell by cell, however the system ends a line, and a row is reported at
\* the line it begins on if the cells before it break their lines with a new line: a
\* return that stands alone within a cell is kept, but it is not counted as a line.
FilesKeepTheirCells ==
    About("table") =>
        LET row    == input.row
            header == <<<<"n">>, <<"a">>>>
            last   == <<<<"n">>, <<>>>>
            text   == RowText(header, input.ending) \o RowText(row, input.ending)
                          \o RowText(last, input.ending)
            breaks(cell) == Cardinality({k \in DOMAIN cell : cell[k] = Templates!NewLine})
            table  == Templates!parseCsv(text, {<<"n">>, <<"a">>})
        IN  /\ table.ok
            /\ table.rows = <<[j \in DOMAIN row |-> Templates!Trim(row[j])], last>>
            /\ table.lineNumbers = <<2, 3 + breaks(row[1]) + breaks(row[2])>>

\* The minor units a cell stands for where a comma is the decimal sign and a point
\* groups thousands, or None if it cannot be an amount there.
Continental(cell) ==
    LET groups == cell.groups
        amount(digits, fraction) ==
            Templates!NumberOf(digits \o fraction \o Templates!Zeroes(2 - Len(fraction)))
    IN  IF cell.negative \/ cell.spaced THEN None
        ELSE IF Len(groups) = 2 /\ ~cell.point /\ groups[1] # <<>> /\ Len(groups[2]) \in 1..2
        THEN amount(groups[1], groups[2])
        ELSE IF Len(groups) = 1 /\ cell.point /\ Len(groups[1]) \in 1..3 /\ Len(cell.fraction) = 3
        THEN amount(groups[1] \o cell.fraction, <<>>)
        ELSE IF Len(groups) = 1 /\ ~cell.point /\ groups[1] # <<>> THEN amount(groups[1], <<>>)
        ELSE None

Unambiguous(cell) ==
    cell = None \/ Continental(cell) \in {None, Templates!parseMoneyToMinor(cell)}

Distinct(rows, key(_)) ==
    \A j, k \in DOMAIN rows : j # k => key(rows[j]) # None /\ key(rows[j]) # key(rows[k])

\* imports/templates.ts: "refusing a European export costs the operator one re-save;
\* accepting one costs them their prices".  A file that is read without an error has
\* prices, credit limits, terms, thresholds and quantities that mean the same on both
\* sides of the border, and one row for each product or customer.  The tax rate is not
\* among them: its column takes commas away, and 7,5 is read as 75 per cent.
AmountsAreNotGuessed ==
    /\ About("products") /\ Templates!parseProducts(input) = {} =>
          /\ Distinct(input, LAMBDA row : row.sku)
          /\ \A k \in DOMAIN input :
                Unambiguous(input[k].price) /\ Unambiguous(input[k].threshold)
    /\ About("customers") /\ Templates!parseCustomers(input) = {} =>
          /\ Distinct(input, LAMBDA row : row.companyName)
          /\ \A k \in DOMAIN input :
                Unambiguous(input[k].creditLimit) /\ Unambiguous(input[k].paymentTerms)
    /\ About("stock") /\ Templates!parseOpeningStock(input) = {} =>
          /\ Distinct(input, LAMBDA row : row.sku)
          /\ \A k \in DOMAIN input :
                /\ Unambiguous(input[k].quantity)
                /\ Templates!parseWholeNumber(input[k].quantity) >= 0

-----------------------------------------------------------------------------

\* Amounts are rounded, split and added up without a minor unit too many or too few.
AmountsAreExact == RoundedToNearest /\ NoMinorUnitIsLost /\ TotalsReconcile

\* Days, windows and the chart count every instant and every row once, in any zone.
DaysAndWindowsTile == DaysTile /\ WindowsAddUp

\* The cells of a file are kept, and its amounts and counts mean what they say or are
\* refused; of the tax rates this cannot be said.
CellsAndAmountsAreKept == FilesKeepTheirCells /\ AmountsAreNotGuessed
=============================================================================
