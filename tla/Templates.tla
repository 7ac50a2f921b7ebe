----------------------------- MODULE Templates -----------------------------
(***************************************************************************)
(* The files an operator imports (imports/csv.ts, imports/templates.ts): a *)
(* text is a sequence of characters, and a cell of a numeric column is its *)
(* digits between the separators.                                          *)
(***************************************************************************)
EXTENDS Money

CONSTANT None

Quote    == "\""
Comma    == ","
NewLine  == "\n"
Return   == "\r"
Blank    == " "

MAX_ROWS == 20000

\* The scanner at one character of a text.
Ahead(text, k) == IF k < Len(text) THEN text[k + 1] ELSE Blank
Take(s, char)  == [s EXCEPT !.current = Append(@, char)]

-----------------------------------------------------------------------------
(* csv.ts                                                                  *)

ScanCell(line, s, k) ==
    CASE s.skip                              -> [s EXCEPT !.skip = FALSE]
      [] ~s.skip /\ line[k] = Quote /\ s.quoted ->
            IF Ahead(line, k) = Quote THEN [Take(s, Quote) EXCEPT !.skip = TRUE]
            ELSE [s EXCEPT !.quoted = FALSE]
      [] ~s.skip /\ line[k] = Quote /\ ~s.quoted -> [s EXCEPT !.quoted = TRUE]
      [] ~s.skip /\ line[k] = Comma /\ ~s.quoted ->
            [s EXCEPT !.cells = Append(@, s.current), !.current = <<>>]
      [] OTHER                               -> Take(s, line[k])

splitLine(line) ==
    LET scan[k \in 0..Len(line)] ==
            IF k = 0 THEN [cells |-> <<>>, current |-> <<>>, quoted |-> FALSE, skip |-> FALSE]
            ELSE ScanCell(line, scan[k - 1], k)
        end == scan[Len(line)]
    IN  Append(end.cells, end.current)

Record(s) == [line |-> s.current, number |-> s.startedAt]

EndsRecord(s, char) == char \in {NewLine, Return} /\ ~s.quoted

\* A return and the new line behind it end a record once.
ReturnsTwice(text, k) == text[k] = Return /\ Ahead(text, k) = NewLine

ScanRecord(text, s, k) ==
    CASE s.skip -> [s EXCEPT !.skip = FALSE]
      [] ~s.skip /\ text[k] = Quote ->
            IF s.quoted /\ Ahead(text, k) = Quote
            THEN [s EXCEPT !.current = @ \o <<Quote, Quote>>, !.skip = TRUE]
            ELSE [Take(s, Quote) EXCEPT !.quoted = ~@]
      [] ~s.skip /\ EndsRecord(s, text[k]) ->
            [s EXCEPT !.records = Append(@, Record(s)), !.current = <<>>,
                      !.line = @ + 1, !.startedAt = s.line + 1,
                      !.skip = ReturnsTwice(text, k)]
      [] OTHER -> [Take(s, text[k]) EXCEPT !.line = IF text[k] = NewLine THEN @ + 1 ELSE @]

splitRecords(text) ==
    LET scan[k \in 0..Len(text)] ==
            IF k = 0 THEN [records |-> <<>>, current |-> <<>>, quoted |-> FALSE, skip |-> FALSE,
                           line |-> 1, startedAt |-> 1]
            ELSE ScanRecord(text, scan[k - 1], k)
        end == scan[Len(text)]
    IN  IF end.current = <<>> THEN end.records ELSE Append(end.records, Record(end))

Trim(cell) ==
    LET solid == {k \in DOMAIN cell : cell[k] \notin {Blank, NewLine, Return}}
    IN  IF solid = {} THEN <<>>
        ELSE SubSeq(cell, CHOOSE k \in solid : \A j \in solid : k <= j,
                          CHOOSE k \in solid : \A j \in solid : k >= j)

\* The records that are not blank.
Solid(records) ==
    LET kept[k \in 0..Len(records)] ==
            IF k = 0 THEN <<>>
            ELSE IF Trim(records[k].line) = <<>> THEN kept[k - 1]
            ELSE Append(kept[k - 1], records[k])
    IN  kept[Len(records)]

Refusal == [ok |-> FALSE, rows |-> <<>>, lineNumbers |-> <<>>]

parseCsv(text, expectedHeaders) ==
    LET records == Solid(splitRecords(text))
        cellsOf(k) == splitLine(records[k].line)
        headers == [j \in DOMAIN cellsOf(1) |-> Trim(cellsOf(1)[j])]
        row(k)  == [j \in DOMAIN headers |->
                       IF j \in DOMAIN cellsOf(k) THEN Trim(cellsOf(k)[j]) ELSE <<>>]
    IN  IF \/ records = <<>>
           \/ \E header \in expectedHeaders : \A j \in DOMAIN headers : headers[j] # header
           \/ Len(records) - 1 > MAX_ROWS
        THEN Refusal
        ELSE [ok |-> TRUE,
              rows |-> [k \in 1..(Len(records) - 1) |-> row(k + 1)],
              lineNumbers |-> [k \in 1..(Len(records) - 1) |-> records[k + 1].number]]

-----------------------------------------------------------------------------
(* templates.ts: cells of numeric columns                                  *)

ALLOWED_UNITS ==
    {"bag", "piece", "kg", "ton", "litre", "m", "m2", "m3", "roll", "box", "set", "unit"}

\* A minus sign, the digits between the commas, those after the point if there
\* is one, and whether there is a blank among them.
NumericCell ==
    {cell \in [negative : BOOLEAN, groups : Seq(Seq(0..9)), point : BOOLEAN,
               fraction : Seq(0..9), spaced : BOOLEAN] : cell.point \/ cell.fraction = <<>>}

Grouped(groups) ==
    /\ Len(groups) > 1 /\ Len(groups[1]) \in 1..3
    /\ \A k \in 2..Len(groups) : Len(groups[k]) = 3

Ungrouped(groups, most) == Len(groups) = 1 /\ Len(groups[1]) \in 1..most

Fraction(cell) == IF cell.point THEN Len(cell.fraction) \in 1..2 ELSE cell.fraction = <<>>

\* A mutated form: separators are stripped, as an earlier version did.
IsAmount_Stripped(cell) == FlattenSeq(cell.groups) # <<>> /\ Fraction(cell)

IsAmount(cell) ==
    /\ ~cell.spaced /\ ~cell.negative
    /\ (Grouped(cell.groups) \/ Ungrouped(cell.groups, 15))
    /\ Fraction(cell)

Digits(cell) == FlattenSeq(cell.groups)
parseMoneyToMinor(cell) == NumberOf(Digits(cell) \o cell.fraction \o Zeroes(2 - Len(cell.fraction)))

IsWholeNumber(cell) ==
    /\ ~cell.spaced /\ ~cell.point
    /\ (Grouped(cell.groups) \/ Ungrouped(cell.groups, 9))
parseWholeNumber(cell) == (IF cell.negative THEN -1 ELSE 1) * NumberOf(Digits(cell))

\* The tax column is not read like the others: commas and blanks are taken away first,
\* what is left is a number, none if nothing is left, and its hundredths are rounded.
\* Number also reads 1e1 and 0x10, which are no cells here.
StrippedDigits(cell) == Digits(cell) \o cell.fraction
IsStrippedNumber(cell) == StrippedDigits(cell) # <<>> \/ (~cell.point /\ ~cell.negative)

IsTaxRate(cell) ==
    /\ IsStrippedNumber(cell)
    /\ cell.negative => NumberOf(StrippedDigits(cell)) = 0
    /\ NumberOf(StrippedDigits(cell)) <= 100 * NumberOf(<<1>> \o Zeroes(Len(cell.fraction)))

-----------------------------------------------------------------------------
(* templates.ts: rows.  An empty cell is None; a name, an SKU or a unit is *)
(* compared without its case.                                              *)

\* The key of a row was seen before, on a row that may be in error itself.
Repeated(rows, k, key(_)) == \E j \in 1..(k - 1) : key(rows[j]) = key(rows[k])

\* A whole number that is not negative.  Groups may be as many as there are.
IsCount(cell) == IsWholeNumber(cell) /\ parseWholeNumber(cell) >= 0

\* One SKU stands for those with another character than a letter, a digit, a dash, an
\* underscore or a point, and for those with more than forty.
Malformed == "#"

\* The rows with an error.  One error stops the file.
parseCustomers(rows) ==
    {k \in DOMAIN rows :
        \/ rows[k].companyName = None \/ Repeated(rows, k, LAMBDA row : row.companyName)
        \/ rows[k].creditStatus \notin {None, "CASH_ONLY", "CREDIT_ALLOWED", "SUSPENDED"}
        \/ (rows[k].creditLimit # None /\ ~IsAmount(rows[k].creditLimit))
        \/ /\ rows[k].paymentTerms # None
           /\ ~IsCount(rows[k].paymentTerms) \/ parseWholeNumber(rows[k].paymentTerms) > 365}

parseProducts(rows) ==
    {k \in DOMAIN rows :
        \/ rows[k].sku \in {None, Malformed} \/ Repeated(rows, k, LAMBDA row : row.sku)
        \/ rows[k].name = None \/ rows[k].unit \notin ALLOWED_UNITS
        \/ rows[k].price = None \/ ~IsAmount(rows[k].price)
        \/ (rows[k].taxRate # None /\ ~IsTaxRate(rows[k].taxRate))
        \/ (rows[k].threshold # None /\ ~IsCount(rows[k].threshold))}

parseOpeningStock(rows) ==
    {k \in DOMAIN rows :
        \/ rows[k].sku = None \/ Repeated(rows, k, LAMBDA row : row.sku)
        \/ rows[k].quantity = None \/ ~IsCount(rows[k].quantity)}
=============================================================================
