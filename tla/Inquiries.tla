----------------------------- MODULE Inquiries -----------------------------
(***************************************************************************)
(* One inquiry (modules/inquiries): the parse that runs around a provider  *)
(* call, the review of its lines, the readiness gate, and the conversion   *)
(* to a quotation.  No operation locks the inquiry: each transaction reads *)
(* first and writes later, so it is two steps here.  What the write does   *)
(* not read again it decides from the first step.                          *)
(***************************************************************************)
EXTENDS Null, Naturals, FiniteSets

CONSTANTS
    Deleted,    \* a row that a later parse removed
    Items,      \* item rows that may ever be created
    Products,   \* the catalogue
    UnitOf,     \* the unit each product is sold in
    Intents,    \* what a message may be read as
    Written,    \* what a customer may write as the unit of a line, or None
    Parses,     \* calls of runParse
    Reviews     \* review requests that may overlap

VARIABLES
    inquiry,    \* [status, intent]
    item,       \* the proposal rows: None before they exist
    parse,      \* where each runParse stands
    review,     \* where each review request stands
    marking,    \* markReadyForQuote: "IDLE" or "READ"
    quoting     \* createFromInquiry: [step, lines]

inquiryVars == <<inquiry, item, parse, review, marking, quoting>>

CANONICAL_UNITS == {"bag", "piece", "kg", "ton"}
Statuses == {"RECEIVED", "PARSING", "NEEDS_REVIEW", "READY_FOR_QUOTE", "PARSE_FAILED", "CANCELLED"}
Reviewed == {"SUGGESTED", "UNRESOLVED", "CONFIRMED", "CORRECTED", "REJECTED"}
Decided  == {"CONFIRMED", "CORRECTED"}

\* What the customer wrote stays in the raw message; the row has the normalised unit.
ItemRow == [reviewStatus : Reviewed, proposed : Products \cup {None},
            matched : Products \cup {None}, unit : CANONICAL_UNITS \cup {None}]

QUOTABLE_INTENTS == {"REQUEST_QUOTATION", "STOCK_ENQUIRY"}

TRANSITIONS ==
    [RECEIVED        |-> {"PARSING", "CANCELLED"},
     PARSING         |-> {"NEEDS_REVIEW", "PARSE_FAILED"},
     NEEDS_REVIEW    |-> {"READY_FOR_QUOTE", "PARSING", "CANCELLED"},
     READY_FOR_QUOTE |-> {"NEEDS_REVIEW"},
     PARSE_FAILED    |-> {"PARSING", "CANCELLED"},
     CANCELLED       |-> {}]

ASSUME NoneIsNoItem ==
    None \notin Items /\ None # Deleted /\ {None, Deleted} \cap ItemRow = {}
ASSUME UnitsAreCanonical == UnitOf \in [Products -> CANONICAL_UNITS]

Present == {i \in Items : item[i] \notin {None, Deleted}}
Unused  == {i \in Items : item[i] = None}
Retained == {i \in Present : item[i].reviewStatus # "REJECTED"}

\* Not a canonical unit: null, as if nothing had been written.
normalizeUnit(written) == IF written \in CANONICAL_UNITS THEN written ELSE None

checkUnit(requested, productUnit) ==
    IF requested = None THEN "assumed"
    ELSE IF normalizeUnit(requested) = None THEN "unknown"
    ELSE IF normalizeUnit(requested) = normalizeUnit(productUnit) THEN "match" ELSE "mismatch"

Blocks(row) ==
    \/ row.reviewStatus \notin Decided \/ row.matched = None
    \/ checkUnit(row.unit, UnitOf[row.matched]) \in {"mismatch", "unknown"}

evaluateReadiness ==
    /\ inquiry.intent \in QUOTABLE_INTENTS
    /\ Retained # {}
    /\ \A i \in Retained : ~Blocks(item[i])

-----------------------------------------------------------------------------
(* Parsing: read, move to PARSING, ask the provider, write its answer      *)

InquiryInit ==
    /\ inquiry = [status |-> "RECEIVED", intent |-> None]
    /\ item = [i \in Items |-> None]
    /\ parse = [r \in Parses |-> [step |-> "IDLE", seen |-> {}]]
    /\ review = [v \in Reviews |-> None]
    /\ marking = "IDLE"
    /\ quoting = [step |-> "IDLE", lines |-> {}]

MoveTo(status) == inquiry' = [inquiry EXCEPT !.status = status]

ReadForParse(r) ==
    /\ parse[r].step = "IDLE"
    /\ "PARSING" \in TRANSITIONS[inquiry.status]
    /\ parse' = [parse EXCEPT ![r].step = "READ"]
    /\ UNCHANGED <<inquiry, item, review, marking, quoting>>

StartParse(r) ==
    /\ parse[r].step = "READ"
    /\ parse' = [parse EXCEPT ![r].step = "ASKED"]
    /\ MoveTo("PARSING")
    /\ UNCHANGED <<item, review, marking, quoting>>

\* A mutated form: a refused answer is returned and not recorded.
FailParse_Unrecorded(r) ==
    /\ parse[r].step = "ASKED"
    /\ parse' = [parse EXCEPT ![r].step = "DONE"]
    /\ UNCHANGED <<inquiry, item, review, marking, quoting>>

\* The provider was not reached or broke its contract.
FailParse(r) ==
    /\ parse[r].step = "ASKED"
    /\ parse' = [parse EXCEPT ![r].step = "DONE"]
    /\ MoveTo("PARSE_FAILED")
    /\ UNCHANGED <<item, review, marking, quoting>>

\* The second transaction deletes the proposals it can see.
ReceiveAnswer(r) ==
    /\ parse[r].step = "ASKED"
    /\ parse' = [parse EXCEPT ![r] = [step |-> "WRITING", seen |-> Present]]
    /\ UNCHANGED <<inquiry, item, review, marking, quoting>>

Proposal(product, written) ==
    [reviewStatus |-> IF product = None THEN "UNRESOLVED" ELSE "SUGGESTED",
     proposed |-> product, matched |-> None, unit |-> normalizeUnit(written)]

\* An answer of one line or none.  The status is not read again.
WriteProposals(r) ==
    /\ parse[r].step = "WRITING"
    /\ \E product \in Products \cup {None}, written \in Written \cup {None},
          new \in SUBSET Unused, intent \in Intents :
            /\ Cardinality(new) <= 1
            /\ item' = [i \in Items |->
                    IF i \in new THEN Proposal(product, written)
                    ELSE IF i \in parse[r].seen THEN Deleted
                    ELSE item[i]]
            /\ inquiry' = [status |-> "NEEDS_REVIEW", intent |-> intent]
    /\ parse' = [parse EXCEPT ![r] = [step |-> "DONE", seen |-> {}]]
    /\ UNCHANGED <<review, marking, quoting>>

\* The process stops during the call or before the second commit.
LoseParse(r) ==
    /\ parse[r].step \in {"ASKED", "WRITING"}
    /\ parse' = [parse EXCEPT ![r] = [step |-> "LOST", seen |-> {}]]
    /\ UNCHANGED <<inquiry, item, review, marking, quoting>>

-----------------------------------------------------------------------------
(* Review                                                                  *)

InReview == inquiry.status \in {"NEEDS_REVIEW", "READY_FOR_QUOTE"}

Changes ==
    [kind : {"confirm", "reject", "unresolve"}]
        \cup [kind : {"correct"}, product : Products]
        \cup [kind : {"requantify"}, written : Written \cup {None}]

\* The quantity form changes the unit only when one was written.
ApplyReview(change, row) ==
    CASE change.kind = "confirm"    -> [row EXCEPT !.reviewStatus = "CONFIRMED", !.matched = row.proposed]
      [] change.kind = "correct"    -> [row EXCEPT !.reviewStatus = "CORRECTED", !.matched = change.product]
      [] change.kind = "reject"     -> [row EXCEPT !.reviewStatus = "REJECTED", !.matched = None]
      [] change.kind = "unresolve"  -> [row EXCEPT !.reviewStatus = "UNRESOLVED", !.matched = None]
      [] change.kind = "requantify" ->
            IF change.written = None THEN row
            ELSE [row EXCEPT !.unit = normalizeUnit(change.written)]

BeginReview(v) ==
    /\ review[v] = None /\ InReview
    /\ \E i \in Present, change \in Changes :
          /\ change.kind = "confirm" => item[i].proposed # None
          /\ review' = [review EXCEPT ![v] = [item |-> i, change |-> change,
                                              status |-> inquiry.status]]
    /\ UNCHANGED <<inquiry, item, parse, marking, quoting>>

BeginAdd(v) ==
    /\ review[v] = None /\ InReview
    /\ \E p \in Products :
          review' = [review EXCEPT ![v] = [item |-> None, status |-> inquiry.status,
                                           change |-> [kind |-> "add", product |-> p]]]
    /\ UNCHANGED <<inquiry, item, parse, marking, quoting>>

\* Readiness is withdrawn when the request read the inquiry as ready.
Withdraw(status) ==
    IF status = "READY_FOR_QUOTE" THEN MoveTo("NEEDS_REVIEW") ELSE UNCHANGED inquiry

\* applyReview: an item deleted meanwhile raises, and nothing is written.
FinishReview(v) ==
    /\ review[v] # None /\ review[v].item # None
    /\ IF item[review[v].item] = Deleted THEN UNCHANGED <<inquiry, item>>
       ELSE /\ item' = [item EXCEPT ![review[v].item] = ApplyReview(review[v].change, @)]
            /\ Withdraw(review[v].status)
    /\ review' = [review EXCEPT ![v] = None]
    /\ UNCHANGED <<parse, marking, quoting>>

addManualItem(v) ==
    /\ review[v] # None /\ review[v].item = None
    /\ \E i \in Unused :
          item' = [item EXCEPT ![i] =
              [reviewStatus |-> "CORRECTED", proposed |-> None,
               matched |-> review[v].change.product, unit |-> UnitOf[review[v].change.product]]]
    /\ Withdraw(review[v].status)
    /\ review' = [review EXCEPT ![v] = None]
    /\ UNCHANGED <<parse, marking, quoting>>

-----------------------------------------------------------------------------
(* The gate and what passes it                                             *)

BeginMarkReady ==
    /\ marking = "IDLE" /\ inquiry.status = "NEEDS_REVIEW" /\ evaluateReadiness
    /\ marking' = "READ"
    /\ UNCHANGED <<inquiry, item, parse, review, quoting>>

markReadyForQuote ==
    /\ marking = "READ" /\ marking' = "IDLE"
    /\ MoveTo("READY_FOR_QUOTE")
    /\ UNCHANGED <<item, parse, review, quoting>>

\* No page offers it.
cancelInquiry ==
    /\ "CANCELLED" \in TRANSITIONS[inquiry.status]
    /\ MoveTo("CANCELLED")
    /\ UNCHANGED <<item, parse, review, marking, quoting>>

BeginQuote ==
    /\ quoting.step = "IDLE" /\ inquiry.status = "READY_FOR_QUOTE"
    /\ quoting' = [quoting EXCEPT !.step = "READ"]
    /\ UNCHANGED <<inquiry, item, parse, review, marking>>

QuotedLine(row) == [reviewStatus |-> row.reviewStatus, matched |-> row.matched]

\* A mutated form: the gate is trusted.
QuotableLines_Trusted == Retained # {}

\* createFromInquiry looks at the lines again, without their units.
QuotableLines == Retained # {} /\ \A i \in Retained : item[i].matched # None

FinishQuote ==
    /\ quoting.step = "READ"
    /\ IF QuotableLines
       THEN quoting' = [step |-> "DONE", lines |-> {QuotedLine(item[i]) : i \in Retained}]
       ELSE quoting' = [quoting EXCEPT !.step = "IDLE"]
    /\ UNCHANGED <<inquiry, item, parse, review, marking>>

-----------------------------------------------------------------------------
InquiryNext ==
    \/ \E r \in Parses :
          ReadForParse(r) \/ StartParse(r) \/ FailParse(r) \/ ReceiveAnswer(r)
              \/ WriteProposals(r) \/ LoseParse(r)
    \/ \E v \in Reviews : BeginReview(v) \/ BeginAdd(v) \/ FinishReview(v) \/ addManualItem(v)
    \/ BeginMarkReady \/ markReadyForQuote \/ cancelInquiry
    \/ BeginQuote \/ FinishQuote

InquirySpec == InquiryInit /\ [][InquiryNext]_inquiryVars

\* A started parse is a request of the server: it goes on until it answers or
\* the process is lost.
InquiryFairness ==
    \A r \in Parses : WF_inquiryVars(StartParse(r) \/ FailParse(r) \/ ReceiveAnswer(r)
                                         \/ WriteProposals(r) \/ LoseParse(r))

-----------------------------------------------------------------------------
(* Properties                                                              *)

InquiryTypeOK ==
    /\ inquiry \in [status : Statuses, intent : Intents \cup {None}]
    /\ \A i \in Items : item[i] \in ItemRow \cup {None, Deleted}
    /\ \A r \in Parses :
          parse[r] \in [step : {"IDLE", "READ", "ASKED", "WRITING", "DONE", "LOST"},
                        seen : SUBSET Items]
    /\ quoting.lines \subseteq [reviewStatus : Reviewed, matched : Products \cup {None}]

\* quotations/index.ts: "a quotation built from an unconfirmed match is exactly the
\* failure the two-column design exists to prevent".  Whatever a late parse or a
\* review under way did to a ready inquiry, a person decided every quoted line.
QuotedLinesAreDecided ==
    \A line \in quoting.lines : line.reviewStatus \in Decided /\ line.matched # None

\* runParse answers or fails: an inquiry does not stay in PARSING, which no
\* operation can leave, unless a process was lost during the call.
ParsingEnds ==
    (inquiry.status = "PARSING")
        ~> (inquiry.status # "PARSING" \/ \E r \in Parses : parse[r].step = "LOST")
=============================================================================
