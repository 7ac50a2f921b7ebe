-------------------------- MODULE Inquiries_proofs --------------------------
(***************************************************************************)
(* Proofs about an inquiry, for any number of items, parses and reviews:   *)
(* what somebody decided stays decided, whatever a late parse answers, and *)
(* only decided lines are quoted.                                          *)
(***************************************************************************)
EXTENDS Inquiries, TLAPS

USE DEF inquiryVars

\* A review under way is about an item that was inserted.
ReviewTyped(v) ==
    review[v] # None =>
        /\ review[v].status \in Statuses
        /\ IF review[v].item = None THEN review[v].change.product \in Products
           ELSE /\ review[v].item \in Items /\ item[review[v].item] # None
                /\ review[v].change \in Changes

\* A product stands in the matched column of decided lines only.
MatchIsDecided ==
    \A i \in Present : item[i].matched # None => item[i].reviewStatus \in Decided

InquiryInvariant ==
    /\ InquiryTypeOK
    /\ item \in [Items -> ItemRow \cup {None, Deleted}]
    /\ parse \in [Parses -> [step : {"IDLE", "READ", "ASKED", "WRITING", "DONE", "LOST"},
                             seen : SUBSET Items]]
    /\ DOMAIN review = Reviews
    /\ \A v \in Reviews : ReviewTyped(v)
    /\ quoting \in [step : {"IDLE", "READ", "DONE"},
                    lines : SUBSET [reviewStatus : Reviewed, matched : Products \cup {None}]]
    /\ MatchIsDecided
    /\ QuotedLinesAreDecided

LEMMA InquiryStarts == InquiryInit => InquiryInvariant
BY NoneIsNoItem DEF InquiryInit, InquiryInvariant, InquiryTypeOK, ReviewTyped, MatchIsDecided,
       QuotedLinesAreDecided, Present, Statuses

\* A decision leaves a row, with a product only if it decides.
LEMMA ReviewOfRow ==
    ASSUME NEW row \in ItemRow, NEW change \in Changes,
           row.matched # None => row.reviewStatus \in Decided
    PROVE  LET new == ApplyReview(change, row)
           IN  new \in ItemRow /\ (new.matched # None => new.reviewStatus \in Decided)
BY DEF Changes, ApplyReview, ItemRow, Decided, Reviewed, normalizeUnit

\* Nothing is added to the rows and the reviews go on: what holds of them still does.
LEMMA InquiryStep == InquiryInvariant /\ [InquiryNext]_inquiryVars => InquiryInvariant'
<1> SUFFICES ASSUME InquiryInvariant, [InquiryNext]_inquiryVars PROVE InquiryInvariant'
  OBVIOUS
<1>t. /\ inquiry \in [status : Statuses, intent : Intents \cup {None}]
      /\ item \in [Items -> ItemRow \cup {None, Deleted}]
      /\ DOMAIN review = Reviews
  BY DEF InquiryInvariant, InquiryTypeOK
<1>1. ASSUME NEW r \in Parses, ReadForParse(r) \/ StartParse(r) \/ FailParse(r) \/ ReceiveAnswer(r)
                                   \/ LoseParse(r)
      PROVE  InquiryInvariant'
  <2>1. /\ UNCHANGED <<item, review, quoting>>
        /\ inquiry' \in [status : Statuses, intent : Intents \cup {None}]
        /\ parse' \in [Parses -> [step : {"IDLE", "READ", "ASKED", "WRITING", "DONE", "LOST"},
                                  seen : SUBSET Items]]
    <3>1. CASE ReadForParse(r)
      BY <1>t, <3>1 DEF ReadForParse, InquiryInvariant
    <3>2. CASE StartParse(r)
      BY <1>t, <3>2 DEF StartParse, MoveTo, InquiryInvariant, Statuses
    <3>3. CASE FailParse(r)
      BY <1>t, <3>3 DEF FailParse, MoveTo, InquiryInvariant, Statuses
    <3>4. CASE ReceiveAnswer(r)
      BY <1>t, <3>4 DEF ReceiveAnswer, InquiryInvariant, Present
    <3>5. CASE LoseParse(r)
      BY <1>t, <3>5 DEF LoseParse, InquiryInvariant
    <3>6. QED
      BY <1>1, <3>1, <3>2, <3>3, <3>4, <3>5
  <2>2. QED
    BY <2>1 DEF InquiryInvariant, InquiryTypeOK, ReviewTyped, MatchIsDecided,
                QuotedLinesAreDecided, Present
<1>2. ASSUME NEW r \in Parses, WriteProposals(r) PROVE InquiryInvariant'
  <2>1. PICK product \in Products \cup {None}, written \in Written \cup {None},
             new \in SUBSET Unused, intent \in Intents :
          /\ Cardinality(new) <= 1
          /\ item' = [i \in Items |->
                IF i \in new THEN Proposal(product, written)
                ELSE IF i \in parse[r].seen THEN Deleted
                ELSE item[i]]
          /\ inquiry' = [status |-> "NEEDS_REVIEW", intent |-> intent]
    BY <1>2 DEF WriteProposals
  <2>2. Proposal(product, written) \in ItemRow /\ Proposal(product, written).matched = None
    BY DEF Proposal, ItemRow, normalizeUnit, Reviewed
  <2>3. item' \in [Items -> ItemRow \cup {None, Deleted}]
    BY <1>t, <2>1, <2>2
  <2>4. \A i \in Items : item[i] # None => item'[i] # None
    BY <2>1, <2>2, NoneIsNoItem
  <2>5. MatchIsDecided'
    BY <1>t, <2>1, <2>2 DEF MatchIsDecided, Present, InquiryInvariant
  <2>6. parse' \in [Parses -> [step : {"IDLE", "READ", "ASKED", "WRITING", "DONE", "LOST"},
                               seen : SUBSET Items]]
    BY <1>2 DEF WriteProposals, InquiryInvariant
  <2>7. UNCHANGED <<review, quoting>>
    BY <1>2 DEF WriteProposals
  <2>8. QED
    BY <2>1, <2>3, <2>4, <2>5, <2>6, <2>7 DEF InquiryInvariant, InquiryTypeOK, ReviewTyped,
       Statuses, QuotedLinesAreDecided
<1>3. ASSUME NEW v \in Reviews, BeginReview(v) \/ BeginAdd(v) PROVE InquiryInvariant'
  <2>1. UNCHANGED <<inquiry, item, parse, quoting>>
    BY <1>3 DEF BeginReview, BeginAdd
  <2>2. DOMAIN review' = Reviews /\ \A w \in Reviews \ {v} : review'[w] = review[w]
    BY <1>3, <1>t DEF BeginReview, BeginAdd
  <2>3. ReviewTyped(v)'
    <3>1. CASE BeginReview(v)
      <4>1. PICK i \in Present, change \in Changes :
              review'[v] = [item |-> i, change |-> change, status |-> inquiry.status]
        BY <1>t, <3>1 DEF BeginReview
      <4>2. QED
        BY <1>t, <2>1, <4>1, NoneIsNoItem DEF ReviewTyped, Present
    <3>2. CASE BeginAdd(v)
      <4>1. PICK p \in Products :
              review'[v] = [item |-> None, status |-> inquiry.status,
                            change |-> [kind |-> "add", product |-> p]]
        BY <1>t, <3>2 DEF BeginAdd
      <4>2. QED
        BY <1>t, <4>1 DEF ReviewTyped
    <3>3. QED
      BY <1>3, <3>1, <3>2
  <2>4. QED
    BY <2>1, <2>2, <2>3 DEF InquiryInvariant, InquiryTypeOK, ReviewTyped, MatchIsDecided,
       QuotedLinesAreDecided, Present
<1>4. ASSUME NEW v \in Reviews, FinishReview(v) \/ addManualItem(v) PROVE InquiryInvariant'
  <2>0. review[v] # None /\ ReviewTyped(v)
    BY <1>4 DEF FinishReview, addManualItem, InquiryInvariant
  <2>1. UNCHANGED <<parse, quoting>> /\ review' = [review EXCEPT ![v] = None]
    BY <1>4 DEF FinishReview, addManualItem
  <2>2. inquiry' \in [status : Statuses, intent : Intents \cup {None}]
    BY <1>4, <1>t DEF FinishReview, addManualItem, Withdraw, MoveTo, Statuses
  <2>3. /\ item' \in [Items -> ItemRow \cup {None, Deleted}]
        /\ \A i \in Items : item[i] # None => item'[i] # None
        /\ MatchIsDecided'
    <3>1. CASE FinishReview(v)
      <4>1. CASE UNCHANGED item
        BY <1>t, <4>1 DEF MatchIsDecided, Present, InquiryInvariant
      <4>2. CASE ~UNCHANGED item
        <5> DEFINE new == ApplyReview(review[v].change, item[review[v].item])
        <5>1. /\ review[v].item \in Present
              /\ review[v].change \in Changes
              /\ item' = [item EXCEPT ![review[v].item] = new]
          BY <2>0, <3>1, <4>2 DEF FinishReview, ReviewTyped, Present
        <5>2. item[review[v].item] \in ItemRow
          BY <1>t, <5>1 DEF Present
        <5>3. new \in ItemRow /\ (new.matched # None => new.reviewStatus \in Decided)
          BY <5>1, <5>2, ReviewOfRow DEF MatchIsDecided, InquiryInvariant
        <5> HIDE DEF new
        <5>4. QED
          BY <1>t, <5>1, <5>3, NoneIsNoItem DEF MatchIsDecided, Present, InquiryInvariant
      <4>3. QED
        BY <4>1, <4>2
    <3>2. CASE addManualItem(v)
      <4> DEFINE new == [reviewStatus |-> "CORRECTED", proposed |-> None,
                         matched |-> review[v].change.product,
                         unit |-> UnitOf[review[v].change.product]]
      <4>1. PICK i \in Unused : item' = [item EXCEPT ![i] = new]
        BY <3>2 DEF addManualItem
      <4>2. review[v].change.product \in Products
        BY <2>0, <3>2 DEF addManualItem, ReviewTyped
      <4>3. new \in ItemRow /\ new.reviewStatus \in Decided
        BY <4>2, UnitsAreCanonical DEF ItemRow, Reviewed, Decided
      <4> HIDE DEF new
      <4>4. QED
        BY <1>t, <4>1, <4>3, NoneIsNoItem DEF MatchIsDecided, Present, Unused, InquiryInvariant
    <3>3. QED
      BY <1>4, <3>1, <3>2
  <2>4. \A w \in Reviews : ReviewTyped(w)'
    BY <1>t, <2>1, <2>3 DEF ReviewTyped, InquiryInvariant
  <2>5. QED
    BY <1>t, <2>1, <2>2, <2>3, <2>4 DEF InquiryInvariant, InquiryTypeOK, QuotedLinesAreDecided
<1>5. CASE BeginMarkReady \/ markReadyForQuote \/ cancelInquiry
  <2>1. /\ UNCHANGED <<item, parse, review, quoting>>
        /\ inquiry' \in [status : Statuses, intent : Intents \cup {None}]
    BY <1>5, <1>t DEF BeginMarkReady, markReadyForQuote, cancelInquiry, MoveTo, Statuses
  <2>2. QED
    BY <2>1 DEF InquiryInvariant, InquiryTypeOK, ReviewTyped, MatchIsDecided,
                QuotedLinesAreDecided, Present
<1>6. CASE BeginQuote \/ FinishQuote
  <2>1. UNCHANGED <<inquiry, item, parse, review>>
    BY <1>6 DEF BeginQuote, FinishQuote
  <2>2. /\ quoting' \in [step : {"IDLE", "READ", "DONE"},
                         lines : SUBSET [reviewStatus : Reviewed, matched : Products \cup {None}]]
        /\ QuotedLinesAreDecided'
    <3>1. CASE quoting'.lines = quoting.lines /\ quoting' = [quoting EXCEPT !.step = quoting'.step]
      BY <1>6, <3>1 DEF BeginQuote, FinishQuote, InquiryInvariant, QuotedLinesAreDecided
    <3>2. CASE /\ QuotableLines
               /\ quoting' = [step |-> "DONE", lines |-> {QuotedLine(item[i]) : i \in Retained}]
      <4>1. \A i \in Retained : item[i] \in ItemRow /\ item[i].matched # None
                                    /\ item[i].reviewStatus \in Decided
        BY <1>t, <3>2 DEF QuotableLines, Retained, Present, MatchIsDecided, InquiryInvariant
      <4>2. \A i \in Retained :
              /\ QuotedLine(item[i]) \in [reviewStatus : Reviewed, matched : Products \cup {None}]
              /\ QuotedLine(item[i]).matched # None
              /\ QuotedLine(item[i]).reviewStatus \in Decided
        BY <4>1 DEF QuotedLine, ItemRow
      <4>3. QED
        BY <3>2, <4>2 DEF QuotedLinesAreDecided
    <3>3. QED
      BY <1>6, <3>1, <3>2 DEF BeginQuote, FinishQuote, InquiryInvariant
  <2>3. QED
    BY <2>1, <2>2 DEF InquiryInvariant, InquiryTypeOK, ReviewTyped, MatchIsDecided, Present
<1>7. CASE UNCHANGED inquiryVars
  BY <1>7 DEF InquiryInvariant, InquiryTypeOK, ReviewTyped, MatchIsDecided,
              QuotedLinesAreDecided, Present
<1>8. QED
  BY <1>1, <1>2, <1>3, <1>4, <1>5, <1>6, <1>7 DEF InquiryNext

LEMMA InquiryHolds == InquirySpec => []InquiryInvariant
BY InquiryStarts, InquiryStep, PTL DEF InquirySpec
=============================================================================
